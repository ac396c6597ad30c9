--------------------------- MODULE ObjectNameQuery ---------------------------
(***************************************************************************)
(* Object names queried on a worker thread with a timeout (WinSys          *)
(* Handles.cpp: ObjectNameQuery, its Worker, and their caller              *)
(* HandleNames::QueryName).  A name query on a file opened for synchronous *)
(* I/O waits for the I/O in progress on it, possibly forever; a worker     *)
(* that times out is abandoned and another takes over.                     *)
(*                                                                         *)
(* The caller and the workers share no lock: only two auto-reset events,   *)
(* two atomic flags and the order in which both sides touch them.  Every   *)
(* access is a step of its own here.  Handle values are reused as soon as  *)
(* they are closed, so an abandoned worker may hold a value that denotes   *)
(* another object by the time it is used.                                  *)
(***************************************************************************)
EXTENDS Naturals, FiniteSets, TLAPS

CONSTANTS
    Handles,      \* handle values of this process
    Objects,      \* the kernel objects handles refer to; an object stands for its name
    LongNames,    \* the objects whose name does not fit a worker's first buffer
    None,         \* std::nullopt, a null handle, no object
    Empty,        \* the empty name
    MaxWorkers    \* bound: worker threads started in a behaviour

ASSUME ConstantsAssumption ==
    /\ LongNames \subseteq Objects
    /\ None \notin Objects
    /\ None \notin Handles
    /\ None # Empty
    /\ Empty \notin Objects
    /\ MaxWorkers \in Nat

Workers == 1 .. MaxWorkers

VARIABLES
    \* the caller, in HandleNames::QueryName and ObjectNameQuery
    cpc,          \* the caller's next step
    handle,       \* its duplicate of the handle it was asked about
    result,       \* what GetName returned
    m_Worker,     \* the current worker, 0 for none
    m_Abandoned,  \* the workers that timed out
    \* the workers, each shared by its thread and the caller
    created,      \* the workers started so far are 1 .. created
    wpc,          \* a worker thread's next step
    Request, Done,     \* auto-reset events
    Abandoned, Exit,   \* atomic flags
    Target,       \* the handle value to query
    Name,         \* the answer
    grown,        \* the worker's buffer was grown
    \* the process and the system
    table,        \* this process's handle table
    wobj,         \* the object a worker's query is on, inside the system call
    busy          \* the objects with I/O in progress, whose queries do not return

callerVars == <<cpc, handle, result, m_Worker, m_Abandoned>>
sharedVars == <<created, Request, Done, Abandoned, Exit, Target, Name>>
threadVars == <<wpc, grown, wobj>>
systemVars == <<table, busy>>
vars == <<callerVars, sharedVars, threadVars, systemVars>>

-----------------------------------------------------------------------------
(* The worker thread: Worker::Run. *)

\* The wait consumes the auto-reset event.
WaitRequest(w) ==
    /\ wpc[w] = "wait"
    /\ Request[w]
    /\ Request' = [Request EXCEPT ![w] = FALSE]
    /\ wpc' = [wpc EXCEPT ![w] = "check"]
    /\ UNCHANGED <<callerVars, systemVars, created, Done, Abandoned, Exit, Target, Name, grown, wobj>>

CheckExit(w) ==
    /\ wpc[w] = "check"
    /\ IF Exit[w]
         THEN /\ wpc' = [wpc EXCEPT ![w] = "gone"]
              /\ UNCHANGED Name
         ELSE /\ wpc' = [wpc EXCEPT ![w] = "query"]
              /\ Name' = [Name EXCEPT ![w] = Empty]
    /\ UNCHANGED <<callerVars, systemVars, created, Request, Done, Abandoned, Exit, Target, grown, wobj>>

\* NtQueryObject takes its reference to the object when it is entered, from
\* whatever the handle value denotes then.  A closed handle, or any other
\* failure, leaves the name empty.
EnterQuery(w) ==
    /\ wpc[w] = "query"
    /\ \/ /\ Target[w] \in Handles
          /\ table[Target[w]] # None
          /\ wobj' = [wobj EXCEPT ![w] = table[Target[w]]]
          /\ wpc' = [wpc EXCEPT ![w] = "inquery"]
       \/ /\ wpc' = [wpc EXCEPT ![w] = "finish"]
          /\ UNCHANGED wobj
    /\ UNCHANGED <<callerVars, systemVars, sharedVars, grown>>

\* The call returns: the buffer was too small and the query is made again with
\* a larger one, or the name is stored.
ReturnQuery(w) ==
    /\ wpc[w] = "inquery"
    /\ wobj[w] \notin busy
    /\ wobj' = [wobj EXCEPT ![w] = None]
    /\ IF wobj[w] \in LongNames /\ ~grown[w]
         THEN /\ grown' = [grown EXCEPT ![w] = TRUE]
              /\ wpc' = [wpc EXCEPT ![w] = "query"]
              /\ UNCHANGED Name
         ELSE /\ Name' = [Name EXCEPT ![w] = wobj[w]]
              /\ wpc' = [wpc EXCEPT ![w] = "finish"]
              /\ UNCHANGED grown
    /\ UNCHANGED <<callerVars, systemVars, created, Request, Done, Abandoned, Exit, Target>>

\* The caller timed out and went on without this worker.
CheckAbandoned(w) ==
    /\ wpc[w] = "finish"
    /\ wpc' = [wpc EXCEPT ![w] = IF Abandoned[w] THEN "gone" ELSE "signal"]
    /\ UNCHANGED <<callerVars, systemVars, sharedVars, grown, wobj>>

SignalDone(w) ==
    /\ wpc[w] = "signal"
    /\ Done' = [Done EXCEPT ![w] = TRUE]
    /\ wpc' = [wpc EXCEPT ![w] = "wait"]
    /\ UNCHANGED <<callerVars, systemVars, created, Request, Abandoned, Exit, Target, Name, grown, wobj>>

Run(w) ==
    \/ WaitRequest(w)
    \/ CheckExit(w)
    \/ EnterQuery(w)
    \/ ReturnQuery(w)
    \/ CheckAbandoned(w)
    \/ SignalDone(w)

-----------------------------------------------------------------------------
(* The caller: HandleNames::QueryName around ObjectNameQuery::GetName. *)

\* QueryName duplicates a file's handle into this process, at a free value.
Duplicate(h, o) ==
    /\ cpc = "idle"
    /\ table[h] = None
    /\ table' = [table EXCEPT ![h] = o]
    /\ handle' = h
    /\ cpc' = "start"
    /\ UNCHANGED <<result, m_Worker, m_Abandoned, sharedVars, threadVars, busy>>

\* Mutant: the worker is used although its thread was not created.
StartWorker_Unchecked ==
    /\ cpc = "start"
    /\ m_Worker = 0
    /\ m_Worker' = created + 1
    /\ \/ /\ created < MaxWorkers
          /\ created' = created + 1
          /\ wpc' = [wpc EXCEPT ![created + 1] = "wait"]
       \/ UNCHANGED <<created, wpc>>
    /\ cpc' = "target"
    /\ UNCHANGED <<handle, result, m_Abandoned, Request, Done, Abandoned, Exit, Target, Name, grown, wobj, systemVars>>

\* Worker::Start, when there is no worker; creating the thread may fail.
StartWorker ==
    /\ cpc = "start"
    /\ m_Worker = 0
    /\ \/ /\ created < MaxWorkers
          /\ created' = created + 1
          /\ m_Worker' = created + 1
          /\ wpc' = [wpc EXCEPT ![created + 1] = "wait"]
          /\ cpc' = "target"
          /\ UNCHANGED result
       \/ /\ result' = None
          /\ cpc' = "close"
          /\ UNCHANGED <<created, m_Worker, wpc>>
    /\ UNCHANGED <<handle, m_Abandoned, Request, Done, Abandoned, Exit, Target, Name, grown, wobj, systemVars>>

ReuseWorker ==
    /\ cpc = "start"
    /\ m_Worker # 0
    /\ cpc' = "target"
    /\ UNCHANGED <<handle, result, m_Worker, m_Abandoned, sharedVars, threadVars, systemVars>>

SetTarget ==
    /\ cpc = "target"
    /\ Target' = [Target EXCEPT ![m_Worker] = handle]
    /\ cpc' = "request"
    /\ UNCHANGED <<handle, result, m_Worker, m_Abandoned, created, Request, Done, Abandoned, Exit, Name, threadVars, systemVars>>

\* Mutant: a second request while the worker is not known to be idle.
SetRequest_Early ==
    /\ cpc = "request"
    /\ Request' = [Request EXCEPT ![m_Worker] = TRUE]
    /\ cpc' \in {"wait", "target"}
    /\ UNCHANGED <<handle, result, m_Worker, m_Abandoned, created, Done, Abandoned, Exit, Target, Name, threadVars, systemVars>>

SetRequest ==
    /\ cpc = "request"
    /\ Request' = [Request EXCEPT ![m_Worker] = TRUE]
    /\ cpc' = "wait"
    /\ UNCHANGED <<handle, result, m_Worker, m_Abandoned, created, Done, Abandoned, Exit, Target, Name, threadVars, systemVars>>

WaitDone ==
    /\ cpc = "wait"
    /\ Done[m_Worker]
    /\ Done' = [Done EXCEPT ![m_Worker] = FALSE]
    /\ cpc' = "take"
    /\ UNCHANGED <<handle, result, m_Worker, m_Abandoned, created, Request, Abandoned, Exit, Target, Name, threadVars, systemVars>>

\* The name is moved out of the worker.
TakeName ==
    /\ cpc = "take"
    /\ result' = Name[m_Worker]
    /\ Name' = [Name EXCEPT ![m_Worker] = Empty]
    /\ cpc' = "close"
    /\ UNCHANGED <<handle, m_Worker, m_Abandoned, created, Request, Done, Abandoned, Exit, Target, threadVars, systemVars>>

\* Mutant: an infinite wait.
Timeout_Never ==
    /\ FALSE
    /\ UNCHANGED vars

\* The wait times out before the worker answers; the answer may come any time
\* between here and the steps that follow.
Timeout ==
    /\ cpc = "wait"
    /\ ~Done[m_Worker]
    /\ cpc' = "abandon"
    /\ UNCHANGED <<handle, result, m_Worker, m_Abandoned, sharedVars, threadVars, systemVars>>

SetAbandoned ==
    /\ cpc = "abandon"
    /\ Abandoned' = [Abandoned EXCEPT ![m_Worker] = TRUE]
    /\ cpc' = "exit"
    /\ UNCHANGED <<handle, result, m_Worker, m_Abandoned, created, Request, Done, Exit, Target, Name, threadVars, systemVars>>

SetExit ==
    /\ cpc = "exit"
    /\ Exit' = [Exit EXCEPT ![m_Worker] = TRUE]
    /\ cpc' = "wake"
    /\ UNCHANGED <<handle, result, m_Worker, m_Abandoned, created, Request, Done, Abandoned, Target, Name, threadVars, systemVars>>

\* Mutant: a worker that finished meanwhile is not woken.
WakeAbandoned_NoWake ==
    /\ cpc = "wake"
    /\ cpc' = "reset"
    /\ UNCHANGED <<handle, result, m_Worker, m_Abandoned, sharedVars, threadVars, systemVars>>

\* Wakes the worker if it answered just after the timeout and waits again.
WakeAbandoned ==
    /\ cpc = "wake"
    /\ Request' = [Request EXCEPT ![m_Worker] = TRUE]
    /\ cpc' = "reset"
    /\ UNCHANGED <<handle, result, m_Worker, m_Abandoned, created, Done, Abandoned, Exit, Target, Name, threadVars, systemVars>>

\* Mutant: the timed-out worker is kept for the next request.
ResetWorker_KeepWorker ==
    /\ cpc = "reset"
    /\ m_Abandoned' = m_Abandoned + 1
    /\ result' = None
    /\ cpc' = "close"
    /\ UNCHANGED <<handle, m_Worker, sharedVars, threadVars, systemVars>>

ResetWorker ==
    /\ cpc = "reset"
    /\ m_Worker' = 0
    /\ m_Abandoned' = m_Abandoned + 1
    /\ result' = None
    /\ cpc' = "close"
    /\ UNCHANGED <<handle, sharedVars, threadVars, systemVars>>

\* QueryName's duplicate goes out of scope.
CloseDuplicate ==
    /\ cpc = "close"
    /\ table' = [table EXCEPT ![handle] = None]
    /\ handle' = None
    /\ cpc' = "idle"
    /\ UNCHANGED <<result, m_Worker, m_Abandoned, sharedVars, threadVars, busy>>

\* ~ObjectNameQuery, of a query with a worker: the flag, then the event.  The
\* next query is a new object (the registry resolver makes one for each pass).
DestroyExit ==
    /\ cpc = "idle"
    /\ m_Worker # 0
    /\ Exit' = [Exit EXCEPT ![m_Worker] = TRUE]
    /\ cpc' = "destroy"
    /\ UNCHANGED <<handle, result, m_Worker, m_Abandoned, created, Request, Done, Abandoned, Target, Name, threadVars, systemVars>>

DestroyWake ==
    /\ cpc = "destroy"
    /\ Request' = [Request EXCEPT ![m_Worker] = TRUE]
    /\ m_Worker' = 0
    /\ m_Abandoned' = 0
    /\ cpc' = "idle"
    /\ UNCHANGED <<handle, result, created, Done, Abandoned, Exit, Target, Name, threadVars, systemVars>>

GetName ==
    \/ StartWorker \/ ReuseWorker
    \/ SetTarget \/ SetRequest \/ WaitDone \/ TakeName
    \/ Timeout \/ SetAbandoned \/ SetExit \/ WakeAbandoned \/ ResetWorker
    \/ CloseDuplicate \/ DestroyWake

-----------------------------------------------------------------------------
(* The rest of the process and the system (external). *)

\* Another thread opens or closes a handle that is not the caller's.
OtherOpen(h, o) ==
    /\ table[h] = None
    /\ table' = [table EXCEPT ![h] = o]
    /\ UNCHANGED <<callerVars, sharedVars, threadVars, busy>>

OtherClose(h) ==
    /\ table[h] # None
    /\ h # handle
    /\ table' = [table EXCEPT ![h] = None]
    /\ UNCHANGED <<callerVars, sharedVars, threadVars, busy>>

\* Synchronous I/O begins or ends on an object.
SetBusy(o) ==
    /\ busy' = IF o \in busy THEN busy \ {o} ELSE busy \cup {o}
    /\ UNCHANGED <<callerVars, sharedVars, threadVars, table>>

-----------------------------------------------------------------------------
Init ==
    /\ cpc = "idle"
    /\ handle = None
    /\ result = None
    /\ m_Worker = 0
    /\ m_Abandoned = 0
    /\ created = 0
    /\ wpc = [w \in Workers |-> "none"]
    /\ Request = [w \in Workers |-> FALSE]
    /\ Done = [w \in Workers |-> FALSE]
    /\ Abandoned = [w \in Workers |-> FALSE]
    /\ Exit = [w \in Workers |-> FALSE]
    /\ Target = [w \in Workers |-> None]
    /\ Name = [w \in Workers |-> Empty]
    /\ grown = [w \in Workers |-> FALSE]
    /\ table = [h \in Handles |-> None]
    /\ wobj = [w \in Workers |-> None]
    /\ busy = {}

Next ==
    \/ \E w \in Workers : Run(w)
    \/ GetName
    \/ DestroyExit
    \/ \E h \in Handles, o \in Objects : Duplicate(h, o) \/ OtherOpen(h, o)
    \/ \E h \in Handles : OtherClose(h)
    \/ \E o \in Objects : SetBusy(o)

Spec == Init /\ [][Next]_vars

\* Threads that can run do run, and a timed wait ends.  Nothing makes the I/O on
\* an object end, nor a client ask or destroy the query.
FairSpec ==
    /\ Spec
    /\ WF_vars(GetName)
    /\ \A w \in Workers : WF_vars(Run(w))

-----------------------------------------------------------------------------
(* Properties. *)

\* The caller has a worker that was started, an answer is a name or nothing, and
\* a worker thread is at a step of Worker::Run.
TypeOK ==
    /\ cpc \in {"idle", "start", "target", "request", "wait", "take", "abandon",
                "exit", "wake", "reset", "close", "destroy"}
    /\ handle \in Handles \cup {None}
    /\ result \in Objects \cup {Empty, None}
    /\ m_Worker \in 0 .. created
    /\ m_Abandoned \in Nat
    /\ created \in 0 .. MaxWorkers
    /\ wpc \in [Workers -> {"none", "wait", "check", "query", "inquery",
                            "finish", "signal", "gone"}]
    /\ Request \in [Workers -> BOOLEAN]
    /\ Done \in [Workers -> BOOLEAN]
    /\ Abandoned \in [Workers -> BOOLEAN]
    /\ Exit \in [Workers -> BOOLEAN]
    /\ Target \in [Workers -> Handles \cup {None}]
    /\ Name \in [Workers -> Objects \cup {Empty}]
    /\ grown \in [Workers -> BOOLEAN]
    /\ table \in [Handles -> Objects \cup {None}]
    /\ wobj \in [Workers -> Objects \cup {None}]
    /\ busy \in SUBSET Objects

\* GetName's answer is the name of the object the caller's own handle denotes
\* (or empty, when the query failed): never what an abandoned worker found for
\* an earlier handle, and never what a reused handle value denotes.
AnswerIsForHandle ==
    cpc = "close" /\ result # None => result \in {table[handle], Empty}

\* Name and Target are plain fields.  The caller touches them only while the
\* worker sleeps on a request that has not been made yet.
CallerAndWorkerTakeTurns ==
    cpc \in {"target", "take"} =>
        /\ wpc[m_Worker] = "wait"
        /\ ~Request[m_Worker]

\* A worker nobody refers to any longer ends, unless it is inside a query on an
\* object with I/O in progress ("it ends by itself if its query ever returns").
Released(w) == w \in 1 .. created /\ w # m_Worker
OrphansEnd ==
    \A w \in Workers :
        Released(w) ~> (wpc[w] = "gone" \/ wobj[w] \in busy)

\* Whatever the object, GetName returns to its caller.
GetNameReturns == (cpc = "start") ~> (cpc = "close")

-----------------------------------------------------------------------------
(* For any number of handles, objects and workers: the answer of           *)
(* ObjectNameQuery::GetName is the name of the object behind the caller's  *)
(* own handle, and the caller never touches a worker's plain fields while  *)
(* the worker may.  Neither is inductive by itself.  What makes them true  *)
(* is the handshake: a worker the caller still has, outside of a request,  *)
(* sleeps with both events reset, and while a request is out exactly one   *)
(* of "requested", "in progress" and "done" holds, on the caller's handle. *)

\* A worker not started yet has its initial fields.
Fresh ==
    \A w \in Workers : w > created =>
        /\ wpc[w] = "none"
        /\ ~Request[w]
        /\ ~Done[w]
        /\ ~Abandoned[w]
        /\ ~Exit[w]

\* The caller's duplicate stays open while it is inside QueryName.
HandleHeld ==
    cpc \notin {"idle", "destroy"} =>
        /\ handle \in Handles
        /\ table[handle] \in Objects

\* From the request to the answer there is a worker.
WorkerPresent ==
    cpc \in {"target", "request", "wait", "take", "abandon", "exit", "wake", "reset", "destroy"}
        => m_Worker \in Workers

\* Outside of a request the caller's worker sleeps, with nothing signalled.
WorkerIdle ==
    cpc \in {"idle", "start", "target", "request", "take", "close"} /\ m_Worker # 0 =>
        /\ wpc[m_Worker] = "wait"
        /\ ~Request[m_Worker]
        /\ ~Done[m_Worker]
        /\ ~Exit[m_Worker]

\* A worker inside the system call holds an object.
QueryHolds == \A w \in Workers : wpc[w] = "inquery" => wobj[w] \in Objects

TargetSet == cpc \in {"request", "wait"} => Target[m_Worker] = handle

HasAnswer == Name[m_Worker] \in {Empty, table[handle]}

\* A request is pending, in progress on the caller's object, or answered.
Pending == wpc[m_Worker] = "wait" /\ Request[m_Worker] /\ ~Done[m_Worker]
InProgress ==
    /\ wpc[m_Worker] \in {"check", "query", "inquery", "finish", "signal"}
    /\ ~Request[m_Worker]
    /\ ~Done[m_Worker]
    /\ wpc[m_Worker] # "check" => HasAnswer
    /\ wpc[m_Worker] = "inquery" => wobj[m_Worker] = table[handle]
Answered == wpc[m_Worker] = "wait" /\ ~Request[m_Worker] /\ Done[m_Worker] /\ HasAnswer
Serving ==
    cpc = "wait" =>
        /\ ~Exit[m_Worker]
        /\ ~Abandoned[m_Worker]
        /\ Pending \/ InProgress \/ Answered

\* No worker the caller may still use was abandoned, and a taken answer fits.
NotAbandoned ==
    cpc \in {"idle", "start", "target", "request", "take", "close", "destroy"} /\ m_Worker # 0
        => ~Abandoned[m_Worker]
Taken == cpc = "take" => HasAnswer

IInv ==
    /\ TypeOK
    /\ Fresh
    /\ HandleHeld
    /\ WorkerPresent
    /\ WorkerIdle
    /\ QueryHolds
    /\ TargetSet
    /\ Serving
    /\ NotAbandoned
    /\ Taken
    /\ AnswerIsForHandle

LEMMA InitIInv == Init => IInv
  BY ConstantsAssumption DEF Init, IInv, Workers, TypeOK, Fresh, HandleHeld, WorkerPresent,
    WorkerIdle, QueryHolds, TargetSet, Serving, NotAbandoned, Taken, AnswerIsForHandle

LEMMA NextIInv == IInv /\ [Next]_vars => IInv'
<1> SUFFICES ASSUME IInv, [Next]_vars PROVE IInv'
  OBVIOUS
<1> USE ConstantsAssumption DEF IInv, Workers, callerVars, sharedVars, threadVars, systemVars,
        TypeOK, Fresh, HandleHeld, WorkerPresent, WorkerIdle, QueryHolds, TargetSet, HasAnswer, Pending,
           InProgress, Answered, Serving, NotAbandoned, Taken, AnswerIsForHandle
<1>1. ASSUME NEW w \in Workers, WaitRequest(w) PROVE IInv'
  BY <1>1 DEF WaitRequest
<1>2. ASSUME NEW w \in Workers, CheckExit(w) PROVE IInv'
  <2>1. CASE Exit[w]
    BY <1>2, <2>1 DEF CheckExit
  <2>2. CASE ~Exit[w]
    <3>1. TypeOK'
      BY <1>2, <2>2 DEF CheckExit
    <3>2. Serving'
      BY <1>2, <2>2 DEF CheckExit
    <3>3. Taken'
      BY <1>2, <2>2 DEF CheckExit
    <3> QED
      BY <1>2, <2>2, <3>1, <3>2, <3>3 DEF CheckExit
  <2> QED
    BY <2>1, <2>2
<1>3. ASSUME NEW w \in Workers, EnterQuery(w) PROVE IInv'
  <2>1. CASE wobj' = wobj
    BY <1>3, <2>1 DEF EnterQuery
  <2>2. CASE /\ Target[w] \in Handles
             /\ table[Target[w]] # None
             /\ wobj' = [wobj EXCEPT ![w] = table[Target[w]]]
             /\ wpc' = [wpc EXCEPT ![w] = "inquery"]
    <3>1. TypeOK'
      BY <1>3, <2>2 DEF EnterQuery
    <3>2. Serving'
      BY <1>3, <2>2 DEF EnterQuery
    <3> QED
      BY <1>3, <2>2, <3>1, <3>2 DEF EnterQuery
  <2> QED
    BY <1>3, <2>1, <2>2 DEF EnterQuery
<1>4. ASSUME NEW w \in Workers, ReturnQuery(w) PROVE IInv'
  <2>1. CASE wobj[w] \in LongNames /\ ~grown[w]
    <3>1. TypeOK'
      BY <1>4, <2>1 DEF ReturnQuery
    <3>2. Serving'
      BY <1>4, <2>1 DEF ReturnQuery
    <3> QED
      BY <1>4, <2>1, <3>1, <3>2 DEF ReturnQuery
  <2>2. CASE ~(wobj[w] \in LongNames /\ ~grown[w])
    <3>1. wobj[w] \in Objects
      BY <1>4 DEF ReturnQuery
    <3>2. TypeOK'
      BY <1>4, <2>2, <3>1, ZenonT(60) DEF ReturnQuery
    <3>3. Serving'
      BY <1>4, <2>2 DEF ReturnQuery
    <3> QED
      BY <1>4, <2>2, <3>2, <3>3 DEF ReturnQuery
  <2> QED
    BY <2>1, <2>2
<1>5. ASSUME NEW w \in Workers, CheckAbandoned(w) PROVE IInv'
  BY <1>5 DEF CheckAbandoned
<1>6. ASSUME NEW w \in Workers, SignalDone(w) PROVE IInv'
  BY <1>6 DEF SignalDone
<1>7. CASE StartWorker
  BY <1>7 DEF StartWorker
<1>8. CASE ReuseWorker
  BY <1>8 DEF ReuseWorker
<1>9. CASE SetTarget
  BY <1>9 DEF SetTarget
<1>10. CASE SetRequest
  BY <1>10 DEF SetRequest
<1>11. CASE WaitDone
  BY <1>11 DEF WaitDone
<1>12. CASE TakeName
  BY <1>12 DEF TakeName
<1>13. CASE Timeout
  BY <1>13 DEF Timeout
<1>14. CASE SetAbandoned
  BY <1>14 DEF SetAbandoned
<1>15. CASE SetExit
  BY <1>15 DEF SetExit
<1>16. CASE WakeAbandoned
  BY <1>16 DEF WakeAbandoned
<1>17. CASE ResetWorker
  BY <1>17 DEF ResetWorker
<1>18. CASE CloseDuplicate
  BY <1>18 DEF CloseDuplicate
<1>19. CASE DestroyWake
  BY <1>19 DEF DestroyWake
<1>20. CASE DestroyExit
  BY <1>20 DEF DestroyExit
<1>21. ASSUME NEW h \in Handles, NEW o \in Objects, Duplicate(h, o) PROVE IInv'
  BY <1>21 DEF Duplicate
<1>22. ASSUME NEW h \in Handles, NEW o \in Objects, OtherOpen(h, o) PROVE IInv'
  BY <1>22 DEF OtherOpen
<1>23. ASSUME NEW h \in Handles, OtherClose(h) PROVE IInv'
  BY <1>23 DEF OtherClose
<1>24. ASSUME NEW o \in Objects, SetBusy(o) PROVE IInv'
  BY <1>24 DEF SetBusy
<1>25. CASE UNCHANGED vars
  BY <1>25 DEF vars
<1>q. QED
  BY <1>1, <1>2, <1>3, <1>4, <1>5, <1>6, <1>7, <1>8, <1>9, <1>10, <1>11, <1>12, <1>13, <1>14, <1>15, <1>16, <1>17, <1>18, <1>19, <1>20, <1>21, <1>22, <1>23, <1>24, <1>25 DEF Next, Run, GetName

\* GetName's answer is for the caller's own handle, whatever an abandoned
\* worker finds later and however handle values are reused.
THEOREM AnswerCorrect == Spec => []AnswerIsForHandle
<1>1. IInv => AnswerIsForHandle
  BY DEF IInv
<1> QED
  BY InitIInv, NextIInv, <1>1, PTL DEF Spec

\* The caller writes Target and moves Name only while the worker sleeps and no
\* request can wake it: the two plain fields are never raced for.
THEOREM TakeTurns == Spec => []CallerAndWorkerTakeTurns
<1>1. IInv => CallerAndWorkerTakeTurns
  BY DEF IInv, WorkerIdle, WorkerPresent, TypeOK, Workers, CallerAndWorkerTakeTurns
<1> QED
  BY InitIInv, NextIInv, <1>1, PTL DEF Spec

\* The type invariant; with it, m_Worker is always a worker whose thread was
\* created.
THEOREM TypeCorrect == Spec => []TypeOK
<1>1. IInv => TypeOK
  BY DEF IInv
<1> QED
  BY InitIInv, NextIInv, <1>1, PTL DEF Spec
=============================================================================
