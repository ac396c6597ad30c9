---------------------------- MODULE ProcessHandles ----------------------------
(***************************************************************************)
(* Looking at and closing a handle of another process, which goes on       *)
(* opening and closing handles (WinSys Handles.cpp, HandleNames;           *)
(* ObjectDetails.cpp, ObjectInspector).                                    *)
(*                                                                         *)
(* The handle's value was listed with a type.  A file opened for           *)
(* synchronous I/O holds up the queries on it while its I/O is in          *)
(* progress.                                                               *)
(***************************************************************************)
EXTENDS Naturals, FiniteSets

CONSTANTS
    Types,      \* object -> "File", "Process" (it stands for Thread too), "Event" (for the others)
    ReusedForAny,   \* whether the value may come to refer to an object of another type than listed
    FileQueries,    \* how many queries a file's details take
    MaxCalls, MaxReuses \* bounds

Objects == DOMAIN Types
NoObject == 0
NoDetails == [kind |-> "none"]

VARIABLES
    slot,       \* what the listed value refers to in the other process, or NoObject
    busy,       \* files whose I/O in progress has not ended
    at,         \* "rest", "query", "again", "file", "close", "end"
    op, type,   \* the call: "name", "details", "open", "close", and the listed type
    h,          \* its duplicate's object
    details,    \* its result
    workers,    \* threads of file queries: [call, object, done]
    calls, reuses,
    closed      \* history: what CloseInProcess closed

callVars == <<at, op, type, h, details, calls>>
handleVars == <<slot, busy, callVars, workers, reuses, closed>>

IsFile(o) == o # NoObject /\ Types[o] = "File"
Blocked(o) == o \in busy

-----------------------------------------------------------------------------
(* The other process.                                                        *)

Reuse ==
    /\ reuses < MaxReuses
    /\ reuses' = reuses + 1
    /\ slot' \in {NoObject} \cup {o \in Objects : ReusedForAny \/ Types[o] = type}
    /\ UNCHANGED <<busy, callVars, workers, closed>>
EndIo == \E o \in busy : busy' = busy \ {o} /\ UNCHANGED <<slot, callVars, workers, reuses, closed>>

-----------------------------------------------------------------------------
(* The calls.                                                                *)

Result(d) == at' = "end" /\ details' = d
Failed == [kind |-> "failed"]

\* DuplicateHandle, and but for a name the duplicate's type against the listed one
SameType(object) == Types[object] = type'
Call ==
    /\ at = "rest" /\ calls < MaxCalls
    /\ calls' = calls + 1
    /\ op' \in {"name", "details", "open", "close"}
    /\ UNCHANGED type
    /\ h' = slot
    /\ IF slot = NoObject \/ (op' # "name" /\ ~SameType(slot)) THEN Result(Failed)
       ELSE CASE op' = "name" -> at' = "query" /\ details' = NoDetails
              [] op' = "details" ->
                   /\ at' = CASE type = "Process" -> "again" [] type = "File" -> "file" [] OTHER -> "end"
                   /\ details' = [kind |-> "details", counts |-> slot, own |-> IF type = "Event" THEN slot ELSE NoObject, queried |-> 0]
              [] op' = "open" -> Result([kind |-> "open", object |-> slot])
              [] op' = "close" -> at' = "close" /\ details' = NoDetails
    /\ workers' = IF at' = "file" THEN workers \cup {[call |-> calls', object |-> slot, done |-> 0]} ELSE workers
    /\ UNCHANGED <<slot, busy, reuses, closed>>

\* QueryName: a file's name through ObjectNameQuery, which gives up in time; a process's by its ID
NameTimesOut ==
    /\ at = "query" /\ type = "File"
    /\ Result([kind |-> "name", object |-> NoObject])
    /\ UNCHANGED <<slot, busy, op, type, h, calls, workers, reuses, closed>>
\* the others' directly; no ID, no name
QueryName ==
    /\ at = "query"
    /\ type = "Process" \/ ~Blocked(h)
    /\ Result([kind |-> "name", object |-> IF type = "Process" /\ Types[h] # type THEN NoObject ELSE h])
    /\ UNCHANGED <<slot, busy, op, type, h, calls, workers, reuses, closed>>

\* a process's details are queried through another duplicate, with the access that needs, or else through the first
DuplicateWith ==
    /\ at = "again"
    /\ \E target \in {h} \cup ({slot} \ {NoObject}) :
          Result([details EXCEPT !.own = IF Types[target] = "Process" THEN target ELSE NoObject])
    /\ UNCHANGED <<slot, busy, op, type, h, calls, workers, reuses, closed>>

\* the thread: one query after the other, held up by the file's I/O
FileQuery(w) ==
    /\ w.done < FileQueries /\ ~Blocked(w.object)
    /\ workers' = (workers \ {w}) \cup {[w EXCEPT !.done = @ + 1]}
    /\ UNCHANGED <<slot, busy, callVars, reuses, closed>>
FileQueryEnds(w) ==
    /\ w.done = FileQueries /\ ~(at = "file" /\ w.call = calls)
    /\ workers' = workers \ {w}
    /\ UNCHANGED <<slot, busy, callVars, reuses, closed>>
FileResult(w) ==
    IF w.done = FileQueries THEN [details EXCEPT !.own = w.object, !.queried = w.done]
    ELSE [details EXCEPT !.queried = 0]     \* timed out
\* they are done, or the time is over
FileDone ==
    /\ at = "file"
    /\ \E w \in workers : w.call = calls /\ Result(FileResult(w))
    /\ UNCHANGED <<slot, busy, op, type, h, calls, workers, reuses, closed>>

\* DUPLICATE_CLOSE_SOURCE: by the value
CloseSource ==
    /\ at = "close"
    /\ IF slot = NoObject THEN Result(Failed) ELSE Result([kind |-> "closed", object |-> slot])
    /\ slot' = NoObject
    /\ closed' = closed \cup ({slot} \ {NoObject})
    /\ UNCHANGED <<busy, op, type, h, calls, workers, reuses>>

Return ==
    /\ at = "end"
    /\ at' = "rest" /\ h' = NoObject
    /\ UNCHANGED <<slot, busy, op, type, details, calls, workers, reuses, closed>>

-----------------------------------------------------------------------------
Init ==
    /\ slot \in {o \in Objects : \A p \in Objects : Types[o] = Types[p] => o <= p}
    /\ busy \in SUBSET {o \in Objects : IsFile(o)}
    /\ at = "rest" /\ op = "name" /\ type = Types[slot] /\ h = NoObject /\ details = NoDetails /\ calls = 0
    /\ workers = {} /\ reuses = 0 /\ closed = {}

Caller == NameTimesOut \/ QueryName \/ DuplicateWith \/ FileDone \/ CloseSource \/ Return
Next ==
    \/ Call \/ Caller
    \/ \E w \in workers : FileQuery(w) \/ FileQueryEnds(w)
    \/ Reuse \/ EndIo

\* the caller goes on; I/O need not end
Fairness == WF_handleVars(Caller) /\ WF_handleVars(\E w \in workers : FileQuery(w))
Spec == Init /\ [][Next]_handleVars /\ Fairness

TypeOK ==
    /\ h \in Objects \cup {NoObject} /\ slot \in Objects \cup {NoObject}
    /\ at \in {"query", "again", "file", "close"} => h # NoObject
    /\ Cardinality(workers) <= calls

(* An object's details are of one object of the listed type, and a file's    *)
(* are all there or none; a process's other details are a process's.         *)
DetailsAreWhole ==
    at = "end" /\ details.kind = "details" =>
        /\ Types[details.counts] = type
        /\ details.own # NoObject => Types[details.own] = type
        /\ type # "Process" => details.own \in {NoObject, details.counts}
        /\ details.queried \in {0, FileQueries}

(* "closes the handle in its process, if it still refers to an object of the *)
(* type (the value may have been closed and reused since it was listed)"     *)
(* (Handles.h:151).                                                          *)
ClosesListedType == \A o \in closed : Types[o] = type

(* "File names are queried through nameQuery (a file's query can hang) and   *)
(* only if queryFiles; the rest directly" (Handles.h:146); "other objects'   *)
(* queries don't block" (Handles.cpp:374): a call returns, though a file's   *)
(* I/O never ends.                                                           *)
InCall == at # "rest"
HandleCallsReturn == InCall ~> ~InCall

=============================================================================
