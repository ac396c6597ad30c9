--------------------------- MODULE ProcessCreation ---------------------------
(***************************************************************************)
(* The process creation tracker (WinSys ProcessCreation.cpp:               *)
(* ProcessCreationTracker): who created each process, and the exits a      *)
(* history takes, from a process's start and stop events.                  *)
(*                                                                         *)
(* A process is known by its creation time and ID, never reused together.  *)
(* Its creator is its parent, a service that creates processes on someone  *)
(* else's behalf, or another process; which service a process hosts is     *)
(* asked when the event arrives, which may be after the creation by the    *)
(* time a buffer takes to be delivered.  The two events are in the buffers *)
(* of two processors.  An event that is lost never arrives.                *)
(* A handler's shared data is under one lock, Stop joins the trace's       *)
(* thread before it clears the records, so each is one step.               *)
(***************************************************************************)
EXTENDS Naturals, Functions

CONSTANTS
    Processes,
    Creators,     \* the IDs of the processes that create others
    Service,      \* that of the process that hosts the service at first
    ExitedKept,
    MaxNow,       \* bound: the clock
    ServiceStops  \* whether the service may stop

VARIABLES
    m_Creations,  \* process -> [creator, started, exit, taken]
    running,      \* the session runs
    host,         \* the process the service runs in, Nobody if it is stopped
    state,        \* process -> "unborn", "running" or "exited"
    made,         \* process -> [creator, parent, kind]: kind is what its creator was
    exitTime,     \* process -> when it exited, 0 before
    inFlight,     \* the events not delivered yet: <<process, "start" or "stop">>
    now,
    known,        \* history: the events delivered, less those of the processes removed
    handed        \* history: process -> how often its exit was returned

trackerVars == <<m_Creations, running>>
systemVars == <<host, state, made, exitTime, inFlight, now>>
creationVars == <<trackerVars, systemVars, known, handed>>

Nobody == 0
Empty == <<>>   \* the function with no arguments
Record == [creator |-> "Parent", started |-> FALSE, exit |-> 0, taken |-> FALSE]
RecordOf(p) == IF p \in DOMAIN m_Creations THEN m_Creations[p] ELSE Record
WithRecord(p, c) == [q \in DOMAIN m_Creations \cup {p} |-> IF q = p THEN c ELSE m_Creations[q]]

\* what a creation is while it happens
Kind(creator, parent) ==
    IF creator = parent THEN "Parent" ELSE IF creator = host THEN "OnBehalf" ELSE "Other"

-----------------------------------------------------------------------------
(* The system.                                                               *)

Log(p, what) == inFlight' = IF running THEN inFlight \cup {<<p, what>>} ELSE inFlight

Create(p, creator, parent) ==
    /\ state[p] = "unborn"
    /\ state' = [state EXCEPT ![p] = "running"]
    /\ made' = [made EXCEPT ![p] = [creator |-> creator, parent |-> parent, kind |-> Kind(creator, parent)]]
    /\ Log(p, "start")
    /\ UNCHANGED <<trackerVars, host, exitTime, now, known, handed>>

Exit(p) ==
    /\ state[p] = "running"
    /\ state' = [state EXCEPT ![p] = "exited"]
    /\ exitTime' = [exitTime EXCEPT ![p] = now]
    /\ Log(p, "stop")
    /\ UNCHANGED <<trackerVars, host, made, now, known, handed>>

\* buffers are delivered long before an exit is forgotten
Tick ==
    /\ now < MaxNow
    /\ \A e \in inFlight : exitTime[e[1]] = 0 \/ now + 1 - exitTime[e[1]] <= ExitedKept
    /\ now' = now + 1
    /\ UNCHANGED <<trackerVars, host, state, made, exitTime, inFlight, known, handed>>

Lose(e) ==
    /\ inFlight' = inFlight \ {e}
    /\ UNCHANGED <<trackerVars, host, state, made, exitTime, now, known, handed>>

ServiceStop ==
    /\ ServiceStops /\ host # Nobody
    /\ host' = Nobody
    /\ UNCHANGED <<trackerVars, state, made, exitTime, inFlight, now, known, handed>>

-----------------------------------------------------------------------------
(* The tracker.                                                              *)

Start ==
    /\ ~running
    /\ running' = TRUE
    /\ UNCHANGED <<m_Creations, systemVars, known, handed>>

Stop ==
    /\ running
    /\ running' = FALSE
    /\ m_Creations' = Empty
    /\ inFlight' = {} /\ known' = {}
    /\ UNCHANGED <<host, state, made, exitTime, now, handed>>

\* Classify, with the service the creator's process hosts as the event is handled
Classify_ServiceFirst(creatorPid, parentPid) ==     \* for the mutants: the service's own children, too
    IF creatorPid = host THEN "OnBehalf" ELSE IF creatorPid = parentPid THEN "Parent" ELSE "Other"
Classify(creatorPid, parentPid) ==
    IF creatorPid = parentPid THEN "Parent" ELSE IF creatorPid = host THEN "OnBehalf" ELSE "Other"

\* the start's fields go in a record that may have its stop already
Merge_Replace(existing, c) == c     \* for the mutants: the record is replaced
Merge(existing, c) == [c EXCEPT !.exit = existing.exit]

OnStart(p) ==
    /\ <<p, "start">> \in inFlight
    /\ LET c == [Record EXCEPT !.creator = Classify(made[p].creator, made[p].parent), !.started = TRUE]
       IN m_Creations' = WithRecord(p, Merge(RecordOf(p), c))
    /\ inFlight' = inFlight \ {<<p, "start">>}
    /\ known' = known \cup {<<p, "start">>}
    /\ UNCHANGED <<running, host, state, made, exitTime, now, handed>>

OnStop(p) ==
    /\ <<p, "stop">> \in inFlight
    /\ m_Creations' = WithRecord(p, [RecordOf(p) EXCEPT !.exit = exitTime[p]])
    /\ inFlight' = inFlight \ {<<p, "stop">>}
    /\ known' = known \cup {<<p, "stop">>}
    /\ UNCHANGED <<running, host, state, made, exitTime, now, handed>>

\* the records to return
Ready(c) == c.exit # 0 /\ ~c.taken /\ c.started

Expired(c) == c.exit # 0 /\ now - c.exit > ExitedKept
Kept == {p \in DOMAIN m_Creations : ~Expired(m_Creations[p])}

TakeExited ==
    LET exited == {p \in DOMAIN m_Creations : Ready(m_Creations[p])} IN
    /\ running
    /\ exited # {} \/ Kept # DOMAIN m_Creations
    /\ handed' = [p \in Processes |-> IF p \in exited THEN handed[p] + 1 ELSE handed[p]]
    /\ m_Creations' = [p \in Kept |-> [m_Creations[p] EXCEPT !.taken = @ \/ p \in exited]]
    /\ UNCHANGED <<running, systemVars, known>>

\* the client: a process exited
Remove(p) ==
    /\ running /\ state[p] = "exited"
    /\ m_Creations' = Restrict(m_Creations, DOMAIN m_Creations \ {p})
    /\ known' = {e \in known : e[1] # p}
    /\ UNCHANGED <<running, systemVars, handed>>

-----------------------------------------------------------------------------
Init ==
    /\ m_Creations = Empty
    /\ running = FALSE
    /\ host = Service
    /\ state = [p \in Processes |-> "unborn"]
    /\ made = [p \in Processes |-> [creator |-> Nobody, parent |-> Nobody, kind |-> "Parent"]]
    /\ exitTime = [p \in Processes |-> 0]
    /\ inFlight = {}
    /\ now = 1
    /\ known = {}
    /\ handed = [p \in Processes |-> 0]

Next ==
    \/ \E p \in Processes :
         \/ \E creator, parent \in Creators : Create(p, creator, parent)
         \/ Exit(p)
         \/ OnStart(p)
         \/ OnStop(p)
         \/ Remove(p)
    \/ \E e \in inFlight : Lose(e)
    \/ Tick
    \/ ServiceStop
    \/ TakeExited
    \/ Start
    \/ Stop

Spec == Init /\ [][Next]_creationVars

-----------------------------------------------------------------------------
(* A record has the exit time of its process, if any, and only a running     *)
(* tracker has records.                                                      *)
TypeOK ==
    /\ \A p \in DOMAIN m_Creations :
         /\ m_Creations[p] \in [creator : {"Parent", "OnBehalf", "Other"}, started : BOOLEAN,
                                exit : {0, exitTime[p]}, taken : BOOLEAN]
         /\ m_Creations[p].taken => m_Creations[p].started /\ m_Creations[p].exit # 0
    /\ ~running => m_Creations = Empty /\ inFlight = {}

(* ProcessCreation.h: TakeExited returns "the processes that exited since    *)
(* the last call (each once)", in whatever order its events arrived.         *)
EachExitOnce == \A p \in Processes : handed[p] <= 1

(* An exit both of whose events arrived, of a process not removed, has been  *)
(* returned or the next TakeExited returns it: the start of a very short     *)
(* process may be read after its stop.                                       *)
NoExitIsMissed ==
    \A p \in Processes :
        {<<p, "start">>, <<p, "stop">>} \subseteq known =>
            handed[p] = 1 \/ (p \in DOMAIN m_Creations /\ Ready(m_Creations[p]))

(* ProcessCreation.cpp: "the creator is still running (it's creating), so it *)
(* can be asked now": a creation is on someone's behalf in the record if it  *)
(* was one when it happened.                                                 *)
CreatorsAreTrue ==
    \A p \in DOMAIN m_Creations : m_Creations[p].started => m_Creations[p].creator = made[p].kind

=============================================================================
