----------------------------- MODULE EtwSession -----------------------------
(***************************************************************************)
(* The trackers' trace sessions (WinSys EtwSession.h): a process names its *)
(* session "<prefix><its ID>".  One that crashes leaves its session        *)
(* running; every tracker that starts first stops those of processes that  *)
(* are gone, one by one, from a list it read.                              *)
(*                                                                         *)
(* Processes end, cleanly or not, and their IDs are given to others at any *)
(* moment: the list, the look at a process and the stop, by name, are      *)
(* steps of their own.  All sessions here have the same prefix, and one    *)
(* thread of a process starts its tracker.  The names of other components' *)
(* sessions may start with the prefix, too.                                *)
(***************************************************************************)
EXTENDS Naturals, FiniteSets, Functions

CONSTANTS
    PidsInUse,    \* process IDs
    Others,       \* other components' session names: [digits, rest]
    MaxSessions,  \* the most sessions the system allows
    MaxProcesses, \* bound: processes created
    ReusedWhileStopping  \* whether an ID may be given out again while a session named by it is about to be stopped

VARIABLES
    process,      \* ID -> the process that has it, NoProcess if none
    created,      \* processes created so far
    sessions,     \* name -> the process that started the session
    pc,           \* ID -> the step of its tracker
    listed,       \* ID -> the names it read and has not looked at
    doomed,       \* ID -> the name it is about to stop
    orphaned      \* history: ID -> the orphans it could list whose IDs are still free

sessionVars == <<process, created, sessions, pc, listed, doomed, orphaned>>

NoProcess == 0
NoName == [digits |-> 0, rest |-> ""]
Name(id) == [digits |-> id, rest |-> ""]
Names == {Name(id) : id \in PidsInUse} \cup Others
Gone(id) == id \notin PidsInUse \/ process[id] = NoProcess

\* a name of the list is taken for a tracker's if a digit follows the prefix, whatever follows the digits
Numbered(n) == n.digits # 0

\* the sessions with another, and without one
Added(n, owner) == [s \in DOMAIN sessions \cup {n} |-> IF s = n THEN owner ELSE sessions[s]]
Without(n) == Restrict(sessions, DOMAIN sessions \ {n})

-----------------------------------------------------------------------------
(* The system.                                                               *)

Spawn(id) ==
    /\ process[id] = NoProcess /\ created < MaxProcesses
    /\ ReusedWhileStopping \/ \A p \in PidsInUse : doomed[p] # Name(id)
    /\ created' = created + 1
    /\ process' = [process EXCEPT ![id] = created + 1]
    /\ orphaned' = [p \in PidsInUse |-> orphaned[p] \ {Name(id)}]
    /\ UNCHANGED <<sessions, pc, listed, doomed>>

\* a process ends; its session, if it did not stop it, stays
End(id) ==
    /\ process[id] # NoProcess
    /\ process' = [process EXCEPT ![id] = NoProcess]
    /\ pc' = [pc EXCEPT ![id] = "stopped"]
    /\ listed' = [listed EXCEPT ![id] = {}]
    /\ doomed' = [doomed EXCEPT ![id] = NoName]
    /\ orphaned' = [orphaned EXCEPT ![id] = {}]
    /\ UNCHANGED <<created, sessions>>

OtherStart(n) ==
    /\ n \in Others \ DOMAIN sessions
    /\ Cardinality(DOMAIN sessions) < MaxSessions
    /\ sessions' = Added(n, NoProcess)
    /\ UNCHANGED <<process, created, pc, listed, doomed, orphaned>>

-----------------------------------------------------------------------------
(* A tracker of the process that has an ID.                                  *)

\* StopOrphanedSessions: the system's sessions, unless they can't be listed
List(id) ==
    /\ process[id] # NoProcess /\ pc[id] = "stopped"
    /\ \/ /\ listed' = [listed EXCEPT ![id] = {n \in DOMAIN sessions : Numbered(n)}]
          /\ orphaned' = [orphaned EXCEPT ![id] = {n \in DOMAIN sessions : n.rest = "" /\ Gone(n.digits)}]
       \/ UNCHANGED <<listed, orphaned>>
    /\ pc' = [pc EXCEPT ![id] = "sweep"]
    /\ UNCHANGED <<process, created, sessions, doomed>>

\* for the mutants: the sessions after one of a running process are not looked at
Rest_OfGone(id, n) == IF Gone(n.digits) THEN listed[id] \ {n} ELSE {}
Rest(id, n) == listed[id] \ {n}

\* for the mutants: of any process but its own
Stops_Any(id, n) == n # Name(id)
Stops(id, n) == Gone(n.digits)

\* StopOrphanedSessions: is the process whose ID it is gone?
Look(id) ==
    /\ pc[id] = "sweep"
    /\ \E n \in listed[id] :
         /\ listed' = [listed EXCEPT ![id] = Rest(id, n)]
         /\ IF Stops(id, n)
            THEN pc' = [pc EXCEPT ![id] = "doom"] /\ doomed' = [doomed EXCEPT ![id] = n]
            ELSE UNCHANGED <<pc, doomed>>
    /\ UNCHANGED <<process, created, sessions, orphaned>>

\* StopOrphanedSessions: stops the session of that name
StopOrphan(id) ==
    /\ pc[id] = "doom"
    /\ sessions' = Without(doomed[id])
    /\ doomed' = [doomed EXCEPT ![id] = NoName]
    /\ pc' = [pc EXCEPT ![id] = "sweep"]
    /\ UNCHANGED <<process, created, listed, orphaned>>

\* StartTrace, and what came of it; it fails if there are too many sessions
Trace(id, existing) ==
    IF Name(id) \in DOMAIN sessions
    THEN pc' = [pc EXCEPT ![id] = existing] /\ UNCHANGED sessions
    ELSE IF Cardinality(DOMAIN sessions) = MaxSessions
    THEN pc' = [pc EXCEPT ![id] = "stopped"] /\ UNCHANGED sessions
    ELSE pc' = [pc EXCEPT ![id] = "running"] /\ sessions' = Added(Name(id), process[id])

StartTrace(id) ==
    /\ pc[id] = "sweep" /\ listed[id] = {}
    /\ Trace(id, "exists")
    /\ orphaned' = [orphaned EXCEPT ![id] = {}]
    /\ UNCHANGED <<process, created, listed, doomed>>

\* ERROR_ALREADY_EXISTS: it stops the session of its name, and tries again
StopExisting(id) ==
    /\ pc[id] = "exists"
    /\ sessions' = Without(Name(id))
    /\ pc' = [pc EXCEPT ![id] = "retry"]
    /\ UNCHANGED <<process, created, listed, doomed, orphaned>>

StartAgain(id) ==
    /\ pc[id] = "retry"
    /\ Trace(id, "blocked")
    /\ UNCHANGED <<process, created, listed, doomed, orphaned>>

\* the tracker's Stop, by its session's handle
Stop(id) ==
    /\ pc[id] = "running"
    /\ pc' = [pc EXCEPT ![id] = "stopped"]
    /\ sessions' = Restrict(sessions, {n \in DOMAIN sessions : sessions[n] # process[id]})
    /\ UNCHANGED <<process, created, listed, doomed, orphaned>>

-----------------------------------------------------------------------------
Init ==
    /\ process = [id \in PidsInUse |-> NoProcess]
    /\ created = 0
    /\ sessions = <<>>
    /\ pc = [id \in PidsInUse |-> "stopped"]
    /\ listed = [id \in PidsInUse |-> {}]
    /\ doomed = [id \in PidsInUse |-> NoName]
    /\ orphaned = [id \in PidsInUse |-> {}]

Next ==
    \/ \E id \in PidsInUse :
         \/ Spawn(id)
         \/ End(id)
         \/ List(id)
         \/ Look(id)
         \/ StopOrphan(id)
         \/ StartTrace(id)
         \/ StopExisting(id)
         \/ StartAgain(id)
         \/ Stop(id)
    \/ \E n \in Others : OtherStart(n)

Spec == Init /\ [][Next]_sessionVars

-----------------------------------------------------------------------------
(* Sessions have names and owners, never more than the system allows; a      *)
(* leftover session of its name never keeps a tracker from starting.         *)
TypeOK ==
    /\ DOMAIN sessions \subseteq Names
    /\ \A n \in DOMAIN sessions : sessions[n] \in 0 .. created
    /\ Cardinality(DOMAIN sessions) <= MaxSessions
    /\ \A id \in PidsInUse :
         /\ process[id] \in 0 .. created
         /\ pc[id] \in {"stopped", "sweep", "doom", "exists", "retry", "running"}
         /\ process[id] = NoProcess => pc[id] = "stopped"
         /\ pc[id] = "doom" <=> doomed[id] # NoName
         /\ listed[id] \subseteq Names /\ orphaned[id] \subseteq Names

(* A running tracker has its session, "<prefix> <process ID>, so instances   *)
(* don't share it": no other process's sweep stops it.                       *)
RunningHasSession ==
    \A id \in PidsInUse : pc[id] = "running" =>
        Name(id) \in DOMAIN sessions /\ sessions[Name(id)] = process[id]

(* "stops <prefix><pid> sessions whose process is gone": when a tracker      *)
(* starts its trace, none it could list is left, though several sweep at     *)
(* once and processes come and go.                                           *)
OrphansAreStopped ==
    \A id \in PidsInUse : pc[id] = "sweep" /\ listed[id] = {} =>
        orphaned[id] \cap DOMAIN sessions = {}

(* "<prefix><digits> only: another session whose name starts with the prefix *)
(* isn't one of these": a sweep never stops one of another component.        *)
OthersAreLeftAlone == \A id \in PidsInUse : doomed[id] \notin Others

=============================================================================
