--------------------------- MODULE ProcessNetwork ---------------------------
(***************************************************************************)
(* The network tracker (WinSys ProcessNetwork.cpp: ProcessNetworkTracker): *)
(* the bytes each process, and each of its connections, sent and received. *)
(*                                                                         *)
(* An event is counted on the trace's thread, which now and then first     *)
(* reads the system's connection table, outside the lock, and forgets the  *)
(* connections that are not in it; the client forgets exited processes     *)
(* under the lock meanwhile, and connections open, close and open again.   *)
(* Events arrive late, one processor's after another's.                    *)
(* Start and Stop, which joins the thread before it clears the counts, are *)
(* one step each.                                                          *)
(***************************************************************************)
EXTENDS Naturals, FiniteSets, Functions

CONSTANTS
    Ends,         \* what connections there can be: [pid, udp, local, port, remote]
    MaxEvents,    \* bound: events logged
    MaxOpens      \* bound: connections opened

VARIABLES
    m_Counters,   \* process -> bytes
    m_Connections,\* connection ID -> bytes
    running,      \* the session runs
    tpc, event, live,  \* the trace's thread: its step, its event, the connection IDs it read
    table,        \* the connections open now
    inFlight,     \* the events not delivered yet, each with a number
    events, opens,
    seen          \* history: connection open -> bytes counted since it opened or its process was removed

trackerVars == <<m_Counters, m_Connections, running, tpc, event, live>>
worldVars == <<table, inFlight, events, opens>>
networkVars == <<trackerVars, worldVars, seen>>

NoEvent == [number |-> 0]
Empty == <<>>   \* the function with no arguments
Anywhere == 0   \* the unspecified address, and no port

Count(f, x) == IF x \in DOMAIN f THEN f[x] ELSE 0
With(f, x, e) == [y \in DOMAIN f \cup {x} |-> IF y = x THEN e ELSE f[y]]
Add(f, x) == With(f, x, Count(f, x) + 1)
Without(f, S) == Restrict(f, DOMAIN f \ S)

\* what an event counts for: a UDP endpoint by its port only, its addresses and remote port zero
ConnectionOf(c) ==
    IF c.udp THEN [c EXCEPT !.local = Anywhere, !.remote = Anywhere] ELSE c

\* the ID a connection of the table is counted under
IdOf(c) == IF c.udp THEN [c EXCEPT !.local = Anywhere, !.remote = Anywhere] ELSE c

-----------------------------------------------------------------------------
(* The system.                                                               *)

Open(c) ==
    /\ opens < MaxOpens /\ c \notin table
    /\ table' = table \cup {c}
    /\ opens' = opens + 1
    /\ seen' = With(seen, c, 0)
    /\ UNCHANGED <<trackerVars, inFlight, events>>

Close(c) ==
    /\ c \in table
    /\ table' = table \ {c}
    /\ seen' = Without(seen, {c})
    /\ UNCHANGED <<trackerVars, inFlight, events, opens>>

\* a send or a receive of one byte: what direction it has, its process and its ends
Transfer(c) ==
    /\ running /\ c \in table /\ events < MaxEvents
    /\ events' = events + 1
    /\ inFlight' = inFlight \cup {[number |-> events + 1, ends |-> c]}
    /\ UNCHANGED <<trackerVars, table, opens, seen>>

-----------------------------------------------------------------------------
(* The tracker.                                                              *)

Start ==
    /\ ~running
    /\ running' = TRUE
    /\ UNCHANGED <<m_Counters, m_Connections, tpc, event, live, worldVars, seen>>

\* the session, the trace, its thread, which ends between two events; then the counts
Stop ==
    /\ running /\ tpc = "wait"
    /\ running' = FALSE
    /\ m_Counters' = Empty /\ m_Connections' = Empty
    /\ inFlight' = {}
    /\ seen' = [c \in table |-> 0]
    /\ UNCHANGED <<tpc, event, live, table, events, opens>>

\* OnEvent: an event is delivered; 30 seconds may have passed since the last prune
TakeEvent ==
    /\ tpc = "wait"
    /\ \E e \in inFlight :
         /\ event' = e
         /\ inFlight' = inFlight \ {e}
    /\ tpc' \in {"read", "count"}
    /\ UNCHANGED <<m_Counters, m_Connections, running, live, table, events, opens, seen>>

\* PruneConnections: the table, outside the lock; it may fail
ReadTable ==
    /\ tpc = "read"
    /\ \/ /\ live' = {IdOf(c) : c \in table}
          /\ tpc' = "prune"
       \/ /\ live' = live
          /\ tpc' = "count"
    /\ UNCHANGED <<m_Counters, m_Connections, running, event, worldVars, seen>>

\* PruneConnections: under the lock
PruneConnections ==
    /\ tpc = "prune"
    /\ tpc' = "count" /\ live' = {}
    /\ m_Connections' = Restrict(m_Connections, DOMAIN m_Connections \cap live)
    /\ UNCHANGED <<m_Counters, running, event, worldVars, seen>>

\* OnEvent: under the lock, counted for the process and, if the event has its ends, the connection
CountEvent ==
    /\ tpc = "count"
    /\ tpc' = "wait" /\ event' = NoEvent
    /\ m_Counters' = Add(m_Counters, event.ends.pid)
    /\ \/ /\ m_Connections' = Add(m_Connections, ConnectionOf(event.ends))
          /\ seen' = IF event.ends \in DOMAIN seen THEN [seen EXCEPT ![event.ends] = @ + 1] ELSE seen
       \/ UNCHANGED <<m_Connections, seen>>
    /\ UNCHANGED <<running, live, worldVars>>

\* for the mutants: a removed process's connections stay
RemovedConnections_None(pid) == {}

RemovedConnections(pid) == {id \in DOMAIN m_Connections : id.pid = pid}

\* the client: a process exited
RemoveProcess(pid) ==
    /\ running
    /\ m_Counters' = Without(m_Counters, {pid})
    /\ m_Connections' = Without(m_Connections, RemovedConnections(pid))
    /\ seen' = [c \in DOMAIN seen |-> IF c.pid = pid THEN 0 ELSE seen[c]]
    /\ UNCHANGED <<running, tpc, event, live, worldVars>>

-----------------------------------------------------------------------------
Init ==
    /\ m_Counters = Empty /\ m_Connections = Empty
    /\ running = FALSE
    /\ tpc = "wait" /\ event = NoEvent /\ live = {}
    /\ table = {} /\ inFlight = {}
    /\ events = 0 /\ opens = 0
    /\ seen = Empty

Next ==
    \/ \E c \in Ends : Open(c) \/ Close(c) \/ Transfer(c)
    \/ \E pid \in {c.pid : c \in Ends} : RemoveProcess(pid)
    \/ TakeEvent
    \/ ReadTable
    \/ PruneConnections
    \/ CountEvent
    \/ Start
    \/ Stop

Spec == Init /\ [][Next]_networkVars

-----------------------------------------------------------------------------
(* The counts are of processes and of connections as events tell them, and   *)
(* only a running tracker has any.                                           *)
TypeOK ==
    /\ \A p \in DOMAIN m_Counters : p \in {c.pid : c \in Ends} /\ m_Counters[p] \in Nat \ {0}
    /\ \A id \in DOMAIN m_Connections :
         id \in {ConnectionOf(c) : c \in Ends} /\ m_Connections[id] \in Nat \ {0}
    /\ tpc \in {"wait", "read", "prune", "count"}
    /\ tpc = "wait" <=> event = NoEvent
    /\ ~running => /\ tpc = "wait" /\ inFlight = {}
                   /\ m_Counters = Empty /\ m_Connections = Empty

\* the bytes of a process's connections
BytesOf(pid) == UNION {{id} \X (1 .. m_Connections[id]) : id \in {id \in DOMAIN m_Connections : id.pid = pid}}

(* A process's bytes are at least those of all its connections together:     *)
(* both are forgotten together when it exits, though its events still come,  *)
(* and a prune only lowers the connections' side.                            *)
ConnectionsWithinProcess ==
    \A p \in {c.pid : c \in Ends} : Cardinality(BytesOf(p)) <= Count(m_Counters, p)

(* ProcessNetwork.h: only "the connections that are gone are forgotten": a   *)
(* connection that stays open keeps every byte counted since it opened,      *)
(* however prunes interleave with its events.                                *)
OpenConnectionsKeepCounts ==
    \A c \in table : Count(m_Connections, IdOf(c)) >= seen[c]

=============================================================================
