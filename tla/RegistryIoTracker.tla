-------------------------- MODULE RegistryIoTracker --------------------------
(***************************************************************************)
(* The registry I/O tracker (WinSys RegistryIo.cpp: RegistryIoTracker): a  *)
(* table under a lock, fed by the trace's thread, named by the resolver's  *)
(* thread, cleared by Stop, and told of exited processes by the client.    *)
(*                                                                         *)
(* What it watches is modelled as far as the tracker can tell: key objects *)
(* at reused addresses, their operations' events in one buffer for each    *)
(* processor, delivered in any interleaving, and closes that are not       *)
(* traced.  Both threads read the clock before they take the lock.         *)
(***************************************************************************)
EXTENDS RegistryIoTable

CONSTANTS
    Addresses,    \* of key objects: not null, and no tokens
    RootKeys,     \* absolute names
    Relatives,    \* names relative to an open key
    Pids,
    Processors,
    Nameable,     \* the addresses whose keys have handles the resolver can duplicate
    FailingOpens, \* whether opens that fail or are retried are issued
    MaxEvents,    \* bound: operations issued
    MaxCloses,    \* bound: key objects closed; 0: no address is reused
    MaxTick,      \* bound: the clock
    MaxStarts     \* bound: sessions started

None == 0   \* no address

ASSUME TrackerAssumption ==
    /\ \A a \in Addresses : a # None /\ ~IsToken(a)
    /\ Nameable \subseteq Addresses
    /\ MaxEvents \in Nat
    /\ MaxCloses \in Nat
    /\ MaxTick \in Nat
    /\ MaxStarts \in Nat
    /\ FailingOpens \in BOOLEAN

VARIABLES
    m_Table,
    m_Session, m_Trace,   \* whether they are open
    m_Stop,               \* the manual-reset event
    cpc,                  \* the client, in Start or Stop
    starts,               \* sessions started
    tpc, current, etick,  \* the trace's thread: its step, event and clock reading
    rpc, taken, found, rtick,  \* the resolver's: its step, objects, their paths, clock reading
    world,                \* the key at each address (its path), <<>> for none
    buffers,              \* the events of each processor not delivered yet
    truth,                \* the path of the key each operation issued was on
    closes, tick,
    delivered,            \* history: the operations the table was given since it was last empty
    opened                \* history: the last open given to the table of each address

clientVars == <<m_Session, m_Trace, m_Stop, cpc, starts>>
traceVars == <<tpc, current, etick>>
resolverVars == <<rpc, taken, found, rtick>>
worldVars == <<world, buffers, truth, closes, tick>>
historyVars == <<delivered, opened>>
vars == <<m_Table, clientVars, traceVars, resolverVars, worldVars, historyVars>>

NoEvent == <<>>

-----------------------------------------------------------------------------
(* The client: Start, Stop, RemoveProcess. *)

\* The session, the trace and both threads.
Start ==
    /\ cpc = "idle"
    /\ ~m_Session
    /\ starts < MaxStarts
    /\ starts' = starts + 1
    /\ m_Session' = TRUE
    /\ m_Trace' = TRUE
    /\ m_Stop' = FALSE
    /\ tpc' = "created"
    /\ rpc' = "wait"
    /\ UNCHANGED <<m_Table, cpc, current, etick, taken, found, rtick, worldVars, historyVars>>

\* The session started, but not the rest: one thread may have been created.  Start
\* ends with a Stop.
StartFails ==
    /\ cpc = "idle"
    /\ ~m_Session
    /\ starts < MaxStarts
    /\ starts' = starts + 1
    /\ m_Session' = TRUE
    /\ m_Stop' = FALSE
    /\ \/ m_Trace' = FALSE /\ UNCHANGED <<tpc, rpc>>
       \/ m_Trace' = TRUE /\ tpc' = "created" /\ UNCHANGED rpc
       \/ m_Trace' = TRUE /\ rpc' = "wait" /\ UNCHANGED tpc
    /\ cpc' = "stop"
    /\ UNCHANGED <<m_Table, current, etick, taken, found, rtick, worldVars, historyVars>>

\* Stop, or the end of a Start that failed: stops the session, closes the trace,
\* signals the resolver.
StopSession ==
    /\ cpc \in {"idle", "stop"}
    /\ m_Session' = FALSE
    /\ m_Trace' = FALSE
    /\ m_Stop' = TRUE
    /\ cpc' = "join"
    /\ UNCHANGED <<m_Table, starts, traceVars, resolverVars, worldVars, historyVars>>

\* Mutant: the threads are not waited for.
StopClears_NoWait ==
    /\ cpc = "join"
    /\ m_Table' = Clear(m_Table)
    /\ delivered' = {}
    /\ opened' = [a \in Addresses |-> 0]
    /\ cpc' = "idle"
    /\ UNCHANGED <<m_Session, m_Trace, m_Stop, starts, traceVars, resolverVars, worldVars>>

\* Both threads have ended; the table is cleared under the lock.
StopClears ==
    /\ cpc = "join"
    /\ tpc = "ended"
    /\ rpc = "ended"
    /\ m_Table' = Clear(m_Table)
    /\ delivered' = {}
    /\ opened' = [a \in Addresses |-> 0]
    /\ cpc' = "idle"
    /\ UNCHANGED <<m_Session, m_Trace, m_Stop, starts, traceVars, resolverVars, worldVars>>

\* The client forgets a process that exited.
ForgetProcess(pid) ==
    /\ m_Table' = RemoveProcess(m_Table, pid)
    /\ UNCHANGED <<clientVars, traceVars, resolverVars, worldVars, historyVars>>

-----------------------------------------------------------------------------
(* The trace's thread: ProcessThread and OnEvent. *)

\* It reads m_Trace, which a Stop may have closed already.
BeginTrace ==
    /\ tpc = "created"
    /\ tpc' = IF m_Trace THEN "trace" ELSE "ended"
    /\ UNCHANGED <<m_Table, clientVars, current, etick, resolverVars, worldVars, historyVars>>

\* ProcessTrace takes an event from a processor's buffer and calls OnEvent,
\* which parses it and reads the clock.
TakeEvent(p) ==
    /\ tpc = "trace"
    /\ buffers[p] # <<>>
    /\ current' = Head(buffers[p])
    /\ buffers' = [buffers EXCEPT ![p] = Tail(@)]
    /\ etick' = tick
    /\ tpc' = "event"
    /\ UNCHANGED <<m_Table, clientVars, resolverVars, world, truth, closes, tick, historyVars>>

\* The locked part of OnEvent.
CountEvent ==
    /\ tpc = "event"
    /\ m_Table' = OnEvent(m_Table, current, etick)
    /\ delivered' = IF IsCounted(current) THEN delivered \cup {current.Stamp} ELSE delivered
    /\ opened' = [a \in Addresses |->
                     IF IsOpen(current) /\ current.KeyObject = a THEN current.Stamp ELSE opened[a]]
    /\ current' = NoEvent
    /\ etick' = 0
    /\ tpc' = "trace"
    /\ UNCHANGED <<clientVars, resolverVars, worldVars>>

\* ProcessTrace returns once the trace is closed.
EndTrace ==
    /\ tpc = "trace"
    /\ ~m_Trace
    /\ tpc' = "ended"
    /\ UNCHANGED <<m_Table, clientVars, current, etick, resolverVars, worldVars, historyVars>>

TraceThread == BeginTrace \/ CountEvent \/ EndTrace \/ \E p \in Processors : TakeEvent(p)

-----------------------------------------------------------------------------
(* The resolver's thread: ResolverThread and Resolve. *)

\* The wait times out and a pass begins: the first locked part of Resolve.
BeginPass ==
    /\ rpc = "wait"
    /\ ~m_Stop
    /\ taken' = m_Table.Unnamed
    /\ m_Table' = TakeUnnamed(m_Table)
    /\ rpc' = "lookup"
    /\ UNCHANGED <<clientVars, traceVars, found, rtick, worldVars, historyVars>>

\* The handle table: the name of the key at each address, or none (closed, the
\* kernel's, a protected process's).
LookUp ==
    /\ rpc = "lookup"
    /\ \E named \in SUBSET {o \in taken \cap Nameable : world[o] # <<>>} :
           found' = [o \in named |-> world[o]]
    /\ rpc' = "clock"
    /\ UNCHANGED <<m_Table, clientVars, traceVars, taken, rtick, worldVars, historyVars>>

ReadClock ==
    /\ rpc = "clock"
    /\ rtick' = tick
    /\ rpc' = "apply"
    /\ UNCHANGED <<m_Table, clientVars, traceVars, taken, found, worldVars, historyVars>>

\* The second locked part of Resolve.
ApplyNames(T) == NamesFailed(SetNames(T, found, rtick), taken \ DOMAIN found)

EndPass ==
    /\ rpc = "apply"
    /\ m_Table' = Prune(ApplyDeferred(ApplyNames(m_Table)), rtick)
    /\ taken' = {}
    /\ found' = EmptyMap
    /\ rtick' = 0
    /\ rpc' = "wait"
    /\ UNCHANGED <<clientVars, traceVars, worldVars, historyVars>>

EndResolver ==
    /\ rpc = "wait"
    /\ m_Stop
    /\ rpc' = "ended"
    /\ UNCHANGED <<m_Table, clientVars, traceVars, taken, found, rtick, worldVars, historyVars>>

ResolverThread == BeginPass \/ LookUp \/ ReadClock \/ EndPass \/ EndResolver

-----------------------------------------------------------------------------
(* The system (external): processes use keys, and every operation but a      *)
(* close leaves an event in the buffer of the processor it ran on.           *)

Issue(p, e, path) ==
    /\ m_Session
    /\ Len(truth) < MaxEvents
    /\ truth' = Append(truth, path)
    /\ buffers' = [buffers EXCEPT ![p] = Append(@, e)]

Event(pid, operation, object, base, status, absolute, name) ==
    [Stamp |-> Len(truth) + 1, Pid |-> pid, Operation |-> operation, KeyObject |-> object, BaseObject |-> base,
     Status |-> status, Absolute |-> absolute, Name |-> name]

\* The names an open may have: absolute, or below an open key.
OpenNames ==
    [Absolute : {TRUE}, Base : {None}, Name : RootKeys]
    \cup [Absolute : {FALSE}, Base : {a \in Addresses : world[a] # <<>>}, Name : Relatives]
PathOf(n) ==
    IF n.Absolute THEN <<n.Name>> ELSE IF n.Name = "" THEN world[n.Base] ELSE Append(world[n.Base], n.Name)

SysOpen(pid, p, a) ==
    /\ world[a] = <<>>
    /\ \E n \in OpenNames :
         /\ Issue(p, Event(pid, "OpenKey", a, n.Base, "success", n.Absolute, n.Name), PathOf(n))
         /\ world' = [world EXCEPT ![a] = PathOf(n)]
    /\ UNCHANGED <<m_Table, clientVars, traceVars, resolverVars, closes, tick, historyVars>>

\* An open that fails has no key object; one that is retried is not counted.
SysOpenFails(pid, p) ==
    /\ FailingOpens
    /\ \E n \in OpenNames, status \in {"failure", "reparse"} :
         Issue(p, Event(pid, "OpenKey", None, n.Base, status, n.Absolute, n.Name), PathOf(n))
    /\ UNCHANGED <<m_Table, clientVars, traceVars, resolverVars, world, closes, tick, historyVars>>

SysOperation(pid, p, a) ==
    /\ world[a] # <<>>
    /\ Issue(p, Event(pid, "QueryValue", a, None, "success", FALSE, ""), world[a])
    /\ UNCHANGED <<m_Table, clientVars, traceVars, resolverVars, world, closes, tick, historyVars>>

SysClose(a) ==
    /\ world[a] # <<>>
    /\ closes < MaxCloses
    /\ closes' = closes + 1
    /\ world' = [world EXCEPT ![a] = <<>>]
    /\ UNCHANGED <<m_Table, clientVars, traceVars, resolverVars, buffers, truth, tick, historyVars>>

\* A step before any reading of the clock is not told apart from none.
Tick ==
    /\ tick < MaxTick
    /\ \/ tpc = "event" \/ rpc = "apply"
       \/ m_Table.Deferred # <<>> \/ DOMAIN m_Table.Rows # {} \/ DOMAIN m_Table.Names # {}
    /\ tick' = tick + 1
    /\ UNCHANGED <<m_Table, clientVars, traceVars, resolverVars, world, buffers, truth, closes, historyVars>>

-----------------------------------------------------------------------------
\* Some keys were opened before the session.
Init ==
    /\ m_Table = EmptyTable
    /\ m_Session = FALSE /\ m_Trace = FALSE /\ m_Stop = FALSE
    /\ cpc = "idle" /\ starts = 0
    /\ tpc = "ended" /\ current = NoEvent /\ etick = 0
    /\ rpc = "ended" /\ taken = {} /\ found = EmptyMap /\ rtick = 0
    /\ world \in [Addresses -> {<<k>> : k \in RootKeys} \cup {<<>>}]
    /\ buffers = [p \in Processors |-> <<>>]
    /\ truth = <<>>
    /\ closes = 0 /\ tick = 0
    /\ delivered = {} /\ opened = [a \in Addresses |-> 0]

System ==
    \/ \E pid \in Pids, p \in Processors :
         \/ SysOpenFails(pid, p)
         \/ \E a \in Addresses : SysOpen(pid, p, a) \/ SysOperation(pid, p, a)
    \/ \E a \in Addresses : SysClose(a)
    \/ Tick

\* The tracker runs and is not stopped.
RunNext == Start \/ TraceThread \/ ResolverThread \/ System

Next ==
    \/ RunNext
    \/ StartFails \/ StopSession \/ StopClears
    \/ \E pid \in Pids : ForgetProcess(pid)

Spec == Init /\ [][Next]_vars

\* A thread's steps as its control sees them: each changes its own tpc or rpc.
TraceMoves ==
    /\ \/ tpc \in {"created", "event"}
       \/ tpc = "trace" /\ (~m_Trace \/ \E p \in Processors : buffers[p] # <<>>)
    /\ tpc' \in {"trace", "event", "ended"} \ {tpc}
ResolverMoves ==
    /\ rpc # "ended"
    /\ rpc' \in {"wait", "lookup", "clock", "apply", "ended"} \ {rpc}

\* While the tracker runs: its threads do, and a pass begins every second.
FairSpec == Init /\ [][RunNext]_vars /\ WF_tpc(TraceMoves) /\ WF_rpc(ResolverMoves)

-----------------------------------------------------------------------------
(* Properties. *)

Events == [Stamp : 1 .. MaxEvents, Pid : Pids, Operation : {"OpenKey", "QueryValue"},
           KeyObject : Addresses \cup {None}, BaseObject : Addresses \cup {None},
           Status : {"success", "failure", "reparse"}, Absolute : BOOLEAN,
           Name : RootKeys \cup Relatives \cup {""}]

\* The table's objects are addresses, an object is given up after MaxAttempts
\* passes at most, and the client and both threads are at one of their steps.
TypeOK ==
    /\ cpc \in {"idle", "stop", "join"}
    /\ tpc \in {"created", "trace", "event", "ended"}
    /\ rpc \in {"wait", "lookup", "clock", "apply", "ended"}
    /\ current \in Events \cup {NoEvent}
    /\ taken \subseteq Addresses
    /\ DOMAIN found \subseteq taken
    /\ m_Table.Unnamed \subseteq Addresses
    /\ DOMAIN m_Table.Attempts \subseteq Addresses
    /\ DOMAIN m_Table.PendingOpens \subseteq Addresses
    /\ \A i \in DOMAIN m_Table.Deferred : m_Table.Deferred[i].Event \in Events
    /\ \A o \in DOMAIN m_Table.Attempts : m_Table.Attempts[o] \in 1 .. MaxAttempts

Stopped == ~m_Session /\ cpc = "idle"

\* A tracker that is not running holds nothing: no thread of the last session
\* counts, names or defers anything after Stop cleared the table.
StoppedIsEmpty == Stopped => m_Table = Clear(m_Table)

WaitsOn(o) == {i \in DOMAIN m_Table.Deferred : m_Table.Deferred[i].Waiting = o}

\* m_Waiting is what the deferred operations wait on, and how many on each:
\* FlushWaiting, Retarget and ApplyDeferred trust it to find them.
WaitingCounts ==
    /\ \A i \in DOMAIN m_Table.Deferred : m_Table.Deferred[i].Waiting \in DOMAIN m_Table.Waiting
    /\ \A o \in DOMAIN m_Table.Waiting :
         m_Table.Waiting[o] = Cardinality(WaitsOn(o)) /\ m_Table.Waiting[o] > 0

TimesCounted(s) == IF s \in DOMAIN m_Table.counted THEN Len(m_Table.counted[s]) ELSE 0
TimesDeferred(s) == Cardinality({i \in DOMAIN m_Table.Deferred : m_Table.Deferred[i].Event.Stamp = s})

\* Every operation given to the table was counted exactly once or still waits,
\* whatever was flushed, retargeted, deferred past the limit or applied.
EachCountedOnce ==
    \A s \in 1 .. MaxEvents :
        TimesCounted(s) + TimesDeferred(s) = IF s \in delivered THEN 1 ELSE 0

\* Every key object that operations wait on is with the resolver or will be in
\* its next pass: none is waited on and never looked up.
WaitersAreSought ==
    rpc # "ended" =>
        \A o \in DOMAIN m_Table.Waiting : IsToken(o) \/ o \in m_Table.Unnamed \cup taken

\* An operation counted under a name was on that key; one counted below a key
\* object that could not be named was on that object or on a key opened below
\* it.  Of a system that reuses no address.
NamesAreTrue ==
    \A s \in DOMAIN m_Table.counted : \A i \in DOMAIN m_Table.counted[s] :
        LET text == m_Table.counted[s][i]
        IN truth[s] = IF text.unnamed \in Addresses THEN world[text.unnamed] \o text.path ELSE text.path

\* "An operation on a key object not named yet waits for the resolver, then
\* counts under the key's name; one the resolver can't name counts under the
\* object": it never waits for good, while the tracker runs.
DeferredAreCounted ==
    \A s \in 1 .. MaxEvents :
        (TimesDeferred(s) > 0) ~> (TimesDeferred(s) = 0)

\* "A key with no operation for a minute is forgotten": a pass of the resolver
\* forgets no key that had one since.
FreshRowsAreKept ==
    [][rpc = "apply" /\ rpc' = "wait" =>
         \A id \in DOMAIN m_Table.Rows :
             tick - m_Table.Rows[id].LastTick <= KeyIdle => id \in DOMAIN m_Table'.Rows]_vars

\* "an open names its key object for the operations that follow", "a waiting
\* open that counts after its address was taken doesn't name it": the name an
\* address has is the one its last open counted under.
LastOpenNames ==
    \A a \in DOMAIN m_Table.Names : a \in Addresses /\ opened[a] # 0 =>
        /\ TimesCounted(opened[a]) = 1
        /\ m_Table.Names[a].Text = m_Table.counted[opened[a]][1]
=============================================================================
