------------------------------- MODULE DotNetGc -------------------------------
(***************************************************************************)
(* A process's garbage collections, followed by a trace session (WinSys    *)
(* DotNet.cpp, DotNetGcMonitor): the runtime suspends its threads,         *)
(* collects, says its heap's size and goes on, and logs each; the trace's  *)
(* thread adds the events to the State's statistics, which the client      *)
(* reads under the same lock.                                              *)
(*                                                                         *)
(* Time counts the runtime's steps.  A heap's size is that time.           *)
(***************************************************************************)
EXTENDS Naturals, Sequences, FiniteSets

CONSTANTS MaxTime, MaxStarts, MaxLost   \* bounds

VARIABLES
    m_State,    \* the State's number or 0
    session,    \* of the current State: "none", "idle" (its provider is off), "runs"
    trace, thread,  \* "none", "open"; "none", "runs", "ended"
    stop,       \* "rest", "start", "stop", "join"
    starting,   \* Stop is Start's first step
    starts,
    Stats,      \* of the current State
    now, runtime, buffers, lost,    \* the runtime: "runs", "suspended", "collected"; the events; lost in a row
    pauses, collections,    \* history: the pauses and collections that were, and since the Start
    late        \* history: an event was added when no Start was in progress and none had succeeded

stateVars == <<m_State, session, trace, thread>>
callVars == <<stop, starting, starts>>
runtimeVars == <<now, runtime, buffers, lost, pauses, collections>>
gcVars == <<stateVars, callVars, Stats, runtimeVars, late>>

NoStats == [Collections |-> 0, HasHeap |-> FALSE, HeapSize |-> 0,
            LastPause |-> 0, MaxPause |-> 0, TotalPause |-> 0, SuspendStart |-> 0]

-----------------------------------------------------------------------------
(* The client: Start stops first.                                            *)

BeginStart ==
    /\ stop = "rest" /\ starts < MaxStarts
    /\ starts' = starts + 1 /\ starting' = TRUE
    /\ stop' = IF m_State = 0 THEN "start" ELSE "stop"
    /\ UNCHANGED <<stateVars, Stats, runtimeVars, late>>
BeginStop ==
    /\ stop = "rest" /\ m_State # 0
    /\ stop' = "stop" /\ starting' = FALSE
    /\ UNCHANGED <<stateVars, starts, Stats, runtimeVars, late>>

\* the session, the consumer, its thread, the provider: what fails ends in Stop, but for the session
Started ==
    /\ stop = "start"
    /\ \/ stop' = "rest" /\ UNCHANGED <<stateVars, starting, Stats>>
       \/ /\ m_State' = starts /\ Stats' = NoStats
          /\ \/ trace' = "none" /\ thread' = "none" /\ session' = "idle"
             \/ trace' = "open" /\ thread' = "none" /\ session' = "idle"
             \/ trace' = "open" /\ thread' = "runs" /\ session' \in {"idle", "runs"}
          /\ stop' = IF session' = "runs" THEN "rest" ELSE "stop"
          /\ starting' = FALSE
    /\ UNCHANGED <<starts, runtimeVars, late>>

\* the state is nobody's; nothing is logged any more
StopSession ==
    /\ stop = "stop"
    /\ m_State' = 0 /\ session' = "none"
    /\ stop' = "join"
    /\ UNCHANGED <<trace, thread, starting, starts, Stats, runtimeVars, late>>
\* for the mutants: deleted though the thread runs
MayDelete_Running == TRUE
MayDelete == thread # "runs"
Delete ==
    /\ stop = "join" /\ MayDelete
    /\ trace' = "none"
    /\ thread' = IF thread = "ended" THEN "none" ELSE thread
    /\ buffers' = <<>>
    /\ stop' = IF starting THEN "start" ELSE "rest"
    /\ UNCHANGED <<m_State, session, starting, starts, Stats, now, runtime, lost, pauses, collections, late>>
\* the five seconds are over: the consumer is closed, which ends the thread
JoinTimesOut ==
    /\ stop = "join" /\ thread = "runs" /\ trace = "open"
    /\ trace' = "none"
    /\ UNCHANGED <<m_State, session, thread, callVars, Stats, runtimeVars, late>>

-----------------------------------------------------------------------------
(* The trace's thread.                                                       *)

\* for the mutants: a start is kept until its end comes
Suspended_First(stats, time) == IF stats.SuspendStart = 0 THEN [stats EXCEPT !.SuspendStart = time] ELSE stats
Suspended(stats, time) == [stats EXCEPT !.SuspendStart = time]
Restarted(stats, time) ==
    LET pause == time - stats.SuspendStart
    IN IF stats.SuspendStart = 0 \/ time < stats.SuspendStart THEN stats
       ELSE [stats EXCEPT !.LastPause = pause, !.MaxPause = IF pause > @ THEN pause ELSE @, !.TotalPause = @ + pause, !.SuspendStart = 0]
\* payloads are whole
ApplyGcEvent(event, stats) ==
    CASE event.kind = "suspend" -> Suspended(stats, event.time)
      [] event.kind = "restart" -> Restarted(stats, event.time)
      [] event.kind = "gc" -> [stats EXCEPT !.Collections = @ + 1]
      [] OTHER -> [stats EXCEPT !.HasHeap = TRUE, !.HeapSize = event.time]

OnGcEvent ==
    /\ thread = "runs" /\ trace = "open" /\ buffers # <<>>
    /\ Stats' = ApplyGcEvent(Head(buffers), Stats)
    /\ buffers' = Tail(buffers)
    /\ late' = (late \/ (stop = "rest" /\ m_State = 0))
    /\ UNCHANGED <<stateVars, callVars, now, runtime, lost, pauses, collections>>

ThreadEnds ==
    /\ thread = "runs"
    /\ trace = "open" => session = "none" /\ buffers = <<>>
    /\ thread' = "ended"
    /\ UNCHANGED <<m_State, session, trace, callVars, Stats, runtimeVars, late>>

-----------------------------------------------------------------------------
(* The runtime.  An event is logged while the session runs and its provider  *)
(* is on, and may be lost; never two in a row.                               *)

Log(kinds) ==
    /\ now < MaxTime
    /\ now' = now + 1
    /\ LET events == [i \in DOMAIN kinds |-> [kind |-> kinds[i], time |-> now']]
       IN \/ session = "runs" /\ buffers' = buffers \o events /\ lost' = 0
          \/ session # "runs" /\ UNCHANGED <<buffers, lost>>
          \/ session = "runs" /\ lost < MaxLost /\ lost' = lost + 1 /\ UNCHANGED buffers
    /\ UNCHANGED <<stateVars, callVars, Stats, late>>
Suspend ==
    /\ runtime = "runs" /\ runtime' = "suspended"
    /\ Log(<<"suspend">>)
    /\ pauses' = pauses \cup {<<now', 0>>} /\ UNCHANGED collections
Collect ==
    /\ runtime = "suspended" /\ runtime' = "collected"
    /\ Log(<<"gc", "heap">>)
    /\ collections' = collections \cup {now'} /\ UNCHANGED pauses
Restart ==
    /\ runtime # "runs" /\ runtime' = "runs"
    /\ Log(<<"restart">>)
    /\ pauses' = {p \in pauses : p[2] # 0} \cup {<<p[1], now'>> : p \in {q \in pauses : q[2] = 0}}
    /\ UNCHANGED collections

-----------------------------------------------------------------------------
Init ==
    /\ m_State = 0 /\ session = "none" /\ trace = "none" /\ thread = "none"
    /\ stop = "rest" /\ starting = FALSE /\ starts = 0 /\ Stats = NoStats
    /\ now = 0 /\ runtime = "runs" /\ buffers = <<>> /\ lost = 0 /\ pauses = {} /\ collections = {}
    /\ late = FALSE

Client == Started \/ StopSession \/ Delete \/ JoinTimesOut
Thread == OnGcEvent \/ ThreadEnds
Next ==
    \/ BeginStart \/ BeginStop
    \/ Client
    \/ Thread
    \/ Suspend \/ Collect \/ Restart

Fairness == WF_gcVars(Client) /\ WF_gcVars(Thread)
Spec == Init /\ [][Next]_gcVars /\ Fairness

TypeOK ==
    /\ m_State \in 0 .. starts
    /\ m_State # 0 => session # "none"
    /\ stop = "rest" /\ m_State # 0 => session = "runs" /\ trace = "open"

(* A State is deleted when its thread can't use it any more.                 *)
StateOutlivesThread == ~late /\ (stop = "rest" /\ m_State = 0 => thread = "none")

(* The last and the longest pause are pauses the runtime made, whole; all of *)
(* them together are not longer than it was suspended; collections are       *)
(* counted once.                                                             *)
Ended == {p \in pauses : p[2] # 0}
Paused == UNION {p[1] + 1 .. p[2] : p \in Ended}     \* the ticks
PausesAreTrue ==
    /\ Stats.TotalPause <= Cardinality(Paused)
    /\ {Stats.LastPause, Stats.MaxPause} \subseteq {p[2] - p[1] : p \in Ended} \cup {0}
    /\ Stats.LastPause <= Stats.MaxPause /\ Stats.MaxPause <= Stats.TotalPause
    /\ Stats.Collections <= Cardinality(collections)
    /\ Stats.HasHeap => Stats.HeapSize \in collections

(* Start and Stop return.                                                    *)
InCall == stop # "rest"
GcReturns == InCall ~> ~InCall

=============================================================================
