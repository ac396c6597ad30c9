--------------------------- MODULE EventLogWatcher ---------------------------
(***************************************************************************)
(* The watcher of event logs (WinSys EventLog.cpp, EventLogWatcher): the   *)
(* service calls back on threads of its own, for several channels at once, *)
(* while the client starts and stops.                                      *)
(*                                                                         *)
(* A State is its number: the Start that made it.  A subscription's events *)
(* come one after the other; closing it waits for the one in progress.     *)
(***************************************************************************)
EXTENDS Naturals, Sequences, SequencesExt, FiniteSets

CONSTANTS
    Channels,   \* what Start is asked to watch, in this order
    Publishers,
    MaxStarts, MaxEvents    \* bounds

VARIABLES
    client,     \* "rest", "stop", "subscribe"
    inStart,    \* whether Stop was called by Start
    next,       \* the channels left to subscribe to
    m_Subscriptions,
    m_State, states,    \* the current State or 0; those not deleted
    lock, m_Handles,    \* of the current State's PublisherCache
    callback,   \* channel -> its callback in progress: [at, state, publisher]
    starts, delivered,      \* counts, for the bounds
    opened      \* history: publisher -> how often it was opened for the current State

watchVars == <<client, inStart, next, m_Subscriptions, m_State, states, lock, m_Handles, callback, starts, delivered, opened>>

NoState == 0
NoChannel == ""
NoCallback == [at |-> "none", state |-> NoState, publisher |-> ""]
InProgress(c) == callback[c].at # "none"

-----------------------------------------------------------------------------
(* The client.                                                               *)

BeginStop(start) ==
    /\ client = "rest"
    /\ start => starts < MaxStarts
    /\ client' = "stop" /\ inStart' = start
    /\ UNCHANGED <<next, m_Subscriptions, m_State, states, lock, m_Handles, callback, starts, delivered, opened>>

\* EvtClose waits for the subscription's callback in progress
MayClose(c) == ~InProgress(c)
CloseSubscription ==
    /\ client = "stop" /\ m_Subscriptions # <<>>
    /\ MayClose(Head(m_Subscriptions))
    /\ m_Subscriptions' = Tail(m_Subscriptions)
    /\ UNCHANGED <<client, inStart, next, m_State, states, lock, m_Handles, callback, starts, delivered, opened>>

\* the State goes, and a Start goes on with a new one
Deleted ==
    /\ client = "stop" /\ m_Subscriptions = <<>>
    /\ opened' = [p \in Publishers |-> 0] /\ m_Handles' = {}
    /\ IF inStart
       THEN /\ starts' = starts + 1
            /\ m_State' = starts' /\ states' = (states \ {m_State}) \cup {starts'}
            /\ client' = "subscribe" /\ next' = Channels
       ELSE /\ m_State' = NoState /\ states' = states \ {m_State}
            /\ client' = "rest" /\ UNCHANGED <<next, starts>>
    /\ UNCHANGED <<inStart, m_Subscriptions, lock, callback, delivered>>

\* one channel; it may be refused
Subscribe ==
    /\ client = "subscribe" /\ next # <<>>
    /\ m_Subscriptions' \in {m_Subscriptions, Append(m_Subscriptions, Head(next))}
    /\ next' = Tail(next)
    /\ UNCHANGED <<client, inStart, m_State, states, lock, m_Handles, callback, starts, delivered, opened>>

\* all were asked for: a Start with none stops again and fails
EndStart ==
    /\ client = "subscribe" /\ next = <<>>
    /\ IF m_Subscriptions = <<>> THEN client' = "stop" /\ inStart' = FALSE ELSE client' = "rest" /\ UNCHANGED inStart
    /\ UNCHANGED <<next, m_Subscriptions, m_State, states, lock, m_Handles, callback, starts, delivered, opened>>

-----------------------------------------------------------------------------
(* The service's threads.                                                    *)

\* an event is delivered: rendered, or not
Deliver(c) ==
    /\ c \in ToSet(m_Subscriptions) /\ ~InProgress(c)
    /\ delivered < MaxEvents
    /\ delivered' = delivered + 1
    /\ \E p \in Publishers : callback' = [callback EXCEPT ![c] = [at |-> "render", state |-> m_State, publisher |-> p]]
    /\ UNCHANGED <<client, inStart, next, m_Subscriptions, m_State, states, lock, m_Handles, starts, opened>>

RenderFails(c) ==
    /\ callback[c].at = "render"
    /\ callback' = [callback EXCEPT ![c] = NoCallback]
    /\ UNCHANGED <<client, inStart, next, m_Subscriptions, m_State, states, lock, m_Handles, starts, delivered, opened>>

\* PublisherCache::Get, up to its lookup: what it has is used
Lookup(c) ==
    /\ callback[c].at = "render"
    /\ lock = NoChannel
    /\ IF callback[c].publisher \in m_Handles
       THEN callback' = [callback EXCEPT ![c].at = "sink"] /\ UNCHANGED lock
       ELSE callback' = [callback EXCEPT ![c].at = "open"] /\ lock' = c
    /\ UNCHANGED <<client, inStart, next, m_Subscriptions, m_State, states, m_Handles, starts, delivered, opened>>

\* the publisher's metadata, or that it has none, under the same lock
OpenPublisher(c) ==
    /\ callback[c].at = "open"
    /\ opened' = [opened EXCEPT ![callback[c].publisher] = @ + 1]
    /\ m_Handles' = m_Handles \cup {callback[c].publisher}
    /\ lock' = NoChannel
    /\ callback' = [callback EXCEPT ![c].at = "sink"]
    /\ UNCHANGED <<client, inStart, next, m_Subscriptions, m_State, states, starts, delivered>>

OnEvent(c) ==
    /\ callback[c].at = "sink"
    /\ callback' = [callback EXCEPT ![c] = NoCallback]
    /\ UNCHANGED <<client, inStart, next, m_Subscriptions, m_State, states, lock, m_Handles, starts, delivered, opened>>

-----------------------------------------------------------------------------
Init ==
    /\ client = "rest" /\ inStart = FALSE /\ next = <<>>
    /\ m_Subscriptions = <<>>
    /\ m_State = NoState /\ states = {}
    /\ lock = NoChannel /\ m_Handles = {}
    /\ callback = [c \in ToSet(Channels) |-> NoCallback]
    /\ starts = 0 /\ delivered = 0
    /\ opened = [p \in Publishers |-> 0]

Callback(c) == RenderFails(c) \/ Lookup(c) \/ OpenPublisher(c) \/ OnEvent(c)
Client == CloseSubscription \/ Deleted \/ Subscribe \/ EndStart

Next ==
    \/ \E start \in BOOLEAN : BeginStop(start)
    \/ Client
    \/ \E c \in ToSet(Channels) : Deliver(c) \/ Callback(c)

\* the client's call and a callback go on; no event need come
Fairness == WF_watchVars(Client) /\ \A c \in ToSet(Channels) : WF_watchVars(Callback(c))
Spec == Init /\ [][Next]_watchVars /\ Fairness

TypeOK ==
    /\ client \in {"rest", "stop", "subscribe"} /\ inStart \in BOOLEAN
    /\ ToSet(m_Subscriptions) \subseteq ToSet(Channels)
    /\ states = IF m_State = NoState THEN {} ELSE {m_State}

(* A callback uses a State that is not deleted, and none runs once Stop has  *)
(* returned, so the sink may go then; a publisher is opened once for each    *)
(* State, though callbacks of several channels ask at once.                  *)
CallbacksHaveState ==
    \A c \in ToSet(Channels) : InProgress(c) => callback[c].state \in states /\ callback[c].state = m_State
PublishersOpenedOnce == \A p \in Publishers : opened[p] <= 1

(* Stop waits for callbacks, and they for a lock: Start and Stop return.     *)
InCall == client # "rest"
Returns == InCall ~> ~InCall

=============================================================================
