--------------------------- MODULE MonitorsProofs ---------------------------
(***************************************************************************)
(* Proofs about the monitors and queries that wait for another process, a  *)
(* service or a server, of any number of calls, channels, runtimes, parts  *)
(* and steps of what they wait for.  Each has an invariant of its own,     *)
(* kept by its steps; a behaviour is one monitor's, and so the invariants  *)
(* together are an invariant of MCMonitors.                                *)
(***************************************************************************)
EXTENDS MCMonitors, Sequences, FiniteSets, FiniteSetTheorems, SequenceTheorems, WellFoundedInduction, TLAPS

(* Event logs.                                                               *)

\* A State is there while a subscription is open, or a Start goes on; a callback
\* in progress is of an open subscription, and of that State.
WatcherStates ==
    /\ client \in {"rest", "stop", "subscribe"}
    /\ inStart \in BOOLEAN
    /\ starts \in Nat
    /\ m_State \in Nat
    /\ states = IF m_State = Watcher!NoState THEN {} ELSE {m_State}
    /\ m_Subscriptions \in Seq(Watcher!ToSet(Channels))
    /\ next \in Seq(Watcher!ToSet(Channels))
    /\ client = "subscribe" \/ m_Subscriptions # <<>> => m_State # Watcher!NoState
    /\ DOMAIN callback = Watcher!ToSet(Channels)
    /\ \A c \in Watcher!ToSet(Channels) : Watcher!InProgress(c) =>
         /\ callback[c] \in [at : {"render", "open", "sink"}, state : Nat, publisher : Publishers]
         /\ c \in Watcher!ToSet(m_Subscriptions)
         /\ callback[c].state = m_State

\* The lock is held by the callback that opens a publisher, which no one has
\* opened for the State before.
WatcherCache ==
    /\ opened = [p \in Publishers |-> IF p \in m_Handles THEN 1 ELSE 0]
    /\ m_Handles \subseteq Publishers
    /\ \A c \in Watcher!ToSet(Channels) : callback[c].at = "open" =>
         lock = c /\ callback[c].publisher \notin m_Handles

-----------------------------------------------------------------------------
(* Facts about sequences as sets.                                            *)

LEMMA SetOfAppended ==
    ASSUME NEW S, NEW s \in Seq(S), NEW e \in S
    PROVE  Append(s, e) \in Seq(S) /\ Watcher!ToSet(Append(s, e)) = Watcher!ToSet(s) \cup {e}
<1>1. Append(s, e) \in Seq(S) /\ Len(Append(s, e)) = Len(s) + 1
  OBVIOUS
<1>2. \A i \in 1 .. Len(s) + 1 : Append(s, e)[i] = IF i = Len(s) + 1 THEN e ELSE s[i]
  OBVIOUS
<1>3. DOMAIN s = 1 .. Len(s) /\ DOMAIN Append(s, e) = 1 .. Len(s) + 1 /\ Len(s) \in Nat
  BY <1>1
<1> QED
  BY <1>1, <1>2, <1>3 DEF Watcher!ToSet

LEMMA SetOfTail ==
    ASSUME NEW S, NEW s \in Seq(S), s # <<>>
    PROVE  /\ Head(s) \in S /\ Tail(s) \in Seq(S)
           /\ Watcher!ToSet(s) = {Head(s)} \cup Watcher!ToSet(Tail(s))
<1>1. Head(s) \in S /\ Tail(s) \in Seq(S) /\ Len(Tail(s)) = Len(s) - 1
  OBVIOUS
<1>2. \A i \in 1 .. Len(s) - 1 : Tail(s)[i] = s[i + 1]
  OBVIOUS
<1>3. /\ DOMAIN s = 1 .. Len(s) /\ DOMAIN Tail(s) = 1 .. Len(s) - 1
      /\ Len(s) \in Nat /\ Len(s) # 0 /\ Head(s) = s[1]
  BY <1>1
<1>4. ASSUME NEW x \in Watcher!ToSet(s) PROVE x \in {Head(s)} \cup Watcher!ToSet(Tail(s))
  <2>1. PICK i \in 1 .. Len(s) : x = s[i]
    BY <1>3, <1>4 DEF Watcher!ToSet
  <2>2. CASE i = 1
    BY <2>1, <2>2, <1>3
  <2>3. CASE i # 1
    <3>1. i - 1 \in 1 .. Len(s) - 1 /\ Tail(s)[i - 1] = s[i]
      BY <2>3, <1>2, <1>3
    <3> QED
      BY <2>1, <3>1, <1>3 DEF Watcher!ToSet
  <2> QED
    BY <2>2, <2>3
<1>5. ASSUME NEW x \in {Head(s)} \cup Watcher!ToSet(Tail(s)) PROVE x \in Watcher!ToSet(s)
  BY <1>2, <1>3, <1>5 DEF Watcher!ToSet
<1> QED
  BY <1>1, <1>4, <1>5

LEMMA SetOfChannels == ASSUME NEW s \in Seq(Watcher!ToSet(Channels)) PROVE Watcher!ToSet(s) \subseteq Watcher!ToSet(Channels)
BY DEF Watcher!ToSet

-----------------------------------------------------------------------------
LEMMA WatcherStatesInit == Watcher!Init => WatcherStates
<1> SUFFICES ASSUME Watcher!Init PROVE WatcherStates
  OBVIOUS
<1>1. \A c \in Watcher!ToSet(Channels) : callback[c].at = "none"
  BY DEF Watcher!Init, Watcher!NoCallback
<1>2. /\ client = "rest" /\ inStart = FALSE /\ next = <<>> /\ m_Subscriptions = <<>>
      /\ m_State = 0 /\ states = {} /\ starts = 0
      /\ DOMAIN callback = Watcher!ToSet(Channels)
  BY DEF Watcher!Init, Watcher!NoState
<1>3. <<>> \in Seq(Watcher!ToSet(Channels))
  OBVIOUS
<1> QED
  BY <1>1, <1>2, <1>3 DEF WatcherStates, Watcher!InProgress, Watcher!NoState

\* Each step keeps the State that subscriptions and callbacks refer to.
LEMMA WatcherStatesStep == WatcherStates /\ [Watcher!Next]_Watcher!watchVars => WatcherStates'
<1> SUFFICES ASSUME WatcherStates, [Watcher!Next]_Watcher!watchVars PROVE WatcherStates'
  OBVIOUS
<1> USE DEF WatcherStates
<1>1. ASSUME NEW start \in BOOLEAN, Watcher!BeginStop(start) PROVE WatcherStates'
  BY <1>1 DEF Watcher!BeginStop, Watcher!InProgress
<1>2. CASE Watcher!CloseSubscription
  <2>1. /\ ~Watcher!InProgress(Head(m_Subscriptions))
        /\ m_Subscriptions # <<>>
        /\ m_Subscriptions' = Tail(m_Subscriptions)
        /\ UNCHANGED <<client, inStart, next, m_State, states, callback, starts>>
    BY <1>2 DEF Watcher!CloseSubscription, Watcher!MayClose
  <2>2. /\ m_Subscriptions' \in Seq(Watcher!ToSet(Channels))
        /\ Watcher!ToSet(m_Subscriptions) = {Head(m_Subscriptions)} \cup Watcher!ToSet(m_Subscriptions')
    BY <2>1, SetOfTail
  <2> QED
    BY <2>1, <2>2 DEF Watcher!InProgress
<1>3. CASE Watcher!Deleted
  <2>1. \A c \in Watcher!ToSet(Channels) : ~Watcher!InProgress(c)
    BY <1>3 DEF Watcher!Deleted, Watcher!ToSet
  <2>2. /\ m_Subscriptions = <<>>
        /\ UNCHANGED <<inStart, m_Subscriptions, callback>>
    BY <1>3 DEF Watcher!Deleted
  <2>3. CASE inStart
    <3>1. /\ starts' = starts + 1 /\ m_State' = starts + 1
          /\ states' = (states \ {m_State}) \cup {starts + 1}
          /\ client' = "subscribe" /\ next' = Channels
      BY <1>3, <2>3 DEF Watcher!Deleted
    <3>2. Channels \in Seq(Watcher!ToSet(Channels))
      <4>1. Channels \in Seq(STRING \ {""})
        BY MonitorAssumption
      <4>2. Channels \in Seq(Range(Channels))
        BY <4>1, SeqOfRange
      <4>3. Range(Channels) = Watcher!ToSet(Channels)
        BY DEF Watcher!ToSet, Range
      <4> QED
        BY <4>2, <4>3
    <3> QED
      BY <2>1, <2>2, <3>1, <3>2 DEF Watcher!InProgress, Watcher!NoState
  <2>4. CASE ~inStart
    <3>1. /\ UNCHANGED <<starts, next>> /\ m_State' = Watcher!NoState
          /\ states' = states \ {m_State} /\ client' = "rest"
      BY <1>3, <2>4 DEF Watcher!Deleted
    <3> QED
      BY <2>1, <2>2, <3>1 DEF Watcher!InProgress, Watcher!NoState
  <2> QED
    BY <2>3, <2>4
<1>4. CASE Watcher!Subscribe
  <2>1. /\ client = "subscribe" /\ next # <<>> /\ next' = Tail(next)
        /\ m_Subscriptions' \in {m_Subscriptions, Append(m_Subscriptions, Head(next))}
        /\ UNCHANGED <<client, inStart, m_State, states, callback, starts>>
    BY <1>4 DEF Watcher!Subscribe
  <2>2. Head(next) \in Watcher!ToSet(Channels) /\ next' \in Seq(Watcher!ToSet(Channels))
    BY <2>1, SetOfTail
  <2>3. m_Subscriptions' \in Seq(Watcher!ToSet(Channels)) /\ Watcher!ToSet(m_Subscriptions) \subseteq Watcher!ToSet(m_Subscriptions')
    <3>1. CASE m_Subscriptions' = m_Subscriptions
      BY <3>1
    <3>2. CASE m_Subscriptions' = Append(m_Subscriptions, Head(next))
      <4>1. m_Subscriptions \in Seq(Watcher!ToSet(Channels))
        OBVIOUS
      <4> QED
        BY <2>2, <3>2, <4>1, SetOfAppended
    <3> QED
      BY <2>1, <3>1, <3>2
  <2> QED
    BY <2>1, <2>2, <2>3 DEF Watcher!InProgress
<1>5. CASE Watcher!EndStart
  BY <1>5 DEF Watcher!EndStart, Watcher!InProgress
<1>6. ASSUME NEW c \in Watcher!ToSet(Channels), Watcher!Deliver(c) PROVE WatcherStates'
  <2>1. /\ c \in Watcher!ToSet(m_Subscriptions)
        /\ UNCHANGED <<client, inStart, next, m_Subscriptions, m_State, states, starts>>
    BY <1>6 DEF Watcher!Deliver
  <2>2. PICK p \in Publishers : callback' = [callback EXCEPT ![c] = [at |-> "render", state |-> m_State, publisher |-> p]]
    BY <1>6 DEF Watcher!Deliver
  <2> QED
    BY <2>1, <2>2 DEF Watcher!InProgress
<1>7. ASSUME NEW c \in Watcher!ToSet(Channels), Watcher!RenderFails(c) \/ Watcher!OnEvent(c) PROVE WatcherStates'
  <2>1. /\ callback' = [callback EXCEPT ![c] = Watcher!NoCallback]
        /\ UNCHANGED <<client, inStart, next, m_Subscriptions, m_State, states, starts>>
    BY <1>7 DEF Watcher!RenderFails, Watcher!OnEvent
  <2> QED
    BY <2>1 DEF Watcher!InProgress, Watcher!NoCallback
<1>8. ASSUME NEW c \in Watcher!ToSet(Channels), Watcher!Lookup(c) \/ Watcher!OpenPublisher(c) PROVE WatcherStates'
  <2>1. /\ Watcher!InProgress(c)
        /\ \E to \in {"sink", "open"} : callback' = [callback EXCEPT ![c].at = to]
        /\ UNCHANGED <<client, inStart, next, m_Subscriptions, m_State, states, starts>>
    BY <1>8 DEF Watcher!Lookup, Watcher!OpenPublisher, Watcher!InProgress
  <2>2. PICK to \in {"sink", "open"} : callback' = [callback EXCEPT ![c].at = to]
    BY <2>1
  <2>3. callback[c] \in [at : {"render", "open", "sink"}, state : Nat, publisher : Publishers]
    BY <2>1
  <2>4. callback'[c] = [at |-> to, state |-> callback[c].state, publisher |-> callback[c].publisher]
    BY <2>2, <2>3
  <2>5. \A d \in Watcher!ToSet(Channels) : d # c => callback'[d] = callback[d]
    BY <2>2
  <2>6. DOMAIN callback' = Watcher!ToSet(Channels)
    BY <2>2
  <2> QED
    BY <2>1, <2>3, <2>4, <2>5, <2>6 DEF Watcher!InProgress
<1>9. CASE UNCHANGED Watcher!watchVars
  BY <1>9 DEF Watcher!watchVars, Watcher!InProgress
<1> QED
  BY <1>1, <1>2, <1>3, <1>4, <1>5, <1>6, <1>7, <1>8, <1>9 DEF Watcher!Next, Watcher!Client, Watcher!Callback

LEMMA WatcherCacheInit == Watcher!Init => WatcherCache
<1> SUFFICES ASSUME Watcher!Init PROVE WatcherCache
  OBVIOUS
<1>1. \A c \in Watcher!ToSet(Channels) : callback[c].at = "none"
  BY DEF Watcher!Init, Watcher!NoCallback
<1> QED
  BY <1>1 DEF Watcher!Init, WatcherCache

\* The lock is one callback's from the lookup to the handle.
LEMMA WatcherCacheStep ==
    WatcherStates /\ WatcherCache /\ [Watcher!Next]_Watcher!watchVars => WatcherCache'
<1> SUFFICES ASSUME WatcherStates, WatcherCache, [Watcher!Next]_Watcher!watchVars
             PROVE  WatcherCache'
  OBVIOUS
<1>c. Watcher!NoChannel \notin Watcher!ToSet(Channels)
  <2>1. Channels \in Seq(STRING \ {""})
    BY MonitorAssumption
  <2>2. \A i \in DOMAIN Channels : Channels[i] \in STRING \ {""}
    BY <2>1, LenProperties, ElementOfSeq, ZenonT(60)
  <2> QED
    BY <2>2 DEF Watcher!ToSet, Watcher!NoChannel
<1> USE DEF WatcherCache
<1>0. DOMAIN callback = Watcher!ToSet(Channels)
  BY DEF WatcherStates
<1>1. CASE \/ \E start \in BOOLEAN : Watcher!BeginStop(start)
           \/ Watcher!CloseSubscription \/ Watcher!Subscribe \/ Watcher!EndStart \/ UNCHANGED Watcher!watchVars
  <2>1. UNCHANGED <<opened, m_Handles, lock, callback>>
    BY <1>1 DEF Watcher!BeginStop, Watcher!CloseSubscription, Watcher!Subscribe, Watcher!EndStart, Watcher!watchVars
  <2> QED
    BY <2>1
<1>2. CASE Watcher!Deleted
  <2>1. /\ opened' = [p \in Publishers |-> 0] /\ m_Handles' = {} /\ callback' = callback
        /\ m_Subscriptions = <<>>
    BY <1>2 DEF Watcher!Deleted
  <2>2. \A c \in Watcher!ToSet(Channels) : callback[c].at = "none"
    BY <2>1 DEF WatcherStates, Watcher!InProgress, Watcher!ToSet
  <2> QED
    BY <2>1, <2>2
<1>3. ASSUME NEW c \in Watcher!ToSet(Channels), Watcher!Deliver(c) \/ Watcher!RenderFails(c) \/ Watcher!OnEvent(c) PROVE WatcherCache'
  <2>1. /\ UNCHANGED <<opened, m_Handles, lock>>
        /\ \E new : callback' = [callback EXCEPT ![c] = new] /\ new.at # "open"
    BY <1>3 DEF Watcher!Deliver, Watcher!RenderFails, Watcher!OnEvent, Watcher!NoCallback
  <2>2. \A d \in Watcher!ToSet(Channels) : callback'[d].at = "open" => callback'[d] = callback[d]
    BY <1>0, <2>1
  <2> QED
    BY <2>1, <2>2
<1>4. ASSUME NEW c \in Watcher!ToSet(Channels), Watcher!Lookup(c) PROVE WatcherCache'
  <2>1. /\ lock = Watcher!NoChannel /\ Watcher!InProgress(c)
        /\ UNCHANGED <<opened, m_Handles>>
    BY <1>4 DEF Watcher!Lookup, Watcher!InProgress
  <2>2. \A d \in Watcher!ToSet(Channels) : callback[d].at # "open"
    BY <1>c, <2>1
  <2>3. callback[c] \in [at : {"render", "open", "sink"}, state : Nat, publisher : Publishers]
    BY <2>1 DEF WatcherStates
  <2>4. CASE callback[c].publisher \in m_Handles
    <3>1. callback' = [callback EXCEPT ![c].at = "sink"]
      BY <1>4, <2>4 DEF Watcher!Lookup
    <3>2. \A d \in Watcher!ToSet(Channels) : callback'[d].at # "open"
      BY <1>0, <2>2, <2>3, <3>1
    <3> QED
      BY <2>1, <3>2
  <2>5. CASE callback[c].publisher \notin m_Handles
    <3>1. callback' = [callback EXCEPT ![c].at = "open"] /\ lock' = c
      BY <1>4, <2>5 DEF Watcher!Lookup
    <3>2. /\ callback'[c].publisher = callback[c].publisher
          /\ \A d \in Watcher!ToSet(Channels) : d # c => callback'[d].at # "open"
      BY <1>0, <2>2, <2>3, <3>1
    <3> QED
      BY <2>1, <2>5, <3>1, <3>2
  <2> QED
    BY <2>4, <2>5
<1>5. ASSUME NEW c \in Watcher!ToSet(Channels), Watcher!OpenPublisher(c) PROVE WatcherCache'
  <2>1. /\ callback[c].at = "open"
        /\ opened' = [opened EXCEPT ![callback[c].publisher] = @ + 1]
        /\ m_Handles' = m_Handles \cup {callback[c].publisher}
        /\ callback' = [callback EXCEPT ![c].at = "sink"]
    BY <1>5 DEF Watcher!OpenPublisher
  <2>2. /\ callback[c] \in [at : {"render", "open", "sink"}, state : Nat, publisher : Publishers]
        /\ callback[c].publisher \notin m_Handles
    BY <2>1 DEF WatcherStates, Watcher!InProgress
  <2>3. \A d \in Watcher!ToSet(Channels) : callback'[d].at # "open"
    <3>1. \A d \in Watcher!ToSet(Channels) : d # c => callback[d].at # "open"
      BY <2>1
    <3> QED
      BY <1>0, <2>1, <2>2, <3>1
  <2>4. opened' = [p \in Publishers |-> IF p \in m_Handles' THEN 1 ELSE 0]
    BY <2>1, <2>2
  <2> QED
    BY <2>1, <2>2, <2>3, <2>4
<1> QED
  BY <1>1, <1>2, <1>3, <1>4, <1>5 DEF Watcher!Next, Watcher!Client, Watcher!Callback

LEMMA WatcherKept ==
    WatcherStates /\ WatcherCache =>
        Watcher!TypeOK /\ Watcher!CallbacksHaveState /\ Watcher!PublishersOpenedOnce
<1>1. ASSUME WatcherStates PROVE Watcher!CallbacksHaveState
  <2> SUFFICES ASSUME NEW c \in Watcher!ToSet(Channels), Watcher!InProgress(c)
               PROVE  callback[c].state \in states /\ callback[c].state = m_State
    BY DEF Watcher!CallbacksHaveState
  <2>1. callback[c].state = m_State /\ c \in Watcher!ToSet(m_Subscriptions)
    BY <1>1 DEF WatcherStates
  <2>2. m_Subscriptions # <<>>
    BY <2>1 DEF Watcher!ToSet
  <2>3. m_State # Watcher!NoState /\ states = {m_State}
    BY <1>1, <2>2 DEF WatcherStates
  <2> QED
    BY <2>1, <2>3
<1>2. WatcherCache => Watcher!PublishersOpenedOnce
  BY DEF WatcherCache, Watcher!PublishersOpenedOnce
<1>3. ASSUME WatcherStates PROVE Watcher!TypeOK
  <2>1. Watcher!ToSet(m_Subscriptions) \subseteq Watcher!ToSet(Channels)
    BY <1>3, SetOfChannels DEF WatcherStates
  <2> QED
    BY <1>3, <2>1 DEF WatcherStates, Watcher!TypeOK
<1> QED
  BY <1>1, <1>2, <1>3

\* A callback uses a State that is not deleted, the current one, and none is in
\* progress once Stop has closed the subscriptions (EventLogWatcher::Stop: the
\* sink may go then).
THEOREM StateOutlivesCallbacks == Watcher!Spec => []Watcher!CallbacksHaveState
<1>1. WatcherStates /\ WatcherCache => Watcher!CallbacksHaveState
  BY WatcherKept
<1> QED
  BY <1>1, WatcherStatesInit, WatcherStatesStep, WatcherCacheInit, WatcherCacheStep, PTL DEF Watcher!Spec

\* A publisher's metadata is opened once for each State, or found missing once,
\* though callbacks of several channels ask for it at the same time
\* (PublisherCache::Get, under its lock).
THEOREM PublisherOpenedOnce == Watcher!Spec => []Watcher!PublishersOpenedOnce
<1>1. WatcherCache => Watcher!PublishersOpenedOnce
  BY DEF WatcherCache, Watcher!PublishersOpenedOnce
<1> QED
  BY <1>1, WatcherStatesInit, WatcherStatesStep, WatcherCacheInit, WatcherCacheStep, PTL DEF Watcher!Spec

-----------------------------------------------------------------------------
(* A Linux session's helper, and the thread that reads what it prints.       *)

Marks == [mark : {"K", "R", "F", "E"}, helper : Nat, frame : Nat]

\* What a call's step leaves of the helper, the thread and what they share: no
\* helper is left when the thread is waited for, no thread when the pipes go.
WslCalls ==
    /\ client \in {"rest", "write", "exit", "join", "cancel", "clear", "launch"}
    /\ session \in Nat
    /\ m_Process \in {"none", "runs", "exited"}
    /\ m_Input \in BOOLEAN
    /\ m_Thread \in {"none", "read", "parse", "ended"}
    /\ helper \in {"off", "start", "constants", "wait", "frame"}
    /\ (helper = "off") = (m_Process # "runs")
    /\ input \in 0 .. PipeSize
    /\ m_Thread # "none" => session # 0
    /\ client \in {"exit", "join", "cancel", "clear", "launch"} => ~m_Input
    /\ m_Input => m_Process # "none"
    /\ client = "write" => m_Process # "none"
    /\ client \in {"join", "cancel", "clear", "launch"} => helper = "off"
    /\ client = "clear" => m_Thread \in {"none", "ended"}
    /\ client = "launch" => m_Process = "none" /\ output = <<>>
    /\ client \in {"rest", "launch"} /\ m_Process = "none" =>
         m_Thread = "none" /\ m_System = 0 /\ m_Frame = Wsl!NoFrame

\* What was printed and not taken is the thread's helper's, in the order it prints
\* it in: the constants, if they were not taken, then frame after frame.
Stream == buffer \o output
Follows(a, b) ==
    \/ a.mark = "K" /\ b.mark = "R"
    \/ a.mark \in {"R", "E"} /\ b.mark = "F"
    \/ a.mark = "F" /\ b.mark = "E" /\ a.frame = b.frame
LastIs(marks) == Stream # <<>> /\ Stream[Len(Stream)].mark \in marks
InOrder ==
    /\ \A i \in 1 .. Len(Stream) - 1 : Follows(Stream[i], Stream[i + 1])
    /\ Stream # <<>> => Stream[1].mark = IF system = 0 THEN "K" ELSE "F"
    /\ helper = "start" => Stream = <<>> /\ system = 0
    /\ helper = "constants" => LastIs({"K"})
    /\ helper = "wait" => LastIs({"R", "E"}) \/ (Stream = <<>> /\ system # 0)
    /\ helper = "frame" => LastIs({"F"}) /\ Stream[Len(Stream)].frame = printed
WslStream ==
    /\ printed \in Nat /\ system \in Nat
    /\ buffer \in Seq(Marks) /\ output \in Seq(Marks)
    /\ m_Thread # "none" => \A i \in 1 .. Len(Stream) : Stream[i].helper = session /\ Stream[i].frame <= printed
    /\ m_Thread \in {"read", "parse"} => InOrder

\* What was taken is of the same helper, and whole.
WslTaken ==
    /\ m_Thread \in {"read", "parse"} => m_System = system
    /\ m_Thread \in {"read", "parse"} /\ system # 0 => system = session
    /\ m_System \in 0 .. session
    /\ m_Frame \in [frame : Nat, helper : 0 .. session, whole : BOOLEAN]
    /\ m_Frame # Wsl!NoFrame =>
        /\ m_Frame.whole /\ m_Frame.helper = session
        /\ m_System = session
        /\ m_Frame.frame <= printed


-----------------------------------------------------------------------------
LEMMA SmallestNat == ASSUME NEW T, T \subseteq Nat, T # {} PROVE \E x \in T : \A y \in T : x <= y
<1> DEFINE R == OpToRel(<, Nat)
<1>1. IsWellFoundedOn(R, Nat)
  BY NatLessThanWellFounded
<1>2. \E x \in T : \A y \in T : ~ (<<y, x>> \in R)
  BY <1>1, WFMin
<1>3. \A x, y \in Nat : x < y => <<x, y>> \in R
  BY DEF OpToRel
<1> HIDE DEF R
<1>4. ASSUME NEW x \in Nat, NEW y \in Nat, ~(y < x) PROVE x <= y
  BY <1>4
<1> QED
  BY <1>2, <1>3, <1>4

\* A piece of what follows, taken to what is before it, changes nothing of the two.
LEMMA PieceMoved ==
    ASSUME NEW S, NEW s \in Seq(S), NEW t \in Seq(S)
    PROVE  \A n \in 1 .. Len(t) :
             /\ s \o SubSeq(t, 1, n) \in Seq(S)
             /\ SubSeq(t, n + 1, Len(t)) \in Seq(S)
             /\ (s \o SubSeq(t, 1, n)) \o SubSeq(t, n + 1, Len(t)) = s \o t
<1>1. \A x, y, z \in Seq(S) : (x \o y) \o z = x \o (y \o z)
  BY ConcatAssociative
<1> TAKE n \in 1 .. Len(t)
<1> DEFINE a == SubSeq(t, 1, n)
           b == SubSeq(t, n + 1, Len(t))
<1>2. Len(t) \in Nat /\ \A i \in 1 .. Len(t) : t[i] \in S
  BY LenProperties, ElementOfSeq
<1>3. a \in Seq(S) /\ b \in Seq(S)
  BY <1>2, SubSeqProperties
<1>4. a \o b = SubSeq(t, 1, Len(t))
  BY <1>2, ConcatAdjacentSubSeq
<1>5. SubSeq(t, 1, Len(t)) = t
  BY SubSeqFull
<1>6. s \o a \in Seq(S)
  BY <1>3, ConcatProperties
<1> HIDE DEF a, b
<1>7. (s \o a) \o b = s \o (a \o b)
  BY <1>1, <1>3, Zenon
<1>8. (s \o a) \o b = s \o t
  BY <1>4, <1>5, <1>7, Zenon
<1> QED
  BY <1>3, <1>6, <1>8, Zenon DEF a, b

\* What is said comes last of the two.
LEMMA SaidLast ==
    ASSUME NEW S, NEW s \in Seq(S), NEW t \in Seq(S), NEW e \in S
    PROVE  Append(t, e) \in Seq(S) /\ s \o Append(t, e) = Append(s \o t, e)
<1>1. Append(t, e) = t \o <<e>> /\ <<e>> \in Seq(S) /\ Append(t, e) \in Seq(S)
  BY AppendIsConcat, AppendProperties
<1>2. s \o t \in Seq(S)
  BY ConcatProperties
<1>3. Append(s \o t, e) = (s \o t) \o <<e>>
  BY <1>2, AppendIsConcat
<1> QED
  BY <1>1, <1>3, ConcatAssociative

\* What is taken from the first is taken from the two.
LEMMA TakenFirst ==
    ASSUME NEW S, NEW s \in Seq(S), NEW t \in Seq(S), NEW n \in 1 .. Len(s)
    PROVE  /\ SubSeq(s, n + 1, Len(s)) \in Seq(S)
           /\ SubSeq(s, n + 1, Len(s)) \o t \in Seq(S)
           /\ Len(SubSeq(s, n + 1, Len(s)) \o t) = Len(s \o t) - n
           /\ \A i \in 1 .. Len(s \o t) - n : (SubSeq(s, n + 1, Len(s)) \o t)[i] = (s \o t)[i + n]
<1> DEFINE u == SubSeq(s, n + 1, Len(s))
<1>1. Len(s) \in Nat /\ Len(t) \in Nat /\ \A i \in 1 .. Len(s) : s[i] \in S
  BY LenProperties, ElementOfSeq
<1>2. u \in Seq(S) /\ Len(u) = Len(s) - n /\ \A i \in 1 .. Len(s) - n : u[i] = s[i + n]
  <2>1. \A i \in n + 1 .. Len(s) : s[i] \in S
    BY <1>1
  <2>2. /\ SubSeq(s, n + 1, Len(s)) \in Seq(S)
        /\ Len(SubSeq(s, n + 1, Len(s))) = IF n + 1 <= Len(s) THEN Len(s) - (n + 1) + 1 ELSE 0
        /\ \A i \in 1 .. Len(s) - (n + 1) + 1 : SubSeq(s, n + 1, Len(s))[i] = s[n + 1 + i - 1]
    BY <1>1, <2>1, SubSeqProperties
  <2> QED
    BY <1>1, <2>2
<1> HIDE DEF u
<1>3. /\ u \o t \in Seq(S) /\ Len(u \o t) = Len(u) + Len(t)
      /\ \A i \in 1 .. Len(u) + Len(t) : (u \o t)[i] = IF i <= Len(u) THEN u[i] ELSE t[i - Len(u)]
  BY <1>2, ConcatProperties
<1>4. /\ Len(s \o t) = Len(s) + Len(t)
      /\ \A i \in 1 .. Len(s) + Len(t) : (s \o t)[i] = IF i <= Len(s) THEN s[i] ELSE t[i - Len(s)]
  BY ConcatProperties
<1>5. ASSUME NEW i \in 1 .. Len(s \o t) - n PROVE (u \o t)[i] = (s \o t)[i + n]
  <2>1. i \in 1 .. Len(u) + Len(t) /\ i + n \in 1 .. Len(s) + Len(t)
    BY <1>1, <1>2, <1>4
  <2>2. CASE i <= Len(u)
    BY <1>1, <1>2, <1>3, <1>4, <2>1, <2>2
  <2>3. CASE ~(i <= Len(u))
    <3>1. (u \o t)[i] = t[i - Len(u)]
      BY <1>3, <2>1, <2>3
    <3>2. (s \o t)[i + n] = t[i + n - Len(s)] /\ i + n - Len(s) = i - Len(u)
      BY <1>1, <1>2, <1>4, <2>1, <2>3
    <3> QED
      BY <3>1, <3>2
  <2> QED
    BY <2>2, <2>3
<1>6. u \o t \in Seq(S) /\ Len(u \o t) = Len(s \o t) - n
  BY <1>1, <1>2, <1>3, <1>4
<1> QED
  BY <1>2, <1>5, <1>6 DEF u
-----------------------------------------------------------------------------
(* The Linux session.                                                        *)

LEMMA WslCallsStep == WslCalls /\ [Wsl!Next]_Wsl!wslVars => WslCalls'
<1> SUFFICES ASSUME WslCalls, [Wsl!Next]_Wsl!wslVars PROVE WslCalls'
  OBVIOUS
<1>0. PipeSize \in Nat
  BY MonitorAssumption
<1> USE DEF WslCalls, Wsl!clientVars, Wsl!monitorVars, Wsl!helperVars, Wsl!None
<1>1. CASE Wsl!PrintK \/ Wsl!PrintR \/ Wsl!PrintE
  <2>1. /\ helper \in {"start", "constants", "frame"} /\ helper' \in {"constants", "wait"}
        /\ UNCHANGED <<client, session, m_Process, m_Input, m_Thread, m_System, m_Frame, input>>
    BY <1>1 DEF Wsl!PrintK, Wsl!PrintR, Wsl!PrintE
  <2> QED
    BY <2>1
<1>2. CASE Wsl!PrintF
  <2>1. /\ helper = "wait" /\ helper' = "frame" /\ input > 0 /\ input' = input - 1
        /\ UNCHANGED <<client, session, m_Process, m_Input, m_Thread, m_System, m_Frame>>
    BY <1>2 DEF Wsl!PrintF
  <2>2. input' \in 0 .. PipeSize
    BY <1>0, <2>1
  <2> QED
    BY <2>1, <2>2
<1>3. CASE Wsl!HelperEnds \/ Wsl!HelperReadsEnd
  BY <1>3 DEF Wsl!HelperEnds, Wsl!HelperReadsEnd
<1>4. CASE Wsl!HeldIsClosed
  BY <1>4 DEF Wsl!HeldIsClosed
<1>5. CASE Wsl!ReadChunk
  <2>1. /\ m_Thread = "read" /\ output # <<>> /\ m_Thread' = "parse"
        /\ UNCHANGED <<client, session, m_Process, m_Input, m_System, m_Frame, input, helper>>
    BY <1>5 DEF Wsl!ReadChunk
  <2> QED
    BY <2>1
<1>6. CASE Wsl!OutputEnds
  BY <1>6 DEF Wsl!OutputEnds
<1>7. CASE Wsl!TakeHeader \/ Wsl!TakeRead
  <2>1. /\ m_Thread = "parse"
        /\ UNCHANGED <<client, session, m_Process, m_Input, m_Thread, input, helper, output>>
    BY <1>7 DEF Wsl!TakeHeader, Wsl!TakeRead
  <2> QED
    BY <2>1
<1>8. CASE Wsl!ReadOn
  <2>1. /\ m_Thread = "parse" /\ m_Thread' = "read"
        /\ UNCHANGED <<client, session, m_Process, m_Input, m_System, m_Frame, input, helper, output>>
    BY <1>8 DEF Wsl!ReadOn
  <2> QED
    BY <2>1
<1>9. CASE Wsl!Written
  <2>1. input' \in 0 .. PipeSize
    BY <1>0, <1>9 DEF Wsl!Written
  <2> QED
    BY <2>1, <1>9 DEF Wsl!Written
<1>10. CASE Wsl!WaitExit
  <2>1. client = "exit" /\ client' = "join" /\ helper' = "off"
    BY <1>10 DEF Wsl!WaitExit
  <2>2. m_Process' # "runs" /\ m_Process' \in {"none", "runs", "exited"}
    BY <1>10 DEF Wsl!WaitExit
  <2>3. UNCHANGED <<session, m_Input, m_Thread, m_System, m_Frame, input, output>>
    BY <1>10 DEF Wsl!WaitExit
  <2> QED
    BY <2>1, <2>2, <2>3
<1>11. CASE Wsl!JoinThread
  BY <1>11 DEF Wsl!JoinThread
<1>12. CASE Wsl!JoinTimesOut
  BY <1>12 DEF Wsl!JoinTimesOut, Wsl!CancelRead
<1>13. CASE Wsl!Clear
  <2>1. 0 \in 0 .. PipeSize
    BY <1>0
  <2> QED
    BY <2>1, <1>13 DEF Wsl!Clear
<1>14. CASE Wsl!Launch
  <2>1. client = "launch" /\ client' = "rest" /\ UNCHANGED <<m_System, m_Frame, input>>
    BY <1>14 DEF Wsl!Launch
  <2>2. CASE session' = session + 1 /\ m_Process' = "runs" /\ m_Input' = TRUE /\ helper' = "start" /\ m_Thread' = "read"
    BY <2>1, <2>2
  <2>3. CASE UNCHANGED <<session, m_Process, m_Input, helper, m_Thread>>
    BY <2>1, <2>3
  <2> QED
    BY <1>14, <2>2, <2>3 DEF Wsl!Launch
<1>15. CASE Wsl!LaunchThreadFails
  <2>1. /\ client = "launch" /\ client' = "exit" /\ session' = session + 1
        /\ m_Process' = "runs" /\ helper' = "start" /\ m_Input' = FALSE
        /\ UNCHANGED <<m_Thread, m_System, m_Frame, input>>
    BY <1>15 DEF Wsl!LaunchThreadFails
  <2>2. ~m_Input' /\ m_Input' \in BOOLEAN
    BY <2>1
  <2>3. session' \in Nat
    BY <2>1
  <2>4. (helper' = "off") = (m_Process' # "runs")
    BY <2>1
  <2> QED
    BY <2>1, <2>2, <2>3, <2>4
<1>16. CASE Wsl!Request
  BY <1>16 DEF Wsl!Request
<1>17. CASE Wsl!TakeFrame
  BY <1>17 DEF Wsl!TakeFrame
<1>18. ASSUME NEW start \in BOOLEAN, Wsl!BeginStop(start) PROVE WslCalls'
  BY <1>18 DEF Wsl!BeginStop
<1>19. CASE UNCHANGED Wsl!wslVars
  BY <1>19 DEF Wsl!wslVars
<1> QED
  BY <1>1, <1>2, <1>3, <1>4, <1>5, <1>6, <1>7, <1>8, <1>9, <1>10, <1>11, <1>12, <1>13, <1>14, <1>15, <1>16, <1>17, <1>18, <1>19
  DEF Wsl!Next, Wsl!Helper, Wsl!Read, Wsl!Client

LEMMA StreamIs ==
    ASSUME WslStream
    PROVE  /\ Stream \in Seq(Marks)
           /\ Len(Stream) \in Nat /\ Len(buffer) \in Nat /\ Len(buffer) <= Len(Stream)
           /\ \A i \in 1 .. Len(Stream) : Stream[i] \in Marks
           /\ \A i \in 1 .. Len(buffer) : Stream[i] = buffer[i]
<1>1. buffer \in Seq(Marks) /\ output \in Seq(Marks)
  BY DEF WslStream
<1>2. /\ Stream \in Seq(Marks)
      /\ Len(Stream) = Len(buffer) + Len(output)
      /\ \A i \in 1 .. Len(buffer) + Len(output) : Stream[i] = IF i <= Len(buffer) THEN buffer[i] ELSE output[i - Len(buffer)]
  BY <1>1, ConcatProperties DEF Stream
<1>3. Len(buffer) \in Nat /\ Len(output) \in Nat
  BY <1>1, LenProperties
<1>4. \A i \in 1 .. Len(Stream) : Stream[i] \in Marks
  BY <1>2, ElementOfSeq
<1> QED
  BY <1>2, <1>3, <1>4

\* What the helper prints goes on in order, whatever it was.
LEMMA SaidInOrder ==
    ASSUME WslCalls, WslStream, NEW e \in Marks,
           output' = Append(output, e), UNCHANGED <<buffer, session, m_Thread, system>>,
           printed' \in Nat, printed <= printed', e.helper = session, e.frame = printed'
    PROVE  /\ buffer' \in Seq(Marks) /\ output' \in Seq(Marks)
           /\ Stream' # <<>> /\ Stream'[Len(Stream')] = e
           /\ m_Thread' # "none" =>
                \A i \in 1 .. Len(Stream') : Stream'[i].helper = session' /\ Stream'[i].frame <= printed'
           /\ /\ m_Thread \in {"read", "parse"}
              /\ IF Stream = <<>> THEN e.mark = (IF system = 0 THEN "K" ELSE "F")
                                  ELSE Follows(Stream[Len(Stream)], e)
              => /\ \A i \in 1 .. Len(Stream') - 1 : Follows(Stream'[i], Stream'[i + 1])
                 /\ Stream'[1].mark = IF system' = 0 THEN "K" ELSE "F"
<1>1. buffer \in Seq(Marks) /\ output \in Seq(Marks) /\ printed \in Nat
  BY DEF WslStream
<1>2. output' \in Seq(Marks) /\ Stream' = Append(Stream, e)
  BY <1>1, SaidLast DEF Stream
<1>3. Stream \in Seq(Marks) /\ Len(Stream) \in Nat /\ \A i \in 1 .. Len(Stream) : Stream[i] \in Marks
  BY StreamIs
<1>4. /\ Stream' # <<>> /\ Len(Stream') = Len(Stream) + 1
      /\ \A i \in 1 .. Len(Stream) : Stream'[i] = Stream[i]
      /\ Stream'[Len(Stream) + 1] = e
  BY <1>2, <1>3, AppendProperties
<1>5. ASSUME m_Thread' # "none", NEW i \in 1 .. Len(Stream')
      PROVE  Stream'[i].helper = session' /\ Stream'[i].frame <= printed'
  <2>1. CASE i = Len(Stream) + 1
    BY <2>1, <1>4
  <2>2. CASE i # Len(Stream) + 1
    <3>1. i \in 1 .. Len(Stream)
      BY <1>3, <1>4, <2>2
    <3>2. Stream[i].helper = session /\ Stream[i].frame <= printed /\ Stream[i].frame \in Nat
      BY <1>3, <1>5, <3>1 DEF WslStream, Marks
    <3> QED
      BY <1>1, <1>4, <3>1, <3>2
  <2> QED
    BY <2>1, <2>2
<1>6. ASSUME m_Thread \in {"read", "parse"},
             IF Stream = <<>> THEN e.mark = (IF system = 0 THEN "K" ELSE "F") ELSE Follows(Stream[Len(Stream)], e)
      PROVE  /\ \A i \in 1 .. Len(Stream') - 1 : Follows(Stream'[i], Stream'[i + 1])
             /\ Stream'[1].mark = IF system' = 0 THEN "K" ELSE "F"
  <2>1. /\ \A i \in 1 .. Len(Stream) - 1 : Follows(Stream[i], Stream[i + 1])
        /\ Stream # <<>> => Stream[1].mark = IF system = 0 THEN "K" ELSE "F"
    BY <1>6 DEF WslStream, InOrder
  <2>2. CASE Stream = <<>>
    <3>1. Len(Stream) = 0
      BY <2>2, EmptySeq
    <3> QED
      BY <1>4, <1>6, <2>2, <3>1
  <2>3. CASE Stream # <<>>
    <3>1. Len(Stream) \in Nat \ {0}
      BY <1>3, <2>3, EmptySeq
    <3>2. Follows(Stream[Len(Stream)], e)
      BY <1>6, <2>3
    <3>3. Stream'[1] = Stream[1]
      BY <1>4, <3>1
    <3>4. ASSUME NEW i \in 1 .. Len(Stream') - 1 PROVE Follows(Stream'[i], Stream'[i + 1])
      <4>1. CASE i = Len(Stream)
        <5>1. Stream'[i] = Stream[Len(Stream)] /\ Stream'[i + 1] = e
          BY <1>4, <3>1, <4>1
        <5> QED
          BY <3>2, <5>1
      <4>2. CASE i # Len(Stream)
        <5>1. i \in 1 .. Len(Stream) - 1 /\ i \in 1 .. Len(Stream) /\ i + 1 \in 1 .. Len(Stream)
          BY <1>4, <3>1, <4>2
        <5>2. Stream'[i] = Stream[i] /\ Stream'[i + 1] = Stream[i + 1]
          BY <1>4, <5>1
        <5> QED
          BY <2>1, <5>1, <5>2
      <4> QED
        BY <4>1, <4>2
    <3> QED
      BY <2>1, <2>3, <3>3, <3>4
  <2> QED
    BY <2>2, <2>3
<1>7. Stream'[Len(Stream')] = e
  BY <1>4
<1> QED
  BY <1>1, <1>2, <1>4, <1>5, <1>6, <1>7

LEMMA SaidKeepsStream ==
    ASSUME WslCalls, WslStream, NEW e \in Marks,
           output' = Append(output, e), UNCHANGED <<buffer, session, m_Thread, system>>,
           printed' \in Nat, printed <= printed', e.helper = session, e.frame = printed',
           \/ e.mark = "K" /\ helper' = "constants"
           \/ e.mark \in {"R", "E"} /\ helper' = "wait"
           \/ e.mark = "F" /\ helper' = "frame",
           m_Thread \in {"read", "parse"} =>
             IF Stream = <<>> THEN e.mark = (IF system = 0 THEN "K" ELSE "F") ELSE Follows(Stream[Len(Stream)], e)
    PROVE  WslStream'
<1>1. /\ buffer' \in Seq(Marks) /\ output' \in Seq(Marks)
      /\ Stream' # <<>> /\ Stream'[Len(Stream')] = e
      /\ m_Thread' # "none" =>
           \A i \in 1 .. Len(Stream') : Stream'[i].helper = session' /\ Stream'[i].frame <= printed'
      /\ m_Thread \in {"read", "parse"} =>
           /\ \A i \in 1 .. Len(Stream') - 1 : Follows(Stream'[i], Stream'[i + 1])
           /\ Stream'[1].mark = IF system' = 0 THEN "K" ELSE "F"
  BY SaidInOrder
<1>2. system' \in Nat
  BY DEF WslStream
<1> QED
  BY <1>1, <1>2 DEF WslStream, InOrder, LastIs

\* The mark that ends what is to be taken is the second in the buffer.
LEMMA FirstMark ==
    ASSUME NEW mark, buffer \in Seq(Marks), Wsl!End(mark) # 0
    PROVE  /\ Wsl!End(mark) \in 1 .. Len(buffer)
           /\ buffer[Wsl!End(mark)].mark = mark
           /\ \A i \in 1 .. Len(buffer) : buffer[i].mark = mark => Wsl!End(mark) <= i
<1> DEFINE T == {i \in 1 .. Len(buffer) : buffer[i].mark = mark}
<1>1. Len(buffer) \in Nat
  BY LenProperties
<1>2. Wsl!End(mark) = IF T # {} THEN Wsl!Min(T) ELSE 0
  BY DEF Wsl!End, Wsl!SelectInSeq
<1>3. T # {} /\ Wsl!End(mark) = Wsl!Min(T)
  BY <1>2
<1>4. \E x \in T : \A y \in T : x <= y
  <2>1. T \subseteq Nat
    BY <1>1
  <2> QED
    BY <1>3, <2>1, SmallestNat
<1> HIDE DEF T
<1>5. Wsl!Min(T) \in T /\ \A y \in T : Wsl!Min(T) <= y
  BY <1>4 DEF Wsl!Min
<1> QED
  BY <1>3, <1>5 DEF T

LEMMA TakenPair ==
    ASSUME WslCalls, WslStream, m_Thread = "parse", NEW mark, mark = IF system = 0 THEN "R" ELSE "E",
           Wsl!End(mark) # 0
    PROVE  /\ Wsl!End(mark) = 2 /\ 2 \in 1 .. Len(buffer)
           /\ buffer[1] \in Marks /\ buffer[2] \in Marks
           /\ buffer[1].mark = IF system = 0 THEN "K" ELSE "F"
           /\ buffer[2].mark = mark
           /\ system # 0 => buffer[1].frame = buffer[2].frame
           /\ buffer[1].helper = session /\ buffer[2].helper = session /\ buffer[2].frame <= printed
           /\ DOMAIN Wsl!Text(mark) = 1 .. 2
           /\ Wsl!Text(mark)[1] = buffer[1] /\ Wsl!Text(mark)[2] = buffer[2]
<1> DEFINE e == Wsl!End(mark)
<1>1. buffer \in Seq(Marks) /\ Len(buffer) \in Nat
  BY LenProperties DEF WslStream
<1>2. /\ e \in 1 .. Len(buffer)
      /\ buffer[e].mark = mark
      /\ \A i \in 1 .. Len(buffer) : buffer[i].mark = mark => e <= i
  BY <1>1, FirstMark
<1> HIDE DEF e
<1>3. /\ Len(Stream) \in Nat /\ Len(buffer) <= Len(Stream)
      /\ \A i \in 1 .. Len(Stream) : Stream[i] \in Marks
      /\ \A i \in 1 .. Len(buffer) : Stream[i] = buffer[i]
  BY StreamIs
<1>4. 1 \in 1 .. Len(buffer) /\ Stream # <<>>
  <2>1. 1 \in 1 .. Len(buffer) /\ Len(Stream) # 0
    BY <1>1, <1>2, <1>3
  <2> QED
    BY <2>1, EmptySeq
<1>5. InOrder
  BY DEF WslStream
<1>6. buffer[1].mark = IF system = 0 THEN "K" ELSE "F"
  BY <1>3, <1>4, <1>5 DEF InOrder
<1>7. e # 1
  BY <1>2, <1>6
<1>8. 2 \in 1 .. Len(buffer) /\ 1 \in 1 .. Len(Stream) - 1
  BY <1>1, <1>2, <1>3, <1>7
<1>9. Follows(Stream[1], Stream[1 + 1])
  BY <1>5, <1>8 DEF InOrder
<1>10. Follows(buffer[1], buffer[2])
  <2>1. Stream[1] = buffer[1] /\ Stream[1 + 1] = buffer[2]
    BY <1>3, <1>4, <1>8
  <2> QED
    BY <1>9, <2>1
<1>11. /\ buffer[2].mark = mark
       /\ system # 0 => buffer[1].frame = buffer[2].frame
  BY <1>6, <1>10 DEF Follows
<1>12. e = 2
  <2>1. e <= 2
    BY <1>2, <1>8, <1>11
  <2> QED
    BY <1>1, <1>2, <1>7, <2>1
<1>13. \A i \in 1 .. Len(Stream) : Stream[i].helper = session /\ Stream[i].frame <= printed
  BY DEF WslStream
<1>14. /\ buffer[1].helper = session /\ buffer[2].helper = session /\ buffer[2].frame <= printed
       /\ buffer[1] \in Marks /\ buffer[2] \in Marks
  BY <1>1, <1>3, <1>4, <1>8, <1>13
<1>15. Wsl!Text(mark) = SubSeq(buffer, 1, 2)
  BY <1>12 DEF e, Wsl!Text
<1>16. /\ SubSeq(buffer, 1, 2) \in Seq(Marks) /\ Len(SubSeq(buffer, 1, 2)) = 2
       /\ SubSeq(buffer, 1, 2)[1] = buffer[1] /\ SubSeq(buffer, 1, 2)[2] = buffer[2]
  <2>1. \A i \in 1 .. 2 : buffer[i] \in Marks
    BY <1>14
  <2>2. /\ SubSeq(buffer, 1, 2) \in Seq(Marks)
        /\ Len(SubSeq(buffer, 1, 2)) = IF 1 <= 2 THEN 2 - 1 + 1 ELSE 0
        /\ \A i \in 1 .. 2 - 1 + 1 : SubSeq(buffer, 1, 2)[i] = buffer[1 + i - 1]
    BY <2>1, SubSeqProperties
  <2> QED
    BY <2>2
<1>17. DOMAIN SubSeq(buffer, 1, 2) = 1 .. 2
  BY <1>16, LenProperties
<1> QED
  BY <1>6, <1>8, <1>11, <1>12, <1>14, <1>15, <1>16, <1>17 DEF e

\* What is left when a pair was taken is in order again.
LEMMA RestInOrder ==
    ASSUME WslCalls, WslStream, m_Thread = "parse", NEW mark, mark = IF system = 0 THEN "R" ELSE "E",
           Wsl!End(mark) # 0,
           buffer' = Wsl!Rest(mark), system' # 0, system' \in Nat,
           UNCHANGED <<output, helper, session, m_Thread, printed>>
    PROVE  WslStream'
<1>1. Wsl!End(mark) = 2 /\ 2 \in 1 .. Len(buffer) /\ buffer[2].mark = mark
  BY TakenPair
<1>2. buffer \in Seq(Marks) /\ output \in Seq(Marks)
  BY DEF WslStream
<1>3. /\ Len(Stream) \in Nat /\ Len(buffer) \in Nat /\ Len(buffer) <= Len(Stream)
      /\ \A i \in 1 .. Len(Stream) : Stream[i] \in Marks
      /\ \A i \in 1 .. Len(buffer) : Stream[i] = buffer[i]
  BY StreamIs
<1>4. buffer' = SubSeq(buffer, 2 + 1, Len(buffer))
  BY <1>1 DEF Wsl!Rest
<1>5. /\ buffer' \in Seq(Marks) /\ Stream' \in Seq(Marks)
      /\ Len(Stream') = Len(Stream) - 2
      /\ \A i \in 1 .. Len(Stream) - 2 : Stream'[i] = Stream[i + 2]
  <2>1. /\ SubSeq(buffer, 2 + 1, Len(buffer)) \in Seq(Marks)
        /\ SubSeq(buffer, 2 + 1, Len(buffer)) \o output \in Seq(Marks)
        /\ Len(SubSeq(buffer, 2 + 1, Len(buffer)) \o output) = Len(buffer \o output) - 2
        /\ \A i \in 1 .. Len(buffer \o output) - 2 :
             (SubSeq(buffer, 2 + 1, Len(buffer)) \o output)[i] = (buffer \o output)[i + 2]
    BY <1>1, <1>2, TakenFirst
  <2>2. Stream = buffer \o output /\ Stream' = SubSeq(buffer, 2 + 1, Len(buffer)) \o output
    BY <1>4 DEF Stream
  <2> QED
    BY <1>4, <2>1, <2>2, Zenon
<1>6. 2 <= Len(Stream) /\ Stream[2].mark = mark /\ Len(Stream') \in Nat
  BY <1>1, <1>3, <1>5
<1> HIDE DEF Stream
<1>7. \A i \in 1 .. Len(Stream') : Stream'[i].helper = session' /\ Stream'[i].frame <= printed'
  <2>1. \A i \in 1 .. Len(Stream) : Stream[i].helper = session /\ Stream[i].frame <= printed
    BY DEF WslStream
  <2> TAKE i \in 1 .. Len(Stream')
  <2>2. i + 2 \in 1 .. Len(Stream) /\ Stream'[i] = Stream[i + 2]
    BY <1>3, <1>5
  <2> QED
    BY <2>1, <2>2
<1>8. InOrder
  BY DEF WslStream
<1>9. \A i \in 1 .. Len(Stream') - 1 : Follows(Stream'[i], Stream'[i + 1])
  <2> TAKE i \in 1 .. Len(Stream') - 1
  <2>1. /\ i + 2 \in 1 .. Len(Stream) - 1 /\ Stream'[i] = Stream[i + 2]
        /\ Stream'[i + 1] = Stream[i + 2 + 1]
    BY <1>3, <1>5, SMTT(30)
  <2> QED
    BY <1>8, <2>1 DEF InOrder
<1>10. Stream' # <<>> => Len(Stream') # 0
  BY <1>5, EmptySeq
<1>11. ASSUME Stream' # <<>>
       PROVE  Stream'[1].mark = "F" /\ Stream'[Len(Stream')] = Stream[Len(Stream)]
  <2>1. /\ 2 \in 1 .. Len(Stream) - 1 /\ Stream'[1] = Stream[2 + 1]
        /\ Stream'[Len(Stream')] = Stream[Len(Stream)]
    BY <1>3, <1>5, <1>6, <1>10, <1>11
  <2>2. Follows(Stream[2], Stream[2 + 1])
    BY <1>8, <2>1 DEF InOrder
  <2> QED
    BY <1>6, <2>1, <2>2 DEF Follows
<1>12. ASSUME Stream' = <<>> PROVE helper \in {"off", "wait"}
  <2>1. Len(Stream') = 0
    BY <1>12, EmptySeq
  <2>2. Len(Stream) = 2
    BY <1>3, <1>5, <1>6, <2>1
  <2>3. Stream[Len(Stream)].mark \in {"R", "E"}
    BY <1>6, <2>2
  <2>4. helper \notin {"start", "constants", "frame"}
    BY <1>8, <2>2, <2>3, EmptySeq DEF InOrder, LastIs
  <2> QED
    BY <2>4 DEF WslCalls
<1>13. InOrder'
  <2>1. Len(Stream) # 0 => Stream # <<>>
    BY EmptySeq
  <2>2. Stream # <<>>
    BY <1>6, <2>1
  <2>3. helper = "start" => FALSE
    BY <1>8, <2>2 DEF InOrder
  <2>4. helper' = "constants" => LastIs({"K"})'
    BY <1>8, <1>11, <1>12 DEF InOrder, LastIs
  <2>5. helper' = "wait" => LastIs({"R", "E"})' \/ (Stream' = <<>> /\ system' # 0)
    BY <1>8, <1>11, <2>2 DEF InOrder, LastIs
  <2>6. helper' = "frame" => LastIs({"F"})' /\ Stream'[Len(Stream')].frame = printed'
    BY <1>8, <1>11, <1>12 DEF InOrder, LastIs
  <2> QED
    BY <1>9, <1>11, <2>3, <2>4, <2>5, <2>6 DEF InOrder
<1> QED
  BY <1>2, <1>5, <1>7, <1>13 DEF WslStream

LEMMA WslStreamStep == WslCalls /\ WslStream /\ WslTaken /\ [Wsl!Next]_Wsl!wslVars => WslStream'
<1> SUFFICES ASSUME WslCalls, WslStream, WslTaken, [Wsl!Next]_Wsl!wslVars PROVE WslStream'
  OBVIOUS
<1>0. printed \in Nat /\ session \in Nat /\ system \in Nat /\ buffer \in Seq(Marks) /\ output \in Seq(Marks)
  BY DEF WslStream, WslCalls
<1>a. ASSUME UNCHANGED <<buffer, output, session, system, m_Thread, printed>>, helper' \in {helper, "off"}
      PROVE  WslStream'
  <2>1. UNCHANGED Stream
    BY <1>a DEF Stream
  <2> QED
    BY <1>0, <1>a, <2>1 DEF WslStream, InOrder, LastIs
<1>b. ASSUME UNCHANGED <<buffer, output, session, system, printed, helper>>, m_Thread' \notin {"read", "parse"},
             m_Thread = "none" => m_Thread' = "none"
      PROVE  WslStream'
  <2>1. UNCHANGED Stream
    BY <1>b DEF Stream
  <2> QED
    BY <1>0, <1>b, <2>1 DEF WslStream
<1>1. CASE Wsl!PrintK
  <2> DEFINE e == [mark |-> "K", helper |-> session, frame |-> printed']
  <2>1. /\ helper = "start" /\ helper' = "constants" /\ printed' = printed
        /\ output' = Append(output, e) /\ UNCHANGED <<buffer, session, m_Thread, system>>
    BY <1>1 DEF Wsl!PrintK, Wsl!Say, Wsl!clientVars, Wsl!monitorVars
  <2>2. e \in Marks /\ e.mark = "K" /\ e.helper = session /\ e.frame = printed' /\ printed' \in Nat /\ printed <= printed'
    BY <1>0, <2>1 DEF Marks
  <2> HIDE DEF e
  <2>3. m_Thread \in {"read", "parse"} => Stream = <<>> /\ system = 0
    BY <2>1 DEF WslStream, InOrder
  <2> QED
    BY <2>1, <2>2, <2>3, SaidKeepsStream
<1>2. CASE Wsl!PrintR
  <2> DEFINE e == [mark |-> "R", helper |-> session, frame |-> printed']
  <2>1. /\ helper = "constants" /\ helper' = "wait" /\ printed' = printed
        /\ output' = Append(output, e) /\ UNCHANGED <<buffer, session, m_Thread, system>>
    BY <1>2 DEF Wsl!PrintR, Wsl!Say, Wsl!clientVars, Wsl!monitorVars
  <2>2. e \in Marks /\ e.mark = "R" /\ e.helper = session /\ e.frame = printed' /\ printed' \in Nat /\ printed <= printed'
    BY <1>0, <2>1 DEF Marks
  <2> HIDE DEF e
  <2>3. m_Thread \in {"read", "parse"} => Stream # <<>> /\ Follows(Stream[Len(Stream)], e)
    BY <2>1, <2>2 DEF WslStream, InOrder, LastIs, Follows
  <2> QED
    BY <2>1, <2>2, <2>3, SaidKeepsStream
<1>3. CASE Wsl!PrintF
  <2> DEFINE e == [mark |-> "F", helper |-> session, frame |-> printed']
  <2>1. /\ helper = "wait" /\ helper' = "frame" /\ printed' = printed + 1
        /\ output' = Append(output, e) /\ UNCHANGED <<buffer, session, m_Thread, system>>
    BY <1>3 DEF Wsl!PrintF, Wsl!Say, Wsl!clientVars, Wsl!monitorVars
  <2>2. e \in Marks /\ e.mark = "F" /\ e.helper = session /\ e.frame = printed' /\ printed' \in Nat /\ printed <= printed'
    BY <1>0, <2>1 DEF Marks
  <2> HIDE DEF e
  <2>3. m_Thread \in {"read", "parse"} =>
          IF Stream = <<>> THEN e.mark = (IF system = 0 THEN "K" ELSE "F") ELSE Follows(Stream[Len(Stream)], e)
    BY <2>1, <2>2 DEF WslStream, InOrder, LastIs, Follows
  <2> QED
    BY <2>1, <2>2, <2>3, SaidKeepsStream
<1>4. CASE Wsl!PrintE
  <2> DEFINE e == [mark |-> "E", helper |-> session, frame |-> printed']
  <2>1. /\ helper = "frame" /\ helper' = "wait" /\ printed' = printed
        /\ output' = Append(output, e) /\ UNCHANGED <<buffer, session, m_Thread, system>>
    BY <1>4 DEF Wsl!PrintE, Wsl!Say, Wsl!clientVars, Wsl!monitorVars
  <2>2. e \in Marks /\ e.mark = "E" /\ e.helper = session /\ e.frame = printed' /\ printed' \in Nat /\ printed <= printed'
    BY <1>0, <2>1 DEF Marks
  <2> HIDE DEF e
  <2>3. m_Thread \in {"read", "parse"} => Stream # <<>> /\ Follows(Stream[Len(Stream)], e)
    BY <2>1, <2>2 DEF WslStream, InOrder, LastIs, Follows
  <2> QED
    BY <2>1, <2>2, <2>3, SaidKeepsStream
<1>5. CASE Wsl!HelperEnds \/ Wsl!HelperReadsEnd \/ Wsl!HeldIsClosed
  BY <1>5, <1>a DEF Wsl!HelperEnds, Wsl!HelperReadsEnd, Wsl!HeldIsClosed, Wsl!clientVars, Wsl!monitorVars
<1>6. CASE Wsl!ReadChunk
  <2>1. /\ m_Thread = "read" /\ m_Thread' = "parse"
        /\ UNCHANGED <<session, system, helper, printed>>
        /\ \E n \in 1 .. Len(output) :
             buffer' = buffer \o SubSeq(output, 1, n) /\ output' = SubSeq(output, n + 1, Len(output))
    BY <1>6 DEF Wsl!ReadChunk, Wsl!clientVars, Wsl!Appended
  <2>2. PICK n \in 1 .. Len(output) :
             buffer' = buffer \o SubSeq(output, 1, n) /\ output' = SubSeq(output, n + 1, Len(output))
    BY <2>1
  <2>3. /\ buffer \o SubSeq(output, 1, n) \in Seq(Marks)
        /\ SubSeq(output, n + 1, Len(output)) \in Seq(Marks)
        /\ (buffer \o SubSeq(output, 1, n)) \o SubSeq(output, n + 1, Len(output)) = buffer \o output
    BY <1>0, PieceMoved, ZenonT(60)
  <2>4. buffer' \in Seq(Marks) /\ output' \in Seq(Marks) /\ Stream' = Stream
    BY <2>2, <2>3 DEF Stream
  <2> QED
    BY <1>0, <2>1, <2>4 DEF WslStream, InOrder, LastIs
<1>7. CASE Wsl!TakeHeader
  <2>1. /\ m_Thread = "parse" /\ system = 0 /\ Wsl!End("R") # 0
        /\ buffer' = Wsl!Rest("R")
        /\ UNCHANGED <<output, helper, session, m_Thread, printed>>
    BY <1>7 DEF Wsl!TakeHeader, Wsl!clientVars, Wsl!helperVars, Wsl!None
  <2>2. /\ DOMAIN Wsl!Text("R") = 1 .. 2 /\ Wsl!Text("R")[1] = buffer[1]
        /\ buffer[1].mark = "K" /\ buffer[1].helper = session
    BY <2>1, TakenPair
  <2>3. Wsl!Marked(Wsl!Text("R"), "K")
    BY <2>2 DEF Wsl!Marked
  <2>4. system' = session
    BY <1>7, <2>2, <2>3 DEF Wsl!TakeHeader
  <2>5. session # 0
    BY <2>1 DEF WslCalls
  <2> QED
    BY <1>0, <2>1, <2>4, <2>5, RestInOrder
<1>8. CASE Wsl!TakeRead
  <2>1. /\ m_Thread = "parse" /\ system # 0 /\ Wsl!End("E") # 0
        /\ buffer' = Wsl!Rest("E")
        /\ UNCHANGED <<output, helper, session, m_Thread, printed, system>>
    BY <1>8 DEF Wsl!TakeRead, Wsl!clientVars, Wsl!helperVars, Wsl!None
  <2> QED
    BY <1>0, <2>1, RestInOrder
<1>9. CASE Wsl!ReadOn
  <2>1. /\ m_Thread = "parse" /\ m_Thread' = "read"
        /\ UNCHANGED <<buffer, output, session, system, printed, helper>>
    BY <1>9 DEF Wsl!ReadOn, Wsl!clientVars, Wsl!helperVars
  <2>2. UNCHANGED Stream
    BY <2>1 DEF Stream
  <2> QED
    BY <1>0, <2>1, <2>2 DEF WslStream, InOrder, LastIs
<1>10. CASE Wsl!OutputEnds
  BY <1>10, <1>b DEF Wsl!OutputEnds, Wsl!clientVars, Wsl!helperVars
<1>11. CASE Wsl!Written \/ Wsl!WaitExit \/ Wsl!JoinThread
  <2>1. UNCHANGED <<buffer, output, session, system, m_Thread, printed>> /\ helper' \in {helper, "off"}
    BY <1>11 DEF Wsl!Written, Wsl!WaitExit, Wsl!JoinThread, Wsl!helperVars, Wsl!monitorVars
  <2> QED
    BY <1>a, <2>1
<1>12. CASE Wsl!JoinTimesOut
  BY <1>12, <1>b DEF Wsl!JoinTimesOut, Wsl!CancelRead, Wsl!helperVars
<1>13. CASE Wsl!Clear
  <2>1. /\ m_Thread' = "none" /\ output' = <<>> /\ UNCHANGED <<buffer, session, system, printed>>
    BY <1>13 DEF Wsl!Clear, WslCalls
  <2>2. <<>> \in Seq(Marks)
    OBVIOUS
  <2> QED
    BY <1>0, <2>1, <2>2 DEF WslStream
<1>14. CASE Wsl!Launch
  <2>1. CASE UNCHANGED <<session, helper, m_Thread, buffer, system>>
    <3>1. UNCHANGED <<printed, output>>
      BY <1>14 DEF Wsl!Launch
    <3> QED
      BY <1>a, <2>1, <3>1
  <2>2. CASE /\ session' = session + 1 /\ helper' = "start" /\ m_Thread' = "read" /\ buffer' = <<>> /\ system' = 0
    <3>1. output = <<>> /\ UNCHANGED <<output, printed>>
      BY <1>14 DEF Wsl!Launch, WslCalls
    <3>2. <<>> \in Seq(Marks) /\ Len(<<>>) = 0
      BY EmptySeq
    <3>3. Stream' = <<>>
      BY <2>2, <3>1, <3>2, ConcatEmptySeq DEF Stream
    <3> QED
      BY <1>0, <2>2, <3>1, <3>2, <3>3 DEF WslStream, InOrder, LastIs
  <2> QED
    BY <1>14, <2>1, <2>2 DEF Wsl!Launch, Wsl!None
<1>15. CASE Wsl!LaunchThreadFails
  <2>1. /\ client = "launch" /\ session' = session + 1
        /\ UNCHANGED <<m_Thread, buffer, output, system, printed>>
    BY <1>15 DEF Wsl!LaunchThreadFails
  <2>2. m_Thread = "none"
    BY <2>1 DEF WslCalls
  <2> QED
    BY <1>0, <2>1, <2>2 DEF WslStream
<1>16. CASE Wsl!Request \/ Wsl!TakeFrame
  BY <1>16, <1>a DEF Wsl!Request, Wsl!TakeFrame, Wsl!monitorVars, Wsl!helperVars, Wsl!clientVars
<1>17. ASSUME NEW start \in BOOLEAN, Wsl!BeginStop(start) PROVE WslStream'
  BY <1>17, <1>a DEF Wsl!BeginStop, Wsl!helperVars
<1>18. CASE UNCHANGED Wsl!wslVars
  BY <1>18, <1>a DEF Wsl!wslVars, Wsl!monitorVars, Wsl!helperVars, Wsl!clientVars
<1> QED
  BY <1>1, <1>2, <1>3, <1>4, <1>5, <1>6, <1>7, <1>8, <1>9, <1>10, <1>11, <1>12, <1>13, <1>14, <1>15, <1>16, <1>17, <1>18
  DEF Wsl!Next, Wsl!Helper, Wsl!Read, Wsl!Client

LEMMA WslTakenStep == WslCalls /\ WslStream /\ WslTaken /\ [Wsl!Next]_Wsl!wslVars => WslTaken'
<1> SUFFICES ASSUME WslCalls, WslStream, WslTaken, [Wsl!Next]_Wsl!wslVars PROVE WslTaken'
  OBVIOUS
<1>0. printed \in Nat /\ session \in Nat /\ system \in Nat
  BY DEF WslStream, WslCalls
<1>a. ASSUME UNCHANGED <<session, system, m_System, printed>>, m_Frame' \in {m_Frame, Wsl!NoFrame},
             m_Thread' \in {"read", "parse"} => m_Thread \in {"read", "parse"}
      PROVE  WslTaken'
  <2>1. Wsl!NoFrame \in [frame : Nat, helper : 0 .. session, whole : BOOLEAN]
    BY <1>0 DEF Wsl!NoFrame, Wsl!None
  <2> QED
    BY <1>a, <2>1 DEF WslTaken
<1>1. CASE Wsl!PrintK \/ Wsl!PrintR \/ Wsl!PrintE \/ Wsl!HelperEnds \/ Wsl!HelperReadsEnd \/ Wsl!HeldIsClosed
  BY <1>1, <1>a DEF Wsl!PrintK, Wsl!PrintR, Wsl!PrintE, Wsl!HelperEnds, Wsl!HelperReadsEnd, Wsl!HeldIsClosed,
                    Wsl!clientVars, Wsl!monitorVars
<1>2. CASE Wsl!PrintF
  <2>1. printed' = printed + 1 /\ UNCHANGED <<session, system, m_System, m_Frame, m_Thread>>
    BY <1>2 DEF Wsl!PrintF, Wsl!clientVars, Wsl!monitorVars
  <2>2. ASSUME NEW n \in Nat, n <= printed PROVE n <= printed + 1
    BY <1>0, <2>2
  <2>3. m_Frame.frame \in Nat
    BY DEF WslTaken
  <2> QED
    BY <1>0, <2>1, <2>2, <2>3 DEF WslTaken
<1>3. CASE Wsl!ReadChunk \/ Wsl!OutputEnds \/ Wsl!ReadOn
  BY <1>3, <1>a DEF Wsl!ReadChunk, Wsl!OutputEnds, Wsl!ReadOn, Wsl!clientVars, Wsl!helperVars
<1>4. CASE Wsl!TakeHeader
  <2>1. /\ m_Thread = "parse" /\ system = 0 /\ Wsl!End("R") # 0
        /\ UNCHANGED <<m_Thread, session, printed, m_Frame>>
    BY <1>4 DEF Wsl!TakeHeader, Wsl!clientVars, Wsl!helperVars, Wsl!None
  <2>2. /\ DOMAIN Wsl!Text("R") = 1 .. 2 /\ Wsl!Text("R")[1] = buffer[1]
        /\ buffer[1].mark = "K" /\ buffer[1].helper = session
    BY <2>1, TakenPair
  <2>3. Wsl!Marked(Wsl!Text("R"), "K")
    BY <2>2 DEF Wsl!Marked
  <2>4. system' = session /\ m_System' = session
    BY <1>4, <2>2, <2>3 DEF Wsl!TakeHeader
  <2>5. session \in 0 .. session
    BY <1>0
  <2> QED
    BY <2>1, <2>4, <2>5 DEF WslTaken
<1>5. CASE Wsl!TakeRead
  <2>1. /\ m_Thread = "parse" /\ system # 0 /\ Wsl!End("E") # 0
        /\ UNCHANGED <<m_Thread, session, printed, system, m_System>>
    BY <1>5 DEF Wsl!TakeRead, Wsl!clientVars, Wsl!helperVars, Wsl!None
  <2>2. /\ Wsl!End("E") = 2 /\ DOMAIN Wsl!Text("E") = 1 .. 2
        /\ Wsl!Text("E")[1] = buffer[1] /\ Wsl!Text("E")[2] = buffer[2]
        /\ buffer[1].mark = "F" /\ buffer[1].frame = buffer[2].frame /\ buffer[2].helper = session
        /\ buffer[2].frame <= printed /\ buffer[2] \in Marks
    BY <2>1, TakenPair
  <2>3. Wsl!Marked(Wsl!Text("E"), "F")
    BY <2>2 DEF Wsl!Marked
  <2>4. \A t \in Wsl!ToSet(Wsl!Text("E")) : t.frame = Wsl!Text("E")[Wsl!End("E")].frame
    BY <2>2 DEF Wsl!ToSet
  <2>5. m_Frame' = [frame |-> buffer[2].frame, helper |-> session, whole |-> TRUE]
    BY <1>5, <2>2, <2>3, <2>4 DEF Wsl!TakeRead
  <2>6. buffer[2].frame \in Nat /\ session \in 0 .. session
    BY <1>0, <2>2 DEF Marks
  <2>7. m_System = session
    BY <2>1 DEF WslTaken
  <2> QED
    BY <2>1, <2>2, <2>5, <2>6, <2>7 DEF WslTaken
<1>6. CASE Wsl!Written \/ Wsl!WaitExit \/ Wsl!JoinThread \/ Wsl!JoinTimesOut
  <2>1. /\ UNCHANGED <<session, system, m_System, printed, m_Frame>>
        /\ m_Thread' \in {m_Thread, "ended"}
    BY <1>6 DEF Wsl!Written, Wsl!WaitExit, Wsl!JoinThread, Wsl!JoinTimesOut, Wsl!CancelRead, Wsl!helperVars, Wsl!monitorVars
  <2> QED
    BY <1>a, <2>1
<1>7. CASE Wsl!Clear
  <2>1. m_Thread' = "none" /\ m_System' = 0 /\ m_Frame' = Wsl!NoFrame /\ UNCHANGED session
    BY <1>7 DEF Wsl!Clear, WslCalls, Wsl!None
  <2>2. 0 \in 0 .. session /\ Wsl!NoFrame \in [frame : Nat, helper : 0 .. session, whole : BOOLEAN]
    BY <1>0 DEF Wsl!NoFrame, Wsl!None
  <2> QED
    BY <2>1, <2>2 DEF WslTaken
<1>8. CASE Wsl!Launch \/ Wsl!LaunchThreadFails
  <2>1. /\ client = "launch" /\ session' \in {session, session + 1} /\ UNCHANGED <<m_System, m_Frame>>
        /\ UNCHANGED m_Thread \/ system' = 0
    BY <1>8 DEF Wsl!Launch, Wsl!LaunchThreadFails, Wsl!None
  <2>2. m_Thread = "none" /\ m_System = 0 /\ m_Frame = Wsl!NoFrame
    BY <2>1 DEF WslCalls
  <2>3. 0 \in 0 .. session' /\ Wsl!NoFrame \in [frame : Nat, helper : 0 .. session', whole : BOOLEAN]
    BY <1>0, <2>1 DEF Wsl!NoFrame, Wsl!None
  <2> QED
    BY <2>1, <2>2, <2>3 DEF WslTaken
<1>9. CASE Wsl!Request \/ Wsl!TakeFrame
  BY <1>9, <1>a DEF Wsl!Request, Wsl!TakeFrame, Wsl!monitorVars, Wsl!helperVars, Wsl!clientVars
<1>10. ASSUME NEW start \in BOOLEAN, Wsl!BeginStop(start) PROVE WslTaken'
  BY <1>10, <1>a DEF Wsl!BeginStop, Wsl!helperVars
<1>11. CASE UNCHANGED Wsl!wslVars
  BY <1>11, <1>a DEF Wsl!wslVars, Wsl!monitorVars, Wsl!helperVars, Wsl!clientVars
<1> QED
  BY <1>1, <1>2, <1>3, <1>4, <1>5, <1>6, <1>7, <1>8, <1>9, <1>10, <1>11
  DEF Wsl!Next, Wsl!Helper, Wsl!Read, Wsl!Client

LEMMA WslInit == Wsl!Init => WslCalls /\ WslStream /\ WslTaken
<1> SUFFICES ASSUME Wsl!Init PROVE WslCalls /\ WslStream /\ WslTaken
  OBVIOUS
<1>1. 0 \in 0 .. PipeSize /\ 0 \in 0 .. 0
  <2>1. PipeSize \in Nat
    BY MonitorAssumption
  <2> QED
    BY <2>1
<1>2. <<>> \in Seq(Marks)
  OBVIOUS
<1>3. WslCalls
  BY <1>1 DEF Wsl!Init, WslCalls, Wsl!None
<1>4. WslStream
  BY <1>2 DEF Wsl!Init, WslStream, Wsl!None
<1>5. WslTaken
  BY <1>1 DEF Wsl!Init, WslTaken, Wsl!None, Wsl!NoFrame
<1> QED
  BY <1>3, <1>4, <1>5

LEMMA WslKept ==
    WslCalls /\ WslStream /\ WslTaken => Wsl!StoppedIsQuiet /\ Wsl!FramesAreWhole /\ Wsl!TypeOK
<1> SUFFICES ASSUME WslCalls, WslStream, WslTaken PROVE Wsl!StoppedIsQuiet /\ Wsl!FramesAreWhole /\ Wsl!TypeOK
  OBVIOUS
<1>1. Wsl!TypeOK
  BY DEF WslCalls, WslTaken, Wsl!TypeOK
<1>2. Wsl!FramesAreWhole
  BY DEF WslTaken, Wsl!FramesAreWhole
<1>3. ASSUME m_Thread # "none", NEW t \in Wsl!ToSet(buffer) PROVE t.helper = session
  <2>1. PICK i \in DOMAIN buffer : t = buffer[i]
    BY <1>3 DEF Wsl!ToSet
  <2>2. DOMAIN buffer = 1 .. Len(buffer)
    BY LenProperties DEF WslStream
  <2>3. i \in 1 .. Len(Stream) /\ Stream[i] = buffer[i]
    BY <2>1, <2>2, StreamIs
  <2> QED
    BY <1>3, <2>1, <2>3 DEF WslStream
<1>4. Wsl!StoppedIsQuiet
  BY <1>3 DEF WslCalls, Wsl!StoppedIsQuiet, Wsl!None
<1> QED
  BY <1>1, <1>2, <1>4

-----------------------------------------------------------------------------
(* A process's garbage collections.                                          *)

\* A State taken back has its thread until Delete has seen its end; a Start makes
\* the next one after that.  A State that no Start or Stop is at work on has its
\* session and its consumer.
GcThread ==
    /\ starts \in Nat
    /\ stop \in {"rest", "start", "stop", "join"}
    /\ thread \in {"none", "runs", "ended"}
    /\ stop = "start" => thread = "none" /\ starts # 0
    /\ stop \in {"stop", "join"} => starts # 0
    /\ m_State # 0 => starts # 0
    /\ stop = "rest" /\ m_State = 0 => thread = "none"
    /\ late = FALSE
    /\ m_State \in Nat /\ m_State <= starts
    /\ stop \in {"start", "join"} => m_State = 0
    /\ m_State # 0 => session # "none"
    /\ stop = "rest" /\ m_State # 0 => session = "runs" /\ trace = "open"

LEMMA GcThreadInit == Gc!Init => GcThread
BY DEF Gc!Init, GcThread

LEMMA GcThreadStep == GcThread /\ [Gc!Next]_Gc!gcVars => GcThread'
<1> SUFFICES ASSUME GcThread, [Gc!Next]_Gc!gcVars PROVE GcThread'
  OBVIOUS
<1> USE DEF GcThread, Gc!stateVars, Gc!callVars
<1>1. CASE Gc!BeginStart
  BY <1>1 DEF Gc!BeginStart
<1>2. CASE Gc!BeginStop
  BY <1>2 DEF Gc!BeginStop
<1>3. CASE Gc!Started
  BY <1>3 DEF Gc!Started
<1>4. CASE Gc!StopSession
  BY <1>4 DEF Gc!StopSession
<1>5. CASE Gc!Delete
  <2>1. /\ stop' \in {"start", "rest"} /\ UNCHANGED <<m_State, session, starts, late>>
        /\ stop = "join" /\ thread' = "none"
    BY <1>5 DEF Gc!Delete, Gc!MayDelete
  <2> QED
    BY <2>1
<1>6. CASE Gc!JoinTimesOut
  BY <1>6 DEF Gc!JoinTimesOut
<1>7. CASE Gc!OnGcEvent
  <2>1. /\ thread = "runs" /\ late' = (late \/ (stop = "rest" /\ m_State = 0))
        /\ UNCHANGED <<m_State, session, trace, thread, stop, starts>>
    BY <1>7 DEF Gc!OnGcEvent
  <2> QED
    BY <2>1
<1>8. CASE Gc!ThreadEnds
  BY <1>8 DEF Gc!ThreadEnds
<1>9. CASE Gc!Suspend \/ Gc!Collect \/ Gc!Restart
  BY <1>9 DEF Gc!Suspend, Gc!Collect, Gc!Restart, Gc!Log
<1>10. CASE UNCHANGED Gc!gcVars
  BY <1>10 DEF Gc!gcVars
<1> QED
  BY <1>1, <1>2, <1>3, <1>4, <1>5, <1>6, <1>7, <1>8, <1>9, <1>10 DEF Gc!Next, Gc!Client, Gc!Thread

LEMMA GcThreadKept == GcThread => Gc!TypeOK /\ Gc!StateOutlivesThread
<1>1. GcThread => m_State \in 0 .. starts
  BY DEF GcThread
<1> QED
  BY <1>1 DEF GcThread, Gc!TypeOK, Gc!StateOutlivesThread

\* DotNetGcMonitor::Stop deletes a State only when its thread has ended, though it
\* has to close the consumer for that; no event is added to one that is gone.
THEOREM ThreadLeavesState == Gc!Spec => []Gc!StateOutlivesThread
<1>1. GcThread => Gc!StateOutlivesThread
  BY GcThreadKept
<1> QED
  BY <1>1, GcThreadInit, GcThreadStep, PTL DEF Gc!Spec

-----------------------------------------------------------------------------
(* The pauses and the collections that are counted.                          *)

GcKinds == {"suspend", "restart", "gc", "heap"}
GcEdge(e) == e.kind \in {"suspend", "restart"}
Ticks(P) == UNION {p[1] + 1 .. p[2] : p \in {q \in P : q[2] # 0}}
TicksTo(P, t) == {x \in Ticks(P) : x <= t}

\* the events are in order; none is left of a State that is gone
GcTypes ==
    /\ now \in Nat /\ lost \in Nat /\ runtime \in {"runs", "suspended", "collected"}
    /\ buffers \in Seq([kind : GcKinds, time : Nat])
    /\ Stats \in [Collections : Nat, HasHeap : BOOLEAN, HeapSize : Nat,
                  LastPause : Nat, MaxPause : Nat, TotalPause : Nat, SuspendStart : Nat]
    /\ pauses \subseteq Nat \X Nat
    /\ \A p \in pauses : p[1] # 0 /\ p[1] <= now /\ (p[2] # 0 => p[1] <= p[2] /\ p[2] <= now)
    /\ collections \subseteq 1 .. now
    /\ stop \in {"rest", "start"} /\ m_State = 0 => buffers = <<>>
    /\ m_State = 0 => session # "runs"
    /\ Stats.SuspendStart <= now
    /\ \A i \in 1 .. Len(buffers) :
         buffers[i].time # 0 /\ buffers[i].time <= now /\ Stats.SuspendStart <= buffers[i].time
    /\ \A i, j \in 1 .. Len(buffers) : i < j =>
         /\ buffers[i].time <= buffers[j].time
         /\ buffers[i].kind = "gc" /\ buffers[j].kind = "gc" => buffers[i].time < buffers[j].time

\* a suspension logged last is the one in progress, or its restart was lost: the next event is not
GcOpen(t) == IF runtime = "runs" THEN lost >= MaxLost ELSE <<t, 0>> \in pauses

\* a restart logged next after a suspension ends its pause
NoEdge(i, j) == \A k \in 1 .. Len(buffers) : i < k /\ k < j => ~GcEdge(buffers[k])
NoneAfter(i) == \A k \in 1 .. Len(buffers) : i < k => ~GcEdge(buffers[k])
GcEdges ==
    /\ \A i, j \in 1 .. Len(buffers) :
         i < j /\ buffers[i].kind = "suspend" /\ buffers[j].kind = "restart" /\ NoEdge(i, j) =>
           <<buffers[i].time, buffers[j].time>> \in pauses
    /\ \A j \in 1 .. Len(buffers) :
         Stats.SuspendStart # 0 /\ buffers[j].kind = "restart" /\ NoEdge(0, j) =>
           <<Stats.SuspendStart, buffers[j].time>> \in pauses
    /\ \A i \in 1 .. Len(buffers) :
         session = "runs" /\ buffers[i].kind = "suspend" /\ NoneAfter(i) => GcOpen(buffers[i].time)
    /\ session = "runs" /\ Stats.SuspendStart # 0 /\ NoneAfter(0) => GcOpen(Stats.SuspendStart)

\* what is counted was before the next pause, or collection, to be counted
GcSums ==
    /\ Stats.TotalPause <= Cardinality(Ticks(pauses))
    /\ Stats.SuspendStart # 0 => Stats.TotalPause <= Cardinality(TicksTo(pauses, Stats.SuspendStart))
    /\ \A i \in 1 .. Len(buffers) : buffers[i].kind = "suspend" =>
         Stats.TotalPause <= Cardinality(TicksTo(pauses, buffers[i].time))
    /\ Stats.LastPause <= Stats.MaxPause /\ Stats.MaxPause <= Stats.TotalPause
    /\ \A n \in {Stats.LastPause, Stats.MaxPause} :
         n = 0 \/ \E p \in pauses : p[2] # 0 /\ n = p[2] - p[1]

GcCollections ==
    /\ Stats.Collections <= Cardinality(collections)
    /\ \A i \in 1 .. Len(buffers) : buffers[i].kind = "gc" =>
         /\ buffers[i].time \in collections
         /\ Stats.Collections <= Cardinality({c \in collections : c < buffers[i].time})
    /\ \A i \in 1 .. Len(buffers) : buffers[i].kind = "heap" => buffers[i].time \in collections
    /\ Stats.HasHeap => Stats.HeapSize \in collections

GcInv == GcThread /\ GcTypes /\ GcEdges /\ GcSums /\ GcCollections

LEMMA GcInstance == \A S : Gc!Cardinality(S) = Cardinality(S)
  BY DEF Gc!Cardinality, Cardinality

LEMMA TicksAreFinite ==
  ASSUME NEW P \in SUBSET (Nat \X Nat), NEW n \in Nat, \A p \in P : p[2] # 0 => p[2] <= n
  PROVE  /\ Ticks(P) \subseteq 1 .. n /\ IsFiniteSet(Ticks(P)) /\ Cardinality(Ticks(P)) \in Nat
         /\ \A t : IsFiniteSet(TicksTo(P, t)) /\ Cardinality(TicksTo(P, t)) \in Nat
         /\ TicksTo(P, n) = Ticks(P)
<1>1. Ticks(P) \subseteq 1 .. n
  BY DEF Ticks
<1>2. IsFiniteSet(1 .. n)
  BY FS_Interval
<1>3. IsFiniteSet(Ticks(P))
  BY <1>1, <1>2, FS_Subset
<1>4. \A t : IsFiniteSet(TicksTo(P, t))
  BY <1>3, FS_Subset DEF TicksTo
<1>5. TicksTo(P, n) = Ticks(P)
  BY <1>1 DEF TicksTo
<1> QED
  BY <1>1, <1>3, <1>4, <1>5, FS_CardinalityType

\* pauses that ended stay, and so do their ticks
LEMMA TicksGrow ==
  ASSUME NEW P \in SUBSET (Nat \X Nat), NEW Q \in SUBSET (Nat \X Nat), NEW n \in Nat,
         \A p \in Q : p[2] # 0 => p[2] <= n, \A p \in P : p[2] # 0 => p \in Q
  PROVE  /\ Cardinality(Ticks(P)) <= Cardinality(Ticks(Q))
         /\ \A t : Cardinality(TicksTo(P, t)) <= Cardinality(TicksTo(Q, t))
<1>1. Ticks(P) \subseteq Ticks(Q)
  BY DEF Ticks
<1>2. IsFiniteSet(Ticks(Q)) /\ \A t : IsFiniteSet(TicksTo(Q, t))
  BY TicksAreFinite
<1>3. \A t : TicksTo(P, t) \subseteq TicksTo(Q, t)
  BY <1>1 DEF TicksTo
<1>4. Cardinality(Ticks(P)) <= Cardinality(Ticks(Q))
  BY <1>1, <1>2, FS_Subset
<1>5. \A t : Cardinality(TicksTo(P, t)) <= Cardinality(TicksTo(Q, t))
  BY <1>2, <1>3, FS_Subset
<1> QED
  BY <1>4, <1>5

LEMMA TicksLater ==
  ASSUME NEW P \in SUBSET (Nat \X Nat), NEW n \in Nat, \A p \in P : p[2] # 0 => p[2] <= n,
         NEW s \in Nat, NEW t \in Nat, s <= t
  PROVE  /\ Cardinality(TicksTo(P, s)) <= Cardinality(TicksTo(P, t))
         /\ Cardinality(TicksTo(P, t)) <= Cardinality(Ticks(P))
<1>1. TicksTo(P, s) \subseteq TicksTo(P, t) /\ TicksTo(P, t) \subseteq Ticks(P)
  <2>1. Ticks(P) \subseteq Nat
    BY TicksAreFinite
  <2> QED
    BY <2>1 DEF TicksTo
<1>2. IsFiniteSet(TicksTo(P, t)) /\ IsFiniteSet(Ticks(P))
  BY TicksAreFinite
<1> QED
  BY <1>1, <1>2, FS_Subset

LEMMA PauseTicks ==
  ASSUME NEW P \in SUBSET (Nat \X Nat), NEW n \in Nat, \A p \in P : p[2] # 0 => p[2] <= n,
         NEW s \in Nat, NEW t \in Nat \ {0}, s <= t, <<s, t>> \in P
  PROVE  Cardinality(TicksTo(P, s)) + (t - s) <= Cardinality(TicksTo(P, t))
<1> DEFINE I == s + 1 .. t
<1>1. Ticks(P) \subseteq Nat /\ IsFiniteSet(TicksTo(P, s)) /\ IsFiniteSet(TicksTo(P, t))
  BY TicksAreFinite
<1>2. IsFiniteSet(I) /\ Cardinality(I) = t - s
  <2>1. Cardinality(I) = IF s + 1 > t THEN 0 ELSE t - (s + 1) + 1
    BY FS_Interval
  <2>2. IsFiniteSet(I)
    BY FS_Interval
  <2> QED
    BY <2>1, <2>2
<1>3. I \subseteq TicksTo(P, t)
  <2>1. I \subseteq Ticks(P)
    BY DEF Ticks
  <2> QED
    BY <2>1 DEF TicksTo
<1>4. TicksTo(P, s) \subseteq TicksTo(P, t) /\ TicksTo(P, s) \cap I = {}
  BY <1>1 DEF TicksTo
<1>5. Cardinality(TicksTo(P, s) \cup I) = Cardinality(TicksTo(P, s)) + Cardinality(I)
  <2> HIDE DEF I
  <2>1. Cardinality(TicksTo(P, s) \cup I) =
          Cardinality(TicksTo(P, s)) + Cardinality(I) - Cardinality(TicksTo(P, s) \cap I)
    BY <1>1, <1>2, FS_Union
  <2>2. Cardinality({}) = 0
    BY FS_EmptySet
  <2>3. Cardinality(TicksTo(P, s)) \in Nat /\ Cardinality(I) \in Nat
    BY <1>1, <1>2, FS_CardinalityType
  <2>4. Cardinality(TicksTo(P, s) \cap I) = 0
    BY <1>4, <2>2
  <2> QED
    BY <2>1, <2>3, <2>4
<1>6. Cardinality(TicksTo(P, s) \cup I) <= Cardinality(TicksTo(P, t))
  <2> HIDE DEF I
  <2>1. TicksTo(P, s) \cup I \subseteq TicksTo(P, t)
    BY <1>3, <1>4
  <2> QED
    BY <1>1, <2>1, FS_Subset
<1> QED
  BY <1>2, <1>5, <1>6

GcEvents == [kind : GcKinds, time : Nat]
GcStats == [Collections : Nat, HasHeap : BOOLEAN, HeapSize : Nat,
            LastPause : Nat, MaxPause : Nat, TotalPause : Nat, SuspendStart : Nat]

\* the first event is taken
LEMMA TakenIs ==
  ASSUME GcTypes, Gc!OnGcEvent
  PROVE  /\ Len(buffers) \in Nat \ {0} /\ Head(buffers) = buffers[1] /\ buffers[1] \in GcEvents
         /\ buffers' \in Seq(GcEvents) /\ Len(buffers') = Len(buffers) - 1
         /\ \A i \in 1 .. Len(buffers) - 1 : buffers'[i] = buffers[i + 1]
         /\ UNCHANGED <<now, lost, runtime, pauses, collections, stop, m_State, session>>
<1>1. buffers \in Seq(GcEvents) /\ buffers # <<>> /\ buffers' = Tail(buffers)
  BY DEF GcTypes, Gc!OnGcEvent, GcEvents
<1>2. /\ Len(buffers) \in Nat \ {0} /\ Head(buffers) = buffers[1] /\ buffers[1] \in GcEvents
      /\ buffers' \in Seq(GcEvents) /\ Len(buffers') = Len(buffers) - 1
      /\ \A i \in 1 .. Len(buffers) - 1 : buffers'[i] = buffers[i + 1]
  BY <1>1
<1>3. UNCHANGED <<now, lost, runtime, pauses, collections, stop, m_State, session>>
  BY DEF Gc!OnGcEvent, Gc!stateVars, Gc!callVars
<1> QED
  BY <1>2, <1>3

LEMMA StatsAre ==
  ASSUME GcTypes, Gc!OnGcEvent, NEW k, k = buffers[1].kind, NEW t, t = buffers[1].time
  PROVE  /\ Stats \in GcStats /\ Stats' \in GcStats /\ t \in Nat \ {0} /\ k \in GcKinds
         /\ k = "suspend" => Stats' = [Stats EXCEPT !.SuspendStart = t]
         /\ k = "restart" /\ Stats.SuspendStart = 0 => Stats' = Stats
         /\ k = "restart" /\ Stats.SuspendStart # 0 =>
              /\ Stats.SuspendStart <= t
              /\ Stats'.SuspendStart = 0 /\ Stats'.LastPause = t - Stats.SuspendStart
              /\ Stats'.MaxPause \in {Stats.MaxPause, t - Stats.SuspendStart}
              /\ Stats'.MaxPause >= Stats.MaxPause /\ Stats'.MaxPause >= t - Stats.SuspendStart
              /\ Stats'.TotalPause = Stats.TotalPause + (t - Stats.SuspendStart)
              /\ Stats'.Collections = Stats.Collections /\ Stats'.HasHeap = Stats.HasHeap
              /\ Stats'.HeapSize = Stats.HeapSize
         /\ k = "gc" => Stats' = [Stats EXCEPT !.Collections = @ + 1]
         /\ k = "heap" => Stats' = [Stats EXCEPT !.HasHeap = TRUE, !.HeapSize = t]
<1>1. Stats \in GcStats
  BY DEF GcTypes, GcStats
<1>2. k \in GcKinds /\ t \in Nat \ {0} /\ Stats.SuspendStart <= t /\ Head(buffers).kind = k /\ Head(buffers).time = t
  <2>1. buffers[1] \in GcEvents /\ 1 \in 1 .. Len(buffers) /\ Head(buffers) = buffers[1]
    BY TakenIs
  <2>2. k \in GcKinds /\ t \in Nat
    BY <2>1 DEF GcEvents
  <2>3. t # 0 /\ Stats.SuspendStart <= t
    BY <2>1 DEF GcTypes
  <2> QED
    BY <2>1, <2>2, <2>3
<1>3. Stats' = Gc!ApplyGcEvent(Head(buffers), Stats)
  BY DEF Gc!OnGcEvent
<1>4. CASE k = "suspend"
  <2>1. Stats' = [Stats EXCEPT !.SuspendStart = t]
    BY <1>2, <1>3, <1>4 DEF Gc!ApplyGcEvent, Gc!Suspended
  <2> QED
    BY <1>1, <1>2, <1>4, <2>1 DEF GcStats
<1>5. CASE k = "restart" /\ Stats.SuspendStart = 0
  <2>1. Stats' = Stats
    BY <1>2, <1>3, <1>5 DEF Gc!ApplyGcEvent, Gc!Restarted
  <2> QED
    BY <1>1, <1>2, <1>5, <2>1
<1>6. CASE k = "restart" /\ Stats.SuspendStart # 0
  <2> DEFINE s == Stats.SuspendStart
  <2>0. s \in Nat /\ ~(t < s) /\ t - s \in Nat
    BY <1>1, <1>2 DEF GcStats
  <2>1. Stats' = [Stats EXCEPT !.LastPause = t - s, !.MaxPause = IF t - s > @ THEN t - s ELSE @,
                               !.TotalPause = @ + (t - s), !.SuspendStart = 0]
    BY <1>2, <1>3, <1>6, <2>0 DEF Gc!ApplyGcEvent, Gc!Restarted
  <2>2. /\ Stats'.SuspendStart = 0 /\ Stats'.LastPause = t - s
        /\ Stats'.MaxPause = (IF t - s > Stats.MaxPause THEN t - s ELSE Stats.MaxPause)
        /\ Stats'.TotalPause = Stats.TotalPause + (t - s)
        /\ Stats'.Collections = Stats.Collections /\ Stats'.HasHeap = Stats.HasHeap
        /\ Stats'.HeapSize = Stats.HeapSize
    BY <1>1, <2>1 DEF GcStats
  <2>4. Stats.MaxPause \in Nat /\ Stats.TotalPause \in Nat
    BY <1>1 DEF GcStats
  <2>3. Stats' \in GcStats
    <3> DEFINE l == t - s
               m == IF t - s > Stats.MaxPause THEN t - s ELSE Stats.MaxPause
               n == Stats.TotalPause + (t - s)
    <3>1. l \in Nat /\ m \in Nat /\ n \in Nat
      BY <2>0, <2>4
    <3>2. Stats' = [Stats EXCEPT !.LastPause = l, !.MaxPause = m, !.TotalPause = n, !.SuspendStart = 0]
      BY <1>1, <2>1 DEF GcStats
    <3> HIDE DEF l, m, n
    <3> QED
      BY <1>1, <3>1, <3>2 DEF GcStats
  <2>5. /\ Stats'.MaxPause \in {Stats.MaxPause, t - s}
        /\ Stats'.MaxPause >= Stats.MaxPause /\ Stats'.MaxPause >= t - s
    BY <2>0, <2>2, <2>4
  <2> QED
    BY <1>1, <1>2, <1>6, <2>2, <2>3, <2>5
<1>7. CASE k = "gc"
  <2>1. Stats' = [Stats EXCEPT !.Collections = @ + 1]
    BY <1>2, <1>3, <1>7 DEF Gc!ApplyGcEvent
  <2> QED
    BY <1>1, <1>2, <1>7, <2>1 DEF GcStats
<1>8. CASE k = "heap"
  <2>1. Stats' = [Stats EXCEPT !.HasHeap = TRUE, !.HeapSize = t]
    BY <1>2, <1>3, <1>8 DEF Gc!ApplyGcEvent
  <2> QED
    BY <1>1, <1>2, <1>8, <2>1 DEF GcStats
<1> QED
  BY <1>2, <1>4, <1>5, <1>6, <1>7, <1>8 DEF GcKinds

\* the runtime's steps: what is logged, or lost
LEMMA LoggedIs ==
  ASSUME GcTypes, NEW kinds \in Seq(GcKinds), Gc!Log(kinds)
  PROVE  /\ now' = now + 1
         /\ UNCHANGED <<m_State, session, stop, Stats>>
         /\ \/ /\ session = "runs" /\ lost' = 0
               /\ buffers' \in Seq(GcEvents) /\ Len(buffers') = Len(buffers) + Len(kinds)
               /\ \A i \in 1 .. Len(buffers) : buffers'[i] = buffers[i]
               /\ \A i \in 1 .. Len(kinds) : buffers'[Len(buffers) + i] = [kind |-> kinds[i], time |-> now + 1]
            \/ buffers' = buffers /\ session # "runs" /\ lost' = lost
            \/ buffers' = buffers /\ session = "runs" /\ lost < MaxLost /\ lost' = lost + 1
<1> DEFINE events == [i \in DOMAIN kinds |-> [kind |-> kinds[i], time |-> now']]
<1>1. now' = now + 1 /\ now \in Nat /\ UNCHANGED <<m_State, session, stop, Stats>>
  BY DEF Gc!Log, Gc!stateVars, Gc!callVars, GcTypes
<1>2. buffers \in Seq(GcEvents)
  BY DEF GcTypes, GcEvents
<1>3. DOMAIN kinds = 1 .. Len(kinds) /\ Len(kinds) \in Nat
  OBVIOUS
<1>4. events \in Seq(GcEvents) /\ Len(events) = Len(kinds)
  BY <1>1, <1>3 DEF GcEvents
<1>5. \A i \in 1 .. Len(kinds) : events[i] = [kind |-> kinds[i], time |-> now + 1]
  BY <1>1, <1>3
<1>6. \/ session = "runs" /\ buffers' = buffers \o events /\ lost' = 0
      \/ buffers' = buffers /\ session # "runs" /\ lost' = lost
      \/ buffers' = buffers /\ session = "runs" /\ lost < MaxLost /\ lost' = lost + 1
  BY DEF Gc!Log
<1>7. CASE session = "runs" /\ buffers' = buffers \o events /\ lost' = 0
  <2> HIDE DEF events
  <2>1. /\ buffers' \in Seq(GcEvents) /\ Len(buffers') = Len(buffers) + Len(events)
        /\ \A i \in 1 .. Len(buffers) : buffers'[i] = buffers[i]
        /\ \A i \in 1 .. Len(events) : buffers'[Len(buffers) + i] = events[i]
    <3>1. buffers' \in Seq(GcEvents) /\ Len(buffers') = Len(buffers) + Len(events)
      BY <1>2, <1>4, <1>7, ConcatProperties
    <3>2. \A i \in 1 .. Len(buffers) + Len(events) :
            buffers'[i] = IF i <= Len(buffers) THEN buffers[i] ELSE events[i - Len(buffers)]
      BY <1>2, <1>4, <1>7, ConcatProperties
    <3>3. Len(buffers) \in Nat /\ Len(events) \in Nat
      BY <1>2, <1>4, LenProperties
    <3> QED
      BY <3>1, <3>2, <3>3
  <2> QED
    BY <1>1, <1>4, <1>5, <1>7, <2>1
<1> QED
  BY <1>1, <1>6, <1>7

GcQuiet ==
    /\ UNCHANGED <<now, lost, runtime, buffers, Stats, pauses, collections>>
    /\ session' = "runs" => session = "runs"
    /\ stop' \in {"rest", "start"} /\ m_State' = 0 => stop \in {"rest", "start"} /\ m_State = 0
    /\ m_State' = 0 => m_State = 0 \/ session' # "runs"
GcFresh ==
    /\ UNCHANGED <<now, lost, runtime, buffers, pauses, collections>>
    /\ buffers = <<>> /\ Stats' = Gc!NoStats /\ m_State' # 0
GcDropped ==
    /\ UNCHANGED <<now, lost, runtime, Stats, pauses, collections, session, m_State>>
    /\ buffers' = <<>> /\ session # "runs"

\* of the client's and the thread's steps, what they do to the events and the statistics
LEMMA GcSteps ==
  ASSUME GcThread, GcTypes, [Gc!Next]_Gc!gcVars
  PROVE  GcQuiet \/ GcFresh \/ GcDropped \/ Gc!OnGcEvent \/ Gc!Suspend \/ Gc!Collect \/ Gc!Restart
<1> USE DEF Gc!stateVars, Gc!callVars, Gc!runtimeVars
<1>1. CASE Gc!BeginStart
  BY <1>1 DEF Gc!BeginStart, GcQuiet, GcTypes
<1>2. CASE Gc!BeginStop
  BY <1>2 DEF Gc!BeginStop, GcQuiet, GcTypes
<1>3. CASE Gc!Started
  <2>1. stop = "start" /\ m_State = 0 /\ buffers = <<>> /\ starts # 0
    BY <1>3 DEF Gc!Started, GcThread, GcTypes
  <2> QED
    BY <1>3, <2>1 DEF Gc!Started, GcQuiet, GcFresh
<1>4. CASE Gc!StopSession
  BY <1>4 DEF Gc!StopSession, GcQuiet
<1>5. CASE Gc!Delete
  <2>1. m_State = 0 /\ session # "runs"
    BY <1>5 DEF Gc!Delete, GcThread, GcTypes
  <2> QED
    BY <1>5, <2>1 DEF Gc!Delete, GcDropped
<1>6. CASE Gc!JoinTimesOut
  BY <1>6 DEF Gc!JoinTimesOut, GcQuiet
<1>7. CASE Gc!ThreadEnds
  BY <1>7 DEF Gc!ThreadEnds, GcQuiet
<1>8. CASE UNCHANGED Gc!gcVars
  BY <1>8 DEF Gc!gcVars, GcQuiet
<1> QED
  BY <1>1, <1>2, <1>3, <1>4, <1>5, <1>6, <1>7, <1>8 DEF Gc!Next, Gc!Client, Gc!Thread

LEMMA SuspendIs ==
  ASSUME GcTypes, Gc!Suspend
  PROVE  /\ now' = now + 1 /\ runtime = "runs" /\ runtime' = "suspended"
         /\ pauses' = pauses \cup {<<now + 1, 0>>} /\ UNCHANGED <<collections, m_State, session, stop, Stats>>
         /\ \/ /\ session = "runs" /\ lost' = 0
               /\ buffers' \in Seq(GcEvents) /\ Len(buffers') = Len(buffers) + 1
               /\ \A i \in 1 .. Len(buffers) : buffers'[i] = buffers[i]
               /\ buffers'[Len(buffers) + 1] = [kind |-> "suspend", time |-> now + 1]
            \/ buffers' = buffers /\ session # "runs" /\ lost' = lost
            \/ buffers' = buffers /\ session = "runs" /\ lost < MaxLost /\ lost' = lost + 1
<1>1. <<"suspend">> \in Seq(GcKinds) /\ Len(<<"suspend">>) = 1 /\ <<"suspend">>[1] = "suspend"
  BY DEF GcKinds
<1>2. runtime = "runs" /\ runtime' = "suspended" /\ Gc!Log(<<"suspend">>)
      /\ pauses' = pauses \cup {<<now', 0>>} /\ UNCHANGED collections
  BY DEF Gc!Suspend
<1> DEFINE kinds == <<"suspend">>
<1>3. kinds \in Seq(GcKinds) /\ Len(kinds) = 1 /\ kinds[1] = "suspend" /\ Gc!Log(kinds)
  BY <1>1, <1>2
<1> HIDE DEF kinds
<1> QED
  BY <1>2, <1>3, LoggedIs

LEMMA RestartIs ==
  ASSUME GcTypes, Gc!Restart
  PROVE  /\ now' = now + 1 /\ runtime # "runs" /\ runtime' = "runs"
         /\ pauses' = {p \in pauses : p[2] # 0} \cup {<<p[1], now + 1>> : p \in {q \in pauses : q[2] = 0}}
         /\ UNCHANGED <<collections, m_State, session, stop, Stats>>
         /\ \/ /\ session = "runs" /\ lost' = 0
               /\ buffers' \in Seq(GcEvents) /\ Len(buffers') = Len(buffers) + 1
               /\ \A i \in 1 .. Len(buffers) : buffers'[i] = buffers[i]
               /\ buffers'[Len(buffers) + 1] = [kind |-> "restart", time |-> now + 1]
            \/ buffers' = buffers /\ session # "runs" /\ lost' = lost
            \/ buffers' = buffers /\ session = "runs" /\ lost < MaxLost /\ lost' = lost + 1
<1>1. <<"restart">> \in Seq(GcKinds) /\ Len(<<"restart">>) = 1 /\ <<"restart">>[1] = "restart"
  BY DEF GcKinds
<1>2. /\ runtime # "runs" /\ runtime' = "runs" /\ Gc!Log(<<"restart">>) /\ UNCHANGED collections
      /\ pauses' = {p \in pauses : p[2] # 0} \cup {<<p[1], now'>> : p \in {q \in pauses : q[2] = 0}}
  BY DEF Gc!Restart
<1> DEFINE kinds == <<"restart">>
<1>3. kinds \in Seq(GcKinds) /\ Len(kinds) = 1 /\ kinds[1] = "restart" /\ Gc!Log(kinds)
  BY <1>1, <1>2
<1> HIDE DEF kinds
<1>4. now' = now + 1
  BY <1>3, LoggedIs
<1> QED
  BY <1>2, <1>3, <1>4, LoggedIs, SMTT(30)

LEMMA CollectIs ==
  ASSUME GcTypes, Gc!Collect
  PROVE  /\ now' = now + 1 /\ runtime = "suspended" /\ runtime' = "collected"
         /\ collections' = collections \cup {now + 1} /\ UNCHANGED <<pauses, m_State, session, stop, Stats>>
         /\ \/ /\ session = "runs" /\ lost' = 0
               /\ buffers' \in Seq(GcEvents) /\ Len(buffers') = Len(buffers) + 2
               /\ \A i \in 1 .. Len(buffers) : buffers'[i] = buffers[i]
               /\ buffers'[Len(buffers) + 1] = [kind |-> "gc", time |-> now + 1]
               /\ buffers'[Len(buffers) + 2] = [kind |-> "heap", time |-> now + 1]
            \/ buffers' = buffers /\ session # "runs" /\ lost' = lost
            \/ buffers' = buffers /\ session = "runs" /\ lost < MaxLost /\ lost' = lost + 1
<1> DEFINE kinds == <<"gc", "heap">>
<1>1. kinds \in Seq(GcKinds) /\ Len(kinds) = 2 /\ kinds[1] = "gc" /\ kinds[2] = "heap"
  BY DEF GcKinds
<1>2. /\ runtime = "suspended" /\ runtime' = "collected" /\ Gc!Log(kinds)
      /\ collections' = collections \cup {now'} /\ UNCHANGED pauses
  BY DEF Gc!Collect
<1> HIDE DEF kinds
<1>3. now' = now + 1 /\ UNCHANGED <<m_State, session, stop, Stats>>
  BY <1>1, <1>2, LoggedIs
<1>4. \/ /\ session = "runs" /\ lost' = 0
         /\ buffers' \in Seq(GcEvents) /\ Len(buffers') = Len(buffers) + Len(kinds)
         /\ \A i \in 1 .. Len(buffers) : buffers'[i] = buffers[i]
         /\ \A i \in 1 .. Len(kinds) : buffers'[Len(buffers) + i] = [kind |-> kinds[i], time |-> now + 1]
      \/ buffers' = buffers /\ session # "runs" /\ lost' = lost
      \/ buffers' = buffers /\ session = "runs" /\ lost < MaxLost /\ lost' = lost + 1
  BY <1>1, <1>2, LoggedIs
<1>5. 1 \in 1 .. Len(kinds) /\ 2 \in 1 .. Len(kinds)
  BY <1>1
<1> QED
  BY <1>1, <1>2, <1>3, <1>4, <1>5

LEMMA GcPlain ==
  ASSUME GcTypes
  PROVE  /\ now \in Nat /\ lost \in Nat /\ buffers \in Seq(GcEvents) /\ Len(buffers) \in Nat
         /\ Stats \in GcStats /\ Stats.SuspendStart \in Nat
         /\ \A i \in 1 .. Len(buffers) : buffers[i].time \in Nat
<1>1. now \in Nat /\ lost \in Nat /\ buffers \in Seq(GcEvents) /\ Stats \in GcStats
  BY DEF GcTypes, GcEvents, GcStats
<1>2. Len(buffers) \in Nat /\ \A i \in 1 .. Len(buffers) : buffers[i] \in GcEvents
  BY <1>1
<1>3. \A e \in GcEvents : e.time \in Nat
  BY DEF GcEvents
<1>4. Stats.SuspendStart \in Nat
  BY <1>1 DEF GcStats
<1> QED
  BY <1>1, <1>2, <1>3, <1>4

LEMMA GcTypesStep == GcThread /\ GcTypes /\ [Gc!Next]_Gc!gcVars => GcTypes'
<1> SUFFICES ASSUME GcThread, GcTypes, [Gc!Next]_Gc!gcVars PROVE GcTypes'
  OBVIOUS
<1>0. /\ now \in Nat /\ lost \in Nat /\ buffers \in Seq(GcEvents) /\ Len(buffers) \in Nat
      /\ Stats \in GcStats /\ Stats.SuspendStart \in Nat
      /\ \A i \in 1 .. Len(buffers) : buffers[i].time \in Nat
  BY GcPlain
<1>1. CASE GcQuiet
  BY <1>1 DEF GcQuiet, GcTypes
<1>2. CASE GcFresh
  <2>1. Stats' \in GcStats /\ Stats'.SuspendStart = 0
    BY <1>2 DEF GcFresh, Gc!NoStats, GcStats
  <2> QED
    BY <1>2, <2>1 DEF GcFresh, GcTypes, GcStats
<1>3. CASE GcDropped
  <2>1. buffers' \in Seq(GcEvents) /\ Len(buffers') = 0
    BY <1>3 DEF GcDropped
  <2> QED
    BY <1>3, <2>1 DEF GcDropped, GcTypes, GcEvents
<1>4. CASE Gc!OnGcEvent
  <2>1. /\ Stats' \in GcStats /\ Stats'.SuspendStart \in {Stats.SuspendStart, buffers[1].time, 0}
        /\ 1 \in 1 .. Len(buffers)
    <3>0. PICK k, t : k = buffers[1].kind /\ t = buffers[1].time
      OBVIOUS
    <3>1. Stats' \in GcStats /\ k \in GcKinds
      BY <1>4, <3>0, StatsAre
    <3>2. /\ k = "suspend" => Stats' = [Stats EXCEPT !.SuspendStart = t]
          /\ k = "restart" => Stats' = Stats \/ Stats'.SuspendStart = 0
          /\ k = "gc" => Stats' = [Stats EXCEPT !.Collections = @ + 1]
          /\ k = "heap" => Stats' = [Stats EXCEPT !.HasHeap = TRUE, !.HeapSize = t]
      BY <1>4, <3>0, StatsAre
    <3>3. Stats'.SuspendStart \in {Stats.SuspendStart, t, 0}
      BY <1>0, <3>1, <3>2 DEF GcKinds, GcStats
    <3>4. 1 \in 1 .. Len(buffers)
      BY <1>4, TakenIs
    <3> QED
      BY <3>0, <3>1, <3>3, <3>4
  <2>2. /\ buffers' \in Seq(GcEvents) /\ Len(buffers') = Len(buffers) - 1
        /\ \A i \in 1 .. Len(buffers) - 1 : buffers'[i] = buffers[i + 1]
        /\ UNCHANGED <<now, lost, runtime, pauses, collections, stop, m_State, session>>
    BY <1>4, TakenIs
  <2>3. Stats'.SuspendStart <= now'
    BY <1>0, <2>1, <2>2 DEF GcTypes
  <2>4. \A i \in 1 .. Len(buffers') :
          buffers'[i].time # 0 /\ buffers'[i].time <= now' /\ Stats'.SuspendStart <= buffers'[i].time
    <3> SUFFICES ASSUME NEW i \in 1 .. Len(buffers')
                 PROVE  buffers'[i].time # 0 /\ buffers'[i].time <= now' /\ Stats'.SuspendStart <= buffers'[i].time
      OBVIOUS
    <3>1. i + 1 \in 1 .. Len(buffers) /\ 1 < i + 1 /\ buffers'[i] = buffers[i + 1]
      BY <1>0, <2>2
    <3>2. buffers[1].time <= buffers[i + 1].time /\ Stats.SuspendStart <= buffers[i + 1].time
      BY <2>1, <3>1 DEF GcTypes
    <3>3. buffers[i + 1].time # 0 /\ buffers[i + 1].time <= now /\ buffers[i + 1].time \in Nat
      BY <1>0, <3>1 DEF GcTypes
    <3> QED
      BY <2>1, <2>2, <3>1, <3>2, <3>3
  <2>5. \A i, j \in 1 .. Len(buffers') : i < j =>
          /\ buffers'[i].time <= buffers'[j].time
          /\ buffers'[i].kind = "gc" /\ buffers'[j].kind = "gc" => buffers'[i].time < buffers'[j].time
    <3> SUFFICES ASSUME NEW i \in 1 .. Len(buffers'), NEW j \in 1 .. Len(buffers'), i < j
                 PROVE  /\ buffers'[i].time <= buffers'[j].time
                        /\ buffers'[i].kind = "gc" /\ buffers'[j].kind = "gc" => buffers'[i].time < buffers'[j].time
      OBVIOUS
    <3>1. /\ i + 1 \in 1 .. Len(buffers) /\ j + 1 \in 1 .. Len(buffers) /\ i + 1 < j + 1
          /\ buffers'[i] = buffers[i + 1] /\ buffers'[j] = buffers[j + 1]
      BY <1>0, <2>2
    <3> QED
      BY <3>1 DEF GcTypes
  <2>6. stop' \in {"rest", "start"} /\ m_State' = 0 => buffers' = <<>>
    <3>1. ~(stop \in {"rest", "start"} /\ m_State = 0)
      BY <1>4 DEF GcThread, Gc!OnGcEvent
    <3> QED
      BY <2>2, <3>1
  <2> QED
    BY <2>1, <2>2, <2>3, <2>4, <2>5, <2>6 DEF GcTypes, GcEvents, GcStats
<1>5. ASSUME Gc!Suspend \/ Gc!Collect \/ Gc!Restart PROVE GcTypes'
  <2>1. /\ now' = now + 1 /\ UNCHANGED <<m_State, session, stop, Stats>> /\ runtime' \in {"runs", "suspended", "collected"}
        /\ lost' \in Nat
    BY <1>0, <1>5, SuspendIs, CollectIs, RestartIs
  <2>2. /\ collections' \subseteq 1 .. now' /\ pauses' \subseteq Nat \X Nat
        /\ \A p \in pauses' : p[1] # 0 /\ p[1] <= now' /\ (p[2] # 0 => p[1] <= p[2] /\ p[2] <= now')
    <3>0. /\ collections \subseteq 1 .. now /\ pauses \subseteq Nat \X Nat
          /\ \A p \in pauses : p[1] # 0 /\ p[1] <= now /\ (p[2] # 0 => p[1] <= p[2] /\ p[2] <= now)
      BY DEF GcTypes
    <3>1. CASE Gc!Suspend
      <4>1. pauses' = pauses \cup {<<now + 1, 0>>} /\ collections' = collections
        BY <3>1, SuspendIs
      <4> QED
        BY <1>0, <2>1, <3>0, <4>1
    <3>2. CASE Gc!Collect
      <4>1. pauses' = pauses /\ collections' = collections \cup {now + 1}
        BY <3>2, CollectIs
      <4> QED
        BY <1>0, <2>1, <3>0, <4>1
    <3>3. CASE Gc!Restart
      <4>1. /\ pauses' = {p \in pauses : p[2] # 0} \cup {<<p[1], now + 1>> : p \in {q \in pauses : q[2] = 0}}
            /\ collections' = collections
        BY <3>3, RestartIs
      <4> QED
        BY <1>0, <2>1, <3>0, <4>1
    <3> QED
      BY <1>5, <3>1, <3>2, <3>3
  <2>3. \/ buffers' = buffers
        \/ /\ session = "runs" /\ buffers' \in Seq(GcEvents) /\ Len(buffers') \in Nat /\ Len(buffers) <= Len(buffers')
           /\ \A i \in 1 .. Len(buffers) : buffers'[i] = buffers[i]
           /\ \A i \in Len(buffers) + 1 .. Len(buffers') : buffers'[i].time = now + 1
           /\ \A i, j \in Len(buffers) + 1 .. Len(buffers') : i < j => buffers'[j].kind # "gc"
    <3>1. CASE Gc!Suspend
      BY <1>0, <3>1, SuspendIs
    <3>2. CASE Gc!Restart
      BY <1>0, <3>2, RestartIs
    <3>3. CASE Gc!Collect
      <4>1. CASE buffers' = buffers
        BY <4>1
      <4>2. CASE buffers' # buffers
        <5>1. /\ session = "runs" /\ buffers' \in Seq(GcEvents) /\ Len(buffers') = Len(buffers) + 2
              /\ \A i \in 1 .. Len(buffers) : buffers'[i] = buffers[i]
              /\ buffers'[Len(buffers) + 1] = [kind |-> "gc", time |-> now + 1]
              /\ buffers'[Len(buffers) + 2] = [kind |-> "heap", time |-> now + 1]
          BY <3>3, <4>2, CollectIs
        <5>2. \A i \in Len(buffers) + 1 .. Len(buffers') : i = Len(buffers) + 1 \/ i = Len(buffers) + 2
          BY <1>0, <5>1
        <5>3. \A i, j \in Len(buffers) + 1 .. Len(buffers') : i < j => j = Len(buffers) + 2
          BY <1>0, <5>1
        <5> QED
          BY <1>0, <5>1, <5>2, <5>3
      <4> QED
        BY <4>1, <4>2
    <3> QED
      BY <1>5, <3>1, <3>2, <3>3
  <2>4. CASE buffers' = buffers
    BY <1>0, <2>1, <2>2, <2>4 DEF GcTypes
  <2>5. CASE buffers' # buffers
    <3>1. \A i \in 1 .. Len(buffers') : i \in 1 .. Len(buffers) \/ i \in Len(buffers) + 1 .. Len(buffers')
      BY <1>0, <2>3, <2>5
    <3>2. \A i \in 1 .. Len(buffers') :
            /\ buffers'[i].time \in Nat /\ buffers'[i].time # 0 /\ buffers'[i].time <= now'
            /\ Stats'.SuspendStart <= buffers'[i].time
      <4>1. \A i \in 1 .. Len(buffers) : buffers'[i] = buffers[i]
        BY <2>3, <2>5
      <4>2. \A i \in Len(buffers) + 1 .. Len(buffers') : buffers'[i].time = now + 1
        BY <2>3, <2>5
      <4>3. \A i \in 1 .. Len(buffers) :
              buffers[i].time # 0 /\ buffers[i].time <= now /\ Stats.SuspendStart <= buffers[i].time
        BY DEF GcTypes
      <4>4. Stats.SuspendStart <= now
        BY DEF GcTypes
      <4> QED
        BY <1>0, <2>1, <3>1, <4>1, <4>2, <4>3, <4>4
    <3>3. \A i, j \in 1 .. Len(buffers') : i < j =>
            /\ buffers'[i].time <= buffers'[j].time
            /\ buffers'[i].kind = "gc" /\ buffers'[j].kind = "gc" => buffers'[i].time < buffers'[j].time
      <4> SUFFICES ASSUME NEW i \in 1 .. Len(buffers'), NEW j \in 1 .. Len(buffers'), i < j
                   PROVE  /\ buffers'[i].time <= buffers'[j].time
                          /\ buffers'[i].kind = "gc" /\ buffers'[j].kind = "gc" => buffers'[i].time < buffers'[j].time
        OBVIOUS
      <4>1. CASE j \in 1 .. Len(buffers)
        <5>1. i \in 1 .. Len(buffers) /\ buffers'[i] = buffers[i] /\ buffers'[j] = buffers[j]
          BY <1>0, <2>3, <2>5, <4>1
        <5> QED
          BY <4>1, <5>1 DEF GcTypes
      <4>2. CASE j \in Len(buffers) + 1 .. Len(buffers') /\ i \in 1 .. Len(buffers)
        <5>1. buffers'[i] = buffers[i] /\ buffers'[j].time = now + 1
          BY <2>3, <2>5, <4>2
        <5>2. buffers[i].time \in Nat /\ buffers[i].time <= now
          BY <1>0, <4>2 DEF GcTypes
        <5> QED
          BY <1>0, <5>1, <5>2
      <4>3. CASE j \in Len(buffers) + 1 .. Len(buffers') /\ i \in Len(buffers) + 1 .. Len(buffers')
        <5>1. buffers'[i].time = now + 1 /\ buffers'[j].time = now + 1 /\ buffers'[j].kind # "gc"
          BY <2>3, <2>5, <4>3
        <5> QED
          BY <1>0, <5>1
      <4> QED
        BY <3>1, <4>1, <4>2, <4>3
    <3>4. ~(stop' \in {"rest", "start"} /\ m_State' = 0) /\ (m_State' = 0 => session' # "runs")
      BY <2>1, <2>3, <2>5 DEF GcTypes
    <3>5. Stats'.SuspendStart <= now'
      BY <1>0, <2>1 DEF GcTypes
    <3> QED
      BY <1>0, <2>1, <2>2, <2>3, <2>5, <3>2, <3>3, <3>4, <3>5 DEF GcTypes, GcEvents, GcStats
  <2> QED
    BY <2>4, <2>5
<1> QED
  BY <1>1, <1>2, <1>3, <1>4, <1>5, GcSteps

LEMMA EdgesTaken ==
  ASSUME GcTypes, GcEdges, Gc!OnGcEvent PROVE GcEdges'
<1> DEFINE n == Len(buffers)
<1>0. /\ n \in Nat \ {0} /\ Len(buffers') = n - 1 /\ \A i \in 1 .. n - 1 : buffers'[i] = buffers[i + 1]
      /\ UNCHANGED <<lost, runtime, pauses, session>>
  BY TakenIs
<1>1. PICK k, t : k = buffers[1].kind /\ t = buffers[1].time
  OBVIOUS
<1>2. /\ k = "suspend" => Stats'.SuspendStart = t
      /\ k = "restart" => Stats'.SuspendStart = 0
      /\ k \in {"gc", "heap"} => Stats'.SuspendStart = Stats.SuspendStart
      /\ k \in GcKinds
  <2>1. Stats \in GcStats /\ k \in GcKinds
    BY <1>1, StatsAre
  <2>2. /\ k = "suspend" => Stats' = [Stats EXCEPT !.SuspendStart = t]
        /\ k = "restart" => (Stats.SuspendStart = 0 /\ Stats' = Stats) \/ Stats'.SuspendStart = 0
        /\ k = "gc" => Stats' = [Stats EXCEPT !.Collections = @ + 1]
        /\ k = "heap" => Stats' = [Stats EXCEPT !.HasHeap = TRUE, !.HeapSize = t]
    BY <1>1, StatsAre
  <2> QED
    BY <2>1, <2>2 DEF GcStats
<1>3. ASSUME NEW i \in Nat, NEW j \in Nat, j <= n, NoEdge(i, j)' PROVE NoEdge(i + 1, j + 1)
  <2> SUFFICES ASSUME NEW l \in 1 .. n, i + 1 < l, l < j + 1 PROVE ~GcEdge(buffers[l])
    BY DEF NoEdge
  <2>1. l - 1 \in 1 .. Len(buffers') /\ i < l - 1 /\ l - 1 < j /\ buffers'[l - 1] = buffers[(l - 1) + 1] /\ (l - 1) + 1 = l
    BY <1>0
  <2>2. ~GcEdge(buffers'[l - 1])
    BY <1>3, <2>1 DEF NoEdge
  <2> QED
    BY <2>1, <2>2
<1>4. ASSUME NEW j \in Nat, j <= n, NoEdge(0, j)', k \in {"gc", "heap"} PROVE NoEdge(0, j + 1)
  <2>1. NoEdge(0 + 1, j + 1)
    BY <1>3, <1>4
  <2>2. NoEdge(1, j + 1)
    BY <2>1
  <2>3. ~GcEdge(buffers[1])
    BY <1>1, <1>4 DEF GcEdge
  <2>4. \A l \in 1 .. Len(buffers) : 0 < l => l = 1 \/ 1 < l
    BY <1>0
  <2> QED
    BY <2>2, <2>3, <2>4 DEF NoEdge
<1>11. ASSUME NEW i \in Nat, NoneAfter(i)' PROVE NoneAfter(i + 1)
  <2> SUFFICES ASSUME NEW l \in 1 .. n, i + 1 < l PROVE ~GcEdge(buffers[l])
    BY DEF NoneAfter
  <2>1. l - 1 \in 1 .. Len(buffers') /\ i < l - 1 /\ buffers'[l - 1] = buffers[(l - 1) + 1] /\ (l - 1) + 1 = l
    BY <1>0
  <2>2. ~GcEdge(buffers'[l - 1])
    BY <1>11, <2>1 DEF NoneAfter
  <2> QED
    BY <2>1, <2>2
<1>5. \A i \in 1 .. n - 1 : buffers'[i].kind = buffers[i + 1].kind /\ buffers'[i].time = buffers[i + 1].time
  BY <1>0
<1>6. \A x : GcOpen(x) => GcOpen(x)'
  BY <1>0 DEF GcOpen
<1>7. ASSUME NEW i \in 1 .. Len(buffers'), NEW j \in 1 .. Len(buffers'), i < j, buffers'[i].kind = "suspend",
             buffers'[j].kind = "restart", NoEdge(i, j)'
      PROVE  <<buffers'[i].time, buffers'[j].time>> \in pauses'
  <2>1. i + 1 \in 1 .. n /\ j + 1 \in 1 .. n /\ i + 1 < j + 1 /\ i \in Nat /\ j \in Nat /\ j <= n /\ i \in 1 .. n - 1 /\ j \in 1 .. n - 1
    BY <1>0, <1>7
  <2>2. NoEdge(i + 1, j + 1)
    BY <1>3, <1>7, <2>1
  <2>3. <<buffers[i + 1].time, buffers[j + 1].time>> \in pauses
    BY <1>5, <1>7, <2>1, <2>2 DEF GcEdges
  <2> QED
    BY <1>0, <1>5, <2>1, <2>3
<1>8. ASSUME NEW j \in 1 .. Len(buffers'), Stats'.SuspendStart # 0, buffers'[j].kind = "restart", NoEdge(0, j)'
      PROVE  <<Stats'.SuspendStart, buffers'[j].time>> \in pauses'
  <2>1. 1 \in 1 .. n /\ j + 1 \in 1 .. n /\ 1 < j + 1 /\ j \in Nat /\ j <= n /\ j \in 1 .. n - 1
    BY <1>0
  <2>2. CASE k = "suspend"
    <3>1. NoEdge(0 + 1, j + 1)
      BY <1>3, <1>8, <2>1
    <3>2. NoEdge(1, j + 1)
      BY <3>1
    <3>3. <<buffers[1].time, buffers[j + 1].time>> \in pauses
      BY <1>1, <1>5, <1>8, <2>1, <2>2, <3>2 DEF GcEdges
    <3> QED
      BY <1>0, <1>1, <1>2, <1>5, <2>1, <2>2, <3>3
  <2>3. CASE k \in {"gc", "heap"}
    <3>1. NoEdge(0, j + 1)
      BY <1>4, <1>8, <2>1, <2>3
    <3>2. Stats.SuspendStart # 0 /\ Stats'.SuspendStart = Stats.SuspendStart
      BY <1>2, <1>8, <2>3
    <3>3. <<Stats.SuspendStart, buffers[j + 1].time>> \in pauses
      BY <1>5, <1>8, <2>1, <3>1, <3>2 DEF GcEdges
    <3> QED
      BY <1>0, <1>5, <2>1, <3>2, <3>3
  <2> QED
    BY <1>2, <1>8, <2>2, <2>3 DEF GcKinds
<1>9. ASSUME NEW i \in 1 .. Len(buffers'), session' = "runs", buffers'[i].kind = "suspend", NoneAfter(i)'
      PROVE  \E x : x = buffers'[i].time /\ GcOpen(x)'
  <2>1. i + 1 \in 1 .. n /\ i \in Nat /\ n \in Nat /\ n <= n /\ i \in 1 .. n - 1 /\ Len(buffers') + 1 = n
    BY <1>0
  <2>4. NoneAfter(i + 1)
    BY <1>11, <1>9, <2>1
  <2>5. PICK x : x = buffers[i + 1].time
    OBVIOUS
  <2>6. GcOpen(x)
    BY <1>0, <1>5, <1>9, <2>1, <2>4, <2>5 DEF GcEdges
  <2> QED
    BY <1>5, <1>6, <2>1, <2>5, <2>6
<1>10. ASSUME session' = "runs", Stats'.SuspendStart # 0, NoneAfter(0)'
       PROVE  \E x : x = Stats'.SuspendStart /\ GcOpen(x)'
  <2>1. n \in Nat /\ n <= n /\ Len(buffers') + 1 = n /\ 1 \in 1 .. n
    BY <1>0
  <2>4. CASE k = "suspend"
    <3>1. NoneAfter(0 + 1)
      BY <1>11, <1>10
    <3>2. NoneAfter(1)
      BY <3>1
    <3>3. GcOpen(t)
      BY <1>0, <1>1, <1>10, <2>1, <2>4, <3>2 DEF GcEdges
    <3> QED
      BY <1>2, <1>6, <2>4, <3>3
  <2>5. CASE k \in {"gc", "heap"}
    <3>0. NoneAfter(0 + 1)
      BY <1>11, <1>10
    <3>1. NoneAfter(0)
      BY <1>0, <1>1, <2>5, <3>0 DEF NoneAfter, GcEdge
    <3>2. Stats.SuspendStart # 0 /\ Stats'.SuspendStart = Stats.SuspendStart
      BY <1>2, <1>10, <2>5
    <3>3. PICK x : x = Stats.SuspendStart
      OBVIOUS
    <3>4. GcOpen(x)
      BY <1>0, <1>10, <3>1, <3>2, <3>3 DEF GcEdges
    <3> QED
      BY <1>6, <3>2, <3>3, <3>4
  <2> QED
    BY <1>2, <1>10, <2>4, <2>5 DEF GcKinds
<1> HIDE DEF n
<1> QED
  BY <1>7, <1>8, <1>9, <1>10 DEF GcEdges

\* events the runtime logs come after those that are there
LEMMA EdgesLogged ==
  ASSUME GcTypes, GcEdges, Gc!Suspend \/ Gc!Collect \/ Gc!Restart PROVE GcEdges'
<1> DEFINE n == Len(buffers)
<1>0. /\ n \in Nat /\ now \in Nat /\ lost \in Nat /\ UNCHANGED <<session, Stats>>
      /\ \A i \in 1 .. n : buffers[i].time \in Nat \ {0}
  <2>1. UNCHANGED <<session, Stats>>
    BY SuspendIs, CollectIs, RestartIs
  <2>2. \A i \in 1 .. n : buffers[i].time # 0
    BY DEF GcTypes
  <2> QED
    BY <2>1, <2>2, GcPlain
<1>1. \A a, b : b # 0 /\ <<a, b>> \in pauses => <<a, b>> \in pauses'
  <2>1. CASE Gc!Suspend
    BY <2>1, SuspendIs
  <2>2. CASE Gc!Collect
    BY <2>2, CollectIs
  <2>3. CASE Gc!Restart
    BY <2>3, RestartIs
  <2> QED
    BY <2>1, <2>2, <2>3
<1>2. CASE buffers' = buffers
  <2>1. ASSUME session = "runs", NEW x, GcOpen(x) PROVE GcOpen(x)'
    <3>0. lost < MaxLost /\ lost' = lost + 1
      <4>1. CASE Gc!Suspend
        BY <1>0, <1>2, <2>1, <4>1, SuspendIs
      <4>2. CASE Gc!Collect
        BY <1>0, <1>2, <2>1, <4>2, CollectIs
      <4>3. CASE Gc!Restart
        BY <1>0, <1>2, <2>1, <4>3, RestartIs
      <4> QED
        BY <4>1, <4>2, <4>3
    <3>1. CASE Gc!Suspend
      <4>1. runtime = "runs"
        BY <3>1, SuspendIs
      <4> QED
        BY <1>0, <2>1, <3>0, <4>1, GcAssumption DEF GcOpen
    <3>2. CASE Gc!Collect
      <4>1. runtime # "runs" /\ runtime' # "runs" /\ pauses' = pauses
        BY <3>2, CollectIs
      <4> QED
        BY <2>1, <4>1 DEF GcOpen
    <3>3. CASE Gc!Restart
      <4>1. runtime' = "runs"
        BY <3>3, RestartIs
      <4> QED
        BY <1>0, <3>0, <4>1, GcAssumption DEF GcOpen
    <3> QED
      BY <3>1, <3>2, <3>3
  <2>2. \A i, j : NoEdge(i, j)' <=> NoEdge(i, j)
    BY <1>2 DEF NoEdge
  <2>3. \A i : NoneAfter(i)' <=> NoneAfter(i)
    BY <1>2 DEF NoneAfter
  <2> QED
    BY <1>0, <1>1, <1>2, <2>1, <2>2, <2>3 DEF GcEdges
<1>3. CASE buffers' # buffers
  <2>1. /\ session = "runs" /\ Len(buffers') \in Nat /\ n < Len(buffers')
        /\ \A i \in 1 .. n : buffers'[i] = buffers[i]
    <3>1. CASE Gc!Suspend
      BY <1>0, <1>3, <3>1, SuspendIs
    <3>2. CASE Gc!Collect
      BY <1>0, <1>3, <3>2, CollectIs
    <3>3. CASE Gc!Restart
      BY <1>0, <1>3, <3>3, RestartIs
    <3> QED
      BY <3>1, <3>2, <3>3
  <2>2. ASSUME NEW i \in Nat, NEW j \in Nat, j <= n + 1, NoEdge(i, j)' PROVE NoEdge(i, j)
    BY <1>0, <2>1, <2>2 DEF NoEdge
  <2>3. ASSUME NEW i \in Nat, NoneAfter(i)' PROVE NoneAfter(i)
    BY <1>0, <2>1, <2>3 DEF NoneAfter
  <2>4. ASSUME NEW i \in Nat, NoEdge(i, n + 1) PROVE NoneAfter(i)
    BY <1>0, <2>4 DEF NoEdge, NoneAfter
  <2>5. ASSUME NEW i \in 1 .. n, NEW j \in 1 .. n, i < j, buffers'[i].kind = "suspend",
               buffers'[j].kind = "restart", NoEdge(i, j)'
        PROVE  <<buffers'[i].time, buffers'[j].time>> \in pauses'
    <3>1. NoEdge(i, j) /\ buffers'[i] = buffers[i] /\ buffers'[j] = buffers[j]
      BY <1>0, <2>1, <2>2, <2>5
    <3> QED
      BY <1>0, <1>1, <2>5, <3>1 DEF GcEdges
  <2>6. ASSUME NEW j \in 1 .. n, Stats.SuspendStart # 0, buffers'[j].kind = "restart", NoEdge(0, j)'
        PROVE  <<Stats.SuspendStart, buffers'[j].time>> \in pauses'
    <3>0. 0 \in Nat /\ j \in Nat /\ j <= n + 1
      BY <1>0
    <3>1. NoEdge(0, j) /\ buffers'[j] = buffers[j]
      BY <2>1, <2>2, <2>6, <3>0
    <3> QED
      BY <1>0, <1>1, <2>6, <3>1 DEF GcEdges
  <2>7. CASE Gc!Suspend
    <3>1. /\ Len(buffers') = n + 1 /\ buffers'[n + 1] = [kind |-> "suspend", time |-> now + 1]
          /\ runtime' = "suspended" /\ <<now + 1, 0>> \in pauses'
      BY <1>3, <2>7, SuspendIs
    <3>2. \A i \in 1 .. n : ~NoneAfter(i)'
      BY <1>0, <3>1 DEF NoneAfter, GcEdge
    <3>3. ~NoneAfter(0)'
      BY <1>0, <3>1 DEF NoneAfter, GcEdge
    <3>4. \A i \in 1 .. Len(buffers') : i \in 1 .. n \/ i = n + 1
      BY <1>0, <3>1
    <3>5. PICK x : x = now + 1
      OBVIOUS
    <3>6. GcOpen(x)' /\ buffers'[n + 1].time = x /\ buffers'[n + 1].kind # "restart"
      BY <3>1, <3>5 DEF GcOpen
    <3>7. \A i, j \in 1 .. Len(buffers') : i < j /\ buffers'[j].kind = "restart" => i \in 1 .. n /\ j \in 1 .. n
      BY <1>0, <3>1, <3>4, <3>6
    <3> HIDE DEF n
    <3> QED
      BY <1>0, <2>5, <2>6, <3>2, <3>3, <3>4, <3>5, <3>6, <3>7 DEF GcEdges
  <2>8. CASE Gc!Restart
    <3>1. /\ Len(buffers') = n + 1 /\ buffers'[n + 1] = [kind |-> "restart", time |-> now + 1]
          /\ runtime # "runs" /\ \A a : <<a, 0>> \in pauses => <<a, now + 1>> \in pauses'
      <4>1. /\ Len(buffers') = n + 1 /\ buffers'[n + 1] = [kind |-> "restart", time |-> now + 1]
            /\ runtime # "runs"
            /\ pauses' = {p \in pauses : p[2] # 0} \cup {<<p[1], now + 1>> : p \in {q \in pauses : q[2] = 0}}
        BY <1>3, <2>8, RestartIs
      <4> QED
        BY <4>1
    <3>2. \A i \in 1 .. n : ~NoneAfter(i)'
      BY <1>0, <3>1 DEF NoneAfter, GcEdge
    <3>3. ~NoneAfter(0)'
      BY <1>0, <3>1 DEF NoneAfter, GcEdge
    <3>4. \A i \in 1 .. Len(buffers') : i \in 1 .. n \/ i = n + 1
      BY <1>0, <3>1
    <3>5. buffers'[n + 1].time = now + 1 /\ buffers'[n + 1].kind # "suspend"
      BY <3>1
    <3>6. ASSUME NEW i \in 1 .. n, buffers'[i].kind = "suspend", NEW m \in Nat, m = n + 1, NoEdge(i, m)'
          PROVE  <<buffers'[i].time, now + 1>> \in pauses'
      <4>1. NoEdge(i, m) /\ buffers'[i] = buffers[i]
        BY <1>0, <2>1, <2>2, <3>6
      <4>2. NoneAfter(i)
        BY <1>0, <2>4, <3>6, <4>1
      <4>3. PICK x : x = buffers[i].time
        OBVIOUS
      <4>4. GcOpen(x)
        BY <2>1, <3>6, <4>1, <4>2, <4>3 DEF GcEdges
      <4> QED
        BY <3>1, <4>1, <4>3, <4>4 DEF GcOpen
    <3>7. ASSUME Stats.SuspendStart # 0, NEW m \in Nat, m = n + 1, NoEdge(0, m)'
          PROVE  <<Stats.SuspendStart, now + 1>> \in pauses'
      <4>1. NoEdge(0, m)
        BY <1>0, <2>2, <3>7
      <4>2. NoneAfter(0)
        BY <1>0, <2>4, <3>7, <4>1
      <4>3. PICK x : x = Stats.SuspendStart
        OBVIOUS
      <4>4. GcOpen(x)
        BY <2>1, <3>7, <4>2, <4>3 DEF GcEdges
      <4> QED
        BY <3>1, <4>3, <4>4 DEF GcOpen
    <3>8. PICK m \in Nat : m = n + 1
      BY <1>0
    <3>9. \A i, j \in 1 .. Len(buffers') : i < j /\ buffers'[i].kind = "suspend" =>
            i \in 1 .. n /\ (j \in 1 .. n \/ j = m)
      BY <1>0, <3>1, <3>4, <3>5, <3>8
    <3> HIDE DEF n
    <3>10. \A i, j \in 1 .. Len(buffers') :
             i < j /\ buffers'[i].kind = "suspend" /\ buffers'[j].kind = "restart" /\ NoEdge(i, j)' =>
               <<buffers'[i].time, buffers'[j].time>> \in pauses'
      BY <2>5, <3>5, <3>6, <3>8, <3>9
    <3>11. \A j \in 1 .. Len(buffers') :
             Stats'.SuspendStart # 0 /\ buffers'[j].kind = "restart" /\ NoEdge(0, j)' =>
               <<Stats'.SuspendStart, buffers'[j].time>> \in pauses'
      BY <1>0, <2>6, <3>4, <3>5, <3>7, <3>8
    <3> QED
      BY <1>0, <3>2, <3>3, <3>4, <3>5, <3>10, <3>11 DEF GcEdges
  <2>9. CASE Gc!Collect
    <3>1. /\ Len(buffers') = n + 2 /\ buffers'[n + 1] = [kind |-> "gc", time |-> now + 1]
          /\ buffers'[n + 2] = [kind |-> "heap", time |-> now + 1]
          /\ runtime # "runs" /\ runtime' # "runs" /\ pauses' = pauses
      BY <1>3, <2>9, CollectIs
    <3>2. \A i \in 1 .. Len(buffers') : i \in 1 .. n \/ (buffers'[i].kind \notin {"suspend", "restart"})
      <4>1. \A i \in 1 .. Len(buffers') : i \in 1 .. n \/ i = n + 1 \/ i = n + 2
        BY <1>0, <3>1
      <4>2. buffers'[n + 1].kind = "gc" /\ buffers'[n + 2].kind = "heap"
        BY <3>1
      <4> QED
        BY <4>1, <4>2
    <3>3. \A x : GcOpen(x) => GcOpen(x)'
      BY <3>1 DEF GcOpen
    <3>4. ASSUME NEW i \in 1 .. n, buffers'[i].kind = "suspend", NoneAfter(i)'
          PROVE  GcOpen(buffers[i].time) /\ buffers'[i] = buffers[i]
      BY <1>0, <2>1, <2>3, <3>4 DEF GcEdges
    <3>5. ASSUME Stats.SuspendStart # 0, NoneAfter(0)' PROVE GcOpen(Stats.SuspendStart)
      BY <2>1, <2>3, <3>5 DEF GcEdges
    <3>6. \A i \in 1 .. Len(buffers') : buffers'[i].kind = "suspend" /\ NoneAfter(i)' => \E x : x = buffers'[i].time /\ GcOpen(x)'
      <4> SUFFICES ASSUME NEW i \in 1 .. Len(buffers'), buffers'[i].kind = "suspend", NoneAfter(i)'
                   PROVE  \E x : x = buffers'[i].time /\ GcOpen(x)'
        OBVIOUS
      <4>1. i \in 1 .. n
        BY <3>2
      <4>2. PICK x : x = buffers[i].time
        OBVIOUS
      <4>3. GcOpen(x)
        BY <3>4, <4>1, <4>2
      <4> QED
        BY <3>3, <3>4, <4>1, <4>2, <4>3
    <3>7. Stats'.SuspendStart # 0 /\ NoneAfter(0)' => \E x : x = Stats'.SuspendStart /\ GcOpen(x)'
      <4>1. PICK x : x = Stats.SuspendStart
        OBVIOUS
      <4> QED
        BY <1>0, <3>3, <3>5, <4>1
    <3> HIDE DEF n
    <3>8. \A i, j \in 1 .. Len(buffers') :
            i < j /\ buffers'[i].kind = "suspend" /\ buffers'[j].kind = "restart" /\ NoEdge(i, j)' =>
              <<buffers'[i].time, buffers'[j].time>> \in pauses'
      BY <2>5, <3>2
    <3>9. \A j \in 1 .. Len(buffers') :
            Stats'.SuspendStart # 0 /\ buffers'[j].kind = "restart" /\ NoEdge(0, j)' =>
              <<Stats'.SuspendStart, buffers'[j].time>> \in pauses'
      BY <1>0, <2>6, <3>2
    <3> QED
      BY <3>6, <3>7, <3>8, <3>9 DEF GcEdges
  <2> QED
    BY <2>7, <2>8, <2>9
<1> QED
  BY <1>2, <1>3

LEMMA GcEdgesStep == GcThread /\ GcTypes /\ GcEdges /\ [Gc!Next]_Gc!gcVars => GcEdges'
<1> SUFFICES ASSUME GcThread, GcTypes, GcEdges, [Gc!Next]_Gc!gcVars PROVE GcEdges'
  OBVIOUS
<1>1. CASE GcQuiet
  BY <1>1 DEF GcQuiet, GcEdges, GcOpen, NoEdge, NoneAfter
<1>2. CASE GcFresh
  <2>1. Stats'.SuspendStart = 0 /\ Len(buffers') = 0
    BY <1>2 DEF GcFresh, Gc!NoStats
  <2> QED
    BY <2>1 DEF GcEdges
<1>3. CASE GcDropped
  <2>1. session' # "runs" /\ Len(buffers') = 0
    BY <1>3 DEF GcDropped
  <2> QED
    BY <2>1 DEF GcEdges
<1> QED
  BY <1>1, <1>2, <1>3, GcSteps, EdgesTaken, EdgesLogged

LEMMA GcPauses ==
  ASSUME GcTypes
  PROVE  /\ pauses \in SUBSET (Nat \X Nat) /\ now \in Nat /\ \A p \in pauses : p[2] # 0 => p[2] <= now
         /\ Stats \in GcStats
         /\ Stats.LastPause \in Nat /\ Stats.MaxPause \in Nat /\ Stats.TotalPause \in Nat /\ Stats.SuspendStart \in Nat
         /\ Cardinality(Ticks(pauses)) \in Nat /\ \A t : Cardinality(TicksTo(pauses, t)) \in Nat
<1>1. pauses \in SUBSET (Nat \X Nat) /\ now \in Nat /\ \A p \in pauses : p[2] # 0 => p[2] <= now
  BY DEF GcTypes
<1>2. Stats \in GcStats
  BY DEF GcTypes, GcStats
<1>3. Stats.LastPause \in Nat /\ Stats.MaxPause \in Nat /\ Stats.TotalPause \in Nat /\ Stats.SuspendStart \in Nat
  BY <1>2 DEF GcStats
<1> QED
  BY <1>1, <1>2, <1>3, TicksAreFinite

LEMMA SumsTaken ==
  ASSUME GcTypes, GcEdges, GcSums, Gc!OnGcEvent PROVE GcSums'
<1> DEFINE n == Len(buffers)
           C(t) == Cardinality(TicksTo(pauses, t))
<1>0. /\ n \in Nat \ {0} /\ Len(buffers') = n - 1 /\ \A i \in 1 .. n - 1 : buffers'[i] = buffers[i + 1]
      /\ 1 \in 1 .. n /\ pauses' = pauses
  BY TakenIs
<1>1. PICK k, t : k = buffers[1].kind /\ t = buffers[1].time
  OBVIOUS
<1>2. Stats \in GcStats /\ k \in GcKinds /\ t \in Nat \ {0}
  BY <1>1, StatsAre
<1>3. PICK s : s = Stats.SuspendStart
  OBVIOUS
<1>4. /\ k = "suspend" => Stats' = [Stats EXCEPT !.SuspendStart = t]
      /\ k = "restart" /\ s = 0 => Stats' = Stats
      /\ k = "gc" => Stats' = [Stats EXCEPT !.Collections = @ + 1]
      /\ k = "heap" => Stats' = [Stats EXCEPT !.HasHeap = TRUE, !.HeapSize = t]
  BY <1>1, <1>3, StatsAre
<1>5. \A i \in 1 .. n - 1 : i + 1 \in 1 .. n /\ buffers[i + 1].time \in Nat /\ t <= buffers[i + 1].time
  <2> SUFFICES ASSUME NEW i \in 1 .. n - 1
               PROVE  i + 1 \in 1 .. n /\ buffers[i + 1].time \in Nat /\ t <= buffers[i + 1].time
    OBVIOUS
  <2>1. i + 1 \in 1 .. n /\ 1 < i + 1
    BY <1>0
  <2>2. buffers[i + 1].time \in Nat
    BY <2>1, GcPlain
  <2>3. buffers[1].time <= buffers[i + 1].time
    BY <1>0, <2>1 DEF GcTypes
  <2> QED
    BY <1>1, <2>1, <2>2, <2>3
<1>6. \A i \in 1 .. n - 1 : buffers[i + 1].kind = "suspend" => Stats.TotalPause <= C(buffers[i + 1].time)
  BY <1>5 DEF GcSums
<1>7. \A i \in 1 .. Len(buffers') : i \in 1 .. n - 1 /\ buffers'[i] = buffers[i + 1]
  BY <1>0
<1> HIDE DEF n
<1>8. ASSUME UNCHANGED <<Stats.TotalPause, Stats.LastPause, Stats.MaxPause>>,
             Stats'.SuspendStart # 0 => Stats.TotalPause <= C(Stats'.SuspendStart)
      PROVE  GcSums'
  BY <1>0, <1>6, <1>7, <1>8 DEF GcSums
<1>9. CASE k = "suspend"
  <2>1. Stats'.SuspendStart = t /\ UNCHANGED <<Stats.TotalPause, Stats.LastPause, Stats.MaxPause>>
    BY <1>2, <1>4, <1>9 DEF GcStats
  <2>2. Stats.TotalPause <= C(t)
    BY <1>0, <1>1, <1>9 DEF GcSums, n
  <2> QED
    BY <1>8, <2>1, <2>2
<1>10. CASE k \in {"gc", "heap"} \/ (k = "restart" /\ s = 0)
  <2>1. UNCHANGED <<Stats.SuspendStart, Stats.TotalPause, Stats.LastPause, Stats.MaxPause>>
    BY <1>2, <1>4, <1>10 DEF GcStats
  <2>2. Stats.SuspendStart # 0 => Stats.TotalPause <= C(Stats.SuspendStart)
    BY DEF GcSums
  <2> QED
    BY <1>8, <2>1, <2>2
<1>11. CASE k = "restart" /\ s # 0
  <2>1. /\ s <= t /\ Stats'.SuspendStart = 0 /\ Stats'.LastPause = t - s
        /\ Stats'.MaxPause \in {Stats.MaxPause, t - s}
        /\ Stats'.MaxPause >= Stats.MaxPause /\ Stats'.MaxPause >= t - s
        /\ Stats'.TotalPause = Stats.TotalPause + (t - s)
    BY <1>1, <1>3, <1>11, StatsAre, ZenonT(60)
  <2>2. <<s, t>> \in pauses
    <3>1. NoEdge(0, 1)
      BY DEF NoEdge
    <3> QED
      BY <1>0, <1>1, <1>3, <1>11, <3>1 DEF GcEdges, n
  <2>3. /\ pauses \in SUBSET (Nat \X Nat) /\ now \in Nat /\ \A p \in pauses : p[2] # 0 => p[2] <= now
        /\ s \in Nat /\ Stats.TotalPause \in Nat /\ Stats.MaxPause \in Nat
        /\ C(s) \in Nat /\ C(t) \in Nat /\ Cardinality(Ticks(pauses)) \in Nat /\ \A x : C(x) \in Nat
    BY <1>3, GcPauses
  <2>4. C(s) + (t - s) <= C(t)
    BY <1>2, <2>1, <2>2, <2>3, PauseTicks
  <2>5. \A x \in Nat : t <= x => C(t) <= C(x) /\ C(x) <= Cardinality(Ticks(pauses))
    BY <1>2, <2>3, TicksLater
  <2>6. Stats.TotalPause <= C(s)
    BY <1>3, <1>11 DEF GcSums
  <2> HIDE DEF C
  <2>7. t - s \in Nat /\ Stats'.TotalPause \in Nat /\ Stats'.TotalPause <= C(t) /\ t - s <= Stats'.TotalPause
        /\ Stats.TotalPause <= Stats'.TotalPause
    BY <1>2, <2>1, <2>3, <2>4, <2>6
  <2>8. C(t) <= Cardinality(Ticks(pauses))
    BY <1>2, <2>5
  <2>9. Stats'.TotalPause <= Cardinality(Ticks(pauses))
    BY <2>3, <2>7, <2>8
  <2>10. \A i \in 1 .. Len(buffers') : Stats'.TotalPause <= C(buffers'[i].time)
    BY <1>5, <1>7, <2>3, <2>5, <2>7, SMTT(30)
  <2>11. Stats'.LastPause <= Stats'.MaxPause /\ Stats'.MaxPause <= Stats'.TotalPause
    <3>1. Stats.MaxPause <= Stats.TotalPause
      BY DEF GcSums
    <3> QED
      BY <2>1, <2>3, <2>7, <3>1
  <2>12. \A l \in {Stats'.LastPause, Stats'.MaxPause} : l = 0 \/ \E p \in pauses : p[2] # 0 /\ l = p[2] - p[1]
    <3>1. \E p \in pauses : p[2] # 0 /\ t - s = p[2] - p[1]
      BY <1>2, <2>2
    <3>2. Stats.MaxPause = 0 \/ \E p \in pauses : p[2] # 0 /\ Stats.MaxPause = p[2] - p[1]
      BY DEF GcSums
    <3>3. \A l \in {Stats'.LastPause, Stats'.MaxPause} : l = t - s \/ l = Stats.MaxPause
      BY <2>1
    <3> QED
      BY <3>1, <3>2, <3>3
  <2> QED
    BY <1>0, <2>1, <2>9, <2>10, <2>11, <2>12 DEF GcSums, C
<1> QED
  BY <1>2, <1>9, <1>10, <1>11 DEF GcKinds

\* what is logged is logged now
LEMMA LoggedLater ==
  ASSUME GcTypes, Gc!Suspend \/ Gc!Collect \/ Gc!Restart
  PROVE  /\ now' = now + 1 /\ Stats' = Stats
         /\ \A i \in 1 .. Len(buffers') :
              (i \in 1 .. Len(buffers) /\ buffers'[i] = buffers[i]) \/ buffers'[i].time = now'
         /\ \A p \in pauses : p[2] # 0 => p \in pauses'
<1>0. Len(buffers) \in Nat
  BY GcPlain
<1>1. now' = now + 1 /\ Stats' = Stats
  BY SuspendIs, CollectIs, RestartIs
<1>2. CASE Gc!Suspend
  <2>1. \A p \in pauses : p[2] # 0 => p \in pauses'
    BY <1>2, SuspendIs
  <2>2. CASE buffers' = buffers
    BY <1>1, <2>1, <2>2
  <2>3. CASE buffers' # buffers
    <3>1. /\ Len(buffers') = Len(buffers) + 1 /\ \A i \in 1 .. Len(buffers) : buffers'[i] = buffers[i]
          /\ buffers'[Len(buffers) + 1].time = now + 1
      BY <1>2, <2>3, SuspendIs
    <3>2. \A i \in 1 .. Len(buffers') : i \in 1 .. Len(buffers) \/ i = Len(buffers) + 1
      BY <1>0, <3>1
    <3> QED
      BY <1>1, <2>1, <3>1, <3>2
  <2> QED
    BY <2>2, <2>3
<1>3. CASE Gc!Restart
  <2>1. \A p \in pauses : p[2] # 0 => p \in pauses'
    BY <1>3, RestartIs
  <2>2. CASE buffers' = buffers
    BY <1>1, <2>1, <2>2
  <2>3. CASE buffers' # buffers
    <3>1. /\ Len(buffers') = Len(buffers) + 1 /\ \A i \in 1 .. Len(buffers) : buffers'[i] = buffers[i]
          /\ buffers'[Len(buffers) + 1].time = now + 1
      BY <1>3, <2>3, RestartIs
    <3>2. \A i \in 1 .. Len(buffers') : i \in 1 .. Len(buffers) \/ i = Len(buffers) + 1
      BY <1>0, <3>1
    <3> QED
      BY <1>1, <2>1, <3>1, <3>2
  <2> QED
    BY <2>2, <2>3
<1>4. CASE Gc!Collect
  <2>1. \A p \in pauses : p[2] # 0 => p \in pauses'
    BY <1>4, CollectIs
  <2>2. CASE buffers' = buffers
    BY <1>1, <2>1, <2>2
  <2>3. CASE buffers' # buffers
    <3>1. /\ Len(buffers') = Len(buffers) + 2 /\ \A i \in 1 .. Len(buffers) : buffers'[i] = buffers[i]
          /\ buffers'[Len(buffers) + 1].time = now + 1 /\ buffers'[Len(buffers) + 2].time = now + 1
      BY <1>4, <2>3, CollectIs
    <3>2. \A i \in 1 .. Len(buffers') : i \in 1 .. Len(buffers) \/ i = Len(buffers) + 1 \/ i = Len(buffers) + 2
      BY <1>0, <3>1
    <3> QED
      BY <1>1, <2>1, <3>1, <3>2
  <2> QED
    BY <2>2, <2>3
<1> QED
  BY <1>2, <1>3, <1>4

LEMMA SumsLogged ==
  ASSUME GcTypes, GcTypes', GcSums, Gc!Suspend \/ Gc!Collect \/ Gc!Restart PROVE GcSums'
<1>1. /\ now' = now + 1 /\ Stats' = Stats
      /\ \A i \in 1 .. Len(buffers') :
           (i \in 1 .. Len(buffers) /\ buffers'[i] = buffers[i]) \/ buffers'[i].time = now'
      /\ \A p \in pauses : p[2] # 0 => p \in pauses'
  BY LoggedLater
<1>2. /\ pauses' \in SUBSET (Nat \X Nat) /\ now' \in Nat /\ \A p \in pauses' : p[2] # 0 => p[2] <= now'
  BY DEF GcTypes
<1>3. /\ pauses \in SUBSET (Nat \X Nat) /\ Stats.TotalPause \in Nat
      /\ Cardinality(Ticks(pauses)) \in Nat /\ \A t : Cardinality(TicksTo(pauses, t)) \in Nat
  BY GcPauses
<1>4. /\ Cardinality(Ticks(pauses')) \in Nat /\ \A t : Cardinality(TicksTo(pauses', t)) \in Nat
      /\ TicksTo(pauses', now') = Ticks(pauses')
  BY <1>2, TicksAreFinite
<1>5. /\ Cardinality(Ticks(pauses)) <= Cardinality(Ticks(pauses'))
      /\ \A t : Cardinality(TicksTo(pauses, t)) <= Cardinality(TicksTo(pauses', t))
  BY <1>1, <1>2, <1>3, TicksGrow
<1>6. \A m \in Nat : \A t : m <= Cardinality(TicksTo(pauses, t)) => m <= Cardinality(TicksTo(pauses', t))
  BY <1>3, <1>4, <1>5
<1>7. Stats.TotalPause <= Cardinality(Ticks(pauses'))
  <2>1. Stats.TotalPause <= Cardinality(Ticks(pauses))
    BY DEF GcSums
  <2> QED
    BY <1>3, <1>4, <1>5, <2>1
<1>8. Stats.SuspendStart # 0 => Stats.TotalPause <= Cardinality(TicksTo(pauses', Stats.SuspendStart))
  BY <1>3, <1>6 DEF GcSums
<1>9. \A i \in 1 .. Len(buffers') : buffers'[i].kind = "suspend" =>
        Stats.TotalPause <= Cardinality(TicksTo(pauses', buffers'[i].time))
  <2> SUFFICES ASSUME NEW i \in 1 .. Len(buffers'), buffers'[i].kind = "suspend"
               PROVE  Stats.TotalPause <= Cardinality(TicksTo(pauses', buffers'[i].time))
    OBVIOUS
  <2>1. CASE i \in 1 .. Len(buffers) /\ buffers'[i] = buffers[i]
    BY <1>3, <1>6, <2>1 DEF GcSums
  <2>2. CASE buffers'[i].time = now'
    BY <1>4, <1>7, <2>2
  <2> QED
    BY <1>1, <2>1, <2>2
<1>10. \A l \in {Stats.LastPause, Stats.MaxPause} : l = 0 \/ \E p \in pauses' : p[2] # 0 /\ l = p[2] - p[1]
  BY <1>1 DEF GcSums
<1> QED
  BY <1>1, <1>7, <1>8, <1>9, <1>10 DEF GcSums

LEMMA GcSumsStep == GcThread /\ GcTypes /\ GcEdges /\ GcSums /\ [Gc!Next]_Gc!gcVars => GcSums'
<1> SUFFICES ASSUME GcThread, GcTypes, GcEdges, GcSums, [Gc!Next]_Gc!gcVars PROVE GcSums'
  OBVIOUS
<1>1. CASE GcQuiet
  BY <1>1 DEF GcQuiet, GcSums
<1>2. CASE GcFresh
  <2>1. /\ Stats'.SuspendStart = 0 /\ Stats'.TotalPause = 0 /\ Stats'.LastPause = 0 /\ Stats'.MaxPause = 0
        /\ Len(buffers') = 0 /\ pauses' = pauses
    BY <1>2 DEF GcFresh, Gc!NoStats
  <2>2. 0 <= Cardinality(Ticks(pauses))
    BY GcPauses
  <2> QED
    BY <2>1, <2>2 DEF GcSums
<1>3. CASE GcDropped
  <2>1. Len(buffers') = 0
    BY <1>3 DEF GcDropped
  <2> QED
    BY <1>3, <2>1 DEF GcDropped, GcSums
<1>4. GcTypes'
  BY GcTypesStep
<1> QED
  BY <1>1, <1>2, <1>3, <1>4, GcSteps, SumsTaken, SumsLogged

Before(S, t) == {c \in S : c < t}
LEMMA BeforeIsCounted ==
  ASSUME NEW n \in Nat, NEW S \in SUBSET (1 .. n)
  PROVE  /\ IsFiniteSet(S) /\ Cardinality(S) \in Nat
         /\ \A t : IsFiniteSet(Before(S, t)) /\ Cardinality(Before(S, t)) \in Nat
         /\ \A t \in S : Cardinality(Before(S, t)) + 1 <= Cardinality(S)
         /\ \A t \in S, u \in Nat : t < u => Cardinality(Before(S, t)) + 1 <= Cardinality(Before(S, u))
<1>1. IsFiniteSet(S)
  <2>1. IsFiniteSet(1 .. n) /\ S \subseteq 1 .. n
    BY FS_Interval
  <2> QED
    BY <2>1, FS_Subset
<1>2. \A t : IsFiniteSet(Before(S, t))
  BY <1>1, FS_Subset DEF Before
<1>3. \A t \in S : Cardinality(Before(S, t) \cup {t}) = Cardinality(Before(S, t)) + 1
  <2> SUFFICES ASSUME NEW t \in S PROVE Cardinality(Before(S, t) \cup {t}) = Cardinality(Before(S, t)) + 1
    OBVIOUS
  <2>1. t \notin Before(S, t)
    BY DEF Before
  <2> QED
    BY <1>2, <2>1, FS_AddElement
<1>4. \A t \in S : Before(S, t) \cup {t} \subseteq S
  BY DEF Before
<1>5. \A t \in S, u \in Nat : t < u => Before(S, t) \cup {t} \subseteq Before(S, u)
  <2> SUFFICES ASSUME NEW t \in S, NEW u \in Nat, t < u, NEW c \in Before(S, t) \cup {t} PROVE c \in S /\ c < u
    BY DEF Before
  <2>1. c \in S /\ c <= t /\ t \in Nat /\ c \in Nat
    BY DEF Before
  <2> QED
    BY <2>1
<1>6. \A t \in S : Cardinality(Before(S, t) \cup {t}) <= Cardinality(S)
  BY <1>1, <1>4, FS_Subset
<1>7. \A t \in S, u \in Nat : t < u => Cardinality(Before(S, t) \cup {t}) <= Cardinality(Before(S, u))
  BY <1>2, <1>5, FS_Subset
<1> QED
  BY <1>1, <1>2, <1>3, <1>6, <1>7, FS_CardinalityType

LEMMA CollectionsTaken ==
  ASSUME GcTypes, GcCollections, Gc!OnGcEvent PROVE GcCollections'
<1> DEFINE n == Len(buffers)
<1>0. /\ n \in Nat \ {0} /\ Len(buffers') = n - 1 /\ \A i \in 1 .. n - 1 : buffers'[i] = buffers[i + 1]
      /\ 1 \in 1 .. n /\ collections' = collections
  BY TakenIs
<1>1. PICK k, t : k = buffers[1].kind /\ t = buffers[1].time
  OBVIOUS
<1>2. Stats \in GcStats /\ k \in GcKinds /\ t \in Nat \ {0}
  BY <1>1, StatsAre
<1>3. /\ k = "suspend" => Stats' = [Stats EXCEPT !.SuspendStart = t]
      /\ k = "restart" => Stats' = Stats \/
           (Stats'.Collections = Stats.Collections /\ Stats'.HasHeap = Stats.HasHeap /\ Stats'.HeapSize = Stats.HeapSize)
      /\ k = "gc" => Stats' = [Stats EXCEPT !.Collections = @ + 1]
      /\ k = "heap" => Stats' = [Stats EXCEPT !.HasHeap = TRUE, !.HeapSize = t]
  BY <1>1, StatsAre
<1>4. \A i \in 1 .. Len(buffers') : i + 1 \in 1 .. n /\ 1 < i + 1 /\ buffers'[i] = buffers[i + 1]
  BY <1>0
<1>5. Stats.Collections \in Nat
  BY <1>2 DEF GcStats
<1>6. /\ Stats.Collections <= Cardinality(collections)
      /\ \A i \in 1 .. n : buffers[i].kind = "gc" =>
           buffers[i].time \in collections /\ Stats.Collections <= Cardinality(Before(collections, buffers[i].time))
      /\ \A i \in 1 .. n : buffers[i].kind = "heap" => buffers[i].time \in collections
      /\ Stats.HasHeap => Stats.HeapSize \in collections
  BY DEF GcCollections, Before
<1>7. ASSUME Stats'.Collections <= Cardinality(collections),
             \A i \in 1 .. Len(buffers') : buffers'[i].kind = "gc" =>
               Stats'.Collections <= Cardinality(Before(collections, buffers'[i].time)),
             Stats'.HasHeap => Stats'.HeapSize \in collections
      PROVE  GcCollections'
  <2>1. \A i \in 1 .. Len(buffers') : buffers'[i].kind \in {"gc", "heap"} => buffers'[i].time \in collections
    BY <1>4, <1>6
  <2> QED
    BY <1>0, <1>7, <2>1 DEF GcCollections, Before
<1>8. CASE k = "gc"
  <2>1. Stats'.Collections = Stats.Collections + 1 /\ Stats'.HasHeap = Stats.HasHeap /\ Stats'.HeapSize = Stats.HeapSize
    BY <1>2, <1>3, <1>8 DEF GcStats
  <2>2. t \in collections /\ Stats.Collections <= Cardinality(Before(collections, t))
    BY <1>0, <1>1, <1>6, <1>8
  <2>3. now \in Nat /\ collections \in SUBSET (1 .. now)
    BY DEF GcTypes
  <2>4. /\ Cardinality(collections) \in Nat /\ \A x : Cardinality(Before(collections, x)) \in Nat
        /\ Cardinality(Before(collections, t)) + 1 <= Cardinality(collections)
        /\ \A u \in Nat : t < u => Cardinality(Before(collections, t)) + 1 <= Cardinality(Before(collections, u))
    BY <2>2, <2>3, BeforeIsCounted
  <2>5. Stats'.Collections <= Cardinality(collections)
    BY <1>5, <2>1, <2>2, <2>4
  <2>6. ASSUME NEW i \in 1 .. Len(buffers'), buffers'[i].kind = "gc"
        PROVE  Stats'.Collections <= Cardinality(Before(collections, buffers'[i].time))
    <3>1. t < buffers[i + 1].time
      BY <1>0, <1>1, <1>4, <1>8, <2>6 DEF GcTypes
    <3>2. buffers[i + 1].time \in Nat
      BY <1>4, GcPlain
    <3>3. PICK u \in Nat : u = buffers[i + 1].time
      BY <3>2
    <3>4. Stats.Collections + 1 <= Cardinality(Before(collections, u))
      BY <1>5, <2>2, <2>4, <3>1, <3>3
    <3> QED
      BY <1>4, <2>1, <3>3, <3>4
  <2> QED
    BY <1>6, <1>7, <2>1, <2>5, <2>6
<1>9. CASE k # "gc"
  <2>1. Stats'.Collections = Stats.Collections
    BY <1>2, <1>3, <1>9 DEF GcKinds, GcStats
  <2>2. Stats'.HasHeap => Stats'.HeapSize \in collections
    <3>1. CASE k = "heap"
      <4>1. t \in collections
        BY <1>0, <1>1, <1>6, <3>1
      <4> QED
        BY <1>2, <1>3, <3>1, <4>1 DEF GcStats
    <3>2. CASE k # "heap"
      <4>1. Stats'.HasHeap = Stats.HasHeap /\ Stats'.HeapSize = Stats.HeapSize
        BY <1>2, <1>3, <1>9, <3>2 DEF GcKinds, GcStats
      <4> QED
        BY <1>6, <4>1
    <3> QED
      BY <3>1, <3>2
  <2> QED
    BY <1>4, <1>6, <1>7, <2>1, <2>2
<1> QED
  BY <1>8, <1>9

LEMMA CollectionsLogged ==
  ASSUME GcTypes, GcCollections, Gc!Suspend \/ Gc!Collect \/ Gc!Restart PROVE GcCollections'
<1> DEFINE n == Len(buffers)
<1>0. /\ n \in Nat /\ now \in Nat /\ \A i \in 1 .. n : buffers[i].time \in Nat
      /\ collections \in SUBSET (1 .. now)
  <2>1. collections \in SUBSET (1 .. now)
    BY DEF GcTypes
  <2> QED
    BY <2>1, GcPlain
<1>1. CASE Gc!Suspend \/ Gc!Restart
  <2>1. Stats' = Stats /\ collections' = collections
    BY <1>1, SuspendIs, RestartIs
  <2>2. \A i \in 1 .. Len(buffers') :
          (i \in 1 .. n /\ buffers'[i] = buffers[i]) \/ buffers'[i].kind \in {"suspend", "restart"}
    <3>1. CASE buffers' = buffers
      BY <3>1
    <3>2. CASE buffers' # buffers
      <4>1. /\ Len(buffers') = n + 1 /\ \A i \in 1 .. n : buffers'[i] = buffers[i]
            /\ buffers'[n + 1].kind \in {"suspend", "restart"}
        BY <1>1, <3>2, SuspendIs, RestartIs
      <4>2. \A i \in 1 .. Len(buffers') : i \in 1 .. n \/ i = n + 1
        BY <1>0, <4>1
      <4> QED
        BY <4>1, <4>2
    <3> QED
      BY <3>1, <3>2
  <2> HIDE DEF n
  <2>3. \A i \in 1 .. Len(buffers') : buffers'[i].kind \in {"gc", "heap"} => i \in 1 .. n /\ buffers'[i] = buffers[i]
    BY <2>2
  <2> QED
    BY <2>1, <2>3 DEF GcCollections, n
<1>2. CASE Gc!Collect
  <2>1. Stats' = Stats /\ collections' = collections \cup {now + 1}
    BY <1>2, CollectIs
  <2>2. \A i \in 1 .. Len(buffers') :
          (i \in 1 .. n /\ buffers'[i] = buffers[i]) \/ buffers'[i].time = now + 1
    BY <1>2, LoggedLater
  <2>3. /\ IsFiniteSet(collections) /\ Cardinality(collections) \in Nat /\ Cardinality(collections') = Cardinality(collections) + 1
    <3>1. IsFiniteSet(collections)
      BY <1>0, BeforeIsCounted
    <3>2. now + 1 \notin collections
      BY <1>0
    <3> QED
      BY <2>1, <3>1, <3>2, FS_AddElement, FS_CardinalityType
  <2>4. Stats.Collections \in Nat /\ Stats.Collections <= Cardinality(collections)
    <3>1. Stats \in GcStats
      BY GcPauses
    <3> QED
      BY <3>1 DEF GcStats, GcCollections
  <2>5. Before(collections', now + 1) = collections
    BY <1>0, <2>1 DEF Before
  <2>6. \A t \in collections : Before(collections', t) = Before(collections, t)
    BY <1>0, <2>1 DEF Before
  <2>7. ASSUME NEW i \in 1 .. Len(buffers')
        PROVE  /\ buffers'[i].kind \in {"gc", "heap"} => buffers'[i].time \in collections'
               /\ buffers'[i].kind = "gc" => Stats.Collections <= Cardinality(Before(collections', buffers'[i].time))
    <3>1. CASE i \in 1 .. n /\ buffers'[i] = buffers[i]
      <4>1. /\ buffers[i].kind \in {"gc", "heap"} => buffers[i].time \in collections
            /\ buffers[i].kind = "gc" => Stats.Collections <= Cardinality(Before(collections, buffers[i].time))
        BY <3>1 DEF GcCollections, Before
      <4> QED
        BY <2>1, <2>6, <3>1, <4>1
    <3>2. CASE buffers'[i].time = now + 1
      BY <2>1, <2>4, <2>5, <3>2
    <3> QED
      BY <2>2, <3>1, <3>2
  <2>8. Stats.Collections <= Cardinality(collections')
    BY <2>3, <2>4
  <2>9. Stats.HasHeap => Stats.HeapSize \in collections'
    BY <2>1 DEF GcCollections
  <2> QED
    BY <2>1, <2>7, <2>8, <2>9 DEF GcCollections, Before
<1> QED
  BY <1>1, <1>2

LEMMA GcCollectionsStep == GcThread /\ GcTypes /\ GcCollections /\ [Gc!Next]_Gc!gcVars => GcCollections'
<1> SUFFICES ASSUME GcThread, GcTypes, GcCollections, [Gc!Next]_Gc!gcVars PROVE GcCollections'
  OBVIOUS
<1>1. CASE GcQuiet
  BY <1>1 DEF GcQuiet, GcCollections
<1>2. CASE GcFresh
  <2>1. Stats'.Collections = 0 /\ Stats'.HasHeap = FALSE /\ Len(buffers') = 0 /\ collections' = collections
    BY <1>2 DEF GcFresh, Gc!NoStats
  <2>2. now \in Nat /\ collections \in SUBSET (1 .. now)
    BY DEF GcTypes
  <2>3. Cardinality(collections) \in Nat
    BY <2>2, BeforeIsCounted
  <2> QED
    BY <2>1, <2>3 DEF GcCollections
<1>3. CASE GcDropped
  <2>1. Len(buffers') = 0
    BY <1>3 DEF GcDropped
  <2> QED
    BY <1>3, <2>1 DEF GcDropped, GcCollections
<1> QED
  BY <1>1, <1>2, <1>3, GcSteps, CollectionsTaken, CollectionsLogged

LEMMA GcInit == Gc!Init => GcInv
<1> SUFFICES ASSUME Gc!Init PROVE GcInv
  OBVIOUS
<1>1. GcThread
  BY GcThreadInit
<1>2. /\ buffers = <<>> /\ Len(buffers) = 0 /\ Stats \in GcStats /\ Stats.SuspendStart = 0 /\ Stats.TotalPause = 0
      /\ Stats.LastPause = 0 /\ Stats.MaxPause = 0 /\ Stats.Collections = 0 /\ ~Stats.HasHeap
      /\ pauses = {} /\ collections = {} /\ now = 0 /\ lost = 0 /\ runtime = "runs" /\ session = "none"
  BY DEF Gc!Init, Gc!NoStats, GcStats
<1>3. GcTypes
  BY <1>2 DEF GcTypes, GcStats
<1>4. GcEdges
  BY <1>2 DEF GcEdges
<1>5. Cardinality(Ticks(pauses)) \in Nat
  BY <1>3, GcPauses
<1>6. GcSums
  BY <1>2, <1>5 DEF GcSums
<1>7. GcCollections
  BY <1>2, FS_EmptySet DEF GcCollections
<1> QED
  BY <1>1, <1>3, <1>4, <1>6, <1>7 DEF GcInv

LEMMA GcStep == GcInv /\ [Gc!Next]_Gc!gcVars => GcInv'
BY GcThreadStep, GcTypesStep, GcEdgesStep, GcSumsStep, GcCollectionsStep DEF GcInv

LEMMA GcConcludes == GcInv => Gc!PausesAreTrue
<1> SUFFICES ASSUME GcInv PROVE Gc!PausesAreTrue
  OBVIOUS
<1>1. Gc!Paused = Ticks(pauses)
  BY DEF Gc!Paused, Gc!Ended, Ticks
<1>2. Stats.TotalPause <= Cardinality(Gc!Paused) /\ Stats.Collections <= Cardinality(collections)
  BY <1>1 DEF GcInv, GcSums, GcCollections
<1>3. {Stats.LastPause, Stats.MaxPause} \subseteq {p[2] - p[1] : p \in Gc!Ended} \cup {0}
  BY DEF GcInv, GcSums, Gc!Ended
<1> QED
  BY <1>2, <1>3, GcInstance DEF GcInv, GcSums, GcCollections, Gc!PausesAreTrue

-----------------------------------------------------------------------------
(* The runtime that is asked what it is.                                     *)

\* A transfer is of an open pipe; what has been sent was answered; an answer is to
\* the command it was asked for, and the older command only asked when it did not
\* know the newer one.
DiagnosticsInv ==
    /\ client \in {"rest", "open", "write", "header", "payload", "end"}
    /\ pending \in BOOLEAN
    /\ done \in Nat /\ sent \in Nat
    /\ elapsed \in 0 .. Timeout
    /\ pending => client \in {"write", "header", "payload"} /\ done < Diagnostics!Size
    /\ pipe = "closed" <=> client \notin {"write", "header", "payload"}
    /\ runtime \in {"ProcessInfo", "ProcessInfo2"} /\ command \in {"ProcessInfo", "ProcessInfo2"}
    /\ answer \in {"none", "info", "unknown", "garbage"}
    /\ client \notin {"rest", "end"} /\ command = "ProcessInfo" => runtime = "ProcessInfo"
    /\ client \in {"write", "header", "payload"} =>
         /\ sent > 0 => answer # "none"
         /\ answer = "unknown" => runtime = "ProcessInfo" /\ command = "ProcessInfo2"
         /\ answer = "info" => runtime = command
    /\ client = "header" /\ done > 0 => answer # "none"
    /\ client = "payload" => answer \in {"info", "unknown"}
    /\ result \in {"none", "timeout", "failed", runtime}

LEMMA DiagnosticsInit == Diagnostics!Init => DiagnosticsInv
<1>1. 0 \in 0 .. Timeout
  <2>1. Timeout \in Nat
    BY MonitorAssumption
  <2> QED
    BY <2>1
<1>2. ASSUME Diagnostics!Init
      PROVE  /\ client = "rest" /\ pending = FALSE /\ done = 0 /\ sent = 0 /\ elapsed = 0 /\ answer = "none"
             /\ command = "ProcessInfo2" /\ runtime \in {"ProcessInfo", "ProcessInfo2"} /\ pipe = "closed"
             /\ result = "none"
  BY <1>2 DEF Diagnostics!Init, Diagnostics!Knows1, Diagnostics!Knows2
<1> QED
  BY <1>1, <1>2 DEF DiagnosticsInv

LEMMA DiagnosticsStep == DiagnosticsInv /\ [Diagnostics!Next]_Diagnostics!diagnosticsVars => DiagnosticsInv'
<1> SUFFICES ASSUME DiagnosticsInv, [Diagnostics!Next]_Diagnostics!diagnosticsVars PROVE DiagnosticsInv'
  OBVIOUS
<1> USE DEF DiagnosticsInv, Diagnostics!Size, Diagnostics!clientVars, Diagnostics!pipeVars, Diagnostics!Knows1, Diagnostics!Knows2
<1>0. /\ Timeout \in Nat /\ HeaderSize \in Nat \ {0} /\ PayloadSize \in Nat
      /\ Diagnostics!Size \in Nat
  BY MonitorAssumption DEF Diagnostics!Size
<1>a. ASSUME NEW why \in {"failed", "timeout"}, Diagnostics!Fail(why) PROVE DiagnosticsInv'
  BY <1>a DEF Diagnostics!Fail
<1>1. CASE Diagnostics!QueryCoreProcessInfo
  <2>1. 0 \in 0 .. Timeout
    BY <1>0
  <2>2. /\ client = "rest" /\ client' \in {"open", "end"} /\ command' = "ProcessInfo2" /\ elapsed' = 0
        /\ result' \in {result, "failed"}
        /\ UNCHANGED <<done, pending, pipe, runtime, answer, sent>>
    BY <1>1 DEF Diagnostics!QueryCoreProcessInfo
  <2>3. pending = FALSE /\ pipe = "closed"
    BY <2>2
  <2> QED
    BY <2>1, <2>2, <2>3
<1>2. CASE Diagnostics!Open
  <2>1. CASE /\ pipe' = "open" /\ client' = "write" /\ done' = 0
             /\ written' = 0 /\ answer' = "none" /\ sent' = 0
             /\ UNCHANGED <<command, pending, elapsed, result, runtime>>
    BY <1>2, <2>1 DEF Diagnostics!Open
  <2> QED
    BY <1>2, <1>a, <2>1 DEF Diagnostics!Open
<1>3. CASE Diagnostics!Begin
  <2>1. CASE pending' = TRUE /\ UNCHANGED <<client, command, done, elapsed, unknown, result, Diagnostics!pipeVars>>
    BY <1>3, <2>1 DEF Diagnostics!Begin, Diagnostics!InTransfer
  <2> QED
    BY <1>3, <1>a, <2>1 DEF Diagnostics!Begin
<1>4. CASE Diagnostics!Transferred
  <2>1. PICK n \in 1 .. Diagnostics!Size - done :
          /\ done' = done + n
          /\ \/ client = "write" /\ UNCHANGED sent
             \/ client # "write" /\ n <= sent /\ sent' = sent - n
    BY <1>4 DEF Diagnostics!Transferred
  <2>2. /\ pending /\ pending' = FALSE
        /\ UNCHANGED <<client, command, elapsed, result, pipe, runtime, answer>>
    BY <1>4 DEF Diagnostics!Transferred
  <2>3. n \in Nat \ {0}
    BY <1>0, <2>1
  <2>4. done' \in Nat /\ sent' \in Nat /\ (sent' > 0 => sent > 0) /\ (client # "write" => sent > 0)
    BY <2>1, <2>3
  <2> QED
    BY <2>2, <2>4
<1>5. CASE Diagnostics!BrokenOff \/ Diagnostics!TimesOut
  BY <1>5, <1>a DEF Diagnostics!BrokenOff, Diagnostics!TimesOut
<1>6. CASE Diagnostics!Tick
  <2>1. elapsed' \in 0 .. Timeout
    BY <1>0, <1>6 DEF Diagnostics!Tick
  <2> QED
    BY <1>6, <2>1 DEF Diagnostics!Tick
<1>7. CASE Diagnostics!Sent
  BY <1>7 DEF Diagnostics!Sent
<1>8. CASE Diagnostics!HeaderRead
  <2>1. CASE answer = "garbage"
    BY <1>8, <1>a, <2>1 DEF Diagnostics!HeaderRead
  <2>2. CASE answer # "garbage"
    <3>1. /\ client = "header" /\ done = HeaderSize /\ client' = "payload" /\ done' = 0
          /\ UNCHANGED <<command, pending, elapsed, result, Diagnostics!pipeVars>>
      BY <1>8, <2>2 DEF Diagnostics!HeaderRead
    <3>2. answer # "none"
      BY <1>0, <3>1
    <3> QED
      BY <2>2, <3>1, <3>2
  <2> QED
    BY <2>1, <2>2
<1>9. CASE Diagnostics!PayloadRead
  <2>1. /\ client = "payload" /\ pipe' = "closed" /\ answer \in {"info", "unknown"}
        /\ UNCHANGED <<done, pending, elapsed, runtime, answer, sent>>
    BY <1>9 DEF Diagnostics!PayloadRead
  <2>2. ~pending
    BY <1>0, <1>9 DEF Diagnostics!PayloadRead, Diagnostics!Size
  <2>3. CASE answer = "info"
    <3>1. (CASE answer = "info" -> client' = "end" /\ result' = command /\ UNCHANGED command
             [] answer # "info" /\ command = Diagnostics!Knows2 -> client' = "open" /\ command' = Diagnostics!Knows1 /\ UNCHANGED result
             [] OTHER -> client' = "end" /\ result' = "failed" /\ UNCHANGED command)
      BY <1>9 DEF Diagnostics!PayloadRead
    <3>2. client' = "end" /\ result' = command /\ UNCHANGED command
      BY <3>1, <2>3
    <3> QED
      BY <2>1, <2>2, <2>3, <3>2
  <2>4. CASE answer = "unknown"
    <3>1. client' = "open" /\ command' = "ProcessInfo" /\ UNCHANGED result
      BY <1>9, <2>1, <2>4 DEF Diagnostics!PayloadRead
    <3> QED
      BY <2>1, <2>2, <2>4, <3>1
  <2> QED
    BY <2>1, <2>3, <2>4
<1>10. CASE Diagnostics!Return
  BY <1>10 DEF Diagnostics!Return
<1>11. CASE Diagnostics!Answer
  BY <1>11 DEF Diagnostics!Answer
<1>12. CASE Diagnostics!Send
  <2>1. pipe = "open" /\ answer # "none" /\ sent' = sent + 1 /\ UNCHANGED <<Diagnostics!clientVars, pipe, runtime, answer>>
    BY <1>12 DEF Diagnostics!Send
  <2> QED
    BY <2>1
<1>13. CASE Diagnostics!Break
  BY <1>13 DEF Diagnostics!Break
<1>14. CASE UNCHANGED Diagnostics!diagnosticsVars
  BY <1>14 DEF Diagnostics!diagnosticsVars
<1> QED
  BY <1>1, <1>2, <1>3, <1>4, <1>5, <1>6, <1>7, <1>8, <1>9, <1>10, <1>11, <1>12, <1>13, <1>14
  DEF Diagnostics!Next, Diagnostics!Client

LEMMA DiagnosticsKept ==
    DiagnosticsInv => Diagnostics!TypeOK /\ Diagnostics!InfoIsRuntimes /\ (Diagnostics!InCall \/ ~pending)
<1> SUFFICES ASSUME DiagnosticsInv PROVE Diagnostics!TypeOK /\ Diagnostics!InfoIsRuntimes /\ (Diagnostics!InCall \/ ~pending)
  OBVIOUS
<1>1. Timeout \in Nat
  BY MonitorAssumption
<1>2. elapsed <= Timeout
  BY <1>1 DEF DiagnosticsInv
<1>3. /\ pending => client \in {"write", "header", "payload"}
      /\ pipe = "closed" => client \notin {"write", "header", "payload"}
  BY DEF DiagnosticsInv
<1>4. Diagnostics!TypeOK
  BY <1>2, <1>3 DEF Diagnostics!TypeOK, Diagnostics!InTransfer
<1>5. result \in {"ProcessInfo", "ProcessInfo2"} => result = runtime
  BY DEF DiagnosticsInv
<1> QED
  BY <1>3, <1>4, <1>5 DEF Diagnostics!InfoIsRuntimes, Diagnostics!InCall, Diagnostics!Knows1, Diagnostics!Knows2

-----------------------------------------------------------------------------
(* A handle of another process.                                              *)

\* The details of a file's or a process's are complete but for what is still asked;
\* only the call that is in progress has threads with its number, and they ask about
\* the object it has.
HandleDetails(counts, own, asked) ==
    details = [kind |-> "details", counts |-> counts, own |-> own, queried |-> asked]
WholeDetails ==
    details.kind = "details" =>
        /\ Types[details.counts] = type
        /\ details.own # 0 => Types[details.own] = type
        /\ type # "Process" => details.own \in {0, details.counts}
        /\ details.queried \in {0, FileQueries}
HandlesInv ==
    /\ type \in {"File", "Process", "Event"}
    /\ slot \in DOMAIN Types \cup {0} /\ h \in DOMAIN Types \cup {0}
    /\ at \in {"rest", "query", "again", "file", "close", "end"}
    /\ at \in {"query", "again", "file", "close"} => h # 0
    /\ calls \in Nat
    /\ IsFiniteSet(workers) /\ Cardinality(workers) <= calls
    /\ \A w \in workers :
         /\ w = [call |-> w.call, object |-> w.object, done |-> w.done]
         /\ w.call \in Nat /\ w.call <= calls
         /\ at = "file" /\ w.call = calls => w.object = h
    /\ at = "again" =>
         /\ type = "Process"
         /\ \E o \in DOMAIN Types : Types[o] = type /\ HandleDetails(o, 0, 0)
    /\ at = "file" =>
         /\ type = "File" /\ Types[h] = type
         /\ HandleDetails(h, 0, 0)
    /\ at = "end" => WholeDetails

LEMMA HandlesInit == Reused!Init => HandlesInv
<1> SUFFICES ASSUME Reused!Init PROVE HandlesInv
  OBVIOUS
<1>1. Types \in Seq({"File", "Process", "Event"})
  BY MonitorAssumption
<1>2. slot \in DOMAIN Types /\ type = Types[slot] /\ h = 0 /\ at = "rest" /\ calls = 0 /\ workers = {}
  BY DEF Reused!Init, Reused!Objects, Reused!NoObject
<1>3. \A o \in DOMAIN Types : Types[o] \in {"File", "Process", "Event"}
  BY <1>1
<1>4. IsFiniteSet({}) /\ Cardinality({}) = 0
  BY FS_EmptySet
<1> QED
  BY <1>2, <1>3, <1>4 DEF HandlesInv

LEMMA HandlesStep == HandlesInv /\ [Reused!Next]_Reused!handleVars => HandlesInv'
<1> SUFFICES ASSUME HandlesInv, [Reused!Next]_Reused!handleVars PROVE HandlesInv'
  OBVIOUS
<1> USE DEF HandlesInv, Reused!callVars, Reused!NoObject, Reused!Objects
<1>0. /\ FileQueries \in Nat /\ 0 \notin DOMAIN Types
      /\ \A o \in DOMAIN Types : Types[o] \in {"File", "Process", "Event"}
  <2>1. Types \in Seq({"File", "Process", "Event"})
    BY MonitorAssumption
  <2>2. \A o \in DOMAIN Types : Types[o] \in {"File", "Process", "Event"} /\ o # 0
    BY <2>1
  <2> QED
    BY <2>2, MonitorAssumption
<1>a. UNCHANGED <<details, type>> => UNCHANGED WholeDetails
  BY DEF WholeDetails
<1>b. ASSUME NEW d, d.kind # "details", details' = d PROVE WholeDetails'
  BY <1>b DEF WholeDetails
<1>c. ASSUME UNCHANGED <<calls, workers>>
      PROVE  /\ calls' \in Nat /\ IsFiniteSet(workers') /\ Cardinality(workers') <= calls'
             /\ \A w \in workers' :
                  /\ w = [call |-> w.call, object |-> w.object, done |-> w.done]
                  /\ w.call \in Nat /\ w.call <= calls'
  BY <1>c
<1>1. CASE Reused!Call
  <2> DEFINE new == [call |-> calls', object |-> slot, done |-> 0]
  <2>1. /\ at = "rest" /\ calls' = calls + 1 /\ type' = type /\ h' = slot /\ slot' = slot
        /\ workers' = IF at' = "file" THEN workers \cup {new} ELSE workers
    BY <1>1 DEF Reused!Call
  <2>0. ASSUME at' # "file"
        PROVE  /\ calls' \in Nat /\ IsFiniteSet(workers') /\ Cardinality(workers') <= calls'
               /\ \A w \in workers' :
                    /\ w = [call |-> w.call, object |-> w.object, done |-> w.done]
                    /\ w.call \in Nat /\ w.call <= calls'
    <3>1. calls' = calls + 1 /\ workers' = workers
      BY <2>0, <2>1
    <3>2. Cardinality(workers) \in Nat
      BY FS_CardinalityType
    <3> QED
      BY <3>1, <3>2
  <2>2. CASE Reused!Result(Reused!Failed)
    <3>1. at' = "end" /\ details'.kind # "details"
      BY <2>2 DEF Reused!Result, Reused!Failed
    <3>2. WholeDetails'
      BY <3>1 DEF WholeDetails
    <3> QED
      BY <2>0, <2>1, <3>1, <3>2
  <2>3. CASE slot # 0
    <3>1. CASE op' = "name" /\ at' = "query" /\ details' = Reused!NoDetails
      BY <2>0, <2>1, <2>3, <3>1
    <3>2. CASE op' = "close" /\ at' = "close" /\ details' = Reused!NoDetails
      BY <2>0, <2>1, <2>3, <3>2
    <3>3. CASE op' = "open" /\ Reused!Result([kind |-> "open", object |-> slot])
      <4>1. at' = "end" /\ details' = [kind |-> "open", object |-> slot]
        BY <3>3 DEF Reused!Result
      <4>2. WholeDetails'
        BY <4>1 DEF WholeDetails
      <4> QED
        BY <2>0, <2>1, <4>1, <4>2
    <3>4. ASSUME /\ op' = "details" /\ Reused!SameType(slot)
                 /\ at' = CASE type = "Process" -> "again" [] type = "File" -> "file" [] OTHER -> "end"
                 /\ details' = [kind |-> "details", counts |-> slot, own |-> IF type = "Event" THEN slot ELSE 0,
                                queried |-> 0]
          PROVE HandlesInv'
      <4>1. Types[slot] = type /\ slot \in DOMAIN Types
        BY <2>1, <2>3, <3>4 DEF Reused!SameType
      <4>2. CASE type = "Process"
        <5>1. at' = "again" /\ details' = [kind |-> "details", counts |-> slot, own |-> 0, queried |-> 0]
          BY <3>4, <4>2
        <5>2. \E o \in DOMAIN Types : Types[o] = type' /\ HandleDetails(o, 0, 0)'
          BY <2>1, <4>1, <5>1 DEF HandleDetails
        <5>3. /\ at' = "again" /\ type' = "Process" /\ slot' \in DOMAIN Types \cup {0} /\ h' \in DOMAIN Types \cup {0}
              /\ h' # 0
          BY <2>1, <2>3, <4>2, <5>1
        <5>4. \A w \in workers' :
                 /\ w = [call |-> w.call, object |-> w.object, done |-> w.done]
                 /\ w.call \in Nat /\ w.call <= calls'
          BY <2>0, <5>3
        <5>5. calls' \in Nat /\ IsFiniteSet(workers') /\ Cardinality(workers') <= calls'
          BY <2>0, <5>3
        <5> QED
          BY <5>2, <5>3, <5>4, <5>5 DEF HandleDetails
      <4>3. CASE type = "File"
        <5>1. at' = "file" /\ details' = [kind |-> "details", counts |-> slot, own |-> 0, queried |-> 0]
          BY <3>4, <4>3
        <5>2. workers' = workers \cup {new}
          BY <2>1, <5>1
        <5>3. IsFiniteSet(workers') /\ Cardinality(workers') <= Cardinality(workers) + 1
          <6>1. Cardinality(workers) \in Nat
            BY FS_CardinalityType
          <6> HIDE DEF new
          <6>2. /\ IsFiniteSet(workers \cup {new})
                /\ Cardinality(workers \cup {new}) \in {Cardinality(workers), Cardinality(workers) + 1}
            BY FS_AddElement
          <6> QED
            BY <5>2, <6>1, <6>2
        <5>4. Cardinality(workers') <= calls' /\ calls' \in Nat
          <6>1. Cardinality(workers) \in Nat /\ Cardinality(workers') \in Nat
            BY <5>3, FS_CardinalityType
          <6> QED
            BY <2>1, <5>3, <6>1
        <5>5. \A w \in workers : ~(w.call = calls') /\ w.call <= calls'
          BY <2>1
        <5>6. new.call = calls' /\ new.object = h' /\ new = [call |-> new.call, object |-> new.object, done |-> new.done]
          BY <2>1
        <5>7. \A w \in workers' :
                /\ w = [call |-> w.call, object |-> w.object, done |-> w.done]
                /\ w.call \in Nat /\ w.call <= calls'
                /\ at' = "file" /\ w.call = calls' => w.object = h'
          BY <5>2, <5>4, <5>5, <5>6
        <5> HIDE DEF new
        <5> QED
          BY <2>1, <2>3, <4>1, <4>3, <5>1, <5>3, <5>4, <5>7 DEF HandleDetails
      <4>4. CASE type = "Event"
        <5>1. at' = "end" /\ details' = [kind |-> "details", counts |-> slot, own |-> slot, queried |-> 0]
          BY <3>4, <4>4
        <5>2. WholeDetails'
          BY <2>1, <4>1, <5>1 DEF WholeDetails
        <5> QED
          BY <2>0, <2>1, <5>1, <5>2
      <4> QED
        BY <4>2, <4>3, <4>4
    <3>5. ~(slot = 0 \/ (op' # "name" /\ ~Reused!SameType(slot))) =>
            (CASE op' = "name" -> at' = "query" /\ details' = Reused!NoDetails
               [] op' = "details" ->
                   /\ at' = CASE type = "Process" -> "again" [] type = "File" -> "file" [] OTHER -> "end"
                   /\ details' = [kind |-> "details", counts |-> slot, own |-> IF type = "Event" THEN slot ELSE 0, queried |-> 0]
               [] op' = "open" -> Reused!Result([kind |-> "open", object |-> slot])
               [] op' = "close" -> at' = "close" /\ details' = Reused!NoDetails)
      BY <1>1 DEF Reused!Call
    <3>6. op' \in {"name", "details", "open", "close"}
      BY <1>1 DEF Reused!Call
    <3>7. CASE ~(op' # "name" /\ ~Reused!SameType(slot))
      BY <2>3, <3>1, <3>2, <3>3, <3>4, <3>5, <3>6, <3>7
    <3>8. CASE op' # "name" /\ ~Reused!SameType(slot)
      BY <1>1, <2>2, <3>8 DEF Reused!Call
    <3> QED
      BY <3>7, <3>8
  <2>4. CASE slot = 0
    BY <1>1, <2>2, <2>4 DEF Reused!Call
  <2> QED
    BY <2>3, <2>4
<1>2. CASE Reused!NameTimesOut \/ Reused!QueryName
  <2>1. /\ at' = "end" /\ details'.kind # "details" /\ UNCHANGED <<slot, op, type, h, calls, workers>>
    BY <1>2 DEF Reused!NameTimesOut, Reused!QueryName, Reused!Result
  <2>2. WholeDetails'
    BY <2>1 DEF WholeDetails
  <2> QED
    BY <1>c, <2>1, <2>2
<1>3. CASE Reused!DuplicateWith
  <2>1. PICK target \in {h} \cup ({slot} \ {0}) :
            details' = [details EXCEPT !.own = IF Types[target] = "Process" THEN target ELSE 0]
    BY <1>3 DEF Reused!DuplicateWith, Reused!Result
  <2>2. at = "again" /\ at' = "end" /\ UNCHANGED <<slot, op, type, h, calls, workers>>
    BY <1>3 DEF Reused!DuplicateWith, Reused!Result
  <2>3. PICK o \in DOMAIN Types : Types[o] = type /\ HandleDetails(o, 0, 0)
    BY <2>2
  <2>4. details' = [kind |-> "details", counts |-> o, own |-> IF Types[target] = "Process" THEN target ELSE 0,
                    queried |-> 0]
    BY <2>1, <2>3 DEF HandleDetails
  <2>5. WholeDetails'
    BY <2>2, <2>3, <2>4 DEF WholeDetails
  <2> QED
    BY <1>c, <2>2, <2>5
<1>4. ASSUME NEW w \in workers, Reused!FileQuery(w) PROVE HandlesInv'
  <2> DEFINE more == [w EXCEPT !.done = @ + 1]
  <2>1. workers' = (workers \ {w}) \cup {more} /\ UNCHANGED <<slot, at, op, type, h, details, calls>>
    BY <1>4 DEF Reused!FileQuery
  <2>2. more = [call |-> w.call, object |-> w.object, done |-> w.done + 1]
    OBVIOUS
  <2>3. more.call = w.call /\ more.object = w.object /\ more = [call |-> more.call, object |-> more.object, done |-> more.done]
    BY <2>2
  <2> HIDE DEF more
  <2>4. IsFiniteSet(workers \ {w}) /\ Cardinality(workers \ {w}) = Cardinality(workers) - 1
    BY FS_RemoveElement
  <2>5. IsFiniteSet(workers') /\ Cardinality(workers') \in {Cardinality(workers \ {w}), Cardinality(workers \ {w}) + 1}
    BY <2>1, <2>4, FS_AddElement
  <2>6. Cardinality(workers') <= calls
    <3>1. Cardinality(workers) \in Nat
      BY FS_CardinalityType
    <3> QED
      BY <2>4, <2>5, <3>1
  <2>7. \A v \in workers' :
           /\ v = [call |-> v.call, object |-> v.object, done |-> v.done]
           /\ v.call \in Nat /\ v.call <= calls
           /\ at = "file" /\ v.call = calls => v.object = h
    BY <2>1, <2>3
  <2>8. UNCHANGED WholeDetails
    BY <2>1 DEF WholeDetails
  <2> QED
    BY <2>1, <2>5, <2>6, <2>7, <2>8 DEF HandleDetails
<1>5. ASSUME NEW w \in workers, Reused!FileQueryEnds(w) PROVE HandlesInv'
  <2>1. workers' = workers \ {w} /\ UNCHANGED <<slot, at, op, type, h, details, calls>>
    BY <1>5 DEF Reused!FileQueryEnds
  <2>2. IsFiniteSet(workers') /\ Cardinality(workers') = Cardinality(workers) - 1 /\ Cardinality(workers) \in Nat
    BY <2>1, FS_RemoveElement, FS_CardinalityType
  <2>3. UNCHANGED WholeDetails
    BY <2>1 DEF WholeDetails
  <2> QED
    BY <2>1, <2>2, <2>3 DEF HandleDetails
<1>6. CASE Reused!FileDone
  <2>1. PICK w \in workers : w.call = calls /\ details' = Reused!FileResult(w)
    BY <1>6 DEF Reused!FileDone, Reused!Result
  <2>2. at = "file" /\ at' = "end" /\ UNCHANGED <<slot, op, type, h, calls, workers>>
    BY <1>6 DEF Reused!FileDone, Reused!Result
  <2>3. w.object = h /\ HandleDetails(h, 0, 0) /\ type = "File" /\ Types[h] = type
    BY <2>1, <2>2
  <2>4. CASE w.done = FileQueries
    <3>1. details' = [kind |-> "details", counts |-> h, own |-> h, queried |-> FileQueries]
      BY <2>1, <2>3, <2>4 DEF Reused!FileResult, HandleDetails
    <3>2. WholeDetails'
      BY <2>2, <2>3, <3>1 DEF WholeDetails
    <3> QED
      BY <1>c, <2>2, <3>2
  <2>5. CASE w.done # FileQueries
    <3>1. details' = [kind |-> "details", counts |-> h, own |-> 0, queried |-> 0]
      BY <2>1, <2>3, <2>5 DEF Reused!FileResult, HandleDetails
    <3>2. WholeDetails'
      BY <2>2, <2>3, <3>1 DEF WholeDetails
    <3> QED
      BY <1>c, <2>2, <3>2
  <2> QED
    BY <2>4, <2>5
<1>7. CASE Reused!CloseSource
  <2>1. /\ at' = "end" /\ details'.kind # "details" /\ slot' = 0 /\ UNCHANGED <<op, type, h, calls, workers>>
    BY <1>7 DEF Reused!CloseSource, Reused!Result, Reused!Failed
  <2>2. WholeDetails'
    BY <2>1 DEF WholeDetails
  <2> QED
    BY <1>c, <2>1, <2>2
<1>8. CASE Reused!Return
  BY <1>c, <1>8 DEF Reused!Return
<1>9. CASE Reused!Reuse
  <2>1. slot' \in DOMAIN Types \cup {0} /\ UNCHANGED <<at, op, type, h, details, calls, workers>>
    BY <1>9 DEF Reused!Reuse
  <2>2. UNCHANGED WholeDetails
    BY <2>1 DEF WholeDetails
  <2> QED
    BY <2>1, <2>2 DEF HandleDetails
<1>10. CASE Reused!EndIo \/ UNCHANGED Reused!handleVars
  <2>1. UNCHANGED <<slot, at, op, type, h, details, calls, workers>>
    BY <1>10 DEF Reused!EndIo, Reused!handleVars
  <2>2. UNCHANGED WholeDetails
    BY <2>1 DEF WholeDetails
  <2> QED
    BY <2>1, <2>2 DEF HandleDetails
<1> QED
  BY <1>1, <1>2, <1>3, <1>4, <1>5, <1>6, <1>7, <1>8, <1>9, <1>10 DEF Reused!Next, Reused!Caller

LEMMA HandlesKept ==
    HandlesInv =>
        /\ Reused!TypeOK /\ Reused!DetailsAreWhole
        /\ Handle!TypeOK /\ Handle!DetailsAreWhole
<1>1. HandlesInv => Reused!TypeOK
  BY DEF HandlesInv, Reused!TypeOK, Reused!NoObject, Reused!Objects, Reused!Cardinality, Reused!IsFiniteSet,
         Cardinality, IsFiniteSet
<1>2. HandlesInv => Handle!TypeOK
  BY DEF HandlesInv, Handle!TypeOK, Handle!NoObject, Handle!Objects, Handle!Cardinality, Handle!IsFiniteSet,
         Cardinality, IsFiniteSet
<1>3. HandlesInv => Reused!DetailsAreWhole
  BY DEF HandlesInv, WholeDetails, Reused!DetailsAreWhole, Reused!NoObject
<1>4. HandlesInv => Handle!DetailsAreWhole
  BY DEF HandlesInv, WholeDetails, Handle!DetailsAreWhole, Handle!NoObject
<1> QED
  BY <1>1, <1>2, <1>3, <1>4

LEMMA HandleIsReused ==
    /\ Handle!Init => Reused!Init
    /\ Handle!Next => Reused!Next
<1> USE DEF Handle!callVars, Handle!handleVars, Handle!Objects, Handle!NoObject, Handle!NoDetails, Handle!IsFile,
            Handle!Blocked, Handle!Result, Handle!Failed, Handle!SameType, Handle!FileResult,
            Reused!callVars, Reused!handleVars, Reused!Objects, Reused!NoObject, Reused!NoDetails, Reused!IsFile,
            Reused!Blocked, Reused!Result, Reused!Failed, Reused!SameType, Reused!FileResult
<1>1. Handle!Init => Reused!Init
  BY Zenon DEF Handle!Init, Reused!Init
<1>2. Handle!Call => Reused!Call
  BY Zenon DEF Handle!Call, Reused!Call
<1>3. Handle!Caller => Reused!Caller
  BY Zenon DEF Handle!Caller, Handle!NameTimesOut, Handle!QueryName, Handle!DuplicateWith, Handle!FileDone,
         Handle!CloseSource, Handle!Return, Reused!Caller, Reused!NameTimesOut, Reused!QueryName,
         Reused!DuplicateWith, Reused!FileDone, Reused!CloseSource, Reused!Return
<1>4. \A w : Handle!FileQuery(w) \/ Handle!FileQueryEnds(w) => Reused!FileQuery(w) \/ Reused!FileQueryEnds(w)
  BY Zenon DEF Handle!FileQuery, Handle!FileQueryEnds, Reused!FileQuery, Reused!FileQueryEnds
<1>5. Handle!Reuse => Reused!Reuse
  BY DEF Handle!Reuse, Reused!Reuse
<1>6. Handle!EndIo => Reused!EndIo
  BY Zenon DEF Handle!EndIo, Reused!EndIo
<1>7. Handle!Next => Reused!Next
  BY <1>2, <1>3, <1>4, <1>5, <1>6 DEF Handle!Next, Reused!Next
<1> QED
  BY <1>1, <1>7

-----------------------------------------------------------------------------
(* The requests over HTTPS.                                                  *)

\* A body's parts arrive before they are read; a download's file has those that were
\* read; an upload is sent when it was read to its end, and is stored when the answer
\* to its URL says so.
HttpInv ==
    /\ call \in {"rest", "read", "send", "create", "body", "end"}
    /\ op \in {"get", "download", "report", "upload"}
    /\ body \in Nat /\ arrived \in Nat /\ size \in Nat /\ readUp \in Nat
    /\ body <= arrived /\ arrived <= BodyParts /\ readUp <= size /\ file.parts <= BodyParts
    /\ call = "read" => op = "upload"
    /\ call = "create" => op = "download" /\ status = 200 /\ body = 0
    /\ call = "body" /\ op = "download" => file = [exists |-> TRUE, parts |-> body] /\ status = 200
    /\ call \in {"send", "body"} /\ op = "upload" => readUp = size
    /\ call = "body" /\ op = "upload" /\ url /\ status = 200 => stored = readUp
    /\ call \notin {"rest", "end"} => report.status # "Uploaded"
    /\ call = "end" /\ report.status = "Uploaded" => stored = size
    /\ call = "end" /\ op = "download" /\ status = 200 =>
         /\ ok => file = [exists |-> TRUE, parts |-> body] /\ (lengthKnown => body = BodyParts)
         /\ ~ok /\ body > 0 => file = [exists |-> FALSE, parts |-> 0]

LEMMA HttpInit == Request!Init => HttpInv
<1>1. BodyParts \in Nat
  BY MonitorAssumption
<1>2. ASSUME Request!Init
      PROVE  /\ call = "rest" /\ op = "get" /\ body = 0 /\ arrived = 0 /\ size = 0 /\ readUp = 0
             /\ file.parts = 0
  BY <1>2 DEF Request!Init, Request!NoFile
<1>3. 0 \in 0 .. BodyParts /\ 0 <= BodyParts
  BY <1>1
<1> QED
  BY <1>2, <1>3 DEF HttpInv

LEMMA HttpStep == HttpInv /\ [Request!Next]_Request!httpVars => HttpInv'
<1> SUFFICES ASSUME HttpInv, [Request!Next]_Request!httpVars PROVE HttpInv'
  OBVIOUS
<1> USE DEF HttpInv, Request!answerVars
<1>0. BodyParts \in Nat /\ FileSizes \subseteq Nat /\ UploadLimit \in Nat
  BY MonitorAssumption
<1>a. ASSUME Request!Fail
      PROVE  /\ call' = "end" /\ ~ok'
             /\ op = "download" /\ call = "body" => file' = [exists |-> FALSE, parts |-> 0]
             /\ ~(op = "download" /\ call = "body") => file' = file
             /\ file'.parts <= BodyParts
  BY <1>0, <1>a DEF Request!Fail, Request!Return, Request!NoFile
<1>1. CASE Request!Begin
  <2>1. /\ call = "rest" /\ op' \in {"get", "download", "report", "upload"}
        /\ body' = 0 /\ readUp' = 0 /\ ~ok'
        /\ UNCHANGED <<arrived, status, lengthKnown, file>>
    BY <1>1 DEF Request!Begin
  <2>2. size' \in Nat /\ (op' # "upload" => size' = 0)
    BY <1>0, <1>1 DEF Request!Begin
  <2>3. report'.status # "Uploaded"
    BY <1>1 DEF Request!Begin, Request!NoReport
  <2>4. call' = CASE size' > UploadLimit -> "end" [] size' <= UploadLimit /\ op' = "upload" -> "read" [] OTHER -> "send"
    BY <1>1 DEF Request!Begin
  <2>5. CASE size' > UploadLimit
    <3>1. call' = "end"
      BY <1>0, <2>2, <2>4, <2>5
    <3> QED
      BY <1>0, <2>1, <2>2, <2>3, <3>1
  <2>6. CASE ~(size' > UploadLimit)
    <3>1. (size' <= UploadLimit /\ op' = "upload") \/ op' # "upload"
      BY <1>0, <2>2, <2>6
    <3>2. call' \in {"read", "send"} /\ (call' = "send" <=> op' # "upload")
      BY <2>4, <2>6, <3>1
    <3>3. body' <= arrived' /\ arrived' <= BodyParts /\ readUp' <= size' /\ file'.parts <= BodyParts
      BY <1>0, <2>1, <2>2
    <3>4. body' \in Nat /\ arrived' \in Nat /\ size' \in Nat /\ readUp' \in Nat
      BY <2>1, <2>2
    <3>5. call' = "read" => op' = "upload"
      BY <2>1, <3>2
    <3> QED
      BY <2>1, <2>3, <3>2, <3>3, <3>4, <3>5
  <2> QED
    BY <2>5, <2>6
<1>2. CASE Request!ReadChunk
  <2>1. /\ call = "read" /\ readUp < size
        /\ UNCHANGED <<op, url, status, lengthKnown, arrived, body, file, size, report, stored>>
    BY <1>2 DEF Request!ReadChunk
  <2>2. /\ readUp' \in {readUp, readUp + 1}
        /\ \/ UNCHANGED <<call, ok>>
           \/ call' = "end" /\ ~ok'
    BY <1>2 DEF Request!ReadChunk, Request!Return
  <2>3. op = "upload"
    BY <2>1
  <2> QED
    BY <2>1, <2>2, <2>3
<1>3. CASE Request!ReadAll
  BY <1>3 DEF Request!ReadAll
<1>4. CASE Request!Send
  <2>1. call = "send" /\ arrived' = 0 /\ body' = 0 /\ UNCHANGED <<op, url, size, readUp, report>>
    BY <1>4 DEF Request!Send
  <2>2. CASE Request!Fail /\ UNCHANGED <<status, lengthKnown, stored>>
    BY <1>0, <1>a, <2>1, <2>2
  <2>3. CASE Request!Fail /\ stored' = IF op = "upload" /\ url /\ status' = 200 THEN readUp ELSE stored
    BY <1>0, <1>a, <2>1, <2>3
  <2>4. CASE /\ stored' = IF op = "upload" /\ url /\ status' = 200 THEN readUp ELSE stored
             /\ ~(op = "download" /\ status' # 200)
             /\ call' = (IF op = "download" THEN "create" ELSE "body")
             /\ UNCHANGED <<file, ok>>
    BY <1>0, <2>1, <2>4
  <2> QED
    BY <1>4, <2>2, <2>3, <2>4 DEF Request!Send
<1>5. CASE Request!Create
  <2>1. /\ call = "create"
        /\ UNCHANGED <<op, url, status, lengthKnown, arrived, body, size, readUp, report, stored>>
    BY <1>5 DEF Request!Create
  <2>2. CASE file' = [exists |-> TRUE, parts |-> 0] /\ call' = "body" /\ UNCHANGED ok
    <3>1. file'.parts <= BodyParts
      BY <1>0, <2>2
    <3> QED
      BY <2>1, <2>2, <3>1
  <2>3. CASE call' = "end" /\ ok' = FALSE /\ UNCHANGED file
    <3>1. ~ok'
      BY <2>3
    <3>2. call' = "end" /\ UNCHANGED file
      BY <2>3
    <3> HIDE <2>3
    <3> QED
      BY <1>0, <2>1, <3>1, <3>2
  <2> QED
    BY <1>5, <2>2, <2>3 DEF Request!Create, Request!Return
<1>6. CASE Request!ReadBody
  <2>1. /\ call = "body" /\ body < arrived /\ body' = body + 1
        /\ UNCHANGED <<op, url, status, lengthKnown, arrived, size, readUp, report, stored>>
    BY <1>6 DEF Request!ReadBody
  <2>2. CASE op = "download" /\ Request!Fail
    BY <1>0, <1>a, <2>1, <2>2
  <2>3. CASE op = "download" /\ file' = [file EXCEPT !.parts = @ + 1] /\ UNCHANGED <<call, ok>>
    <3>0. file = [exists |-> TRUE, parts |-> body] /\ body + 1 <= BodyParts
      BY <1>0, <2>1, <2>3
    <3>1. file' = [exists |-> TRUE, parts |-> body'] /\ file'.parts <= BodyParts
      BY <2>1, <2>3, <3>0
    <3> HIDE <2>3
    <3>2. op = "download" /\ UNCHANGED <<call, ok>>
      BY <2>3
    <3> QED
      BY <1>0, <2>1, <3>1, <3>2
  <2>4. CASE op # "download" /\ file' = file /\ UNCHANGED <<call, ok>>
    BY <1>0, <2>1, <2>4
  <2> QED
    BY <1>6, <2>2, <2>3, <2>4 DEF Request!ReadBody
<1>7. CASE Request!BodyEnds
  <2>1. /\ call = "body"
        /\ UNCHANGED <<op, status, lengthKnown, arrived, body, size, readUp, stored>>
    BY <1>7 DEF Request!BodyEnds
  <2>2. (CASE op = "get" -> UNCHANGED <<url, file, report>> /\ (Request!Return(TRUE) \/ (broken /\ Request!Return(FALSE)))
           [] op = "download" -> UNCHANGED <<url, report>> /\ (Request!DownloadEnds \/ (broken /\ Request!Fail))
           [] op = "report" -> UNCHANGED <<url, file>> /\ Request!LookupHash
           [] op = "upload" -> UNCHANGED file /\ Request!UploadAnswered)
    BY <1>7 DEF Request!BodyEnds
  <2>3. CASE op = "get"
    BY <1>0, <2>1, <2>2, <2>3 DEF Request!Return
  <2>4. CASE op = "download"
    <3>1. UNCHANGED <<url, report>> /\ (Request!DownloadEnds \/ Request!Fail)
      BY <2>2, <2>4
    <3>2. CASE Request!Fail
      BY <1>0, <1>a, <2>1, <2>4, <3>1, <3>2
    <3>3. CASE ~(lengthKnown /\ file.parts # BodyParts) /\ Request!Return(TRUE) /\ UNCHANGED file
      BY <1>0, <2>1, <2>4, <3>1, <3>3 DEF Request!Return
    <3> QED
      BY <3>1, <3>2, <3>3 DEF Request!DownloadEnds
  <2>5. \A code : Request!StatusOf(code) # "Uploaded"
    BY DEF Request!StatusOf
  <2>6. CASE op = "report"
    <3>1. UNCHANGED <<url, file>> /\ Request!LookupHash
      BY <1>0, <2>2, <2>6
    <3>2. call' = "end" /\ ok' = TRUE /\ report'.status = Request!StatusOf(status)
      BY <3>1 DEF Request!LookupHash, Request!Return
    <3> QED
      BY <1>0, <2>1, <2>5, <2>6, <3>1, <3>2
  <2>7. CASE op = "upload"
    <3>1. UNCHANGED file /\ Request!UploadAnswered
      BY <2>2, <2>7
    <3>2. CASE url
      <4>1. call' = "end" /\ ok' = TRUE /\ UNCHANGED url
            /\ report'.status = IF status = 200 THEN "Uploaded" ELSE Request!StatusOf(status)
        BY <3>1, <3>2 DEF Request!UploadAnswered, Request!Return, Request!NoReport
      <4>2. report'.status = "Uploaded" => stored = size
        BY <2>1, <2>5, <2>7, <3>2, <4>1
      <4> HIDE <3>2
      <4> QED
        BY <1>0, <2>1, <2>7, <3>1, <4>1, <4>2
    <3>3. CASE ~url
      <4>1. CASE status = 200 /\ call' = "send" /\ url' = TRUE /\ UNCHANGED <<ok, report>>
        BY <1>0, <2>1, <2>7, <3>1, <4>1
      <4>2. CASE status = 200 /\ Request!Return(FALSE) /\ UNCHANGED <<url, report>>
        BY <1>0, <2>1, <2>7, <3>1, <4>2 DEF Request!Return
      <4>3. CASE /\ Request!Return(TRUE) /\ UNCHANGED url
                 /\ report' = [Request!NoReport EXCEPT !.status = Request!StatusOf(status)]
        <5>1. call' = "end" /\ ok' = TRUE /\ report'.status # "Uploaded"
          BY <2>5, <4>3 DEF Request!Return, Request!NoReport
        <5>2. UNCHANGED url
          BY <4>3
        <5> QED
          BY <1>0, <2>1, <2>7, <3>1, <5>1, <5>2
      <4> QED
        BY <3>1, <3>3, <4>1, <4>2, <4>3 DEF Request!UploadAnswered
    <3> QED
      BY <3>2, <3>3
  <2> QED
    BY <2>3, <2>4, <2>6, <2>7
<1>8. CASE Request!Ended
  BY <1>8 DEF Request!Ended
<1>9. CASE Request!Arrive
  BY <1>0, <1>9 DEF Request!Arrive
<1>10. CASE Request!Break
  BY <1>10 DEF Request!Break
<1>11. CASE UNCHANGED Request!httpVars
  BY <1>11 DEF Request!httpVars
<1> QED
  BY <1>1, <1>2, <1>3, <1>4, <1>5, <1>6, <1>7, <1>8, <1>9, <1>10, <1>11 DEF Request!Next, Request!Client

LEMMA HttpKept == HttpInv => Request!TypeOK /\ Request!DownloadIsWhole /\ Request!UploadedIsStored
BY DEF HttpInv, Request!TypeOK, Request!DownloadIsWhole, Request!UploadedIsStored

-----------------------------------------------------------------------------
(* Of a monitor that runs, each its own invariant.                           *)

MonitorsInv ==
    /\ Is("watcher", WatcherStates /\ WatcherCache)
    /\ Is("wsl", WslCalls /\ WslStream /\ WslTaken)
    /\ Is("rundown", Rundown!ThreadInv /\ Rundown!TraceInv /\ Rundown!EventsInv)
    /\ Is("rundowns", Rundowns!ThreadInv /\ Rundowns!TraceInv /\ Rundowns!EventsInv)
    /\ Is("gc", GcInv)
    /\ Is("diagnostics", DiagnosticsInv)
    /\ Is("handles", HandlesInv)
    /\ Is("reused", HandlesInv)
    /\ Is("http", HttpInv)

LEMMA RuntimesAreKnown == Rundown!AllAreKnown /\ Rundowns!AllAreKnown
<1>1. Rundown!InstanceIds = {1}
  <2>1. DOMAIN <<1>> = {1}
    OBVIOUS
  <2> QED
    BY <2>1 DEF Rundown!InstanceIds, Rundown!ToSet
<1> QED
  BY <1>1 DEF Rundown!AllAreKnown, Rundowns!AllAreKnown

LEMMA MonitorsInit == Init => MonitorsInv
<1> SUFFICES ASSUME Init PROVE MonitorsInv
  OBVIOUS
<1>1. CASE which = "watcher" /\ Watcher!Init
  BY <1>1, WatcherStatesInit, WatcherCacheInit DEF MonitorsInv, Is
<1>2. CASE which = "wsl" /\ Wsl!Init
  BY <1>2, WslInit DEF MonitorsInv, Is
<1>3. CASE which = "rundown" /\ Rundown!Init
  BY <1>3, Rundown!RundownInit DEF MonitorsInv, Is
<1>4. CASE which = "rundowns" /\ Rundowns!Init
  BY <1>4, Rundowns!RundownInit DEF MonitorsInv, Is
<1>5. CASE which = "gc" /\ Gc!Init
  BY <1>5, GcInit DEF MonitorsInv, Is
<1>6. CASE which = "diagnostics" /\ Diagnostics!Init
  BY <1>6, DiagnosticsInit DEF MonitorsInv, Is
<1>7. CASE which = "handles" /\ Handle!Init
  BY <1>7, HandleIsReused, HandlesInit DEF MonitorsInv, Is
<1>8. CASE which = "reused" /\ Reused!Init
  BY <1>8, HandlesInit DEF MonitorsInv, Is
<1>9. CASE which = "http" /\ Request!Init
  BY <1>9, HttpInit DEF MonitorsInv, Is
<1> QED
  BY <1>1, <1>2, <1>3, <1>4, <1>5, <1>6, <1>7, <1>8, <1>9 DEF Init

\* A step is one of the monitor that runs, or none of anything.
LEMMA StepOfOne ==
    ASSUME [Next]_vars
    PROVE  /\ which' = which
           /\ Is("watcher", [Watcher!Next]_Watcher!watchVars)
           /\ Is("wsl", [Wsl!Next]_Wsl!wslVars)
           /\ Is("rundown", [Rundown!Next]_Rundown!rundownVars)
           /\ Is("rundowns", [Rundowns!Next]_Rundowns!rundownVars)
           /\ Is("gc", [Gc!Next]_Gc!gcVars)
           /\ Is("diagnostics", [Diagnostics!Next]_Diagnostics!diagnosticsVars)
           /\ Is("handles", [Reused!Next]_Reused!handleVars)
           /\ Is("reused", [Reused!Next]_Reused!handleVars)
           /\ Is("http", [Request!Next]_Request!httpVars)
<1>1. CASE Next
  BY <1>1, HandleIsReused DEF Next, Is
<1>2. CASE UNCHANGED vars
  <2> USE <1>2 DEF vars, shared, watcherOnly, wslOnly, rundownOnly, gcOnly, diagnosticsOnly, handleOnly, httpOnly
  <2>1. UNCHANGED which
    OBVIOUS
  <2>2. UNCHANGED Watcher!watchVars
    BY DEF Watcher!watchVars
  <2>3. UNCHANGED Wsl!wslVars
    BY DEF Wsl!wslVars, Wsl!clientVars, Wsl!monitorVars, Wsl!helperVars
  <2>4. UNCHANGED Rundown!rundownVars
    BY DEF Rundown!rundownVars, Rundown!queryVars, Rundown!traceVars, Rundown!contextVars
  <2>5. UNCHANGED Rundowns!rundownVars
    BY DEF Rundowns!rundownVars, Rundowns!queryVars, Rundowns!traceVars, Rundowns!contextVars
  <2>6. UNCHANGED Gc!gcVars
    BY DEF Gc!gcVars, Gc!stateVars, Gc!callVars, Gc!runtimeVars
  <2>7. UNCHANGED Diagnostics!diagnosticsVars
    BY DEF Diagnostics!diagnosticsVars, Diagnostics!clientVars, Diagnostics!pipeVars
  <2>8. UNCHANGED Reused!handleVars
    BY DEF Reused!handleVars, Reused!callVars
  <2>9. UNCHANGED Request!httpVars
    BY DEF Request!httpVars, Request!answerVars
  <2> HIDE <1>2
  <2> QED
    BY <2>1, <2>2, <2>3, <2>4, <2>5, <2>6, <2>7, <2>8, <2>9 DEF Is
<1> QED
  BY <1>1, <1>2

LEMMA MonitorsStep == MonitorsInv /\ [Next]_vars => MonitorsInv'
<1> SUFFICES ASSUME MonitorsInv, [Next]_vars PROVE MonitorsInv'
  OBVIOUS
<1>0. which' = which
  BY StepOfOne
<1>1. Is("watcher", WatcherStates' /\ WatcherCache')
  BY StepOfOne, WatcherStatesStep, WatcherCacheStep DEF MonitorsInv, Is
<1>2. Is("wsl", WslCalls' /\ WslStream' /\ WslTaken')
  BY StepOfOne, WslCallsStep, WslStreamStep, WslTakenStep DEF MonitorsInv, Is
<1>3. Is("rundown", Rundown!ThreadInv' /\ Rundown!TraceInv' /\ Rundown!EventsInv')
  BY StepOfOne, RuntimesAreKnown, Rundown!ThreadStep, Rundown!TraceStep, Rundown!EventsStep DEF MonitorsInv, Is
<1>4. Is("rundowns", Rundowns!ThreadInv' /\ Rundowns!TraceInv' /\ Rundowns!EventsInv')
  BY StepOfOne, RuntimesAreKnown, Rundowns!ThreadStep, Rundowns!TraceStep, Rundowns!EventsStep DEF MonitorsInv, Is
<1>5. Is("gc", GcInv')
  BY StepOfOne, GcStep DEF MonitorsInv, Is
<1>6. Is("diagnostics", DiagnosticsInv')
  BY StepOfOne, DiagnosticsStep DEF MonitorsInv, Is
<1>7. Is("handles", HandlesInv') /\ Is("reused", HandlesInv')
  BY StepOfOne, HandlesStep DEF MonitorsInv, Is
<1>8. Is("http", HttpInv')
  BY StepOfOne, HttpStep DEF MonitorsInv, Is
<1> QED
  BY <1>0, <1>1, <1>2, <1>3, <1>4, <1>5, <1>6, <1>7, <1>8 DEF MonitorsInv, Is

\* What a call's step leaves of its handles, threads and states belongs together:
\* Start and Stop of the monitors, and the queries' steps.
THEOREM CallsLeaveWhatBelongs == Spec => []TypeOK
<1>1. MonitorsInv => TypeOK
  BY WatcherKept, WslKept, Rundown!RundownKept, Rundowns!RundownKept, GcThreadKept, DiagnosticsKept, HandlesKept,
     HttpKept DEF MonitorsInv, GcInv, TypeOK, Is
<1> QED
  BY <1>1, MonitorsInit, MonitorsStep, PTL DEF Spec

\* No callback, thread or transfer uses what a call has taken back, whatever the
\* order of the steps of Start, Stop, the threads and the process that is watched.
THEOREM NothingOutlivesItsCall == Spec => []NothingIsLate
<1>1. MonitorsInv => NothingIsLate
  BY WatcherKept, WslKept, Rundown!RundownKept, Rundowns!RundownKept, GcThreadKept, DiagnosticsKept
  DEF MonitorsInv, GcInv, NothingIsLate, Is
<1> QED
  BY <1>1, MonitorsInit, MonitorsStep, PTL DEF Spec

\* DotNetGcMonitor's statistics: a pause counted is one that was, from its suspension
\* to its restart, and a collection is counted once, though events are lost between,
\* Start and Stop come in the middle of a pause, and events wait in the buffers.
THEOREM PausesAreCounted == Spec => []PausesAreTrue
<1>1. MonitorsInv => PausesAreTrue
  BY GcConcludes DEF MonitorsInv, PausesAreTrue, Is
<1> QED
  BY <1>1, MonitorsInit, MonitorsStep, PTL DEF Spec

\* Every result is whole: a Linux session's frame in whatever pieces the pipe was
\* read, .NET details that say they are complete, a runtime's answer, an object's
\* details, a download, an upload.
THEOREM ResultsAreWholeOrNone == Spec => []ResultsAreWhole
<1>1. MonitorsInv => ResultsAreWhole
  BY WslKept, Rundown!RundownKept, Rundowns!RundownKept, DiagnosticsKept, HandlesKept, HttpKept
  DEF MonitorsInv, ResultsAreWhole, Is
<1> QED
  BY <1>1, MonitorsInit, MonitorsStep, PTL DEF Spec

=============================================================================
