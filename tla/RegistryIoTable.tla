--------------------------- MODULE RegistryIoTable ---------------------------
(***************************************************************************)
(* The counting and naming of registry operations (WinSys RegistryIo.cpp:  *)
(* RegistryIoTable), as operators from a table to a table.  The tracker    *)
(* calls each of them under its lock: see RegistryIoTracker.               *)
(*                                                                         *)
(* A table T is a record of the class's fields.  The counters of a row are *)
(* the set of operations counted into it; why an object could not be named *)
(* is wording and left out; names are paths below a root (unnamed = 0) or  *)
(* below a key object that could not be named.  T.counted is a history     *)
(* variable: the names each operation was counted under so far.            *)
(***************************************************************************)
EXTENDS Integers, Sequences, FiniteSets

CONSTANTS
    MaxAttempts,   \* the resolver's passes before an object counts unnamed
    MaxDeferred,   \* operations waiting past this count at once
    KeyIdle,       \* a row's ticks without an operation
    NameIdle,      \* a name's ticks without a use
    TickModulus,   \* ticks are unsigned, their differences are modulo this (2^64)
    TokenBase      \* values from here on are tokens, which no key object has

ASSUME TableAssumption ==
    /\ MaxAttempts \in Nat \ {0}
    /\ MaxDeferred \in Nat
    /\ KeyIdle \in Nat
    /\ NameIdle \in Nat
    /\ TickModulus \in Nat \ {0}
    /\ TokenBase \in Nat \ {0}

IsToken(value) == value \in Nat /\ value >= TokenBase

\* A map with a key set, and without some.
Put(map, key, value) ==
    [k \in DOMAIN map \cup {key} |-> IF k = key THEN value ELSE map[k]]
Without(map, keys) == [k \in DOMAIN map \ keys |-> map[k]]

\* The events' fields the counting needs.  Stamp orders them as they were
\* issued and tells them apart.
IsOpen(e) == e.Operation \in {"OpenKey", "CreateKey"}
IsRetried(e) == e.Status = "reparse"
IsFailure(e) == e.Status = "failure"

NoName == [unnamed |-> 0, path |-> <<>>]
ObjectText(object) == [unnamed |-> object, path |-> <<>>]
Named(path) == [unnamed |-> 0, path |-> path]

EmptyMap == [k \in {} |-> 0]
EmptyTable ==
    [Rows |-> EmptyMap, Names |-> EmptyMap, Deferred |-> <<>>, Waiting |-> EmptyMap, Unnamed |-> {},
     Attempts |-> EmptyMap, PendingOpens |-> EmptyMap, NextToken |-> TokenBase, counted |-> EmptyMap]

\* Clear: everything but the next token.
Clear(T) == [EmptyTable EXCEPT !.NextToken = T.NextToken]

-----------------------------------------------------------------------------
\* The name an open gives its key can be told: it is absolute, or its base has one.
HasOpenName(T, e) == e.Absolute \/ e.BaseObject \in DOMAIN T.Names

Below(text, name) ==
    IF name = "" THEN text ELSE [text EXCEPT !.path = Append(@, name)]

\* Mutant: a relative name is taken for an absolute one.
OpenName_NoBase(T, e) == Named(<<e.Name>>)

OpenName(T, e) ==
    IF e.Absolute THEN Named(<<e.Name>>) ELSE Below(T.Names[e.BaseObject].Text, e.Name)

GaveUp(T, object) ==
    \/ object = 0
    \/ object \in DOMAIN T.Attempts /\ T.Attempts[object] >= MaxAttempts

UnnamedBase(base, relative) == [unnamed |-> base, path |-> <<relative>>]

\* Counts an event under name (NoName: under its key object); an open names its
\* key object for the operations that follow, unless nameObject is false.
Count(T, e, name, tick, nameObject) ==
    LET text == IF name = NoName THEN ObjectText(e.KeyObject) ELSE name
        id == <<e.Pid, text>>
        before == IF id \in DOMAIN T.Rows THEN T.Rows[id].Operations ELSE {}
        names == IsOpen(e) /\ nameObject /\ e.KeyObject # 0 /\ name # NoName /\ ~IsFailure(e)
        so_far == IF e.Stamp \in DOMAIN T.counted THEN T.counted[e.Stamp] ELSE <<>>
    IN [T EXCEPT
         !.Rows = Put(@, id, [Operations |-> before \cup {e.Stamp}, LastTick |-> tick]),
         !.Names = IF names THEN Put(@, e.KeyObject, [Text |-> name, Tick |-> tick]) ELSE @,
         !.counted = Put(@, e.Stamp, Append(so_far, text))]

\* n operations fewer wait on an object; an object nobody waits on is forgotten.
NoLongerWaiting(waiting, object, n) ==
    IF waiting[object] = n THEN Without(waiting, {object})
    ELSE [waiting EXCEPT ![object] = @ - n]

\* Mutant: the token of a waiting open is not named.
NameToken_Never(T, d, name, tick) == T

\* An open counted under name: its token (if it waited) is named too.
NameToken(T, d, name, tick) ==
    IF d.Token = 0 THEN T
    ELSE LET object == d.Event.KeyObject
             mine == object \in DOMAIN T.PendingOpens /\ T.PendingOpens[object] = d.Token
         IN [T EXCEPT
              !.Names = Put(@, d.Token, [Text |-> name, Tick |-> tick]),
              !.PendingOpens = IF mine THEN Without(@, {object}) ELSE @]

\* Mutant: only the first operation to wait on an object is counted as waiting.
Enqueue_WaitingOnce(T, e, tick, waiting, token) ==
    [T EXCEPT
      !.Waiting = Put(@, waiting, 1),
      !.Unnamed = IF ~IsToken(waiting) THEN @ \cup {waiting} ELSE @,
      !.Deferred = Append(@, [Event |-> e, Tick |-> tick, Waiting |-> waiting, Token |-> token])]

\* Mutant: tokens are given to the resolver too.
Enqueue_TokenSought(T, e, tick, waiting, token) ==
    LET before == IF waiting \in DOMAIN T.Waiting THEN T.Waiting[waiting] ELSE 0
    IN [T EXCEPT
         !.Waiting = Put(@, waiting, before + 1),
         !.Unnamed = IF before = 0 THEN @ \cup {waiting} ELSE @,
         !.Deferred = Append(@, [Event |-> e, Tick |-> tick, Waiting |-> waiting, Token |-> token])]

\* A token is not for the resolver: its open names it.
Enqueue(T, e, tick, waiting, token) ==
    LET before == IF waiting \in DOMAIN T.Waiting THEN T.Waiting[waiting] ELSE 0
    IN [T EXCEPT
         !.Waiting = Put(@, waiting, before + 1),
         !.Unnamed = IF before = 0 /\ ~IsToken(waiting) THEN @ \cup {waiting} ELSE @,
         !.Deferred = Append(@, [Event |-> e, Tick |-> tick, Waiting |-> waiting, Token |-> token])]

\* Past the limit an operation counts at once: an open below its base as an
\* unnamed one, an operation waiting on an open's token under that open's name.
Defer(T, e, tick, waiting, token) ==
    LET name == UnnamedBase(waiting, e.Name)
        d == [Event |-> e, Tick |-> tick, Waiting |-> waiting, Token |-> token]
    IN IF Len(T.Deferred) < MaxDeferred THEN Enqueue(T, e, tick, waiting, token)
       ELSE IF IsOpen(e) THEN NameToken(Count(T, e, name, tick, TRUE), d, name, tick)
       ELSE IF IsToken(waiting) /\ waiting \in DOMAIN T.Names
       THEN Count(T, e, T.Names[waiting].Text, tick, TRUE)
       ELSE Count(T, e, NoName, tick, TRUE)

\* What waits on a key object from stamp on waits on the open's token instead.
Retarget(T, object, stamp, token) ==
    LET moves(d) == d.Waiting = object /\ d.Event.Stamp >= stamp
        n == Cardinality({i \in DOMAIN T.Deferred : moves(T.Deferred[i])})
    IN IF object \notin DOMAIN T.Waiting \/ n = 0 THEN T
       ELSE [T EXCEPT
              !.Deferred = [i \in DOMAIN @ |-> IF moves(@[i]) THEN [@[i] EXCEPT !.Waiting = token] ELSE @[i]],
              !.Waiting = Put(NoLongerWaiting(@, object, n), token, n)]

\* Mutant: what is flushed is left waiting too.
FlushOne_Kept(T, d, object, stamp) ==
    LET e == d.Event
        name == IF IsOpen(e) THEN UnnamedBase(object, e.Name) ELSE NoName
        kept == [T EXCEPT !.Deferred = Append(@, d)]
    IN IF d.Waiting # object \/ e.Stamp >= stamp THEN kept ELSE Count(kept, e, name, d.Tick, TRUE)

\* One waiting operation: on the object from before stamp it counts under the
\* object, any other is kept.
FlushOne(T, d, object, stamp) ==
    LET e == d.Event
        name == IF IsOpen(e) THEN UnnamedBase(object, e.Name) ELSE NoName
    IN IF d.Waiting # object \/ e.Stamp >= stamp THEN [T EXCEPT !.Deferred = Append(@, d)]
       ELSE Count([T EXCEPT !.Waiting[object] = @ - 1], e, name, d.Tick, TRUE)

\* The table after each of the waiting operations.
Flushed(T, object, stamp) ==
    LET start == [T EXCEPT !.Attempts = Put(@, object, MaxAttempts), !.Deferred = <<>>]
        after[n \in 0 .. Len(T.Deferred)] ==
            IF n = 0 THEN start ELSE FlushOne(after[n - 1], T.Deferred[n], object, stamp)
    IN after

\* A key object opened at stamp: what waited on it from before was another
\* key's and counts under the object; the rest stays.
FlushWaiting(T, object, stamp) ==
    LET done == Flushed(T, object, stamp)[Len(T.Deferred)]
    IN IF object \notin DOMAIN T.Waiting THEN T
       ELSE [done EXCEPT !.Waiting = IF @[object] = 0 THEN Without(@, {object}) ELSE @]

-----------------------------------------------------------------------------
\* An open or create of a key at an address.
OnOpen(T, e, tick) ==
    LET reused == FlushWaiting(T, e.KeyObject, e.Stamp)
        T1 == IF e.KeyObject = 0 THEN T
              ELSE [reused EXCEPT !.Attempts = Without(@, {e.KeyObject}),
                                  !.PendingOpens = Without(@, {e.KeyObject})]
        token == T1.NextToken
        pending == [T1 EXCEPT
                     !.Names = Without(@, {e.KeyObject}),
                     !.NextToken = @ + 1,
                     !.PendingOpens = Put(@, e.KeyObject, token)]
    IN IF HasOpenName(T1, e) THEN Count(T1, e, OpenName(T1, e), tick, TRUE)
       ELSE IF GaveUp(T1, e.BaseObject)
       THEN Count(T1, e, UnnamedBase(e.BaseObject, e.Name), tick, TRUE)
       ELSE IF e.KeyObject # 0 /\ ~IsFailure(e)
       THEN Defer(Retarget(pending, e.KeyObject, e.Stamp, token), e, tick, e.BaseObject, token)
       ELSE Defer(T1, e, tick, e.BaseObject, 0)

\* Any other operation on a key object.
OnOperation(T, e, tick) ==
    LET object == e.KeyObject
    IN IF object \in DOMAIN T.Names
       THEN Count([T EXCEPT !.Names[object].Tick = tick], e, T.Names[object].Text, tick, TRUE)
       ELSE IF object \in DOMAIN T.PendingOpens THEN Defer(T, e, tick, T.PendingOpens[object], 0)
       ELSE IF GaveUp(T, object) THEN Count(T, e, NoName, tick, TRUE)
       ELSE Defer(T, e, tick, object, 0)

IsCounted(e) ==
    /\ e.Operation \notin {"CloseKey", "FlushKey"}
    /\ ~(IsOpen(e) /\ IsRetried(e))

OnEvent(T, e, tick) ==
    IF ~IsCounted(e) THEN T
    ELSE IF IsOpen(e) THEN OnOpen(T, e, tick)
    ELSE OnOperation(T, e, tick)

-----------------------------------------------------------------------------
(* The resolver's part. *)

\* The objects operations wait on are T.Unnamed, and are forgotten.
TakeUnnamed(T) == [T EXCEPT !.Unnamed = {}]

\* The objects whose names were found, by SetName, and the others, by NameFailed.
SetNames(T, paths, tick) ==
    [T EXCEPT !.Names = [o \in DOMAIN @ \cup DOMAIN paths |->
                            IF o \in DOMAIN paths THEN [Text |-> Named(paths[o]), Tick |-> tick] ELSE @[o]]]

NamesFailed(T, objects) ==
    [T EXCEPT !.Attempts = [o \in DOMAIN @ \cup objects |->
                               IF o \notin objects THEN @[o] ELSE 1 + IF o \in DOMAIN @ THEN @[o] ELSE 0]]

IsReady(T, d) == d.Waiting \in DOMAIN T.Names \/ GaveUp(T, d.Waiting)

Latest(a, b) == IF a > b THEN a ELSE b

\* One waiting operation, in the order they arrived.
ApplyOne(T, d) ==
    LET e == d.Event
        text == IF HasOpenName(T, e) THEN OpenName(T, e) ELSE UnnamedBase(e.BaseObject, e.Name)
        takes == e.KeyObject \in DOMAIN T.PendingOpens /\ T.PendingOpens[e.KeyObject] = d.Token
        T1 == [T EXCEPT !.Waiting = NoLongerWaiting(@, d.Waiting, 1)]
    IN IF ~IsReady(T, d) THEN [T EXCEPT !.Deferred = Append(@, d)]
       ELSE IF IsOpen(e) THEN NameToken(Count(T1, e, text, d.Tick, takes), d, text, d.Tick)
       ELSE IF d.Waiting \in DOMAIN T.Names
       THEN Count([T1 EXCEPT !.Names[d.Waiting].Tick = Latest(@, d.Tick)], e, T.Names[d.Waiting].Text, d.Tick, TRUE)
       ELSE Count(T1, e, NoName, d.Tick, TRUE)

\* The table after each of the waiting operations.
Applied(T) ==
    LET after[n \in 0 .. Len(T.Deferred)] ==
            IF n = 0 THEN [T EXCEPT !.Deferred = <<>>] ELSE ApplyOne(after[n - 1], T.Deferred[n])
    IN after

\* Mutant: the objects still waiting are not given to the resolver again.
ApplyDeferred_Once(T) == Applied(T)[Len(T.Deferred)]

ApplyDeferred(T) ==
    LET done == Applied(T)[Len(T.Deferred)]
    IN [done EXCEPT !.Unnamed = @ \cup {o \in DOMAIN done.Waiting : ~IsToken(o)}]

Idle(tick, last, limit) == (tick - last) % TickModulus > limit

Prune(T, tick) ==
    [T EXCEPT
      !.Rows = Without(@, {id \in DOMAIN @ : Idle(tick, @[id].LastTick, KeyIdle)}),
      !.Names = Without(@, {o \in DOMAIN @ : Idle(tick, @[o].Tick, NameIdle)}),
      !.Attempts = Without(@, {o \in DOMAIN @ : o \notin DOMAIN T.Waiting})]

RemoveProcess(T, pid) ==
    [T EXCEPT !.Rows = Without(@, {id \in DOMAIN @ : id[1] = pid})]

=============================================================================
