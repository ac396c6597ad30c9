----------------------- MODULE RegistryIoTrackerProofs -----------------------
(***************************************************************************)
(* For any system, any number of sessions and any interleaving of the      *)
(* three threads: every operation given to the table is counted once or    *)
(* waits; m_Waiting is what waits and on what; no object is waited on and  *)
(* never looked up; a tracker that is not running holds nothing; and       *)
(* operations are counted under the names of their keys.                   *)
(*                                                                         *)
(* The inductive invariant is Inv: Sound says it of the table, EventsOnce  *)
(* of the events on their way to it (an event given twice, or one the      *)
(* table already has, would break the counting), SoughtInv of the objects  *)
(* between the table and the resolver, RestInv of Stop.  Between two calls *)
(* the table is Sound; inside FlushWaiting and ApplyDeferred it is not:    *)
(* the queue was emptied and is filled again, one element at a time, while *)
(* m_Waiting still counts what is left of it.  InLoop is the invariant of  *)
(* both loops, in the number n of elements already met.                    *)
(*                                                                         *)
(* For the names, NamesTrue says of a table, and of the operations E that  *)
(* wait, that each address is named as its key, and that each token has an *)
(* owner: one key, to which belong the open that was given the token, all  *)
(* that waits on it, and the name it gets.                                 *)
(***************************************************************************)
EXTENDS RegistryIoTracker, FiniteSetTheorems, SequenceTheorems, NaturalsInduction, WellFoundedInduction, TLAPS

-----------------------------------------------------------------------------
(* What a table is between two calls, and in the middle of one. *)

Tokens(T) == TokenBase .. T.NextToken - 1
Entries == [Event : Events, Tick : Nat, Waiting : Addresses \cup Nat, Token : Nat]

IsTable(T) ==
    T = [Rows |-> T.Rows, Names |-> T.Names, Deferred |-> T.Deferred, Waiting |-> T.Waiting, Unnamed |-> T.Unnamed,
         Attempts |-> T.Attempts, PendingOpens |-> T.PendingOpens, NextToken |-> T.NextToken, counted |-> T.counted]

\* The types of a table whose objects were looked up at most limit times.
Types(T, limit) ==
    /\ IsTable(T)
    /\ T.NextToken \in Nat /\ TokenBase <= T.NextToken
    /\ T.Deferred \in Seq(Entries)
    /\ T.Unnamed \subseteq Addresses
    /\ DOMAIN T.Waiting \subseteq Addresses \cup Tokens(T)
    /\ DOMAIN T.PendingOpens \subseteq Addresses
    /\ \A a \in DOMAIN T.PendingOpens : T.PendingOpens[a] \in Tokens(T)
    /\ DOMAIN T.Attempts \subseteq Addresses
    /\ \A a \in DOMAIN T.Attempts : T.Attempts[a] \in 1 .. limit

\* Of the queue D, what waits on o, and what of that is past the first n.
Waiters(D, o) == {i \in DOMAIN D : D[i].Waiting = o}
Left(D, n, o) == {i \in n + 1 .. Len(D) : D[i].Waiting = o}

\* What is kept so far and what is left of D are counted where they wait.
Waits(T, D, n, zero) ==
    /\ \A i \in DOMAIN T.Deferred : T.Deferred[i].Waiting \in DOMAIN T.Waiting
    /\ \A i \in n + 1 .. Len(D) : D[i].Waiting \in DOMAIN T.Waiting
    /\ \A o \in DOMAIN T.Waiting :
         /\ T.Waiting[o] = Cardinality(Waiters(T.Deferred, o)) + Cardinality(Left(D, n, o))
         /\ T.Waiting[o] # 0 \/ o \in zero

Kept(T, s) == \E i \in DOMAIN T.Deferred : T.Deferred[i].Event.Stamp = s
Remains(D, n, s) == \E i \in n + 1 .. Len(D) : D[i].Event.Stamp = s

\* An operation given is counted once, kept or left.
Stamps(T, D, n, given) ==
    /\ \A i, j \in DOMAIN T.Deferred : T.Deferred[i].Event.Stamp = T.Deferred[j].Event.Stamp => i = j
    /\ \A i, j \in n + 1 .. Len(D) : D[i].Event.Stamp = D[j].Event.Stamp => i = j
    /\ \A s \in DOMAIN T.counted : ~Kept(T, s) /\ ~Remains(D, n, s) /\ Len(T.counted[s]) = 1
    /\ \A s : Kept(T, s) => ~Remains(D, n, s)
    /\ \A s : s \in given <=> (s \in DOMAIN T.counted \/ Kept(T, s) \/ Remains(D, n, s))

\* An object that operations come to wait on is one that the resolver will be given.
Sought(T, U) ==
    /\ T.Unnamed \subseteq U.Unnamed
    /\ \A o \in DOMAIN U.Waiting : o \in DOMAIN T.Waiting \/ IsToken(o) \/ o \in U.Unnamed

\* U is T but for its rows, names, counted operations and the opens no longer pending.
CountsOnly(T, U) ==
    /\ IsTable(U)
    /\ U.Deferred = T.Deferred /\ U.Waiting = T.Waiting /\ U.Unnamed = T.Unnamed /\ U.Attempts = T.Attempts
    /\ U.NextToken = T.NextToken
    /\ \A a \in DOMAIN U.PendingOpens : a \in DOMAIN T.PendingOpens /\ U.PendingOpens[a] = T.PendingOpens[a]

\* It counts the operation s, and each once.
Counts(T, U, s) ==
    /\ CountsOnly(T, U)
    /\ DOMAIN U.counted = DOMAIN T.counted \cup {s}
    /\ \A r \in DOMAIN U.counted : Len(U.counted[r]) = 1

\* Between two calls.
Sound(T, given) ==
    /\ Types(T, MaxAttempts - 1)
    /\ Waits(T, <<>>, 0, {})
    /\ Stamps(T, <<>>, 0, given)

\* The names that counting an event gives.
CountNames(T, e, name, at, b) ==
    IF IsOpen(e) /\ b /\ e.KeyObject # 0 /\ name # NoName /\ ~IsFailure(e)
    THEN Put(T.Names, e.KeyObject, [Text |-> name, Tick |-> at]) ELSE T.Names

CountText(e, name) == IF name = NoName THEN ObjectText(e.KeyObject) ELSE name

\* What Count changes.
LEMMA CountFields ==
  ASSUME NEW T, IsTable(T), NEW e, NEW name, NEW at, NEW b
  PROVE  /\ CountsOnly(T, Count(T, e, name, at, b))
         /\ Count(T, e, name, at, b).Names = CountNames(T, e, name, at, b)
         /\ Count(T, e, name, at, b).PendingOpens = T.PendingOpens
         /\ e.Stamp \notin DOMAIN T.counted =>
                Count(T, e, name, at, b).counted = Put(T.counted, e.Stamp, <<CountText(e, name)>>)
<1> DEFINE text == CountText(e, name)
           id == <<e.Pid, text>>
           operations == IF id \in DOMAIN T.Rows THEN T.Rows[id].Operations ELSE {}
           rows == Put(T.Rows, id, [Operations |-> operations \cup {e.Stamp}, LastTick |-> at])
           before == IF e.Stamp \in DOMAIN T.counted THEN T.counted[e.Stamp] ELSE <<>>
           counts == Put(T.counted, e.Stamp, Append(before, text))
<1>1. Count(T, e, name, at, b) =
         [T EXCEPT !.Rows = rows, !.Names = CountNames(T, e, name, at, b), !.counted = counts]
  BY DEF Count, CountText, CountNames
<1>2. e.Stamp \notin DOMAIN T.counted => counts = Put(T.counted, e.Stamp, <<text>>)
  OBVIOUS
<1> HIDE DEF text, id, operations, rows, before, counts
<1>3. Count(T, e, name, at, b) =
        [Rows |-> rows, Names |-> CountNames(T, e, name, at, b), Deferred |-> T.Deferred, Waiting |-> T.Waiting,
         Unnamed |-> T.Unnamed, Attempts |-> T.Attempts, PendingOpens |-> T.PendingOpens,
         NextToken |-> T.NextToken, counted |-> counts]
  BY <1>1 DEF IsTable
<1>4. CountsOnly(T, Count(T, e, name, at, b))
  BY <1>3 DEF CountsOnly, IsTable
<1>5. /\ Count(T, e, name, at, b).Names = CountNames(T, e, name, at, b)
      /\ Count(T, e, name, at, b).PendingOpens = T.PendingOpens
      /\ Count(T, e, name, at, b).counted = counts
  BY <1>3
<1> QED
  BY <1>2, <1>4, <1>5 DEF text

\* What NameToken changes.
LEMMA NameTokenFields ==
  ASSUME NEW T, IsTable(T), NEW d, NEW name, NEW at
  PROVE  /\ CountsOnly(T, NameToken(T, d, name, at))
         /\ NameToken(T, d, name, at).counted = T.counted
         /\ NameToken(T, d, name, at).Names =
                IF d.Token = 0 THEN T.Names ELSE Put(T.Names, d.Token, [Text |-> name, Tick |-> at])
  BY DEF NameToken, IsTable, CountsOnly, Without

-----------------------------------------------------------------------------
\* A queue is finite.
LEMMA WaitersFinite ==
  ASSUME NEW S, NEW D \in Seq(S), NEW o
  PROVE  IsFiniteSet(Waiters(D, o)) /\ Cardinality(Waiters(D, o)) \in Nat
<1>1. IsFiniteSet(1 .. Len(D))
  BY FS_Interval
<1> QED
  BY <1>1, FS_Subset, FS_CardinalityType DEF Waiters

\* And so is what is left of it.
LEMMA LeftFinite ==
  ASSUME NEW S, NEW D \in Seq(S), NEW n \in Nat, NEW o
  PROVE  IsFiniteSet(Left(D, n, o)) /\ Cardinality(Left(D, n, o)) \in Nat
<1>1. IsFiniteSet(n + 1 .. Len(D))
  BY FS_Interval
<1> QED
  BY <1>1, FS_Subset, FS_CardinalityType DEF Left

\* One more operation waits on its object, and on no other.
LEMMA AppendWaiter ==
  ASSUME NEW S, NEW D \in Seq(S), NEW d \in S, NEW o
  PROVE  Cardinality(Waiters(Append(D, d), o)) =
             Cardinality(Waiters(D, o)) + (IF d.Waiting = o THEN 1 ELSE 0)
<1>1. CASE d.Waiting = o
  <2>1. Waiters(Append(D, d), o) = Waiters(D, o) \cup {Len(D) + 1}
    BY <1>1 DEF Waiters
  <2>2. Len(D) + 1 \notin Waiters(D, o)
    BY DEF Waiters
  <2> QED
    BY <1>1, <2>1, <2>2, WaitersFinite, FS_AddElement
<1>2. CASE d.Waiting # o
  <2>1. Waiters(Append(D, d), o) = Waiters(D, o)
    BY <1>2 DEF Waiters
  <2> QED
    BY <1>2, <2>1, WaitersFinite
<1> QED
  BY <1>1, <1>2

\* The next element leaves what is left.
LEMMA LeftStep ==
  ASSUME NEW S, NEW D \in Seq(S), NEW n \in Nat, n < Len(D), NEW o
  PROVE  Cardinality(Left(D, n, o)) =
             Cardinality(Left(D, n + 1, o)) + (IF D[n + 1].Waiting = o THEN 1 ELSE 0)
<1>1. CASE D[n + 1].Waiting = o
  <2>1. Left(D, n, o) = Left(D, n + 1, o) \cup {n + 1}
    BY <1>1 DEF Left
  <2>2. n + 1 \notin Left(D, n + 1, o)
    BY DEF Left
  <2> QED
    BY <1>1, <2>1, <2>2, LeftFinite, FS_AddElement, n + 1 \in Nat
<1>2. CASE D[n + 1].Waiting # o
  <2>1. Left(D, n, o) = Left(D, n + 1, o)
    BY <1>2 DEF Left
  <2> QED
    BY <1>2, <2>1, LeftFinite
<1> QED
  BY <1>1, <1>2

-----------------------------------------------------------------------------
(* Counting one operation. *)

\* Count counts its operation, once.
LEMMA CountCounts ==
  ASSUME NEW T, IsTable(T), NEW e, NEW name, NEW at, NEW b,
         e.Stamp \notin DOMAIN T.counted, \A s \in DOMAIN T.counted : Len(T.counted[s]) = 1
  PROVE  Counts(T, Count(T, e, name, at, b), e.Stamp)
<1> DEFINE U == Count(T, e, name, at, b)
<1>1. CountsOnly(T, U) /\ U.counted = Put(T.counted, e.Stamp, <<CountText(e, name)>>)
  BY CountFields
<1>2. Len(<<CountText(e, name)>>) = 1
  OBVIOUS
<1>3. DOMAIN U.counted = DOMAIN T.counted \cup {e.Stamp}
  BY <1>1 DEF Put
<1>4. \A r \in DOMAIN U.counted : Len(U.counted[r]) = 1
  BY <1>1, <1>2 DEF Put
<1> QED
  BY <1>1, <1>3, <1>4 DEF Counts

\* Naming a token counts nothing else.
LEMMA NameTokenCounts ==
  ASSUME NEW T, NEW U, NEW s, Counts(T, U, s), NEW d, NEW name, NEW at
  PROVE  Counts(T, NameToken(U, d, name, at), s)
<1>1. IsTable(U)
  BY DEF Counts, CountsOnly
<1>2. /\ CountsOnly(U, NameToken(U, d, name, at))
      /\ NameToken(U, d, name, at).counted = U.counted
      /\ NameToken(U, d, name, at).Names =
             IF d.Token = 0 THEN U.Names ELSE Put(U.Names, d.Token, [Text |-> name, Tick |-> at])
  BY <1>1, NameTokenFields
<1> HIDE DEF NameToken
<1> QED
  BY <1>2 DEF Counts, CountsOnly

\* Counting keeps the types and asks the resolver for nothing new.
LEMMA CountsKeepTypes ==
  ASSUME NEW T, NEW U, NEW s, Counts(T, U, s), NEW limit, Types(T, limit)
  PROVE  Types(U, limit) /\ Sought(T, U) /\ Tokens(U) = Tokens(T)
  BY DEF Counts, CountsOnly, Types, Sought, Tokens

\* Counting changes nothing of what waits.
LEMMA CountsKeepWaits ==
  ASSUME NEW T, NEW U, NEW s, Counts(T, U, s), NEW D, NEW n, NEW zero, Waits(T, D, n, zero)
  PROVE  Waits(U, D, n, zero)
  BY DEF Counts, CountsOnly, Waits

\* An operation that is not given yet.
LEMMA CountsNewStamp ==
  ASSUME NEW T, NEW U, NEW s, Counts(T, U, s), NEW D, NEW n, NEW given, Stamps(T, D, n, given), s \notin given
  PROVE  Stamps(U, D, n, given \cup {s})
<1>1. \A r : Kept(U, r) <=> Kept(T, r)
  BY DEF Counts, CountsOnly, Kept
<1> QED
  BY <1>1 DEF Counts, CountsOnly, Stamps

\* Types of one more operation that waits.
LEMMA SeqAppend ==
  ASSUME NEW S, NEW D \in Seq(S), NEW d \in S
  PROVE  /\ Append(D, d) \in Seq(S)
         /\ Len(Append(D, d)) = Len(D) + 1
         /\ DOMAIN Append(D, d) = 1 .. Len(D) + 1
         /\ \A i \in 1 .. Len(D) : Append(D, d)[i] = D[i]
         /\ Append(D, d)[Len(D) + 1] = d
  OBVIOUS

\* What Enqueue changes.
LEMMA EnqueueFields ==
  ASSUME NEW T, IsTable(T), NEW e, NEW at, NEW waiting, NEW token
  PROVE  LET U == Enqueue(T, e, at, waiting, token)
         IN  /\ IsTable(U)
             /\ U.Names = T.Names /\ U.Attempts = T.Attempts /\ U.PendingOpens = T.PendingOpens
             /\ U.NextToken = T.NextToken /\ U.counted = T.counted
             /\ U.Waiting = Put(T.Waiting, waiting, (IF waiting \in DOMAIN T.Waiting THEN T.Waiting[waiting] ELSE 0) + 1)
             /\ \/ U.Unnamed = T.Unnamed
                \/ U.Unnamed = T.Unnamed \cup {waiting} /\ ~IsToken(waiting)
             /\ ~IsToken(waiting) /\ waiting \notin DOMAIN T.Waiting => waiting \in U.Unnamed
             /\ U.Deferred = Append(T.Deferred, [Event |-> e, Tick |-> at, Waiting |-> waiting, Token |-> token])
<1> DEFINE before == IF waiting \in DOMAIN T.Waiting THEN T.Waiting[waiting] ELSE 0
           unnamed == IF before = 0 /\ ~IsToken(waiting) THEN T.Unnamed \cup {waiting} ELSE T.Unnamed
           queue == Append(T.Deferred, [Event |-> e, Tick |-> at, Waiting |-> waiting, Token |-> token])
           waits == Put(T.Waiting, waiting, before + 1)
<1>1. Enqueue(T, e, at, waiting, token) =
         [T EXCEPT !.Waiting = waits, !.Unnamed = unnamed, !.Deferred = queue]
  BY DEF Enqueue
<1>2. /\ \/ unnamed = T.Unnamed
         \/ unnamed = T.Unnamed \cup {waiting} /\ ~IsToken(waiting)
      /\ ~IsToken(waiting) /\ waiting \notin DOMAIN T.Waiting => waiting \in unnamed
  OBVIOUS
<1> HIDE DEF unnamed, queue, waits
<1>4. Enqueue(T, e, at, waiting, token) =
        [Rows |-> T.Rows, Names |-> T.Names, Deferred |-> queue, Waiting |-> waits, Unnamed |-> unnamed,
         Attempts |-> T.Attempts, PendingOpens |-> T.PendingOpens, NextToken |-> T.NextToken, counted |-> T.counted]
  BY <1>1 DEF IsTable
<1> QED
  BY <1>2, <1>4 DEF IsTable, queue, waits

\* One more that is kept, whether it comes from what is left or is new.
LEMMA KeepOneStamp ==
  ASSUME NEW T, NEW U, NEW d, T.Deferred \in Seq(Entries), d \in Entries, U.Deferred = Append(T.Deferred, d)
  PROVE  /\ \A r : Kept(U, r) <=> Kept(T, r) \/ r = d.Event.Stamp
         /\ ~Kept(T, d.Event.Stamp) /\ (\A i, j \in DOMAIN T.Deferred : T.Deferred[i].Event.Stamp = T.Deferred[j].Event.Stamp => i = j)
              => \A i, j \in DOMAIN U.Deferred : U.Deferred[i].Event.Stamp = U.Deferred[j].Event.Stamp => i = j
<1> DEFINE n == Len(T.Deferred)
<1>1. /\ DOMAIN U.Deferred = 1 .. n + 1 /\ DOMAIN T.Deferred = 1 .. n /\ n \in Nat
      /\ \A i \in 1 .. n : U.Deferred[i] = T.Deferred[i]
      /\ U.Deferred[n + 1] = d
  BY SeqAppend
<1> HIDE DEF n
<1>2. \A r : Kept(U, r) <=> Kept(T, r) \/ r = d.Event.Stamp
  BY <1>1 DEF Kept
<1>3. ASSUME ~Kept(T, d.Event.Stamp), NEW i \in 1 .. n + 1, NEW j \in 1 .. n + 1,
             \A x, y \in DOMAIN T.Deferred : T.Deferred[x].Event.Stamp = T.Deferred[y].Event.Stamp => x = y,
             U.Deferred[i].Event.Stamp = U.Deferred[j].Event.Stamp
      PROVE  i = j
  <2>1. CASE i \in 1 .. n /\ j \in 1 .. n
    BY <1>1, <1>3, <2>1
  <2>2. CASE i = n + 1 /\ j \in 1 .. n
    BY <1>1, <1>3, <2>2 DEF Kept
  <2>3. CASE j = n + 1 /\ i \in 1 .. n
    BY <1>1, <1>3, <2>3 DEF Kept
  <2> QED
    BY <1>1, <2>1, <2>2, <2>3
<1> QED
  BY <1>1, <1>2, <1>3

\* Of an empty queue nothing is left.
LEMMA NothingLeft ==
  /\ \A o : Cardinality(Left(<<>>, 0, o)) = 0
  /\ \A s : ~Remains(<<>>, 0, s)
<1>1. 0 + 1 .. Len(<<>>) = {}
  OBVIOUS
<1>2. \A o : Left(<<>>, 0, o) = {}
  BY <1>1 DEF Left
<1> QED
  BY <1>1, <1>2, FS_EmptySet DEF Remains

-----------------------------------------------------------------------------
(* An operation that waits. *)

\* A new operation that waits: counted where it waits, and its object is asked for.
LEMMA EnqueueKeeps ==
  ASSUME NEW T, NEW given, Sound(T, given), NEW e \in Events, e.Stamp \notin given, NEW at \in Nat,
         NEW waiting \in Addresses \cup Tokens(T), NEW token \in Nat
  PROVE  /\ Sound(Enqueue(T, e, at, waiting, token), given \cup {e.Stamp})
         /\ Sought(T, Enqueue(T, e, at, waiting, token))
<1> DEFINE U == Enqueue(T, e, at, waiting, token)
           d == [Event |-> e, Tick |-> at, Waiting |-> waiting, Token |-> token]
           before == IF waiting \in DOMAIN T.Waiting THEN T.Waiting[waiting] ELSE 0
<1>t. Types(T, MaxAttempts - 1) /\ Waits(T, <<>>, 0, {}) /\ Stamps(T, <<>>, 0, given)
  BY DEF Sound
<1>1. /\ IsTable(U)
      /\ U.Names = T.Names /\ U.Attempts = T.Attempts /\ U.PendingOpens = T.PendingOpens
      /\ U.NextToken = T.NextToken /\ U.counted = T.counted
      /\ U.Waiting = Put(T.Waiting, waiting, before + 1)
      /\ \/ U.Unnamed = T.Unnamed
         \/ U.Unnamed = T.Unnamed \cup {waiting} /\ ~IsToken(waiting)
      /\ ~IsToken(waiting) /\ waiting \notin DOMAIN T.Waiting => waiting \in U.Unnamed
      /\ U.Deferred = Append(T.Deferred, d)
  <2>1. IsTable(T)
    BY <1>t DEF Types
  <2> QED
    BY <2>1, EnqueueFields
<1>2. d \in Entries /\ d.Waiting = waiting /\ d.Event = e
    BY <1>t, TableAssumption DEF Entries, Tokens, Types
<1>3. T.Deferred \in Seq(Entries)
  BY <1>t DEF Types
<1> HIDE DEF U, d
<1>4. waiting \in Addresses \/ IsToken(waiting)
  BY <1>t, TableAssumption DEF Tokens, IsToken, Types
<1>5. Types(U, MaxAttempts - 1) /\ Sought(T, U)
  <2>1. DOMAIN U.Waiting = DOMAIN T.Waiting \cup {waiting}
    BY <1>1 DEF Put
  <2>2. U.Deferred \in Seq(Entries)
    BY <1>1, <1>2, <1>3, SeqAppend
  <2>3. Tokens(U) = Tokens(T)
    BY <1>1 DEF Tokens
  <2>4. U.Unnamed \subseteq Addresses
    BY <1>t, <1>1, <1>4 DEF Types
  <2>5. Sought(T, U)
    BY <1>1, <2>1 DEF Sought
  <2> QED
    BY <1>t, <1>1, <2>1, <2>2, <2>3, <2>4, <2>5 DEF Types
<1>6. Waits(U, <<>>, 0, {})
  <2>1. before = Cardinality(Waiters(T.Deferred, waiting))
    <3>1. CASE waiting \in DOMAIN T.Waiting
      BY <3>1, <1>t, <1>3, NothingLeft, WaitersFinite DEF Waits
    <3>2. CASE waiting \notin DOMAIN T.Waiting
      <4>1. Waiters(T.Deferred, waiting) = {}
        BY <3>2, <1>t DEF Waits, Waiters
      <4> QED
        BY <3>2, <4>1, FS_EmptySet
    <3> QED
      BY <3>1, <3>2
  <2>2. ASSUME NEW o \in DOMAIN U.Waiting
        PROVE  U.Waiting[o] = Cardinality(Waiters(U.Deferred, o)) /\ U.Waiting[o] # 0
    <3>1. Cardinality(Waiters(U.Deferred, o)) =
             Cardinality(Waiters(T.Deferred, o)) + (IF waiting = o THEN 1 ELSE 0)
      BY <1>1, <1>2, <1>3, AppendWaiter
    <3>2. Cardinality(Waiters(T.Deferred, o)) \in Nat
      BY <1>3, WaitersFinite
    <3>3. CASE o = waiting
      BY <1>1, <2>1, <3>1, <3>2, <3>3 DEF Put
    <3>4. CASE o # waiting
      <4>1. o \in DOMAIN T.Waiting /\ U.Waiting[o] = T.Waiting[o]
        BY <1>1, <3>4 DEF Put
      <4>2. T.Waiting[o] = Cardinality(Waiters(T.Deferred, o)) /\ T.Waiting[o] # 0
        BY <1>t, <4>1, <3>2, NothingLeft DEF Waits
      <4> QED
        BY <4>1, <4>2, <3>1, <3>2, <3>4
    <3> QED
      BY <3>3, <3>4
  <2>3. ASSUME NEW i \in DOMAIN U.Deferred
        PROVE  U.Deferred[i].Waiting \in DOMAIN U.Waiting
    <3>1. DOMAIN U.Waiting = DOMAIN T.Waiting \cup {waiting}
      BY <1>1 DEF Put
    <3>2. CASE i \in DOMAIN T.Deferred
      BY <1>t, <1>1, <1>2, <1>3, <3>1, <3>2, SeqAppend DEF Waits
    <3>3. CASE i = Len(T.Deferred) + 1
      BY <1>1, <1>2, <1>3, <3>1, <3>3, SeqAppend
    <3>4. i \in DOMAIN T.Deferred \/ i = Len(T.Deferred) + 1
      BY <1>1, <1>2, <1>3, SeqAppend
    <3> QED
      BY <3>2, <3>3, <3>4
  <2>4. 0 + 1 .. Len(<<>>) = {}
    OBVIOUS
  <2>5. \A o \in DOMAIN U.Waiting : Cardinality(Waiters(U.Deferred, o)) \in Nat
    BY <1>1, <1>2, <1>3, SeqAppend, WaitersFinite
  <2> QED
    BY <2>2, <2>3, <2>4, <2>5, NothingLeft DEF Waits
<1>7. Stamps(U, <<>>, 0, given \cup {e.Stamp})
  <2>1. ~Kept(T, e.Stamp) /\ e.Stamp \notin DOMAIN T.counted
    BY <1>t DEF Stamps
  <2>2. \A i, j \in DOMAIN T.Deferred : T.Deferred[i].Event.Stamp = T.Deferred[j].Event.Stamp => i = j
    BY <1>t DEF Stamps
  <2>3. /\ \A r : Kept(U, r) <=> Kept(T, r) \/ r = d.Event.Stamp
        /\ ~Kept(T, d.Event.Stamp) /\ (\A i, j \in DOMAIN T.Deferred : T.Deferred[i].Event.Stamp = T.Deferred[j].Event.Stamp => i = j)
              => \A i, j \in DOMAIN U.Deferred : U.Deferred[i].Event.Stamp = U.Deferred[j].Event.Stamp => i = j
    BY <1>1, <1>2, <1>3, KeepOneStamp
  <2>4. \A i, j \in DOMAIN U.Deferred : U.Deferred[i].Event.Stamp = U.Deferred[j].Event.Stamp => i = j
    BY <2>1, <2>2, <2>3, <1>2
  <2>5. \A r : Kept(U, r) <=> Kept(T, r) \/ r = e.Stamp
    BY <2>3, <1>2
  <2>6. \A i, j \in 0 + 1 .. Len(<<>>) : <<>>[i].Event.Stamp = <<>>[j].Event.Stamp => i = j
    OBVIOUS
  <2>7. \A s \in DOMAIN U.counted : ~Kept(U, s) /\ ~Remains(<<>>, 0, s) /\ Len(U.counted[s]) = 1
    BY <1>t, <1>1, <2>1, <2>5 DEF Stamps
  <2>8. \A s : s \in given \cup {e.Stamp} <=> (s \in DOMAIN U.counted \/ Kept(U, s) \/ Remains(<<>>, 0, s))
    BY <1>t, <1>1, <2>5 DEF Stamps
  <2> QED
    BY <2>4, <2>6, <2>7, <2>8, NothingLeft DEF Stamps
<1> QED
  BY <1>5, <1>6, <1>7 DEF U, Sound

\* An operation that is counted as it comes.
LEMMA CountsNow ==
  ASSUME NEW T, NEW given, Sound(T, given), NEW U, NEW s, Counts(T, U, s), s \notin given
  PROVE  Sound(U, given \cup {s}) /\ Sought(T, U)
<1>1. Types(U, MaxAttempts - 1) /\ Sought(T, U)
  BY CountsKeepTypes DEF Sound
<1>2. Waits(U, <<>>, 0, {})
  BY CountsKeepWaits DEF Sound
<1>3. Stamps(U, <<>>, 0, given \cup {s})
  BY CountsNewStamp DEF Sound
<1> QED
  BY <1>1, <1>2, <1>3 DEF Sound

\* Count, of an operation that is given.
LEMMA CountNow ==
  ASSUME NEW T, NEW given, Sound(T, given), NEW e, e.Stamp \notin given, NEW name, NEW at, NEW b
  PROVE  Counts(T, Count(T, e, name, at, b), e.Stamp)
<1>1. IsTable(T) /\ e.Stamp \notin DOMAIN T.counted /\ \A s \in DOMAIN T.counted : Len(T.counted[s]) = 1
  BY DEF Sound, Types, Stamps
<1> QED
  BY <1>1, CountCounts

\* Whether it waits or counts past the limit.
LEMMA DeferKeeps ==
  ASSUME NEW T, NEW given, Sound(T, given), NEW e \in Events, e.Stamp \notin given, NEW at \in Nat,
         NEW waiting \in Addresses \cup Tokens(T), NEW token \in Nat
  PROVE  /\ Sound(Defer(T, e, at, waiting, token), given \cup {e.Stamp})
         /\ Sought(T, Defer(T, e, at, waiting, token))
<1> DEFINE name == UnnamedBase(waiting, e.Name)
           d == [Event |-> e, Tick |-> at, Waiting |-> waiting, Token |-> token]
           U == Defer(T, e, at, waiting, token)
<1>1. \/ U = Enqueue(T, e, at, waiting, token)
      \/ U = NameToken(Count(T, e, name, at, TRUE), d, name, at)
      \/ U = Count(T, e, T.Names[waiting].Text, at, TRUE)
      \/ U = Count(T, e, NoName, at, TRUE)
  BY DEF Defer
<1> HIDE DEF name, d, U
<1>2. CASE U = Enqueue(T, e, at, waiting, token)
  BY <1>2, EnqueueKeeps DEF U
<1>3. CASE U = NameToken(Count(T, e, name, at, TRUE), d, name, at)
  BY <1>3, CountNow, NameTokenCounts, CountsNow DEF U
<1>4. CASE U = Count(T, e, T.Names[waiting].Text, at, TRUE)
  BY <1>4, CountNow, CountsNow DEF U
<1>5. CASE U = Count(T, e, NoName, at, TRUE)
  BY <1>5, CountNow, CountsNow DEF U
<1> QED
  BY <1>1, <1>2, <1>3, <1>4, <1>5

-----------------------------------------------------------------------------
(* Retarget: operations wait on a token instead. *)

\* What waited on a key object waits on a token: as many, and none is lost.
LEMMA RetargetKeeps ==
  ASSUME NEW T, NEW given, Sound(T, given), NEW object, NEW stamp \in Nat,
         NEW token \in Tokens(T), token \notin DOMAIN T.Waiting
  PROVE  LET U == Retarget(T, object, stamp, token)
         IN  /\ Sound(U, given)
             /\ Sought(T, U)
             /\ Tokens(U) = Tokens(T)
<1> DEFINE moves(d) == d.Waiting = object /\ d.Event.Stamp >= stamp
           M == {i \in DOMAIN T.Deferred : moves(T.Deferred[i])}
           n == Cardinality(M)
           U == Retarget(T, object, stamp, token)
           queue == [i \in DOMAIN T.Deferred |->
                        IF moves(T.Deferred[i]) THEN [T.Deferred[i] EXCEPT !.Waiting = token] ELSE T.Deferred[i]]
           waits == Put(NoLongerWaiting(T.Waiting, object, n), token, n)
<1>t. Types(T, MaxAttempts - 1) /\ Waits(T, <<>>, 0, {}) /\ Stamps(T, <<>>, 0, given)
  BY DEF Sound
<1>1. CASE object \notin DOMAIN T.Waiting \/ n = 0
  <2>1. U = T
    BY <1>1 DEF Retarget
  <2> HIDE DEF U
  <2> QED
    BY <2>1 DEF U, Sought
<1>2. CASE object \in DOMAIN T.Waiting /\ n # 0
  <2>1. U = [T EXCEPT !.Deferred = queue, !.Waiting = waits]
    BY <1>2 DEF Retarget
  <2> HIDE DEF queue, waits, U
  <2>2. U = [Rows |-> T.Rows, Names |-> T.Names, Deferred |-> queue, Waiting |-> waits, Unnamed |-> T.Unnamed,
         Attempts |-> T.Attempts, PendingOpens |-> T.PendingOpens, NextToken |-> T.NextToken, counted |-> T.counted]
    BY <1>t, <2>1 DEF Types, IsTable
  <2>3. /\ IsTable(U) /\ U.Deferred = queue /\ U.Waiting = waits /\ U.Unnamed = T.Unnamed /\ U.Attempts = T.Attempts
        /\ U.PendingOpens = T.PendingOpens /\ U.NextToken = T.NextToken /\ U.counted = T.counted
    BY <2>2 DEF IsTable
  <2>4. T.Deferred \in Seq(Entries) /\ token \in Nat
    BY <1>t, TableAssumption DEF Types, Tokens
  <2>5. /\ DOMAIN queue = DOMAIN T.Deferred
        /\ \A i \in M : queue[i] \in Entries /\ queue[i].Waiting = token /\ queue[i].Event = T.Deferred[i].Event
        /\ \A i \in DOMAIN T.Deferred \ M : queue[i] = T.Deferred[i]
    <3>1. ASSUME NEW d \in Entries
          PROVE  [d EXCEPT !.Waiting = token] \in Entries /\ [d EXCEPT !.Waiting = token].Waiting = token
                 /\ [d EXCEPT !.Waiting = token].Event = d.Event
      BY <2>4 DEF Entries
    <3>2. DOMAIN queue = DOMAIN T.Deferred
      BY DEF queue
    <3>3. \A i \in M : queue[i] = [T.Deferred[i] EXCEPT !.Waiting = token] /\ T.Deferred[i] \in Entries
      BY <2>4 DEF queue
    <3>4. \A i \in DOMAIN T.Deferred \ M : queue[i] = T.Deferred[i]
      BY DEF queue
    <3> HIDE DEF M, queue
    <3>5. ASSUME NEW i \in M
          PROVE  queue[i] \in Entries /\ queue[i].Waiting = token /\ queue[i].Event = T.Deferred[i].Event
      <4>1. queue[i] = [T.Deferred[i] EXCEPT !.Waiting = token] /\ T.Deferred[i] \in Entries
        BY <3>3
      <4> QED
        BY <3>1, <4>1, Zenon
    <3> QED
      BY <3>2, <3>4, <3>5
  <2>6. queue \in Seq(Entries)
    <3>1. queue \in [1 .. Len(T.Deferred) -> Entries]
      <4>1. \A i \in DOMAIN T.Deferred : queue[i] \in Entries
        BY <2>4, <2>5
      <4>2. queue = [i \in 1 .. Len(T.Deferred) |-> queue[i]]
        BY <2>4 DEF queue
      <4> QED
        BY <2>4, <4>1, <4>2
    <3> QED
      BY <3>1, <2>4
  <2>7. object # token /\ M \subseteq Waiters(T.Deferred, object)
    BY <1>2 DEF Waiters
  <2>8. Waiters(T.Deferred, token) = {}
    BY <1>t DEF Waits, Waiters
  <2>9. /\ Waiters(queue, token) = M
        /\ Waiters(queue, object) = Waiters(T.Deferred, object) \ M
        /\ \A o : o # token /\ o # object => Waiters(queue, o) = Waiters(T.Deferred, o)
    BY <2>5, <2>7, <2>8 DEF Waiters
  <2>10. /\ IsFiniteSet(Waiters(T.Deferred, object)) /\ Cardinality(Waiters(T.Deferred, object)) \in Nat
         /\ IsFiniteSet(M) /\ n \in Nat
    BY <2>4, <2>7, WaitersFinite, FS_Subset, FS_CardinalityType
  <2>11. Cardinality(Waiters(T.Deferred, object) \ M) = Cardinality(Waiters(T.Deferred, object)) - n
    <3>1. Waiters(T.Deferred, object) \cap M = M
      BY <2>7
    <3>2. Cardinality(Waiters(T.Deferred, object) \ M) =
             Cardinality(Waiters(T.Deferred, object)) - Cardinality(Waiters(T.Deferred, object) \cap M)
      BY <2>10, FS_Difference
    <3> QED
      BY <3>1, <3>2
  <2>12. T.Waiting[object] = Cardinality(Waiters(T.Deferred, object))
    BY <1>t, <1>2, <2>10, NothingLeft DEF Waits
  <2> HIDE DEF M, n
  <2>13. /\ DOMAIN waits = (DOMAIN T.Waiting \ (IF T.Waiting[object] = n THEN {object} ELSE {})) \cup {token}
         /\ waits[token] = n
         /\ \A o \in DOMAIN T.Waiting \ {object} : waits[o] = T.Waiting[o]
         /\ T.Waiting[object] # n => waits[object] = T.Waiting[object] - n
    <3>1. CASE T.Waiting[object] = n
      BY <3>1, <1>2, <2>7 DEF waits, Put, NoLongerWaiting, Without
    <3>2. CASE T.Waiting[object] # n
      BY <3>2, <1>2, <2>7 DEF waits, Put, NoLongerWaiting
    <3> QED
      BY <3>1, <3>2
  <2>14. Types(U, MaxAttempts - 1) /\ Sought(T, U) /\ Tokens(U) = Tokens(T)
    <3>1. Tokens(U) = Tokens(T)
      BY <2>3 DEF Tokens
    <3>2. DOMAIN waits \subseteq DOMAIN T.Waiting \cup {token}
      BY <2>13
    <3>3. IsToken(token)
      BY <1>t, TableAssumption DEF Tokens, IsToken, Types
    <3> QED
      BY <1>t, <2>3, <2>6, <3>1, <3>2, <3>3 DEF Types, Sought
  <2>15. Waits(U, <<>>, 0, {})
    <3>1. ASSUME NEW o \in DOMAIN waits
          PROVE  waits[o] = Cardinality(Waiters(queue, o)) /\ waits[o] # 0
      <4>1. CASE o = token
        BY <4>1, <2>9, <2>13, <1>2 DEF n
      <4>2. CASE o = object
        BY <4>2, <2>7, <2>9, <2>10, <2>11, <2>12, <2>13
      <4>3. CASE o # token /\ o # object
        <5>1. o \in DOMAIN T.Waiting /\ waits[o] = T.Waiting[o]
          BY <4>3, <2>13
        <5>2. T.Waiting[o] = Cardinality(Waiters(T.Deferred, o)) /\ T.Waiting[o] # 0
          BY <1>t, <5>1, <2>4, WaitersFinite, NothingLeft DEF Waits
        <5> QED
          BY <4>3, <5>1, <5>2, <2>9
      <4> QED
        BY <4>1, <4>2, <4>3
    <3>2. ASSUME NEW i \in DOMAIN queue
          PROVE  queue[i].Waiting \in DOMAIN waits
      <4>1. CASE i \in M
        BY <4>1, <2>5, <2>13
      <4>2. CASE i \notin M
        <5>1. queue[i] = T.Deferred[i] /\ T.Deferred[i].Waiting \in DOMAIN T.Waiting
          BY <4>2, <2>5, <1>t DEF Waits
        <5>2. CASE T.Deferred[i].Waiting = object
          <6>1. i \in Waiters(T.Deferred, object) \ M
            BY <4>2, <5>2, <2>5 DEF Waiters
          <6>2. Cardinality(Waiters(T.Deferred, object) \ M) # 0
            BY <6>1, <2>10, FS_Difference, FS_EmptySet
          <6> QED
            BY <5>1, <5>2, <6>2, <2>10, <2>11, <2>12, <2>13
        <5>3. CASE T.Deferred[i].Waiting # object
          BY <5>1, <5>3, <2>13
        <5> QED
          BY <5>2, <5>3
      <4> QED
        BY <4>1, <4>2
    <3>3. 0 + 1 .. Len(<<>>) = {}
      OBVIOUS
    <3>4. \A o : Cardinality(Waiters(queue, o)) \in Nat
      BY <2>6, WaitersFinite
    <3> QED
      BY <3>1, <3>2, <3>3, <3>4, <2>3, NothingLeft DEF Waits
  <2>16. Stamps(U, <<>>, 0, given)
    <3>1. \A i \in DOMAIN T.Deferred : queue[i].Event = T.Deferred[i].Event
      BY <2>5
    <3>2. \A s : Kept(U, s) <=> Kept(T, s)
      BY <3>1, <2>3, <2>5 DEF Kept
    <3> QED
      BY <1>t, <3>1, <3>2, <2>3, <2>5 DEF Stamps
  <2> QED
    BY <2>14, <2>15, <2>16 DEF Sound, U
<1> QED
  BY <1>1, <1>2

-----------------------------------------------------------------------------
(* The two loops over the queue: their tables, one after each element. *)

\* A set of numbers has a least one.
LEMMA SmallestNat == ASSUME NEW S, S \subseteq Nat, S # {} PROVE \E x \in S : \A y \in S : x <= y
<1> DEFINE R == OpToRel(<, Nat)
<1>1. IsWellFoundedOn(R, Nat)
  BY NatLessThanWellFounded
<1>2. \E x \in S : \A y \in S : ~ (<<y, x>> \in R)
  BY <1>1, WFMin
<1>3. \A x, y \in Nat : x < y => <<x, y>> \in R
  BY DEF OpToRel
<1> HIDE DEF R
<1>4. ASSUME NEW x \in Nat, NEW y \in Nat, ~(y < x) PROVE x <= y
  BY <1>4
<1> QED
  BY <1>2, <1>3, <1>4

\* Induction up to a number.
LEMMA UpTo ==
  ASSUME NEW S, NEW n \in Nat, 0 \in S, \A i \in 0 .. n - 1 : i \in S => i + 1 \in S
  PROVE  0 .. n \subseteq S
<1> SUFFICES ASSUME ~(0 .. n \subseteq S) PROVE FALSE
  OBVIOUS
<1> DEFINE B == {i \in 0 .. n : i \notin S}
<1>1. B \subseteq Nat /\ B # {}
  OBVIOUS
<1>2. PICK k \in B : \A j \in B : k <= j
  <2> HIDE DEF B
  <2> QED
    BY <1>1, SmallestNat
<1>3. k \in 0 .. n /\ k \notin S /\ k # 0
  OBVIOUS
<1>4. k - 1 \in 0 .. n - 1 /\ k - 1 \notin B /\ (k - 1) + 1 = k
  BY <1>2, <1>3
<1>5. k - 1 \in S
  BY <1>4
<1> QED
  BY <1>3, <1>4, <1>5

\* A loop over the waiting operations does its steps.
FlushSteps(f, T, object, stamp) ==
    /\ f[0] = [T EXCEPT !.Attempts = Put(@, object, MaxAttempts), !.Deferred = <<>>]
    /\ \A n \in 0 .. Len(T.Deferred) - 1 : f[n + 1] = FlushOne(f[n], T.Deferred[n + 1], object, stamp)

\* Flushed starts from an empty queue and each of its tables follows from the one before.
LEMMA FlushedSteps ==
  ASSUME NEW T, T.Deferred \in Seq(Entries), NEW object, NEW stamp
  PROVE  FlushSteps(Flushed(T, object, stamp), T, object, stamp)
<1> DEFINE start == [T EXCEPT !.Attempts = Put(@, object, MaxAttempts), !.Deferred = <<>>]
           D == T.Deferred
           Loop(f, m) == f = [n \in 0 .. m |-> IF n = 0 THEN start ELSE FlushOne(f[n - 1], D[n], object, stamp)]
           S == {m \in Nat : \E f : Loop(f, m)}
<1>1. 0 \in S
  <2> DEFINE f == [n \in 0 .. 0 |-> start]
  <2>1. Loop(f, 0)
    OBVIOUS
  <2> HIDE DEF f, Loop
  <2> QED
    BY <2>1
<1> HIDE DEF start, D
<1>2. ASSUME NEW m \in Nat, m \in S PROVE m + 1 \in S
  <2>1. PICK g : Loop(g, m)
    BY <1>2
  <2> DEFINE f == [n \in 0 .. m + 1 |-> IF n = m + 1 THEN FlushOne(g[m], D[m + 1], object, stamp) ELSE g[n]]
  <2>2. ASSUME NEW n \in 0 .. m + 1
        PROVE  f[n] = IF n = 0 THEN start ELSE FlushOne(f[n - 1], D[n], object, stamp)
    <3>1. CASE n = m + 1
      <4>1. f[n] = FlushOne(g[m], D[n], object, stamp) /\ n - 1 = m /\ f[m] = g[m] /\ n # 0
        BY <3>1
      <4> QED
        BY <4>1
    <3>2. CASE n \in 1 .. m
      <4>1. f[n] = g[n] /\ f[n - 1] = g[n - 1]
        BY <3>2
      <4>2. g[n] = IF n = 0 THEN start ELSE FlushOne(g[n - 1], D[n], object, stamp)
        BY <2>1, <3>2
      <4> QED
        BY <4>1, <4>2
    <3>3. CASE n = 0
      <4>1. f[n] = g[n] /\ g[n] = start
        BY <2>1, <3>3
      <4> QED
        BY <3>3, <4>1
    <3> QED
      BY <3>1, <3>2, <3>3
  <2>3. f = [n \in 0 .. m + 1 |-> f[n]]
    OBVIOUS
  <2>4. Loop(f, m + 1)
    <3> HIDE DEF f
    <3> QED
      BY <2>2, <2>3
  <2> HIDE DEF f, Loop
  <2> QED
    BY <2>4
<1>3. Len(D) \in S
  <2>1. Len(D) \in Nat
    BY DEF D
  <2> HIDE DEF S
  <2>2. \A i \in 0 .. Len(D) - 1 : i \in S => i + 1 \in S
    BY <1>2
  <2>3. 0 .. Len(D) \subseteq S
    BY <1>1, <2>1, <2>2, UpTo
  <2> QED
    BY <2>1, <2>3
<1>4. Loop(Flushed(T, object, stamp), Len(D))
  <2>1. Flushed(T, object, stamp) = CHOOSE f : Loop(f, Len(D))
    BY DEF Flushed, start, D
  <2>2. \E f : Loop(f, Len(D))
    BY <1>3
  <2> HIDE DEF Loop
  <2> QED
    BY <2>1, <2>2
<1> DEFINE F == Flushed(T, object, stamp)
<1>5. F[0] = start
  <2>1. 0 \in 0 .. Len(D)
    BY DEF D
  <2> HIDE DEF F
  <2> QED
    BY <1>4, <2>1 DEF F
<1>6. ASSUME NEW n \in 0 .. Len(D) - 1
      PROVE  F[n + 1] = FlushOne(F[n], D[n + 1], object, stamp)
  <2>1. n + 1 \in 0 .. Len(D) /\ n + 1 # 0 /\ (n + 1) - 1 = n
    BY DEF D
  <2>2. F[n + 1] = FlushOne(F[(n + 1) - 1], D[n + 1], object, stamp)
    <3> HIDE DEF F
    <3> QED
      BY <1>4, <2>1 DEF F
  <2> QED
    BY <2>1, <2>2
<1> QED
  BY <1>5, <1>6 DEF start, D, FlushSteps
ApplySteps(f, T) ==
    /\ f[0] = [T EXCEPT !.Deferred = <<>>]
    /\ \A n \in 0 .. Len(T.Deferred) - 1 : f[n + 1] = ApplyOne(f[n], T.Deferred[n + 1])

\* And so does Applied.
LEMMA AppliedSteps ==
  ASSUME NEW T, T.Deferred \in Seq(Entries)
  PROVE  ApplySteps(Applied(T), T)
<1> DEFINE start == [T EXCEPT !.Deferred = <<>>]
           D == T.Deferred
           Loop(f, m) == f = [n \in 0 .. m |-> IF n = 0 THEN start ELSE ApplyOne(f[n - 1], D[n])]
           S == {m \in Nat : \E f : Loop(f, m)}
<1>1. 0 \in S
  <2> DEFINE f == [n \in 0 .. 0 |-> start]
  <2>1. Loop(f, 0)
    OBVIOUS
  <2> HIDE DEF f, Loop
  <2> QED
    BY <2>1
<1> HIDE DEF start, D
<1>2. ASSUME NEW m \in Nat, m \in S PROVE m + 1 \in S
  <2>1. PICK g : Loop(g, m)
    BY <1>2
  <2> DEFINE f == [n \in 0 .. m + 1 |-> IF n = m + 1 THEN ApplyOne(g[m], D[m + 1]) ELSE g[n]]
  <2>2. ASSUME NEW n \in 0 .. m + 1
        PROVE  f[n] = IF n = 0 THEN start ELSE ApplyOne(f[n - 1], D[n])
    <3>1. CASE n = m + 1
      <4>1. f[n] = ApplyOne(g[m], D[n]) /\ n - 1 = m /\ f[m] = g[m] /\ n # 0
        BY <3>1
      <4> QED
        BY <4>1
    <3>2. CASE n \in 1 .. m
      <4>1. f[n] = g[n] /\ f[n - 1] = g[n - 1]
        BY <3>2
      <4>2. g[n] = IF n = 0 THEN start ELSE ApplyOne(g[n - 1], D[n])
        BY <2>1, <3>2
      <4> QED
        BY <4>1, <4>2
    <3>3. CASE n = 0
      <4>1. f[n] = g[n] /\ g[n] = start
        BY <2>1, <3>3
      <4> QED
        BY <3>3, <4>1
    <3> QED
      BY <3>1, <3>2, <3>3
  <2>3. f = [n \in 0 .. m + 1 |-> f[n]]
    OBVIOUS
  <2>4. Loop(f, m + 1)
    <3> HIDE DEF f
    <3> QED
      BY <2>2, <2>3
  <2> HIDE DEF f, Loop
  <2> QED
    BY <2>4
<1>3. Len(D) \in S
  <2>1. Len(D) \in Nat
    BY DEF D
  <2> HIDE DEF S
  <2>2. \A i \in 0 .. Len(D) - 1 : i \in S => i + 1 \in S
    BY <1>2
  <2>3. 0 .. Len(D) \subseteq S
    BY <1>1, <2>1, <2>2, UpTo
  <2> QED
    BY <2>1, <2>3
<1>4. Loop(Applied(T), Len(D))
  <2>1. Applied(T) = CHOOSE f : Loop(f, Len(D))
    BY DEF Applied, start, D
  <2>2. \E f : Loop(f, Len(D))
    BY <1>3
  <2> HIDE DEF Loop
  <2> QED
    BY <2>1, <2>2
<1> DEFINE F == Applied(T)
<1>5. F[0] = start
  <2>1. 0 \in 0 .. Len(D)
    BY DEF D
  <2> HIDE DEF F
  <2> QED
    BY <1>4, <2>1 DEF F
<1>6. ASSUME NEW n \in 0 .. Len(D) - 1
      PROVE  F[n + 1] = ApplyOne(F[n], D[n + 1])
  <2>1. n + 1 \in 0 .. Len(D) /\ n + 1 # 0 /\ (n + 1) - 1 = n
    BY DEF D
  <2>2. F[n + 1] = ApplyOne(F[(n + 1) - 1], D[n + 1])
    <3> HIDE DEF F
    <3> QED
      BY <1>4, <2>1 DEF F
  <2> QED
    BY <2>1, <2>2
<1> QED
  BY <1>5, <1>6 DEF start, D, ApplySteps

-----------------------------------------------------------------------------
(* The invariant of a loop, kept by each of its steps. *)

\* Before the element n + 1 of a loop over D.
InLoop(T, D, n, given, limit, zero) ==
    /\ Types(T, limit)
    /\ Waits(T, D, n, zero)
    /\ Stamps(T, D, n, given)

\* What is left before an element is it and what is left after.
LEMMA RemainsStep ==
  ASSUME NEW D \in Seq(Entries), NEW n \in Nat, n < Len(D)
  PROVE  \A s : Remains(D, n, s) <=> Remains(D, n + 1, s) \/ s = D[n + 1].Event.Stamp
<1>1. n + 1 .. Len(D) = (n + 1 + 1 .. Len(D)) \cup {n + 1}
  OBVIOUS
<1> QED
  BY <1>1 DEF Remains

\* The next element is not among those after it.
LEMMA NextIsNew ==
  ASSUME NEW T, NEW D \in Seq(Entries), NEW n \in Nat, n < Len(D), NEW given, Stamps(T, D, n, given)
  PROVE  LET s == D[n + 1].Event.Stamp
         IN  ~Kept(T, s) /\ ~Remains(D, n + 1, s) /\ s \notin DOMAIN T.counted
<1> DEFINE s == D[n + 1].Event.Stamp
<1>1. Remains(D, n, s)
  BY RemainsStep
<1>2. ~Kept(T, s) /\ s \notin DOMAIN T.counted
  BY <1>1 DEF Stamps
<1>3. ~Remains(D, n + 1, s)
  <2>1. \A i, j \in n + 1 .. Len(D) : D[i].Event.Stamp = D[j].Event.Stamp => i = j
    BY DEF Stamps
  <2> QED
    BY <2>1 DEF Remains
<1> QED
  BY <1>2, <1>3

\* The next element is kept.
LEMMA KeepInLoop ==
  ASSUME NEW T, NEW D \in Seq(Entries), NEW n \in Nat, n < Len(D), NEW given, NEW limit, NEW zero,
         InLoop(T, D, n, given, limit, zero)
  PROVE  InLoop([T EXCEPT !.Deferred = Append(@, D[n + 1])], D, n + 1, given, limit, zero)
<1> DEFINE d == D[n + 1]
           U == [T EXCEPT !.Deferred = Append(@, d)]
<1>t. Types(T, limit) /\ Waits(T, D, n, zero) /\ Stamps(T, D, n, given)
  BY DEF InLoop
<1>1. d \in Entries /\ T.Deferred \in Seq(Entries)
  BY <1>t DEF Types
<1>2. /\ IsTable(U) /\ U.Deferred = Append(T.Deferred, d) /\ U.Waiting = T.Waiting /\ U.Unnamed = T.Unnamed
      /\ U.Attempts = T.Attempts /\ U.PendingOpens = T.PendingOpens /\ U.NextToken = T.NextToken
      /\ U.counted = T.counted
  <2> DEFINE queue == Append(T.Deferred, d)
  <2>1. U = [T EXCEPT !.Deferred = queue]
    OBVIOUS
  <2> HIDE DEF queue, U
  <2>2. U = [Rows |-> T.Rows, Names |-> T.Names, Deferred |-> queue, Waiting |-> T.Waiting, Unnamed |-> T.Unnamed,
             Attempts |-> T.Attempts, PendingOpens |-> T.PendingOpens, NextToken |-> T.NextToken, counted |-> T.counted]
    BY <1>t, <2>1 DEF Types, IsTable
  <2> QED
    BY <2>2 DEF IsTable, queue
<1> HIDE DEF U
<1>3. Types(U, limit)
  <2>1. U.Deferred \in Seq(Entries)
    BY <1>1, <1>2, SeqAppend
  <2> QED
    BY <1>t, <1>2, <2>1 DEF Types, Tokens
<1>4. Waits(U, D, n + 1, zero)
  <2>1. ASSUME NEW o \in DOMAIN T.Waiting
        PROVE  T.Waiting[o] = Cardinality(Waiters(U.Deferred, o)) + Cardinality(Left(D, n + 1, o))
    <3>1. T.Waiting[o] = Cardinality(Waiters(T.Deferred, o)) + Cardinality(Left(D, n, o))
      BY <1>t DEF Waits
    <3>2. Cardinality(Waiters(U.Deferred, o)) = Cardinality(Waiters(T.Deferred, o)) + (IF d.Waiting = o THEN 1 ELSE 0)
      BY <1>1, <1>2, AppendWaiter
    <3>3. Cardinality(Left(D, n, o)) = Cardinality(Left(D, n + 1, o)) + (IF d.Waiting = o THEN 1 ELSE 0)
      BY LeftStep
    <3>4. Cardinality(Waiters(T.Deferred, o)) \in Nat /\ Cardinality(Left(D, n + 1, o)) \in Nat
      BY <1>1, WaitersFinite, LeftFinite, n + 1 \in Nat
    <3> QED
      BY <3>1, <3>2, <3>3, <3>4
  <2>2. ASSUME NEW i \in DOMAIN U.Deferred
        PROVE  U.Deferred[i].Waiting \in DOMAIN T.Waiting
    <3>1. d.Waiting \in DOMAIN T.Waiting
      BY <1>t, n + 1 \in n + 1 .. Len(D) DEF Waits
    <3>2. CASE i \in DOMAIN T.Deferred
      BY <1>t, <1>1, <1>2, <3>2, SeqAppend DEF Waits
    <3>3. CASE i = Len(T.Deferred) + 1
      BY <1>1, <1>2, <3>1, <3>3, SeqAppend
    <3>4. i \in DOMAIN T.Deferred \/ i = Len(T.Deferred) + 1
      BY <1>1, <1>2, SeqAppend
    <3> QED
      BY <3>2, <3>3, <3>4
  <2>3. \A i \in n + 1 + 1 .. Len(D) : i \in n + 1 .. Len(D)
    OBVIOUS
  <2> QED
    BY <1>t, <1>2, <2>1, <2>2, <2>3 DEF Waits
<1>5. Stamps(U, D, n + 1, given)
  <2>0. ~Kept(T, d.Event.Stamp) /\ ~Remains(D, n + 1, d.Event.Stamp) /\ d.Event.Stamp \notin DOMAIN T.counted
    BY <1>t, NextIsNew
  <2>2. \A i, j \in DOMAIN T.Deferred : T.Deferred[i].Event.Stamp = T.Deferred[j].Event.Stamp => i = j
    BY <1>t DEF Stamps
  <2>3. /\ \A r : Kept(U, r) <=> Kept(T, r) \/ r = d.Event.Stamp
        /\ ~Kept(T, d.Event.Stamp) /\ (\A i, j \in DOMAIN T.Deferred : T.Deferred[i].Event.Stamp = T.Deferred[j].Event.Stamp => i = j)
              => \A i, j \in DOMAIN U.Deferred : U.Deferred[i].Event.Stamp = U.Deferred[j].Event.Stamp => i = j
    BY <1>1, <1>2, KeepOneStamp
  <2>4. \A i, j \in DOMAIN U.Deferred : U.Deferred[i].Event.Stamp = U.Deferred[j].Event.Stamp => i = j
    BY <2>0, <2>2, <2>3
  <2>5. \A s : Remains(D, n, s) <=> Remains(D, n + 1, s) \/ s = d.Event.Stamp
    BY RemainsStep
  <2>6. \A i, j \in n + 1 + 1 .. Len(D) : D[i].Event.Stamp = D[j].Event.Stamp => i = j
    BY <1>t DEF Stamps
  <2>7. \A s \in DOMAIN U.counted : ~Kept(U, s) /\ ~Remains(D, n + 1, s) /\ Len(U.counted[s]) = 1
    BY <1>t, <1>2, <2>0, <2>3, <2>5 DEF Stamps
  <2>8. \A s : Kept(U, s) => ~Remains(D, n + 1, s)
    BY <1>t, <2>0, <2>3, <2>5 DEF Stamps
  <2>9. \A s : s \in given <=> (s \in DOMAIN U.counted \/ Kept(U, s) \/ Remains(D, n + 1, s))
    BY <1>t, <1>2, <2>3, <2>5 DEF Stamps
  <2> QED
    BY <2>4, <2>6, <2>7, <2>8, <2>9 DEF Stamps
<1> QED
  BY <1>3, <1>4, <1>5 DEF InLoop, U

\* The next element is counted: one operation fewer waits where it did.
LEMMA DropInLoop ==
  ASSUME NEW T, NEW D \in Seq(Entries), NEW n \in Nat, n < Len(D), NEW given, NEW limit, NEW zero,
         InLoop(T, D, n, given, limit, zero),
         NEW w,
         LET x == D[n + 1].Waiting
         IN  /\ \A o \in DOMAIN w : o \in DOMAIN T.Waiting /\ w[o] = T.Waiting[o] - (IF o = x THEN 1 ELSE 0)
             /\ \A o \in DOMAIN T.Waiting : o \in DOMAIN w \/ (o = x /\ T.Waiting[o] = 1)
             /\ x \in DOMAIN w => w[x] # 0 \/ x \in zero,
         NEW U, Counts([T EXCEPT !.Waiting = w], U, D[n + 1].Event.Stamp)
  PROVE  InLoop(U, D, n + 1, given, limit, zero)
<1> DEFINE d == D[n + 1]
           x == d.Waiting
<1>t. Types(T, limit) /\ Waits(T, D, n, zero) /\ Stamps(T, D, n, given)
  BY DEF InLoop
<1>1. d \in Entries /\ T.Deferred \in Seq(Entries)
  BY <1>t DEF Types
<1>2. /\ IsTable(U) /\ U.Deferred = T.Deferred /\ U.Waiting = w /\ U.Unnamed = T.Unnamed
      /\ U.Attempts = T.Attempts /\ U.NextToken = T.NextToken
      /\ \A a \in DOMAIN U.PendingOpens : a \in DOMAIN T.PendingOpens /\ U.PendingOpens[a] = T.PendingOpens[a]
      /\ DOMAIN U.counted = DOMAIN T.counted \cup {d.Event.Stamp}
      /\ \A r \in DOMAIN U.counted : Len(U.counted[r]) = 1
  <2> DEFINE V == [T EXCEPT !.Waiting = w]
  <2>1. /\ V.Deferred = T.Deferred /\ V.Waiting = w /\ V.Unnamed = T.Unnamed /\ V.Attempts = T.Attempts
        /\ V.NextToken = T.NextToken /\ V.PendingOpens = T.PendingOpens /\ V.counted = T.counted
    BY <1>t DEF Types, IsTable
  <2> HIDE DEF V
  <2>2. Counts(V, U, d.Event.Stamp)
    BY DEF V
  <2> QED
    BY <2>1, <2>2 DEF Counts, CountsOnly
<1>3. Types(U, limit)
  <2>1. DOMAIN w \subseteq DOMAIN T.Waiting
    OBVIOUS
  <2>2. Tokens(U) = Tokens(T)
    BY <1>2 DEF Tokens
  <2> QED
    BY <1>t, <1>2, <2>1, <2>2 DEF Types
<1>n. \A o : Cardinality(Waiters(T.Deferred, o)) \in Nat /\ Cardinality(Left(D, n + 1, o)) \in Nat
  BY <1>1, WaitersFinite, LeftFinite, n + 1 \in Nat
<1>c. \A o : Cardinality(Left(D, n, o)) = Cardinality(Left(D, n + 1, o)) + (IF x = o THEN 1 ELSE 0)
  BY LeftStep
<1>4. Waits(U, D, n + 1, zero)
  <2>1. ASSUME NEW o \in DOMAIN w
        PROVE  w[o] = Cardinality(Waiters(T.Deferred, o)) + Cardinality(Left(D, n + 1, o))
    <3>1. T.Waiting[o] = Cardinality(Waiters(T.Deferred, o)) + Cardinality(Left(D, n, o))
      BY <1>t DEF Waits
    <3>2. w[o] = T.Waiting[o] - (IF o = x THEN 1 ELSE 0)
      OBVIOUS
    <3> QED
      BY <3>1, <3>2, <1>n, <1>c
  <2>2. ASSUME NEW o \in DOMAIN w
        PROVE  w[o] # 0 \/ o \in zero
    <3>1. CASE o = x
      BY <3>1
    <3>2. CASE o # x
      <4>1. w[o] = T.Waiting[o] - 0 /\ (T.Waiting[o] # 0 \/ o \in zero)
        BY <3>2, <1>t DEF Waits
      <4>2. w[o] = T.Waiting[o]
        <5>1. T.Waiting[o] \in Nat
          <6>1. T.Waiting[o] = Cardinality(Waiters(T.Deferred, o)) + Cardinality(Left(D, n, o))
            BY <1>t DEF Waits
          <6> QED
            BY <6>1, <1>n, <1>c
        <5> QED
          BY <4>1, <5>1
      <4> QED
        BY <4>1, <4>2
    <3> QED
      BY <3>1, <3>2
  <2>3. ASSUME x \in DOMAIN T.Waiting, x \notin DOMAIN w
        PROVE  Waiters(T.Deferred, x) = {} /\ Left(D, n + 1, x) = {}
    <3>1. T.Waiting[x] = 1
      BY <2>3
    <3>2. T.Waiting[x] = Cardinality(Waiters(T.Deferred, x)) + Cardinality(Left(D, n, x))
      BY <1>t, <2>3 DEF Waits
    <3>3. Cardinality(Left(D, n, x)) = Cardinality(Left(D, n + 1, x)) + 1
      BY <1>c
    <3>4. Cardinality(Waiters(T.Deferred, x)) = 0 /\ Cardinality(Left(D, n + 1, x)) = 0
      BY <3>1, <3>2, <3>3, <1>n
    <3>5. IsFiniteSet(Waiters(T.Deferred, x)) /\ IsFiniteSet(Left(D, n + 1, x))
      BY <1>1, WaitersFinite, LeftFinite, n + 1 \in Nat
    <3> QED
      BY <3>4, <3>5, FS_EmptySet
  <2>4. ASSUME NEW i \in DOMAIN T.Deferred
        PROVE  T.Deferred[i].Waiting \in DOMAIN w
    <3>1. T.Deferred[i].Waiting \in DOMAIN T.Waiting
      BY <1>t DEF Waits
    <3>2. i \in Waiters(T.Deferred, T.Deferred[i].Waiting)
      BY DEF Waiters
    <3> QED
      BY <3>1, <3>2, <2>3
  <2>5. ASSUME NEW i \in n + 1 + 1 .. Len(D)
        PROVE  D[i].Waiting \in DOMAIN w
    <3>1. D[i].Waiting \in DOMAIN T.Waiting
      BY <1>t, i \in n + 1 .. Len(D) DEF Waits
    <3>2. i \in Left(D, n + 1, D[i].Waiting)
      BY DEF Left
    <3> QED
      BY <3>1, <3>2, <2>3
  <2> QED
    BY <1>2, <2>1, <2>2, <2>4, <2>5 DEF Waits
<1>5. Stamps(U, D, n + 1, given)
  <2>0. ~Kept(T, d.Event.Stamp) /\ ~Remains(D, n + 1, d.Event.Stamp) /\ d.Event.Stamp \notin DOMAIN T.counted
    BY <1>t, NextIsNew
  <2>1. \A s : Kept(U, s) <=> Kept(T, s)
    BY <1>2 DEF Kept
  <2>5. \A s : Remains(D, n, s) <=> Remains(D, n + 1, s) \/ s = d.Event.Stamp
    BY RemainsStep
  <2>6. \A i, j \in n + 1 + 1 .. Len(D) : D[i].Event.Stamp = D[j].Event.Stamp => i = j
    BY <1>t DEF Stamps
  <2>7. \A s \in DOMAIN U.counted : ~Kept(U, s) /\ ~Remains(D, n + 1, s) /\ Len(U.counted[s]) = 1
    BY <1>t, <1>2, <2>0, <2>1, <2>5 DEF Stamps
  <2>8. \A s : Kept(U, s) => ~Remains(D, n + 1, s)
    BY <1>t, <2>1, <2>5 DEF Stamps
  <2>9. \A s : s \in given <=> (s \in DOMAIN U.counted \/ Kept(U, s) \/ Remains(D, n + 1, s))
    BY <1>t, <1>2, <2>1, <2>5 DEF Stamps
  <2>10. \A i, j \in DOMAIN U.Deferred : U.Deferred[i].Event.Stamp = U.Deferred[j].Event.Stamp => i = j
    BY <1>t, <1>2 DEF Stamps
  <2> QED
    BY <2>6, <2>7, <2>8, <2>9, <2>10 DEF Stamps
<1> QED
  BY <1>3, <1>4, <1>5 DEF InLoop

-----------------------------------------------------------------------------
(* FlushWaiting. *)

\* The first table: nothing is kept and all is left.
LEMMA LoopStarts ==
  ASSUME NEW T, NEW given, NEW low, Types(T, low), Waits(T, <<>>, 0, {}), Stamps(T, <<>>, 0, given),
         NEW U, NEW limit, NEW zero, Types(U, limit),
         U.Deferred = <<>>, U.Waiting = T.Waiting, U.counted = T.counted
  PROVE  InLoop(U, T.Deferred, 0, given, limit, zero)
<1> DEFINE D == T.Deferred
<1>1. D \in Seq(Entries)
  BY DEF Types
<1>2. \A o : Left(D, 0, o) = Waiters(D, o) /\ Waiters(<<>>, o) = {}
  BY <1>1 DEF Left, Waiters
<1>3. \A o : Cardinality(Waiters(D, o)) \in Nat
  BY <1>1, WaitersFinite
<1>4. Waits(U, D, 0, zero)
  <2>1. ASSUME NEW o \in DOMAIN T.Waiting
        PROVE  /\ T.Waiting[o] = Cardinality(Waiters(<<>>, o)) + Cardinality(Left(D, 0, o))
               /\ T.Waiting[o] # 0
    <3>1. T.Waiting[o] = Cardinality(Waiters(D, o)) + 0 /\ T.Waiting[o] # 0
      BY NothingLeft DEF Waits
    <3> QED
      <4>1. Cardinality(Waiters(<<>>, o)) = 0
        BY <1>2, FS_EmptySet
      <4>2. Cardinality(Left(D, 0, o)) = Cardinality(Waiters(D, o))
        BY <1>2
      <4> QED
        BY <1>3, <3>1, <4>1, <4>2
  <2>2. \A i \in 0 + 1 .. Len(D) : D[i].Waiting \in DOMAIN T.Waiting
    BY <1>1 DEF Waits
  <2> QED
    BY <2>1, <2>2 DEF Waits
<1>5. Stamps(U, D, 0, given)
  <2>1. \A s : ~Kept(U, s)
    BY DEF Kept
  <2>2. \A s : Remains(D, 0, s) <=> Kept(T, s)
    BY <1>1 DEF Kept, Remains
  <2>3. \A i, j \in 0 + 1 .. Len(D) : D[i].Event.Stamp = D[j].Event.Stamp => i = j
    BY <1>1 DEF Stamps
  <2>4. \A i, j \in DOMAIN U.Deferred : U.Deferred[i].Event.Stamp = U.Deferred[j].Event.Stamp => i = j
    OBVIOUS
  <2>5. \A s \in DOMAIN U.counted : ~Kept(U, s) /\ ~Remains(D, 0, s) /\ Len(U.counted[s]) = 1
    BY <2>1, <2>2 DEF Stamps
  <2>6. \A s : s \in given <=> (s \in DOMAIN U.counted \/ Kept(U, s) \/ Remains(D, 0, s))
    BY <2>1, <2>2, NothingLeft DEF Stamps
  <2> QED
    BY <2>1, <2>3, <2>4, <2>5, <2>6 DEF Stamps
<1> QED
  BY <1>4, <1>5 DEF InLoop

\* The last: nothing is left.
LEMMA LoopEnds ==
  ASSUME NEW T, NEW D \in Seq(Entries), NEW given, NEW limit, NEW zero, InLoop(T, D, Len(D), given, limit, zero)
  PROVE  /\ Types(T, limit)
         /\ Waits(T, <<>>, 0, zero)
         /\ Stamps(T, <<>>, 0, given)
<1>1. Len(D) + 1 .. Len(D) = {} /\ 0 + 1 .. Len(<<>>) = {}
  OBVIOUS
<1>2. \A o : Left(D, Len(D), o) = {} /\ Left(<<>>, 0, o) = {}
  BY <1>1 DEF Left
<1>3. \A s : ~Remains(D, Len(D), s) /\ ~Remains(<<>>, 0, s)
  BY <1>1 DEF Remains
<1>4. Waits(T, <<>>, 0, zero)
  BY <1>1, <1>2 DEF InLoop, Waits
<1>5. Stamps(T, <<>>, 0, given)
  BY <1>1, <1>3 DEF InLoop, Stamps
<1> QED
  BY <1>4, <1>5 DEF InLoop

-----------------------------------------------------------------------------
FlushLoop(g, T, n, object, given) ==
    /\ InLoop(g, T.Deferred, n, given, MaxAttempts, {object})
    /\ DOMAIN g.Waiting = DOMAIN T.Waiting
    /\ g.Unnamed = T.Unnamed
    /\ g.NextToken = T.NextToken
    /\ g.Attempts = Put(T.Attempts, object, MaxAttempts)

\* A step of FlushWaiting.
LEMMA FlushOneKeeps ==
  ASSUME NEW T, T.Deferred \in Seq(Entries), NEW n \in Nat, n < Len(T.Deferred), NEW given,
         NEW object \in DOMAIN T.Waiting, NEW stamp, NEW g, FlushLoop(g, T, n, object, given)
  PROVE  FlushLoop(FlushOne(g, T.Deferred[n + 1], object, stamp), T, n + 1, object, given)
<1> DEFINE d == T.Deferred[n + 1]
           name == IF IsOpen(d.Event) THEN UnnamedBase(object, d.Event.Name) ELSE NoName
           U == FlushOne(g, d, object, stamp)
           w == [g.Waiting EXCEPT ![object] = @ - 1]
           V == [g EXCEPT !.Waiting = w]
<1>t. InLoop(g, T.Deferred, n, given, MaxAttempts, {object}) /\ DOMAIN g.Waiting = DOMAIN T.Waiting
  BY DEF FlushLoop
<1>g. IsTable(g)
  BY <1>t DEF InLoop, Types
<1>1. \/ U = [g EXCEPT !.Deferred = Append(@, d)]
      \/ d.Waiting = object /\ U = Count(V, d.Event, name, d.Tick, TRUE)
  BY DEF FlushOne
<1> HIDE DEF U
<1>2. CASE U = [g EXCEPT !.Deferred = Append(@, d)]
  <2>1. InLoop(U, T.Deferred, n + 1, given, MaxAttempts, {object})
    BY <1>t, <1>2, KeepInLoop
  <2>2. U.Waiting = g.Waiting /\ U.Unnamed = g.Unnamed /\ U.NextToken = g.NextToken /\ U.Attempts = g.Attempts
    BY <1>2, <1>g DEF IsTable
  <2> QED
    BY <2>1, <2>2 DEF FlushLoop, U
<1>3. CASE d.Waiting = object /\ U = Count(V, d.Event, name, d.Tick, TRUE)
  <2>1. /\ IsTable(V) /\ V.Waiting = w /\ V.counted = g.counted /\ V.Unnamed = g.Unnamed
        /\ V.NextToken = g.NextToken /\ V.Attempts = g.Attempts
    BY <1>g DEF IsTable
  <2>w. DOMAIN w = DOMAIN g.Waiting
    OBVIOUS
  <2>2. d.Event.Stamp \notin DOMAIN g.counted /\ \A s \in DOMAIN g.counted : Len(g.counted[s]) = 1
    BY <1>t, NextIsNew DEF InLoop, Stamps
  <2> HIDE DEF V, d, name, w
  <2>3. Counts(V, U, d.Event.Stamp)
    BY <1>3, <2>1, <2>2, CountCounts
  <2>4. /\ \A o \in DOMAIN w : o \in DOMAIN g.Waiting /\ w[o] = g.Waiting[o] - (IF o = object THEN 1 ELSE 0)
        /\ \A o \in DOMAIN g.Waiting : o \in DOMAIN w
    <3>1. \A o \in DOMAIN g.Waiting : g.Waiting[o] \in Nat
      <4>1. g.Deferred \in Seq(Entries)
        BY <1>t DEF InLoop, Types
      <4>2. \A o : Cardinality(Waiters(g.Deferred, o)) \in Nat /\ Cardinality(Left(T.Deferred, n, o)) \in Nat
        BY <4>1, WaitersFinite, LeftFinite
      <4> QED
        BY <1>t, <4>2 DEF InLoop, Waits
    <3> QED
      BY <3>1 DEF w
  <2>5. InLoop(U, T.Deferred, n + 1, given, MaxAttempts, {object})
    BY <1>t, <1>3, <2>3, <2>4, DropInLoop DEF V, d
  <2>6. U.Waiting = V.Waiting /\ U.Unnamed = V.Unnamed /\ U.NextToken = V.NextToken /\ U.Attempts = V.Attempts
    BY <2>3 DEF Counts, CountsOnly
  <2> QED
    BY <2>1, <2>w, <2>5, <2>6 DEF FlushLoop, U, d
<1> QED
  BY <1>1, <1>2, <1>3

\* The tables of FlushWaiting, from the first to the last.
LEMMA FlushLoops ==
  ASSUME NEW T, NEW given, Sound(T, given), NEW object \in DOMAIN T.Waiting, object \in Addresses, NEW stamp
  PROVE  \A n \in 0 .. Len(T.Deferred) : FlushLoop(Flushed(T, object, stamp)[n], T, n, object, given)
<1> DEFINE D == T.Deferred
           f == Flushed(T, object, stamp)
<1>t. Types(T, MaxAttempts - 1) /\ Waits(T, <<>>, 0, {}) /\ Stamps(T, <<>>, 0, given)
  BY DEF Sound
<1>d. D \in Seq(Entries)
  BY <1>t DEF Types
<1> DEFINE S == {n \in Nat : n <= Len(D) => FlushLoop(f[n], T, n, object, given)}
           start == [T EXCEPT !.Attempts = Put(@, object, MaxAttempts), !.Deferred = <<>>]
<1>2. /\ f[0] = start
      /\ \A n \in 0 .. Len(D) - 1 : f[n + 1] = FlushOne(f[n], D[n + 1], object, stamp)
  <2>1. FlushSteps(f, T, object, stamp)
    BY <1>d, FlushedSteps
  <2> QED
    BY <2>1 DEF FlushSteps
<1> HIDE DEF f
<1>3. FlushLoop(start, T, 0, object, given)
  <2> DEFINE tries == Put(T.Attempts, object, MaxAttempts)
  <2>a. start = [T EXCEPT !.Attempts = tries, !.Deferred = <<>>]
    OBVIOUS
  <2> HIDE DEF tries, start
  <2>1. start = [Rows |-> T.Rows, Names |-> T.Names, Deferred |-> <<>>, Waiting |-> T.Waiting, Unnamed |-> T.Unnamed,
                 Attempts |-> tries, PendingOpens |-> T.PendingOpens, NextToken |-> T.NextToken, counted |-> T.counted]
    BY <1>t, <2>a DEF Types, IsTable
  <2>2. /\ IsTable(start) /\ start.Deferred = <<>> /\ start.Waiting = T.Waiting /\ start.Unnamed = T.Unnamed
        /\ start.Attempts = tries /\ start.PendingOpens = T.PendingOpens /\ start.NextToken = T.NextToken
        /\ start.counted = T.counted
    BY <2>1 DEF IsTable
  <2>3. DOMAIN tries \subseteq Addresses /\ \A a \in DOMAIN tries : tries[a] \in 1 .. MaxAttempts
    BY <1>t, TableAssumption DEF tries, Put, Types
  <2>4. Types(start, MaxAttempts)
    <3>1. Tokens(start) = Tokens(T)
      BY <2>2 DEF Tokens
    <3>2. <<>> \in Seq(Entries)
      OBVIOUS
    <3> QED
      BY <1>t, <2>2, <2>3, <3>1, <3>2 DEF Types
  <2>5. InLoop(start, D, 0, given, MaxAttempts, {object})
    BY <1>t, <2>2, <2>4, LoopStarts
  <2> QED
    BY <2>2, <2>5 DEF FlushLoop, tries
<1>4. 0 \in S
  BY <1>2, <1>3
<1>5. \A n \in 0 .. Len(D) - 1 : n \in S => n + 1 \in S
  <2> SUFFICES ASSUME NEW n \in 0 .. Len(D) - 1, n \in S PROVE n + 1 \in S
    OBVIOUS
  <2>1. n \in Nat /\ n < Len(D) /\ FlushLoop(f[n], T, n, object, given)
    BY <1>d
  <2>2. FlushLoop(FlushOne(f[n], D[n + 1], object, stamp), T, n + 1, object, given)
    BY <1>d, <2>1, FlushOneKeeps
  <2> QED
    BY <1>2, <2>1, <2>2
<1> HIDE DEF S
<1>6. Len(D) \in Nat
  BY <1>d
<1>7. 0 .. Len(D) \subseteq S
  BY <1>4, <1>5, <1>6, UpTo
<1>8. \A n \in 0 .. Len(D) : n \in Nat /\ n <= Len(D)
  BY <1>6
<1> QED
  BY <1>7, <1>8 DEF S, f

\* What waited on a reused address from before is counted; the rest is as it was.
LEMMA FlushKeeps ==
  ASSUME NEW T, NEW given, Sound(T, given), NEW object \in Addresses, NEW stamp
  PROVE  LET U == FlushWaiting(T, object, stamp)
         IN  /\ Types(U, MaxAttempts)
             /\ Waits(U, <<>>, 0, {})
             /\ Stamps(U, <<>>, 0, given)
             /\ Sought(T, U)
             /\ U.NextToken = T.NextToken
             /\ U.Attempts = T.Attempts \/ U.Attempts = Put(T.Attempts, object, MaxAttempts)
<1> DEFINE U == FlushWaiting(T, object, stamp)
           D == T.Deferred
           f == Flushed(T, object, stamp)
           done == f[Len(D)]
           w == IF done.Waiting[object] = 0 THEN Without(done.Waiting, {object}) ELSE done.Waiting
<1>t. Types(T, MaxAttempts - 1) /\ Waits(T, <<>>, 0, {}) /\ Stamps(T, <<>>, 0, given)
  BY DEF Sound
<1>d. D \in Seq(Entries)
  BY <1>t DEF Types
<1>1. CASE object \notin DOMAIN T.Waiting
  <2>1. U = T
    BY <1>1 DEF FlushWaiting
  <2>2. Types(T, MaxAttempts)
    <3>1. \A k : k \in 1 .. MaxAttempts - 1 => k \in 1 .. MaxAttempts
      BY TableAssumption
    <3> QED
      BY <1>t, <3>1 DEF Types
  <2> HIDE DEF U
  <2> QED
    BY <1>t, <2>1, <2>2 DEF U, Sought
<1>2. CASE object \in DOMAIN T.Waiting
  <2>1. U = [done EXCEPT !.Waiting = w]
    BY <1>2 DEF FlushWaiting
  <2> HIDE DEF U, w, done
  <2>7. FlushLoop(done, T, Len(D), object, given)
    <3>1. Len(D) \in 0 .. Len(D)
      BY <1>d
    <3> QED
      BY <1>2, <3>1, FlushLoops DEF done
  <2>8. /\ Types(done, MaxAttempts) /\ Waits(done, <<>>, 0, {object}) /\ Stamps(done, <<>>, 0, given)
        /\ DOMAIN done.Waiting = DOMAIN T.Waiting /\ done.Unnamed = T.Unnamed /\ done.NextToken = T.NextToken
        /\ done.Attempts = Put(T.Attempts, object, MaxAttempts)
    BY <1>d, <2>7, LoopEnds DEF FlushLoop
  <2>9. /\ IsTable(U) /\ U.Deferred = done.Deferred /\ U.Waiting = w /\ U.Unnamed = done.Unnamed
        /\ U.Attempts = done.Attempts /\ U.PendingOpens = done.PendingOpens /\ U.NextToken = done.NextToken
        /\ U.counted = done.counted
    BY <2>1, <2>8 DEF Types, IsTable
  <2>10. /\ DOMAIN w \subseteq DOMAIN done.Waiting
         /\ \A o \in DOMAIN w : w[o] = done.Waiting[o]
         /\ \A o \in DOMAIN done.Waiting : o \notin DOMAIN w <=> o = object /\ done.Waiting[o] = 0
    BY <1>2, <2>8 DEF w, Without
  <2>11. Types(U, MaxAttempts) /\ Sought(T, U)
    <3>1. Tokens(U) = Tokens(done)
      BY <2>9 DEF Tokens
    <3> QED
      BY <2>8, <2>9, <2>10, <3>1 DEF Types, Sought
  <2>12. Waits(U, <<>>, 0, {})
    <3>1. done.Deferred \in Seq(Entries)
      BY <2>8 DEF Types
    <3>2. \A o : Cardinality(Waiters(done.Deferred, o)) \in Nat /\ IsFiniteSet(Waiters(done.Deferred, o))
      BY <3>1, WaitersFinite
    <3>3. \A o \in DOMAIN done.Waiting : done.Waiting[o] = Cardinality(Waiters(done.Deferred, o))
      BY <2>8, <3>2, NothingLeft DEF Waits
    <3>4. ASSUME NEW i \in DOMAIN done.Deferred
          PROVE  done.Deferred[i].Waiting \in DOMAIN w
      <4>1. done.Deferred[i].Waiting \in DOMAIN done.Waiting
        BY <2>8 DEF Waits
      <4>2. i \in Waiters(done.Deferred, done.Deferred[i].Waiting)
        BY DEF Waiters
      <4>3. Cardinality(Waiters(done.Deferred, done.Deferred[i].Waiting)) # 0
        BY <4>2, <3>2, FS_EmptySet
      <4> QED
        BY <4>1, <4>3, <3>3, <2>10
    <3>5. ASSUME NEW o \in DOMAIN w
          PROVE  w[o] = Cardinality(Waiters(done.Deferred, o)) /\ w[o] # 0
      <4>1. o \in DOMAIN done.Waiting /\ w[o] = done.Waiting[o]
        BY <2>10
      <4>2. done.Waiting[o] # 0 \/ o = object
        BY <2>8, <4>1 DEF Waits
      <4> QED
        BY <4>1, <4>2, <3>3, <2>10
    <3>6. \A i \in 0 + 1 .. Len(<<>>) : FALSE
      OBVIOUS
    <3> QED
      BY <3>2, <3>4, <3>5, <3>6, <2>9, NothingLeft DEF Waits
  <2>13. Stamps(U, <<>>, 0, given)
    <3>1. \A s : Kept(U, s) <=> Kept(done, s)
      BY <2>9 DEF Kept
    <3> QED
      BY <2>8, <2>9, <3>1 DEF Stamps
  <2> QED
    BY <2>8, <2>9, <2>11, <2>12, <2>13 DEF U
<1> QED
  BY <1>1, <1>2

-----------------------------------------------------------------------------
(* ApplyDeferred. *)

ApplyLoop(g, T, n, given) ==
    /\ InLoop(g, T.Deferred, n, given, MaxAttempts, {})
    /\ g.NextToken = T.NextToken
    /\ g.Attempts = T.Attempts
    /\ \A i \in DOMAIN g.Deferred : ~GaveUp(T, g.Deferred[i].Waiting)

\* A name that is used is given the tick of its use.
LEMMA NameTouched ==
  ASSUME NEW T, IsTable(T), NEW names
  PROVE  CountsOnly(T, [T EXCEPT !.Names = names]) /\ [T EXCEPT !.Names = names].counted = T.counted
  BY DEF IsTable, CountsOnly

\* An operation that is ready is counted once, whatever it is.
LEMMA ApplyOneCounts ==
  ASSUME NEW g, IsTable(g), NEW d, IsReady(g, d), d.Event.Stamp \notin DOMAIN g.counted,
         \A s \in DOMAIN g.counted : Len(g.counted[s]) = 1
  PROVE  Counts([g EXCEPT !.Waiting = NoLongerWaiting(@, d.Waiting, 1)], ApplyOne(g, d), d.Event.Stamp)
<1> DEFINE e == d.Event
           text == IF HasOpenName(g, e) THEN OpenName(g, e) ELSE UnnamedBase(e.BaseObject, e.Name)
           takes == e.KeyObject \in DOMAIN g.PendingOpens /\ g.PendingOpens[e.KeyObject] = d.Token
           w == NoLongerWaiting(g.Waiting, d.Waiting, 1)
           V == [g EXCEPT !.Waiting = w]
           names == [V.Names EXCEPT ![d.Waiting].Tick = Latest(@, d.Tick)]
           W == [V EXCEPT !.Names = names]
           U == ApplyOne(g, d)
<1>1. \/ U = NameToken(Count(V, e, text, d.Tick, takes), d, text, d.Tick)
      \/ U = Count(W, e, g.Names[d.Waiting].Text, d.Tick, TRUE)
      \/ U = Count(V, e, NoName, d.Tick, TRUE)
  BY DEF ApplyOne
<1>2. IsTable(V) /\ V.counted = g.counted
  BY DEF IsTable
<1> HIDE DEF V, U, text, takes, names
<1>3. \A name, b : Counts(V, Count(V, e, name, d.Tick, b), e.Stamp)
  BY <1>2, CountCounts
<1>4. CASE U = NameToken(Count(V, e, text, d.Tick, takes), d, text, d.Tick)
  BY <1>3, <1>4, NameTokenCounts DEF U, V
<1>5. CASE U = Count(V, e, NoName, d.Tick, TRUE)
  BY <1>3, <1>5 DEF U, V
<1>6. CASE U = Count(W, e, g.Names[d.Waiting].Text, d.Tick, TRUE)
  <2>1. CountsOnly(V, W) /\ W.counted = V.counted
    BY <1>2, NameTouched
  <2> HIDE DEF W
  <2>2. IsTable(W)
    BY <2>1 DEF CountsOnly
  <2>3. Counts(W, U, e.Stamp)
    BY <1>2, <1>6, <2>1, <2>2, CountCounts
  <2>4. Counts(V, U, e.Stamp)
    BY <2>1, <2>3 DEF Counts, CountsOnly
  <2> QED
    BY <2>4 DEF U, V
<1> QED
  BY <1>1, <1>4, <1>5, <1>6

\* A step of ApplyDeferred.
LEMMA ApplyOneKeeps ==
  ASSUME NEW T, T.Deferred \in Seq(Entries), NEW n \in Nat, n < Len(T.Deferred), NEW given,
         NEW g, ApplyLoop(g, T, n, given)
  PROVE  ApplyLoop(ApplyOne(g, T.Deferred[n + 1]), T, n + 1, given)
<1> DEFINE D == T.Deferred
           d == D[n + 1]
           w == NoLongerWaiting(g.Waiting, d.Waiting, 1)
           V == [g EXCEPT !.Waiting = w]
           U == ApplyOne(g, d)
<1>t. /\ InLoop(g, D, n, given, MaxAttempts, {}) /\ IsTable(g) /\ g.Attempts = T.Attempts
      /\ d \in Entries /\ g.Deferred \in Seq(Entries)
  BY DEF ApplyLoop, InLoop, Types
<1>1. CASE ~IsReady(g, d)
  <2>1. U = [g EXCEPT !.Deferred = Append(@, d)]
    BY <1>1 DEF ApplyOne
  <2> HIDE DEF U
  <2>2. InLoop(U, D, n + 1, given, MaxAttempts, {})
    BY <1>t, <2>1, KeepInLoop
  <2>3. U.NextToken = g.NextToken /\ U.Attempts = g.Attempts /\ U.Deferred = Append(g.Deferred, d)
    BY <2>1, <1>t DEF IsTable
  <2>4. ~GaveUp(T, d.Waiting)
    BY <1>1, <1>t DEF IsReady, GaveUp
  <2>5. ASSUME NEW i \in DOMAIN U.Deferred
        PROVE  ~GaveUp(T, U.Deferred[i].Waiting)
    <3>1. CASE i \in DOMAIN g.Deferred
      BY <1>t, <2>3, <3>1, SeqAppend DEF ApplyLoop
    <3>2. CASE i = Len(g.Deferred) + 1
      BY <1>t, <2>3, <2>4, <3>2, SeqAppend
    <3>3. i \in DOMAIN g.Deferred \/ i = Len(g.Deferred) + 1
      BY <1>t, <2>3, SeqAppend
    <3> QED
      BY <3>1, <3>2, <3>3
  <2> QED
    BY <2>2, <2>3, <2>5 DEF ApplyLoop, U
<1>2. CASE IsReady(g, d)
  <2>1. d.Event.Stamp \notin DOMAIN g.counted /\ \A s \in DOMAIN g.counted : Len(g.counted[s]) = 1
    BY <1>t, NextIsNew DEF InLoop, Stamps
  <2> HIDE DEF U, d, w
  <2>2. Counts(V, U, d.Event.Stamp)
    BY <1>t, <1>2, <2>1, ApplyOneCounts DEF U, w
  <2>3. d.Waiting \in DOMAIN g.Waiting
    BY <1>t, n + 1 \in n + 1 .. Len(D) DEF InLoop, Waits, d
  <2>4. \A o \in DOMAIN g.Waiting : g.Waiting[o] \in Nat /\ g.Waiting[o] # 0
    <3>1. \A o : Cardinality(Waiters(g.Deferred, o)) \in Nat /\ Cardinality(Left(D, n, o)) \in Nat
      BY <1>t, WaitersFinite, LeftFinite
    <3> QED
      BY <1>t, <3>1 DEF InLoop, Waits
  <2>5. /\ \A o \in DOMAIN w : o \in DOMAIN g.Waiting /\ w[o] = g.Waiting[o] - (IF o = d.Waiting THEN 1 ELSE 0)
        /\ \A o \in DOMAIN g.Waiting : o \in DOMAIN w \/ (o = d.Waiting /\ g.Waiting[o] = 1)
        /\ d.Waiting \in DOMAIN w => w[d.Waiting] # 0
    <3>1. CASE g.Waiting[d.Waiting] = 1
      <4>1. w = Without(g.Waiting, {d.Waiting})
        BY <3>1 DEF w, NoLongerWaiting
      <4> QED
        BY <3>1, <4>1, <2>4 DEF Without
    <3>2. CASE g.Waiting[d.Waiting] # 1
      <4>1. w = [g.Waiting EXCEPT ![d.Waiting] = g.Waiting[d.Waiting] - 1]
        BY <3>2 DEF w, NoLongerWaiting
      <4> QED
        BY <3>2, <4>1, <2>3, <2>4
    <3> QED
      BY <3>1, <3>2
  <2>6. InLoop(U, D, n + 1, given, MaxAttempts, {})
    BY <1>t, <2>2, <2>5, DropInLoop DEF d
  <2>7. /\ V.NextToken = g.NextToken /\ V.Attempts = g.Attempts /\ V.Deferred = g.Deferred
    BY <1>t DEF IsTable
  <2> HIDE DEF V
  <2>8. U.NextToken = g.NextToken /\ U.Attempts = g.Attempts /\ U.Deferred = g.Deferred
    BY <2>2, <2>7 DEF Counts, CountsOnly
  <2> QED
    BY <2>6, <2>8 DEF ApplyLoop, U, d
<1> QED
  BY <1>1, <1>2

\* The tables of ApplyDeferred, from the first to the last.
LEMMA ApplyLoops ==
  ASSUME NEW T, NEW given, Types(T, MaxAttempts), Waits(T, <<>>, 0, {}), Stamps(T, <<>>, 0, given)
  PROVE  \A n \in 0 .. Len(T.Deferred) : ApplyLoop(Applied(T)[n], T, n, given)
<1> DEFINE D == T.Deferred
           f == Applied(T)
           start == [T EXCEPT !.Deferred = <<>>]
           S == {n \in Nat : n <= Len(D) => ApplyLoop(f[n], T, n, given)}
<1>d. D \in Seq(Entries)
  BY DEF Types
<1>2. ApplySteps(f, T)
  BY <1>d, AppliedSteps
<1> HIDE DEF f
<1>3. ApplyLoop(start, T, 0, given)
  <2>2. /\ IsTable(start) /\ start.Deferred = <<>> /\ start.Waiting = T.Waiting /\ start.Unnamed = T.Unnamed
        /\ start.Attempts = T.Attempts /\ start.PendingOpens = T.PendingOpens /\ start.NextToken = T.NextToken
        /\ start.counted = T.counted
    BY DEF Types, IsTable
  <2> HIDE DEF start
  <2>3. Types(start, MaxAttempts)
    <3>1. Tokens(start) = Tokens(T) /\ <<>> \in Seq(Entries)
      BY <2>2 DEF Tokens
    <3> QED
      BY <2>2, <3>1 DEF Types
  <2>4. InLoop(start, D, 0, given, MaxAttempts, {})
    BY <2>2, <2>3, LoopStarts
  <2> QED
    BY <2>2, <2>4 DEF ApplyLoop
<1> HIDE DEF start
<1>4. 0 \in S
  BY <1>2, <1>3 DEF ApplySteps, start
<1>5. \A n \in 0 .. Len(D) - 1 : n \in S => n + 1 \in S
  <2> SUFFICES ASSUME NEW n \in 0 .. Len(D) - 1, n \in S PROVE n + 1 \in S
    OBVIOUS
  <2>1. n \in Nat /\ n < Len(D) /\ ApplyLoop(f[n], T, n, given)
    BY <1>d
  <2>2. ApplyLoop(ApplyOne(f[n], D[n + 1]), T, n + 1, given)
    BY <1>d, <2>1, ApplyOneKeeps
  <2>3. f[n + 1] = ApplyOne(f[n], D[n + 1])
    BY <1>2 DEF ApplySteps
  <2> QED
    BY <2>1, <2>2, <2>3
<1>6. Len(D) \in Nat
  BY <1>d
<1> HIDE DEF S
<1>7. 0 .. Len(D) \subseteq S
  BY <1>4, <1>5, <1>6, UpTo
<1>8. \A n \in 0 .. Len(D) : n \in Nat /\ n <= Len(D)
  BY <1>6
<1> QED
  BY <1>7, <1>8 DEF S, f

\* A pass counts what can be, and leaves the rest to the next.
LEMMA ApplyKeeps ==
  ASSUME NEW T, NEW given, Types(T, MaxAttempts), Waits(T, <<>>, 0, {}), Stamps(T, <<>>, 0, given)
  PROVE  LET U == ApplyDeferred(T)
         IN  /\ Types(U, MaxAttempts)
             /\ Waits(U, <<>>, 0, {})
             /\ Stamps(U, <<>>, 0, given)
             /\ \A o \in DOMAIN U.Waiting : IsToken(o) \/ o \in U.Unnamed
             /\ \A o \in DOMAIN U.Waiting : ~GaveUp(U, o)
<1> DEFINE U == ApplyDeferred(T)
           D == T.Deferred
           f == Applied(T)
           done == f[Len(D)]
           more == done.Unnamed \cup {o \in DOMAIN done.Waiting : ~IsToken(o)}
<1>d. D \in Seq(Entries)
  BY DEF Types
<1>1. U = [done EXCEPT !.Unnamed = more]
  BY DEF ApplyDeferred
<1> HIDE DEF U, more, done
<1>6. ApplyLoop(done, T, Len(D), given)
  <2>1. Len(D) \in 0 .. Len(D)
    BY <1>d
  <2> QED
    BY <2>1, ApplyLoops DEF done
<1>7. Types(done, MaxAttempts) /\ Waits(done, <<>>, 0, {}) /\ Stamps(done, <<>>, 0, given)
  BY <1>d, <1>6, LoopEnds DEF ApplyLoop
<1>8. /\ IsTable(U) /\ U.Deferred = done.Deferred /\ U.Waiting = done.Waiting /\ U.Unnamed = more
      /\ U.Attempts = done.Attempts /\ U.PendingOpens = done.PendingOpens /\ U.NextToken = done.NextToken
      /\ U.counted = done.counted
  BY <1>1, <1>7 DEF Types, IsTable
<1>9. Types(U, MaxAttempts)
  <2>1. Tokens(U) = Tokens(done)
    BY <1>8 DEF Tokens
  <2>2. more \subseteq Addresses
    BY <1>7, TableAssumption DEF more, Types, Tokens, IsToken
  <2> QED
    BY <1>7, <1>8, <2>1, <2>2 DEF Types
<1>10. Waits(U, <<>>, 0, {})
  BY <1>7, <1>8 DEF Waits
<1>11. Stamps(U, <<>>, 0, given)
  <2>1. \A s : Kept(U, s) <=> Kept(done, s)
    BY <1>8 DEF Kept
  <2> QED
    BY <1>7, <1>8, <2>1 DEF Stamps
<1>12. \A o \in DOMAIN U.Waiting : IsToken(o) \/ o \in U.Unnamed
  BY <1>8 DEF more
<1>13. ASSUME NEW o \in DOMAIN U.Waiting
       PROVE  ~GaveUp(U, o)
  <2>1. done.Deferred \in Seq(Entries)
    BY <1>7 DEF Types
  <2>2. done.Waiting[o] # 0 /\ done.Waiting[o] = Cardinality(Waiters(done.Deferred, o))
    BY <1>7, <1>8, <2>1, WaitersFinite, NothingLeft DEF Waits
  <2>3. PICK i \in DOMAIN done.Deferred : done.Deferred[i].Waiting = o
    BY <2>2, FS_EmptySet DEF Waiters
  <2>4. ~GaveUp(T, o)
    BY <1>6, <2>3 DEF ApplyLoop
  <2> QED
    BY <1>6, <1>8, <2>4 DEF ApplyLoop, GaveUp
<1> QED
  BY <1>9, <1>10, <1>11, <1>12, <1>13 DEF U

-----------------------------------------------------------------------------
(* OnEvent. *)

\* Sought is transitive.
LEMMA SoughtTwice ==
  ASSUME NEW T, NEW U, NEW V, Sought(T, U), Sought(U, V)
  PROVE  Sought(T, V)
  BY DEF Sought

\* A sound table is a table.
LEMMA SoundTable == ASSUME NEW T, NEW given, Sound(T, given) PROVE IsTable(T)
  BY DEF Sound, Types

\* What is not named here is of no interest to the counting.
LEMMA SameCounting ==
  ASSUME NEW T, NEW given, Sound(T, given), NEW U, IsTable(U),
         U.Deferred = T.Deferred, U.Waiting = T.Waiting, U.counted = T.counted, U.Unnamed = T.Unnamed,
         U.NextToken \in Nat, T.NextToken <= U.NextToken,
         DOMAIN U.Attempts \subseteq Addresses, \A a \in DOMAIN U.Attempts : U.Attempts[a] \in 1 .. MaxAttempts - 1,
         DOMAIN U.PendingOpens \subseteq Addresses, \A a \in DOMAIN U.PendingOpens : U.PendingOpens[a] \in Tokens(U)
  PROVE  Sound(U, given) /\ Sought(T, U)
<1>t. Types(T, MaxAttempts - 1) /\ Waits(T, <<>>, 0, {}) /\ Stamps(T, <<>>, 0, given)
  BY DEF Sound
<1>1. Tokens(T) \subseteq Tokens(U)
  BY <1>t, TableAssumption DEF Tokens, Types
<1>2. Types(U, MaxAttempts - 1)
  BY <1>t, <1>1, TableAssumption DEF Types
<1>3. Waits(U, <<>>, 0, {})
  BY <1>t DEF Waits
<1>4. Stamps(U, <<>>, 0, given)
  <2>1. \A s : Kept(U, s) <=> Kept(T, s)
    BY DEF Kept
  <2> QED
    BY <1>t, <2>1 DEF Stamps
<1> QED
  BY <1>2, <1>3, <1>4 DEF Sound, Sought

\* The address of a key just opened: nothing is remembered of the key before.
LEMMA ReusedKeeps ==
  ASSUME NEW T, NEW given, Sound(T, given), NEW a \in Addresses, NEW stamp
  PROVE  LET U == [FlushWaiting(T, a, stamp) EXCEPT !.Attempts = Without(@, {a}), !.PendingOpens = Without(@, {a})]
         IN  Sound(U, given) /\ Sought(T, U) /\ U.NextToken = T.NextToken
<1> DEFINE V == FlushWaiting(T, a, stamp)
           tries == Without(V.Attempts, {a})
           opens == Without(V.PendingOpens, {a})
           U == [V EXCEPT !.Attempts = tries, !.PendingOpens = opens]
<1>1. /\ Types(V, MaxAttempts) /\ Waits(V, <<>>, 0, {}) /\ Stamps(V, <<>>, 0, given) /\ Sought(T, V)
      /\ V.NextToken = T.NextToken
      /\ V.Attempts = T.Attempts \/ V.Attempts = Put(T.Attempts, a, MaxAttempts)
  BY FlushKeeps
<1> HIDE DEF V
<1>2. /\ IsTable(U) /\ U.Deferred = V.Deferred /\ U.Waiting = V.Waiting /\ U.Unnamed = V.Unnamed
      /\ U.Attempts = tries /\ U.PendingOpens = opens /\ U.NextToken = V.NextToken /\ U.counted = V.counted
  <2> HIDE DEF tries, opens
  <2>1. IsTable(V)
    BY <1>1 DEF Types
  <2>0. U = [V EXCEPT !.Attempts = tries, !.PendingOpens = opens]
    OBVIOUS
  <2> HIDE DEF U
  <2>2. U = [Rows |-> V.Rows, Names |-> V.Names, Deferred |-> V.Deferred, Waiting |-> V.Waiting, Unnamed |-> V.Unnamed,
             Attempts |-> tries, PendingOpens |-> opens, NextToken |-> V.NextToken, counted |-> V.counted]
    BY <2>0, <2>1 DEF IsTable
  <2> QED
    BY <2>2 DEF IsTable
<1>u. U = [V EXCEPT !.Attempts = Without(@, {a}), !.PendingOpens = Without(@, {a})]
  OBVIOUS
<1> HIDE DEF U
<1>t. Types(T, MaxAttempts - 1)
  BY DEF Sound
<1>3. DOMAIN tries \subseteq DOMAIN T.Attempts /\ \A b \in DOMAIN tries : tries[b] = T.Attempts[b]
  BY <1>1 DEF Without, Put
<1>4. DOMAIN opens \subseteq DOMAIN V.PendingOpens /\ \A b \in DOMAIN opens : opens[b] = V.PendingOpens[b]
  BY DEF Without
<1> HIDE DEF tries, opens
<1>5. Types(U, MaxAttempts - 1)
  <2>1. Tokens(U) = Tokens(V)
    BY <1>2 DEF Tokens
  <2> QED
    BY <1>1, <1>t, <1>2, <1>3, <1>4, <2>1 DEF Types
<1>6. Waits(U, <<>>, 0, {})
  BY <1>1, <1>2 DEF Waits
<1>7. Stamps(U, <<>>, 0, given)
  <2>1. \A s : Kept(U, s) <=> Kept(V, s)
    BY <1>2 DEF Kept
  <2> QED
    BY <1>1, <1>2, <2>1 DEF Stamps
<1>8. Sought(T, U)
  BY <1>1, <1>2 DEF Sought
<1> QED
  <2>1. Sound(U, given) /\ Sought(T, U) /\ U.NextToken = T.NextToken
    BY <1>1, <1>2, <1>5, <1>6, <1>7, <1>8 DEF Sound
  <2> QED
    BY <2>1, <1>u DEF V

\* A key opened at a has a token, under which its operations wait until it has a name.
Opened(T, a) ==
    [T EXCEPT !.Names = Without(@, {a}), !.NextToken = @ + 1, !.PendingOpens = Put(@, a, T.NextToken)]

\* It is new: nothing waits on it.
LEMMA OpenedKeeps ==
  ASSUME NEW T, NEW given, Sound(T, given), NEW a \in Addresses
  PROVE  /\ Sound(Opened(T, a), given) /\ Sought(T, Opened(T, a))
         /\ T.NextToken \in Tokens(Opened(T, a)) /\ T.NextToken \notin DOMAIN Opened(T, a).Waiting
         /\ Opened(T, a).Deferred = T.Deferred /\ Opened(T, a).PendingOpens = Put(T.PendingOpens, a, T.NextToken)
<1> DEFINE token == T.NextToken
           names == Without(T.Names, {a})
           opens == Put(T.PendingOpens, a, token)
           next == token + 1
           U == Opened(T, a)
<1>t. Types(T, MaxAttempts - 1)
  BY DEF Sound
<1>1. token \in Nat /\ TokenBase <= token /\ TokenBase \in Nat
  BY <1>t, TableAssumption DEF Types
<1>2. /\ IsTable(U)
      /\ U.Deferred = T.Deferred /\ U.Waiting = T.Waiting /\ U.counted = T.counted
      /\ U.Unnamed = T.Unnamed /\ U.Attempts = T.Attempts
      /\ U.NextToken = next
      /\ U.PendingOpens = opens
  <2>1. U = [T EXCEPT !.Names = names, !.NextToken = next, !.PendingOpens = opens]
    BY DEF Opened
  <2> HIDE DEF names, opens, next, U
  <2>2. U = [Rows |-> T.Rows, Names |-> names, Deferred |-> T.Deferred, Waiting |-> T.Waiting,
             Unnamed |-> T.Unnamed, Attempts |-> T.Attempts, PendingOpens |-> opens,
             NextToken |-> next, counted |-> T.counted]
    BY <1>t, <2>1 DEF Types, IsTable
  <2> QED
    BY <2>2 DEF IsTable
<1> HIDE DEF U
<1>3. token \in Tokens(U) /\ token \notin DOMAIN U.Waiting /\ Tokens(T) \subseteq Tokens(U)
  <2>1. Tokens(U) = TokenBase .. token
    BY <1>1, <1>2 DEF Tokens
  <2>2. token \notin Addresses
    BY <1>1, TrackerAssumption DEF IsToken
  <2>3. token \notin Tokens(T)
    BY <1>1 DEF Tokens
  <2> QED
    BY <1>t, <1>1, <1>2, <2>1, <2>2, <2>3 DEF Types, Tokens
<1>4. /\ DOMAIN U.PendingOpens \subseteq Addresses
      /\ \A b \in DOMAIN U.PendingOpens : U.PendingOpens[b] \in Tokens(U)
  BY <1>t, <1>2, <1>3 DEF Types, Put
<1>5. DOMAIN U.Attempts \subseteq Addresses /\ \A b \in DOMAIN U.Attempts : U.Attempts[b] \in 1 .. MaxAttempts - 1
  BY <1>t, <1>2 DEF Types
<1>6. U.NextToken \in Nat /\ T.NextToken <= U.NextToken
  BY <1>1, <1>2
<1>7. Sound(U, given) /\ Sought(T, U)
  BY <1>2, <1>4, <1>5, <1>6, SameCounting
<1> QED
  BY <1>2, <1>3, <1>7 DEF U

\* An open.
LEMMA OnOpenKeeps ==
  ASSUME NEW T, NEW given, Sound(T, given), NEW e \in Events, e.Stamp \notin given, NEW at \in Nat
  PROVE  Sound(OnOpen(T, e, at), given \cup {e.Stamp}) /\ Sought(T, OnOpen(T, e, at))
<1> DEFINE a == e.KeyObject
           T1 == IF a = 0 THEN T
                 ELSE [FlushWaiting(T, a, e.Stamp) EXCEPT !.Attempts = Without(@, {a}), !.PendingOpens = Without(@, {a})]
           token == T1.NextToken
           pending == [T1 EXCEPT !.Names = Without(@, {a}), !.NextToken = @ + 1, !.PendingOpens = Put(@, a, token)]
           R == Retarget(pending, a, e.Stamp, token)
           U == OnOpen(T, e, at)
<1>e. a \in Addresses \cup {0} /\ e.BaseObject \in Addresses \cup {0} /\ e.Stamp \in Nat
  <2>1. a \in Addresses \cup {None} /\ e.BaseObject \in Addresses \cup {None} /\ e.Stamp \in 1 .. MaxEvents
    BY DEF Events
  <2> QED
    BY <2>1, TrackerAssumption DEF None
<1>1. \/ U = Count(T1, e, OpenName(T1, e), at, TRUE)
      \/ U = Count(T1, e, UnnamedBase(e.BaseObject, e.Name), at, TRUE)
      \/ ~GaveUp(T1, e.BaseObject) /\ a # 0 /\ U = Defer(R, e, at, e.BaseObject, token)
      \/ ~GaveUp(T1, e.BaseObject) /\ U = Defer(T1, e, at, e.BaseObject, 0)
  BY DEF OnOpen
<1> HIDE DEF U
<1>2. Sound(T1, given) /\ Sought(T, T1)
  <2>1. CASE a = 0
    BY <2>1 DEF Sought
  <2>2. CASE a # 0
    <3>1. a \in Addresses
      BY <2>2, <1>e
    <3> QED
      BY <2>2, <3>1, ReusedKeeps
  <2> QED
    BY <2>1, <2>2
<1> HIDE DEF T1
<1>3. ASSUME NEW name, U = Count(T1, e, name, at, TRUE)
      PROVE  Sound(U, given \cup {e.Stamp}) /\ Sought(T, U)
  <2>1. Counts(T1, U, e.Stamp)
    BY <1>2, <1>3, CountNow
  <2>2. Sound(U, given \cup {e.Stamp}) /\ Sought(T1, U)
    BY <1>2, <2>1, CountsNow
  <2> QED
    BY <1>2, <2>2 DEF Sought
<1>4. CASE ~GaveUp(T1, e.BaseObject) /\ U = Defer(T1, e, at, e.BaseObject, 0)
  <2>1. e.BaseObject \in Addresses \cup Tokens(T1)
    BY <1>e, <1>4 DEF GaveUp
  <2>2. Sound(U, given \cup {e.Stamp}) /\ Sought(T1, U)
    BY <1>2, <1>4, <2>1, DeferKeeps
  <2> QED
    BY <1>2, <2>2, SoughtTwice DEF U
<1>5. CASE ~GaveUp(T1, e.BaseObject) /\ a # 0 /\ U = Defer(R, e, at, e.BaseObject, token)
  <2>1. token \in Nat
    BY <1>2 DEF Sound, Types
  <2>2. pending = Opened(T1, a) /\ a \in Addresses
    BY <1>5, <1>e DEF Opened
  <2> HIDE DEF pending
  <2>3. token \in Tokens(pending) /\ token \notin DOMAIN pending.Waiting
    BY <1>2, <2>2, OpenedKeeps
  <2>4. Sound(pending, given) /\ Sought(T1, pending)
    BY <1>2, <2>2, OpenedKeeps
  <2> HIDE DEF token
  <2>5. Sound(R, given) /\ Sought(pending, R) /\ Tokens(R) = Tokens(pending)
    BY <1>e, <2>3, <2>4, RetargetKeeps
  <2> HIDE DEF R
  <2>6. e.BaseObject \in Addresses \cup Tokens(R)
    BY <1>e, <1>5 DEF GaveUp
  <2>7. Sound(U, given \cup {e.Stamp}) /\ Sought(R, U)
    BY <1>5, <2>1, <2>5, <2>6, DeferKeeps
  <2>8. Sought(T, pending)
    BY <1>2, <2>4 DEF Sought
  <2>9. Sought(T, R)
    BY <2>5, <2>8 DEF Sought
  <2>10. Sought(T, U)
    BY <2>7, <2>9 DEF Sought
  <2> QED
    BY <2>7, <2>10 DEF U
<1> QED
  BY <1>1, <1>3, <1>4, <1>5 DEF U

\* Any other operation.
LEMMA OnOperationKeeps ==
  ASSUME NEW T, NEW given, Sound(T, given), NEW e \in Events, e.Stamp \notin given, NEW at \in Nat
  PROVE  Sound(OnOperation(T, e, at), given \cup {e.Stamp}) /\ Sought(T, OnOperation(T, e, at))
<1> DEFINE a == e.KeyObject
           names == [T.Names EXCEPT ![a].Tick = at]
           V == [T EXCEPT !.Names = names]
           U == OnOperation(T, e, at)
<1>e. a \in Addresses \cup {0}
  BY DEF Events, None
<1>t. Types(T, MaxAttempts - 1)
  BY DEF Sound
<1>1. \/ U = Count(V, e, T.Names[a].Text, at, TRUE)
      \/ a \in DOMAIN T.PendingOpens /\ U = Defer(T, e, at, T.PendingOpens[a], 0)
      \/ U = Count(T, e, NoName, at, TRUE)
      \/ ~GaveUp(T, a) /\ U = Defer(T, e, at, a, 0)
  BY DEF OnOperation
<1> HIDE DEF U
<1>2. CASE U = Count(V, e, T.Names[a].Text, at, TRUE)
  <2>1. CountsOnly(T, V) /\ V.counted = T.counted
    BY <1>t, NameTouched DEF Types
  <2> HIDE DEF V
  <2>2. IsTable(V) /\ e.Stamp \notin DOMAIN V.counted /\ \A s \in DOMAIN V.counted : Len(V.counted[s]) = 1
    BY <2>1 DEF CountsOnly, Sound, Stamps
  <2>3. Counts(V, U, e.Stamp)
    BY <1>2, <2>2, CountCounts
  <2>4. Counts(T, U, e.Stamp)
    BY <2>1, <2>3 DEF Counts, CountsOnly
  <2> QED
    BY <2>4, CountsNow DEF U
<1>3. CASE a \in DOMAIN T.PendingOpens /\ U = Defer(T, e, at, T.PendingOpens[a], 0)
  <2>1. T.PendingOpens[a] \in Addresses \cup Tokens(T)
    BY <1>3, <1>t DEF Types
  <2> QED
    <3>1. /\ Sound(Defer(T, e, at, T.PendingOpens[a], 0), given \cup {e.Stamp})
          /\ Sought(T, Defer(T, e, at, T.PendingOpens[a], 0))
      BY <2>1, DeferKeeps
    <3> QED
      BY <1>3, <3>1 DEF U
<1>4. CASE U = Count(T, e, NoName, at, TRUE)
  BY <1>4, CountNow, CountsNow DEF U
<1>5. CASE ~GaveUp(T, a) /\ U = Defer(T, e, at, a, 0)
  <2>1. a \in Addresses \cup Tokens(T)
    BY <1>5, <1>e DEF GaveUp
  <2> QED
    BY <1>5, <2>1, DeferKeeps DEF U
<1> QED
  BY <1>1, <1>2, <1>3, <1>4, <1>5

\* Every event: what is counted is given, once.
LEMMA OnEventKeeps ==
  ASSUME NEW T, NEW given, Sound(T, given), NEW e \in Events, e.Stamp \notin given, NEW at \in Nat
  PROVE  /\ Sound(OnEvent(T, e, at), IF IsCounted(e) THEN given \cup {e.Stamp} ELSE given)
         /\ Sought(T, OnEvent(T, e, at))
<1>1. CASE ~IsCounted(e)
  BY <1>1 DEF OnEvent, Sought
<1>2. CASE IsCounted(e) /\ IsOpen(e)
  BY <1>2, OnOpenKeeps DEF OnEvent
<1>3. CASE IsCounted(e) /\ ~IsOpen(e)
  BY <1>3, OnOperationKeeps DEF OnEvent
<1> QED
  BY <1>1, <1>2, <1>3

-----------------------------------------------------------------------------
(* The resolver's pass, Clear and RemoveProcess. *)

\* SetName and NameFailed: names and attempts only, one attempt more at most.
LEMMA NamesKeep ==
  ASSUME NEW T, NEW given, Sound(T, given), NEW paths, NEW objects, objects \subseteq Addresses, NEW at
  PROVE  LET U == NamesFailed(SetNames(T, paths, at), objects)
         IN  Types(U, MaxAttempts) /\ Waits(U, <<>>, 0, {}) /\ Stamps(U, <<>>, 0, given)
<1> DEFINE names == [o \in DOMAIN T.Names \cup DOMAIN paths |->
                        IF o \in DOMAIN paths THEN [Text |-> Named(paths[o]), Tick |-> at] ELSE T.Names[o]]
           V == SetNames(T, paths, at)
           tries == [o \in DOMAIN T.Attempts \cup objects |->
                        IF o \notin objects THEN T.Attempts[o]
                        ELSE 1 + IF o \in DOMAIN T.Attempts THEN T.Attempts[o] ELSE 0]
           U == NamesFailed(V, objects)
<1>t. Types(T, MaxAttempts - 1) /\ Waits(T, <<>>, 0, {}) /\ Stamps(T, <<>>, 0, given)
  BY DEF Sound
<1>1. V = [T EXCEPT !.Names = names]
  BY DEF SetNames
<1> HIDE DEF V, names
<1>2. V = [Rows |-> T.Rows, Names |-> names, Deferred |-> T.Deferred, Waiting |-> T.Waiting, Unnamed |-> T.Unnamed,
           Attempts |-> T.Attempts, PendingOpens |-> T.PendingOpens, NextToken |-> T.NextToken, counted |-> T.counted]
  BY <1>t, <1>1 DEF Types, IsTable
<1>3. U = [V EXCEPT !.Attempts = tries]
  BY <1>2 DEF NamesFailed
<1> HIDE DEF U, tries
<1>4. U = [Rows |-> T.Rows, Names |-> names, Deferred |-> T.Deferred, Waiting |-> T.Waiting, Unnamed |-> T.Unnamed,
           Attempts |-> tries, PendingOpens |-> T.PendingOpens, NextToken |-> T.NextToken, counted |-> T.counted]
  BY <1>2, <1>3
<1>5. /\ IsTable(U) /\ U.Deferred = T.Deferred /\ U.Waiting = T.Waiting /\ U.Unnamed = T.Unnamed
      /\ U.Attempts = tries /\ U.PendingOpens = T.PendingOpens /\ U.NextToken = T.NextToken
      /\ U.counted = T.counted
  BY <1>4 DEF IsTable
<1>6. DOMAIN tries \subseteq Addresses /\ \A a \in DOMAIN tries : tries[a] \in 1 .. MaxAttempts
  BY <1>t, TableAssumption DEF tries, Types
<1>7. Types(U, MaxAttempts)
  <2>1. Tokens(U) = Tokens(T)
    BY <1>5 DEF Tokens
  <2> QED
    BY <1>t, <1>5, <1>6, <2>1 DEF Types
<1>8. Waits(U, <<>>, 0, {})
  BY <1>t, <1>5 DEF Waits
<1>9. Stamps(U, <<>>, 0, given)
  <2>1. \A s : Kept(U, s) <=> Kept(T, s)
    BY <1>5 DEF Kept
  <2> QED
    BY <1>t, <1>5, <2>1 DEF Stamps
<1> QED
  BY <1>7, <1>8, <1>9 DEF U, V

\* A pass leaves no object that was given up among those asked for.
LEMMA PruneKeeps ==
  ASSUME NEW T, NEW given, Types(T, MaxAttempts), Waits(T, <<>>, 0, {}), Stamps(T, <<>>, 0, given),
         \A o \in DOMAIN T.Waiting : ~GaveUp(T, o), NEW at
  PROVE  LET U == Prune(T, at)
         IN  Sound(U, given) /\ U.Waiting = T.Waiting /\ U.Unnamed = T.Unnamed
<1> DEFINE rows == Without(T.Rows, {id \in DOMAIN T.Rows : Idle(at, T.Rows[id].LastTick, KeyIdle)})
           names == Without(T.Names, {o \in DOMAIN T.Names : Idle(at, T.Names[o].Tick, NameIdle)})
           tries == Without(T.Attempts, {o \in DOMAIN T.Attempts : o \notin DOMAIN T.Waiting})
           U == Prune(T, at)
<1>1. U = [T EXCEPT !.Rows = rows, !.Names = names, !.Attempts = tries]
  BY DEF Prune
<1> HIDE DEF U, rows, names
<1>2. \A a \in DOMAIN tries : a \in DOMAIN T.Attempts /\ a \in DOMAIN T.Waiting /\ tries[a] = T.Attempts[a]
  BY DEF Without
<1> HIDE DEF tries
<1>3. U = [Rows |-> rows, Names |-> names, Deferred |-> T.Deferred, Waiting |-> T.Waiting, Unnamed |-> T.Unnamed,
           Attempts |-> tries, PendingOpens |-> T.PendingOpens, NextToken |-> T.NextToken, counted |-> T.counted]
  BY <1>1 DEF Types, IsTable
<1>5. /\ IsTable(U) /\ U.Deferred = T.Deferred /\ U.Waiting = T.Waiting /\ U.Unnamed = T.Unnamed
      /\ U.Attempts = tries /\ U.PendingOpens = T.PendingOpens /\ U.NextToken = T.NextToken
      /\ U.counted = T.counted
  BY <1>3 DEF IsTable
<1>6. DOMAIN tries \subseteq Addresses /\ \A a \in DOMAIN tries : tries[a] \in 1 .. MaxAttempts - 1
  <2>1. \A a \in DOMAIN tries : a \in Addresses /\ tries[a] \in 1 .. MaxAttempts /\ ~(tries[a] >= MaxAttempts)
    BY <1>2 DEF Types, GaveUp
  <2> QED
    BY <2>1, TableAssumption
<1>7. Types(U, MaxAttempts - 1)
  <2>1. Tokens(U) = Tokens(T)
    BY <1>5 DEF Tokens
  <2> QED
    BY <1>5, <1>6, <2>1 DEF Types
<1>8. Waits(U, <<>>, 0, {})
  BY <1>5 DEF Waits
<1>9. Stamps(U, <<>>, 0, given)
  <2>1. \A s : Kept(U, s) <=> Kept(T, s)
    BY <1>5 DEF Kept
  <2> QED
    BY <1>5, <2>1 DEF Stamps
<1> QED
  BY <1>5, <1>7, <1>8, <1>9 DEF U, Sound

\* A pass, from its names to its end: what still waits is asked for again.
LEMMA PassKeeps ==
  ASSUME NEW T, NEW given, Sound(T, given), NEW paths, NEW objects, objects \subseteq Addresses, NEW at
  PROVE  LET U == Prune(ApplyDeferred(NamesFailed(SetNames(T, paths, at), objects)), at)
         IN  Sound(U, given) /\ \A o \in DOMAIN U.Waiting : IsToken(o) \/ o \in U.Unnamed
<1> DEFINE V == NamesFailed(SetNames(T, paths, at), objects)
           W == ApplyDeferred(V)
           U == Prune(W, at)
<1>1. Types(V, MaxAttempts) /\ Waits(V, <<>>, 0, {}) /\ Stamps(V, <<>>, 0, given)
  BY NamesKeep
<1> HIDE DEF V
<1>2. /\ Types(W, MaxAttempts) /\ Waits(W, <<>>, 0, {}) /\ Stamps(W, <<>>, 0, given)
      /\ \A o \in DOMAIN W.Waiting : IsToken(o) \/ o \in W.Unnamed
      /\ \A o \in DOMAIN W.Waiting : ~GaveUp(W, o)
  BY <1>1, ApplyKeeps
<1> HIDE DEF W
<1>3. Sound(U, given) /\ U.Waiting = W.Waiting /\ U.Unnamed = W.Unnamed
  BY <1>2, PruneKeeps
<1>4. Sound(U, given) /\ \A o \in DOMAIN U.Waiting : IsToken(o) \/ o \in U.Unnamed
  BY <1>2, <1>3
<1> QED
  BY <1>4 DEF W, V

\* A cleared table holds nothing.
LEMMA ClearKeeps == ASSUME NEW T, T.NextToken \in Nat, TokenBase <= T.NextToken PROVE Sound(Clear(T), {})
<1> DEFINE U == Clear(T)
<1>1. /\ IsTable(U) /\ U.Deferred = <<>> /\ U.Waiting = EmptyMap /\ U.Unnamed = {} /\ U.Attempts = EmptyMap
      /\ U.PendingOpens = EmptyMap /\ U.NextToken = T.NextToken /\ U.counted = EmptyMap
  <2>1. U = [Rows |-> EmptyMap, Names |-> EmptyMap, Deferred |-> <<>>, Waiting |-> EmptyMap, Unnamed |-> {},
             Attempts |-> EmptyMap, PendingOpens |-> EmptyMap, NextToken |-> T.NextToken, counted |-> EmptyMap]
    <3>1. U = [EmptyTable EXCEPT !.NextToken = T.NextToken]
      BY DEF Clear
    <3> HIDE DEF U
    <3> QED
      BY <3>1 DEF EmptyTable
  <2> HIDE DEF U
  <2> QED
    BY <2>1 DEF IsTable
<1> HIDE DEF U
<1>2. DOMAIN EmptyMap = {} /\ DOMAIN <<>> = {} /\ <<>> \in Seq(Entries)
  BY DEF EmptyMap
<1>3. \A s : ~Kept(U, s)
  BY <1>1, <1>2 DEF Kept
<1>4. 0 + 1 .. Len(<<>>) = {}
  OBVIOUS
<1>5. Types(U, MaxAttempts - 1)
  BY <1>1, <1>2 DEF Types
<1>6. Waits(U, <<>>, 0, {})
  BY <1>1, <1>2, <1>4 DEF Waits
<1>7. Stamps(U, <<>>, 0, {})
  BY <1>1, <1>2, <1>3, <1>4, NothingLeft DEF Stamps
<1> QED
  BY <1>5, <1>6, <1>7 DEF Sound, U

\* A client's call changes rows only.
LEMMA RemoveKeeps ==
  ASSUME NEW T, NEW given, Sound(T, given), NEW pid
  PROVE  Sound(RemoveProcess(T, pid), given) /\ Sought(T, RemoveProcess(T, pid))
<1> DEFINE rows == Without(T.Rows, {id \in DOMAIN T.Rows : id[1] = pid})
           U == RemoveProcess(T, pid)
<1>t. Types(T, MaxAttempts - 1)
  BY DEF Sound
<1>1. U = [T EXCEPT !.Rows = rows]
  BY DEF RemoveProcess
<1> HIDE DEF rows, U
<1>2. /\ IsTable(U) /\ U.Deferred = T.Deferred /\ U.Waiting = T.Waiting /\ U.Unnamed = T.Unnamed
      /\ U.Attempts = T.Attempts /\ U.PendingOpens = T.PendingOpens /\ U.NextToken = T.NextToken
      /\ U.counted = T.counted
  BY <1>1, <1>t DEF Types, IsTable
<1>3. /\ U.NextToken \in Nat /\ T.NextToken <= U.NextToken /\ Tokens(U) = Tokens(T)
  BY <1>t, <1>2 DEF Types, Tokens
<1>4. /\ DOMAIN U.Attempts \subseteq Addresses /\ \A a \in DOMAIN U.Attempts : U.Attempts[a] \in 1 .. MaxAttempts - 1
      /\ DOMAIN U.PendingOpens \subseteq Addresses /\ \A a \in DOMAIN U.PendingOpens : U.PendingOpens[a] \in Tokens(U)
  BY <1>t, <1>2, <1>3 DEF Types
<1>5. Sound(U, given) /\ Sought(T, U)
  BY <1>2, <1>3, <1>4, SameCounting
<1> QED
  BY <1>5 DEF U

-----------------------------------------------------------------------------
(* A stopped tracker, and the invariant of the system. *)

AtRest == cpc = "idle" /\ ~m_Session

\* The client's call keeps a table of a stopped tracker as it is.
RestInv ==
    /\ m_Session \in BOOLEAN
    /\ cpc \in {"idle", "stop", "join"}
    /\ cpc = "join" => ~m_Session
    /\ AtRest => /\ tpc = "ended"
                 /\ rpc = "ended"
                 /\ m_Table = Clear(m_Table)

\* Clearing an empty table changes nothing.
LEMMA ClearedTwice == ASSUME NEW T PROVE Clear(Clear(T)) = Clear(T)
  BY DEF Clear, EmptyTable

\* There is no row to remove from an empty table.
LEMMA RemoveFromEmpty ==
  ASSUME NEW T, T = Clear(T), NEW pid
  PROVE  RemoveProcess(T, pid) = Clear(RemoveProcess(T, pid))
<1> DEFINE R == {id \in DOMAIN T.Rows : id[1] = pid}
<1>1. T.Rows = EmptyMap
  BY DEF Clear, EmptyTable
<1>2. Without(T.Rows, R) = EmptyMap
  <2>1. DOMAIN T.Rows = {}
    BY <1>1 DEF EmptyMap
  <2>2. Without(T.Rows, R) = [k \in {} |-> T.Rows[k]]
    BY <2>1 DEF Without
  <2> QED
    BY <2>2 DEF EmptyMap
<1>3. RemoveProcess(T, pid) = T
  BY <1>1, <1>2 DEF RemoveProcess, Clear, EmptyTable
<1> QED
  BY <1>3

\* The tracker starts at rest.
LEMMA InitRest == Init => RestInv
  BY DEF Init, RestInv, AtRest, Clear, EmptyTable

\* Nothing can come between the end of both threads and Clear, nor after it until the next Start.
LEMMA NextRest == RestInv /\ [Next]_vars => RestInv'
<1> SUFFICES ASSUME RestInv, [Next]_vars PROVE RestInv'
  OBVIOUS
<1> USE DEF RestInv, AtRest
<1>1. CASE Start
  BY <1>1 DEF Start
<1>2. CASE StartFails
  BY <1>2 DEF StartFails
<1>3. CASE StopSession
  BY <1>3 DEF StopSession
<1>4. CASE StopClears
  BY <1>4, ClearedTwice DEF StopClears, traceVars, resolverVars
<1>5. ASSUME NEW pid \in Pids, ForgetProcess(pid) PROVE RestInv'
  BY <1>5, RemoveFromEmpty DEF ForgetProcess, clientVars, traceVars, resolverVars
<1>6. CASE TraceThread
  BY <1>6 DEF TraceThread, BeginTrace, TakeEvent, CountEvent, EndTrace, clientVars, resolverVars
<1>7. CASE ResolverThread
  BY <1>7 DEF ResolverThread, BeginPass, LookUp, ReadClock, EndPass, EndResolver, clientVars, traceVars
<1>8. CASE System
  <2>1. UNCHANGED <<m_Table, clientVars, traceVars, resolverVars>>
    <3>1. ASSUME NEW pid \in Pids, NEW p \in Processors, SysOpenFails(pid, p)
          PROVE  UNCHANGED <<m_Table, clientVars, traceVars, resolverVars>>
      BY <3>1 DEF SysOpenFails
    <3>2. ASSUME NEW pid \in Pids, NEW p \in Processors, NEW a \in Addresses,
                 SysOpen(pid, p, a) \/ SysOperation(pid, p, a)
          PROVE  UNCHANGED <<m_Table, clientVars, traceVars, resolverVars>>
      BY <3>2 DEF SysOpen, SysOperation
    <3>3. ASSUME NEW a \in Addresses, SysClose(a)
          PROVE  UNCHANGED <<m_Table, clientVars, traceVars, resolverVars>>
      BY <3>3 DEF SysClose
    <3>4. CASE Tick
      BY <3>4 DEF Tick
    <3> QED
      BY <1>8, <3>1, <3>2, <3>3, <3>4 DEF System
  <2> QED
    BY <2>1 DEF clientVars, traceVars, resolverVars
<1>9. CASE UNCHANGED vars
  BY <1>9 DEF vars, clientVars, traceVars, resolverVars
<1> QED
  BY <1>1, <1>2, <1>3, <1>4, <1>5, <1>6, <1>7, <1>8, <1>9 DEF Next, RunNext


KeyNames == RootKeys \cup Relatives \cup {""}
Paths == Seq(KeyNames)

\* Paths and their keys.
LEMMA PathSteps ==
  /\ <<>> \in Paths
  /\ \A k \in KeyNames : <<k>> \in Paths
  /\ \A path \in Paths, k \in KeyNames : Append(path, k) \in Paths
  BY DEF Paths

Issued == 1 .. Len(truth)

\* What the threads hold between two steps.
ThreadTypes ==
    /\ cpc \in {"idle", "stop", "join"}
    /\ tpc \in {"created", "trace", "event", "ended"}
    /\ rpc \in {"wait", "lookup", "clock", "apply", "ended"}
    /\ tick \in Nat /\ etick \in Nat /\ rtick \in Nat
    /\ taken \subseteq Addresses
    /\ DOMAIN found \subseteq taken
    /\ rpc \in {"wait", "ended"} => taken = {}

\* An operation's event is in one buffer, once, until the table is given it.
EventsTypes ==
    /\ truth \in Seq(Paths)
    /\ Len(truth) <= MaxEvents
    /\ world \in [Addresses -> Paths]
    /\ buffers \in [Processors -> Seq(Events)]
    /\ current \in Events \cup {NoEvent}
    /\ tpc = "event" => current \in Events /\ current.Stamp \in Issued
    /\ delivered \subseteq Issued

EventsOnce ==
    /\ \A p \in Processors : \A i \in DOMAIN buffers[p] :
         /\ buffers[p][i].Stamp \in Issued \ delivered
         /\ tpc = "event" => buffers[p][i].Stamp # current.Stamp
    /\ tpc = "event" => current.Stamp \notin delivered
    /\ \A p, q \in Processors : \A i \in DOMAIN buffers[p], j \in DOMAIN buffers[q] :
         buffers[p][i].Stamp = buffers[q][j].Stamp => p = q /\ i = j

SoughtInv ==
    rpc # "ended" => \A o \in DOMAIN m_Table.Waiting : IsToken(o) \/ o \in m_Table.Unnamed \cup taken

Inv ==
    /\ RestInv
    /\ ThreadTypes
    /\ EventsTypes
    /\ EventsOnce
    /\ SoughtInv
    /\ Sound(m_Table, delivered)

\* The objects that operations wait on are with the resolver.
LEMMA TakeKeeps ==
  ASSUME NEW T, NEW given, Sound(T, given)
  PROVE  LET U == TakeUnnamed(T) IN Sound(U, given) /\ U.Waiting = T.Waiting /\ U.Unnamed = {}
<1> DEFINE U == TakeUnnamed(T)
<1>t. Types(T, MaxAttempts - 1) /\ Waits(T, <<>>, 0, {}) /\ Stamps(T, <<>>, 0, given)
  BY DEF Sound
<1>1. U = [T EXCEPT !.Unnamed = {}]
  BY DEF TakeUnnamed
<1> HIDE DEF U
<1>2. /\ IsTable(U) /\ U.Deferred = T.Deferred /\ U.Waiting = T.Waiting /\ U.Unnamed = {}
      /\ U.Attempts = T.Attempts /\ U.PendingOpens = T.PendingOpens /\ U.NextToken = T.NextToken
      /\ U.counted = T.counted
  BY <1>1, <1>t DEF Types, IsTable
<1>3. Types(U, MaxAttempts - 1)
  <2>1. Tokens(U) = Tokens(T)
    BY <1>2 DEF Tokens
  <2> QED
    BY <1>t, <1>2, <2>1 DEF Types
<1>4. Waits(U, <<>>, 0, {})
  BY <1>t, <1>2 DEF Waits
<1>5. Stamps(U, <<>>, 0, given)
  <2>1. \A s : Kept(U, s) <=> Kept(T, s)
    BY <1>2 DEF Kept
  <2> QED
    BY <1>t, <1>2, <2>1 DEF Stamps
<1> QED
  BY <1>2, <1>3, <1>4, <1>5 DEF U, Sound

\* Nothing waits in an empty table.
LEMMA EmptyTables == ASSUME NEW T, T = Clear(T) PROVE DOMAIN T.Waiting = {}
<1>1. T = [EmptyTable EXCEPT !.NextToken = T.NextToken]
  BY DEF Clear
<1>2. EmptyTable.Waiting = EmptyMap /\ "Waiting" \in DOMAIN EmptyTable
  BY DEF EmptyTable
<1>3. T.Waiting = EmptyMap
  BY <1>1, <1>2 DEF EmptyTable
<1> QED
  BY <1>3 DEF EmptyMap

\* The invariant holds at first.
LEMMA InitInv == Init => Inv
<1> SUFFICES ASSUME Init PROVE Inv
  OBVIOUS
<1>1. RestInv
  BY InitRest
<1>2. ThreadTypes
  BY DEF Init, ThreadTypes, EmptyMap
<1>3. EventsTypes
  <2>1. world \in [Addresses -> Paths]
    <3>1. {<<k>> : k \in RootKeys} \cup {<<>>} \subseteq Paths
      BY PathSteps DEF KeyNames
    <3> QED
      BY <3>1 DEF Init
  <2>2. truth = <<>> /\ Len(truth) = 0 /\ truth \in Seq(Paths) /\ Len(truth) <= MaxEvents
    BY TrackerAssumption DEF Init
  <2>3. buffers \in [Processors -> Seq(Events)]
    BY DEF Init
  <2> QED
    BY <2>1, <2>2, <2>3 DEF Init, EventsTypes
<1>4. EventsOnce
  BY DEF Init, EventsOnce
<1>5. SoughtInv
  BY DEF Init, SoughtInv
<1>6. Sound(m_Table, delivered)
  <2>1. EmptyTable.NextToken = TokenBase /\ EmptyTable = Clear(EmptyTable)
    BY DEF EmptyTable, Clear
  <2>2. Sound(Clear(EmptyTable), {})
    BY <2>1, ClearKeeps, TableAssumption
  <2> QED
    BY <2>1, <2>2 DEF Init
<1> QED
  BY <1>1, <1>2, <1>3, <1>4, <1>5, <1>6 DEF Inv

\* A step of a thread that gives the table no operation.
LEMMA EventsStay ==
  ASSUME Inv, UNCHANGED <<world, buffers, truth, current, delivered>>, tpc' = "event" => tpc = "event"
  PROVE  EventsTypes' /\ EventsOnce'
  BY DEF Inv, EventsTypes, EventsOnce, Issued

\* The client starts and stops the tracker.
LEMMA ClientInv ==
  ASSUME Inv, Start \/ StartFails \/ StopSession \/ StopClears
  PROVE  ThreadTypes' /\ EventsTypes' /\ EventsOnce' /\ SoughtInv' /\ Sound(m_Table, delivered)'
<1>1. CASE Start \/ StartFails
  <2>1. /\ rpc = "ended" /\ tpc = "ended" /\ m_Table = Clear(m_Table) /\ taken = {}
        /\ UNCHANGED <<m_Table, current, etick, taken, found, rtick, world, buffers, truth, tick, delivered>>
        /\ tpc' \in {"created", "ended"} /\ rpc' \in {"wait", "ended"} /\ cpc' \in {"idle", "stop"}
    BY <1>1 DEF Inv, RestInv, AtRest, ThreadTypes, Start, StartFails, worldVars, historyVars
  <2>2. ThreadTypes'
    BY <2>1 DEF Inv, ThreadTypes
  <2>3. EventsTypes' /\ EventsOnce'
    BY <2>1, EventsStay
  <2>4. DOMAIN m_Table'.Waiting = {}
    BY <2>1, EmptyTables
  <2>5. SoughtInv'
    BY <2>4 DEF SoughtInv
  <2>6. Sound(m_Table, delivered)'
    BY <2>1 DEF Inv
  <2> QED
    BY <2>2, <2>3, <2>5, <2>6
<1>2. CASE StopSession
  <2>1. /\ UNCHANGED <<m_Table, current, etick, rpc, tpc, taken, found, rtick, world, buffers, truth, tick, delivered>>
        /\ cpc' = "join"
    BY <1>2 DEF StopSession, worldVars, historyVars, traceVars, resolverVars
  <2>2. ThreadTypes' /\ SoughtInv' /\ Sound(m_Table, delivered)'
    BY <2>1 DEF Inv, ThreadTypes, SoughtInv
  <2>3. EventsTypes' /\ EventsOnce'
    BY <2>1, EventsStay
  <2> QED
    BY <2>2, <2>3
<1>3. CASE StopClears
  <2>1. /\ UNCHANGED <<current, etick, rpc, tpc, taken, found, rtick, world, buffers, truth, tick>>
        /\ cpc' = "idle" /\ rpc = "ended" /\ tpc = "ended" /\ m_Table' = Clear(m_Table) /\ delivered' = {}
    BY <1>3 DEF StopClears, worldVars, historyVars, traceVars, resolverVars
  <2>2. ThreadTypes' /\ SoughtInv'
    BY <2>1 DEF Inv, ThreadTypes, SoughtInv
  <2>3. EventsTypes' /\ EventsOnce'
    BY <2>1 DEF Inv, EventsTypes, EventsOnce, Issued
  <2>4. m_Table.NextToken \in Nat /\ TokenBase <= m_Table.NextToken
    BY DEF Inv, Sound, Types
  <2>5. Sound(m_Table, delivered)'
    BY <2>1, <2>4, ClearKeeps
  <2> QED
    BY <2>2, <2>3, <2>5
<1> QED
  BY <1>1, <1>2, <1>3

\* The client forgets a process.
LEMMA ForgetInv ==
  ASSUME Inv, NEW pid, ForgetProcess(pid)
  PROVE  ThreadTypes' /\ EventsTypes' /\ EventsOnce' /\ SoughtInv' /\ Sound(m_Table, delivered)'
<1>1. /\ UNCHANGED <<cpc, current, etick, rpc, tpc, taken, found, rtick, world, buffers, truth, tick, delivered>>
      /\ m_Table' = RemoveProcess(m_Table, pid)
  BY DEF ForgetProcess, clientVars, worldVars, historyVars, traceVars, resolverVars
<1>2. Sound(m_Table', delivered) /\ Sought(m_Table, m_Table')
  BY <1>1, RemoveKeeps DEF Inv
<1>3. ThreadTypes'
  BY <1>1 DEF Inv, ThreadTypes
<1>4. SoughtInv'
  BY <1>1, <1>2 DEF Inv, SoughtInv, Sought
<1>5. EventsTypes' /\ EventsOnce'
  BY <1>1, EventsStay
<1> QED
  BY <1>1, <1>2, <1>3, <1>4, <1>5

\* The trace's thread: an event leaves its buffer and is given to the table once.
LEMMA TraceInv ==
  ASSUME Inv, TraceThread
  PROVE  ThreadTypes' /\ EventsTypes' /\ EventsOnce' /\ SoughtInv' /\ Sound(m_Table, delivered)'
<1>1. CASE BeginTrace \/ EndTrace
  <2>1. /\ UNCHANGED <<m_Table, cpc, current, etick, rpc, taken, found, rtick, world, buffers, truth, tick, delivered>>
        /\ tpc' \in {"trace", "ended"}
    BY <1>1 DEF BeginTrace, EndTrace, clientVars, worldVars, historyVars, resolverVars
  <2>2. ThreadTypes' /\ SoughtInv' /\ Sound(m_Table, delivered)'
    BY <2>1 DEF Inv, ThreadTypes, SoughtInv
  <2>3. EventsTypes' /\ EventsOnce'
    BY <2>1, EventsStay
  <2> QED
    BY <2>2, <2>3
<1>2. ASSUME NEW p \in Processors, TakeEvent(p)
      PROVE  ThreadTypes' /\ EventsTypes' /\ EventsOnce' /\ SoughtInv' /\ Sound(m_Table, delivered)'
  <2>1. /\ UNCHANGED <<m_Table, cpc, rpc, taken, found, rtick, world, truth, tick, delivered>>
        /\ buffers[p] # <<>> /\ current' = Head(buffers[p]) /\ buffers' = [buffers EXCEPT ![p] = Tail(@)]
        /\ etick' = tick /\ tpc = "trace" /\ tpc' = "event"
    BY <1>2 DEF TakeEvent, clientVars, historyVars, resolverVars
  <2>2. ThreadTypes' /\ SoughtInv' /\ Sound(m_Table, delivered)'
    BY <2>1 DEF Inv, ThreadTypes, SoughtInv
  <2>3. /\ buffers[p] \in Seq(Events) /\ Len(buffers[p]) \in Nat \ {0} /\ current' = buffers[p][1]
        /\ current' \in Events /\ 1 \in DOMAIN buffers[p] /\ DOMAIN buffers[p] = 1 .. Len(buffers[p])
        /\ Tail(buffers[p]) \in Seq(Events) /\ DOMAIN Tail(buffers[p]) = 1 .. Len(buffers[p]) - 1
    BY <2>1 DEF Inv, EventsTypes
  <2>4. \A i \in DOMAIN Tail(buffers[p]) : i + 1 \in DOMAIN buffers[p] /\ i + 1 # 1 /\ Tail(buffers[p])[i] = buffers[p][i + 1]
    BY <2>3
  <2>5. /\ \A q \in Processors : buffers'[q] = IF q = p THEN Tail(buffers[p]) ELSE buffers[q]
        /\ buffers' \in [Processors -> Seq(Events)]
    BY <2>1, <2>3 DEF Inv, EventsTypes
  <2>6. current'.Stamp \in Issued \ delivered
    BY <2>3 DEF Inv, EventsOnce
  <2>7. EventsTypes'
    BY <2>1, <2>3, <2>5, <2>6 DEF Inv, EventsTypes, Issued
  <2>8. ASSUME NEW q \in Processors, NEW i \in DOMAIN buffers'[q]
        PROVE  \E j \in DOMAIN buffers[q] : /\ buffers'[q][i] = buffers[q][j] /\ (q = p => j = i + 1 /\ j # 1)
                                            /\ (q # p => j = i)
    BY <2>4, <2>5
  <2>9. ASSUME NEW q \in Processors, NEW i \in DOMAIN buffers'[q]
        PROVE  buffers'[q][i].Stamp \in Issued \ delivered /\ buffers'[q][i].Stamp # current'.Stamp
    BY <2>3, <2>8, <2>9 DEF Inv, EventsOnce
  <2>10. ASSUME NEW q \in Processors, NEW r \in Processors, NEW i \in DOMAIN buffers'[q], NEW j \in DOMAIN buffers'[r],
                buffers'[q][i].Stamp = buffers'[r][j].Stamp
         PROVE  q = r /\ i = j
    <3>1. PICK k \in DOMAIN buffers[q] : /\ buffers'[q][i] = buffers[q][k] /\ (q = p => k = i + 1) /\ (q # p => k = i)
      BY <2>8
    <3>2. PICK l \in DOMAIN buffers[r] : /\ buffers'[r][j] = buffers[r][l] /\ (r = p => l = j + 1) /\ (r # p => l = j)
      BY <2>8
    <3>3. q = r /\ k = l
      BY <2>10, <3>1, <3>2 DEF Inv, EventsOnce
    <3>4. i \in Int /\ j \in Int
      BY <2>3, <2>5 DEF Inv, EventsTypes
    <3> QED
      BY <3>1, <3>2, <3>3, <3>4
  <2>11. EventsOnce'
    BY <2>1, <2>6, <2>9, <2>10 DEF EventsOnce, Issued
  <2> QED
    BY <2>2, <2>7, <2>11
<1>3. CASE CountEvent
  <2>1. /\ UNCHANGED <<cpc, rpc, taken, found, rtick, world, buffers, truth, tick>>
        /\ m_Table' = OnEvent(m_Table, current, etick) /\ tpc = "event" /\ tpc' = "trace"
        /\ delivered' = IF IsCounted(current) THEN delivered \cup {current.Stamp} ELSE delivered
        /\ current' = NoEvent /\ etick' = 0
    BY <1>3 DEF CountEvent, clientVars, worldVars, resolverVars
  <2>2. /\ current \in Events /\ current.Stamp \in Issued /\ current.Stamp \notin delivered /\ etick \in Nat
        /\ Sound(m_Table, delivered)
    BY <2>1 DEF Inv, EventsTypes, EventsOnce, ThreadTypes
  <2>3. Sound(m_Table', delivered') /\ Sought(m_Table, m_Table')
    BY <2>1, <2>2, OnEventKeeps
  <2>4. ThreadTypes'
    BY <2>1 DEF Inv, ThreadTypes
  <2>5. SoughtInv'
    BY <2>1, <2>3 DEF Inv, SoughtInv, Sought
  <2>6. EventsTypes'
    BY <2>1, <2>2 DEF Inv, EventsTypes, Issued
  <2>7. EventsOnce'
    BY <2>1, <2>2 DEF Inv, EventsOnce, Issued
  <2> QED
    BY <2>3, <2>4, <2>5, <2>6, <2>7
<1> QED
  BY <1>1, <1>2, <1>3 DEF TraceThread

-----------------------------------------------------------------------------
(* The resolver's steps, the system's, and the theorems on counting. *)

\* The resolver's thread.
LEMMA ResolverInv ==
  ASSUME Inv, ResolverThread
  PROVE  ThreadTypes' /\ EventsTypes' /\ EventsOnce' /\ SoughtInv' /\ Sound(m_Table, delivered)'
<1>1. UNCHANGED <<cpc, tpc, current, etick, world, buffers, truth, tick, delivered>>
  BY DEF ResolverThread, BeginPass, LookUp, ReadClock, EndPass, EndResolver, clientVars, traceVars, worldVars, historyVars
<1>2. EventsTypes' /\ EventsOnce'
  BY <1>1, EventsStay
<1>3. CASE BeginPass
  <2>1. /\ m_Table' = TakeUnnamed(m_Table) /\ rpc = "wait" /\ rpc' = "lookup" /\ taken' = m_Table.Unnamed
        /\ UNCHANGED <<found, rtick>>
    BY <1>3 DEF BeginPass
  <2>2. Sound(m_Table', delivered) /\ m_Table'.Waiting = m_Table.Waiting
    BY <2>1, TakeKeeps DEF Inv
  <2>3. taken = {} /\ m_Table.Unnamed \subseteq Addresses
    BY <2>1 DEF Inv, ThreadTypes, Sound, Types
  <2>4. ThreadTypes'
    BY <1>1, <2>1, <2>3 DEF Inv, ThreadTypes
  <2>5. SoughtInv'
    BY <2>1, <2>2, <2>3 DEF Inv, SoughtInv
  <2> QED
    BY <1>1, <1>2, <2>2, <2>4, <2>5
<1>4. CASE LookUp \/ ReadClock \/ EndResolver
  <2>1. /\ UNCHANGED <<m_Table, taken>>
        /\ rpc # "ended" /\ (rpc' = "ended" => rpc = "wait") /\ rpc' \in {"clock", "apply", "ended"}
    BY <1>4 DEF LookUp, ReadClock, EndResolver
  <2>2. DOMAIN found' \subseteq taken /\ rtick' \in Nat
    BY <1>4 DEF LookUp, ReadClock, EndResolver, Inv, ThreadTypes
  <2>3. ThreadTypes'
    BY <1>1, <2>1, <2>2 DEF Inv, ThreadTypes
  <2>4. SoughtInv' /\ Sound(m_Table, delivered)'
    BY <1>1, <2>1 DEF Inv, SoughtInv
  <2> QED
    BY <1>2, <2>3, <2>4
<1>5. CASE EndPass
  <2>1. /\ m_Table' = Prune(ApplyDeferred(NamesFailed(SetNames(m_Table, found, rtick), taken \ DOMAIN found)), rtick)
        /\ taken' = {} /\ found' = EmptyMap /\ rtick' = 0 /\ rpc' = "wait"
    BY <1>5 DEF EndPass, ApplyNames
  <2>2. Sound(m_Table, delivered) /\ taken \ DOMAIN found \subseteq Addresses
    BY DEF Inv, ThreadTypes
  <2>3. Sound(m_Table', delivered) /\ \A o \in DOMAIN m_Table'.Waiting : IsToken(o) \/ o \in m_Table'.Unnamed
    BY <2>1, <2>2, PassKeeps
  <2>4. ThreadTypes'
    BY <1>1, <2>1 DEF Inv, ThreadTypes, EmptyMap
  <2>5. SoughtInv'
    BY <2>3 DEF SoughtInv
  <2> QED
    BY <1>1, <1>2, <2>3, <2>4, <2>5
<1> QED
  BY <1>3, <1>4, <1>5 DEF ResolverThread

\* An operation's event goes to a buffer.
LEMMA IssueKeeps ==
  ASSUME Inv, NEW p \in Processors, NEW e \in Events, e.Stamp = Len(truth) + 1, NEW path \in Paths,
         Issue(p, e, path), world' \in [Addresses -> Paths], UNCHANGED <<tpc, current, delivered>>
  PROVE  EventsTypes' /\ EventsOnce'
<1> DEFINE n == Len(buffers[p])
<1>1. /\ truth \in Seq(Paths) /\ Len(truth) \in Nat /\ Len(truth) + 1 <= MaxEvents
      /\ truth' \in Seq(Paths) /\ Len(truth') = Len(truth) + 1
  BY TrackerAssumption DEF Issue, Inv, EventsTypes
<1>2. Issued' = Issued \cup {e.Stamp} /\ e.Stamp \notin Issued
  BY <1>1 DEF Issued
<1>3. /\ buffers[p] \in Seq(Events) /\ n \in Nat /\ DOMAIN buffers[p] = 1 .. n
      /\ Append(buffers[p], e) \in Seq(Events) /\ DOMAIN Append(buffers[p], e) = 1 .. n + 1
      /\ Append(buffers[p], e)[n + 1] = e
      /\ \A i \in 1 .. n : Append(buffers[p], e)[i] = buffers[p][i]
  BY DEF Inv, EventsTypes
<1>4. /\ \A q \in Processors : buffers'[q] = IF q = p THEN Append(buffers[p], e) ELSE buffers[q]
      /\ buffers' \in [Processors -> Seq(Events)]
  BY <1>3 DEF Issue, Inv, EventsTypes
<1> HIDE DEF n
<1>5. ASSUME NEW q \in Processors, NEW i \in DOMAIN buffers'[q]
      PROVE  \/ i \in DOMAIN buffers[q] /\ buffers'[q][i] = buffers[q][i]
             \/ q = p /\ i = n + 1 /\ buffers'[q][i] = e
  BY <1>3, <1>4
<1>6. EventsTypes'
  BY <1>1, <1>2, <1>4 DEF Inv, EventsTypes
<1>7. ASSUME NEW q \in Processors, NEW i \in DOMAIN buffers'[q]
      PROVE  /\ buffers'[q][i].Stamp \in Issued' \ delivered
             /\ tpc = "event" => buffers'[q][i].Stamp # current.Stamp
  <2>1. CASE i \in DOMAIN buffers[q] /\ buffers'[q][i] = buffers[q][i]
    BY <1>2, <2>1 DEF Inv, EventsOnce
  <2>2. CASE buffers'[q][i] = e
    BY <1>2, <2>2 DEF Inv, EventsTypes, EventsOnce
  <2> QED
    BY <1>5, <1>7, <2>1, <2>2
<1>8. ASSUME NEW q \in Processors, NEW r \in Processors, NEW i \in DOMAIN buffers'[q], NEW j \in DOMAIN buffers'[r],
             buffers'[q][i].Stamp = buffers'[r][j].Stamp
      PROVE  q = r /\ i = j
  <2>1. CASE i \in DOMAIN buffers[q] /\ buffers'[q][i] = buffers[q][i]
    <3>1. buffers'[q][i].Stamp # e.Stamp
      BY <1>2, <2>1 DEF Inv, EventsOnce
    <3>2. j \in DOMAIN buffers[r] /\ buffers'[r][j] = buffers[r][j]
      BY <1>5, <1>8, <3>1
    <3> QED
      BY <1>8, <2>1, <3>2 DEF Inv, EventsOnce
  <2>2. CASE q = p /\ i = n + 1 /\ buffers'[q][i] = e
    <3>1. ~(j \in DOMAIN buffers[r] /\ buffers'[r][j] = buffers[r][j])
      BY <1>2, <1>8, <2>2 DEF Inv, EventsOnce
    <3> QED
      BY <1>5, <2>2, <3>1
  <2> QED
    BY <1>5, <2>1, <2>2
<1>9. (tpc = "event" => current.Stamp \notin delivered) /\ tpc' = tpc /\ current' = current /\ delivered' = delivered
  BY DEF Inv, EventsOnce
<1>10. EventsOnce'
  BY <1>7, <1>8, <1>9 DEF EventsOnce
<1> QED
  BY <1>6, <1>10

\* The bound leaves room for the next operation.
LEMMA NextStamp == ASSUME Inv, Len(truth) < MaxEvents PROVE Len(truth) + 1 \in 1 .. MaxEvents
<1>1. Len(truth) \in Nat
  BY DEF Inv, EventsTypes
<1> QED
  BY <1>1, TrackerAssumption

\* The names of opens.
LEMMA OpenNameTypes ==
  ASSUME Inv, NEW n \in OpenNames
  PROVE  /\ n.Absolute \in BOOLEAN /\ n.Base \in Addresses \cup {None} /\ n.Name \in RootKeys \cup Relatives \cup {""}
         /\ PathOf(n) \in Paths
<1>1. /\ n.Absolute \in BOOLEAN /\ n.Base \in Addresses \cup {None} /\ n.Name \in RootKeys \cup Relatives \cup {""}
      /\ ~n.Absolute => n.Base \in Addresses
  BY DEF OpenNames
<1>2. n.Base \in Addresses => world[n.Base] \in Paths
  BY DEF Inv, EventsTypes
<1>3. PathOf(n) \in Paths
  <2>1. CASE n.Absolute
    <3>1. PathOf(n) = <<n.Name>>
      BY <2>1 DEF PathOf
    <3> QED
      BY <1>1, <3>1, PathSteps DEF KeyNames
  <2>2. CASE ~n.Absolute
    <3>1. PathOf(n) = IF n.Name = "" THEN world[n.Base] ELSE Append(world[n.Base], n.Name)
      BY <2>2 DEF PathOf
    <3>2. world[n.Base] \in Paths
      BY <1>1, <1>2, <2>2
    <3> QED
      BY <1>1, <3>1, <3>2, PathSteps DEF KeyNames
  <2> QED
    BY <2>1, <2>2
<1> QED
  BY <1>1, <1>3

\* The system: keys and the events of their operations.
LEMMA SystemInv ==
  ASSUME Inv, System
  PROVE  ThreadTypes' /\ EventsTypes' /\ EventsOnce' /\ SoughtInv' /\ Sound(m_Table, delivered)'
<1>w. world \in [Addresses -> Paths]
  BY DEF Inv, EventsTypes
<1>1. ASSUME NEW pid \in Pids, NEW p \in Processors, NEW a \in Addresses, SysOpen(pid, p, a)
      PROVE  EventsTypes' /\ EventsOnce' /\ UNCHANGED <<m_Table, cpc, tpc, current, etick, resolverVars, tick, delivered>>
  <2>1. UNCHANGED <<m_Table, cpc, tpc, current, etick, resolverVars, tick, delivered>>
    BY <1>1 DEF SysOpen, clientVars, traceVars, historyVars
  <2>2. PICK n \in OpenNames :
          /\ Issue(p, Event(pid, "OpenKey", a, n.Base, "success", n.Absolute, n.Name), PathOf(n))
          /\ world' = [world EXCEPT ![a] = PathOf(n)]
    BY <1>1 DEF SysOpen
  <2>3. PathOf(n) \in Paths /\ world' \in [Addresses -> Paths]
    BY <1>w, <2>2, OpenNameTypes
  <2>4. Len(truth) < MaxEvents
    BY <2>2 DEF Issue
  <2> DEFINE e == Event(pid, "OpenKey", a, n.Base, "success", n.Absolute, n.Name)
  <2>5. e \in Events /\ e.Stamp = Len(truth) + 1
    <3>1. /\ n.Absolute \in BOOLEAN /\ n.Base \in Addresses \cup {None}
          /\ n.Name \in RootKeys \cup Relatives \cup {""}
      BY OpenNameTypes
    <3>2. Len(truth) + 1 \in 1 .. MaxEvents
      BY <2>4, NextStamp
    <3> QED
      BY <3>1, <3>2 DEF Event, Events
  <2> HIDE DEF e
  <2> QED
    BY <2>1, <2>2, <2>3, <2>5, IssueKeeps DEF e
<1>2. ASSUME NEW pid \in Pids, NEW p \in Processors, SysOpenFails(pid, p)
      PROVE  EventsTypes' /\ EventsOnce' /\ UNCHANGED <<m_Table, cpc, tpc, current, etick, resolverVars, tick, delivered>>
  <2>1. UNCHANGED <<m_Table, cpc, tpc, current, etick, resolverVars, world, tick, delivered>>
    BY <1>2 DEF SysOpenFails, clientVars, traceVars, historyVars
  <2>2. PICK n \in OpenNames, status \in {"failure", "reparse"} :
          Issue(p, Event(pid, "OpenKey", None, n.Base, status, n.Absolute, n.Name), PathOf(n))
    BY <1>2 DEF SysOpenFails
  <2>3. PathOf(n) \in Paths /\ world' \in [Addresses -> Paths]
    BY <1>w, <2>1, OpenNameTypes
  <2>4. Len(truth) < MaxEvents
    BY <2>2 DEF Issue
  <2> DEFINE e == Event(pid, "OpenKey", None, n.Base, status, n.Absolute, n.Name)
  <2>5. e \in Events /\ e.Stamp = Len(truth) + 1
    <3>1. /\ n.Absolute \in BOOLEAN /\ n.Base \in Addresses \cup {None}
          /\ n.Name \in RootKeys \cup Relatives \cup {""}
      BY OpenNameTypes
    <3>2. Len(truth) + 1 \in 1 .. MaxEvents
      BY <2>4, NextStamp
    <3> QED
      BY <3>1, <3>2 DEF Event, Events
  <2> HIDE DEF e
  <2> QED
    BY <2>1, <2>2, <2>3, <2>5, IssueKeeps DEF e
<1>3. ASSUME NEW pid \in Pids, NEW p \in Processors, NEW a \in Addresses, SysOperation(pid, p, a)
      PROVE  EventsTypes' /\ EventsOnce' /\ UNCHANGED <<m_Table, cpc, tpc, current, etick, resolverVars, tick, delivered>>
  <2>1. UNCHANGED <<m_Table, cpc, tpc, current, etick, resolverVars, world, tick, delivered>>
    BY <1>3 DEF SysOperation, clientVars, traceVars, historyVars
  <2> DEFINE e == Event(pid, "QueryValue", a, None, "success", FALSE, "")
  <2>2. Issue(p, e, world[a])
    BY <1>3 DEF SysOperation
  <2>3. world[a] \in Paths /\ world' \in [Addresses -> Paths]
    BY <1>w, <2>1
  <2>4. Len(truth) < MaxEvents
    BY <2>2 DEF Issue
  <2>5. e \in Events /\ e.Stamp = Len(truth) + 1
    <3>1. Len(truth) + 1 \in 1 .. MaxEvents
      BY <2>4, NextStamp
    <3> QED
      BY <3>1 DEF Event, Events
  <2> HIDE DEF e
  <2> QED
    BY <2>1, <2>2, <2>3, <2>5, IssueKeeps
<1>4. ASSUME NEW a \in Addresses, SysClose(a)
      PROVE  EventsTypes' /\ EventsOnce' /\ UNCHANGED <<m_Table, cpc, tpc, current, etick, resolverVars, tick, delivered>>
  <2>1. UNCHANGED <<m_Table, cpc, tpc, current, etick, resolverVars, buffers, truth, tick, delivered>>
    BY <1>4 DEF SysClose, clientVars, traceVars, historyVars
  <2>2. world' \in [Addresses -> Paths]
    BY <1>4, <1>w, PathSteps DEF SysClose
  <2> QED
    BY <2>1, <2>2 DEF Inv, EventsTypes, EventsOnce, Issued
<1>5. CASE Tick
  <2>1. /\ UNCHANGED <<m_Table, cpc, tpc, current, etick, resolverVars, world, buffers, truth, delivered>>
        /\ tick' = tick + 1
    BY <1>5 DEF Tick, clientVars, traceVars, historyVars
  <2>2. EventsTypes' /\ EventsOnce'
    BY <2>1, EventsStay
  <2> QED
    BY <2>1, <2>2 DEF Inv, ThreadTypes, SoughtInv, resolverVars
<1>6. ASSUME EventsTypes' /\ EventsOnce' /\ UNCHANGED <<m_Table, cpc, tpc, current, etick, resolverVars, tick, delivered>>
      PROVE  ThreadTypes' /\ EventsTypes' /\ EventsOnce' /\ SoughtInv' /\ Sound(m_Table, delivered)'
  BY <1>6 DEF Inv, ThreadTypes, SoughtInv, resolverVars
<1> QED
  BY <1>1, <1>2, <1>3, <1>4, <1>5, <1>6 DEF System

\* Every step keeps the invariant.
LEMMA NextInv == Inv /\ [Next]_vars => Inv'
<1> SUFFICES ASSUME Inv, [Next]_vars PROVE Inv'
  OBVIOUS
<1> DEFINE Keeps == ThreadTypes' /\ EventsTypes' /\ EventsOnce' /\ SoughtInv' /\ Sound(m_Table, delivered)'
<1>1. RestInv'
  BY NextRest DEF Inv
<1>2. CASE Start \/ StartFails \/ StopSession \/ StopClears
  BY <1>1, <1>2, ClientInv DEF Inv
<1>3. ASSUME NEW pid \in Pids, ForgetProcess(pid) PROVE Inv'
  BY <1>1, <1>3, ForgetInv DEF Inv
<1>4. CASE TraceThread
  BY <1>1, <1>4, TraceInv DEF Inv
<1>5. CASE ResolverThread
  BY <1>1, <1>5, ResolverInv DEF Inv
<1>6. CASE System
  BY <1>1, <1>6, SystemInv DEF Inv
<1>7. CASE UNCHANGED vars
  BY <1>7 DEF vars, clientVars, traceVars, resolverVars, worldVars, historyVars, Inv, RestInv, AtRest, ThreadTypes,
              EventsTypes, EventsOnce, Issued, SoughtInv
<1> QED
  BY <1>2, <1>3, <1>4, <1>5, <1>6, <1>7 DEF Next, RunNext

\* The tracker's table holds what it should: addresses where key objects are
\* expected, and no object looked up more often than MaxAttempts says.
THEOREM TypesOK == Spec => []TypeOK
<1>1. Inv => TypeOK
  <2> SUFFICES ASSUME Inv PROVE TypeOK
    OBVIOUS
  <2>1. Types(m_Table, MaxAttempts - 1) /\ ThreadTypes /\ current \in Events \cup {NoEvent}
    BY DEF Inv, Sound, EventsTypes
  <2>2. \A i \in DOMAIN m_Table.Deferred : m_Table.Deferred[i] \in Entries
    BY <2>1 DEF Types
  <2>3. \A i \in DOMAIN m_Table.Deferred : m_Table.Deferred[i].Event \in Events
    BY <2>2 DEF Entries
  <2>4. \A o \in DOMAIN m_Table.Attempts : m_Table.Attempts[o] \in 1 .. MaxAttempts
    BY <2>1, TableAssumption DEF Types
  <2> QED
    BY <2>1, <2>3, <2>4 DEF Types, ThreadTypes, TypeOK
<1> QED
  BY InitInv, NextInv, <1>1, PTL DEF Spec

\* m_Waiting says how many operations wait on each object, and only on those
\* that some wait on, whatever was flushed, moved to a token, counted past the
\* limit or applied: FlushWaiting, Retarget and ApplyDeferred find by it what
\* they look for.
THEOREM WaitersAreCounted == Spec => []WaitingCounts
<1>1. Inv => WaitingCounts
  <2> SUFFICES ASSUME Inv PROVE WaitingCounts
    OBVIOUS
  <2>1. Types(m_Table, MaxAttempts - 1) /\ Waits(m_Table, <<>>, 0, {})
    BY DEF Inv, Sound
  <2>2. ASSUME NEW o PROVE WaitsOn(o) = Waiters(m_Table.Deferred, o) /\ Left(<<>>, 0, o) = {}
    BY DEF WaitsOn, Waiters, Left
  <2>3. ASSUME NEW o PROVE Cardinality(WaitsOn(o)) \in Nat /\ Cardinality(Left(<<>>, 0, o)) = 0
    <3>1. m_Table.Deferred \in Seq(Entries)
      BY <2>1 DEF Types
    <3>2. Cardinality(WaitsOn(o)) \in Nat
      BY <2>2, <3>1, WaitersFinite
    <3> QED
      BY <2>2, <3>2, FS_EmptySet
  <2>4. ASSUME NEW o \in DOMAIN m_Table.Waiting
        PROVE  m_Table.Waiting[o] = Cardinality(WaitsOn(o)) /\ m_Table.Waiting[o] > 0
    <3>1. m_Table.Waiting[o] = Cardinality(WaitsOn(o)) + Cardinality(Left(<<>>, 0, o)) /\ m_Table.Waiting[o] # 0
      BY <2>1, <2>2 DEF Waits
    <3> QED
      BY <2>3, <3>1
  <2> QED
    BY <2>1, <2>4 DEF Waits, WaitingCounts
<1> QED
  BY InitInv, NextInv, <1>1, PTL DEF Spec

\* Every operation given to the table is counted exactly once or still waits:
\* no reused address, full queue, retargeted or resolved name loses one or
\* counts it twice.
THEOREM OperationsAreCountedOnce == Spec => []EachCountedOnce
<1>1. Inv => EachCountedOnce
  <2> SUFFICES ASSUME Inv, NEW s \in 1 .. MaxEvents
               PROVE  TimesCounted(s) + TimesDeferred(s) = IF s \in delivered THEN 1 ELSE 0
    BY DEF EachCountedOnce
  <2>1. Stamps(m_Table, <<>>, 0, delivered)
    BY DEF Inv, Sound
  <2> DEFINE W == {i \in DOMAIN m_Table.Deferred : m_Table.Deferred[i].Event.Stamp = s}
  <2>2. ~Remains(<<>>, 0, s)
    BY DEF Remains
  <2>3. s \in delivered <=> s \in DOMAIN m_Table.counted \/ Kept(m_Table, s)
    BY <2>1, <2>2 DEF Stamps
  <2>4. CASE Kept(m_Table, s)
    <3>1. s \notin DOMAIN m_Table.counted /\ TimesCounted(s) = 0
      BY <2>1, <2>4 DEF Stamps, TimesCounted
    <3>2. PICK i \in DOMAIN m_Table.Deferred : m_Table.Deferred[i].Event.Stamp = s
      BY <2>4 DEF Kept
    <3>3. W = {i}
      BY <2>1, <3>2 DEF Stamps
    <3>4. Cardinality(W) = 1
      BY <3>3, FS_Singleton
    <3>5. TimesDeferred(s) = 1
      BY <3>4 DEF TimesDeferred
    <3> QED
      BY <2>3, <2>4, <3>1, <3>5
  <2>5. CASE ~Kept(m_Table, s)
    <3>1. W = {}
      BY <2>5 DEF Kept
    <3>2. TimesDeferred(s) = 0
      BY <3>1, FS_EmptySet DEF TimesDeferred
    <3>3. TimesCounted(s) = IF s \in DOMAIN m_Table.counted THEN 1 ELSE 0
      BY <2>1 DEF Stamps, TimesCounted
    <3> QED
      BY <2>3, <2>5, <3>2, <3>3
  <2> QED
    BY <2>4, <2>5
<1> QED
  BY InitInv, NextInv, <1>1, PTL DEF Spec

\* Every key object that operations wait on is with the resolver or will be in
\* its next pass, between any two steps of the threads.
THEOREM NoneWaitsForever == Spec => []WaitersAreSought
<1>1. Inv => WaitersAreSought
  BY DEF Inv, SoughtInv, WaitersAreSought
<1> QED
  BY InitInv, NextInv, <1>1, PTL DEF Spec

-----------------------------------------------------------------------------
(* Names: whose key an operation was on, and under what it counts. *)

\* An address with a key.
Live(w, a) == a \in Addresses /\ w[a] # <<>>

Texts == [unnamed : Addresses \cup {0}, path : Paths]

\* The key a text is the name of has this path.
Says(w, text, path) ==
    /\ text \in Texts
    /\ \/ text.unnamed = 0 /\ text.path = path
       \/ Live(w, text.unnamed) /\ path = w[text.unnamed] \o text.path

\* The key object that an operation's name depends on.
Target(e) == IF IsOpen(e) THEN e.BaseObject ELSE e.KeyObject

\* An open's key is below its base and at its key object's address; any other
\* operation was on its key object's key.
IsTrue(w, tr, e) ==
    /\ e \in Events
    /\ e.Stamp \in DOMAIN tr
    /\ IsOpen(e) =>
         /\ e.Absolute => tr[e.Stamp] = <<e.Name>>
         /\ ~e.Absolute => Live(w, e.BaseObject) /\ e.Name # "" /\ tr[e.Stamp] = Append(w[e.BaseObject], e.Name)
         /\ e.KeyObject # 0 => Live(w, e.KeyObject) /\ w[e.KeyObject] = tr[e.Stamp]
    /\ ~IsOpen(e) => Live(w, e.KeyObject) /\ w[e.KeyObject] = tr[e.Stamp]

EntryTrue(w, tr, T, d) ==
    /\ d \in Entries
    /\ IsTrue(w, tr, d.Event)
    /\ d.Waiting \in Tokens(T) \/ (d.Waiting = Target(d.Event) /\ Live(w, d.Waiting))
    /\ d.Token # 0 => d.Token \in Tokens(T) /\ IsOpen(d.Event) /\ Live(w, d.Event.KeyObject)
    /\ IsOpen(d.Event) => ~d.Event.Absolute

\* The token t stands for the key at a.
Owns(w, T, E, a, t) ==
    /\ \A d \in E : d.Waiting = t => Target(d.Event) = a
    /\ \A d \in E : d.Token = t => d.Event.KeyObject = a
    /\ \A b \in DOMAIN T.PendingOpens : T.PendingOpens[b] = t => b = a
    /\ t \in DOMAIN T.Names => Says(w, T.Names[t].Text, w[a])

NameEntries == [Text : Texts, Tick : Nat]

CountedTrue(w, tr, counted) ==
    \A s \in DOMAIN counted : s \in DOMAIN tr /\ \A i \in DOMAIN counted[s] : Says(w, counted[s][i], tr[s])

\* Of a table, and the operations that wait: the names are those of the keys.
NamesTrue(w, tr, T, E) ==
    /\ \A o \in DOMAIN T.Names :
         /\ T.Names[o] \in NameEntries
         /\ o \in Tokens(T) \/ (Live(w, o) /\ Says(w, T.Names[o].Text, w[o]))
    /\ \A t \in Tokens(T) : \E a \in Addresses : Live(w, a) /\ Owns(w, T, E, a, t)
    /\ \A d \in E : EntryTrue(w, tr, T, d)
    /\ CountedTrue(w, tr, T.counted)

Items(D) == {D[i] : i \in DOMAIN D}

-----------------------------------------------------------------------------
\* The key objects are told from the tokens.
LEMMA AddressIsNoToken == ASSUME NEW a \in Addresses, NEW T PROVE a \notin Tokens(T) /\ a # 0 /\ ~IsToken(a)
<1>1. a # 0 /\ ~IsToken(a)
  BY TrackerAssumption DEF None
<1>2. \A t \in Tokens(T) : IsToken(t)
  BY TableAssumption DEF Tokens, IsToken
<1> QED
  BY <1>1, <1>2

\* An operation counted under its key object.
LEMMA LiveText ==
  ASSUME NEW w \in [Addresses -> Paths], NEW a, Live(w, a)
  PROVE  Says(w, ObjectText(a), w[a])
<1>1. a \in Addresses /\ w[a] \in Paths
  BY DEF Live
<1>2. w[a] \o <<>> = w[a]
  BY <1>1, ConcatEmptySeq DEF Paths
<1>3. ObjectText(a) \in Texts
  BY <1>1, PathSteps DEF ObjectText, Texts
<1> QED
  BY <1>2, <1>3 DEF Says, ObjectText

\* An open counted below its base.
LEMMA BaseText ==
  ASSUME NEW w \in [Addresses -> Paths], NEW a, Live(w, a), NEW k \in KeyNames
  PROVE  Says(w, UnnamedBase(a, k), Append(w[a], k)) /\ UnnamedBase(a, k) # NoName
<1>1. a \in Addresses /\ w[a] \in Paths
  BY DEF Live
<1>2. Append(w[a], k) = w[a] \o <<k>>
  BY <1>1, AppendIsConcat DEF Paths
<1>3. UnnamedBase(a, k) \in Texts
  BY <1>1, PathSteps DEF UnnamedBase, Texts
<1>4. UnnamedBase(a, k).path # NoName.path
  <2>1. Len(<<k>>) = 1 /\ Len(<<>>) = 0
    OBVIOUS
  <2> QED
    BY <2>1 DEF UnnamedBase, NoName
<1> QED
  BY <1>2, <1>3, <1>4 DEF Says, UnnamedBase

\* A key below a key.
LEMMA AppendText ==
  ASSUME NEW q \in Paths, NEW r \in Paths, NEW k \in KeyNames
  PROVE  Append(q, k) # <<>> /\ Append(q \o r, k) = q \o Append(r, k)
<1>1. Append(q, k) # <<>>
  BY AppendProperties DEF Paths
<1>2. <<k>> \in Paths /\ q \o r \in Paths
  BY PathSteps, ConcatProperties DEF Paths
<1>3. Append(q \o r, k) = (q \o r) \o <<k>> /\ Append(r, k) = r \o <<k>>
  BY <1>2, AppendIsConcat DEF Paths
<1>4. (q \o r) \o <<k>> = q \o (r \o <<k>>)
  BY <1>2, ConcatAssociative DEF Paths
<1> QED
  BY <1>1, <1>3, <1>4

\* An open counted below its base's name.
LEMMA BelowText ==
  ASSUME NEW w \in [Addresses -> Paths], NEW b \in Addresses, NEW text, Says(w, text, w[b]), NEW k \in KeyNames, k # ""
  PROVE  Says(w, Below(text, k), Append(w[b], k)) /\ Below(text, k) # NoName
<1> DEFINE U == Below(text, k)
<1>t. /\ text \in Texts /\ text.path \in Paths /\ w[b] \in Paths /\ <<k>> \in Paths
      /\ Append(text.path, k) \in Paths
  BY PathSteps DEF Says, Texts
<1>1. U = [text EXCEPT !.path = Append(text.path, k)]
  BY DEF Below
<1> HIDE DEF U
<1>2. U \in Texts /\ U.unnamed = text.unnamed /\ U.path = Append(text.path, k)
  BY <1>1, <1>t DEF Texts
<1>3. U # NoName
  <2>1. Append(text.path, k) # <<>>
    BY <1>t, AppendText
  <2>2. U.path # NoName.path
    BY <1>2, <2>1 DEF NoName
  <2> QED
    BY <2>2
<1>4. CASE text.unnamed = 0 /\ text.path = w[b]
  BY <1>2, <1>3, <1>4 DEF Says, U
<1>5. CASE Live(w, text.unnamed) /\ w[b] = w[text.unnamed] \o text.path
  <2>1. w[text.unnamed] \in Paths
    BY <1>5 DEF Live
  <2>2. Append(w[text.unnamed] \o text.path, k) = w[text.unnamed] \o Append(text.path, k)
    BY <1>t, <2>1, AppendText
  <2> QED
    BY <1>2, <1>3, <1>5, <2>2 DEF Says, U
<1> QED
  BY <1>4, <1>5 DEF Says

\* An open with an absolute name.
LEMMA RootText ==
  ASSUME NEW w, NEW k \in KeyNames
  PROVE  Says(w, Named(<<k>>), <<k>>) /\ Named(<<k>>) # NoName
<1>1. Len(<<k>>) = 1 /\ Len(<<>>) = 0
  OBVIOUS
<1>2. Named(<<k>>).path # NoName.path
  BY <1>1 DEF Named, NoName
<1>3. Named(<<k>>) \in Texts
  BY PathSteps DEF Named, Texts
<1> QED
  BY <1>2, <1>3 DEF Says, Named

-----------------------------------------------------------------------------
\* No token is new, nothing more waits, and what is named or counted anew is true.
LEMMA NamesStayTrue ==
  ASSUME NEW w, NEW tr, NEW T, NEW E, NamesTrue(w, tr, T, E), NEW U, NEW F, F \subseteq E,
         U.NextToken = T.NextToken,
         \A o \in DOMAIN U.Names :
             /\ U.Names[o] \in NameEntries
             /\ \/ o \in DOMAIN T.Names /\ U.Names[o].Text = T.Names[o].Text
                \/ Live(w, o) /\ Says(w, U.Names[o].Text, w[o])
                \/ o \in Tokens(T) /\ \A a : Live(w, a) /\ Owns(w, T, E, a, o) => Says(w, U.Names[o].Text, w[a]),
         \A b \in DOMAIN U.PendingOpens : b \in DOMAIN T.PendingOpens /\ U.PendingOpens[b] = T.PendingOpens[b],
         CountedTrue(w, tr, U.counted)
  PROVE  NamesTrue(w, tr, U, F)
<1>1. Tokens(U) = Tokens(T)
  BY DEF Tokens
<1>2. ASSUME NEW o \in DOMAIN U.Names
      PROVE  U.Names[o] \in NameEntries /\ (o \in Tokens(U) \/ (Live(w, o) /\ Says(w, U.Names[o].Text, w[o])))
  BY <1>1 DEF NamesTrue
<1>3. ASSUME NEW t \in Tokens(U)
      PROVE  \E a \in Addresses : Live(w, a) /\ Owns(w, U, F, a, t)
  <2>1. PICK a \in Addresses : Live(w, a) /\ Owns(w, T, E, a, t)
    BY <1>1 DEF NamesTrue
  <2>2. t \in DOMAIN U.Names => Says(w, U.Names[t].Text, w[a])
    <3>1. ~Live(w, t)
      BY <1>1, AddressIsNoToken DEF Live
    <3> QED
      BY <2>1, <3>1 DEF Owns
  <2> QED
    BY <2>1, <2>2 DEF Owns
<1>4. \A d \in F : EntryTrue(w, tr, U, d)
  BY <1>1 DEF NamesTrue, EntryTrue
<1> QED
  BY <1>2, <1>3, <1>4 DEF NamesTrue

\* An operation counts under a true name, and an open names its key by it.
LEMMA CountTrue ==
  ASSUME NEW w \in [Addresses -> Paths], NEW tr, NEW T, IsTable(T), NEW E, NamesTrue(w, tr, T, E),
         NEW e, IsTrue(w, tr, e), e.Stamp \notin DOMAIN T.counted, NEW at \in Nat, NEW b, NEW name,
         name # NoName => Says(w, name, tr[e.Stamp]),
         name = NoName => Live(w, e.KeyObject) /\ w[e.KeyObject] = tr[e.Stamp]
  PROVE  NamesTrue(w, tr, Count(T, e, name, at, b), E)
<1> DEFINE U == Count(T, e, name, at, b)
           text == CountText(e, name)
<1>1. /\ CountsOnly(T, U) /\ U.Names = CountNames(T, e, name, at, b)
      /\ U.PendingOpens = T.PendingOpens /\ U.counted = Put(T.counted, e.Stamp, <<text>>)
  BY CountFields
<1>2. Says(w, text, tr[e.Stamp])
  BY LiveText DEF CountText
<1> HIDE DEF U, text
<1>3. CountedTrue(w, tr, U.counted)
  <2>1. ASSUME NEW s \in DOMAIN U.counted
        PROVE  s \in DOMAIN tr /\ \A i \in DOMAIN U.counted[s] : Says(w, U.counted[s][i], tr[s])
    <3>1. CASE s = e.Stamp
      <4>1. U.counted[s] = <<text>> /\ s \in DOMAIN tr
        BY <1>1, <3>1 DEF Put, IsTrue
      <4>2. \A i \in DOMAIN <<text>> : <<text>>[i] = text
        OBVIOUS
      <4> QED
        BY <1>2, <3>1, <4>1, <4>2
    <3>2. CASE s # e.Stamp
      BY <1>1, <3>2 DEF Put, NamesTrue, CountedTrue
    <3> QED
      BY <3>1, <3>2
  <2> QED
    BY <2>1 DEF CountedTrue
<1>4. ASSUME NEW o \in DOMAIN U.Names
      PROVE  /\ U.Names[o] \in NameEntries
             /\ \/ o \in DOMAIN T.Names /\ U.Names[o].Text = T.Names[o].Text
                \/ Live(w, o) /\ Says(w, U.Names[o].Text, w[o])
  <2>1. CASE o \in DOMAIN T.Names /\ U.Names[o] = T.Names[o]
    BY <2>1 DEF NamesTrue
  <2>2. CASE /\ o = e.KeyObject /\ e.KeyObject # 0 /\ name # NoName /\ IsOpen(e)
             /\ U.Names[o] = [Text |-> name, Tick |-> at]
    <3>1. Live(w, o) /\ Says(w, name, w[o])
      BY <2>2 DEF IsTrue
    <3>2. name \in Texts
      BY <3>1 DEF Says
    <3> QED
      BY <2>2, <3>1, <3>2 DEF NameEntries
  <2> QED
    BY <1>1, <2>1, <2>2 DEF CountNames, Put
<1>5. U.NextToken = T.NextToken
  BY <1>1 DEF CountsOnly
<1> QED
  BY <1>1, <1>3, <1>4, <1>5, NamesStayTrue DEF U

\* The token of an open that is counted is named as the open's key.
LEMMA NameTokenTrue ==
  ASSUME NEW w \in [Addresses -> Paths], NEW tr, NEW T, IsTable(T), NEW E, NamesTrue(w, tr, T, E),
         NEW d, NEW name, NEW at \in Nat,
         d.Token # 0 =>
             /\ d.Token \in Tokens(T)
             /\ d \in E \/ (d.Event.KeyObject \in DOMAIN T.PendingOpens /\ T.PendingOpens[d.Event.KeyObject] = d.Token)
             /\ Says(w, name, w[d.Event.KeyObject])
  PROVE  NamesTrue(w, tr, NameToken(T, d, name, at), E)
<1> DEFINE U == NameToken(T, d, name, at)
<1>1. CASE d.Token = 0
  BY <1>1 DEF NameToken
<1>2. CASE d.Token # 0
  <2>1. /\ CountsOnly(T, U) /\ U.counted = T.counted
        /\ U.Names = Put(T.Names, d.Token, [Text |-> name, Tick |-> at])
    BY <1>2, NameTokenFields
  <2> HIDE DEF U
  <2>2. \A a : Owns(w, T, E, a, d.Token) => a = d.Event.KeyObject
    BY <1>2 DEF Owns
  <2>3. ASSUME NEW o \in DOMAIN U.Names
        PROVE  /\ U.Names[o] \in NameEntries
               /\ \/ o \in DOMAIN T.Names /\ U.Names[o].Text = T.Names[o].Text
                  \/ o \in Tokens(T) /\ \A a : Live(w, a) /\ Owns(w, T, E, a, o) => Says(w, U.Names[o].Text, w[a])
    <3>1. CASE o = d.Token
      <4>1. U.Names[o] = [Text |-> name, Tick |-> at] /\ name \in Texts
        BY <1>2, <2>1, <3>1 DEF Put, Says
      <4> QED
        BY <1>2, <2>2, <3>1, <4>1 DEF NameEntries
    <3>2. CASE o # d.Token
      BY <2>1, <3>2 DEF Put, NamesTrue
    <3> QED
      BY <3>1, <3>2
  <2>4. U.NextToken = T.NextToken /\ CountedTrue(w, tr, U.counted)
    BY <2>1 DEF CountsOnly, NamesTrue
  <2>5. \A b \in DOMAIN U.PendingOpens : b \in DOMAIN T.PendingOpens /\ U.PendingOpens[b] = T.PendingOpens[b]
    BY <2>1 DEF CountsOnly
  <2> QED
    BY <2>3, <2>4, <2>5, NamesStayTrue DEF U
<1> QED
  BY <1>1, <1>2

-----------------------------------------------------------------------------
(* An operation that waits, or counts because the queue is full. *)

\* The fields of an event.
LEMMA EventFields ==
  ASSUME NEW e \in Events
  PROVE  /\ e.KeyObject \in Addresses \cup {0} /\ e.BaseObject \in Addresses \cup {0} /\ e.Name \in KeyNames
         /\ e.Stamp \in 1 .. MaxEvents
  BY DEF Events, None, KeyNames

\* The items of a longer queue.
LEMMA ItemsAppend ==
  ASSUME NEW S, NEW D \in Seq(S), NEW d \in S
  PROVE  Items(Append(D, d)) = Items(D) \cup {d}
<1>1. /\ DOMAIN Append(D, d) = 1 .. Len(D) + 1 /\ DOMAIN D = 1 .. Len(D) /\ Len(D) \in Nat
      /\ \A i \in 1 .. Len(D) : Append(D, d)[i] = D[i]
      /\ Append(D, d)[Len(D) + 1] = d
  BY SeqAppend
<1>2. 1 .. Len(D) + 1 = (1 .. Len(D)) \cup {Len(D) + 1}
  BY <1>1
<1> QED
  BY <1>1, <1>2 DEF Items

\* One more waits, of which all that waits on its token is the same key's.
LEMMA EntryAdded ==
  ASSUME NEW w, NEW tr, NEW T, NEW E, NamesTrue(w, tr, T, E), NEW d, EntryTrue(w, tr, T, d),
         d.Waiting \in Tokens(T) => \A a : Owns(w, T, E, a, d.Waiting) => Target(d.Event) = a,
         d.Token \in Tokens(T) => \A a : Owns(w, T, E, a, d.Token) => d.Event.KeyObject = a,
         NEW U, U.Names = T.Names, U.PendingOpens = T.PendingOpens, U.NextToken = T.NextToken, U.counted = T.counted
  PROVE  NamesTrue(w, tr, U, E \cup {d})
<1>1. Tokens(U) = Tokens(T)
  BY DEF Tokens
<1>2. ASSUME NEW t \in Tokens(U)
      PROVE  \E a \in Addresses : Live(w, a) /\ Owns(w, U, E \cup {d}, a, t)
  <2>1. PICK a \in Addresses : Live(w, a) /\ Owns(w, T, E, a, t)
    BY <1>1 DEF NamesTrue
  <2>2. Owns(w, U, E \cup {d}, a, t)
    BY <1>1, <2>1 DEF Owns
  <2> QED
    BY <2>1, <2>2
<1>3. \A x \in E \cup {d} : EntryTrue(w, tr, U, x)
  BY <1>1 DEF NamesTrue, EntryTrue
<1> QED
  BY <1>1, <1>2, <1>3 DEF NamesTrue

\* Count leaves what waits as it is.
LEMMA CountKeepsQueue ==
  ASSUME NEW T, IsTable(T), NEW e, NEW name, NEW at, NEW b
  PROVE  CountsOnly(T, Count(T, e, name, at, b)) /\ Count(T, e, name, at, b).PendingOpens = T.PendingOpens
<1>1. /\ CountsOnly(T, Count(T, e, name, at, b))
      /\ Count(T, e, name, at, b).Names = CountNames(T, e, name, at, b)
      /\ Count(T, e, name, at, b).PendingOpens = T.PendingOpens
      /\ e.Stamp \notin DOMAIN T.counted =>
             Count(T, e, name, at, b).counted = Put(T.counted, e.Stamp, <<CountText(e, name)>>)
  BY CountFields
<1> QED
  BY <1>1

\* The token of an open: its operation waits below its base.
LEMMA DeferTrue ==
  ASSUME NEW w \in [Addresses -> Paths], NEW tr, NEW T, NEW given, Sound(T, given),
         NamesTrue(w, tr, T, Items(T.Deferred)),
         NEW e, IsTrue(w, tr, e), e.Stamp \notin given, NEW at \in Nat, NEW waiting, NEW token \in Nat,
         IsOpen(e) => ~e.Absolute /\ waiting = e.BaseObject,
         \/ waiting = Target(e) /\ Live(w, waiting)
         \/ waiting \in Tokens(T) /\ waiting = T.PendingOpens[e.KeyObject] /\ e.KeyObject \in DOMAIN T.PendingOpens /\ ~IsOpen(e),
         token # 0 => /\ IsOpen(e) /\ token \in Tokens(T)
                      /\ e.KeyObject \in DOMAIN T.PendingOpens /\ T.PendingOpens[e.KeyObject] = token
                      /\ Live(w, e.KeyObject)
  PROVE  LET U == Defer(T, e, at, waiting, token) IN NamesTrue(w, tr, U, Items(U.Deferred))
<1> DEFINE name == UnnamedBase(waiting, e.Name)
           d == [Event |-> e, Tick |-> at, Waiting |-> waiting, Token |-> token]
           E == Items(T.Deferred)
           U == Defer(T, e, at, waiting, token)
           V == Count(T, e, name, at, TRUE)
<1>t. /\ IsTable(T) /\ T.Deferred \in Seq(Entries) /\ e \in Events /\ e.Stamp \notin DOMAIN T.counted
  BY DEF Sound, Types, Stamps, IsTrue
<1>d. d.Event = e /\ d.Tick = at /\ d.Waiting = waiting /\ d.Token = token
  OBVIOUS
<1>1. \/ U = Enqueue(T, e, at, waiting, token)
      \/ IsOpen(e) /\ U = NameToken(V, d, name, at)
      \/ ~IsOpen(e) /\ IsToken(waiting) /\ waiting \in DOMAIN T.Names /\ U = Count(T, e, T.Names[waiting].Text, at, TRUE)
      \/ ~IsOpen(e) /\ U = Count(T, e, NoName, at, TRUE)
  BY DEF Defer
<1>2. waiting \in Tokens(T) => \A a : Owns(w, T, E, a, waiting) => Target(e) = a
  BY AddressIsNoToken DEF Owns, Target, Live
<1>3. ~IsToken(waiting) \/ waiting \in Tokens(T)
  BY AddressIsNoToken DEF Live
<1> HIDE DEF U, d, name, V
<1>4. CASE U = Enqueue(T, e, at, waiting, token)
  <2>1. /\ U.Names = T.Names /\ U.PendingOpens = T.PendingOpens /\ U.NextToken = T.NextToken
        /\ U.counted = T.counted /\ U.Deferred = Append(T.Deferred, d)
    BY <1>t, <1>4, EnqueueFields DEF d
  <2>2. d \in Entries
    <3>1. waiting \in Addresses \cup Nat
      BY TableAssumption DEF Live, Tokens
    <3> QED
      BY <1>t, <3>1 DEF Entries, d
  <2>3. EntryTrue(w, tr, T, d)
    BY <1>d, <2>2 DEF EntryTrue
  <2>4. /\ d.Waiting \in Tokens(T) => \A a : Owns(w, T, E, a, d.Waiting) => Target(d.Event) = a
        /\ d.Token \in Tokens(T) => \A a : Owns(w, T, E, a, d.Token) => d.Event.KeyObject = a
    <3>1. 0 \notin Tokens(T)
      BY TableAssumption DEF Tokens
    <3> QED
      BY <1>2, <1>d, <3>1 DEF Owns
  <2>5. Items(U.Deferred) = E \cup {d}
    BY <1>t, <2>1, <2>2, ItemsAppend
  <2> HIDE DEF E
  <2>6. NamesTrue(w, tr, U, E \cup {d})
    BY <2>1, <2>3, <2>4, EntryAdded DEF E
  <2> QED
    BY <2>5, <2>6 DEF U
<1>5. CASE IsOpen(e) /\ U = NameToken(V, d, name, at)
  <2>1. /\ Live(w, e.BaseObject) /\ tr[e.Stamp] = Append(w[e.BaseObject], e.Name) /\ waiting = e.BaseObject
        /\ e.KeyObject # 0 => w[e.KeyObject] = tr[e.Stamp]
    BY <1>5 DEF IsTrue
  <2>2. Says(w, name, tr[e.Stamp]) /\ name # NoName
    BY <1>t, <2>1, BaseText, EventFields DEF name
  <2>3. NamesTrue(w, tr, V, E)
    BY <1>t, <2>2, CountTrue DEF V
  <2>4. CountsOnly(T, V) /\ V.PendingOpens = T.PendingOpens
    <3>1. IsTable(T)
      BY <1>t
    <3>2. \A b : CountsOnly(T, Count(T, e, name, at, b))
      BY <3>1, CountKeepsQueue
    <3>3. \A b : Count(T, e, name, at, b).PendingOpens = T.PendingOpens
      BY <3>1, CountKeepsQueue
    <3> QED
      BY <3>2, <3>3 DEF V
  <2>5. IsTable(V) /\ Tokens(V) = Tokens(T) /\ V.Deferred = T.Deferred
    BY <2>4 DEF CountsOnly, Tokens
  <2>6. d.Token # 0 =>
          /\ d.Token \in Tokens(V)
          /\ d \in E \/ (d.Event.KeyObject \in DOMAIN V.PendingOpens /\ V.PendingOpens[d.Event.KeyObject] = d.Token)
          /\ Says(w, name, w[d.Event.KeyObject])
    <3>1. token # 0 => e.KeyObject # 0
      BY AddressIsNoToken DEF Live
    <3> QED
      BY <1>d, <2>1, <2>2, <2>4, <2>5, <3>1
  <2> HIDE DEF E
  <2>7. NamesTrue(w, tr, NameToken(V, d, name, at), E)
    BY <2>3, <2>5, <2>6, NameTokenTrue
  <2>8. U.Deferred = T.Deferred
    <3>1. CountsOnly(V, U) /\ U.counted = V.counted
          /\ U.Names = IF d.Token = 0 THEN V.Names ELSE Put(V.Names, d.Token, [Text |-> name, Tick |-> at])
      BY <1>5, <2>5, NameTokenFields
    <3> QED
      BY <2>5, <3>1 DEF CountsOnly
  <2> QED
    BY <1>5, <2>7, <2>8 DEF U, E
<1>6. ASSUME NEW x, x = NoName \/ Says(w, x, w[e.KeyObject]), ~IsOpen(e), U = Count(T, e, x, at, TRUE)
      PROVE  NamesTrue(w, tr, U, Items(U.Deferred))
  <2>1. Live(w, e.KeyObject) /\ w[e.KeyObject] = tr[e.Stamp]
    BY <1>6 DEF IsTrue
  <2>2. NamesTrue(w, tr, Count(T, e, x, at, TRUE), E)
    BY <1>t, <1>6, <2>1, CountTrue
  <2>3. U.Deferred = T.Deferred
    BY <1>t, <1>6, CountFields DEF CountsOnly
  <2> QED
    BY <1>6, <2>2, <2>3
<1>7. CASE ~IsOpen(e) /\ IsToken(waiting) /\ waiting \in DOMAIN T.Names /\ U = Count(T, e, T.Names[waiting].Text, at, TRUE)
  <2>1. waiting \in Tokens(T)
    BY <1>3, <1>7
  <2>2. PICK a \in Addresses : Live(w, a) /\ Owns(w, T, E, a, waiting)
    BY <2>1 DEF NamesTrue
  <2>3. a = e.KeyObject
    BY <1>2, <1>7, <2>1, <2>2 DEF Target
  <2>4. Says(w, T.Names[waiting].Text, w[e.KeyObject])
    BY <1>7, <2>2, <2>3 DEF Owns
  <2> QED
    BY <1>6, <1>7, <2>4 DEF U
<1> QED
  BY <1>1, <1>4, <1>5, <1>6, <1>7 DEF U

-----------------------------------------------------------------------------
(* The token of an open that waits. *)

\* The token of an open that waits, which nothing waits on yet.
LEMMA PendingTrue ==
  ASSUME NEW w, NEW tr, NEW T, NEW limit, Types(T, limit), NEW E, NamesTrue(w, tr, T, E), NEW a, Live(w, a)
  PROVE  NamesTrue(w, tr, [T EXCEPT !.Names = Without(@, {a}), !.NextToken = @ + 1,
                                    !.PendingOpens = Put(@, a, T.NextToken)], E)
<1> DEFINE token == T.NextToken
           names == Without(T.Names, {a})
           opens == Put(T.PendingOpens, a, token)
           U == [T EXCEPT !.Names = names, !.NextToken = token + 1, !.PendingOpens = opens]
<1>1. /\ \A o \in DOMAIN names : o \in DOMAIN T.Names /\ names[o] = T.Names[o]
      /\ \A b \in DOMAIN opens : (opens[b] = token /\ b = a) \/ (b \in DOMAIN T.PendingOpens /\ opens[b] = T.PendingOpens[b])
  BY DEF Without, Put
<1> HIDE DEF names, opens
<1>2. U.Names = names /\ U.PendingOpens = opens /\ U.NextToken = token + 1 /\ U.counted = T.counted
  BY DEF Types, IsTable
<1> HIDE DEF U
<1>3. /\ token \in Nat /\ IsToken(token) /\ token \notin Tokens(T) /\ token # 0
      /\ Tokens(U) = Tokens(T) \cup {token}
  BY <1>2, TableAssumption DEF Types, Tokens, IsToken
<1>4. \A b \in Addresses : b # token
  BY <1>3, AddressIsNoToken
<1>5. token \notin DOMAIN T.Names /\ \A d \in E : d.Waiting # token /\ d.Token # token
  BY <1>3, <1>4 DEF NamesTrue, EntryTrue, Live
<1>6. \A b \in DOMAIN T.PendingOpens : T.PendingOpens[b] # token
  BY <1>3 DEF Types
<1>7. ASSUME NEW t \in Tokens(U)
      PROVE  \E b \in Addresses : Live(w, b) /\ Owns(w, U, E, b, t)
  <2>1. CASE t = token
    <3>1. Owns(w, U, E, a, t)
      BY <1>1, <1>2, <1>5, <1>6, <2>1 DEF Owns
    <3> QED
      BY <3>1 DEF Live
  <2>2. CASE t # token
    <3>1. PICK b \in Addresses : Live(w, b) /\ Owns(w, T, E, b, t)
      BY <1>3, <2>2 DEF NamesTrue
    <3>2. Owns(w, U, E, b, t)
      BY <1>1, <1>2, <2>2, <3>1 DEF Owns
    <3> QED
      BY <3>1, <3>2
  <2> QED
    BY <2>1, <2>2
<1>8. \A d \in E : EntryTrue(w, tr, U, d)
  BY <1>3 DEF NamesTrue, EntryTrue
<1>9. \A o \in DOMAIN U.Names :
         /\ U.Names[o] \in NameEntries
         /\ o \in Tokens(U) \/ (Live(w, o) /\ Says(w, U.Names[o].Text, w[o]))
  BY <1>1, <1>2, <1>3 DEF NamesTrue
<1>10. NamesTrue(w, tr, U, E)
  BY <1>2, <1>7, <1>8, <1>9 DEF NamesTrue
<1> QED
  BY <1>10 DEF U, names, opens

\* What waited on an address waits on the token of the key opened there.
LEMMA RetargetTrue ==
  ASSUME NEW w, NEW tr, NEW T, NEW limit, Types(T, limit), NamesTrue(w, tr, T, Items(T.Deferred)), NEW a, Live(w, a),
         a \in DOMAIN T.PendingOpens, NEW stamp
  PROVE  LET U == Retarget(T, a, stamp, T.PendingOpens[a]) IN NamesTrue(w, tr, U, Items(U.Deferred))
<1> DEFINE token == T.PendingOpens[a]
           moves(d) == d.Waiting = a /\ d.Event.Stamp >= stamp
           n == Cardinality({i \in DOMAIN T.Deferred : moves(T.Deferred[i])})
           E == Items(T.Deferred)
           queue == [i \in DOMAIN T.Deferred |->
                        IF moves(T.Deferred[i]) THEN [T.Deferred[i] EXCEPT !.Waiting = token] ELSE T.Deferred[i]]
           waits == Put(NoLongerWaiting(T.Waiting, a, n), token, n)
           U == Retarget(T, a, stamp, token)
<1>1. CASE U = T
  BY <1>1
<1>2. CASE U = [T EXCEPT !.Deferred = queue, !.Waiting = waits]
  <2> HIDE DEF waits
  <2>1. token \in Tokens(T) /\ token \in Nat /\ a \notin Tokens(T)
    BY TableAssumption, AddressIsNoToken DEF Types, Tokens, Live
  <2>2. ASSUME NEW i \in DOMAIN queue
        PROVE  \/ queue[i] \in E
               \/ /\ queue[i] \in Entries /\ queue[i].Waiting = token
                  /\ \E x \in E : x.Waiting = a /\ queue[i].Event = x.Event /\ queue[i].Token = x.Token
    <3>1. T.Deferred[i] \in E /\ T.Deferred[i] \in Entries
      BY DEF Items, Types
    <3>2. CASE moves(T.Deferred[i])
      <4> DEFINE x == T.Deferred[i]
      <4>1. queue[i] = [x EXCEPT !.Waiting = token]
        BY <3>2
      <4> HIDE DEF x
      <4>2. queue[i] \in Entries /\ queue[i].Waiting = token /\ queue[i].Event = x.Event /\ queue[i].Token = x.Token
        BY <2>1, <3>1, <4>1 DEF Entries, x
      <4> QED
        BY <3>1, <3>2, <4>2 DEF x
    <3>3. CASE ~moves(T.Deferred[i])
      BY <3>1, <3>3
    <3> QED
      BY <3>2, <3>3
  <2> HIDE DEF U, queue, E
  <2>3. /\ U.Deferred = queue /\ U.Names = T.Names /\ U.PendingOpens = T.PendingOpens /\ U.NextToken = T.NextToken
        /\ U.counted = T.counted
    BY <1>2 DEF Types, IsTable
  <2> DEFINE F == Items(queue)
  <2>4. ASSUME NEW d \in F
        PROVE  \/ d \in E
               \/ /\ d \in Entries /\ d.Waiting = token
                  /\ \E x \in E : x.Waiting = a /\ d.Event = x.Event /\ d.Token = x.Token
    BY <2>2 DEF Items
  <2> HIDE DEF F
  <2>5. Tokens(U) = Tokens(T)
    BY <2>3 DEF Tokens
  <2>6. \A x \in E : EntryTrue(w, tr, T, x)
    BY DEF NamesTrue, E
  <2>7. \A x \in E : x.Waiting = a => Target(x.Event) = a
    BY <2>1, <2>6 DEF EntryTrue
  <2>8. ASSUME NEW d \in F PROVE EntryTrue(w, tr, U, d)
    BY <2>1, <2>4, <2>5, <2>6 DEF EntryTrue
  <2>9. ASSUME NEW t \in Tokens(U)
        PROVE  \E b \in Addresses : Live(w, b) /\ Owns(w, U, F, b, t)
    <3>1. PICK b \in Addresses : Live(w, b) /\ Owns(w, T, E, b, t)
      BY <2>5 DEF NamesTrue, E
    <3>2. \A d \in F : d.Waiting = t => Target(d.Event) = b
      <4>1. t = token => b = a
        BY <3>1 DEF Owns
      <4>2. ASSUME NEW d \in F, d.Waiting = t, d \notin E PROVE Target(d.Event) = b
        BY <2>4, <2>7, <4>1, <4>2
      <4> QED
        BY <3>1, <4>2 DEF Owns
    <3>3. \A d \in F : d.Token = t => d.Event.KeyObject = b
      BY <2>4, <3>1 DEF Owns
    <3> QED
      BY <2>3, <3>1, <3>2, <3>3 DEF Owns
  <2>10. \A o \in DOMAIN U.Names :
           /\ U.Names[o] \in NameEntries
           /\ o \in Tokens(U) \/ (Live(w, o) /\ Says(w, U.Names[o].Text, w[o]))
    BY <2>3, <2>5 DEF NamesTrue
  <2>11. NamesTrue(w, tr, U, F)
    BY <2>3, <2>8, <2>9, <2>10 DEF NamesTrue
  <2> QED
    BY <2>3, <2>11 DEF F, U
<1> QED
  BY <1>1, <1>2 DEF Retarget

-----------------------------------------------------------------------------
(* One operation of a loop counts under a true name, or is kept. *)

\* What is not named or counted is of no interest to the names.
LEMMA SameNames ==
  ASSUME NEW w, NEW tr, NEW T, NEW E, NamesTrue(w, tr, T, E), NEW U, NEW F, F \subseteq E,
         U.Names = T.Names, U.PendingOpens = T.PendingOpens, U.NextToken = T.NextToken, U.counted = T.counted
  PROVE  NamesTrue(w, tr, U, F)
<1>1. \A o \in DOMAIN U.Names : U.Names[o] \in NameEntries
  BY DEF NamesTrue
<1>2. CountedTrue(w, tr, U.counted)
  BY DEF NamesTrue
<1> QED
  BY <1>1, <1>2, NamesStayTrue

\* U is T as far as the names that wait or are counted go.
NamesKept(w, tr, T, E, U) ==
    IsTable(U) /\ NamesTrue(w, tr, U, E) /\ U.Deferred = T.Deferred /\ U.counted = T.counted

\* A name that is used keeps its text.
LEMMA TouchTrue ==
  ASSUME NEW w, NEW tr, NEW T, IsTable(T), NEW E, NamesTrue(w, tr, T, E), NEW o, NEW at \in Nat
  PROVE  NamesKept(w, tr, T, E, [T EXCEPT !.Names = [T.Names EXCEPT ![o].Tick = at]])
<1> DEFINE names == [T.Names EXCEPT ![o].Tick = at]
           U == [T EXCEPT !.Names = names]
<1>1. ASSUME NEW x \in NameEntries
      PROVE  [x EXCEPT !.Tick = at] \in NameEntries /\ [x EXCEPT !.Tick = at].Text = x.Text
  BY DEF NameEntries
<1>2. ASSUME NEW b \in DOMAIN names
      PROVE  b \in DOMAIN T.Names /\ names[b] \in NameEntries /\ names[b].Text = T.Names[b].Text
  <2>1. b \in DOMAIN T.Names /\ T.Names[b] \in NameEntries
    BY DEF NamesTrue
  <2>2. names[b] = IF b = o THEN [T.Names[b] EXCEPT !.Tick = at] ELSE T.Names[b]
    BY <2>1
  <2> HIDE DEF names
  <2> QED
    BY <1>1, <2>1, <2>2
<1> HIDE DEF names
<1>3. /\ IsTable(U) /\ U.Names = names /\ U.PendingOpens = T.PendingOpens /\ U.NextToken = T.NextToken
      /\ U.counted = T.counted /\ U.Deferred = T.Deferred
  BY DEF IsTable
<1> HIDE DEF U
<1>4. CountedTrue(w, tr, U.counted)
  BY <1>3 DEF NamesTrue
<1>5. NamesTrue(w, tr, U, E)
  BY <1>2, <1>3, <1>4, NamesStayTrue
<1> QED
  BY <1>3, <1>5 DEF U, names, NamesKept

\* The name an open counts under.
LEMMA OpenText ==
  ASSUME NEW w \in [Addresses -> Paths], NEW tr, NEW T, NEW E, NamesTrue(w, tr, T, E), NEW e, IsTrue(w, tr, e), IsOpen(e),
         HasOpenName(T, e)
  PROVE  Says(w, OpenName(T, e), tr[e.Stamp]) /\ OpenName(T, e) # NoName
<1>e. e.Name \in KeyNames /\ e.BaseObject \in Addresses \cup {0}
  BY EventFields DEF IsTrue
<1>1. CASE e.Absolute
  <2>1. OpenName(T, e) = Named(<<e.Name>>) /\ tr[e.Stamp] = <<e.Name>>
    BY <1>1 DEF OpenName, IsTrue
  <2> QED
    BY <1>e, <2>1, RootText
<1>2. CASE ~e.Absolute
  <2> DEFINE b == e.BaseObject
             text == T.Names[b].Text
  <2>1. OpenName(T, e) = Below(text, e.Name) /\ b \in DOMAIN T.Names
    BY <1>2 DEF OpenName, HasOpenName
  <2>2. Live(w, b) /\ e.Name # "" /\ tr[e.Stamp] = Append(w[b], e.Name)
    BY <1>2 DEF IsTrue
  <2>3. b \in Addresses /\ b \notin Tokens(T)
    BY <2>2, AddressIsNoToken DEF Live
  <2>4. Says(w, text, w[b])
    BY <2>1, <2>3 DEF NamesTrue
  <2> HIDE DEF b, text
  <2>5. e.Name \in KeyNames /\ e.Name # ""
    BY <1>e, <2>2
  <2>6. Says(w, Below(text, e.Name), Append(w[b], e.Name)) /\ Below(text, e.Name) # NoName
    BY <2>3, <2>4, <2>5, BelowText
  <2>7. OpenName(T, e) = Below(text, e.Name) /\ tr[e.Stamp] = Append(w[b], e.Name)
    BY <2>1, <2>2
  <2> QED
    BY <2>6, <2>7
<1> QED
  BY <1>1, <1>2

\* The name an open whose base has no name counts under.
LEMMA UnnamedText ==
  ASSUME NEW w \in [Addresses -> Paths], NEW tr, NEW e, IsTrue(w, tr, e), IsOpen(e), ~e.Absolute
  PROVE  Says(w, UnnamedBase(e.BaseObject, e.Name), tr[e.Stamp]) /\ UnnamedBase(e.BaseObject, e.Name) # NoName
<1>1. e.Name \in KeyNames
  BY EventFields DEF IsTrue
<1>2. Live(w, e.BaseObject) /\ tr[e.Stamp] = Append(w[e.BaseObject], e.Name)
  BY DEF IsTrue
<1> QED
  BY <1>1, <1>2, BaseText

\* The tables of a loop over the operations E.
LoopTrue(w, tr, g, E) == NamesTrue(w, tr, g, E) /\ Items(g.Deferred) \subseteq E

\* An operation that goes on waiting.
LEMMA KeepTrue ==
  ASSUME NEW w, NEW tr, NEW g, IsTable(g), NEW E, g.Deferred \in Seq(Entries), LoopTrue(w, tr, g, E), NEW d \in E
  PROVE  LoopTrue(w, tr, [g EXCEPT !.Deferred = Append(@, d)], E)
<1> DEFINE queue == Append(g.Deferred, d)
           U == [g EXCEPT !.Deferred = queue]
<1>1. d \in Entries
  BY DEF LoopTrue, NamesTrue, EntryTrue
<1>2. Items(queue) = Items(g.Deferred) \cup {d}
  BY <1>1, ItemsAppend
<1> HIDE DEF queue
<1>3. /\ U.Names = g.Names /\ U.PendingOpens = g.PendingOpens /\ U.NextToken = g.NextToken /\ U.counted = g.counted
      /\ U.Deferred = queue
  BY DEF IsTable
<1> HIDE DEF U
<1>4. NamesTrue(w, tr, U, E)
  BY <1>3, SameNames DEF LoopTrue
<1>5. LoopTrue(w, tr, U, E)
  BY <1>2, <1>3, <1>4 DEF LoopTrue
<1> QED
  BY <1>5 DEF U, queue

\* One operation fewer waits.
LEMMA FewerWaitTrue ==
  ASSUME NEW w, NEW tr, NEW g, IsTable(g), NEW E, LoopTrue(w, tr, g, E), NEW waits
  PROVE  NamesKept(w, tr, g, E, [g EXCEPT !.Waiting = waits])
<1> DEFINE V == [g EXCEPT !.Waiting = waits]
<1>1. /\ IsTable(V) /\ V.Names = g.Names /\ V.PendingOpens = g.PendingOpens /\ V.NextToken = g.NextToken
      /\ V.counted = g.counted /\ V.Deferred = g.Deferred
  BY DEF IsTable
<1> HIDE DEF V
<1>2. NamesTrue(w, tr, V, E)
  BY <1>1, SameNames DEF LoopTrue
<1> QED
  BY <1>1, <1>2 DEF V, NamesKept

\* A step of FlushWaiting.
LEMMA FlushOneTrue ==
  ASSUME NEW w \in [Addresses -> Paths], NEW tr, NEW g, IsTable(g), NEW E, g.Deferred \in Seq(Entries), LoopTrue(w, tr, g, E),
         NEW d \in E, d.Event.Stamp \notin DOMAIN g.counted, NEW object \in Addresses, NEW stamp
  PROVE  LoopTrue(w, tr, FlushOne(g, d, object, stamp), E)
<1> DEFINE e == d.Event
           name == IF IsOpen(e) THEN UnnamedBase(object, e.Name) ELSE NoName
           U == FlushOne(g, d, object, stamp)
           waits == [g.Waiting EXCEPT ![object] = @ - 1]
           V == [g EXCEPT !.Waiting = waits]
<1>1. \/ U = [g EXCEPT !.Deferred = Append(@, d)]
      \/ d.Waiting = object /\ U = Count(V, e, name, d.Tick, TRUE)
  BY DEF FlushOne
<1> HIDE DEF U
<1>2. CASE U = [g EXCEPT !.Deferred = Append(@, d)]
  BY <1>2, KeepTrue DEF U
<1>3. CASE d.Waiting = object /\ U = Count(V, e, name, d.Tick, TRUE)
  <2> HIDE DEF waits
  <2>1. IsTable(V) /\ NamesTrue(w, tr, V, E) /\ V.Deferred = g.Deferred /\ V.counted = g.counted
    <3>1. NamesKept(w, tr, g, E, [g EXCEPT !.Waiting = waits])
      BY FewerWaitTrue
    <3>2. NamesKept(w, tr, g, E, V)
      BY <3>1
    <3> HIDE DEF V
    <3> QED
      BY <3>2 DEF NamesKept
  <2>2. EntryTrue(w, tr, g, d) /\ object \notin Tokens(g)
    BY AddressIsNoToken DEF LoopTrue, NamesTrue
  <2>3. IsTrue(w, tr, e) /\ d.Tick \in Nat /\ object = Target(e) /\ (IsOpen(e) => ~e.Absolute)
    BY <1>3, <2>2 DEF EntryTrue, Entries
  <2>4. IsOpen(e) => Says(w, name, tr[e.Stamp]) /\ name # NoName
    BY <2>3, UnnamedText DEF Target
  <2>5. ~IsOpen(e) => name = NoName /\ Live(w, e.KeyObject) /\ w[e.KeyObject] = tr[e.Stamp]
    BY <2>3 DEF IsTrue
  <2> HIDE DEF V, name, e
  <2>6. e.Stamp \notin DOMAIN V.counted
    BY <2>1 DEF e
  <2>7. NamesTrue(w, tr, Count(V, e, name, d.Tick, TRUE), E)
    BY <2>1, <2>3, <2>4, <2>5, <2>6, CountTrue
  <2>8. CountsOnly(V, U)
    BY <1>3, <2>1, CountKeepsQueue
  <2> QED
    BY <1>3, <2>1, <2>7, <2>8 DEF LoopTrue, CountsOnly, U
<1> QED
  BY <1>1, <1>2, <1>3

\* A step of ApplyDeferred.
LEMMA ApplyOneTrue ==
  ASSUME NEW w \in [Addresses -> Paths], NEW tr, NEW g, IsTable(g), NEW E, g.Deferred \in Seq(Entries), LoopTrue(w, tr, g, E),
         NEW d \in E, d.Event.Stamp \notin DOMAIN g.counted
  PROVE  LoopTrue(w, tr, ApplyOne(g, d), E)
<1> DEFINE e == d.Event
           text == IF HasOpenName(g, e) THEN OpenName(g, e) ELSE UnnamedBase(e.BaseObject, e.Name)
           takes == e.KeyObject \in DOMAIN g.PendingOpens /\ g.PendingOpens[e.KeyObject] = d.Token
           waits == NoLongerWaiting(g.Waiting, d.Waiting, 1)
           V == [g EXCEPT !.Waiting = waits]
           latest == Latest(V.Names[d.Waiting].Tick, d.Tick)
           W == [V EXCEPT !.Names = [V.Names EXCEPT ![d.Waiting].Tick = latest]]
           C == Count(V, e, text, d.Tick, takes)
           x == g.Names[d.Waiting].Text
           U == ApplyOne(g, d)
<1>1. \/ U = [g EXCEPT !.Deferred = Append(@, d)]
      \/ IsOpen(e) /\ U = NameToken(C, d, text, d.Tick)
      \/ ~IsOpen(e) /\ d.Waiting \in DOMAIN g.Names /\ U = Count(W, e, x, d.Tick, TRUE)
      \/ ~IsOpen(e) /\ U = Count(V, e, NoName, d.Tick, TRUE)
  BY DEF ApplyOne
<1> HIDE DEF U, waits
<1>2. /\ IsTable(V) /\ NamesTrue(w, tr, V, E) /\ V.Deferred = g.Deferred /\ V.counted = g.counted
      /\ V.Names = g.Names /\ V.NextToken = g.NextToken
  <2>1. V.Names = g.Names /\ V.NextToken = g.NextToken
    BY DEF IsTable
  <2>2. NamesKept(w, tr, g, E, V)
    BY FewerWaitTrue
  <2> HIDE DEF V
  <2> QED
    BY <2>1, <2>2 DEF NamesKept
<1>3. EntryTrue(w, tr, g, d) /\ IsTrue(w, tr, e) /\ d.Tick \in Nat /\ (IsOpen(e) => ~e.Absolute)
  BY DEF LoopTrue, NamesTrue, EntryTrue, Entries
<1>4. IsOpen(e) => Says(w, text, tr[e.Stamp]) /\ text # NoName
  BY <1>3, UnnamedText, OpenText DEF LoopTrue
<1>5. ~IsOpen(e) => Live(w, e.KeyObject) /\ w[e.KeyObject] = tr[e.Stamp]
  BY <1>3 DEF IsTrue
<1> HIDE DEF V, text, takes, e
<1>6. e.Stamp \notin DOMAIN V.counted
  BY <1>2 DEF e
<1>7. CASE U = [g EXCEPT !.Deferred = Append(@, d)]
  BY <1>7, KeepTrue DEF U
<1>8. CASE IsOpen(e) /\ U = NameToken(C, d, text, d.Tick)
  <2>1. NamesTrue(w, tr, C, E)
    BY <1>2, <1>3, <1>4, <1>6, <1>8, CountTrue
  <2>2. CountsOnly(V, C)
    BY <1>2, CountKeepsQueue
  <2>3. IsTable(C) /\ C.Deferred = g.Deferred /\ Tokens(C) = Tokens(g)
    BY <1>2, <2>2 DEF CountsOnly, Tokens
  <2>4. d.Token # 0 =>
          /\ d.Token \in Tokens(C)
          /\ d \in E \/ (d.Event.KeyObject \in DOMAIN C.PendingOpens /\ C.PendingOpens[d.Event.KeyObject] = d.Token)
          /\ Says(w, text, w[d.Event.KeyObject])
    <3>1. d.Token # 0 => d.Token \in Tokens(g) /\ Live(w, e.KeyObject)
      BY <1>3 DEF EntryTrue, e
    <3>2. Live(w, e.KeyObject) => w[e.KeyObject] = tr[e.Stamp]
      BY <1>3, <1>8, AddressIsNoToken DEF IsTrue, Live
    <3> QED
      BY <1>4, <1>8, <2>3, <3>1, <3>2 DEF e
  <2> HIDE DEF C
  <2>5. NamesTrue(w, tr, NameToken(C, d, text, d.Tick), E)
    BY <1>3, <2>1, <2>3, <2>4, NameTokenTrue
  <2>6. U.Deferred = g.Deferred
    <3>1. CountsOnly(C, U) /\ U.counted = C.counted
          /\ U.Names = IF d.Token = 0 THEN C.Names ELSE Put(C.Names, d.Token, [Text |-> text, Tick |-> d.Tick])
      BY <1>8, <2>3, NameTokenFields
    <3> QED
      BY <2>3, <3>1 DEF CountsOnly
  <2> QED
    BY <1>8, <2>5, <2>6 DEF LoopTrue, U
<1>9. CASE ~IsOpen(e) /\ d.Waiting \in DOMAIN g.Names /\ U = Count(W, e, x, d.Tick, TRUE)
  <2>1. latest \in Nat
    <3>1. V.Names[d.Waiting] \in NameEntries
      BY <1>2, <1>9 DEF NamesTrue
    <3>2. V.Names[d.Waiting].Tick \in Nat
      BY <3>1 DEF NameEntries
    <3> QED
      BY <1>3, <3>2 DEF Latest
  <2> HIDE DEF latest
  <2>2. IsTable(W) /\ NamesTrue(w, tr, W, E) /\ W.Deferred = V.Deferred /\ W.counted = V.counted
    <3>1. NamesKept(w, tr, V, E, W)
      BY <1>2, <2>1, TouchTrue
    <3> HIDE DEF W
    <3> QED
      BY <3>1 DEF NamesKept
  <2>3. Says(w, x, w[e.KeyObject])
    <3>1. CASE d.Waiting \in Tokens(g)
      <4>1. PICK a \in Addresses : Live(w, a) /\ Owns(w, g, E, a, d.Waiting)
        BY <3>1 DEF LoopTrue, NamesTrue
      <4>2. a = e.KeyObject
        BY <1>9, <4>1 DEF Owns, Target, e
      <4> QED
        BY <1>9, <4>1, <4>2 DEF Owns
    <3>2. CASE d.Waiting = Target(e) /\ Live(w, d.Waiting)
      <4>1. d.Waiting = e.KeyObject /\ d.Waiting \notin Tokens(g)
        BY <1>9, <3>2, AddressIsNoToken DEF Target, Live
      <4> QED
        BY <1>9, <4>1 DEF LoopTrue, NamesTrue
    <3> QED
      BY <1>3, <3>1, <3>2 DEF EntryTrue, e
  <2> HIDE DEF W, x
  <2>4. NamesTrue(w, tr, Count(W, e, x, d.Tick, TRUE), E)
    BY <1>2, <1>3, <1>5, <1>6, <1>9, <2>2, <2>3, CountTrue
  <2>5. CountsOnly(W, U)
    BY <1>9, <2>2, CountKeepsQueue
  <2> QED
    BY <1>2, <1>9, <2>2, <2>4, <2>5 DEF LoopTrue, CountsOnly, U
<1>10. CASE ~IsOpen(e) /\ U = Count(V, e, NoName, d.Tick, TRUE)
  <2>1. NamesTrue(w, tr, Count(V, e, NoName, d.Tick, TRUE), E)
    BY <1>2, <1>3, <1>5, <1>6, <1>10, CountTrue
  <2>2. CountsOnly(V, U)
    BY <1>2, <1>10, CountKeepsQueue
  <2> QED
    BY <1>2, <1>10, <2>1, <2>2 DEF LoopTrue, CountsOnly, U
<1> QED
  BY <1>1, <1>7, <1>8, <1>9, <1>10

-----------------------------------------------------------------------------
(* FlushWaiting and ApplyDeferred. *)

\* Between two steps of a loop.
TableTrue(w, tr, T) == NamesTrue(w, tr, T, Items(T.Deferred))

\* The first table of a loop.
LEMMA LoopStartsTrue ==
  ASSUME NEW w, NEW tr, NEW T, TableTrue(w, tr, T), NEW U, U.Deferred = <<>>,
         U.Names = T.Names, U.PendingOpens = T.PendingOpens, U.NextToken = T.NextToken, U.counted = T.counted
  PROVE  LoopTrue(w, tr, U, Items(T.Deferred))
<1>1. NamesTrue(w, tr, U, Items(T.Deferred))
  BY SameNames DEF TableTrue
<1>2. Items(U.Deferred) = {}
  BY DEF Items
<1> QED
  BY <1>1, <1>2 DEF LoopTrue

\* And the last.
LEMMA LoopEndsTrue ==
  ASSUME NEW w, NEW tr, NEW g, NEW E, LoopTrue(w, tr, g, E), NEW U, U.Deferred = g.Deferred,
         U.Names = g.Names, U.PendingOpens = g.PendingOpens, U.NextToken = g.NextToken, U.counted = g.counted
  PROVE  TableTrue(w, tr, U)
<1>1. NamesTrue(w, tr, g, E) /\ Items(U.Deferred) \subseteq E
  BY DEF LoopTrue
<1>2. NamesTrue(w, tr, U, Items(U.Deferred))
  BY <1>1, SameNames
<1> QED
  BY <1>2 DEF TableTrue

\* The next element is one of the queue.
LEMMA ItemOf == ASSUME NEW D \in Seq(Entries), NEW n \in 0 .. Len(D) - 1 PROVE D[n + 1] \in Items(D) /\ n \in Nat /\ n < Len(D)
<1>1. n + 1 \in DOMAIN D /\ n \in Nat /\ n < Len(D)
  OBVIOUS
<1> QED
  BY <1>1 DEF Items

\* What a key object had waiting counts under it or below it.
LEMMA FlushTrue ==
  ASSUME NEW w \in [Addresses -> Paths], NEW tr, NEW T, NEW given, Sound(T, given), TableTrue(w, tr, T),
         NEW object \in Addresses, NEW stamp
  PROVE  TableTrue(w, tr, FlushWaiting(T, object, stamp))
<1> DEFINE D == T.Deferred
           E == Items(D)
           f == Flushed(T, object, stamp)
           done == f[Len(D)]
           waits == IF done.Waiting[object] = 0 THEN Without(done.Waiting, {object}) ELSE done.Waiting
           U == FlushWaiting(T, object, stamp)
           S == {n \in Nat : n <= Len(D) => LoopTrue(w, tr, f[n], E)}
<1>t. IsTable(T) /\ D \in Seq(Entries)
  BY DEF Sound, Types
<1>1. CASE object \notin DOMAIN T.Waiting
  BY <1>1 DEF FlushWaiting
<1>2. CASE object \in DOMAIN T.Waiting
  <2>1. U = [done EXCEPT !.Waiting = waits]
    BY <1>2 DEF FlushWaiting
  <2>2. FlushSteps(f, T, object, stamp)
    BY <1>t, FlushedSteps
  <2>3. \A n \in 0 .. Len(D) : FlushLoop(f[n], T, n, object, given)
    BY <1>2, FlushLoops
  <2> HIDE DEF U, waits, f
  <2>4. LoopTrue(w, tr, f[0], E)
    <3> DEFINE tries == Put(T.Attempts, object, MaxAttempts)
               start == [T EXCEPT !.Attempts = tries, !.Deferred = <<>>]
    <3>1. f[0] = start
      BY <2>2 DEF FlushSteps
    <3> HIDE DEF tries
    <3>2. /\ start.Deferred = <<>> /\ start.Names = T.Names /\ start.PendingOpens = T.PendingOpens
          /\ start.NextToken = T.NextToken /\ start.counted = T.counted
      BY <1>t DEF IsTable
    <3> HIDE DEF start, E
    <3>3. LoopTrue(w, tr, start, E)
      BY <3>2, LoopStartsTrue DEF E
    <3> QED
      BY <3>1, <3>3
  <2>5. ASSUME NEW n \in 0 .. Len(D) - 1, n \in S
        PROVE  n + 1 \in S
    <3>1. D[n + 1] \in E /\ n \in Nat /\ n < Len(D)
      BY <1>t, ItemOf
    <3>2. LoopTrue(w, tr, f[n], E) /\ InLoop(f[n], D, n, given, MaxAttempts, {object}) /\ f[n + 1] = FlushOne(f[n], D[n + 1], object, stamp)
      <4>1. LoopTrue(w, tr, f[n], E)
        BY <2>5, <3>1
      <4>2. f[n + 1] = FlushOne(f[n], D[n + 1], object, stamp)
        BY <2>2 DEF FlushSteps
      <4>3. FlushLoop(f[n], T, n, object, given)
        BY <2>3, <3>1
      <4> QED
        BY <4>1, <4>2, <4>3 DEF FlushLoop
    <3>3. IsTable(f[n]) /\ f[n].Deferred \in Seq(Entries) /\ D[n + 1].Event.Stamp \notin DOMAIN f[n].counted
      <4>1. D[n + 1].Event.Stamp \notin DOMAIN f[n].counted
        BY <1>t, <3>1, <3>2, NextIsNew DEF InLoop
      <4> QED
        BY <3>2, <4>1 DEF InLoop, Types
    <3> HIDE DEF E, D
    <3>4. LoopTrue(w, tr, FlushOne(f[n], D[n + 1], object, stamp), E)
      BY <3>1, <3>2, <3>3, FlushOneTrue
    <3> QED
      BY <3>1, <3>2, <3>4
  <2>6. Len(D) \in Nat /\ 0 \in S
    BY <1>t, <2>4
  <2> HIDE DEF S, E
  <2>7. 0 .. Len(D) \subseteq S
    BY <2>5, <2>6, UpTo
  <2>8. LoopTrue(w, tr, done, E)
    <3>1. Len(D) \in 0 .. Len(D) /\ Len(D) <= Len(D)
      BY <2>6
    <3> QED
      BY <2>7, <3>1 DEF S
  <2>9. IsTable(done)
    <3>1. Len(D) \in 0 .. Len(D)
      BY <2>6
    <3> QED
      BY <2>3, <3>1 DEF FlushLoop, InLoop, Types
  <2> HIDE DEF done, D
  <2>10. /\ U.Deferred = done.Deferred /\ U.Names = done.Names /\ U.PendingOpens = done.PendingOpens
         /\ U.NextToken = done.NextToken /\ U.counted = done.counted
    BY <2>1, <2>9 DEF IsTable
  <2> QED
    BY <2>8, <2>10, LoopEndsTrue DEF U
<1> QED
  BY <1>1, <1>2

\* The operations that can be named count under true names.
LEMMA ApplyTrue ==
  ASSUME NEW w \in [Addresses -> Paths], NEW tr, NEW T, NEW given,
         Types(T, MaxAttempts), Waits(T, <<>>, 0, {}), Stamps(T, <<>>, 0, given), TableTrue(w, tr, T)
  PROVE  TableTrue(w, tr, ApplyDeferred(T))
<1> DEFINE D == T.Deferred
           E == Items(D)
           f == Applied(T)
           done == f[Len(D)]
           more == done.Unnamed \cup {o \in DOMAIN done.Waiting : ~IsToken(o)}
           U == ApplyDeferred(T)
           S == {n \in Nat : n <= Len(D) => LoopTrue(w, tr, f[n], E)}
<1>t. IsTable(T) /\ D \in Seq(Entries)
  BY DEF Types
<1>1. U = [done EXCEPT !.Unnamed = more]
  BY DEF ApplyDeferred
<1>2. ApplySteps(f, T)
  BY <1>t, AppliedSteps
<1>3. \A n \in 0 .. Len(D) : ApplyLoop(f[n], T, n, given)
  BY ApplyLoops
<1> HIDE DEF U, more, f
<1>4. LoopTrue(w, tr, f[0], E)
  <2> DEFINE start == [T EXCEPT !.Deferred = <<>>]
  <2>1. f[0] = start
    BY <1>2 DEF ApplySteps
  <2>2. /\ start.Deferred = <<>> /\ start.Names = T.Names /\ start.PendingOpens = T.PendingOpens
        /\ start.NextToken = T.NextToken /\ start.counted = T.counted
    BY <1>t DEF IsTable
  <2> HIDE DEF start, E
  <2>3. LoopTrue(w, tr, start, E)
    BY <2>2, LoopStartsTrue DEF E
  <2> QED
    BY <2>1, <2>3
<1>5. ASSUME NEW n \in 0 .. Len(D) - 1, n \in S
      PROVE  n + 1 \in S
  <2>1. D[n + 1] \in E /\ n \in Nat /\ n < Len(D)
    BY <1>t, ItemOf
  <2>2. LoopTrue(w, tr, f[n], E) /\ InLoop(f[n], D, n, given, MaxAttempts, {}) /\ f[n + 1] = ApplyOne(f[n], D[n + 1])
    BY <1>2, <1>3, <1>5, <2>1 DEF ApplyLoop, ApplySteps
  <2>3. IsTable(f[n]) /\ f[n].Deferred \in Seq(Entries) /\ D[n + 1].Event.Stamp \notin DOMAIN f[n].counted
    <3>1. D[n + 1].Event.Stamp \notin DOMAIN f[n].counted
      BY <1>t, <2>1, <2>2, NextIsNew DEF InLoop
    <3> QED
      BY <2>2, <3>1 DEF InLoop, Types
  <2> HIDE DEF E, D
  <2>4. LoopTrue(w, tr, ApplyOne(f[n], D[n + 1]), E)
    BY <2>1, <2>2, <2>3, ApplyOneTrue
  <2> QED
    BY <2>1, <2>2, <2>4
<1>6. Len(D) \in Nat /\ 0 \in S
  BY <1>t, <1>4
<1> HIDE DEF S, E
<1>7. 0 .. Len(D) \subseteq S
  BY <1>5, <1>6, UpTo
<1>8. LoopTrue(w, tr, done, E) /\ IsTable(done)
  <2>1. Len(D) \in 0 .. Len(D) /\ Len(D) <= Len(D)
    BY <1>6
  <2>2. IsTable(done)
    BY <1>3, <2>1 DEF ApplyLoop, InLoop, Types
  <2> QED
    BY <1>7, <2>1, <2>2 DEF S
<1> HIDE DEF done, D
<1>9. /\ U.Deferred = done.Deferred /\ U.Names = done.Names /\ U.PendingOpens = done.PendingOpens
      /\ U.NextToken = done.NextToken /\ U.counted = done.counted
  BY <1>1, <1>8 DEF IsTable
<1> QED
  BY <1>8, <1>9, LoopEndsTrue DEF U

-----------------------------------------------------------------------------
(* OnEvent. *)

\* An operation counted under a true name, at once.
LEMMA CountNowTrue ==
  ASSUME NEW w \in [Addresses -> Paths], NEW tr, NEW T, NEW given, Sound(T, given), TableTrue(w, tr, T),
         NEW e, IsTrue(w, tr, e), e.Stamp \notin given, NEW at \in Nat, NEW b, NEW name,
         name # NoName => Says(w, name, tr[e.Stamp]),
         name = NoName => Live(w, e.KeyObject) /\ w[e.KeyObject] = tr[e.Stamp]
  PROVE  TableTrue(w, tr, Count(T, e, name, at, b))
<1> DEFINE U == Count(T, e, name, at, b)
           E == Items(T.Deferred)
<1>1. IsTable(T) /\ e.Stamp \notin DOMAIN T.counted /\ NamesTrue(w, tr, T, E)
  BY DEF Sound, Types, Stamps, TableTrue
<1> HIDE DEF E
<1>2. NamesTrue(w, tr, U, E)
  BY <1>1, CountTrue
<1>3. CountsOnly(T, U)
  BY <1>1, CountKeepsQueue
<1> QED
  BY <1>2, <1>3 DEF TableTrue, CountsOnly, E

\* Nothing is known of an address's key before the one that is opened.
LEMMA ReusedTrue ==
  ASSUME NEW w \in [Addresses -> Paths], NEW tr, NEW T, NEW given, Sound(T, given), TableTrue(w, tr, T),
         NEW a \in Addresses, NEW stamp
  PROVE  TableTrue(w, tr, [FlushWaiting(T, a, stamp) EXCEPT !.Attempts = Without(@, {a}), !.PendingOpens = Without(@, {a})])
<1> DEFINE V == FlushWaiting(T, a, stamp)
           tries == Without(V.Attempts, {a})
           opens == Without(V.PendingOpens, {a})
           U == [V EXCEPT !.Attempts = tries, !.PendingOpens = opens]
<1>1. TableTrue(w, tr, V) /\ IsTable(V)
  <2>1. Types(V, MaxAttempts)
    BY FlushKeeps
  <2>2. TableTrue(w, tr, V)
    BY FlushTrue
  <2> QED
    BY <2>1, <2>2 DEF Types
<1> HIDE DEF V
<1>2. \A b \in DOMAIN opens : b \in DOMAIN V.PendingOpens /\ opens[b] = V.PendingOpens[b]
  BY DEF Without
<1> HIDE DEF tries, opens
<1>3. /\ U.Deferred = V.Deferred /\ U.Names = V.Names /\ U.PendingOpens = opens /\ U.NextToken = V.NextToken
      /\ U.counted = V.counted
  BY <1>1 DEF IsTable
<1> HIDE DEF U
<1>4. NamesTrue(w, tr, U, Items(V.Deferred))
  <2>1. NamesTrue(w, tr, V, Items(V.Deferred))
    BY <1>1 DEF TableTrue
  <2>2. CountedTrue(w, tr, U.counted) /\ \A o \in DOMAIN U.Names : U.Names[o] \in NameEntries
    BY <1>3, <2>1 DEF NamesTrue
  <2>3. Items(V.Deferred) \subseteq Items(V.Deferred)
    OBVIOUS
  <2>4. \A b \in DOMAIN U.PendingOpens : b \in DOMAIN V.PendingOpens /\ U.PendingOpens[b] = V.PendingOpens[b]
    BY <1>2, <1>3
  <2> QED
    BY <1>3, <2>1, <2>2, <2>3, <2>4, NamesStayTrue
<1>5. TableTrue(w, tr, U)
  BY <1>3, <1>4 DEF TableTrue
<1> QED
  BY <1>5 DEF U, tries, opens, V

\* An open whose key waits for its name.
LEMMA WaitingOpenTrue ==
  ASSUME NEW w \in [Addresses -> Paths], NEW tr, NEW T, NEW given, Sound(T, given), TableTrue(w, tr, T),
         NEW e, IsTrue(w, tr, e), e.Stamp \notin given, IsOpen(e), ~e.Absolute, e.KeyObject # 0, NEW at \in Nat
  PROVE  TableTrue(w, tr, Defer(Retarget(Opened(T, e.KeyObject), e.KeyObject, e.Stamp, T.NextToken),
                                e, at, e.BaseObject, T.NextToken))
<1> DEFINE a == e.KeyObject
           token == T.NextToken
           V == Opened(T, a)
           R == Retarget(V, a, e.Stamp, token)
           U == Defer(R, e, at, e.BaseObject, token)
<1>1. Live(w, a) /\ a \in Addresses /\ Live(w, e.BaseObject) /\ e.Stamp \in Nat /\ token \in Nat
  <2>1. Live(w, a) /\ Live(w, e.BaseObject)
    BY DEF IsTrue
  <2>2. e.Stamp \in 1 .. MaxEvents
    BY EventFields DEF IsTrue
  <2>3. token \in Nat
    BY DEF Sound, Types
  <2> QED
    BY <2>1, <2>2, <2>3 DEF Live
<1>2. /\ Sound(V, given) /\ token \in Tokens(V) /\ token \notin DOMAIN V.Waiting
      /\ V.Deferred = T.Deferred /\ V.PendingOpens = Put(T.PendingOpens, a, token)
  BY <1>1, OpenedKeeps
<1>3. a \in DOMAIN V.PendingOpens /\ V.PendingOpens[a] = token
  BY <1>2 DEF Put
<1>4. TableTrue(w, tr, V)
  <2>1. NamesTrue(w, tr, T, Items(T.Deferred)) /\ Types(T, MaxAttempts - 1)
    BY DEF TableTrue, Sound
  <2>2. NamesTrue(w, tr, [T EXCEPT !.Names = Without(@, {a}), !.NextToken = @ + 1,
                                   !.PendingOpens = Put(@, a, T.NextToken)], Items(T.Deferred))
    BY <1>1, <2>1, PendingTrue
  <2> QED
    BY <1>2, <2>2 DEF TableTrue, Opened
<1> HIDE DEF V
<1>5. R.PendingOpens = V.PendingOpens
  BY <1>2 DEF Retarget, Sound, Types, IsTable
<1>6. Sound(R, given) /\ Tokens(R) = Tokens(V)
  BY <1>1, <1>2, RetargetKeeps
<1>7. TableTrue(w, tr, R)
  <2>1. NamesTrue(w, tr, V, Items(V.Deferred)) /\ Types(V, MaxAttempts - 1)
    BY <1>2, <1>4 DEF TableTrue, Sound
  <2>2. R = Retarget(V, a, e.Stamp, V.PendingOpens[a])
    BY <1>3
  <2> HIDE DEF R
  <2>3. NamesTrue(w, tr, R, Items(R.Deferred))
    BY <1>1, <1>3, <2>1, <2>2, RetargetTrue
  <2> QED
    BY <2>3 DEF TableTrue
<1> HIDE DEF R
<1>8. /\ IsOpen(e) => ~e.Absolute /\ e.BaseObject = e.BaseObject
      /\ e.BaseObject = Target(e) /\ Live(w, e.BaseObject)
      /\ IsOpen(e) /\ token \in Tokens(R) /\ e.KeyObject \in DOMAIN R.PendingOpens
      /\ R.PendingOpens[e.KeyObject] = token /\ Live(w, e.KeyObject)
  BY <1>1, <1>2, <1>3, <1>5, <1>6 DEF Target
<1> HIDE DEF token, a
<1>9. NamesTrue(w, tr, R, Items(R.Deferred))
  BY <1>7 DEF TableTrue
<1>10. token \in Nat
  BY <1>1
<1>11. NamesTrue(w, tr, U, Items(U.Deferred))
  BY <1>6, <1>8, <1>9, <1>10, DeferTrue
<1> QED
  BY <1>11 DEF TableTrue, U, R, V, token, a
\* An open.
LEMMA OnOpenTrue ==
  ASSUME NEW w \in [Addresses -> Paths], NEW tr, NEW T, NEW given, Sound(T, given), TableTrue(w, tr, T),
         NEW e, IsTrue(w, tr, e), e.Stamp \notin given, IsOpen(e), NEW at \in Nat
  PROVE  TableTrue(w, tr, OnOpen(T, e, at))
<1> DEFINE a == e.KeyObject
           T1 == IF a = 0 THEN T
                 ELSE [FlushWaiting(T, a, e.Stamp) EXCEPT !.Attempts = Without(@, {a}), !.PendingOpens = Without(@, {a})]
           U == OnOpen(T, e, at)
<1>1. \/ HasOpenName(T1, e) /\ U = Count(T1, e, OpenName(T1, e), at, TRUE)
      \/ ~HasOpenName(T1, e) /\ U = Count(T1, e, UnnamedBase(e.BaseObject, e.Name), at, TRUE)
      \/ ~HasOpenName(T1, e) /\ a # 0 /\ U = Defer(Retarget(Opened(T1, a), a, e.Stamp, T1.NextToken),
                                                 e, at, e.BaseObject, T1.NextToken)
      \/ ~HasOpenName(T1, e) /\ U = Defer(T1, e, at, e.BaseObject, 0)
  BY DEF OnOpen, Opened
<1>2. Sound(T1, given) /\ TableTrue(w, tr, T1)
  <2>1. CASE a = 0
    BY <2>1
  <2>2. CASE a # 0
    <3>1. a \in Addresses
      BY <2>2, EventFields DEF IsTrue
    <3> QED
      BY <2>2, <3>1, ReusedKeeps, ReusedTrue
  <2> QED
    BY <2>1, <2>2
<1> HIDE DEF T1, U
<1>3. ~HasOpenName(T1, e) => ~e.Absolute
  BY DEF HasOpenName
<1>4. NamesTrue(w, tr, T1, Items(T1.Deferred))
  BY <1>2 DEF TableTrue
<1>5. CASE HasOpenName(T1, e) /\ U = Count(T1, e, OpenName(T1, e), at, TRUE)
  <2>1. Says(w, OpenName(T1, e), tr[e.Stamp]) /\ OpenName(T1, e) # NoName
    BY <1>4, <1>5, OpenText
  <2> QED
    <3> DEFINE name == OpenName(T1, e)
    <3> HIDE DEF name
    <3>1. Says(w, name, tr[e.Stamp]) /\ name # NoName
      BY <2>1 DEF name
    <3>2. TableTrue(w, tr, Count(T1, e, name, at, TRUE))
      BY <1>2, <3>1, CountNowTrue
    <3> QED
      BY <1>5, <3>2 DEF U, name
<1>6. CASE ~HasOpenName(T1, e) /\ U = Count(T1, e, UnnamedBase(e.BaseObject, e.Name), at, TRUE)
  <2>1. /\ Says(w, UnnamedBase(e.BaseObject, e.Name), tr[e.Stamp])
        /\ UnnamedBase(e.BaseObject, e.Name) # NoName
    BY <1>3, <1>6, UnnamedText
  <2> QED
    <3> DEFINE name == UnnamedBase(e.BaseObject, e.Name)
    <3> HIDE DEF name
    <3>1. Says(w, name, tr[e.Stamp]) /\ name # NoName
      BY <2>1 DEF name
    <3>2. TableTrue(w, tr, Count(T1, e, name, at, TRUE))
      BY <1>2, <3>1, CountNowTrue
    <3> QED
      BY <1>6, <3>2 DEF U, name
<1>7. CASE ~HasOpenName(T1, e) /\ a # 0 /\ U = Defer(Retarget(Opened(T1, a), a, e.Stamp, T1.NextToken),
                                                  e, at, e.BaseObject, T1.NextToken)
  BY <1>2, <1>3, <1>7, WaitingOpenTrue DEF U
<1>8. CASE ~HasOpenName(T1, e) /\ U = Defer(T1, e, at, e.BaseObject, 0)
  <2>1. ~e.Absolute /\ e.BaseObject = Target(e) /\ Live(w, e.BaseObject)
    BY <1>3, <1>8 DEF Target, IsTrue
  <2>2. NamesTrue(w, tr, U, Items(U.Deferred))
    BY <1>2, <1>4, <1>8, <2>1, DeferTrue DEF U
  <2> QED
    BY <2>2 DEF TableTrue, U
<1> QED
  BY <1>1, <1>5, <1>6, <1>7, <1>8

\* Any other operation.
LEMMA OnOperationTrue ==
  ASSUME NEW w \in [Addresses -> Paths], NEW tr, NEW T, NEW given, Sound(T, given), TableTrue(w, tr, T),
         NEW e, IsTrue(w, tr, e), e.Stamp \notin given, ~IsOpen(e), NEW at \in Nat
  PROVE  TableTrue(w, tr, OnOperation(T, e, at))
<1> DEFINE a == e.KeyObject
           V == [T EXCEPT !.Names = [T.Names EXCEPT ![a].Tick = at]]
           E == Items(T.Deferred)
           x == T.Names[a].Text
           U == OnOperation(T, e, at)
<1>1. \/ a \in DOMAIN T.Names /\ U = Count(V, e, x, at, TRUE)
      \/ a \in DOMAIN T.PendingOpens /\ U = Defer(T, e, at, T.PendingOpens[a], 0)
      \/ U = Count(T, e, NoName, at, TRUE)
      \/ U = Defer(T, e, at, a, 0)
  BY DEF OnOperation
<1> HIDE DEF U
<1>2. Live(w, a) /\ w[a] = tr[e.Stamp] /\ a = Target(e) /\ a \notin Tokens(T)
  BY AddressIsNoToken DEF IsTrue, Target, Live
<1>3. NamesTrue(w, tr, T, E) /\ IsTable(T) /\ e.Stamp \notin DOMAIN T.counted /\ Types(T, MaxAttempts - 1)
  BY DEF TableTrue, Sound, Types, Stamps
<1>4. CASE a \in DOMAIN T.Names /\ U = Count(V, e, x, at, TRUE)
  <2>1. NamesKept(w, tr, T, E, V)
    BY <1>3, TouchTrue
  <2> HIDE DEF V
  <2>2. IsTable(V) /\ NamesTrue(w, tr, V, E) /\ V.Deferred = T.Deferred /\ V.counted = T.counted
    BY <2>1 DEF NamesKept
  <2>3. Says(w, x, w[a])
    BY <1>2, <1>3, <1>4 DEF NamesTrue
  <2> HIDE DEF x, E, a
  <2>4. NamesTrue(w, tr, Count(V, e, x, at, TRUE), E)
    BY <1>2, <1>3, <2>2, <2>3, CountTrue DEF a
  <2>5. CountsOnly(V, U)
    BY <1>4, <2>2, CountKeepsQueue
  <2> QED
    BY <1>4, <2>2, <2>4, <2>5 DEF TableTrue, CountsOnly, E, U
<1>5. CASE a \in DOMAIN T.PendingOpens /\ U = Defer(T, e, at, T.PendingOpens[a], 0)
  <2>1. T.PendingOpens[a] \in Tokens(T)
    BY <1>3, <1>5 DEF Types
  <2>2. NamesTrue(w, tr, U, Items(U.Deferred))
    BY <1>3, <1>5, <2>1, DeferTrue DEF U
  <2> QED
    BY <2>2 DEF TableTrue, U
<1>6. CASE U = Count(T, e, NoName, at, TRUE)
  <2>1. TableTrue(w, tr, Count(T, e, NoName, at, TRUE))
    BY <1>2, CountNowTrue
  <2> QED
    BY <1>6, <2>1 DEF U
<1>7. CASE U = Defer(T, e, at, a, 0)
  <2>1. NamesTrue(w, tr, U, Items(U.Deferred))
    BY <1>2, <1>3, <1>7, DeferTrue DEF U
  <2> QED
    BY <2>1 DEF TableTrue, U
<1> QED
  BY <1>1, <1>4, <1>5, <1>6, <1>7

\* Every event.
LEMMA OnEventTrue ==
  ASSUME NEW w \in [Addresses -> Paths], NEW tr, NEW T, NEW given, Sound(T, given), TableTrue(w, tr, T),
         NEW e, IsTrue(w, tr, e), e.Stamp \notin given, NEW at \in Nat
  PROVE  TableTrue(w, tr, OnEvent(T, e, at))
<1>1. CASE ~IsCounted(e)
  BY <1>1 DEF OnEvent
<1>2. CASE IsCounted(e) /\ IsOpen(e)
  BY <1>2, OnOpenTrue DEF OnEvent
<1>3. CASE IsCounted(e) /\ ~IsOpen(e)
  BY <1>3, OnOperationTrue DEF OnEvent
<1> QED
  BY <1>1, <1>2, <1>3

-----------------------------------------------------------------------------
(* The resolver's pass, the client's calls, and keys that are opened. *)

\* The names the resolver found, for those it asked for.
LEMMA FoundTrue ==
  ASSUME NEW w \in [Addresses -> Paths], NEW tr, NEW T, NEW given, Sound(T, given), TableTrue(w, tr, T),
         NEW paths, \A o \in DOMAIN paths : Live(w, o) /\ paths[o] = w[o], NEW objects, NEW at \in Nat
  PROVE  TableTrue(w, tr, NamesFailed(SetNames(T, paths, at), objects))
<1> DEFINE names == [o \in DOMAIN T.Names \cup DOMAIN paths |->
                        IF o \in DOMAIN paths THEN [Text |-> Named(paths[o]), Tick |-> at] ELSE T.Names[o]]
           V == SetNames(T, paths, at)
           tries == [o \in DOMAIN V.Attempts \cup objects |->
                        IF o \notin objects THEN V.Attempts[o]
                        ELSE 1 + IF o \in DOMAIN V.Attempts THEN V.Attempts[o] ELSE 0]
           U == NamesFailed(V, objects)
           E == Items(T.Deferred)
<1>1. IsTable(T) /\ NamesTrue(w, tr, T, E)
  BY DEF Sound, Types, TableTrue
<1>2. V = [T EXCEPT !.Names = names] /\ U = [V EXCEPT !.Attempts = tries]
  BY DEF SetNames, NamesFailed
<1>3. ASSUME NEW o \in DOMAIN names
      PROVE  /\ names[o] \in NameEntries
             /\ \/ o \in DOMAIN T.Names /\ names[o].Text = T.Names[o].Text
                \/ Live(w, o) /\ Says(w, names[o].Text, w[o])
  <2>1. CASE o \in DOMAIN paths
    <3>1. names[o] = [Text |-> Named(w[o]), Tick |-> at] /\ Live(w, o) /\ w[o] \in Paths
      BY <2>1 DEF Live
    <3>2. Named(w[o]) \in Texts /\ Says(w, Named(w[o]), w[o])
      BY <3>1 DEF Named, Texts, Says
    <3> QED
      BY <3>1, <3>2 DEF NameEntries
  <2>2. CASE o \notin DOMAIN paths
    BY <1>1, <2>2 DEF NamesTrue
  <2> QED
    BY <2>1, <2>2
<1> HIDE DEF V, U, names, tries
<1>4. /\ IsTable(V) /\ V.Names = names /\ V.PendingOpens = T.PendingOpens /\ V.NextToken = T.NextToken
      /\ V.counted = T.counted /\ V.Deferred = T.Deferred
  BY <1>1, <1>2 DEF IsTable
<1>5. /\ U.Names = names /\ U.PendingOpens = T.PendingOpens /\ U.NextToken = T.NextToken /\ U.counted = T.counted
      /\ U.Deferred = T.Deferred
  BY <1>2, <1>4 DEF IsTable
<1> HIDE DEF E
<1>6. CountedTrue(w, tr, U.counted)
  BY <1>1, <1>5 DEF NamesTrue
<1>7. NamesTrue(w, tr, U, E)
  BY <1>1, <1>3, <1>5, <1>6, NamesStayTrue
<1> QED
  BY <1>5, <1>7 DEF TableTrue, U, V, E

\* Names that are not used are forgotten.
LEMMA PruneTrue ==
  ASSUME NEW w, NEW tr, NEW T, IsTable(T), TableTrue(w, tr, T), NEW at
  PROVE  TableTrue(w, tr, Prune(T, at))
<1> DEFINE rows == Without(T.Rows, {id \in DOMAIN T.Rows : Idle(at, T.Rows[id].LastTick, KeyIdle)})
           names == Without(T.Names, {o \in DOMAIN T.Names : Idle(at, T.Names[o].Tick, NameIdle)})
           tries == Without(T.Attempts, {o \in DOMAIN T.Attempts : o \notin DOMAIN T.Waiting})
           U == Prune(T, at)
           E == Items(T.Deferred)
<1>1. U = [T EXCEPT !.Rows = rows, !.Names = names, !.Attempts = tries]
  BY DEF Prune
<1>2. \A o \in DOMAIN names : o \in DOMAIN T.Names /\ names[o] = T.Names[o]
  BY DEF Without
<1> HIDE DEF U, rows, names, tries, E
<1>3. /\ U.Names = names /\ U.PendingOpens = T.PendingOpens /\ U.NextToken = T.NextToken
      /\ U.counted = T.counted /\ U.Deferred = T.Deferred
  BY <1>1 DEF IsTable
<1>4. NamesTrue(w, tr, T, E)
  BY DEF TableTrue, E
<1>5. CountedTrue(w, tr, U.counted) /\ \A o \in DOMAIN U.Names : U.Names[o] \in NameEntries
  BY <1>2, <1>3, <1>4 DEF NamesTrue
<1>6. NamesTrue(w, tr, U, E)
  BY <1>2, <1>3, <1>4, <1>5, NamesStayTrue
<1> QED
  BY <1>3, <1>6 DEF TableTrue, U, E

\* A pass of the resolver.
LEMMA PassTrue ==
  ASSUME NEW w \in [Addresses -> Paths], NEW tr, NEW T, NEW given, Sound(T, given), TableTrue(w, tr, T),
         NEW paths, \A o \in DOMAIN paths : Live(w, o) /\ paths[o] = w[o],
         NEW objects, objects \subseteq Addresses, NEW at \in Nat
  PROVE  TableTrue(w, tr, Prune(ApplyDeferred(NamesFailed(SetNames(T, paths, at), objects)), at))
<1> DEFINE V == NamesFailed(SetNames(T, paths, at), objects)
           W == ApplyDeferred(V)
<1>1. Types(V, MaxAttempts) /\ Waits(V, <<>>, 0, {}) /\ Stamps(V, <<>>, 0, given)
  BY NamesKeep
<1>2. TableTrue(w, tr, V)
  BY FoundTrue
<1> HIDE DEF V
<1>3. Types(W, MaxAttempts)
  BY <1>1, ApplyKeeps
<1>4. TableTrue(w, tr, W)
  BY <1>1, <1>2, ApplyTrue
<1> HIDE DEF W
<1>5. TableTrue(w, tr, Prune(W, at))
  BY <1>3, <1>4, PruneTrue DEF Types
<1> QED
  BY <1>5 DEF W, V

\* The resolver takes what has no name.
LEMMA TakeTrue ==
  ASSUME NEW w, NEW tr, NEW T, IsTable(T), TableTrue(w, tr, T)
  PROVE  TableTrue(w, tr, TakeUnnamed(T))
<1> DEFINE U == [T EXCEPT !.Unnamed = {}]
<1>1. /\ U.Names = T.Names /\ U.PendingOpens = T.PendingOpens /\ U.NextToken = T.NextToken
      /\ U.counted = T.counted /\ U.Deferred = T.Deferred
  BY DEF IsTable
<1> HIDE DEF U
<1>2. NamesTrue(w, tr, U, Items(T.Deferred))
  BY <1>1, SameNames DEF TableTrue
<1> QED
  BY <1>1, <1>2 DEF TableTrue, TakeUnnamed, U

\* The client forgets a process.
LEMMA RemoveTrue ==
  ASSUME NEW w, NEW tr, NEW T, IsTable(T), TableTrue(w, tr, T), NEW pid
  PROVE  TableTrue(w, tr, RemoveProcess(T, pid))
<1> DEFINE rows == Without(T.Rows, {id \in DOMAIN T.Rows : id[1] = pid})
           U == [T EXCEPT !.Rows = rows]
<1> HIDE DEF rows
<1>1. /\ U.Names = T.Names /\ U.PendingOpens = T.PendingOpens /\ U.NextToken = T.NextToken
      /\ U.counted = T.counted /\ U.Deferred = T.Deferred
  BY DEF IsTable
<1> HIDE DEF U
<1>2. NamesTrue(w, tr, U, Items(T.Deferred))
  BY <1>1, SameNames DEF TableTrue
<1> QED
  BY <1>1, <1>2 DEF TableTrue, RemoveProcess, U, rows

\* A cleared table keeps only its tokens, each of which still has an owner.
LEMMA ClearTrue ==
  ASSUME NEW w, NEW tr, NEW T, TableTrue(w, tr, T)
  PROVE  TableTrue(w, tr, Clear(T))
<1> DEFINE U == Clear(T)
<1>1. /\ U.Deferred = <<>> /\ U.Names = EmptyMap /\ U.PendingOpens = EmptyMap /\ U.NextToken = T.NextToken
      /\ U.counted = EmptyMap
  <2>1. U = [EmptyTable EXCEPT !.NextToken = T.NextToken]
    BY DEF Clear
  <2> HIDE DEF U
  <2> QED
    BY <2>1 DEF EmptyTable
<1> HIDE DEF U
<1>2. DOMAIN EmptyMap = {} /\ Items(<<>>) = {}
  BY DEF EmptyMap, Items
<1>3. NamesTrue(w, tr, T, Items(T.Deferred))
  BY DEF TableTrue
<1>4. CountedTrue(w, tr, U.counted)
  BY <1>1, <1>2 DEF CountedTrue
<1>5. NamesTrue(w, tr, U, {})
  BY <1>1, <1>2, <1>3, <1>4, NamesStayTrue
<1> QED
  BY <1>1, <1>2, <1>5 DEF TableTrue, U

-----------------------------------------------------------------------------
\* The keys of a world stay while others are opened, and the operations on them.
Grows(w, v) == \A a : Live(w, a) => Live(v, a) /\ v[a] = w[a]
Continues(tr, ur) == \A s \in DOMAIN tr : s \in DOMAIN ur /\ ur[s] = tr[s]

\* What was true of the keys stays true of more of them.
LEMMA GrownTrue ==
  ASSUME NEW w, NEW v, Grows(w, v), NEW tr, NEW ur, Continues(tr, ur)
  PROVE  /\ \A e : IsTrue(w, tr, e) => IsTrue(v, ur, e)
         /\ \A T : TableTrue(w, tr, T) => TableTrue(v, ur, T)
<1>1. ASSUME NEW e, IsTrue(w, tr, e) PROVE IsTrue(v, ur, e)
  BY <1>1 DEF IsTrue, Grows, Continues
<1>2. ASSUME NEW text, NEW path, Says(w, text, path) PROVE Says(v, text, path)
  BY <1>2 DEF Says, Grows
<1>3. ASSUME NEW T, TableTrue(w, tr, T) PROVE TableTrue(v, ur, T)
  <2> DEFINE E == Items(T.Deferred)
  <2>1. NamesTrue(w, tr, T, E)
    BY <1>3 DEF TableTrue
  <2> HIDE DEF E
  <2>2. \A o \in DOMAIN T.Names :
          /\ T.Names[o] \in NameEntries
          /\ o \in Tokens(T) \/ (Live(v, o) /\ Says(v, T.Names[o].Text, v[o]))
    BY <1>2, <2>1 DEF NamesTrue, Grows
  <2>3. ASSUME NEW t \in Tokens(T) PROVE \E a \in Addresses : Live(v, a) /\ Owns(v, T, E, a, t)
    <3>1. PICK a \in Addresses : Live(w, a) /\ Owns(w, T, E, a, t)
      BY <2>1 DEF NamesTrue
    <3>2. Live(v, a) /\ v[a] = w[a]
      BY <3>1 DEF Grows
    <3>3. Owns(v, T, E, a, t)
      BY <1>2, <3>1, <3>2 DEF Owns
    <3> QED
      BY <3>2, <3>3
  <2>4. \A d \in E : EntryTrue(v, ur, T, d)
    BY <1>1, <2>1 DEF NamesTrue, EntryTrue, Grows
  <2>5. CountedTrue(v, ur, T.counted)
    BY <1>2, <2>1 DEF NamesTrue, CountedTrue, Continues
  <2>6. NamesTrue(v, ur, T, E)
    BY <2>2, <2>3, <2>4, <2>5 DEF NamesTrue
  <2> QED
    BY <2>6 DEF TableTrue, E
<1> QED
  BY <1>1, <1>3

-----------------------------------------------------------------------------
(* The names of the system, and their theorem. *)

\* What is told and kept is true, while no key object is closed.
NamesInv ==
    /\ closes \in Nat
    /\ TableTrue(world, truth, m_Table)
    /\ \A p \in Processors : \A i \in DOMAIN buffers[p] : IsTrue(world, truth, buffers[p][i])
    /\ tpc = "event" => IsTrue(world, truth, current)
    /\ \A o \in DOMAIN found : Live(world, o) /\ found[o] = world[o]

\* Nothing is named at first.
LEMMA InitNames == Init => NamesInv
<1> SUFFICES ASSUME Init PROVE NamesInv
  OBVIOUS
<1>1. TableTrue(world, truth, EmptyTable)
  <2>1. /\ EmptyTable.Deferred = <<>> /\ DOMAIN EmptyTable.Names = {} /\ DOMAIN EmptyTable.counted = {}
        /\ EmptyTable.NextToken = TokenBase
    BY DEF EmptyTable, EmptyMap
  <2>2. Tokens(EmptyTable) = {}
    BY <2>1, TableAssumption DEF Tokens
  <2>3. Items(EmptyTable.Deferred) = {}
    BY <2>1 DEF Items
  <2>4. CountedTrue(world, truth, EmptyTable.counted)
    BY <2>1 DEF CountedTrue
  <2> QED
    BY <2>1, <2>2, <2>3, <2>4 DEF TableTrue, NamesTrue
<1> QED
  BY <1>1 DEF Init, NamesInv, EmptyMap

\* Steps that tell the table nothing and leave the keys as they are.
LEMMA ClientNames ==
  ASSUME Inv, NamesInv, Start \/ StartFails \/ StopSession \/ StopClears \/ \E pid \in Pids : ForgetProcess(pid)
  PROVE  NamesInv'
<1>1. /\ UNCHANGED <<current, found, world, buffers, truth, closes>>
      /\ tpc' = "event" => tpc = "event"
      /\ \/ m_Table' = m_Table \/ m_Table' = Clear(m_Table)
         \/ \E pid \in Pids : m_Table' = RemoveProcess(m_Table, pid)
  BY DEF Start, StartFails, StopSession, StopClears, ForgetProcess, clientVars, traceVars, resolverVars, worldVars
<1>2. IsTable(m_Table) /\ TableTrue(world, truth, m_Table)
  BY DEF Inv, Sound, Types, NamesInv
<1>3. TableTrue(world, truth, m_Table')
  BY <1>1, <1>2, ClearTrue, RemoveTrue
<1> QED
  BY <1>1, <1>3 DEF NamesInv

\* The trace's thread.
LEMMA TraceNames ==
  ASSUME Inv, NamesInv, TraceThread
  PROVE  NamesInv'
<1>1. CASE BeginTrace \/ EndTrace
  <2>1. UNCHANGED <<m_Table, current, found, world, buffers, truth, closes>> /\ tpc' \in {"trace", "ended"}
    BY <1>1 DEF BeginTrace, EndTrace, resolverVars, worldVars
  <2> QED
    BY <2>1 DEF NamesInv
<1>2. ASSUME NEW p \in Processors, TakeEvent(p)
      PROVE  NamesInv'
  <2>1. /\ UNCHANGED <<m_Table, found, world, truth, closes>>
        /\ buffers[p] # <<>> /\ current' = Head(buffers[p]) /\ buffers' = [buffers EXCEPT ![p] = Tail(@)]
    BY <1>2 DEF TakeEvent, resolverVars
  <2>2. /\ buffers[p] \in Seq(Events) /\ current' = buffers[p][1] /\ 1 \in DOMAIN buffers[p]
        /\ \A i \in DOMAIN Tail(buffers[p]) : i + 1 \in DOMAIN buffers[p] /\ Tail(buffers[p])[i] = buffers[p][i + 1]
    <3>1. buffers[p] \in Seq(Events)
      BY DEF Inv, EventsTypes
    <3>2. /\ Len(buffers[p]) \in Nat \ {0} /\ DOMAIN buffers[p] = 1 .. Len(buffers[p])
          /\ DOMAIN Tail(buffers[p]) = 1 .. Len(buffers[p]) - 1
      BY <2>1, <3>1
    <3> QED
      BY <2>1, <3>1, <3>2
  <2>3. \A q \in Processors : buffers'[q] = IF q = p THEN Tail(buffers[p]) ELSE buffers[q]
    BY <2>1 DEF Inv, EventsTypes
  <2>4. \A q \in Processors : \A i \in DOMAIN buffers'[q] : IsTrue(world, truth, buffers'[q][i])
    BY <2>2, <2>3 DEF NamesInv
  <2>5. IsTrue(world, truth, current')
    BY <2>2 DEF NamesInv
  <2> QED
    BY <2>1, <2>4, <2>5 DEF NamesInv
<1>3. CASE CountEvent
  <2>1. /\ UNCHANGED <<found, world, buffers, truth, closes>>
        /\ m_Table' = OnEvent(m_Table, current, etick) /\ tpc = "event" /\ tpc' = "trace"
    BY <1>3 DEF CountEvent, worldVars, resolverVars
  <2>2. /\ current.Stamp \notin delivered /\ etick \in Nat /\ Sound(m_Table, delivered)
        /\ world \in [Addresses -> Paths] /\ IsTrue(world, truth, current) /\ TableTrue(world, truth, m_Table)
    BY <2>1 DEF Inv, EventsTypes, EventsOnce, ThreadTypes, NamesInv
  <2>3. TableTrue(world, truth, m_Table')
    BY <2>1, <2>2, OnEventTrue
  <2> QED
    BY <2>1, <2>3 DEF NamesInv
<1> QED
  BY <1>1, <1>2, <1>3 DEF TraceThread

\* The resolver finds the names of keys that stay.
LEMMA ResolverNames ==
  ASSUME Inv, NamesInv, ResolverThread
  PROVE  NamesInv'
<1>1. UNCHANGED <<tpc, current, world, buffers, truth, closes>>
  BY DEF ResolverThread, BeginPass, LookUp, ReadClock, EndPass, EndResolver, traceVars, worldVars
<1>2. IsTable(m_Table) /\ TableTrue(world, truth, m_Table)
  BY DEF Inv, Sound, Types, NamesInv
<1>3. CASE BeginPass
  <2>1. m_Table' = TakeUnnamed(m_Table) /\ found' = found
    BY <1>3 DEF BeginPass
  <2>2. TableTrue(world, truth, m_Table')
    BY <1>2, <2>1, TakeTrue
  <2> QED
    BY <1>1, <2>1, <2>2 DEF NamesInv
<1>4. CASE LookUp
  <2>1. m_Table' = m_Table
    BY <1>4 DEF LookUp
  <2>2. PICK named \in SUBSET {o \in taken \cap Nameable : world[o] # <<>>} : found' = [o \in named |-> world[o]]
    BY <1>4 DEF LookUp
  <2>3. \A o \in DOMAIN found' : Live(world, o) /\ found'[o] = world[o]
    BY <2>2, TrackerAssumption DEF Live
  <2> QED
    BY <1>1, <2>1, <2>3 DEF NamesInv
<1>5. CASE ReadClock \/ EndResolver
  <2>1. UNCHANGED <<m_Table, found>>
    BY <1>5 DEF ReadClock, EndResolver
  <2> QED
    BY <1>1, <2>1 DEF NamesInv
<1>6. CASE EndPass
  <2>1. /\ m_Table' = Prune(ApplyDeferred(NamesFailed(SetNames(m_Table, found, rtick), taken \ DOMAIN found)), rtick)
        /\ DOMAIN found' = {}
    BY <1>6 DEF EndPass, ApplyNames, EmptyMap
  <2>2. /\ Sound(m_Table, delivered) /\ taken \ DOMAIN found \subseteq Addresses /\ rtick \in Nat
        /\ world \in [Addresses -> Paths] /\ \A o \in DOMAIN found : Live(world, o) /\ found[o] = world[o]
    BY DEF Inv, ThreadTypes, EventsTypes, NamesInv
  <2>3. TableTrue(world, truth, m_Table')
    BY <1>2, <2>1, <2>2, PassTrue
  <2> QED
    BY <1>1, <2>1, <2>3 DEF NamesInv
<1> QED
  BY <1>3, <1>4, <1>5, <1>6 DEF ResolverThread

\* An operation is issued, and a key may be opened by it.
LEMMA IssueTrue ==
  ASSUME Inv, NamesInv, NEW p \in Processors, NEW e \in Events, e.Stamp = Len(truth) + 1, NEW path \in Paths,
         Issue(p, e, path), Grows(world, world'), IsTrue(world', truth', e),
         UNCHANGED <<m_Table, tpc, current, found, closes>>
  PROVE  NamesInv'
<1>1. /\ truth \in Seq(Paths) /\ truth' = Append(truth, path) /\ buffers' = [buffers EXCEPT ![p] = Append(@, e)]
      /\ buffers \in [Processors -> Seq(Events)]
  BY DEF Inv, EventsTypes, Issue
<1>2. Continues(truth, truth')
  <2>1. \A s \in DOMAIN truth : s \in DOMAIN Append(truth, path) /\ Append(truth, path)[s] = truth[s]
    BY <1>1
  <2> QED
    BY <1>1, <2>1 DEF Continues
<1>3. TableTrue(world', truth', m_Table) /\ \A x : IsTrue(world, truth, x) => IsTrue(world', truth', x)
  BY <1>2, GrownTrue DEF NamesInv
<1>4. ASSUME NEW q \in Processors, NEW i \in DOMAIN buffers'[q]
      PROVE  IsTrue(world', truth', buffers'[q][i])
  <2>1. CASE q # p
    BY <1>1, <1>3, <2>1 DEF NamesInv
  <2>2. CASE q = p
    <3>1. buffers'[q] = Append(buffers[p], e) /\ buffers[p] \in Seq(Events)
      BY <1>1, <2>2
    <3>2. (i \in DOMAIN buffers[p] /\ buffers'[q][i] = buffers[p][i]) \/ buffers'[q][i] = e
      BY <3>1
    <3> QED
      BY <1>3, <3>2 DEF NamesInv
  <2> QED
    BY <2>1, <2>2
<1>5. \A o \in DOMAIN found : Live(world', o) /\ found[o] = world'[o]
  BY DEF NamesInv, Grows
<1> QED
  BY <1>3, <1>4, <1>5 DEF NamesInv

\* An open's name is its key's, below its base.
LEMMA OpenPath ==
  ASSUME Inv, "" \notin Relatives, NEW n \in OpenNames
  PROVE  /\ n.Absolute => PathOf(n) = <<n.Name>>
         /\ ~n.Absolute => Live(world, n.Base) /\ n.Name # "" /\ PathOf(n) = Append(world[n.Base], n.Name)
         /\ PathOf(n) # <<>>
<1>1. CASE n.Absolute
  <2>1. PathOf(n) = <<n.Name>>
    BY <1>1 DEF PathOf
  <2>2. <<n.Name>> # <<>>
    OBVIOUS
  <2> QED
    BY <1>1, <2>1, <2>2
<1>2. CASE ~n.Absolute
  <2>1. n.Base \in Addresses /\ world[n.Base] # <<>> /\ n.Name \in Relatives /\ n.Name # ""
    BY <1>2 DEF OpenNames
  <2>2. PathOf(n) = Append(world[n.Base], n.Name)
    BY <1>2, <2>1 DEF PathOf
  <2>3. world[n.Base] \in Paths
    BY <2>1 DEF Inv, EventsTypes
  <2>4. Append(world[n.Base], n.Name) # <<>>
    BY <2>1, <2>3, AppendText DEF KeyNames
  <2> QED
    BY <1>2, <2>1, <2>2, <2>4 DEF Live
<1> QED
  BY <1>1, <1>2

\* The last element.
LEMMA AppendLast ==
  ASSUME NEW S, NEW D \in Seq(S), NEW d \in S
  PROVE  Len(D) + 1 \in DOMAIN Append(D, d) /\ Append(D, d)[Len(D) + 1] = d
  OBVIOUS

\* No key object is closed.
LEMMA NoCloses == ASSUME NamesInv, MaxCloses = 0, NEW a, SysClose(a) PROVE FALSE
<1>1. closes \in Nat /\ closes < MaxCloses
  BY DEF SysClose, NamesInv
<1> QED
  BY <1>1

\* The system opens keys, and uses them.
LEMMA SystemNames ==
  ASSUME Inv, NamesInv, MaxCloses = 0, "" \notin Relatives, System
  PROVE  NamesInv'
<1>w. world \in [Addresses -> Paths] /\ truth \in Seq(Paths)
  BY DEF Inv, EventsTypes
<1>a. \A path \in Paths : Len(truth) + 1 \in DOMAIN Append(truth, path) /\ Append(truth, path)[Len(truth) + 1] = path
  BY <1>w, AppendLast
<1>1. ASSUME NEW pid \in Pids, NEW p \in Processors, NEW a \in Addresses, SysOpen(pid, p, a)
      PROVE  NamesInv'
  <2>1. UNCHANGED <<m_Table, tpc, current, found, closes>> /\ world[a] = <<>>
    BY <1>1 DEF SysOpen, traceVars, resolverVars
  <2>2. PICK n \in OpenNames :
          /\ Issue(p, Event(pid, "OpenKey", a, n.Base, "success", n.Absolute, n.Name), PathOf(n))
          /\ world' = [world EXCEPT ![a] = PathOf(n)]
    BY <1>1 DEF SysOpen
  <2> DEFINE e == Event(pid, "OpenKey", a, n.Base, "success", n.Absolute, n.Name)
  <2>3. PathOf(n) \in Paths /\ n.Absolute \in BOOLEAN /\ n.Base \in Addresses \cup {None} /\ n.Name \in KeyNames
    BY OpenNameTypes DEF KeyNames
  <2>4. Len(truth) + 1 \in 1 .. MaxEvents
    BY <2>2, NextStamp DEF Issue
  <2>5. /\ e \in Events /\ e.Stamp = Len(truth) + 1 /\ IsOpen(e) /\ e.KeyObject = a /\ e.BaseObject = n.Base
        /\ e.Absolute = n.Absolute /\ e.Name = n.Name
    BY <2>3, <2>4 DEF Event, Events, KeyNames, IsOpen
  <2>6. truth' = Append(truth, PathOf(n))
    BY <2>2 DEF Issue
  <2> HIDE DEF e
  <2>7. /\ n.Absolute => PathOf(n) = <<n.Name>>
        /\ ~n.Absolute => Live(world, n.Base) /\ n.Name # "" /\ PathOf(n) = Append(world[n.Base], n.Name)
        /\ PathOf(n) # <<>>
    BY OpenPath
  <2>8. Grows(world, world') /\ Live(world', a) /\ world'[a] = PathOf(n)
    BY <1>w, <2>1, <2>2, <2>7 DEF Grows, Live
  <2>9. IsTrue(world', truth', e)
    <3>1. e.Stamp \in DOMAIN truth' /\ truth'[e.Stamp] = PathOf(n)
      BY <1>a, <2>3, <2>5, <2>6
    <3>2. ~n.Absolute => Live(world', n.Base) /\ world'[n.Base] = world[n.Base]
      BY <2>7, <2>8 DEF Grows
    <3> QED
      BY <2>5, <2>7, <2>8, <3>1, <3>2 DEF IsTrue
  <2> QED
    BY <2>1, <2>2, <2>3, <2>5, <2>8, <2>9, IssueTrue DEF e
<1>2. ASSUME NEW pid \in Pids, NEW p \in Processors, SysOpenFails(pid, p)
      PROVE  NamesInv'
  <2>1. UNCHANGED <<m_Table, tpc, current, found, closes, world>>
    BY <1>2 DEF SysOpenFails, traceVars, resolverVars
  <2>2. PICK n \in OpenNames, status \in {"failure", "reparse"} :
          Issue(p, Event(pid, "OpenKey", None, n.Base, status, n.Absolute, n.Name), PathOf(n))
    BY <1>2 DEF SysOpenFails
  <2> DEFINE e == Event(pid, "OpenKey", None, n.Base, status, n.Absolute, n.Name)
  <2>3. PathOf(n) \in Paths /\ n.Absolute \in BOOLEAN /\ n.Base \in Addresses \cup {None} /\ n.Name \in KeyNames
    BY OpenNameTypes DEF KeyNames
  <2>4. Len(truth) + 1 \in 1 .. MaxEvents
    BY <2>2, NextStamp DEF Issue
  <2>5. /\ e \in Events /\ e.Stamp = Len(truth) + 1 /\ IsOpen(e) /\ e.KeyObject = 0 /\ e.BaseObject = n.Base
        /\ e.Absolute = n.Absolute /\ e.Name = n.Name
    BY <2>3, <2>4 DEF Event, Events, KeyNames, IsOpen, None
  <2>6. truth' = Append(truth, PathOf(n))
    BY <2>2 DEF Issue
  <2> HIDE DEF e
  <2>7. /\ n.Absolute => PathOf(n) = <<n.Name>>
        /\ ~n.Absolute => Live(world, n.Base) /\ n.Name # "" /\ PathOf(n) = Append(world[n.Base], n.Name)
    BY OpenPath
  <2>8. Grows(world, world')
    BY <2>1 DEF Grows, Live
  <2>9. IsTrue(world', truth', e)
    <3>1. e.Stamp \in DOMAIN truth' /\ truth'[e.Stamp] = PathOf(n)
      BY <1>a, <2>3, <2>5, <2>6
    <3> QED
      BY <2>1, <2>5, <2>7, <3>1 DEF IsTrue
  <2> QED
    BY <2>1, <2>2, <2>3, <2>5, <2>8, <2>9, IssueTrue DEF e
<1>3. ASSUME NEW pid \in Pids, NEW p \in Processors, NEW a \in Addresses, SysOperation(pid, p, a)
      PROVE  NamesInv'
  <2>1. UNCHANGED <<m_Table, tpc, current, found, closes, world>> /\ Live(world, a)
    BY <1>3 DEF SysOperation, traceVars, resolverVars, Live
  <2> DEFINE e == Event(pid, "QueryValue", a, None, "success", FALSE, "")
  <2>2. Issue(p, e, world[a])
    BY <1>3 DEF SysOperation
  <2>3. world[a] \in Paths
    BY <1>w
  <2>4. Len(truth) + 1 \in 1 .. MaxEvents
    BY <2>2, NextStamp DEF Issue
  <2>5. e \in Events /\ e.Stamp = Len(truth) + 1 /\ ~IsOpen(e) /\ e.KeyObject = a
    BY <2>4 DEF Event, Events, IsOpen
  <2>6. truth' = Append(truth, world[a])
    BY <2>2 DEF Issue
  <2> HIDE DEF e
  <2>7. Grows(world, world')
    BY <2>1 DEF Grows, Live
  <2>8. IsTrue(world', truth', e)
    <3>1. e.Stamp \in DOMAIN truth' /\ truth'[e.Stamp] = world[a]
      BY <1>a, <2>3, <2>5, <2>6
    <3> QED
      BY <2>1, <2>5, <3>1 DEF IsTrue
  <2> QED
    BY <2>1, <2>2, <2>3, <2>5, <2>7, <2>8, IssueTrue
<1>4. ASSUME NEW a \in Addresses, SysClose(a)
      PROVE  NamesInv'
  BY <1>4, NoCloses
<1>5. CASE Tick
  BY <1>5 DEF Tick, NamesInv, traceVars, resolverVars
<1> QED
  BY <1>1, <1>2, <1>3, <1>4, <1>5 DEF System

\* While no address is reused, every operation is counted under the name of the
\* key it was on, or below the key object that could not be named, in whatever
\* order the processors' events, the opens that wait and the resolver's answers
\* come.  (An open by an empty relative name below an unnamed base counts with a
\* separator at its end, so that is excluded.)
THEOREM NamesAreTheirs == ASSUME MaxCloses = 0, "" \notin Relatives PROVE Spec => []NamesAreTrue
<1>1. Inv /\ NamesInv /\ [Next]_vars => NamesInv'
  <2> SUFFICES ASSUME Inv, NamesInv, [Next]_vars PROVE NamesInv'
    OBVIOUS
  <2>1. CASE Start \/ StartFails \/ StopSession \/ StopClears \/ \E pid \in Pids : ForgetProcess(pid)
    BY <2>1, ClientNames
  <2>2. CASE TraceThread
    BY <2>2, TraceNames
  <2>3. CASE ResolverThread
    BY <2>3, ResolverNames
  <2>4. CASE System
    BY <2>4, SystemNames
  <2>5. CASE UNCHANGED vars
    BY <2>5 DEF vars, traceVars, resolverVars, worldVars, NamesInv
  <2> QED
    BY <2>1, <2>2, <2>3, <2>4, <2>5 DEF Next, RunNext
<1>2. NamesInv => NamesAreTrue
  <2> SUFFICES ASSUME NamesInv, NEW s \in DOMAIN m_Table.counted, NEW i \in DOMAIN m_Table.counted[s]
               PROVE  LET text == m_Table.counted[s][i]
                      IN truth[s] = IF text.unnamed \in Addresses THEN world[text.unnamed] \o text.path ELSE text.path
    BY DEF NamesAreTrue
  <2>1. Says(world, m_Table.counted[s][i], truth[s])
    BY DEF NamesInv, TableTrue, NamesTrue, CountedTrue
  <2>2. 0 \notin Addresses
    BY TrackerAssumption DEF None
  <2> QED
    BY <2>1, <2>2 DEF Says, Live
<1> QED
  BY InitInv, NextInv, InitNames, <1>1, <1>2, PTL DEF Spec

\* A tracker that is not running holds nothing: after Stop has joined both
\* threads and cleared the table, no operation, name or waiting event of the
\* last session is left in it or comes back.
THEOREM StoppedTrackerIsEmpty == Spec => []StoppedIsEmpty
<1>1. RestInv => StoppedIsEmpty
  BY DEF RestInv, AtRest, StoppedIsEmpty, Stopped
<1> QED
  BY InitRest, NextRest, <1>1, PTL DEF Spec
=============================================================================
