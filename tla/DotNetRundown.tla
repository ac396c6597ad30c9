---------------------------- MODULE DotNetRundown ----------------------------
(***************************************************************************)
(* What a process's .NET runtimes have loaded (WinSys DotNet.cpp,          *)
(* QueryProcess), from their own rundown: a trace session of the query's   *)
(* own is started, its consumer, and the provider is enabled; each runtime *)
(* then logs what it is, what it has loaded, and that it is done.          *)
(*                                                                         *)
(* Events come in the order they are logged in.  An event stands for all   *)
(* of a kind: "info", "item" (app domains, assemblies, modules),           *)
(* "complete".                                                             *)
(***************************************************************************)
EXTENDS Naturals, Sequences, SequencesExt, SequenceTheorems, FiniteSets, TLAPS

CONSTANTS
    Runtimes,       \* CLR instance IDs, in the order the process is asked to run them down
    Concurrently,   \* whether every runtime says what it is before one is done
    Versioned,      \* whether "complete" names its runtime (version 1)
    MaxQueries      \* bound

VARIABLES
    query,      \* "rest", "start", "open", "thread", "enable", "wait", "stop", "join", "close"
    error, result,  \* of the last query: "none", "failed", "details"
    session,    \* the trace: "none", "runs", "stopped"
    trace,      \* the consumer: "none", "open"
    thread,     \* "none", "runs", "ended"
    enabled,
    said,       \* runtime -> its events logged
    buffers,    \* those not delivered yet, with their runtime
    infos, items, completed, Complete,  \* context
    hDone,
    queries,
    late        \* history: an event was handled after the query returned

queryVars == <<query, error, result, hDone, queries>>
traceVars == <<session, trace, thread, enabled>>
contextVars == <<infos, items, completed, Complete>>
rundownVars == <<queryVars, traceVars, contextVars, said, buffers, late>>

InstanceIds == ToSet(Runtimes)
Rundown == <<"info", "item", "complete">>

-----------------------------------------------------------------------------
(* The query.                                                                *)

BeginQuery ==
    /\ query = "rest" /\ queries < MaxQueries
    /\ queries' = queries + 1
    /\ query' = "start"
    /\ error' = FALSE /\ hDone' = FALSE
    /\ infos' = {} /\ items' = {} /\ completed' = {} /\ Complete' = FALSE
    /\ said' = [r \in InstanceIds |-> 0] /\ buffers' = <<>>
    /\ UNCHANGED <<result, traceVars, late>>

StartTrace ==
    /\ query = "start"
    /\ \/ session' = "runs" /\ query' = "open" /\ UNCHANGED result
       \/ query' = "rest" /\ result' = "failed" /\ UNCHANGED session
    /\ UNCHANGED <<error, hDone, queries, trace, thread, enabled, contextVars, said, buffers, late>>
\* the consumer before the provider
OpenTrace ==
    /\ query = "open"
    /\ \/ trace' = "open" /\ query' = "thread" /\ UNCHANGED error
       \/ error' = TRUE /\ query' = "stop" /\ UNCHANGED trace
    /\ UNCHANGED <<result, hDone, queries, session, thread, enabled, contextVars, said, buffers, late>>
CreateThread ==
    /\ query = "thread"
    /\ \/ thread' = "runs" /\ query' = "enable" /\ UNCHANGED error
       \/ error' = TRUE /\ query' = "stop" /\ UNCHANGED thread
    /\ UNCHANGED <<result, hDone, queries, session, trace, enabled, contextVars, said, buffers, late>>
Enable ==
    /\ query = "enable"
    /\ \/ enabled' = TRUE /\ query' = "wait" /\ UNCHANGED error
       \/ error' = TRUE /\ query' = "stop" /\ UNCHANGED enabled
    /\ UNCHANGED <<result, hDone, queries, session, trace, thread, contextVars, said, buffers, late>>
\* done, cancelled, or out of time; the flushes while it waits are the trace's deliveries
EndWait ==
    /\ query = "wait"
    /\ query' = "stop"
    /\ UNCHANGED <<error, result, hDone, queries, traceVars, contextVars, said, buffers, late>>
\* nothing is logged any more; what is in the buffers is still delivered
StopTrace ==
    /\ query = "stop"
    /\ session' = "stopped" /\ enabled' = FALSE
    /\ query' = "join"
    /\ UNCHANGED <<error, result, hDone, queries, trace, thread, contextVars, said, buffers, late>>
\* for the mutants: left running after its five seconds
MayLeave_Running == TRUE
MayLeave == thread # "runs"
Join ==
    /\ query = "join" /\ MayLeave
    /\ trace' = "none" /\ session' = "none"
    /\ thread' = IF thread = "ended" THEN "none" ELSE thread
    /\ query' = "rest"
    /\ result' = IF error THEN "failed" ELSE "details"
    /\ UNCHANGED <<error, hDone, queries, enabled, contextVars, said, buffers, late>>
\* five seconds are over: the consumer is closed, which ends the thread without the rest
JoinTimesOut ==
    /\ query = "join" /\ thread = "runs" /\ trace = "open"
    /\ trace' = "none"
    /\ UNCHANGED <<queryVars, session, thread, enabled, contextVars, said, buffers, late>>

-----------------------------------------------------------------------------
(* The runtimes, and the trace's thread.                                     *)

Before(r) == {Runtimes[i] : i \in 1 .. SelectInSeq(Runtimes, LAMBDA x : x = r) - 1}
Log(r) ==
    /\ enabled /\ said[r] < Len(Rundown)
    /\ IF Concurrently THEN said[r] = 2 => \A q \in InstanceIds : said[q] >= 1 ELSE \A q \in Before(r) : said[q] = Len(Rundown)
    /\ said' = [said EXCEPT ![r] = @ + 1]
    /\ buffers' = Append(buffers, <<r, Rundown[said[r] + 1]>>)
    /\ UNCHANGED <<queryVars, traceVars, contextVars, late>>

\* for the mutants: the first runtime's word is enough
AllDone_First(done) == TRUE
\* every runtime that said it's there is done
AllDone(done) == ~Versioned \/ infos \subseteq done

\* ApplyRundownEvent
Handle ==
    /\ thread = "runs" /\ trace = "open" /\ buffers # <<>>
    /\ LET r == buffers[1][1]
           event == buffers[1][2]
           done == completed \cup {IF Versioned THEN r ELSE 0}
       IN /\ infos' = IF event = "info" THEN infos \cup {r} ELSE infos
          /\ items' = IF event = "item" THEN items \cup {r} ELSE items
          /\ completed' = IF event = "complete" THEN done ELSE completed
          /\ Complete' = (Complete \/ (event = "complete" /\ AllDone(done)))
          /\ hDone' = (hDone \/ (event = "complete" /\ AllDone(done)))
    /\ buffers' = Tail(buffers)
    /\ late' = (late \/ query = "rest")
    /\ UNCHANGED <<query, error, result, queries, traceVars, said>>

\* ProcessTrace returns
ThreadEnds ==
    /\ thread = "runs"
    /\ trace = "open" => session = "stopped" /\ buffers = <<>>
    /\ thread' = "ended"
    /\ UNCHANGED <<queryVars, session, trace, enabled, contextVars, said, buffers, late>>

-----------------------------------------------------------------------------
Init ==
    /\ query = "rest" /\ error = FALSE /\ result = "none" /\ hDone = FALSE /\ queries = 0
    /\ session = "none" /\ trace = "none" /\ thread = "none" /\ enabled = FALSE
    /\ infos = {} /\ items = {} /\ completed = {} /\ Complete = FALSE
    /\ said = [r \in InstanceIds |-> 0] /\ buffers = <<>>
    /\ late = FALSE

Query == StartTrace \/ OpenTrace \/ CreateThread \/ Enable \/ EndWait \/ StopTrace \/ Join \/ JoinTimesOut
Thread == ThreadEnds \/ Handle
Next ==
    \/ BeginQuery \/ Query
    \/ Thread
    \/ \E r \in InstanceIds : Log(r)

\* the query and the trace's thread go on; the runtimes need not log anything
Fairness == WF_rundownVars(Query) /\ WF_rundownVars(Thread)
Spec == Init /\ [][Next]_rundownVars /\ Fairness

TypeOK ==
    /\ query = "rest" => session = "none" /\ trace = "none" /\ ~enabled
    /\ infos \cup items \cup completed \subseteq InstanceIds \cup {0}
    /\ thread = "runs" => session # "none"

(* "every runtime said its rundown was done" (DotNet.h:60): details that are *)
(* Complete have everything of every runtime.                                *)
CompleteHasAll == query = "rest" /\ result = "details" /\ Complete => infos = InstanceIds /\ items = InstanceIds

(* When the query returns its session is gone and no event reaches the       *)
(* context, which was on its stack, whichever of its steps failed.           *)
NothingIsLate == ~late /\ (query = "rest" => thread = "none")

(* The query returns though no runtime answers.                              *)
InCall == query # "rest"
QueryReturns == InCall ~> ~InCall

-----------------------------------------------------------------------------
(* Of any runtimes and number of queries.                                    *)

\* The trace's thread is there from CreateThread until Join has seen its end.
ThreadInv ==
    /\ query \in {"rest", "start", "open", "thread", "enable", "wait", "stop", "join"}
    /\ thread \in {"none", "runs", "ended"}
    /\ query \in {"rest", "start", "open", "thread"} => thread = "none"
    /\ late = FALSE

LEMMA ThreadStep == ThreadInv /\ [Next]_rundownVars => ThreadInv'
<1> SUFFICES ASSUME ThreadInv, [Next]_rundownVars PROVE ThreadInv'
  OBVIOUS
<1> USE DEF ThreadInv, traceVars
<1>1. CASE BeginQuery
  <2>1. query' = "start" /\ query = "rest" /\ thread = "none" /\ UNCHANGED <<thread, late>>
    BY <1>1 DEF BeginQuery
  <2> QED
    BY <2>1
<1>2. CASE StartTrace \/ OpenTrace \/ CreateThread \/ Enable
  BY <1>2 DEF StartTrace, OpenTrace, CreateThread, Enable
<1>3. CASE EndWait \/ StopTrace
  BY <1>3 DEF EndWait, StopTrace
<1>4. CASE Join
  <2>1. /\ query' = "rest" /\ late' = late
        /\ thread \in {"none", "runs", "ended"} => thread' = "none"
    BY <1>4 DEF Join, MayLeave
  <2> QED
    BY <2>1
<1>5. CASE JoinTimesOut
  BY <1>5 DEF JoinTimesOut, queryVars
<1>6. CASE Handle
  <2>1. /\ thread = "runs" /\ late' = (late \/ query = "rest")
        /\ UNCHANGED <<query, thread>>
    BY <1>6 DEF Handle
  <2> QED
    BY <2>1
<1>7. CASE ThreadEnds
  BY <1>7 DEF ThreadEnds, queryVars
<1>8. ASSUME NEW r \in InstanceIds, Log(r) PROVE ThreadInv'
  BY <1>8 DEF Log, queryVars
<1>9. CASE UNCHANGED rundownVars
  BY <1>9 DEF rundownVars, queryVars
<1> QED
  BY <1>1, <1>2, <1>3, <1>4, <1>5, <1>6, <1>7, <1>8, <1>9 DEF Next, Query, Thread

\* QueryProcess returns only when its trace's thread has ended, whichever of its
\* steps failed or ran out of time: no event reaches the context on its stack.
THEOREM ContextOutlivesThread == Spec => []NothingIsLate
<1>1. Init => ThreadInv
  BY DEF Init, ThreadInv
<1>2. ThreadInv => NothingIsLate
  BY DEF ThreadInv, NothingIsLate
<1> QED
  BY <1>1, <1>2, ThreadStep, PTL DEF Spec
-----------------------------------------------------------------------------
(* What it has then, if every runtime says what it is before one is done     *)
(* and "complete" names its runtime, or there is one.                        *)

AllAreKnown == Concurrently /\ (Versioned \/ \E r : InstanceIds = {r})

\* The query's step says what there is of the trace.
TraceInv ==
    /\ query \in {"rest", "start"} => session = "none"
    /\ query \in {"open", "thread", "enable", "wait", "stop"} => session = "runs"
    /\ query = "join" => session = "stopped"
    /\ query \in {"rest", "start", "open"} => trace = "none"
    /\ enabled => query \in {"wait", "stop"}

\* An event logged is known or not delivered yet, and before "complete" is all that
\* was logged before it.
Waits(seq, r, event, before) == \E i \in 1 .. before : seq[i] = <<r, event>>
EventsInv ==
    /\ said \in [InstanceIds -> 0 .. 3]
    /\ buffers \in Seq(InstanceIds \X {"info", "item", "complete"})
    /\ infos \subseteq InstanceIds /\ items \subseteq InstanceIds /\ completed \subseteq InstanceIds \cup {0}
    /\ \A r \in InstanceIds :
         /\ said[r] >= 1 => r \in infos \/ Waits(buffers, r, "info", Len(buffers))
         /\ said[r] >= 2 => r \in items \/ Waits(buffers, r, "item", Len(buffers))
    /\ \A j \in 1 .. Len(buffers) : buffers[j][2] = "complete" =>
         /\ \A r \in InstanceIds : r \in infos \/ Waits(buffers, r, "info", j - 1)
         /\ buffers[j][1] \in items \/ Waits(buffers, buffers[j][1], "item", j - 1)
    /\ Versioned => completed \subseteq items
    /\ Complete => infos = InstanceIds /\ items = InstanceIds

LEMMA TraceStep == ThreadInv /\ TraceInv /\ [Next]_rundownVars => TraceInv'
<1> SUFFICES ASSUME ThreadInv, TraceInv, [Next]_rundownVars PROVE TraceInv'
  OBVIOUS
<1> USE DEF TraceInv, traceVars
<1>1. CASE BeginQuery
  BY <1>1 DEF BeginQuery
<1>2. CASE StartTrace \/ OpenTrace \/ CreateThread \/ Enable
  BY <1>2 DEF StartTrace, OpenTrace, CreateThread, Enable
<1>3. CASE EndWait \/ StopTrace
  BY <1>3 DEF EndWait, StopTrace
<1>4. CASE Join \/ JoinTimesOut
  BY <1>4 DEF Join, JoinTimesOut, queryVars
<1>5. CASE Handle
  <2>1. UNCHANGED <<query, session, trace, enabled>>
    BY <1>5 DEF Handle
  <2> QED
    BY <2>1
<1>6. CASE ThreadEnds
  BY <1>6 DEF ThreadEnds, queryVars
<1>7. ASSUME NEW r \in InstanceIds, Log(r) PROVE TraceInv'
  BY <1>7 DEF Log, queryVars
<1>8. CASE UNCHANGED rundownVars
  BY <1>8 DEF rundownVars, queryVars
<1> QED
  BY <1>1, <1>2, <1>3, <1>4, <1>5, <1>6, <1>7, <1>8 DEF Next, Query, Thread

LEMMA LogStep == ASSUME AllAreKnown, EventsInv, NEW r \in InstanceIds, Log(r) PROVE EventsInv'
<1> DEFINE e == <<r, Rundown[said[r] + 1]>>
<1>1. /\ said[r] < 3
      /\ said[r] = 2 => \A q \in InstanceIds : said[q] >= 1
      /\ said' = [said EXCEPT ![r] = said[r] + 1]
      /\ buffers' = Append(buffers, e)
      /\ UNCHANGED <<infos, items, completed, Complete>>
  BY DEF Log, AllAreKnown, contextVars, Rundown
<1>2. said[r] \in 0 .. 2 /\ \A q \in InstanceIds : said[q] \in 0 .. 3
  BY <1>1 DEF EventsInv
<1>3. /\ said[r] = 0 => e = <<r, "info">>
      /\ said[r] = 1 => e = <<r, "item">>
      /\ said[r] = 2 => e = <<r, "complete">>
  BY DEF Rundown
<1>4. e \in InstanceIds \X {"info", "item", "complete"}
  BY <1>2, <1>3
<1> HIDE DEF e
<1>5. /\ buffers \in Seq(InstanceIds \X {"info", "item", "complete"})
      /\ Len(buffers) \in Nat
  BY LenProperties DEF EventsInv
<1>6. /\ buffers' \in Seq(InstanceIds \X {"info", "item", "complete"})
      /\ Len(buffers') = Len(buffers) + 1
      /\ \A i \in 1 .. Len(buffers) : buffers'[i] = buffers[i]
      /\ buffers'[Len(buffers) + 1] = e
  BY <1>1, <1>4, <1>5, AppendProperties
<1>7. said' \in [InstanceIds -> 0 .. 3]
  BY <1>1, <1>2 DEF EventsInv
<1>8. \A q, event : \A n \in 0 .. Len(buffers) : Waits(buffers, q, event, n) => Waits(buffers', q, event, n) /\ Waits(buffers', q, event, Len(buffers'))
  <2> SUFFICES ASSUME NEW q, NEW event, NEW n \in 0 .. Len(buffers), Waits(buffers, q, event, n)
               PROVE  Waits(buffers', q, event, n) /\ Waits(buffers', q, event, Len(buffers'))
    OBVIOUS
  <2>1. PICK i \in 1 .. n : buffers[i] = <<q, event>>
    BY DEF Waits
  <2>2. i \in 1 .. Len(buffers') /\ buffers'[i] = <<q, event>>
    BY <1>5, <1>6, <2>1
  <2> QED
    BY <2>1, <2>2 DEF Waits
<1>9. ASSUME NEW q \in InstanceIds
      PROVE  /\ said'[q] >= 1 => q \in infos \/ Waits(buffers', q, "info", Len(buffers'))
             /\ said'[q] >= 2 => q \in items \/ Waits(buffers', q, "item", Len(buffers'))
  <2>1. /\ said[q] >= 1 => q \in infos \/ Waits(buffers, q, "info", Len(buffers))
        /\ said[q] >= 2 => q \in items \/ Waits(buffers, q, "item", Len(buffers))
    BY DEF EventsInv
  <2>2. /\ said[q] >= 1 => q \in infos \/ Waits(buffers', q, "info", Len(buffers'))
        /\ said[q] >= 2 => q \in items \/ Waits(buffers', q, "item", Len(buffers'))
    BY <1>5, <1>8, <2>1
  <2>3. CASE q # r
    <3>1. said'[q] = said[q]
      BY <1>1, <2>3 DEF EventsInv
    <3> QED
      BY <2>2, <3>1
  <2>4. CASE q = r
    <3>1. said'[q] = said[q] + 1
      BY <1>1, <2>4 DEF EventsInv
    <3>2. \A event : e = <<q, event>> => Waits(buffers', q, event, Len(buffers'))
      BY <1>5, <1>6 DEF Waits
    <3>3. said[q] = 0 => Waits(buffers', q, "info", Len(buffers'))
      BY <1>3, <2>4, <3>2
    <3>4. said[q] = 1 => Waits(buffers', q, "item", Len(buffers'))
      BY <1>3, <2>4, <3>2
    <3> QED
      BY <1>2, <2>2, <2>4, <3>1, <3>3, <3>4
  <2> QED
    BY <2>3, <2>4
<1>10. ASSUME NEW j \in 1 .. Len(buffers'), buffers'[j][2] = "complete"
       PROVE  /\ \A q \in InstanceIds : q \in infos \/ Waits(buffers', q, "info", j - 1)
              /\ buffers'[j][1] \in items \/ Waits(buffers', buffers'[j][1], "item", j - 1)
  <2>1. CASE j \in 1 .. Len(buffers)
    <3>1. buffers'[j] = buffers[j] /\ j - 1 \in 0 .. Len(buffers)
      BY <1>5, <1>6, <2>1
    <3>2. /\ \A q \in InstanceIds : q \in infos \/ Waits(buffers, q, "info", j - 1)
          /\ buffers[j][1] \in items \/ Waits(buffers, buffers[j][1], "item", j - 1)
      BY <1>10, <2>1, <3>1 DEF EventsInv
    <3> QED
      BY <1>8, <3>1, <3>2
  <2>2. CASE j \notin 1 .. Len(buffers)
    <3>1. j - 1 = Len(buffers) /\ buffers'[j] = e /\ j - 1 \in 0 .. Len(buffers)
      BY <1>5, <1>6, <2>2
    <3>2. said[r] = 2 /\ buffers'[j][1] = r
      BY <1>2, <1>3, <1>10, <3>1
    <3>3. /\ \A q \in InstanceIds : q \in infos \/ Waits(buffers, q, "info", Len(buffers))
          /\ r \in items \/ Waits(buffers, r, "item", Len(buffers))
      BY <1>1, <3>2 DEF EventsInv
    <3> QED
      BY <1>8, <3>1, <3>2, <3>3
  <2> QED
    BY <2>1, <2>2
<1> QED
  BY <1>1, <1>6, <1>7, <1>9, <1>10 DEF EventsInv

LEMMA HandleStep == ASSUME AllAreKnown, EventsInv, Handle PROVE EventsInv'
<1> DEFINE r == buffers[1][1]
           event == buffers[1][2]
           ends == completed \cup {IF Versioned THEN r ELSE 0}
<1>1. /\ buffers # <<>> /\ buffers' = Tail(buffers) /\ said' = said
      /\ infos' = IF event = "info" THEN infos \cup {r} ELSE infos
      /\ items' = IF event = "item" THEN items \cup {r} ELSE items
      /\ completed' = IF event = "complete" THEN ends ELSE completed
      /\ Complete' = (Complete \/ (event = "complete" /\ AllDone(ends)))
  BY DEF Handle
<1>2. buffers \in Seq(InstanceIds \X {"info", "item", "complete"})
  BY DEF EventsInv
<1>3. Len(buffers) \in Nat \ {0}
  BY <1>1, <1>2, EmptySeq
<1>4. /\ buffers' \in Seq(InstanceIds \X {"info", "item", "complete"})
      /\ Len(buffers') = Len(buffers) - 1
      /\ \A i \in 1 .. Len(buffers') : buffers'[i] = buffers[i + 1]
  BY <1>1, <1>2, HeadTailProperties
<1>5. buffers[1] \in InstanceIds \X {"info", "item", "complete"}
  BY <1>2, <1>3, ElementOfSeq
<1>6. r \in InstanceIds /\ event \in {"info", "item", "complete"} /\ buffers[1] = <<r, event>>
  BY <1>5
<1> HIDE DEF r, event, ends
<1>7. infos' \subseteq InstanceIds /\ items' \subseteq InstanceIds /\ completed' \subseteq InstanceIds \cup {0}
  BY <1>1, <1>6 DEF EventsInv, ends
\* what waited is known, or waits one place earlier
<1>8. ASSUME NEW q, NEW kind, NEW n \in 1 .. Len(buffers), Waits(buffers, q, kind, n)
      PROVE  Waits(buffers', q, kind, n - 1) \/ (q = r /\ kind = event)
  <2>1. PICK i \in 1 .. n : buffers[i] = <<q, kind>>
    BY <1>8 DEF Waits
  <2>2. CASE i = 1
    BY <1>6, <2>1, <2>2
  <2>3. CASE i # 1
    <3>1. i - 1 \in 1 .. n - 1 /\ i - 1 \in 1 .. Len(buffers') /\ i - 1 + 1 = i
      BY <1>3, <1>4, <2>1, <2>3
    <3>2. buffers'[i - 1] = <<q, kind>>
      BY <1>4, <2>1, <3>1
    <3> QED
      BY <3>1, <3>2 DEF Waits
  <2> QED
    BY <2>2, <2>3
<1>9. ASSUME NEW q \in InstanceIds
      PROVE  /\ said'[q] >= 1 => q \in infos' \/ Waits(buffers', q, "info", Len(buffers'))
             /\ said'[q] >= 2 => q \in items' \/ Waits(buffers', q, "item", Len(buffers'))
  <2>1. /\ said[q] >= 1 => q \in infos \/ Waits(buffers, q, "info", Len(buffers))
        /\ said[q] >= 2 => q \in items \/ Waits(buffers, q, "item", Len(buffers))
    BY DEF EventsInv
  <2>2. Len(buffers) \in 1 .. Len(buffers)
    BY <1>3
  <2>3. Waits(buffers, q, "info", Len(buffers)) => Waits(buffers', q, "info", Len(buffers')) \/ q \in infos'
    BY <1>1, <1>4, <1>8, <2>2
  <2>4. Waits(buffers, q, "item", Len(buffers)) => Waits(buffers', q, "item", Len(buffers')) \/ q \in items'
    BY <1>1, <1>4, <1>8, <2>2
  <2> QED
    BY <1>1, <2>1, <2>3, <2>4
<1>10. ASSUME NEW j \in 1 .. Len(buffers'), buffers'[j][2] = "complete"
       PROVE  /\ \A q \in InstanceIds : q \in infos' \/ Waits(buffers', q, "info", j - 1)
              /\ buffers'[j][1] \in items' \/ Waits(buffers', buffers'[j][1], "item", j - 1)
  <2>1. j + 1 \in 1 .. Len(buffers) /\ j \in 1 .. Len(buffers) /\ buffers'[j] = buffers[j + 1] /\ j + 1 - 1 = j
    BY <1>3, <1>4
  <2>2. /\ \A q \in InstanceIds : q \in infos \/ Waits(buffers, q, "info", j)
        /\ buffers'[j][1] \in items \/ Waits(buffers, buffers'[j][1], "item", j)
    BY <1>10, <2>1 DEF EventsInv
  <2>3. \A q : Waits(buffers, q, "info", j) => Waits(buffers', q, "info", j - 1) \/ q \in infos'
    BY <1>1, <1>8, <2>1
  <2>4. \A q : Waits(buffers, q, "item", j) => Waits(buffers', q, "item", j - 1) \/ q \in items'
    BY <1>1, <1>8, <2>1
  <2> QED
    BY <1>1, <2>2, <2>3, <2>4
\* nothing waits before the first
<1>11. event = "complete" => infos = InstanceIds /\ r \in items
  <2> SUFFICES ASSUME event = "complete" PROVE infos = InstanceIds /\ r \in items
    OBVIOUS
  <2>1. 1 \in 1 .. Len(buffers) /\ buffers[1][2] = "complete" /\ buffers[1][1] = r
    BY <1>3, <1>6
  <2>2. \A q, kind : ~Waits(buffers, q, kind, 1 - 1)
    BY DEF Waits
  <2>3. \A q \in InstanceIds : q \in infos \/ Waits(buffers, q, "info", 1 - 1)
    BY <2>1 DEF EventsInv
  <2>4. r \in items \/ Waits(buffers, r, "item", 1 - 1)
    BY <2>1 DEF EventsInv
  <2> QED
    BY <2>2, <2>3, <2>4 DEF EventsInv
<1>12. infos \subseteq infos' /\ items \subseteq items'
  BY <1>1
<1>13. Versioned => completed' \subseteq items'
  <2> SUFFICES ASSUME Versioned PROVE completed' \subseteq items'
    OBVIOUS
  <2>1. completed' = completed \/ (event = "complete" /\ completed' = completed \cup {r})
    BY <1>1 DEF ends
  <2>2. completed \subseteq items
    BY DEF EventsInv
  <2> QED
    BY <1>11, <1>12, <2>1, <2>2
<1>14. Complete' => infos' = InstanceIds /\ items' = InstanceIds
  <2>1. CASE Complete
    BY <1>7, <1>12, <2>1 DEF EventsInv
  <2>2. CASE event = "complete" /\ AllDone(ends)
    <3>1. infos' = InstanceIds /\ r \in items' /\ items' = items
      BY <1>1, <1>7, <1>11, <1>12, <2>2
    <3>2. CASE Versioned
      <4>1. infos \subseteq completed \cup {r}
        BY <2>2, <3>2 DEF AllDone, ends
      <4>2. completed \subseteq items
        BY <3>2 DEF EventsInv
      <4> QED
        BY <1>7, <1>11, <2>2, <3>1, <4>1, <4>2
    <3>3. CASE ~Versioned
      BY <1>7, <3>1, <3>3 DEF AllAreKnown
    <3> QED
      BY <3>2, <3>3
  <2> QED
    BY <1>1, <2>1, <2>2
<1>15. said' \in [InstanceIds -> 0 .. 3]
  BY <1>1 DEF EventsInv
<1> QED
  BY <1>4, <1>7, <1>9, <1>10, <1>13, <1>14, <1>15 DEF EventsInv

LEMMA EventsStep == AllAreKnown /\ EventsInv /\ [Next]_rundownVars => EventsInv'
<1> SUFFICES ASSUME AllAreKnown, EventsInv, [Next]_rundownVars PROVE EventsInv'
  OBVIOUS
<1>1. CASE BeginQuery
  <2>1. /\ said' = [r \in InstanceIds |-> 0] /\ buffers' = <<>>
        /\ infos' = {} /\ items' = {} /\ completed' = {} /\ Complete' = FALSE
    BY <1>1 DEF BeginQuery
  <2>2. buffers' \in Seq(InstanceIds \X {"info", "item", "complete"}) /\ Len(buffers') = 0
    BY <2>1
  <2> QED
    BY <2>1, <2>2 DEF EventsInv
<1>2. CASE UNCHANGED <<said, buffers, infos, items, completed, Complete>>
  BY <1>2 DEF EventsInv
<1>3. CASE Query \/ ThreadEnds \/ UNCHANGED rundownVars
  <2>1. UNCHANGED <<said, buffers, infos, items, completed, Complete>>
    BY <1>3 DEF Query, StartTrace, OpenTrace, CreateThread, Enable, EndWait, StopTrace, Join, JoinTimesOut,
                ThreadEnds, rundownVars, contextVars
  <2> QED
    BY <1>2, <2>1
<1>4. CASE Handle
  BY <1>4, HandleStep
<1>5. ASSUME NEW r \in InstanceIds, Log(r) PROVE EventsInv'
  BY <1>5, LogStep
<1> QED
  BY <1>1, <1>3, <1>4, <1>5 DEF Next, Thread

LEMMA RundownInit == Init => ThreadInv /\ TraceInv /\ EventsInv
<1> SUFFICES ASSUME Init PROVE ThreadInv /\ TraceInv /\ EventsInv
  OBVIOUS
<1>1. <<>> \in Seq(InstanceIds \X {"info", "item", "complete"}) /\ Len(<<>>) = 0
  OBVIOUS
<1> QED
  BY <1>1 DEF Init, ThreadInv, TraceInv, EventsInv

LEMMA RundownKept ==
    ThreadInv /\ TraceInv /\ EventsInv => TypeOK /\ NothingIsLate /\ CompleteHasAll
<1> SUFFICES ASSUME ThreadInv, TraceInv, EventsInv PROVE TypeOK /\ NothingIsLate /\ CompleteHasAll
  OBVIOUS
<1>1. TypeOK
  BY DEF ThreadInv, TraceInv, EventsInv, TypeOK
<1> QED
  BY <1>1 DEF ThreadInv, EventsInv, NothingIsLate, CompleteHasAll

\* Details that say they are complete have everything of every runtime, however its
\* events lie with the others' (DotNet.h:60).
THEOREM CompleteIsAll ==
    ASSUME AllAreKnown
    PROVE  Spec => []CompleteHasAll
<1>1. ThreadInv /\ TraceInv /\ EventsInv => CompleteHasAll
  BY RundownKept
<1>2. ThreadInv /\ TraceInv /\ EventsInv /\ [Next]_rundownVars => (ThreadInv /\ TraceInv /\ EventsInv)'
  BY ThreadStep, TraceStep, EventsStep
<1> QED
  BY <1>1, <1>2, RundownInit, PTL DEF Spec

=============================================================================
