------------------------------- MODULE Symbols ------------------------------
(***************************************************************************)
(* SymbolHandler and MiniDump (SymbolHandler.cpp): symbols of a process's  *)
(* or the kernel's modules, a thread's stack and a dump's file, of a       *)
(* process that goes on meanwhile: it loads modules, its threads run, it   *)
(* exits and its ID becomes another's.                                     *)
(*                                                                         *)
(* Creations are the processes that have the ID, one after another; a      *)
(* process's creation time is its number.  Addresses each hold no module   *)
(* or one, from the time it was loaded.  A thread's stack is where the     *)
(* thread has got to.                                                      *)
(***************************************************************************)
EXTENDS Integers, FiniteSets, TLAPS

CONSTANTS Addresses, ModuleRefreshInterval, MaxTime, MaxCreations, MaxCalls, Kernel

VARIABLES now, process, loaded, stack, suspended, file,  \* the process and the dump's file
          session, call, calls                           \* the handler and the call that is being made

environment == <<now, process, loaded, stack, suspended>>
symbolVars == <<now, process, loaded, stack, suspended, file, session, call, calls>>

Unloaded == MaxTime + 1
NoSession == [process |-> 0, modules |-> {}, lastRefresh |-> 0]
NoCall == [kind |-> "none"]
Modules == {address \in Addresses : loaded[address] # Unloaded}

-----------------------------------------------------------------------------
\* an opened process stays the same one: its creation time is checked after that
CheckCreated(created) == created = 0 \/ created = process

Calls == call = NoCall /\ calls < MaxCalls /\ calls' = calls + 1
\* ForProcess, ForKernel: the module list is read; LoadKernelModules gives none without elevation
ForProcess(created) ==
    /\ ~Kernel /\ Calls /\ session = NoSession /\ process # 0 /\ CheckCreated(created)
    /\ session' = [process |-> process, modules |-> Modules, lastRefresh |-> now]
    /\ UNCHANGED <<environment, file, call>>
ForKernel(elevated) ==
    /\ Kernel /\ Calls /\ session = NoSession
    /\ session' = IF elevated THEN [process |-> process, modules |-> Modules, lastRefresh |-> now] ELSE NoSession
    /\ UNCHANGED <<environment, file, call>>
Close ==
    /\ call = NoCall /\ session # NoSession
    /\ session' = NoSession
    /\ UNCHANGED <<environment, file, call, calls>>

\* for the mutants: the list that was read first
Refreshed_Empty(address) == session
\* GetSymbol: an address in no known module has the list read again, at most every interval
Refreshed(address) ==
    IF address \notin session.modules /\ now - session.lastRefresh >= ModuleRefreshInterval
    THEN [session EXCEPT !.lastRefresh = now, !.modules = IF process = session.process THEN @ \cup Modules ELSE @]
    ELSE session
GetSymbol(address) ==
    /\ Calls /\ session # NoSession
    /\ session' = Refreshed(address)
    /\ call' = [kind |-> "named", found |-> address \in session'.modules, at |-> now,
                since |-> IF session.process = process THEN loaded[address] ELSE Unloaded]
    /\ UNCHANGED <<environment, file>>
GetSymbolEnds == call.kind = "named" /\ call' = NoCall /\ UNCHANGED <<environment, file, session, calls>>

\* CaptureStack: the thread is suspended for its context and a copy of its stack
CaptureStack ==
    /\ Calls /\ session # NoSession /\ ~Kernel /\ session.process = process /\ stack # 0
    /\ call' = [kind |-> "suspend", of |-> process, context |-> 0, copy |-> 0]
    /\ UNCHANGED <<environment, file, session>>
Suspend ==
    /\ call.kind = "suspend"
    /\ \/ process = call.of /\ suspended' = suspended + 1 /\ call' = [call EXCEPT !.kind = "context"]
       \/ call' = NoCall /\ UNCHANGED suspended
    /\ UNCHANGED <<now, process, loaded, stack, file, session, calls>>
GetContext ==
    /\ call.kind = "context"
    /\ \/ process = call.of /\ call' = [call EXCEPT !.kind = "copy", !.context = stack]
       \/ call' = [call EXCEPT !.kind = "resume"]
    /\ UNCHANGED <<environment, file, session, calls>>
CopyStack ==
    /\ call.kind = "copy"
    /\ call' = [call EXCEPT !.kind = "resume", !.copy = IF process = call.of THEN stack ELSE 0]
    /\ UNCHANGED <<environment, file, session, calls>>
\* nothing to resume of a thread that has exited
Resumed == IF process = call.of THEN suspended - 1 ELSE suspended
\* without a context the capture failed
Resume ==
    /\ call.kind = "resume"
    /\ suspended' = Resumed
    /\ call' = IF call.context = 0 THEN NoCall ELSE [call EXCEPT !.kind = "walk"]
    /\ UNCHANGED <<now, process, loaded, stack, file, session, calls>>
Walk == call.kind = "walk" /\ call' = NoCall /\ UNCHANGED <<environment, file, session, calls>>

\* MiniDump::Write: the file is created, then written or removed
MiniDumpWrite(created) ==
    /\ Calls /\ process # 0 /\ CheckCreated(created)
    /\ \/ call' = [kind |-> "dump", of |-> process, wanted |-> created] /\ file' = "partial"
       \/ UNCHANGED <<call, file>>
    /\ UNCHANGED <<environment, session>>
DumpFailed == "none"
MiniDumpEnds ==
    /\ call.kind = "dump" /\ call' = NoCall
    /\ \/ process = call.of /\ file' = "dump"
       \/ file' = DumpFailed
    /\ UNCHANGED <<environment, session, calls>>

Call == \/ \E created \in 0..MaxCreations : ForProcess(created) \/ MiniDumpWrite(created)
        \/ \E elevated \in BOOLEAN : ForKernel(elevated)
        \/ \E address \in Addresses : GetSymbol(address)
        \/ Close \/ CaptureStack
Step == GetSymbolEnds \/ Suspend \/ GetContext \/ CopyStack \/ Resume \/ Walk \/ MiniDumpEnds

-----------------------------------------------------------------------------
Tick == now < MaxTime /\ now' = now + 1 /\ UNCHANGED <<process, loaded, stack, suspended, file, session, call, calls>>
LoadModule == \E address \in Addresses :
    /\ loaded[address] = Unloaded /\ process # 0
    /\ loaded' = [loaded EXCEPT ![address] = now]
    /\ UNCHANGED <<now, process, stack, suspended, file, session, call, calls>>
RunThread ==
    /\ suspended = 0 /\ stack \in 1..2
    /\ stack' = 3 - stack
    /\ UNCHANGED <<now, process, loaded, suspended, file, session, call, calls>>
\* the process exits, its thread with it, and the next has its ID; the kernel does not
Exit ==
    /\ ~Kernel /\ process \in 1..(MaxCreations - 1)
    /\ process' = process + 1 /\ loaded' = [address \in Addresses |-> Unloaded]
    /\ stack' = 1 /\ suspended' = 0
    /\ UNCHANGED <<now, file, session, call, calls>>

Init ==
    /\ now = 0 /\ process = 1 /\ stack = 1 /\ suspended = 0 /\ file = "none"
    /\ loaded \in [Addresses -> {0, Unloaded}]
    /\ session = NoSession /\ call = NoCall /\ calls = 0
Next == Call \/ Step \/ Tick \/ LoadModule \/ RunThread \/ Exit
Spec == Init /\ [][Next]_symbolVars /\ WF_symbolVars(Step)

-----------------------------------------------------------------------------
(* A session is of a process that has had the ID, with some of its modules.  *)
TypeOK ==
    /\ now \in 0..MaxTime /\ process \in 1..MaxCreations /\ loaded \in [Addresses -> 0..Unloaded]
    /\ session.process \in 0..process /\ session.modules \subseteq Addresses /\ session.lastRefresh <= now
    /\ call.kind \in {"none", "named", "suspend", "context", "copy", "resume", "walk", "dump"}
    /\ calls \in 0..MaxCalls /\ file \in {"none", "partial", "dump"}

(* Between calls no thread is left suspended and no part of a dump that      *)
(* failed is left as a file, whichever step of a call failed.                *)
NothingIsLeft == call = NoCall => suspended = 0 /\ file # "partial"

(* The stack walked is the thread's at one moment: its copy is of where its  *)
(* context was taken (nothing if the process exited before it was copied).   *)
StackIsOneMoment == call.kind = "walk" => call.copy \in {0, call.context}

(* An address in a module has no name only if the list was read less than   *)
(* the interval ago, and the module is as new as that or newer.              *)
NewModuleIsNamed ==
    call.kind = "named" /\ ~call.found /\ call.since # Unloaded =>
        call.at - session.lastRefresh < ModuleRefreshInterval /\ call.since >= session.lastRefresh

(* A dump asked for a process by its creation time is of that process.       *)
DumpIsOfProcess == call.kind = "dump" /\ call.wanted # 0 => call.of = call.wanted

-----------------------------------------------------------------------------
(* Of any modules, processes that have the ID, and number of calls.          *)

Captures == [kind : {"suspend", "context", "copy", "resume", "walk"}, of : Nat, context : Nat, copy : Nat]
Holding == {"context", "copy", "resume"}

\* Only a capture that has suspended its thread and not resumed it has one
\* suspended, and then once, unless the process has exited; only a dump that is
\* being written is a file in part.
CallInv ==
    /\ process \in Nat /\ stack \in 1..2
    /\ call.kind \in {"none", "named", "suspend", "context", "copy", "resume", "walk", "dump"}
    /\ call.kind \in Holding \cup {"suspend", "walk"} => call \in Captures /\ call.of <= process
    /\ suspended = IF call.kind \in Holding /\ call.of = process THEN 1 ELSE 0
    /\ file = "partial" => call.kind = "dump"

LEMMA CallStep == CallInv /\ [Next]_symbolVars => CallInv'
<1> SUFFICES ASSUME CallInv, [Next]_symbolVars PROVE CallInv'
  OBVIOUS
<1> USE DEF CallInv, Captures, Holding, environment
<1>1. ASSUME NEW created, ForProcess(created) \/ MiniDumpWrite(created) PROVE CallInv'
  BY <1>1 DEF ForProcess, MiniDumpWrite, Calls, NoCall
<1>2. ASSUME NEW elevated, ForKernel(elevated) PROVE CallInv'
  BY <1>2 DEF ForKernel, Calls, NoCall
<1>3. ASSUME NEW address, GetSymbol(address) PROVE CallInv'
  BY <1>3 DEF GetSymbol, Calls, NoCall
<1>4. CASE Close \/ CaptureStack
  BY <1>4 DEF Close, CaptureStack, Calls, NoCall
<1>5. CASE GetSymbolEnds \/ Walk \/ MiniDumpEnds
  BY <1>5 DEF GetSymbolEnds, Walk, MiniDumpEnds, DumpFailed, NoCall
<1>6. CASE Suspend
  BY <1>6 DEF Suspend, NoCall
<1>7. CASE GetContext
  <2>1. call \in Captures /\ call.kind = "context" /\ UNCHANGED <<process, stack, suspended, file>>
    BY <1>7 DEF GetContext
  <2>2. CASE process = call.of /\ call' = [call EXCEPT !.kind = "copy", !.context = stack]
    <3> DEFINE named == [call EXCEPT !.kind = "copy"]
    <3>1. named \in Captures /\ named.kind = "copy" /\ named.of = call.of
      BY <2>1
    <3>2. stack \in Nat /\ call' = [named EXCEPT !.context = stack]
      BY <2>2
    <3> HIDE DEF named
    <3>3. call' \in Captures /\ call'.kind = "copy" /\ call'.of = call.of
      BY <3>1, <3>2
    <3> QED
      BY <2>1, <3>3
  <2>3. CASE call' = [call EXCEPT !.kind = "resume"]
    <3>1. call' \in Captures /\ call'.kind = "resume" /\ call'.of = call.of
      BY <2>1, <2>3
    <3> QED
      BY <2>1, <3>1
  <2> QED
    BY <1>7, <2>2, <2>3 DEF GetContext
<1>8. CASE CopyStack
  <2> DEFINE copied == IF process = call.of THEN stack ELSE 0
             resuming == [call EXCEPT !.kind = "resume"]
  <2>1. call \in Captures /\ call.kind = "copy" /\ UNCHANGED <<process, stack, suspended, file>>
    BY <1>8 DEF CopyStack
  <2>2. copied \in Nat /\ call' = [resuming EXCEPT !.copy = copied]
    BY <1>8 DEF CopyStack
  <2>3. resuming \in Captures /\ resuming.kind = "resume" /\ resuming.of = call.of
    BY <2>1
  <2> HIDE DEF copied, resuming
  <2>4. call' \in Captures /\ call'.kind = "resume" /\ call'.of = call.of
    BY <2>2, <2>3
  <2> QED
    BY <2>1, <2>4
<1>9. CASE Resume
  BY <1>9 DEF Resume, Resumed, NoCall
<1>10. CASE Tick \/ LoadModule \/ RunThread
  BY <1>10 DEF Tick, LoadModule, RunThread
<1>11. CASE Exit
  BY <1>11 DEF Exit
<1>12. CASE UNCHANGED symbolVars
  BY <1>12 DEF symbolVars
<1> QED
  BY <1>1, <1>2, <1>3, <1>4, <1>5, <1>6, <1>7, <1>8, <1>9, <1>10, <1>11, <1>12 DEF Next, Call, Step

\* SymbolHandler::CaptureStack resumes the thread it suspended, whichever of its
\* steps fails or whether the process exits; MiniDump::Write leaves no file in part.
THEOREM ThreadIsResumed == Spec => []NothingIsLeft
<1>1. Init => CallInv
  BY DEF Init, CallInv, Captures, Holding, NoCall
<1>2. CallInv => NothingIsLeft
  BY DEF CallInv, NothingIsLeft, Holding, NoCall
<1> QED
  BY <1>1, <1>2, CallStep, PTL DEF Spec

-----------------------------------------------------------------------------
(* A session's modules are as old as its last refresh.                       *)

Sessions == [process : Nat, modules : SUBSET Addresses, lastRefresh : Nat]

\* A session of the process that has the ID has the modules that were loaded
\* before its list was last read.
SessionInv ==
    /\ now \in 0..MaxTime /\ process \in 1..MaxCreations /\ loaded \in [Addresses -> 0..Unloaded]
    /\ \A address \in Addresses : loaded[address] # Unloaded => loaded[address] <= now
    /\ session \in Sessions /\ session.process <= process /\ session.lastRefresh <= now
    /\ session.process = process =>
           \A address \in Addresses : loaded[address] < session.lastRefresh => address \in session.modules
    /\ calls \in 0..MaxCalls /\ file \in {"none", "partial", "dump"}

LEMMA SessionStep ==
    ASSUME MaxTime \in Nat, MaxCreations \in Nat, MaxCalls \in Nat
    PROVE  SessionInv /\ [Next]_symbolVars => SessionInv'
<1> SUFFICES ASSUME SessionInv, [Next]_symbolVars PROVE SessionInv'
  OBVIOUS
<1> USE DEF SessionInv, Sessions, environment, Unloaded
<1>1. Modules \subseteq Addresses
  BY DEF Modules
<1>2. ASSUME NEW created, ForProcess(created) PROVE SessionInv'
  <2>1. /\ session' = [process |-> process, modules |-> Modules, lastRefresh |-> now] /\ calls' = calls + 1 /\ calls < MaxCalls
        /\ UNCHANGED <<now, process, loaded, file>>
    BY <1>2 DEF ForProcess, Calls
  <2> QED
    BY <1>1, <2>1 DEF Modules
<1>3. ASSUME NEW elevated, ForKernel(elevated) PROVE SessionInv'
  <2>1. /\ session' \in {[process |-> process, modules |-> Modules, lastRefresh |-> now], NoSession}
        /\ calls' = calls + 1 /\ calls < MaxCalls /\ UNCHANGED <<now, process, loaded, file>>
    BY <1>3 DEF ForKernel, Calls
  <2> QED
    BY <1>1, <2>1 DEF Modules, NoSession
<1>4. ASSUME NEW address \in Addresses, GetSymbol(address) PROVE SessionInv'
  <2>1. session' = Refreshed(address) /\ calls' = calls + 1 /\ calls < MaxCalls /\ UNCHANGED <<now, process, loaded, file>>
    BY <1>4 DEF GetSymbol, Calls
  <2>2. CASE session' = session
    BY <2>1, <2>2
  <2>3. CASE session' # session
    <3> DEFINE more == IF process = session.process THEN session.modules \cup Modules ELSE session.modules
    <3>1. session' = [session EXCEPT !.lastRefresh = now, !.modules = more]
      BY <2>1, <2>3 DEF Refreshed
    <3>2. more \subseteq Addresses /\ (process = session.process => Modules \subseteq more)
      BY <1>1
    <3> HIDE DEF more
    <3>3. session' = [process |-> session.process, modules |-> more, lastRefresh |-> now]
      BY <3>1
    <3> QED
      BY <2>1, <3>2, <3>3 DEF Modules
  <2> QED
    BY <2>2, <2>3
<1>5. ASSUME NEW created, MiniDumpWrite(created) PROVE SessionInv'
  BY <1>5 DEF MiniDumpWrite, Calls
<1>6. CASE Close \/ CaptureStack
  BY <1>6 DEF Close, CaptureStack, Calls, NoSession
<1>7. CASE GetSymbolEnds \/ Suspend \/ GetContext \/ CopyStack \/ Resume \/ Walk
  BY <1>7 DEF GetSymbolEnds, Suspend, GetContext, CopyStack, Resume, Walk
<1>8. CASE MiniDumpEnds
  BY <1>8 DEF MiniDumpEnds, DumpFailed
<1>9. CASE Tick
  BY <1>9 DEF Tick
<1>10. CASE LoadModule
  <2>1. PICK address \in Addresses : loaded' = [loaded EXCEPT ![address] = now]
    BY <1>10 DEF LoadModule
  <2>2. UNCHANGED <<now, process, file, session, calls>>
    BY <1>10 DEF LoadModule
  <2> QED
    BY <2>1, <2>2
<1>11. CASE RunThread
  BY <1>11 DEF RunThread
<1>12. CASE Exit
  BY <1>12 DEF Exit
<1>13. CASE UNCHANGED symbolVars
  BY <1>13 DEF symbolVars
<1> QED
  BY <1>2, <1>3, <1>4, <1>5, <1>6, <1>7, <1>8, <1>9, <1>10, <1>11, <1>12, <1>13 DEF Next, Call, Step

-----------------------------------------------------------------------------
(* What is found is of one process and moment.                               *)

\* The thread of a context that was taken stays where it was until it is resumed.
FoundInv ==
    /\ StackIsOneMoment /\ NewModuleIsNamed /\ DumpIsOfProcess
    /\ call.kind \in {"suspend", "context"} => call.copy = 0
    /\ call.kind = "copy" /\ call.of = process => call.context = stack
    /\ call.kind = "resume" => call.copy \in {0, call.context}

\* A lookup that does not find a module has read the list less than the interval
\* ago, and the module is as new as that.
LEMMA LookupStep ==
    ASSUME MaxTime \in Nat, ModuleRefreshInterval \in Nat, SessionInv, NEW address \in Addresses, GetSymbol(address)
    PROVE  NewModuleIsNamed'
<1> USE DEF SessionInv, Sessions, Unloaded
<1>1. /\ session' = Refreshed(address) /\ UNCHANGED <<now, process, loaded>>
      /\ call' = [kind |-> "named", found |-> address \in session'.modules, at |-> now,
                  since |-> IF session.process = process THEN loaded[address] ELSE Unloaded]
  BY DEF GetSymbol, environment
<1>2. SUFFICES ASSUME address \notin session'.modules, session.process = process, loaded[address] # Unloaded
      PROVE  now - session'.lastRefresh < ModuleRefreshInterval /\ loaded[address] >= session'.lastRefresh
  BY <1>1 DEF NewModuleIsNamed
<1>3. session' = session
  <2>1. SUFFICES ASSUME session' # session PROVE FALSE
    OBVIOUS
  <2>2. session' = [session EXCEPT !.lastRefresh = now, !.modules = session.modules \cup Modules]
    BY <1>1, <1>2, <2>1 DEF Refreshed
  <2>3. address \in Modules
    BY <1>2 DEF Modules
  <2> QED
    BY <1>2, <2>2, <2>3
<1>4. now - session.lastRefresh < ModuleRefreshInterval
  <2>1. SUFFICES ASSUME now - session.lastRefresh >= ModuleRefreshInterval PROVE FALSE
    OBVIOUS
  <2>2. session' = [session EXCEPT !.lastRefresh = now, !.modules = session.modules \cup Modules]
    BY <1>1, <1>2, <1>3, <2>1 DEF Refreshed
  <2>3. address \in Modules
    BY <1>2 DEF Modules
  <2> QED
    BY <1>2, <2>2, <2>3
<1> QED
  BY <1>2, <1>3, <1>4

LEMMA FoundStep ==
    ASSUME MaxTime \in Nat, ModuleRefreshInterval \in Nat
    PROVE  CallInv /\ SessionInv /\ FoundInv /\ [Next]_symbolVars => FoundInv'
<1> SUFFICES ASSUME CallInv, SessionInv, FoundInv, [Next]_symbolVars PROVE FoundInv'
  OBVIOUS
<1> USE DEF FoundInv, StackIsOneMoment, NewModuleIsNamed, DumpIsOfProcess, environment
<1>1. ASSUME NEW created, ForProcess(created) PROVE FoundInv'
  BY <1>1 DEF ForProcess, Calls, NoCall
<1>2. ASSUME NEW created, MiniDumpWrite(created) PROVE FoundInv'
  BY <1>2 DEF MiniDumpWrite, CheckCreated, Calls, NoCall
<1>3. ASSUME NEW elevated, ForKernel(elevated) PROVE FoundInv'
  BY <1>3 DEF ForKernel, Calls, NoCall
<1>4. ASSUME NEW address \in Addresses, GetSymbol(address) PROVE FoundInv'
  <2>1. call'.kind = "named"
    BY <1>4 DEF GetSymbol
  <2>2. NewModuleIsNamed'
    BY <1>4, LookupStep
  <2> QED
    BY <2>1, <2>2
<1>5. CASE Close \/ CaptureStack
  BY <1>5 DEF Close, CaptureStack, Calls, NoCall
<1>6. CASE GetSymbolEnds \/ Walk \/ MiniDumpEnds
  BY <1>6 DEF GetSymbolEnds, Walk, MiniDumpEnds, NoCall
<1>7. CASE Suspend
  <2>1. call \in Captures /\ call.kind = "suspend" /\ call.copy = 0
    BY <1>7 DEF Suspend, CallInv, Holding
  <2>2. call' = NoCall \/ call' = [call EXCEPT !.kind = "context"]
    BY <1>7 DEF Suspend
  <2> QED
    BY <2>1, <2>2 DEF Captures, NoCall
<1>8. CASE GetContext
  <2>1. call \in Captures /\ call.kind = "context" /\ call.copy = 0 /\ UNCHANGED <<process, stack>>
    BY <1>8 DEF GetContext, CallInv, Holding
  <2>2. CASE call' = [call EXCEPT !.kind = "copy", !.context = stack]
    <3>1. call' = [kind |-> "copy", of |-> call.of, context |-> stack, copy |-> call.copy]
      BY <2>1, <2>2 DEF Captures
    <3> QED
      BY <2>1, <3>1
  <2>3. CASE call' = [call EXCEPT !.kind = "resume"]
    BY <2>1, <2>3 DEF Captures
  <2> QED
    BY <1>8, <2>2, <2>3 DEF GetContext
<1>9. CASE CopyStack
  <2> DEFINE copied == IF process = call.of THEN stack ELSE 0
  <2>1. call \in Captures /\ call.kind = "copy"
    BY <1>9 DEF CopyStack, CallInv, Holding
  <2>2. call' = [call EXCEPT !.kind = "resume", !.copy = copied]
    BY <1>9 DEF CopyStack
  <2>3. copied \in {0, call.context}
    BY <2>1
  <2> HIDE DEF copied
  <2>4. call' = [kind |-> "resume", of |-> call.of, context |-> call.context, copy |-> copied]
    BY <2>1, <2>2 DEF Captures
  <2> QED
    BY <2>3, <2>4
<1>10. CASE Resume
  <2>1. call \in Captures /\ call.kind = "resume"
    BY <1>10 DEF Resume, CallInv, Holding
  <2>2. call' = NoCall \/ call' = [call EXCEPT !.kind = "walk"]
    BY <1>10 DEF Resume
  <2> QED
    BY <2>1, <2>2 DEF Captures, NoCall
<1>11. CASE Tick \/ LoadModule
  BY <1>11 DEF Tick, LoadModule
<1>12. CASE RunThread
  <2>1. ~(call.kind = "copy" /\ call.of = process)
    BY <1>12 DEF RunThread, CallInv, Holding
  <2> QED
    BY <1>12, <2>1 DEF RunThread
<1>13. CASE Exit
  <2>1. call.kind = "copy" => call.of # process'
    BY <1>13 DEF Exit, CallInv, Holding, Captures
  <2> QED
    BY <1>13, <2>1 DEF Exit
<1>14. CASE UNCHANGED symbolVars
  BY <1>14 DEF symbolVars
<1> QED
  BY <1>1, <1>2, <1>3, <1>4, <1>5, <1>6, <1>7, <1>8, <1>9, <1>10, <1>11, <1>12, <1>13, <1>14 DEF Next, Call, Step

LEMMA SymbolsInit ==
    ASSUME MaxTime \in Nat, MaxCreations \in Nat \ {0}, MaxCalls \in Nat
    PROVE  Init => CallInv /\ SessionInv /\ FoundInv
<1> SUFFICES ASSUME Init PROVE CallInv /\ SessionInv /\ FoundInv
  OBVIOUS
<1> USE DEF Init, NoCall, NoSession, Unloaded
<1>1. CallInv
  BY DEF CallInv, Captures, Holding
<1>2. SessionInv
  BY DEF SessionInv, Sessions
<1>3. FoundInv
  BY DEF FoundInv, StackIsOneMoment, NewModuleIsNamed, DumpIsOfProcess
<1> QED
  BY <1>1, <1>2, <1>3

LEMMA SymbolsKept ==
    ASSUME MaxTime \in Nat, MaxCreations \in Nat
    PROVE  /\ CallInv /\ SessionInv => TypeOK
           /\ CallInv => NothingIsLeft
BY DEF CallInv, SessionInv, Sessions, TypeOK, NothingIsLeft, Holding, NoCall
=============================================================================
