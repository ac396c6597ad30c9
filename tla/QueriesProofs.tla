---------------------------- MODULE QueriesProofs ----------------------------
(***************************************************************************)
(* Proofs about the queries that take several calls, of any number of      *)
(* calls, objects, places, processes and changes by others meanwhile.      *)
(* Each has an invariant of its own, kept by its steps (that of the        *)
(* symbols is in Symbols); a behaviour is one query's, and so the          *)
(* invariants together are an invariant of Queries.                        *)
(***************************************************************************)
EXTENDS Queries, FiniteSetTheorems, TLAPS

-----------------------------------------------------------------------------
(* Processes.                                                                *)

Times == [directory : Nat, environment : Nat]
Injects == {"allocate", "write", "thread", "wait_for_it", "free"}
Restarts == {"image", "command", "directory", "environment", "end", "wait", "create"}

\* What Restart has read is not ahead of the process, and it creates a process
\* once it ended this one and waited.
RestartInv ==
    /\ own \in Times /\ read.directory \in Nat /\ read.environment \in Nat
    /\ read = [image |-> read.image, command |-> read.command, directory |-> read.directory, environment |-> read.environment]
    /\ read.directory <= own.directory /\ read.environment <= own.environment
    /\ \A p \in created : p.directory \in Nat /\ p.environment \in Nat
    /\ turn \in {"wait", "create"} => ended
    /\ turn = "create" => waited \/ life = "gone"
    /\ turn \in Restarts \ {"image"} => read.image
    /\ Process!RestartedOnce

\* A thread in the process is waited for, or has kept the buffer for good; a call
\* that has none yet has the buffer to itself.
InjectInv ==
    /\ turn \in {"rest"} \cup Restarts \cup Injects
    /\ life \in {"runs", "ends", "gone"} /\ {owner, opened} \subseteq {"process", "other"}
    /\ buffer \in {"none", "used", "left"} /\ thread \in {"none", "runs", "ended"}
    /\ thread = "runs" => life = "runs" /\ buffer # "none" /\ (turn = "wait_for_it" \/ buffer = "left")
    /\ turn \in {"rest"} \cup Restarts => buffer \in {"none", "left"}
    /\ turn = "allocate" => buffer = "none" /\ thread = "none"
    /\ turn \in {"write", "thread", "wait_for_it"} /\ life # "gone" => buffer = "used"
    /\ turn \in Injects => opened = "process" /\ buffer \in {"none", "used"}
    /\ turn = "free" => thread # "runs"

LEMMA RestartStep == RestartInv /\ [Process!Next]_Process!procVars => RestartInv'
<1> SUFFICES ASSUME RestartInv, [Process!Next]_Process!procVars PROVE RestartInv'
  OBVIOUS
<1> USE DEF RestartInv, Restarts, Process!RestartedOnce, Times, Process!theirs, Process!injected
<1>1. CASE Process!Restart \/ Process!ReadImage \/ Process!ReadCommand
  BY <1>1 DEF Process!Restart, Process!ReadImage, Process!ReadCommand, Process!Nothing
<1>2. CASE Process!GetCurrentDirectory
  BY <1>2 DEF Process!GetCurrentDirectory
<1>3. CASE Process!GetEnvironment
  BY <1>3 DEF Process!GetEnvironment
<1>4. CASE Process!Terminate
  <2>1. /\ turn' \in {"wait", "rest"}
        /\ turn = "end" /\ (turn' = "wait" => ended')
        /\ UNCHANGED <<own, read, created, waited>>
    BY <1>4 DEF Process!Terminate, Process!TerminateOf
  <2> QED
    BY <2>1
<1>5. CASE Process!Wait
  BY <1>5 DEF Process!Wait, Process!WaitEnds
<1>6. CASE Process!Create
  <2> DEFINE new == [directory |-> read.directory, environment |-> read.environment,
                     after |-> ended, together |-> life # "gone" /\ ~waited]
  <2>1. /\ turn' = "rest" /\ created' \in {created, created \cup {new}}
        /\ UNCHANGED <<own, read, ended, waited>>
    BY <1>6 DEF Process!Create
  <2>2. /\ new.after /\ ~new.together
        /\ new.directory = read.directory /\ new.environment = read.environment
    BY <1>6 DEF Process!Create
  <2> HIDE DEF new
  <2> QED
    BY <2>1, <2>2
<1>7. CASE Process!InjectDll
  <2>1. UNCHANGED <<own, created>> /\ read' = Process!Nothing
    BY <1>7 DEF Process!InjectDll
  <2>2. turn' \in {"rest", "allocate"}
    BY <1>7, Zenon DEF Process!InjectDll
  <2> QED
    BY <2>1, <2>2 DEF Process!Nothing
<1>8. CASE Process!Allocate \/ Process!Write \/ Process!CreateThread \/ Process!WaitForThread \/ Process!Free
  BY <1>8 DEF Process!Allocate, Process!Write, Process!CreateThread, Process!WaitForThread, Process!AfterTimeout, Process!Free
<1>9. CASE Process!ThreadEnds \/ Process!Exit \/ Process!Gone
  BY <1>9 DEF Process!ThreadEnds, Process!Exit, Process!Gone
<1>10. CASE Process!Changes
  BY <1>10 DEF Process!Changes
<1>11. CASE UNCHANGED Process!procVars
  BY <1>11 DEF Process!procVars
<1> QED
  BY <1>1, <1>2, <1>3, <1>4, <1>5, <1>6, <1>7, <1>8, <1>9, <1>10, <1>11 DEF Process!Next

LEMMA RestartInit == Process!Init => RestartInv
BY DEF Process!Init, RestartInv, Restarts, Process!RestartedOnce, Times, Process!Nothing

\* Process::Restart creates a process only after it ended this one, with what it
\* had; beside it only when the wait timed out.
THEOREM RestartsOnce == Process!Spec => []Process!RestartedOnce
<1>1. RestartInv => Process!RestartedOnce
  BY DEF RestartInv
<1> QED
  BY <1>1, RestartInit, RestartStep, PTL DEF Process!Spec

LEMMA InjectStep == InjectInv /\ [Process!Next]_Process!procVars => InjectInv'
<1> SUFFICES ASSUME InjectInv, [Process!Next]_Process!procVars PROVE InjectInv'
  OBVIOUS
<1> USE DEF InjectInv, Injects, Restarts, Process!theirs, Process!injected
<1>1. CASE Process!Restart \/ Process!ReadImage \/ Process!ReadCommand \/ Process!GetCurrentDirectory \/ Process!GetEnvironment
  BY <1>1 DEF Process!Restart, Process!ReadImage, Process!ReadCommand, Process!GetCurrentDirectory, Process!GetEnvironment
<1>2. CASE Process!Terminate
  BY <1>2 DEF Process!Terminate, Process!TerminateOf
<1>3. CASE Process!Wait \/ Process!Create
  BY <1>3 DEF Process!Wait, Process!Create
<1>4. CASE Process!InjectDll
  BY <1>4 DEF Process!InjectDll, Process!OpenById
<1>5. CASE Process!Allocate \/ Process!Write
  BY <1>5 DEF Process!Allocate, Process!Write
<1>6. CASE Process!CreateThread
  BY <1>6 DEF Process!CreateThread
<1>7. CASE Process!WaitForThread
  BY <1>7 DEF Process!WaitForThread, Process!AfterTimeout
<1>8. CASE Process!Free
  BY <1>8 DEF Process!Free
<1>9. CASE Process!ThreadEnds \/ Process!Exit
  BY <1>9 DEF Process!ThreadEnds, Process!Exit
<1>10. CASE Process!Gone \/ Process!Changes
  BY <1>10 DEF Process!Gone, Process!Changes
<1>11. CASE UNCHANGED Process!procVars
  BY <1>11 DEF Process!procVars
<1> QED
  BY <1>1, <1>2, <1>3, <1>4, <1>5, <1>6, <1>7, <1>8, <1>9, <1>10, <1>11 DEF Process!Next

LEMMA InjectInit == Process!Init => InjectInv
BY DEF Process!Init, InjectInv, Injects, Restarts

LEMMA InjectKept == InjectInv => Process!BufferOutlivesThread
BY DEF InjectInv, Process!BufferOutlivesThread, Injects


-----------------------------------------------------------------------------
(* Services.                                                                 *)

ServiceRecords == [state : {"none", "stopped", "starting", "running"}, actions : 0..1, reboot : BOOLEAN, flag : BOOLEAN]
Ats ==
    {"idle", "set", "change", "restore", "flag", "get", "read", "read_flag", "install", "copy", "create", "start_it",
     "start", "start_now", "poll", "sleep", "last"}
ServiceCalls ==
    [at : Ats, actions : 0..1, reboot : BOOLEAN, flag : BOOLEAN, token : BOOLEAN, ok : BOOLEAN, since : Nat]
Setting == {"set", "change", "restore", "flag"}

\* A call that sets actions is of an installed service, and a reboot it sets is
\* one of its actions.
ServiceInv ==
    /\ service \in ServiceRecords /\ image \in BOOLEAN /\ enabled \in BOOLEAN
    /\ service.state = "none" => service = Service!None
    /\ service.reboot => service.actions > 0
    /\ now \in 0..ServiceTime /\ calls \in 0..MaxCalls
    /\ call \in [Callers -> ServiceCalls]
    /\ \A c \in Callers :
        /\ call[c].since <= now
        /\ call[c].at \in Setting => service.state # "none"
        /\ call[c].at \in {"set", "change"} /\ call[c].reboot => call[c].actions > 0
    /\ enabled => HasShutdown
    /\ Service!PrivilegeIsReturned

\* A step of c's: what it makes of c's call and of the service.
LEMMA ServiceMoves ==
    ASSUME ServiceInv, NEW c \in Callers, NEW new \in ServiceCalls, Service!Becomes(c, new),
           service' \in ServiceRecords, service'.reboot => service'.actions > 0,
           service.state # "none" => service'.state # "none", service'.state = "none" => service' = Service!None,
           image' \in BOOLEAN, enabled' \in BOOLEAN, now' \in 0..ServiceTime, now <= now', calls' \in 0..MaxCalls,
           new.since <= now', new.at \in Setting => service'.state # "none",
           new.at \in {"set", "change"} /\ new.reboot => new.actions > 0,
           enabled' => HasShutdown,
           enabled' => \/ new.token /\ new.at \in {"change", "restore"}
                       \/ enabled /\ ~(call[c].token /\ call[c].at \in {"change", "restore"})
    PROVE  ServiceInv'
<1> USE QueryAssumption DEF ServiceInv
<1>0. call' \in [Callers -> ServiceCalls] /\ call'[c] = new /\ \A d \in Callers : d # c => call'[d] = call[d]
  BY DEF Service!Becomes
<1>1. \A d \in Callers : /\ call'[d].since <= now'
                         /\ call'[d].at \in Setting => service'.state # "none"
                         /\ call'[d].at \in {"set", "change"} /\ call'[d].reboot => call'[d].actions > 0
  <2> TAKE d \in Callers
  <2>1. CASE d = c
    BY <1>0, <2>1
  <2>2. CASE d # c
    <3>1. call'[d] = call[d] /\ call[d] \in ServiceCalls /\ call[d].since <= now
      BY <1>0, <2>2
    <3>2. call[d].since <= now'
      BY <3>1 DEF ServiceCalls
    <3> QED
      BY <3>1, <3>2
  <2> QED
    BY <2>1, <2>2
<1>2. Service!PrivilegeIsReturned'
  BY <1>0 DEF Service!PrivilegeIsReturned
<1> QED
  BY <1>0, <1>1, <1>2

\* A step of c's that does not set actions.
Onward(c) ==
    \E new \in ServiceCalls :
        Service!Becomes(c, new) /\ new.at \notin Setting /\ new.since \in {call[c].since, now}

LEMMA ServiceGoesOn ==
    ASSUME ServiceInv, NEW c \in Callers, Onward(c), call[c].at \notin {"change", "restore"},
           image' \in BOOLEAN, enabled' = enabled, now' \in 0..ServiceTime, now <= now', calls' = calls,
           service' \in ServiceRecords, service'.reboot => service'.actions > 0,
           service.state # "none" => service'.state # "none", service'.state = "none" => service' = Service!None
    PROVE  ServiceInv'
<1>1. PICK new \in ServiceCalls :
        Service!Becomes(c, new) /\ new.at \notin Setting /\ new.since \in {call[c].since, now}
  BY DEF Onward
<1>2. call[c].since <= now /\ call[c] \in ServiceCalls /\ now \in Nat /\ now' \in Nat
  BY QueryAssumption DEF ServiceInv
<1>3. call[c].since \in Nat
  BY <1>2 DEF ServiceCalls
<1>4. new.since <= now'
  BY <1>1, <1>2, <1>3
<1>5. new.at \notin {"set", "change"}
  BY <1>1 DEF Setting
<1>6. enabled' \in BOOLEAN /\ (enabled' => HasShutdown) /\ calls' \in 0..MaxCalls
  BY DEF ServiceInv
<1> QED
  BY <1>1, <1>4, <1>5, <1>6, ServiceMoves

LEMMA GoesOnward ==
    ASSUME NEW c \in Callers, call[c] \in ServiceCalls, NEW next \in Ats \ Setting, Service!Goes(c, next)
    PROVE  Onward(c)
<1> DEFINE new == [call[c] EXCEPT !.at = next]
<1>1. new \in ServiceCalls /\ new.at = next /\ new.since = call[c].since
  BY DEF ServiceCalls
<1>2. Service!Becomes(c, new)
  BY DEF Service!Goes
<1> QED
  BY <1>1, <1>2 DEF Onward

LEMMA ReturnsOnward ==
    ASSUME NEW c \in Callers, call[c] \in ServiceCalls, NEW ok \in BOOLEAN, Service!Returns(c, ok)
    PROVE  Onward(c)
<1> DEFINE new == [call[c] EXCEPT !.at = "idle", !.ok = ok]
<1>0. "idle" \in Ats \ Setting
  BY DEF Ats, Setting
<1>1. new \in ServiceCalls /\ new.at = "idle" /\ new.since = call[c].since
  BY <1>0 DEF ServiceCalls
<1>2. Service!Becomes(c, new)
  BY DEF Service!Returns
<1> QED
  BY <1>0, <1>1, <1>2 DEF Onward

LEMMA GetsOnward ==
    ASSUME NEW c \in Callers, call[c] \in ServiceCalls,
           service.actions \in 0..1, service.reboot \in BOOLEAN, service.flag \in BOOLEAN,
           Service!Probe(c) \/ Service!ReadActions(c) \/ Service!ReadFlag(c)
    PROVE  Onward(c)
<1> DEFINE sized == [call[c] EXCEPT !.at = "read", !.actions = service.actions]
           got == [call[c] EXCEPT !.at = "read_flag", !.actions = service.actions, !.reboot = service.reboot]
           flagged == [call[c] EXCEPT !.at = "idle", !.ok = TRUE, !.flag = service.flag]
<1>1. {"read", "read_flag", "idle"} \subseteq Ats \ Setting
  BY DEF Ats, Setting
<1>2. "read" \in Ats /\ "read_flag" \in Ats /\ "idle" \in Ats
  BY DEF Ats
<1>3. sized \in ServiceCalls /\ sized.at = "read" /\ sized.since = call[c].since
  BY <1>2, Zenon DEF ServiceCalls
<1>4. got \in ServiceCalls /\ got.at = "read_flag" /\ got.since = call[c].since
  BY <1>2, Zenon DEF ServiceCalls
<1>5. flagged \in ServiceCalls /\ flagged.at = "idle" /\ flagged.since = call[c].since
  BY <1>2, Zenon DEF ServiceCalls
<1>6. Service!Returns(c, FALSE) \/ Service!Becomes(c, sized) \/ Service!Becomes(c, got) \/ Service!Becomes(c, flagged)
  BY Zenon DEF Service!Probe, Service!ReadActions, Service!ReadFlag
<1> HIDE DEF sized, got, flagged
<1>7. CASE Service!Returns(c, FALSE)
  BY <1>7, ReturnsOnward
<1>8. CASE Service!Becomes(c, sized)
  BY <1>1, <1>3, <1>8, Zenon DEF Onward
<1>9. CASE Service!Becomes(c, got)
  BY <1>1, <1>4, <1>9, Zenon DEF Onward
<1>10. CASE Service!Becomes(c, flagged)
  BY <1>1, <1>5, <1>10, Zenon DEF Onward
<1> QED
  BY <1>6, <1>7, <1>8, <1>9, <1>10, Zenon

LEMMA StartsOnward ==
    ASSUME NEW c \in Callers, call[c] \in ServiceCalls, now \in Nat,
           Service!Status(c) \/ Service!StartNow(c) \/ Service!Poll(c) \/ Service!LastStatus(c) \/ Service!Wake(c)
    PROVE  Onward(c)
<1> DEFINE polls == [call[c] EXCEPT !.at = "poll", !.since = now]
<1>1. {"start_now", "poll", "sleep", "last"} \subseteq Ats \ Setting
  BY DEF Ats, Setting
<1>2. polls \in ServiceCalls /\ polls.at = "poll" /\ polls.since = now
  BY <1>1, Zenon DEF ServiceCalls
<1>3. \/ \E ok \in BOOLEAN : Service!Returns(c, ok)
      \/ \E next \in {"start_now", "poll", "sleep", "last"} : Service!Goes(c, next)
      \/ Service!Becomes(c, polls)
  BY DEF Service!Status, Service!StartNow, Service!Poll, Service!LastStatus, Service!Wake
<1> HIDE DEF polls
<1>4. CASE Service!Becomes(c, polls)
  BY <1>1, <1>2, <1>4, Zenon DEF Onward
<1>5. CASE \E ok \in BOOLEAN : Service!Returns(c, ok)
  BY <1>5, ReturnsOnward
<1>6. CASE \E next \in {"start_now", "poll", "sleep", "last"} : Service!Goes(c, next)
  BY <1>1, <1>6, GoesOnward
<1> QED
  BY <1>3, <1>4, <1>5, <1>6, Zenon

LEMMA OpensTo ==
    ASSUME NEW c \in Callers, call[c] \in ServiceCalls, Service!Open(c)
    PROVE  \E new \in ServiceCalls :
              /\ Service!Becomes(c, new) /\ new.at = "change" /\ new.since = call[c].since
              /\ new.actions = call[c].actions /\ new.reboot = call[c].reboot
              /\ enabled' = (IF new.token /\ HasShutdown THEN TRUE ELSE enabled)
<1>1. PICK token \in BOOLEAN :
        /\ IF token THEN Service!EnablePrivilege(TRUE) ELSE UNCHANGED enabled
        /\ Service!Becomes(c, [call[c] EXCEPT !.at = "change", !.token = token])
  BY Zenon DEF Service!Open
<1> DEFINE new == [call[c] EXCEPT !.at = "change", !.token = token]
<1>2. "change" \in Ats
  BY DEF Ats
<1>3. /\ new \in ServiceCalls /\ new.at = "change" /\ new.since = call[c].since /\ new.token = token
      /\ new.actions = call[c].actions /\ new.reboot = call[c].reboot
  BY <1>2, Zenon DEF ServiceCalls
<1>4. enabled' = IF token /\ HasShutdown THEN TRUE ELSE enabled
  BY <1>1, Zenon DEF Service!EnablePrivilege
<1> HIDE DEF new
<1>5. Service!Becomes(c, new)
  BY <1>1, Zenon DEF new
<1> QED
  BY <1>3, <1>4, <1>5, Zenon

LEMMA ChangesTo ==
    ASSUME NEW c \in Callers, call[c] \in ServiceCalls, Service!Change(c)
    PROVE  \E new \in ServiceCalls :
              Service!Becomes(c, new) /\ new.at = "restore" /\ new.since = call[c].since /\ new.token = call[c].token
<1>1. PICK ok \in BOOLEAN : Service!Becomes(c, [call[c] EXCEPT !.at = "restore", !.ok = ok])
  BY Zenon DEF Service!Change
<1> DEFINE new == [call[c] EXCEPT !.at = "restore", !.ok = ok]
<1>2. "restore" \in Ats
  BY DEF Ats
<1>3. new \in ServiceCalls /\ new.at = "restore" /\ new.since = call[c].since /\ new.token = call[c].token
  BY <1>2, Zenon DEF ServiceCalls
<1> QED
  BY <1>1, <1>3, Zenon

LEMMA ChangeIsSet ==
    ASSUME NEW c \in Callers, service \in ServiceRecords, call[c].actions \in 0..1, call[c].reboot \in BOOLEAN, Service!Change(c)
    PROVE  \/ service' = service
           \/ /\ service' \in ServiceRecords /\ service'.state = service.state
              /\ service'.reboot = call[c].reboot /\ service'.actions = call[c].actions
<1> DEFINE set == [service EXCEPT !.actions = call[c].actions, !.reboot = call[c].reboot]
<1>1. set \in ServiceRecords /\ set.state = service.state /\ set.reboot = call[c].reboot /\ set.actions = call[c].actions
  BY Zenon DEF ServiceRecords
<1>2. service' = set \/ service' = service
  BY Zenon DEF Service!Change
<1> QED
  BY <1>1, <1>2, Zenon

LEMMA RestoresTo ==
    ASSUME NEW c \in Callers, call[c] \in ServiceCalls, Service!Restore(c)
    PROVE  \E new \in ServiceCalls : Service!Becomes(c, new) /\ new.at \in {"flag", "idle"} /\ new.since = call[c].since
<1> DEFINE goes == [call[c] EXCEPT !.at = "flag"]
           returns == [call[c] EXCEPT !.at = "idle", !.ok = FALSE]
<1>1. "flag" \in Ats /\ "idle" \in Ats
  BY DEF Ats
<1>2. goes \in ServiceCalls /\ goes.at = "flag" /\ goes.since = call[c].since
  BY <1>1, Zenon DEF ServiceCalls
<1>3. returns \in ServiceCalls /\ returns.at = "idle" /\ returns.since = call[c].since
  BY <1>1, Zenon DEF ServiceCalls
<1>4. Service!Becomes(c, goes) \/ Service!Becomes(c, returns)
  BY Zenon DEF Service!Restore, Service!Goes, Service!Returns
<1> HIDE DEF goes, returns
<1> QED
  BY <1>2, <1>3, <1>4, Zenon

LEMMA Installed ==
    Service!Stopped \in ServiceRecords /\ Service!Stopped.state = "stopped" /\ Service!Stopped.reboot = FALSE
  BY DEF Service!Stopped, ServiceRecords

LEMMA Starting ==
    ASSUME service \in ServiceRecords, NEW state \in {"stopped", "starting", "running"}, service' = [service EXCEPT !.state = state]
    PROVE  /\ service' \in ServiceRecords /\ service'.state = state
           /\ service'.reboot = service.reboot /\ service'.actions = service.actions
  BY DEF ServiceRecords

LEMMA Flagged ==
    ASSUME service \in ServiceRecords, NEW flag \in BOOLEAN, service' = [service EXCEPT !.flag = flag]
    PROVE  /\ service' \in ServiceRecords /\ service'.state = service.state
           /\ service'.reboot = service.reboot /\ service'.actions = service.actions
  BY DEF ServiceRecords

\* What the steps of a call know.
LEMMA ServiceKnown ==
    ASSUME ServiceInv, NEW c \in Callers
    PROVE  /\ now \in Nat /\ ServiceTime \in Nat /\ now \in 0..ServiceTime /\ calls \in 0..MaxCalls /\ call[c].since <= now
           /\ image \in BOOLEAN /\ enabled \in BOOLEAN /\ (enabled => HasShutdown)
           /\ service \in ServiceRecords /\ (service.reboot => service.actions > 0)
           /\ service.actions \in 0..1 /\ service.reboot \in BOOLEAN /\ service.flag \in BOOLEAN
           /\ service.state = "none" => service = Service!None
           /\ call[c].at \in Setting => service.state # "none"
           /\ call[c].at \in {"set", "change"} /\ call[c].reboot => call[c].actions > 0
           /\ call[c] \in ServiceCalls /\ call[c].since \in Nat /\ call[c].actions \in 0..1
           /\ call[c].reboot \in BOOLEAN /\ call[c].flag \in BOOLEAN
<1>1. call[c] \in ServiceCalls /\ service \in ServiceRecords
  BY DEF ServiceInv
<1>2. call[c].since \in Nat /\ call[c].actions \in 0..1 /\ call[c].reboot \in BOOLEAN /\ call[c].flag \in BOOLEAN
  BY <1>1 DEF ServiceCalls
<1>3. service.actions \in 0..1 /\ service.reboot \in BOOLEAN /\ service.flag \in BOOLEAN
  BY <1>1 DEF ServiceRecords
<1> QED
  BY <1>1, <1>2, <1>3, QueryAssumption DEF ServiceInv

\* A step that leaves the service as it is keeps what is known of it.
LEMMA ServiceStays ==
    ASSUME ServiceInv, service' = service, image' = image, now' = now, calls' = calls
    PROVE  /\ service' \in ServiceRecords /\ (service'.reboot => service'.actions > 0)
           /\ service.state # "none" => service'.state # "none"
           /\ service'.state = "none" => service' = Service!None
           /\ image' \in BOOLEAN /\ now' \in 0..ServiceTime /\ now <= now' /\ calls' \in 0..MaxCalls
<1>1. now \in Nat
  BY QueryAssumption DEF ServiceInv
<1> QED
  BY <1>1 DEF ServiceInv

LEMMA ServiceBegins ==
    ASSUME ServiceInv, NEW c \in Callers, NEW operation \in {"set", "get", "install", "start"}, Service!Begin(c, operation)
    PROVE  ServiceInv'
<1>1. PICK n \in 0..1, reboot \in BOOLEAN, flag \in BOOLEAN :
        Service!Becomes(c, Service!Called(operation, n, reboot /\ n > 0, flag))
  BY DEF Service!Begin
<1>2. /\ call[c].at = "idle" /\ calls < MaxCalls /\ calls' = calls + 1
      /\ operation \in {"set", "get"} => service.state # "none"
      /\ UNCHANGED <<service, image, enabled, now>>
  BY DEF Service!Begin
<1>r. PICK sets \in BOOLEAN : sets = (reboot /\ n > 0)
  OBVIOUS
<1> DEFINE new == [at |-> operation, actions |-> n, reboot |-> sets, flag |-> flag, token |-> FALSE,
                   ok |-> FALSE, since |-> 0]
<1>3. Service!Becomes(c, new)
  BY <1>1, <1>r DEF Service!Called
<1>4. new \in ServiceCalls /\ new.at = operation /\ new.since = 0 /\ (new.reboot => new.actions > 0)
  <2>1. sets => n > 0
    BY <1>r
  <2>2. new \in ServiceCalls
    BY DEF ServiceCalls, Ats
  <2> QED
    BY <2>1, <2>2
<1> HIDE DEF new
<1>5. now' \in 0..ServiceTime /\ now <= now' /\ new.since <= now' /\ calls' \in 0..MaxCalls
  BY <1>2, <1>4, ServiceKnown, QueryAssumption
<1>6. new.at \in Setting => service.state # "none"
  BY <1>2, <1>4 DEF Setting
<1> QED
  BY <1>2, <1>3, <1>4, <1>5, <1>6, ServiceKnown, ServiceMoves

LEMMA ServiceSets ==
    ASSUME ServiceInv, NEW c \in Callers, Service!Open(c) \/ Service!Change(c) \/ Service!Restore(c) \/ Service!Flag(c)
    PROVE  ServiceInv'
<1>a. {"change", "restore", "flag"} \subseteq Setting /\ "set" \in Setting
  BY DEF Setting
<1>c. call[c] \in ServiceCalls
  BY ServiceKnown
<1>1. CASE Service!Open(c)
  <2>1. PICK new \in ServiceCalls :
          /\ Service!Becomes(c, new) /\ new.at = "change" /\ new.since = call[c].since
          /\ new.actions = call[c].actions /\ new.reboot = call[c].reboot
          /\ enabled' = (IF new.token /\ HasShutdown THEN TRUE ELSE enabled)
    BY <1>1, <1>c, OpensTo, Zenon
  <2>2. call[c].at = "set" /\ UNCHANGED <<service, image, now, calls>>
    BY <1>1 DEF Service!Open
  <2>3. new.token \in BOOLEAN
    BY DEF ServiceCalls
  <2>4. enabled' \in BOOLEAN /\ (enabled' => HasShutdown) /\ (enabled' => new.token \/ enabled)
    BY <2>1, <2>3, ServiceKnown, QueryAssumption
  <2>5. new.since <= now' /\ (new.at \in Setting => service'.state # "none")
    BY <1>a, <2>1, <2>2, ServiceKnown
  <2>6. new.at \in {"set", "change"} /\ new.reboot => new.actions > 0
    BY <2>1, <2>2, ServiceKnown
  <2>7. enabled' => \/ new.token /\ new.at \in {"change", "restore"}
                    \/ enabled /\ ~(call[c].token /\ call[c].at \in {"change", "restore"})
    BY <2>1, <2>2, <2>4
  <2> QED
    BY <2>1, <2>2, <2>4, <2>5, <2>6, <2>7, ServiceStays, ServiceMoves
<1>2. CASE Service!Change(c)
  <2>1. PICK new \in ServiceCalls :
          Service!Becomes(c, new) /\ new.at = "restore" /\ new.since = call[c].since /\ new.token = call[c].token
    BY <1>2, <1>c, ChangesTo, Zenon
  <2>2. call[c].at = "change" /\ UNCHANGED <<image, enabled, now, calls>>
    BY <1>2 DEF Service!Change
  <2>3. service' \in ServiceRecords /\ service'.state = service.state /\ (service'.reboot => service'.actions > 0)
    BY <1>2, <2>2, ServiceKnown, ChangeIsSet
  <2>4. service.state # "none"
    BY <1>a, <2>2, ServiceKnown
  <2>5. /\ image' \in BOOLEAN /\ now' \in 0..ServiceTime /\ now <= now' /\ calls' \in 0..MaxCalls
        /\ enabled' \in BOOLEAN /\ (enabled' => HasShutdown) /\ new.since <= now'
    BY <2>1, <2>2, ServiceKnown
  <2>6. enabled' => \/ new.token /\ new.at \in {"change", "restore"}
                    \/ enabled /\ ~(call[c].token /\ call[c].at \in {"change", "restore"})
    BY <2>1, <2>2
  <2>7. new.at \notin {"set", "change"}
    BY <2>1
  <2> QED
    BY <2>1, <2>3, <2>4, <2>5, <2>6, <2>7, ServiceMoves
<1>3. CASE Service!Restore(c)
  <2>1. PICK new \in ServiceCalls : Service!Becomes(c, new) /\ new.at \in {"flag", "idle"} /\ new.since = call[c].since
    BY <1>3, <1>c, RestoresTo, Zenon
  <2>2. call[c].at = "restore" /\ UNCHANGED <<service, image, now, calls>>
    BY <1>3 DEF Service!Restore
  <2>3. enabled' = IF call[c].token /\ HasShutdown THEN FALSE ELSE enabled
    BY <1>3, QueryAssumption DEF Service!Restore, Service!RestoreIf, Service!EnablePrivilege
  <2>4. enabled' \in BOOLEAN /\ (enabled' => enabled /\ HasShutdown /\ ~call[c].token)
    BY <2>3, ServiceKnown
  <2>5. new.since <= now' /\ (new.at \in Setting => service'.state # "none")
    BY <1>a, <2>1, <2>2, ServiceKnown
  <2>6. new.at \notin {"set", "change"}
    BY <2>1
  <2>7. enabled' => \/ new.token /\ new.at \in {"change", "restore"}
                    \/ enabled /\ ~(call[c].token /\ call[c].at \in {"change", "restore"})
    BY <2>4
  <2> QED
    BY <2>1, <2>2, <2>4, <2>5, <2>6, <2>7, ServiceStays, ServiceMoves
<1>4. CASE Service!Flag(c)
  <2>1. PICK ok \in BOOLEAN :
          /\ service' = IF ok THEN [service EXCEPT !.flag = call[c].flag] ELSE service
          /\ Service!Returns(c, ok)
    BY <1>4 DEF Service!Flag
  <2>2. call[c].at = "flag" /\ UNCHANGED <<image, enabled, now, calls>>
    BY <1>4 DEF Service!Flag
  <2>3. Onward(c)
    BY <1>c, <2>1, ReturnsOnward
  <2>4. service' \in ServiceRecords /\ service'.state = service.state /\ (service'.reboot => service'.actions > 0)
    BY <2>1, ServiceKnown, Flagged
  <2>5. service.state # "none"
    BY <1>a, <2>2, ServiceKnown
  <2>6. image' \in BOOLEAN /\ now' \in 0..ServiceTime /\ now <= now'
    BY <2>2, ServiceKnown
  <2> QED
    BY <2>2, <2>3, <2>4, <2>5, <2>6, ServiceGoesOn
<1> QED
  BY <1>1, <1>2, <1>3, <1>4

LEMMA ServiceGets ==
    ASSUME ServiceInv, NEW c \in Callers, Service!Probe(c) \/ Service!ReadActions(c) \/ Service!ReadFlag(c)
    PROVE  ServiceInv'
<1>1. UNCHANGED <<service, image, enabled, now, calls>> /\ call[c].at \in {"get", "read", "read_flag"}
  BY DEF Service!Probe, Service!ReadActions, Service!ReadFlag
<1>2. Onward(c)
  BY ServiceKnown, GetsOnward
<1> QED
  BY <1>1, <1>2, ServiceStays, ServiceGoesOn

LEMMA ServiceInstalls ==
    ASSUME ServiceInv, NEW c \in Callers, Service!Find(c) \/ Service!Copy(c) \/ Service!Create(c) \/ Service!StartIt(c)
    PROVE  ServiceInv'
<1>1. UNCHANGED <<enabled, now, calls>> /\ call[c].at \in {"install", "copy", "create", "start_it"}
  BY DEF Service!Find, Service!Copy, Service!Create, Service!StartIt
<1>2. (\E ok \in BOOLEAN : Service!Returns(c, ok)) \/ (\E next \in {"copy", "create", "start_it"} : Service!Goes(c, next))
  BY DEF Service!Find, Service!Copy, Service!Create, Service!StartIt
<1>3. {"copy", "create", "start_it"} \subseteq Ats \ Setting
  BY DEF Ats, Setting
<1>4. Onward(c)
  BY <1>2, <1>3, ServiceKnown, ReturnsOnward, GoesOnward
<1>5. image' \in BOOLEAN
  BY ServiceKnown DEF Service!Find, Service!Copy, Service!Create, Service!StartIt
<1>6. \/ service' = service
      \/ service.state = "none" /\ service' = Service!Stopped
      \/ service.state = "stopped" /\ service' = [service EXCEPT !.state = "starting"]
  BY DEF Service!Find, Service!Copy, Service!Create, Service!StartIt, Service!Started
<1>7. /\ service' \in ServiceRecords /\ (service'.reboot => service'.actions > 0)
      /\ service.state # "none" => service'.state # "none"
      /\ service'.state = "none" => service' = Service!None
  <2>1. CASE service' = service
    BY <2>1, ServiceKnown
  <2>2. CASE service.state = "none" /\ service' = Service!Stopped
    BY <2>2, Installed
  <2>3. CASE service.state = "stopped" /\ service' = [service EXCEPT !.state = "starting"]
    BY <2>3, ServiceKnown, Starting
  <2> QED
    BY <1>6, <2>1, <2>2, <2>3
<1>8. now' \in 0..ServiceTime /\ now <= now' /\ enabled' = enabled /\ calls' = calls
  <2>1. now' = now /\ enabled' = enabled /\ calls' = calls
    BY <1>1
  <2> QED
    BY <2>1, ServiceKnown
<1>9. call[c].at \notin {"change", "restore"}
  BY <1>1
<1> QED
  BY <1>4, <1>5, <1>7, <1>8, <1>9, ServiceGoesOn

LEMMA ServiceStarts ==
    ASSUME ServiceInv, NEW c \in Callers,
           Service!Status(c) \/ Service!StartNow(c) \/ Service!Poll(c) \/ Service!LastStatus(c) \/ Service!Wake(c)
    PROVE  ServiceInv'
<1>1. UNCHANGED <<image, enabled, calls>> /\ call[c].at \in {"start", "start_now", "poll", "last", "sleep"}
  BY DEF Service!Status, Service!StartNow, Service!Poll, Service!LastStatus, Service!Wake
<1>2. Onward(c)
  BY ServiceKnown, StartsOnward
<1>3. now' = now \/ (now < ServiceTime /\ now' = now + 1)
  BY DEF Service!Status, Service!StartNow, Service!Poll, Service!LastStatus, Service!Wake
<1>4. now' \in 0..ServiceTime /\ now <= now'
  BY <1>3, ServiceKnown
<1>5. service' = service \/ (service.state = "stopped" /\ service' = [service EXCEPT !.state = "starting"])
  BY DEF Service!Status, Service!StartNow, Service!Poll, Service!LastStatus, Service!Wake, Service!Started
<1>6. /\ service' \in ServiceRecords /\ (service'.reboot => service'.actions > 0)
      /\ service.state # "none" => service'.state # "none"
      /\ service'.state = "none" => service' = Service!None
  <2>1. CASE service' = service
    BY <2>1, ServiceKnown
  <2>2. CASE service.state = "stopped" /\ service' = [service EXCEPT !.state = "starting"]
    BY <2>2, ServiceKnown, Starting
  <2> QED
    BY <1>5, <2>1, <2>2
<1>7. image' \in BOOLEAN /\ enabled' = enabled /\ calls' = calls
  BY <1>1, ServiceKnown
<1>8. call[c].at \notin {"change", "restore"}
  BY <1>1
<1> QED
  BY <1>2, <1>4, <1>6, <1>7, <1>8, ServiceGoesOn

LEMMA ServiceComesUp == ASSUME ServiceInv, Service!ComesUp PROVE ServiceInv'
<1>1. /\ UNCHANGED <<image, enabled, now, call, calls>>
      /\ \E s \in {"running", "stopped"} : service' = [service EXCEPT !.state = s]
  BY DEF Service!ComesUp
<1>2. service \in ServiceRecords /\ (service.reboot => service.actions > 0)
  BY DEF ServiceInv
<1>3. service' \in ServiceRecords /\ service'.state # "none" /\ (service'.reboot => service'.actions > 0)
  BY <1>1, <1>2 DEF ServiceRecords
<1> QED
  BY <1>1, <1>3 DEF ServiceInv, Service!PrivilegeIsReturned

LEMMA ServiceStep == ServiceInv /\ [Service!Next]_Service!servicesVars => ServiceInv'
<1> SUFFICES ASSUME ServiceInv, [Service!Next]_Service!servicesVars PROVE ServiceInv'
  OBVIOUS
<1>1. ASSUME NEW c \in Callers, Service!Step(c) PROVE ServiceInv'
  BY <1>1, ServiceSets, ServiceGets, ServiceInstalls, ServiceStarts DEF Service!Step
<1>2. ASSUME NEW c \in Callers, NEW operation \in {"set", "get", "install", "start"}, Service!Begin(c, operation) PROVE ServiceInv'
  BY <1>2, ServiceBegins
<1>3. CASE UNCHANGED Service!servicesVars
  BY <1>3 DEF Service!servicesVars, ServiceInv, Service!PrivilegeIsReturned
<1> QED
  BY <1>1, <1>2, <1>3, ServiceComesUp DEF Service!Next

LEMMA ServiceInit == Service!Init => ServiceInv
<1> SUFFICES ASSUME Service!Init PROVE ServiceInv
  OBVIOUS
<1>1. /\ service.state \in {"none", "stopped"} /\ service \in ServiceRecords /\ service.reboot = FALSE
      /\ service.state = "none" => service = Service!None
  <2>1. service = Service!None \/ service = Service!Stopped
    BY DEF Service!Init
  <2>2. CASE service = Service!None
    BY <2>2 DEF Service!None, ServiceRecords
  <2>3. CASE service = Service!Stopped
    BY <2>3, Installed
  <2> QED
    BY <2>1, <2>2, <2>3
<1>2. Service!Idle \in ServiceCalls /\ Service!Idle.at = "idle" /\ Service!Idle.since = 0
  BY DEF Service!Idle, Service!Called, ServiceCalls, Ats
<1>3. /\ call \in [Callers -> ServiceCalls]
      /\ \A c \in Callers : call[c].at = "idle" /\ call[c].since = 0
  BY <1>2 DEF Service!Init
<1>4. /\ image \in BOOLEAN /\ enabled = FALSE /\ now = 0 /\ calls = 0 /\ ServiceTime \in Nat /\ MaxCalls \in Nat
  BY QueryAssumption DEF Service!Init
<1>5. \A c \in Callers : call[c].since <= now /\ call[c].at \notin Setting /\ call[c].at \notin {"set", "change"}
  BY <1>3, <1>4 DEF Setting
<1>6. now \in 0..ServiceTime /\ calls \in 0..MaxCalls
  BY <1>4
<1>7. enabled \in BOOLEAN /\ (enabled => HasShutdown) /\ Service!PrivilegeIsReturned
  BY <1>4 DEF Service!PrivilegeIsReturned
<1> QED
  BY <1>1, <1>3, <1>4, <1>5, <1>6, <1>7 DEF ServiceInv

LEMMA ServiceKept == ServiceInv => Service!TypeOK /\ Service!PrivilegeIsReturned
<1> SUFFICES ASSUME ServiceInv PROVE Service!TypeOK /\ Service!PrivilegeIsReturned
  OBVIOUS
<1>1. /\ service.state \in {"none", "stopped", "starting", "running"} /\ service.actions \in 0..1
      /\ service.reboot \in BOOLEAN /\ service.flag \in BOOLEAN
  BY DEF ServiceInv, ServiceRecords
<1> QED
  BY <1>1 DEF ServiceInv, Service!TypeOK


-----------------------------------------------------------------------------
(* Autoruns.                                                                 *)

States == {"none", "enabled", "disabled"} \cup Startup!Policies

\* What is wanted of a place is in the list that its state is read from.
AutorunInv ==
    /\ stored \in [Places -> UNION {Startup!Values(p) : p \in Places}] /\ \A p \in Places : stored[p] \in Startup!Values(p)
    /\ states \in [Startup!Lists -> States]
    /\ wanted \in [Places -> {"any", "yes", "no"}]
    /\ \A e \in entries : /\ e.place \in Places /\ e.command \in Commands \ {"none"}
                          /\ e.enabled # "always" => e.place.list # "none"
    /\ \A p \in Places : wanted[p] # "any" => p.list # "none" /\ Startup!Enabled(p) = wanted[p]

\* No two places have their state in one list, and one that has it in a list, or
\* is deleted whole, holds one command.
Listed ==
    {Startup!Place("value", "HKLM", "Run", "Run", "none", TRUE), Startup!Place("value", "HKLM", "WOW64_Run", "Run32", "none", TRUE),
     Startup!Place("value", "HKCU", "Run", "Run", "none", TRUE),
     Startup!Place("file", "HKLM", "Startup", "StartupFolder", "none", TRUE),
     Startup!Place("file", "HKCU", "Startup", "StartupFolder", "none", TRUE),
     Startup!Place("package", "HKCU", "SystemAppData", "State", "none", FALSE),
     Startup!Place("task", "HKLM", "Tasks", "Enabled", "none", TRUE)}

LEMMA ListedPlaces ==
    ASSUME NEW p \in Listed
    PROVE  p.list # "none" /\ p.separator = "none"
  BY DEF Listed, Startup!Place

\* A place that has its state in no list holds one command if it is deleted whole.
LEMMA UnlistedPlaces ==
    ASSUME NEW p \in Startup!Everywhere
    PROVE  p \in Listed \/ (p.list = "none" /\ p.store # "task" /\ (p.deletable => p.separator = "none"))
<1> USE DEF Startup!Place, Listed
<1>1. CASE p \in Startup!RunKeys
  BY <1>1 DEF Startup!RunKeys
<1>2. CASE p \in Startup!StartupFolders \cup Startup!PackageTasks \cup Startup!Tasks
  BY <1>2 DEF Startup!StartupFolders, Startup!PackageTasks, Startup!Tasks
<1>3. CASE p \in Startup!ActiveSetup \cup Startup!Winlogon \cup Startup!AppInit
  BY <1>3 DEF Startup!ActiveSetup, Startup!Winlogon, Startup!AppInit
<1>4. CASE p \in Startup!BootExecute \cup Startup!Lsa \cup Startup!Hijacks \cup Startup!Services
  BY <1>4 DEF Startup!BootExecute, Startup!Lsa, Startup!Hijacks, Startup!Services
<1> QED
  BY <1>1, <1>2, <1>3, <1>4 DEF Startup!Everywhere

LEMMA PlacesDiffer ==
    ASSUME NEW p \in Places, NEW q \in Places, p.list # "none", p.hive = q.hive, p.list = q.list
    PROVE  p = q
<1>1. p \in Listed /\ q \in Listed
  BY UnlistedPlaces, PlacesAssumption
<1> USE DEF Startup!Place
<1>r. ASSUME NEW r \in Listed
      PROVE  /\ r.separator = "none"
             /\ \/ r.list = "Run" /\ r.store = "value" /\ r.key = "Run" /\ r.deletable = TRUE
                \/ r.list = "Run32" /\ r.store = "value" /\ r.key = "WOW64_Run" /\ r.deletable = TRUE
                \/ r.list = "StartupFolder" /\ r.store = "file" /\ r.key = "Startup" /\ r.deletable = TRUE
                \/ r.list = "State" /\ r.store = "package" /\ r.key = "SystemAppData" /\ r.deletable = FALSE
                \/ r.list = "Enabled" /\ r.store = "task" /\ r.key = "Tasks" /\ r.deletable = TRUE
  BY DEF Listed
<1>2. p.store = q.store /\ p.key = q.key /\ p.separator = q.separator /\ p.deletable = q.deletable
  BY <1>1, <1>r
<1>3. ASSUME NEW r \in Listed
      PROVE  r = [store |-> r.store, hive |-> r.hive, key |-> r.key, list |-> r.list, separator |-> r.separator,
                  deletable |-> r.deletable]
  BY DEF Listed
<1> QED
  BY <1>1, <1>2, <1>3, Zenon

LEMMA WholePlaces ==
    ASSUME NEW p \in Places, p.list # "none" \/ p.deletable
    PROVE  p.separator = "none"
BY ListedPlaces, UnlistedPlaces, PlacesAssumption

LEMMA TasksAreListed == ASSUME NEW p \in Places, p.store = "task" PROVE p.list # "none"
BY ListedPlaces, UnlistedPlaces, PlacesAssumption

LEMMA PartsRun ==
    ASSUME NEW p \in Places, stored[p] \in Startup!Values(p)
    PROVE  Startup!Parts(p) \subseteq Commands \ {"none"}
<1>1. \A i \in DOMAIN stored[p] : stored[p][i] \in Commands
  <2>1. CASE stored[p] = <<>>
    BY <2>1
  <2>2. CASE \E c \in Commands : stored[p] = <<c>>
    BY <2>2
  <2>3. CASE stored[p] \in Commands \X Commands
    BY <2>3
  <2> QED
    BY <2>1, <2>2, <2>3 DEF Startup!Values
<1> QED
  BY <1>1 DEF Startup!Parts

LEMMA OnePart ==
    ASSUME NEW p \in Places, stored[p] \in Startup!Values(p), p.separator = "none"
    PROVE  \E x : Startup!EntriesAt(p) \subseteq {x}
<1>1. PICK c : Startup!Parts(p) \subseteq {c}
  <2>1. CASE stored[p] = <<>>
    BY <2>1 DEF Startup!Parts
  <2>2. CASE \E c \in Commands : stored[p] = <<c>>
    BY <2>2 DEF Startup!Parts
  <2> QED
    BY <2>1, <2>2 DEF Startup!Values
<1>2. Startup!EntriesAt(p) \subseteq {[place |-> p, command |-> c, enabled |-> Startup!Enabled(p)]}
  BY <1>1 DEF Startup!EntriesAt
<1> QED
  BY <1>2

\* What is at a place follows from what is stored there and from its list.
LEMMA PlaceStays ==
    ASSUME NEW p \in Places, stored'[p] = stored[p],
           p.list # "none" => states'[<<p.hive, p.list>>] = states[<<p.hive, p.list>>]
    PROVE  Startup!EntriesAt(p)' = Startup!EntriesAt(p) /\ Startup!Enabled(p)' = Startup!Enabled(p)
<1>1. Startup!Parts(p)' = Startup!Parts(p)
  BY DEF Startup!Parts
<1>2. Startup!Enabled(p)' = Startup!Enabled(p)
  BY DEF Startup!Enabled
<1> QED
  BY <1>1, <1>2 DEF Startup!EntriesAt

LEMMA AtMostOne == ASSUME NEW S, NEW x, S \subseteq {x} PROVE Startup!Cardinality(S) <= 1
<1>1. S = {} \/ S = {x}
  OBVIOUS
<1>2. Cardinality({}) = 0 /\ Cardinality({x}) = 1
  BY FS_EmptySet, FS_Singleton
<1>3. Startup!Cardinality(S) = Cardinality(S)
  BY DEF Startup!Cardinality, Cardinality
<1> QED
  BY <1>1, <1>2, <1>3

LEMMA OnePlaceChanges ==
    ASSUME NEW p \in Places, stored[p] \in Startup!Values(p), p.separator = "none",
           \A q \in Places : q # p => Startup!EntriesAt(q)' = Startup!EntriesAt(q)
    PROVE  Startup!OneAtATime
<1>1. PICK x : Startup!EntriesAt(p) \subseteq {x}
  BY OnePart
<1>2. Startup!Autoruns \ Startup!Autoruns' \subseteq {x}
  BY <1>1 DEF Startup!Autoruns
<1> QED
  BY <1>2, AtMostOne DEF Startup!OneAtATime

LEMMA AutorunSets ==
    ASSUME AutorunInv, NEW e \in entries, NEW enable \in BOOLEAN, Startup!SetEnabled(e, enable)
    PROVE  AutorunInv' /\ Startup!OneAtATime
<1> DEFINE p == e.place
           l == <<p.hive, p.list>>
           state == IF enable THEN "enabled" ELSE "disabled"
           says == IF enable THEN "yes" ELSE "no"
<1>1. p \in Places /\ p.list # "none" /\ stored[p] \in Startup!Values(p) /\ p.separator = "none"
  BY WholePlaces DEF AutorunInv, Startup!SetEnabled
<1>2. l \in Startup!Lists /\ state \in States
  BY <1>1 DEF Startup!Lists, States
<1>3. states' = [states EXCEPT ![l] = state] /\ wanted' = [wanted EXCEPT ![p] = says] /\ UNCHANGED <<stored, entries>>
  BY DEF Startup!SetEnabled, Startup!ApprovedName
<1>4. \A q \in Places : q # p => Startup!EntriesAt(q)' = Startup!EntriesAt(q) /\ Startup!Enabled(q)' = Startup!Enabled(q)
  <2> SUFFICES ASSUME NEW q \in Places, q # p
               PROVE  Startup!EntriesAt(q)' = Startup!EntriesAt(q) /\ Startup!Enabled(q)' = Startup!Enabled(q)
    OBVIOUS
  <2>1. ASSUME q.list # "none" PROVE states'[<<q.hive, q.list>>] = states[<<q.hive, q.list>>]
    <3>1. <<q.hive, q.list>> # l /\ <<q.hive, q.list>> \in Startup!Lists
      BY <1>1, <2>1, PlacesDiffer DEF Startup!Lists
    <3> QED
      BY <1>3, <3>1 DEF AutorunInv
  <2> QED
    BY <1>3, <2>1, PlaceStays
<1>5. states' \in [Startup!Lists -> States] /\ states'[l] = state
  BY <1>2, <1>3 DEF AutorunInv
<1>6. Startup!Enabled(p)' = says
  BY <1>1, <1>5 DEF Startup!Enabled, Startup!Says
<1>7. wanted' \in [Places -> {"any", "yes", "no"}] /\ wanted'[p] = says /\ \A q \in Places : q # p => wanted'[q] = wanted[q]
  BY <1>1, <1>3 DEF AutorunInv
<1>8. Startup!OneAtATime
  BY <1>1, <1>4, OnePlaceChanges
<1>9. \A q \in Places : wanted'[q] # "any" => q.list # "none" /\ Startup!Enabled(q)' = wanted'[q]
  BY <1>1, <1>4, <1>6, <1>7 DEF AutorunInv
<1> HIDE DEF p, l, state, says
<1> QED
  BY <1>3, <1>5, <1>7, <1>8, <1>9 DEF AutorunInv

LEMMA AutorunDeletes ==
    ASSUME AutorunInv, NEW e \in entries, Startup!Delete(e)
    PROVE  AutorunInv' /\ Startup!OneAtATime
<1> DEFINE p == e.place
           l == <<p.hive, p.list>>
<1>1. p \in Places /\ p.deletable /\ stored[p] \in Startup!Values(p) /\ p.separator = "none"
  BY WholePlaces DEF AutorunInv, Startup!Delete, Startup!MayDelete
<1>2. stored' = [stored EXCEPT ![p] = <<>>] /\ wanted' = [wanted EXCEPT ![p] = "any"] /\ UNCHANGED entries
  BY DEF Startup!Delete
<1>3. states' = states \/ (p.list # "none" /\ states' = [states EXCEPT ![l] = "none"])
  <2>1. CASE e.enabled # "always"
    <3>1. p.list # "none"
      BY <2>1 DEF AutorunInv
    <3> QED
      BY <2>1, <3>1 DEF Startup!Delete, Startup!Forgets, Startup!ApprovedName
  <2>2. CASE p.store = "task"
    <3>1. p.list # "none"
      BY <1>1, <2>2, TasksAreListed
    <3> QED
      BY <2>2, <3>1 DEF Startup!Delete
  <2> QED
    BY <2>1, <2>2 DEF Startup!Delete
<1>4. states' \in [Startup!Lists -> States]
  BY <1>3 DEF AutorunInv, States
<1>5. \A q \in Places : q # p => Startup!EntriesAt(q)' = Startup!EntriesAt(q) /\ Startup!Enabled(q)' = Startup!Enabled(q)
  <2> SUFFICES ASSUME NEW q \in Places, q # p
               PROVE  Startup!EntriesAt(q)' = Startup!EntriesAt(q) /\ Startup!Enabled(q)' = Startup!Enabled(q)
    OBVIOUS
  <2>1. ASSUME q.list # "none" PROVE states'[<<q.hive, q.list>>] = states[<<q.hive, q.list>>]
    <3>1. p.list # "none" => <<q.hive, q.list>> # l
      BY <1>1, <2>1, PlacesDiffer
    <3>2. <<q.hive, q.list>> \in Startup!Lists
      BY <2>1 DEF Startup!Lists
    <3> QED
      BY <1>3, <3>1, <3>2 DEF AutorunInv
  <2>2. stored'[q] = stored[q]
    BY <1>2 DEF AutorunInv
  <2> QED
    BY <2>1, <2>2, PlaceStays
<1>6. stored' \in [Places -> UNION {Startup!Values(q) : q \in Places}] /\ \A q \in Places : stored'[q] \in Startup!Values(q)
  <2>1. <<>> \in Startup!Values(p)
    BY DEF Startup!Values
  <2> QED
    BY <1>1, <1>2, <2>1 DEF AutorunInv
<1>7. wanted' \in [Places -> {"any", "yes", "no"}] /\ wanted'[p] = "any" /\ \A q \in Places : q # p => wanted'[q] = wanted[q]
  BY <1>1, <1>2 DEF AutorunInv
<1>8. Startup!OneAtATime
  BY <1>1, <1>5, OnePlaceChanges
<1>9. \A q \in Places : wanted'[q] # "any" => q.list # "none" /\ Startup!Enabled(q)' = wanted'[q]
  BY <1>1, <1>5, <1>7 DEF AutorunInv
<1> HIDE DEF p, l
<1> QED
  BY <1>2, <1>4, <1>6, <1>7, <1>8, <1>9 DEF AutorunInv

LEMMA AutorunEnums == ASSUME AutorunInv, Startup!Enum PROVE AutorunInv' /\ Startup!OneAtATime
<1>1. entries' = Startup!Autoruns /\ UNCHANGED <<stored, states, wanted>>
  BY DEF Startup!Enum
<1>2. ASSUME NEW e \in Startup!Autoruns
      PROVE  e.place \in Places /\ e.command \in Commands \ {"none"} /\ (e.enabled # "always" => e.place.list # "none")
  <2>1. PICK q \in Places : e \in Startup!EntriesAt(q)
    BY DEF Startup!Autoruns
  <2>2. PICK c \in Startup!Parts(q) : e = [place |-> q, command |-> c, enabled |-> Startup!Enabled(q)]
    BY <2>1 DEF Startup!EntriesAt
  <2>3. c \in Commands \ {"none"}
    BY PartsRun DEF AutorunInv
  <2>4. q.list = "none" => Startup!Enabled(q) = "always"
    BY DEF Startup!Enabled
  <2> QED
    BY <2>2, <2>3, <2>4
<1>3. \A q \in Places : Startup!EntriesAt(q)' = Startup!EntriesAt(q) /\ Startup!Enabled(q)' = Startup!Enabled(q)
  BY <1>1, PlaceStays
<1>4. Startup!Autoruns \ Startup!Autoruns' \subseteq {0}
  BY <1>3 DEF Startup!Autoruns
<1>5. Startup!OneAtATime
  BY <1>4, AtMostOne DEF Startup!OneAtATime
<1> QED
  BY <1>1, <1>2, <1>3, <1>5 DEF AutorunInv

\* The others' doing: what they install, and Task Manager's.
LEMMA AutorunChanges ==
    ASSUME AutorunInv, MaxChanges \in Nat, NEW p \in Places,
           \/ \E commands \in Startup!Values(p) : Startup!Install(p, commands)
           \/ \E state \in States : Startup!TaskManager(p, state)
    PROVE  AutorunInv' /\ (changes \in Nat => Startup!OneAtATime)
<1> DEFINE l == <<p.hive, p.list>>
<1>1. CASE \E commands \in Startup!Values(p) : Startup!Install(p, commands)
  <2>1. PICK commands \in Startup!Values(p) : Startup!Install(p, commands)
    BY <1>1
  <2>2. stored' = [stored EXCEPT ![p] = commands] /\ UNCHANGED <<states, entries, wanted>> /\ changes' = changes + 1
    BY <2>1 DEF Startup!Install
  <2>3. stored' \in [Places -> UNION {Startup!Values(q) : q \in Places}] /\ \A q \in Places : stored'[q] \in Startup!Values(q)
    BY <2>2 DEF AutorunInv
  <2>4. \A q \in Places : Startup!Enabled(q)' = Startup!Enabled(q)
    BY <2>2 DEF Startup!Enabled
  <2> QED
    BY <2>2, <2>3, <2>4 DEF AutorunInv, Startup!OneAtATime
<1>2. CASE \E state \in States : Startup!TaskManager(p, state)
  <2>1. PICK state \in States : Startup!TaskManager(p, state)
    BY <1>2
  <2>2. /\ states' = [states EXCEPT ![l] = state] /\ wanted' = [wanted EXCEPT ![p] = "any"]
        /\ UNCHANGED <<stored, entries>> /\ changes' = changes + 1 /\ p.list # "none"
    BY <2>1 DEF Startup!TaskManager
  <2>3. states' \in [Startup!Lists -> States]
    BY <2>2 DEF AutorunInv
  <2>4. \A q \in Places : q # p => Startup!Enabled(q)' = Startup!Enabled(q)
    <3> SUFFICES ASSUME NEW q \in Places, q # p PROVE Startup!Enabled(q)' = Startup!Enabled(q)
      OBVIOUS
    <3>1. ASSUME q.list # "none" PROVE states'[<<q.hive, q.list>>] = states[<<q.hive, q.list>>]
      <4>1. <<q.hive, q.list>> # l /\ <<q.hive, q.list>> \in Startup!Lists
        BY <2>2, <3>1, PlacesDiffer DEF Startup!Lists
      <4> QED
        BY <2>2, <4>1 DEF AutorunInv
    <3> QED
      BY <2>2, <3>1, PlaceStays
  <2>5. wanted' \in [Places -> {"any", "yes", "no"}] /\ wanted'[p] = "any" /\ \A q \in Places : q # p => wanted'[q] = wanted[q]
    BY <2>2 DEF AutorunInv
  <2>6. \A q \in Places : wanted'[q] # "any" => q.list # "none" /\ Startup!Enabled(q)' = wanted'[q]
    BY <2>4, <2>5 DEF AutorunInv
  <2> HIDE DEF l
  <2> QED
    BY <2>2, <2>3, <2>5, <2>6 DEF AutorunInv, Startup!OneAtATime
<1> QED
  BY <1>1, <1>2

LEMMA AutorunStep ==
    AutorunInv /\ changes \in Nat /\ [Startup!Next]_Startup!autorunVars
        => AutorunInv' /\ changes' \in Nat /\ Startup!OneAtATime
<1> SUFFICES ASSUME AutorunInv, changes \in Nat, [Startup!Next]_Startup!autorunVars
             PROVE  AutorunInv' /\ changes' \in Nat /\ Startup!OneAtATime
  OBVIOUS
<1>1. ASSUME NEW e \in entries, NEW enable \in BOOLEAN, Startup!SetEnabled(e, enable)
      PROVE  AutorunInv' /\ Startup!OneAtATime
  BY <1>1, AutorunSets
<1>2. ASSUME NEW e \in entries, Startup!Delete(e) PROVE AutorunInv' /\ Startup!OneAtATime
  BY <1>2, AutorunDeletes
<1>3. ASSUME NEW p \in Places,
             \/ \E commands \in Startup!Values(p) : Startup!Install(p, commands)
             \/ \E state \in States : Startup!TaskManager(p, state)
      PROVE  AutorunInv' /\ Startup!OneAtATime
  BY <1>3, AutorunChanges, QueryAssumption
<1>4. ASSUME UNCHANGED Startup!autorunVars PROVE AutorunInv' /\ Startup!OneAtATime
  <2>1. UNCHANGED <<stored, states, entries, wanted>>
    BY <1>4 DEF Startup!autorunVars
  <2>2. \A q \in Places : Startup!EntriesAt(q)' = Startup!EntriesAt(q) /\ Startup!Enabled(q)' = Startup!Enabled(q)
    BY <2>1, PlaceStays
  <2>3. Startup!Autoruns \ Startup!Autoruns' \subseteq {0}
    BY <2>2 DEF Startup!Autoruns
  <2>4. Startup!OneAtATime
    BY <2>3, AtMostOne DEF Startup!OneAtATime
  <2> QED
    BY <2>1, <2>2, <2>4 DEF AutorunInv
<1>5. changes' \in Nat
  <2>1. changes' = changes \/ changes' = changes + 1
    BY Zenon DEF Startup!Next, Startup!Call, Startup!Enum, Startup!SetEnabled, Startup!Delete, Startup!Install,
                 Startup!TaskManager, Startup!autorunVars
  <2> QED
    BY <2>1
<1>6. AutorunInv' /\ Startup!OneAtATime
  BY <1>1, <1>2, <1>3, <1>4, AutorunEnums DEF Startup!Next, Startup!Call, States
<1> QED
  BY <1>5, <1>6

LEMMA AutorunInit == Startup!Init => AutorunInv /\ changes \in Nat
<1> SUFFICES ASSUME Startup!Init PROVE AutorunInv /\ changes \in Nat
  OBVIOUS
<1>1. \A p \in Places : {<<>>, <<"none">>} \subseteq Startup!Values(p)
  BY PlacesAssumption DEF Startup!Values
<1> QED
  BY <1>1 DEF Startup!Init, AutorunInv, States

LEMMA AutorunKept == AutorunInv => Startup!TypeOK /\ Startup!TogglesHold
BY PlacesAssumption DEF AutorunInv, Startup!TypeOK, Startup!TogglesHold


-----------------------------------------------------------------------------
(* Batteries.                                                                *)

\* A battery's tag and information are one's that was put in; of the battery that
\* is in the slot, the information is its own once it was asked for.
BatteryInv ==
    /\ slot \in Nat /\ put \in Nat /\ tag \in Nat /\ info \in Nat
    /\ slot <= put /\ tag <= put /\ info <= put
    /\ turn \in {"rest", "tag", "information", "status"}
    /\ reading \in {0, tag} /\ (turn # "rest" => reading = 0)
    /\ turn # "information" /\ tag = slot /\ tag # 0 => info = tag
    /\ Battery!ReadingIsOfBattery

LEMMA BatteryStep == BatteryInv /\ [Battery!Next]_Battery!batteryVars => BatteryInv'
<1> SUFFICES ASSUME BatteryInv, [Battery!Next]_Battery!batteryVars PROVE BatteryInv'
  OBVIOUS
<1> USE DEF BatteryInv, Battery!ReadingIsOfBattery, Battery!Answered
<1>1. CASE Battery!Read
  BY <1>1 DEF Battery!Read
<1>2. CASE Battery!RefreshTag
  BY <1>2 DEF Battery!RefreshTag, Battery!SameTag
<1>3. CASE Battery!QueryInformation
  BY <1>3 DEF Battery!QueryInformation
<1>4. CASE Battery!QueryStatus
  BY <1>4 DEF Battery!QueryStatus
<1>5. CASE Battery!Take
  BY <1>5 DEF Battery!Take
<1>6. CASE Battery!Put
  BY <1>6 DEF Battery!Put
<1>7. CASE UNCHANGED Battery!batteryVars
  BY <1>7 DEF Battery!batteryVars
<1> QED
  BY <1>1, <1>2, <1>3, <1>4, <1>5, <1>6, <1>7 DEF Battery!Next

LEMMA BatteryInit == Battery!Init => BatteryInv
BY DEF Battery!Init, BatteryInv, Battery!ReadingIsOfBattery

LEMMA BatteryKept == BatteryInv => Battery!TypeOK /\ Battery!ReadingIsOfBattery
BY DEF BatteryInv, Battery!TypeOK, Battery!ReadingIsOfBattery


-----------------------------------------------------------------------------
(* Jobs, with the addresses of objects (Job) and without (Looked).           *)

JobRecords == [job : Range(Nesting), active : Nat]

\* Each job of the process whose handle was met is found, once, and while no
\* process starts or exits, with the processes it has.
JobsInv ==
    /\ active \in [Range(Nesting) -> Nat] /\ changes \in Nat
    /\ \A i, j \in DOMAIN Nesting : i <= j => active[Nesting[i]] <= active[Nesting[j]]
    /\ \A i \in DOMAIN Nesting : Job!Own(i) \in 0..MaxProcesses
    /\ met \in 0..Len(JobHandles) /\ seen \subseteq Range(Nesting) \cup Others
    /\ jobs \in Seq(JobRecords)
    /\ \A i, j \in DOMAIN jobs : jobs[i].job = jobs[j].job => i = j
    /\ \A i \in DOMAIN jobs : \E h \in 1..met : JobHandles[h].job = jobs[i].job
    /\ changes = 0 => \A i \in DOMAIN jobs : jobs[i].active = active[jobs[i].job]
    /\ \A h \in 1..met : Job!InJob(JobHandles[h].job) /\ JobHandles[h].owner \in Openable => Job!Same(JobHandles[h].job)
    /\ \A job \in seen : Job!InJob(job) => Job!Same(job)

LEMMA NestingIs ==
    /\ Len(Nesting) \in Nat /\ DOMAIN Nesting = 1..Len(Nesting) /\ 1 \in DOMAIN Nesting
    /\ \A job : Job!InJob(job) <=> job \in Range(Nesting)
    /\ \A i \in DOMAIN Nesting : Job!Depth(Nesting[i]) = i
    /\ \A job \in Range(Nesting) : Job!Depth(job) \in DOMAIN Nesting /\ Nesting[Job!Depth(job)] = job
<1>1. Len(Nesting) \in Nat /\ DOMAIN Nesting = 1..Len(Nesting) /\ Len(Nesting) # 0
  BY JobsAssumption
<1>2. \A job : Job!InJob(job) <=> job \in Range(Nesting)
  BY DEF Job!InJob, Range
<1>3. \A job \in Range(Nesting) : Job!Depth(job) \in DOMAIN Nesting /\ Nesting[Job!Depth(job)] = job
  <2> SUFFICES ASSUME NEW job \in Range(Nesting)
               PROVE  Job!Depth(job) \in DOMAIN Nesting /\ Nesting[Job!Depth(job)] = job
    OBVIOUS
  <2>1. \E i \in DOMAIN Nesting : Nesting[i] = job
    BY DEF Range
  <2> QED
    BY <2>1 DEF Job!Depth
<1>4. \A i \in DOMAIN Nesting : Job!Depth(Nesting[i]) = i
  BY <1>3, JobsAssumption DEF Range
<1> QED
  BY <1>1, <1>2, <1>3, <1>4

\* A step over a handle finds its job, or leaves it.
LEMMA MeetIs ==
    ASSUME Job!Meet \/ Looked!Meet, met \in 0..Len(JobHandles), NEW job, job = JobHandles[met + 1].job
    PROVE  /\ met < Len(JobHandles) /\ met' = met + 1 /\ UNCHANGED <<active, changes>>
           /\ seen' = seen \/ seen' = seen \cup {job}
           /\ \/ /\ jobs' = jobs
                 /\ Job!InJob(job) /\ JobHandles[met + 1].owner \in Openable => Job!Same(job) \/ job \in seen
                 /\ seen' # seen => (Job!InJob(job) => Job!Same(job))
              \/ Job!InJob(job) /\ ~Job!Same(job) /\ jobs' = Append(jobs, [job |-> job, active |-> active[job]])
<1>1. CASE Job!Meet
  BY <1>1 DEF Job!Meet, Job!Considered, Job!JobOf, Job!ActiveProcesses
<1>2. CASE Looked!Meet
  <2>1. Looked!InJob(job) = Job!InJob(job) /\ Looked!Same(job) = Job!Same(job)
    BY DEF Looked!InJob, Job!InJob, Looked!Same, Job!Same
  <2> QED
    BY <1>2, <2>1 DEF Looked!Meet, Looked!Considered, Looked!JobOf, Looked!ActiveProcesses
<1> QED
  BY <1>1, <1>2

LEMMA JobsMeet == ASSUME JobsInv, Job!Meet \/ Looked!Meet PROVE JobsInv'
<1> USE DEF JobsInv
<1>0. PICK job : job = JobHandles[met + 1].job
  OBVIOUS
<1>1. /\ met < Len(JobHandles) /\ met' = met + 1 /\ UNCHANGED <<active, changes>>
      /\ seen' = seen \/ seen' = seen \cup {job}
      /\ \/ /\ jobs' = jobs
            /\ Job!InJob(job) /\ JobHandles[met + 1].owner \in Openable => Job!Same(job) \/ job \in seen
            /\ seen' # seen => (Job!InJob(job) => Job!Same(job))
         \/ Job!InJob(job) /\ ~Job!Same(job) /\ jobs' = Append(jobs, [job |-> job, active |-> active[job]])
  BY <1>0, MeetIs
<1>2. Len(JobHandles) \in Nat /\ DOMAIN JobHandles = 1..Len(JobHandles)
  BY JobsAssumption
<1>3. met' \in 0..Len(JobHandles) /\ met + 1 \in 1..Len(JobHandles) /\ 1..met' = 1..met \cup {met + 1}
  BY <1>1, <1>2
<1>4. job \in Range(Nesting) \cup Others
  BY <1>0, <1>2, <1>3, JobsAssumption
<1>5. Job!Own(1)' = Job!Own(1) /\ \A i \in DOMAIN Nesting : Job!Own(i)' = Job!Own(i)
  BY <1>1 DEF Job!Own
<1>6. CASE jobs' = jobs
  <2>1. \A j : Job!Same(j)' = Job!Same(j)
    BY <1>6 DEF Job!Same
  <2>2. Job!InJob(job) /\ JobHandles[met + 1].owner \in Openable => Job!Same(job)
    BY <1>1, <1>6 DEF Job!Same
  <2>3. \A h \in 1..met' : Job!InJob(JobHandles[h].job) /\ JobHandles[h].owner \in Openable => Job!Same(JobHandles[h].job)'
    BY <1>0, <1>3, <2>1, <2>2
  <2>4. \A j \in seen' : Job!InJob(j) => Job!Same(j)'
    BY <1>1, <1>6, <2>1 DEF Job!Same
  <2>5. \A i \in DOMAIN jobs' : \E h \in 1..met' : JobHandles[h].job = jobs'[i].job
    BY <1>3, <1>6
  <2> QED
    BY <1>1, <1>3, <1>4, <1>5, <1>6, <2>3, <2>4, <2>5
<1>7. CASE Job!InJob(job) /\ ~Job!Same(job) /\ jobs' = Append(jobs, [job |-> job, active |-> active[job]])
  <2> DEFINE new == [job |-> job, active |-> active[job]]
  <2>1. new \in JobRecords /\ new.job = job /\ new.active = active[job]
    BY <1>7, NestingIs DEF JobRecords
  <2> HIDE DEF new
  <2>2. jobs' = Append(jobs, new)
    BY <1>7 DEF new
  <2>3. /\ jobs' \in Seq(JobRecords) /\ Len(jobs) \in Nat /\ DOMAIN jobs = 1..Len(jobs)
        /\ DOMAIN jobs' = 1..(Len(jobs) + 1)
        /\ jobs'[Len(jobs) + 1] = new /\ \A i \in DOMAIN jobs : jobs'[i] = jobs[i]
    BY <2>1, <2>2
  <2>4. DOMAIN jobs' = DOMAIN jobs \cup {Len(jobs) + 1} /\ Len(jobs) + 1 \notin DOMAIN jobs
    BY <2>3
  <2>5. \A j : Job!Same(j) => Job!Same(j)'
    BY <2>3, <2>4 DEF Job!Same
  <2>6. Job!Same(job)'
    BY <2>1, <2>3, <2>4 DEF Job!Same
  <2>7. \A i, j \in DOMAIN jobs' : jobs'[i].job = jobs'[j].job => i = j
    BY <1>7, <2>1, <2>3, <2>4 DEF Job!Same
  <2>8. \A i \in DOMAIN jobs' : \E h \in 1..met' : JobHandles[h].job = jobs'[i].job
    <3>1. \E h \in 1..met' : JobHandles[h].job = jobs'[Len(jobs) + 1].job
      BY <1>0, <1>3, <2>1, <2>3
    <3>2. \A i \in DOMAIN jobs : \E h \in 1..met' : JobHandles[h].job = jobs'[i].job
      BY <1>3, <2>3
    <3> QED
      BY <2>4, <3>1, <3>2
  <2>9. changes' = 0 => \A i \in DOMAIN jobs' : jobs'[i].active = active'[jobs'[i].job]
    BY <1>1, <2>1, <2>3, <2>4
  <2>10. \A h \in 1..met' : Job!InJob(JobHandles[h].job) /\ JobHandles[h].owner \in Openable => Job!Same(JobHandles[h].job)'
    BY <1>0, <1>3, <2>5, <2>6
  <2>11. \A j \in seen' : Job!InJob(j) => Job!Same(j)'
    BY <1>1, <2>5, <2>6
  <2> QED
    BY <1>1, <1>3, <1>4, <1>5, <2>3, <2>7, <2>8, <2>9, <2>10, <2>11
<1> QED
  BY <1>1, <1>6, <1>7

LEMMA OwnIsCount == \A inner, outer, count \in Nat : (outer - (outer - inner) + count) - inner = count
OBVIOUS
LEMMA JobsChange == ASSUME JobsInv, Job!Change \/ Looked!Change PROVE JobsInv'
<1> USE DEF JobsInv
<1>1. PICK k \in DOMAIN Nesting, count \in 0..MaxProcesses :
        /\ changes' = changes + 1 /\ (k = 1 => count > 0) /\ UNCHANGED <<met, seen, jobs>>
        /\ active' = [job \in DOMAIN active |-> IF Job!Depth(job) < k THEN active[job] ELSE active[job] - Job!Own(k) + count]
  <2>1. CASE Job!Change
    BY <2>1 DEF Job!Change
  <2>2. CASE Looked!Change
    <3>1. \A job : Looked!Depth(job) = Job!Depth(job)
      BY DEF Looked!Depth, Job!Depth
    <3>2. \A i : Looked!Own(i) = Job!Own(i)
      BY DEF Looked!Own, Job!Own
    <3>3. PICK k \in DOMAIN Nesting, count \in 0..MaxProcesses :
            /\ changes' = changes + 1 /\ (k = 1 => count > 0) /\ UNCHANGED <<met, seen, jobs>>
            /\ active' = [job \in DOMAIN active |-> IF Looked!Depth(job) < k THEN active[job] ELSE active[job] - Looked!Own(k) + count]
      BY <2>2 DEF Looked!Change
    <3>4. active' = [job \in DOMAIN active |-> IF Job!Depth(job) < k THEN active[job] ELSE active[job] - Job!Own(k) + count]
      BY <3>1, <3>2, <3>3
    <3> QED
      BY <3>3, <3>4
  <2> QED
    BY <2>1, <2>2
<1>2. /\ Len(Nesting) \in Nat /\ DOMAIN Nesting = 1..Len(Nesting) /\ MaxProcesses \in Nat
      /\ \A i \in DOMAIN Nesting : Nesting[i] \in Range(Nesting) /\ active[Nesting[i]] \in Nat
  <2>1. \A i \in DOMAIN Nesting : Nesting[i] \in Range(Nesting)
    BY DEF Range
  <2>2. MaxProcesses \in Nat
    BY QueryAssumption
  <2> QED
    BY <2>1, <2>2, NestingIs
<1>3. \A i \in DOMAIN Nesting :
        active'[Nesting[i]] = IF i < k THEN active[Nesting[i]] ELSE active[Nesting[i]] - Job!Own(k) + count
  BY <1>1, <1>2, NestingIs
<1>4. k \in Nat /\ count \in Nat /\ Job!Own(k) \in Nat /\ active[Nesting[k]] \in Nat
  BY <1>1, <1>2
<1>5. /\ k = 1 => Job!Own(k) = active[Nesting[k]]
      /\ k # 1 => k - 1 \in DOMAIN Nesting /\ Job!Own(k) = active[Nesting[k]] - active[Nesting[k - 1]]
  BY <1>2, <1>4 DEF Job!Own
<1>6. \A i \in DOMAIN Nesting : i >= k => active[Nesting[i]] >= active[Nesting[k]]
  OBVIOUS
<1>7. \A i \in DOMAIN Nesting : active'[Nesting[i]] \in Nat
  <2> TAKE i \in DOMAIN Nesting
  <2>1. i \in Nat /\ active[Nesting[i]] \in Nat
    BY <1>2
  <2>2. CASE i < k
    BY <1>3, <2>1, <2>2
  <2>3. CASE i >= k
    <3>1. active[Nesting[i]] >= Job!Own(k)
      BY <1>2, <1>4, <1>5, <1>6, <2>1, <2>3
    <3>2. active'[Nesting[i]] = active[Nesting[i]] - Job!Own(k) + count
      BY <1>3, <1>4, <2>1, <2>3
    <3> QED
      BY <1>4, <2>1, <3>1, <3>2
  <2> QED
    BY <1>4, <2>1, <2>2, <2>3
<1>8. active' \in [Range(Nesting) -> Nat]
  <2>1. \A job \in Range(Nesting) : active'[job] \in Nat
    BY <1>7 DEF Range
  <2>2. DOMAIN active' = Range(Nesting) /\ active' = [job \in Range(Nesting) |-> active'[job]]
    BY <1>1
  <2> QED
    BY <2>1, <2>2
<1>9. \A i, j \in DOMAIN Nesting : i <= j => active'[Nesting[i]] <= active'[Nesting[j]]
  <2> SUFFICES ASSUME NEW i \in DOMAIN Nesting, NEW j \in DOMAIN Nesting, i <= j
               PROVE  active'[Nesting[i]] <= active'[Nesting[j]]
    OBVIOUS
  <2>1. i \in Nat /\ j \in Nat /\ active[Nesting[i]] \in Nat /\ active[Nesting[j]] \in Nat /\ active[Nesting[i]] <= active[Nesting[j]]
    BY <1>2
  <2>2. CASE j < k
    <3>1. i < k
      BY <1>4, <2>1, <2>2
    <3> QED
      BY <1>3, <2>1, <2>2, <3>1
  <2>4. CASE i >= k
    <3>1. ~(i < k) /\ ~(j < k)
      BY <1>4, <2>1, <2>4
    <3>2. PICK a \in Nat, b \in Nat, o \in Nat : a = active[Nesting[i]] /\ b = active[Nesting[j]] /\ o = Job!Own(k)
      BY <1>4, <2>1
    <3>3. a <= b
      BY <2>1, <3>2
    <3>4. active'[Nesting[i]] = a - o + count /\ active'[Nesting[j]] = b - o + count
      BY <1>3, <3>1, <3>2
    <3> HIDE DEF JobsInv
    <3>5. a - o + count <= b - o + count
      BY ONLY <1>4, <3>3, a \in Nat, b \in Nat, o \in Nat
    <3> QED
      BY <3>4, <3>5
  <2>3. CASE i < k /\ j >= k
    <3>1. k # 1 /\ k - 1 \in DOMAIN Nesting /\ i <= k - 1 /\ active[Nesting[k - 1]] \in Nat
      BY <1>2, <1>4, <2>1, <2>3
    <3>2. active[Nesting[i]] <= active[Nesting[k - 1]] /\ active[Nesting[k]] <= active[Nesting[j]]
      BY <1>6, <2>3, <3>1
    <3>3. PICK a \in Nat, inner \in Nat, outer \in Nat, b \in Nat :
            a = active[Nesting[i]] /\ inner = active[Nesting[k - 1]] /\ outer = active[Nesting[k]] /\ b = active[Nesting[j]]
      BY <1>4, <2>1, <3>1
    <3>4. a <= inner /\ outer <= b
      BY <3>2, <3>3
    <3>5. Job!Own(k) = outer - inner
      BY <1>5, <3>1, <3>3
    <3>6. ~(j < k)
      BY <1>4, <2>1, <2>3
    <3>7. active'[Nesting[i]] = a /\ active'[Nesting[j]] = b - (outer - inner) + count
      BY <1>3, <2>3, <3>3, <3>5, <3>6
    <3> HIDE DEF JobsInv
    <3>8. a <= b - (outer - inner) + count
      BY ONLY <1>4, <3>4, a \in Nat, inner \in Nat, outer \in Nat, b \in Nat
    <3> QED
      BY <3>7, <3>8
  <2> QED
    BY <1>4, <2>1, <2>2, <2>3, <2>4
<1>10. \A i \in DOMAIN Nesting : Job!Own(i)' \in 0..MaxProcesses
  <2> TAKE i \in DOMAIN Nesting
  <2>0. i \in Nat /\ i >= 1 /\ active[Nesting[i]] \in Nat /\ active'[Nesting[i]] \in Nat
    BY <1>2, <1>7
  <2>i. i # 1 => i - 1 \in DOMAIN Nesting /\ active[Nesting[i - 1]] \in Nat
    BY <1>2, <2>0
  <2>o. /\ i = 1 => Job!Own(i) = active[Nesting[1]] /\ Job!Own(i)' = active'[Nesting[1]]
        /\ i # 1 => /\ Job!Own(i) = active[Nesting[i]] - active[Nesting[i - 1]]
                    /\ Job!Own(i)' = active'[Nesting[i]] - active'[Nesting[i - 1]]
    BY <2>0 DEF Job!Own
  <2>1. CASE i < k
    <3>1. Job!Own(i)' = Job!Own(i)
      <4>1. active'[Nesting[i]] = active[Nesting[i]] /\ (i # 1 => active'[Nesting[i - 1]] = active[Nesting[i - 1]])
        <5>1. i # 1 => i - 1 < k
          BY <1>4, <2>0, <2>1
        <5> QED
          BY <1>3, <2>i, <2>1, <5>1
      <4> QED
        BY <2>o, <4>1
    <3> QED
      BY <3>1
  <2>2. CASE i = k
    <3>1. active'[Nesting[k]] = active[Nesting[k]] - Job!Own(k) + count /\ (k # 1 => active'[Nesting[k - 1]] = active[Nesting[k - 1]])
      <4>1. k # 1 => k - 1 < k
        BY <1>4
      <4>2. ~(k < k)
        BY <1>4
      <4> QED
        BY <1>3, <2>2, <2>i, <4>1, <4>2
    <3>2. CASE k = 1
      <4>1. active'[Nesting[1]] = active[Nesting[1]] - Job!Own(k) + count /\ Job!Own(k) = active[Nesting[1]]
        BY <1>5, <3>1, <3>2
      <4>2. Job!Own(i)' = active'[Nesting[1]]
        BY <2>2, <2>o, <3>2
      <4> QED
        BY <1>4, <4>1, <4>2
    <3>3. CASE k # 1
      <4>1. /\ active'[Nesting[k]] = active[Nesting[k]] - Job!Own(k) + count
            /\ active'[Nesting[k - 1]] = active[Nesting[k - 1]]
            /\ Job!Own(k) = active[Nesting[k]] - active[Nesting[k - 1]]
            /\ active[Nesting[k - 1]] \in Nat
        BY <1>5, <2>2, <2>i, <3>1, <3>3
      <4>2. Job!Own(i)' = active'[Nesting[k]] - active'[Nesting[k - 1]]
        BY <2>2, <2>o, <3>3
      <4>3. Job!Own(i)' = count
        BY <1>4, <4>1, <4>2, OwnIsCount
      <4> QED
        BY <4>3
    <3> QED
      BY <3>2, <3>3
  <2>3. CASE i > k
    <3>1. i # 1 /\ ~(i < k) /\ ~(i - 1 < k)
      BY <1>2, <1>4, <2>0, <2>3
    <3>2. PICK inner \in Nat, outer \in Nat, o \in Nat :
            inner = active[Nesting[i - 1]] /\ outer = active[Nesting[i]] /\ o = Job!Own(k)
      BY <1>4, <2>0, <2>i, <3>1
    <3>3. active'[Nesting[i]] = outer - o + count /\ active'[Nesting[i - 1]] = inner - o + count
      BY <1>3, <2>i, <3>1, <3>2
    <3>4. Job!Own(i)' = (outer - o + count) - (inner - o + count) /\ Job!Own(i) = outer - inner
      BY <2>o, <3>1, <3>2, <3>3
    <3> HIDE DEF JobsInv
    <3>5. (outer - o + count) - (inner - o + count) = outer - inner
      BY ONLY <1>4, inner \in Nat, outer \in Nat, o \in Nat
    <3>6. Job!Own(i)' = Job!Own(i)
      BY <3>4, <3>5
    <3> QED
      BY <3>6 DEF JobsInv
  <2> QED
    BY <1>4, <2>0, <2>1, <2>2, <2>3
<1>11. \A j : Job!Same(j)' = Job!Same(j)
  BY <1>1 DEF Job!Same
<1>12. changes' # 0 /\ changes' \in Nat
  BY <1>1
<1> QED
  BY <1>1, <1>8, <1>9, <1>10, <1>11, <1>12

LEMMA JobsStep ==
    JobsInv /\ ([Job!Next]_Job!jobVars \/ [Looked!Next]_Looked!jobVars) => JobsInv'
<1> SUFFICES ASSUME JobsInv, [Job!Next]_Job!jobVars \/ [Looked!Next]_Looked!jobVars PROVE JobsInv'
  OBVIOUS
<1>1. CASE UNCHANGED <<active, met, seen, jobs, changes>>
  <2>1. \A i : Job!Own(i)' = Job!Own(i)
    BY <1>1 DEF Job!Own
  <2>2. \A j : Job!Same(j)' = Job!Same(j)
    BY <1>1 DEF Job!Same
  <2> QED
    BY <1>1, <2>1, <2>2 DEF JobsInv
<1> QED
  BY <1>1, JobsMeet, JobsChange DEF Job!Next, Looked!Next, Job!jobVars, Looked!jobVars
LEMMA JobsStart ==
    ASSUME active \in [Range(Nesting) -> 0..(Len(Nesting) * MaxProcesses)],
           \A i, j \in DOMAIN Nesting : i <= j => active[Nesting[i]] <= active[Nesting[j]],
           \A i \in DOMAIN Nesting : Job!Own(i) <= MaxProcesses,
           met = 0, seen = {}, jobs = <<>>, changes = 0
    PROVE  JobsInv
<1>1. Len(Nesting) \in Nat /\ MaxProcesses \in Nat /\ DOMAIN Nesting = 1..Len(Nesting)
  BY NestingIs, QueryAssumption
<1>2. \A job \in Range(Nesting) : active[job] \in 0..(Len(Nesting) * MaxProcesses)
  OBVIOUS
<1>3. Len(Nesting) * MaxProcesses \in Nat
  BY <1>1
<1>4. \A job \in Range(Nesting) : active[job] \in Nat
  BY <1>2, <1>3
<1>5. active \in [Range(Nesting) -> Nat]
  BY <1>4
<1>6. \A i \in DOMAIN Nesting : Job!Own(i) \in 0..MaxProcesses
  <2> SUFFICES ASSUME NEW i \in DOMAIN Nesting PROVE Job!Own(i) \in 0..MaxProcesses
    OBVIOUS
  <2>1. \A j \in DOMAIN Nesting : active[Nesting[j]] \in Nat
    BY <1>4 DEF Range
  <2>2. CASE i = 1
    BY <1>1, <2>1, <2>2 DEF Job!Own
  <2>3. CASE i # 1
    <3>1. i \in Nat /\ i - 1 \in DOMAIN Nesting /\ i - 1 <= i
      BY <1>1, <2>3
    <3>2. PICK inner \in Nat, outer \in Nat : inner = active[Nesting[i - 1]] /\ outer = active[Nesting[i]]
      BY <2>1, <3>1
    <3>3. inner <= outer /\ Job!Own(i) = outer - inner /\ Job!Own(i) <= MaxProcesses
      BY <2>3, <3>1, <3>2 DEF Job!Own
    <3> QED
      BY <1>1, <3>2, <3>3
  <2> QED
    BY <2>2, <2>3
<1>7. met \in 0..Len(JobHandles) /\ jobs \in Seq(JobRecords) /\ DOMAIN jobs = {} /\ 1..met = {}
  BY JobsAssumption
<1> QED
  BY <1>1, <1>5, <1>6, <1>7 DEF JobsInv

LEMMA JobsInit == (Job!Init => JobsInv) /\ (Looked!Init => JobsInv)
<1>0. Job!Range(Nesting) = Range(Nesting) /\ Looked!Range(Nesting) = Range(Nesting)
  BY DEF Job!Range, Looked!Range, Range
<1>1. ASSUME Job!Init PROVE JobsInv
  BY <1>0, <1>1, JobsStart DEF Job!Init
<1>2. ASSUME Looked!Init PROVE JobsInv
  <2>1. \A i : Looked!Own(i) = Job!Own(i)
    BY DEF Looked!Own, Job!Own
  <2>2. \A i \in DOMAIN Nesting : Job!Own(i) <= MaxProcesses
    BY <1>2, <2>1 DEF Looked!Init
  <2> QED
    BY <1>0, <1>2, <2>2, JobsStart DEF Looked!Init
<1> QED
  BY <1>1, <1>2

\* The stable sort has each job at a place of its own, and so in order.
LEMMA SortedIs ==
    ASSUME jobs \in Seq(JobRecords)
    PROVE  /\ Len(jobs) \in Nat /\ DOMAIN Job!Sorted = 1..Len(jobs)
           /\ \A m \in 1..Len(jobs) : \E j \in 1..Len(jobs) : Job!Sorted[m] = jobs[j]
           /\ \A m, n \in 1..Len(jobs) : m <= n => Job!Sorted[m].active <= Job!Sorted[n].active
<1> DEFINE D == 1..Len(jobs)
           S(j) == {i \in D : Job!Before(i, j)}
<1>1. /\ Len(jobs) \in Nat /\ DOMAIN jobs = D
      /\ \A i \in D : jobs[i] \in JobRecords /\ i \in Nat /\ jobs[i].active \in Nat
  <2>1. Len(jobs) \in Nat /\ DOMAIN jobs = D /\ \A i \in D : jobs[i] \in JobRecords /\ i \in Nat
    OBVIOUS
  <2> QED
    BY <2>1 DEF JobRecords
<1>2. IsFiniteSet(D) /\ Cardinality(D) = Len(jobs)
  <2>1. PICK n \in Nat : n = Len(jobs)
    BY <1>1
  <2>i. 1 \in Int /\ n \in Int
    BY ONLY n \in Nat
  <2>2. IsFiniteSet(1..n) /\ Cardinality(1..n) = (IF 1 > n THEN 0 ELSE n - 1 + 1)
    BY ONLY <2>i, FS_Interval
  <2>3. Cardinality(1..n) = n
    BY <2>2
  <2> QED
    BY <2>1, <2>2, <2>3
<1>3. \A j : Job!Place(j) = Cardinality(S(j)) + 1
  <2>1. \A T : Job!Cardinality(T) = Cardinality(T)
    BY DEF Job!Cardinality, Cardinality
  <2> QED
    BY <1>1, <2>1 DEF Job!Place
<1>4. \A i \in D : ~Job!Before(i, i)
  BY <1>1 DEF Job!Before
<1>5. \A i, j \in D : i # j => Job!Before(i, j) \/ Job!Before(j, i)
  BY <1>1 DEF Job!Before
<1>6. \A h, i, j \in D : Job!Before(h, i) /\ Job!Before(i, j) => Job!Before(h, j)
  BY <1>1 DEF Job!Before
<1>7. \A i, j \in D : Job!Before(i, j) => jobs[i].active <= jobs[j].active
  BY <1>1 DEF Job!Before
<1> HIDE DEF D
<1>8. \A j \in D : IsFiniteSet(S(j)) /\ Cardinality(S(j)) \in Nat /\ Cardinality(S(j)) < Len(jobs)
  <2> SUFFICES ASSUME NEW j \in D
               PROVE  IsFiniteSet(S(j)) /\ Cardinality(S(j)) \in Nat /\ Cardinality(S(j)) < Len(jobs)
    OBVIOUS
  <2>1. S(j) \in SUBSET D /\ S(j) # D
    BY <1>4
  <2> HIDE DEF S
  <2>2. IsFiniteSet(S(j)) /\ Cardinality(S(j)) <= Cardinality(D) /\ Cardinality(S(j)) # Cardinality(D)
    BY <1>2, <2>1, FS_Subset
  <2>3. Cardinality(S(j)) \in Nat
    BY <2>2, FS_CardinalityType
  <2> QED
    BY <1>1, <1>2, <2>2, <2>3
<1>9. \A i, j \in D : Job!Before(i, j) => Job!Place(i) < Job!Place(j)
  <2> SUFFICES ASSUME NEW i \in D, NEW j \in D, Job!Before(i, j) PROVE Job!Place(i) < Job!Place(j)
    OBVIOUS
  <2>1. S(i) \in SUBSET S(j) /\ S(i) # S(j)
    BY <1>4, <1>6
  <2> HIDE DEF S
  <2>2. Cardinality(S(i)) <= Cardinality(S(j)) /\ Cardinality(S(i)) # Cardinality(S(j))
    BY <1>8, <2>1, FS_Subset
  <2> QED
    BY <1>3, <1>8, <2>2
<1> HIDE DEF S
<1>10. \A j \in D : Job!Place(j) \in D
  BY <1>1, <1>3, <1>8 DEF D
<1>11. \A n \in D : \E j \in D : Job!Place(j) = n
  <2> DEFINE f == [j \in D |-> Job!Place(j)]
  <2>1. \A i, j \in D : Job!Place(i) = Job!Place(j) => i = j
    <3>1. \A i \in D : Job!Place(i) \in Nat
      BY <1>3, <1>8
    <3> QED
      BY <1>5, <1>9, <3>1
  <2>2. f \in Injection(D, D)
    BY <1>10, <2>1 DEF Injection, IsInjective
  <2>3. f \in Surjection(D, D)
    <3> HIDE DEF f
    <3> QED
      BY <1>2, <2>2, FS_Injection
  <2> QED
    BY <2>3 DEF Surjection
<1> DEFINE At(n) == CHOOSE j \in D : Job!Place(j) = n
<1>12. \A n \in D : At(n) \in D /\ Job!Place(At(n)) = n
  BY <1>11
<1>13. Job!Sorted = [n \in D |-> jobs[At(n)]]
  BY <1>1 DEF Job!Sorted
<1> HIDE DEF At
<1>14. DOMAIN Job!Sorted = D /\ \A n \in D : Job!Sorted[n] = jobs[At(n)]
  BY <1>13
<1>15. \A m, n \in D : m <= n => jobs[At(m)].active <= jobs[At(n)].active
  <2> SUFFICES ASSUME NEW m \in D, NEW n \in D, m <= n PROVE jobs[At(m)].active <= jobs[At(n)].active
    OBVIOUS
  <2>1. m \in Nat /\ n \in Nat
    BY <1>1
  <2>2. CASE At(m) = At(n)
    BY <1>1, <1>12, <2>2
  <2>3. CASE Job!Before(At(m), At(n))
    BY <1>7, <1>12, <2>3
  <2>4. CASE Job!Before(At(n), At(m))
    <3>1. n < m
      BY <1>9, <1>12, <2>4
    <3> QED
      BY <2>1, <3>1
  <2> QED
    BY <1>5, <1>12, <2>2, <2>3, <2>4
<1>16. \A n \in D : \E j \in D : Job!Sorted[n] = jobs[j]
  BY <1>12, <1>14
<1>17. \A m, n \in D : m <= n => Job!Sorted[m].active <= Job!Sorted[n].active
  BY <1>14, <1>15
<1> QED
  BY <1>1, <1>14, <1>16, <1>17 DEF D

LEMMA JobsKept ==
    ASSUME JobsInv
    PROVE  /\ Job!TypeOK /\ Job!EachJobOnce /\ Job!SteadyIsOrdered
           /\ Looked!TypeOK /\ Looked!EachJobOnce /\ Looked!SteadyIsOrdered
<1> USE DEF JobsInv
<1>0. /\ Job!Range(Nesting) = Range(Nesting) /\ Looked!Range(Nesting) = Range(Nesting)
      /\ Len(JobHandles) \in Nat /\ DOMAIN JobHandles = 1..Len(JobHandles)
  BY JobsAssumption DEF Job!Range, Looked!Range, Range
<1>1. /\ Len(jobs) \in Nat /\ DOMAIN jobs = 1..Len(jobs) /\ \A i \in DOMAIN jobs : jobs[i] \in JobRecords
      /\ \A i \in DOMAIN jobs : Job!InJob(jobs[i].job)
  <2>1. Len(jobs) \in Nat /\ DOMAIN jobs = 1..Len(jobs) /\ \A i \in DOMAIN jobs : jobs[i] \in JobRecords
    OBVIOUS
  <2> QED
    BY <2>1, NestingIs DEF JobRecords
<1>2. Job!TypeOK
  BY <1>0, <1>1 DEF Job!TypeOK, Job!JobOf
<1>3. Job!EachJobOnce
  <2>1. met = Len(JobHandles) => \A h \in DOMAIN JobHandles : Job!InJob(JobHandles[h].job) /\ JobHandles[h].owner \in Openable => Job!Same(JobHandles[h].job)
    BY <1>0
  <2> QED
    BY <2>1 DEF Job!EachJobOnce, Job!Found, Job!JobOf
<1>4. Job!SteadyIsOrdered
  <2> SUFFICES ASSUME changes = 0, Job!Ordered PROVE Job!InOrder
    BY DEF Job!SteadyIsOrdered
  <2> DEFINE s == Job!Sorted
             D == 1..Len(jobs)
  <2>1. /\ DOMAIN s = D /\ \A m \in D : \E j \in D : s[m] = jobs[j]
        /\ \A m, n \in D : m <= n => s[m].active <= s[n].active
    BY SortedIs
  <2>a. \A j \in D : jobs[j] \in JobRecords /\ jobs[j].active = active[jobs[j].job]
    BY <1>1
  <2>2. \A n \in D : s[n] \in JobRecords /\ s[n].active = active[s[n].job]
    <3> SUFFICES ASSUME NEW n \in D PROVE s[n] \in JobRecords /\ s[n].active = active[s[n].job]
      OBVIOUS
    <3>1. PICK j \in D : s[n] = jobs[j]
      BY <2>1
    <3> HIDE DEF s, JobsInv
    <3> QED
      BY <2>a, <3>1
  <2>3. \A i \in 1..(Len(jobs) - 1) : s[i].active # s[i + 1].active
    BY DEF Job!Ordered
  <2> HIDE DEF s
  <2>4. \A n \in D : s[n].active \in Nat /\ s[n].job \in Range(Nesting)
    BY <2>2 DEF JobRecords
  <2>5. \A m, n \in D : m < n => s[m].active < s[n].active
    <3> SUFFICES ASSUME NEW m \in D, NEW n \in D, m < n PROVE s[m].active < s[n].active
      OBVIOUS
    <3>1. n - 1 \in D /\ m <= n - 1 /\ n - 1 <= n /\ n - 1 \in 1..(Len(jobs) - 1) /\ (n - 1) + 1 = n
      BY <1>1
    <3>2. s[m].active <= s[n - 1].active /\ s[n - 1].active <= s[n].active /\ s[n - 1].active # s[n].active
      BY <2>1, <2>3, <3>1
    <3>3. PICK a \in Nat, b \in Nat, c \in Nat : a = s[m].active /\ b = s[n - 1].active /\ c = s[n].active
      BY <2>4, <3>1
    <3>4. a <= b /\ b <= c /\ b # c
      BY <3>2, <3>3
    <3> HIDE DEF JobsInv
    <3>5. a < c
      BY ONLY <3>4, a \in Nat, b \in Nat, c \in Nat
    <3> QED
      BY <3>3, <3>5
  <2>6. ASSUME NEW m \in D, NEW n \in D, m < n PROVE Job!Depth(s[m].job) < Job!Depth(s[n].job)
    <3>1. active[s[m].job] < active[s[n].job] /\ s[m].job \in Range(Nesting) /\ s[n].job \in Range(Nesting)
      BY <2>2, <2>4, <2>5, <2>6
    <3>2. PICK a \in DOMAIN Nesting, b \in DOMAIN Nesting :
            a = Job!Depth(s[m].job) /\ b = Job!Depth(s[n].job) /\ Nesting[a] = s[m].job /\ Nesting[b] = s[n].job
      BY <3>1, NestingIs
    <3>3. a \in Nat /\ b \in Nat
      BY NestingIs
    <3>4. b <= a => active[Nesting[b]] <= active[Nesting[a]]
      OBVIOUS
    <3>5. active[Nesting[a]] \in Nat /\ active[Nesting[b]] \in Nat
      BY <3>1, <3>2
    <3> QED
      BY <3>1, <3>2, <3>3, <3>4, <3>5
  <2> QED
    BY <2>1, <2>6 DEF Job!InOrder, s
<1>5. (\A i : Looked!Own(i) = Job!Own(i)) /\ (\A j : Looked!InJob(j) = Job!InJob(j)) /\ (\A j : Looked!Same(j) = Job!Same(j))
  BY DEF Looked!Own, Job!Own, Looked!InJob, Job!InJob, Looked!Same, Job!Same
<1>6. \A j : Looked!Depth(j) = Job!Depth(j)
  BY DEF Looked!Depth, Job!Depth
<1>7. Looked!Sorted = Job!Sorted
  <2>1. \A T : Job!Cardinality(T) = Looked!Cardinality(T)
    BY DEF Job!Cardinality, Looked!Cardinality
  <2>2. \A i, j : Looked!Before(i, j) = Job!Before(i, j)
    BY DEF Looked!Before, Job!Before
  <2>3. \A j : Looked!Place(j) = Job!Place(j)
    <3> SUFFICES ASSUME NEW j PROVE Looked!Place(j) = Job!Place(j)
      OBVIOUS
    <3>1. {i \in DOMAIN jobs : Looked!Before(i, j)} = {i \in DOMAIN jobs : Job!Before(i, j)}
      BY <2>2
    <3> QED
      BY <2>1, <3>1 DEF Looked!Place, Job!Place
  <2> DEFINE Theirs(n) == jobs[CHOOSE j \in DOMAIN jobs : Looked!Place(j) = n]
             Its(n) == jobs[CHOOSE j \in DOMAIN jobs : Job!Place(j) = n]
  <2>4. \A n : Theirs(n) = Its(n)
    BY <2>3
  <2>5. Looked!Sorted = [n \in DOMAIN jobs |-> Theirs(n)] /\ Job!Sorted = [n \in DOMAIN jobs |-> Its(n)]
    BY DEF Looked!Sorted, Job!Sorted
  <2> HIDE DEF Theirs, Its
  <2> QED
    BY <2>4, <2>5
<1>8. Looked!TypeOK
  BY <1>0, <1>2, <1>5 DEF Job!TypeOK, Looked!TypeOK, Job!JobOf, Looked!JobOf
<1>9. Looked!EachJobOnce
  BY <1>3, <1>5 DEF Job!EachJobOnce, Looked!EachJobOnce, Job!Found, Looked!Found, Job!JobOf, Looked!JobOf
<1>10. Looked!SteadyIsOrdered
  BY <1>4, <1>6, <1>7 DEF Job!SteadyIsOrdered, Looked!SteadyIsOrdered, Job!Found, Looked!Found, Job!Ordered, Looked!Ordered,
      Job!InOrder, Looked!InOrder
<1> QED
  BY <1>2, <1>3, <1>4, <1>8, <1>9, <1>10


-----------------------------------------------------------------------------
(* Zombies, with the addresses of objects (Zombie) and without (Unaddressed). *)

TableEntries == 1..Len(ObjectHandles)
ProcessObjects == {object \in DOMAIN Objects : Zombie!IsProcess(object)}
ObjectTimes == {Zombie!GetProcessId(object) : object \in DOMAIN Objects} \cup {Zombie!Created(object) : object \in DOMAIN Objects}
ZombieRecords == [object : DOMAIN Objects, pid : ObjectTimes, created : ObjectTimes, holders : SUBSET TableEntries]
IsOfOther(h) == Zombie!IsProcess(table[h]) /\ ObjectHandles[h].owner # Self

\* The zombies are of entries scanned; and while no handle is used again, they
\* are the processes exited that these entries' handles are to.
ZombiesInv ==
    /\ held \in [TableEntries -> DOMAIN Objects \cup {"closed"}]
    /\ exited \subseteq ProcessObjects /\ before \subseteq exited
    /\ at \in 1..(Len(ObjectHandles) + 1) /\ live \subseteq DOMAIN Objects /\ reuses \in 0..MaxReuses
    /\ table = <<>> \/ table \in [TableEntries -> DOMAIN Objects \cup {"closed"}]
    /\ table = <<>> => zombies = <<>> /\ live = {}
    /\ zombies \in Seq(ZombieRecords)
    /\ \A i \in DOMAIN zombies :
        /\ zombies[i].holders \subseteq 1..(at - 1) /\ zombies[i].holders # {}
        /\ \A h \in zombies[i].holders : ObjectHandles[h].owner # Self
    /\ reuses = 0 /\ table # <<>> =>
        /\ table = held /\ live \cap before = {}
        /\ \A i \in DOMAIN zombies :
            /\ zombies[i].object \in exited /\ \A h \in zombies[i].holders : table[h] = zombies[i].object
            /\ zombies[i].pid = Zombie!GetProcessId(zombies[i].object) /\ zombies[i].created = Zombie!Created(zombies[i].object)
        /\ \A h \in 1..(at - 1) : table[h] \in before /\ IsOfOther(h) /\ ObjectHandles[h].owner \in Openable =>
                \E i \in DOMAIN zombies : zombies[i].object = table[h]
ObjectOnce == \A i, j \in DOMAIN zombies : zombies[i].object = zombies[j].object => i = j
TimesOnce ==
    \A i, j \in DOMAIN zombies : zombies[i].pid = zombies[j].pid /\ zombies[i].created = zombies[j].created => i = j

\* What an entry comes to: nothing, a process that runs, one more handle to a
\* zombie or a zombie.
Passed ==
    /\ zombies' = zombies /\ live' = live
    /\ ~IsOfOther(at) \/ table[at] \in live \/ ObjectHandles[at].owner \notin Openable \/ held[at] = "closed"
Runs ==
    /\ zombies' = zombies /\ live' \in {live, live \cup {table[at]}}
    /\ IsOfOther(at) /\ held[at] # "closed" /\ ~Zombie!HasExited(held[at])
Held(k) ==
    /\ k \in DOMAIN zombies /\ zombies' = [zombies EXCEPT ![k].holders = @ \cup {at}] /\ live' = live
    /\ IsOfOther(at) /\ (reuses = 0 => zombies[k].object = table[at])
NewZombie ==
    [object |-> table[at], pid |-> Zombie!GetProcessId(held[at]), created |-> Zombie!Created(held[at]), holders |-> {at}]
Added ==
    /\ zombies' = Append(zombies, NewZombie) /\ live' = live
    /\ IsOfOther(at) /\ held[at] # "closed" /\ Zombie!HasExited(held[at])
    /\ reuses = 0 => \A i \in DOMAIN zombies : zombies[i].object # table[at]
Scanned ==
    /\ table # <<>> /\ at \in TableEntries /\ at' = at + 1 /\ UNCHANGED <<held, exited, table, before, reuses>>
    /\ Passed \/ Runs \/ (\E k : Held(k)) \/ Added

LEMMA EntriesAre ==
    Len(ObjectHandles) \in Nat /\ DOMAIN ObjectHandles = TableEntries /\ Zombie!Unscanned = Len(ObjectHandles) + 1
    /\ Unaddressed!Unscanned = Len(ObjectHandles) + 1
BY ObjectsAssumption DEF TableEntries, Zombie!Unscanned, Unaddressed!Unscanned

\* The first of what is one at most.
LEMMA FirstIs ==
    ASSUME NEW S, 0 \notin S, \A i, j \in S : i = j, \A i \in S : i \in Nat
    PROVE  /\ Zombie!First(S) \in S \/ (Zombie!First(S) = 0 /\ S = {})
           /\ Unaddressed!First(S) \in S \/ (Unaddressed!First(S) = 0 /\ S = {})
<1>1. CASE S = {}
  BY <1>1 DEF Zombie!First, Unaddressed!First
<1>2. CASE S # {}
  <2>1. \E i \in S : \A j \in S : i <= j
    BY <1>2
  <2> QED
    BY <1>2, <2>1 DEF Zombie!First, Unaddressed!First
<1> QED
  BY <1>1, <1>2

LEMMA SameTellings ==
    \A o : /\ Unaddressed!IsProcess(o) = Zombie!IsProcess(o) /\ Unaddressed!HasExited(o) = Zombie!HasExited(o)
           /\ Unaddressed!GetProcessId(o) = Zombie!GetProcessId(o) /\ Unaddressed!Created(o) = Zombie!Created(o)
<1>1. \A o : Unaddressed!IsProcess(o) = Zombie!IsProcess(o)
  BY DEF Unaddressed!IsProcess, Zombie!IsProcess, Unaddressed!Closed, Zombie!Closed
<1>2. \A o : Unaddressed!HasExited(o) = Zombie!HasExited(o)
  BY <1>1 DEF Unaddressed!HasExited, Zombie!HasExited
<1>3. \A o : Unaddressed!GetProcessId(o) = Zombie!GetProcessId(o)
  BY <1>1 DEF Unaddressed!GetProcessId, Zombie!GetProcessId
<1>4. \A o : Unaddressed!Created(o) = Zombie!Created(o)
  BY <1>1 DEF Unaddressed!Created, Zombie!Created
<1> QED
  BY <1>1, <1>2, <1>3, <1>4

LEMMA ZombieScans ==
    ASSUME ZombiesInv, ObjectOnce, Zombie!Scan
    PROVE  Scanned /\ ((\E k : Held(k)) \/ zombies' = zombies \/ (Added /\ \A i \in DOMAIN zombies : zombies[i].object # table[at]))
<1> DEFINE S == {i \in DOMAIN zombies : zombies[i].object = table[at]}
           k == Zombie!ByObject(table[at])
<1>1. /\ table # <<>> /\ at \in TableEntries /\ at' = at + 1 /\ UNCHANGED <<held, exited, table, before, reuses>>
  BY EntriesAre DEF Zombie!Scan
<1>2. Len(zombies) \in Nat /\ DOMAIN zombies = 1..Len(zombies)
  BY DEF ZombiesInv
<1>3. k \in S \/ (k = 0 /\ S = {})
  <2>1. k = Zombie!First(S)
    BY DEF Zombie!ByObject
  <2>2. 0 \notin S /\ (\A i, j \in S : i = j) /\ \A i \in S : i \in Nat
    BY <1>2 DEF ObjectOnce
  <2> HIDE DEF S, k
  <2> QED
    BY <2>1, <2>2, FirstIs
<1>4. k # 0 => k \in DOMAIN zombies /\ zombies[k].object = table[at]
  BY <1>3
<1>5. k = 0 => \A i \in DOMAIN zombies : zombies[i].object # table[at]
  BY <1>2, <1>3
<1>6. Zombie!Considered(table[at]) => IsOfOther(at)
  BY DEF Zombie!Considered, IsOfOther
<1>7. ~Zombie!Considered(table[at]) => ~IsOfOther(at) \/ table[at] \in live
  BY DEF Zombie!Considered, IsOfOther
<1>8. Zombie!ByTimes(held[at]) = 0
  BY DEF Zombie!ByTimes
<1> HIDE DEF S, k
<1>9. \/ ~Zombie!Considered(table[at]) /\ Zombie!Pass
      \/ Zombie!Considered(table[at]) /\ k # 0 /\ Zombie!AddHolder(k) /\ UNCHANGED live
      \/ (ObjectHandles[at].owner \notin Openable \/ held[at] = "closed") /\ Zombie!Pass
      \/ Zombie!Considered(table[at]) /\ held[at] # "closed" /\ ~Zombie!HasExited(held[at]) /\ zombies' = zombies
         /\ live' = live \cup {table[at]}
      \/ Zombie!Considered(table[at]) /\ k = 0 /\ held[at] # "closed" /\ Zombie!HasExited(held[at])
         /\ zombies' = Append(zombies, NewZombie) /\ live' = live
  BY <1>8, Zenon DEF Zombie!Scan, Zombie!Duplicate, Zombie!Closed, NewZombie, k
<1>10. CASE Zombie!Pass /\ (~Zombie!Considered(table[at]) \/ ObjectHandles[at].owner \notin Openable \/ held[at] = "closed")
  <2>1. Passed
    BY <1>7, <1>10 DEF Zombie!Pass, Passed
  <2> QED
    BY <1>1, <2>1 DEF Scanned, Passed
<1>11. CASE Zombie!Considered(table[at]) /\ k # 0 /\ Zombie!AddHolder(k) /\ UNCHANGED live
  <2>1. Held(k)
    BY <1>4, <1>6, <1>11 DEF Zombie!AddHolder, Held
  <2> QED
    BY <1>1, <2>1 DEF Scanned
<1>12. CASE Zombie!Considered(table[at]) /\ held[at] # "closed" /\ ~Zombie!HasExited(held[at]) /\ zombies' = zombies
            /\ live' = live \cup {table[at]}
  <2>1. Runs
    BY <1>6, <1>12 DEF Runs
  <2> QED
    BY <1>1, <2>1 DEF Scanned, Runs
<1>13. CASE Zombie!Considered(table[at]) /\ k = 0 /\ held[at] # "closed" /\ Zombie!HasExited(held[at])
            /\ zombies' = Append(zombies, NewZombie) /\ live' = live
  <2>1. Added
    BY <1>5, <1>6, <1>13 DEF Added
  <2> QED
    BY <1>1, <1>5, <1>13, <2>1 DEF Scanned
<1> QED
  BY <1>9, <1>10, <1>11, <1>12, <1>13

LEMMA UnaddressedScans ==
    ASSUME ZombiesInv, TimesOnce, Unaddressed!Scan
    PROVE  /\ Scanned
           /\ \/ (\E k : Held(k)) \/ zombies' = zombies
              \/ Added /\ \A i \in DOMAIN zombies :
                            ~(zombies[i].pid = Zombie!GetProcessId(held[at]) /\ zombies[i].created = Zombie!Created(held[at]))
<1> DEFINE S == {i \in DOMAIN zombies : zombies[i].pid = Unaddressed!GetProcessId(held[at])
                                        /\ zombies[i].created = Unaddressed!Created(held[at])}
           k == Unaddressed!ByTimes(held[at])
<1>1. /\ table # <<>> /\ at \in TableEntries /\ at' = at + 1 /\ UNCHANGED <<held, exited, table, before, reuses>>
  BY EntriesAre DEF Unaddressed!Scan
<1>2. Len(zombies) \in Nat /\ DOMAIN zombies = 1..Len(zombies)
  BY DEF ZombiesInv
<1>3. k \in S \/ (k = 0 /\ S = {})
  <2>1. k = Unaddressed!First(S)
    BY DEF Unaddressed!ByTimes
  <2>2. 0 \notin S /\ (\A i, j \in S : i = j) /\ \A i \in S : i \in Nat
    BY <1>2 DEF TimesOnce
  <2> HIDE DEF S, k
  <2> QED
    BY <2>1, <2>2, FirstIs
<1>4. k # 0 => k \in DOMAIN zombies /\ zombies[k].pid = Zombie!GetProcessId(held[at]) /\ zombies[k].created = Zombie!Created(held[at])
  BY <1>3, SameTellings
<1>5. k = 0 => \A i \in DOMAIN zombies : ~(zombies[i].pid = Zombie!GetProcessId(held[at]) /\ zombies[i].created = Zombie!Created(held[at]))
  BY <1>2, <1>3, SameTellings
<1>6. Unaddressed!Considered(table[at]) <=> IsOfOther(at)
  BY SameTellings DEF Unaddressed!Considered, IsOfOther
<1>7. Unaddressed!ByObject(table[at]) = 0
  BY DEF Unaddressed!ByObject
<1> HIDE DEF S, k
<1>8. \/ ~Unaddressed!Considered(table[at]) /\ Unaddressed!Pass
      \/ (ObjectHandles[at].owner \notin Openable \/ held[at] = "closed") /\ Unaddressed!Pass
      \/ Unaddressed!Considered(table[at]) /\ held[at] # "closed" /\ ~Unaddressed!HasExited(held[at]) /\ zombies' = zombies
         /\ live' = live
      \/ Unaddressed!Considered(table[at]) /\ held[at] # "closed" /\ Unaddressed!HasExited(held[at])
         /\ (IF k # 0 THEN Unaddressed!AddHolder(k) ELSE zombies' = Append(zombies, NewZombie)) /\ live' = live
  <2>1. NewZombie = [object |-> table[at], pid |-> Unaddressed!GetProcessId(held[at]),
                     created |-> Unaddressed!Created(held[at]), holders |-> {at}]
    BY SameTellings DEF NewZombie
  <2> QED
    BY <1>7, <2>1, Zenon DEF Unaddressed!Scan, Unaddressed!Duplicate, Unaddressed!Closed, k
<1>9. reuses = 0 /\ IsOfOther(at) => held[at] = table[at] /\ table[at] \in ProcessObjects
  <2>1. reuses = 0 => table = held
    BY <1>1 DEF ZombiesInv
  <2>2. IsOfOther(at) => table[at] \in DOMAIN Objects
    <3>1. table[at] \in DOMAIN Objects \cup {"closed"}
      BY <1>1 DEF ZombiesInv
    <3> QED
      BY <3>1 DEF IsOfOther, Zombie!IsProcess, Zombie!Closed
  <2> QED
    BY <2>1, <2>2 DEF IsOfOther, ProcessObjects
<1>10. \A i \in DOMAIN zombies : reuses = 0 =>
          /\ zombies[i].object \in ProcessObjects
          /\ zombies[i].pid = Zombie!GetProcessId(zombies[i].object) /\ zombies[i].created = Zombie!Created(zombies[i].object)
  BY <1>1 DEF ZombiesInv
<1>11. k # 0 /\ reuses = 0 /\ IsOfOther(at) => zombies[k].object = table[at]
  BY <1>4, <1>9, <1>10, ObjectsAssumption DEF ProcessObjects
<1>12. k = 0 /\ reuses = 0 /\ IsOfOther(at) => \A i \in DOMAIN zombies : zombies[i].object # table[at]
  BY <1>5, <1>9, <1>10
<1>13. CASE Unaddressed!Pass /\ (~Unaddressed!Considered(table[at]) \/ ObjectHandles[at].owner \notin Openable \/ held[at] = "closed")
  <2>1. Passed
    BY <1>6, <1>13 DEF Unaddressed!Pass, Passed
  <2> QED
    BY <1>1, <2>1 DEF Scanned, Passed
<1>14. CASE Unaddressed!Considered(table[at]) /\ held[at] # "closed" /\ ~Unaddressed!HasExited(held[at]) /\ zombies' = zombies
            /\ live' = live
  <2>1. Runs
    BY <1>6, <1>14, SameTellings DEF Runs
  <2> QED
    BY <1>1, <2>1 DEF Scanned, Runs
<1>15. CASE Unaddressed!Considered(table[at]) /\ held[at] # "closed" /\ Unaddressed!HasExited(held[at])
            /\ k # 0 /\ Unaddressed!AddHolder(k) /\ live' = live
  <2>1. Held(k)
    BY <1>4, <1>6, <1>11, <1>15 DEF Unaddressed!AddHolder, Held
  <2> QED
    BY <1>1, <2>1 DEF Scanned
<1>16. CASE Unaddressed!Considered(table[at]) /\ held[at] # "closed" /\ Unaddressed!HasExited(held[at])
            /\ k = 0 /\ zombies' = Append(zombies, NewZombie) /\ live' = live
  <2>1. Added
    BY <1>6, <1>12, <1>16, SameTellings DEF Added
  <2> QED
    BY <1>1, <1>5, <1>16, <2>1 DEF Scanned
<1> QED
  BY <1>8, <1>13, <1>14, <1>15, <1>16
LEMMA ZombiesScan == ASSUME ZombiesInv, Scanned PROVE ZombiesInv'
<1> USE DEF ZombiesInv
<1>1. /\ table # <<>> /\ at \in TableEntries /\ at' = at + 1 /\ UNCHANGED <<held, exited, table, before, reuses>>
      /\ Len(ObjectHandles) \in Nat
  BY EntriesAre DEF Scanned
<1>2. /\ at \in Nat /\ at' \in 1..(Len(ObjectHandles) + 1) /\ at' - 1 = at /\ 1..(at' - 1) = 1..(at - 1) \cup {at}
      /\ 1..at = 1..(at - 1) \cup {at} /\ at \notin 1..(at - 1)
  BY <1>1 DEF TableEntries
<1>3. /\ Len(zombies) \in Nat /\ DOMAIN zombies = 1..Len(zombies)
      /\ \A i \in DOMAIN zombies : zombies[i] \in ZombieRecords
  OBVIOUS
<1>4. IsOfOther(at) => table[at] \in DOMAIN Objects /\ Zombie!IsProcess(table[at]) /\ ObjectHandles[at].owner # Self
  <2>1. table[at] \in DOMAIN Objects \cup {"closed"}
    BY <1>1
  <2> QED
    BY <2>1 DEF IsOfOther, Zombie!IsProcess, Zombie!Closed
<1>5. \A h : IsOfOther(h)' = IsOfOther(h)
  BY <1>1 DEF IsOfOther
<1>6. reuses = 0 /\ IsOfOther(at) => (Zombie!HasExited(held[at]) <=> table[at] \in exited)
  BY <1>1, <1>4 DEF Zombie!HasExited
\* the entries before are found still, if each zombie's object still is one's
<1>7. ASSUME \A i \in DOMAIN zombies : \E j \in DOMAIN zombies' : zombies'[j].object = zombies[i].object,
             reuses = 0 /\ table[at] \in before /\ IsOfOther(at) /\ ObjectHandles[at].owner \in Openable =>
                \E j \in DOMAIN zombies' : zombies'[j].object = table[at]
      PROVE  reuses' = 0 =>
                \A h \in 1..(at' - 1) : table'[h] \in before' /\ IsOfOther(h)' /\ ObjectHandles[h].owner \in Openable =>
                    \E j \in DOMAIN zombies' : zombies'[j].object = table'[h]
  <2> SUFFICES ASSUME reuses = 0, NEW h \in 1..(at - 1) \cup {at}, table[h] \in before, IsOfOther(h), ObjectHandles[h].owner \in Openable
               PROVE  \E j \in DOMAIN zombies' : zombies'[j].object = table[h]
    BY <1>1, <1>2, <1>5
  <2>1. CASE h = at
    BY <1>7, <2>1
  <2>2. CASE h \in 1..(at - 1)
    <3>1. PICK i \in DOMAIN zombies : zombies[i].object = table[h]
      BY <1>1, <2>2
    <3> QED
      BY <1>7, <3>1
  <2> QED
    BY <2>1, <2>2
<1>8. CASE Passed
  <2>1. reuses = 0 /\ table[at] \in before /\ IsOfOther(at) => table[at] \notin live /\ held[at] # "closed"
    BY <1>1, <1>4 DEF IsOfOther, Zombie!IsProcess, Zombie!Closed
  <2>2. zombies' = zombies /\ live' = live
    BY <1>8 DEF Passed
  <2>3. reuses' = 0 => \A h \in 1..(at' - 1) : table'[h] \in before' /\ IsOfOther(h)' /\ ObjectHandles[h].owner \in Openable =>
            \E j \in DOMAIN zombies' : zombies'[j].object = table'[h]
    BY <1>7, <1>8, <2>1, <2>2 DEF Passed
  <2> QED
    BY <1>1, <1>2, <2>2, <2>3
<1>9. CASE Runs
  <2>1. zombies' = zombies /\ live' \in {live, live \cup {table[at]}} /\ IsOfOther(at) /\ ~Zombie!HasExited(held[at])
    BY <1>9 DEF Runs
  <2>2. reuses = 0 => table[at] \notin before
    BY <1>6, <2>1
  <2>3. reuses' = 0 => \A h \in 1..(at' - 1) : table'[h] \in before' /\ IsOfOther(h)' /\ ObjectHandles[h].owner \in Openable =>
            \E j \in DOMAIN zombies' : zombies'[j].object = table'[h]
    BY <1>7, <2>1, <2>2
  <2>4. live' \subseteq DOMAIN Objects /\ (reuses = 0 => live' \cap before = {})
    BY <1>1, <1>4, <2>1, <2>2
  <2> QED
    BY <1>1, <1>2, <2>1, <2>3, <2>4
<1>10. ASSUME NEW k, Held(k) PROVE ZombiesInv'
  <2>1. /\ k \in DOMAIN zombies /\ zombies' = [zombies EXCEPT ![k].holders = @ \cup {at}] /\ live' = live
        /\ IsOfOther(at) /\ (reuses = 0 => zombies[k].object = table[at])
    BY <1>10 DEF Held
  <2> DEFINE z == [zombies[k] EXCEPT !.holders = @ \cup {at}]
  <2>2. /\ z \in ZombieRecords /\ z.object = zombies[k].object /\ z.pid = zombies[k].pid /\ z.created = zombies[k].created
        /\ z.holders = zombies[k].holders \cup {at}
    BY <1>1, <1>3, <2>1 DEF ZombieRecords
  <2>3. zombies' = [zombies EXCEPT ![k] = z]
    BY <2>1
  <2> HIDE DEF z
  <2>4. /\ zombies' \in Seq(ZombieRecords) /\ DOMAIN zombies' = DOMAIN zombies /\ zombies'[k] = z
        /\ \A i \in DOMAIN zombies : i # k => zombies'[i] = zombies[i]
    <3>1. k \in 1..Len(zombies) /\ z \in ZombieRecords /\ zombies \in Seq(ZombieRecords)
      BY <1>3, <2>1, <2>2
    <3> HIDE DEF ZombiesInv
    <3>2. zombies' \in Seq(ZombieRecords)
      BY <2>3, <3>1
    <3> QED
      BY <2>1, <2>3, <3>2
  <2>5. \A i \in DOMAIN zombies : zombies'[i].object = zombies[i].object /\ zombies'[i].pid = zombies[i].pid
                                  /\ zombies'[i].created = zombies[i].created
    BY <2>2, <2>4
  <2>6. \A i \in DOMAIN zombies' : /\ zombies'[i].holders \subseteq 1..(at' - 1) /\ zombies'[i].holders # {}
                                   /\ \A h \in zombies'[i].holders : ObjectHandles[h].owner # Self
    <3> SUFFICES ASSUME NEW i \in DOMAIN zombies
                 PROVE  /\ zombies'[i].holders \subseteq 1..(at - 1) \cup {at} /\ zombies'[i].holders # {}
                        /\ \A h \in zombies'[i].holders : ObjectHandles[h].owner # Self
      BY <1>2, <2>4
    <3>1. zombies'[i].holders = zombies[i].holders \/ zombies'[i].holders = zombies[i].holders \cup {at}
      BY <2>2, <2>4
    <3>2. /\ zombies[i].holders \subseteq 1..(at - 1) /\ zombies[i].holders # {}
          /\ \A h \in zombies[i].holders : ObjectHandles[h].owner # Self
      OBVIOUS
    <3> HIDE DEF ZombiesInv
    <3> QED
      BY <1>4, <2>1, <3>1, <3>2
  <2>7. reuses = 0 => \A i \in DOMAIN zombies' : \A h \in zombies'[i].holders : table[h] = zombies'[i].object
    <3> SUFFICES ASSUME reuses = 0, NEW i \in DOMAIN zombies, NEW h \in zombies'[i].holders PROVE table[h] = zombies'[i].object
      BY <2>4
    <3>1. \A g \in zombies[i].holders : table[g] = zombies[i].object
      BY <1>1
    <3>2. h \in zombies[i].holders \/ (i = k /\ h = at)
      BY <2>2, <2>4
    <3> QED
      BY <2>1, <2>5, <3>1, <3>2
  <2>8. reuses' = 0 => \A h \in 1..(at' - 1) : table'[h] \in before' /\ IsOfOther(h)' /\ ObjectHandles[h].owner \in Openable =>
            \E j \in DOMAIN zombies' : zombies'[j].object = table'[h]
    <3>1. \A i \in DOMAIN zombies : \E j \in DOMAIN zombies' : zombies'[j].object = zombies[i].object
      BY <2>4, <2>5
    <3>2. reuses = 0 => \E j \in DOMAIN zombies' : zombies'[j].object = table[at]
      BY <2>1, <2>4, <2>5
    <3> QED
      BY <1>7, <3>1, <3>2
  <2>9. reuses' = 0 /\ table' # <<>> =>
        \A i \in DOMAIN zombies' :
            /\ zombies'[i].object \in exited' /\ \A h \in zombies'[i].holders : table'[h] = zombies'[i].object
            /\ zombies'[i].pid = Zombie!GetProcessId(zombies'[i].object) /\ zombies'[i].created = Zombie!Created(zombies'[i].object)
    <3>1. reuses = 0 => \A i \in DOMAIN zombies :
            /\ zombies[i].object \in exited
            /\ zombies[i].pid = Zombie!GetProcessId(zombies[i].object) /\ zombies[i].created = Zombie!Created(zombies[i].object)
      BY <1>1
    <3> HIDE DEF ZombiesInv
    <3> QED
      BY <1>1, <2>4, <2>5, <2>7, <3>1
  <2>10. reuses' = 0 /\ table' # <<>> => table' = held' /\ live' \cap before' = {}
    BY <1>1, <2>1
  <2>11. /\ held' \in [TableEntries -> DOMAIN Objects \cup {"closed"}] /\ exited' \subseteq ProcessObjects /\ before' \subseteq exited'
         /\ live' \subseteq DOMAIN Objects /\ reuses' \in 0..MaxReuses /\ table' # <<>>
         /\ table' \in [TableEntries -> DOMAIN Objects \cup {"closed"}]
    BY <1>1, <2>1
  <2> QED
    BY <1>2, <2>4, <2>6, <2>8, <2>9, <2>10, <2>11, Zenon
<1>11. CASE Added
  <2>1. /\ zombies' = Append(zombies, NewZombie) /\ live' = live
        /\ IsOfOther(at) /\ held[at] # "closed" /\ Zombie!HasExited(held[at])
    BY <1>11 DEF Added
  <2>2. /\ NewZombie \in ZombieRecords /\ NewZombie.object = table[at] /\ NewZombie.holders = {at}
        /\ NewZombie.pid = Zombie!GetProcessId(held[at]) /\ NewZombie.created = Zombie!Created(held[at])
    <3>1. held[at] \in DOMAIN Objects
      BY <1>1, <2>1
    <3>2. Zombie!GetProcessId(held[at]) \in ObjectTimes /\ Zombie!Created(held[at]) \in ObjectTimes
      BY <3>1 DEF ObjectTimes
    <3>3. {at} \in SUBSET TableEntries /\ table[at] \in DOMAIN Objects
      BY <1>1, <1>4, <2>1
    <3> QED
      BY <3>2, <3>3, Zenon DEF NewZombie, ZombieRecords
  <2> DEFINE n == Len(zombies) + 1
  <2>3. /\ zombies' \in Seq(ZombieRecords) /\ DOMAIN zombies' = DOMAIN zombies \cup {n} /\ n \notin DOMAIN zombies
        /\ zombies'[n] = NewZombie /\ \A i \in DOMAIN zombies : zombies'[i] = zombies[i]
    <3>1. NewZombie \in ZombieRecords
      BY <2>2
    <3>2. zombies' \in Seq(ZombieRecords) /\ DOMAIN zombies' = 1..n
      BY <1>3, <2>1, <3>1
    <3>3. 1..n = 1..Len(zombies) \cup {n} /\ n \notin 1..Len(zombies)
      BY <1>3
    <3>4. zombies'[n] = NewZombie /\ \A i \in DOMAIN zombies : zombies'[i] = zombies[i]
      BY <1>3, <2>1
    <3> QED
      BY <1>3, <3>2, <3>3, <3>4
  <2> HIDE DEF n
  <2>4. \A i \in DOMAIN zombies' : /\ zombies'[i].holders \subseteq 1..(at' - 1) /\ zombies'[i].holders # {}
                                   /\ \A h \in zombies'[i].holders : ObjectHandles[h].owner # Self
    <3>1. /\ zombies'[n].holders \subseteq 1..(at' - 1) /\ zombies'[n].holders # {}
          /\ \A h \in zombies'[n].holders : ObjectHandles[h].owner # Self
      BY <1>2, <1>4, <2>1, <2>2, <2>3
    <3>2. \A i \in DOMAIN zombies : /\ zombies[i].holders \subseteq 1..(at' - 1) /\ zombies[i].holders # {}
                                    /\ \A h \in zombies[i].holders : ObjectHandles[h].owner # Self
      BY <1>2
    <3> HIDE DEF ZombiesInv
    <3> QED
      BY <2>3, <3>1, <3>2
  <2>5. reuses' = 0 /\ table' # <<>> =>
        \A i \in DOMAIN zombies' :
            /\ zombies'[i].object \in exited' /\ \A h \in zombies'[i].holders : table'[h] = zombies'[i].object
            /\ zombies'[i].pid = Zombie!GetProcessId(zombies'[i].object) /\ zombies'[i].created = Zombie!Created(zombies'[i].object)
    <3> SUFFICES ASSUME reuses = 0
                 PROVE \A i \in DOMAIN zombies' :
            /\ zombies'[i].object \in exited /\ \A h \in zombies'[i].holders : table[h] = zombies'[i].object
            /\ zombies'[i].pid = Zombie!GetProcessId(zombies'[i].object) /\ zombies'[i].created = Zombie!Created(zombies'[i].object)
      BY <1>1
    <3>1. \A i \in DOMAIN zombies :
            /\ zombies[i].object \in exited /\ \A h \in zombies[i].holders : table[h] = zombies[i].object
            /\ zombies[i].pid = Zombie!GetProcessId(zombies[i].object) /\ zombies[i].created = Zombie!Created(zombies[i].object)
      BY <1>1
    <3>2. table[at] = held[at] /\ table[at] \in exited
      BY <1>1, <1>6, <2>1
    <3> HIDE DEF ZombiesInv
    <3>3. /\ zombies'[n].object \in exited /\ \A h \in zombies'[n].holders : table[h] = zombies'[n].object
          /\ zombies'[n].pid = Zombie!GetProcessId(zombies'[n].object) /\ zombies'[n].created = Zombie!Created(zombies'[n].object)
      BY <2>2, <2>3, <3>2
    <3> QED
      BY <2>3, <3>1, <3>3
  <2>6. reuses' = 0 => \A h \in 1..(at' - 1) : table'[h] \in before' /\ IsOfOther(h)' /\ ObjectHandles[h].owner \in Openable =>
            \E j \in DOMAIN zombies' : zombies'[j].object = table'[h]
    <3>1. \A i \in DOMAIN zombies : \E j \in DOMAIN zombies' : zombies'[j].object = zombies[i].object
      BY <2>3
    <3>2. \E j \in DOMAIN zombies' : zombies'[j].object = table[at]
      BY <2>2, <2>3
    <3> QED
      BY <1>7, <3>1, <3>2
  <2>7. reuses' = 0 /\ table' # <<>> => table' = held' /\ live' \cap before' = {}
    BY <1>1, <2>1
  <2>8. /\ held' \in [TableEntries -> DOMAIN Objects \cup {"closed"}] /\ exited' \subseteq ProcessObjects /\ before' \subseteq exited'
        /\ live' \subseteq DOMAIN Objects /\ reuses' \in 0..MaxReuses /\ table' # <<>>
        /\ table' \in [TableEntries -> DOMAIN Objects \cup {"closed"}]
    BY <1>1, <2>1
  <2> QED
    BY <1>2, <2>3, <2>4, <2>5, <2>6, <2>7, <2>8, Zenon
<1> QED
  BY <1>8, <1>9, <1>10, <1>11 DEF Scanned
\* One more handle leaves the zombies those they were; a zombie is put last.
LEMMA HeldStays ==
    ASSUME \E k : Held(k), ZombiesInv
    PROVE  /\ DOMAIN zombies' = DOMAIN zombies
           /\ \A i \in DOMAIN zombies : /\ zombies'[i].object = zombies[i].object
                                        /\ zombies'[i].pid = zombies[i].pid /\ zombies'[i].created = zombies[i].created
<1>1. PICK k : k \in DOMAIN zombies /\ zombies' = [zombies EXCEPT ![k].holders = @ \cup {at}]
  BY DEF Held
<1>2. zombies[k] \in ZombieRecords
  BY <1>1 DEF ZombiesInv
<1> DEFINE z == [zombies[k] EXCEPT !.holders = @ \cup {at}]
<1>3. z.object = zombies[k].object /\ z.pid = zombies[k].pid /\ z.created = zombies[k].created
  BY <1>2 DEF ZombieRecords
<1>4. zombies' = [zombies EXCEPT ![k] = z]
  BY <1>1
<1> HIDE DEF z
<1> QED
  BY <1>1, <1>3, <1>4

LEMMA AddedIsLast ==
    ASSUME Added, ZombiesInv
    PROVE  \E n : /\ DOMAIN zombies' = DOMAIN zombies \cup {n} /\ n \notin DOMAIN zombies
                  /\ zombies'[n].object = table[at]
                  /\ zombies'[n].pid = Zombie!GetProcessId(held[at]) /\ zombies'[n].created = Zombie!Created(held[at])
                  /\ \A i \in DOMAIN zombies : zombies'[i] = zombies[i]
<1>1. zombies' = Append(zombies, NewZombie) /\ Len(zombies) \in Nat /\ DOMAIN zombies = 1..Len(zombies)
  BY DEF Added, ZombiesInv
<1>2. /\ NewZombie.object = table[at]
      /\ NewZombie.pid = Zombie!GetProcessId(held[at]) /\ NewZombie.created = Zombie!Created(held[at])
  BY DEF NewZombie
<1> DEFINE n == Len(zombies) + 1
<1>3. DOMAIN zombies' = 1..n /\ zombies'[n] = NewZombie /\ \A i \in DOMAIN zombies : zombies'[i] = zombies[i]
  BY <1>1 DEF ZombiesInv
<1>4. 1..n = 1..Len(zombies) \cup {n} /\ n \notin 1..Len(zombies)
  BY <1>1
<1> HIDE DEF n
<1> QED
  BY <1>1, <1>2, <1>3, <1>4

\* The table is read.
LEMMA ZombiesRead == ASSUME ZombiesInv, Zombie!ReadTable \/ Unaddressed!ReadTable PROVE ZombiesInv'
<1>1. /\ table = <<>> /\ table' = held /\ before' = exited /\ at' = 1 /\ UNCHANGED <<held, exited, live, zombies, reuses>>
      /\ zombies = <<>> /\ live = {} /\ Len(ObjectHandles) \in Nat
  BY EntriesAre DEF Zombie!ReadTable, Unaddressed!ReadTable, ZombiesInv
<1>2. DOMAIN zombies' = {} /\ zombies' \in Seq(ZombieRecords) /\ 1..(at' - 1) = {}
  BY <1>1
<1> QED
  BY <1>1, <1>2 DEF ZombiesInv

\* What others do.
LEMMA ZombiesOthers ==
    ASSUME ZombiesInv, Zombie!Exit \/ Unaddressed!Exit \/ Zombie!Reuse \/ Unaddressed!Reuse
    PROVE  ZombiesInv' /\ UNCHANGED zombies
<1>1. UNCHANGED <<table, before, at, live, zombies>>
  BY DEF Zombie!Exit, Unaddressed!Exit, Zombie!Reuse, Unaddressed!Reuse, Zombie!scanVars, Unaddressed!scanVars
<1>2. \A h : IsOfOther(h)' = IsOfOther(h)
  BY <1>1 DEF IsOfOther
<1>3. CASE Zombie!Exit \/ Unaddressed!Exit
  <2>1. UNCHANGED <<held, reuses>> /\ exited \subseteq exited' /\ exited' \subseteq ProcessObjects
    BY <1>3, SameTellings DEF Zombie!Exit, Unaddressed!Exit, ZombiesInv, ProcessObjects
  <2> QED
    BY <1>1, <1>2, <2>1 DEF ZombiesInv
<1>4. CASE Zombie!Reuse \/ Unaddressed!Reuse
  <2>1. reuses < MaxReuses /\ reuses' = reuses + 1 /\ UNCHANGED exited
    BY <1>4 DEF Zombie!Reuse, Unaddressed!Reuse
  <2>2. reuses' \in 0..MaxReuses /\ reuses' # 0
    <3>1. MaxReuses \in Nat
      BY QueryAssumption
    <3> QED
      BY <2>1, <3>1 DEF ZombiesInv
  <2>3. held' \in [TableEntries -> DOMAIN Objects \cup {"closed"}]
    <3>1. PICK handle \in TableEntries, object \in DOMAIN Objects \cup {"closed"} : held' = [held EXCEPT ![handle] = object]
      BY <1>4, EntriesAre DEF Zombie!Reuse, Unaddressed!Reuse, Zombie!Closed, Unaddressed!Closed
    <3> QED
      BY <3>1 DEF ZombiesInv
  <2> QED
    BY <1>1, <2>1, <2>2, <2>3 DEF ZombiesInv
<1> QED
  BY <1>1, <1>3, <1>4

ZombieInv == ZombiesInv /\ ObjectOnce
UnaddressedInv == ZombiesInv /\ TimesOnce

LEMMA ZombieStep == ZombieInv /\ [Zombie!Next]_Zombie!zombieVars => ZombieInv'
<1> SUFFICES ASSUME ZombiesInv, ObjectOnce, [Zombie!Next]_Zombie!zombieVars PROVE ZombiesInv' /\ ObjectOnce'
  BY DEF ZombieInv
<1>1. CASE Zombie!Scan
  <2>1. /\ Scanned
        /\ (\E k : Held(k)) \/ zombies' = zombies \/ (Added /\ \A i \in DOMAIN zombies : zombies[i].object # table[at])
    BY <1>1, ZombieScans
  <2>2. ObjectOnce'
    <3>1. CASE zombies' = zombies
      BY <3>1 DEF ObjectOnce
    <3>2. CASE \E k : Held(k)
      <4>1. DOMAIN zombies' = DOMAIN zombies /\ \A i \in DOMAIN zombies : zombies'[i].object = zombies[i].object
        BY <3>2, HeldStays
      <4> QED
        BY <4>1 DEF ObjectOnce
    <3>3. CASE Added /\ \A i \in DOMAIN zombies : zombies[i].object # table[at]
      <4>1. PICK n : /\ DOMAIN zombies' = DOMAIN zombies \cup {n} /\ n \notin DOMAIN zombies /\ zombies'[n].object = table[at]
                     /\ \A i \in DOMAIN zombies : zombies'[i] = zombies[i]
        BY <3>3, AddedIsLast
      <4> QED
        BY <3>3, <4>1 DEF ObjectOnce
    <3> QED
      BY <2>1, <3>1, <3>2, <3>3
  <2> QED
    BY <2>1, <2>2, ZombiesScan
<1>2. CASE Zombie!ReadTable
  BY <1>2, ZombiesRead DEF Zombie!ReadTable, ObjectOnce
<1>3. CASE Zombie!Exit \/ Zombie!Reuse
  BY <1>3, ZombiesOthers DEF ObjectOnce
<1>4. CASE UNCHANGED Zombie!zombieVars
  BY <1>4 DEF Zombie!zombieVars, ZombiesInv, ObjectOnce, IsOfOther
<1> QED
  BY <1>1, <1>2, <1>3, <1>4 DEF Zombie!Next

LEMMA UnaddressedStep == UnaddressedInv /\ [Unaddressed!Next]_Unaddressed!zombieVars => UnaddressedInv'
<1> SUFFICES ASSUME ZombiesInv, TimesOnce, [Unaddressed!Next]_Unaddressed!zombieVars PROVE ZombiesInv' /\ TimesOnce'
  BY DEF UnaddressedInv
<1>1. CASE Unaddressed!Scan
  <2> DEFINE New == \A i \in DOMAIN zombies :
                      ~(zombies[i].pid = Zombie!GetProcessId(held[at]) /\ zombies[i].created = Zombie!Created(held[at]))
  <2>1. Scanned /\ ((\E k : Held(k)) \/ zombies' = zombies \/ (Added /\ New))
    BY <1>1, UnaddressedScans
  <2>2. TimesOnce'
    <3>1. CASE zombies' = zombies
      BY <3>1 DEF TimesOnce
    <3>2. CASE \E k : Held(k)
      <4>1. /\ DOMAIN zombies' = DOMAIN zombies
            /\ \A i \in DOMAIN zombies : zombies'[i].pid = zombies[i].pid /\ zombies'[i].created = zombies[i].created
        BY <3>2, HeldStays
      <4> QED
        BY <4>1 DEF TimesOnce
    <3>3. CASE Added /\ New
      <4>1. PICK n : /\ DOMAIN zombies' = DOMAIN zombies \cup {n} /\ n \notin DOMAIN zombies
                     /\ zombies'[n].pid = Zombie!GetProcessId(held[at]) /\ zombies'[n].created = Zombie!Created(held[at])
                     /\ \A i \in DOMAIN zombies : zombies'[i] = zombies[i]
        BY <3>3, AddedIsLast
      <4> QED
        BY <3>3, <4>1 DEF TimesOnce
    <3> QED
      BY <2>1, <3>1, <3>2, <3>3
  <2> QED
    BY <2>1, <2>2, ZombiesScan
<1>2. CASE Unaddressed!ReadTable
  BY <1>2, ZombiesRead DEF Unaddressed!ReadTable, TimesOnce
<1>3. CASE Unaddressed!Exit \/ Unaddressed!Reuse
  BY <1>3, ZombiesOthers DEF TimesOnce
<1>4. CASE UNCHANGED Unaddressed!zombieVars
  BY <1>4 DEF Unaddressed!zombieVars, ZombiesInv, TimesOnce, IsOfOther
<1> QED
  BY <1>1, <1>2, <1>3, <1>4 DEF Unaddressed!Next

LEMMA ZombieInit == (Zombie!Init => ZombieInv) /\ (Unaddressed!Init => UnaddressedInv)
<1> SUFFICES ASSUME Zombie!Init \/ Unaddressed!Init PROVE ZombieInv /\ UnaddressedInv
  OBVIOUS
<1>1. /\ held \in [TableEntries -> DOMAIN Objects] /\ exited \subseteq ProcessObjects
      /\ table = <<>> /\ before = {} /\ at = Len(ObjectHandles) + 1 /\ live = {} /\ zombies = <<>> /\ reuses = 0
  BY EntriesAre, SameTellings DEF Zombie!Init, Unaddressed!Init, ProcessObjects
<1>2. /\ DOMAIN zombies = {} /\ zombies \in Seq(ZombieRecords)
      /\ at \in 1..(Len(ObjectHandles) + 1) /\ reuses \in 0..MaxReuses
  <2>1. MaxReuses \in Nat /\ Len(ObjectHandles) \in Nat
    BY QueryAssumption, EntriesAre
  <2> QED
    BY <1>1, <2>1
<1>3. held \in [TableEntries -> DOMAIN Objects \cup {"closed"}]
  BY <1>1
<1> QED
  BY <1>1, <1>2, <1>3 DEF ZombieInv, UnaddressedInv, ZombiesInv, ObjectOnce, TimesOnce

\* What the invariants say of what is found.
LEMMA ZombiesKept ==
    ASSUME ZombiesInv, reuses = 0 => ObjectOnce
    PROVE  Zombie!TypeOK /\ Zombie!EachZombieOnce /\ Unaddressed!TypeOK /\ Unaddressed!EachZombieOnce
<1>1. Zombie!TypeOK /\ Unaddressed!TypeOK
  BY EntriesAre DEF ZombiesInv, ProcessObjects, Zombie!TypeOK, Unaddressed!TypeOK, Zombie!Closed, Unaddressed!Closed
<1>2. ASSUME reuses = 0, table # <<>>
      PROVE  /\ \A i \in DOMAIN zombies :
                 /\ zombies[i].object \in exited /\ zombies[i].holders \subseteq Zombie!Kept(zombies[i].object)
                 /\ \A j \in DOMAIN zombies : zombies[i].object = zombies[j].object => i = j
             /\ at = Len(ObjectHandles) + 1 => \A object \in before : Zombie!HoldersOf(object) # {} => \E i \in DOMAIN zombies : zombies[i].object = object
  <2>1. /\ table = held
        /\ \A i \in DOMAIN zombies : zombies[i].object \in exited /\ \A h \in zombies[i].holders : table[h] = zombies[i].object
        /\ \A h \in 1..(at - 1) : table[h] \in before /\ IsOfOther(h) /\ ObjectHandles[h].owner \in Openable =>
                \E i \in DOMAIN zombies : zombies[i].object = table[h]
        /\ \A i \in DOMAIN zombies : zombies[i].holders \subseteq 1..(at - 1) /\ \A h \in zombies[i].holders : ObjectHandles[h].owner # Self
        /\ before \subseteq ProcessObjects /\ at \in 1..(Len(ObjectHandles) + 1)
    BY <1>2 DEF ZombiesInv
  <2>2. 1..(at - 1) \subseteq TableEntries
    BY <2>1, EntriesAre DEF TableEntries
  <2>3. \A i \in DOMAIN zombies : zombies[i].holders \subseteq Zombie!Kept(zombies[i].object)
    BY <2>1, <2>2, EntriesAre DEF Zombie!Kept
  <2>4. ASSUME at = Len(ObjectHandles) + 1, NEW object \in before, Zombie!HoldersOf(object) # {}
        PROVE  \E i \in DOMAIN zombies : zombies[i].object = object
    <3>1. PICK h \in TableEntries : table[h] = object /\ ObjectHandles[h].owner # Self /\ ObjectHandles[h].owner \in Openable
      BY <2>4, EntriesAre DEF Zombie!HoldersOf, Zombie!Kept
    <3>2. h \in 1..(at - 1) /\ IsOfOther(h)
      BY <2>1, <2>4, <3>1, EntriesAre DEF TableEntries, IsOfOther, ProcessObjects
    <3> QED
      BY <2>1, <2>4, <3>1, <3>2
  <2> QED
    BY <1>2, <2>1, <2>3, <2>4 DEF ObjectOnce
<1>3. /\ \A o : Unaddressed!Kept(o) = Zombie!Kept(o)
      /\ \A o : Unaddressed!HoldersOf(o) = Zombie!HoldersOf(o)
  BY DEF Unaddressed!Kept, Zombie!Kept, Unaddressed!HoldersOf, Zombie!HoldersOf
<1>4. Zombie!EachZombieOnce
  BY <1>2, EntriesAre DEF Zombie!EachZombieOnce, Zombie!Found
<1>5. Unaddressed!EachZombieOnce
  BY <1>2, <1>3, EntriesAre DEF Unaddressed!EachZombieOnce, Unaddressed!Found
<1> QED
  BY <1>1, <1>4, <1>5

LEMMA ZombieKept == ZombieInv => Zombie!TypeOK /\ Zombie!EachZombieOnce
BY ZombiesKept DEF ZombieInv

LEMMA UnaddressedKept == UnaddressedInv => Unaddressed!TypeOK /\ Unaddressed!EachZombieOnce
<1> SUFFICES ASSUME ZombiesInv, TimesOnce PROVE Unaddressed!TypeOK /\ Unaddressed!EachZombieOnce
  BY DEF UnaddressedInv
<1>1. CASE table = <<>>
  BY <1>1, ZombiesKept DEF ZombiesInv, ObjectOnce
<1>2. CASE table # <<>>
  <2>1. reuses = 0 => \A i \in DOMAIN zombies :
          zombies[i].pid = Zombie!GetProcessId(zombies[i].object) /\ zombies[i].created = Zombie!Created(zombies[i].object)
    BY <1>2 DEF ZombiesInv
  <2>2. reuses = 0 => ObjectOnce
    BY <2>1 DEF ObjectOnce, TimesOnce
  <2> QED
    BY <2>2, ZombiesKept
<1> QED
  BY <1>1, <1>2


-----------------------------------------------------------------------------
(* COM servers.                                                              *)

Positions == {"rest", "app", "indexed", "packaged", "class", "complus", "local", "end"}
Counts == {0, 1} \cup {Com!Cardinality(classes) : classes \in SUBSET Com!LocalClasses}
CallerRecords ==
    [kind : {"app", "local"}, at : Positions, found : {"Unknown", "Classic", "Packaged", "ComPlus"}, classes : Counts,
     named : BOOLEAN, since : Nat]
Indexed == {"indexed"} \cup Com!LocalClasses
IndexRecords == [built : BOOLEAN, tick : Nat, classes : SUBSET Indexed]
Waited(c, what, age) == registered[what] # 0 /\ c.since > registered[what] + age

\* A caller that has found nothing was told so by each place it is past.
CallerInv(c) ==
    /\ c \in CallerRecords /\ c.since <= now
    /\ c.found = "Unknown" => c.classes = 0 /\ c.named = FALSE
    /\ c.at \in {"app", "indexed", "packaged", "class", "complus"} => c.kind = "app"
    /\ c.at = "local" => c.kind = "local"
    /\ c.found = "Unknown" /\ c.kind = "app" =>
        /\ c.at \in {"indexed", "packaged", "class", "complus", "end"} => ~Waited(c, "app", 0)
        /\ c.at \in {"packaged", "class", "complus", "end"} => ~Waited(c, "indexed", IndexRefresh)
        /\ c.at \in {"class", "complus", "end"} => ~Waited(c, "packaged", 0)
        /\ c.at \in {"complus", "end"} => ~Waited(c, "class", 0)
    /\ c.found = "Unknown" /\ c.kind = "local" /\ c.at = "end" => \A k \in Com!LocalClasses : ~Waited(c, k, IndexRefresh)

\* The index has the classes registered before it was built and since.
IndexInv(i) ==
    /\ i \in IndexRecords /\ i.tick <= now /\ (i.classes # {} => i.built = TRUE)
    /\ i.built = TRUE => \A k \in Indexed : registered[k] # 0 /\ registered[k] < i.tick => k \in i.classes
ComInv ==
    /\ now \in Nat /\ registered \in [Com!Registrable -> Nat] /\ \A what \in Com!Registrable : registered[what] <= now
    /\ IndexInv(index)
    /\ s_ComPlus # {} => comPlusLoaded = TRUE
    /\ caller \in [Callers -> CallerRecords] /\ \A t \in Callers : CallerInv(caller[t])

LEMMA PlacesOfIds ==
    /\ {"app", "indexed", "packaged", "class", "complus"} \subseteq Com!Registrable
    /\ Indexed \subseteq Com!Registrable /\ Com!LocalClasses \subseteq Indexed /\ "indexed" \in Indexed
<1>1. {"app", "indexed", "packaged", "class", "complus"} \subseteq Com!Registrable
  <2>1. /\ 1 \in DOMAIN Com!Sources /\ 2 \in DOMAIN Com!Sources /\ 3 \in DOMAIN Com!Sources /\ 4 \in DOMAIN Com!Sources
        /\ 5 \in DOMAIN Com!Sources
    BY DEF Com!Sources
  <2>2. /\ Com!Sources[1] = "app" /\ Com!Sources[2] = "indexed" /\ Com!Sources[3] = "packaged" /\ Com!Sources[4] = "class"
        /\ Com!Sources[5] = "complus"
    BY DEF Com!Sources
  <2> QED
    BY <2>1, <2>2 DEF Com!Registrable
<1> QED
  BY <1>1 DEF Com!Registrable, Indexed

LEMMA RefreshIsNat == IndexRefresh \in Nat
BY QueryAssumption

\* The index that was looked in, and what it does not have.
LEMMA LookedIs ==
    ASSUME ComInv, NEW keys \in SUBSET Indexed
    PROVE  /\ IndexInv(Com!Looked(keys))
           /\ Com!Looked(keys).classes \cap keys = {} =>
                \A c \in CallerRecords : c.since <= now => \A k \in keys : ~Waited(c, k, IndexRefresh)
<1> DEFINE new == Com!BuildIndex
           found == Com!Looked(keys)
<1>1. now \in Nat /\ IndexInv(index) /\ IndexRefresh \in Nat
      /\ \A k \in Indexed : registered[k] \in Nat /\ registered[k] <= now
  BY PlacesOfIds, RefreshIsNat DEF ComInv
<1>2. IndexInv(new) /\ \A k \in Indexed : registered[k] # 0 => k \in new.classes
  <2>1. new = [built |-> TRUE, tick |-> now, classes |-> {c \in Indexed : registered[c] # 0}]
    BY DEF Com!BuildIndex, Com!Is, Indexed
  <2> DEFINE has == {c \in Indexed : registered[c] # 0}
  <2>2. has \in SUBSET Indexed /\ \A k \in Indexed : registered[k] # 0 => k \in has
    OBVIOUS
  <2> HIDE DEF has
  <2>3. new \in IndexRecords /\ new.built = TRUE /\ new.tick = now /\ new.classes = has
    BY <1>1, <2>1, <2>2 DEF IndexRecords, has
  <2> HIDE DEF new
  <2> QED
    BY <1>1, <2>2, <2>3 DEF IndexInv
<1>3. \/ found = new
      \/ found = index /\ index.built = TRUE /\ (index.classes \cap keys = {} => ~(now - index.tick > IndexRefresh))
  <2>1. index.built \in BOOLEAN
    BY <1>1 DEF IndexInv, IndexRecords
  <2> HIDE DEF new
  <2> QED
    BY <2>1 DEF Com!Looked, Com!GetIndex, new
<1> HIDE DEF new, found
<1>4. CASE found = new
  <2>1. found.classes \cap keys = {} => \A k \in keys : registered[k] = 0
    BY <1>2, <1>4
  <2> QED
    BY <1>2, <1>4, <2>1 DEF Waited, found
<1>5. CASE found = index /\ index.built = TRUE /\ (index.classes \cap keys = {} => ~(now - index.tick > IndexRefresh))
  <2>1. ASSUME index.classes \cap keys = {}, NEW c \in CallerRecords, c.since <= now, NEW k \in keys, Waited(c, k, IndexRefresh)
        PROVE  FALSE
    <3>1. PICK since \in Nat, r \in Nat, tick \in Nat : since = c.since /\ r = registered[k] /\ tick = index.tick
      BY <1>1 DEF IndexInv, IndexRecords, CallerRecords
    <3>2. since <= now /\ since > r + IndexRefresh /\ ~(now - tick > IndexRefresh)
      BY <1>5, <2>1, <3>1 DEF Waited
    <3>3. r < tick
      BY <1>1, <3>1, <3>2
    <3>4. k \in index.classes
      BY <1>1, <1>5, <2>1, <3>1, <3>3 DEF IndexInv, Waited
    <3> QED
      BY <2>1, <3>4
  <2> QED
    BY <1>1, <1>5, <2>1 DEF found
<1> QED
  BY <1>3, <1>4, <1>5

\* A caller that goes on, and one that has found what it looked for.
LEMMA CallerGoes ==
    ASSUME ComInv, NEW t \in Callers, NEW place \in Positions
    PROVE  LET c == [caller[t] EXCEPT !.at = place]
           IN  /\ c \in CallerRecords /\ c.at = place /\ c.kind = caller[t].kind /\ c.found = caller[t].found
               /\ c.classes = caller[t].classes /\ c.named = caller[t].named /\ c.since = caller[t].since
<1>1. PICK c \in CallerRecords : c = caller[t]
  BY DEF ComInv
<1>2. LET d == [c EXCEPT !.at = place]
      IN  /\ d \in CallerRecords /\ d.at = place /\ d.kind = c.kind /\ d.found = c.found
          /\ d.classes = c.classes /\ d.named = c.named /\ d.since = c.since
  BY Zenon DEF CallerRecords
<1> QED
  BY <1>1, <1>2

Started(place, time) == [Com!NoCaller EXCEPT !.kind = place, !.at = place, !.since = time]
LEMMA CallerStarts ==
    ASSUME NEW place \in {"app", "local"}, NEW time \in Nat
    PROVE  /\ Started(place, time) \in CallerRecords /\ Started(place, time).kind = place /\ Started(place, time).at = place
           /\ Started(place, time).classes = 0 /\ Started(place, time).named = FALSE /\ Started(place, time).since = time
<1>0. Com!NoCaller \in CallerRecords
  BY DEF Com!NoCaller, CallerRecords, Positions, Counts
<1>1. PICK r \in CallerRecords : r = Com!NoCaller /\ r.classes = 0 /\ r.named = FALSE
  BY <1>0 DEF Com!NoCaller
<1>2. place \in Positions
  BY DEF Positions
<1>3. LET d == [r EXCEPT !.kind = place, !.at = place, !.since = time]
      IN  d \in CallerRecords /\ d.kind = place /\ d.at = place /\ d.classes = r.classes /\ d.named = r.named /\ d.since = time
  BY <1>2, Zenon DEF CallerRecords
<1> QED
  BY <1>1, <1>3 DEF Started

LEMMA CallerFinds ==
    ASSUME ComInv, NEW t \in Callers, NEW place \in {"indexed", "end"}, NEW kind \in {"Classic", "Packaged", "ComPlus"},
           NEW count \in Counts, NEW name \in BOOLEAN, caller[t].at \in {"app", "indexed", "packaged", "class", "complus", "local"},
           place = "indexed" => caller[t].at = "app"
    PROVE  CallerInv([caller[t] EXCEPT !.at = place, !.found = kind, !.classes = count, !.named = name])
<1>1. PICK c \in CallerRecords : c = caller[t] /\ CallerInv(c)
  BY DEF ComInv
<1> DEFINE d == [c EXCEPT !.at = place, !.found = kind, !.classes = count, !.named = name]
<1>2. place \in Positions
  BY DEF Positions
<1>3. d \in CallerRecords /\ d.at = place /\ d.kind = c.kind /\ d.found = kind /\ d.since = c.since
  BY <1>2, Zenon DEF CallerRecords
<1>4. d = [caller[t] EXCEPT !.at = place, !.found = kind, !.classes = count, !.named = name]
  BY <1>1
<1> HIDE DEF d
<1>5. CallerInv(d)
  BY <1>1, <1>3 DEF CallerInv
<1> QED
  BY <1>4, <1>5

\* A caller's step is its own.
LEMMA CallerMoves ==
    ASSUME ComInv, NEW t \in Callers, NEW c, CallerInv(c), caller' = [caller EXCEPT ![t] = c],
           UNCHANGED <<registered, now>>, IndexInv(index'), s_ComPlus' # {} => comPlusLoaded' = TRUE
    PROVE  ComInv'
<1>1. \A d : CallerInv(d)' <=> CallerInv(d)
  BY DEF CallerInv, Waited
<1>2. caller' \in [Callers -> CallerRecords] /\ caller'[t] = c /\ \A u \in Callers \ {t} : caller'[u] = caller[u]
  BY DEF ComInv, CallerInv
<1>3. \A u \in Callers : CallerInv(caller'[u])
  BY <1>2 DEF ComInv
<1>4. \A u \in Callers : CallerInv(caller[u])'
  BY <1>3 DEF CallerInv, Waited
<1>5. IndexInv(index)'
  BY DEF IndexInv
<1> QED
  BY <1>2, <1>4, <1>5 DEF ComInv

LEMMA ComCalls == ASSUME ComInv, NEW t \in Callers, Com!Identify(t) \/ Com!Step(t) PROVE ComInv'
<1>0. /\ caller[t] \in CallerRecords /\ CallerInv(caller[t]) /\ IndexInv(index) /\ now \in Nat
      /\ \A what \in Com!Registrable : registered[what] \in Nat
      /\ s_ComPlus # {} => comPlusLoaded = TRUE
  BY DEF ComInv
<1>1. CASE Com!Identify(t)
  <2>1. PICK place \in {"app", "local"} : caller' = [caller EXCEPT ![t] = [Com!NoCaller EXCEPT !.kind = place, !.at = place, !.since = now]]
    BY <1>1 DEF Com!Identify
  <2> DEFINE c == Started(place, now)
  <2>2. caller' = [caller EXCEPT ![t] = c] /\ place \in {"app", "local"}
    BY <2>1 DEF Started
  <2>n. PICK time \in Nat : time = now
    BY <1>0
  <2>3. c \in CallerRecords /\ c.kind = place /\ c.at = place /\ c.classes = 0 /\ c.named = FALSE /\ c.since = now
    <3>1. place \in {"app", "local"} /\ time \in Nat
      BY <2>2, <2>n
    <3>2. /\ Started(place, time) \in CallerRecords /\ Started(place, time).kind = place /\ Started(place, time).at = place
          /\ Started(place, time).classes = 0 /\ Started(place, time).named = FALSE /\ Started(place, time).since = time
      BY <3>1, CallerStarts
    <3> QED
      BY <2>n, <3>2
  <2> HIDE DEF c
  <2>4. CallerInv(c)
    BY <1>0, <2>3 DEF CallerInv
  <2>5. caller' = [caller EXCEPT ![t] = c] /\ UNCHANGED <<registered, now, index, comPlusLoaded, s_ComPlus>>
    BY <1>1, <2>2 DEF Com!Identify
  <2> QED
    BY <1>0, <2>4, <2>5, CallerMoves
<1>2. CASE Com!ReadAppId(t)
  <2>1. caller[t].at = "app" /\ UNCHANGED <<registered, now, index, comPlusLoaded, s_ComPlus>>
    BY <1>2 DEF Com!ReadAppId
  <2>2. CASE registered["app"] # 0
    <3> DEFINE c == [caller[t] EXCEPT !.at = "indexed", !.found = "Classic", !.classes = 0, !.named = TRUE]
    <3>1. caller' = [caller EXCEPT ![t] = c]
      BY <1>2, <2>2 DEF Com!ReadAppId, Com!Is, Com!Finds
    <3>2. 0 \in Counts
      BY DEF Counts
    <3>3. CallerInv(c)
      BY <2>1, <3>2, CallerFinds
    <3> HIDE DEF c
    <3> QED
      BY <1>0, <2>1, <3>1, <3>3, CallerMoves
  <2>3. CASE registered["app"] = 0
    <3> DEFINE c == [caller[t] EXCEPT !.at = "indexed"]
    <3>1. caller' = [caller EXCEPT ![t] = c]
      BY <1>2, <2>3 DEF Com!ReadAppId, Com!Is, Com!GoesOn
    <3>2. "indexed" \in Positions
      BY DEF Positions
    <3>3. /\ c \in CallerRecords /\ c.at = "indexed" /\ c.kind = caller[t].kind /\ c.found = caller[t].found
          /\ c.classes = caller[t].classes /\ c.named = caller[t].named /\ c.since = caller[t].since
      BY <3>2, CallerGoes
    <3> HIDE DEF c
    <3>4. CallerInv(c)
      BY <1>0, <2>1, <2>3, <3>3 DEF CallerInv, Waited
    <3> QED
      BY <1>0, <2>1, <3>1, <3>4, CallerMoves
  <2> QED
    BY <2>2, <2>3
<1>3. CASE Com!FindByAppId(t)
  <2>1. /\ caller[t].at = "indexed" /\ UNCHANGED <<registered, now, comPlusLoaded, s_ComPlus>>
        /\ index' = Com!Looked({"indexed"})
    BY <1>3 DEF Com!FindByAppId
  <2>2. {"indexed"} \in SUBSET Indexed
    BY PlacesOfIds
  <2>3. /\ IndexInv(index')
        /\ "indexed" \notin index'.classes => ~Waited(caller[t], "indexed", IndexRefresh)
    <3>1. /\ IndexInv(index')
          /\ index'.classes \cap {"indexed"} = {} =>
                \A c \in CallerRecords : c.since <= now => \A k \in {"indexed"} : ~Waited(c, k, IndexRefresh)
      BY <2>1, <2>2, LookedIs
    <3>2. caller[t].since <= now
      BY <1>0 DEF CallerInv
    <3> QED
      BY <1>0, <3>1, <3>2
  <2>4. CASE "indexed" \in index'.classes
    <3> DEFINE c == [caller[t] EXCEPT !.at = "end", !.found = "Classic", !.classes = 1, !.named = TRUE]
    <3>1. caller' = [caller EXCEPT ![t] = c]
      BY <1>3, <2>4 DEF Com!FindByAppId, Com!Finds
    <3>2. 1 \in Counts
      BY DEF Counts
    <3>3. CallerInv(c)
      BY <2>1, <3>2, CallerFinds
    <3> HIDE DEF c
    <3> QED
      BY <1>0, <2>1, <2>3, <3>1, <3>3, CallerMoves
  <2>5. CASE "indexed" \notin index'.classes
    <3> DEFINE place == IF caller[t].found = "Unknown" THEN "packaged" ELSE "end"
               c == [caller[t] EXCEPT !.at = place]
    <3>1. caller' = [caller EXCEPT ![t] = c]
      BY <1>3, <2>5 DEF Com!FindByAppId, Com!GoesOn
    <3>2. place \in Positions /\ (place = "packaged" \/ (place = "end" /\ caller[t].found # "Unknown"))
      BY DEF Positions
    <3> HIDE DEF place
    <3>3. /\ c \in CallerRecords /\ c.at = place /\ c.kind = caller[t].kind /\ c.found = caller[t].found
          /\ c.classes = caller[t].classes /\ c.named = caller[t].named /\ c.since = caller[t].since
      BY <3>2, CallerGoes
    <3> HIDE DEF c
    <3>4. CallerInv(c)
      BY <1>0, <2>1, <2>3, <2>5, <3>2, <3>3 DEF CallerInv, Waited
    <3> QED
      BY <1>0, <2>1, <2>3, <3>1, <3>4, CallerMoves
  <2> QED
    BY <2>4, <2>5
<1>4. CASE Com!FindPackaged(t)
  <2>1. caller[t].at = "packaged" /\ UNCHANGED <<registered, now, index, comPlusLoaded, s_ComPlus>>
    BY <1>4 DEF Com!FindPackaged
  <2>2. CASE registered["packaged"] # 0
    <3> DEFINE c == [caller[t] EXCEPT !.at = "end", !.found = "Packaged", !.classes = 1, !.named = TRUE]
    <3>1. caller' = [caller EXCEPT ![t] = c]
      BY <1>4, <2>2 DEF Com!FindPackaged, Com!Is, Com!Finds
    <3>2. 1 \in Counts
      BY DEF Counts
    <3>3. CallerInv(c)
      BY <2>1, <3>2, CallerFinds
    <3> HIDE DEF c
    <3> QED
      BY <1>0, <2>1, <3>1, <3>3, CallerMoves
  <2>3. CASE registered["packaged"] = 0
    <3> DEFINE c == [caller[t] EXCEPT !.at = "class"]
    <3>1. caller' = [caller EXCEPT ![t] = c]
      BY <1>4, <2>3 DEF Com!FindPackaged, Com!Is, Com!GoesOn
    <3>2. "class" \in Positions
      BY DEF Positions
    <3>3. /\ c \in CallerRecords /\ c.at = "class" /\ c.kind = caller[t].kind /\ c.found = caller[t].found
          /\ c.classes = caller[t].classes /\ c.named = caller[t].named /\ c.since = caller[t].since
      BY <3>2, CallerGoes
    <3> HIDE DEF c
    <3>4. CallerInv(c)
      BY <1>0, <2>1, <2>3, <3>3 DEF CallerInv, Waited
    <3> QED
      BY <1>0, <2>1, <3>1, <3>4, CallerMoves
  <2> QED
    BY <2>2, <2>3
<1>5. CASE Com!FindClass(t)
  <2>1. caller[t].at = "class" /\ UNCHANGED <<registered, now, index, comPlusLoaded, s_ComPlus>>
    BY <1>5 DEF Com!FindClass
  <2>2. CASE registered["class"] # 0
    <3> DEFINE c == [caller[t] EXCEPT !.at = "end", !.found = "Classic", !.classes = 1, !.named = TRUE]
    <3>1. caller' = [caller EXCEPT ![t] = c]
      BY <1>5, <2>2 DEF Com!FindClass, Com!Is, Com!Finds
    <3>2. 1 \in Counts
      BY DEF Counts
    <3>3. CallerInv(c)
      BY <2>1, <3>2, CallerFinds
    <3> HIDE DEF c
    <3> QED
      BY <1>0, <2>1, <3>1, <3>3, CallerMoves
  <2>3. CASE registered["class"] = 0
    <3> DEFINE c == [caller[t] EXCEPT !.at = "complus"]
    <3>1. caller' = [caller EXCEPT ![t] = c]
      BY <1>5, <2>3 DEF Com!FindClass, Com!Is, Com!GoesOn
    <3>2. "complus" \in Positions
      BY DEF Positions
    <3>3. /\ c \in CallerRecords /\ c.at = "complus" /\ c.kind = caller[t].kind /\ c.found = caller[t].found
          /\ c.classes = caller[t].classes /\ c.named = caller[t].named /\ c.since = caller[t].since
      BY <3>2, CallerGoes
    <3> HIDE DEF c
    <3>4. CallerInv(c)
      BY <1>0, <2>1, <2>3, <3>3 DEF CallerInv, Waited
    <3> QED
      BY <1>0, <2>1, <3>1, <3>4, CallerMoves
  <2> QED
    BY <2>2, <2>3
<1>6. CASE Com!FindComPlus(t)
  <2>1. caller[t].at = "complus" /\ UNCHANGED <<registered, now, index>>
    BY <1>6 DEF Com!FindComPlus
  <2>2. s_ComPlus' # {} => comPlusLoaded' = TRUE
    BY <1>0, <1>6 DEF Com!FindComPlus
  <2>3. CASE s_ComPlus' # {}
    <3> DEFINE c == [caller[t] EXCEPT !.at = "end", !.found = "ComPlus", !.classes = 0, !.named = TRUE]
    <3>1. caller' = [caller EXCEPT ![t] = c]
      BY <1>6, <2>3 DEF Com!FindComPlus, Com!Finds
    <3>2. 0 \in Counts
      BY DEF Counts
    <3>3. CallerInv(c)
      BY <2>1, <3>2, CallerFinds
    <3> HIDE DEF c
    <3> QED
      BY <1>0, <2>1, <2>2, <3>1, <3>3, CallerMoves
  <2>4. CASE s_ComPlus' = {}
    <3> DEFINE c == [caller[t] EXCEPT !.at = "end"]
    <3>1. caller' = [caller EXCEPT ![t] = c]
      BY <1>6, <2>4 DEF Com!FindComPlus, Com!GoesOn
    <3>2. "end" \in Positions
      BY DEF Positions
    <3>3. /\ c \in CallerRecords /\ c.at = "end" /\ c.kind = caller[t].kind /\ c.found = caller[t].found
          /\ c.classes = caller[t].classes /\ c.named = caller[t].named /\ c.since = caller[t].since
      BY <3>2, CallerGoes
    <3> HIDE DEF c
    <3>4. CallerInv(c)
      BY <1>0, <2>1, <3>3 DEF CallerInv, Waited
    <3> QED
      BY <1>0, <2>1, <2>2, <3>1, <3>4, CallerMoves
  <2> QED
    BY <2>3, <2>4
<1>7. CASE Com!FindLocal(t)
  <2>1. /\ caller[t].at = "local" /\ UNCHANGED <<registered, now, comPlusLoaded, s_ComPlus>>
        /\ index' = Com!Looked(Com!LocalClasses)
    BY <1>7 DEF Com!FindLocal
  <2> DEFINE classes == index'.classes \cap Com!LocalClasses
  <2>2. /\ IndexInv(index')
        /\ classes = {} => \A k \in Com!LocalClasses : ~Waited(caller[t], k, IndexRefresh)
    <3>0. Com!LocalClasses \in SUBSET Indexed
      BY PlacesOfIds
    <3>1. /\ IndexInv(index')
          /\ classes = {} =>
                \A c \in CallerRecords : c.since <= now => \A k \in Com!LocalClasses : ~Waited(c, k, IndexRefresh)
      BY <2>1, <3>0, LookedIs
    <3>2. caller[t].since <= now
      BY <1>0 DEF CallerInv
    <3> QED
      BY <1>0, <3>1, <3>2
  <2>3. ASSUME NEW kind \in {"Classic", "Packaged"}, NEW count \in Counts, NEW name \in BOOLEAN,
               caller' = [caller EXCEPT ![t] = [caller[t] EXCEPT !.at = "end", !.found = kind, !.classes = count, !.named = name]]
        PROVE  ComInv'
    <3> DEFINE c == [caller[t] EXCEPT !.at = "end", !.found = kind, !.classes = count, !.named = name]
    <3>1. CallerInv(c)
      BY <2>1, CallerFinds
    <3>2. caller' = [caller EXCEPT ![t] = c]
      BY <2>3
    <3> HIDE DEF c
    <3> QED
      BY <1>0, <2>1, <2>2, <3>1, <3>2, CallerMoves
  <2>4. CASE classes = {} /\ Com!GoesOn(t, "end")
    <3> DEFINE c == [caller[t] EXCEPT !.at = "end"]
    <3>1. caller' = [caller EXCEPT ![t] = c]
      BY <2>4 DEF Com!GoesOn
    <3>2. "end" \in Positions
      BY DEF Positions
    <3>3. /\ c \in CallerRecords /\ c.at = "end" /\ c.kind = caller[t].kind /\ c.found = caller[t].found
          /\ c.classes = caller[t].classes /\ c.named = caller[t].named /\ c.since = caller[t].since
      BY <3>2, CallerGoes
    <3> HIDE DEF c
    <3>4. CallerInv(c)
      BY <1>0, <2>1, <2>2, <2>4, <3>3 DEF CallerInv, Waited
    <3> QED
      BY <1>0, <2>1, <2>2, <3>1, <3>4, CallerMoves
  <2>5. CASE classes = {} /\ Com!Finds(t, "end", "Packaged", 1)
    <3>1. caller' = [caller EXCEPT ![t] = [caller[t] EXCEPT !.at = "end", !.found = "Packaged", !.classes = 1, !.named = TRUE]]
      BY <2>5 DEF Com!Finds
    <3>2. 1 \in Counts
      BY DEF Counts
    <3> QED
      BY <2>3, <3>1, <3>2
  <2>6. CASE classes # {}
    <3>1. PICK name \in BOOLEAN :
            caller' = [caller EXCEPT ![t] = [caller[t] EXCEPT !.at = "end", !.found = "Classic",
                                                             !.classes = Com!Cardinality(classes), !.named = name]]
      BY <1>7, <2>6 DEF Com!FindLocal
    <3>2. Com!Cardinality(classes) \in Counts
      BY DEF Counts
    <3> QED
      BY <2>3, <3>1, <3>2
  <2> QED
    BY <1>7, <2>4, <2>5, <2>6 DEF Com!FindLocal
<1> QED
  BY <1>1, <1>2, <1>3, <1>4, <1>5, <1>6, <1>7 DEF Com!Step

LEMMA ComOthers == ASSUME ComInv, Com!Tick \/ \E what \in Com!Registrable : Com!Register(what) PROVE ComInv'
<1>1. CASE Com!Tick
  <2>1. now' = now + 1 /\ UNCHANGED <<registered, index, comPlusLoaded, s_ComPlus, caller>>
    BY <1>1 DEF Com!Tick
  <2>2. now \in Nat /\ IndexInv(index) /\ \A what \in Com!Registrable : registered[what] \in Nat /\ registered[what] <= now
    BY DEF ComInv
  <2>3. IndexInv(index)'
    <3>1. index.tick \in Nat
      BY <2>2 DEF IndexInv, IndexRecords
    <3> QED
      BY <2>1, <2>2, <3>1 DEF IndexInv
  <2>4. \A t \in Callers : CallerInv(caller[t])'
    <3> SUFFICES ASSUME NEW t \in Callers PROVE CallerInv(caller[t])'
      OBVIOUS
    <3>1. CallerInv(caller[t]) /\ caller[t].since \in Nat
      BY DEF ComInv, CallerInv, CallerRecords
    <3> QED
      BY <2>1, <2>2, <3>1 DEF CallerInv, Waited
  <2>5. now' \in Nat /\ \A what \in Com!Registrable : registered'[what] <= now'
    BY <2>1, <2>2
  <2> QED
    BY <2>1, <2>3, <2>4, <2>5 DEF ComInv
<1>2. ASSUME NEW what \in Com!Registrable, Com!Register(what) PROVE ComInv'
  <2>1. /\ registered' = [registered EXCEPT ![what] = IF registered[what] # 0 THEN 0 ELSE now]
        /\ UNCHANGED <<index, comPlusLoaded, s_ComPlus, caller, now>>
    BY <1>2 DEF Com!Register, Com!Is
  <2>2. now \in Nat /\ IndexInv(index) /\ \A w \in Com!Registrable : registered[w] \in Nat /\ registered[w] <= now
    BY DEF ComInv
  <2>3. \A w \in Com!Registrable : registered'[w] = registered[w] \/ registered'[w] = 0 \/ registered'[w] = now
    BY <2>1 DEF ComInv
  <2>4. registered' \in [Com!Registrable -> Nat]
    BY <2>1, <2>2 DEF ComInv
  <2>5. \A c : c.since \in Nat /\ c.since <= now => \A w \in Com!Registrable : \A age \in Nat : Waited(c, w, age)' => Waited(c, w, age)
    <3> SUFFICES ASSUME NEW c, NEW since \in Nat, since = c.since, since <= now, NEW w \in Com!Registrable, NEW age \in Nat,
                        registered'[w] # 0, since > registered'[w] + age
                 PROVE  registered'[w] = registered[w]
      BY DEF Waited
    <3>1. registered'[w] = now => FALSE
      BY <2>2
    <3> QED
      BY <2>3, <3>1
  <2>6. \A t \in Callers : CallerInv(caller[t])'
    <3> SUFFICES ASSUME NEW t \in Callers PROVE CallerInv(caller[t])'
      OBVIOUS
    <3>1. PICK c : c = caller[t] /\ CallerInv(c) /\ c.since \in Nat /\ c.since <= now
      BY DEF ComInv, CallerInv, CallerRecords
    <3>2. \A w \in Com!Registrable : \A age \in Nat : Waited(c, w, age)' => Waited(c, w, age)
      BY <2>5, <3>1
    <3>3. 0 \in Nat /\ IndexRefresh \in Nat /\ Com!LocalClasses \subseteq Com!Registrable
      BY PlacesOfIds, RefreshIsNat
    <3>4. CallerInv(c)'
      BY <2>1, <3>1, <3>2, <3>3, PlacesOfIds DEF CallerInv
    <3>5. c = caller'[t]
      BY <2>1, <3>1
    <3> QED
      BY <3>4, <3>5 DEF CallerInv, Waited
  <2>7. IndexInv(index)'
    <3>1. index.tick \in Nat /\ index.tick <= now
      BY <2>2 DEF IndexInv, IndexRecords
    <3>2. \A k \in Indexed : registered'[k] # 0 /\ registered'[k] < index.tick => registered'[k] = registered[k]
      BY <2>2, <2>3, <3>1, PlacesOfIds
    <3> QED
      BY <2>1, <2>2, <3>2 DEF IndexInv
  <2>8. \A w \in Com!Registrable : registered'[w] <= now'
    BY <2>1, <2>2, <2>3
  <2> QED
    BY <2>1, <2>2, <2>4, <2>6, <2>7, <2>8 DEF ComInv
<1> QED
  BY <1>1, <1>2

LEMMA ComStep == ComInv /\ [Com!Next]_Com!comVars => ComInv'
<1> SUFFICES ASSUME ComInv, [Com!Next]_Com!comVars PROVE ComInv'
  OBVIOUS
<1>1. CASE UNCHANGED Com!comVars
  BY <1>1 DEF Com!comVars, ComInv, IndexInv, CallerInv, Waited
<1> QED
  BY <1>1, ComCalls, ComOthers DEF Com!Next

LEMMA ComInit == Com!Init => ComInv
<1> SUFFICES ASSUME Com!Init PROVE ComInv
  OBVIOUS
<1>1. /\ registered \in [Com!Registrable -> {0, 1}] /\ now = 1 /\ index = [built |-> FALSE, tick |-> 0, classes |-> {}]
      /\ s_ComPlus = {} /\ caller = [t \in Callers |-> Com!NoCaller]
  BY DEF Com!Init, Com!NoIndex
<1>2. /\ index \in IndexRecords /\ index.tick = 0 /\ index.built = FALSE /\ index.classes = {}
  BY <1>1 DEF IndexRecords
<1>3. IndexInv(index)
  BY <1>1, <1>2 DEF IndexInv
<1>4. Com!NoCaller \in CallerRecords
  BY DEF Com!NoCaller, CallerRecords, Positions, Counts
<1>5. CallerInv(Com!NoCaller)
  <2>1. /\ Com!NoCaller.at = "rest" /\ Com!NoCaller.since = 0 /\ Com!NoCaller.classes = 0 /\ Com!NoCaller.named = FALSE
    BY DEF Com!NoCaller
  <2> QED
    BY <1>1, <1>4, <2>1 DEF CallerInv
<1>6. caller \in [Callers -> CallerRecords] /\ \A t \in Callers : caller[t] = Com!NoCaller
  BY <1>1, <1>4
<1> QED
  BY <1>1, <1>3, <1>5, <1>6 DEF ComInv

LEMMA ComKept == ComInv => Com!TypeOK /\ Com!RegisteredIsFound
<1> SUFFICES ASSUME ComInv PROVE Com!TypeOK /\ Com!RegisteredIsFound
  OBVIOUS
<1>1. \A t \in Callers : CallerInv(caller[t])
  BY DEF ComInv
<1>2. Com!TypeOK
  BY <1>1 DEF ComInv, IndexInv, CallerInv, Com!TypeOK
<1>3. Com!RegisteredIsFound
  <2> SUFFICES ASSUME NEW t \in Callers, caller[t].at = "end", caller[t].found = "Unknown"
               PROVE  IF caller[t].kind = "local" THEN ~\E k \in Com!LocalClasses : Waited(caller[t], k, IndexRefresh)
                      ELSE ~Waited(caller[t], "indexed", IndexRefresh) /\ ~\E s \in {"app", "packaged", "class"} : Waited(caller[t], s, 0)
    BY DEF Com!RegisteredIsFound, Com!Since, Com!Is, Waited
  <2>1. caller[t].kind \in {"app", "local"}
    BY <1>1 DEF CallerInv, CallerRecords
  <2> QED
    BY <1>1, <2>1 DEF CallerInv
<1> QED
  BY <1>2, <1>3

-----------------------------------------------------------------------------
(* Lists that grow and shrink: how often a query asks, and how large its     *)
(* buffer is by then.                                                        *)

\* What the queries' loops have in common.
LoopOK(q) ==
    /\ q.first \in {0, 1} /\ q.probe \in BOOLEAN /\ q.tries \in Nat /\ q.room \in {0, 1} /\ q.doubles \in BOOLEAN
    /\ q.factor \in Nat /\ q.kept \in BOOLEAN
    /\ IF q.probe THEN q.first = 0 /\ q.factor = 0 /\ q.tries > 0 ELSE q.first = 1 /\ q.tries # 1
    /\ q.kept => q.tries = 0 /\ q.factor = 0
    /\ q.factor > 0 /\ q.tries > 0 => q.tries \in {3, 4} /\ q.room = 0

\* A list that is asked for n times by a factor of f is given f ^ n at least.
Grown(size, n, f) ==
    \/ n = 0 /\ size >= 1
    \/ n = 1 /\ size >= f
    \/ n = 2 /\ size >= f * f
    \/ n = 3 /\ size >= f * f * f
    \/ n > 3

SizedTypes ==
    /\ list \in Nat /\ list <= MaxSize /\ room \in Nat /\ needed \in Nat /\ asks \in Nat /\ m_Size \in Nat
    /\ changed \in Nat /\ grown \in Nat /\ (changed = 0 => grown = 0)

\* In the middle of a query, which is told the size of the list that it asked for
AskedOnce == asks > 0 \/ loop.probe
AskInv ==
    /\ asks <= changed + 1 /\ (asks > 0 /\ list > room => asks <= changed)
    /\ AskedOnce /\ changed = 0 => room >= list + loop.room
    /\ AskedOnce /\ changed = 1 /\ loop.room > 0 /\ grown <= loop.room => room >= list
GrowInv ==
    /\ needed > room /\ AskedOnce
    /\ asks <= changed + 1 /\ (list > needed => asks <= changed)
    /\ changed = 0 => needed = list
    /\ changed = 1 /\ grown <= loop.room => list <= needed + loop.room
\* or is not.
AskUntoldInv == changed = 0 => room >= list \/ Grown(room, asks, loop.factor)
GrowUntoldInv == changed = 0 => needed \in {0, list} /\ asks > 0 /\ Grown(room, asks - 1, loop.factor)
NoneInv ==
    /\ loop.probe \/ loop.tries > 0
    /\ changed > 0 \/ (loop.probe /\ list = 0) \/ ~Sized!Reachable
    /\ loop.room = 0 \/ changed > 1 \/ grown > loop.room \/ asks = 0

SizedInv ==
    /\ LoopOK(loop) /\ SizedTypes /\ Sized!AsksHaveReason
    /\ turn \in {"rest", "probe", "ask", "grow", "read", "none"}
    /\ loop.tries = 0 \/ asks <= loop.tries
    /\ turn = "probe" => loop.probe /\ room = 0 /\ asks = 0
    /\ turn \in {"ask", "grow"} => loop.tries = 0 \/ asks < loop.tries
    /\ turn = "ask" => IF loop.factor = 0 THEN AskInv ELSE AskUntoldInv
    /\ turn = "grow" => IF loop.factor = 0 THEN GrowInv ELSE GrowUntoldInv
    /\ turn = "none" => NoneInv

LEMMA LoopsAreOK == \A q \in Sized!Queries \cup {Sized!Ask(0, 0)} : LoopOK(q)
<1> USE QueryAssumption DEF Sized!Loop
<1>1. \A n \in Nat, extra \in {0, 1} : n # 1 => LoopOK(Sized!Ask(n, extra))
  BY DEF LoopOK, Sized!Ask
<1>2. \A n \in Nat, extra \in {0, 1} : n > 0 => LoopOK(Sized!AskSize(n, extra))
  BY DEF LoopOK, Sized!AskSize
<1>3. \A n \in Nat : n # 1 => LoopOK(Sized!AskDouble(n))
  BY DEF LoopOK, Sized!AskDouble
<1>4. \A n \in {0, 3, 4}, f \in Nat : LoopOK(Sized!AskUntold(n, 0, f))
  BY DEF LoopOK, Sized!AskUntold
<1>5. LoopOK(Sized!AskUntold(0, 1, 2))
  BY DEF LoopOK, Sized!AskUntold
<1>6. LoopOK(Sized!QuerySystemHandles)
  BY DEF LoopOK, Sized!QuerySystemHandles
<1>7. MaxSize \in Nat
  OBVIOUS
<1> HIDE QueryAssumption DEF Sized!Loop
<1> QED
  BY <1>1, <1>2, <1>3, <1>4, <1>5, <1>6, <1>7 DEF
    Sized!Queries, Sized!ReadTable, Sized!ForEachType, Sized!EnumProcessHandles, Sized!FindZombies, Sized!FindProcessJobs,
    Sized!GetProcessIds, Sized!ProviderNames, Sized!AddProvider, Sized!EnumSessions, Sized!ListProviders,
    Sized!PowerQuery, Sized!QueryRanges, Sized!QueryVariable, Sized!GetCommandLine, Sized!GetGroups,
    Sized!GetDefaultCpuSetMasks, Sized!GetSymbolicLink, Sized!GetMappedFileName, Sized!EnumVariables, Sized!SystemQuery,
    Sized!GetFirmwareTableInformation, Sized!GetProcessIdInformation, Sized!GetSecurity, Sized!EnumServices,
    Sized!GetTriggers, Sized!GetTriggerDetails, Sized!GetRequiredPrivileges, Sized!GetDependents,
    Sized!GetFailureActions, Sized!GetApplicationIds

\* A buffer that grew n times by the factor f has grown once more.
LEMMA GrownOnce ==
    ASSUME NEW size \in Nat, NEW n \in Nat, NEW f \in Nat, Grown(size, n, f)
    PROVE  Grown(f * size, n + 1, f) \/ f = 0
<1>1. \A b \in Nat : size >= b => f * size >= f * b
  OBVIOUS
<1>2. f * f \in Nat /\ f * (f * f) = f * f * f /\ f * 1 = f
  OBVIOUS
<1> QED
  BY <1>1, <1>2 DEF Grown

\* What a list grows by.
LEMMA GrowthOf ==
    \A m, n, g \in Nat : g + (IF n > m THEN n - m ELSE 0) \in Nat /\ (g = 0 => n <= m + (g + (IF n > m THEN n - m ELSE 0)))
OBVIOUS

LEMMA GrowthIn == \A n, m, g, r \in Nat : n <= m + g /\ g <= r => n <= m + r
OBVIOUS

LEMMA SizedInit == Sized!Init => SizedInv
<1> SUFFICES ASSUME Sized!Init PROVE SizedInv
  OBVIOUS
<1> USE DEF Sized!Init
<1>1. LoopOK(loop)
  BY LoopsAreOK
<1>2. SizedTypes
  BY QueryAssumption DEF SizedTypes
<1>3. asks = 0 /\ changed = 0 /\ turn = "rest"
  OBVIOUS
<1>4. Sized!AsksHaveReason
  BY <1>3 DEF Sized!AsksHaveReason
<1>5. loop.tries = 0 \/ asks <= loop.tries
  BY <1>1, <1>3 DEF LoopOK
<1> QED
  BY ONLY <1>1, <1>2, <1>3, <1>4, <1>5 DEF SizedInv

LEMMA QueryStep ==
    ASSUME SizedInv, NEW q \in Sized!Queries, Sized!Query(q)
    PROVE  SizedInv'
<1> USE DEF Sized!Query
<1>1. LoopOK(q)
  BY LoopsAreOK
<1>2. loop' = q /\ LoopOK(loop)'
  BY <1>1 DEF LoopOK
<1>3. room' \in Nat /\ m_Size' \in Nat /\ (q.factor > 0 \/ q.probe => room' = q.first)
  BY <1>1 DEF SizedInv, SizedTypes, LoopOK
<1>4. turn' \in {"probe", "ask"} /\ asks' = 0 /\ needed' = 0 /\ changed' = 0 /\ grown' = 0 /\ list' = list
      /\ (turn' = "probe" <=> q.probe)
  BY <1>1 DEF LoopOK
<1>5. SizedTypes'
  BY <1>3, <1>4 DEF SizedInv, SizedTypes
<1>6. Sized!AsksHaveReason'
  BY <1>4 DEF Sized!AsksHaveReason
<1>7. (loop.tries = 0 \/ asks < loop.tries)' /\ (loop.tries = 0 \/ asks <= loop.tries)'
  BY <1>1, <1>2, <1>4 DEF LoopOK
<1>8. turn' = "probe" => (loop.probe /\ room = 0 /\ asks = 0)'
  BY <1>1, <1>2, <1>3, <1>4 DEF LoopOK
<1>9. turn' = "ask" => IF loop'.factor = 0 THEN AskInv' ELSE AskUntoldInv'
  BY <1>1, <1>2, <1>3, <1>4 DEF LoopOK, AskInv, AskUntoldInv, AskedOnce, Grown
<1> QED
  BY ONLY <1>2, <1>4, <1>5, <1>6, <1>7, <1>8, <1>9 DEF SizedInv

LEMMA ProbeStep == SizedInv /\ Sized!Probe => SizedInv'
<1> SUFFICES ASSUME SizedInv, Sized!Probe PROVE SizedInv'
  OBVIOUS
<1>1. LoopOK(loop)' /\ loop.probe /\ loop.factor = 0 /\ loop.tries \in Nat /\ loop.tries > 0 /\ loop.room \in {0, 1}
  BY DEF SizedInv, LoopOK, Sized!Probe
<1>2. room = 0 /\ asks = 0 /\ SizedTypes
  BY DEF SizedInv, Sized!Probe
<1>3. turn' = (IF list = 0 THEN "none" ELSE "grow") /\ needed' = list
      /\ UNCHANGED <<loop, list, room, asks, m_Size, changed, grown>>
  BY DEF Sized!Probe
<1>4. SizedTypes'
  BY <1>2, <1>3 DEF SizedTypes
<1>5. Sized!AsksHaveReason' /\ (loop.tries = 0 \/ asks < loop.tries)' /\ (loop.tries = 0 \/ asks <= loop.tries)'
  BY <1>1, <1>2, <1>3 DEF SizedTypes, Sized!AsksHaveReason
<1>6. list # 0 => GrowInv'
  BY <1>1, <1>2, <1>3 DEF SizedTypes, GrowInv, AskedOnce
<1>7. list = 0 => NoneInv'
  BY <1>1, <1>2, <1>3 DEF SizedTypes, NoneInv
<1> QED
  BY ONLY <1>1, <1>3, <1>4, <1>5, <1>6, <1>7 DEF SizedInv

LEMMA AskStep == SizedInv /\ Sized!AskForList => SizedInv'
<1> SUFFICES ASSUME SizedInv, Sized!AskForList PROVE SizedInv'
  OBVIOUS
<1> USE DEF Sized!AskForList
<1>1. LoopOK(loop)' /\ LoopOK(loop) /\ loop.factor \in Nat /\ loop.tries \in Nat /\ loop.room \in {0, 1}
  BY DEF SizedInv, LoopOK
<1>2. /\ list \in Nat /\ list <= MaxSize /\ room \in Nat /\ needed \in Nat /\ asks \in Nat /\ m_Size \in Nat
      /\ changed \in Nat /\ grown \in Nat /\ (changed = 0 => grown = 0) /\ MaxSize \in Nat
      /\ loop.tries = 0 \/ asks < loop.tries
  BY QueryAssumption DEF SizedInv, SizedTypes
<1>3. asks' = asks + 1 /\ needed' \in Nat /\ UNCHANGED <<loop, list, room, m_Size, changed, grown>>
  BY <1>2
<1>4. SizedTypes'
  BY <1>2, <1>3 DEF SizedTypes
<1>5. (loop.tries = 0 \/ asks <= loop.tries)'
  BY <1>1, <1>2, <1>3
<1>6. Sized!AsksHaveReason'
  BY <1>2, <1>3 DEF SizedInv, AskInv, Sized!AsksHaveReason
<1>7. CASE list <= room
  <2>1. turn' = "read"
    BY <1>7
  <2> QED
    BY ONLY <1>1, <1>4, <1>5, <1>6, <2>1 DEF SizedInv
<1>8. CASE list > room
  <2>1. turn' = (IF asks' = loop.tries THEN "none" ELSE "grow")
        /\ needed' \in (IF loop.factor > 0 THEN {0, list} ELSE {list})
    BY <1>2, <1>8 DEF Sized!LastTry
  <2>2. CASE turn' = "grow" /\ loop.factor = 0
    <3>1. AskInv
      BY <2>2 DEF SizedInv
    <3>2. GrowInv'
      BY <1>1, <1>2, <1>3, <1>8, <2>1, <2>2, <3>1 DEF AskInv, GrowInv, AskedOnce
    <3>3. (loop.tries = 0 \/ asks < loop.tries)'
      BY <1>1, <1>2, <1>3, <2>1, <2>2
    <3> QED
      BY ONLY <1>1, <1>3, <1>4, <1>5, <1>6, <2>2, <3>2, <3>3 DEF SizedInv
  <2>3. CASE turn' = "grow" /\ loop.factor # 0
    <3>1. changed = 0 => Grown(room, asks, loop.factor)
      BY <1>2, <1>8, <2>3 DEF SizedInv, AskUntoldInv
    <3>2. asks' - 1 = asks
      BY <1>2, <1>3
    <3>3. changed' = 0 => Grown(room', asks' - 1, loop'.factor)
      BY <3>1, <3>2, <1>3
    <3>4. GrowUntoldInv'
      BY <1>1, <1>2, <1>3, <2>1, <2>3, <3>3 DEF GrowUntoldInv
    <3>5. (loop.tries = 0 \/ asks < loop.tries)'
      BY <1>1, <1>2, <1>3, <2>1, <2>3
    <3> QED
      BY ONLY <1>1, <1>3, <1>4, <1>5, <1>6, <2>3, <3>4, <3>5 DEF SizedInv
  <2>4. CASE turn' = "none"
    <3>1. asks' = loop.tries /\ loop.tries > 0
      BY <1>2, <1>3, <2>1, <2>4
    <3>2. CASE loop.factor = 0
      <4>1. AskInv /\ AskedOnce
        BY <3>1, <3>2, <1>1, <1>2, <1>3 DEF SizedInv, AskedOnce, LoopOK
      <4>2. changed > 0 /\ (changed = 1 => loop.room = 0 \/ grown > loop.room)
        BY <4>1, <1>1, <1>2, <1>8 DEF AskInv
      <4>3. NoneInv'
        BY <4>2, <1>1, <1>2, <1>3, <3>1 DEF NoneInv
      <4> QED
        BY ONLY <1>1, <1>4, <1>5, <1>6, <2>4, <4>3 DEF SizedInv
    <3>3. CASE loop.factor # 0
      <4>1. asks' = loop.tries /\ loop.tries \in {3, 4} /\ loop.room = 0
        BY <3>1, <3>3, <1>1 DEF LoopOK
      <4>2. changed = 0 => ~Sized!Reachable
        <5> SUFFICES ASSUME changed = 0, Sized!Reachable PROVE FALSE
          OBVIOUS
        <5>1. asks \in {2, 3} /\ asks = loop.tries - 1 /\ Grown(room, asks, loop.factor)
          BY <4>1, <1>2, <1>3, <1>8, <3>3 DEF SizedInv, AskUntoldInv
        <5> DEFINE two == loop.factor * loop.factor
        <5> DEFINE three == loop.factor * loop.factor * loop.factor
        <5>2. two \in Nat /\ three \in Nat
          BY <1>1
        <5>3. IF asks = 2 THEN room >= two ELSE room >= three
          BY <5>1 DEF Grown
        <5>4. IF asks = 2 THEN two >= MaxSize ELSE three >= MaxSize
          BY <5>1, <1>1, <3>3, <4>1 DEF Sized!Reachable
        <5> HIDE DEF two, three
        <5> QED
          BY <5>2, <5>3, <5>4, <1>2, <1>8
      <4>3. Sized!Reachable' <=> Sized!Reachable
        BY <1>3 DEF Sized!Reachable
      <4>4. NoneInv'
        BY <4>1, <4>2, <4>3, <1>1, <1>2, <1>3 DEF NoneInv
      <4> QED
        BY ONLY <1>1, <1>4, <1>5, <1>6, <2>4, <4>4 DEF SizedInv
    <3> QED
      BY <3>2, <3>3
  <2> QED
    BY <2>1, <2>2, <2>3, <2>4
<1> QED
  BY <1>2, <1>7, <1>8

LEMMA GrowStep == SizedInv /\ Sized!Grow => SizedInv'
<1> SUFFICES ASSUME SizedInv, Sized!Grow PROVE SizedInv'
  OBVIOUS
<1> USE DEF Sized!Grow
<1>1. LoopOK(loop)' /\ LoopOK(loop) /\ loop.factor \in Nat /\ loop.tries \in Nat /\ loop.room \in {0, 1}
  BY DEF SizedInv, LoopOK
<1>2. /\ list \in Nat /\ list <= MaxSize /\ room \in Nat /\ needed \in Nat /\ asks \in Nat /\ m_Size \in Nat
      /\ changed \in Nat /\ grown \in Nat /\ (changed = 0 => grown = 0) /\ MaxSize \in Nat
      /\ loop.tries = 0 \/ asks < loop.tries
  BY QueryAssumption DEF SizedInv, SizedTypes
<1>3. needed > room => room' >= needed + loop.room /\ room' \in Nat
  <2> SUFFICES ASSUME needed > room PROVE room' >= needed + loop.room /\ room' \in Nat
    OBVIOUS
  <2>1. room' = Sized!AtLeast(needed + loop.room, IF loop.doubles THEN 2 * room ELSE 0)
    BY DEF Sized!Larger
  <2> QED
    BY <2>1, <1>1, <1>2 DEF Sized!AtLeast
<1>4. ~(needed > room) => room' = loop.factor * room
  BY DEF Sized!Larger
<1>5. room' \in Nat
  BY <1>1, <1>2, <1>3, <1>4
<1>6. m_Size' \in Nat
  BY <1>2, <1>5
<1>7. turn' = "ask" /\ UNCHANGED <<loop, list, needed, asks, changed, grown>>
  OBVIOUS
<1>8. SizedTypes'
  BY <1>2, <1>5, <1>6, <1>7 DEF SizedTypes
<1>9. Sized!AsksHaveReason' /\ (loop.tries = 0 \/ asks < loop.tries)' /\ (loop.tries = 0 \/ asks <= loop.tries)'
  BY <1>1, <1>2, <1>7 DEF SizedInv, Sized!AsksHaveReason
<1>10. loop.factor = 0 => AskInv'
  <2> SUFFICES ASSUME loop.factor = 0 PROVE AskInv'
    OBVIOUS
  <2>1. GrowInv
    BY DEF SizedInv
  <2> QED
    BY <2>1, <1>1, <1>2, <1>3, <1>5, <1>7 DEF GrowInv, AskInv, AskedOnce
<1>11. loop.factor # 0 => AskUntoldInv'
  <2> SUFFICES ASSUME loop.factor # 0, changed = 0 PROVE room' >= list \/ Grown(room', asks, loop.factor)
    BY <1>7 DEF AskUntoldInv, Grown
  <2>1. needed \in {0, list} /\ asks > 0 /\ Grown(room, asks - 1, loop.factor)
    BY DEF SizedInv, GrowUntoldInv
  <2>2. CASE needed > room
    BY <2>1, <2>2, <1>1, <1>2, <1>3
  <2>3. CASE ~(needed > room)
    <3>1. asks - 1 \in Nat /\ (asks - 1) + 1 = asks
      BY <2>1, <1>2
    <3>2. Grown(loop.factor * room, (asks - 1) + 1, loop.factor)
      BY <3>1, <2>1, <1>1, <1>2, GrownOnce
    <3> QED
      BY <3>1, <3>2, <1>4, <2>3
  <2> QED
    BY <2>2, <2>3
<1> QED
  BY ONLY <1>1, <1>7, <1>8, <1>9, <1>10, <1>11 DEF SizedInv

LEMMA ListChangeStep == SizedInv /\ Sized!Change => SizedInv'
<1> SUFFICES ASSUME SizedInv, Sized!Change PROVE SizedInv'
  OBVIOUS
<1>1. LoopOK(loop)' /\ LoopOK(loop) /\ loop.factor \in Nat /\ loop.tries \in Nat /\ loop.room \in {0, 1}
  BY DEF SizedInv, LoopOK, Sized!Change
<1>2. /\ list \in Nat /\ list <= MaxSize /\ room \in Nat /\ needed \in Nat /\ asks \in Nat /\ m_Size \in Nat
      /\ changed \in Nat /\ grown \in Nat /\ (changed = 0 => grown = 0) /\ MaxSize \in Nat
  BY QueryAssumption DEF SizedInv, SizedTypes
<1>3. turn' = turn /\ turn \in {"probe", "ask", "grow"} /\ changed' = changed + 1
      /\ UNCHANGED <<loop, room, needed, asks, m_Size>>
  BY DEF Sized!Change
<1>4. list' \in Nat /\ list' <= MaxSize
  BY <1>2 DEF Sized!Change
<1>5. grown' \in Nat /\ (changed' = 1 => list' <= list + grown')
  <2>1. PICK m \in Nat : m = list
    BY <1>2
  <2>2. PICK n \in Nat : n = list'
    BY <1>4
  <2>3. PICK g \in Nat : g = grown
    BY <1>2
  <2>4. grown' = g + (IF n > m THEN n - m ELSE 0)
    BY <2>1, <2>2, <2>3 DEF Sized!Change
  <2>5. grown' \in Nat /\ (g = 0 => n <= m + grown')
    BY <2>4, GrowthOf
  <2>6. changed' = 1 => g = 0
    BY <2>3, <1>2, <1>3
  <2> QED
    BY <2>1, <2>2, <2>5, <2>6
<1>6. SizedTypes'
  BY <1>2, <1>3, <1>4, <1>5 DEF SizedTypes
<1>7. Sized!AsksHaveReason' /\ (turn \in {"ask", "grow"} => loop.tries = 0 \/ asks < loop.tries)'
      /\ (loop.tries = 0 \/ asks <= loop.tries)'
  BY <1>1, <1>2, <1>3 DEF SizedInv, Sized!AsksHaveReason
<1>8. CASE turn = "ask"
  <2>1. loop.factor = 0 => AskInv'
    <3> SUFFICES ASSUME loop.factor = 0 PROVE AskInv'
      OBVIOUS
    <3>1. AskInv
      BY <1>8 DEF SizedInv
    <3>2. asks <= changed + 1
      BY <3>1 DEF AskInv
    <3>3. (asks <= changed + 1)' /\ (asks > 0 /\ list > room => asks <= changed)' /\ changed' # 0
      BY <3>2, <1>2, <1>3
    <3>4. ASSUME AskedOnce, changed' = 1, grown' <= loop.room PROVE room >= list'
      <4>1. room >= list + loop.room
        BY <3>1, <3>4, <1>2, <1>3 DEF AskInv
      <4>2. PICK n \in Nat : n = list'
        BY <1>4
      <4>3. PICK g \in Nat : g = grown'
        BY <1>5
      <4>4. n <= list + g /\ g <= loop.room
        BY <4>2, <4>3, <1>5, <3>4
      <4>5. PICK r \in Nat, m \in Nat, k \in Nat : r = loop.room /\ m = list /\ k = room
        BY <1>1, <1>2
      <4>6. k >= m + r /\ n <= m + g /\ g <= r
        BY <4>1, <4>4, <4>5
      <4>7. n <= m + r
        BY <4>2, <4>3, <4>5, <4>6, GrowthIn
      <4>8. k >= n
        BY <4>2, <4>5, <4>6, <4>7
      <4> QED
        BY <4>2, <4>5, <4>8
    <3>5. AskedOnce' <=> AskedOnce
      BY <1>3 DEF AskedOnce
    <3> QED
      BY <3>3, <3>4, <3>5, <1>3 DEF AskInv
  <2>2. AskUntoldInv'
    BY <1>2, <1>3 DEF AskUntoldInv
  <2> QED
    BY ONLY <1>1, <1>3, <1>6, <1>7, <1>8, <2>1, <2>2 DEF SizedInv
<1>9. CASE turn = "grow"
  <2>1. loop.factor = 0 => GrowInv'
    <3> SUFFICES ASSUME loop.factor = 0 PROVE GrowInv'
      OBVIOUS
    <3>1. GrowInv
      BY <1>9 DEF SizedInv
    <3>2. asks <= changed + 1 /\ needed > room /\ AskedOnce
      BY <3>1 DEF GrowInv
    <3>3. (asks <= changed + 1)' /\ (list > needed => asks <= changed)' /\ (needed > room)' /\ changed' # 0
      BY <3>2, <1>2, <1>3
    <3>4. ASSUME changed' = 1, grown' <= loop.room PROVE list' <= needed + loop.room
      <4>1. needed = list
        BY <3>1, <3>4, <1>2, <1>3 DEF GrowInv
      <4>2. PICK n \in Nat : n = list'
        BY <1>4
      <4>3. PICK g \in Nat : g = grown'
        BY <1>5
      <4>4. n <= list + g /\ g <= loop.room
        BY <4>2, <4>3, <1>5, <3>4
      <4>5. PICK r \in Nat, m \in Nat : r = loop.room /\ m = list
        BY <1>1, <1>2
      <4>6. n <= m + g /\ g <= r
        BY <4>4, <4>5
      <4>7. n <= m + r
        BY <4>2, <4>3, <4>5, <4>6, GrowthIn
      <4> QED
        BY <4>1, <4>2, <4>5, <4>7
    <3>5. AskedOnce'
      BY <3>2, <1>3 DEF AskedOnce
    <3> QED
      BY <3>3, <3>4, <3>5, <1>3 DEF GrowInv
  <2>2. GrowUntoldInv'
    BY <1>2, <1>3 DEF GrowUntoldInv
  <2> QED
    BY ONLY <1>1, <1>3, <1>6, <1>7, <1>9, <2>1, <2>2 DEF SizedInv
<1>10. CASE turn = "probe"
  <2>1. (loop.probe /\ room = 0 /\ asks = 0)'
    BY <1>3, <1>10 DEF SizedInv
  <2> QED
    BY ONLY <1>1, <1>3, <1>6, <1>7, <1>10, <2>1 DEF SizedInv
<1> QED
  BY <1>3, <1>8, <1>9, <1>10

LEMMA SizedStep == SizedInv /\ [Sized!Next]_Sized!sizedVars => SizedInv'
<1> SUFFICES ASSUME SizedInv, [Sized!Next]_Sized!sizedVars PROVE SizedInv'
  OBVIOUS
<1>1. ASSUME NEW q \in Sized!Queries, Sized!Query(q) PROVE SizedInv'
  BY <1>1, QueryStep
<1>2. CASE UNCHANGED Sized!sizedVars
  BY <1>2 DEF Sized!sizedVars, SizedInv, SizedTypes, LoopOK, AskedOnce, AskInv, GrowInv, AskUntoldInv, GrowUntoldInv, NoneInv,
    Grown, Sized!Reachable, Sized!AsksHaveReason
<1> QED
  BY <1>1, <1>2, ProbeStep, AskStep, GrowStep, ListChangeStep DEF Sized!Next

LEMMA SizedKept ==
    ASSUME SizedInv
    PROVE  Sized!TypeOK /\ Sized!ListIsRead /\ Sized!GrowthHasRoom /\ Sized!AsksHaveReason
<1>1. Sized!ListIsRead /\ Sized!GrowthHasRoom /\ Sized!AsksHaveReason
  BY DEF SizedInv, NoneInv, Sized!ListIsRead, Sized!GrowthHasRoom
<1>2. Sized!TypeOK
  BY DEF SizedInv, SizedTypes, LoopOK, GrowInv, NoneInv, Sized!TypeOK
<1> QED
  BY <1>1, <1>2

-----------------------------------------------------------------------------
(* Of the query that runs, its own invariant.                                *)

QueryInv ==
    /\ Is("sized", SizedInv)
    /\ Is("autoruns", AutorunInv /\ changes \in Nat)
    /\ Is("com", ComInv)
    /\ Is("zombies", ZombieInv)
    /\ Is("unaddressed", UnaddressedInv)
    /\ Is("jobs", JobsInv)
    /\ Is("looked", JobsInv)
    /\ Is("symbols", Symbol!CallInv /\ Symbol!SessionInv /\ Symbol!FoundInv)
    /\ Is("kernel", Kernel!CallInv /\ Kernel!SessionInv /\ Kernel!FoundInv)
    /\ Is("processes", InjectInv /\ RestartInv)
    /\ Is("batteries", BatteryInv)
    /\ Is("services", ServiceInv)

\* A step is one of the query that runs, or none of anything.
LEMMA StepOfOne ==
    ASSUME [Next]_vars
    PROVE  /\ which' = which
           /\ Is("sized", [Sized!Next]_Sized!sizedVars)
           /\ Is("autoruns", [Startup!Next]_Startup!autorunVars)
           /\ Is("com", [Com!Next]_Com!comVars)
           /\ Is("zombies", [Zombie!Next]_Zombie!zombieVars)
           /\ Is("unaddressed", [Unaddressed!Next]_Unaddressed!zombieVars)
           /\ Is("jobs", [Job!Next]_Job!jobVars)
           /\ Is("looked", [Looked!Next]_Looked!jobVars)
           /\ Is("symbols", [Symbol!Next]_Symbol!symbolVars)
           /\ Is("kernel", [Kernel!Next]_Kernel!symbolVars)
           /\ Is("processes", [Process!Next]_Process!procVars)
           /\ Is("batteries", [Battery!Next]_Battery!batteryVars)
           /\ Is("services", [Service!Next]_Service!servicesVars)
<1>1. CASE Next
  <2> USE <1>1 DEF Next, Is
  <2>0. which' = which
    OBVIOUS
  <2>1. which = "sized" => Sized!Next
    OBVIOUS
  <2>2. which = "autoruns" => Startup!Next
    OBVIOUS
  <2>3. which = "com" => Com!Next
    OBVIOUS
  <2>4. which = "zombies" => Zombie!Next
    OBVIOUS
  <2>5. which = "unaddressed" => Unaddressed!Next
    OBVIOUS
  <2>6. which = "jobs" => Job!Next
    OBVIOUS
  <2>7. which = "looked" => Looked!Next
    OBVIOUS
  <2>8. which = "symbols" => Symbol!Next
    OBVIOUS
  <2>9. which = "kernel" => Kernel!Next
    OBVIOUS
  <2>10. which = "processes" => Process!Next
    OBVIOUS
  <2>11. which = "batteries" => Battery!Next
    OBVIOUS
  <2>12. which = "services" => Service!Next
    OBVIOUS
  <2> HIDE <1>1 DEF Next
  <2> QED
    BY <2>0, <2>1, <2>2, <2>3, <2>4, <2>5, <2>6, <2>7, <2>8, <2>9, <2>10, <2>11, <2>12
<1>2. CASE UNCHANGED vars
  <2>0. UNCHANGED <<which, shared, sizedOnly, autorunsOnly, comOnly, zombiesOnly, jobsOnly, symbolsOnly, processesOnly,
                    batteriesOnly, servicesOnly>>
    BY <1>2 DEF vars
  <2>1. UNCHANGED Sized!sizedVars
    BY <2>0 DEF shared, sizedOnly, Sized!sizedVars
  <2>2. UNCHANGED Startup!autorunVars
    BY <2>0 DEF shared, autorunsOnly, Startup!autorunVars
  <2>3. UNCHANGED Com!comVars
    BY <2>0 DEF shared, comOnly, Com!comVars
  <2>4. UNCHANGED Zombie!zombieVars
    BY <2>0 DEF zombiesOnly, Zombie!zombieVars
  <2>5. UNCHANGED Unaddressed!zombieVars
    BY <2>0 DEF zombiesOnly, Unaddressed!zombieVars
  <2>6. UNCHANGED Job!jobVars
    BY <2>0 DEF shared, jobsOnly, Job!jobVars
  <2>7. UNCHANGED Looked!jobVars
    BY <2>0 DEF shared, jobsOnly, Looked!jobVars
  <2>8. UNCHANGED Symbol!symbolVars
    BY <2>0 DEF shared, symbolsOnly, Symbol!symbolVars
  <2>9. UNCHANGED Kernel!symbolVars
    BY <2>0 DEF shared, symbolsOnly, Kernel!symbolVars
  <2>10. UNCHANGED Process!procVars
    BY <2>0 DEF shared, processesOnly, Process!procVars
  <2>11. UNCHANGED Battery!batteryVars
    BY <2>0 DEF shared, batteriesOnly, Battery!batteryVars
  <2>12. UNCHANGED Service!servicesVars
    BY <2>0 DEF shared, servicesOnly, Service!servicesVars
  <2> QED
    BY <2>0, <2>1, <2>2, <2>3, <2>4, <2>5, <2>6, <2>7, <2>8, <2>9, <2>10, <2>11, <2>12 DEF Is
<1> QED
  BY <1>1, <1>2

LEMMA QueriesInit == Init => QueryInv
<1> SUFFICES ASSUME Init PROVE QueryInv
  OBVIOUS
<1>1. Is("sized", SizedInv)
  <2>1. which = "sized" => Sized!Init
    BY ReadAssumption DEF Init
  <2> QED
    BY <2>1, SizedInit DEF Is
<1>2. Is("autoruns", AutorunInv /\ changes \in Nat)
  <2>1. which = "autoruns" => Startup!Init
    BY ReadAssumption DEF Init
  <2> QED
    BY <2>1, AutorunInit DEF Is
<1>3. Is("com", ComInv)
  <2>1. which = "com" => Com!Init
    BY ReadAssumption DEF Init
  <2> QED
    BY <2>1, ComInit DEF Is
<1>4. Is("zombies", ZombieInv)
  <2>1. which = "zombies" => Zombie!Init
    BY ReadAssumption DEF Init
  <2> QED
    BY <2>1, ZombieInit DEF Is
<1>5. Is("unaddressed", UnaddressedInv)
  <2>1. which = "unaddressed" => Unaddressed!Init
    BY ReadAssumption DEF Init
  <2> QED
    BY <2>1, ZombieInit DEF Is
<1>6. Is("jobs", JobsInv)
  <2>1. which = "jobs" => Job!Init
    BY ReadAssumption DEF Init
  <2> QED
    BY <2>1, JobsInit DEF Is
<1>7. Is("looked", JobsInv)
  <2>1. which = "looked" => Looked!Init
    BY ReadAssumption DEF Init
  <2> QED
    BY <2>1, JobsInit DEF Is
<1>8. Is("symbols", Symbol!CallInv /\ Symbol!SessionInv /\ Symbol!FoundInv)
  <2>1. which = "symbols" => Symbol!Init
    BY ReadAssumption DEF Init
  <2> QED
    BY <2>1, Symbol!SymbolsInit, QueryAssumption DEF Is
<1>9. Is("kernel", Kernel!CallInv /\ Kernel!SessionInv /\ Kernel!FoundInv)
  <2>1. which = "kernel" => Kernel!Init
    BY ReadAssumption DEF Init
  <2> QED
    BY <2>1, Kernel!SymbolsInit, QueryAssumption DEF Is
<1>10. Is("processes", InjectInv /\ RestartInv)
  <2>1. which = "processes" => Process!Init
    BY ReadAssumption DEF Init
  <2> QED
    BY <2>1, InjectInit, RestartInit DEF Is
<1>11. Is("batteries", BatteryInv)
  <2>1. which = "batteries" => Battery!Init
    BY ReadAssumption DEF Init
  <2> QED
    BY <2>1, BatteryInit DEF Is
<1>12. Is("services", ServiceInv)
  <2>1. which = "services" => Service!Init
    BY ReadAssumption DEF Init
  <2> QED
    BY <2>1, ServiceInit DEF Is
<1> QED
  BY <1>1, <1>2, <1>3, <1>4, <1>5, <1>6, <1>7, <1>8, <1>9, <1>10, <1>11, <1>12 DEF QueryInv

LEMMA QueriesStep == QueryInv /\ [Next]_vars => QueryInv'
<1> SUFFICES ASSUME QueryInv, [Next]_vars PROVE QueryInv'
  OBVIOUS
<1>0. which' = which
  BY StepOfOne
<1>1. which = "sized" => (SizedInv)'
  <2>1. which = "sized" => SizedInv
    BY DEF QueryInv, Is
  <2>2. which = "sized" => [Sized!Next]_Sized!sizedVars
    BY StepOfOne DEF Is
  <2> QED
    BY <2>1, <2>2, SizedStep
<1>2. which = "autoruns" => (AutorunInv /\ changes \in Nat)'
  <2>1. which = "autoruns" => AutorunInv /\ changes \in Nat
    BY DEF QueryInv, Is
  <2>2. which = "autoruns" => [Startup!Next]_Startup!autorunVars
    BY StepOfOne DEF Is
  <2> QED
    BY <2>1, <2>2, AutorunStep
<1>3. which = "com" => (ComInv)'
  <2>1. which = "com" => ComInv
    BY DEF QueryInv, Is
  <2>2. which = "com" => [Com!Next]_Com!comVars
    BY StepOfOne DEF Is
  <2> QED
    BY <2>1, <2>2, ComStep
<1>4. which = "zombies" => (ZombieInv)'
  <2>1. which = "zombies" => ZombieInv
    BY DEF QueryInv, Is
  <2>2. which = "zombies" => [Zombie!Next]_Zombie!zombieVars
    BY StepOfOne DEF Is
  <2> QED
    BY <2>1, <2>2, ZombieStep
<1>5. which = "unaddressed" => (UnaddressedInv)'
  <2>1. which = "unaddressed" => UnaddressedInv
    BY DEF QueryInv, Is
  <2>2. which = "unaddressed" => [Unaddressed!Next]_Unaddressed!zombieVars
    BY StepOfOne DEF Is
  <2> QED
    BY <2>1, <2>2, UnaddressedStep
<1>6. which = "jobs" => (JobsInv)'
  <2>1. which = "jobs" => JobsInv
    BY DEF QueryInv, Is
  <2>2. which = "jobs" => [Job!Next]_Job!jobVars
    BY StepOfOne DEF Is
  <2> QED
    BY <2>1, <2>2, JobsStep
<1>7. which = "looked" => (JobsInv)'
  <2>1. which = "looked" => JobsInv
    BY DEF QueryInv, Is
  <2>2. which = "looked" => [Looked!Next]_Looked!jobVars
    BY StepOfOne DEF Is
  <2> QED
    BY <2>1, <2>2, JobsStep
<1>8. which = "symbols" => (Symbol!CallInv /\ Symbol!SessionInv /\ Symbol!FoundInv)'
  <2>1. which = "symbols" => Symbol!CallInv /\ Symbol!SessionInv /\ Symbol!FoundInv
    BY DEF QueryInv, Is
  <2>2. which = "symbols" => [Symbol!Next]_Symbol!symbolVars
    BY StepOfOne DEF Is
  <2> QED
    BY <2>1, <2>2, Symbol!CallStep, Symbol!SessionStep, Symbol!FoundStep, QueryAssumption
<1>9. which = "kernel" => (Kernel!CallInv /\ Kernel!SessionInv /\ Kernel!FoundInv)'
  <2>1. which = "kernel" => Kernel!CallInv /\ Kernel!SessionInv /\ Kernel!FoundInv
    BY DEF QueryInv, Is
  <2>2. which = "kernel" => [Kernel!Next]_Kernel!symbolVars
    BY StepOfOne DEF Is
  <2> QED
    BY <2>1, <2>2, Kernel!CallStep, Kernel!SessionStep, Kernel!FoundStep, QueryAssumption
<1>10. which = "processes" => (InjectInv /\ RestartInv)'
  <2>1. which = "processes" => InjectInv /\ RestartInv
    BY DEF QueryInv, Is
  <2>2. which = "processes" => [Process!Next]_Process!procVars
    BY StepOfOne DEF Is
  <2> QED
    BY <2>1, <2>2, InjectStep, RestartStep
<1>11. which = "batteries" => (BatteryInv)'
  <2>1. which = "batteries" => BatteryInv
    BY DEF QueryInv, Is
  <2>2. which = "batteries" => [Battery!Next]_Battery!batteryVars
    BY StepOfOne DEF Is
  <2> QED
    BY <2>1, <2>2, BatteryStep
<1>12. which = "services" => (ServiceInv)'
  <2>1. which = "services" => ServiceInv
    BY DEF QueryInv, Is
  <2>2. which = "services" => [Service!Next]_Service!servicesVars
    BY StepOfOne DEF Is
  <2> QED
    BY <2>1, <2>2, ServiceStep
<1> QED
  BY <1>0, <1>1, <1>2, <1>3, <1>4, <1>5, <1>6, <1>7, <1>8, <1>9, <1>10, <1>11, <1>12 DEF QueryInv, Is

LEMMA SymbolsSay ==
    /\ Symbol!CallInv /\ Symbol!SessionInv => Symbol!TypeOK /\ Symbol!NothingIsLeft
    /\ Kernel!CallInv /\ Kernel!SessionInv => Kernel!TypeOK /\ Kernel!NothingIsLeft
    /\ Symbol!FoundInv => Symbol!StackIsOneMoment /\ Symbol!NewModuleIsNamed /\ Symbol!DumpIsOfProcess
    /\ Kernel!FoundInv => Kernel!NewModuleIsNamed
<1>1. Symbol!CallInv /\ Symbol!SessionInv => Symbol!TypeOK /\ Symbol!NothingIsLeft
  BY Symbol!SymbolsKept, QueryAssumption
<1>2. Kernel!CallInv /\ Kernel!SessionInv => Kernel!TypeOK /\ Kernel!NothingIsLeft
  BY Kernel!SymbolsKept, QueryAssumption
<1> QED
  BY <1>1, <1>2 DEF Symbol!FoundInv, Kernel!FoundInv

LEMMA ProcessSays ==
    InjectInv /\ RestartInv => Process!TypeOK /\ Process!BufferOutlivesThread /\ Process!RestartedOnce
BY InjectKept DEF InjectInv, RestartInv, Restarts, Process!TypeOK

\* Each of the queries' calls leaves its state together, whatever of them fails
\* and whatever others do between their steps: the buffers that are grown, the
\* places of autoruns, the index of COM classes, the tables of handles, the
\* session of symbols, the threads and battery asked and a service's setting.
THEOREM TypesKept == Spec => []TypeOK
<1>1. QueryInv => TypeOK
  <2> SUFFICES ASSUME QueryInv PROVE TypeOK
    OBVIOUS
  <2> USE DEF QueryInv, Is
  <2>1. Is("sized", Sized!TypeOK)
    BY SizedKept
  <2>2. Is("autoruns", Startup!TypeOK)
    BY AutorunKept
  <2>3. Is("com", Com!TypeOK)
    BY ComKept
  <2>4. Is("zombies", Zombie!TypeOK)
    BY ZombieKept
  <2>5. Is("unaddressed", Unaddressed!TypeOK)
    BY UnaddressedKept
  <2>6. Is("jobs", Job!TypeOK)
    BY JobsKept
  <2>7. Is("looked", Looked!TypeOK)
    BY JobsKept
  <2>8. Is("symbols", Symbol!TypeOK)
    BY SymbolsSay
  <2>9. Is("kernel", Kernel!TypeOK)
    BY SymbolsSay
  <2>10. Is("processes", Process!TypeOK)
    BY ProcessSays
  <2>11. Is("batteries", Battery!TypeOK)
    BY BatteryKept
  <2>12. Is("services", Service!TypeOK)
    BY ServiceKept
  <2> HIDE DEF QueryInv, Is
  <2> QED
    BY <2>1, <2>2, <2>3, <2>4, <2>5, <2>6, <2>7, <2>8, <2>9, <2>10, <2>11, <2>12 DEF TypeOK
<1> QED
  BY <1>1, QueriesInit, QueriesStep, PTL DEF Spec

\* SymbolHandler::CaptureStack, MiniDump::Write, Process::InjectDll and
\* Service::SetFailureActions take back what they took: no thread stays suspended,
\* no part of a dump is left, a path outlives the thread that reads it and no
\* more, and a privilege is enabled only within the call that enabled it.
THEOREM WhatIsTakenIsReturned == Spec => []NothingIsLeft
<1>1. QueryInv => NothingIsLeft
  <2> SUFFICES ASSUME QueryInv PROVE NothingIsLeft
    OBVIOUS
  <2> USE DEF QueryInv, Is
  <2>1. Is("symbols", Symbol!NothingIsLeft) /\ Is("kernel", Kernel!NothingIsLeft)
    BY SymbolsSay
  <2>2. Is("processes", Process!BufferOutlivesThread)
    BY ProcessSays
  <2>3. Is("services", Service!PrivilegeIsReturned)
    BY ServiceKept
  <2> HIDE DEF QueryInv, Is
  <2> QED
    BY <2>1, <2>2, <2>3 DEF NothingIsLeft
<1> QED
  BY <1>1, QueriesInit, QueriesStep, PTL DEF Spec

\* What a query finds is of the one that it asks for and of one moment, and each
\* is found once: CaptureStack's stack, a module's name, a dump's process, what
\* Restart starts, a battery's reading, zombies though handles are used again,
\* jobs though processes come and go, a class though it is registered meanwhile,
\* and a list though it grows between the calls that ask for it.
THEOREM FoundAreTheirs == Spec => []FoundIsOfOne
<1>1. QueryInv => FoundIsOfOne
  <2> SUFFICES ASSUME QueryInv PROVE FoundIsOfOne
    OBVIOUS
  <2> USE DEF QueryInv, Is
  <2>1. Is("symbols", Symbol!StackIsOneMoment /\ Symbol!NewModuleIsNamed /\ Symbol!DumpIsOfProcess)
        /\ Is("kernel", Kernel!NewModuleIsNamed)
    BY SymbolsSay
  <2>2. Is("processes", Process!RestartedOnce)
    BY ProcessSays
  <2>3. Is("batteries", Battery!ReadingIsOfBattery)
    BY BatteryKept
  <2>4. Is("zombies", Zombie!EachZombieOnce) /\ Is("unaddressed", Unaddressed!EachZombieOnce)
    BY ZombieKept, UnaddressedKept
  <2>5. Is("jobs", Job!EachJobOnce /\ Job!SteadyIsOrdered) /\ Is("looked", Looked!EachJobOnce /\ Looked!SteadyIsOrdered)
    BY JobsKept
  <2>6. Is("com", Com!RegisteredIsFound)
    BY ComKept
  <2>7. Is("sized", Sized!ListIsRead /\ Sized!GrowthHasRoom /\ Sized!AsksHaveReason)
    BY SizedKept
  <2> HIDE DEF QueryInv, Is
  <2> QED
    BY <2>1, <2>2, <2>3, <2>4, <2>5, <2>6, <2>7 DEF FoundIsOfOne
<1> QED
  BY <1>1, QueriesInit, QueriesStep, PTL DEF Spec

\* What was enabled or disabled by Autoruns::SetEnabled stays so until others
\* change it, and a step changes the entries of one place at most, by one.
THEOREM TogglesAreHeld == Spec => TogglesHold
<1>1. QueryInv => Is("autoruns", Startup!TogglesHold)
  BY AutorunKept DEF QueryInv, Is
<1>2. QueryInv /\ [Next]_vars => [Is("autoruns", Startup!OneAtATime)]_vars
  BY StepOfOne, AutorunStep DEF QueryInv, Is
<1> QED
  BY <1>1, <1>2, QueriesInit, QueriesStep, PTL DEF Spec, TogglesHold

=============================================================================
