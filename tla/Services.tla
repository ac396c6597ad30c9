------------------------------ MODULE Services ------------------------------
(***************************************************************************)
(* The operations on a service that take several calls of the service      *)
(* control manager, by threads of one process, which share its token's     *)
(* privileges: Service::SetFailureActions and GetFailureActions            *)
(* (Service.cpp), Driver::Install and Start (Driver.cpp).                  *)
(*                                                                         *)
(* Failure actions are a number of actions, the first one a reboot in      *)
(* reboots, and a flag; time passes in units of the 200 ms of a Sleep.     *)
(***************************************************************************)
EXTENDS Naturals, Sequences, SequencesExt, FiniteSetsExt

CONSTANTS
    Callers, Operations,    \* Operations[c]: the operations thread c calls
    HasShutdown,            \* the token has SeShutdownPrivilege
    Patience, MaxTime,      \* the 5 s of Driver::Start; a bound on the time
    MaxCalls                \* a bound on the calls

VARIABLES
    service,        \* external: [state, actions, reboot, flag]; state "none" when it is not installed
    image,          \* external: the driver's file is in the system directory
    enabled,        \* external: the privilege is enabled in the process's token
    now, call,      \* call[c]: what c's call has so far
    calls

servicesVars == <<service, image, enabled, now, call, calls>>

None == [state |-> "none", actions |-> 0, reboot |-> FALSE, flag |-> FALSE]
Stopped == [state |-> "stopped", actions |-> 0, reboot |-> FALSE, flag |-> FALSE]
Called(operation, actions, reboot, flag) ==
    [at |-> operation, actions |-> actions, reboot |-> reboot, flag |-> flag, token |-> FALSE, ok |-> FALSE, since |-> 0]
Idle == Called("idle", 0, FALSE, FALSE)
Becomes(c, new) == call' = [call EXCEPT ![c] = new]
Goes(c, at) == Becomes(c, [call[c] EXCEPT !.at = at])
\* the call returns; what it returned stays until the thread's next one
Returns(c, ok) == Becomes(c, [call[c] EXCEPT !.at = "idle", !.ok = ok])

\* actions are set and got by the handle of a service; no one removes it meanwhile
Begin(c, operation) ==
    /\ call[c].at = "idle" /\ calls < MaxCalls /\ operation \in Operations[c]
    /\ operation \in {"set", "get"} => service.state # "none"
    /\ calls' = calls + 1
    /\ \E n \in 0..1, reboot, flag \in BOOLEAN :
          Becomes(c, Called(operation, n, reboot /\ n > 0, flag))
    /\ UNCHANGED <<service, image, enabled, now>>

\* a reboot action is accepted only with the privilege, which this process's token may not have
EnablePrivilege(enable) == enabled' = IF HasShutdown THEN enable ELSE enabled
Open(c) ==
    /\ call[c].at = "set"
    /\ \E opened \in (IF call[c].reboot THEN BOOLEAN ELSE {FALSE}) :
          /\ IF opened THEN EnablePrivilege(TRUE) ELSE UNCHANGED enabled
          /\ Becomes(c, [call[c] EXCEPT !.at = "change", !.token = opened])
    /\ UNCHANGED <<service, image, now, calls>>
Change(c) ==
    /\ call[c].at = "change"
    /\ \E ok \in (IF call[c].reboot => enabled THEN BOOLEAN ELSE {FALSE}) :
          /\ service' = IF ok THEN [service EXCEPT !.actions = call[c].actions, !.reboot = call[c].reboot] ELSE service
          /\ Becomes(c, [call[c] EXCEPT !.at = "restore", !.ok = ok])
    /\ UNCHANGED <<image, enabled, now, calls>>
RestoreIf(c) == call[c].token
Restore(c) ==
    /\ call[c].at = "restore"
    /\ IF RestoreIf(c) THEN EnablePrivilege(FALSE) ELSE UNCHANGED enabled
    /\ IF call[c].ok THEN Goes(c, "flag") ELSE Returns(c, FALSE)
    /\ UNCHANGED <<service, image, now, calls>>
Flag(c) ==
    /\ call[c].at = "flag"
    /\ \E ok \in BOOLEAN :
          Returns(c, ok) /\ service' = IF ok THEN [service EXCEPT !.flag = call[c].flag] ELSE service
    /\ UNCHANGED <<image, enabled, now, calls>>

\* GetFailureActions: the size, the actions in a buffer of that size, then the flag by another query
Probe(c) ==
    /\ call[c].at = "get"
    /\ Returns(c, FALSE) \/ Becomes(c, [call[c] EXCEPT !.at = "read", !.actions = service.actions])
    /\ UNCHANGED <<service, image, enabled, now, calls>>
ReadActions(c) ==
    /\ call[c].at = "read"
    /\ IF service.actions > call[c].actions THEN Returns(c, FALSE)
       ELSE Becomes(c, [call[c] EXCEPT !.at = "read_flag", !.actions = service.actions, !.reboot = service.reboot])
    /\ UNCHANGED <<service, image, enabled, now, calls>>
ReadFlag(c) ==
    /\ call[c].at = "read_flag"
    /\ Becomes(c, [call[c] EXCEPT !.at = "idle", !.ok = TRUE, !.flag = service.flag])
    /\ UNCHANGED <<service, image, enabled, now, calls>>

\* Driver::Install: what CopyFile and Start answer is not looked at
Find(c) ==
    /\ call[c].at = "install"
    /\ IF service.state # "none" THEN Returns(c, TRUE) ELSE Goes(c, "copy")
    /\ UNCHANGED <<service, image, enabled, now, calls>>
Copy(c) ==
    /\ call[c].at = "copy" /\ Goes(c, "create")
    /\ image' \in {image, TRUE}
    /\ UNCHANGED <<service, enabled, now, calls>>
Create(c) ==
    /\ call[c].at = "create"
    /\ IF service.state # "none" THEN Returns(c, FALSE) /\ UNCHANGED service
       ELSE Goes(c, "start_it") /\ service' = Stopped
    /\ UNCHANGED <<image, enabled, now, calls>>
\* external: StartService fails when the service is not stopped, or its image is not there
Started == service.state = "stopped" /\ image
StartIt(c) ==
    /\ call[c].at = "start_it" /\ Returns(c, TRUE)
    /\ service' = IF Started THEN [service EXCEPT !.state = "starting"] ELSE service
    /\ UNCHANGED <<image, enabled, now, calls>>

\* Driver::Start
Status(c) ==
    /\ call[c].at = "start"
    /\ CASE service.state = "none" -> Returns(c, FALSE)
         [] service.state = "running" -> Returns(c, TRUE)
         [] OTHER -> Goes(c, "start_now")
    /\ UNCHANGED <<service, image, enabled, now, calls>>
StartNow(c) ==
    /\ call[c].at = "start_now"
    /\ IF Started THEN /\ service' = [service EXCEPT !.state = "starting"]
                       /\ Becomes(c, [call[c] EXCEPT !.at = "poll", !.since = now])
       ELSE Returns(c, FALSE) /\ UNCHANGED service
    /\ UNCHANGED <<image, enabled, now, calls>>
Poll(c) ==
    /\ call[c].at = "poll"
    /\ IF service.state # "running" /\ now - call[c].since < Patience THEN Goes(c, "sleep") ELSE Goes(c, "last")
    /\ UNCHANGED <<service, image, enabled, now, calls>>
LastStatus(c) ==
    /\ call[c].at = "last" /\ Returns(c, service.state = "running")
    /\ UNCHANGED <<service, image, enabled, now, calls>>
\* Sleep(200), during which the service may come up
Wake(c) ==
    /\ call[c].at = "sleep" /\ now < MaxTime /\ now' = now + 1 /\ Goes(c, "poll")
    /\ UNCHANGED <<service, image, enabled, calls>>
\* external
ComesUp ==
    /\ service.state = "starting" /\ service' \in {[service EXCEPT !.state = s] : s \in {"running", "stopped"}}
    /\ UNCHANGED <<image, enabled, now, call, calls>>

Step(c) ==
    \/ Open(c) \/ Change(c) \/ Restore(c) \/ Flag(c) \/ Probe(c) \/ ReadActions(c) \/ ReadFlag(c)
    \/ Find(c) \/ Copy(c) \/ Create(c) \/ StartIt(c) \/ Status(c) \/ StartNow(c) \/ Poll(c) \/ LastStatus(c) \/ Wake(c)

Init ==
    /\ service \in {None, Stopped} /\ image \in BOOLEAN /\ enabled = FALSE
    /\ now = 0 /\ call = [c \in Callers |-> Idle] /\ calls = 0
Next ==
    \/ \E c \in Callers : Step(c) \/ \E operation \in {"set", "get", "install", "start"} : Begin(c, operation)
    \/ ComesUp
Spec == Init /\ [][Next]_servicesVars

(* Types; failure actions are in an installed service, and a reboot is one   *)
(* of the actions.                                                           *)
TypeOK ==
    /\ service.state \in {"none", "stopped", "starting", "running"} /\ service.actions \in 0..1
    /\ {service.reboot, service.flag, image, enabled} \subseteq BOOLEAN
    /\ now \in 0..MaxTime /\ calls \in 0..MaxCalls /\ \A c \in Callers : call[c].since <= now
    /\ service.state = "none" => service = None
    /\ service.reboot => service.actions > 0

(* The privilege is enabled only while a call that sets a reboot action is   *)
(* between its two EnablePrivilege calls, whatever the other calls answer    *)
(* (Service.cpp:255-266).                                                    *)
PrivilegeIsReturned == enabled => \E c \in Callers : call[c].token /\ call[c].at \in {"change", "restore"}

-----------------------------------------------------------------------------
(***************************************************************************)
(* ServiceManager (ServiceManager.cpp): a service installed from what a    *)
(* user gave, its configuration read back, its DLL and the account of its  *)
(* SID. A user service is a template whose instances, one of each logon,   *)
(* have its name, "_" and the logon's id.                                  *)
(*                                                                         *)
(* Text is a sequence of characters, or a name as a whole.                  *)
(***************************************************************************)
Zero == "0"
Spaces == {" "}

LastIndex(text, c) == SelectLastInSeq(text, LAMBDA d : d = c)

Trimmed(text) ==
    LET kept == {i \in DOMAIN text : text[i] \notin Spaces}
    IN  IF kept = {} THEN <<>> ELSE SubSeq(text, Min(kept), Max(kept))
\* the parts between the ";"
Parts(text) ==
    LET ends == SetToSortSeq({i \in DOMAIN text : text[i] = ";"} \cup {Len(text) + 1}, <)
    IN  [k \in DOMAIN ends |-> SubSeq(text, IF k = 1 THEN 1 ELSE ends[k - 1] + 1, ends[k] - 1)]
Named(text) == text # <<>>
\* "a;b;+Group" as a list of strings with an empty one at its end
Dependencies(text) ==
    LET names == SelectSeq([k \in DOMAIN Parts(text) |-> Trimmed(Parts(text)[k])], Named)
    IN  FlattenSeq([k \in DOMAIN names |-> Append(names[k], Zero)]) \o <<Zero>>

FileName(path) == SubSeq(path, LastIndex(path, "\\"), Len(path))
\* copied: CopyFile's answer; created: CreateService's. delayed: ChangeServiceConfig2's, which is not looked at
Install(params, copied, created, delayed) ==
    LET path == IF params.target = <<>> THEN params.image ELSE params.target \o FileName(params.image)
        list == Dependencies(params.dependencies)
    IN  IF (params.target # <<>> /\ ~copied) \/ ~created THEN [ok |-> FALSE]
        ELSE [ok |-> TRUE, image |-> path, delayed |-> params.delayed /\ delayed,
              dependencies |-> IF Len(list) < 2 THEN <<>> ELSE list,
              account |-> CASE params.account = "Network Service" -> "NT AUTHORITY\\NetworkService"
                            [] params.account = "Local Service" -> "NT AUTHORITY\\LocalService"
                            [] params.account = "Local System" -> ""
                            [] OTHER -> params.account]

\* the strings of a list up to the empty one; it may have none
Strings(list) ==
    LET zeros == {0} \cup {i \in DOMAIN list : list[i] = Zero}
        starts == {z + 1 : z \in {y \in zeros : y < Len(list) /\ list[y + 1] # Zero /\ \A x \in zeros : x < y => list[x + 1] # Zero}}
        order == SetToSortSeq(starts, <)
    IN  [k \in DOMAIN order |-> SubSeq(list, order[k], Min({z \in zeros : z >= order[k]}) - 1)]
\* triggers: how many, "large" for the error of a buffer too small for them, "failed" for another one;
\* user: who runs the instance's process, "" when it is not running or its token cannot be had
GetServiceConfiguration(config, displayName, triggers, user) ==
    [account |-> IF config.account = "" /\ config.userService /\ LastIndex(displayName, "_") # 0 /\ user # ""
                  THEN user ELSE config.account,
     delayed |-> config.automatic /\ config.delayed,
     triggered |-> triggers \in {"some", "large"},
     dependencies |-> Strings(config.dependencies)]

Base(name) == LET at == LastIndex(name, "_") IN IF at = 0 THEN name ELSE SubSeq(name, 1, at - 1)
\* the account whose SID is the service's
ServiceAccount(name, userService) == IF userService THEN Base(name) ELSE name
\* keys[name]: the ServiceDll of the service's Parameters key and of its own, <<>> when it has none
ReadServiceDll(keys, name) ==
    IF name \notin DOMAIN keys THEN <<>> ELSE IF keys[name].parameters # <<>> THEN keys[name].parameters ELSE keys[name].own
GetServiceDll(keys, name, instance) ==
    IF ReadServiceDll(keys, name) = <<>> /\ instance /\ LastIndex(name, "_") # 0
    THEN ReadServiceDll(keys, Base(name)) ELSE ReadServiceDll(keys, name)

(* The dependencies that are read back are those that were installed: the    *)
(* names between the ";", none that is empty to end the list before the      *)
(* others (ServiceManager.cpp:212-226, 110-114).                             *)
DependenciesAreKept(text) ==
    LET params == [image |-> <<"\\", "a">>, target |-> <<>>, dependencies |-> text, delayed |-> FALSE, account |-> ""]
        installed == Install(params, TRUE, TRUE, TRUE)
        config == [account |-> "", userService |-> FALSE, automatic |-> FALSE, delayed |-> FALSE, dependencies |-> installed.dependencies]
    IN  GetServiceConfiguration(config, <<>>, "none", "").dependencies =
            SelectSeq([k \in DOMAIN Parts(text) |-> Trimmed(Parts(text)[k])], LAMBDA name : name # <<>>)

(* An instance of a user service has the DLL and the account of its          *)
(* template, whatever "_" the template's name has, unless it has a DLL of    *)
(* its own (ServiceManager.cpp:274-275, 297-303).                            *)
InstanceIsOfTemplate(template, id, keys) ==
    LET name == template \o <<"_">> \o id
    IN  /\ ServiceAccount(name, TRUE) = template
        /\ GetServiceDll(keys, name, TRUE) =
               IF ReadServiceDll(keys, name) # <<>> THEN ReadServiceDll(keys, name) ELSE ReadServiceDll(keys, template)
=============================================================================
