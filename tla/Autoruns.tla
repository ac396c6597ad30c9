------------------------------- MODULE Autoruns -------------------------------
(***************************************************************************)
(* What starts by itself, as it is listed, enabled, disabled and deleted   *)
(* (WinSys Autoruns.cpp), while others do the same: installers, and Task   *)
(* Manager.                                                                *)
(*                                                                         *)
(* A place is where an autorun may be: a value of a registry key, a file,  *)
(* a task; what is there is a sequence of commands, or nothing.            *)
(***************************************************************************)
EXTENDS Naturals, Sequences, FiniteSets

CONSTANTS
    Places,     \* that are looked at
    Commands,   \* what may be stored there; one is "none": runs nothing
    MaxChanges  \* bound, of the others' doing

\* the key or folder, its hive, which of its lists Task Manager keeps the state in ("none": it can't be disabled),
\* what separates the commands of one value, and whether an entry is all of what is deleted with it
Place(store, hive, key, list, separator, deletable) ==
    [store |-> store, hive |-> hive, key |-> key, list |-> list, separator |-> separator, deletable |-> deletable]

RunKeys ==
    {Place("value", "HKLM", "Run", "Run", "none", TRUE), Place("value", "HKLM", "WOW64_Run", "Run32", "none", TRUE),
     Place("value", "HKCU", "Run", "Run", "none", TRUE)}
    \cup {Place("value", hive, key, "none", "none", TRUE) :
              hive \in {"HKLM", "HKCU"}, key \in {"RunOnce", "Policies"}}
    \cup {Place("value", "HKLM", "WOW64_RunOnce", "none", "none", TRUE)}
StartupFolders == {Place("file", hive, "Startup", "StartupFolder", "none", TRUE) : hive \in {"HKLM", "HKCU"}}
ActiveSetup == {Place("value", "HKLM", key, "none", "none", FALSE) : key \in {"Active_Setup", "WOW64_Active_Setup"}}
PackageTasks == {Place("package", "HKCU", "SystemAppData", "State", "none", FALSE)}
Winlogon ==
    {Place("value", "HKLM", "Userinit", "none", "comma", FALSE)}
    \cup {Place("value", "HKLM", key, "none", "first", FALSE) : key \in {"Shell", "Taskman", "AppSetup"}}
    \cup {Place("value", "HKCU", "Shell", "none", "first", FALSE)}
AppInit == {Place("value", "HKLM", key, "none", "comma", FALSE) : key \in {"AppInit_DLLs", "WOW64_AppInit_DLLs"}}
BootExecute == {Place("value", "HKLM", key, "none", "strings", FALSE) : key \in {"BootExecute", "SetupExecute", "Execute"}}
Lsa ==
    {Place("value", "HKLM", key, "none", "strings", FALSE) :
        key \in {"Authentication_Packages", "Notification_Packages", "Security_Packages",
                 "OSConfig_Authentication_Packages", "OSConfig_Notification_Packages", "OSConfig_Security_Packages"}}
Hijacks == {Place("value", "HKLM", key, "none", "none", TRUE) : key \in {"Debugger", "WOW64_Debugger", "MonitorProcess"}}
Services == {Place("service", "HKLM", "Services", "none", "none", FALSE)}
Tasks == {Place("task", "HKLM", "Tasks", "Enabled", "none", TRUE)}
Everywhere ==
    RunKeys \cup StartupFolders \cup ActiveSetup \cup PackageTasks \cup Winlogon \cup AppInit \cup BootExecute \cup Lsa
        \cup Hijacks \cup Services \cup Tasks

VARIABLES
    stored,     \* of each place, its commands; <<>>: nothing is there
    states,     \* of each hive's list: "none", "enabled", "disabled", of a package also "policyOn", "policyOff"
    entries,    \* the last Enum's
    wanted,     \* history: of each place, what a caller last had it set to, until somebody else changes it; "any"
    changes

autorunVars == <<stored, states, entries, wanted, changes>>

Policies == {"policyOn", "policyOff"}
Values(place) == {<<>>} \cup {<<c>> : c \in Commands} \cup (IF place.separator = "none" THEN {} ELSE Commands \X Commands)
Lists == {<<p.hive, p.list>> : p \in {q \in Places : q.list # "none"}}

-----------------------------------------------------------------------------
\* RegistryEntry: the commands of a value that are entries of their own
Parts(place) ==
    LET commands == stored[place]
        named == {i \in DOMAIN commands : commands[i] # "none"}
    IN {commands[i] : i \in {i \in named : place.separator = "first" => \A j \in named : i <= j}}

\* IsApproved: disabled if its list says so, a package's task if none says that it is enabled (the manifest's default here)
Says(state, place) ==
    CASE state \in {"disabled", "policyOff"} -> "no" [] state \in {"enabled", "policyOn"} -> "yes"
      [] state = "none" -> IF place.store = "package" THEN "no" ELSE "yes"
Enabled(place) == IF place.list = "none" THEN "always" ELSE Says(states[<<place.hive, place.list>>], place)

EntriesAt(place) == {[place |-> place, command |-> c, enabled |-> Enabled(place)] : c \in Parts(place)}
Autoruns == UNION {EntriesAt(p) : p \in Places}

Enum ==
    /\ entries' = Autoruns
    /\ UNCHANGED <<stored, states, wanted, changes>>

\* for the mutants: Task Manager's 64-bit list, always
ApprovedName_Run(place) == IF place.list = "Run32" THEN "Run" ELSE place.list
\* the list that an entry's state is kept in
ApprovedName(place) == place.list

\* SetEnabled: no more than a state, and not against a policy; it may be denied
SetEnabled(entry, enable) ==
    LET list == <<entry.place.hive, ApprovedName(entry.place)>>
    IN /\ entry.enabled # "always" /\ states[list] \notin Policies
       /\ entry.place.store = "task" => stored[entry.place] # <<>>
       /\ states' = [states EXCEPT ![list] = IF enable THEN "enabled" ELSE "disabled"]
       /\ wanted' = [wanted EXCEPT ![entry.place] = IF enable THEN "yes" ELSE "no"]
       /\ UNCHANGED <<stored, entries, changes>>

MayDelete(entry) == entry.place.deletable
\* its state goes with it, if that is not denied
Forgets(list) == states' = [states EXCEPT ![list] = "none"] \/ states' = states
Delete(entry) ==
    /\ MayDelete(entry) /\ stored[entry.place] # <<>>
    /\ stored' = [stored EXCEPT ![entry.place] = <<>>]
    /\ IF entry.enabled # "always" /\ entry.place.store # "task"
       THEN Forgets(<<entry.place.hive, ApprovedName(entry.place)>>)
       ELSE states' = IF entry.place.store = "task" THEN [states EXCEPT ![<<entry.place.hive, entry.place.list>>] = "none"]
                      ELSE states
    /\ wanted' = [wanted EXCEPT ![entry.place] = "any"]
    /\ UNCHANGED <<entries, changes>>

-----------------------------------------------------------------------------
(* Others.                                                                   *)

Install(place, commands) ==
    /\ changes < MaxChanges /\ changes' = changes + 1
    /\ stored' = [stored EXCEPT ![place] = commands]
    /\ UNCHANGED <<states, entries, wanted>>
TaskManager(place, state) ==
    /\ changes < MaxChanges /\ changes' = changes + 1
    /\ place.list # "none" /\ (state \in Policies => place.store = "package") /\ (place.store = "task" => stored[place] # <<>>)
    /\ states' = [states EXCEPT ![<<place.hive, place.list>>] = state]
    /\ wanted' = [wanted EXCEPT ![place] = "any"]
    /\ UNCHANGED <<stored, entries>>

-----------------------------------------------------------------------------
Init ==
    /\ stored \in [Places -> {<<>>, <<"none">>}]
    /\ states = [l \in Lists |-> "none"]
    /\ entries = {} /\ wanted = [p \in Places |-> "any"] /\ changes = 0

Call ==
    \/ Enum
    \/ \E e \in entries : Delete(e) \/ \E enable \in BOOLEAN : SetEnabled(e, enable)
Next ==
    \/ Call
    \/ \E p \in Places :
        \/ \E commands \in Values(p) : Install(p, commands)
        \/ \E state \in {"none", "enabled", "disabled"} \cup Policies : TaskManager(p, state)
Spec == Init /\ [][Next]_autorunVars

TypeOK ==
    /\ Places \subseteq Everywhere
    /\ \A p \in Places : stored[p] \in Values(p)
    /\ \A e \in entries : e.place \in Places /\ e.command \in Commands \ {"none"}

(* What a caller has enabled or disabled is so, in whatever place it is,     *)
(* until somebody else changes it: SetEnabled writes where the list is read  *)
(* from.                                                                     *)
TogglesHold == \A p \in Places : wanted[p] # "any" /\ stored[p] # <<>> => Enabled(p) = wanted[p]

(* A call changes no more than one of the entries there are ("Deletable:     *)
(* removing it removes the autorun", Autoruns.h:68), though several may be   *)
(* in one value and the entry may not be what it was when it was listed.     *)
OneAtATime == changes' = changes => Cardinality(Autoruns \ Autoruns') <= 1
=============================================================================
