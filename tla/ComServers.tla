----------------------------- MODULE ComServers -----------------------------
(***************************************************************************)
(* What a COM server process serves (WinSys Com.cpp, Identify): looked up  *)
(* step by step in the registry, in an index of its classes that all       *)
(* callers share, and in the COM+ catalog, read once; meanwhile servers    *)
(* are registered and unregistered.                                        *)
(*                                                                         *)
(* One surrogate's application ID and one image are looked for: an ID is   *)
(* registered by its name, by a class of it, in a package, as a class      *)
(* itself or as a COM+ application; an image, as the local server of one   *)
(* or two classes, which share an application ID or do not.                *)
(***************************************************************************)
EXTENDS Naturals, FiniteSets, Sequences, FiniteSetsExt, SequencesExt, Functions

CONSTANTS
    Callers,        \* threads
    IndexRefresh,   \* how old an index may be
    MaxTime, MaxCalls, MaxChanges   \* bounds

\* where an ID may be registered, in the order they are looked in; and the image's classes
Sources == <<"app", "indexed", "packaged", "class", "complus">>
LocalClasses == {"local1", "local2"}
Registrable == {Sources[n] : n \in DOMAIN Sources} \cup LocalClasses

VARIABLES
    registered,     \* since when; 0: not now
    index,          \* [built, tick, classes]
    comPlusLoaded, s_ComPlus,
    caller,         \* [kind, at: "rest", a source, "local" or "end", found, classes, named, since: when the call began]
    now, calls, changes

comVars == <<registered, index, comPlusLoaded, s_ComPlus, caller, now, calls, changes>>

NoIndex == [built |-> FALSE, tick |-> 0, classes |-> {}]
NoCaller == [kind |-> "app", at |-> "rest", found |-> "Unknown", classes |-> 0, named |-> FALSE, since |-> 0]

-----------------------------------------------------------------------------
Is(what) == registered[what] # 0
BuildIndex == [built |-> TRUE, tick |-> now, classes |-> {c \in {"indexed"} \cup LocalClasses : Is(c)}]
\* under s_Lock
GetIndex(missed) == IF ~index.built \/ (missed /\ now - index.tick > IndexRefresh) THEN BuildIndex ELSE index
\* FindClasses: what the index has, or else may have by now
Looked(keys) == IF GetIndex(FALSE).classes \cap keys # {} THEN GetIndex(FALSE) ELSE GetIndex(TRUE)

\* ParseCommandLine: a surrogate's ID, or a local server's switch
Identify(t) ==
    /\ caller[t].at \in {"rest", "end"} /\ calls < MaxCalls
    /\ calls' = calls + 1
    /\ \E at \in {"app", "local"} : caller' = [caller EXCEPT ![t] = [NoCaller EXCEPT !.kind = at, !.at = at, !.since = now]]
    /\ UNCHANGED <<registered, index, comPlusLoaded, s_ComPlus, now, changes>>

Finds(t, at, kind, count) == caller' = [caller EXCEPT ![t] = [@ EXCEPT !.at = at, !.found = kind, !.classes = count, !.named = TRUE]]
GoesOn(t, at) == caller' = [caller EXCEPT ![t].at = at]

\* HKCR\AppID: a name, and the classes are counted all the same
ReadAppId(t) ==
    /\ caller[t].at = "app"
    /\ IF Is("app") THEN Finds(t, "indexed", "Classic", 0) ELSE GoesOn(t, "indexed")
    /\ UNCHANGED <<registered, index, comPlusLoaded, s_ComPlus, now, calls, changes>>
FindByAppId(t) ==
    /\ caller[t].at = "indexed"
    /\ index' = Looked({"indexed"})
    /\ IF "indexed" \in index'.classes THEN Finds(t, "end", "Classic", 1)
       ELSE GoesOn(t, IF caller[t].found = "Unknown" THEN "packaged" ELSE "end")
    /\ UNCHANGED <<registered, comPlusLoaded, s_ComPlus, now, calls, changes>>
FindPackaged(t) ==
    /\ caller[t].at = "packaged"
    /\ IF Is("packaged") THEN Finds(t, "end", "Packaged", 1) ELSE GoesOn(t, "class")
    /\ UNCHANGED <<registered, index, comPlusLoaded, s_ComPlus, now, calls, changes>>
FindClass(t) ==
    /\ caller[t].at = "class"
    /\ IF Is("class") THEN Finds(t, "end", "Classic", 1) ELSE GoesOn(t, "complus")
    /\ UNCHANGED <<registered, index, comPlusLoaded, s_ComPlus, now, calls, changes>>
\* LoadComPlus, and under the same lock the lookup; a catalog that can't be read isn't tried again
FindComPlus(t) ==
    /\ caller[t].at = "complus"
    /\ IF comPlusLoaded THEN UNCHANGED <<comPlusLoaded, s_ComPlus>>
       ELSE comPlusLoaded' = TRUE /\ s_ComPlus' \in {{}, {c \in {"complus"} : Is(c)}}
    /\ IF s_ComPlus' # {} THEN Finds(t, "end", "ComPlus", 0) ELSE GoesOn(t, "end")
    /\ UNCHANGED <<registered, index, now, calls, changes>>
\* the image's classes: the application ID they share names them, or the only one; else a package's server
FindLocal(t) ==
    /\ caller[t].at = "local"
    /\ index' = Looked(LocalClasses)
    /\ LET classes == index'.classes \cap LocalClasses
       IN IF classes = {} THEN (Is("packaged") /\ Finds(t, "end", "Packaged", 1)) \/ GoesOn(t, "end")
          ELSE \E named \in IF Cardinality(classes) = 1 THEN {TRUE} ELSE BOOLEAN :
                caller' = [caller EXCEPT ![t] = [@ EXCEPT !.at = "end", !.found = "Classic", !.classes = Cardinality(classes), !.named = named]]
    /\ UNCHANGED <<registered, comPlusLoaded, s_ComPlus, now, calls, changes>>

-----------------------------------------------------------------------------
(* Others: installers, and time.                                             *)
Register(what) ==
    /\ changes < MaxChanges /\ changes' = changes + 1
    /\ registered' = [registered EXCEPT ![what] = IF Is(what) THEN 0 ELSE now]
    /\ UNCHANGED <<index, comPlusLoaded, s_ComPlus, caller, now, calls>>
Tick ==
    /\ now < MaxTime /\ now' = now + 1
    /\ UNCHANGED <<registered, index, comPlusLoaded, s_ComPlus, caller, calls, changes>>

-----------------------------------------------------------------------------
Init ==
    /\ registered \in [Registrable -> {0, 1}] /\ now = 1
    /\ index = NoIndex /\ comPlusLoaded = FALSE /\ s_ComPlus = {}
    /\ caller = [t \in Callers |-> NoCaller] /\ calls = 0 /\ changes = 0

Step(t) == ReadAppId(t) \/ FindByAppId(t) \/ FindPackaged(t) \/ FindClass(t) \/ FindComPlus(t) \/ FindLocal(t)
Next == (\E t \in Callers : Identify(t) \/ Step(t)) \/ (\E what \in Registrable : Register(what)) \/ Tick
Spec == Init /\ [][Next]_comVars

TypeOK ==
    /\ index.tick <= now /\ (index.classes # {} => index.built)
    /\ s_ComPlus # {} => comPlusLoaded
    /\ \A t \in Callers : caller[t].found = "Unknown" => caller[t].classes = 0 /\ ~caller[t].named

(* What was registered before the call, and of a class for longer than an    *)
(* index may be old, is not missed, whoever built the index and whatever     *)
(* else was looked up since ("read again after five minutes when a lookup    *)
(* misses", Com.h:20).                                                       *)
Since(t, what, age) == Is(what) /\ caller[t].since > registered[what] + age
RegisteredIsFound ==
    \A t \in Callers : caller[t].at = "end" /\ caller[t].found = "Unknown" =>
        IF caller[t].kind = "local" THEN ~\E c \in LocalClasses : Since(t, c, IndexRefresh)
        ELSE ~Since(t, "indexed", IndexRefresh) /\ ~\E s \in {"app", "packaged", "class"} : Since(t, s, 0)

-----------------------------------------------------------------------------
(***************************************************************************)
(* ComRegistry (Com.cpp): the classes registered for COM, read from the    *)
(* machine's hive, the user's and the packages', with what a class's own   *)
(* key doesn't say: which of two registrations is the one used, which of   *)
(* the user's ProgIDs lead to it in place of the machine's, and whether a  *)
(* standard user can replace its server's file.                            *)
(*                                                                         *)
(* A registry is a record of what the enumeration reads: the view (wow64), *)
(* the keys of each hive in their order, the packages' classes, the app    *)
(* IDs, the ProgIDs of each hive, UAC's list and what becomes of each file *)
(* (present, writable).  "" is a value that is not there.                  *)
(***************************************************************************)
\* the app IDs that can be opened, of the view's merged AppID key
ReadAppIds(registry) == Restrict(registry.appIds, {id \in DOMAIN registry.appIds : registry.appIds[id].readable})

-----------------------------------------------------------------------------
\* ViewPath: a 32-bit process's System32 is SysWOW64
ViewPath_Same(file, wow64) == file
ViewPath(file, wow64) ==
    IF wow64 /\ file.folder = "System32" THEN [file EXCEPT !.folder = "SysWOW64"] ELSE file

\* the file a class's server names; rpcss, which starts local servers, is a 64-bit process
PathOf(class, wow64) ==
    IF class.type = "LocalServer" THEN class.file ELSE ViewPath(class.file, wow64)
Full(file) == file.folder \notin {"", "bare"}
NoFile == [folder |-> "", name |-> ""]

\* ReadClass: the server is the first of these the key has
TypeOf(key, app) ==
    CASE key.local # NoFile -> "LocalServer"
      [] key.local = NoFile /\ app.service -> "Service"
      [] key.local = NoFile /\ ~app.service /\ key.inproc # NoFile -> IF app.surrogate THEN "Surrogate" ELSE "InProc"
      [] key.local = NoFile /\ ~app.service /\ key.inproc = NoFile /\ key.handler # NoFile -> "Handler"
      [] OTHER -> "Other"
NoApp == [readable |-> FALSE, service |-> FALSE, surrogate |-> FALSE]
ServerFile(key, type) ==
    CASE type = "LocalServer" -> key.local
      [] type \in {"InProc", "Surrogate"} -> key.inproc
      [] type = "Handler" -> key.handler
      [] OTHER -> NoFile
Missing(registry, class) == Full(class.file) /\ ~registry.files[PathOf(class, class.wow64)].exists
ReadClass(registry, key, perUser) ==
    LET appIds == ReadAppIds(registry)
        app == IF key.appId \in DOMAIN appIds THEN appIds[key.appId] ELSE NoApp
        type == TypeOf(key, app)
        class == [clsid |-> key.clsid, wow64 |-> registry.wow64, perUser |-> perUser, package |-> FALSE,
                  type |-> type, file |-> ServerFile(key, type), elevation |-> key.elevation,
                  overrides |-> FALSE, overridden |-> FALSE, redirected |-> {}]
    IN  class @@ [missing |-> Missing(registry, class)]

-----------------------------------------------------------------------------
\* ReadClasses: a class of the user's marks the machine's of the same ID, found at its index
AddClass(classes, class) ==
    LET machines == {i \in DOMAIN classes : classes[i].clsid = class.clsid /\ ~classes[i].perUser}
    IN  IF class.perUser /\ machines # {}
        THEN Append([classes EXCEPT ![Max(machines)].overridden = TRUE], [class EXCEPT !.overrides = TRUE])
        ELSE Append(classes, class)
ReadClasses(registry, keys, perUser, classes) ==
    FoldLeft(LAMBDA read, key : IF key.readable THEN AddClass(read, ReadClass(registry, key, perUser)) ELSE read,
             classes, keys)

\* ReadPackagedClasses: the class's server is its package's of that ID, else its DLL alone
ReadPackagedClass(registry, class) ==
    LET server == IF class.serverId \in DOMAIN class.servers THEN class.servers[class.serverId]
                  ELSE [executable |-> NoFile, surrogate |-> FALSE]
        type == CASE server.executable # NoFile -> "LocalServer"
                  [] server.executable = NoFile /\ class.dll # NoFile -> IF server.surrogate THEN "Surrogate" ELSE "InProc"
                  [] OTHER -> "Other"
        file == CASE type = "LocalServer" -> server.executable
                  [] type \in {"Surrogate", "InProc"} -> class.dll
                  [] OTHER -> NoFile
        read == [clsid |-> class.clsid, wow64 |-> FALSE, perUser |-> FALSE, package |-> TRUE,
                 type |-> type, file |-> file, elevation |-> FALSE,
                 overrides |-> FALSE, overridden |-> FALSE, redirected |-> {}]
    IN  read @@ [missing |-> Missing(registry, read)]
ReadPackagedClasses(registry) == [i \in DOMAIN registry.packaged |-> ReadPackagedClass(registry, registry.packaged[i])]

-----------------------------------------------------------------------------
\* the user's ProgIDs that point at the class where the machine's point at another
Redirected(registry, class) ==
    IF class.overridden THEN {}
    ELSE {name \in DOMAIN registry.userProgIds \cap DOMAIN registry.progIds :
            registry.userProgIds[name] = class.clsid /\ registry.progIds[name] # class.clsid}

\* UAC elevates the machine's classes of its list without a prompt
AutoApproved(registry, class) == class.elevation /\ ~class.perUser /\ class.clsid \in registry.approved

\* the files are judged once each, by their path
Judged(class) == ~class.perUser /\ ~class.package /\ Full(class.file)
ServerWritable(registry, class) == Judged(class) /\ registry.files[PathOf(class, class.wow64)].writable

EnumClasses(registry) ==
    LET machine == ReadClasses(registry, registry.machine, FALSE, <<>>)
        both == ReadClasses(registry, registry.user, TRUE, machine)
        all == both \o (IF registry.wow64 THEN <<>> ELSE ReadPackagedClasses(registry))
    IN  [i \in DOMAIN all |->
            [all[i] EXCEPT !.redirected = Redirected(registry, all[i])]
            @@ [approved |-> AutoApproved(registry, all[i]), writable |-> ServerWritable(registry, all[i])]]

-----------------------------------------------------------------------------
\* StandardUserCheck::Writable.  A path is its folders, the drive's root first,
\* then the file: "present" of the folders exist (the file only if all of them
\* do); "dir" and "file" are what the user is granted on each
Nearest(path) == path.present
Writable(path) ==
    IF path.exists
    THEN \/ path.file \cap {"Write", "Dac", "Owner"} # {}
         \/ /\ "AddFile" \in path.dir[path.depth]
            /\ "Delete" \in path.file \/ "DeleteChild" \in path.dir[path.depth]
    ELSE /\ path.present > 0
         /\ (IF path.present = path.depth THEN "AddFile" ELSE "AddFolder") \in path.dir[Nearest(path)]

-----------------------------------------------------------------------------
(* Of each class ID some hive registers, one registration is not hidden by   *)
(* another, and it is the one COM uses: the user's, else the machine's.      *)
OneIsUsed(registry) ==
    LET listed == EnumClasses(registry)
        hive == {i \in DOMAIN listed : ~listed[i].package}
        Has(keys, clsid) == \E i \in DOMAIN keys : keys[i].readable /\ keys[i].clsid = clsid
    IN  \A clsid \in {listed[i].clsid : i \in hive} :
            LET used == {i \in hive : listed[i].clsid = clsid /\ ~listed[i].overridden}
            IN  \E i \in used : /\ used = {i} /\ listed[i].perUser = Has(registry.user, clsid)
                                /\ listed[i].overrides = (listed[i].perUser /\ Has(registry.machine, clsid))

(* What is said of a class's server, that it is missing and that users can   *)
(* write it, is said of the file the process that starts it opens: a 32-bit  *)
(* class's DLL is not the System32 file of the name.                         *)
OneFileIsJudged(registry) ==
    LET listed == EnumClasses(registry)
        Opened(class) == IF class.wow64 /\ class.type # "LocalServer" /\ class.file.folder = "System32"
                         THEN "SysWOW64" ELSE class.file.folder
    IN  \A i \in DOMAIN listed : Full(listed[i].file) =>
            LET file == registry.files[[folder |-> Opened(listed[i]), name |-> listed[i].file.name]]
            IN  /\ listed[i].missing = ~file.exists
                /\ Judged(listed[i]) => listed[i].writable = file.writable

\* what the user can make of a path in a step: <<folders present, owned from, whose file>>
Steps(path, s) ==
    LET In(right) == s[1] >= s[2] \/ right \in path.dir[s[1]]
        atFile == s[1] = path.depth
    IN  UNION {IF atFile /\ s[3] = "theirs" /\ path.file \cap {"Write", "Dac", "Owner"} # {}
               THEN {<<s[1], s[2], "replaced">>} ELSE {},
               IF atFile /\ s[3] = "theirs" /\ ("Delete" \in path.file \/ In("DeleteChild"))
               THEN {<<s[1], s[2], "none">>} ELSE {},
               IF atFile /\ s[3] = "none" /\ In("AddFile") THEN {<<s[1], s[2], "replaced">>} ELSE {},
               IF ~atFile /\ s[1] > 0 /\ In("AddFolder")
               THEN {<<s[1] + 1, IF s[2] > s[1] + 1 THEN s[1] + 1 ELSE s[2], "none">>} ELSE {}}
Reached(path) ==
    LET From[n \in 0..(path.depth + 2)] ==
            IF n = 0 THEN {<<path.present, path.depth + 1, IF path.exists THEN "theirs" ELSE "none">>}
            ELSE From[n - 1] \cup UNION {Steps(path, s) : s \in From[n - 1]}
    IN  From[path.depth + 2]

(* A path is writable exactly if some of the steps a user can take, writing, *)
(* deleting, creating a file or a folder, one after another, leave a file of *)
(* the user's at it.                                                         *)
WritableIsReached(path) == Writable(path) <=> \E s \in Reached(path) : s[3] = "replaced"
=============================================================================
