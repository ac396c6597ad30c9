---------------------------------- MODULE MCQueries ----------------------------------
(***************************************************************************)
(* Model checking of the queries: what there is to read, and that it is    *)
(* read as it was written.                                                 *)
(***************************************************************************)
EXTENDS Queries, SequencesExt, FiniteSetsExt

UpTo(S, n) == UNION {[1..k -> S] : k \in 0..n}
Row(from, to) == [i \in 1..(to - from + 1) |-> from + i - 1]

\* a file is "a.exe", "a b.exe", "a b.dll", "b.dll" in full, and programs of the system's
Program(where, names, ext) ==
    [at |-> where, words |-> [i \in DOMAIN names |-> [name |-> names[i], ext |-> IF i = Len(names) THEN ext ELSE "none"]]]
Files ==
    {Program("full", <<"a">>, "exe"), Program("full", <<"a", "b">>, "exe"), Program("full", <<"a", "b">>, "dll"),
     Program("full", <<"b">>, "dll"),
     Program("search", <<"rundll32">>, "exe"), Program("search", <<"b">>, "exe"), Program("system", <<"b">>, "dll")}

Data == INSTANCE EventData
Wsl == INSTANCE WslProtocol
Command == INSTANCE StartupCommands
Pe == INSTANCE PEFile WITH Align <- 2, Dirs <- 6, Flag <- 100, MaxSections <- 2, MaxLibraries <- 2, MaxThunks <- 2,
                           MaxExports <- 3, MaxString <- 2
System == INSTANCE SystemInformation
Text == INSTANCE ProcessCommands
Firmware == INSTANCE FirmwareAndPower
Mask == INSTANCE AccessMasks
Driver == INSTANCE KernelCallbacks
Autorun == INSTANCE Autoruns WITH Places <- {}

-----------------------------------------------------------------------------
(* The inputs.                                                               *)

\* values of texts and elements, of one's own name too; characters past 16 bits, none, and entities
Pieces ==
    [inside : {"", "Data", "i"},
     text : {<<a>> : a \in {[char |-> 65], [hash |-> 65536], [hash |-> 0], [entity |-> "amp"], [entity |-> "x"]}}]
Fields ==
    {<<f>> : f \in [name : {"Data", "a"}, pieces : UpTo(Pieces, 2)]}
    \cup [1..2 -> [name : {"Data", "a"}, pieces : UpTo({p \in Pieces : "char" \in DOMAIN p.text[1]}, 1)]]

\* the helper (4), its session, what it runs (5) and one more; where three of them are gone
LinuxProcess(pid, ppid, name, gone) ==
    [pid |-> pid, ppid |-> ppid, name |-> name, uid |-> IF pid = 6 THEN "7" ELSE "0", text |-> <<pid, 0>>, threads |-> <<pid, pid + 10>>,
     gone |-> gone]
Frames ==
    {[processes |-> <<LinuxProcess(2, 1, "SessionLeader", "never"), LinuxProcess(3, 2, "Relay", "never"),
                      LinuxProcess(4, 3, "sh", "never"), LinuxProcess(5, 4, "cat", gone[1]), LinuxProcess(6, ppid, "Relay", gone[2])>>,
      threads |-> threads, system |-> [HelperPid |-> helper, Users |-> ("0" :> "root")]] :
        gone \in [1..2 -> {"never", "S", "U", "C", "T"}], ppid \in {1, 2}, threads \in BOOLEAN, helper \in {0, 4}}

Words ==
    [name : {"a", "b"}, ext : {"none", "exe"}] \cup {[name |-> "b", ext |-> "dll"], [name |-> "/d", ext |-> "none"]}
    \cup [name : {"rundll32"}, ext : {"none", "exe"}]
CommandLines ==
    {line \in [at : {"full", "bare"}, quoted : 0..2, comma : 1..3, dllAt : {"full", "relative"}, words : UpTo(Words, 3) \ {<<>>}] :
        line.quoted <= Len(line.words) /\ line.comma <= Len(line.words)}
Extensions == [exe : {"none", "x"}, ids : UpTo({"none", "1"}, 1)]
Apps == UpTo([exe : {"none", "a"}, extensions : UpTo(Extensions, 2)], 1)
        \cup [1..2 -> [exe : {"none", "a"}, extensions : UpTo(Extensions, 1)]]

\* a class in the machine's hive before another one, one of the user's, and the file of a name in both system folders
Place(folder, name) == [folder |-> folder, name |-> name]
NoPlace == Place("", "")
Key(clsid, readable, inproc, local, appId) ==
    [clsid |-> clsid, readable |-> readable, inproc |-> inproc, local |-> local, handler |-> NoPlace, appId |-> appId, elevation |-> FALSE]
Outcomes == {[exists |-> TRUE, writable |-> TRUE], [exists |-> TRUE, writable |-> FALSE], [exists |-> FALSE, writable |-> TRUE]}
Registries ==
    {[wow64 |-> view, machine |-> <<key, Key(3, TRUE, Place("Other", "b"), NoPlace, "")>>, user |-> user, packaged |-> <<>>,
      appIds |-> ("app" :> [readable |-> TRUE, service |-> FALSE, surrogate |-> TRUE]),
      userProgIds |-> ("p" :> 1), progIds |-> ("p" :> 2), approved |-> {1},
      files |-> (Place("System32", "a") :> file1) @@ (Place("SysWOW64", "a") :> file2) @@ (Place("Other", "b") :> [exists |-> TRUE, writable |-> FALSE])] :
        view \in BOOLEAN, file1 \in Outcomes, file2 \in Outcomes,
        key \in {Key(clsid, readable, inproc, local, appId) :
                    clsid \in 1..2, readable \in BOOLEAN, inproc \in {NoPlace, Place("System32", "a"), Place("bare", "b")},
                    local \in {NoPlace, Place("System32", "a")}, appId \in {"", "app"}},
        user \in {<<>>} \cup {<<Key(clsid, readable, Place("System32", "a"), NoPlace, "")>> : clsid \in 1..2, readable \in BOOLEAN}}
Paths ==
    {path \in [present : 0..2, depth : {2}, exists : BOOLEAN, file : SUBSET {"Write", "Delete"},
               dir : [1..2 -> SUBSET {"AddFile", "AddFolder", "DeleteChild"}]] : path.exists => path.present = path.depth}

\* headers with a directory at their end, of some structures that may be cut
PeFile(headers, sections, directory, size, body) ==
    <<77, 2, 80, Len(sections), 16, 32, 1, headers, 6>>
    \o FlattenSeq([d \in 1..6 |-> IF d = directory THEN <<21, size>> ELSE <<0, 0>>]) \o FlattenSeq(sections) \o body
Exports(f, n, o) == <<1, 2, 2, 27, 29, 31>> \o f \o n \o o \o <<5, 0, 6, 0>>
Bodies ==
    {<<1, Exports(<<27, 33>>, <<33, 35>>, o)>> : o \in [1..2 -> 0..1]}
    \cup {<<d, <<first, 29, 27, 0, 0, 0, thunk, 0, 5, 0, 1, 6, 0>>>> : d \in {2, 6}, first \in {0, 1, 27}, thunk \in {31, 33, 101}}
    \cup {<<3, <<1, name, 103, 1, 5, 106, 1, 9, 9, 32, size, 1, 7>>>> : name \in {3, 109, 111}, size \in 1..3}
    \cup {<<4, <<2, size, 0, 25, 83, 1, 2, 5, 6, 0>>>> : size \in 2..6}
    \cup {<<5, <<3, 0, 24, 66, length, 5, 6>>>> : length \in 1..3}
PeFiles == UNION {{SubSeq(PeFile(100, <<>>, b[1], 40, b[2]), 1, n) : n \in 18..(21 + Len(b[2]))} : b \in Bodies}
Sections(va) == {<<a, vsize, raw, rsize>> : a \in va, vsize \in 0..3, raw \in 29..31, rsize \in 1..2}
SectionFiles == {PeFile(30, <<s, t>>, 0, 0, <<7, 8, 9>>) : s \in Sections({30}), t \in Sections({32, 34})}
ExportTables == [f : [1..2 -> {0, 50, 60}], n : [1..2 -> {33, 35}], o : [1..2 -> 0..2]]
Checksums == [bytes : UNION {[1..k -> {0, 1, 3}] : k \in 8..9}, at : {2, 4}]

Forms == {"processes", "extended", "full", "pool tags", "page files", "modules", "relationships", "cpu sets", "counted",
          "lookups", "ended", "list", "objects", "distribution"}
Entries(form) ==
    LET items(head) ==
            CASE form = "full" -> IF head = 0 THEN UpTo({5, 6}, 2) ELSE {t \o <<0, 7>> : t \in UpTo({5}, 1)}
              [] form = "relationships" /\ head = 2 -> {<<5>>}
              [] form \in {"page files", "modules", "cpu sets", "counted", "lookups", "ended"} -> {<<>>}
              [] OTHER -> UpTo({5, 6}, 2)
        heads == IF form \in {"modules", "ended"} THEN {1, 2} ELSE {0, 2}
        one == UNION {[head : {head}, items : items(head)] : head \in heads}
        least == IF form \in {"processes", "extended", "full", "pool tags", "page files", "objects", "list"} THEN 1 ELSE 0
    IN  UNION {[1..k -> one] : k \in least..(IF form = "list" THEN 1 ELSE 2)}
Buffers == UNION {[form : {form}, entries : Entries(form), cut : IF form = "full" THEN {0} ELSE 0..3] : form \in Forms}
Processors ==
    {[groups |-> groups,
      relationships |-> <<[masks |-> <<a>>, class |-> 1], [masks |-> <<(0..2) \ a>>, class |-> 0], [masks |-> <<{}, 0..2>>, class |-> 2]>>] :
        groups \in UpTo(SUBSET (0..2) \ {{}}, 2) \ {<<>>}, a \in SUBSET (0..2)}

Splits == [before : UpTo({" "}, 1), file : UpTo({"a", " ", "\"", "\\"}, 3), quoted : BOOLEAN, args : UpTo({"a", " ", "\""}, 2)]
Debuggers == UpTo({"dbg", "-p %ld", "-e %ld", "-j 0x%p", "-j %p"}, 4)
Environments ==
    [variables : UpTo([name : {<<"a">>, <<"=", "a">>, <<"=">>}, value : UpTo({"b", "="}, 2)], 2), extra : UpTo({"0", "a"}, 2)]
Windows ==
    UpTo([pid : 0..2, visible : {TRUE}, hung : BOOLEAN, ghost : BOOLEAN, owned : BOOLEAN, tool : {FALSE}, title : {"", "a"}], 2)

\* the boot order, and options whose paths end early, or say that they go on
Variables ==
    [variables : UpTo([vendor : {"global"}, name : {"a", "b"}, value : UpTo({5, 6}, 2)], 2) \ {<<>>}, cut : 0..4]
Variable(vendor, name, value) == [vendor |-> vendor, name |-> name, value |-> value]
Options ==
    {<<>>, <<1, 4, 7>>, <<1>>}
    \cup {<<1, n, 7, 0>> \o path : n \in {2, 5, 9},
             path \in {<<4, 4, 8, 0>>, <<4, 9, 8, 8>>, <<1, 3, 9, 4, 4, 8, 8>>, <<4, 1>>, <<127, 4, 8, 8>>}}
Boots ==
    {<<Variable("global", "BootOrder", order), Variable("global", "Boot2", a), Variable(vendor, "Boot1", b), Variable("other", "Boot1", b)>> :
        order \in UpTo(1..3, 2), a \in Options, b \in Options, vendor \in {"global", "other"}}
Properties == [pairs : UpTo({<<p, v>> : p \in 1..3, v \in 5..6}, 2), said : 0..3]
Requests ==
    [first : [kind : 0..2, a : {0, 5, 6, 14, 30}, b : {0, 5}, reason : {0, 8, 20}],
     second : [kind : {0}, a : {5}, b : {5}, reason : {8}], wake : BOOLEAN, cut : 0..12]

File ==
    [known |-> TRUE, all |-> {"delete", "read control", "synchronize", "1", "2"},
     rights |-> <<[name |-> "GENERIC_READ", mask |-> {"read control", "synchronize", "1"}],
                  [name |-> "GENERIC_WRITE", mask |-> {"read control", "synchronize", "2"}],
                  [name |-> "READ_DATA", mask |-> {"1"}], [name |-> "WRITE_DATA", mask |-> {"2"}]>>]
Masks == [type : {File, [File EXCEPT !.known = FALSE]}, access : SUBSET (File.all \cup {"generic", "other"})]
Dependencies == UpTo({"a", ";", " "}, 5)
Instances ==
    {[template |-> template,
      keys |-> (template :> [parameters |-> p, own |-> q]) @@ ((template \o <<"_", "1">>) :> [parameters |-> <<>>, own |-> r])] :
        template \in {<<"a">>, <<"a", "_", "b">>, <<"_">>, <<>>}, p \in UpTo({"x"}, 1), q \in UpTo({"x"}, 1), r \in UpTo({"y"}, 1)}

Imports ==
    {<<>>, <<"PsSet">>, <<"PsSet", "Ex">>, <<"PsSet", "Ex", "2">>, <<"PsSet", "1">>, <<"FwpsCalloutRegister">>,
     <<"FwpsCalloutRegister", "0">>, <<"FwpsCalloutRegister", "Ex">>, <<"CmRegister">>}
Images ==
    {<<[path |-> "a", readable |-> readable, imports |-> <<<<f, g>>, <<h>>>>], [path |-> "b", readable |-> TRUE, imports |-> <<<<g>>>>]>> :
        f \in Imports, g \in Imports, h \in Imports, readable \in BOOLEAN}
Volumes == <<[legacy |-> FALSE, name |-> "i", volume |-> "v", size |-> 1], [legacy |-> TRUE, name |-> "", volume |-> "w", size |-> 5]>>
Minifilters ==
    {[i \in 1..3 |-> [legacy |-> filters[i][1], altitude |-> filters[i][2], size |-> filters[i][3], name |-> <<"a", "b", "c">>[i],
                      instances |-> Volumes]] :
        filters \in [1..3 -> {f \in BOOLEAN \X {<<2>>, <<1, 2>>, <<1, 0>>} \X {1, 3} : f[1] => f[3] = 1}]}

MCReadings ==
    {"fields", "frame", "command line", "startup tasks", "triggers", "registry", "path", "image file", "sections", "exports",
         "checksum", "buffer", "processors", "split", "debugger", "environment", "windows", "variables", "boot", "properties",
         "power", "mask", "dependencies", "instance", "callbacks", "minifilters"}
MCInputs(what) ==
    CASE what = "fields" -> Fields [] what = "frame" -> Frames [] what = "command line" -> CommandLines
      [] what = "startup tasks" -> Apps [] what = "triggers" -> UpTo({"boot", "logon"}, 4) [] what = "registry" -> Registries
      [] what = "path" -> Paths [] what = "image file" -> PeFiles [] what = "sections" -> SectionFiles
      [] what = "exports" -> ExportTables [] what = "checksum" -> Checksums [] what = "buffer" -> Buffers
      [] what = "processors" -> Processors [] what = "split" -> Splits [] what = "debugger" -> Debuggers
      [] what = "environment" -> Environments [] what = "windows" -> Windows [] what = "variables" -> Variables
      [] what = "boot" -> Boots [] what = "properties" -> Properties [] what = "power" -> Requests [] what = "mask" -> Masks
      [] what = "dependencies" -> Dependencies [] what = "instance" -> Instances [] what = "callbacks" -> Images
      [] what = "minifilters" -> Minifilters

-----------------------------------------------------------------------------
(* What a buffer, a file or a helper's output says is read as it was         *)
(* written, and of one that is cut short or says more than it holds, nothing *)
(* is read from beyond it or from another entry.                             *)
BuffersAreRead ==
    /\ Is("fields", Data!FieldsAreRead(input))
    /\ Is("frame", Wsl!FrameIsTrue(input.processes, input.threads, input.system))
    /\ Is("image file", Pe!ReadsAreInside(input))
    /\ Is("sections", Pe!OffsetsAreMapped(Pe!Parse(input), 0..38))
    /\ Is("checksum", Pe!ChecksumIsSum(input.bytes, input.at, 4))
    /\ Is("buffer", System!EntriesAreRead(input.form, input.entries, input.cut))
    /\ Is("variables", Firmware!VariablesAreRead(input.variables, input.cut))
    /\ Is("properties", Firmware!PropertiesAreRead(input.pairs, input.said))
    /\ Is("power", Firmware!EntriesKeepApart(input.first, input.second, 40, input.wake, input.cut))

(* A command line, an environment, a list of dependencies, a debugger's      *)
(* command, a package's startup tasks and an access mask are taken apart     *)
(* into what they were put together from, or what the system takes them for. *)
TextsAreTaken ==
    /\ Is("command line", Command!ImageIsRun(input))
    /\ Is("startup tasks", Command!TasksAreTheirs(input)) /\ Is("triggers", Command!TriggersAreCounted(input))
    /\ Is("split", Text!CommandIsSplit(input.before, input.file, input.quoted, input.args))
    /\ Is("debugger", Text!DebuggerIsTold(input))
    /\ Is("environment", Text!EnvironmentIsKept(input.variables, input.extra))
    /\ Is("mask", Mask!MaskIsShown(input.type, input.access))
    /\ Is("dependencies", Service!DependenciesAreKept(input))

(* What is told of one thing is that thing's, though it is found in a list   *)
(* of others, in another order or under another name: a core, a window's     *)
(* title, a COM class's registration and file, an export, a boot entry, a    *)
(* service's template, a callback's driver and a minifilter.                 *)
EachIsTheirs ==
    /\ Is("processors", System!CoresAreTheirs(input.groups, input.relationships))
    /\ Is("windows", Text!WindowsAreTheirs(input))
    /\ Is("registry", Com!OneIsUsed(input) /\ Com!OneFileIsJudged(input)) /\ Is("path", Com!WritableIsReached(input))
    /\ Is("exports", Pe!ExportsAreFound(PeFile(100, <<>>, 1, 6, Exports(input.f, input.n, input.o)),
                                        [i \in 1..2 |-> IF input.n[i] = 33 THEN <<5>> ELSE <<6>>], input.o, input.f, 1))
    /\ Is("boot", Firmware!EntriesAreOrdered(input))
    /\ Is("instance", Service!InstanceIsOfTemplate(input.template, <<"1">>, input.keys))
    /\ Is("callbacks", Driver!CallbacksAreTold(input)) /\ Is("minifilters", Driver!FiltersAreOrdered(input))

-----------------------------------------------------------------------------
(* Values of the constants.                                                  *)

\* two run keys that share a hive, a value with several commands, and a task
MCPlaces == {p \in Autorun!RunKeys : p.hive = "HKLM" /\ p.key \in {"Run", "WOW64_Run"}}
            \cup {p \in Autorun!Winlogon : p.key = "Userinit"} \cup Autorun!Tasks

\* two processes and an event; the third handle is the caller's own
MCObjects ==
    [p |-> [type |-> "Process", pid |-> 1, created |-> 1, readable |-> TRUE, signaled |-> FALSE],
     q |-> [type |-> "Process", pid |-> 2, created |-> 1, readable |-> TRUE, signaled |-> FALSE],
     e |-> [type |-> "Event", pid |-> 0, created |-> 0, readable |-> FALSE, signaled |-> TRUE]]
MCObjectHandles == <<[owner |-> "a"], [owner |-> "b"], [owner |-> "self"], [owner |-> "system"]>>
MCNesting == <<"inner", "outer">>
MCJobHandles ==
    <<[owner |-> "a", job |-> "outer"], [owner |-> "b", job |-> "inner"], [owner |-> "a", job |-> "other"],
      [owner |-> "b", job |-> "outer"], [owner |-> "system", job |-> "inner"]>>
MCOperations == <<{"set", "get", "install"}, {"set", "start", "get"}>>

=============================================================================
