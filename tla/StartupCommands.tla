--------------------------- MODULE StartupCommands ---------------------------
(***************************************************************************)
(* Which file a command line runs (WinSys Autoruns.cpp, ResolveImage).     *)
(*                                                                         *)
(* A command line is its words, how many of them its leading quotes hold,  *)
(* where the first one starts, and what rundll32 would take from it: how   *)
(* many words there are up to a comma and where the DLL's starts.  A word  *)
(* is a name and an extension ("none": none is typed).  A path is words    *)
(* and where they start: typed in full, relative, or bare; a file's is in  *)
(* full, or under the system's folder, or in one of the search path.       *)
(***************************************************************************)
EXTENDS Naturals, Sequences, FiniteSetsExt, SequencesExt

CONSTANT Files  \* paths

Word(name, ext) == [name |-> name, ext |-> ext]
Path(at, words) == [at |-> at, words |-> words]

IsFile(path) == path \in Files
EndOf(path) == path.words[Len(path.words)]
\* the extension is appended, to another too
Extended(path, ext) == [path EXCEPT !.words[Len(path.words)].ext = IF @ = "none" THEN ext ELSE "two"]
\* in the search, it is given only to what has none
Searched(path, ext) == IF EndOf(path).ext = "none" THEN Extended(path, ext) ELSE path
Under(path, at, place) == IF path.at = at THEN [path EXCEPT !.at = place] ELSE path

\* a file as typed, with the extension, under the system's folder, on the search path; else what was typed
FindFile(path, ext) ==
    LET tried == <<path, Extended(path, ext), Under(path, "relative", "system"), Under(Searched(path, ext), "bare", "search")>>
        files == SelectSeq(tried, IsFile)
    IN IF files = <<>> THEN path ELSE files[1]

\* the runs of words, from the first, that are a file's path
Runs(line, ext) ==
    {n \in 1 .. Len(line.words) : LET path == Path(line.at, SubSeq(line.words, 1, n)) IN IsFile(path) \/ IsFile(Extended(path, ext))}
FirstRun(line, ext) == IF Runs(line, ext) = {} THEN 1 ELSE Min(Runs(line, ext))

\* how many words the first path has, and its file
PathEnd(line, ext) == IF line.quoted > 0 THEN line.quoted ELSE FirstRun(line, ext)
FirstPath(line, ext) == FindFile(Path(line.at, SubSeq(line.words, 1, PathEnd(line, ext))), ext)

\* for the mutants: the switches are taken for the DLL
IsSwitch_Never(word) == FALSE
IsSwitch(word) == word.name = "/d"
\* what rundll32 is given after its switches, as a line of its own: the DLL's path and no more than up to a comma
Arguments(line) ==
    LET args == {n \in PathEnd(line, "exe") + 1 .. line.comma : ~IsSwitch(line.words[n])}
    IN [at |-> line.dllAt, quoted |-> 0, comma |-> 0, dllAt |-> "bare",
        words |-> IF args = {} THEN <<>> ELSE SubSeq(line.words, Min(args), line.comma)]

\* the file, or the DLL that rundll32 runs
ResolveImage(line) ==
    LET image == FirstPath(line, "exe")
        args == Arguments(line)
    IN IF EndOf(image).name = "rundll32" /\ args.words # <<>> THEN FirstPath(args, "dll") ELSE image

-----------------------------------------------------------------------------
(* What the system runs: of an unquoted path in full, the shortest run of    *)
(* words that names a program.                                               *)
Programs(line) ==
    {Path(line.at, [n \in 1 .. k |-> IF n = k THEN Word(line.words[k].name, "exe") ELSE line.words[n]]) :
        k \in {k \in 1 .. Len(line.words) : line.words[k].ext \in {"none", "exe"}}} \cap Files
Shortest(paths) == CHOOSE p \in paths : \A q \in paths : Len(p.words) <= Len(q.words)

(* The image of a command line in full is what the system would run; of      *)
(* rundll32 it is the DLL that is a file, after whatever switches            *)
(* (Autoruns::ResolveImage).                                                 *)
ImageIsRun(line) ==
    /\ line.at = "full" /\ line.quoted = 0 /\ Programs(line) # {} /\ EndOf(Shortest(Programs(line))).name # "rundll32" =>
        ResolveImage(line) = Shortest(Programs(line))
    /\ line.quoted > 0 /\ EndOf(FirstPath(line, "exe")).name # "rundll32" =>
        ResolveImage(line).words = SubSeq(line.words, 1, line.quoted) \/ IsFile(ResolveImage(line))
    /\ EndOf(FirstPath(line, "exe")).name = "rundll32" =>
        \A n \in PathEnd(line, "exe") + 1 .. line.comma :
            LET dll == Path(line.dllAt, SubSeq(line.words, n, line.comma))
            IN IsFile(dll) /\ (\A k \in PathEnd(line, "exe") + 1 .. n - 1 : line.words[k].name = "/d") => IsFile(ResolveImage(line))

-----------------------------------------------------------------------------
(***************************************************************************)
(* The startup tasks of a package's manifest and the tasks of the          *)
(* scheduler, as Autoruns reads them (WinSys Autoruns.cpp).                *)
(*                                                                         *)
(* A manifest is the sequence of its elements' beginnings: their ends are  *)
(* not read.  "none" is no executable, or no ID.  A scheduled task is its  *)
(* actions' images and its triggers' kinds.                                *)
(***************************************************************************)
Element(name, value) == [name |-> name, value |-> value]

NothingRead == [app |-> "none", extension |-> "none", tasks |-> <<>>]
\* an element has the executable, or the ID, that it says; a task's is its extension's, or its application's
ReadElement(read, e) ==
    CASE e.name = "Application" -> [read EXCEPT !.app = e.value, !.extension = "none"]
      [] e.name = "Extension" -> [read EXCEPT !.extension = e.value]
      [] e.name = "StartupTask" /\ e.value # "none" ->
            [read EXCEPT !.tasks = Append(@, [id |-> e.value, exe |-> IF read.extension # "none" THEN read.extension ELSE read.app])]
      [] OTHER -> read
ParseStartupTasks(manifest) == FoldLeft(ReadElement, NothingRead, manifest).tasks

\* ReadTask: the first image there is; each kind of trigger once, in order, with how many there are
FirstImage(images) == LET found == SelectSeq(images, LAMBDA i : i # "none") IN IF found = <<>> THEN "none" ELSE found[1]
CountTrigger(kinds, kind) ==
    IF \E n \in DOMAIN kinds : kinds[n].kind = kind
    THEN [n \in DOMAIN kinds |-> IF kinds[n].kind = kind THEN [kinds[n] EXCEPT !.count = @ + 1] ELSE kinds[n]]
    ELSE Append(kinds, [kind |-> kind, count |-> 1])
ReadTask(task) == [image |-> FirstImage(task.images), triggers |-> FoldLeft(CountTrigger, <<>>, task.triggers)]

-----------------------------------------------------------------------------
(* An application as it is written: its executable, and its extensions with  *)
(* theirs and the IDs of their tasks.                                        *)
Elements(app) ==
    <<Element("Application", app.exe)>>
    \o FlattenSeq([n \in DOMAIN app.extensions |->
        <<Element("Extension", app.extensions[n].exe)>>
        \o [k \in DOMAIN app.extensions[n].ids |-> Element("StartupTask", app.extensions[n].ids[k])]])
TasksOf(app) ==
    FlattenSeq([n \in DOMAIN app.extensions |->
        LET extension == app.extensions[n]
            named == SelectSeq(extension.ids, LAMBDA id : id # "none")
        IN [k \in DOMAIN named |-> [id |-> named[k], exe |-> IF extension.exe # "none" THEN extension.exe ELSE app.exe]]])

(* A startup task's executable is that of the extension and application it   *)
(* is in, though where they end is not read (Autoruns::ParseStartupTasks).   *)
TasksAreTheirs(apps) ==
    ParseStartupTasks(FlattenSeq([n \in DOMAIN apps |-> Elements(apps[n])])) = FlattenSeq([n \in DOMAIN apps |-> TasksOf(apps[n])])

(* Every trigger is counted, in the one place of its kind (ReadTask).        *)
TriggersAreCounted(triggers) ==
    LET kinds == ReadTask([images |-> <<>>, triggers |-> triggers]).triggers
    IN \A kind \in ToSet(triggers) :
        \E n \in DOMAIN kinds :
            /\ kinds[n] = [kind |-> kind, count |-> Len(SelectSeq(triggers, LAMBDA t : t = kind))]
            /\ \A k \in DOMAIN kinds : kinds[k].kind = kind => k = n
=============================================================================
