--------------------------- MODULE ProcessCommands ---------------------------
(***************************************************************************)
(* The texts and lists Process (Processes.cpp) takes apart and puts        *)
(* together: command lines to run, the postmortem debugger's, users'       *)
(* names, an environment's block, and the windows of processes.            *)
(*                                                                         *)
(* A text is a sequence of characters, of which only the ones that divide  *)
(* it are told apart.                                                      *)
(***************************************************************************)
EXTENDS Integers, Sequences, FiniteSets, SequencesExt, FiniteSetsExt

\* SubSeq, to the end
From(text, at) == SubSeq(text, at, Len(text))
\* the first place, from one on, of a character of a set; past the end without one
Find(text, chars, at) ==
    LET places == {i \in at..Len(text) : text[i] \in chars} IN IF places = {} THEN Len(text) + 1 ELSE Min(places)
FindNot(text, chars, at) ==
    LET places == {i \in at..Len(text) : text[i] \notin chars} IN IF places = {} THEN Len(text) + 1 ELSE Min(places)

-----------------------------------------------------------------------------
\* the first token, quoted or up to a space, and the rest, trimmed
SplitCommandLine(line) ==
    LET start == FindNot(line, {" "}, 1)
        quoted == start <= Len(line) /\ line[start] = "\""
        end == IF quoted THEN Find(line, {"\""}, start + 1) ELSE Find(line, {" "}, start)
        file == SubSeq(line, IF quoted THEN start + 1 ELSE start, end - 1)
    IN  [file |-> file, args |-> From(line, FindNot(line, {" "}, IF quoted THEN end + 1 ELSE end))]

\* Run: what the shell is given; nothing without a file
Nothing == [file |-> <<>>, args |-> <<>>]
Run(line) == IF SplitCommandLine(line).file = <<>> THEN Nothing ELSE SplitCommandLine(line)

\* DOMAIN\user; user@domain as it is; a local account's name
RunAs(user) ==
    LET slash == Find(user, {"\\"}, 1)
    IN  IF slash <= Len(user) THEN [domain |-> SubSeq(user, 1, slash - 1), name |-> From(user, slash + 1)]
        ELSE [domain |-> IF Find(user, {"@"}, 1) > Len(user) THEN <<".">> ELSE <<>>, name |-> user]

(* What was written as a quoted file (or one without spaces) and arguments   *)
(* is split into these, whatever spaces are around; and a user into the      *)
(* domain and the name it is made of.                                        *)
CommandIsSplit(before, file, quoted, args) ==
    LET line == before \o (IF quoted THEN <<"\"">> \o file \o <<"\"">> ELSE file) \o <<" ">> \o args
        Has(char) == Find(file, {char}, 1) <= Len(file)
    IN  /\ ~Has("\"") /\ (quoted \/ (~Has(" ") /\ file # <<>>)) =>
            Run(line) = IF file = <<>> THEN Nothing ELSE [file |-> file, args |-> From(args, FindNot(args, {" "}, 1))]
        /\ ~Has("\\") => RunAs(file \o <<"\\">> \o args) = [domain |-> file, name |-> args]

-----------------------------------------------------------------------------
\* AttachDebugger: a command is arguments; "%ld" is a place for an ID, "-e" takes a crash's event, "-j" its information
Handed == {"-e %ld", "-j 0x%p", "-j %p"}
Command(command) ==
    LET left == SelectSeq(command, LAMBDA arg : arg \notin Handed)
    IN  [i \in DOMAIN left |-> IF left[i] = "-p %ld" THEN "ID" ELSE left[i]]
AttachDebugger(command) ==
    IF command = <<>> THEN [started |-> <<>>, error |-> "FILE_NOT_FOUND"]
    ELSE IF \A i \in DOMAIN Command(command) : Command(command)[i] # "ID" THEN [started |-> <<>>, error |-> "BAD_FORMAT"]
    ELSE [started |-> Command(command), error |-> ""]

(* The debugger is started only with the process to attach to, once for each *)
(* place its command has for one, and never with a crash's event.            *)
DebuggerIsTold(command) ==
    LET result == AttachDebugger(command)
        places == {i \in DOMAIN command : command[i] = "-p %ld"}
    IN  /\ (result.started # <<>>) = (places # {})
        /\ Cardinality({i \in DOMAIN result.started : result.started[i] = "ID"}) = Cardinality(places)
        /\ \A i \in DOMAIN result.started : result.started[i] \notin Handed
        /\ Len(result.started) <= Len(command)

-----------------------------------------------------------------------------
\* a block: strings, each up to a 0, the last one empty; a size may be too large or cut the last
Null == "0"
\* a name may start with one
Equal(entry) == Find(entry, {"="}, 2)
Variable(entry) == [name |-> SubSeq(entry, 1, Equal(entry) - 1), value |-> From(entry, Equal(entry) + 1)]
GetEnvironment(block) ==
    LET Read[p \in 1..(Len(block) + 2)] ==
            IF p > Len(block) \/ block[p] = Null THEN <<>>
            ELSE LET end == Find(block, {Null}, p)
                 IN  <<Variable(SubSeq(block, p, end - 1))>> \o Read[end + 1]
    IN  IF block = <<>> THEN <<>> ELSE Read[1]
\* Restart: name=value strings, then an empty one; the caller's for none
EnvironmentBlock(environment) ==
    IF environment = <<>> THEN <<>>
    ELSE FlattenSeq([i \in DOMAIN environment |-> environment[i].name \o <<"=">> \o environment[i].value \o <<Null>>]) \o <<Null>>

(* A process restarted has the variables it had: the block read and built    *)
(* again is the same one, or, where a size cut its end off, has it.          *)
EnvironmentIsKept(variables, extra) ==
    LET strings == [i \in DOMAIN variables |-> variables[i].name \o <<"=">> \o variables[i].value]
        block == EnvironmentBlock(variables)
    IN  variables # <<>> =>
        /\ GetEnvironment(block \o extra) = variables
        /\ EnvironmentBlock(GetEnvironment(block)) = block
        /\ GetEnvironment(SubSeq(block, 1, Len(block) - 2)) = variables

-----------------------------------------------------------------------------
\* a window: pid (0 when it is gone), visible, hung, ghost, owned, tool, title; in Z order
GetHungProcesses(windows) ==
    LET hung == SelectSeq(windows, LAMBDA w : w.visible /\ w.hung /\ ~w.ghost /\ w.pid # 0)
    IN  SetToSortSeq({hung[i].pid : i \in DOMAIN hung}, <)
Shown(window) == window.visible /\ ~window.owned /\ ~window.tool /\ window.pid # 0 /\ window.title # ""
GetMainWindowTitles(windows) ==
    LET titled == SelectSeq(windows, Shown)
    IN  [pid \in {titled[i].pid : i \in DOMAIN titled} |-> titled[SelectInSeq(titled, LAMBDA w : w.pid = pid)].title]

(* A process with an application's window has the title of the frontmost one *)
(* that has any, and is hung by its own windows, not by the ghosts of those. *)
WindowsAreTheirs(windows) ==
    LET titles == GetMainWindowTitles(windows)
        hung == GetHungProcesses(windows)
        App(i, pid) == windows[i].pid = pid /\ windows[i].visible /\ ~windows[i].owned /\ ~windows[i].tool
    IN  \A pid \in 1..2 :
        /\ (pid \in DOMAIN titles) = \E i \in DOMAIN windows : App(i, pid) /\ windows[i].title # ""
        /\ pid \in DOMAIN titles =>
            \E i \in DOMAIN windows :
                /\ App(i, pid) /\ windows[i].title = titles[pid] /\ titles[pid] # ""
                /\ \A j \in 1..(i - 1) : App(j, pid) => windows[j].title = ""
        /\ pid \in ToSet(hung) <=> \E i \in DOMAIN windows : windows[i].pid = pid /\ windows[i].visible /\ windows[i].hung /\ ~windows[i].ghost
        /\ Len(hung) = Cardinality(ToSet(hung))
=============================================================================
