----------------------------- MODULE WslProtocol -----------------------------
(***************************************************************************)
(* The output of the helper in a Linux distribution (WinSys Wsl.cpp,       *)
(* WslProtocol), by lines: marks [kind |-> "F"] ("K", "P", "R", "S", "U",  *)
(* "C", "T", "E"), and what stands between them                            *)
(*   "constants" [fields, helper], "user" [uid, name]      of the start    *)
(*   "info"                                                of the frame    *)
(*   "stat"  [pid, ppid, name]; pid 0 where it can't be read               *)
(*   "uid"   [pid, uid]                                                    *)
(*   "head"  [pid], a file's header, then "text" [text], its lines.        *)
(***************************************************************************)
EXTENDS Naturals, Sequences, SequencesExt, FiniteSets, FiniteSetsExt, Functions

Marks == {"F", "S", "U", "C", "T", "E"}
NoUser == ""
Lines(lines, kind) == {i \in DOMAIN lines : lines[i].kind = kind}

\* from #K to #R: nothing unless #K has its four fields; of two users with one ID the last
ParseHeader(lines) ==
    LET end == IF Lines(lines, "R") = {} THEN 0 ELSE Min(Lines(lines, "R"))
        constants == {i \in Lines(lines, "constants") : i < end}
        users == {i \in Lines(lines, "user") : i < end /\ \E p \in Lines(lines, "P") : p < i}
        name(uid) == lines[Max({i \in users : lines[i].uid = uid})].name
    IN IF constants = {} \/ \E i \in constants : lines[i].fields < 4 THEN {}
       ELSE {[HelperPid |-> lines[Max(constants)].helper, Users |-> [u \in {lines[i].uid : i \in users} |-> name(u)]]}

-----------------------------------------------------------------------------
\* the section a line is in: of the last mark before it, or of #F
Section(lines, i) ==
    LET before == {j \in 1 .. i : lines[j].kind \in Marks} IN IF before = {} THEN "none" ELSE lines[Max(before)].kind
In(lines, section, kind) == {i \in Lines(lines, kind) : Section(lines, i) = section}

\* the lines after a header, up to the next header or mark
TextAfter(lines, head) ==
    LET stop == {j \in head + 1 .. Len(lines) : lines[j].kind \in Marks \cup {"head"}}
        isText(line) == line.kind = "text"
    IN SelectSeq(SubSeq(lines, head + 1, (IF stop = {} THEN Len(lines) ELSE Min(stop)) - 1), isText)

InOrder(lines, indices) == LET sorted == SetToSortSeq(indices, <) IN [n \in DOMAIN sorted |-> lines[sorted[n]]]

\* the helper, what it runs, and its session: its Relay and that one's SessionLeader
Hidden(HelperPid, processes) ==
    LET is(pid) == {p \in ToSet(processes) : p.pid = pid}
        relays == {r \in UNION {is(h.ppid) : h \in is(HelperPid)} : r.name = "Relay"}
        leaders == {l \in UNION {is(r.ppid) : r \in relays} : l.name = "SessionLeader"}
    IN IF HelperPid = 0 THEN {}
       ELSE {HelperPid} \cup {p.pid : p \in {q \in ToSet(processes) : q.ppid = HelperPid} \cup relays \cup leaders}

\* from #F to #E, what comes after #E left unread: nothing if it isn't one
ParseFrame(text, system) ==
    LET end == IF Lines(text, "E") = {} THEN 0 ELSE Min(Lines(text, "E"))
        lines == SubSeq(text, 1, end)
        good(indices) == {i \in indices : lines[i].pid # 0}
        all == InOrder(lines, good(In(lines, "S", "stat")))
        threads == good({i \in In(lines, "T", "stat") : i > 1 /\ lines[i - 1].kind = "head" /\ lines[i - 1].pid # 0})
        uids(pid) == {i \in In(lines, "U", "uid") : lines[i].pid = pid}
        heads(pid) == {i \in In(lines, "C", "head") : lines[i].pid = pid}
        uid(pid) == lines[Max(uids(pid))].uid
        hidden == Hidden(system.HelperPid, all)
        shown(p) == p.pid \notin hidden
        process(p) == [pid |-> p.pid, ppid |-> p.ppid, name |-> p.name,
                       user |-> IF uids(p.pid) = {} THEN NoUser
                                ELSE IF uid(p.pid) \in DOMAIN system.Users THEN system.Users[uid(p.pid)]
                                ELSE uid(p.pid),
                       commandLine |-> IF heads(p.pid) = {} THEN <<>> ELSE TextAfter(lines, Max(heads(p.pid)))]
        list == SelectSeq(all, shown)
    IN IF end = 0 \/ Lines(lines, "F") = {} THEN {}
       ELSE {[Processes |-> [n \in DOMAIN list |-> process(list[n])],
              HasThreads |-> Lines(lines, "T") # {},
              Threads |-> {[tid |-> lines[i].pid, pid |-> lines[i - 1].pid] : i \in {j \in threads : lines[j - 1].pid \notin hidden}}]}

-----------------------------------------------------------------------------
(* What a frame was printed from: processes, each [pid, ppid, name, uid,     *)
(* text, threads, gone], where gone is the first section it is no longer in. *)

Sections == <<"S", "U", "C", "T">>
Before(gone, section) == \E i, j \in DOMAIN Sections : i < j /\ Sections[i] = section /\ Sections[j] = gone
Printed(processes, section) == LET is(p) == p.gone = "never" \/ Before(p.gone, section) IN SelectSeq(processes, is)

Mark(kind) == <<[kind |-> kind]>>
PrintFrame(processes, threads) ==
    LET each(section, Line(_)) ==
            LET list == Printed(processes, section) IN Mark(section) \o FlattenSeq([i \in DOMAIN list |-> Line(list[i])])
        Stat(p) == <<[kind |-> "stat", pid |-> p.pid, ppid |-> p.ppid, name |-> p.name]>>
        Uid(p) == <<[kind |-> "uid", pid |-> p.pid, uid |-> p.uid]>>
        FileHead(p) == <<[kind |-> "head", pid |-> p.pid]>>
        Cmdline(p) == FileHead(p) \o [i \in DOMAIN p.text |-> [kind |-> "text", text |-> p.text[i]]]
        Task(p) == FlattenSeq([i \in DOMAIN p.threads |->
                       FileHead(p) \o <<[kind |-> "stat", pid |-> p.threads[i], ppid |-> p.ppid, name |-> p.name]>>])
    IN Mark("F") \o <<[kind |-> "info"]>> \o each("S", Stat) \o each("U", Uid) \o each("C", Cmdline)
       \o (IF threads THEN each("T", Task) ELSE <<>>) \o Mark("E")

\* the helper's relatives, by their ancestry
Relatives(processes, helper) ==
    LET is(pid) == {p \in ToSet(processes) : p.pid = pid}
        relay(p) == p.name = "Relay" /\ \E h \in is(helper) : h.ppid = p.pid
    IN {p.pid : p \in {q \in ToSet(processes) :
           \/ q.pid = helper \/ q.ppid = helper
           \/ relay(q)
           \/ q.name = "SessionLeader" /\ \E r \in ToSet(processes) : relay(r) /\ r.ppid = q.pid}}

(* A frame lists every process that was there, but for the helper's own, and *)
(* no text or user of another process: what was gone by its section has      *)
(* none.  A frame that is not whole is none.                                 *)
FrameIsTrue(processes, threads, system) ==
    LET lines == PrintFrame(processes, threads)
        frame == ParseFrame(lines, system)
        there == Printed(processes, "S")
        in(section) == {p.pid : p \in ToSet(Printed(processes, section))}
        hidden == Relatives(there, system.HelperPid)
    IN /\ \A n \in 1 .. Len(lines) - 1 : ParseFrame(SubSeq(lines, 1, n), system) = {}
       /\ \A n \in 2 .. Len(lines) : ParseFrame(SubSeq(lines, n, Len(lines)), system) = {}
       /\ Cardinality(frame) = 1
       /\ LET f == CHOOSE f \in frame : TRUE
          IN /\ {p.pid : p \in ToSet(f.Processes)} = in("S") \ hidden
             /\ Len(f.Processes) = Cardinality(in("S") \ hidden)
             /\ \A p \in ToSet(there), q \in ToSet(f.Processes) : p.pid = q.pid =>
                   /\ q.user = IF p.pid \in in("U") THEN (IF p.uid \in DOMAIN system.Users THEN system.Users[p.uid] ELSE p.uid)
                               ELSE NoUser
                   /\ [i \in DOMAIN q.commandLine |-> q.commandLine[i].text] = IF p.pid \in in("C") THEN p.text ELSE <<>>
             /\ f.HasThreads = threads
             /\ f.Threads = IF ~threads THEN {}
                            ELSE UNION {{[tid |-> t, pid |-> p.pid] : t \in ToSet(p.threads)} :
                                        p \in {q \in ToSet(Printed(processes, "T")) : q.pid \notin hidden}}

=============================================================================
