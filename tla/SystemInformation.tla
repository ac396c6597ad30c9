-------------------------- MODULE SystemInformation --------------------------
(***************************************************************************)
(* SystemInfo (SystemInfo.cpp): what is read of the buffers the kernel     *)
(* fills, whose entries are chained by offsets or sizes, counted, or ended *)
(* by an empty one, and the processors' cores made of two of them.         *)
(*                                                                         *)
(* A buffer is a sequence of cells, one for each field read (offsets count *)
(* cells, from 0).  An entry is its head, a number, and its items.         *)
(***************************************************************************)
EXTENDS Integers, Sequences, FiniteSets, FiniteSetsExt, SequencesExt

None == -1
\* what a read past the buffer's end would give: a value no cell has
Outside == 10000
Cell(data, p) == IF p < Len(data) THEN data[p + 1] ELSE Outside
Smaller(a, b) == IF a < b THEN a ELSE b
Larger(a, b) == IF a > b THEN a ELSE b

IsInside(data, p, size) == p >= 0 /\ p + size <= Len(data)

\* ToVector: as many elements as there are, of those said to be there
ToVector(data, first, count, size) ==
    IF first >= Len(data) THEN <<>>
    ELSE [i \in 1..Smaller(count, (Len(data) - first) \div size) |->
             [c \in 1..size |-> Cell(data, first + (i - 1) * size + c - 1)]]
First(elements) == [i \in DOMAIN elements |-> elements[i][1]]

\* the places of entries of a fixed part each, from one on; Next gives that of the one after
Chain(data, at, fixed, Next(_)) ==
    LET From[p \in 0..Len(data)] ==
            IF ~IsInside(data, p, fixed) THEN <<>>
            ELSE <<p>> \o (IF Next(p) > p /\ Next(p) <= Len(data) THEN From[Next(p)] ELSE <<>>)
    IN  IF at > Len(data) THEN <<>> ELSE From[at]
Each(places, Read(_)) == [i \in DOMAIN places |-> Read(places[i])]
\* NextEntryOffset, from the entry: 0 in the last
After(data, p) == IF Cell(data, p) = 0 THEN None ELSE p + Cell(data, p)
\* a list's number and its elements
Counted(data, fixed, size) ==
    IF Len(data) < fixed THEN <<>> ELSE First(ToVector(data, fixed, Cell(data, fixed - 1), size))
Entry(head, items) == [head |-> head, items |-> items]
Alone(elements) == [i \in DOMAIN elements |-> Entry(elements[i], <<>>)]

-----------------------------------------------------------------------------
\* a class of a fixed size, of which the kernel may know a newer, larger form: the prefix known here
QueryFixed(known, kernels) == IF Len(kernels) < known THEN <<>> ELSE SubSeq(kernels, 1, known)

\* next, the process, its threads' number; a thread is 2 cells in the extended forms; then the extension: its
\* package's and its user's strings' places, 0 without
ParseProcesses(data, extended, extension) ==
    LET thread == IF extended THEN 2 ELSE 1
        Extension(p) ==
            LET ext == p + 3 + 2 * Cell(data, p + 2)
            IN  IF ~extension \/ Cell(data, p + 1) = 0 \/ ~IsInside(data, ext, 2) THEN <<>>
                ELSE [i \in 1..2 |-> IF Cell(data, ext + i - 1) = 0 THEN 0 ELSE Cell(data, ext + Cell(data, ext + i - 1))]
    IN  Each(Chain(data, 0, 3, LAMBDA p : After(data, p)),
             LAMBDA p : Entry(Cell(data, p + 1), First(ToVector(data, p + 3, Cell(data, p + 2), thread)) \o Extension(p)))

QueryPageFiles(data) == Each(Chain(data, 0, 2, LAMBDA p : After(data, p)), LAMBDA p : Entry(Cell(data, p + 1), <<>>))
GetVerifierInformation(data) == Each(Chain(data, 0, 2, LAMBDA p : After(data, p)), LAMBDA p : Entry(Cell(data, p + 1), <<>>))
GetSessionMappedViewInformation(data) ==
    Each(Chain(data, 0, 2, LAMBDA p : After(data, p)), LAMBDA p : Entry(Cell(data, p + 1), <<>>))
QuerySessionPoolTags(data) ==
    Each(Chain(data, 0, 3, LAMBDA p : After(data, p)),
         LAMBDA p : Entry(Cell(data, p + 1), First(ToVector(data, p + 3, Cell(data, p + 2), 1))))

\* an entry that says how large it is, and is there as a whole
Sized(data, fixed) ==
    LET Whole(p) == Cell(data, p) > 0 /\ IsInside(data, p, Cell(data, p))
    IN  SelectSeq(Chain(data, 0, fixed, LAMBDA p : IF Whole(p) THEN p + Cell(data, p) ELSE None), Whole)
\* size, relationship, group masks' number (none on systems that know one group only); 2 is a NUMA node's
ParseRelationships(data) ==
    LET Masks(p) == IF Cell(data, p + 1) = 2 THEN Larger(1, Cell(data, p + 2)) ELSE Cell(data, p + 2)
    IN  Each(Sized(data, 3), LAMBDA p : Entry(Cell(data, p + 1), First(ToVector(data, p + 3, Masks(p), 1))))
GetCpuSetInformation(data) == Each(Sized(data, 2), LAMBDA p : Entry(Cell(data, p + 1), <<>>))

GetKernelModuleInformation(data) == Alone(Counted(data, 1, 1))
GetLocksInformation(data) == Alone(Counted(data, 1, 1))
GetStackTraceInformation(data) == Alone(Counted(data, 2, 1))
GetHandleInformation(data) == Alone(Counted(data, 1, 1))
GetPoolTagInformation(data) == Alone(Counted(data, 1, 1))
GetExtendedHandleInformation(data) == Alone(Counted(data, 2, 1))
GetBigPoolInformation(data) == Alone(Counted(data, 1, 1))

\* the last is one without a name, or has no next
GetKernelModuleInformationEx(data) ==
    LET Name(p) == Cell(data, p + 1)
    IN  Each(SelectSeq(Chain(data, 0, 2, LAMBDA p : After(data, p)), LAMBDA p : Cell(data, p) # 0 \/ Name(p) # 0),
             LAMBDA p : Entry(Name(p), <<>>))
\* ended by a 0
QueryArchitectures(data) ==
    LET zero == SelectInSeq(data, LAMBDA cell : cell = 0)
    IN  Alone(IF zero = 0 THEN data ELSE SubSeq(data, 1, zero - 1))
QueryCpuSetList(data) == IF Len(data) < 1 THEN <<>> ELSE <<Entry(data[1], SubSeq(data, 2, Len(data)))>>

\* next, from the buffer's start; for a type, its objects' number and its name, after which they are
GetObjectInformation(data) ==
    LET OfType(p) == Each(Chain(data, p + 3, 2, LAMBDA o : Cell(data, o)), LAMBDA o : Cell(data, o + 1))
    IN  Each(Chain(data, 0, 3, LAMBDA p : Cell(data, p)),
             LAMBDA p : Entry(Cell(data, p + 2), IF Cell(data, p + 1) = 0 THEN <<>> ELSE OfType(p)))

\* the processors' number, where each one's states are, and there the processor and its states' number
GetProcessorPerformanceDistribution(data) ==
    LET offsets == Counted(data, 1, 1)
        whole == {n \in 0..Len(offsets) : \A i \in 1..n : IsInside(data, offsets[i], 2)}
    IN  [i \in 1..Max(whole) |->
            Entry(Cell(data, offsets[i]), First(ToVector(data, offsets[i] + 2, Cell(data, offsets[i] + 1), 1)))]

-----------------------------------------------------------------------------
\* the kernel's side: the buffer for some entries
Flat(parts) == FlattenSeq(parts)
\* places from which each of some parts starts
Starts(parts, from) == [i \in DOMAIN parts |-> from + Len(Flat(SubSeq(parts, 1, i - 1)))]
\* the parts, the first cell of each the next one's distance (or place)
Linked(parts, from, relative) ==
    LET starts == Starts(parts, from)
    IN  Flat([i \in DOMAIN parts |->
                  [parts[i] EXCEPT ![1] = IF i = Len(parts) THEN 0 ELSE starts[i + 1] - (IF relative THEN starts[i] ELSE 0)]])
OneCell(entries, Part(_)) == [i \in DOMAIN entries |-> Part(entries[i])]
Heads(entries) == [i \in DOMAIN entries |-> entries[i].head]
Extended(items) == Flat([i \in DOMAIN items |-> <<items[i], 0>>])

\* an extension's two places follow the threads, then its user
Filled(form, entries) ==
    CASE form = "processes" -> Linked(OneCell(entries, LAMBDA e : <<0, e.head, Len(e.items)>> \o e.items), 0, TRUE)
      [] form = "extended" -> Linked(OneCell(entries, LAMBDA e : <<0, e.head, Len(e.items)>> \o Extended(e.items)), 0, TRUE)
      [] form = "full" ->
            Linked(OneCell(entries, LAMBDA e :
                       IF e.head = 0 THEN <<0, 0, Len(e.items)>> \o Extended(e.items)
                       ELSE <<0, e.head, Len(e.items) - 2>> \o Extended(SubSeq(e.items, 1, Len(e.items) - 2)) \o
                            <<0, 2>> \o <<e.items[Len(e.items)]>>), 0, TRUE)
      [] form = "pool tags" -> Linked(OneCell(entries, LAMBDA e : <<0, e.head, Len(e.items)>> \o e.items), 0, TRUE)
      [] form = "page files" -> Linked(OneCell(entries, LAMBDA e : <<0, e.head>>), 0, TRUE)
      [] form = "modules" -> Linked(Append(OneCell(entries, LAMBDA e : <<0, e.head>>), <<0, 0>>), 0, TRUE)
      [] form = "relationships" ->
            Flat(OneCell(entries, LAMBDA e : <<3 + Len(e.items), e.head, IF e.head = 2 THEN 0 ELSE Len(e.items)>> \o e.items))
      [] form = "cpu sets" -> Flat(OneCell(entries, LAMBDA e : <<3, e.head, 0>>))
      [] form = "counted" -> <<Len(entries)>> \o Heads(entries)
      [] form = "lookups" -> <<0, Len(entries)>> \o Heads(entries)
      [] form = "ended" -> Heads(entries) \o <<0, 0>>
      [] form = "list" -> <<entries[1].head>> \o entries[1].items
      [] form = "objects" ->
            LET Object(items, i, from) == <<IF i = Len(items) THEN 0 ELSE from + 2 * i, items[i]>>
                Part(e, from) == <<0, Len(e.items), e.head>> \o Flat([i \in DOMAIN e.items |-> Object(e.items, i, from + 3)])
                starts == Starts(OneCell(entries, LAMBDA e : Part(e, 0)), 0)
            IN  Linked([i \in DOMAIN entries |-> Part(entries[i], starts[i])], 0, FALSE)
      [] OTHER ->
            LET states == OneCell(entries, LAMBDA e : <<e.head, Len(e.items)>> \o e.items)
            IN  <<Len(entries)>> \o Starts(states, 1 + Len(entries)) \o Flat(states)

\* the queries, by the form of what the kernel gives them
Queries(form) ==
    CASE form \in {"processes", "extended", "full"} -> {"ParseProcesses"}
      [] form = "pool tags" -> {"QuerySessionPoolTags"}
      [] form = "page files" -> {"QueryPageFiles", "GetVerifierInformation", "GetSessionMappedViewInformation"}
      [] form = "modules" -> {"GetKernelModuleInformationEx"}
      [] form = "relationships" -> {"ParseRelationships"}
      [] form = "cpu sets" -> {"GetCpuSetInformation"}
      [] form = "counted" ->
            {"GetKernelModuleInformation", "GetLocksInformation", "GetHandleInformation", "GetPoolTagInformation", "GetBigPoolInformation"}
      [] form = "lookups" -> {"GetStackTraceInformation", "GetExtendedHandleInformation"}
      [] form = "ended" -> {"QueryArchitectures"}
      [] form = "list" -> {"QueryCpuSetList"}
      [] form = "objects" -> {"GetObjectInformation"}
      [] OTHER -> {"GetProcessorPerformanceDistribution"}
Answer(query, form, data) ==
    CASE query = "ParseProcesses" -> ParseProcesses(data, form # "processes", form = "full")
      [] query = "QuerySessionPoolTags" -> QuerySessionPoolTags(data)
      [] query = "QueryPageFiles" -> QueryPageFiles(data)
      [] query = "GetVerifierInformation" -> GetVerifierInformation(data)
      [] query = "GetSessionMappedViewInformation" -> GetSessionMappedViewInformation(data)
      [] query = "GetKernelModuleInformationEx" -> GetKernelModuleInformationEx(data)
      [] query = "ParseRelationships" -> ParseRelationships(data)
      [] query = "GetCpuSetInformation" -> GetCpuSetInformation(data)
      [] query = "GetKernelModuleInformation" -> GetKernelModuleInformation(data)
      [] query = "GetLocksInformation" -> GetLocksInformation(data)
      [] query = "GetHandleInformation" -> GetHandleInformation(data)
      [] query = "GetPoolTagInformation" -> GetPoolTagInformation(data)
      [] query = "GetBigPoolInformation" -> GetBigPoolInformation(data)
      [] query = "GetStackTraceInformation" -> GetStackTraceInformation(data)
      [] query = "GetExtendedHandleInformation" -> GetExtendedHandleInformation(data)
      [] query = "QueryArchitectures" -> QueryArchitectures(data)
      [] query = "QueryCpuSetList" -> QueryCpuSetList(data)
      [] query = "GetObjectInformation" -> GetObjectInformation(data)
      [] OTHER -> GetProcessorPerformanceDistribution(data)

\* of what was cut off, nothing is read; of the rest, each entry, the last one's items as far as they go.
\* (Places in an extension are the kernel's word, so what it fills is not cut.)
ReadInPart(read, entries) ==
    /\ Len(read) <= Len(entries)
    /\ \A i \in DOMAIN read :
        /\ read[i].head = entries[i].head
        /\ IF i < Len(read) THEN read[i].items = entries[i].items ELSE IsPrefix(read[i].items, entries[i].items)

(* Whatever the kernel's entries, each is read, as it is and once; of a      *)
(* buffer that ends before them no read goes past its end.                   *)
EntriesAreRead(form, entries, cut) ==
    LET data == Filled(form, entries)
        part == SubSeq(data, 1, Len(data) - cut)
    IN  \A query \in Queries(form) :
            IF cut = 0 THEN Answer(query, form, data) = entries ELSE ReadInPart(Answer(query, form, part), entries)

-----------------------------------------------------------------------------
\* the groups' active processors; one group of those counted when the query fails
GetProcessorGroups(groups, counted) == IF groups = <<>> THEN <<0..(counted - 1)>> ELSE groups

\* its place among its group's active ones
PlaceOf(active, bit) == Cardinality({b \in active : b < bit})
\* the processors' cores, by number; a core is the processors it says are its, of several groups
GetLogicalProcessorCores(groups, relationships) ==
    LET total == FoldSeq(LAMBDA g, sum : sum + Cardinality(g), 0, groups)
        Before(g) == FoldSeq(LAMBDA h, sum : sum + Cardinality(h), 0, SubSeq(groups, 1, g - 1))
        Numbers(r) == UNION {{Before(g) + PlaceOf(groups[g], bit) : bit \in r.masks[g] \cap groups[g]} :
                                g \in DOMAIN r.masks \cap DOMAIN groups}
        Writers(n) == {c \in DOMAIN relationships : n \in Numbers(relationships[c])}
    IN  IF relationships = <<>> THEN <<>>
        ELSE [n \in 1..total |->
                 IF Writers(n - 1) = {} THEN [core |-> 0, class |-> 0]
                 ELSE [core |-> Max(Writers(n - 1)) - 1, class |-> relationships[Max(Writers(n - 1))].class]]

(* Each active processor, by its number over all groups, has the core and    *)
(* the efficiency of the relationship that lists it.                         *)
CoresAreTheirs(groups, relationships) ==
    LET cores == GetLogicalProcessorCores(groups, relationships)
        all == FlattenSeq([g \in DOMAIN groups |->
                   [i \in 1..Cardinality(groups[g]) |->
                       <<g, CHOOSE b \in groups[g] : Cardinality({x \in groups[g] : x < b}) = i - 1>>]])
    IN  relationships # <<>> =>
            /\ Len(cores) = Len(all)
            /\ \A n \in DOMAIN all, c \in DOMAIN relationships :
                all[n][1] \in DOMAIN relationships[c].masks /\ all[n][2] \in relationships[c].masks[all[n][1]] =>
                    cores[n] = [core |-> c - 1, class |-> relationships[c].class]
=============================================================================
