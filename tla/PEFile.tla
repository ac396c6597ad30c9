------------------------------- MODULE PEFile -------------------------------
(***************************************************************************)
(* PEFile (PEFile.cpp): what is read of an executable file that may be cut *)
(* short, corrupt or made to mislead.                                      *)
(*                                                                         *)
(* A file is a sequence of cells, a cell for each field of the structures  *)
(* read (offsets count cells, from 0), and a string is cells up to a 0.    *)
(* The constants scale the format's down: Align is what the loader rounds  *)
(* a section's raw offset to (512 bytes), Dirs the directories an optional *)
(* header has (16), Flag the bit of an ordinal, a directory or a name.     *)
(***************************************************************************)
EXTENDS Integers, Sequences, FiniteSets, FiniteSetsExt, SequencesExt

CONSTANTS Align, Dirs, Flag, MaxSections, MaxLibraries, MaxThunks, MaxExports, MaxString

Less(a, b) == IF a < b THEN a ELSE b
None == -1
Failed == [data |-> <<>>]
\* what a read past the file's end would give: a value no cell has
Beyond == 10000

Cell(data, offset) == IF offset < Len(data) THEN data[offset + 1] ELSE Beyond
Cells(data, offset, count) == [i \in 1..count |-> Cell(data, offset + i - 1)]
\* At: whether a structure of so many cells is in the file
At_Start(data, offset, count) == offset < Len(data)
At(data, offset, count) == offset <= Len(data) /\ Len(data) - offset >= count

\* StringAt: up to a 0, or the first so many characters; without either not a string
StringAt(data, offset, limit) ==
    IF offset >= Len(data) THEN <<>>
    ELSE LET available == Less(Len(data) - offset, limit)
             ends == {i \in 0..(available - 1) : Cell(data, offset + i) = 0}
             length == IF ends = {} THEN available ELSE Min(ends)
         IN  IF length = available /\ available < limit THEN <<>> ELSE Cells(data, offset, length)

-----------------------------------------------------------------------------
\* the cells of the headers: "MZ" and the new header's offset; its signature, the
\* sections and the optional header's size; the optional header's magic, the
\* image's base, the headers' size and the directories' number, then its
\* directories; the sections
MZ == 77
PE == 80
Fixed == 4
\* the directories read, by their index
Export == 1
Import == 2
Resource == 3
Debug == 4
DotNet == 5
DelayImport == 6
Section(data, at) == [va |-> Cell(data, at), vsize |-> Cell(data, at + 1), raw |-> Cell(data, at + 2), rsize |-> Cell(data, at + 3)]

Parse(data) ==
    LET nt == Cell(data, 1)
        optional == nt + 3
        size == Cell(data, nt + 2)
        room == IF size > Fixed THEN (size - Fixed) \div 2 ELSE 0
        count == Min({Cell(data, optional + 3), room, Dirs})
        start == optional + size
        whole == {n \in 0..Less(Cell(data, nt + 1), MaxSections) : \A i \in 1..n : At(data, start + 4 * (i - 1), 4)}
    IN  IF /\ At(data, 0, 2) /\ Cell(data, 0) = MZ
           /\ At(data, nt, 3) /\ Cell(data, nt) = PE
           /\ At(data, optional, Fixed + 2 * Dirs) /\ Cell(data, optional) \in {32, 64}
        THEN [data |-> data, is64 |-> Cell(data, optional) = 64, base |-> Cell(data, optional + 1), headers |-> Cell(data, optional + 2),
              dirs |-> [i \in 1..count |-> [rva |-> Cell(data, optional + 2 + 2 * i), size |-> Cell(data, optional + 3 + 2 * i)]],
              sections |-> [i \in 1..Max(whole) |-> Section(data, start + 4 * (i - 1))]]
        ELSE Failed

\* Load: the file's size when it was opened, and as much of that as is read
Load(file, size, maxFileSize) ==
    IF size < 2 \/ size > maxFileSize THEN Failed ELSE Parse(SubSeq(file, 1, Less(size, Len(file))))

-----------------------------------------------------------------------------
Holds(section, rva) ==
    rva >= section.va /\ rva - section.va < (IF section.vsize # 0 THEN Less(section.vsize, section.rsize) ELSE section.rsize)
RvaToOffset(pe, rva) ==
    IF rva < pe.headers /\ rva < Len(pe.data) THEN rva
    ELSE LET at == SelectInSeq(pe.sections, LAMBDA s : Holds(s, rva))
         IN  IF at = 0 THEN None
             ELSE LET raw == pe.sections[at].raw
                      offset == (raw - (raw % Align)) + (rva - pe.sections[at].va)
                  IN  IF offset < Len(pe.data) THEN offset ELSE None
StringAtRva(pe, rva) ==
    LET offset == RvaToOffset(pe, rva) IN IF offset = None THEN <<>> ELSE StringAt(pe.data, offset, MaxString)

\* the offset of a directory's data, None without it
Directory(pe, index) == IF Len(pe.dirs) >= index /\ pe.dirs[index].rva # 0 THEN RvaToOffset(pe, pe.dirs[index].rva) ELSE None

\* how many of a table's rows are read: those in the file, up to one that ends it
Rows(data, offset, cells, limit, Ends(_)) ==
    LET read == {n \in 0..limit : \A i \in 0..(n - 1) :
                    LET at == offset + i * cells IN At(data, at, cells) /\ ~Ends(Cells(data, at, cells))}
    IN  IF offset = None THEN 0 ELSE Max(read)
Never(row) == FALSE

-----------------------------------------------------------------------------
ReadThunks(pe, rva) ==
    LET offset == RvaToOffset(pe, rva)
        width == IF pe.is64 THEN 2 ELSE 1
        Zero(row) == \A i \in DOMAIN row : row[i] = 0
        Function(row) ==
            LET name == RvaToOffset(pe, row[1])
            IN  IF row[width] >= Flag THEN [ordinal |-> row[1] % Flag, hint |-> 0, name |-> <<>>]
                ELSE IF name # None /\ At(pe.data, name, 1)
                     THEN [ordinal |-> None, hint |-> Cell(pe.data, name), name |-> StringAt(pe.data, name + 1, MaxString)]
                     ELSE [ordinal |-> None, hint |-> 0, name |-> <<>>]
    IN  [i \in 1..Rows(pe.data, offset, width, MaxThunks, Zero) |-> Function(Cells(pe.data, offset + (i - 1) * width, width))]

\* a library's descriptor: its names' table, its name and its addresses' table; a
\* delayed one's: whether it holds RVAs, the name and the names' table
GetImports(pe) ==
    LET Libraries(offset, Ends(_), Library(_)) ==
            [i \in 1..Rows(pe.data, offset, 3, MaxLibraries, Ends) |-> Library(Cells(pe.data, offset + 3 * (i - 1), 3))]
        Ends(row) == row[2] = 0 /\ row[3] = 0
        Library(row) == [name |-> StringAtRva(pe, row[2]), functions |-> ReadThunks(pe, IF row[1] # 0 THEN row[1] ELSE row[3])]
        DelayEnds(row) == row[2] = 0
        DelayLibrary(row) ==
            LET ToRva(value) == CASE row[1] # 0 \/ value = 0 -> value
                                  [] row[1] = 0 /\ value # 0 /\ value >= pe.base -> value - pe.base
                                  [] OTHER -> 0
            IN  [name |-> StringAtRva(pe, ToRva(row[2])), functions |-> ReadThunks(pe, ToRva(row[3]))]
    IN  Libraries(Directory(pe, Import), Ends, Library) \o Libraries(Directory(pe, DelayImport), DelayEnds, DelayLibrary)

\* the export directory: the first ordinal, the functions, the names, and the
\* tables of the functions' addresses, the names and the names' functions
NameIndex(ordinals, index) == Max({i \in DOMAIN ordinals : ordinals[i] = index} \cup {0})
GetExports(pe) ==
    LET offset == Directory(pe, Export)
        data == pe.data
        e == Cells(data, offset, 6)
        inside == offset # None /\ At(data, offset, 6)
        functions == RvaToOffset(pe, e[4])
        names == RvaToOffset(pe, e[5])
        ordinals == RvaToOffset(pe, e[6])
        count == Rows(data, functions, 1, Less(e[2], MaxExports), Never)
        named == IF names = None \/ ordinals = None THEN 0
                 ELSE Less(Rows(data, names, 1, Less(e[3], MaxExports), Never), Rows(data, ordinals, 1, Less(e[3], MaxExports), Never))
        Name(index) == LET at == NameIndex(Cells(data, ordinals, named), index)
                       IN  IF at = 0 THEN <<>> ELSE StringAtRva(pe, Cell(data, names + at - 1))
        Function(index) ==
            LET rva == Cell(data, functions + index)
            IN  [ordinal |-> e[1] + index, rva |-> rva, name |-> Name(index),
                 forwarder |-> IF rva >= pe.dirs[Export].rva /\ rva - pe.dirs[Export].rva < pe.dirs[Export].size THEN StringAtRva(pe, rva) ELSE <<>>]
    IN  IF ~inside \/ functions = None THEN <<>>
        ELSE SelectSeq([i \in 1..count |-> Function(i - 1)], LAMBDA f : f.rva # 0)

-----------------------------------------------------------------------------
\* a resource directory: the number of its entries, then each entry's name (a
\* string's offset with Flag) and offset (a directory's with Flag)
Entries(pe, base, offset) ==
    LET data == pe.data
        start == base + offset
        Name(name) == LET at == base + (name % Flag)
                      IN  IF name < Flag THEN <<name>>
                          ELSE IF At(data, at, 1) /\ at + 1 + Cell(data, at) <= Len(data)
                               THEN <<Flag>> \o Cells(data, at + 1, Cell(data, at)) ELSE <<Flag>>
        Entry(row) == [name |-> Name(row[1]), offset |-> row[2] % Flag, directory |-> row[2] >= Flag]
    IN  IF ~At(data, start, 1) THEN <<>>
        ELSE [i \in 1..Rows(data, start + 1, 2, Cell(data, start), Never) |-> Entry(Cells(data, start + 1 + 2 * (i - 1), 2))]

\* an entry's three names: <<<<type, name>>, language>>
Flatten3(name) == name[1][1] \o name[1][2] \o name[2]

\* three levels: a directory of types, of a type's names, of a name's languages
GetResources(pe) ==
    LET base == Directory(pe, Resource)
        Below(list) == FlattenSeq([i \in DOMAIN list |->
                           IF ~list[i].directory THEN <<>>
                           ELSE LET found == Entries(pe, base, list[i].offset)
                                IN  [j \in DOMAIN found |-> [found[j] EXCEPT !.name = <<list[i].name, @>>]]])
        languages == SelectSeq(Below(Below(Entries(pe, base, 0))), LAMBDA e : ~e.directory /\ At(pe.data, base + e.offset, 2))
    IN  IF base = None THEN <<>>
        ELSE [i \in DOMAIN languages |->
                [name |-> languages[i].name, rva |-> Cell(pe.data, base + languages[i].offset), size |-> Cell(pe.data, base + languages[i].offset + 1)]]
GetResourceData(pe, resource) ==
    LET offset == RvaToOffset(pe, resource.rva)
    IN  IF offset = None \/ resource.size = 0 \/ Len(pe.data) - offset < resource.size THEN <<>>
        ELSE Cells(pe.data, offset, resource.size)

\* the debug directory's rows: a type, a size, an RVA and the data's offset;
\* CodeView's data: its signature, a GUID and the age, then the PDB's path
RSDS == 83
CodeView == 2
GetDebugEntries(pe) ==
    LET offset == Directory(pe, Debug)
    IN  [i \in 1..Rows(pe.data, offset, 4, Less(pe.dirs[Debug].size \div 4, 64), Never) |-> Cells(pe.data, offset + 4 * (i - 1), 4)]
GetCodeView(pe) ==
    LET entries == IF Directory(pe, Debug) = None THEN <<>> ELSE GetDebugEntries(pe)
        whole == SelectSeq(entries, LAMBDA e : e[1] = CodeView /\ e[2] >= 3 /\ At(pe.data, e[4], 3) /\ Cell(pe.data, e[4]) = RSDS)
        data == whole[1][4]
    IN  IF whole = <<>> THEN <<>>
        ELSE <<Cell(pe.data, data + 1), Cell(pe.data, data + 2)>> \o StringAt(pe.data, data + 3, Less(whole[1][2] - 3, MaxString))

\* the .NET header: its size, the flags, the metadata's RVA; the metadata's root:
\* its signature, the version's length and the version
BSJB == 66
GetDotNet(pe) ==
    LET offset == Directory(pe, DotNet)
        cor == Cells(pe.data, offset, 3)
        root == RvaToOffset(pe, cor[3])
    IN  IF offset = None \/ ~At(pe.data, offset, 3) THEN <<>>
        ELSE IF cor[1] < 3 THEN <<>>
        ELSE cor \o (IF root = None \/ ~At(pe.data, root, 2) THEN <<>>
                     ELSE IF Cell(pe.data, root) # BSJB THEN <<>>
                     ELSE StringAt(pe.data, root + 2, Cell(pe.data, root + 1)))

\* an icon group's data: a reserved cell, the type, the count, then two cells an
\* icon (its size and its ID); an icon of the group's language, else of any
GetIconGroup(data) ==
    IF Len(data) < 3 THEN <<>>
    ELSE IF Cell(data, 1) # 1 THEN <<>>
    ELSE [i \in 1..Rows(data, 3, 2, Cell(data, 2), Never) |-> Cells(data, 1 + 2 * i, 2)]
FindIcon(resources, id, language) ==
    LET same == SelectInSeq(resources, LAMBDA r : r.name = <<<<<<3>>, <<id>>>>, <<language>>>>)
        any == SelectInSeq(resources, LAMBDA r : r.name[1] = <<<<3>>, <<id>>>>)
    IN  IF same # 0 THEN same ELSE any

\* ComputeChecksum: 16-bit words, the carries folded in, the field's own as zeros.
\* Base is a byte's values; "at" is the checksum's offset
Fold(sum, base) == (sum % (base * base)) + (sum \div (base * base))
AddWord(sum, word, base) == Fold(sum + word, base)
ComputeChecksum(bytes, at, base) ==
    LET size == Len(bytes)
        Word(i) == IF 2 * i >= at /\ 2 * i < at + 4 THEN 0 ELSE bytes[2 * i + 1] + bytes[2 * i + 2] * base
        Sum[n \in 0..(size \div 2)] == IF n = 0 THEN 0 ELSE AddWord(Sum[n - 1], Word(n - 1), base)
        odd == IF size % 2 = 1 THEN Sum[size \div 2] + bytes[size] ELSE Sum[size \div 2]
    IN  Fold(Fold(odd, base), base) + size

-----------------------------------------------------------------------------
IsInside(cells) == \A i \in DOMAIN cells : cells[i] < Beyond

(* Whatever is cut off or claimed, what is read of a file is in the file: no *)
(* header, section, import, export, resource, debug or .NET field is of a    *)
(* structure that goes on past the end.                                      *)
ReadsAreInside(data) ==
    \A pe \in {Parse(data)} \ {Failed} :
        /\ \A i \in DOMAIN pe.dirs : IsInside(<<pe.dirs[i].rva, pe.dirs[i].size>>)
        /\ \A s \in ToSet(pe.sections) : IsInside(<<s.va, s.vsize, s.raw, s.rsize>>)
        /\ \A export \in ToSet(GetExports(pe)) : IsInside(<<export.rva>> \o export.name \o export.forwarder)
        /\ \A library \in ToSet(GetImports(pe)) :
             /\ IsInside(library.name)
             /\ \A f \in ToSet(library.functions) : IsInside(<<f.ordinal, f.hint>> \o f.name)
        /\ \A resource \in ToSet(GetResources(pe)) :
             /\ IsInside(<<resource.rva, resource.size>>) /\ IsInside(GetResourceData(pe, resource))
             /\ IsInside(Flatten3(resource.name))
        /\ IsInside(GetCodeView(pe)) /\ IsInside(GetDotNet(pe))

\* the image the loader maps: the headers, then each section's raw data at its address
Mapped(pe, rvas) ==
    LET Over(image, s) == [rva \in rvas |->
            IF rva \in s.va..(s.va + (IF s.vsize = 0 THEN s.rsize ELSE s.vsize) - 1)
            THEN IF rva < s.va + s.rsize THEN Align * (s.raw \div Align) + rva - s.va ELSE None
            ELSE image[rva]]
    IN  FoldLeft(Over, [rva \in rvas |-> IF rva < pe.headers THEN rva ELSE None], pe.sections)

(* In an image whose sections do not overlap, an address's offset is where   *)
(* the loader takes it from, if the file goes that far.                      *)
OffsetsAreMapped(pe, rvas) ==
    LET disjoint == \A i \in DOMAIN pe.sections : LET s == pe.sections[i] IN
            /\ s.va >= (IF i = 1 THEN pe.headers
                        ELSE pe.sections[i - 1].va + Max({pe.sections[i - 1].vsize, pe.sections[i - 1].rsize}))
        image == Mapped(pe, rvas)
    IN  disjoint => \A rva \in rvas :
            RvaToOffset(pe, rva) = (IF image[rva] < Len(pe.data) THEN image[rva] ELSE None)

(* A function found by a name, as the loader finds it (the name's place in   *)
(* the table of names gives the function's in the table of addresses), is    *)
(* listed once with its ordinal, its address and one of its names.           *)
ExportsAreFound(data, names, ordinals, functions, base) ==
    LET NamesOf(f) == {names[i] : i \in {n \in DOMAIN names : ordinals[n] = f}}
    IN  \A pe \in {Parse(data)} : \A exports \in {GetExports(pe)} :
        /\ \A f \in DOMAIN functions : functions[f] # 0 =>
            \E export \in ToSet(exports) :
                /\ export.ordinal = base + f - 1 /\ export.rva = functions[f]
                /\ export.name \in (IF NamesOf(f - 1) = {} THEN {<<>>} ELSE NamesOf(f - 1))
        /\ Len(exports) = Cardinality({f \in DOMAIN functions : functions[f] # 0})

(* Folding the carries in as the words are added gives the one's complement  *)
(* sum of the file's words, the checksum's own taken as 0, plus its size.    *)
ChecksumIsSum(bytes, at, base) ==
    LET weight(i) == IF i \in (at + 1)..(at + 4) THEN 0 ELSE IF i % 2 = 1 THEN bytes[i] ELSE bytes[i] * base
        total == MapThenFoldSet(+, 0, weight, LAMBDA set : CHOOSE i \in set : TRUE, DOMAIN bytes)
    IN  ComputeChecksum(bytes, at, base) - Len(bytes) = (IF total = 0 THEN 0 ELSE ((total - 1) % (base * base - 1)) + 1)
=============================================================================
