-------------------------- MODULE FirmwareAndPower --------------------------
(***************************************************************************)
(* Firmware and Tpm (Firmware.cpp): the UEFI variables, the boot entries   *)
(* they are, and a TPM's fixed properties, of what the firmware gives,     *)
(* which may be cut short or not well formed.                              *)
(*                                                                         *)
(* Data is cells, one for each field or character (SystemInformation).     *)
(***************************************************************************)
EXTENDS SystemInformation

\* past every place of an order
Unordered == 100
Global == "global"
End == 127
MediaPath == 4

\* next, the name, the value's distance and its length, the value
EnumVariables(data) ==
    Each(Chain(data, 0, 4, LAMBDA p : After(data, p)),
         LAMBDA p : [vendor |-> Global, name |-> Cell(data, p + 1),
                     value |-> IF Cell(data, p + 2) # 0 /\ p + Cell(data, p + 2) + Cell(data, p + 3) <= Len(data)
                               THEN SubSeq(data, p + Cell(data, p + 2) + 1, p + Cell(data, p + 2) + Cell(data, p + 3))
                               ELSE <<>>])
VariablesData(variables) ==
    Linked(OneCell(variables, LAMBDA v : <<0, v.name, IF v.value = <<>> THEN 0 ELSE 4, Len(v.value)>> \o v.value), 0, TRUE)

\* FindGlobal: the first of the name, of the EFI's own
FindGlobal(variables, name) == SelectInSeq(variables, LAMBDA v : v.vendor = Global /\ v.name = name)
GetUInt16(variables, name) ==
    LET at == FindGlobal(variables, name) IN IF at = 0 \/ variables[at].value = <<>> THEN None ELSE variables[at].value[1]
GetFlag(variables, name) ==
    LET at == FindGlobal(variables, name) IN IF at = 0 \/ variables[at].value = <<>> THEN "unknown" ELSE variables[at].value[1] # 0

\* the attributes, the path's length, the description up to a 0, then the path's nodes: a type, a length, and what they hold
ParseLoadOption(data) ==
    LET zeros == {i \in 3..Len(data) : data[i] = 0}
        offset == IF zeros = {} THEN Len(data) ELSE Min(zeros)
        end == Smaller(Len(data), offset + data[2])
        part == SubSeq(data, 1, end)
        Good(p) == Cell(part, p + 1) >= 2 /\ p + Cell(part, p + 1) <= end /\ Cell(part, p) # End
        nodes == SelectSeq(Chain(part, offset, 2, LAMBDA p : IF Good(p) THEN p + Cell(part, p + 1) ELSE None), Good)
        Text(p) == LET chars == SubSeq(part, p + 3, p + Cell(part, p + 1)) zero == SelectInSeq(chars, LAMBDA c : c = 0)
                   IN  IF zero = 0 THEN chars ELSE SubSeq(chars, 1, zero - 1)
    IN  IF Len(data) < 2 THEN [ok |-> FALSE]
        ELSE [ok |-> TRUE, attributes |-> data[1], description |-> SubSeq(data, 3, IF zeros = {} THEN offset ELSE offset - 1),
              path |-> FlattenSeq([i \in DOMAIN nodes |-> IF Cell(part, nodes[i]) = MediaPath THEN Text(nodes[i]) ELSE <<>>])]

\* the ordered ones first
Before(a, b) ==
    LET Place(e) == IF e.order < 0 THEN Unordered ELSE e.order
    IN  Place(a) < Place(b) \/ (Place(a) = Place(b) /\ a.number < b.number)
\* a variable that is a boot entry has a number for a name
GetBootConfiguration(variables) ==
    LET at == FindGlobal(variables, "BootOrder")
        order == IF at = 0 THEN <<>> ELSE variables[at].value
        options == {i \in DOMAIN variables :
                       variables[i].vendor = Global /\ variables[i].name \in {"Boot1", "Boot2"} /\ ParseLoadOption(variables[i].value).ok}
        Number(v) == IF v.name = "Boot1" THEN 1 ELSE 2
        Entry1(v) == [number |-> Number(v), option |-> ParseLoadOption(v.value), order |-> SelectInSeq(order, LAMBDA n : n = Number(v)) - 1]
    IN  [current |-> GetUInt16(variables, "BootCurrent"), secure |-> GetFlag(variables, "SecureBoot"),
         entries |-> SortSeq(SetToSeq({Entry1(variables[i]) : i \in options}), Before)]

(* Each variable is read with its value, of a whole or a cut list; a value   *)
(* that is not all there is empty.                                           *)
VariablesAreRead(variables, cut) ==
    LET data == VariablesData(variables)
        read == EnumVariables(SubSeq(data, 1, Len(data) - cut))
    IN  /\ cut = 0 => read = variables
        /\ Len(read) <= Len(variables)
        /\ \A i \in DOMAIN read : read[i].name = variables[i].name /\ read[i].value \in {variables[i].value, <<>>}

(* The boot entries are those that boot: each once, the ones of the order in *)
(* it and before the others, whatever the paths they are written with.       *)
EntriesAreOrdered(variables) ==
    LET config == GetBootConfiguration(variables)
        at == FindGlobal(variables, "BootOrder")
        order == IF at = 0 THEN <<>> ELSE variables[at].value
    IN  /\ \A i, j \in DOMAIN config.entries : i < j =>
               LET a == config.entries[i] b == config.entries[j]
               IN  /\ a.number # b.number
                   /\ b.order >= 0 => a.order >= 0 /\ order[a.order + 1] = a.number /\ \A n \in 1..(a.order + 1) : order[n] # b.number
        /\ \A i \in DOMAIN config.entries : \A c \in ToSet(config.entries[i].option.path) : c # Outside

-----------------------------------------------------------------------------
\* a TPM's answer: an error, its properties' number, then each and its value
GetInfo(response) ==
    LET pairs == ToVector(response, 2, Cell(response, 1), 2)
        Of(property) == SelectLastInSeq(pairs, LAMBDA pair : pair[1] = property)
        Value(property) == IF Of(property) = 0 THEN 0 ELSE pairs[Of(property)][2]
    IN  IF Len(response) < 2 THEN [error |-> 0, values |-> <<>>]
        ELSE IF Cell(response, 0) # 0 THEN [error |-> Cell(response, 0), values |-> <<>>]
        ELSE [error |-> 0, values |-> [property \in {1, 2} |-> Value(property)]]

(* A TPM's properties are those in its answer, however many it says it has.  *)
PropertiesAreRead(pairs, said) ==
    LET info == GetInfo(<<0, said>> \o FlattenSeq(pairs))
    IN  \A property \in {1, 2} :
            info.values[property] = 0 \/ \E i \in 1..Smaller(said, Len(pairs)) : pairs[i] = <<property, info.values[property]>>

-----------------------------------------------------------------------------
(***************************************************************************)
(* PowerRequests (PowerRequests.cpp): what keeps a system awake and what   *)
(* wakes it, of lists whose entries are at offsets, with strings at        *)
(* offsets from them; "Bad offsets and counts are skipped, not read past   *)
(* the buffer" (PowerRequests.h).                                          *)
(*                                                                         *)
(* Data is cells, one for each field or character (SystemInformation).     *)
(***************************************************************************)
Driver == 0
Service == 2
Simple == 1
Detailed == 2
\* a diagnostic: its requester's kind, two strings' offsets (or one and a service's tag), the process, its reason's offset
Diag == 5
\* a reason: its flags, a string's offset (or a module's), its resource's number, its strings' number and offset
Reason == 5
\* a request: its counts, and a diagnostic; a timer: the next one's offset, its time and period, a size and a diagnostic
Request == 1 + Diag
Timer == 3 + Diag

\* an entry's strings stay before the next one
EntryEnd(data, from, next) == IF next > from /\ next <= Len(data) THEN next ELSE Len(data)

StringAt(data, base, offset, end) ==
    LET zeros == {i \in (base + offset)..(end - 1) : Cell(data, i) = 0}
    IN  IF offset = 0 \/ base + offset >= end THEN <<>>
        ELSE SubSeq(data, base + offset + 1, IF zeros = {} THEN end ELSE Min(zeros))

\* of a resource string, the module, its number and what is put into it
ReasonText(data, diag, end) ==
    LET at == diag + Cell(data, diag + 4)
        Strings[i \in 0..3] ==
            IF i = 0 THEN [next |-> Cell(data, at + 4), all |-> <<>>]
            ELSE LET before == Strings[i - 1] text == StringAt(data, at, before.next, end)
                 IN  IF i > Cell(data, at + 3) \/ before.next = 0 THEN before
                     ELSE [next |-> before.next + Len(text) + 1, all |-> Append(before.all, text)]
    IN  IF at = diag \/ at + Reason > end THEN <<>>
        ELSE IF Cell(data, at) = Simple THEN <<StringAt(data, at, Cell(data, at + 1), end)>>
        ELSE IF Cell(data, at) = Detailed THEN <<StringAt(data, at, Cell(data, at + 1), end)>> \o Strings[3].all
        ELSE <<>>

ReadSource(data, diag, end) ==
    LET name == StringAt(data, diag, Cell(data, diag + 1), end)
    IN  IF Cell(data, diag) = Driver
        THEN [kind |-> "driver", strings |-> <<name, StringAt(data, diag, Cell(data, diag + 2), end)>> \o ReasonText(data, diag, end)]
        ELSE [kind |-> IF Cell(data, diag) = Service THEN "service" ELSE "process", strings |-> <<name>> \o ReasonText(data, diag, end)]

\* the entries' number, their offsets, the entries
ParseRequestList(data, activeOnly) ==
    LET count == Cell(data, 0)
        Offset(i) == IF i <= count THEN Cell(data, i) ELSE 0
        read == {i \in 1..count : Offset(i) <= Len(data) /\ Len(data) - Offset(i) >= Request /\ (~activeOnly \/ Cell(data, Offset(i)) > 0)}
    IN  IF Len(data) < 1 \/ count > Len(data) - 1 THEN <<>>
        ELSE LET order == SetToSortSeq(read, <)
             IN  [n \in DOMAIN order |->
                     LET i == order[n]
                     IN  [active |-> Cell(data, Offset(i)) > 0,
                          source |-> ReadSource(data, Offset(i) + 1, EntryEnd(data, Offset(i), Offset(i + 1)))]]

\* an empty list is one entry with nothing in it
ParseWakeTimers(data) ==
    LET Next(p) == IF Cell(data, p) > 0 /\ Cell(data, p) <= Len(data) - p THEN p + Cell(data, p) ELSE None
        places == SelectSeq(Chain(data, 0, Timer, Next), LAMBDA p : Cell(data, p + 2) # 0)
    IN  [n \in DOMAIN places |->
            [due |-> Cell(data, places[n] + 1),
             source |-> ReadSource(data, places[n] + 3, IF Next(places[n]) = None THEN Len(data) ELSE EntryEnd(data, places[n], Next(places[n])))]]

(* Whatever the offsets, what an entry says is of the entry: no string has a *)
(* character of the next one, or from past the buffer's end.                 *)
\* each entry has a character of its own, and the numbers of its fields are none of them
EntriesKeepApart(first, second, own, wake, cut) ==
    LET Diagnostic(f) == <<f.kind, f.a, f.b, 1, f.reason>>
        tail == {own, own + 1}
        Strings(c) == <<c, c, 0>> \o <<Detailed, 5, 1, 2, 5>> \o <<c, c>>
        One(f, c) == (IF wake THEN <<Timer + 10, 7, 1>> ELSE <<1>>) \o Diagnostic(f) \o Strings(c)
        entries == One(first, own) \o One(second, own + 1)
        data == IF wake THEN entries ELSE <<2, 3, 3 + Len(One(first, own))>> \o entries
        part == SubSeq(data, 1, Len(data) - cut)
        read == IF wake THEN ParseWakeTimers(part) ELSE ParseRequestList(part, TRUE)
    IN  /\ Len(read) <= 2 /\ (cut = 0 => Len(read) = 2)
        /\ \A i \in DOMAIN read, c \in tail \cup {Outside} :
               c # own + i - 1 => \A s \in DOMAIN read[i].source.strings : c \notin ToSet(read[i].source.strings[s])
=============================================================================
