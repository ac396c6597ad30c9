------------------------------ MODULE EventData ------------------------------
(***************************************************************************)
(* An event's data fields, from its XML (WinSys EventLog.cpp, ParseData).  *)
(*                                                                         *)
(* The text is a sequence of tokens: tags [kind, name, attr], where kind   *)
(* is "open", "empty" or "close" ("other" for <?...> and <!...>) and attr  *)
(* is the value of the attribute Name, and texts [kind |-> "text", text],  *)
(* a sequence of atoms: characters [char |-> 65], and entities, by number  *)
(* like [hash |-> 65] or by name like [entity |-> "amp"].  Characters are  *)
(* numbers; an unknown entity's name is one.                               *)
(***************************************************************************)
EXTENDS Naturals, Sequences, SequencesExt, FiniteSetsExt

Named == [amp |-> 38, lt |-> 60, gt |-> 62, quot |-> 34, apos |-> 39]

\* a number's characters: none for zero and for what is no code point, two surrogates past 16 bits
DecodeNumber(n) ==
    CASE n \in 1 .. 65535 -> <<n>>
      [] n \in 65536 .. 1114111 -> <<55296 + ((n - 65536) \div 1024), 56320 + ((n - 65536) % 1024)>>
      [] OTHER -> <<>>

Unknown == 0
\* an unknown entity is kept as it is
Decode(atom) ==
    CASE "hash" \in DOMAIN atom -> DecodeNumber(atom.hash)
      [] "entity" \in DOMAIN atom ->
           IF atom.entity \in DOMAIN Named THEN <<Named[atom.entity]>> ELSE <<38, Unknown, 59>>
      [] OTHER -> <<atom.char>>

\* tags inside a value are dropped
DecodeText(tokens) ==
    FlattenSeq([i \in DOMAIN tokens |->
        IF tokens[i].kind # "text" THEN <<>>
        ELSE FlattenSeq([j \in DOMAIN tokens[i].text |-> Decode(tokens[i].text[j])])])

-----------------------------------------------------------------------------
NoPos == 0
IsElement(xml, pos) == pos \in DOMAIN xml /\ xml[pos].kind \in {"open", "empty"}
NextTag(xml, pos) ==
    LET tags == {p \in pos .. Len(xml) : xml[p].kind # "text"} IN IF tags = {} THEN NoPos ELSE Min(tags)

\* where the element's content ends: nested elements of its name are counted
ContentEnd(xml, pos) ==
    LET tags(kind, last) == {p \in pos .. last : xml[p].kind = kind /\ xml[p].name = xml[pos].name}
        ends == {p \in tags("close", Len(xml)) : Cardinality(tags("open", p)) = Cardinality(tags("close", p))}
    IN IF ends = {} THEN NoPos ELSE Min(ends)

FindElement(xml, name) ==
    LET found == {p \in DOMAIN xml : IsElement(xml, p) /\ xml[p].name = name} IN IF found = {} THEN NoPos ELSE Min(found)

\* the elements from start to end, one below the other left out: name, attribute, decoded content
Children(xml, start, end) ==
    LET child(pos, last) ==
            <<[name |-> xml[pos].name, attr |-> xml[pos].attr, value |-> DecodeText(SubSeq(xml, pos + 1, last))]>>
        from[pos \in 0 .. Len(xml)] ==
            IF pos = NoPos \/ pos >= end THEN <<>>
            ELSE IF ~IsElement(xml, pos) THEN from[NextTag(xml, pos + 1)]
            ELSE IF xml[pos].kind = "empty" THEN child(pos, pos) \o from[NextTag(xml, pos + 1)]
            ELSE LET last == ContentEnd(xml, pos)
                 IN IF last = NoPos \/ last > end THEN <<>> ELSE child(pos, last) \o from[NextTag(xml, last + 1)]
    IN from[NextTag(xml, start)]

\* <EventData>'s Data items, else the elements of <UserData>'s first child
ParseData(xml) ==
    LET data == FindElement(xml, "EventData")
        user == FindElement(xml, "UserData")
        root == NextTag(xml, user + 1)
        Whole(pos) == xml[pos].kind = "open" /\ ContentEnd(xml, pos) # NoPos
        items(pos) == Children(xml, pos + 1, ContentEnd(xml, pos))
        named(item) == [name |-> item.name, value |-> item.value]
        datum(item) == [name |-> item.attr, value |-> item.value]
    IN IF data # NoPos
       THEN IF ~Whole(data) THEN <<>>
            ELSE LET isData(item) == item.name = "Data"
                     list == SelectSeq(items(data), isData)
                 IN [i \in DOMAIN list |-> datum(list[i])]
       ELSE IF user = NoPos \/ ~Whole(user) \/ ~IsElement(xml, root) \/ ~Whole(root)
               \/ ContentEnd(xml, root) > ContentEnd(xml, user) THEN <<>>
            ELSE [i \in DOMAIN items(root) |-> named(items(root)[i])]

-----------------------------------------------------------------------------
(* What the XML was written from: fields, each a name and the pieces of its  *)
(* value, texts or elements around a text.                                   *)

Tag(kind, name, attr) == <<[kind |-> kind, name |-> name, attr |-> attr]>>
WritePiece(piece) ==
    LET text == <<[kind |-> "text", text |-> piece.text]>>
    IN IF piece.inside = "" THEN text ELSE Tag("open", piece.inside, "") \o text \o Tag("close", piece.inside, "")
\* a field as an element; one without pieces as an empty one
WriteField(element, attr, field) ==
    IF field.pieces = <<>> THEN Tag("empty", element, attr)
    ELSE Tag("open", element, attr) \o FlattenSeq([i \in DOMAIN field.pieces |-> WritePiece(field.pieces[i])])
         \o Tag("close", element, attr)

WriteEventData(fields) ==
    Tag("other", "", "") \o Tag("open", "Event", "") \o Tag("empty", "System", "") \o Tag("open", "EventData", "")
    \o FlattenSeq([i \in DOMAIN fields |-> WriteField("Data", fields[i].name, fields[i])])
    \o Tag("close", "EventData", "") \o Tag("close", "Event", "")
WriteUserData(fields) ==
    Tag("open", "Event", "") \o Tag("empty", "System", "") \o Tag("open", "UserData", "") \o Tag("open", "Root", "")
    \o FlattenSeq([i \in DOMAIN fields |-> WriteField(fields[i].name, "", fields[i])])
    \o Tag("close", "Root", "") \o Tag("close", "UserData", "") \o Tag("close", "Event", "")

\* the code points of characters of 16 bits: pairs of surrogates together
Points(units) ==
    LET from[i \in 1 .. Len(units) + 1] ==
            IF i > Len(units) THEN <<>>
            ELSE IF units[i] \in 55296 .. 56319
            THEN <<(units[i] - 55296) * 1024 + units[i + 1] - 56320 + 65536>> \o from[i + 2]
            ELSE <<units[i]>> \o from[i + 1]
    IN from[1]

\* what is written: code points
Intended(atom) ==
    CASE "hash" \in DOMAIN atom -> IF atom.hash \in 1 .. 1114111 THEN <<atom.hash>> ELSE <<>>
      [] OTHER -> Decode(atom)
Meaning(field) ==
    [name |-> field.name,
     value |-> FlattenSeq([i \in DOMAIN field.pieces |->
                   FlattenSeq([j \in DOMAIN field.pieces[i].text |-> Intended(field.pieces[i].text[j])])])]
Read(items) == [i \in DOMAIN items |-> [items[i] EXCEPT !.value = Points(@)]]

(* ParseData gives an event's fields, in order, each with its own value,     *)
(* whatever elements the values hold and however either form nests.          *)
FieldsAreRead(fields) ==
    /\ Read(ParseData(WriteEventData(fields))) = [i \in DOMAIN fields |-> Meaning(fields[i])]
    /\ Read(ParseData(WriteUserData(fields))) = [i \in DOMAIN fields |-> Meaning(fields[i])]

=============================================================================
