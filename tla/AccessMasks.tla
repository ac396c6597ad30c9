----------------------------- MODULE AccessMasks -----------------------------
(***************************************************************************)
(* AccessMaskDecoder (AccessMask.cpp): an access mask as the names of the  *)
(* rights it has, by the type of the object.                               *)
(*                                                                         *)
(* A mask is a set of bits; a type has the bits of all access to it and a  *)
(* sequence of rights, combinations first; a right is a name and its bits. *)
(***************************************************************************)
EXTENDS Naturals, Sequences, FiniteSets, SequencesExt

\* the standard and the generic rights' bits, named here by their own
Standard == <<[name |-> "DELETE", mask |-> {"delete"}], [name |-> "READ_CONTROL", mask |-> {"read control"}],
              [name |-> "SYNCHRONIZE", mask |-> {"synchronize"}], [name |-> "GENERIC_ALL", mask |-> {"generic"}]>>
StandardRightsAll == {"delete", "read control", "synchronize"}

\* against the whole mask, so that combinations that share bits all match; each adds bits not shown yet
Shows(access, left, right) == right.mask \subseteq access /\ right.mask \cap left # {}
\* what is shown of some rights, and what is left
Named(rights, access, from, Test(_, _, _)) ==
    FoldLeft(LAMBDA acc, right : IF Test(access, acc.left, right)
                                 THEN [names |-> Append(acc.names, right.name), left |-> acc.left \ right.mask] ELSE acc,
             from, rights)
Plain(access, left) ==
    Named(Standard, access, left, LAMBDA all, still, right : right.mask \subseteq still)

Nothing(access) == [names |-> <<>>, left |-> access]
\* the names, and the bits that are shown as a number; all access to a known type is one name
Decode(type, access) ==
    IF type.known /\ type.all \subseteq access
    THEN LET rest == Plain(access, Nothing(access \ type.all))
         IN  [rest EXCEPT !.names = <<"ALL_ACCESS">> \o @]
    ELSE Plain(access, Named(IF type.known THEN type.rights ELSE <<>>, access, Nothing(access), Shows))

GetSpecificRights(type) ==
    IF ~type.known THEN <<>> ELSE SelectSeq(type.rights, LAMBDA r : r.mask \cap StandardRightsAll = {} /\ Cardinality(r.mask) = 1)
GetStandardRights == SelectSeq(Standard, LAMBDA r : r.mask \cap StandardRightsAll # {})

(* The names shown are those of rights that the mask has, none twice, and    *)
(* with the bits shown as a number they are all of it; a right that it has   *)
(* is among them unless those shown before it have all its bits              *)
(* (AccessMask.cpp:105-118).                                                 *)
MaskIsShown(type, access) ==
    LET decoded == Decode(type, access)
        rights == (IF type.known THEN type.rights \o <<[name |-> "ALL_ACCESS", mask |-> type.all]>> ELSE <<>>) \o Standard
        At(name) == CHOOSE i \in DOMAIN rights : rights[i].name = name
        Bits(names) == UNION {rights[At(name)].mask : name \in names}
        shown == ToSet(decoded.names)
    IN  /\ Cardinality(shown) = Len(decoded.names)
        /\ Bits(shown) \subseteq access /\ decoded.left = access \ Bits(shown)
        /\ ("ALL_ACCESS" \notin shown /\ type.known) =>
               \A i \in DOMAIN type.rights :
                   LET r == type.rights[i]
                   IN  \/ r.name \in shown \/ ~(r.mask \subseteq access)
                       \/ r.mask \subseteq Bits({name \in shown : At(name) < i})
=============================================================================
