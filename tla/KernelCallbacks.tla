--------------------------- MODULE KernelCallbacks ---------------------------
(***************************************************************************)
(* KernelCallbacks (KernelCallbacks.cpp): the minifilters of the filter    *)
(* manager, highest altitude first, and the drivers that import functions  *)
(* that register callbacks.                                                *)
(*                                                                         *)
(* A function's name is a sequence of its parts, the digits of a version   *)
(* among them; an altitude is the sequence of its digits. The filter       *)
(* manager's record of a filter has its instances and how much room it     *)
(* needs; a driver's file has what it imports, or cannot be read.          *)
(***************************************************************************)
EXTENDS Naturals, Sequences, SequencesExt, FiniteSets

Digits == {"0", "1", "3"}
\* some of the registrations: one with its extended forms, and the one with a version
Registrations == <<[name |-> <<"PsSet">>, kind |-> "process", numbered |-> FALSE],
                   [name |-> <<"PsSet", "Ex">>, kind |-> "process", numbered |-> FALSE],
                   [name |-> <<"PsSet", "Ex", "2">>, kind |-> "process", numbered |-> FALSE],
                   [name |-> <<"CmRegister", "Ex">>, kind |-> "registry", numbered |-> FALSE],
                   [name |-> <<"FwpsCalloutRegister">>, kind |-> "network", numbered |-> TRUE]>>

Matches(r, function) ==
    IF r.numbered
    THEN /\ Len(function) > Len(r.name) /\ IsPrefix(r.name, function)
         /\ \A i \in (Len(r.name) + 1)..Len(function) : function[i] \in Digits
    ELSE r.name = function
\* the first that matches; 0: none
Find(function) == SelectInSeq(Registrations, LAMBDA r : Matches(r, function))

\* FindFirst and FindNext into one buffer: a record that does not fit ends the list
Fits(records, room) ==
    LET large == {i \in DOMAIN records : records[i].size > room}
    IN  SubSeq(records, 1, IF large = {} THEN Len(records) ELSE CHOOSE i \in 0..Len(records) :
                               i + 1 \in large /\ \A j \in large : i < j)

InstanceRoom == 4
FilterRoom == 2
\* the filter manager knows a volume by its device; dos: the drive of each that has one
ReadInstances(instances, dos) ==
    [i \in DOMAIN Fits(instances, InstanceRoom) |->
        LET record == instances[i]
        IN  [name |-> IF record.legacy THEN "" ELSE record.name, legacy |-> record.legacy, volume |-> record.volume,
             dos |-> IF record.volume \in DOMAIN dos THEN dos[record.volume] ELSE ""]]

Value(altitude) == FoldLeft(LAMBDA value, digit : 10 * value + digit, 0, altitude)
Higher(a, b) == Value(a) > Value(b)
\* <<>> without a first record, "failed" when it does not fit; images: the driver's path by its service's configuration
EnumMinifilters(records, dos, images) ==
    LET Filter(r) == [name |-> r.name, legacy |-> r.legacy, altitude |-> r.altitude,
                      image |-> IF r.name \in DOMAIN images THEN images[r.name] ELSE "",
                      instances |-> IF r.legacy THEN <<>> ELSE ReadInstances(r.instances, dos)]
        listed == Fits(records, FilterRoom)
        Precedes(i, j) == \/ Higher(listed[i].altitude, listed[j].altitude)
                          \/ ~Higher(listed[j].altitude, listed[i].altitude) /\ i < j
        order == SetToSortSeq(DOMAIN listed, Precedes)
    IN  [ok |-> records = <<>> \/ listed # <<>>, filters |-> [i \in DOMAIN order |-> Filter(listed[order[i]])]]

\* modules: [path, readable, imports: of each library, its functions; <<>> one by ordinal]
EnumCallbackDrivers(modules) ==
    LET Functions(m) == SelectSeq(FlattenSeq(m.imports), LAMBDA f : f # <<>> /\ Find(f) # 0)
        readable == SelectSeq(modules, LAMBDA m : m.readable)
        Driver(m) == [path |-> m.path, imports |-> Functions(m), kinds |-> {Registrations[Find(f)].kind : f \in ToSet(Functions(m))}]
        unreadable == SelectSeq(modules, LAMBDA m : ~m.readable)
    IN  [modules |-> Len(modules), unreadable |-> [i \in DOMAIN unreadable |-> unreadable[i].path],
         drivers |-> SelectSeq([i \in DOMAIN readable |-> Driver(readable[i])], LAMBDA d : d.imports # <<>>)]

(* A function is one registration's at most, so that the order of the table  *)
(* does not matter, with a version only where one is expected; a driver is   *)
(* listed for what it imports of them (KernelCallbacks.cpp:54-64, 155-181).  *)
CallbacksAreTold(modules) ==
    LET result == EnumCallbackDrivers(modules)
        all == UNION {ToSet(FlattenSeq(m.imports)) : m \in {n \in ToSet(modules) : n.readable}}
        told == UNION {ToSet(d.imports) : d \in ToSet(result.drivers)}
    IN  /\ \A f \in all : Cardinality({i \in DOMAIN Registrations : Matches(Registrations[i], f)}) <= 1
        /\ told = {f \in all : \E i \in DOMAIN Registrations :
                       LET r == Registrations[i]
                       IN  IF r.numbered THEN \E n \in Digits : f = Append(r.name, n) ELSE f = r.name}

(* The filters are those the filter manager told of before one that does not *)
(* fit, each with its own record's instances, by the number of its altitude, *)
(* those of one altitude in the order they came (KernelCallbacks.cpp:150).   *)
FiltersAreOrdered(records) ==
    LET filters == EnumMinifilters(records, <<>>, <<>>).filters
        At(i) == CHOOSE k \in DOMAIN records : records[k].name = filters[i].name
    IN  /\ \A i \in DOMAIN filters : /\ filters[i].altitude = records[At(i)].altitude
                                     /\ Len(filters[i].instances) <= Len(records[At(i)].instances)
        /\ \A i, j \in DOMAIN filters : i < j =>
              \/ Value(filters[i].altitude) > Value(filters[j].altitude)
              \/ Value(filters[i].altitude) = Value(filters[j].altitude) /\ At(i) < At(j)
        /\ \A k \in DOMAIN records : (\A l \in 1..k : records[l].size <= FilterRoom) <=> \E i \in DOMAIN filters : At(i) = k
=============================================================================
