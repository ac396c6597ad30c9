---------------------------- MODULE ProcessModules ----------------------------
(***************************************************************************)
(* The modules of a process (WinSys ProcessModuleTracker.cpp): each call   *)
(* of EnumModules lists what is mapped, and what is new and gone since.    *)
(*                                                                         *)
(* With a handle the address space is walked, a region at a time, while    *)
(* the process maps and unmaps files; without one a snapshot of it is      *)
(* taken, or that fails.  A region is a page here, and a file is always as *)
(* long.  A module's key is its file and base; the file is "" where its    *)
(* name is not found.  An object is told by the call that made it and its  *)
(* place in that call's list.  What is read from the PE header is left     *)
(* out, and so are sizes past the 32 bits of ModuleSize.                   *)
(***************************************************************************)
EXTENDS Integers, Sequences, FiniteSets, SequencesExt

CONSTANTS
    Pages,      \* the address space is 1 .. Pages
    Sizes,      \* file -> its pages
    MaxMapped,  \* bound: mappings made
    MaxEnums    \* bound: calls of EnumModules

VARIABLES
    byHandle,   \* _handle: whether the process could be opened
    _modules,   \* objects in the order listed
    _newModules, _unloadedModules,
    _moduleMap, \* key -> object
    info,       \* object -> its ModuleSize
    epc, address, currentModule, currentBase, modules, map,  \* EnumModulesWithVirtualQuery
    enums,
    space,      \* base -> [file, mapped]: the mappings, numbered
    mapped,     \* mappings made
    steady,     \* history: <<base, mapping>> of those there all the time of the last EnumModules
    listedAs,   \* history: such a mapping -> the objects it was listed as
    client      \* history: the keys a client has that applies the new and the unloaded modules of every call

listVars == <<_modules, _newModules, _unloadedModules, _moduleMap, info>>
walkVars == <<epc, address, currentModule, currentBase, modules, map>>
historyVars == <<steady, listedAs, client>>
moduleVars == <<byHandle, listVars, walkVars, enums, space, mapped, historyVars>>

NoObject == [call |-> 0]
Free == 0
Covers(base, page) == page \in base .. base + Sizes[space[base].file] - 1
AllocationBase(page) == IF \E b \in DOMAIN space : Covers(b, page) THEN CHOOSE b \in DOMAIN space : Covers(b, page) ELSE Free
MappedFileName(page) == IF AllocationBase(page) = Free THEN "" ELSE space[AllocationBase(page)].file
Mappings == {<<b, space[b]>> : b \in DOMAIN space}
KeyOf(mapping) == <<mapping[2].file, mapping[1]>>
KeysOf(objects) == {o.key : o \in objects}

-----------------------------------------------------------------------------
(* EnumModules.                                                              *)

\* the object a module had in the last list, or the one made for it
ObjectOf(key, call, place) ==
    IF key \in DOMAIN _moduleMap THEN _moduleMap[key] ELSE [key |-> key, call |-> call, place |-> place]

\* for the mutants: not cleared
Gone_Kept(next) == _unloadedModules \cup {_moduleMap[key] : key \in DOMAIN _moduleMap \ DOMAIN next}
Gone(next) == {_moduleMap[key] : key \in DOMAIN _moduleMap \ DOMAIN next}

\* a client applies the lists
Applied == client' = (client \cup KeysOf(_newModules')) \ KeysOf(_unloadedModules')

\* Update, and the mappings there all the time it took
Update(list, next) ==
    /\ _unloadedModules' = Gone(next)
    /\ _modules' = list
    /\ _moduleMap' = next
    /\ listedAs' = [m \in DOMAIN listedAs \cup steady' |->
                      (IF m \in DOMAIN listedAs THEN listedAs[m] ELSE {})
                      \cup (IF m \in steady' THEN {o \in ToSet(list) : o.key = KeyOf(m)} ELSE {})]
    /\ Applied

BeginWalk ==
    /\ byHandle
    /\ epc = "idle" /\ enums < MaxEnums
    /\ _newModules' = {}
    /\ epc' = "query" /\ address' = 1
    /\ currentModule' = NoObject /\ currentBase' = Free
    /\ modules' = <<>> /\ map' = <<>>
    /\ enums' = enums + 1
    /\ steady' = Mappings
    /\ UNCHANGED <<byHandle, _modules, _unloadedModules, _moduleMap, info, space, mapped, listedAs, client>>

\* VirtualQueryEx: more of the current mapping, another, or none
QueryRegion ==
    /\ epc = "query" /\ address <= Pages
    /\ LET base == AllocationBase(address)
       IN \/ /\ base = Free
             /\ address' = address + 1
             /\ UNCHANGED <<info, currentBase, epc>>
          \/ /\ base # Free /\ base = currentBase
             /\ info' = [info EXCEPT ![currentModule] = @ + 1]
             /\ address' = address + 1
             /\ UNCHANGED <<currentBase, epc>>
          \/ /\ base # Free /\ base # currentBase
             /\ currentBase' = base
             /\ epc' = "name"
             /\ UNCHANGED <<info, address>>
    /\ UNCHANGED <<byHandle, _modules, _newModules, _unloadedModules, _moduleMap, currentModule, modules, map, enums, space,
                   mapped, historyVars>>

Restarted(o) == 0

\* GetMappedFileName, by when the mapping may be another, and its first region
NameRegion ==
    /\ epc = "name"
    /\ LET key == <<MappedFileName(currentBase), currentBase>>
           o == ObjectOf(key, enums, Len(modules) + 1)
       IN /\ info' = [x \in DOMAIN info \cup {o} |-> IF x = o THEN Restarted(o) + 1 ELSE info[x]]
          /\ _newModules' = IF key \in DOMAIN _moduleMap THEN _newModules ELSE _newModules \cup {o}
          /\ currentModule' = o
          /\ map' = IF key \in DOMAIN map THEN map ELSE [k \in DOMAIN map \cup {key} |-> IF k = key THEN o ELSE map[k]]
          /\ modules' = Append(modules, o)
    /\ address' = address + 1
    /\ epc' = "query"
    /\ UNCHANGED <<byHandle, _modules, _unloadedModules, _moduleMap, currentBase, enums, space, mapped, historyVars>>

EndWalk ==
    /\ epc = "query" /\ address > Pages
    /\ epc' = "idle"
    /\ modules' = <<>> /\ map' = <<>> /\ address' = 1 /\ currentModule' = NoObject /\ currentBase' = Free
    /\ UNCHANGED <<byHandle, _newModules, info, enums, space, mapped, steady>>
    /\ Update(modules, map)

\* the snapshot's modules, in some order
Listed(listed) == [i \in DOMAIN listed |-> ObjectOf(KeyOf(listed[i]), enums + 1, i)]
MapOf(list) == [key \in KeysOf(ToSet(list)) |-> CHOOSE o \in ToSet(list) : o.key = key]

EnumModulesWithToolHelp ==
    /\ ~byHandle /\ enums < MaxEnums
    /\ \E listed \in SetToSeqs(Mappings) :
         LET list == Listed(listed)
             made == {o \in ToSet(list) : o.key \notin DOMAIN _moduleMap}
         IN /\ info' = [o \in DOMAIN info \cup made |-> IF o \in made THEN Sizes[o.key[1]] ELSE info[o]]
            /\ _newModules' = made
            /\ steady' = Mappings
            /\ Update(list, MapOf(list))
    /\ enums' = enums + 1
    /\ UNCHANGED <<byHandle, walkVars, space, mapped>>

\* no snapshot: the lists stay, and the client applies them once more
ToolHelpFails ==
    /\ ~byHandle /\ enums < MaxEnums
    /\ enums' = enums + 1
    /\ UNCHANGED <<byHandle, listVars, walkVars, space, mapped, steady, listedAs>>
    /\ Applied

-----------------------------------------------------------------------------
(* The process.                                                              *)

Map(file, base) ==
    /\ mapped < MaxMapped
    /\ base + Sizes[file] - 1 <= Pages
    /\ \A page \in base .. base + Sizes[file] - 1 : AllocationBase(page) = Free
    /\ mapped' = mapped + 1
    /\ space' = [b \in DOMAIN space \cup {base} |-> IF b = base THEN [file |-> file, mapped |-> mapped'] ELSE space[b]]
    /\ UNCHANGED <<byHandle, listVars, walkVars, enums, historyVars>>

Unmap(base) ==
    /\ space' = [b \in DOMAIN space \ {base} |-> space[b]]
    /\ steady' = IF epc = "idle" THEN steady ELSE {m \in steady : m[1] # base}
    /\ UNCHANGED <<byHandle, listVars, walkVars, enums, mapped, listedAs, client>>

Init ==
    /\ byHandle \in BOOLEAN
    /\ _modules = <<>> /\ _newModules = {} /\ _unloadedModules = {} /\ _moduleMap = <<>> /\ info = <<>>
    /\ epc = "idle" /\ address = 1 /\ currentModule = NoObject /\ currentBase = Free /\ modules = <<>> /\ map = <<>>
    /\ enums = 0
    /\ space = <<>> /\ mapped = 0
    /\ steady = {} /\ listedAs = <<>> /\ client = {}

Next ==
    \/ BeginWalk
    \/ QueryRegion
    \/ NameRegion
    \/ EndWalk
    \/ EnumModulesWithToolHelp
    \/ ToolHelpFails
    \/ \E file \in DOMAIN Sizes, base \in 1 .. Pages : Map(file, base)
    \/ \E base \in DOMAIN space : Unmap(base)

Spec == Init /\ [][Next]_moduleVars

-----------------------------------------------------------------------------
(* Every object listed is known, a map's objects have its keys, and the new  *)
(* and the unloaded modules are different ones.                              *)
TypeOK ==
    /\ \A o \in ToSet(_modules) \cup ToSet(modules) \cup _newModules \cup _unloadedModules : o \in DOMAIN info
    /\ \A key \in DOMAIN _moduleMap : _moduleMap[key].key = key
    /\ \A key \in DOMAIN map : map[key].key = key
    /\ epc \in {"idle", "query", "name"} /\ address \in 1 .. Pages + 1

(* A client that adds the new modules and removes the unloaded ones of every *)
(* call, a failed one included, has the modules listed.                      *)
ClientHasModules == epc = "idle" => client = DOMAIN _moduleMap

(* A mapping that was there all the time of the walk is listed once, with    *)
(* its whole size, whatever else was mapped and unmapped meanwhile.          *)
SteadyIsListed ==
    epc = "idle" =>
        \A m \in steady :
            LET places == {i \in DOMAIN _modules : _modules[i].key = KeyOf(m)}
            IN Cardinality(places) = 1 /\ \A i \in places : info[_modules[i]] = Sizes[m[2].file]

(* "keeping the objects of modules that were already there": a mapping is    *)
(* listed as one object in every list it is steady in.                       *)
ObjectsAreKept == epc = "idle" => \A m \in DOMAIN listedAs : Cardinality(listedAs[m]) = 1

=============================================================================
