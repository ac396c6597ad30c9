------------------------------ MODULE Zombies -------------------------------
(***************************************************************************)
(* ZombieProcesses::Find (Zombies.cpp): the processes that exited but whose *)
(* objects handles keep, found through those handles.  The system's handle *)
(* table is read once; then each of its entries for a process is           *)
(* duplicated from its owner, if that can be opened, while the owners and  *)
(* the processes go on: a handle is closed or used again for another       *)
(* object, a process exits.                                                *)
(*                                                                         *)
(* Objects gives each object's type, process ID and creation time (an ID   *)
(* is used again only once its object is gone: IDs differ) and whether its *)
(* times can be read through the handle; Handles are the handles, in the   *)
(* table's order, with their owners.                                       *)
(***************************************************************************)
EXTENDS Naturals, Sequences

CONSTANTS Objects, Handles, Openable, Self, Addresses, MaxReuses

\* "before" is what had exited when the table was read
VARIABLES held, exited, table, before, at, live, zombies, reuses

zombieVars == <<held, exited, table, before, at, live, zombies, reuses>>
scanVars == <<table, before, at, live, zombies>>

Closed == "closed"
IsProcess(object) == object # Closed /\ Objects[object].type = "Process"
Unscanned == Len(Handles) + 1

-----------------------------------------------------------------------------
\* what a duplicate of the handle tells
Duplicate(handle) == held[handle]
\* exited by its times, else by its being signaled, as an event may be
HasExited(object) == IF IsProcess(object) THEN object \in exited ELSE Objects[object].signaled
GetProcessId(object) == IF IsProcess(object) /\ Objects[object].readable THEN Objects[object].pid ELSE 0
Created(object) == IF IsProcess(object) /\ Objects[object].readable THEN Objects[object].created ELSE 0

\* the zombie the entry is one more handle to, 0 if there is none: by its address,
\* or, once duplicated, by its ID and creation time
First(indices) == IF indices = {} THEN 0 ELSE CHOOSE i \in indices : \A j \in indices : i <= j
ByObject(entry) == IF Addresses THEN First({i \in DOMAIN zombies : zombies[i].object = entry}) ELSE 0
ByTimes(object) ==
    IF Addresses THEN 0
    ELSE First({i \in DOMAIN zombies : zombies[i].pid = GetProcessId(object) /\ zombies[i].created = Created(object)})
AddHolder(index) == zombies' = [zombies EXCEPT ![index].holders = @ \cup {at}]

\* Find's table
ReadTable ==
    /\ at = Unscanned /\ table = <<>>
    /\ table' = held /\ before' = exited /\ at' = 1
    /\ UNCHANGED <<held, exited, live, zombies, reuses>>

Considered(entry) == Handles[at].owner # Self /\ IsProcess(entry) /\ ~(Addresses /\ entry \in live)
Pass == UNCHANGED <<live, zombies>>
\* the next entry of the table
Scan ==
    /\ table # <<>> /\ at \in DOMAIN Handles
    /\ LET entry == table[at]
           known == ByObject(entry)
           object == Duplicate(at)
       IN  \/ ~Considered(entry) /\ Pass
           \/ Considered(entry) /\ known # 0 /\ AddHolder(known) /\ UNCHANGED live
           \/ /\ Considered(entry) /\ known = 0
              /\ Handles[at].owner \notin Openable \/ object = Closed
              /\ Pass
           \/ /\ Considered(entry) /\ known = 0 /\ Handles[at].owner \in Openable /\ object # Closed
              /\ ~HasExited(object)
              /\ live' = IF Addresses THEN live \cup {entry} ELSE live
              /\ UNCHANGED zombies
           \/ /\ Considered(entry) /\ known = 0 /\ Handles[at].owner \in Openable /\ object # Closed
              /\ HasExited(object)
              /\ LET same == ByTimes(object)
                     zombie == [object |-> entry, pid |-> GetProcessId(object), created |-> Created(object), holders |-> {at}]
                 IN  IF same # 0 THEN AddHolder(same) ELSE zombies' = Append(zombies, zombie)
              /\ UNCHANGED live
    /\ at' = at + 1
    /\ UNCHANGED <<held, exited, table, before, reuses>>

-----------------------------------------------------------------------------
Exit == \E object \in DOMAIN Objects :
    /\ IsProcess(object) /\ object \notin exited
    /\ exited' = exited \cup {object}
    /\ UNCHANGED <<held, scanVars, reuses>>
\* an owner closes a handle, or has another object by its value
Reuse == \E handle \in DOMAIN Handles, object \in DOMAIN Objects \cup {Closed} :
    /\ reuses < MaxReuses /\ reuses' = reuses + 1
    /\ held[handle] # object
    /\ held' = [held EXCEPT ![handle] = object]
    /\ UNCHANGED <<exited, scanVars>>

Init ==
    /\ held \in [DOMAIN Handles -> DOMAIN Objects]
    /\ exited \in SUBSET {object \in DOMAIN Objects : IsProcess(object)}
    /\ table = <<>> /\ before = {} /\ at = Unscanned /\ live = {} /\ zombies = <<>> /\ reuses = 0
Next == ReadTable \/ Scan \/ Exit \/ Reuse
Spec == Init /\ [][Next]_zombieVars

-----------------------------------------------------------------------------
(* The zombies are of entries scanned, each of some handles of others.       *)
TypeOK ==
    /\ held \in [DOMAIN Handles -> DOMAIN Objects \cup {Closed}] /\ exited \subseteq DOMAIN Objects
    /\ at \in 1..Unscanned /\ live \subseteq DOMAIN Objects /\ reuses \in 0..MaxReuses
    /\ \A i \in DOMAIN zombies :
        /\ zombies[i].holders \subseteq 1..(at - 1) /\ zombies[i].holders # {}
        /\ \A h \in zombies[i].holders : Handles[h].owner # Self

Found == table # <<>> /\ at = Unscanned
Kept(object) == {h \in DOMAIN Handles : table[h] = object /\ Handles[h].owner # Self}
HoldersOf(object) == {h \in Kept(object) : Handles[h].owner \in Openable}

(* While no handle is used again, the zombies are processes that exited, and *)
(* each process is one zombie at most, whose holders are handles to it; one  *)
(* that had exited when the table was read is missed only if none of its     *)
(* handles' owners can be opened.                                            *)
EachZombieOnce ==
    reuses = 0 /\ table # <<>> =>
        /\ \A i \in DOMAIN zombies :
            /\ zombies[i].object \in exited /\ zombies[i].holders \subseteq Kept(zombies[i].object)
            /\ \A j \in DOMAIN zombies : zombies[i].object = zombies[j].object => i = j
        /\ Found => \A object \in before : HoldersOf(object) # {} => \E i \in DOMAIN zombies : zombies[i].object = object
=============================================================================
