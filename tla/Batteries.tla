------------------------------ MODULE Batteries ------------------------------
(***************************************************************************)
(* BatteryMonitor (Battery.cpp): the slots, opened once, are asked on each *)
(* Read for the tag of the battery in them and, for a new tag, for what    *)
(* does not change, then for the battery's status; a battery may be taken  *)
(* out, or another put in, between any two of these.                       *)
(*                                                                         *)
(* A battery is its tag; one a slot had before never comes back as itself. *)
(***************************************************************************)
EXTENDS Naturals

CONSTANTS
    Answers,        \* whether a driver that is asked with its battery's tag always answers
    MaxBatteries, MaxReads  \* bounds

VARIABLES
    slot, put,      \* the battery in the slot (0: none), and how many there were
    tag, info,      \* the device's: its tag, and the battery its static information is of (0: none yet)
    turn,           \* "rest", "tag", "information", "status"
    shown,          \* the last Read's: the battery the information is of
    reading,        \* the battery it is of
    reads

batteryVars == <<slot, put, tag, info, turn, shown, reading, reads>>

-----------------------------------------------------------------------------
\* the driver answers for the battery in the slot only, if at all
Answered(asked) == IF asked = slot /\ slot # 0 THEN (IF Answers THEN {TRUE} ELSE BOOLEAN) ELSE {FALSE}

Read ==
    /\ turn = "rest" /\ reads < MaxReads
    /\ reads' = reads + 1
    /\ turn' = "tag"
    /\ shown' = info /\ reading' = 0
    /\ UNCHANGED <<slot, put, tag, info>>

SameTag(asked) == tag = asked
RefreshTag ==
    /\ turn = "tag"
    /\ IF slot = 0 THEN tag' = 0 /\ turn' = "rest"
       ELSE /\ tag' = slot
            /\ turn' = IF SameTag(slot) THEN "status" ELSE "information"
    /\ UNCHANGED <<slot, put, info, shown, reading, reads>>
\* of a new tag
QueryInformation ==
    /\ turn = "information"
    /\ \E answered \in Answered(tag) : info' = IF answered THEN tag ELSE info
    /\ turn' = "status"
    /\ UNCHANGED <<slot, put, tag, shown, reading, reads>>
QueryStatus ==
    /\ turn = "status"
    /\ shown' = info
    /\ \E answered \in Answered(tag) : reading' = IF answered THEN tag ELSE 0
    /\ turn' = "rest"
    /\ UNCHANGED <<slot, put, tag, info, reads>>

\* others' doing
Take == slot # 0 /\ slot' = 0 /\ UNCHANGED <<put, tag, info, turn, shown, reading, reads>>
Put ==
    /\ slot = 0 /\ put < MaxBatteries
    /\ put' = put + 1 /\ slot' = put + 1
    /\ UNCHANGED <<tag, info, turn, shown, reading, reads>>

\* Open: what is there, as RefreshTag reads it
Init ==
    /\ slot \in {0, 1} /\ put = slot
    /\ tag = slot /\ info \in IF slot = 0 THEN {0} ELSE IF Answers THEN {1} ELSE {0, 1}
    /\ turn = "rest" /\ shown = 0 /\ reading = 0 /\ reads = 0

Next == Read \/ RefreshTag \/ QueryInformation \/ QueryStatus \/ Take \/ Put

Spec == Init /\ [][Next]_batteryVars

TypeOK == /\ tag <= put /\ info <= put /\ reading \in {0, tag} /\ (turn = "rest" /\ reading # 0 => tag = reading)

(* A reading is shown with the capacities of the battery it is of.           *)
ReadingIsOfBattery == turn = "rest" /\ reading # 0 => shown = reading
=============================================================================
