-------------------------------- MODULE Gpu --------------------------------
(***************************************************************************)
(* GPU usage (WinSys Gpu.cpp): the adapters, listed once, the tracker that *)
(* samples what they all do and the queries of what one process does on    *)
(* them.  Both take differences of running times that only grow.           *)
(*                                                                         *)
(* A device that restarts, or is unplugged and plugged in again, has a new *)
(* LUID and its times start over; its adapter is stale until the tracker   *)
(* lists the adapters again, RemapInterval later at least, or another      *)
(* tracker of the program does.  Any query may fail, and any listing leave *)
(* a device out.                                                           *)
(*                                                                         *)
(* A rate is left as running time, in ticks, and is not divided by the     *)
(* elapsed time.  The tracker and a process's queries share the list only, *)
(* which another's remap may change: a behaviour has one of the two.  The  *)
(* process does all the work there is, while it has GPU memory.            *)
(***************************************************************************)
EXTENDS Integers, FiniteSets, Functions, SequencesExt

CONSTANTS
    GpuDevices,    \* the devices
    Shapes,        \* device -> [name, nodes]: what RemapLuids tells adapters by
    RemapInterval, \* how long the LUIDs are not looked up again
    MaxTicks,      \* bound: how long a behaviour is observed
    MaxRestarts    \* bound: restarts and replugs

VARIABLES
    user,          \* whose behaviour it is: the tracker's or the process's
    clock, present, hasMemory,
    epoch,         \* device -> how often it has restarted
    ran,           \* device -> node -> its running time, over all restarts
    ranBefore,     \* the running times at the device's last restart
    adapters,      \* the static list: the adapters' LUIDs
    m_PrevTimes, m_PrevTime, m_RemapTime, m_Samples,
    nodeTimes, stateTime, usage,   \* the process's GpuProcessState, and the last usage
    place,         \* history: the devices as first listed
    back,          \* history: device -> since when it has its LUID
    missed,        \* history: a device was left out of the last listing that counts
    ranAtUpdate, ranAtQuery,       \* history: ran at the last Update and the last QueryProcess that kept its times
    worked, workedForQuery         \* history: what the adapters' devices really ran since then

gpuVars == <<user, clock, present, hasMemory, epoch, ran, ranBefore, adapters, m_PrevTimes, m_PrevTime, m_RemapTime,
             m_Samples, nodeTimes, stateTime, usage, place, back, missed, ranAtUpdate, ranAtQuery, worked,
             workedForQuery>>
deviceVars == <<user, clock, present, hasMemory, epoch, ran, ranBefore, back>>
trackerVars == <<m_PrevTimes, m_PrevTime, m_RemapTime, m_Samples, ranAtUpdate, worked>>
processVars == <<nodeTimes, stateTime, usage, ranAtQuery, workedForQuery>>

NotQueried == -1
NodesOf(d) == 1 .. Shapes[d].nodes
Luid(d) == [device |-> d, epoch |-> epoch[d]]
Answers(luid) == luid.device \in present /\ luid = Luid(luid.device)
Places == DOMAIN adapters
AdapterNodes == UNION {{<<a, n>> : n \in NodesOf(place[a])} : a \in Places}
Largest(S) == CHOOSE x \in S : \A y \in S : y <= x

\* the devices listed, in the order the system has them now
Listings(listed) == {[i \in DOMAIN s |-> Luid(s[i])] : s \in SetToSeqs(listed)}

-----------------------------------------------------------------------------
(* RemapLuids.                                                               *)

SameShape(d, e) == Shapes[d] = Shapes[e]

\* an adapter takes the first of its shape that none has taken
Take(got, a, fresh) ==
    LET free == {i \in DOMAIN fresh \ got.used : SameShape(fresh[i].device, place[a])}
        first == CHOOSE i \in free : \A j \in free : i <= j
    IN IF free = {} THEN got
       ELSE [luids |-> [got.luids EXCEPT ![a] = fresh[first]], used |-> got.used \cup {first}]

\* each adapter in turn does
Taken(fresh) ==
    LET after[a \in 0 .. Len(adapters)] ==
            IF a = 0 THEN [luids |-> adapters, used |-> {}] ELSE Take(after[a - 1], a, fresh)
    IN after[Len(adapters)].luids

RemapLuids ==
    \E listed \in SUBSET present :
       /\ \E fresh \in Listings(listed) : adapters' = Taken(fresh)
       /\ missed' = (listed # present)

-----------------------------------------------------------------------------
(* GpuTracker::Update and GpuInfo::QueryProcess.                             *)

\* for the mutants: 0 if it was not queried
TimeOf_Zero(a, n, failed) ==
    IF Answers(adapters[a]) /\ <<a, n>> \notin failed
    THEN LET d == adapters[a].device IN ran[d][n] - ranBefore[d][n] ELSE 0
TimeOf(a, n, failed) ==
    IF Answers(adapters[a]) /\ <<a, n>> \notin failed
    THEN LET d == adapters[a].device IN ran[d][n] - ranBefore[d][n] ELSE NotQueried

\* the part of the elapsed time a node ran
Busy(time, prev, elapsed) ==
    IF elapsed <= 0 \/ time < 0 \/ prev < 0 THEN 0
    ELSE Largest({0, IF time - prev > elapsed THEN elapsed ELSE time - prev})

\* what the node of the device the adapter now stands for has run since
RanSince(then, a, n) == LET d == adapters[a].device IN ran[d][n] - then[d][n]

\* for the mutants: each time an adapter is found stale
RemapTime_Found(stale, due) == IF stale THEN clock ELSE m_RemapTime
RemapTime(stale, due) == IF due THEN clock ELSE m_RemapTime

Times(failed) == [a \in Places |-> [n \in NodesOf(place[a]) |-> TimeOf(a, n, failed)]]

\* the busy time of each adapter's busiest node, if there was a sample before
Elapsed == IF m_PrevTime = 0 THEN 0 ELSE clock - m_PrevTime
NodeUsage(times, a, n) ==
    IF Len(m_PrevTimes) # Len(adapters) THEN 0 ELSE Busy(times[a][n], m_PrevTimes[a][n], Elapsed)
Samples(times) == [a \in Places |-> Largest({NodeUsage(times, a, n) : n \in NodesOf(place[a])})]
Worked == [a \in Places |-> Largest({RanSince(ranAtUpdate, a, n) : n \in NodesOf(place[a])})]

\* an adapter none of whose nodes could be queried
Stale(times) == \E a \in Places : \A n \in NodesOf(place[a]) : times[a][n] = NotQueried

Update ==
    /\ user = "tracker"
    /\ \E failed \in SUBSET AdapterNodes :
         LET stale == Stale(Times(failed))
             due == stale /\ clock - m_RemapTime >= RemapInterval
         IN /\ m_Samples' = Samples(Times(failed))
            /\ m_PrevTimes' = Times(failed)
            /\ m_RemapTime' = RemapTime(stale, due)
            /\ IF due THEN RemapLuids ELSE UNCHANGED <<adapters, missed>>
    /\ m_PrevTime' = clock
    /\ worked' = Worked /\ ranAtUpdate' = ran
    /\ UNCHANGED <<deviceVars, processVars, place>>

\* another tracker, or another list's user, whose Update is due to remap
OtherRemap ==
    /\ \E a \in Places : ~Answers(adapters[a])
    /\ RemapLuids
    /\ UNCHANGED <<deviceVars, trackerVars, processVars, place>>

\* what the process ran on its busiest node, if it was queried before
ProcessTimes(failed) == [an \in AdapterNodes |-> TimeOf(an[1], an[2], failed)]
ProcessUsage(times) ==
    IF nodeTimes = <<>> THEN 0
    ELSE Largest({Busy(times[an], nodeTimes[an], clock - stateTime) : an \in AdapterNodes})
ProcessWorked == Largest({RanSince(ranAtQuery, an[1], an[2]) : an \in AdapterNodes})

QueryProcess ==
    /\ user = "process"
    /\ \E a \in Places : Answers(adapters[a])    \* else the usage is not Known, and nothing is kept
    /\ IF ~hasMemory
       THEN /\ nodeTimes' = <<>> /\ usage' = 0
            /\ UNCHANGED <<stateTime, ranAtQuery, workedForQuery>>
       ELSE \E failed \in SUBSET AdapterNodes :
              /\ nodeTimes' = ProcessTimes(failed) /\ usage' = ProcessUsage(ProcessTimes(failed))
              /\ stateTime' = clock
              /\ workedForQuery' = ProcessWorked /\ ranAtQuery' = ran
    /\ UNCHANGED <<deviceVars, trackerVars, adapters, place, missed>>

-----------------------------------------------------------------------------
(* The devices and the process.                                              *)

Restarts == FoldFunction(LAMBDA e, sum : e + sum, 0, epoch)

\* a restart, or a device that is plugged in again: a new LUID, and no running time
Restart(d) ==
    /\ Restarts < MaxRestarts
    /\ present' = present \cup {d}
    /\ epoch' = [epoch EXCEPT ![d] = @ + 1]
    /\ ranBefore' = [ranBefore EXCEPT ![d] = ran[d]]
    /\ back' = [back EXCEPT ![d] = clock]
    /\ UNCHANGED <<user, clock, hasMemory, ran, trackerVars, processVars, adapters, place, missed>>

Unplug(d) ==
    /\ d \in present
    /\ present' = present \ {d}
    /\ UNCHANGED <<user, clock, hasMemory, epoch, ran, ranBefore, back, trackerVars, processVars, adapters, place, missed>>

UseMemory ==
    /\ user = "process"
    /\ hasMemory' = ~hasMemory
    /\ UNCHANGED <<user, clock, present, epoch, ran, ranBefore, back, trackerVars, processVars, adapters, place, missed>>

\* time passes; some of the devices' nodes run
Tick ==
    /\ clock < RemapInterval + MaxTicks
    /\ clock' = clock + 1
    /\ \E busy \in SUBSET UNION {{<<d, n>> : n \in NodesOf(d)} : d \in present} :
         /\ hasMemory \/ busy = {}
         /\ ran' = [d \in GpuDevices |-> [n \in NodesOf(d) |-> IF <<d, n>> \in busy THEN ran[d][n] + 1 ELSE ran[d][n]]]
    /\ UNCHANGED <<user, present, hasMemory, epoch, ranBefore, back, trackerVars, processVars, adapters, place, missed>>

-----------------------------------------------------------------------------
Init ==
    /\ user \in {"tracker", "process"}
    /\ clock = RemapInterval
    /\ present \in (SUBSET GpuDevices) \ {{}}
    /\ hasMemory = TRUE
    /\ epoch = [d \in GpuDevices |-> 0]
    /\ ran = [d \in GpuDevices |-> [n \in NodesOf(d) |-> 0]]
    /\ ranBefore = ran
    /\ adapters \in Listings(present)
    /\ m_PrevTimes = <<>> /\ m_PrevTime = 0 /\ m_RemapTime = 0 /\ m_Samples = <<>>
    /\ nodeTimes = <<>> /\ stateTime = 0 /\ usage = 0
    /\ place = [a \in DOMAIN adapters |-> adapters[a].device]
    /\ back = [d \in GpuDevices |-> 0]
    /\ missed = FALSE
    /\ ranAtUpdate = ran /\ ranAtQuery = ran
    /\ worked = <<>> /\ workedForQuery = 0

Next ==
    \/ Update
    \/ OtherRemap
    \/ QueryProcess
    \/ \E d \in GpuDevices : Restart(d) \/ Unplug(d)
    \/ UseMemory
    \/ Tick

Spec == Init /\ [][Next]_gpuVars

-----------------------------------------------------------------------------
(* The list never changes its length, and the samples and the times kept fit *)
(* it: GpuInfo::GetAdapters order.                                           *)
TypeOK ==
    /\ \A a \in Places : adapters[a].device \in GpuDevices /\ adapters[a].epoch \in 0 .. epoch[adapters[a].device]
    /\ DOMAIN place = Places
    /\ m_PrevTimes # <<>> => DOMAIN m_PrevTimes = Places
    /\ DOMAIN m_Samples = DOMAIN m_PrevTimes /\ DOMAIN worked = DOMAIN m_PrevTimes
    /\ nodeTimes # <<>> => DOMAIN nodeTimes = AdapterNodes
    /\ m_PrevTime <= clock /\ m_RemapTime <= clock /\ stateTime <= clock

(* "-1: not queried, so the next delta doesn't start from 0": neither the    *)
(* tracker nor a process is shown more than the devices ran since the sample *)
(* before, through restarts, failed queries and remaps by whomever.          *)
UsageIsTrue ==
    /\ \A a \in DOMAIN m_Samples : m_Samples[a] <= worked[a]
    /\ usage <= workedForQuery

(* "each adapter takes the one of the same name and shape, which keeps the   *)
(* list (and its users' indices) as it was": a place in the list stands for  *)
(* the same device for good.                                                 *)
AdaptersKeepTheirPlace == \A a \in Places : adapters[a].device = place[a]

(* "GpuTracker::Update then gives it the new one": at an Update, a device    *)
(* back for RemapInterval is known again, if no listing left one out.        *)
RestartedIsFound ==
    \A a \in Places :
        place[a] \in present /\ ~missed /\ m_PrevTime - back[place[a]] >= RemapInterval
            => adapters[a] = Luid(place[a])

=============================================================================
