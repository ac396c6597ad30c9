-------------------------------- MODULE Jobs --------------------------------
(***************************************************************************)
(* JobInfo::FindProcessJobs (Job.cpp): the jobs a process is in, found     *)
(* through the system's handle table as zombies are, and put in order,     *)
(* innermost first, by their active processes.  Each job's are counted     *)
(* when its handle is met, while processes go on being added and exiting.  *)
(*                                                                         *)
(* Nesting is the jobs of the process from the innermost; Others the jobs  *)
(* it is not in; Handles the table's handles, each with its owner and its  *)
(* job.                                                                    *)
(***************************************************************************)
EXTENDS Naturals, Sequences, FiniteSets, Functions

CONSTANTS Nesting, Others, Handles, Openable, Addresses, MaxProcesses, MaxChanges

VARIABLES active, met, seen, jobs, changes

jobVars == <<active, met, seen, jobs, changes>>

JobOf(handle) == Handles[handle].job
InJob(job) == \E i \in DOMAIN Nesting : Nesting[i] = job
Depth(job) == CHOOSE i \in DOMAIN Nesting : Nesting[i] = job
\* GetActiveProcesses: the job's own and those of the jobs in it
ActiveProcesses(job) == active[job]
Own(i) == IF i = 1 THEN active[Nesting[1]] ELSE active[Nesting[i]] - active[Nesting[i - 1]]

\* NtCompareObjects: whether a job found is this one
Same(job) == \E i \in DOMAIN jobs : jobs[i].job = job
Considered(handle) ==
    /\ ~(Addresses /\ JobOf(handle) \in seen)
    /\ Handles[handle].owner \in Openable
Meet ==
    /\ met < Len(Handles) /\ met' = met + 1
    /\ LET job == JobOf(met') IN
       /\ seen' = IF Addresses /\ Considered(met') THEN seen \cup {job} ELSE seen
       /\ jobs' = IF Considered(met') /\ InJob(job) /\ ~Same(job)
                  THEN Append(jobs, [job |-> job, active |-> ActiveProcesses(job)]) ELSE jobs
    /\ UNCHANGED <<active, changes>>

\* the stable sort, and whether no two have as many
Before(i, j) == jobs[i].active < jobs[j].active \/ (jobs[i].active = jobs[j].active /\ i < j)
Place(j) == Cardinality({i \in DOMAIN jobs : Before(i, j)}) + 1
Sorted == [n \in DOMAIN jobs |-> jobs[CHOOSE j \in DOMAIN jobs : Place(j) = n]]
Ordered == \A i \in 1..(Len(jobs) - 1) : Sorted[i].active # Sorted[i + 1].active

\* a process starts in a job or exits; the process asked about stays
Change == \E i \in DOMAIN Nesting : \E count \in 0..MaxProcesses :
    /\ changes < MaxChanges /\ changes' = changes + 1
    /\ count # Own(i) /\ (i = 1 => count > 0)
    /\ active' = [job \in DOMAIN active |-> IF Depth(job) < i THEN active[job] ELSE active[job] - Own(i) + count]
    /\ UNCHANGED <<met, seen, jobs>>

Init ==
    /\ active \in [Range(Nesting) -> 0..(Len(Nesting) * MaxProcesses)] /\ active[Nesting[1]] > 0
    /\ \A i, j \in DOMAIN Nesting : i <= j => active[Nesting[i]] <= active[Nesting[j]]
    /\ \A i \in DOMAIN Nesting : Own(i) <= MaxProcesses
    /\ met = 0 /\ seen = {} /\ jobs = <<>> /\ changes = 0
Next == Meet \/ Change
Spec == Init /\ [][Next]_jobVars

-----------------------------------------------------------------------------
(* The jobs are the process's, with a handle that was met.                   *)
TypeOK ==
    /\ \A i \in DOMAIN Nesting : Own(i) \in 0..MaxProcesses
    /\ met \in 0..Len(Handles) /\ seen \subseteq Range(Nesting) \cup Others
    /\ \A i \in DOMAIN jobs : InJob(jobs[i].job) /\ \E h \in 1..met : JobOf(h) = jobs[i].job

Found == met = Len(Handles)
(* A job of the process is found once, however many handles there are to it, *)
(* whether or not the objects' addresses are known; and if no process        *)
(* started or exited meanwhile, jobs said to be in order are, the innermost  *)
(* first.                                                                    *)
EachJobOnce ==
    /\ \A i, j \in DOMAIN jobs : jobs[i].job = jobs[j].job => i = j
    /\ Found => \A h \in DOMAIN Handles : InJob(JobOf(h)) /\ Handles[h].owner \in Openable => Same(JobOf(h))
InOrder == \A i, j \in DOMAIN Sorted : i < j => Depth(Sorted[i].job) < Depth(Sorted[j].job)
SteadyIsOrdered == Found /\ changes = 0 /\ Ordered => InOrder
=============================================================================
