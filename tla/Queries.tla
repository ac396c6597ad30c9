------------------------------- MODULE Queries -------------------------------
(***************************************************************************)
(* The queries: those that take several calls, each on its own, as the     *)
(* monitors are (MCMonitors), and those that take apart or put together    *)
(* what one call gives, over inputs: a state of these is an input, and has *)
(* no step.                                                                *)
(***************************************************************************)
EXTENDS Integers, Sequences, FiniteSets, Functions

CONSTANTS
    Readings, Inputs(_),    \* of what is read, what there is to read
    MaxSize, MaxChanges, MaxQueries,
    Places, Commands,
    Callers, IndexRefresh, ComTime, ComChanges, MaxCalls,
    Objects, ObjectHandles, Openable, Self, MaxReuses,
    Nesting, Others, JobHandles, MaxProcesses,
    Addresses, ModuleRefreshInterval, SymbolTime, MaxCreations, SymbolCalls,
    MaxVersions,
    MaxBatteries, MaxReads,
    Operations, HasShutdown, Patience, ServiceTime

VARIABLES
    which, input, loop, turn, list, room, needed, asks, queried, m_Size, changed, grown, stored, states, entries,
    wanted, changes, registered, index, comPlusLoaded, s_ComPlus, caller, now, calls, held, exited, table, before,
    at, live, zombies, reuses, active, met, seen, jobs, process, loaded, stack, suspended, file, session, call,
    life, own, owner, opened, wow64, buffer, thread, code, read, result, ended, waited, created, slot, put, tag,
    info, shown, reading, reads, service, image, enabled

sizedOnly == <<loop, list, room, needed, asks, queried, m_Size, changed, grown>>
autorunsOnly == <<stored, states, entries, wanted>>
comOnly == <<registered, index, comPlusLoaded, s_ComPlus, caller>>
zombiesOnly == <<held, exited, table, before, at, live, zombies, reuses>>
jobsOnly == <<active, met, seen, jobs>>
symbolsOnly == <<process, stack, suspended, file, session>>
processesOnly == <<life, own, owner, opened, wow64, buffer, thread, code, read, result, ended, waited, created>>
batteriesOnly == <<slot, put, tag, info, shown, reading, reads>>
servicesOnly == <<service, image, enabled>>
shared == <<turn, changes, now, calls, loaded, call>>
vars == <<which, input, shared, sizedOnly, autorunsOnly, comOnly, zombiesOnly, jobsOnly, symbolsOnly,
          processesOnly, batteriesOnly, servicesOnly>>

Sized == INSTANCE SizedQueries
Startup == INSTANCE Autoruns
Com == INSTANCE ComServers WITH MaxTime <- ComTime, MaxChanges <- ComChanges
Zombie == INSTANCE Zombies WITH Handles <- ObjectHandles, Addresses <- TRUE
Unaddressed == INSTANCE Zombies WITH Handles <- ObjectHandles, Addresses <- FALSE
Job == INSTANCE Jobs WITH Handles <- JobHandles, Addresses <- TRUE
Looked == INSTANCE Jobs WITH Handles <- JobHandles, Addresses <- FALSE
Symbol == INSTANCE Symbols WITH MaxTime <- SymbolTime, MaxCalls <- SymbolCalls, Kernel <- FALSE
Kernel == INSTANCE Symbols WITH MaxTime <- SymbolTime, MaxCalls <- SymbolCalls, MaxCreations <- 1, Kernel <- TRUE
Process == INSTANCE Processes
Battery == INSTANCE Batteries WITH Answers <- TRUE
Service == INSTANCE Services WITH MaxTime <- ServiceTime

\* what is read is none of the queries of several calls
ASSUME ReadAssumption ==
    Readings \cap {"sized", "autoruns", "com", "zombies", "unaddressed", "jobs", "looked", "symbols", "kernel", "processes",
                   "batteries", "services"} = {}
\* bounds are numbers; a process has the ID at first, and a token has a privilege or not
ASSUME QueryAssumption ==
    /\ {MaxSize, MaxChanges, MaxQueries, IndexRefresh, ComTime, ComChanges, MaxCalls, MaxReuses, MaxProcesses,
        ModuleRefreshInterval, SymbolTime, SymbolCalls, MaxVersions, MaxBatteries, MaxReads, Patience, ServiceTime} \subseteq Nat
    /\ MaxCreations \in Nat \ {0}
    /\ HasShutdown \in BOOLEAN
\* autoruns are looked for in their places, and what is stored there may run nothing
ASSUME PlacesAssumption == Places \subseteq Startup!Everywhere /\ "none" \in Commands
\* no job is in itself, and the handles to jobs are to those there are
ASSUME JobsAssumption ==
    /\ Nesting \in Seq(Range(Nesting)) /\ Nesting # <<>>
    /\ \A i, j \in DOMAIN Nesting : Nesting[i] = Nesting[j] => i = j
    /\ JobHandles \in Seq(Range(JobHandles))
    /\ \A h \in DOMAIN JobHandles : JobHandles[h].job \in Range(Nesting) \cup Others
\* handles have owners; and no two processes whose times can't be read, which are told apart by address only
ASSUME ObjectsAssumption ==
    /\ ObjectHandles \in Seq(Range(ObjectHandles))
    /\ \A p, q \in DOMAIN Objects :
        /\ Zombie!IsProcess(p) /\ Zombie!IsProcess(q)
        /\ Zombie!GetProcessId(p) = Zombie!GetProcessId(q) /\ Zombie!Created(p) = Zombie!Created(q)
        => p = q

-----------------------------------------------------------------------------
\* the variables of the others: no values to start with, and none later
sizedUnused ==
    /\ loop = <<>> /\ list = <<>> /\ room = <<>> /\ needed = <<>> /\ asks = <<>> /\ queried = <<>> /\ m_Size = <<>>
    /\ changed = <<>> /\ grown = <<>>
autorunsUnused ==
    /\ stored = <<>> /\ states = <<>> /\ entries = <<>> /\ wanted = <<>>
comUnused ==
    /\ registered = <<>> /\ index = <<>> /\ comPlusLoaded = <<>> /\ s_ComPlus = <<>> /\ caller = <<>>
zombiesUnused ==
    /\ held = <<>> /\ exited = <<>> /\ table = <<>> /\ before = <<>> /\ at = <<>> /\ live = <<>> /\ zombies = <<>>
    /\ reuses = <<>>
jobsUnused ==
    /\ active = <<>> /\ met = <<>> /\ seen = <<>> /\ jobs = <<>>
symbolsUnused ==
    /\ process = <<>> /\ stack = <<>> /\ suspended = <<>> /\ file = <<>> /\ session = <<>>
processesUnused ==
    /\ life = <<>> /\ own = <<>> /\ owner = <<>> /\ opened = <<>> /\ wow64 = <<>> /\ buffer = <<>> /\ thread = <<>>
    /\ code = <<>> /\ read = <<>> /\ result = <<>> /\ ended = <<>> /\ waited = <<>> /\ created = <<>>
batteriesUnused ==
    /\ slot = <<>> /\ put = <<>> /\ tag = <<>> /\ info = <<>> /\ shown = <<>> /\ reading = <<>> /\ reads = <<>>
servicesUnused ==
    /\ service = <<>> /\ image = <<>> /\ enabled = <<>>

Init ==
    \/ /\ which = "sized" /\ Sized!Init /\ input = <<>>
       /\ changes = <<>> /\ now = <<>> /\ calls = <<>> /\ loaded = <<>> /\ call = <<>> /\ autorunsUnused
       /\ comUnused /\ zombiesUnused /\ jobsUnused /\ symbolsUnused /\ processesUnused /\ batteriesUnused
       /\ servicesUnused
    \/ /\ which = "autoruns" /\ Startup!Init /\ input = <<>>
       /\ turn = <<>> /\ now = <<>> /\ calls = <<>> /\ loaded = <<>> /\ call = <<>> /\ sizedUnused /\ comUnused
       /\ zombiesUnused /\ jobsUnused /\ symbolsUnused /\ processesUnused /\ batteriesUnused /\ servicesUnused
    \/ /\ which = "com" /\ Com!Init /\ input = <<>>
       /\ turn = <<>> /\ loaded = <<>> /\ call = <<>> /\ sizedUnused /\ autorunsUnused /\ zombiesUnused
       /\ jobsUnused /\ symbolsUnused /\ processesUnused /\ batteriesUnused /\ servicesUnused
    \/ /\ which = "zombies" /\ Zombie!Init /\ input = <<>>
       /\ turn = <<>> /\ changes = <<>> /\ now = <<>> /\ calls = <<>> /\ loaded = <<>> /\ call = <<>>
       /\ sizedUnused /\ autorunsUnused /\ comUnused /\ jobsUnused /\ symbolsUnused /\ processesUnused
       /\ batteriesUnused /\ servicesUnused
    \/ /\ which = "unaddressed" /\ Unaddressed!Init /\ input = <<>>
       /\ turn = <<>> /\ changes = <<>> /\ now = <<>> /\ calls = <<>> /\ loaded = <<>> /\ call = <<>>
       /\ sizedUnused /\ autorunsUnused /\ comUnused /\ jobsUnused /\ symbolsUnused /\ processesUnused
       /\ batteriesUnused /\ servicesUnused
    \/ /\ which = "jobs" /\ Job!Init /\ input = <<>>
       /\ turn = <<>> /\ now = <<>> /\ calls = <<>> /\ loaded = <<>> /\ call = <<>> /\ sizedUnused
       /\ autorunsUnused /\ comUnused /\ zombiesUnused /\ symbolsUnused /\ processesUnused /\ batteriesUnused
       /\ servicesUnused
    \/ /\ which = "looked" /\ Looked!Init /\ input = <<>>
       /\ turn = <<>> /\ now = <<>> /\ calls = <<>> /\ loaded = <<>> /\ call = <<>> /\ sizedUnused
       /\ autorunsUnused /\ comUnused /\ zombiesUnused /\ symbolsUnused /\ processesUnused /\ batteriesUnused
       /\ servicesUnused
    \/ /\ which = "symbols" /\ Symbol!Init /\ input = <<>>
       /\ turn = <<>> /\ changes = <<>> /\ sizedUnused /\ autorunsUnused /\ comUnused /\ zombiesUnused
       /\ jobsUnused /\ processesUnused /\ batteriesUnused /\ servicesUnused
    \/ /\ which = "kernel" /\ Kernel!Init /\ input = <<>>
       /\ turn = <<>> /\ changes = <<>> /\ sizedUnused /\ autorunsUnused /\ comUnused /\ zombiesUnused
       /\ jobsUnused /\ processesUnused /\ batteriesUnused /\ servicesUnused
    \/ /\ which = "processes" /\ Process!Init /\ input = <<>>
       /\ changes = <<>> /\ now = <<>> /\ call = <<>> /\ sizedUnused /\ autorunsUnused /\ comUnused
       /\ zombiesUnused /\ jobsUnused /\ symbolsUnused /\ batteriesUnused /\ servicesUnused
    \/ /\ which = "batteries" /\ Battery!Init /\ input = <<>>
       /\ changes = <<>> /\ now = <<>> /\ calls = <<>> /\ loaded = <<>> /\ call = <<>> /\ sizedUnused
       /\ autorunsUnused /\ comUnused /\ zombiesUnused /\ jobsUnused /\ symbolsUnused /\ processesUnused
       /\ servicesUnused
    \/ /\ which = "services" /\ Service!Init /\ input = <<>>
       /\ turn = <<>> /\ changes = <<>> /\ loaded = <<>> /\ sizedUnused /\ autorunsUnused /\ comUnused
       /\ zombiesUnused /\ jobsUnused /\ symbolsUnused /\ processesUnused /\ batteriesUnused
    \/ /\ which \in Readings /\ input \in Inputs(which)
       /\ turn = <<>> /\ changes = <<>> /\ now = <<>> /\ calls = <<>> /\ loaded = <<>> /\ call = <<>>
       /\ sizedUnused /\ autorunsUnused /\ comUnused /\ zombiesUnused /\ jobsUnused /\ symbolsUnused
       /\ processesUnused /\ batteriesUnused /\ servicesUnused

Next ==
    /\ UNCHANGED <<which, input>>
    /\ \/ /\ which = "sized" /\ Sized!Next
          /\ UNCHANGED <<changes, now, calls, loaded, call, autorunsOnly, comOnly, zombiesOnly, jobsOnly,
                         symbolsOnly, processesOnly, batteriesOnly, servicesOnly>>
       \/ /\ which = "autoruns" /\ Startup!Next
          /\ UNCHANGED <<turn, now, calls, loaded, call, sizedOnly, comOnly, zombiesOnly, jobsOnly, symbolsOnly,
                         processesOnly, batteriesOnly, servicesOnly>>
       \/ /\ which = "com" /\ Com!Next
          /\ UNCHANGED <<turn, loaded, call, sizedOnly, autorunsOnly, zombiesOnly, jobsOnly, symbolsOnly,
                         processesOnly, batteriesOnly, servicesOnly>>
       \/ /\ which = "zombies" /\ Zombie!Next
          /\ UNCHANGED <<turn, changes, now, calls, loaded, call, sizedOnly, autorunsOnly, comOnly, jobsOnly,
                         symbolsOnly, processesOnly, batteriesOnly, servicesOnly>>
       \/ /\ which = "unaddressed" /\ Unaddressed!Next
          /\ UNCHANGED <<turn, changes, now, calls, loaded, call, sizedOnly, autorunsOnly, comOnly, jobsOnly,
                         symbolsOnly, processesOnly, batteriesOnly, servicesOnly>>
       \/ /\ which = "jobs" /\ Job!Next
          /\ UNCHANGED <<turn, now, calls, loaded, call, sizedOnly, autorunsOnly, comOnly, zombiesOnly,
                         symbolsOnly, processesOnly, batteriesOnly, servicesOnly>>
       \/ /\ which = "looked" /\ Looked!Next
          /\ UNCHANGED <<turn, now, calls, loaded, call, sizedOnly, autorunsOnly, comOnly, zombiesOnly,
                         symbolsOnly, processesOnly, batteriesOnly, servicesOnly>>
       \/ /\ which = "symbols" /\ Symbol!Next
          /\ UNCHANGED <<turn, changes, sizedOnly, autorunsOnly, comOnly, zombiesOnly, jobsOnly, processesOnly,
                         batteriesOnly, servicesOnly>>
       \/ /\ which = "kernel" /\ Kernel!Next
          /\ UNCHANGED <<turn, changes, sizedOnly, autorunsOnly, comOnly, zombiesOnly, jobsOnly, processesOnly,
                         batteriesOnly, servicesOnly>>
       \/ /\ which = "processes" /\ Process!Next
          /\ UNCHANGED <<changes, now, call, sizedOnly, autorunsOnly, comOnly, zombiesOnly, jobsOnly, symbolsOnly,
                         batteriesOnly, servicesOnly>>
       \/ /\ which = "batteries" /\ Battery!Next
          /\ UNCHANGED <<changes, now, calls, loaded, call, sizedOnly, autorunsOnly, comOnly, zombiesOnly,
                         jobsOnly, symbolsOnly, processesOnly, servicesOnly>>
       \/ /\ which = "services" /\ Service!Next
          /\ UNCHANGED <<turn, changes, loaded, sizedOnly, autorunsOnly, comOnly, zombiesOnly, jobsOnly,
                         symbolsOnly, processesOnly, batteriesOnly>>

Spec == Init /\ [][Next]_vars

-----------------------------------------------------------------------------
Is(query, P) == which = query => P

(* The state that a call's step leaves belongs together: each module's type  *)
(* invariant.                                                                *)
TypeOK ==
    /\ Is("sized", Sized!TypeOK) /\ Is("autoruns", Startup!TypeOK) /\ Is("com", Com!TypeOK)
    /\ Is("zombies", Zombie!TypeOK) /\ Is("unaddressed", Unaddressed!TypeOK)
    /\ Is("jobs", Job!TypeOK) /\ Is("looked", Looked!TypeOK)
    /\ Is("symbols", Symbol!TypeOK) /\ Is("kernel", Kernel!TypeOK)
    /\ Is("processes", Process!TypeOK) /\ Is("batteries", Battery!TypeOK) /\ Is("services", Service!TypeOK)

(* A call takes back what it took, whichever of its steps fails and whatever *)
(* others do: no thread stays suspended and no part of a dump is left        *)
(* (Symbols), a path injected outlives the thread that reads it and no more  *)
(* (Processes), and a privilege is enabled only within a call (Services).    *)
NothingIsLeft ==
    /\ Is("symbols", Symbol!NothingIsLeft) /\ Is("kernel", Kernel!NothingIsLeft)
    /\ Is("processes", Process!BufferOutlivesThread)
    /\ Is("services", Service!PrivilegeIsReturned)

(* What is found is of the one that was asked for, of one moment and once,   *)
(* though processes exit, identifiers and handles come to be others', lists  *)
(* grow and batteries are replaced meanwhile.                                *)
FoundIsOfOne ==
    /\ Is("symbols", Symbol!StackIsOneMoment /\ Symbol!NewModuleIsNamed /\ Symbol!DumpIsOfProcess)
    /\ Is("kernel", Kernel!NewModuleIsNamed)
    /\ Is("processes", Process!RestartedOnce)
    /\ Is("batteries", Battery!ReadingIsOfBattery)
    /\ Is("zombies", Zombie!EachZombieOnce) /\ Is("unaddressed", Unaddressed!EachZombieOnce)
    /\ Is("jobs", Job!EachJobOnce /\ Job!SteadyIsOrdered) /\ Is("looked", Looked!EachJobOnce /\ Looked!SteadyIsOrdered)
    /\ Is("com", Com!RegisteredIsFound)
    /\ Is("sized", Sized!ListIsRead /\ Sized!GrowthHasRoom /\ Sized!AsksHaveReason)

(* What a caller enabled or disabled to start by itself stays so until       *)
(* others change it, and a call changes one entry at most (Autoruns).        *)
TogglesHold == [](Is("autoruns", Startup!TogglesHold)) /\ [][Is("autoruns", Startup!OneAtATime)]_vars
=============================================================================
