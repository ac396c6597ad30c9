----------------------------- MODULE MCTrackers -----------------------------
(***************************************************************************)
(* The smaller trackers, each on its own: they have no state in common, so *)
(* a behaviour is one of theirs, the one "which" names, and the other      *)
(* variables are not used.  The constants are the trackers'; their values  *)
(* for model checking are at the end.                                      *)
(***************************************************************************)
EXTENDS Naturals, FiniteSets, TLC

CONSTANTS
    IpcPids, MessageIds, RpcEndpoints, MaxExchanges, MaxCalls, MaxPasses,
    Ends, MaxEvents, MaxOpens,
    FilePids, Keys, FileObjects, Processors, MaxAttempts, FileIdle, NameIdle, MaxFiles, MaxIo, MaxTick,
    Processes, Creators, Service, ExitedKept, MaxNow,
    PidsInUse, Others, MaxSessions, MaxProcesses,
    GpuDevices, Shapes, RemapInterval, MaxTicks, MaxRestarts,
    Pages, Sizes, MaxMapped, MaxEnums

VARIABLES
    which,
    running, m_Pending, inFlight,   \* of several trackers
    m_Alpc, m_Rpc, m_Endpoints, exchange, logged, exited, exchanged, served, begun, calls, passes,
    m_Counters, m_Connections, tpc, event, live, table, events, opens, seen,
    m_Files, m_Names, m_ObjectNames, m_Attempts, rpc, taken, found, ptick, open, current, trace, told, io, tick,
    m_Creations, host, state, made, exitTime, now, known, handed,
    process, created, sessions, pc, listed, doomed, orphaned,
    user, clock, present, hasMemory, epoch, ran, ranBefore, adapters, m_PrevTimes, m_PrevTime, m_RemapTime, m_Samples,
    nodeTimes, stateTime, usage, place, back, missed, ranAtUpdate, ranAtQuery, worked, workedForQuery,
    byHandle, _modules, _newModules, _unloadedModules, _moduleMap, info, epc, address, currentModule, currentBase,
    modules, map, enums, space, mapped, steady, listedAs, client

ipcOnly == <<m_Alpc, m_Rpc, m_Endpoints, exchange, logged, exited, exchanged, served, begun, calls, passes>>
networkOnly == <<m_Counters, m_Connections, tpc, event, live, table, events, opens, seen>>
fileOnly == <<m_Files, m_Names, m_ObjectNames, m_Attempts, rpc, taken, found, ptick, open, current, trace, told,
              io, tick>>
gpuOnly == <<user, clock, present, hasMemory, epoch, ran, ranBefore, adapters, m_PrevTimes, m_PrevTime, m_RemapTime,
             m_Samples, nodeTimes, stateTime, usage, place, back, missed, ranAtUpdate, ranAtQuery, worked,
             workedForQuery>>
moduleOnly == <<byHandle, _modules, _newModules, _unloadedModules, _moduleMap, info, epc, address, currentModule,
                currentBase, modules, map, enums, space, mapped, steady, listedAs, client>>
creationOnly == <<m_Creations, host, state, made, exitTime, now, known, handed>>
sessionOnly == <<process, created, sessions, pc, listed, doomed, orphaned>>
vars == <<which, running, m_Pending, inFlight, ipcOnly, networkOnly, fileOnly, creationOnly, sessionOnly, gpuOnly,
          moduleOnly>>

\* process IDs are not 0; they and the messages' IDs have 32 bits
ASSUME IpcAssumption ==
    /\ IpcPids \subseteq Nat \ {0} /\ IsFiniteSet(IpcPids)
    /\ IsFiniteSet(MessageIds)

\* an event tells its process and its ends
ASSUME NetworkAssumption == Ends \subseteq [pid : Nat, udp : BOOLEAN, local : Nat, port : Nat, remote : Nat]

\* process IDs are not 0; another component's name does not go on with a digit after the prefix, or it is taken for a tracker's
ASSUME SessionAssumption ==
    /\ PidsInUse \subseteq Nat \ {0}
    /\ Others \subseteq [digits : {0}, rest : STRING \ {""}]
    /\ MaxSessions \in Nat

\* how many exited processes are remembered
ASSUME CreationAssumption == ExitedKept \in Nat

\* a file's key is not what is written when there is none; a name is asked for at least once
ASSUME FileAssumption == {"none", "closed"} \cap Keys = {} /\ MaxAttempts \in Nat \ {0} /\ MaxIo \in Nat

\* a GPU has engines, and its LUIDs are not looked up all the time
ASSUME GpuAssumption ==
    /\ IsFiniteSet(GpuDevices)
    /\ \A d \in GpuDevices : Shapes[d].nodes \in Nat \ {0}
    /\ RemapInterval \in Nat \ {0}

\* what is mapped has a page
ASSUME ModuleAssumption ==
    /\ Pages \in Nat
    /\ \A file \in DOMAIN Sizes : Sizes[file] \in Nat \ {0}

Alpc == INSTANCE Ipc WITH RpcEndpoints <- {}, MaxCalls <- 0, SlowReplies <- FALSE
Rpc == INSTANCE Ipc WITH MessageIds <- {}, MaxExchanges <- 0, MaxPasses <- 0, SlowReplies <- FALSE
Network == INSTANCE ProcessNetwork
File == INSTANCE FileIo WITH ReusedObjects <- FALSE
Creation == INSTANCE ProcessCreation WITH ServiceStops <- FALSE
Session == INSTANCE EtwSession WITH ReusedWhileStopping <- FALSE
Adapter == INSTANCE Gpu
Module == INSTANCE ProcessModules

\* the variables of the others: no values to start with, and none later
IpcUnused ==
    /\ m_Alpc = <<>> /\ m_Rpc = <<>> /\ m_Endpoints = <<>> /\ exchange = <<>> /\ logged = <<>>
    /\ exited = <<>> /\ exchanged = <<>> /\ served = <<>> /\ begun = <<>> /\ calls = <<>>
    /\ passes = <<>>
NetworkUnused ==
    /\ m_Counters = <<>> /\ m_Connections = <<>> /\ tpc = <<>> /\ event = <<>> /\ live = <<>>
    /\ table = <<>> /\ events = <<>> /\ opens = <<>> /\ seen = <<>>
FileUnused ==
    /\ m_Files = <<>> /\ m_Names = <<>> /\ m_ObjectNames = <<>> /\ m_Attempts = <<>> /\ rpc = <<>>
    /\ taken = <<>> /\ found = <<>> /\ ptick = <<>> /\ open = <<>> /\ current = <<>>
    /\ trace = <<>> /\ told = <<>> /\ io = <<>> /\ tick = <<>>
CreationUnused ==
    /\ m_Creations = <<>> /\ host = <<>> /\ state = <<>> /\ made = <<>> /\ exitTime = <<>>
    /\ now = <<>> /\ known = <<>> /\ handed = <<>>
SessionUnused ==
    /\ process = <<>> /\ created = <<>> /\ sessions = <<>> /\ pc = <<>> /\ listed = <<>>
    /\ doomed = <<>> /\ orphaned = <<>>
GpuUnused ==
    /\ user = <<>> /\ clock = <<>> /\ present = <<>> /\ hasMemory = <<>> /\ epoch = <<>>
    /\ ran = <<>> /\ ranBefore = <<>> /\ adapters = <<>> /\ m_PrevTimes = <<>> /\ m_PrevTime = <<>>
    /\ m_RemapTime = <<>> /\ m_Samples = <<>> /\ nodeTimes = <<>> /\ stateTime = <<>> /\ usage = <<>>
    /\ place = <<>> /\ back = <<>> /\ missed = <<>> /\ ranAtUpdate = <<>> /\ ranAtQuery = <<>>
    /\ worked = <<>> /\ workedForQuery = <<>>
ModulesUnused ==
    /\ byHandle = <<>> /\ _modules = <<>> /\ _newModules = <<>> /\ _unloadedModules = <<>> /\ _moduleMap = <<>>
    /\ info = <<>> /\ epc = <<>> /\ address = <<>> /\ currentModule = <<>> /\ currentBase = <<>>
    /\ modules = <<>> /\ map = <<>> /\ enums = <<>> /\ space = <<>> /\ mapped = <<>>
    /\ steady = <<>> /\ listedAs = <<>> /\ client = <<>>

Init ==
    \/ /\ which = "alpc" /\ Alpc!Init
       /\ inFlight = <<>>
       /\ NetworkUnused /\ FileUnused /\ CreationUnused /\ SessionUnused /\ GpuUnused /\ ModulesUnused
    \/ /\ which = "rpc" /\ Rpc!Init
       /\ inFlight = <<>>
       /\ NetworkUnused /\ FileUnused /\ CreationUnused /\ SessionUnused /\ GpuUnused /\ ModulesUnused
    \/ /\ which = "network" /\ Network!Init
       /\ m_Pending = <<>>
       /\ IpcUnused /\ FileUnused /\ CreationUnused /\ SessionUnused /\ GpuUnused /\ ModulesUnused
    \/ /\ which = "files" /\ File!Init
       /\ inFlight = <<>>
       /\ IpcUnused /\ NetworkUnused /\ CreationUnused /\ SessionUnused /\ GpuUnused /\ ModulesUnused
    \/ /\ which = "creations" /\ Creation!Init
       /\ m_Pending = <<>>
       /\ IpcUnused /\ NetworkUnused /\ FileUnused /\ SessionUnused /\ GpuUnused /\ ModulesUnused
    \/ /\ which = "sessions" /\ Session!Init
       /\ running = <<>> /\ m_Pending = <<>> /\ inFlight = <<>>
       /\ IpcUnused /\ NetworkUnused /\ FileUnused /\ CreationUnused /\ GpuUnused /\ ModulesUnused
    \/ /\ which = "gpus" /\ Adapter!Init
       /\ running = <<>> /\ m_Pending = <<>> /\ inFlight = <<>>
       /\ IpcUnused /\ NetworkUnused /\ FileUnused /\ CreationUnused /\ SessionUnused /\ ModulesUnused
    \/ /\ which = "modules" /\ Module!Init
       /\ running = <<>> /\ m_Pending = <<>> /\ inFlight = <<>>
       /\ IpcUnused /\ NetworkUnused /\ FileUnused /\ CreationUnused /\ SessionUnused /\ GpuUnused

Next ==
    /\ UNCHANGED which
    /\ \/ /\ which = "alpc" /\ Alpc!Next
          /\ UNCHANGED <<networkOnly, fileOnly, creationOnly, sessionOnly, gpuOnly, moduleOnly, inFlight>>
       \/ /\ which = "rpc" /\ Rpc!Next
          /\ UNCHANGED <<networkOnly, fileOnly, creationOnly, sessionOnly, gpuOnly, moduleOnly, inFlight>>
       \/ /\ which = "network" /\ Network!Next
          /\ UNCHANGED <<ipcOnly, fileOnly, creationOnly, sessionOnly, gpuOnly, moduleOnly, m_Pending>>
       \/ /\ which = "files" /\ File!Next
          /\ UNCHANGED <<ipcOnly, networkOnly, creationOnly, sessionOnly, gpuOnly, moduleOnly, inFlight>>
       \/ /\ which = "creations" /\ Creation!Next
          /\ UNCHANGED <<ipcOnly, networkOnly, fileOnly, sessionOnly, gpuOnly, moduleOnly, m_Pending>>
       \/ /\ which = "sessions" /\ Session!Next
          /\ UNCHANGED <<ipcOnly, networkOnly, fileOnly, creationOnly, gpuOnly, moduleOnly, running, m_Pending, inFlight>>
       \/ /\ which = "gpus" /\ Adapter!Next
          /\ UNCHANGED <<ipcOnly, networkOnly, fileOnly, creationOnly, sessionOnly, moduleOnly, running, m_Pending, inFlight>>
       \/ /\ which = "modules" /\ Module!Next
          /\ UNCHANGED <<ipcOnly, networkOnly, fileOnly, creationOnly, sessionOnly, gpuOnly, running, m_Pending, inFlight>>

Spec == Init /\ [][Next]_vars


-----------------------------------------------------------------------------
Is(tracker, P) == which = tracker => P

(* Every table of a tracker relates what it should, and only a running       *)
(* tracker has any entries: each module's type invariant.                    *)
TypeOK ==
    /\ Is("alpc", Alpc!TypeOK) /\ Is("rpc", Rpc!TypeOK)
    /\ Is("network", Network!TypeOK)
    /\ Is("files", File!TypeOK)
    /\ Is("creations", Creation!TypeOK)
    /\ Is("sessions", Session!TypeOK)
    /\ Is("gpus", Adapter!TypeOK)
    /\ Is("modules", Module!TypeOK)

(* No client and server are counted more ALPC messages, in these roles, than *)
(* they exchanged, in whatever order their events arrive, and an RPC link's  *)
(* server served the link's endpoint on this machine (Ipc).                  *)
LinksAreTrue == Is("alpc", Alpc!LinksAreTrue) /\ Is("rpc", Rpc!ServersAreTrue)

(* A process's bytes are at least those of its connections together, though  *)
(* events of a removed process still arrive, and a prune between two events  *)
(* forgets no connection that stays open (ProcessNetwork).                   *)
ConnectionsKeepCounts == Is("network", Network!ConnectionsWithinProcess /\ Network!OpenConnectionsKeepCounts)

(* The resolver never renames a key its events have named since, and looks   *)
(* for a key in at most one pass more than MaxAttempts (FileIo).             *)
NamesAreNotOlder == Is("files", File!NamesAreNotOlder /\ File!LookedForAtMost)

(* TakeExited returns no exit twice and misses none whose events arrived,    *)
(* the start after the stop included (ProcessCreation).                      *)
ExitsAreTakenOnce == Is("creations", Creation!EachExitOnce /\ Creation!NoExitIsMissed)

(* While the service keeps running, a creation's record says who created it  *)
(* (ProcessCreation).                                                        *)
CreatorsAreTrue == Is("creations", Creation!CreatorsAreTrue)

(* No sweep stops the session of a running tracker (EtwSession).             *)
RunningHasSession == Is("sessions", Session!RunningHasSession)

(* A sweep leaves none of the orphans it could list, and stops no session    *)
(* whose name just starts with the prefix (EtwSession).                      *)
OrphansAreStopped == Is("sessions", Session!OrphansAreStopped /\ Session!OthersAreLeftAlone)

(* No usage is more than the devices really ran since the sample before,     *)
(* through restarts, failed queries and remaps (Gpu).                        *)
UsageIsTrue == Is("gpus", Adapter!UsageIsTrue)

(* A restarted device is known again once RemapInterval has passed, and an   *)
(* adapter of its own shape keeps its place in the list (Gpu).               *)
RestartedIsFound == Is("gpus", Adapter!RestartedIsFound /\ Adapter!AdaptersKeepTheirPlace)

(* A client that applies the new and the unloaded modules of every call has  *)
(* the modules listed; a mapping there all the time of a walk is listed      *)
(* once, with its size, as one object for good (ProcessModules).             *)
ClientHasModules == Is("modules", Module!ClientHasModules /\ Module!SteadyIsListed /\ Module!ObjectsAreKept)

-----------------------------------------------------------------------------
(* The values for model checking.                                            *)

MCRpcEndpoints == {<<"tcp", "135">>, <<"lrpc", "135">>}

\* two UDP endpoints would differ by their ports; one is enough beside a TCP connection of its process and another's
MCEnds ==
    {[pid |-> 4, udp |-> TRUE, local |-> 1, port |-> 53, remote |-> 0],
     [pid |-> 4, udp |-> FALSE, local |-> 1, port |-> 80, remote |-> 2],
     [pid |-> 8, udp |-> FALSE, local |-> 1, port |-> 81, remote |-> 2]}

MCOthers == {[digits |-> 0, rest |-> "GC"]}

\* of two names: RemapLuids tells them apart
MCShapes == [gpu |-> [name |-> "GPU", nodes |-> 1], other |-> [name |-> "Other", nodes |-> 1]]

MCSizes == [small |-> 1, large |-> 2]

MCSymmetry == Permutations(Processors) \cup Permutations(Processes)

=============================================================================
