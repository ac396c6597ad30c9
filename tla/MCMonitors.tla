--------------------------------- MODULE MCMonitors ---------------------------------
(***************************************************************************)
(* Model checking of the monitors and queries that wait for another        *)
(* process, a service or a server, each on its own: they have no state in  *)
(* common, so a behaviour is one of theirs, the one "which" names, and the *)
(* other variables are not used.  The constants are the modules'; their    *)
(* values for model checking are at the end.                               *)
(***************************************************************************)
EXTENDS Naturals, Sequences

CONSTANTS
    MaxStarts, MaxRequests,     \* of several
    Channels, Publishers, MaxEvents,
    PipeSize,
    Runtimes, MaxQueries,
    MaxTime, MaxLost,
    HeaderSize, PayloadSize, Timeout,
    Types, FileQueries, MaxCalls, MaxReuses,
    BodyParts, FileSizes, DirectUploadLimit, UploadLimit

VARIABLES
    which, client, inStart, next, m_Subscriptions, m_State, states, lock, m_Handles, callback, starts, delivered,
    opened, session, m_Process, m_Input, m_Thread, m_System, m_Frame, input, output, held, helper, printed,
    buffer, system, requests, query, error, result, trace, thread, enabled, said, buffers, infos, items,
    completed, Complete, hDone, queries, late, stop, starting, Stats, now, runtime, lost, pauses, collections,
    command, done, pending, elapsed, unknown, pipe, written, answer, sent, slot, busy, at, op, type, h, details,
    workers, calls, reuses, closed, call, url, status, lengthKnown, arrived, broken, body, file, size, readUp, ok,
    report, stored

watcherOnly == <<next, m_Subscriptions, states, lock, m_Handles, callback, delivered, opened>>
wslOnly == <<m_Process, m_Input, m_Thread, m_System, m_Frame, input, output, held, helper, printed, buffer,
             system>>
rundownOnly == <<query, error, enabled, said, infos, items, completed, Complete, hDone, queries>>
gcOnly == <<stop, starting, Stats, now, lost, pauses, collections>>
diagnosticsOnly == <<command, done, pending, elapsed, unknown, pipe, written, answer, sent>>
handleOnly == <<slot, busy, at, type, h, details, workers, calls, reuses, closed>>
httpOnly == <<call, url, status, lengthKnown, arrived, broken, body, file, size, readUp, ok, report, stored>>
shared == <<client, inStart, m_State, starts, session, requests, result, trace, thread, buffers, late, runtime,
            op>>
vars == <<which, shared, watcherOnly, wslOnly, rundownOnly, gcOnly, diagnosticsOnly, handleOnly, httpOnly>>

\* channels have names; a pipe has room for so many requests, and other things sizes
ASSUME MonitorAssumption ==
    /\ Channels \in Seq(STRING \ {""})
    /\ {PipeSize, Timeout, PayloadSize, FileQueries, BodyParts, DirectUploadLimit, UploadLimit} \subseteq Nat
    /\ HeaderSize \in Nat \ {0}
    /\ Types \in Seq({"File", "Process", "Event"})
    /\ FileSizes \subseteq Nat

\* no two events are lost in a row: a restart and the suspension after it
ASSUME GcAssumption == MaxLost \in {0, 1}

Watcher == INSTANCE EventLogWatcher
Wsl == INSTANCE WslProcessMonitor WITH Blocking <- FALSE
Rundown == INSTANCE DotNetRundown WITH Runtimes <- <<1>>, Concurrently <- TRUE, Versioned <- FALSE
Rundowns == INSTANCE DotNetRundown WITH Concurrently <- TRUE, Versioned <- TRUE
Gc == INSTANCE DotNetGc
Diagnostics == INSTANCE DotNetDiagnostics
Handle == INSTANCE ProcessHandles WITH ReusedForAny <- FALSE
Reused == INSTANCE ProcessHandles WITH ReusedForAny <- TRUE
Request == INSTANCE Http

\* the variables of the others: no values to start with, and none later
watcherUnused ==
    /\ next = <<>> /\ m_Subscriptions = <<>> /\ states = <<>> /\ lock = <<>> /\ m_Handles = <<>> /\ callback = <<>>
    /\ delivered = <<>> /\ opened = <<>>
wslUnused ==
    /\ m_Process = <<>> /\ m_Input = <<>> /\ m_Thread = <<>> /\ m_System = <<>> /\ m_Frame = <<>> /\ input = <<>>
    /\ output = <<>> /\ held = <<>> /\ helper = <<>> /\ printed = <<>> /\ buffer = <<>> /\ system = <<>>
rundownUnused ==
    /\ query = <<>> /\ error = <<>> /\ enabled = <<>> /\ said = <<>> /\ infos = <<>> /\ items = <<>>
    /\ completed = <<>> /\ Complete = <<>> /\ hDone = <<>> /\ queries = <<>>
gcUnused ==
    /\ stop = <<>> /\ starting = <<>> /\ Stats = <<>> /\ now = <<>> /\ lost = <<>> /\ pauses = <<>>
    /\ collections = <<>>
diagnosticsUnused ==
    /\ command = <<>> /\ done = <<>> /\ pending = <<>> /\ elapsed = <<>> /\ unknown = <<>> /\ pipe = <<>>
    /\ written = <<>> /\ answer = <<>> /\ sent = <<>>
handleUnused ==
    /\ slot = <<>> /\ busy = <<>> /\ at = <<>> /\ type = <<>> /\ h = <<>> /\ details = <<>> /\ workers = <<>>
    /\ calls = <<>> /\ reuses = <<>> /\ closed = <<>>
httpUnused ==
    /\ call = <<>> /\ url = <<>> /\ status = <<>> /\ lengthKnown = <<>> /\ arrived = <<>> /\ broken = <<>>
    /\ body = <<>> /\ file = <<>> /\ size = <<>> /\ readUp = <<>> /\ ok = <<>> /\ report = <<>> /\ stored = <<>>

Init ==
    \/ /\ which = "watcher" /\ Watcher!Init
       /\ session = <<>> /\ requests = <<>> /\ result = <<>> /\ trace = <<>> /\ thread = <<>> /\ buffers = <<>>
       /\ late = <<>> /\ runtime = <<>> /\ op = <<>> /\ wslUnused /\ rundownUnused /\ gcUnused /\ diagnosticsUnused
       /\ handleUnused /\ httpUnused
    \/ /\ which = "wsl" /\ Wsl!Init
       /\ m_State = <<>> /\ starts = <<>> /\ result = <<>> /\ trace = <<>> /\ thread = <<>> /\ buffers = <<>>
       /\ late = <<>> /\ runtime = <<>> /\ op = <<>> /\ watcherUnused /\ rundownUnused /\ gcUnused
       /\ diagnosticsUnused /\ handleUnused /\ httpUnused
    \/ /\ which = "rundown" /\ Rundown!Init
       /\ client = <<>> /\ inStart = <<>> /\ m_State = <<>> /\ starts = <<>> /\ requests = <<>> /\ runtime = <<>>
       /\ op = <<>> /\ watcherUnused /\ wslUnused /\ gcUnused /\ diagnosticsUnused /\ handleUnused /\ httpUnused
    \/ /\ which = "rundowns" /\ Rundowns!Init
       /\ client = <<>> /\ inStart = <<>> /\ m_State = <<>> /\ starts = <<>> /\ requests = <<>> /\ runtime = <<>>
       /\ op = <<>> /\ watcherUnused /\ wslUnused /\ gcUnused /\ diagnosticsUnused /\ handleUnused /\ httpUnused
    \/ /\ which = "gc" /\ Gc!Init
       /\ client = <<>> /\ inStart = <<>> /\ requests = <<>> /\ result = <<>> /\ op = <<>> /\ watcherUnused
       /\ wslUnused /\ rundownUnused /\ diagnosticsUnused /\ handleUnused /\ httpUnused
    \/ /\ which = "diagnostics" /\ Diagnostics!Init
       /\ inStart = <<>> /\ m_State = <<>> /\ starts = <<>> /\ session = <<>> /\ requests = <<>> /\ trace = <<>>
       /\ thread = <<>> /\ buffers = <<>> /\ late = <<>> /\ op = <<>> /\ watcherUnused /\ wslUnused
       /\ rundownUnused /\ gcUnused /\ handleUnused /\ httpUnused
    \/ /\ which = "handles" /\ Handle!Init
       /\ client = <<>> /\ inStart = <<>> /\ m_State = <<>> /\ starts = <<>> /\ session = <<>> /\ requests = <<>>
       /\ result = <<>> /\ trace = <<>> /\ thread = <<>> /\ buffers = <<>> /\ late = <<>> /\ runtime = <<>>
       /\ watcherUnused /\ wslUnused /\ rundownUnused /\ gcUnused /\ diagnosticsUnused /\ httpUnused
    \/ /\ which = "reused" /\ Reused!Init
       /\ client = <<>> /\ inStart = <<>> /\ m_State = <<>> /\ starts = <<>> /\ session = <<>> /\ requests = <<>>
       /\ result = <<>> /\ trace = <<>> /\ thread = <<>> /\ buffers = <<>> /\ late = <<>> /\ runtime = <<>>
       /\ watcherUnused /\ wslUnused /\ rundownUnused /\ gcUnused /\ diagnosticsUnused /\ httpUnused
    \/ /\ which = "http" /\ Request!Init
       /\ client = <<>> /\ inStart = <<>> /\ m_State = <<>> /\ starts = <<>> /\ session = <<>> /\ result = <<>>
       /\ trace = <<>> /\ thread = <<>> /\ buffers = <<>> /\ late = <<>> /\ runtime = <<>> /\ watcherUnused
       /\ wslUnused /\ rundownUnused /\ gcUnused /\ diagnosticsUnused /\ handleUnused

Next ==
    /\ UNCHANGED which
    /\ \/ /\ which = "watcher" /\ Watcher!Next
          /\ UNCHANGED <<session, requests, result, trace, thread, buffers, late, runtime, op, wslOnly,
                         rundownOnly, gcOnly, diagnosticsOnly, handleOnly, httpOnly>>
       \/ /\ which = "wsl" /\ Wsl!Next
          /\ UNCHANGED <<m_State, starts, result, trace, thread, buffers, late, runtime, op, watcherOnly,
                         rundownOnly, gcOnly, diagnosticsOnly, handleOnly, httpOnly>>
       \/ /\ which = "rundown" /\ Rundown!Next
          /\ UNCHANGED <<client, inStart, m_State, starts, requests, runtime, op, watcherOnly, wslOnly, gcOnly,
                         diagnosticsOnly, handleOnly, httpOnly>>
       \/ /\ which = "rundowns" /\ Rundowns!Next
          /\ UNCHANGED <<client, inStart, m_State, starts, requests, runtime, op, watcherOnly, wslOnly, gcOnly,
                         diagnosticsOnly, handleOnly, httpOnly>>
       \/ /\ which = "gc" /\ Gc!Next
          /\ UNCHANGED <<client, inStart, requests, result, op, watcherOnly, wslOnly, rundownOnly,
                         diagnosticsOnly, handleOnly, httpOnly>>
       \/ /\ which = "diagnostics" /\ Diagnostics!Next
          /\ UNCHANGED <<inStart, m_State, starts, session, requests, trace, thread, buffers, late, op,
                         watcherOnly, wslOnly, rundownOnly, gcOnly, handleOnly, httpOnly>>
       \/ /\ which = "handles" /\ Handle!Next
          /\ UNCHANGED <<client, inStart, m_State, starts, session, requests, result, trace, thread, buffers,
                         late, runtime, watcherOnly, wslOnly, rundownOnly, gcOnly, diagnosticsOnly, httpOnly>>
       \/ /\ which = "reused" /\ Reused!Next
          /\ UNCHANGED <<client, inStart, m_State, starts, session, requests, result, trace, thread, buffers,
                         late, runtime, watcherOnly, wslOnly, rundownOnly, gcOnly, diagnosticsOnly, httpOnly>>
       \/ /\ which = "http" /\ Request!Next
          /\ UNCHANGED <<client, inStart, m_State, starts, session, result, trace, thread, buffers, late, runtime,
                         watcherOnly, wslOnly, rundownOnly, gcOnly, diagnosticsOnly, handleOnly>>

\* what each module's fairness says, of the one that runs
Callers ==
    \/ which = "watcher" /\ Watcher!Client
    \/ which = "wsl" /\ Wsl!Client
    \/ which = "rundown" /\ Rundown!Query
    \/ which = "rundowns" /\ Rundowns!Query
    \/ which = "gc" /\ Gc!Client
    \/ which = "diagnostics" /\ Diagnostics!Client
    \/ which = "handles" /\ Handle!Caller
    \/ which = "reused" /\ Reused!Caller
    \/ which = "http" /\ Request!Client
Threads ==
    \/ which = "wsl" /\ Wsl!Read
    \/ which = "rundown" /\ Rundown!Thread
    \/ which = "rundowns" /\ Rundowns!Thread
    \/ which = "gc" /\ Gc!Thread
    \/ which = "diagnostics" /\ Diagnostics!Tick
    \/ which = "handles" /\ \E w \in workers : Handle!FileQuery(w)
    \/ which = "reused" /\ \E w \in workers : Reused!FileQuery(w)
    \/ which = "http" /\ (Request!Arrive \/ Request!Break)
Transfers == which = "diagnostics" /\ Diagnostics!Transferred
CallbackOf(c) == which = "watcher" /\ Watcher!Callback(c)
Fairness ==
    /\ WF_vars(Next /\ Callers) /\ WF_vars(Next /\ Threads) /\ WF_vars(Next /\ Transfers)
    /\ \A i \in DOMAIN Channels : WF_vars(Next /\ CallbackOf(Channels[i]))
Spec == Init /\ [][Next]_vars /\ Fairness

-----------------------------------------------------------------------------
Is(monitor, P) == which = monitor => P

(* The handles, threads and states that a call's step leaves belong          *)
(* together: each module's type invariant.                                   *)
TypeOK ==
    /\ Is("watcher", Watcher!TypeOK) /\ Is("wsl", Wsl!TypeOK)
    /\ Is("rundown", Rundown!TypeOK) /\ Is("rundowns", Rundowns!TypeOK) /\ Is("gc", Gc!TypeOK)
    /\ Is("diagnostics", Diagnostics!TypeOK)
    /\ Is("handles", Handle!TypeOK) /\ Is("reused", Reused!TypeOK)
    /\ Is("http", Request!TypeOK)

(* Nothing uses what a call has taken back: no callback of a stopped watcher *)
(* runs, no thread of a stopped Linux session, query or monitor is left, and *)
(* no transfer refers to a buffer of a query that has ended; callbacks of    *)
(* several channels that need the same publisher open it once.               *)
NothingIsLate ==
    /\ Is("watcher", Watcher!CallbacksHaveState /\ Watcher!PublishersOpenedOnce)
    /\ Is("wsl", Wsl!StoppedIsQuiet)
    /\ Is("rundown", Rundown!NothingIsLate) /\ Is("rundowns", Rundowns!NothingIsLate)
    /\ Is("gc", Gc!StateOutlivesThread)
    /\ Is("diagnostics", Diagnostics!InCall \/ ~pending)

(* The pauses and collections counted are those the runtime made, though     *)
(* events are lost (DotNetGc).                                               *)
PausesAreTrue == Is("gc", Gc!PausesAreTrue)

(* A result is all that was asked for, or none: a frame of the helper that   *)
(* runs, in whatever pieces it was read; details that say they are complete  *)
(* have everything of every runtime; a runtime's answer, an object's         *)
(* details, a downloaded file and an upload are whole.                       *)
ResultsAreWhole ==
    /\ Is("wsl", Wsl!FramesAreWhole)
    /\ Is("rundown", Rundown!CompleteHasAll) /\ Is("rundowns", Rundowns!CompleteHasAll)
    /\ Is("diagnostics", Diagnostics!InfoIsRuntimes)
    /\ Is("handles", Handle!DetailsAreWhole) /\ Is("reused", Reused!DetailsAreWhole)
    /\ Is("http", Request!DownloadIsWhole /\ Request!UploadedIsStored)

InCall ==
    \/ which = "watcher" /\ Watcher!InCall
    \/ which = "wsl" /\ Wsl!InCall
    \/ which = "rundown" /\ Rundown!InCall
    \/ which = "rundowns" /\ Rundowns!InCall
    \/ which = "gc" /\ Gc!InCall
    \/ which = "diagnostics" /\ Diagnostics!InCall
    \/ which = "handles" /\ Handle!InCall
    \/ which = "reused" /\ Reused!InCall /\ op # "name"
    \/ which = "http" /\ Request!InCall
Printed(n) == which = "wsl" /\ Wsl!Whole(n)
Arrived(n) == which = "wsl" => Wsl!TakenOrStopped(n)
(* A call returns, whatever the process, the service or the server it waits  *)
(* for does; of the names of handles, whose values may come to refer to      *)
(* another type of object, that is not so.  A frame that the helper has      *)
(* printed for a running monitor is there for the client in the end          *)
(* (WslProcessMonitor).                                                      *)
CallsReturn == (InCall ~> ~InCall) /\ (Printed(1) ~> Arrived(1)) /\ (Printed(2) ~> Arrived(2))

-----------------------------------------------------------------------------
(* The values for model checking.                                            *)

MCChannels == <<"System", "Security">>
MCRuntimes == <<1, 2>>
\* two files, two processes, and another object
HandleTypes == <<"File", "File", "Process", "Process", "Event">>

=============================================================================
