------------------------------- MODULE FileIo -------------------------------
(***************************************************************************)
(* The file I/O tracker (WinSys FileIo.cpp: FileIoTracker): reads and      *)
(* writes counted per process and file key, the keys named from the        *)
(* trace's events or, by a resolver thread, from a handle to a file object.*)
(*                                                                         *)
(* Files are opened by file objects; a file has a key while it is open,    *)
(* which another file may get after it: the files a key stands for in turn *)
(* are numbered.  NameCreate tells a key's new file, Create what a file    *)
(* object opens.  An event is in the buffer of the processor it happened   *)
(* on, and the buffers are delivered in any interleaving.                  *)
(***************************************************************************)
EXTENDS Naturals, Sequences, Functions

CONSTANTS
    FilePids, Keys, FileObjects, Processors,
    MaxAttempts,  \* the passes that look for a key
    FileIdle, NameIdle,
    ReusedObjects,\* whether a file object is used again once it is closed
    MaxFiles,     \* bound: the files a key stands for in turn
    MaxIo,        \* bound: reads and writes
    MaxTick       \* bound: the clock

VARIABLES
    m_Files,      \* <<pid, key>> -> [count, tick]
    m_Names,      \* key -> [text, tick]
    m_ObjectNames,\* file object -> [text, tick]
    m_Pending,    \* key without a name -> the file object last used
    m_Attempts,   \* key -> the passes that did not find its name
    running,      \* the session runs
    rpc, taken, found, ptick,  \* the resolver: its step, what it took, the names it found, its clock
    open,         \* file object -> the key it opened, NoKey before, Closed after
    current,      \* key -> the file it stands for now
    trace,        \* processor -> its events not delivered yet
    told,         \* history: key -> the file the NameCreate delivered last told of, while its name is kept
    io, tick

tableVars == <<m_Files, m_Names, m_ObjectNames, m_Pending, m_Attempts>>
resolverVars == <<rpc, taken, found, ptick>>
worldVars == <<open, current, trace, io, tick>>
fileVars == <<tableVars, running, resolverVars, worldVars, told>>

NoKey == "none"
Closed == "closed"
Empty == <<>>   \* the function with no arguments
IsOpen(o) == open[o] \in Keys
Text(key, file) == <<key, file>>    \* a file's name

Without(f, S) == Restrict(f, DOMAIN f \ S)
With(f, x, e) == [y \in DOMAIN f \cup {x} |-> IF y = x THEN e ELSE f[y]]
Merged(f, g) == [x \in DOMAIN f \cup DOMAIN g |-> IF x \in DOMAIN f THEN f[x] ELSE g[x]]    \* f's first
Log(events) == IF running THEN \E cpu \in Processors : trace' = [trace EXCEPT ![cpu] = @ \o events]
               ELSE UNCHANGED trace

-----------------------------------------------------------------------------
(* The system.                                                               *)

\* a file is opened: by the only file object of its key, it may be another file, whose name the key then gets
Open(o, key) ==
    /\ open[o] = NoKey \/ (ReusedObjects /\ open[o] = Closed)
    /\ open' = [open EXCEPT ![o] = key]
    /\ \/ /\ Log(<<[op |-> "Create", object |-> o, text |-> Text(key, current[key])]>>)
          /\ UNCHANGED current
       \/ /\ \A p \in FileObjects : open[p] # key
          /\ current[key] < MaxFiles
          /\ current' = [current EXCEPT ![key] = @ + 1]
          /\ Log(<<[op |-> "NameCreate", key |-> key, text |-> Text(key, current'[key])],
                   [op |-> "Create", object |-> o, text |-> Text(key, current'[key])]>>)
    /\ UNCHANGED <<tableVars, running, resolverVars, io, tick, told>>

Close(o) ==
    /\ IsOpen(o)
    /\ open' = [open EXCEPT ![o] = Closed]
    /\ UNCHANGED <<tableVars, running, resolverVars, current, trace, io, tick, told>>

ReadWrite(o, pid) ==
    /\ running /\ IsOpen(o) /\ io < MaxIo
    /\ io' = io + 1
    /\ Log(<<[op |-> "ReadWrite", object |-> o, key |-> open[o], pid |-> pid]>>)
    /\ UNCHANGED <<tableVars, running, resolverVars, open, current, tick, told>>

Tick ==
    /\ tick < MaxTick
    /\ tick' = tick + 1
    /\ UNCHANGED <<tableVars, running, resolverVars, open, current, trace, io, told>>

-----------------------------------------------------------------------------
(* The trace's thread.                                                       *)

NameCreate(e) ==
    /\ m_Names' = With(m_Names, e.key, [text |-> e.text, tick |-> tick])
    /\ m_Pending' = Without(m_Pending, {e.key})
    /\ told' = [told EXCEPT ![e.key] = e.text[2]]
    /\ UNCHANGED <<m_Files, m_ObjectNames, m_Attempts>>

Create(e) ==
    /\ m_ObjectNames' = With(m_ObjectNames, e.object, [text |-> e.text, tick |-> tick])
    /\ UNCHANGED <<m_Files, m_Names, m_Pending, m_Attempts, told>>

\* whether the resolver still looks for the key
Sought(key) == key \notin DOMAIN m_Attempts \/ m_Attempts[key] < MaxAttempts

\* counted; its key's name kept in use, got from the file object, or left to the resolver
OnReadWrite(e) ==
    LET id == <<e.pid, e.key>>
        count == IF id \in DOMAIN m_Files THEN m_Files[id].count ELSE 0
    IN /\ m_Files' = With(m_Files, id, [count |-> count + 1, tick |-> tick])
       /\ IF e.key \in DOMAIN m_Names
          THEN /\ m_Names' = [m_Names EXCEPT ![e.key].tick = tick]
               /\ UNCHANGED m_Pending
          ELSE IF e.object \in DOMAIN m_ObjectNames
          THEN /\ m_Names' = With(m_Names, e.key, [text |-> m_ObjectNames[e.object].text, tick |-> tick])
               /\ UNCHANGED m_Pending
          ELSE /\ m_Pending' = IF Sought(e.key) THEN With(m_Pending, e.key, e.object) ELSE m_Pending
               /\ UNCHANGED m_Names
       /\ UNCHANGED <<m_ObjectNames, m_Attempts, told>>

OnEvent(cpu) ==
    /\ running /\ trace[cpu] # <<>>
    /\ LET e == Head(trace[cpu]) IN
         CASE e.op = "NameCreate" -> NameCreate(e)
           [] e.op = "Create" -> Create(e)
           [] e.op = "ReadWrite" -> OnReadWrite(e)
    /\ trace' = [trace EXCEPT ![cpu] = Tail(@)]
    /\ UNCHANGED <<running, resolverVars, open, current, io, tick>>

-----------------------------------------------------------------------------
(* The resolver's thread.                                                    *)

\* Resolve: takes what is pending, under the lock
TakePending ==
    /\ running /\ rpc = "sleep"
    /\ taken' = m_Pending /\ m_Pending' = Empty
    /\ rpc' = IF m_Pending = Empty THEN "prune" ELSE "look"
    /\ UNCHANGED <<m_Files, m_Names, m_ObjectNames, m_Attempts, running, found, ptick, worldVars, told>>

\* Resolve: names file objects by a handle; a handle may not be duplicated, its name not be queried
LookUp ==
    /\ rpc = "look"
    /\ \E named \in SUBSET {key \in DOMAIN taken : IsOpen(taken[key])} :
         found' = [key \in named |-> Text(open[taken[key]], current[open[taken[key]]])]
    /\ rpc' = "apply"
    /\ UNCHANGED <<tableVars, running, taken, ptick, worldVars, told>>

\* Resolve: the handle table can't be read: what was taken is dropped
NoHandles ==
    /\ rpc = "look"
    /\ taken' = Empty
    /\ rpc' = "prune"
    /\ UNCHANGED <<tableVars, running, found, ptick, worldVars, told>>

\* the names the keys have, and those the resolver found for the others
FoundNames_Newer(names) == Merged(names, m_Names)     \* for the mutants: for every key it found one for
FoundNames(names) == Merged(m_Names, names)

\* Resolve: the names found, for the keys that got none meanwhile, and the passes of the others; under the lock
ApplyNames ==
    /\ rpc = "apply"
    /\ m_Names' = FoundNames([key \in DOMAIN found |-> [text |-> found[key], tick |-> tick]])
    /\ LET unnamed == DOMAIN taken \ DOMAIN found IN
         m_Attempts' = Merged([key \in unnamed |-> IF key \in DOMAIN m_Attempts THEN m_Attempts[key] + 1 ELSE 1], m_Attempts)
    /\ taken' = Empty /\ found' = Empty
    /\ rpc' = "prune"
    /\ UNCHANGED <<m_Files, m_ObjectNames, m_Pending, running, ptick, worldVars, told>>

\* Prune: the clock, before the lock
ReadClock ==
    /\ rpc = "prune"
    /\ ptick' = tick
    /\ rpc' = "erase"
    /\ UNCHANGED <<tableVars, running, taken, found, worldVars, told>>

\* Prune: unsigned differences, so a tick newer than the clock read is idle, too
Idle(t, limit) == ptick - t > limit \/ t > ptick
Fresh(f, limit) == Without(f, {x \in DOMAIN f : Idle(f[x].tick, limit)})

Prune ==
    /\ rpc = "erase"
    /\ m_Files' = Fresh(m_Files, FileIdle)
    /\ m_Names' = Fresh(m_Names, NameIdle)
    /\ m_ObjectNames' = Fresh(m_ObjectNames, NameIdle)
    /\ m_Attempts' = Restrict(m_Attempts, DOMAIN m_Attempts \cap {id[2] : id \in DOMAIN m_Files'})
    /\ rpc' = "sleep" /\ ptick' = 0
    /\ told' = [key \in Keys |-> IF key \in DOMAIN m_Names' THEN told[key] ELSE 0]
    /\ UNCHANGED <<m_Pending, running, taken, found, worldVars>>

-----------------------------------------------------------------------------
(* The client.                                                               *)

Start ==
    /\ ~running
    /\ running' = TRUE
    /\ UNCHANGED <<tableVars, resolverVars, worldVars, told>>

\* the session, the trace, both threads, which end between two events and two passes; then the tables
Stop ==
    /\ running /\ rpc = "sleep"
    /\ running' = FALSE
    /\ m_Files' = Empty /\ m_Names' = Empty /\ m_ObjectNames' = Empty
    /\ m_Pending' = Empty /\ m_Attempts' = Empty
    /\ trace' = [cpu \in Processors |-> <<>>]
    /\ told' = [key \in Keys |-> 0]
    /\ UNCHANGED <<resolverVars, open, current, io, tick>>

RemoveProcess(pid) ==
    /\ running
    /\ m_Files' = Without(m_Files, {id \in DOMAIN m_Files : id[1] = pid})
    /\ UNCHANGED <<m_Names, m_ObjectNames, m_Pending, m_Attempts, running, resolverVars, worldVars, told>>

-----------------------------------------------------------------------------
Init ==
    /\ m_Files = Empty /\ m_Names = Empty /\ m_ObjectNames = Empty
    /\ m_Pending = Empty /\ m_Attempts = Empty
    /\ running = FALSE
    /\ rpc = "sleep" /\ taken = Empty /\ found = Empty /\ ptick = 0
    /\ open = [o \in FileObjects |-> NoKey]
    /\ current = [key \in Keys |-> 1]
    /\ trace = [cpu \in Processors |-> <<>>]
    /\ told = [key \in Keys |-> 0]
    /\ io = 0 /\ tick = 0

Next ==
    \/ \E o \in FileObjects :
         \/ \E key \in Keys : Open(o, key)
         \/ Close(o)
         \/ \E pid \in FilePids : ReadWrite(o, pid)
    \/ Tick
    \/ \E cpu \in Processors : OnEvent(cpu)
    \/ TakePending
    \/ LookUp
    \/ NoHandles
    \/ ApplyNames
    \/ ReadClock
    \/ Prune
    \/ Start
    \/ Stop
    \/ \E pid \in FilePids : RemoveProcess(pid)

Spec == Init /\ [][Next]_fileVars

-----------------------------------------------------------------------------
(* The tables relate keys and file objects to names and counts; only a       *)
(* running tracker has any.                                                  *)
TypeOK ==
    /\ \A id \in DOMAIN m_Files : id \in FilePids \X Keys /\ m_Files[id].count \in 1 .. MaxIo
    /\ DOMAIN m_Names \subseteq Keys /\ DOMAIN m_Attempts \subseteq Keys
    /\ DOMAIN m_ObjectNames \subseteq FileObjects
    /\ \A key \in DOMAIN m_Pending : key \in Keys /\ m_Pending[key] \in FileObjects
    /\ DOMAIN found \subseteq DOMAIN taken
    /\ rpc \in {"sleep", "look", "apply", "prune", "erase"}
    /\ ~running => m_Files = Empty /\ m_Names = Empty /\ m_Attempts = Empty /\ rpc = "sleep"

(* A key's name is of a file the key stands for, and never of one before the *)
(* file its last NameCreate told of, though the resolver names keys from     *)
(* what it took and looked up earlier.                                       *)
NamesAreNotOlder ==
    \A key \in DOMAIN m_Names :
        /\ m_Names[key].text[1] = key
        /\ m_Names[key].text[2] \in told[key] .. current[key]

(* "how many passes a file key may stay unnamed before it isn't looked for   *)
(* again": MaxAttempts, and one more if it was used again during the last.   *)
LookedForAtMost == \A key \in DOMAIN m_Attempts : m_Attempts[key] <= MaxAttempts + 1

=============================================================================
