------------------------------ MODULE Processes ------------------------------
(***************************************************************************)
(* Process (Processes.cpp): what acts on a process that goes its own way   *)
(* meanwhile.  Restart reads what a new one needs, ends the process, waits *)
(* for it and creates the new one; InjectDll runs LoadLibraryW in it, with *)
(* the path in a buffer there; a process is opened by its ID and the time  *)
(* it was created.                                                         *)
(*                                                                         *)
(* A directory and an environment are versions, 0 when there is none to    *)
(* read; the process's ID goes to another process when it is gone.         *)
(***************************************************************************)
EXTENDS Naturals

CONSTANTS
    MaxVersions,    \* of a directory, of an environment
    MaxCalls        \* bounds

VARIABLES
    life,       \* of the process: "runs", "ends" (its threads are), "gone"
    own,        \* its directory and environment, and the versions it has had
    owner,      \* of its ID: "process", "other"
    opened,     \* which of them the call has a handle of
    wow64,      \* whether it is a 32-bit one
    buffer, thread, loaded,     \* InjectDll's in it: a thread "none", "runs", "ended"
    code,       \* what a thread's exit code is: "none", "module", "zero" (the module's low half), "status" (the process's)
    turn,       \* of the call: "rest", "image", "command", ...
    read,       \* what it has read
    result,     \* the last call's
    ended,      \* history: the call ended the process; waited as long as it may
    waited,
    created,    \* the processes started, with what they were given
    calls

procVars == <<life, own, owner, opened, wow64, buffer, thread, loaded, code, turn, read, result, ended, waited, created, calls>>
theirs == <<life, own, owner, wow64>>
injected == <<opened, buffer, thread, loaded, code>>
Nothing == [image |-> FALSE, command |-> "none", directory |-> 0, environment |-> 0]

-----------------------------------------------------------------------------
\* OpenById with a create time: the ID may be another process's now
OpenById == owner = "process" /\ life # "gone"

\* the caller has a handle
Restart ==
    /\ turn = "rest" /\ calls < MaxCalls
    /\ calls' = calls + 1
    /\ turn' = "image"
    /\ read' = Nothing /\ ended' = FALSE /\ waited' = FALSE /\ result' = "none"
    /\ UNCHANGED <<theirs, injected, created>>

\* GetFullImageName: nothing of a process that has ended
ReadImage ==
    /\ turn = "image"
    /\ \E image \in {life = "runs", FALSE} :
        /\ read' = [read EXCEPT !.image = image]
        /\ IF image THEN turn' = "command" /\ UNCHANGED result ELSE turn' = "rest" /\ result' = "failed"
    /\ UNCHANGED <<theirs, injected, ended, waited, created, calls>>
\* its own, or its image's path
ReadCommand ==
    /\ turn = "command"
    /\ turn' = "directory"
    /\ read' = [read EXCEPT !.command = IF life = "runs" THEN "own" ELSE "image"]
    /\ UNCHANGED <<theirs, injected, result, ended, waited, created, calls>>
\* GetCurrentDirectory: one that is there
GetCurrentDirectory ==
    /\ turn = "directory"
    /\ turn' = "environment"
    /\ \E directory \in (IF life = "runs" THEN {own.directory} ELSE {}) \cup {0} : read' = [read EXCEPT !.directory = directory]
    /\ UNCHANGED <<theirs, injected, result, ended, waited, created, calls>>
GetEnvironment ==
    /\ turn = "environment"
    /\ turn' = "end"
    /\ read' = [read EXCEPT !.environment = IF life = "runs" THEN own.environment ELSE 0]
    /\ UNCHANGED <<theirs, injected, result, ended, waited, created, calls>>
\* NtTerminateProcess: not of one that ended, or that the caller may not end
TerminateOf(denied) == life = "runs" /\ ~denied
Terminate ==
    /\ turn = "end"
    /\ \E denied \in BOOLEAN :
        IF TerminateOf(denied)
        THEN /\ turn' = "wait"
             /\ life' = IF life = "runs" /\ ~denied THEN "ends" ELSE life
             /\ ended' = (life = "runs" /\ ~denied)
             /\ IF thread = "runs" THEN thread' = "ended" /\ code' = "status" ELSE UNCHANGED <<thread, code>>
             /\ UNCHANGED result
        ELSE turn' = "rest" /\ result' = "failed" /\ UNCHANGED <<life, ended, thread, code>>
    /\ UNCHANGED <<own, owner, opened, wow64, buffer, loaded, read, waited, created, calls>>
\* of 5 seconds
WaitEnds == life = "gone"
Wait ==
    /\ turn = "wait"
    /\ turn' = "create"
    /\ \/ WaitEnds /\ UNCHANGED waited
       \/ waited' = TRUE
    /\ UNCHANGED <<theirs, injected, read, result, ended, created, calls>>
Create ==
    /\ turn = "create"
    /\ turn' = "rest"
    /\ \/ /\ result' = "restarted"
          /\ created' = created \cup {[directory |-> read.directory, environment |-> read.environment,
                                       after |-> ended, together |-> life # "gone" /\ ~waited]}
       \/ result' = "failed" /\ UNCHANGED created
    /\ UNCHANGED <<theirs, injected, read, ended, waited, calls>>

-----------------------------------------------------------------------------
InjectDll ==
    /\ turn = "rest" /\ calls < MaxCalls /\ buffer # "left"
    /\ calls' = calls + 1
    /\ \/ result' = "file_not_found" /\ UNCHANGED <<turn, injected>>
       \/ ~OpenById /\ result' = "open_failed" /\ UNCHANGED <<turn, injected>>
       \/ OpenById /\ wow64 /\ result' = "wow64" /\ UNCHANGED <<turn, injected>>
       \/ /\ OpenById /\ ~wow64
          /\ turn' = "allocate" /\ result' = "none"
          /\ opened' = owner
          /\ thread' = "none" /\ code' = "none" /\ loaded' = FALSE /\ UNCHANGED buffer
    /\ read' = Nothing /\ ended' = FALSE /\ waited' = FALSE
    /\ UNCHANGED <<theirs, created>>
Allocate ==
    /\ turn = "allocate"
    /\ IF life = "runs" THEN turn' = "write" /\ buffer' = "used" /\ UNCHANGED result
       ELSE turn' = "rest" /\ result' = "allocation_failed" /\ UNCHANGED buffer
    /\ UNCHANGED <<theirs, opened, thread, loaded, code, read, ended, waited, created, calls>>
Write ==
    /\ turn = "write"
    /\ IF life = "runs" THEN turn' = "thread" /\ UNCHANGED result ELSE turn' = "free" /\ result' = "write_failed"
    /\ UNCHANGED <<theirs, injected, read, ended, waited, created, calls>>
CreateThread ==
    /\ turn = "thread"
    /\ \/ life = "runs" /\ turn' = "wait_for_it" /\ thread' = "runs" /\ UNCHANGED result
       \* refused, too
       \/ turn' = "free" /\ result' = "thread_failed" /\ UNCHANGED thread
    /\ UNCHANGED <<theirs, opened, buffer, loaded, code, read, ended, waited, created, calls>>
\* for the mutants: the buffer is freed then, too
AfterTimeout_Free == [turn |-> "free", buffer |-> "used"]
\* the thread may still read it
AfterTimeout == [turn |-> "rest", buffer |-> "left"]
WaitForThread ==
    /\ turn = "wait_for_it"
    /\ \/ /\ thread = "ended"
          /\ turn' = "free" /\ result' = (IF code = "zero" THEN "load_failed" ELSE "success")
          /\ UNCHANGED buffer
       \/ /\ thread = "runs"
          /\ turn' = AfterTimeout.turn /\ buffer' = AfterTimeout.buffer /\ result' = "timeout"
    /\ UNCHANGED <<theirs, opened, thread, loaded, code, read, ended, waited, created, calls>>
Free ==
    /\ turn = "free"
    /\ turn' = "rest" /\ buffer' = "none"
    /\ UNCHANGED <<theirs, opened, thread, loaded, code, read, result, ended, waited, created, calls>>

-----------------------------------------------------------------------------
\* LoadLibraryW returns
ThreadEnds ==
    /\ thread = "runs"
    /\ thread' = "ended"
    /\ \/ loaded' = TRUE /\ code' = "module"
       \/ UNCHANGED loaded /\ code' = "zero"
    /\ UNCHANGED <<theirs, opened, buffer, turn, read, result, ended, waited, created, calls>>
\* the process ends by itself, its threads with its own status
Exit ==
    /\ life = "runs"
    /\ life' = "ends"
    /\ IF thread = "runs" THEN thread' = "ended" /\ code' \in {"status", "zero"} ELSE UNCHANGED <<thread, code>>
    /\ UNCHANGED <<own, owner, opened, wow64, buffer, loaded, turn, read, result, ended, waited, created, calls>>
\* what it kept goes with it; its ID may be another's from then on
Gone ==
    /\ life = "ends"
    /\ life' = "gone" /\ owner' \in {"process", "other"}
    /\ buffer' = "none"
    /\ UNCHANGED <<own, opened, wow64, thread, loaded, code, turn, read, result, ended, waited, created, calls>>
Changes ==
    /\ life = "runs" /\ turn # "rest"
    /\ \/ own.directory < MaxVersions /\ own' = [own EXCEPT !.directory = @ + 1]
       \/ own.environment < MaxVersions /\ own' = [own EXCEPT !.environment = @ + 1]
    /\ UNCHANGED <<life, owner, wow64, injected, turn, read, result, ended, waited, created, calls>>

Init ==
    /\ life = "runs" /\ own = [directory |-> 1, environment |-> 1] /\ owner = "process" /\ opened = "process" /\ wow64 \in BOOLEAN
    /\ buffer = "none" /\ thread = "none" /\ loaded = FALSE /\ code = "none"
    /\ turn = "rest" /\ read = Nothing /\ result = "none" /\ ended = FALSE /\ waited = FALSE /\ created = {} /\ calls = 0

Next ==
    \/ Restart \/ ReadImage \/ ReadCommand \/ GetCurrentDirectory \/ GetEnvironment \/ Terminate \/ Wait \/ Create
    \/ InjectDll \/ Allocate \/ Write \/ CreateThread \/ WaitForThread \/ Free
    \/ ThreadEnds \/ Exit \/ Gone \/ Changes

Spec == Init /\ [][Next]_procVars

TypeOK ==
    /\ buffer \in {"none", "used", "left"} /\ thread \in {"none", "runs", "ended"}
    /\ opened \in {"process", "other"} /\ turn \in {"wait", "create"} => read.image

(* A process is started again only after Restart ended it (a process that    *)
(* ended by itself stays so), and beside the old one only when that has not  *)
(* gone within the time there is to wait; what it is given was the old one's.*)
RestartedOnce ==
    \A p \in created :
        /\ p.after /\ ~p.together
        /\ p.directory <= own.directory /\ p.environment <= own.environment

(* The path is in the process's memory as long as the thread that reads it   *)
(* runs, and no longer than the call unless the thread outlasts it; another  *)
(* process of the same ID is not touched.                                    *)
BufferOutlivesThread ==
    /\ thread = "runs" /\ life # "gone" => buffer # "none"
    /\ turn = "rest" /\ buffer # "none" => result = "timeout" \/ buffer = "left"
    /\ turn \in {"allocate", "write", "thread", "wait_for_it", "free"} => opened = "process"

(* A success is a module that LoadLibraryW returned.                         *)
SuccessIsLoaded == result = "success" => loaded
=============================================================================
