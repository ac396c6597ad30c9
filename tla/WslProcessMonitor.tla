-------------------------- MODULE WslProcessMonitor --------------------------
(***************************************************************************)
(* The processes of a Linux distribution (WinSys Wsl.cpp,                  *)
(* WslProcessMonitor): a helper in the distribution prints a frame for     *)
(* every line it reads, the monitor's thread reads what it prints, and the *)
(* client takes the last frame.                                            *)
(*                                                                         *)
(* A helper is numbered by its Start.  Its output is a sequence of marks   *)
(* [mark, helper, frame]: "K" and "R" around the constants, "F" and "E"    *)
(* around a frame, whose lines are WslProtocol's.  The pipe gives them out *)
(* in pieces of any size.                                                  *)
(*                                                                         *)
(* Three seconds are enough for a thread that is not blocked, though not   *)
(* for the helper's exit.                                                  *)
(***************************************************************************)
EXTENDS Naturals, Sequences, SequencesExt

CONSTANTS
    PipeSize,   \* requests the helper's input holds
    Blocking,   \* whether a full input is written to
    MaxStarts, MaxRequests  \* bounds

VARIABLES
    client,     \* "rest", "write", "exit", "join", "cancel", "clear", "launch"
    inStart,
    session,    \* Starts so far: the helper's number
    m_Process,  \* "none", "runs", "exited"
    m_Input,    \* open
    m_Thread,   \* "none", "read", "parse", "ended"
    m_System, m_Frame,
    input,      \* requests not read yet
    output,     \* printed and not read yet
    held,       \* the output's other end stays open with another process when the helper is gone
    helper,     \* "off", "start", "constants", "wait", "frame"
    printed,    \* frames printed
    buffer, system, \* of Read
    requests    \* counted for the bound

clientVars == <<client, inStart, session, requests>>
monitorVars == <<m_Process, m_Input, m_Thread, m_System, m_Frame, buffer, system>>
helperVars == <<input, output, held, helper, printed>>
wslVars == <<clientVars, monitorVars, helperVars>>

None == 0

-----------------------------------------------------------------------------
(* The helper, Script.                                                       *)

Say(mark) == output' = Append(output, [mark |-> mark, helper |-> session, frame |-> printed'])

PrintK ==
    /\ helper = "start" /\ helper' = "constants"
    /\ printed' = printed /\ Say("K")
    /\ UNCHANGED <<clientVars, monitorVars, input, held>>
PrintR ==
    /\ helper = "constants" /\ helper' = "wait"
    /\ printed' = printed /\ Say("R")
    /\ UNCHANGED <<clientVars, monitorVars, input, held>>
\* a line read, and a frame begun
PrintF ==
    /\ helper = "wait" /\ input > 0
    /\ input' = input - 1
    /\ printed' = printed + 1 /\ Say("F")
    /\ helper' = "frame"
    /\ UNCHANGED <<clientVars, monitorVars, held>>
PrintE ==
    /\ helper = "frame" /\ helper' = "wait"
    /\ printed' = printed /\ Say("E")
    /\ UNCHANGED <<clientVars, monitorVars, input, held>>

\* the end of its input, or of the distribution
HelperEnds ==
    /\ helper # "off"
    /\ helper' = "off" /\ m_Process' = "exited"
    /\ held' \in BOOLEAN
    /\ UNCHANGED <<clientVars, m_Input, m_Thread, m_System, m_Frame, buffer, system, input, output, printed>>
HelperReadsEnd == helper = "wait" /\ input = 0 /\ ~m_Input /\ HelperEnds
HeldIsClosed ==
    /\ held /\ held' = FALSE
    /\ UNCHANGED <<clientVars, monitorVars, input, output, helper, printed>>

-----------------------------------------------------------------------------
(* The monitor's thread, Read.                                               *)

NoFrame == [frame |-> None, helper |-> None, whole |-> FALSE]
Appended(chunk) == buffer \o chunk

ReadChunk ==
    /\ m_Thread = "read" /\ output # <<>>
    /\ \E n \in 1 .. Len(output) :
         /\ buffer' = Appended(SubSeq(output, 1, n))
         /\ output' = SubSeq(output, n + 1, Len(output))
    /\ m_Thread' = "parse"
    /\ UNCHANGED <<clientVars, m_Process, m_Input, m_System, m_Frame, system, input, held, helper, printed>>

OutputEnds ==
    /\ m_Thread = "read" /\ output = <<>> /\ helper = "off" /\ ~held
    /\ m_Thread' = "ended"
    /\ UNCHANGED <<clientVars, m_Process, m_Input, m_System, m_Frame, buffer, system, helperVars>>

\* the first mark in the buffer, and what is before it and after
End(mark) == SelectInSeq(buffer, LAMBDA x : x.mark = mark)
Text(mark) == SubSeq(buffer, 1, End(mark))
Rest(mark) == SubSeq(buffer, End(mark) + 1, Len(buffer))
Marked(text, mark) == \E i \in DOMAIN text : text[i].mark = mark

\* the constants, published if they can be parsed
TakeHeader ==
    /\ m_Thread = "parse" /\ system = None /\ End("R") # 0
    /\ IF Marked(Text("R"), "K")
       THEN system' = Text("R")[1].helper /\ m_System' = system'
       ELSE UNCHANGED <<system, m_System>>
    /\ buffer' = Rest("R")
    /\ UNCHANGED <<clientVars, m_Process, m_Input, m_Thread, m_Frame, helperVars>>

\* a frame, published if ParseFrame takes it
TakeRead ==
    /\ m_Thread = "parse" /\ system # None /\ End("E") # 0
    /\ m_Frame' = IF Marked(Text("E"), "F")
                  THEN [frame |-> Text("E")[End("E")].frame, helper |-> Text("E")[End("E")].helper,
                        whole |-> \A t \in ToSet(Text("E")) : t.frame = Text("E")[End("E")].frame]
                  ELSE m_Frame
    /\ buffer' = Rest("E")
    /\ UNCHANGED <<clientVars, m_Process, m_Input, m_Thread, m_System, system, helperVars>>

\* no more of them in the buffer
ReadOn ==
    /\ m_Thread = "parse" /\ End(IF system = None THEN "R" ELSE "E") = 0
    /\ m_Thread' = "read"
    /\ UNCHANGED <<clientVars, m_Process, m_Input, m_System, m_Frame, buffer, system, helperVars>>

Read == ReadChunk \/ OutputEnds \/ TakeHeader \/ TakeRead \/ ReadOn

-----------------------------------------------------------------------------
(* The client.                                                               *)

\* Request: a line, with threads or without; an input whose other end is gone is closed
Request ==
    /\ client = "rest" /\ m_Input /\ requests < MaxRequests
    /\ Blocking \/ input < PipeSize
    /\ client' = "write" /\ requests' = requests + 1
    /\ UNCHANGED <<inStart, session, monitorVars, helperVars>>
Written ==
    /\ client = "write"
    /\ \/ /\ helper # "off" /\ input < PipeSize
          /\ input' = input + 1
          /\ UNCHANGED m_Input
       \/ helper = "off" /\ m_Input' = FALSE /\ UNCHANGED input
    /\ client' = "rest"
    /\ UNCHANGED <<inStart, session, requests, m_Process, m_Thread, m_System, m_Frame, buffer, system, output, held, helper, printed>>

TakeFrame ==
    /\ client = "rest" /\ m_Frame # NoFrame
    /\ m_Frame' = NoFrame
    /\ UNCHANGED <<clientVars, m_Process, m_Input, m_Thread, m_System, buffer, system, helperVars>>

\* Stop, by itself or first in Start
BeginStop(start) ==
    /\ client = "rest"
    /\ start => session < MaxStarts
    /\ inStart' = start
    /\ m_Input' = FALSE
    /\ client' = IF m_Process = "none" THEN "join" ELSE "exit"
    /\ UNCHANGED <<session, requests, m_Process, m_Thread, m_System, m_Frame, buffer, system, helperVars>>
\* the helper exited, or is made to
WaitExit ==
    /\ client = "exit"
    /\ client' = "join"
    /\ IF helper = "off" THEN UNCHANGED <<m_Process, helperVars>>
       ELSE /\ helper' = "off" /\ m_Process' = "exited" /\ held' \in BOOLEAN
                    /\ UNCHANGED <<input, output, printed>>
    /\ UNCHANGED <<inStart, session, requests, m_Input, m_Thread, m_System, m_Frame, buffer, system>>
JoinThread ==
    /\ client \in {"join", "cancel"} /\ m_Thread \in {"none", "ended"}
    /\ client' = "clear"
    /\ UNCHANGED <<inStart, session, requests, monitorVars, helperVars>>
\* the wait timed out with the thread in a read: cancelled
CancelRead == m_Thread' = "ended" /\ client' = "cancel"
JoinTimesOut ==
    /\ client = "join" /\ m_Thread = "read" /\ output = <<>> /\ held
    /\ CancelRead
    /\ UNCHANGED <<inStart, session, requests, m_Process, m_Input, m_System, m_Frame, buffer, system, helperVars>>
\* under the lock; what the pipes held is gone with them
Clear ==
    /\ client = "clear"
    /\ m_System' = None /\ m_Frame' = NoFrame
    /\ m_Process' = "none" /\ m_Thread' = IF m_Thread = "ended" THEN "none" ELSE m_Thread
    /\ input' = 0 /\ output' = <<>> /\ held' = FALSE
    /\ client' = IF inStart THEN "launch" ELSE "rest"
    /\ UNCHANGED <<inStart, session, requests, m_Input, buffer, system, helper, printed>>
\* the helper and the thread, or neither: wsl.exe does not start
Launch ==
    /\ client = "launch"
    /\ client' = "rest"
    /\ \/ /\ session' = session + 1
          /\ m_Process' = "runs" /\ m_Input' = TRUE /\ helper' = "start"
          /\ m_Thread' = "read" /\ buffer' = <<>> /\ system' = None
       \/ UNCHANGED <<session, m_Process, m_Input, helper, m_Thread, buffer, system>>
    /\ UNCHANGED <<inStart, requests, m_System, m_Frame, input, output, held, printed>>
\* the helper runs and there is no thread for it: Start stops again and fails
LaunchThreadFails ==
    /\ client = "launch"
    /\ session' = session + 1
    /\ m_Process' = "runs" /\ helper' = "start"
    /\ m_Input' = FALSE /\ inStart' = FALSE
    /\ client' = "exit"
    /\ UNCHANGED <<requests, m_Thread, m_System, m_Frame, buffer, system, input, output, held, printed>>

Client == Written \/ WaitExit \/ JoinThread \/ JoinTimesOut \/ Clear \/ Launch \/ LaunchThreadFails

-----------------------------------------------------------------------------
Init ==
    /\ client = "rest" /\ inStart = FALSE /\ session = 0 /\ requests = 0
    /\ m_Process = "none" /\ m_Input = FALSE /\ m_Thread = "none" /\ m_System = None /\ m_Frame = NoFrame
    /\ buffer = <<>> /\ system = None
    /\ input = 0 /\ output = <<>> /\ held = FALSE /\ helper = "off" /\ printed = 0

Helper == PrintK \/ PrintR \/ PrintF \/ PrintE \/ HelperReadsEnd

Next ==
    \/ Helper \/ HelperEnds \/ HeldIsClosed
    \/ Read
    \/ Client
    \/ Request \/ TakeFrame
    \/ \E start \in BOOLEAN : BeginStop(start)

\* the thread reads and the client's calls go on; of the helper nothing is assumed
Fairness == WF_wslVars(Read) /\ WF_wslVars(Client)
Spec == Init /\ [][Next]_wslVars /\ Fairness

TypeOK ==
    /\ client \in {"rest", "write", "exit", "join", "cancel", "clear", "launch"}
    /\ (helper = "off") = (m_Process # "runs")
    /\ m_System \in 0 .. session /\ m_Frame.helper \in 0 .. session
    /\ input \in 0 .. PipeSize

(* A frame is of the helper that runs, whole, and the last it printed of     *)
(* those that arrived; the constants are there before it.                    *)
FramesAreWhole ==
    m_Frame # NoFrame =>
        /\ m_Frame.whole /\ m_Frame.helper = session
        /\ m_System = session
        /\ m_Frame.frame <= printed

(* Once Stop has returned no thread of it is left and nothing of its helper, *)
(* neither now nor when the next one has started.                            *)
StoppedIsQuiet ==
    /\ client \in {"rest", "launch"} /\ m_Process = "none" => m_Thread = "none" /\ m_System = None /\ m_Frame = NoFrame
    /\ client \notin {"exit", "join", "cancel", "clear"} => \A t \in ToSet(buffer) : m_Thread # "none" => t.helper = session

(* "a slow distribution delays the rows by a refresh and never blocks the    *)
(* caller" (Wsl.h:103): Request does not wait for the helper.                *)
RequestNeverBlocks == ~(client = "write" /\ helper # "off" /\ input = PipeSize)

(* Stop returns though the helper hangs or its output is held open, and a    *)
(* whole frame printed for a running monitor is there for the client.        *)
InCall == client # "rest"
StopReturns == InCall ~> ~InCall
Whole(n) == \E t \in ToSet(output \o buffer) : t.mark = "E" /\ t.frame = n
TakenOrStopped(n) == m_Frame.frame >= n \/ client \notin {"rest", "write"}
PrintedArrives == \A n \in 1 .. MaxRequests : Whole(n) ~> TakenOrStopped(n)

=============================================================================
