-------------------------- MODULE DotNetDiagnostics --------------------------
(***************************************************************************)
(* Asking a .NET Core runtime what it is, over its diagnostics pipe        *)
(* (WinSys DotNet.cpp, QueryCoreProcessInfo): ProcessInfo2, and of a       *)
(* runtime that does not know it, on a new connection, ProcessInfo; each   *)
(* an overlapped write and reads that are given up at one deadline.        *)
(*                                                                         *)
(* A transfer comes in parts: a message is its bytes' number, HeaderSize   *)
(* and of an answer PayloadSize more.  A client's time is the ticks that   *)
(* pass while it waits; its other steps take none.                         *)
(***************************************************************************)
EXTENDS Naturals

CONSTANTS
    HeaderSize, PayloadSize,    \* in parts
    Timeout

Knows2 == "ProcessInfo2"
Knows1 == "ProcessInfo"

VARIABLES
    client,     \* "rest", "open", "write", "header", "payload", "cancel", "end"
    command,    \* Knows2 or Knows1
    done,       \* of the transfer in progress
    pending,    \* an overlapped transfer refers to the client's buffer
    elapsed,    \* since the query began
    unknown, result,    \* "none", "timeout", "failed", or the command that was answered
    pipe,       \* "closed", "open", "broken"
    runtime,    \* what it knows: Knows2 or Knows1
    written,    \* the request's bytes that the runtime has
    answer, sent    \* what it answers: "none", "info", "unknown", "garbage"; the bytes it sent that were not read yet

clientVars == <<client, command, done, pending, elapsed, unknown, result>>
pipeVars == <<pipe, runtime, written, answer, sent>>
diagnosticsVars == <<clientVars, pipeVars>>

-----------------------------------------------------------------------------
Fail(why) ==
    /\ client' = "end" /\ result' = why
    /\ pipe' = "closed" /\ pending' = FALSE
    /\ UNCHANGED <<command, done, elapsed, runtime, written, answer, sent>>

\* the runtime has no pipe, or one that lets the caller in
QueryCoreProcessInfo ==
    /\ client = "rest"
    /\ \/ client' = "open" /\ UNCHANGED result
       \/ client' = "end" /\ result' = "failed"
    /\ command' = Knows2 /\ elapsed' = 0 /\ unknown' = FALSE
    /\ UNCHANGED <<done, pending, pipeVars>>
Open ==
    /\ client = "open" /\ unknown' = FALSE
    /\ \/ /\ pipe' = "open" /\ client' = "write" /\ done' = 0
          /\ written' = 0 /\ answer' = "none" /\ sent' = 0
          /\ UNCHANGED <<command, pending, elapsed, result, runtime>>
       \/ Fail("failed")

Size == IF client = "payload" THEN PayloadSize ELSE HeaderSize
InTransfer == client \in {"write", "header", "payload"}

\* WriteFile or ReadFile, once for every part that is left
Begin ==
    /\ InTransfer /\ ~pending /\ done < Size
    /\ \/ pipe = "open" /\ pending' = TRUE
          /\ UNCHANGED <<client, command, done, elapsed, unknown, result, pipeVars>>
       \/ pipe = "broken" /\ sent = 0 /\ UNCHANGED unknown /\ Fail("failed")
       \/ pipe = "broken" /\ sent > 0 /\ pending' = TRUE
          /\ UNCHANGED <<client, command, done, elapsed, unknown, result, pipeVars>>
\* what the pipe takes or has, up to what is asked for
Transferred ==
    /\ pending
    /\ pending' = FALSE
    /\ \E n \in 1 .. Size - done :
          /\ done' = done + n
          /\ \/ client = "write" /\ pipe = "open" /\ written' = written + n /\ UNCHANGED sent
             \/ client # "write" /\ n <= sent /\ sent' = sent - n /\ UNCHANGED written
    /\ UNCHANGED <<client, command, elapsed, unknown, result, pipe, runtime, answer>>
BrokenOff ==
    /\ pending /\ pipe = "broken" /\ (client = "write" \/ sent = 0)
    /\ UNCHANGED unknown /\ Fail("failed")
Tick ==
    /\ pending /\ elapsed < Timeout
    /\ elapsed' = elapsed + 1
    /\ UNCHANGED <<client, command, done, pending, unknown, result, pipeVars>>
\* for the mutants: each wait has the whole time
OutOfTime_Anew == elapsed >= Timeout /\ client = "write"
\* nothing left of the deadline: the wait for what is pending ends
OutOfTime == elapsed >= Timeout
\* CancelIoEx, and the wait for the transfer to end, so that its buffer may go
TimesOut == pending /\ OutOfTime /\ UNCHANGED unknown /\ Fail("timeout")

Sent ==
    /\ client = "write" /\ done = HeaderSize
    /\ client' = "header" /\ done' = 0
    /\ UNCHANGED <<command, pending, elapsed, unknown, result, pipeVars>>
\* the answer's header: not the magic, or not from the runtime's command set
HeaderRead ==
    /\ client = "header" /\ done = HeaderSize
    /\ IF answer = "garbage" THEN UNCHANGED unknown /\ Fail("failed")
       ELSE client' = "payload" /\ done' = 0 /\ UNCHANGED <<command, pending, elapsed, unknown, result, pipeVars>>
\* an error's HRESULT, or the information: a runtime that does not know the command is asked again
PayloadRead ==
    /\ client = "payload" /\ done = PayloadSize
    /\ pipe' = "closed"
    /\ unknown' = (answer = "unknown")
    /\ CASE answer = "info" -> client' = "end" /\ result' = command /\ UNCHANGED command
         [] answer # "info" /\ command = Knows2 -> client' = "open" /\ command' = Knows1 /\ UNCHANGED result
         [] OTHER -> client' = "end" /\ result' = "failed" /\ UNCHANGED command
    /\ UNCHANGED <<done, pending, elapsed, runtime, written, answer, sent>>
Return ==
    /\ client = "end"
    /\ client' = "rest"
    /\ UNCHANGED <<command, done, pending, elapsed, unknown, result, pipeVars>>

-----------------------------------------------------------------------------
(* The runtime: it may answer, in parts, close the connection or do nothing. *)

Answer ==
    /\ pipe = "open" /\ written = HeaderSize /\ answer = "none"
    /\ answer' \in {IF command = Knows2 /\ runtime = Knows1 THEN "unknown" ELSE "info", "garbage"}
    /\ UNCHANGED <<clientVars, pipe, runtime, written, sent>>
Send ==
    /\ pipe = "open" /\ answer # "none"
    /\ sent < HeaderSize + PayloadSize - (IF client = "payload" THEN HeaderSize + done ELSE IF client = "header" THEN done ELSE 0)
    /\ sent' = sent + 1
    /\ UNCHANGED <<clientVars, pipe, runtime, written, answer>>
Break ==
    /\ pipe = "open" /\ pipe' = "broken"
    /\ UNCHANGED <<clientVars, runtime, written, answer, sent>>

-----------------------------------------------------------------------------
Init ==
    /\ client = "rest" /\ command = Knows2 /\ done = 0 /\ pending = FALSE /\ elapsed = 0
    /\ unknown = FALSE /\ result = "none"
    /\ pipe = "closed" /\ runtime \in {Knows1, Knows2} /\ written = 0 /\ answer = "none" /\ sent = 0

Client ==
    \/ Open \/ Begin \/ BrokenOff \/ TimesOut
    \/ Sent \/ HeaderRead \/ PayloadRead \/ Return
Next ==
    \/ QueryCoreProcessInfo
    \/ Client \/ Transferred \/ Tick
    \/ Answer \/ Send \/ Break

\* time passes while the client waits; the runtime need not do anything
Fairness == WF_diagnosticsVars(Client) /\ WF_diagnosticsVars(Tick) /\ WF_diagnosticsVars(Transferred)
Spec == Init /\ [][Next]_diagnosticsVars /\ Fairness

TypeOK ==
    /\ pending => InTransfer
    /\ elapsed <= Timeout
    /\ pipe = "closed" => ~InTransfer

(* What the query returns is what the runtime said to the command it         *)
(* answered, and no transfer refers to the client's buffers then.            *)
InfoIsRuntimes == client = "end" => ~pending /\ (result \in {Knows1, Knows2} => result = runtime)

(* "Waits at most timeoutMs for the answer (a suspended process doesn't give *)
(* one)" (DotNet.h:129): the query ends, whatever the runtime does.          *)
InCall == client # "rest"
DiagnosticsReturns == InCall ~> ~InCall

=============================================================================
