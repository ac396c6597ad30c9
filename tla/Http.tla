--------------------------------- MODULE Http ---------------------------------
(***************************************************************************)
(* Requests over HTTPS: a body into memory or a file (WinSys Http.cpp),    *)
(* and VirusTotal's reports and uploads (VirusTotal.cpp).  A server's      *)
(* answer is a status and a body, whose parts arrive until the connection  *)
(* breaks.                                                                 *)
(*                                                                         *)
(* A content is how many of its parts there are, from its beginning; a     *)
(* report's counts are in the body's last part, the date before them.      *)
(***************************************************************************)
EXTENDS Naturals

CONSTANTS
    BodyParts,      \* of an answer; at least 1
    FileSizes,      \* of files to upload, in chunks
    DirectUploadLimit, UploadLimit,
    MaxRequests     \* bound

NoFile == [exists |-> FALSE, parts |-> 0]
NoReport == [status |-> "Error", counted |-> FALSE]

VARIABLES
    call,       \* "rest", "read", "send", "create", "body", "end"
    op,         \* "get", "download", "report", "upload"
    url,        \* whether the upload has the one-time URL
    status, lengthKnown, arrived, broken,   \* the answer, and its connection
    body,       \* parts read
    file,       \* the download's
    size, readUp,   \* the upload's
    ok, report, \* results
    stored,     \* chunks of the upload that the server has
    requests

answerVars == <<status, lengthKnown, arrived, broken>>
httpVars == <<call, op, url, answerVars, body, file, size, readUp, ok, report, stored, requests>>

-----------------------------------------------------------------------------
Return(result) == call' = "end" /\ ok' = result
\* a download deletes the file it made
Fail == Return(FALSE) /\ file' = IF op = "download" /\ call = "body" THEN NoFile ELSE file

Begin ==
    /\ call = "rest" /\ requests < MaxRequests
    /\ requests' = requests + 1
    /\ op' \in {"get", "download", "report", "upload"}
    /\ size' \in IF op' = "upload" THEN FileSizes ELSE {0}
    /\ url' = FALSE /\ body' = 0 /\ readUp' = 0 /\ stored' = 0 /\ ok' = FALSE
    /\ report' = IF size' > UploadLimit THEN [NoReport EXCEPT !.status = "TooLarge"] ELSE NoReport
    /\ call' = CASE size' > UploadLimit -> "end" [] size' <= UploadLimit /\ op' = "upload" -> "read" [] OTHER -> "send"
    /\ UNCHANGED <<answerVars, file>>

\* UploadFile: the size it was opened with, while others write to the file: a chunk, or an end before it
ReadChunk ==
    /\ call = "read" /\ readUp < size
    /\ \/ readUp' = readUp + 1 /\ UNCHANGED <<call, ok>>
       \/ Return(FALSE) /\ UNCHANGED readUp
    /\ UNCHANGED <<op, url, answerVars, body, file, size, report, stored, requests>>
ReadAll ==
    /\ call = "read" /\ readUp = size
    /\ call' = "send" /\ url' = (size <= DirectUploadLimit)
    /\ UNCHANGED <<op, answerVars, body, file, size, readUp, ok, report, stored, requests>>

\* WinHttpSendRequest and WinHttpReceiveResponse
Send ==
    /\ call = "send"
    /\ arrived' = 0 /\ broken' = FALSE /\ body' = 0
    /\ \/ /\ status' \in {200, 403, 404, 429, 500} /\ lengthKnown' \in BOOLEAN
          /\ IF op = "download" /\ status' # 200 THEN Fail ELSE call' = (IF op = "download" THEN "create" ELSE "body") /\ UNCHANGED <<file, ok>>
          /\ stored' = IF op = "upload" /\ url /\ status' = 200 THEN readUp ELSE stored
       \/ Fail /\ UNCHANGED <<status, lengthKnown, stored>>
    /\ UNCHANGED <<op, url, size, readUp, report, requests>>

Create ==
    /\ call = "create"
    /\ \/ file' = [exists |-> TRUE, parts |-> 0] /\ call' = "body" /\ UNCHANGED ok
       \/ Return(FALSE) /\ UNCHANGED file
    /\ UNCHANGED <<op, url, answerVars, body, size, readUp, report, stored, requests>>

ReadBody ==
    /\ call = "body" /\ body < arrived
    /\ body' = body + 1
    /\ \/ file' = (IF op = "download" THEN [file EXCEPT !.parts = @ + 1] ELSE file) /\ UNCHANGED <<call, ok>>
       \/ op = "download" /\ Fail  \* it can't be written, or the caller cancels
    /\ UNCHANGED <<op, url, answerVars, size, readUp, report, stored, requests>>

\* FromResponse
StatusOf(code) ==
    CASE code = 200 -> "Found" [] code = 404 -> "NotFound" [] code = 403 -> "BadKey"
      [] code = 429 -> "QuotaExceeded" [] OTHER -> "Error"

\* a download knows whether there should be more
DownloadEnds == IF lengthKnown /\ file.parts # BodyParts THEN Fail ELSE Return(TRUE) /\ UNCHANGED file
\* LookupHash: FindObject finds the counts' object if its end is there
LookupHash ==
    /\ Return(TRUE)
    /\ report' = [status |-> StatusOf(status), counted |-> status = 200 /\ body = BodyParts]
\* UploadFile, of either answer: the URL, which may not be one, or the upload's end
UploadAnswered ==
    IF url THEN Return(TRUE) /\ report' = [NoReport EXCEPT !.status = IF status = 200 THEN "Uploaded" ELSE StatusOf(status)]
           /\ UNCHANGED url
    ELSE \/ status = 200 /\ body = BodyParts /\ call' = "send" /\ url' = TRUE /\ UNCHANGED <<ok, report>>
         \/ status = 200 /\ Return(FALSE) /\ UNCHANGED <<url, report>>
         \/ status # 200 /\ Return(TRUE) /\ report' = [NoReport EXCEPT !.status = StatusOf(status)] /\ UNCHANGED url
\* all parts were read; the connection broke, and so does the read, or it was to end the body; or a wait took too long
BodyEnds ==
    /\ call = "body"
    /\ body = BodyParts \/ (broken /\ body = arrived)
    /\ CASE op = "get" -> UNCHANGED <<url, file, report>> /\ (Return(TRUE) \/ (broken /\ Return(FALSE)))
         [] op = "download" -> UNCHANGED <<url, report>> /\ (DownloadEnds \/ (broken /\ Fail))
         [] op = "report" -> UNCHANGED <<url, file>> /\ LookupHash
         [] op = "upload" -> UNCHANGED file /\ UploadAnswered
    /\ UNCHANGED <<op, answerVars, body, size, readUp, stored, requests>>

Ended ==
    /\ call = "end" /\ call' = "rest"
    /\ UNCHANGED <<op, url, answerVars, body, file, size, readUp, ok, report, stored, requests>>

-----------------------------------------------------------------------------
(* The server and the network.                                               *)

Arrive ==
    /\ call \in {"create", "body"} /\ ~broken /\ arrived < BodyParts
    /\ arrived' = arrived + 1
    /\ UNCHANGED <<call, op, url, status, lengthKnown, broken, body, file, size, readUp, ok, report, stored, requests>>
\* a read that waits for longer than WinHttpSetTimeouts says breaks it too
Break ==
    /\ call \in {"create", "body"} /\ ~broken /\ arrived < BodyParts
    /\ broken' = TRUE
    /\ UNCHANGED <<call, op, url, status, lengthKnown, arrived, body, file, size, readUp, ok, report, stored, requests>>

-----------------------------------------------------------------------------
Init ==
    /\ call = "rest" /\ op = "get" /\ url = FALSE
    /\ status = 0 /\ lengthKnown = FALSE /\ arrived = 0 /\ broken = FALSE
    /\ body = 0 /\ file = NoFile /\ size = 0 /\ readUp = 0 /\ ok = FALSE /\ report = NoReport /\ stored = 0 /\ requests = 0

Client == ReadChunk \/ ReadAll \/ Send \/ Create \/ ReadBody \/ BodyEnds \/ Ended
Next == Begin \/ Client \/ Arrive \/ Break
\* time passes: what has not come by then is given up
Fairness == WF_httpVars(Client) /\ WF_httpVars(Arrive \/ Break)
Spec == Init /\ [][Next]_httpVars /\ Fairness

TypeOK ==
    /\ body <= arrived /\ arrived <= BodyParts /\ readUp <= size
    /\ file.parts <= BodyParts

(* "The file is deleted on failure" (Http.h:26), and of a body whose length  *)
(* the server said, a success has it all.                                    *)
DownloadIsWhole ==
    call = "end" /\ op = "download" /\ status = 200 =>
        /\ ok => file.exists /\ file.parts = body /\ (lengthKnown => file.parts = BodyParts)
        /\ ~ok /\ body > 0 => ~file.exists

(* A file is said to be uploaded if the server has all of it that there was  *)
(* when it was opened.                                                       *)
UploadedIsStored == call = "end" /\ report.status = "Uploaded" => stored = size

(* "Found, // the report's counts are valid" (VirusTotal.h:19).              *)
FoundIsCounted == call = "end" /\ report.status = "Found" => report.counted

(* A request ends, whatever the server does.                                 *)
InCall == call # "rest"
RequestReturns == InCall ~> ~InCall

=============================================================================
