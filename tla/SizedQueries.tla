----------------------------- MODULE SizedQueries -----------------------------
(***************************************************************************)
(* Queries of lists that grow and shrink between the calls that ask for    *)
(* them (in most of WinSys): a buffer that is too small for the list of    *)
(* that moment is made larger, by what the call says it would have needed  *)
(* or, where it does not say, by a factor, and the list is asked for       *)
(* again, as often as the caller likes.                                    *)
(*                                                                         *)
(* A list is its size; a page is the room a caller leaves for more.        *)
(***************************************************************************)
EXTENDS Naturals

CONSTANTS
    MaxSize,    \* of a list
    MaxChanges, \* of a list during one query
    MaxQueries  \* bounds

\* where a query starts, whether it asks for the size first, how often it asks for the list (0: no limit),
\* the room it adds, whether it doubles at least, and the factor it takes when it is not told the size
Loop(first, probe, tries, room, doubles, factor, kept) ==
    [first |-> first, probe |-> probe, tries |-> tries, room |-> room, doubles |-> doubles, factor |-> factor, kept |-> kept]
Ask(n, extra) == Loop(1, FALSE, n, extra, FALSE, 0, FALSE)
AskSize(n, extra) == Loop(0, TRUE, n, extra, FALSE, 0, FALSE)
AskDouble(n) == Loop(1, FALSE, n, 1, TRUE, 0, FALSE)
AskUntold(n, extra, factor) == Loop(1, FALSE, n, extra, FALSE, factor, FALSE)

ReadTable == Ask(4, 1)
ForEachType == AskDouble(0)
EnumProcessHandles == Ask(0, 1)
\* the enumerator keeps its buffer
QuerySystemHandles == Loop(1, FALSE, 0, 1, TRUE, 0, TRUE)
FindZombies == AskDouble(6)
FindProcessJobs == AskDouble(6)
GetProcessIds == Ask(4, 1)
ProviderNames == AskSize(3, 0)
AddProvider == AskUntold(4, 0, 2)
EnumSessions == AskUntold(3, 0, 2)
ListProviders == AskSize(1, 1)
PowerQuery == AskUntold(0, 0, 2)
QueryRanges == AskUntold(4, 0, 4)
QueryVariable == AskSize(3, 0)
GetCommandLine == Ask(2, 0)
GetGroups == Ask(2, 0)
GetDefaultCpuSetMasks == Ask(0, 0)
GetSymbolicLink == Ask(2, 1)
\* what it is not told is the most a name may be
GetMappedFileName == AskUntold(3, 0, MaxSize)
EnumVariables == AskSize(4, 1)
\* an eighth more, or twice the size
SystemQuery == AskUntold(0, 1, 2)
GetFirmwareTableInformation == Ask(0, 0)
GetProcessIdInformation == Ask(0, 0)
GetSecurity == Ask(0, 0)
EnumServices == Ask(0, 1)
GetTriggers == AskSize(1, 0)
GetTriggerDetails == AskSize(1, 0)
GetRequiredPrivileges == AskSize(1, 0)
GetDependents == AskSize(4, 1)
GetFailureActions == AskSize(1, 0)
GetApplicationIds == AskSize(1, 0)

Queries ==
    {ReadTable, ForEachType, EnumProcessHandles, QuerySystemHandles, FindZombies, FindProcessJobs, GetProcessIds,
     ProviderNames, AddProvider, EnumSessions, ListProviders, PowerQuery, QueryRanges, QueryVariable, GetCommandLine,
     GetGroups, GetDefaultCpuSetMasks, GetSymbolicLink, GetMappedFileName, EnumVariables, SystemQuery,
     GetFirmwareTableInformation, GetProcessIdInformation, GetSecurity, EnumServices, GetTriggers, GetTriggerDetails,
     GetRequiredPrivileges, GetDependents, GetFailureActions, GetApplicationIds}

VARIABLES
    loop,       \* the query in progress
    turn,       \* "rest", "probe", "ask", "grow", "read", "none": the last two are results
    list,       \* its size now
    room, needed,   \* of the buffer; what the last call said (0: nothing)
    asks, queried,
    m_Size,     \* the buffer's that is kept
    changed, grown  \* history, of this query: how often the list changed, and by how much it grew at most

sizedVars == <<loop, turn, list, room, needed, asks, queried, m_Size, changed, grown>>

-----------------------------------------------------------------------------
Query(q) ==
    /\ turn \in {"rest", "read", "none"} /\ queried < MaxQueries
    /\ queried' = queried + 1
    /\ loop' = q /\ asks' = 0 /\ needed' = 0
    /\ room' = IF q.kept /\ m_Size # 0 THEN m_Size ELSE q.first
    /\ m_Size' = IF q.kept THEN room' ELSE m_Size
    /\ turn' = IF q.probe THEN "probe" ELSE "ask"
    /\ changed' = 0 /\ grown' = 0
    /\ UNCHANGED list

\* an empty list is none
Probe ==
    /\ turn = "probe"
    /\ turn' = IF list = 0 THEN "none" ELSE "grow"
    /\ needed' = list
    /\ UNCHANGED <<loop, list, room, asks, queried, m_Size, changed, grown>>

\* for the mutants: once more
LastTry_Beyond(n) == n = loop.tries + 1
LastTry(n) == n = loop.tries
AskForList ==
    /\ turn = "ask"
    /\ asks' = asks + 1
    /\ IF list <= room THEN turn' = "read" /\ UNCHANGED needed
       ELSE /\ turn' = IF LastTry(asks') THEN "none" ELSE "grow"
            /\ needed' \in IF loop.factor > 0 THEN {0, list} ELSE {list}
    /\ UNCHANGED <<loop, list, room, queried, m_Size, changed, grown>>

AtLeast(m, n) == IF m >= n THEN m ELSE n
\* the next buffer
Larger(q, size, said) ==
    IF said > size THEN AtLeast(said + q.room, IF q.doubles THEN 2 * size ELSE 0) ELSE q.factor * size
Grow ==
    /\ turn = "grow"
    /\ room' = Larger(loop, room, needed)
    /\ m_Size' = IF loop.kept THEN room' ELSE m_Size
    /\ turn' = "ask"
    /\ UNCHANGED <<loop, list, needed, asks, queried, changed, grown>>

\* others' doing, between two of the query's calls
Change ==
    /\ turn \in {"probe", "ask", "grow"} /\ changed < MaxChanges
    /\ changed' = changed + 1
    /\ list' \in (0 .. MaxSize) \ {list}
    /\ grown' = grown + (IF list' > list THEN list' - list ELSE 0)
    /\ UNCHANGED <<loop, turn, room, needed, asks, queried, m_Size>>

Init ==
    /\ loop = Ask(0, 0) /\ turn = "rest" /\ list \in 0 .. MaxSize /\ room = 0 /\ needed = 0 /\ asks = 0 /\ queried = 0
    /\ m_Size = 0 /\ changed = 0 /\ grown = 0

Next ==
    \/ \E q \in Queries : Query(q)
    \/ Probe \/ AskForList \/ Grow \/ Change

\* the caller goes on
Fairness == WF_sizedVars(Probe \/ AskForList \/ Grow)
Spec == Init /\ [][Next]_sizedVars /\ Fairness

TypeOK ==
    /\ turn = "grow" => loop.factor > 0 \/ needed > 0
    /\ loop.tries > 0 => asks <= loop.tries
    /\ turn = "none" => loop.probe \/ loop.tries > 0

\* doubling alone has to reach the list
Reachable ==
    loop.factor > 0 =>
        \/ loop.tries = 0
        \/ loop.tries = 3 /\ loop.factor * loop.factor >= MaxSize
        \/ loop.tries = 4 /\ loop.factor * loop.factor * loop.factor >= MaxSize

(* A list that stays as it is while it is asked for is read, if there is     *)
(* any; one that grows meanwhile by no more than the query leaves room for   *)
(* is read too.                                                              *)
ListIsRead == turn = "none" => changed > 0 \/ (loop.probe /\ list = 0) \/ ~Reachable
GrowthHasRoom == turn = "none" => loop.room = 0 \/ changed > 1 \/ grown > loop.room \/ asks = 0

(* No query asks again for anything but a change: it ends when the list      *)
(* stays as it is.                                                           *)
AsksHaveReason == loop.factor = 0 => asks <= changed + 2

=============================================================================
