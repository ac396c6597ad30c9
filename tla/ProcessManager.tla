---------------------------- MODULE ProcessManager ----------------------------
(***************************************************************************)
(* Snapshots of processes and threads (WinSys ProcessManager.h), and the   *)
(* copy a terminated process may take of its entry (ProcessInfo.cpp:       *)
(* Detach).                                                                *)
(*                                                                         *)
(* Process and thread objects point into the snapshot they were last built *)
(* from.  Two buffers alternate, so a pointer is good until its buffer is  *)
(* filled again; a pointer here is a buffer and the number of the snapshot *)
(* the buffer held.  Values are left out: what matters is which processes  *)
(* and threads are reported, and whose memory is read.                     *)
(***************************************************************************)
EXTENDS Integers, FiniteSets

CONSTANTS
    Pids,          \* process IDs, 0 (Idle) among them
    Tids,          \* thread IDs
    Packaged,      \* the IDs packaged processes run under
    MaxTime,       \* bound: processes and threads created
    MaxSnapshots   \* bound: queries of the system

ASSUME ConstantsAssumption ==
    /\ Pids \subseteq Nat /\ 0 \in Pids
    /\ Packaged \subseteq Pids
    /\ MaxTime \in Nat \ {0}     \* the Idle process was created
    /\ MaxSnapshots \in Nat

VARIABLES
    \* the manager
    m_Buffer,              \* the number of the snapshot each buffer holds, 0 for none
    m_BufIndex,
    m_processesByKey,      \* the live processes' objects by key
    m_NewProcesses, m_TerminatedProcesses,
    m_threadsByKey, m_Threads, m_NewThreads, m_TerminatedThreads,
    m_ThreadsPid,          \* the process whose threads were taken last, 0 for all
    \* the system
    created, owner,        \* the creation time of each running process and thread (0: not running)
    tcreated,
    clock,
    \* history
    queries,               \* queries made
    staleReads,            \* of what times were read through a pointer that was no longer good
    mirror,                \* a client's own list of processes, kept by the new and terminated ones
    seenThreads            \* every thread of the system at the last update with threads

processVars == <<m_processesByKey, m_NewProcesses, m_TerminatedProcesses>>
threadVars == <<m_threadsByKey, m_Threads, m_NewThreads, m_TerminatedThreads, m_ThreadsPid>>
systemVars == <<created, tcreated, owner, clock>>
historyVars == <<queries, staleReads, mirror, seenThreads>>
vars == <<m_Buffer, m_BufIndex, processVars, threadVars, systemVars, historyVars>>

-----------------------------------------------------------------------------
(* Pointers and keys. *)

Null == [buffer |-> 2, snapshot |-> 0]
Own == [buffer |-> 3, snapshot |-> 0]     \* into the object's own copy
Wild == [buffer |-> 4, snapshot |-> 0]    \* nowhere

Good(buffers, p) == p.buffer \in {0, 1} /\ buffers[p.buffer] = p.snapshot

\* A key is the creation time and the ID.
RunningProcesses == {<<created[pid], pid>> : pid \in {x \in Pids : created[x] # 0}}
ThreadsOf(pid) == {<<tcreated[tid], tid>> : tid \in {x \in Tids : tcreated[x] # 0 /\ owner[x] = pid}}
RunningThreads == UNION {ThreadsOf(pid) : pid \in Pids}

Empty == [k \in {} |-> Null]
Only(map, keys) == [k \in DOMAIN map \cap keys |-> map[k]]

-----------------------------------------------------------------------------
(* Update. *)

\* Mutant: the previous object's own pointers are kept.
BuildProcessInfo_Kept(key, p) ==
    IF key \in DOMAIN m_processesByKey THEN m_processesByKey[key]
    ELSE [NativeInfo |-> p, ExtendedInfo |-> p, PackageFullName |-> Null]

\* BuildProcessInfo of a process in the snapshot at p: a known object is
\* pointed to the new snapshot, but for its package's name.
BuildProcessInfo(key, p) ==
    IF key \in DOMAIN m_processesByKey
    THEN [m_processesByKey[key] EXCEPT !.NativeInfo = p, !.ExtendedInfo = p]
    ELSE [NativeInfo |-> p,
          ExtendedInfo |-> IF key[2] = 0 THEN Null ELSE p,
          PackageFullName |-> IF key[2] \in Packaged THEN p ELSE Null]

\* Mutant: another process's threads are compared with the previous one's.
KnownThreads_All(pid) == m_threadsByKey

\* The threads known before, of which those not met again are terminated.
KnownThreads(pid) == IF pid # m_ThreadsPid THEN Empty ELSE m_threadsByKey

\* The threads of the processes asked for, but the Idle process's.
AskedThreads(pid) ==
    UNION {ThreadsOf(p) : p \in {x \in Pids : created[x] # 0 /\ x > 0 /\ pid \in {0, x}}}

\* The times of the processes and threads known before are read through their
\* pointers, after the buffer was filled.
Reads(buffers, includeThreads, pid) ==
    {"process" : k \in {x \in RunningProcesses \cap DOMAIN m_processesByKey :
                          ~Good(buffers, m_processesByKey[x].NativeInfo)}}
    \cup {"thread" : t \in {x \in AskedThreads(pid) \cap DOMAIN KnownThreads(pid) :
                          includeThreads /\ ~Good(buffers, KnownThreads(pid)[x])}}

UpdateThreads(pid, p) ==
    /\ m_threadsByKey' = [t \in AskedThreads(pid) |-> p]
    /\ m_Threads' = AskedThreads(pid)
    /\ m_NewThreads' = AskedThreads(pid) \ DOMAIN KnownThreads(pid)
    /\ m_TerminatedThreads' = Only(KnownThreads(pid), DOMAIN KnownThreads(pid) \ AskedThreads(pid))
    /\ m_ThreadsPid' = pid
    /\ seenThreads' = RunningThreads

\* Mutant: the buffers do not alternate.
NextBuffer_Same == m_BufIndex

NextBuffer == 1 - m_BufIndex

\* Mutant: what was new before is still reported.
NewOnes_Accumulate == m_NewProcesses \cup (RunningProcesses \ DOMAIN m_processesByKey)

\* Mutant: processes are known by their ID alone.
NewOnes_ById == {k \in RunningProcesses : \A x \in DOMAIN m_processesByKey : x[2] # k[2]}

NewOnes == RunningProcesses \ DOMAIN m_processesByKey

\* The query succeeds: the snapshot is in the current buffer.
Update(includeThreads, pid) ==
    LET p == [buffer |-> m_BufIndex, snapshot |-> queries + 1]
    IN /\ queries < MaxSnapshots
       /\ queries' = queries + 1
       /\ m_Buffer' = [m_Buffer EXCEPT ![m_BufIndex] = queries + 1]
       /\ staleReads' = staleReads \cup Reads(m_Buffer', includeThreads, pid)
       /\ m_processesByKey' = [k \in RunningProcesses |-> BuildProcessInfo(k, p)]
       /\ m_NewProcesses' = NewOnes
       /\ m_TerminatedProcesses' = Only(m_processesByKey, DOMAIN m_processesByKey \ RunningProcesses)
       /\ IF includeThreads THEN UpdateThreads(pid, p)
          ELSE UNCHANGED <<threadVars, seenThreads>>
       /\ m_BufIndex' = NextBuffer
       /\ mirror' = (mirror \ DOMAIN m_TerminatedProcesses') \cup m_NewProcesses'
       /\ UNCHANGED systemVars

\* The query fails, after the current buffer was written in part or freed
\* (or could not be allocated).
UpdateFails ==
    /\ queries < MaxSnapshots
    /\ queries' = queries + 1
    /\ m_Buffer' = [m_Buffer EXCEPT ![m_BufIndex] = 0]
    /\ UNCHANGED <<m_BufIndex, processVars, threadVars, systemVars, staleReads, mirror, seenThreads>>

-----------------------------------------------------------------------------
\* ProcessInfo::Detach, of a terminated process before the next Update: the
\* pointers move with the entry they point into; the package's name is moved by
\* the same offset, wherever it points.
Moved(pi, p) ==
    IF p = Null THEN Null ELSE IF p = pi.NativeInfo THEN Own ELSE Wild

Detach(key) ==
    /\ key \in DOMAIN m_TerminatedProcesses
    /\ LET pi == m_TerminatedProcesses[key]
       IN /\ pi.NativeInfo # Own
          /\ Good(m_Buffer, pi.NativeInfo)
          /\ m_TerminatedProcesses' = [m_TerminatedProcesses EXCEPT ![key] =
               [NativeInfo |-> Own,
                ExtendedInfo |-> Moved(pi, pi.ExtendedInfo),
                PackageFullName |-> Moved(pi, pi.PackageFullName)]]
    /\ UNCHANGED <<m_Buffer, m_BufIndex, m_processesByKey, m_NewProcesses, threadVars, systemVars, historyVars>>

-----------------------------------------------------------------------------
(* The system (external): processes and threads come and go, and IDs are     *)
(* reused at once.                                                           *)

StartProcess(pid) ==
    /\ created[pid] = 0
    /\ clock < MaxTime
    /\ clock' = clock + 1
    /\ created' = [created EXCEPT ![pid] = clock + 1]
    /\ UNCHANGED <<m_Buffer, m_BufIndex, processVars, threadVars, tcreated, owner, historyVars>>

ExitProcess(pid) ==
    /\ created[pid] # 0
    /\ pid # 0
    /\ created' = [created EXCEPT ![pid] = 0]
    /\ tcreated' = [tid \in Tids |-> IF owner[tid] = pid THEN 0 ELSE tcreated[tid]]
    /\ UNCHANGED <<m_Buffer, m_BufIndex, processVars, threadVars, owner, clock, historyVars>>

StartThread(tid, pid) ==
    /\ tcreated[tid] = 0
    /\ created[pid] # 0
    /\ clock < MaxTime
    /\ clock' = clock + 1
    /\ tcreated' = [tcreated EXCEPT ![tid] = clock + 1]
    /\ owner' = [owner EXCEPT ![tid] = pid]
    /\ UNCHANGED <<m_Buffer, m_BufIndex, processVars, threadVars, created, historyVars>>

ExitThread(tid) ==
    /\ tcreated[tid] # 0
    /\ tcreated' = [tcreated EXCEPT ![tid] = 0]
    /\ UNCHANGED <<m_Buffer, m_BufIndex, processVars, threadVars, created, owner, clock, historyVars>>

-----------------------------------------------------------------------------
\* A manager just made; the Idle process always runs.
Init ==
    /\ m_Buffer = [b \in {0, 1} |-> 0]
    /\ m_BufIndex = 0
    /\ m_processesByKey = Empty /\ m_NewProcesses = {} /\ m_TerminatedProcesses = Empty
    /\ m_threadsByKey = Empty /\ m_Threads = {} /\ m_NewThreads = {} /\ m_TerminatedThreads = Empty
    /\ m_ThreadsPid = 0
    /\ created = [pid \in Pids |-> IF pid = 0 THEN 1 ELSE 0]
    /\ tcreated = [tid \in Tids |-> 0]
    /\ owner = [tid \in Tids |-> 0]
    /\ clock = 1
    /\ queries = 0
    /\ staleReads = {}
    /\ mirror = {}
    /\ seenThreads = {}

Next ==
    \/ \E pid \in Pids \cup {0} : Update(TRUE, pid)
    \/ Update(FALSE, 0)
    \/ UpdateFails
    \/ \E key \in DOMAIN m_TerminatedProcesses : Detach(key)
    \/ \E pid \in Pids : StartProcess(pid) \/ ExitProcess(pid)
    \/ \E tid \in Tids : ExitThread(tid) \/ \E pid \in Pids : StartThread(tid, pid)

Spec == Init /\ [][Next]_vars

-----------------------------------------------------------------------------
(* Properties. *)

Keys == (1 .. MaxTime) \X (Pids \cup Tids)
\* The new processes and threads are among the listed ones, and what is listed
\* has a creation time and an ID.
TypeOK ==
    /\ m_BufIndex \in {0, 1}
    /\ m_Buffer \in [{0, 1} -> 0 .. MaxSnapshots]
    /\ DOMAIN m_processesByKey \subseteq Keys
    /\ DOMAIN m_TerminatedProcesses \subseteq Keys
    /\ m_NewProcesses \subseteq DOMAIN m_processesByKey
    /\ DOMAIN m_threadsByKey = m_Threads
    /\ m_NewThreads \subseteq m_Threads
    /\ m_Threads \subseteq Keys
    /\ m_ThreadsPid \in Pids \cup {0}

\* "if it fails, the previous snapshot (and the pointers into its buffer) stays
\* intact": every process the manager lists points into the other buffer, which
\* holds the snapshot it was built from, after any mix of failures.
SnapshotIntact ==
    \A k \in DOMAIN m_processesByKey :
        LET pi == m_processesByKey[k]
        IN /\ Good(m_Buffer, pi.NativeInfo)
           /\ pi.NativeInfo.buffer # m_BufIndex
           /\ pi.ExtendedInfo \in {pi.NativeInfo, Null}

\* The CPU times of a process are compared with those of the previous snapshot,
\* read before that snapshot's buffer is filled again.
ProcessTimesAreThere == "process" \notin staleReads

\* A client that applies the new and the terminated processes of each update to
\* its own list has the manager's processes, though IDs are reused and queries
\* fail.
MirrorIsSnapshot == mirror = DOMAIN m_processesByKey

\* A thread reported as terminated had ended: asking for another process's
\* threads "starts over", the previous one's are not reported as terminated.
TerminatedThreadsHadEnded == DOMAIN m_TerminatedThreads \cap seenThreads = {}

\* "point to the current snapshot (the previous one is overwritten on the next
\* update)": a thread's times are read from a snapshot that is still there.
ThreadTimesAreThere == "thread" \notin staleReads

\* Detach "copies its snapshot entry [...] into a buffer of its own and points
\* NativeInfo, ExtendedInfo and the package name there".
DetachedIsItsOwn ==
    \A k \in DOMAIN m_TerminatedProcesses :
        m_TerminatedProcesses[k].NativeInfo = Own =>
            /\ m_TerminatedProcesses[k].ExtendedInfo \in {Own, Null}
            /\ m_TerminatedProcesses[k].PackageFullName \in {Own, Null}
=============================================================================
