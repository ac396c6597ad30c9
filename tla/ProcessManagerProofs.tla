------------------------- MODULE ProcessManagerProofs -------------------------
(***************************************************************************)
(* Proofs about ProcessManager: the processes listed always point into a   *)
(* snapshot that is still there, threads reported as terminated had ended, *)
(* what is reported as new and gone adds up to the snapshot, and every     *)
(* variable keeps its type, whatever the processes, threads and number of  *)
(* queries.                                                                *)
(***************************************************************************)
EXTENDS ProcessManager, TLAPS

Pointers == [buffer : 0 .. 4, snapshot : Nat]
Infos == [NativeInfo : Pointers, ExtendedInfo : Pointers, PackageFullName : Pointers]

BuffersOK ==
    /\ m_BufIndex \in {0, 1}
    /\ m_Buffer \in [{0, 1} -> Nat]
    /\ queries \in Nat
    /\ \A k \in DOMAIN m_processesByKey : m_processesByKey[k] \in Infos

SystemOK ==
    /\ created \in [Pids -> Nat]
    /\ tcreated \in [Tids -> Nat]
    /\ owner \in [Tids -> Pids]
    /\ clock \in Nat
    /\ \A tid \in Tids : /\ tcreated[tid] <= clock
                         /\ tcreated[tid] # 0 => created[owner[tid]] # 0

\* A known thread that still runs is one the last update with threads asked for.
KnownWereAsked ==
    /\ m_ThreadsPid \in Pids
    /\ \A t \in DOMAIN m_threadsByKey :
        /\ t = <<t[1], t[2]>>
        /\ t[1] \in 1 .. clock
        /\ t[2] \in Tids
        /\ tcreated[t[2]] = t[1] =>
             /\ owner[t[2]] > 0
             /\ m_ThreadsPid \in {0, owner[t[2]]}

\* The inductive invariants.
SnapshotInv == BuffersOK /\ SnapshotIntact /\ ProcessTimesAreThere
ThreadInv == SystemOK /\ KnownWereAsked /\ TerminatedThreadsHadEnded

-----------------------------------------------------------------------------
\* What Update makes of a process's object points to the new snapshot.
LEMMA BuiltFromSnapshot ==
    ASSUME NEW p \in Pointers, NEW key, BuffersOK
    PROVE  /\ BuildProcessInfo(key, p) \in Infos
           /\ BuildProcessInfo(key, p).NativeInfo = p
           /\ BuildProcessInfo(key, p).ExtendedInfo \in {p, Null}
<1>1. Null \in Pointers
  BY DEF Null, Pointers
<1>2. CASE key \in DOMAIN m_processesByKey
  <2>1. m_processesByKey[key] \in Infos
    BY <1>2 DEF BuffersOK
  <2> QED
    BY <1>2, <2>1 DEF BuildProcessInfo, Infos
<1>3. CASE key \notin DOMAIN m_processesByKey
  BY <1>1, <1>3 DEF BuildProcessInfo, Infos
<1> QED
  BY <1>2, <1>3

\* Filling the current buffer spoils no pointer into the other.
LEMMA OtherBufferKept ==
    ASSUME BuffersOK, SnapshotIntact, NEW n \in Nat, NEW k \in DOMAIN m_processesByKey
    PROVE  Good([m_Buffer EXCEPT ![m_BufIndex] = n], m_processesByKey[k].NativeInfo)
BY DEF BuffersOK, SnapshotIntact, Good

LEMMA SnapshotInit == Init => SnapshotInv
BY DEF Init, SnapshotInv, BuffersOK, SnapshotIntact, ProcessTimesAreThere, Empty

LEMMA SnapshotStep == SnapshotInv /\ [Next]_vars => SnapshotInv'
<1> SUFFICES ASSUME SnapshotInv, [Next]_vars PROVE SnapshotInv'
  OBVIOUS
<1> USE DEF SnapshotInv
<1>1. ASSUME NEW includeThreads \in BOOLEAN, NEW pid \in Pids \cup {0}, Update(includeThreads, pid)
      PROVE  SnapshotInv'
  <2> DEFINE p == [buffer |-> m_BufIndex, snapshot |-> queries + 1]
  <2>1. p \in Pointers
    BY DEF BuffersOK, Pointers
  <2>2. /\ m_processesByKey' = [k \in RunningProcesses |-> BuildProcessInfo(k, p)]
        /\ m_Buffer' = [m_Buffer EXCEPT ![m_BufIndex] = queries + 1]
        /\ m_BufIndex' = 1 - m_BufIndex
        /\ queries' = queries + 1
        /\ staleReads' = staleReads \cup Reads(m_Buffer', includeThreads, pid)
    BY <1>1 DEF Update, NextBuffer
  <2> HIDE DEF p
  <2>3. BuffersOK'
    BY <2>1, <2>2, BuiltFromSnapshot DEF BuffersOK
  <2>4. SnapshotIntact'
    <3>1. /\ p.buffer = m_BufIndex
          /\ p.snapshot = queries + 1
      BY DEF p
    <3>2. SUFFICES ASSUME NEW k \in RunningProcesses
                   PROVE  /\ Good(m_Buffer', m_processesByKey'[k].NativeInfo)
                          /\ m_processesByKey'[k].NativeInfo.buffer # m_BufIndex'
                          /\ m_processesByKey'[k].ExtendedInfo \in {m_processesByKey'[k].NativeInfo, Null}
      BY <2>2 DEF SnapshotIntact, Good
    <3>3. /\ m_processesByKey'[k].NativeInfo = p
          /\ m_processesByKey'[k].ExtendedInfo \in {p, Null}
      BY <2>1, <2>2, BuiltFromSnapshot
    <3> QED
      BY <2>2, <3>1, <3>3 DEF BuffersOK, Good
  <2>5. ProcessTimesAreThere'
    <3>1. "process" \notin Reads(m_Buffer', includeThreads, pid)
      <4>1. queries + 1 \in Nat
        BY DEF BuffersOK
      <4>2. \A k \in DOMAIN m_processesByKey : Good(m_Buffer', m_processesByKey[k].NativeInfo)
        BY <2>2, <4>1, OtherBufferKept
      <4> QED
        BY <4>2 DEF Reads
    <3> QED
      BY <2>2, <3>1 DEF ProcessTimesAreThere
  <2> QED
    BY <2>3, <2>4, <2>5
<1>2. CASE UpdateFails
  <2>1. /\ m_Buffer' = [m_Buffer EXCEPT ![m_BufIndex] = 0]
        /\ queries' = queries + 1
        /\ UNCHANGED <<m_BufIndex, m_processesByKey, staleReads>>
    BY <1>2 DEF UpdateFails, processVars
  <2>2. \A k \in DOMAIN m_processesByKey : Good(m_Buffer', m_processesByKey[k].NativeInfo)
    BY <2>1, OtherBufferKept
  <2> QED
    BY <2>1, <2>2 DEF BuffersOK, SnapshotIntact, ProcessTimesAreThere, Good
<1>3. CASE \/ \E key \in DOMAIN m_TerminatedProcesses : Detach(key)
           \/ \E pid \in Pids : StartProcess(pid) \/ ExitProcess(pid)
           \/ \E tid \in Tids : ExitThread(tid) \/ \E pid \in Pids : StartThread(tid, pid)
           \/ UNCHANGED vars
  <2>1. UNCHANGED <<m_Buffer, m_BufIndex, queries, m_processesByKey, staleReads>>
    BY <1>3, Zenon DEF Detach, StartProcess, ExitProcess, StartThread, ExitThread,
                       vars, processVars, historyVars
  <2> QED
    BY <2>1 DEF BuffersOK, SnapshotIntact, ProcessTimesAreThere, Good
<1> QED
  BY <1>1, <1>2, <1>3 DEF Next

\* "if it fails, the previous snapshot (and the pointers into its buffer) stays
\* intact" (ProcessManager::Update): every listed process points into a snapshot
\* that is still there, in the buffer the next update leaves alone.
THEOREM SnapshotStaysIntact == Spec => []SnapshotIntact
<1>1. SnapshotInv => SnapshotIntact
  BY DEF SnapshotInv
<1> QED
  BY <1>1, SnapshotInit, SnapshotStep, PTL DEF Spec

\* The times of a process at the previous update are read while its snapshot is
\* still there (ProcessManager::Update's CPU times).
THEOREM ProcessTimesAreRead == Spec => []ProcessTimesAreThere
<1>1. SnapshotInv => ProcessTimesAreThere
  BY DEF SnapshotInv
<1> QED
  BY <1>1, SnapshotInit, SnapshotStep, PTL DEF Spec

-----------------------------------------------------------------------------
LEMMA InThreadsOf ==
    ASSUME NEW pid, NEW t, t \in ThreadsOf(pid)
    PROVE  t = <<tcreated[t[2]], t[2]>> /\ t[2] \in Tids /\ tcreated[t[2]] # 0 /\ owner[t[2]] = pid
BY DEF ThreadsOf

\* An update reports as terminated only threads that do not run.
LEMMA UpdatedThreads ==
    ASSUME ThreadInv, NEW pid \in Pids, NEW p, UpdateThreads(pid, p),
           UNCHANGED <<created, tcreated, owner, clock>>
    PROVE  KnownWereAsked' /\ TerminatedThreadsHadEnded'
<1> USE ConstantsAssumption DEF ThreadInv
<1>1. KnownWereAsked'
  <2>1. DOMAIN m_threadsByKey' = AskedThreads(pid) /\ m_ThreadsPid' = pid
    BY DEF UpdateThreads
  <2>2. SUFFICES ASSUME NEW t \in AskedThreads(pid)
                 PROVE  /\ t = <<t[1], t[2]>>
                        /\ t[1] \in 1 .. clock
                        /\ t[2] \in Tids
                        /\ owner[t[2]] > 0
                        /\ pid \in {0, owner[t[2]]}
    BY <2>1 DEF KnownWereAsked
  <2>3. PICK q \in Pids : q > 0 /\ pid \in {0, q} /\ t \in ThreadsOf(q)
    BY DEF AskedThreads
  <2> QED
    BY <2>3, InThreadsOf DEF SystemOK
<1>2. TerminatedThreadsHadEnded'
  <2>1. /\ DOMAIN m_TerminatedThreads' \subseteq DOMAIN KnownThreads(pid) \ AskedThreads(pid)
        /\ seenThreads' = RunningThreads
    BY DEF UpdateThreads, Only
  <2>2. SUFFICES ASSUME NEW t \in DOMAIN KnownThreads(pid), t \in RunningThreads
                 PROVE  t \in AskedThreads(pid)
    BY <2>1 DEF TerminatedThreadsHadEnded
  <2>3. PICK q \in Pids : t \in ThreadsOf(q)
    BY <2>2 DEF RunningThreads
  <2>4. t[2] \in Tids /\ tcreated[t[2]] = t[1] /\ tcreated[t[2]] # 0 /\ owner[t[2]] = q
    BY <2>3, InThreadsOf
  <2>5. pid = m_ThreadsPid /\ t \in DOMAIN m_threadsByKey
    BY <2>2 DEF KnownThreads, Empty
  <2>6. q > 0 /\ pid \in {0, q}
    BY <2>4, <2>5 DEF KnownWereAsked
  <2>7. created[q] # 0
    BY <2>4 DEF SystemOK
  <2> QED
    BY <2>3, <2>6, <2>7 DEF AskedThreads
<1> QED
  BY <1>1, <1>2

LEMMA ThreadInit == Init => ThreadInv
BY ConstantsAssumption
   DEF Init, ThreadInv, SystemOK, KnownWereAsked, TerminatedThreadsHadEnded, Empty

LEMMA ThreadStep == ThreadInv /\ [Next]_vars => ThreadInv'
<1> SUFFICES ASSUME ThreadInv, [Next]_vars PROVE ThreadInv'
  OBVIOUS
<1> USE ConstantsAssumption
<1>0. SystemOK /\ KnownWereAsked /\ TerminatedThreadsHadEnded
  BY DEF ThreadInv
<1>1. ASSUME NEW includeThreads \in BOOLEAN, NEW pid \in Pids, Update(includeThreads, pid)
      PROVE  ThreadInv'
  <2>1. UNCHANGED <<created, tcreated, owner, clock>>
    BY <1>1 DEF Update, systemVars
  <2>2. SystemOK'
    BY <1>0, <2>1 DEF SystemOK
  <2>3. CASE includeThreads
    <3>1. PICK p : UpdateThreads(pid, p)
      BY <1>1, <2>3 DEF Update
    <3>2. KnownWereAsked' /\ TerminatedThreadsHadEnded'
      BY <2>1, <3>1, UpdatedThreads
    <3> QED
      BY <2>2, <3>2 DEF ThreadInv
  <2>4. CASE ~includeThreads
    <3>1. UNCHANGED <<m_threadsByKey, m_ThreadsPid, m_TerminatedThreads, seenThreads>>
      BY <1>1, <2>4 DEF Update, threadVars
    <3> QED
      BY <1>0, <2>1, <2>2, <3>1 DEF ThreadInv, KnownWereAsked, TerminatedThreadsHadEnded
  <2> QED
    BY <2>3, <2>4
<1>2. CASE UpdateFails \/ (\E key \in DOMAIN m_TerminatedProcesses : Detach(key)) \/ UNCHANGED vars
  <2>1. UNCHANGED <<created, tcreated, owner, clock, m_threadsByKey, m_ThreadsPid,
                    m_TerminatedThreads, seenThreads>>
    BY <1>2, Zenon DEF UpdateFails, Detach, vars, threadVars, systemVars, historyVars
  <2> QED
    BY <1>0, <2>1 DEF ThreadInv, SystemOK, KnownWereAsked, TerminatedThreadsHadEnded
<1>3. ASSUME NEW pid \in Pids, StartProcess(pid)
      PROVE  ThreadInv'
  <2>1. /\ clock' = clock + 1
        /\ created' = [created EXCEPT ![pid] = clock + 1]
        /\ UNCHANGED <<tcreated, owner, m_threadsByKey, m_ThreadsPid, m_TerminatedThreads, seenThreads>>
    BY <1>3 DEF StartProcess, threadVars, historyVars
  <2>2. SystemOK'
    BY <1>0, <2>1 DEF SystemOK
  <2>3. KnownWereAsked'
    BY <1>0, <2>1 DEF SystemOK, KnownWereAsked
  <2> QED
    BY <1>0, <2>1, <2>2, <2>3 DEF ThreadInv, TerminatedThreadsHadEnded
<1>4. ASSUME NEW pid \in Pids, ExitProcess(pid)
      PROVE  ThreadInv'
  <2>1. /\ created' = [created EXCEPT ![pid] = 0]
        /\ tcreated' = [tid \in Tids |-> IF owner[tid] = pid THEN 0 ELSE tcreated[tid]]
        /\ UNCHANGED <<owner, clock, m_threadsByKey, m_ThreadsPid, m_TerminatedThreads, seenThreads>>
    BY <1>4 DEF ExitProcess, threadVars, historyVars
  <2>2. SystemOK'
    BY <1>0, <2>1 DEF SystemOK
  <2>3. KnownWereAsked'
    BY <1>0, <2>1 DEF SystemOK, KnownWereAsked
  <2> QED
    BY <1>0, <2>1, <2>2, <2>3 DEF ThreadInv, TerminatedThreadsHadEnded
<1>5. ASSUME NEW tid \in Tids, ExitThread(tid)
      PROVE  ThreadInv'
  <2>1. /\ tcreated' = [tcreated EXCEPT ![tid] = 0]
        /\ UNCHANGED <<created, owner, clock, m_threadsByKey, m_ThreadsPid, m_TerminatedThreads, seenThreads>>
    BY <1>5 DEF ExitThread, threadVars, historyVars
  <2>2. SystemOK'
    BY <1>0, <2>1 DEF SystemOK
  <2>3. KnownWereAsked'
    BY <1>0, <2>1 DEF SystemOK, KnownWereAsked
  <2> QED
    BY <1>0, <2>1, <2>2, <2>3 DEF ThreadInv, TerminatedThreadsHadEnded
<1>6. ASSUME NEW tid \in Tids, NEW pid \in Pids, StartThread(tid, pid)
      PROVE  ThreadInv'
  <2>1. /\ clock' = clock + 1
        /\ created[pid] # 0
        /\ tcreated' = [tcreated EXCEPT ![tid] = clock + 1]
        /\ owner' = [owner EXCEPT ![tid] = pid]
        /\ UNCHANGED <<created, m_threadsByKey, m_ThreadsPid, m_TerminatedThreads, seenThreads>>
    BY <1>6 DEF StartThread, threadVars, historyVars
  <2>2. SystemOK'
    BY <1>0, <2>1 DEF SystemOK
  <2>3. KnownWereAsked'
    BY <1>0, <2>1 DEF SystemOK, KnownWereAsked
  <2> QED
    BY <1>0, <2>1, <2>2, <2>3 DEF ThreadInv, TerminatedThreadsHadEnded
<1> QED
  BY <1>1, <1>2, <1>3, <1>4, <1>5, <1>6 DEF Next

\* A thread reported as terminated did not run at the update that found it gone
\* (ProcessManager::Update, which starts over for another process's threads).
THEOREM TerminatedThreadsEnded == Spec => []TerminatedThreadsHadEnded
<1>1. ThreadInv => TerminatedThreadsHadEnded
  BY DEF ThreadInv
<1> QED
  BY <1>1, ThreadInit, ThreadStep, PTL DEF Spec
-----------------------------------------------------------------------------
\* A client's list takes what an update reports as new, and leaves what it
\* reports as terminated.
LEMMA MirrorStep == MirrorIsSnapshot /\ [Next]_vars => MirrorIsSnapshot'
<1> SUFFICES ASSUME MirrorIsSnapshot, [Next]_vars PROVE MirrorIsSnapshot'
  OBVIOUS
<1>1. ASSUME NEW includeThreads \in BOOLEAN, NEW pid \in Pids \cup {0}, Update(includeThreads, pid)
      PROVE  MirrorIsSnapshot'
  <2>1. /\ DOMAIN m_processesByKey' = RunningProcesses
        /\ m_NewProcesses' = RunningProcesses \ DOMAIN m_processesByKey
        /\ m_TerminatedProcesses' = Only(m_processesByKey, DOMAIN m_processesByKey \ RunningProcesses)
        /\ mirror' = (mirror \ DOMAIN m_TerminatedProcesses') \cup m_NewProcesses'
    BY <1>1 DEF Update, NewOnes
  <2>2. DOMAIN m_TerminatedProcesses' = DOMAIN m_processesByKey \ RunningProcesses
    BY <2>1 DEF Only
  <2> QED
    BY <2>1, <2>2 DEF MirrorIsSnapshot
<1>2. CASE \/ UpdateFails
           \/ \E key \in DOMAIN m_TerminatedProcesses : Detach(key)
           \/ \E pid \in Pids : StartProcess(pid) \/ ExitProcess(pid)
           \/ \E tid \in Tids : ExitThread(tid) \/ \E pid \in Pids : StartThread(tid, pid)
           \/ UNCHANGED vars
  <2>1. UNCHANGED <<m_processesByKey, mirror>>
    BY <1>2, Zenon DEF UpdateFails, Detach, StartProcess, ExitProcess, StartThread, ExitThread,
                       vars, processVars, historyVars
  <2> QED
    BY <2>1 DEF MirrorIsSnapshot
<1> QED
  BY <1>1, <1>2 DEF Next

\* A client that applies the new and the terminated processes of each update has
\* the manager's processes (ProcessManager::Update's m_NewProcesses and
\* m_TerminatedProcesses), though IDs are reused and queries fail.
THEOREM MirrorStaysSnapshot == Spec => []MirrorIsSnapshot
<1>1. Init => MirrorIsSnapshot
  BY DEF Init, MirrorIsSnapshot, Empty
<1> QED
  BY <1>1, MirrorStep, PTL DEF Spec
-----------------------------------------------------------------------------
\* The system's clock is ahead of all that was created, within its bound.
TypeInv ==
    /\ TypeOK
    /\ queries \in 0 .. MaxSnapshots
    /\ clock \in 1 .. MaxTime
    /\ created \in [Pids -> 0 .. clock]
    /\ tcreated \in [Tids -> 0 .. clock]

LEMMA RunningAreKeys == ASSUME TypeInv PROVE RunningProcesses \subseteq Keys
<1> SUFFICES ASSUME NEW p \in RunningProcesses PROVE p \in Keys
  OBVIOUS
<1>1. PICK pid \in Pids : created[pid] # 0 /\ p = <<created[pid], pid>>
  BY DEF RunningProcesses
<1>2. created[pid] \in 0 .. clock /\ clock \in 1 .. MaxTime
  BY <1>1 DEF TypeInv
<1>3. created[pid] \in 1 .. MaxTime
  BY <1>1, <1>2, ConstantsAssumption
<1> QED
  BY <1>1, <1>3 DEF Keys

LEMMA AskedAreKeys == ASSUME TypeInv, NEW pid PROVE AskedThreads(pid) \subseteq Keys
<1> SUFFICES ASSUME NEW t \in AskedThreads(pid) PROVE t \in Keys
  OBVIOUS
<1>1. PICK q : t \in ThreadsOf(q)
  BY DEF AskedThreads
<1>2. t = <<tcreated[t[2]], t[2]>> /\ t[2] \in Tids /\ tcreated[t[2]] # 0
  BY <1>1, InThreadsOf
<1>3. tcreated[t[2]] \in 1 .. MaxTime
  BY <1>2, ConstantsAssumption DEF TypeInv
<1> QED
  BY <1>2, <1>3 DEF Keys

LEMMA TypeInit == Init => TypeInv
BY ConstantsAssumption DEF Init, TypeInv, TypeOK, Empty

LEMMA TypeStep == TypeInv /\ [Next]_vars => TypeInv'
<1> SUFFICES ASSUME TypeInv, [Next]_vars PROVE TypeInv'
  OBVIOUS
<1> USE ConstantsAssumption
<1>1. ASSUME NEW includeThreads \in BOOLEAN, NEW pid \in Pids, Update(includeThreads, pid)
      PROVE  TypeInv'
  <2>1. /\ queries < MaxSnapshots
        /\ queries' = queries + 1
        /\ m_Buffer' = [m_Buffer EXCEPT ![m_BufIndex] = queries + 1]
        /\ m_BufIndex' = 1 - m_BufIndex
        /\ DOMAIN m_processesByKey' = RunningProcesses
        /\ m_NewProcesses' \subseteq RunningProcesses
        /\ DOMAIN m_TerminatedProcesses' \subseteq DOMAIN m_processesByKey
        /\ UNCHANGED <<created, tcreated, owner, clock>>
    BY <1>1 DEF Update, NextBuffer, NewOnes, Only, systemVars
  <2>2. /\ queries' \in 0 .. MaxSnapshots
        /\ m_BufIndex' \in {0, 1}
        /\ m_Buffer' \in [{0, 1} -> 0 .. MaxSnapshots]
    BY <2>1 DEF TypeInv, TypeOK
  <2>3. /\ DOMAIN m_processesByKey' \subseteq Keys
        /\ m_NewProcesses' \subseteq DOMAIN m_processesByKey'
        /\ DOMAIN m_TerminatedProcesses' \subseteq Keys
    BY <2>1, RunningAreKeys DEF TypeInv, TypeOK
  <2>4. /\ DOMAIN m_threadsByKey' = m_Threads'
        /\ m_NewThreads' \subseteq m_Threads'
        /\ m_Threads' \subseteq Keys
        /\ m_ThreadsPid' \in Pids \cup {0}
    <3>1. CASE includeThreads
      <4>1. PICK p : UpdateThreads(pid, p)
        BY <1>1, <3>1 DEF Update
      <4> QED
        BY <4>1, AskedAreKeys DEF UpdateThreads
    <3>2. CASE ~includeThreads
      <4>1. UNCHANGED threadVars
        BY <1>1, <3>2 DEF Update
      <4> QED
        BY <4>1 DEF threadVars, TypeInv, TypeOK
    <3> QED
      BY <3>1, <3>2
  <2>5. TypeOK'
    BY <2>2, <2>3, <2>4 DEF TypeOK, Keys
  <2> QED
    BY <2>1, <2>2, <2>5 DEF TypeInv
<1>2. CASE UpdateFails
  <2>1. /\ queries' \in 0 .. MaxSnapshots
        /\ m_Buffer' \in [{0, 1} -> 0 .. MaxSnapshots]
        /\ UNCHANGED <<m_BufIndex, processVars, threadVars, systemVars>>
    BY <1>2 DEF UpdateFails, TypeInv, TypeOK
  <2> QED
    BY <2>1 DEF TypeInv, TypeOK, Keys, processVars, threadVars, systemVars
<1>3. ASSUME NEW key \in DOMAIN m_TerminatedProcesses, Detach(key)
      PROVE  TypeInv'
  <2>1. /\ DOMAIN m_TerminatedProcesses' = DOMAIN m_TerminatedProcesses
        /\ UNCHANGED <<m_Buffer, m_BufIndex, m_processesByKey, m_NewProcesses, threadVars, systemVars, historyVars>>
    BY <1>3 DEF Detach
  <2> QED
    BY <2>1 DEF TypeInv, TypeOK, Keys, threadVars, systemVars, historyVars
<1>4. CASE \/ \E pid \in Pids : StartProcess(pid) \/ ExitProcess(pid)
           \/ \E tid \in Tids : ExitThread(tid) \/ \E pid \in Pids : StartThread(tid, pid)
  <2>1. UNCHANGED <<m_Buffer, m_BufIndex, processVars, threadVars, historyVars>>
    BY <1>4, Zenon DEF StartProcess, ExitProcess, StartThread, ExitThread
  <2>2. TypeOK'
    BY <2>1 DEF TypeInv, TypeOK, Keys, processVars, threadVars
  <2>3. /\ clock' \in 1 .. MaxTime
        /\ created' \in [Pids -> 0 .. clock']
        /\ tcreated' \in [Tids -> 0 .. clock']
    <3>1. ASSUME NEW pid \in Pids, StartProcess(pid) \/ ExitProcess(pid)
          PROVE  /\ clock' \in 1 .. MaxTime
                 /\ created' \in [Pids -> 0 .. clock']
                 /\ tcreated' \in [Tids -> 0 .. clock']
      BY <3>1 DEF StartProcess, ExitProcess, TypeInv
    <3>2. ASSUME NEW tid \in Tids, ExitThread(tid) \/ \E pid \in Pids : StartThread(tid, pid)
          PROVE  /\ clock' \in 1 .. MaxTime
                 /\ created' \in [Pids -> 0 .. clock']
                 /\ tcreated' \in [Tids -> 0 .. clock']
      BY <3>2 DEF StartThread, ExitThread, TypeInv
    <3> QED
      BY <1>4, <3>1, <3>2
  <2>4. queries' = queries
    BY <2>1 DEF historyVars
  <2> QED
    BY <2>2, <2>3, <2>4 DEF TypeInv
<1>5. CASE UNCHANGED vars
  BY <1>5 DEF vars, TypeInv, TypeOK, Keys, processVars, threadVars, systemVars, historyVars
<1> QED
  BY <1>1, <1>2, <1>3, <1>4, <1>5 DEF Next

\* The snapshots, lists and the process whose threads were taken keep their types,
\* and what is new is among what is listed (ProcessManager::Update).
THEOREM TypeCorrect == Spec => []TypeOK
<1>1. TypeInv => TypeOK
  BY DEF TypeInv
<1> QED
  BY <1>1, TypeInit, TypeStep, PTL DEF Spec
=============================================================================
