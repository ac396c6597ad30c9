--------------------------- MODULE TrackersProofs ---------------------------
(***************************************************************************)
(* Proofs about the trackers, of any number of processes, sessions, files, *)
(* devices, events and processors: the names of their trace sessions and   *)
(* who stops them, the processes whose exits are returned and their        *)
(* creators, the files' names, the usage of GPUs that restart, the roles   *)
(* in messages, the modules of an address space that changes, the bytes of *)
(* connections.  A behaviour of MCTrackers is one tracker's; each has an   *)
(* invariant of its own, of which its theorems follow.                     *)
(***************************************************************************)
EXTENDS MCTrackers, Sequences, FiniteSetTheorems, SequenceTheorems, WellFoundedInduction, TLAPS

-----------------------------------------------------------------------------
(* The trackers' trace sessions (EtwSession).                                *)

\* a process number is one process's, and only a process has a tracker at work
ProcessInv ==
    /\ created \in Nat
    /\ process \in [PidsInUse -> Nat]
    /\ \A id \in PidsInUse : process[id] <= created
    /\ \A a, b \in PidsInUse : process[a] = process[b] /\ process[a] # 0 => a = b
    /\ DOMAIN pc = PidsInUse /\ DOMAIN listed = PidsInUse
    /\ DOMAIN doomed = PidsInUse /\ DOMAIN orphaned = PidsInUse
    /\ \A id \in PidsInUse : pc[id] # "stopped" => process[id] # 0

\* a name about to be stopped is a tracker's of a process that is gone
SessionInv ==
    /\ ProcessInv
    /\ DOMAIN sessions \subseteq Session!Names
    /\ \A p \in PidsInUse :
         /\ \A n \in listed[p] : n \in Session!Names /\ n.digits # 0
         /\ pc[p] # "doom" => doomed[p] = Session!NoName
         /\ pc[p] = "doom" => doomed[p] \in Session!Names /\ doomed[p].digits # 0
         /\ \A id \in PidsInUse : doomed[p] = Session!Name(id) => process[id] = 0
         /\ pc[p] = "running" => Session!Name(p) \in DOMAIN sessions /\ sessions[Session!Name(p)] = process[p]
         /\ pc[p] = "retry" => Session!Name(p) \notin DOMAIN sessions

LEMMA NamesDiffer == \A a, b \in PidsInUse : Session!Name(a) = Session!Name(b) => a = b
  BY DEF Session!Name

LEMMA OthersDiffer ==
  /\ \A id \in PidsInUse : Session!Name(id).digits = id /\ id # 0 /\ Session!Name(id) \notin Others
  /\ Session!NoName.digits = 0
  /\ \A n \in Others : n.digits = 0 /\ n.rest # ""
  BY SessionAssumption DEF Session!Name, Session!NoName

LEMMA GoneIsFree ==
  ASSUME NEW n \in Session!Names, n.digits # 0, Session!Gone(n.digits), NEW id \in PidsInUse, n = Session!Name(id)
  PROVE  process[id] = 0
  BY OthersDiffer DEF Session!Gone, Session!NoProcess

LEMMA ProcessStep == ProcessInv /\ [Session!Next]_Session!sessionVars => ProcessInv'
<1> SUFFICES ASSUME ProcessInv, [Session!Next]_Session!sessionVars PROVE ProcessInv'
  OBVIOUS
<1> USE DEF ProcessInv, Session!NoProcess
<1>1. ASSUME NEW id \in PidsInUse, Session!Spawn(id) PROVE ProcessInv'
  BY <1>1 DEF Session!Spawn
<1>2. ASSUME NEW id \in PidsInUse, Session!End(id) PROVE ProcessInv'
  BY <1>2 DEF Session!End
<1>3. ASSUME NEW id \in PidsInUse, Session!List(id) PROVE ProcessInv'
  BY <1>3 DEF Session!List
<1>4. ASSUME NEW id \in PidsInUse, Session!Look(id) PROVE ProcessInv'
  BY <1>4 DEF Session!Look
<1>5. ASSUME NEW id \in PidsInUse, Session!StopOrphan(id) PROVE ProcessInv'
  BY <1>5 DEF Session!StopOrphan
<1>6. ASSUME NEW id \in PidsInUse, Session!StartTrace(id) PROVE ProcessInv'
  BY <1>6 DEF Session!StartTrace, Session!Trace
<1>7. ASSUME NEW id \in PidsInUse, Session!StopExisting(id) PROVE ProcessInv'
  BY <1>7 DEF Session!StopExisting
<1>8. ASSUME NEW id \in PidsInUse, Session!StartAgain(id) PROVE ProcessInv'
  BY <1>8 DEF Session!StartAgain, Session!Trace
<1>9. ASSUME NEW id \in PidsInUse, Session!Stop(id) PROVE ProcessInv'
  BY <1>9 DEF Session!Stop
<1>10. ASSUME NEW n \in Others, Session!OtherStart(n) PROVE ProcessInv'
  BY <1>10 DEF Session!OtherStart
<1>11. CASE UNCHANGED Session!sessionVars
  BY <1>11 DEF Session!sessionVars
<1> QED
  BY <1>1, <1>2, <1>3, <1>4, <1>5, <1>6, <1>7, <1>8, <1>9, <1>10, <1>11 DEF Session!Next

\* The sessions after a name was added or taken away.
LEMMA SessionsAdded ==
  ASSUME NEW n, NEW owner, sessions' = Session!Added(n, owner)
  PROVE  /\ DOMAIN sessions' = DOMAIN sessions \cup {n}
         /\ sessions'[n] = owner
         /\ \A s \in DOMAIN sessions : s # n => sessions'[s] = sessions[s]
  BY DEF Session!Added

LEMMA SessionsWithout ==
  ASSUME NEW n, sessions' = Session!Without(n)
  PROVE  /\ DOMAIN sessions' = DOMAIN sessions \ {n}
         /\ \A s \in DOMAIN sessions' : sessions'[s] = sessions[s]
  BY DEF Session!Without, Session!Restrict

\* Trace starts the session of its own name at most.
LEMMA TraceStarts ==
  ASSUME ProcessInv, NEW id \in PidsInUse, NEW existing \in {"exists", "blocked"}, Session!Trace(id, existing)
  PROVE  /\ \A p \in PidsInUse \ {id} : pc'[p] = pc[p]
         /\ pc'[id] \in {existing, "stopped", "running"}
         /\ pc'[id] = "running" => sessions' = Session!Added(Session!Name(id), process[id])
         /\ pc'[id] # "running" => sessions' = sessions
         /\ pc'[id] = existing => Session!Name(id) \in DOMAIN sessions
  BY DEF Session!Trace, ProcessInv

LEMMA SessionStep == SessionInv /\ [Session!Next]_Session!sessionVars => SessionInv'
<1> SUFFICES ASSUME SessionInv, [Session!Next]_Session!sessionVars PROVE SessionInv'
  OBVIOUS
<1>0. ProcessInv /\ ProcessInv'
  BY ProcessStep DEF SessionInv
<1> USE DEF SessionInv, Session!NoProcess
<1>1. ASSUME NEW id \in PidsInUse, Session!Spawn(id) PROVE SessionInv'
  <2>1. /\ UNCHANGED <<sessions, pc, listed, doomed>>
        /\ \A p \in PidsInUse : doomed[p] # Session!Name(id)
        /\ process[id] = 0
        /\ \A p \in PidsInUse \ {id} : process'[p] = process[p]
    BY <1>1, <1>0 DEF Session!Spawn, ProcessInv
  <2> QED
    BY <1>0, <2>1, NamesDiffer DEF ProcessInv
<1>2. ASSUME NEW id \in PidsInUse, Session!End(id) PROVE SessionInv'
  <2>1. /\ UNCHANGED sessions
        /\ \A p \in PidsInUse \ {id} :
             /\ process'[p] = process[p] /\ pc'[p] = pc[p] /\ listed'[p] = listed[p] /\ doomed'[p] = doomed[p]
        /\ process'[id] = 0 /\ pc'[id] = "stopped" /\ listed'[id] = {} /\ doomed'[id] = Session!NoName
    BY <1>2, <1>0 DEF Session!End, ProcessInv
  <2>2. \A p \in PidsInUse : Session!NoName # Session!Name(p)
    BY OthersDiffer
  <2> QED
    BY <1>0, <2>1, <2>2
<1>3. ASSUME NEW id \in PidsInUse, Session!List(id) PROVE SessionInv'
  <2>1. /\ UNCHANGED <<process, sessions, doomed>> /\ pc[id] = "stopped"
        /\ \A p \in PidsInUse \ {id} : pc'[p] = pc[p] /\ listed'[p] = listed[p]
        /\ pc'[id] = "sweep"
        /\ listed'[id] = listed[id] \/ listed'[id] = {n \in DOMAIN sessions : n.digits # 0}
    BY <1>3, <1>0 DEF Session!List, ProcessInv, Session!Numbered
  <2> QED
    BY <1>0, <2>1
<1>4. ASSUME NEW id \in PidsInUse, Session!Look(id) PROVE SessionInv'
  <2>1. PICK n \in listed[id] :
          /\ listed' = [listed EXCEPT ![id] = listed[id] \ {n}]
          /\ IF Session!Gone(n.digits)
             THEN pc' = [pc EXCEPT ![id] = "doom"] /\ doomed' = [doomed EXCEPT ![id] = n]
             ELSE UNCHANGED <<pc, doomed>>
    BY <1>4 DEF Session!Look, Session!Rest, Session!Stops
  <2>2. UNCHANGED <<process, sessions>> /\ pc[id] = "sweep"
    BY <1>4 DEF Session!Look
  <2>3. n \in Session!Names /\ n.digits # 0
    OBVIOUS
  <2>4. \A p \in PidsInUse : listed'[p] \subseteq listed[p]
    BY <2>1, <1>0 DEF ProcessInv
  <2>5. CASE Session!Gone(n.digits)
    <3>1. /\ \A p \in PidsInUse \ {id} : pc'[p] = pc[p] /\ doomed'[p] = doomed[p]
          /\ pc'[id] = "doom" /\ doomed'[id] = n
      BY <2>1, <2>5, <1>0 DEF ProcessInv
    <3>2. \A p \in PidsInUse : n = Session!Name(p) => process[p] = 0
      BY <2>3, <2>5, GoneIsFree
    <3> QED
      BY <1>0, <2>2, <2>3, <2>4, <3>1, <3>2
  <2>6. CASE ~Session!Gone(n.digits)
    BY <1>0, <2>1, <2>2, <2>4, <2>6
  <2> QED
    BY <2>5, <2>6
<1>5. ASSUME NEW id \in PidsInUse, Session!StopOrphan(id) PROVE SessionInv'
  <2>1. /\ UNCHANGED <<process, listed>> /\ pc[id] = "doom"
        /\ sessions' = Session!Without(doomed[id])
        /\ \A p \in PidsInUse \ {id} : pc'[p] = pc[p] /\ doomed'[p] = doomed[p]
        /\ pc'[id] = "sweep" /\ doomed'[id] = Session!NoName
    BY <1>5, <1>0 DEF Session!StopOrphan, ProcessInv
  <2>2. \A p \in PidsInUse : pc[p] = "running" => doomed[id] # Session!Name(p)
    BY <1>0 DEF ProcessInv
  <2>3. \A p \in PidsInUse : Session!NoName # Session!Name(p)
    BY OthersDiffer
  <2>4. /\ DOMAIN sessions' = DOMAIN sessions \ {doomed[id]}
        /\ \A s \in DOMAIN sessions' : sessions'[s] = sessions[s]
    BY <2>1, SessionsWithout
  <2> QED
    BY <1>0, <2>1, <2>2, <2>3, <2>4
<1>6. ASSUME NEW id \in PidsInUse, NEW existing \in {"exists", "blocked"}, Session!Trace(id, existing),
             UNCHANGED <<process, created, listed, doomed>>, pc[id] \notin {"doom", "running"}
      PROVE  SessionInv'
  <2>1. /\ \A p \in PidsInUse \ {id} : pc'[p] = pc[p]
        /\ pc'[id] \in {"exists", "blocked", "stopped", "running"}
        /\ pc'[id] = "running" => sessions' = Session!Added(Session!Name(id), process[id])
        /\ pc'[id] # "running" => sessions' = sessions
    BY <1>0, <1>6, TraceStarts
  <2>2. CASE pc'[id] = "running"
    <3>1. /\ DOMAIN sessions' = DOMAIN sessions \cup {Session!Name(id)}
          /\ sessions'[Session!Name(id)] = process[id]
          /\ \A s \in DOMAIN sessions : s # Session!Name(id) => sessions'[s] = sessions[s]
      BY <2>1, <2>2, SessionsAdded, ZenonT(60)
    <3>2. Session!Name(id) \in Session!Names
      BY DEF Session!Names
    <3> QED
      BY <1>0, <1>6, <2>1, <2>2, <3>1, <3>2, NamesDiffer
  <2>3. CASE pc'[id] # "running"
    BY <1>0, <1>6, <2>1, <2>3
  <2> QED
    BY <2>2, <2>3
<1>7. ASSUME NEW id \in PidsInUse, Session!StopExisting(id) PROVE SessionInv'
  <2>1. /\ UNCHANGED <<process, listed, doomed>> /\ pc[id] = "exists"
        /\ sessions' = Session!Without(Session!Name(id))
        /\ \A p \in PidsInUse \ {id} : pc'[p] = pc[p]
        /\ pc'[id] = "retry"
    BY <1>7, <1>0 DEF Session!StopExisting, ProcessInv
  <2>2. /\ DOMAIN sessions' = DOMAIN sessions \ {Session!Name(id)}
        /\ \A s \in DOMAIN sessions' : sessions'[s] = sessions[s]
    BY <2>1, SessionsWithout
  <2> QED
    BY <1>0, <2>1, <2>2, NamesDiffer
<1>8. ASSUME NEW id \in PidsInUse, Session!Stop(id) PROVE SessionInv'
  <2>1. /\ UNCHANGED <<process, listed, doomed>> /\ pc[id] = "running"
        /\ DOMAIN sessions' = {n \in DOMAIN sessions : sessions[n] # process[id]}
        /\ \A s \in DOMAIN sessions' : sessions'[s] = sessions[s]
        /\ \A p \in PidsInUse \ {id} : pc'[p] = pc[p]
        /\ pc'[id] = "stopped"
    BY <1>8, <1>0 DEF Session!Stop, ProcessInv, Session!Restrict
  <2>2. process[id] # 0 /\ \A p \in PidsInUse : p # id => process[p] # process[id]
    BY <1>0, <2>1 DEF ProcessInv
  <2> QED
    BY <1>0, <2>1, <2>2
<1>9. ASSUME NEW n \in Others, Session!OtherStart(n) PROVE SessionInv'
  <2>1. /\ UNCHANGED <<process, pc, listed, doomed>> /\ n \notin DOMAIN sessions
        /\ sessions' = Session!Added(n, 0)
    BY <1>9 DEF Session!OtherStart
  <2>2. /\ DOMAIN sessions' = DOMAIN sessions \cup {n}
        /\ \A s \in DOMAIN sessions : s # n => sessions'[s] = sessions[s]
    BY <2>1, SessionsAdded
  <2>3. n \in Session!Names
    BY DEF Session!Names
  <2> QED
    BY <1>0, <2>1, <2>2, <2>3, OthersDiffer, ZenonT(60)
<1>10. CASE UNCHANGED Session!sessionVars
  BY <1>0, <1>10 DEF Session!sessionVars
<1>11. ASSUME NEW id \in PidsInUse, Session!StartTrace(id) \/ Session!StartAgain(id) PROVE SessionInv'
  BY <1>6, <1>11 DEF Session!StartTrace, Session!StartAgain
<1> QED
  BY <1>1, <1>2, <1>3, <1>4, <1>5, <1>7, <1>8, <1>9, <1>10, <1>11 DEF Session!Next

\* What could be listed is in what is left to look at, is about to be stopped, or was stopped.
OrphanInv ==
    \A p \in PidsInUse :
        /\ \A n \in orphaned[p] : n \in Session!Names /\ n.rest = "" /\ Session!Gone(n.digits)
        /\ pc[p] \notin {"sweep", "doom"} => orphaned[p] = {}
        /\ orphaned[p] \cap DOMAIN sessions \subseteq listed[p] \cup {doomed[p]}

\* A name without more after its digits is a tracker's.
LEMMA OrphansAreTrackers ==
  ASSUME NEW n \in Session!Names, n.rest = ""
  PROVE  n.digits # 0 /\ n.digits \in PidsInUse /\ n = Session!Name(n.digits)
  BY OthersDiffer DEF Session!Names, Session!Name

\* A session that comes is of a running process or of another component: no orphan.
LEMMA NoOrphanComes ==
  ASSUME OrphanInv, NEW p \in PidsInUse,
         NEW n, n \in Others \/ \E id \in PidsInUse : n = Session!Name(id) /\ process[id] # 0
  PROVE  n \notin orphaned[p]
<1>1. CASE n \in Others
  BY <1>1, OthersDiffer DEF OrphanInv
<1>2. ASSUME NEW id \in PidsInUse, n = Session!Name(id), process[id] # 0 PROVE n \notin orphaned[p]
  <2>1. n.digits = id
    BY <1>2, OthersDiffer
  <2>2. ~Session!Gone(n.digits)
    BY <1>2, <2>1 DEF Session!Gone, Session!NoProcess
  <2> QED
    BY <2>2 DEF OrphanInv
<1> QED
  BY <1>1, <1>2

LEMMA OrphanStep == SessionInv /\ OrphanInv /\ [Session!Next]_Session!sessionVars => OrphanInv'
<1> SUFFICES ASSUME SessionInv, OrphanInv, [Session!Next]_Session!sessionVars PROVE OrphanInv'
  OBVIOUS
<1>0. ProcessInv /\ ProcessInv' /\ SessionInv'
  BY ProcessStep, SessionStep DEF SessionInv
<1> USE DEF OrphanInv
<1>1. ASSUME NEW id \in PidsInUse, Session!Spawn(id) PROVE OrphanInv'
  <2>1. /\ UNCHANGED <<sessions, pc, listed, doomed>>
        /\ \A p \in PidsInUse : orphaned'[p] = orphaned[p] \ {Session!Name(id)}
        /\ \A p \in PidsInUse \ {id} : process'[p] = process[p]
    BY <1>1, <1>0 DEF Session!Spawn, ProcessInv
  <2>2. ASSUME NEW p \in PidsInUse, NEW n \in orphaned'[p] PROVE Session!Gone(n.digits)'
    <3>1. n \in orphaned[p] /\ n # Session!Name(id)
      BY <2>1, <2>2
    <3>2. n \in Session!Names /\ n.rest = "" /\ Session!Gone(n.digits)
      BY <3>1
    <3>3. n.digits # id
      BY <3>1, <3>2, OrphansAreTrackers
    <3> QED
      BY <2>1, <3>2, <3>3 DEF Session!Gone, Session!NoProcess
  <2>3. \A p \in PidsInUse : \A n \in orphaned'[p] : n \in orphaned[p]
    BY <2>1
  <2> QED
    BY <2>1, <2>2, <2>3 DEF Session!Names
<1>2. ASSUME NEW id \in PidsInUse, Session!End(id) PROVE OrphanInv'
  <2>1. /\ UNCHANGED sessions
        /\ \A p \in PidsInUse \ {id} :
             /\ process'[p] = process[p] /\ pc'[p] = pc[p] /\ listed'[p] = listed[p] /\ doomed'[p] = doomed[p]
             /\ orphaned'[p] = orphaned[p]
        /\ process'[id] = 0 /\ orphaned'[id] = {}
    BY <1>2, <1>0 DEF Session!End, ProcessInv, Session!NoProcess
  <2>2. \A i : Session!Gone(i) => Session!Gone(i)'
    BY <2>1 DEF Session!Gone, Session!NoProcess
  <2> QED
    BY <2>1, <2>2 DEF Session!Names
<1>3. ASSUME NEW id \in PidsInUse, Session!List(id) PROVE OrphanInv'
  <2>1. /\ UNCHANGED <<process, sessions, doomed>> /\ pc[id] = "stopped"
        /\ \A p \in PidsInUse \ {id} : pc'[p] = pc[p] /\ listed'[p] = listed[p] /\ orphaned'[p] = orphaned[p]
        /\ pc'[id] = "sweep"
        /\ \/ /\ listed'[id] = {n \in DOMAIN sessions : n.digits # 0}
              /\ orphaned'[id] = {n \in DOMAIN sessions : n.rest = "" /\ Session!Gone(n.digits)}
           \/ orphaned'[id] = orphaned[id]
    BY <1>3, <1>0 DEF Session!List, ProcessInv, Session!Numbered
  <2>2. \A i : Session!Gone(i) => Session!Gone(i)'
    BY <2>1 DEF Session!Gone
  <2>3. /\ \A n \in orphaned'[id] : n \in Session!Names /\ n.rest = "" /\ Session!Gone(n.digits)
        /\ orphaned'[id] \cap DOMAIN sessions \subseteq listed'[id]
    BY <2>1, OrphansAreTrackers DEF SessionInv
  <2> QED
    BY <2>1, <2>2, <2>3 DEF Session!Names
<1>4. ASSUME NEW id \in PidsInUse, Session!Look(id) PROVE OrphanInv'
  <2>1. PICK n \in listed[id] :
          /\ listed' = [listed EXCEPT ![id] = listed[id] \ {n}]
          /\ IF Session!Gone(n.digits)
             THEN pc' = [pc EXCEPT ![id] = "doom"] /\ doomed' = [doomed EXCEPT ![id] = n]
             ELSE UNCHANGED <<pc, doomed>>
    BY <1>4 DEF Session!Look, Session!Rest, Session!Stops
  <2>2. UNCHANGED <<process, sessions, orphaned>> /\ pc[id] = "sweep"
    BY <1>4 DEF Session!Look
  <2>3. \A i : Session!Gone(i) => Session!Gone(i)'
    BY <2>2 DEF Session!Gone
  <2>4. /\ \A p \in PidsInUse \ {id} : listed'[p] = listed[p] /\ pc'[p] = pc[p] /\ doomed'[p] = doomed[p]
        /\ listed'[id] = listed[id] \ {n}
        /\ pc'[id] \in {"sweep", "doom"}
        /\ Session!Gone(n.digits) => doomed'[id] = n
        /\ ~Session!Gone(n.digits) => doomed'[id] = doomed[id]
    BY <2>1, <2>2, <1>0 DEF ProcessInv
  <2>5. doomed[id] \notin orphaned[id]
    BY <2>2, OrphansAreTrackers, OthersDiffer DEF SessionInv
  <2>6. orphaned[id] \cap DOMAIN sessions \subseteq listed'[id] \cup {doomed'[id]}
    BY <2>4, <2>5
  <2> QED
    BY <2>2, <2>3, <2>4, <2>6 DEF Session!Names
<1>5. ASSUME NEW id \in PidsInUse, Session!StopOrphan(id) PROVE OrphanInv'
  <2>1. /\ UNCHANGED <<process, listed, orphaned>>
        /\ sessions' = Session!Without(doomed[id])
        /\ \A p \in PidsInUse \ {id} : pc'[p] = pc[p] /\ doomed'[p] = doomed[p]
        /\ pc'[id] = "sweep"
    BY <1>5, <1>0 DEF Session!StopOrphan, ProcessInv
  <2>2. DOMAIN sessions' = DOMAIN sessions \ {doomed[id]}
    BY <2>1, SessionsWithout
  <2>3. \A i : Session!Gone(i) => Session!Gone(i)'
    BY <2>1 DEF Session!Gone
  <2> QED
    BY <2>1, <2>2, <2>3 DEF Session!Names
<1>6. ASSUME NEW id \in PidsInUse, Session!StartTrace(id) PROVE OrphanInv'
  <2>1. /\ UNCHANGED <<process, listed, doomed>> /\ pc[id] = "sweep"
        /\ \A p \in PidsInUse \ {id} : pc'[p] = pc[p] /\ orphaned'[p] = orphaned[p]
        /\ orphaned'[id] = {}
        /\ sessions' = sessions \/ sessions' = Session!Added(Session!Name(id), process[id])
    BY <1>6, <1>0, TraceStarts DEF Session!StartTrace, ProcessInv
  <2>2. DOMAIN sessions' \subseteq DOMAIN sessions \cup {Session!Name(id)}
    BY <2>1, SessionsAdded
  <2>3. \A p \in PidsInUse : Session!Name(id) \notin orphaned[p]
    BY <1>0, <2>1, NoOrphanComes DEF ProcessInv
  <2>4. \A i : Session!Gone(i) => Session!Gone(i)'
    BY <2>1 DEF Session!Gone
  <2> QED
    BY <2>1, <2>2, <2>3, <2>4, ZenonT(60) DEF Session!Names
<1>7. ASSUME NEW id \in PidsInUse, Session!StopExisting(id) PROVE OrphanInv'
  <2>1. /\ UNCHANGED <<process, listed, doomed, orphaned>> /\ pc[id] = "exists"
        /\ sessions' = Session!Without(Session!Name(id))
        /\ \A p \in PidsInUse \ {id} : pc'[p] = pc[p]
    BY <1>7, <1>0 DEF Session!StopExisting, ProcessInv
  <2>2. DOMAIN sessions' \subseteq DOMAIN sessions
    BY <2>1, SessionsWithout
  <2>3. \A i : Session!Gone(i) => Session!Gone(i)'
    BY <2>1 DEF Session!Gone
  <2> QED
    BY <2>1, <2>2, <2>3 DEF Session!Names
<1>8. ASSUME NEW id \in PidsInUse, Session!StartAgain(id) PROVE OrphanInv'
  <2>1. /\ UNCHANGED <<process, listed, doomed, orphaned>> /\ pc[id] = "retry"
        /\ \A p \in PidsInUse \ {id} : pc'[p] = pc[p]
        /\ sessions' = sessions \/ sessions' = Session!Added(Session!Name(id), process[id])
    BY <1>8, <1>0, TraceStarts DEF Session!StartAgain, ProcessInv
  <2>2. DOMAIN sessions' \subseteq DOMAIN sessions \cup {Session!Name(id)}
    BY <2>1, SessionsAdded
  <2>3. \A p \in PidsInUse : Session!Name(id) \notin orphaned[p]
    BY <1>0, <2>1, NoOrphanComes DEF ProcessInv
  <2>4. \A i : Session!Gone(i) => Session!Gone(i)'
    BY <2>1 DEF Session!Gone
  <2> QED
    BY <2>1, <2>2, <2>3, <2>4, ZenonT(60) DEF Session!Names
<1>9. ASSUME NEW id \in PidsInUse, Session!Stop(id) PROVE OrphanInv'
  <2>1. /\ UNCHANGED <<process, listed, doomed, orphaned>> /\ pc[id] = "running"
        /\ DOMAIN sessions' \subseteq DOMAIN sessions
        /\ \A p \in PidsInUse \ {id} : pc'[p] = pc[p]
    BY <1>9, <1>0 DEF Session!Stop, ProcessInv, Session!Restrict
  <2>2. \A i : Session!Gone(i) => Session!Gone(i)'
    BY <2>1 DEF Session!Gone
  <2> QED
    BY <2>1, <2>2 DEF Session!Names
<1>10. ASSUME NEW n \in Others, Session!OtherStart(n) PROVE OrphanInv'
  <2>1. /\ UNCHANGED <<process, pc, listed, doomed, orphaned>>
        /\ sessions' = Session!Added(n, Session!NoProcess)
    BY <1>10 DEF Session!OtherStart
  <2>2. DOMAIN sessions' = DOMAIN sessions \cup {n} /\ \A p \in PidsInUse : n \notin orphaned[p]
    BY <2>1, SessionsAdded, NoOrphanComes
  <2>3. \A i : Session!Gone(i) => Session!Gone(i)'
    BY <2>1 DEF Session!Gone
  <2> QED
    BY <2>1, <2>2, <2>3, ZenonT(60) DEF Session!Names
<1>11. CASE UNCHANGED Session!sessionVars
  BY <1>11 DEF Session!sessionVars, Session!Gone, Session!Names
<1> QED
  BY <1>1, <1>2, <1>3, <1>4, <1>5, <1>6, <1>7, <1>8, <1>9, <1>10, <1>11 DEF Session!Next

\* The system has no more sessions than it allows, of processes it created.
SessionTypes ==
    /\ IsFiniteSet(DOMAIN sessions) /\ Cardinality(DOMAIN sessions) <= MaxSessions
    /\ \A n \in DOMAIN sessions : sessions[n] \in 0 .. created
    /\ \A p \in PidsInUse : pc[p] \in {"stopped", "sweep", "doom", "exists", "retry", "running"}

LEMMA SameCardinality == ASSUME NEW S PROVE Session!Cardinality(S) = Cardinality(S)
  BY Zenon DEF Session!Cardinality, Cardinality

LEMMA OneMoreSession ==
  ASSUME SessionTypes, Cardinality(DOMAIN sessions) # MaxSessions,
         NEW n, n \notin DOMAIN sessions, NEW owner \in 0 .. created, sessions' = Session!Added(n, owner)
  PROVE  /\ IsFiniteSet(DOMAIN sessions') /\ Cardinality(DOMAIN sessions') <= MaxSessions
         /\ \A s \in DOMAIN sessions' : sessions'[s] \in 0 .. created
<1>1. DOMAIN sessions' = DOMAIN sessions \cup {n}
  BY SessionsAdded
<1>2. /\ IsFiniteSet(DOMAIN sessions \cup {n})
      /\ Cardinality(DOMAIN sessions \cup {n}) = Cardinality(DOMAIN sessions) + 1
      /\ Cardinality(DOMAIN sessions) \in Nat
  BY FS_AddElement, FS_CardinalityType DEF SessionTypes
<1>3. Cardinality(DOMAIN sessions) + 1 <= MaxSessions
  <2>1. MaxSessions \in Nat
    BY SessionAssumption
  <2>2. Cardinality(DOMAIN sessions) <= MaxSessions
    BY DEF SessionTypes
  <2> QED
    BY <1>2, <2>1, <2>2
<1>4. ASSUME NEW s \in DOMAIN sessions' PROVE sessions'[s] \in 0 .. created
  BY <1>1, <1>4, SessionsAdded DEF SessionTypes
<1> QED
  BY <1>1, <1>2, <1>3, <1>4

LEMMA FewerSessions ==
  ASSUME SessionTypes, DOMAIN sessions' \subseteq DOMAIN sessions,
         \A s \in DOMAIN sessions' : sessions'[s] = sessions[s]
  PROVE  /\ IsFiniteSet(DOMAIN sessions') /\ Cardinality(DOMAIN sessions') <= MaxSessions
         /\ \A s \in DOMAIN sessions' : sessions'[s] \in 0 .. created
<1>1. /\ IsFiniteSet(DOMAIN sessions') /\ Cardinality(DOMAIN sessions') <= Cardinality(DOMAIN sessions)
      /\ Cardinality(DOMAIN sessions) \in Nat /\ Cardinality(DOMAIN sessions') \in Nat
  BY FS_Subset, FS_CardinalityType DEF SessionTypes
<1>2. Cardinality(DOMAIN sessions) <= MaxSessions /\ MaxSessions \in Nat
  BY SessionAssumption DEF SessionTypes
<1>3. Cardinality(DOMAIN sessions') <= MaxSessions
  BY <1>1, <1>2
<1> QED
  BY <1>1, <1>3 DEF SessionTypes

LEMMA SessionTypesStep == SessionInv /\ SessionTypes /\ [Session!Next]_Session!sessionVars => SessionTypes'
<1> SUFFICES ASSUME SessionInv, SessionTypes, [Session!Next]_Session!sessionVars PROVE SessionTypes'
  OBVIOUS
<1>0. ProcessInv /\ ProcessInv'
  BY ProcessStep DEF SessionInv
<1> DEFINE Steps == {"stopped", "sweep", "doom", "exists", "retry", "running"}
<1> DEFINE PcOK == \A p \in PidsInUse : pc[p] \in Steps
<1>1. ASSUME NEW id \in PidsInUse, Session!Spawn(id) \/ Session!End(id) PROVE SessionTypes'
  <2>1. /\ UNCHANGED sessions
        /\ created' \in Nat /\ created <= created'
        /\ PcOK'
    BY <1>0, <1>1 DEF Session!Spawn, Session!End, ProcessInv, SessionTypes
  <2> QED
    BY <1>0, <2>1 DEF SessionTypes, ProcessInv
<1>2. ASSUME NEW id \in PidsInUse, Session!List(id) \/ Session!Look(id) PROVE SessionTypes'
  <2>1. UNCHANGED <<sessions, created>>
    BY <1>2 DEF Session!List, Session!Look
  <2>2. CASE Session!List(id)
    <3>1. PcOK'
      BY <1>0, <2>2 DEF Session!List, ProcessInv, SessionTypes
    <3> QED
      BY <2>1, <3>1 DEF SessionTypes
  <2>3. CASE Session!Look(id)
    <3>1. pc' = pc \/ pc' = [pc EXCEPT ![id] = "doom"]
      BY <2>3 DEF Session!Look
    <3>2. PcOK'
      BY <1>0, <3>1 DEF ProcessInv, SessionTypes
    <3> QED
      BY <2>1, <3>2 DEF SessionTypes
  <2> QED
    BY <1>2, <2>2, <2>3
<1>3. ASSUME NEW id \in PidsInUse, Session!StopOrphan(id) \/ Session!StopExisting(id) \/ Session!Stop(id)
      PROVE  SessionTypes'
  <2>1. DOMAIN sessions' \subseteq DOMAIN sessions /\ \A s \in DOMAIN sessions' : sessions'[s] = sessions[s]
    <3>1. ASSUME NEW n, sessions' = Session!Without(n)
          PROVE  DOMAIN sessions' \subseteq DOMAIN sessions /\ \A s \in DOMAIN sessions' : sessions'[s] = sessions[s]
      BY <3>1, SessionsWithout
    <3>2. CASE Session!Stop(id)
      BY <3>2 DEF Session!Stop, Session!Restrict
    <3> QED
      BY <1>3, <3>1, <3>2 DEF Session!StopOrphan, Session!StopExisting
  <2>2. PcOK' /\ created' = created
    BY <1>0, <1>3 DEF Session!StopOrphan, Session!StopExisting, Session!Stop, ProcessInv, SessionTypes
  <2> QED
    BY <2>1, <2>2, FewerSessions DEF SessionTypes
<1>4. ASSUME NEW id \in PidsInUse, NEW existing \in {"exists", "blocked"}, Session!Trace(id, existing), created' = created,
             existing = "blocked" => pc[id] = "retry"
      PROVE  SessionTypes'
  <2>1. /\ \A p \in PidsInUse \ {id} : pc'[p] = pc[p]
        /\ pc'[id] \in {existing, "stopped", "running"}
        /\ pc'[id] = "running" => sessions' = Session!Added(Session!Name(id), process[id])
        /\ pc'[id] # "running" => sessions' = sessions
        /\ pc'[id] = existing => Session!Name(id) \in DOMAIN sessions
    BY <1>0, <1>4, TraceStarts
  <2>2. pc'[id] # "blocked"
    BY <1>4, <2>1 DEF SessionInv
  <2>3. PcOK'
    BY <2>1, <2>2 DEF SessionTypes
  <2>4. CASE pc'[id] = "running"
    <3>1. Session!Name(id) \notin DOMAIN sessions /\ Cardinality(DOMAIN sessions) # MaxSessions
      BY <1>0, <1>4, <2>4, SameCardinality DEF Session!Trace, ProcessInv
    <3>2. process[id] \in 0 .. created
      BY <1>0 DEF ProcessInv
    <3> QED
      BY <1>4, <2>1, <2>3, <2>4, <3>1, <3>2, OneMoreSession DEF SessionTypes
  <2>5. CASE pc'[id] # "running"
    BY <1>4, <2>1, <2>3, <2>5 DEF SessionTypes
  <2> QED
    BY <2>4, <2>5
<1>5. ASSUME NEW id \in PidsInUse, Session!StartTrace(id) \/ Session!StartAgain(id) PROVE SessionTypes'
  BY <1>4, <1>5 DEF Session!StartTrace, Session!StartAgain
<1>6. ASSUME NEW n \in Others, Session!OtherStart(n) PROVE SessionTypes'
  <2>1. /\ n \notin DOMAIN sessions /\ Cardinality(DOMAIN sessions) < MaxSessions
        /\ sessions' = Session!Added(n, 0) /\ UNCHANGED <<created, pc>>
    BY <1>6, SameCardinality DEF Session!OtherStart, Session!NoProcess
  <2>2. 0 \in 0 .. created /\ Cardinality(DOMAIN sessions) # MaxSessions
    <3>1. MaxSessions \in Nat
      BY SessionAssumption
    <3>2. Cardinality(DOMAIN sessions) \in Nat
      BY FS_CardinalityType DEF SessionTypes
    <3>3. created \in Nat
      BY <1>0 DEF ProcessInv
    <3> QED
      BY <2>1, <3>1, <3>2, <3>3
  <2>3. /\ IsFiniteSet(DOMAIN sessions') /\ Cardinality(DOMAIN sessions') <= MaxSessions
        /\ \A s \in DOMAIN sessions' : sessions'[s] \in 0 .. created
    BY <2>1, <2>2, OneMoreSession
  <2> QED
    BY <2>1, <2>3 DEF SessionTypes
<1>7. CASE UNCHANGED Session!sessionVars
  BY <1>7 DEF Session!sessionVars, SessionTypes
<1> QED
  BY <1>1, <1>2, <1>3, <1>5, <1>6, <1>7 DEF Session!Next

-----------------------------------------------------------------------------
LEMMA SessionInit == Session!Init => SessionInv /\ OrphanInv /\ SessionTypes
<1> SUFFICES ASSUME Session!Init PROVE SessionInv /\ OrphanInv /\ SessionTypes
  OBVIOUS
<1>1. ProcessInv
  BY DEF Session!Init, ProcessInv, Session!NoProcess
<1>2. DOMAIN sessions = {}
  BY DEF Session!Init
<1>3. SessionInv
  BY <1>1, <1>2, OthersDiffer DEF Session!Init, SessionInv
<1>4. OrphanInv
  BY DEF Session!Init, OrphanInv
<1>5. IsFiniteSet(DOMAIN sessions) /\ Cardinality(DOMAIN sessions) = 0
  BY <1>2, FS_EmptySet
<1>6. MaxSessions \in Nat
  BY SessionAssumption
<1>7. Cardinality(DOMAIN sessions) <= MaxSessions
  BY <1>5, <1>6
<1>8. \A p \in PidsInUse : pc[p] \in {"stopped", "sweep", "doom", "exists", "retry", "running"}
  BY DEF Session!Init
<1> QED
  BY <1>2, <1>3, <1>4, <1>5, <1>7, <1>8 DEF SessionTypes

LEMMA SessionConcludes ==
  ASSUME SessionInv, OrphanInv, SessionTypes
  PROVE  Session!TypeOK /\ Session!RunningHasSession /\ Session!OrphansAreStopped /\ Session!OthersAreLeftAlone
<1>1. Session!RunningHasSession
  BY DEF SessionInv, Session!RunningHasSession
<1>2. Session!OthersAreLeftAlone
  <2> SUFFICES ASSUME NEW id \in PidsInUse, doomed[id] \in Others PROVE FALSE
    BY DEF Session!OthersAreLeftAlone
  <2>1. doomed[id].digits = 0 /\ doomed[id].rest # ""
    BY OthersDiffer
  <2>2. doomed[id] = Session!NoName
    BY <2>1 DEF SessionInv
  <2>3. Session!NoName.rest = ""
    BY DEF Session!NoName
  <2> QED
    BY <2>1, <2>2, <2>3
<1>3. Session!OrphansAreStopped
  <2> SUFFICES ASSUME NEW id \in PidsInUse, pc[id] = "sweep", listed[id] = {}
               PROVE  orphaned[id] \cap DOMAIN sessions = {}
    BY DEF Session!OrphansAreStopped
  <2>1. doomed[id] = Session!NoName
    BY DEF SessionInv
  <2>2. doomed[id] \notin orphaned[id]
    BY <2>1, OrphansAreTrackers, OthersDiffer DEF OrphanInv
  <2> QED
    BY <2>2 DEF OrphanInv
<1>4. Session!TypeOK
  <2>1. /\ DOMAIN sessions \subseteq Session!Names
        /\ \A n \in DOMAIN sessions : sessions[n] \in 0 .. created
        /\ Session!Cardinality(DOMAIN sessions) <= MaxSessions
    BY SameCardinality DEF SessionInv, SessionTypes
  <2>2. ASSUME NEW id \in PidsInUse
        PROVE  /\ process[id] \in 0 .. created
               /\ pc[id] \in {"stopped", "sweep", "doom", "exists", "retry", "running"}
               /\ process[id] = Session!NoProcess => pc[id] = "stopped"
               /\ pc[id] = "doom" <=> doomed[id] # Session!NoName
               /\ listed[id] \subseteq Session!Names /\ orphaned[id] \subseteq Session!Names
    <3>1. process[id] \in 0 .. created /\ (process[id] = Session!NoProcess => pc[id] = "stopped")
      BY DEF SessionInv, ProcessInv, Session!NoProcess
    <3>2. pc[id] = "doom" <=> doomed[id] # Session!NoName
      BY OthersDiffer DEF SessionInv
    <3> QED
      BY <3>1, <3>2 DEF SessionInv, SessionTypes, OrphanInv
  <2> QED
    BY <2>1, <2>2 DEF Session!TypeOK
<1> QED
  BY <1>1, <1>2, <1>3, <1>4

-----------------------------------------------------------------------------
(* Who created which process, and the exits (ProcessCreation).               *)

StartOf(p) == <<p, "start">>
StopOf(p) == <<p, "stop">>

Creations == [creator : {"Parent", "OnBehalf", "Other"}, started : BOOLEAN, exit : Nat, taken : BOOLEAN]

\* what a creation is while the service runs in its first process
KindOf(m) == IF m.creator = m.parent THEN "Parent" ELSE IF m.creator = Service THEN "OnBehalf" ELSE "Other"

\* An event is logged once, when it happens; its process's exit is not yet forgotten while it is on its way.
EventInv ==
    /\ host = Service /\ now \in Nat \ {0}
    /\ DOMAIN state = Processes /\ DOMAIN made = Processes /\ exitTime \in [Processes -> Nat]
    /\ \A p \in Processes :
         /\ state[p] \in {"unborn", "running", "exited"}
         /\ exitTime[p] <= now
         /\ state[p] = "exited" <=> exitTime[p] # 0
         /\ state[p] # "unborn" => made[p].kind = KindOf(made[p])
         /\ StartOf(p) \in inFlight \cup known => state[p] # "unborn"
         /\ StopOf(p) \in inFlight \cup known => state[p] = "exited"
         /\ exitTime[p] # 0 /\ (StartOf(p) \in inFlight \/ StopOf(p) \in inFlight) => now - exitTime[p] <= ExitedKept
    /\ inFlight \cup known \subseteq Processes \X {"start", "stop"}
    /\ inFlight \cap known = {}

\* A record has what the events told that are not on their way; an exit handed out is a taken one for good.
RecordTells(p) ==
    /\ m_Creations[p] \in Creations
    /\ state[p] # "unborn"
    /\ m_Creations[p].started => StartOf(p) \notin inFlight /\ m_Creations[p].creator = made[p].kind
    /\ m_Creations[p].exit # 0 => StopOf(p) \notin inFlight /\ m_Creations[p].exit = exitTime[p]
    /\ m_Creations[p].taken => handed[p] = 1 /\ m_Creations[p].started /\ m_Creations[p].exit # 0
    /\ handed[p] = 1 => m_Creations[p].taken
HandedOnce(p) ==
    handed[p] = 1 => state[p] = "exited" /\ StartOf(p) \notin inFlight /\ StopOf(p) \notin inFlight
RecordInv ==
    /\ running \in BOOLEAN
    /\ ~running => DOMAIN m_Creations = {} /\ m_Creations = Creation!Empty /\ inFlight = {}
    /\ DOMAIN m_Creations \subseteq Processes
    /\ handed \in [Processes -> {0, 1}]
    /\ \A p \in DOMAIN m_Creations : RecordTells(p)
    /\ \A p \in Processes : HandedOnce(p)

\* What both events told of an exit not handed out is in its record, or comes in it.
KnownInv ==
    \A p \in Processes : handed[p] = 0 =>
        /\ StartOf(p) \in known => p \in DOMAIN m_Creations /\ m_Creations[p].started
        /\ StopOf(p) \in known /\ StartOf(p) \in known \cup inFlight =>
             p \in DOMAIN m_Creations /\ m_Creations[p].exit # 0

LEMMA EventsDiffer ==
  /\ \A p, q : StartOf(p) # StopOf(q)
  /\ \A p, q : StartOf(p) = StartOf(q) => p = q
  /\ \A p, q : StopOf(p) = StopOf(q) => p = q
  /\ \A p : StartOf(p)[1] = p /\ StopOf(p)[1] = p
  BY DEF StartOf, StopOf

LEMMA CreationInit == Creation!Init => EventInv /\ RecordInv /\ KnownInv
<1> SUFFICES ASSUME Creation!Init PROVE EventInv /\ RecordInv /\ KnownInv
  OBVIOUS
<1>1. /\ host = Service /\ now = 1 /\ inFlight = {} /\ known = {} /\ running = FALSE
      /\ state = [p \in Processes |-> "unborn"] /\ exitTime = [p \in Processes |-> 0]
      /\ handed = [p \in Processes |-> 0] /\ DOMAIN made = Processes
      /\ m_Creations = Creation!Empty /\ DOMAIN m_Creations = {}
  BY DEF Creation!Init, Creation!Empty
<1>2. EventInv
  BY <1>1 DEF EventInv
<1>3. RecordInv
  <2>1. handed \in [Processes -> {0, 1}] /\ \A p \in Processes : handed[p] # 1
    BY <1>1
  <2>2. ~running => DOMAIN m_Creations = {} /\ m_Creations = Creation!Empty /\ inFlight = {}
    BY <1>1
  <2> QED
    BY <1>1, <2>1, <2>2 DEF RecordInv, HandedOnce
<1>4. KnownInv
  BY <1>1 DEF KnownInv
<1> QED
  BY <1>2, <1>3, <1>4

\* The parts of the invariant that only the system's events change.
LEMMA CreationEvents == EventInv /\ [Creation!Next]_Creation!creationVars => EventInv'
<1> SUFFICES ASSUME EventInv, [Creation!Next]_Creation!creationVars PROVE EventInv'
  OBVIOUS
<1> USE EventsDiffer DEF EventInv
<1>1. ASSUME NEW p \in Processes, NEW creator \in Creators, NEW parent \in Creators, Creation!Create(p, creator, parent)
      PROVE EventInv'
  <2>1. /\ UNCHANGED <<host, exitTime, now, known>> /\ state[p] = "unborn"
        /\ state' = [state EXCEPT ![p] = "running"]
        /\ inFlight' = inFlight \/ inFlight' = inFlight \cup {StartOf(p)}
    BY <1>1 DEF Creation!Create, Creation!Log, Creation!systemVars, StartOf
  <2>2. /\ DOMAIN made' = Processes
        /\ \A q \in Processes \ {p} : made'[q] = made[q]
        /\ made'[p] = [creator |-> creator, parent |-> parent, kind |-> Creation!Kind(creator, parent)]
    BY <1>1 DEF Creation!Create
  <2>3. made'[p].kind = KindOf(made'[p])
    BY <2>2 DEF Creation!Kind, KindOf
  <2>4. \A q \in Processes : state'[q] # "unborn" => made'[q].kind = KindOf(made'[q])
    BY <2>1, <2>2, <2>3
  <2>5. StartOf(p) \in Processes \X {"start", "stop"}
    BY DEF StartOf
  <2>6. exitTime[p] = 0 /\ StartOf(p) \notin known
    BY <2>1
  <2> QED
    BY <2>1, <2>2, <2>4, <2>5, <2>6
<1>2. ASSUME NEW p \in Processes, Creation!Exit(p) PROVE EventInv'
  <2>1. /\ UNCHANGED <<host, made, now, known>> /\ state[p] = "running"
        /\ state' = [state EXCEPT ![p] = "exited"] /\ exitTime' = [exitTime EXCEPT ![p] = now]
        /\ inFlight' = inFlight \/ inFlight' = inFlight \cup {StopOf(p)}
    BY <1>2 DEF Creation!Exit, Creation!Log, StopOf
  <2>2. StopOf(p) \in Processes \X {"start", "stop"} /\ StopOf(p) \notin known
    BY <2>1 DEF StopOf
  <2>4. now - now <= ExitedKept
    BY CreationAssumption
  <2> QED
    BY <2>1, <2>2, <2>4
<1>3. CASE Creation!Tick
  <2>1. /\ UNCHANGED <<host, state, made, exitTime, inFlight, known>> /\ now' = now + 1
        /\ \A e \in inFlight : exitTime[e[1]] = 0 \/ now + 1 - exitTime[e[1]] <= ExitedKept
    BY <1>3 DEF Creation!Tick
  <2> QED
    BY <2>1
<1>4. ASSUME NEW e, Creation!Lose(e) PROVE EventInv'
  <2>1. UNCHANGED <<host, state, made, exitTime, now, known>> /\ inFlight' = inFlight \ {e}
    BY <1>4 DEF Creation!Lose
  <2> QED
    BY <2>1
<1>5. ASSUME NEW p \in Processes, Creation!OnStart(p) \/ Creation!OnStop(p) PROVE EventInv'
  <2>1. /\ UNCHANGED <<host, state, made, exitTime, now>>
        /\ \E e \in inFlight : inFlight' = inFlight \ {e} /\ known' = known \cup {e}
    BY <1>5 DEF Creation!OnStart, Creation!OnStop
  <2> QED
    BY <2>1
<1>6. ASSUME UNCHANGED <<host, state, made, exitTime, now>>, inFlight' \subseteq inFlight, known' \subseteq known
      PROVE  EventInv'
  <2> QED
    BY <1>6
<1>7. ASSUME NEW p \in Processes, Creation!Remove(p) PROVE EventInv'
  BY <1>6, <1>7 DEF Creation!Remove, Creation!systemVars
<1>8. CASE Creation!TakeExited \/ Creation!Start \/ UNCHANGED Creation!creationVars
  BY <1>6, <1>8 DEF Creation!TakeExited, Creation!Start, Creation!systemVars, Creation!creationVars
<1>9. CASE Creation!Stop
  BY <1>6, <1>9 DEF Creation!Stop
<1>10. ~Creation!ServiceStop
  BY DEF Creation!ServiceStop
<1> QED
  BY <1>1, <1>2, <1>3, <1>4, <1>5, <1>7, <1>8, <1>9, <1>10 DEF Creation!Next

\* The records after an event about another process, or none.
LEMMA CreationRecords ==
  EventInv /\ EventInv' /\ RecordInv /\ [Creation!Next]_Creation!creationVars => RecordInv'
<1> SUFFICES ASSUME EventInv, EventInv', RecordInv, [Creation!Next]_Creation!creationVars PROVE RecordInv'
  OBVIOUS
<1> USE EventsDiffer DEF RecordInv
<1>1. ASSUME NEW p \in Processes, NEW creator \in Creators, NEW parent \in Creators, Creation!Create(p, creator, parent)
      PROVE RecordInv'
  <2>1. /\ UNCHANGED <<running, m_Creations, exitTime, handed>> /\ state[p] = "unborn"
        /\ state' = [state EXCEPT ![p] = "running"]
        /\ \A q \in Processes \ {p} : made'[q] = made[q]
        /\ inFlight' \subseteq inFlight \cup {StartOf(p)} /\ (~running => inFlight' = inFlight)
    BY <1>1 DEF Creation!Create, Creation!Log, Creation!systemVars, Creation!trackerVars, StartOf
  <2>2. p \notin DOMAIN m_Creations /\ handed[p] # 1
    BY <2>1 DEF RecordTells, HandedOnce
  <2>3. \A q \in DOMAIN m_Creations : RecordTells(q)'
    BY <2>1, <2>2 DEF RecordTells, EventInv
  <2>4. \A q \in Processes : HandedOnce(q)'
    BY <2>1, <2>2 DEF HandedOnce, EventInv
  <2> QED
    BY <2>1, <2>3, <2>4
<1>2. ASSUME NEW p \in Processes, Creation!Exit(p) PROVE RecordInv'
  <2>1. /\ UNCHANGED <<running, m_Creations, made, handed>> /\ state[p] = "running"
        /\ state' = [state EXCEPT ![p] = "exited"] /\ exitTime' = [exitTime EXCEPT ![p] = now]
        /\ inFlight' \subseteq inFlight \cup {StopOf(p)} /\ (~running => inFlight' = inFlight)
    BY <1>2 DEF Creation!Exit, Creation!Log, Creation!systemVars, Creation!trackerVars, StopOf
  <2>2. exitTime[p] = 0 /\ handed[p] # 1
    BY <2>1 DEF EventInv, HandedOnce
  <2>3. \A q \in DOMAIN m_Creations : RecordTells(q)'
    <3> SUFFICES ASSUME NEW q \in DOMAIN m_Creations PROVE RecordTells(q)'
      BY <2>1
    <3>1. CASE q = p
      <4>1. m_Creations[p].exit = 0
        BY <2>2, <3>1 DEF RecordTells
      <4> QED
        BY <2>1, <2>2, <3>1, <4>1 DEF RecordTells, EventInv
    <3>2. CASE q # p
      BY <2>1, <3>2 DEF RecordTells, EventInv
    <3> QED
      BY <3>1, <3>2
  <2>4. \A q \in Processes : HandedOnce(q)'
    BY <2>1, <2>2 DEF HandedOnce, EventInv
  <2> QED
    BY <2>1, <2>3, <2>4
<1>3. ASSUME UNCHANGED <<running, m_Creations, state, made, exitTime, handed>>, inFlight' \subseteq inFlight
      PROVE RecordInv'
  BY <1>3 DEF RecordTells, HandedOnce
<1>4. CASE Creation!Tick \/ UNCHANGED Creation!creationVars \/ \E e \in inFlight : Creation!Lose(e)
  BY <1>3, <1>4 DEF Creation!Tick, Creation!Lose, Creation!creationVars, Creation!trackerVars, Creation!systemVars
<1>5. CASE Creation!Start
  BY <1>5 DEF Creation!Start, Creation!systemVars, RecordTells, HandedOnce
<1>6. CASE Creation!Stop
  <2>1. DOMAIN Creation!Empty = {}
    BY DEF Creation!Empty
  <2>2. /\ UNCHANGED <<state, handed>> /\ running' = FALSE /\ m_Creations' = Creation!Empty /\ inFlight' = {}
    BY <1>6 DEF Creation!Stop
  <2>3. \A p \in Processes : HandedOnce(p)'
    BY <2>2 DEF HandedOnce
  <2> QED
    BY <2>1, <2>2, <2>3
<1>7. ASSUME NEW p \in Processes, Creation!OnStart(p) PROVE RecordInv'
  <2> DEFINE c == m_Creations'[p]
  <2>1. /\ UNCHANGED <<running, state, made, exitTime, handed>> /\ StartOf(p) \in inFlight
        /\ inFlight' = inFlight \ {StartOf(p)}
    BY <1>7 DEF Creation!OnStart, StartOf
  <2>2. /\ DOMAIN m_Creations' = DOMAIN m_Creations \cup {p}
        /\ \A q \in DOMAIN m_Creations \ {p} : m_Creations'[q] = m_Creations[q]
        /\ c = [creator |-> Creation!Classify(made[p].creator, made[p].parent), started |-> TRUE,
                exit |-> Creation!RecordOf(p).exit, taken |-> FALSE]
    BY <1>7 DEF Creation!OnStart, Creation!WithRecord, Creation!Merge, Creation!Record
  <2>3. Creation!Classify(made[p].creator, made[p].parent) = made[p].kind /\ state[p] # "unborn"
    BY <2>1 DEF Creation!Classify, KindOf, EventInv
  <2>4. made[p].kind \in {"Parent", "OnBehalf", "Other"}
    BY <2>3 DEF Creation!Classify
  <2>5. /\ Creation!RecordOf(p).exit \in Nat
        /\ Creation!RecordOf(p).exit # 0 => StopOf(p) \notin inFlight /\ Creation!RecordOf(p).exit = exitTime[p]
    BY DEF Creation!RecordOf, Creation!Record, RecordTells, Creations
  <2>6. c \in Creations
    BY <2>2, <2>3, <2>4, <2>5 DEF Creations
  <2>7. handed[p] # 1
    BY <2>1 DEF HandedOnce
  <2>8. RecordTells(p)'
    BY <2>1, <2>2, <2>3, <2>5, <2>6, <2>7 DEF RecordTells
  <2>9. \A q \in DOMAIN m_Creations \ {p} : RecordTells(q)'
    BY <2>1, <2>2 DEF RecordTells
  <2> QED
    BY <2>1, <2>2, <2>8, <2>9 DEF HandedOnce
<1>8. ASSUME NEW p \in Processes, Creation!OnStop(p) PROVE RecordInv'
  <2> DEFINE c == m_Creations'[p]
             old == Creation!RecordOf(p)
  <2>1. /\ UNCHANGED <<running, state, made, exitTime, handed>> /\ StopOf(p) \in inFlight
        /\ inFlight' = inFlight \ {StopOf(p)}
    BY <1>8 DEF Creation!OnStop, StopOf
  <2>2. /\ DOMAIN m_Creations' = DOMAIN m_Creations \cup {p}
        /\ \A q \in DOMAIN m_Creations \ {p} : m_Creations'[q] = m_Creations[q]
        /\ c = [old EXCEPT !.exit = exitTime[p]]
    BY <1>8 DEF Creation!OnStop, Creation!WithRecord
  <2>3. state[p] = "exited" /\ exitTime[p] \in Nat /\ handed[p] # 1
    BY <2>1 DEF EventInv, HandedOnce
  <2>4. old \in Creations /\ (old.started => StartOf(p) \notin inFlight /\ old.creator = made[p].kind) /\ ~old.taken
    BY <2>3 DEF Creation!RecordOf, Creation!Record, RecordTells, Creations
  <2>5. /\ c \in Creations /\ c.exit = exitTime[p]
        /\ c.started = old.started /\ c.creator = old.creator /\ c.taken = old.taken
    BY <2>2, <2>3, <2>4 DEF Creations
  <2>6. RecordTells(p)'
    BY <2>1, <2>3, <2>4, <2>5 DEF RecordTells
  <2>7. \A q \in DOMAIN m_Creations \ {p} : RecordTells(q)'
    BY <2>1, <2>2 DEF RecordTells
  <2> QED
    BY <2>1, <2>2, <2>6, <2>7 DEF HandedOnce
<1>9. CASE Creation!TakeExited
  <2> DEFINE ready == {p \in DOMAIN m_Creations : Creation!Ready(m_Creations[p])}
  <2>1. /\ UNCHANGED <<running, state, made, exitTime, inFlight>> /\ running
        /\ handed' = [p \in Processes |-> IF p \in ready THEN handed[p] + 1 ELSE handed[p]]
        /\ m_Creations' = [p \in Creation!Kept |-> [m_Creations[p] EXCEPT !.taken = @ \/ p \in ready]]
    BY <1>9 DEF Creation!TakeExited, Creation!systemVars
  <2>2. Creation!Kept \subseteq DOMAIN m_Creations
    BY DEF Creation!Kept
  <2>3. \A p \in ready : handed[p] = 0 /\ handed'[p] = 1 /\ m_Creations[p].started /\ m_Creations[p].exit # 0
    BY <2>1 DEF Creation!Ready, RecordTells
  <2>4. \A p \in Processes \ ready : handed'[p] = handed[p]
    BY <2>1
  <2>5. handed' \in [Processes -> {0, 1}]
    BY <2>1, <2>3, <2>4
  <2>6. \A p \in Creation!Kept : RecordTells(p)'
    <3> SUFFICES ASSUME NEW p \in Creation!Kept PROVE RecordTells(p)'
      OBVIOUS
    <3> DEFINE old == m_Creations[p]
               c == m_Creations'[p]
    <3>1. RecordTells(p) /\ p \in Processes
      BY <2>2
    <3>2. old \in Creations
      BY <3>1 DEF RecordTells
    <3>3. c = [old EXCEPT !.taken = @ \/ p \in ready]
      BY <2>1
    <3>4. c \in Creations /\ c.started = old.started /\ c.creator = old.creator /\ c.exit = old.exit
      BY <3>2, <3>3 DEF Creations
    <3>5. CASE p \in ready
      <4>1. c.taken = TRUE
        BY <3>2, <3>3, <3>5 DEF Creations
      <4> QED
        BY <2>1, <2>3, <3>1, <3>4, <3>5, <4>1 DEF RecordTells
    <3>6. CASE p \notin ready
      <4>1. c.taken = old.taken
        BY <3>2, <3>3, <3>6 DEF Creations
      <4> QED
        BY <2>1, <2>4, <3>1, <3>4, <3>6, <4>1 DEF RecordTells
    <3> QED
      BY <3>5, <3>6
  <2>7. \A p \in ready : state[p] = "exited" /\ StartOf(p) \notin inFlight /\ StopOf(p) \notin inFlight
    BY <2>3 DEF RecordTells, EventInv
  <2>8. \A p \in Processes : HandedOnce(p)'
    BY <2>1, <2>4, <2>7 DEF HandedOnce
  <2> QED
    BY <2>1, <2>2, <2>5, <2>6, <2>8
<1>10. ASSUME NEW p \in Processes, Creation!Remove(p) PROVE RecordInv'
  <2>1. /\ UNCHANGED <<running, state, made, exitTime, inFlight, handed>> /\ running
        /\ DOMAIN m_Creations' = DOMAIN m_Creations \ {p}
        /\ \A q \in DOMAIN m_Creations \ {p} : m_Creations'[q] = m_Creations[q]
    BY <1>10 DEF Creation!Remove, Creation!systemVars, Creation!Restrict
  <2> QED
    BY <2>1 DEF RecordTells, HandedOnce
<1>11. ~Creation!ServiceStop
  BY DEF Creation!ServiceStop
<1> QED
  BY <1>1, <1>2, <1>4, <1>5, <1>6, <1>7, <1>8, <1>9, <1>10, <1>11 DEF Creation!Next

LEMMA CreationKnown ==
  EventInv /\ RecordInv /\ KnownInv /\ [Creation!Next]_Creation!creationVars => KnownInv'
<1> SUFFICES ASSUME EventInv, RecordInv, KnownInv, [Creation!Next]_Creation!creationVars PROVE KnownInv'
  OBVIOUS
<1> USE EventsDiffer DEF KnownInv
<1>1. ASSUME UNCHANGED <<m_Creations, known, handed>>, \A p \in Processes : StopOf(p) \in known => StartOf(p) \notin inFlight' \ inFlight
      PROVE  KnownInv'
  BY <1>1
<1>2. ASSUME NEW p \in Processes, NEW creator \in Creators, NEW parent \in Creators, Creation!Create(p, creator, parent)
      PROVE KnownInv'
  <2>1. /\ UNCHANGED <<m_Creations, known, handed>> /\ state[p] = "unborn"
        /\ inFlight' \subseteq inFlight \cup {StartOf(p)}
    BY <1>2 DEF Creation!Create, Creation!Log, Creation!trackerVars, StartOf
  <2>2. StopOf(p) \notin known
    BY <2>1 DEF EventInv
  <2> QED
    BY <1>1, <2>1, <2>2
<1>3. ASSUME NEW p \in Processes, Creation!Exit(p) PROVE KnownInv'
  <2>1. UNCHANGED <<m_Creations, known, handed>> /\ inFlight' \subseteq inFlight \cup {StopOf(p)}
    BY <1>3 DEF Creation!Exit, Creation!Log, Creation!trackerVars, StopOf
  <2> QED
    BY <1>1, <2>1
<1>4. CASE Creation!Tick \/ Creation!Start \/ UNCHANGED Creation!creationVars \/ \E e \in inFlight : Creation!Lose(e)
  <2>1. UNCHANGED <<m_Creations, known, handed>> /\ inFlight' \subseteq inFlight
    BY <1>4 DEF Creation!Tick, Creation!Lose, Creation!Start, Creation!creationVars, Creation!trackerVars, Creation!systemVars
  <2> QED
    BY <1>1, <2>1
<1>5. CASE Creation!Stop
  BY <1>5 DEF Creation!Stop
<1>6. ASSUME NEW p \in Processes, Creation!OnStart(p) PROVE KnownInv'
  <2>1. /\ UNCHANGED handed /\ StartOf(p) \in inFlight
        /\ inFlight' = inFlight \ {StartOf(p)} /\ known' = known \cup {StartOf(p)}
    BY <1>6 DEF Creation!OnStart, StartOf
  <2>2. /\ DOMAIN m_Creations' = DOMAIN m_Creations \cup {p}
        /\ \A q \in DOMAIN m_Creations \ {p} : m_Creations'[q] = m_Creations[q]
        /\ m_Creations'[p].started /\ m_Creations'[p].exit = Creation!RecordOf(p).exit
    BY <1>6 DEF Creation!OnStart, Creation!WithRecord, Creation!Merge, Creation!Record
  <2>3. StopOf(p) \in known /\ handed[p] = 0 => m_Creations'[p].exit # 0
    BY <2>1, <2>2 DEF Creation!RecordOf
  <2> QED
    BY <2>1, <2>2, <2>3
<1>7. ASSUME NEW p \in Processes, Creation!OnStop(p) PROVE KnownInv'
  <2>1. /\ UNCHANGED handed /\ StopOf(p) \in inFlight
        /\ inFlight' = inFlight \ {StopOf(p)} /\ known' = known \cup {StopOf(p)}
    BY <1>7 DEF Creation!OnStop, StopOf
  <2>2. Creation!RecordOf(p) \in Creations /\ exitTime[p] # 0
    BY <2>1 DEF Creation!RecordOf, Creation!Record, RecordInv, RecordTells, EventInv, Creations
  <2>3. /\ DOMAIN m_Creations' = DOMAIN m_Creations \cup {p}
        /\ \A q \in DOMAIN m_Creations \ {p} : m_Creations'[q] = m_Creations[q]
        /\ m_Creations'[p].started = Creation!RecordOf(p).started /\ m_Creations'[p].exit = exitTime[p]
    BY <1>7, <2>2 DEF Creation!OnStop, Creation!WithRecord, Creations
  <2>4. StartOf(p) \in known /\ handed[p] = 0 => m_Creations'[p].started
    BY <2>1, <2>3 DEF Creation!RecordOf
  <2> QED
    BY <2>1, <2>2, <2>3, <2>4
<1>8. CASE Creation!TakeExited
  <2> DEFINE ready == {p \in DOMAIN m_Creations : Creation!Ready(m_Creations[p])}
  <2>1. /\ UNCHANGED <<inFlight, known>>
        /\ handed' = [p \in Processes |-> IF p \in ready THEN handed[p] + 1 ELSE handed[p]]
        /\ m_Creations' = [p \in Creation!Kept |-> [m_Creations[p] EXCEPT !.taken = @ \/ p \in ready]]
    BY <1>8 DEF Creation!TakeExited, Creation!systemVars
  <2> SUFFICES ASSUME NEW p \in Processes, handed'[p] = 0
      PROVE  /\ StartOf(p) \in known => p \in DOMAIN m_Creations' /\ m_Creations'[p].started
             /\ StopOf(p) \in known /\ StartOf(p) \in known \cup inFlight =>
                  p \in DOMAIN m_Creations' /\ m_Creations'[p].exit # 0
    BY <2>1
  <2>2. handed[p] = 0 /\ p \notin ready
    BY <2>1 DEF RecordInv
  <2>3. ASSUME p \in DOMAIN m_Creations PROVE RecordTells(p) /\ m_Creations[p] \in Creations /\ ~m_Creations[p].taken
    BY <2>2, <2>3 DEF RecordInv, RecordTells
  <2>4. ASSUME p \in DOMAIN m_Creations, StartOf(p) \in known \/ (StopOf(p) \in known /\ StartOf(p) \in known \cup inFlight)
        PROVE  p \in Creation!Kept
    <3>1. CASE m_Creations[p].exit = 0
      BY <2>4, <3>1 DEF Creation!Kept, Creation!Expired
    <3>2. CASE m_Creations[p].exit # 0 /\ StartOf(p) \in known
      BY <2>2, <2>3, <2>4, <3>2 DEF Creation!Ready
    <3>3. CASE m_Creations[p].exit # 0 /\ StartOf(p) \in inFlight
      <4>1. m_Creations[p].exit = exitTime[p]
        BY <2>3, <2>4, <3>3 DEF RecordTells
      <4>2. now - m_Creations[p].exit <= ExitedKept
        BY <3>3, <4>1 DEF EventInv
      <4>3. m_Creations[p].exit \in Nat /\ now \in Nat
        BY <2>3, <2>4 DEF EventInv, Creations
      <4> QED
        BY <2>4, <4>2, <4>3, CreationAssumption DEF Creation!Kept, Creation!Expired
    <3> QED
      BY <2>4, <3>1, <3>2, <3>3
  <2>5. ASSUME p \in Creation!Kept
        PROVE  p \in DOMAIN m_Creations' /\ m_Creations'[p].started = m_Creations[p].started
               /\ m_Creations'[p].exit = m_Creations[p].exit
    BY <2>1, <2>3, <2>5 DEF Creation!Kept, Creations
  <2> QED
    BY <2>2, <2>4, <2>5
<1>9. ASSUME NEW p \in Processes, Creation!Remove(p) PROVE KnownInv'
  <2>1. /\ UNCHANGED <<inFlight, handed>> /\ state[p] = "exited"
        /\ known' = {e \in known : e[1] # p}
        /\ DOMAIN m_Creations' = DOMAIN m_Creations \ {p}
        /\ \A q \in DOMAIN m_Creations \ {p} : m_Creations'[q] = m_Creations[q]
    BY <1>9 DEF Creation!Remove, Creation!systemVars, Creation!Restrict
  <2>2. StartOf(p) \notin known' /\ StopOf(p) \notin known'
    BY <2>1
  <2> QED
    BY <2>1, <2>2
<1>10. ~Creation!ServiceStop
  BY DEF Creation!ServiceStop
<1> QED
  BY <1>2, <1>3, <1>4, <1>5, <1>6, <1>7, <1>8, <1>9, <1>10 DEF Creation!Next

LEMMA CreationConcludes ==
  EventInv /\ RecordInv /\ KnownInv =>
    Creation!TypeOK /\ Creation!EachExitOnce /\ Creation!NoExitIsMissed /\ Creation!CreatorsAreTrue
<1> SUFFICES ASSUME EventInv, RecordInv, KnownInv
             PROVE  Creation!TypeOK /\ Creation!EachExitOnce /\ Creation!NoExitIsMissed /\ Creation!CreatorsAreTrue
  OBVIOUS
<1>1. ASSUME NEW p \in DOMAIN m_Creations
      PROVE  /\ m_Creations[p] \in [creator : {"Parent", "OnBehalf", "Other"}, started : BOOLEAN,
                                    exit : {0, exitTime[p]}, taken : BOOLEAN]
             /\ m_Creations[p].taken => m_Creations[p].started /\ m_Creations[p].exit # 0
             /\ m_Creations[p].started => m_Creations[p].creator = made[p].kind
  BY DEF RecordInv, RecordTells, Creations
<1>2. Creation!TypeOK
  BY <1>1 DEF Creation!TypeOK, RecordInv
<1>3. Creation!CreatorsAreTrue
  BY <1>1 DEF Creation!CreatorsAreTrue
<1>4. Creation!EachExitOnce
  BY DEF Creation!EachExitOnce, RecordInv
<1>5. Creation!NoExitIsMissed
  <2> SUFFICES ASSUME NEW p \in Processes, StartOf(p) \in known, StopOf(p) \in known, handed[p] # 1
               PROVE  p \in DOMAIN m_Creations /\ Creation!Ready(m_Creations[p])
    BY DEF Creation!NoExitIsMissed, StartOf, StopOf
  <2>1. handed[p] = 0
    BY DEF RecordInv
  <2>2. p \in DOMAIN m_Creations /\ m_Creations[p].started /\ m_Creations[p].exit # 0
    BY <2>1 DEF KnownInv
  <2>3. ~m_Creations[p].taken
    BY <2>1, <2>2 DEF RecordInv, RecordTells
  <2> QED
    BY <2>2, <2>3 DEF Creation!Ready
<1> QED
  BY <1>2, <1>3, <1>4, <1>5

-----------------------------------------------------------------------------
(* The names of files (FileIo).                                              *)

Names == [text : Keys \X Nat, tick : Nat]
FileEvents ==
    [op : {"NameCreate"}, key : Keys, text : Keys \X Nat]
      \cup [op : {"Create"}, object : FileObjects, text : Keys \X Nat]
      \cup [op : {"ReadWrite"}, object : FileObjects, key : Keys, pid : FilePids]

FileTypes ==
    /\ trace \in [Processors -> Seq(FileEvents)]
    /\ DOMAIN open = FileObjects /\ current \in [Keys -> Nat] /\ told \in [Keys -> Nat] /\ tick \in Nat
    /\ DOMAIN m_Names \subseteq Keys /\ \A key \in DOMAIN m_Names : m_Names[key] \in Names
    /\ DOMAIN m_ObjectNames \subseteq FileObjects /\ \A o \in DOMAIN m_ObjectNames : m_ObjectNames[o] \in Names
    /\ DOMAIN m_Pending \subseteq Keys /\ \A key \in DOMAIN m_Pending : m_Pending[key] \in FileObjects
    /\ DOMAIN taken \subseteq Keys /\ \A key \in DOMAIN taken : taken[key] \in FileObjects
    /\ DOMAIN found \subseteq DOMAIN taken /\ \A key \in DOMAIN found : found[key] \in Keys \X Nat
    /\ rpc # "apply" => DOMAIN found = {}
    /\ rpc \notin {"look", "apply"} => DOMAIN taken = {}
    /\ DOMAIN m_Attempts \subseteq Keys /\ \A key \in DOMAIN m_Attempts : m_Attempts[key] \in Nat

\* the events not delivered yet
Logged == UNION {{trace[cpu][i] : i \in 1 .. Len(trace[cpu])} : cpu \in Processors}

\* the key a file object's event tells of
KeyOf(e) == IF e.op = "ReadWrite" THEN e.key ELSE e.text[1]

\* a file object is known to be of a key
IsOf(o, key) ==
    \/ \E e \in Logged : e.op # "NameCreate" /\ e.object = o /\ KeyOf(e) = key
    \/ o \in DOMAIN m_ObjectNames /\ m_ObjectNames[o].text[1] = key
    \/ key \in DOMAIN m_Pending /\ m_Pending[key] = o
    \/ key \in DOMAIN taken /\ taken[key] = o
    \/ open[o] = key

\* whoever knows a file object's key knows the one it opened
ObjectInv ==
    /\ \A o \in FileObjects : \A k, l \in Keys : IsOf(o, k) /\ IsOf(o, l) => k = l
    /\ \A o \in FileObjects, k \in Keys : open[o] = File!NoKey => ~IsOf(o, k)

\* no name is of a file its key does not stand for yet
NotLater(text) == text[2] <= current[text[1]]
NameInv ==
    /\ \A e \in Logged : e.op = "NameCreate" => e.text[1] = e.key
    /\ \A e \in Logged : e.op # "ReadWrite" => NotLater(e.text)
    /\ \A o \in DOMAIN m_ObjectNames : NotLater(m_ObjectNames[o].text)
    /\ \A key \in DOMAIN m_Names :
         m_Names[key].text[1] = key /\ NotLater(m_Names[key].text) /\ told[key] <= m_Names[key].text[2]
    /\ \A key \in DOMAIN found : found[key][1] = key /\ NotLater(found[key])
    /\ \A key \in Keys : told[key] # 0 => key \in DOMAIN m_Names

\* what an Open or a ReadWrite logs, and what a processor delivers
LEMMA LogAdds ==
  ASSUME FileTypes, NEW entries \in Seq(FileEvents), File!Log(entries)
  PROVE  /\ trace' \in [Processors -> Seq(FileEvents)]
         /\ \A e \in Logged' : e \in Logged \/ \E i \in 1 .. Len(entries) : e = entries[i]
<1>1. CASE UNCHANGED trace
  BY <1>1 DEF FileTypes, Logged
<1>2. ASSUME NEW cpu \in Processors, trace' = [trace EXCEPT ![cpu] = @ \o entries]
      PROVE  /\ trace' \in [Processors -> Seq(FileEvents)]
             /\ \A e \in Logged' : e \in Logged \/ \E i \in 1 .. Len(entries) : e = entries[i]
  <2>1. trace \in [Processors -> Seq(FileEvents)] /\ trace[cpu] \in Seq(FileEvents)
    BY DEF FileTypes
  <2>2. trace[cpu] \o entries \in Seq(FileEvents)
    BY <2>1
  <2>3. trace' \in [Processors -> Seq(FileEvents)]
    BY <1>2, <2>1, <2>2
  <2>4. \A j \in 1 .. Len(trace[cpu] \o entries) :
          \/ j \in 1 .. Len(trace[cpu]) /\ (trace[cpu] \o entries)[j] = trace[cpu][j]
          \/ \E i \in 1 .. Len(entries) : (trace[cpu] \o entries)[j] = entries[i]
    <3> SUFFICES ASSUME NEW j \in 1 .. Len(trace[cpu] \o entries), j > Len(trace[cpu])
                 PROVE  \E i \in 1 .. Len(entries) : (trace[cpu] \o entries)[j] = entries[i]
      BY <2>1
    <3>1. j - Len(trace[cpu]) \in 1 .. Len(entries)
      BY <2>1
    <3> QED
      BY <2>1, <3>1
  <2>5. trace'[cpu] = trace[cpu] \o entries /\ \A c \in Processors \ {cpu} : trace'[c] = trace[c]
    BY <1>2, <2>1
  <2>6. ASSUME NEW c \in Processors, NEW j \in 1 .. Len(trace'[c])
        PROVE  trace'[c][j] \in Logged \/ \E i \in 1 .. Len(entries) : trace'[c][j] = entries[i]
    <3>1. CASE c = cpu
      <4>1. j \in 1 .. Len(trace[cpu] \o entries) /\ trace'[c][j] = (trace[cpu] \o entries)[j]
        BY <2>5, <3>1
      <4>2. \A i \in 1 .. Len(trace[cpu]) : trace[cpu][i] \in Logged
        BY DEF Logged
      <4> QED
        BY <2>4, <4>1, <4>2
    <3>2. CASE c # cpu
      BY <2>5, <3>2 DEF Logged
    <3> QED
      BY <3>1, <3>2
  <2>7. \A e \in Logged' : \E c \in Processors : \E j \in 1 .. Len(trace'[c]) : e = trace'[c][j]
    BY DEF Logged
  <2> QED
    BY <2>3, <2>6, <2>7
<1> QED
  BY <1>1, <1>2 DEF File!Log

LEMMA HeadIsLogged ==
  ASSUME FileTypes, NEW cpu \in Processors, trace[cpu] # <<>>
  PROVE  Head(trace[cpu]) \in Logged /\ Head(trace[cpu]) \in FileEvents
<1>1. trace[cpu] \in Seq(FileEvents)
  BY DEF FileTypes
<1>2. Head(trace[cpu]) = trace[cpu][1] /\ 1 \in 1 .. Len(trace[cpu])
  BY <1>1
<1> QED
  BY <1>1, <1>2 DEF Logged

LEMMA TailIsLogged ==
  ASSUME FileTypes, NEW cpu \in Processors, trace[cpu] # <<>>, trace' = [trace EXCEPT ![cpu] = Tail(@)]
  PROVE  trace' \in [Processors -> Seq(FileEvents)] /\ Logged' \subseteq Logged
<1>1. trace \in [Processors -> Seq(FileEvents)] /\ trace[cpu] \in Seq(FileEvents)
  BY DEF FileTypes
<1>2. Tail(trace[cpu]) \in Seq(FileEvents) /\ Len(Tail(trace[cpu])) = Len(trace[cpu]) - 1
      /\ \A j \in 1 .. Len(Tail(trace[cpu])) : Tail(trace[cpu])[j] = trace[cpu][j + 1]
  BY <1>1
<1>3. trace' \in [Processors -> Seq(FileEvents)]
  BY <1>1, <1>2
<1>4. trace'[cpu] = Tail(trace[cpu]) /\ \A c \in Processors \ {cpu} : trace'[c] = trace[c]
  BY <1>1
<1>5. ASSUME NEW c \in Processors, NEW j \in 1 .. Len(trace'[c]) PROVE trace'[c][j] \in Logged
  <2>1. CASE c = cpu
    <3>1. j + 1 \in 1 .. Len(trace[cpu]) /\ trace'[c][j] = trace[cpu][j + 1]
      BY <1>1, <1>2, <1>4, <1>5, <2>1
    <3> QED
      BY <3>1 DEF Logged
  <2>2. CASE c # cpu
    BY <1>4, <1>5, <2>2 DEF Logged
  <2> QED
    BY <2>1, <2>2
<1> QED
  BY <1>3, <1>5 DEF Logged

LEMMA FileTypesStep == FileTypes /\ [File!Next]_File!fileVars => FileTypes'
<1> SUFFICES ASSUME FileTypes, [File!Next]_File!fileVars PROVE FileTypes'
  OBVIOUS
<1>1. ASSUME NEW o \in FileObjects, NEW key \in Keys, File!Open(o, key) PROVE FileTypes'
  <2>1. /\ UNCHANGED <<told, tick, m_Names, m_ObjectNames, m_Pending, taken, found, m_Attempts, rpc>>
        /\ DOMAIN open' = FileObjects
    BY <1>1 DEF File!Open, File!tableVars, File!resolverVars, FileTypes
  <2>2. current' \in [Keys -> Nat]
    <3>1. UNCHANGED current \/ current' = [current EXCEPT ![key] = @ + 1]
      BY <1>1 DEF File!Open
    <3>2. current \in [Keys -> Nat] /\ current[key] + 1 \in Nat
      BY DEF FileTypes
    <3>3. [current EXCEPT ![key] = current[key] + 1] \in [Keys -> Nat]
      BY <3>2
    <3> QED
      BY <3>1, <3>2, <3>3
  <2>3. <<[op |-> "Create", object |-> o, text |-> File!Text(key, current[key])]>> \in Seq(FileEvents)
    BY DEF File!Text, FileEvents, FileTypes
  <2>4. <<[op |-> "NameCreate", key |-> key, text |-> File!Text(key, current'[key])],
          [op |-> "Create", object |-> o, text |-> File!Text(key, current'[key])]>> \in Seq(FileEvents)
    BY <2>2 DEF File!Text, FileEvents
  <2>5. trace' \in [Processors -> Seq(FileEvents)]
    BY <1>1, <2>3, <2>4, LogAdds DEF File!Open
  <2> QED
    BY <2>1, <2>2, <2>5 DEF FileTypes
<1>2. ASSUME NEW o \in FileObjects, NEW pid \in FilePids, File!ReadWrite(o, pid) PROVE FileTypes'
  <2>1. /\ UNCHANGED <<told, tick, m_Names, m_ObjectNames, m_Pending, taken, found, m_Attempts, rpc, open, current>>
        /\ open[o] \in Keys
    BY <1>2 DEF File!ReadWrite, File!tableVars, File!resolverVars, File!IsOpen
  <2>2. <<[op |-> "ReadWrite", object |-> o, key |-> open[o], pid |-> pid]>> \in Seq(FileEvents)
    BY <2>1 DEF FileEvents
  <2>3. trace' \in [Processors -> Seq(FileEvents)]
    BY <1>2, <2>2, LogAdds DEF File!ReadWrite
  <2> QED
    BY <2>1, <2>3 DEF FileTypes
<1>3. ASSUME NEW cpu \in Processors, File!OnEvent(cpu) PROVE FileTypes'
  <2> DEFINE e == Head(trace[cpu])
  <2>1. /\ e \in FileEvents /\ trace' \in [Processors -> Seq(FileEvents)]
        /\ UNCHANGED <<tick, rpc, taken, found, open, current>>
    BY <1>3, HeadIsLogged, TailIsLogged DEF File!OnEvent, File!resolverVars
  <2> HIDE DEF e
  <2>2. CASE e.op = "NameCreate"
    <3>1. File!NameCreate(e) /\ e.key \in Keys /\ e.text \in Keys \X Nat
      BY <1>3, <2>1, <2>2 DEF File!OnEvent, FileEvents, e
    <3>2. /\ DOMAIN m_Names' \subseteq Keys /\ \A key \in DOMAIN m_Names' : m_Names'[key] \in Names
          /\ told' \in [Keys -> Nat] /\ UNCHANGED <<m_ObjectNames, m_Attempts>>
      BY <3>1 DEF File!NameCreate, File!With, Names, FileTypes
    <3>3. DOMAIN m_Pending' \subseteq Keys /\ \A key \in DOMAIN m_Pending' : m_Pending'[key] \in FileObjects
      BY <3>1 DEF File!NameCreate, File!Without, File!Restrict, FileTypes
    <3> QED
      BY <2>1, <3>2, <3>3 DEF FileTypes
  <2>3. CASE e.op = "Create"
    <3>1. File!Create(e) /\ e.object \in FileObjects /\ e.text \in Keys \X Nat
      BY <1>3, <2>1, <2>3 DEF File!OnEvent, FileEvents, e
    <3>2. /\ DOMAIN m_ObjectNames' \subseteq FileObjects /\ \A o \in DOMAIN m_ObjectNames' : m_ObjectNames'[o] \in Names
          /\ UNCHANGED <<told, m_Names, m_Pending, m_Attempts>>
      BY <3>1 DEF File!Create, File!With, Names, FileTypes
    <3> QED
      BY <2>1, <3>2 DEF FileTypes
  <2>4. CASE e.op = "ReadWrite"
    <3>1. File!OnReadWrite(e) /\ e.object \in FileObjects /\ e.key \in Keys
      BY <1>3, <2>1, <2>4 DEF File!OnEvent, FileEvents, e
    <3>2. DOMAIN m_Names' \subseteq Keys /\ \A key \in DOMAIN m_Names' : m_Names'[key] \in Names
      <4>1. CASE e.key \in DOMAIN m_Names
        <5>1. m_Names' = [m_Names EXCEPT ![e.key].tick = tick] /\ m_Names[e.key] \in Names
          BY <3>1, <4>1 DEF File!OnReadWrite, FileTypes
        <5>2. m_Names'[e.key] \in Names /\ DOMAIN m_Names' = DOMAIN m_Names
          BY <4>1, <5>1 DEF Names, FileTypes
        <5> QED
          BY <5>1, <5>2 DEF FileTypes
      <4>2. CASE e.key \notin DOMAIN m_Names /\ e.object \in DOMAIN m_ObjectNames
        <5>1. m_Names' = File!With(m_Names, e.key, [text |-> m_ObjectNames[e.object].text, tick |-> tick])
          BY <3>1, <4>2 DEF File!OnReadWrite
        <5> QED
          BY <3>1, <4>2, <5>1 DEF File!With, Names, FileTypes
      <4>3. CASE e.key \notin DOMAIN m_Names /\ e.object \notin DOMAIN m_ObjectNames
        BY <3>1, <4>3 DEF File!OnReadWrite, FileTypes
      <4> QED
        BY <4>1, <4>2, <4>3
    <3>3. DOMAIN m_Pending' \subseteq Keys /\ \A key \in DOMAIN m_Pending' : m_Pending'[key] \in FileObjects
      <4>1. m_Pending' = m_Pending \/ m_Pending' = File!With(m_Pending, e.key, e.object)
        BY <3>1 DEF File!OnReadWrite
      <4> QED
        BY <3>1, <4>1 DEF File!With, FileTypes
    <3>4. UNCHANGED <<told, m_ObjectNames, m_Attempts>>
      BY <3>1 DEF File!OnReadWrite
    <3> QED
      BY <2>1, <3>2, <3>3, <3>4 DEF FileTypes
  <2> QED
    BY <2>1, <2>2, <2>3, <2>4 DEF FileEvents
<1>4. CASE File!TakePending
  <2>1. /\ UNCHANGED <<trace, told, tick, m_Names, m_ObjectNames, m_Attempts, open, current, found>>
        /\ taken' = m_Pending /\ m_Pending' = File!Empty
    BY <1>4 DEF File!TakePending, File!worldVars
  <2>2. DOMAIN found = {} /\ DOMAIN m_Pending' = {} /\ rpc' # "apply" /\ (rpc' # "look" => DOMAIN m_Pending = {})
    BY <1>4, <2>1 DEF File!TakePending, File!Empty, FileTypes
  <2> QED
    BY <2>1, <2>2 DEF FileTypes
<1>5. CASE File!LookUp
  <2>1. /\ UNCHANGED <<trace, told, tick, m_Names, m_ObjectNames, m_Pending, m_Attempts, open, current, taken>>
        /\ rpc' = "apply"
    BY <1>5 DEF File!LookUp, File!worldVars, File!tableVars
  <2>2. PICK named \in SUBSET {key \in DOMAIN taken : File!IsOpen(taken[key])} :
          found' = [key \in named |-> File!Text(open[taken[key]], current[open[taken[key]]])]
    BY <1>5 DEF File!LookUp
  <2>3. DOMAIN found' \subseteq DOMAIN taken /\ \A key \in DOMAIN found' : found'[key] \in Keys \X Nat
    BY <2>2 DEF File!IsOpen, File!Text, FileTypes
  <2> QED
    BY <2>1, <2>3 DEF FileTypes
<1>6. CASE File!NoHandles
  <2>1. /\ UNCHANGED <<trace, told, tick, m_Names, m_ObjectNames, m_Pending, m_Attempts, open, current, found>>
        /\ rpc = "look" /\ DOMAIN taken' = {}
    BY <1>6 DEF File!NoHandles, File!worldVars, File!tableVars, File!Empty
  <2> QED
    BY <2>1 DEF FileTypes
<1>7. CASE File!ApplyNames
  <2>1. /\ UNCHANGED <<trace, told, tick, m_ObjectNames, m_Pending, open, current>>
        /\ DOMAIN taken' = {} /\ DOMAIN found' = {}
    BY <1>7 DEF File!ApplyNames, File!worldVars, File!Empty
  <2>2. DOMAIN m_Names' \subseteq Keys /\ \A key \in DOMAIN m_Names' : m_Names'[key] \in Names
    BY <1>7 DEF File!ApplyNames, File!FoundNames, File!Merged, Names, FileTypes
  <2>3. DOMAIN m_Attempts' \subseteq Keys /\ \A key \in DOMAIN m_Attempts' : m_Attempts'[key] \in Nat
    BY <1>7 DEF File!ApplyNames, File!Merged, FileTypes
  <2> QED
    BY <2>1, <2>2, <2>3 DEF FileTypes
<1>8. CASE File!Prune
  <2>1. /\ UNCHANGED <<trace, tick, m_Pending, open, current, taken, found>> /\ rpc = "erase"
        /\ told' \in [Keys -> Nat]
    BY <1>8 DEF File!Prune, File!worldVars, FileTypes
  <2>2. DOMAIN m_Names' \subseteq DOMAIN m_Names /\ \A key \in DOMAIN m_Names' : m_Names'[key] = m_Names[key]
    BY <1>8 DEF File!Prune, File!Fresh, File!Without, File!Restrict
  <2>3. /\ DOMAIN m_ObjectNames' \subseteq DOMAIN m_ObjectNames
        /\ \A o \in DOMAIN m_ObjectNames' : m_ObjectNames'[o] = m_ObjectNames[o]
    BY <1>8 DEF File!Prune, File!Fresh, File!Without, File!Restrict
  <2>4. DOMAIN m_Attempts' \subseteq Keys /\ \A key \in DOMAIN m_Attempts' : m_Attempts'[key] \in Nat
    BY <1>8 DEF File!Prune, File!Restrict, FileTypes
  <2> QED
    BY <2>1, <2>2, <2>3, <2>4 DEF FileTypes
<1>9. CASE File!Stop
  <2>1. DOMAIN File!Empty = {}
    BY DEF File!Empty
  <2>2. <<>> \in Seq(FileEvents)
    OBVIOUS
  <2> QED
    BY <1>9, <2>1, <2>2 DEF File!Stop, File!resolverVars, FileTypes
<1>10. ASSUME UNCHANGED <<m_Names, m_ObjectNames, m_Pending, m_Attempts, taken, found, current, trace, told>>,
              DOMAIN open' = DOMAIN open, tick' \in Nat,
              UNCHANGED rpc \/ rpc = "prune"
       PROVE  FileTypes'
  BY <1>10 DEF FileTypes
<1>11. ASSUME NEW o \in FileObjects, File!Close(o) PROVE FileTypes'
  BY <1>10, <1>11 DEF File!Close, File!tableVars, File!resolverVars, FileTypes
<1>12. CASE File!Tick \/ File!ReadClock \/ File!Start \/ UNCHANGED File!fileVars
  BY <1>10, <1>12 DEF File!Tick, File!ReadClock, File!Start, File!fileVars, File!tableVars, File!resolverVars,
                      File!worldVars, FileTypes
<1>13. ASSUME NEW pid \in FilePids, File!RemoveProcess(pid) PROVE FileTypes'
  BY <1>10, <1>13 DEF File!RemoveProcess, File!resolverVars, File!worldVars, FileTypes
<1> QED
  BY <1>1, <1>2, <1>3, <1>4, <1>5, <1>6, <1>7, <1>8, <1>9, <1>11, <1>12, <1>13 DEF File!Next

\* what an Open logs is of the file object and the key
LEMMA OpenLogs ==
  ASSUME FileTypes, NEW o \in FileObjects, NEW key \in Keys, File!Open(o, key)
  PROVE  /\ UNCHANGED current \/ current' = [current EXCEPT ![key] = @ + 1]
         /\ \A e \in Logged' \ Logged :
              /\ e.op \in {"NameCreate", "Create"} /\ e.text = <<key, current'[key]>>
              /\ IF e.op = "NameCreate" THEN e.key = key ELSE e.object = o
<1>1. ASSUME UNCHANGED current, File!Log(<<[op |-> "Create", object |-> o, text |-> File!Text(key, current[key])]>>)
      PROVE  \A e \in Logged' \ Logged : e = [op |-> "Create", object |-> o, text |-> <<key, current'[key]>>]
  <2> DEFINE entries == <<[op |-> "Create", object |-> o, text |-> File!Text(key, current[key])]>>
  <2>1. entries \in Seq(FileEvents) /\ Len(entries) = 1
    BY DEF File!Text, FileEvents, FileTypes
  <2>2. entries[1] = [op |-> "Create", object |-> o, text |-> <<key, current'[key]>>]
    BY <1>1 DEF File!Text
  <2> HIDE DEF entries
  <2>3. \A e \in Logged' : e \in Logged \/ \E i \in 1 .. Len(entries) : e = entries[i]
    BY <1>1, <2>1, LogAdds DEF entries
  <2> QED
    BY <2>1, <2>2, <2>3
<1>2. ASSUME current' = [current EXCEPT ![key] = @ + 1],
             File!Log(<<[op |-> "NameCreate", key |-> key, text |-> File!Text(key, current'[key])],
                        [op |-> "Create", object |-> o, text |-> File!Text(key, current'[key])]>>)
      PROVE  \A e \in Logged' \ Logged :
               \/ e = [op |-> "NameCreate", key |-> key, text |-> <<key, current'[key]>>]
               \/ e = [op |-> "Create", object |-> o, text |-> <<key, current'[key]>>]
  <2> DEFINE entries == <<[op |-> "NameCreate", key |-> key, text |-> File!Text(key, current'[key])],
                         [op |-> "Create", object |-> o, text |-> File!Text(key, current'[key])]>>
  <2>1. current'[key] \in Nat
    BY <1>2 DEF FileTypes
  <2>2. entries \in Seq(FileEvents) /\ Len(entries) = 2
    BY <2>1 DEF File!Text, FileEvents
  <2>3. /\ entries[1] = [op |-> "NameCreate", key |-> key, text |-> <<key, current'[key]>>]
        /\ entries[2] = [op |-> "Create", object |-> o, text |-> <<key, current'[key]>>]
    BY DEF File!Text
  <2> HIDE DEF entries
  <2>4. \A e \in Logged' : e \in Logged \/ \E i \in 1 .. Len(entries) : e = entries[i]
    BY <1>2, <2>2, LogAdds DEF entries
  <2> QED
    BY <2>2, <2>3, <2>4
<1>3. \/ UNCHANGED current /\ File!Log(<<[op |-> "Create", object |-> o, text |-> File!Text(key, current[key])]>>)
      \/ /\ current' = [current EXCEPT ![key] = @ + 1]
         /\ File!Log(<<[op |-> "NameCreate", key |-> key, text |-> File!Text(key, current'[key])],
                       [op |-> "Create", object |-> o, text |-> File!Text(key, current'[key])]>>)
  BY DEF File!Open
<1> QED
  BY <1>1, <1>2, <1>3

LEMMA ReadWriteLogs ==
  ASSUME FileTypes, NEW o \in FileObjects, NEW pid \in FilePids, File!ReadWrite(o, pid)
  PROVE  \A e \in Logged' \ Logged : e.op = "ReadWrite" /\ e.object = o /\ e.key = open[o]
<1> DEFINE entries == <<[op |-> "ReadWrite", object |-> o, key |-> open[o], pid |-> pid]>>
<1>1. entries \in Seq(FileEvents) /\ Len(entries) = 1
  BY DEF File!ReadWrite, File!IsOpen, FileEvents
<1>2. entries[1] = [op |-> "ReadWrite", object |-> o, key |-> open[o], pid |-> pid]
  OBVIOUS
<1> HIDE DEF entries
<1>3. \A e \in Logged' : e \in Logged \/ \E i \in 1 .. Len(entries) : e = entries[i]
  BY <1>1, LogAdds DEF entries, File!ReadWrite
<1> QED
  BY <1>1, <1>2, <1>3

LEMMA ObjectsStep == FileTypes /\ ObjectInv /\ [File!Next]_File!fileVars => ObjectInv'
<1> SUFFICES ASSUME FileTypes, ObjectInv, [File!Next]_File!fileVars PROVE ObjectInv'
  OBVIOUS
<1>1. ASSUME \A o \in FileObjects, k \in Keys : IsOf(o, k)' => IsOf(o, k),
             \A o \in FileObjects : open'[o] = File!NoKey => open[o] = File!NoKey
      PROVE  ObjectInv'
  BY <1>1 DEF ObjectInv
<1>2. ASSUME NEW o \in FileObjects, NEW key \in Keys, File!Open(o, key) PROVE ObjectInv'
  <2>1. /\ UNCHANGED <<m_ObjectNames, m_Pending, taken>>
        /\ open[o] = File!NoKey /\ open' = [open EXCEPT ![o] = key] /\ DOMAIN open = FileObjects
    BY <1>2 DEF File!Open, File!tableVars, File!resolverVars, FileTypes
  <2>2. \A e \in Logged' \ Logged : e.op # "NameCreate" => e.object = o /\ KeyOf(e) = key
    BY <1>2, OpenLogs DEF KeyOf
  <2>3. \A p \in FileObjects \ {o}, k \in Keys : IsOf(p, k)' => IsOf(p, k)
    BY <2>1, <2>2 DEF IsOf, KeyOf
  <2>4. \A k \in Keys : ~IsOf(o, k)
    BY <2>1 DEF ObjectInv
  <2>5. \A k \in Keys : IsOf(o, k)' => k = key
    BY <2>1, <2>2, <2>4 DEF IsOf, KeyOf
  <2>6. key # File!NoKey
    BY FileAssumption DEF File!NoKey
  <2> QED
    BY <2>1, <2>3, <2>5, <2>6 DEF ObjectInv
<1>3. ASSUME NEW o \in FileObjects, NEW pid \in FilePids, File!ReadWrite(o, pid) PROVE ObjectInv'
  <2>1. UNCHANGED <<m_ObjectNames, m_Pending, taken, open>>
    BY <1>3 DEF File!ReadWrite, File!tableVars, File!resolverVars
  <2>2. \A e \in Logged' \ Logged : e.object = o /\ KeyOf(e) = open[o]
    BY <1>3, ReadWriteLogs DEF KeyOf
  <2> QED
    BY <1>1, <2>1, <2>2 DEF IsOf, KeyOf
<1>4. ASSUME NEW cpu \in Processors, File!OnEvent(cpu) PROVE ObjectInv'
  <2> DEFINE e == Head(trace[cpu])
  <2>1. e \in Logged /\ e \in FileEvents /\ Logged' \subseteq Logged /\ UNCHANGED <<taken, open>>
    BY <1>4, HeadIsLogged, TailIsLogged DEF File!OnEvent, File!resolverVars
  <2> HIDE DEF e
  <2>2. CASE e.op = "NameCreate"
    <3>1. File!NameCreate(e)
      BY <1>4, <2>2 DEF File!OnEvent, e
    <3>2. /\ UNCHANGED m_ObjectNames /\ DOMAIN m_Pending' \subseteq DOMAIN m_Pending
          /\ \A key \in DOMAIN m_Pending' : m_Pending'[key] = m_Pending[key]
      BY <3>1 DEF File!NameCreate, File!Without, File!Restrict
    <3> QED
      BY <1>1, <2>1, <3>2 DEF IsOf, KeyOf
  <2>3. CASE e.op = "Create"
    <3>1. /\ UNCHANGED m_Pending /\ DOMAIN m_ObjectNames' = DOMAIN m_ObjectNames \cup {e.object}
          /\ m_ObjectNames'[e.object].text[1] = KeyOf(e)
          /\ \A o \in DOMAIN m_ObjectNames \ {e.object} : m_ObjectNames'[o] = m_ObjectNames[o]
      <4>1. File!Create(e)
        BY <1>4, <2>3 DEF File!OnEvent, e
      <4> QED
        BY <2>3, <4>1 DEF File!Create, File!With, KeyOf
    <3> QED
      BY <1>1, <2>1, <2>3, <3>1 DEF IsOf, KeyOf
  <2>4. CASE e.op = "ReadWrite"
    <3>1. UNCHANGED m_ObjectNames /\ (m_Pending' = m_Pending \/ m_Pending' = File!With(m_Pending, e.key, e.object))
      BY <1>4, <2>4 DEF File!OnEvent, File!OnReadWrite, e
    <3>2. /\ DOMAIN m_Pending' \subseteq DOMAIN m_Pending \cup {e.key}
          /\ \A key \in DOMAIN m_Pending' :
               \/ key \in DOMAIN m_Pending /\ m_Pending'[key] = m_Pending[key]
               \/ key = e.key /\ m_Pending'[key] = e.object
      <4>1. CASE m_Pending' = m_Pending
        BY <4>1
      <4>2. CASE m_Pending' = File!With(m_Pending, e.key, e.object)
        BY <4>2 DEF File!With
      <4> QED
        BY <3>1, <4>1, <4>2
    <3> QED
      BY <1>1, <2>1, <2>4, <3>1, <3>2 DEF IsOf, KeyOf
  <2> QED
    BY <2>1, <2>2, <2>3, <2>4 DEF FileEvents
<1>5. CASE File!TakePending
  <2>1. UNCHANGED <<trace, m_ObjectNames, open>> /\ taken' = m_Pending /\ DOMAIN m_Pending' = {} /\ UNCHANGED Logged
    BY <1>5 DEF File!TakePending, File!worldVars, File!Empty, Logged
  <2> QED
    BY <1>1, <2>1 DEF IsOf, KeyOf
<1>6. CASE File!NoHandles \/ File!ApplyNames
  <2>1. UNCHANGED <<trace, m_ObjectNames, m_Pending, open>> /\ DOMAIN taken' = {} /\ UNCHANGED Logged
    BY <1>6 DEF File!NoHandles, File!ApplyNames, File!worldVars, File!tableVars, File!Empty, Logged
  <2> QED
    BY <1>1, <2>1 DEF IsOf, KeyOf
<1>7. CASE File!Prune
  <2>1. /\ UNCHANGED <<trace, m_Pending, open, taken>> /\ UNCHANGED Logged
        /\ DOMAIN m_ObjectNames' \subseteq DOMAIN m_ObjectNames
        /\ \A o \in DOMAIN m_ObjectNames' : m_ObjectNames'[o] = m_ObjectNames[o]
    BY <1>7 DEF File!Prune, File!Fresh, File!Without, File!Restrict, File!worldVars, Logged
  <2> QED
    BY <1>1, <2>1 DEF IsOf, KeyOf
<1>8. CASE File!Stop
  <2>1. UNCHANGED <<open, taken>> /\ DOMAIN m_Pending' = {} /\ DOMAIN m_ObjectNames' = {}
    BY <1>8 DEF File!Stop, File!resolverVars, File!Empty
  <2>2. Logged' = {}
    BY <1>8 DEF File!Stop, Logged
  <2> QED
    BY <1>1, <2>1, <2>2 DEF IsOf, KeyOf
<1>9. ASSUME NEW o \in FileObjects, File!Close(o) PROVE ObjectInv'
  <2>1. /\ UNCHANGED <<trace, m_ObjectNames, m_Pending, taken>> /\ UNCHANGED Logged
        /\ open' = [open EXCEPT ![o] = File!Closed] /\ DOMAIN open = FileObjects
    BY <1>9 DEF File!Close, File!tableVars, File!resolverVars, FileTypes, Logged
  <2>2. File!Closed # File!NoKey /\ File!Closed \notin Keys
    BY FileAssumption DEF File!Closed, File!NoKey
  <2>3. \A p \in FileObjects : open'[p] = open[p] \/ open'[p] = File!Closed
    BY <2>1
  <2> QED
    BY <1>1, <2>1, <2>2, <2>3 DEF IsOf, KeyOf
<1>10. CASE File!LookUp \/ File!Tick \/ File!ReadClock \/ File!Start \/ UNCHANGED File!fileVars
            \/ \E pid \in FilePids : File!RemoveProcess(pid)
  <2>1. UNCHANGED <<trace, m_ObjectNames, m_Pending, taken, open>>
    BY <1>10 DEF File!LookUp, File!Tick, File!ReadClock, File!Start, File!RemoveProcess, File!fileVars, File!tableVars,
                 File!resolverVars, File!worldVars
  <2>2. UNCHANGED Logged
    BY <2>1 DEF Logged
  <2> QED
    BY <1>1, <2>1, <2>2 DEF IsOf, KeyOf
<1> QED
  BY <1>2, <1>3, <1>4, <1>5, <1>6, <1>7, <1>8, <1>9, <1>10 DEF File!Next

LEMMA NamesStep == FileTypes /\ FileTypes' /\ ObjectInv /\ NameInv /\ [File!Next]_File!fileVars => NameInv'
<1> SUFFICES ASSUME FileTypes, FileTypes', ObjectInv, NameInv, [File!Next]_File!fileVars PROVE NameInv'
  OBVIOUS
<1>1. ASSUME UNCHANGED <<m_Names, m_ObjectNames, found, current, told>>, Logged' \subseteq Logged PROVE NameInv'
  BY <1>1 DEF NameInv, NotLater
<1>2. ASSUME NEW o \in FileObjects, NEW key \in Keys, File!Open(o, key) PROVE NameInv'
  <2>1. UNCHANGED <<m_Names, m_ObjectNames, found, told>>
    BY <1>2 DEF File!Open, File!tableVars, File!resolverVars
  <2>2. current' \in [Keys -> Nat] /\ \A k \in Keys : current[k] <= current'[k]
    <3>1. UNCHANGED current \/ current' = [current EXCEPT ![key] = @ + 1]
      BY <1>2, OpenLogs
    <3>2. current \in [Keys -> Nat]
      BY DEF FileTypes
    <3> QED
      BY <3>1, <3>2
  <2>3. \A e \in Logged' \ Logged :
          e.op # "ReadWrite" /\ e.text = <<key, current'[key]>> /\ (e.op = "NameCreate" => e.key = key)
    BY <1>2, OpenLogs
  <2>4. ASSUME NEW text \in Keys \X Nat, NotLater(text) PROVE NotLater(text)'
    BY <2>2, <2>4 DEF NotLater, FileTypes
  <2>5. \A e \in Logged : e \in FileEvents
    BY DEF Logged, FileTypes
  <2>6. \A e \in Logged' : e.op = "NameCreate" => e.text[1] = e.key
    BY <2>3 DEF NameInv
  <2>7. \A e \in Logged' : e.op # "ReadWrite" => NotLater(e.text)'
    <3>1. ASSUME NEW e \in Logged, e.op # "ReadWrite" PROVE NotLater(e.text)'
      BY <2>4, <2>5, <3>1 DEF NameInv, FileEvents
    <3>2. ASSUME NEW e \in Logged' \ Logged PROVE NotLater(e.text)'
      BY <2>2, <2>3, <3>2 DEF NotLater
    <3> QED
      BY <3>1, <3>2
  <2>8. \A p \in DOMAIN m_ObjectNames : NotLater(m_ObjectNames[p].text)'
    BY <2>1, <2>4 DEF NameInv, FileTypes, Names
  <2>9. \A k \in DOMAIN m_Names : NotLater(m_Names[k].text)'
    BY <2>1, <2>4 DEF NameInv, FileTypes, Names
  <2>10. \A k \in DOMAIN found : NotLater(found[k])'
    BY <2>1, <2>4 DEF NameInv, FileTypes
  <2> QED
    BY <2>1, <2>6, <2>7, <2>8, <2>9, <2>10 DEF NameInv
<1>3. ASSUME NEW o \in FileObjects, NEW pid \in FilePids, File!ReadWrite(o, pid) PROVE NameInv'
  <2>1. UNCHANGED <<m_Names, m_ObjectNames, found, current, told>>
    BY <1>3 DEF File!ReadWrite, File!tableVars, File!resolverVars
  <2>2. \A e \in Logged' \ Logged : e.op = "ReadWrite"
    BY <1>3, ReadWriteLogs
  <2> QED
    BY <2>1, <2>2 DEF NameInv, NotLater
<1>4. ASSUME NEW cpu \in Processors, File!OnEvent(cpu) PROVE NameInv'
  <2> DEFINE e == Head(trace[cpu])
  <2>1. e \in Logged /\ e \in FileEvents /\ Logged' \subseteq Logged /\ UNCHANGED <<found, current>>
    BY <1>4, HeadIsLogged, TailIsLogged DEF File!OnEvent, File!resolverVars
  <2> HIDE DEF e
  <2>2. CASE e.op = "NameCreate"
    <3>1. File!NameCreate(e) /\ e.key \in Keys /\ e.text \in Keys \X Nat /\ e.text[1] = e.key /\ NotLater(e.text)
      BY <1>4, <2>1, <2>2 DEF File!OnEvent, FileEvents, NameInv, e
    <3>2. /\ UNCHANGED m_ObjectNames /\ DOMAIN m_Names' = DOMAIN m_Names \cup {e.key}
          /\ m_Names'[e.key].text = e.text /\ \A k \in DOMAIN m_Names \ {e.key} : m_Names'[k] = m_Names[k]
          /\ told'[e.key] = e.text[2] /\ \A k \in Keys \ {e.key} : told'[k] = told[k]
      BY <3>1 DEF File!NameCreate, File!With, FileTypes
    <3>3. \A k \in DOMAIN m_Names' : m_Names'[k].text[1] = k /\ NotLater(m_Names'[k].text) /\ told'[k] <= m_Names'[k].text[2]
      BY <3>1, <3>2, SMTT(30) DEF NameInv, FileTypes
    <3> QED
      BY <2>1, <3>1, <3>2, <3>3 DEF NameInv, NotLater, FileTypes
  <2>3. CASE e.op = "Create"
    <3>1. File!Create(e) /\ e.object \in FileObjects /\ e.text \in Keys \X Nat /\ NotLater(e.text)
      BY <1>4, <2>1, <2>3 DEF File!OnEvent, FileEvents, NameInv, e
    <3>2. /\ UNCHANGED <<m_Names, told>> /\ DOMAIN m_ObjectNames' = DOMAIN m_ObjectNames \cup {e.object}
          /\ m_ObjectNames'[e.object].text = e.text
          /\ \A o \in DOMAIN m_ObjectNames \ {e.object} : m_ObjectNames'[o] = m_ObjectNames[o]
      BY <3>1 DEF File!Create, File!With
    <3> QED
      BY <2>1, <3>1, <3>2 DEF NameInv, NotLater
  <2>4. CASE e.op = "ReadWrite"
    <3>1. File!OnReadWrite(e) /\ e.object \in FileObjects /\ e.key \in Keys /\ UNCHANGED <<m_ObjectNames, told>>
      BY <1>4, <2>1, <2>4 DEF File!OnEvent, FileEvents, File!OnReadWrite, e
    <3>2. CASE e.key \in DOMAIN m_Names
      <4>1. m_Names' = [m_Names EXCEPT ![e.key].tick = tick] /\ m_Names[e.key] \in Names
        BY <3>1, <3>2 DEF File!OnReadWrite, FileTypes
      <4>2. DOMAIN m_Names' = DOMAIN m_Names /\ \A k \in DOMAIN m_Names : m_Names'[k].text = m_Names[k].text
        BY <4>1 DEF Names
      <4> QED
        BY <2>1, <3>1, <4>2 DEF NameInv, NotLater
    <3>3. CASE e.key \notin DOMAIN m_Names /\ e.object \in DOMAIN m_ObjectNames
      <4>1. m_Names' = File!With(m_Names, e.key, [text |-> m_ObjectNames[e.object].text, tick |-> tick])
        BY <3>1, <3>3 DEF File!OnReadWrite
      <4>2. m_ObjectNames[e.object].text \in Keys \X Nat /\ NotLater(m_ObjectNames[e.object].text)
        BY <3>3 DEF NameInv, FileTypes, Names
      <4>3. m_ObjectNames[e.object].text[1] = e.key
        <5>1. IsOf(e.object, e.key) /\ IsOf(e.object, m_ObjectNames[e.object].text[1])
          BY <2>1, <2>4, <3>3 DEF IsOf, KeyOf
        <5> QED
          BY <3>1, <4>2, <5>1 DEF ObjectInv
      <4>4. /\ DOMAIN m_Names' = DOMAIN m_Names \cup {e.key}
            /\ m_Names'[e.key].text = m_ObjectNames[e.object].text
            /\ \A k \in DOMAIN m_Names : m_Names'[k] = m_Names[k]
        BY <3>3, <4>1 DEF File!With
      <4>5. told[e.key] = 0
        BY <3>1, <3>3 DEF NameInv
      <4> QED
        BY <2>1, <3>1, <4>2, <4>3, <4>4, <4>5 DEF NameInv, NotLater
    <3>4. CASE e.key \notin DOMAIN m_Names /\ e.object \notin DOMAIN m_ObjectNames
      BY <1>1, <2>1, <3>1, <3>4 DEF File!OnReadWrite
    <3> QED
      BY <3>2, <3>3, <3>4
  <2> QED
    BY <2>1, <2>2, <2>3, <2>4 DEF FileEvents
<1>5. CASE File!LookUp
  <2>1. UNCHANGED <<trace, m_Names, m_ObjectNames, told, current>>
    BY <1>5 DEF File!LookUp, File!worldVars, File!tableVars
  <2>2. PICK named \in SUBSET {key \in DOMAIN taken : File!IsOpen(taken[key])} :
          found' = [key \in named |-> File!Text(open[taken[key]], current[open[taken[key]]])]
    BY <1>5 DEF File!LookUp
  <2>3. ASSUME NEW key \in named PROVE open[taken[key]] = key
    <3>1. key \in Keys /\ taken[key] \in FileObjects /\ open[taken[key]] \in Keys
      BY DEF FileTypes, File!IsOpen
    <3>2. IsOf(taken[key], key) /\ IsOf(taken[key], open[taken[key]])
      BY DEF IsOf
    <3> QED
      BY <3>1, <3>2 DEF ObjectInv
  <2>4. \A key \in DOMAIN found' : found'[key] = <<key, current[key]>> /\ current[key] \in Nat
    BY <2>2, <2>3 DEF File!Text, FileTypes
  <2>5. UNCHANGED Logged
    BY <2>1 DEF Logged
  <2> QED
    BY <2>1, <2>4, <2>5 DEF NameInv, NotLater
<1>6. CASE File!ApplyNames
  <2>1. UNCHANGED <<trace, m_ObjectNames, told, current>> /\ DOMAIN found' = {}
    BY <1>6 DEF File!ApplyNames, File!worldVars, File!Empty
  <2>2. /\ DOMAIN m_Names' = DOMAIN m_Names \cup DOMAIN found
        /\ \A k \in DOMAIN m_Names : m_Names'[k] = m_Names[k]
        /\ \A k \in DOMAIN found \ DOMAIN m_Names : m_Names'[k].text = found[k]
    BY <1>6 DEF File!ApplyNames, File!FoundNames, File!Merged
  <2>3. \A k \in DOMAIN found \ DOMAIN m_Names : told[k] = 0 /\ found[k] \in Keys \X Nat
    BY DEF NameInv, FileTypes
  <2>4. UNCHANGED Logged
    BY <2>1 DEF Logged
  <2>5. \A k \in DOMAIN m_Names' : m_Names'[k].text[1] = k /\ NotLater(m_Names'[k].text) /\ told'[k] <= m_Names'[k].text[2]
    BY <2>1, <2>2, <2>3 DEF NameInv, NotLater
  <2> QED
    BY <2>1, <2>2, <2>4, <2>5 DEF NameInv, NotLater
<1>7. CASE File!Prune
  <2>1. /\ UNCHANGED <<trace, current, found>>
        /\ told' = [key \in Keys |-> IF key \in DOMAIN m_Names' THEN told[key] ELSE 0]
    BY <1>7 DEF File!Prune, File!worldVars
  <2>2. DOMAIN m_Names' \subseteq DOMAIN m_Names /\ \A key \in DOMAIN m_Names' : m_Names'[key] = m_Names[key]
    BY <1>7 DEF File!Prune, File!Fresh, File!Without, File!Restrict
  <2>3. /\ DOMAIN m_ObjectNames' \subseteq DOMAIN m_ObjectNames
        /\ \A o \in DOMAIN m_ObjectNames' : m_ObjectNames'[o] = m_ObjectNames[o]
    BY <1>7 DEF File!Prune, File!Fresh, File!Without, File!Restrict
  <2>4. UNCHANGED Logged
    BY <2>1 DEF Logged
  <2> QED
    BY <2>1, <2>2, <2>3, <2>4 DEF NameInv, NotLater, FileTypes
<1>8. CASE File!Stop
  <2>1. /\ UNCHANGED <<found, current>> /\ DOMAIN m_Names' = {} /\ DOMAIN m_ObjectNames' = {}
        /\ told' = [key \in Keys |-> 0]
    BY <1>8 DEF File!Stop, File!resolverVars, File!Empty
  <2>2. Logged' = {}
    BY <1>8 DEF File!Stop, Logged
  <2> QED
    BY <2>1, <2>2 DEF NameInv, NotLater
<1>9. CASE \/ File!TakePending \/ File!NoHandles \/ File!Tick \/ File!ReadClock \/ File!Start \/ UNCHANGED File!fileVars
           \/ \E pid \in FilePids : File!RemoveProcess(pid)
           \/ \E o \in FileObjects : File!Close(o)
  <2>1. UNCHANGED <<trace, m_Names, m_ObjectNames, found, current, told>>
    BY <1>9 DEF File!TakePending, File!NoHandles, File!Tick, File!ReadClock, File!Start, File!RemoveProcess, File!Close,
                File!fileVars, File!tableVars, File!resolverVars, File!worldVars
  <2>2. UNCHANGED Logged
    BY <2>1 DEF Logged
  <2> QED
    BY <1>1, <2>1, <2>2
<1> QED
  BY <1>2, <1>3, <1>4, <1>5, <1>6, <1>7, <1>8, <1>9 DEF File!Next

\* a key in use is sought in fewer than MaxAttempts passes before this one
Attempts(key) == IF key \in DOMAIN m_Attempts THEN m_Attempts[key] ELSE 0
AttemptInv ==
    /\ \A key \in Keys : Attempts(key) <= MaxAttempts + 1
    /\ \A key \in DOMAIN taken : Attempts(key) <= MaxAttempts
    /\ \A key \in DOMAIN m_Pending :
         Attempts(key) <= MaxAttempts /\ (key \in DOMAIN taken => Attempts(key) < MaxAttempts)

LEMMA AttemptsStep == FileTypes /\ AttemptInv /\ [File!Next]_File!fileVars => AttemptInv'
<1> SUFFICES ASSUME FileTypes, AttemptInv, [File!Next]_File!fileVars PROVE AttemptInv'
  OBVIOUS
<1>1. MaxAttempts \in Nat \ {0} /\ \A key \in Keys : Attempts(key) \in Nat
  BY FileAssumption DEF Attempts, FileTypes
<1>2. ASSUME \A key \in Keys : Attempts(key)' <= Attempts(key) /\ Attempts(key)' \in Nat,
             DOMAIN m_Pending' \subseteq DOMAIN m_Pending, DOMAIN taken' \subseteq DOMAIN taken
      PROVE  AttemptInv'
  BY <1>1, <1>2 DEF AttemptInv, FileTypes
<1>3. ASSUME UNCHANGED m_Attempts PROVE \A key \in Keys : Attempts(key)' = Attempts(key)
  BY <1>3 DEF Attempts
<1>4. ASSUME NEW cpu \in Processors, File!OnEvent(cpu) PROVE AttemptInv'
  <2> DEFINE e == Head(trace[cpu])
  <2>1. e \in FileEvents /\ UNCHANGED taken
    BY <1>4, HeadIsLogged DEF File!OnEvent, File!resolverVars
  <2> HIDE DEF e
  <2>2. CASE e.op = "NameCreate"
    <3>1. UNCHANGED m_Attempts /\ DOMAIN m_Pending' \subseteq DOMAIN m_Pending
      BY <1>4, <2>2 DEF File!OnEvent, File!NameCreate, File!Without, File!Restrict, e
    <3> QED
      BY <1>1, <1>2, <1>3, <2>1, <3>1
  <2>3. CASE e.op = "Create"
    <3>1. UNCHANGED <<m_Attempts, m_Pending>>
      BY <1>4, <2>3 DEF File!OnEvent, File!Create, e
    <3> QED
      BY <1>1, <1>2, <1>3, <2>1, <3>1
  <2>4. CASE e.op = "ReadWrite"
    <3>1. /\ UNCHANGED m_Attempts /\ e.key \in Keys
          /\ \/ m_Pending' = m_Pending
             \/ m_Pending' = File!With(m_Pending, e.key, e.object) /\ File!Sought(e.key)
      BY <1>4, <2>1, <2>4 DEF File!OnEvent, File!OnReadWrite, FileEvents, e
    <3>2. CASE m_Pending' = m_Pending
      BY <1>1, <1>2, <1>3, <2>1, <3>1, <3>2
    <3>3. CASE m_Pending' = File!With(m_Pending, e.key, e.object) /\ File!Sought(e.key)
      <4>1. DOMAIN m_Pending' = DOMAIN m_Pending \cup {e.key}
        BY <3>3 DEF File!With
      <4>2. Attempts(e.key) < MaxAttempts
        BY <1>1, <3>3 DEF File!Sought, Attempts
      <4> QED
        BY <1>1, <1>3, <2>1, <3>1, <4>1, <4>2 DEF AttemptInv, FileTypes
    <3> QED
      BY <3>1, <3>2, <3>3
  <2> QED
    BY <2>1, <2>2, <2>3, <2>4 DEF FileEvents
<1>5. CASE File!TakePending
  <2>1. UNCHANGED m_Attempts /\ taken' = m_Pending /\ DOMAIN m_Pending' = {}
    BY <1>5 DEF File!TakePending, File!Empty
  <2> QED
    BY <1>3, <2>1 DEF AttemptInv, FileTypes
<1>6. CASE File!ApplyNames
  <2>1. /\ UNCHANGED m_Pending /\ DOMAIN taken' = {}
        /\ \A key \in DOMAIN taken : Attempts(key)' <= Attempts(key) + 1
        /\ \A key \in Keys \ DOMAIN taken : Attempts(key)' = Attempts(key)
        /\ \A key \in Keys : Attempts(key)' \in Nat
    BY <1>1, <1>6 DEF File!ApplyNames, File!Merged, File!Empty, Attempts, FileTypes
  <2>2. \A key \in Keys : Attempts(key)' <= MaxAttempts + 1
    BY <1>1, <2>1 DEF AttemptInv, FileTypes
  <2>3. \A key \in DOMAIN m_Pending : Attempts(key)' <= MaxAttempts
    <3> SUFFICES ASSUME NEW key \in DOMAIN m_Pending PROVE Attempts(key)' <= MaxAttempts
      OBVIOUS
    <3>1. key \in Keys /\ Attempts(key) \in Nat
      BY <1>1 DEF FileTypes
    <3> QED
      BY <1>1, <2>1, <3>1 DEF AttemptInv
  <2> QED
    BY <2>1, <2>2, <2>3 DEF AttemptInv
<1>7. CASE File!Prune
  <2>1. UNCHANGED <<m_Pending, taken>>
    BY <1>7 DEF File!Prune
  <2>2. \A key \in Keys : Attempts(key)' = Attempts(key) \/ Attempts(key)' = 0
    BY <1>7 DEF File!Prune, File!Restrict, Attempts
  <2> QED
    BY <1>1, <1>2, <2>1, <2>2
<1>8. CASE File!Stop \/ File!NoHandles
  <2>1. \A key \in Keys : Attempts(key)' = Attempts(key) \/ Attempts(key)' = 0
    BY <1>8 DEF File!Stop, File!NoHandles, File!tableVars, File!Empty, Attempts
  <2>2. DOMAIN m_Pending' \subseteq DOMAIN m_Pending /\ DOMAIN taken' \subseteq DOMAIN taken
    BY <1>8 DEF File!Stop, File!NoHandles, File!tableVars, File!resolverVars, File!Empty
  <2> QED
    BY <1>1, <1>2, <2>1, <2>2
<1>9. CASE \/ File!LookUp \/ File!Tick \/ File!ReadClock \/ File!Start \/ UNCHANGED File!fileVars
           \/ \E pid \in FilePids : File!RemoveProcess(pid)
           \/ \E o \in FileObjects : File!Close(o)
           \/ \E o \in FileObjects, key \in Keys : File!Open(o, key)
           \/ \E o \in FileObjects, pid \in FilePids : File!ReadWrite(o, pid)
  <2>1. UNCHANGED <<m_Attempts, m_Pending, taken>>
    BY <1>9 DEF File!LookUp, File!Tick, File!ReadClock, File!Start, File!RemoveProcess, File!Close, File!Open,
                File!ReadWrite, File!fileVars, File!tableVars, File!resolverVars
  <2> QED
    BY <1>1, <1>2, <1>3, <2>1
<1> QED
  BY <1>4, <1>5, <1>6, <1>7, <1>8, <1>9 DEF File!Next

\* a tracker that does not run has nothing, and its resolver sleeps
FileRuns ==
    /\ rpc \in {"sleep", "look", "apply", "prune", "erase"}
    /\ ~running => m_Files = File!Empty /\ m_Names = File!Empty /\ m_Attempts = File!Empty /\ rpc = "sleep"

\* the reads and writes not delivered yet
WaitsAt(cpu, i) == i \in 1 .. Len(trace[cpu]) /\ trace[cpu][i].op = "ReadWrite"

\* the reads and writes in turn: those not delivered have numbers of their own, and what is counted has others
Numbered(number) ==
    /\ \A cpu \in Processors, i \in Nat : WaitsAt(cpu, i) => number[cpu][i] \in 1 .. io
    /\ \A c, d \in Processors : \A i, j \in Nat :
         WaitsAt(c, i) /\ WaitsAt(d, j) /\ number[c][i] = number[d][j] => c = d /\ i = j
    /\ \A id \in DOMAIN m_Files : \E counted \in SUBSET (1 .. io) :
         /\ Cardinality(counted) = m_Files[id].count
         /\ \A cpu \in Processors, i \in Nat : WaitsAt(cpu, i) => number[cpu][i] \notin counted
FileCounts ==
    /\ io \in 0 .. MaxIo
    /\ \A id \in DOMAIN m_Files : id \in FilePids \X Keys /\ m_Files[id].count \in Nat \ {0}
    /\ \E number : Numbered(number)

LEMMA FileRunsStep == FileRuns /\ [File!Next]_File!fileVars => FileRuns'
<1> SUFFICES ASSUME FileRuns, [File!Next]_File!fileVars PROVE FileRuns'
  OBVIOUS
<1>1. CASE running' /\ rpc' \in {"sleep", "look", "apply", "prune", "erase"}
  BY <1>1 DEF FileRuns
<1>2. ASSUME UNCHANGED <<running, rpc, m_Files, m_Names, m_Attempts>> PROVE FileRuns'
  BY <1>2 DEF FileRuns
<1>3. ASSUME NEW o \in FileObjects, (\E key \in Keys : File!Open(o, key)) \/ File!Close(o) PROVE FileRuns'
  BY <1>2, <1>3 DEF File!Open, File!Close, File!tableVars, File!resolverVars
<1>4. ASSUME NEW o \in FileObjects, NEW pid \in FilePids, File!ReadWrite(o, pid) PROVE FileRuns'
  BY <1>2, <1>4 DEF File!ReadWrite, File!tableVars, File!resolverVars
<1>5. CASE File!Tick \/ UNCHANGED File!fileVars
  BY <1>2, <1>5 DEF File!Tick, File!fileVars, File!tableVars, File!resolverVars
<1>6. ASSUME NEW cpu \in Processors, File!OnEvent(cpu) PROVE FileRuns'
  BY <1>6 DEF File!OnEvent, File!resolverVars, FileRuns
<1>7. CASE File!TakePending
  BY <1>1, <1>7 DEF File!TakePending
<1>8. CASE File!LookUp \/ File!NoHandles \/ File!ApplyNames \/ File!ReadClock \/ File!Prune
  BY <1>1, <1>8 DEF File!LookUp, File!NoHandles, File!ApplyNames, File!ReadClock, File!Prune, FileRuns
<1>9. CASE File!Start
  BY <1>1, <1>9 DEF File!Start, File!resolverVars, FileRuns
<1>10. CASE File!Stop
  BY <1>10 DEF File!Stop, File!resolverVars, FileRuns
<1>11. ASSUME NEW pid \in FilePids, File!RemoveProcess(pid) PROVE FileRuns'
  BY <1>1, <1>11 DEF File!RemoveProcess, File!resolverVars, FileRuns
<1> QED
  BY <1>3, <1>4, <1>5, <1>6, <1>7, <1>8, <1>9, <1>10, <1>11 DEF File!Next

\* what waits after an action of the system, and after an event
LEMMA WaitingGrows ==
  ASSUME FileTypes, NEW entries \in Seq(FileEvents), NEW cpu \in Processors, trace' = [trace EXCEPT ![cpu] = @ \o entries]
  PROVE  \A c \in Processors, i \in Nat :
            WaitsAt(c, i)' <=>
              \/ WaitsAt(c, i)
              \/ c = cpu /\ i - Len(trace[cpu]) \in 1 .. Len(entries) /\ entries[i - Len(trace[cpu])].op = "ReadWrite"
<1>1. trace[cpu] \in Seq(FileEvents) /\ trace \in [Processors -> Seq(FileEvents)]
  BY DEF FileTypes
<1>2. trace'[cpu] = trace[cpu] \o entries /\ \A c \in Processors \ {cpu} : trace'[c] = trace[c]
  BY <1>1
<1>3. /\ Len(trace[cpu] \o entries) = Len(trace[cpu]) + Len(entries)
      /\ \A i \in 1 .. Len(trace[cpu]) + Len(entries) :
           (trace[cpu] \o entries)[i] = IF i <= Len(trace[cpu]) THEN trace[cpu][i] ELSE entries[i - Len(trace[cpu])]
  BY <1>1
<1>4. ASSUME NEW i \in Nat
      PROVE  WaitsAt(cpu, i)' <=>
               \/ WaitsAt(cpu, i)
               \/ i - Len(trace[cpu]) \in 1 .. Len(entries) /\ entries[i - Len(trace[cpu])].op = "ReadWrite"
  <2>1. Len(trace[cpu]) \in Nat /\ Len(entries) \in Nat
    BY <1>1
  <2>2. i \in 1 .. Len(trace'[cpu]) <=> i \in 1 .. Len(trace[cpu]) \/ i - Len(trace[cpu]) \in 1 .. Len(entries)
    BY <1>2, <1>3, <2>1
  <2>3. i \in 1 .. Len(trace[cpu]) => trace'[cpu][i] = trace[cpu][i] /\ ~(i - Len(trace[cpu]) \in 1 .. Len(entries))
    BY <1>2, <1>3, <2>1
  <2>4. i - Len(trace[cpu]) \in 1 .. Len(entries) => trace'[cpu][i] = entries[i - Len(trace[cpu])]
    BY <1>2, <1>3, <2>1
  <2> QED
    BY <2>2, <2>3, <2>4 DEF WaitsAt
<1>5. \A c \in Processors \ {cpu}, i \in Nat : WaitsAt(c, i)' <=> WaitsAt(c, i)
  BY <1>2 DEF WaitsAt
<1> QED
  BY <1>4, <1>5

LEMMA WaitingShrinks ==
  ASSUME FileTypes, NEW cpu \in Processors, trace[cpu] # <<>>, trace' = [trace EXCEPT ![cpu] = Tail(@)]
  PROVE  /\ \A i \in Nat : WaitsAt(cpu, i)' <=> i # 0 /\ WaitsAt(cpu, i + 1)
         /\ \A c \in Processors \ {cpu}, i \in Nat : WaitsAt(c, i)' <=> WaitsAt(c, i)
         /\ WaitsAt(cpu, 1) <=> Head(trace[cpu]).op = "ReadWrite"
<1>1. trace \in [Processors -> Seq(FileEvents)] /\ trace[cpu] \in Seq(FileEvents)
  BY DEF FileTypes
<1>2. Len(Tail(trace[cpu])) = Len(trace[cpu]) - 1
      /\ \A j \in 1 .. Len(Tail(trace[cpu])) : Tail(trace[cpu])[j] = trace[cpu][j + 1]
  BY <1>1
<1>3. trace'[cpu] = Tail(trace[cpu]) /\ \A c \in Processors \ {cpu} : trace'[c] = trace[c]
  BY <1>1
<1>4. Head(trace[cpu]) = trace[cpu][1] /\ 1 \in 1 .. Len(trace[cpu])
  BY <1>1
<1>5. ASSUME NEW i \in Nat PROVE WaitsAt(cpu, i)' <=> i # 0 /\ WaitsAt(cpu, i + 1)
  <2>1. Len(trace[cpu]) \in Nat /\ Len(trace'[cpu]) = Len(trace[cpu]) - 1
    BY <1>1, <1>2, <1>3
  <2>2. i \in 1 .. Len(trace'[cpu]) <=> i # 0 /\ i + 1 \in 1 .. Len(trace[cpu])
    BY <2>1
  <2>3. i \in 1 .. Len(trace'[cpu]) => trace'[cpu][i] = trace[cpu][i + 1]
    BY <1>2, <1>3
  <2> QED
    BY <2>2, <2>3 DEF WaitsAt
<1>6. \A c \in Processors \ {cpu}, i \in Nat : WaitsAt(c, i)' <=> WaitsAt(c, i)
  BY <1>3 DEF WaitsAt
<1> QED
  BY <1>4, <1>5, <1>6 DEF WaitsAt

LEMMA FileCountsStep == FileTypes /\ FileCounts /\ [File!Next]_File!fileVars => FileCounts'
<1> SUFFICES ASSUME FileTypes, FileCounts, [File!Next]_File!fileVars PROVE FileCounts'
  OBVIOUS
<1>0. io \in Nat /\ MaxIo \in Nat /\ io <= MaxIo
  BY FileAssumption DEF FileCounts
<1>1. PICK number : Numbered(number)
  BY DEF FileCounts
\* what is not delivered stays so, or is dropped, and so does what is counted
<1>2. ASSUME io' = io, \A cpu \in Processors, i \in Nat : WaitsAt(cpu, i)' => WaitsAt(cpu, i),
             DOMAIN m_Files' \subseteq DOMAIN m_Files, \A id \in DOMAIN m_Files' : m_Files'[id] = m_Files[id]
      PROVE  FileCounts'
  <2>1. Numbered(number)'
    BY <1>1, <1>2 DEF Numbered
  <2> QED
    BY <1>2, <2>1 DEF FileCounts
<1>3. ASSUME UNCHANGED <<io, trace, m_Files>> PROVE FileCounts'
  BY <1>2, <1>3 DEF WaitsAt
<1>4. ASSUME NEW o \in FileObjects, NEW key \in Keys, File!Open(o, key) PROVE FileCounts'
  <2>1. UNCHANGED <<io, m_Files>>
    BY <1>4 DEF File!Open, File!tableVars
  <2> DEFINE create(file) == [op |-> "Create", object |-> o, text |-> File!Text(key, file)]
             name(file) == [op |-> "NameCreate", key |-> key, text |-> File!Text(key, file)]
  <2>2. PICK file \in Nat : File!Log(<<create(file)>>) \/ File!Log(<<name(file), create(file)>>)
    <3>1. current[key] \in Nat /\ current \in [Keys -> Nat]
      BY DEF FileTypes
    <3>2. current' = [current EXCEPT ![key] = @ + 1] => current'[key] \in Nat
      BY <3>1
    <3> QED
      BY <1>4, <3>1, <3>2 DEF File!Open
  <2>3. create(file) \in FileEvents /\ name(file) \in FileEvents
    BY DEF FileEvents, File!Text
  <2>4. <<create(file)>>[1].op # "ReadWrite" /\ \A i \in {1, 2} : <<name(file), create(file)>>[i].op # "ReadWrite"
    OBVIOUS
  <2>5. /\ <<create(file)>> \in Seq(FileEvents) /\ Len(<<create(file)>>) = 1
        /\ <<name(file), create(file)>> \in Seq(FileEvents) /\ Len(<<name(file), create(file)>>) = 2
    BY <2>3
  <2>6. 1 .. 1 = {1} /\ 1 .. 2 = {1, 2}
    OBVIOUS
  <2> HIDE DEF create, name
  <2>7. ASSUME NEW entries \in Seq(FileEvents), \A i \in 1 .. Len(entries) : entries[i].op # "ReadWrite", File!Log(entries)
        PROVE  FileCounts'
    <3>1. CASE UNCHANGED trace
      BY <1>3, <2>1, <3>1
    <3>2. ASSUME NEW cpu \in Processors, trace' = [trace EXCEPT ![cpu] = @ \o entries] PROVE FileCounts'
      BY <1>2, <2>1, <2>7, <3>2, WaitingGrows
    <3> QED
      BY <2>7, <3>1, <3>2 DEF File!Log
  <2> QED
    BY <2>2, <2>4, <2>5, <2>6, <2>7
<1>5. ASSUME NEW o \in FileObjects, NEW pid \in FilePids, File!ReadWrite(o, pid) PROVE FileCounts'
  <2> DEFINE e == [op |-> "ReadWrite", object |-> o, key |-> open[o], pid |-> pid]
  <2>1. io < MaxIo /\ io' = io + 1 /\ UNCHANGED m_Files /\ e \in FileEvents
    BY <1>5 DEF File!ReadWrite, File!tableVars, File!IsOpen, FileEvents
  <2>2. PICK cpu \in Processors : trace' = [trace EXCEPT ![cpu] = @ \o <<e>>]
    BY <1>5 DEF File!ReadWrite, File!Log
  <2>3. <<e>> \in Seq(FileEvents) /\ Len(<<e>>) = 1
    BY <2>1
  <2> HIDE DEF e
  <2>4. PICK last \in Nat : last = Len(trace[cpu]) + 1
    BY DEF FileTypes
  <2>5. \A c \in Processors, i \in Nat : WaitsAt(c, i)' => WaitsAt(c, i) \/ (c = cpu /\ i = last)
    <3>1. Len(trace[cpu]) \in Nat
      BY DEF FileTypes
    <3>2. \A i \in Nat : i - Len(trace[cpu]) \in 1 .. 1 => i = last
      BY <2>4, <3>1
    <3> QED
      BY <2>2, <2>3, <3>2, WaitingGrows
  <2>6. \A c \in Processors, i \in Nat : WaitsAt(c, i) => ~(c = cpu /\ i = last)
    <3>1. Len(trace[cpu]) \in Nat
      BY DEF FileTypes
    <3> QED
      BY <2>4, <3>1 DEF WaitsAt
  <2>7. PICK more : \A c \in Processors, i \in Nat : more[c][i] = IF c = cpu /\ i = last THEN io + 1 ELSE number[c][i]
    <3> DEFINE more == [c \in Processors |-> [i \in Nat |-> IF c = cpu /\ i = last THEN io + 1 ELSE number[c][i]]]
    <3>1. \A c \in Processors, i \in Nat : more[c][i] = IF c = cpu /\ i = last THEN io + 1 ELSE number[c][i]
      OBVIOUS
    <3> HIDE DEF more
    <3> QED
      BY <3>1
  <2>8. \A c \in Processors, i \in Nat : WaitsAt(c, i) => more[c][i] = number[c][i] /\ number[c][i] \in 1 .. io
    BY <1>1, <2>6, <2>7 DEF Numbered
  <2>9. 1 .. io \subseteq 1 .. io + 1 /\ io + 1 \in 1 .. io + 1 /\ io + 1 \notin 1 .. io
    BY <1>0
  <2>10. \A c \in Processors, i \in Nat : WaitsAt(c, i)' => more[c][i] \in 1 .. io'
    BY <2>1, <2>5, <2>7, <2>8, <2>9
  <2>11. ASSUME NEW c \in Processors, NEW d \in Processors, NEW i \in Nat, NEW j \in Nat,
                WaitsAt(c, i)', WaitsAt(d, j)', more[c][i] = more[d][j]
         PROVE  c = d /\ i = j
    <3>1. CASE WaitsAt(c, i) /\ WaitsAt(d, j)
      BY <1>1, <2>8, <2>11, <3>1 DEF Numbered
    <3>2. CASE c = cpu /\ i = last /\ WaitsAt(d, j)
      BY <2>7, <2>8, <2>9, <2>11, <3>2
    <3>3. CASE d = cpu /\ j = last /\ WaitsAt(c, i)
      BY <2>7, <2>8, <2>9, <2>11, <3>3
    <3> QED
      BY <2>5, <2>11, <3>1, <3>2, <3>3
  <2>12. ASSUME NEW id \in DOMAIN m_Files'
         PROVE  \E counted \in SUBSET (1 .. io') :
                   /\ Cardinality(counted) = m_Files'[id].count
                   /\ \A c \in Processors, i \in Nat : WaitsAt(c, i)' => more[c][i] \notin counted
    <3>1. PICK counted \in SUBSET (1 .. io) :
            /\ Cardinality(counted) = m_Files[id].count
            /\ \A c \in Processors, i \in Nat : WaitsAt(c, i) => number[c][i] \notin counted
      BY <1>1, <2>1, <2>12 DEF Numbered
    <3>2. \A c \in Processors, i \in Nat : WaitsAt(c, i)' => more[c][i] \notin counted
      BY <2>5, <2>7, <2>8, <2>9, <3>1
    <3>3. counted \in SUBSET (1 .. io')
      BY <2>1, <2>9
    <3> QED
      BY <2>1, <3>1, <3>2, <3>3
  <2>13. Numbered(more)'
    BY <2>10, <2>11, <2>12 DEF Numbered
  <2>14. io' \in 0 .. MaxIo
    BY <1>0, <2>1
  <2> QED
    BY <2>1, <2>13, <2>14 DEF FileCounts
<1>6. ASSUME NEW cpu \in Processors, File!OnEvent(cpu) PROVE FileCounts'
  <2> DEFINE e == Head(trace[cpu])
  <2>1. trace[cpu] # <<>> /\ trace' = [trace EXCEPT ![cpu] = Tail(@)] /\ io' = io /\ e \in FileEvents
    BY <1>6, HeadIsLogged DEF File!OnEvent
  <2> DEFINE rest == [c \in Processors |-> [i \in Nat |-> IF c = cpu THEN number[cpu][i + 1] ELSE number[c][i]]]
  <2>2. /\ \A i \in Nat : WaitsAt(cpu, i)' => WaitsAt(cpu, i + 1) /\ i # 0
        /\ \A c \in Processors \ {cpu}, i \in Nat : WaitsAt(c, i)' => WaitsAt(c, i)
        /\ WaitsAt(cpu, 1) <=> e.op = "ReadWrite"
    BY <2>1, WaitingShrinks
  <2>3. /\ \A i \in Nat : rest[cpu][i] = number[cpu][i + 1]
        /\ \A c \in Processors \ {cpu}, i \in Nat : rest[c][i] = number[c][i]
    OBVIOUS
  <2> HIDE DEF rest
  \* what still waits waited before, not first on this processor
  <2>4. ASSUME NEW c \in Processors, NEW i \in Nat, WaitsAt(c, i)'
        PROVE  \E j \in Nat : WaitsAt(c, j) /\ rest[c][i] = number[c][j] /\ ~(c = cpu /\ j = 1)
                              /\ j = IF c = cpu THEN i + 1 ELSE i
    <3>1. CASE c = cpu
      <4>1. i + 1 \in Nat /\ i + 1 # 1
        BY <2>2, <2>4, <3>1
      <4> QED
        BY <2>2, <2>3, <2>4, <3>1, <4>1
    <3>2. CASE c # cpu
      BY <2>2, <2>3, <2>4, <3>2
    <3> QED
      BY <3>1, <3>2
  <2>5. /\ \A c \in Processors, i \in Nat : WaitsAt(c, i)' => rest[c][i] \in 1 .. io'
        /\ \A c, d \in Processors : \A i, j \in Nat :
             WaitsAt(c, i)' /\ WaitsAt(d, j)' /\ rest[c][i] = rest[d][j] => c = d /\ i = j
    <3>1. \A c \in Processors, i \in Nat : WaitsAt(c, i)' => rest[c][i] \in 1 .. io'
      BY <1>1, <2>1, <2>4 DEF Numbered
    <3>2. ASSUME NEW c \in Processors, NEW d \in Processors, NEW i \in Nat, NEW j \in Nat,
                 WaitsAt(c, i)', WaitsAt(d, j)', rest[c][i] = rest[d][j]
          PROVE  c = d /\ i = j
      <4>1. PICK k \in Nat : WaitsAt(c, k) /\ rest[c][i] = number[c][k] /\ k = IF c = cpu THEN i + 1 ELSE i
        BY <2>4, <3>2
      <4>2. PICK l \in Nat : WaitsAt(d, l) /\ rest[d][j] = number[d][l] /\ l = IF d = cpu THEN j + 1 ELSE j
        BY <2>4, <3>2
      <4>3. c = d /\ k = l
        BY <1>1, <3>2, <4>1, <4>2 DEF Numbered
      <4> QED
        BY <4>1, <4>2, <4>3
    <3> QED
      BY <3>1, <3>2
  \* an entry that was there
  <2>6. ASSUME NEW id \in DOMAIN m_Files
        PROVE  \E counted \in SUBSET (1 .. io) :
                  /\ Cardinality(counted) = m_Files[id].count
                  /\ e.op = "ReadWrite" => number[cpu][1] \notin counted
                  /\ \A c \in Processors, i \in Nat : WaitsAt(c, i)' => rest[c][i] \notin counted
    <3>1. PICK counted \in SUBSET (1 .. io) :
            /\ Cardinality(counted) = m_Files[id].count
            /\ \A c \in Processors, i \in Nat : WaitsAt(c, i) => number[c][i] \notin counted
      BY <1>1 DEF Numbered
    <3>2. \A c \in Processors, i \in Nat : WaitsAt(c, i)' => rest[c][i] \notin counted
      BY <2>4, <3>1
    <3> QED
      BY <2>2, <3>1, <3>2
  <2>7. CASE e.op # "ReadWrite"
    <3>1. UNCHANGED m_Files
      BY <1>6, <2>1, <2>7 DEF File!OnEvent, File!NameCreate, File!Create, FileEvents
    <3>2. Numbered(rest)'
      BY <2>1, <2>5, <2>6, <3>1 DEF Numbered
    <3> QED
      BY <2>1, <3>1, <3>2 DEF FileCounts
  <2>8. CASE e.op = "ReadWrite"
    <3> DEFINE id == <<e.pid, e.key>>
               count == IF id \in DOMAIN m_Files THEN m_Files[id].count ELSE 0
    <3>1. File!OnReadWrite(e) /\ id \in FilePids \X Keys
      BY <1>6, <2>1, <2>8 DEF File!OnEvent, FileEvents
    <3>2. m_Files' = File!With(m_Files, id, [count |-> count + 1, tick |-> tick])
      BY <3>1 DEF File!OnReadWrite
    <3>3. /\ DOMAIN m_Files' = DOMAIN m_Files \cup {id} /\ m_Files'[id].count = count + 1
          /\ \A x \in DOMAIN m_Files \ {id} : m_Files'[x] = m_Files[x]
      BY <3>2 DEF File!With
    <3>4. count \in Nat
      BY DEF FileCounts
    <3>5. \E counted \in SUBSET (1 .. io) :
             /\ Cardinality(counted) = count /\ number[cpu][1] \notin counted
             /\ \A c \in Processors, i \in Nat : WaitsAt(c, i)' => rest[c][i] \notin counted
      <4>1. CASE id \in DOMAIN m_Files
        BY <2>6, <2>8, <4>1
      <4>2. CASE id \notin DOMAIN m_Files
        <5>1. Cardinality({}) = 0 /\ {} \in SUBSET (1 .. io)
          BY FS_EmptySet
        <5> QED
          BY <4>2, <5>1
      <4> QED
        BY <4>1, <4>2
    <3> HIDE DEF count, id
    <3>6. PICK counted \in SUBSET (1 .. io) :
             /\ Cardinality(counted) = count /\ number[cpu][1] \notin counted
             /\ \A c \in Processors, i \in Nat : WaitsAt(c, i)' => rest[c][i] \notin counted
      BY <3>5
    <3>7. number[cpu][1] \in 1 .. io /\ \A c \in Processors, i \in Nat : WaitsAt(c, i)' => rest[c][i] # number[cpu][1]
      <4>1. WaitsAt(cpu, 1)
        BY <2>2, <2>8
      <4> QED
        BY <1>1, <2>4, <4>1 DEF Numbered
    <3>8. Cardinality(counted \cup {number[cpu][1]}) = count + 1
      <4>1. IsFiniteSet(counted)
        <5>1. IsFiniteSet(1 .. io)
          BY <1>0, FS_Interval
        <5> QED
          BY <5>1, FS_Subset
      <4> QED
        BY <3>6, <4>1, FS_AddElement
    <3>9. ASSUME NEW x \in DOMAIN m_Files'
          PROVE  \E S \in SUBSET (1 .. io') :
                    /\ Cardinality(S) = m_Files'[x].count
                    /\ \A c \in Processors, i \in Nat : WaitsAt(c, i)' => rest[c][i] \notin S
      <4>1. CASE x = id
        <5>1. counted \cup {number[cpu][1]} \in SUBSET (1 .. io')
          BY <2>1, <3>7
        <5>2. \A c \in Processors, i \in Nat : WaitsAt(c, i)' => rest[c][i] \notin counted \cup {number[cpu][1]}
          BY <3>6, <3>7
        <5> QED
          BY <3>3, <3>8, <4>1, <5>1, <5>2
      <4>2. CASE x # id
        BY <2>1, <2>6, <3>3, <4>2
      <4> QED
        BY <4>1, <4>2
    <3>10. Numbered(rest)'
      BY <2>5, <3>9 DEF Numbered
    <3>11. \A x \in DOMAIN m_Files' : x \in FilePids \X Keys /\ m_Files'[x].count \in Nat \ {0}
      <4>1. count + 1 \in Nat \ {0}
        BY <3>4
      <4> QED
        BY <3>1, <3>3, <4>1 DEF FileCounts
    <3> QED
      BY <2>1, <3>10, <3>11 DEF FileCounts
  <2> QED
    BY <2>7, <2>8
<1>7. ASSUME NEW o \in FileObjects, File!Close(o) PROVE FileCounts'
  BY <1>3, <1>7 DEF File!Close, File!tableVars
<1>8. CASE File!Tick \/ File!TakePending \/ File!LookUp \/ File!NoHandles \/ File!ApplyNames \/ File!ReadClock \/ File!Start
           \/ UNCHANGED File!fileVars
  BY <1>3, <1>8 DEF File!Tick, File!TakePending, File!LookUp, File!NoHandles, File!ApplyNames, File!ReadClock, File!Start,
                    File!fileVars, File!tableVars, File!worldVars
<1>9. CASE File!Prune
  BY <1>2, <1>9 DEF File!Prune, File!Fresh, File!Without, File!Restrict, File!worldVars, WaitsAt
<1>10. CASE File!Stop
  <2>1. io' = io /\ DOMAIN m_Files' = {} /\ \A cpu \in Processors : Len(trace'[cpu]) = 0
    BY <1>10 DEF File!Stop, File!Empty
  <2> QED
    BY <1>2, <2>1 DEF WaitsAt
<1>11. ASSUME NEW pid \in FilePids, File!RemoveProcess(pid) PROVE FileCounts'
  BY <1>2, <1>11 DEF File!RemoveProcess, File!Without, File!Restrict, File!worldVars, WaitsAt
<1> QED
  BY <1>4, <1>5, <1>6, <1>7, <1>8, <1>9, <1>10, <1>11 DEF File!Next

\* nothing is counted at first
LEMMA FileCountsInit == File!Init => FileRuns /\ FileCounts
<1> SUFFICES ASSUME File!Init PROVE FileRuns /\ FileCounts
  OBVIOUS
<1>1. io = 0 /\ DOMAIN m_Files = {} /\ \A cpu \in Processors : Len(trace[cpu]) = 0
  BY DEF File!Init, File!Empty
<1>2. FileRuns
  BY DEF File!Init, FileRuns
<1>3. \A number : Numbered(number)
  BY <1>1 DEF Numbered, WaitsAt
<1>4. 0 \in 0 .. MaxIo
  BY FileAssumption
<1> QED
  BY <1>1, <1>2, <1>3, <1>4 DEF FileCounts

LEMMA FileInit == File!Init => FileTypes /\ ObjectInv /\ NameInv /\ AttemptInv
<1> SUFFICES ASSUME File!Init PROVE FileTypes /\ ObjectInv /\ NameInv /\ AttemptInv
  OBVIOUS
<1>1. /\ DOMAIN m_Names = {} /\ DOMAIN m_ObjectNames = {} /\ DOMAIN m_Pending = {} /\ DOMAIN m_Attempts = {}
      /\ DOMAIN taken = {} /\ DOMAIN found = {} /\ rpc = "sleep" /\ tick = 0
      /\ open = [o \in FileObjects |-> File!NoKey]
      /\ current = [key \in Keys |-> 1] /\ told = [key \in Keys |-> 0] /\ trace = [cpu \in Processors |-> <<>>]
  BY DEF File!Init, File!Empty
<1>2. Logged = {}
  BY <1>1 DEF Logged
<1>3. FileTypes
  <2>1. <<>> \in Seq(FileEvents)
    OBVIOUS
  <2> QED
    BY <1>1, <2>1 DEF FileTypes
<1>4. File!NoKey \notin Keys
  BY FileAssumption DEF File!NoKey
<1>5. ObjectInv
  BY <1>1, <1>2, <1>4 DEF ObjectInv, IsOf
<1>6. NameInv
  BY <1>1, <1>2 DEF NameInv
<1>7. AttemptInv
  BY <1>1, FileAssumption DEF AttemptInv, Attempts
<1> QED
  BY <1>3, <1>5, <1>6, <1>7

\* no file is read or written more often than there was a read or write
LEMMA FileTypesConclude == FileTypes /\ FileRuns /\ FileCounts => File!TypeOK
<1> SUFFICES ASSUME FileTypes, FileRuns, FileCounts PROVE File!TypeOK
  OBVIOUS
<1>1. PICK number : Numbered(number)
  BY DEF FileCounts
<1>2. ASSUME NEW id \in DOMAIN m_Files PROVE id \in FilePids \X Keys /\ m_Files[id].count \in 1 .. MaxIo
  <2>1. PICK counted \in SUBSET (1 .. io) : Cardinality(counted) = m_Files[id].count
    BY <1>1 DEF Numbered
  <2>2. io \in Nat /\ MaxIo \in Nat /\ io <= MaxIo
    BY FileAssumption DEF FileCounts
  <2>3. IsFiniteSet(1 .. io) /\ Cardinality(1 .. io) = io
    BY <2>2, FS_Interval
  <2>4. Cardinality(counted) <= io
    BY <2>3, FS_Subset
  <2>5. id \in FilePids \X Keys /\ m_Files[id].count \in Nat \ {0}
    BY DEF FileCounts
  <2> QED
    BY <2>1, <2>2, <2>4, <2>5
<1> QED
  BY <1>2 DEF File!TypeOK, FileTypes, FileRuns

LEMMA FileConcludes == FileTypes /\ NameInv /\ AttemptInv => File!NamesAreNotOlder /\ File!LookedForAtMost
<1> SUFFICES ASSUME FileTypes, NameInv, AttemptInv PROVE File!NamesAreNotOlder /\ File!LookedForAtMost
  OBVIOUS
<1>1. \A key \in DOMAIN m_Names : m_Names[key].text[2] \in Nat /\ told[key] \in Nat /\ current[key] \in Nat
  BY DEF FileTypes, Names
<1>2. File!NamesAreNotOlder
  BY <1>1 DEF File!NamesAreNotOlder, NameInv, NotLater
<1>3. File!LookedForAtMost
  BY DEF File!LookedForAtMost, AttemptInv, Attempts, FileTypes
<1> QED
  BY <1>2, <1>3

-----------------------------------------------------------------------------
(* GPU usage (Gpu).                                                          *)

\* RemapLuids can tell the devices apart
ShapesDiffer == \A d, e \in GpuDevices : Adapter!SameShape(d, e) => d = e

GpuTypes ==
    /\ clock \in Nat /\ RemapInterval <= clock
    /\ present \subseteq GpuDevices /\ missed \in BOOLEAN
    /\ DOMAIN epoch = GpuDevices /\ DOMAIN back = GpuDevices /\ DOMAIN ranBefore = GpuDevices
    /\ \A d \in GpuDevices :
         /\ epoch[d] \in Nat /\ back[d] \in 0 .. clock
         /\ \A n \in Adapter!NodesOf(d) :
              /\ ran[d][n] \in 0 .. clock
              /\ ranBefore[d][n] \in 0 .. ran[d][n]
              /\ ranAtUpdate[d][n] \in 0 .. ran[d][n]
              /\ ranAtQuery[d][n] \in 0 .. ran[d][n]

\* each place in the list is one device's for good
GpuPlaces ==
    /\ Len(adapters) \in Nat \ {0} /\ Adapter!Places = 1 .. Len(adapters) /\ DOMAIN place = Adapter!Places
    /\ \A a \in Adapter!Places :
         /\ place[a] \in GpuDevices
         /\ adapters[a] = [device |-> place[a], epoch |-> adapters[a].epoch]
         /\ adapters[a].epoch \in 0 .. epoch[place[a]]
    /\ \A a, b \in Adapter!Places : place[a] = place[b] => a = b

\* a running time kept is at least what was run till then since the last restart
Sampled(kept, then, d, n) ==
    kept = Adapter!NotQueried \/ (kept \in Nat /\ then[d][n] - ranBefore[d][n] <= kept)

GpuSamples ==
    /\ m_PrevTime \in 0 .. clock
    /\ m_PrevTimes # <<>> =>
         /\ DOMAIN m_PrevTimes = Adapter!Places /\ Len(m_PrevTimes) = Len(adapters)
         /\ \A a \in Adapter!Places : \A n \in Adapter!NodesOf(place[a]) :
                Sampled(m_PrevTimes[a][n], ranAtUpdate, place[a], n)
    /\ DOMAIN m_Samples = DOMAIN m_PrevTimes /\ DOMAIN worked = DOMAIN m_PrevTimes
    /\ \A a \in DOMAIN m_Samples : m_Samples[a] <= worked[a]

GpuQueries ==
    /\ stateTime \in 0 .. clock /\ workedForQuery \in Nat
    /\ nodeTimes # <<>> =>
         /\ DOMAIN nodeTimes = Adapter!AdapterNodes
         /\ \A an \in Adapter!AdapterNodes : Sampled(nodeTimes[an], ranAtQuery, place[an[1]], an[2])
    /\ usage <= workedForQuery

\* since the last remap that found all, only a restarted device is not known
GpuRemaps ==
    /\ m_RemapTime \in 0 .. clock
    /\ \A a \in Adapter!Places :
         place[a] \in present /\ ~missed /\ back[place[a]] < m_RemapTime => adapters[a] = Adapter!Luid(place[a])
    /\ Adapter!RestartedIsFound

-----------------------------------------------------------------------------
\* A set of numbers has a least one, and so a set that ends has a largest.
LEMMA SmallestNat == ASSUME NEW S, S \subseteq Nat, S # {} PROVE \E x \in S : \A y \in S : x <= y
<1> DEFINE R == OpToRel(<, Nat)
<1>1. IsWellFoundedOn(R, Nat)
  BY NatLessThanWellFounded
<1>2. \E x \in S : \A y \in S : ~ (<<y, x>> \in R)
  BY <1>1, WFMin
<1>3. \A x, y \in Nat : x < y => <<x, y>> \in R
  BY DEF OpToRel
<1> HIDE DEF R
<1>4. ASSUME NEW x \in Nat, NEW y \in Nat, ~(y < x) PROVE x <= y
  BY <1>4
<1> QED
  BY <1>2, <1>3, <1>4

LEMMA LargestIs ==
  ASSUME NEW S, S \subseteq Int, S # {}, NEW top \in Int, \A x \in S : x <= top
  PROVE  Adapter!Largest(S) \in S /\ \A x \in S : x <= Adapter!Largest(S)
<1> DEFINE T == {top - x : x \in S}
<1>1. T \subseteq Nat /\ T # {}
  <2>1. \A x \in S : top - x \in Nat
    OBVIOUS
  <2>2. PICK x \in S : TRUE
    OBVIOUS
  <2> QED
    BY <2>1, <2>2
<1>2. PICK t \in T : \A u \in T : t <= u
  <2> HIDE DEF T
  <2> QED
    BY <1>1, SmallestNat
<1>3. PICK x \in S : t = top - x
  BY <1>2
<1>4. \A y \in S : y <= x
  <2> SUFFICES ASSUME NEW y \in S PROVE y <= x
    OBVIOUS
  <2>1. top - x <= top - y
    BY <1>2, <1>3
  <2> QED
    BY <1>3, <2>1
<1> QED
  BY <1>3, <1>4 DEF Adapter!Largest

\* numbers that have others at least as large
LEMMA LargestGrows ==
  ASSUME NEW S, S \subseteq Int, S # {}, NEW R, R \subseteq Int, NEW top \in Int, \A y \in R : y <= top,
         \A x \in S : \E y \in R : x <= y
  PROVE  Adapter!Largest(S) <= Adapter!Largest(R)
<1>1. \A x \in S : x <= top
  OBVIOUS
<1>2. R # {}
  OBVIOUS
<1>3. Adapter!Largest(S) \in S
  BY <1>1, LargestIs
<1>4. Adapter!Largest(R) \in R /\ \A y \in R : y <= Adapter!Largest(R)
  BY <1>2, LargestIs
<1>5. PICK y \in R : Adapter!Largest(S) <= y
  BY <1>3
<1>6. Adapter!Largest(S) \in Int /\ y \in Int /\ Adapter!Largest(R) \in Int /\ y <= Adapter!Largest(R)
  BY <1>3, <1>4
<1> QED
  BY <1>5, <1>6

\* How long a node ran between two samples is at most what its device did.
LEMMA BusyIsTrue ==
  ASSUME GpuTypes, NEW d \in GpuDevices, NEW n \in Adapter!NodesOf(d), NEW kept, NEW then, then[d][n] \in 0 .. ran[d][n],
         Sampled(kept, then, d, n), NEW time, time = Adapter!NotQueried \/ time = ran[d][n] - ranBefore[d][n],
         NEW elapsed \in Int
  PROVE  /\ Adapter!Busy(time, kept, elapsed) \in Int
         /\ Adapter!Busy(time, kept, elapsed) <= ran[d][n] - then[d][n]
         /\ ran[d][n] - then[d][n] \in Int /\ ran[d][n] - then[d][n] <= clock
<1>1. /\ ran[d][n] \in Nat /\ ranBefore[d][n] \in Nat /\ then[d][n] \in Nat /\ clock \in Nat
      /\ ran[d][n] <= clock /\ ranBefore[d][n] <= ran[d][n] /\ then[d][n] <= ran[d][n]
  BY DEF GpuTypes
<1>2. kept \in Int /\ time \in Int
  BY <1>1 DEF Sampled, Adapter!NotQueried
<1>3. CASE elapsed <= 0 \/ time < 0 \/ kept < 0
  BY <1>1, <1>3 DEF Adapter!Busy
<1>4. CASE ~(elapsed <= 0 \/ time < 0 \/ kept < 0)
  <2> DEFINE part == IF time - kept > elapsed THEN elapsed ELSE time - kept
             S == {0, part}
  <2>1. time = ran[d][n] - ranBefore[d][n] /\ then[d][n] - ranBefore[d][n] <= kept
    BY <1>4 DEF Sampled, Adapter!NotQueried
  <2>2. part \in Int /\ part <= ran[d][n] - then[d][n]
    BY <1>1, <1>2, <2>1
  <2>3. S \subseteq Int /\ S # {} /\ \A x \in S : x <= ran[d][n] - then[d][n]
    BY <1>1, <2>2
  <2>4. Adapter!Busy(time, kept, elapsed) = Adapter!Largest(S)
    BY <1>4 DEF Adapter!Busy
  <2>5. ran[d][n] - then[d][n] \in Int
    BY <1>1
  <2> HIDE DEF S
  <2>6. Adapter!Largest(S) \in S
    BY <2>3, <2>5, LargestIs
  <2>7. Adapter!Largest(S) \in Int /\ Adapter!Largest(S) <= ran[d][n] - then[d][n]
    BY <2>3, <2>6
  <2>8. ran[d][n] - then[d][n] <= clock
    BY <1>1
  <2> QED
    BY <2>4, <2>5, <2>7, <2>8
<1> QED
  BY <1>1, <1>3, <1>4

-----------------------------------------------------------------------------
(* RemapLuids.                                                               *)

\* a listing has each of the devices once, with its LUID
Lists(fresh, devices) ==
    /\ DOMAIN fresh \subseteq Nat
    /\ \A i \in DOMAIN fresh : fresh[i].device \in devices /\ fresh[i] = Adapter!Luid(fresh[i].device)
    /\ \A i, j \in DOMAIN fresh : fresh[i].device = fresh[j].device => i = j
    /\ \A d \in devices : \E i \in DOMAIN fresh : fresh[i].device = d

LEMMA ListingLists ==
  ASSUME NEW devices \in SUBSET GpuDevices, NEW fresh \in Adapter!Listings(devices)
  PROVE  /\ Lists(fresh, devices)
         /\ Len(fresh) = Cardinality(devices) /\ DOMAIN fresh = 1 .. Len(fresh) /\ Len(fresh) \in Nat
<1> DEFINE n == Cardinality(devices)
<1>1. IsFiniteSet(devices) /\ n \in Nat
  BY GpuAssumption, FS_Subset, FS_CardinalityType
<1>2. PICK s \in [1 .. n -> devices] : /\ \A i, j \in 1 .. n : i # j => s[i] # s[j]
                                      /\ fresh = [i \in DOMAIN s |-> Adapter!Luid(s[i])]
  <2>1. PICK s \in Adapter!SetToSeqs(devices) : fresh = [i \in DOMAIN s |-> Adapter!Luid(s[i])]
    BY DEF Adapter!Listings
  <2>2. s \in [1 .. n -> devices] /\ \A i, j \in 1 .. n : i # j => s[i] # s[j]
    <3>1. Adapter!SetToSeqs(devices) = {f \in [1 .. n -> devices] : \A i, j \in 1 .. n : i # j => f[i] # f[j]}
      <4>1. Adapter!Cardinality(devices) = n
        BY DEF Adapter!Cardinality, Cardinality
      <4> QED
        BY <4>1, Zenon DEF Adapter!SetToSeqs
    <3> QED
      BY <3>1
  <2> QED
    BY <2>1, <2>2
<1>3. \A d \in devices : \E i \in 1 .. n : s[i] = d
  <2>1. s \in Injection(1 .. n, devices)
    BY <1>2 DEF Injection, IsInjective
  <2>2. IsFiniteSet(1 .. n) /\ Cardinality(1 .. n) = n
    BY <1>1, FS_Interval
  <2> HIDE DEF n
  <2>3. s \in Surjection(1 .. n, devices)
    BY <1>1, <2>1, <2>2, FS_Injection DEF n
  <2> QED
    BY <2>3 DEF Surjection
<1> HIDE DEF n
<1>4. DOMAIN fresh = 1 .. n /\ \A i \in 1 .. n : fresh[i] = Adapter!Luid(s[i])
  BY <1>2
<1>5. \A i \in 1 .. n : fresh[i].device = s[i]
  BY <1>4 DEF Adapter!Luid
<1>6. Len(fresh) = n
  BY <1>1, <1>2, <1>4
<1> QED
  BY <1>1, <1>2, <1>3, <1>4, <1>5, <1>6 DEF Lists, n

\* Induction up to a number.
LEMMA UpTo ==
  ASSUME NEW S, NEW n \in Nat, 0 \in S, \A i \in 0 .. n - 1 : i \in S => i + 1 \in S
  PROVE  0 .. n \subseteq S
<1> SUFFICES ASSUME ~(0 .. n \subseteq S) PROVE FALSE
  OBVIOUS
<1> DEFINE B == {i \in 0 .. n : i \notin S}
<1>1. B \subseteq Nat /\ B # {}
  OBVIOUS
<1>2. PICK k \in B : \A j \in B : k <= j
  <2> HIDE DEF B
  <2> QED
    BY <1>1, SmallestNat
<1>3. k \in 0 .. n /\ k \notin S /\ k # 0
  OBVIOUS
<1>4. k - 1 \in 0 .. n - 1 /\ k - 1 \notin B /\ (k - 1) + 1 = k
  BY <1>2, <1>3
<1>5. k - 1 \in S
  BY <1>4
<1> QED
  BY <1>3, <1>4, <1>5

\* after k adapters, those whose devices are listed have their LUIDs, and only theirs are taken
TakenUpTo(got, k, fresh, devices) ==
    /\ got = [luids |-> got.luids, used |-> got.used]
    /\ DOMAIN got.luids = Adapter!Places
    /\ \A a \in Adapter!Places :
         got.luids[a] = IF a <= k /\ place[a] \in devices THEN Adapter!Luid(place[a]) ELSE adapters[a]
    /\ \A i \in got.used : \E b \in Adapter!Places : b <= k /\ fresh[i].device = place[b]

LEMMA TakeOne ==
  ASSUME ShapesDiffer, GpuPlaces, NEW devices \in SUBSET GpuDevices, NEW fresh, Lists(fresh, devices),
         NEW k \in 0 .. Len(adapters) - 1, NEW got, TakenUpTo(got, k, fresh, devices)
  PROVE  TakenUpTo(Adapter!Take(got, k + 1, fresh), k + 1, fresh, devices)
<1> DEFINE a == k + 1
           free == {i \in DOMAIN fresh \ got.used : Adapter!SameShape(fresh[i].device, place[a])}
           first == CHOOSE i \in free : \A j \in free : i <= j
           next == Adapter!Take(got, a, fresh)
<1>0. a \in Adapter!Places /\ k \in Nat /\ \A b \in Adapter!Places : b \in Nat /\ (b <= a <=> b <= k \/ b = a)
  BY DEF GpuPlaces
<1>1. \A i \in free : fresh[i].device = place[a] /\ i \in DOMAIN fresh
  BY <1>0 DEF ShapesDiffer, GpuPlaces, Lists
<1>2. place[a] \in devices => free # {}
  <2> SUFFICES ASSUME place[a] \in devices PROVE free # {}
    OBVIOUS
  <2>1. PICK i \in DOMAIN fresh : fresh[i].device = place[a]
    BY DEF Lists
  <2>2. i \notin got.used
    BY <1>0, <2>1 DEF TakenUpTo, GpuPlaces
  <2> QED
    BY <2>1, <2>2 DEF Adapter!SameShape
<1>3. CASE free = {}
  <2>1. next = got
    BY <1>3 DEF Adapter!Take
  <2>2. place[a] \notin devices
    BY <1>2, <1>3
  <2> HIDE DEF next, free
  <2>3. TakenUpTo(next, a, fresh, devices)
    BY <1>0, <2>1, <2>2 DEF TakenUpTo
  <2> QED
    BY <2>3 DEF next
<1>4. CASE free # {}
  <2>1. next = [luids |-> [got.luids EXCEPT ![a] = fresh[first]], used |-> got.used \cup {first}]
    BY <1>4 DEF Adapter!Take
  <2>2. first \in free
    <3>1. free \subseteq Nat
      BY <1>1 DEF Lists
    <3> HIDE DEF free
    <3>2. \E i \in free : \A j \in free : i <= j
      BY <1>4, <3>1, SmallestNat
    <3> QED
      BY <3>2
  <2>3. fresh[first].device = place[a] /\ fresh[first] = Adapter!Luid(place[a]) /\ place[a] \in devices
    BY <1>1, <2>2 DEF Lists
  <2> HIDE DEF next, free, first
  <2>4. next = [luids |-> next.luids, used |-> next.used]
    BY <2>1
  <2>5. next.luids = [got.luids EXCEPT ![a] = fresh[first]] /\ next.used = got.used \cup {first}
    BY <2>1
  <2>6. DOMAIN next.luids = Adapter!Places /\ next.luids[a] = Adapter!Luid(place[a])
    BY <1>0, <2>3, <2>5 DEF TakenUpTo
  <2>7. \A b \in Adapter!Places \ {a} : next.luids[b] = got.luids[b]
    BY <2>5 DEF TakenUpTo
  <2>8. \A i \in next.used : \E b \in Adapter!Places : b <= a /\ fresh[i].device = place[b]
    BY <1>0, <2>3, <2>5 DEF TakenUpTo
  <2> HIDE DEF a
  <2>9. \A b \in Adapter!Places :
          next.luids[b] = IF b <= a /\ place[b] \in devices THEN Adapter!Luid(place[b]) ELSE adapters[b]
    BY <1>0, <2>3, <2>6, <2>7 DEF TakenUpTo
  <2>10. TakenUpTo(next, a, fresh, devices)
    BY <2>4, <2>6, <2>8, <2>9 DEF TakenUpTo
  <2> QED
    BY <2>10 DEF next, a
<1> QED
  BY <1>3, <1>4

LEMMA TakenIs ==
  ASSUME ShapesDiffer, GpuPlaces, NEW devices \in SUBSET GpuDevices, NEW fresh, Lists(fresh, devices)
  PROVE  LET luids == Adapter!Taken(fresh)
         IN /\ DOMAIN luids = Adapter!Places
            /\ \A a \in Adapter!Places : luids[a] = IF place[a] \in devices THEN Adapter!Luid(place[a]) ELSE adapters[a]
<1> DEFINE L == Len(adapters)
           start == [luids |-> adapters, used |-> {}]
           Loop(f, m) == f = [a \in 0 .. m |-> IF a = 0 THEN start ELSE Adapter!Take(f[a - 1], a, fresh)]
           Good(f, m) == \A k \in 0 .. m : TakenUpTo(f[k], k, fresh, devices)
           S == {m \in 0 .. L : \E f : Loop(f, m)}
<1>0. L \in Nat
  BY DEF GpuPlaces
<1>1. 0 \in S
  <2> DEFINE f == [a \in 0 .. 0 |-> start]
  <2>1. Loop(f, 0)
    OBVIOUS
  <2> HIDE DEF f, Loop
  <2> QED
    BY <1>0, <2>1
<1> HIDE DEF start, L
<1>2. ASSUME NEW m \in 0 .. L - 1, m \in S PROVE m + 1 \in S
  <2>0. m \in Nat /\ m + 1 \in 0 .. L
    BY <1>0
  <2>1. PICK g : Loop(g, m)
    BY <1>2
  <2> DEFINE f == [a \in 0 .. m + 1 |-> IF a = m + 1 THEN Adapter!Take(g[m], m + 1, fresh) ELSE g[a]]
  <2>2. ASSUME NEW a \in 0 .. m + 1
        PROVE  f[a] = IF a = 0 THEN start ELSE Adapter!Take(f[a - 1], a, fresh)
    <3>1. CASE a = m + 1
      <4>1. f[a] = Adapter!Take(g[m], a, fresh) /\ a - 1 = m /\ f[m] = g[m] /\ a # 0
        BY <2>0, <3>1
      <4> QED
        BY <4>1
    <3>2. CASE a \in 1 .. m
      <4>1. f[a] = g[a] /\ f[a - 1] = g[a - 1]
        BY <2>0, <3>2
      <4>2. g[a] = IF a = 0 THEN start ELSE Adapter!Take(g[a - 1], a, fresh)
        BY <2>0, <2>1, <3>2
      <4> QED
        BY <4>1, <4>2
    <3>3. CASE a = 0
      <4>1. f[a] = g[a] /\ g[a] = start
        BY <2>0, <2>1, <3>3
      <4> QED
        BY <3>3, <4>1
    <3> QED
      BY <2>0, <3>1, <3>2, <3>3
  <2>3. f = [a \in 0 .. m + 1 |-> f[a]]
    OBVIOUS
  <2>4. Loop(f, m + 1)
    <3> HIDE DEF f
    <3> QED
      BY <2>2, <2>3
  <2> HIDE DEF f, Loop
  <2> QED
    BY <2>0, <2>4
<1>3. PICK f : f = CHOOSE h : Loop(h, L)
  OBVIOUS
<1>4. Loop(f, L)
  <2> HIDE DEF S
  <2>1. 0 .. L \subseteq S
    BY <1>0, <1>1, <1>2, UpTo
  <2>2. L \in S
    BY <1>0, <2>1
  <2>3. \E h : Loop(h, L)
    BY <2>2 DEF S
  <2> HIDE DEF Loop
  <2> QED
    BY <1>3, <2>3
<1>5. Adapter!Taken(fresh) = f[L].luids
  BY <1>3 DEF Adapter!Taken, start, L
<1>6. 0 .. L \subseteq {k \in 0 .. L : TakenUpTo(f[k], k, fresh, devices)}
  <2> DEFINE G == {k \in 0 .. L : TakenUpTo(f[k], k, fresh, devices)}
  <2>1. 0 \in G
    <3>1. f[0] = start
      BY <1>0, <1>4
    <3>2. TakenUpTo(start, 0, fresh, devices)
      BY DEF TakenUpTo, start, GpuPlaces
    <3> QED
      BY <1>0, <3>1, <3>2
  <2>2. ASSUME NEW k \in 0 .. L - 1, k \in G PROVE k + 1 \in G
    <3>1. f[k + 1] = Adapter!Take(f[k], k + 1, fresh)
      <4>1. k + 1 \in 0 .. L /\ k + 1 # 0 /\ (k + 1) - 1 = k
        BY <1>0
      <4>2. f[k + 1] = Adapter!Take(f[(k + 1) - 1], k + 1, fresh)
        BY <1>4, <4>1
      <4> QED
        BY <4>1, <4>2
    <3>2. TakenUpTo(Adapter!Take(f[k], k + 1, fresh), k + 1, fresh, devices)
      <4> DEFINE got == f[k]
      <4>1. TakenUpTo(got, k, fresh, devices) /\ k \in 0 .. Len(adapters) - 1
        BY <2>2 DEF L
      <4> HIDE DEF got
      <4>2. TakenUpTo(Adapter!Take(got, k + 1, fresh), k + 1, fresh, devices)
        BY <4>1, TakeOne
      <4> QED
        BY <4>2 DEF got
    <3> QED
      BY <1>0, <3>1, <3>2
  <2> HIDE DEF G
  <2> QED
    BY <1>0, <2>1, <2>2, UpTo DEF G
<1>7. TakenUpTo(f[L], L, fresh, devices) /\ \A a \in Adapter!Places : a <= L
  BY <1>0, <1>6 DEF GpuPlaces, L
<1> QED
  BY <1>5, <1>7 DEF TakenUpTo

\* After RemapLuids the listed devices are known, and each place is still the same one's.
LEMMA RemapKeeps ==
  ASSUME ShapesDiffer, GpuTypes, GpuPlaces, Adapter!RemapLuids, UNCHANGED <<present, epoch, place>>
  PROVE  /\ GpuPlaces' /\ Len(adapters') = Len(adapters) /\ missed' \in BOOLEAN
         /\ ~missed' => \A a \in Adapter!Places' : place[a] \in present => adapters'[a] = Adapter!Luid(place[a])
<1>1. PICK devices \in SUBSET present :
        /\ \E fresh \in Adapter!Listings(devices) : adapters' = Adapter!Taken(fresh)
        /\ missed' = (devices # present)
  BY DEF Adapter!RemapLuids
<1>2. devices \in SUBSET GpuDevices
  BY <1>1 DEF GpuTypes
<1>3. PICK fresh \in Adapter!Listings(devices) : adapters' = Adapter!Taken(fresh)
  BY <1>1
<1>4. Lists(fresh, devices)
  BY <1>2, ListingLists
<1>5. /\ DOMAIN adapters' = Adapter!Places
      /\ \A a \in Adapter!Places : adapters'[a] = IF place[a] \in devices THEN Adapter!Luid(place[a]) ELSE adapters[a]
  BY <1>2, <1>3, <1>4, TakenIs
<1>6. Len(adapters') = Len(adapters) /\ Adapter!Places' = Adapter!Places
  BY <1>5 DEF GpuPlaces, Adapter!Places
<1>7. \A a \in Adapter!Places :
        Adapter!Luid(place[a]) = [device |-> place[a], epoch |-> epoch[place[a]]] /\ epoch[place[a]] \in Nat
  BY DEF Adapter!Luid, GpuPlaces, GpuTypes
<1>8. ASSUME NEW a \in Adapter!Places
      PROVE  /\ adapters'[a] = [device |-> place[a], epoch |-> adapters'[a].epoch]
             /\ adapters'[a].epoch \in 0 .. epoch[place[a]]
  <2>1. CASE place[a] \in devices
    <3>1. adapters'[a] = [device |-> place[a], epoch |-> epoch[place[a]]] /\ epoch[place[a]] \in Nat
      BY <1>5, <1>7, <2>1
    <3> QED
      BY <3>1
  <2>2. CASE place[a] \notin devices
    BY <1>5, <2>2 DEF GpuPlaces
  <2> QED
    BY <2>1, <2>2
<1>9. GpuPlaces'
  BY <1>6, <1>8 DEF GpuPlaces
<1> QED
  BY <1>1, <1>5, <1>6, <1>9

-----------------------------------------------------------------------------
(* What each step of the trackers, the process and the devices keeps.        *)

LEMMA GpuTypesStep == GpuTypes /\ [Adapter!Next]_Adapter!gpuVars => GpuTypes'
<1> SUFFICES ASSUME GpuTypes, [Adapter!Next]_Adapter!gpuVars PROVE GpuTypes'
  OBVIOUS
<1> USE DEF GpuTypes
<1>0. Adapter!RemapLuids => missed' \in BOOLEAN
  BY DEF Adapter!RemapLuids
<1>1. CASE Adapter!Update
  <2>1. /\ UNCHANGED Adapter!deviceVars /\ ranAtUpdate' = ran /\ UNCHANGED ranAtQuery
        /\ Adapter!RemapLuids \/ UNCHANGED missed
    BY <1>1 DEF Adapter!Update, Adapter!processVars
  <2> QED
    BY <1>0, <2>1 DEF Adapter!deviceVars
<1>2. CASE Adapter!OtherRemap
  BY <1>0, <1>2 DEF Adapter!OtherRemap, Adapter!deviceVars, Adapter!trackerVars, Adapter!processVars
<1>3. CASE Adapter!QueryProcess
  <2>1. /\ UNCHANGED <<Adapter!deviceVars, Adapter!trackerVars, missed>>
        /\ ranAtQuery' = ran \/ UNCHANGED ranAtQuery
    BY <1>3 DEF Adapter!QueryProcess
  <2> QED
    BY <2>1 DEF Adapter!deviceVars, Adapter!trackerVars
<1>4. ASSUME NEW d \in GpuDevices, Adapter!Restart(d) PROVE GpuTypes'
  <2>1. /\ UNCHANGED <<clock, ran, missed, ranAtUpdate, ranAtQuery>>
        /\ present' = present \cup {d}
        /\ epoch' = [epoch EXCEPT ![d] = @ + 1]
        /\ ranBefore' = [ranBefore EXCEPT ![d] = ran[d]]
        /\ back' = [back EXCEPT ![d] = clock]
    BY <1>4 DEF Adapter!Restart, Adapter!trackerVars, Adapter!processVars
  <2>2. /\ DOMAIN epoch' = GpuDevices /\ DOMAIN back' = GpuDevices /\ DOMAIN ranBefore' = GpuDevices
        /\ epoch'[d] = epoch[d] + 1 /\ back'[d] = clock /\ ranBefore'[d] = ran[d]
        /\ \A e \in GpuDevices \ {d} : epoch'[e] = epoch[e] /\ back'[e] = back[e] /\ ranBefore'[e] = ranBefore[e]
    BY <2>1
  <2>3. ASSUME NEW e \in GpuDevices
        PROVE  /\ epoch'[e] \in Nat /\ back'[e] \in 0 .. clock
               /\ \A n \in Adapter!NodesOf(e) : ranBefore'[e][n] \in 0 .. ran[e][n]
    BY <2>2
  <2> QED
    BY <2>1, <2>2, <2>3
<1>5. ASSUME NEW d \in GpuDevices, Adapter!Unplug(d) PROVE GpuTypes'
  BY <1>5 DEF Adapter!Unplug, Adapter!trackerVars, Adapter!processVars
<1>6. CASE Adapter!UseMemory
  BY <1>6 DEF Adapter!UseMemory, Adapter!trackerVars, Adapter!processVars
<1>7. CASE Adapter!Tick
  <2>1. /\ clock' = clock + 1
        /\ UNCHANGED <<present, epoch, ranBefore, back, missed, ranAtUpdate, ranAtQuery>>
        /\ \A d \in GpuDevices : \A n \in Adapter!NodesOf(d) : ran'[d][n] = ran[d][n] \/ ran'[d][n] = ran[d][n] + 1
    BY <1>7 DEF Adapter!Tick, Adapter!trackerVars, Adapter!processVars
  <2>2. clock' \in Nat /\ RemapInterval <= clock'
    BY <2>1, GpuAssumption
  <2>3. ASSUME NEW d \in GpuDevices, NEW n \in Adapter!NodesOf(d)
        PROVE  /\ ran'[d][n] \in 0 .. clock' /\ ranBefore[d][n] \in 0 .. ran'[d][n]
               /\ ranAtUpdate[d][n] \in 0 .. ran'[d][n] /\ ranAtQuery[d][n] \in 0 .. ran'[d][n]
    BY <2>1
  <2>4. \A d \in GpuDevices : back[d] \in 0 .. clock'
    BY <2>1
  <2> QED
    BY <2>1, <2>2, <2>3, <2>4
<1>8. CASE UNCHANGED Adapter!gpuVars
  BY <1>8 DEF Adapter!gpuVars
<1> QED
  BY <1>1, <1>2, <1>3, <1>4, <1>5, <1>6, <1>7, <1>8 DEF Adapter!Next

\* The list is changed by RemapLuids only, and the devices' LUIDs only by a restart.
LEMMA GpuPlacesStep ==
  ShapesDiffer /\ GpuTypes /\ GpuPlaces /\ [Adapter!Next]_Adapter!gpuVars => GpuPlaces'
<1> SUFFICES ASSUME ShapesDiffer, GpuTypes, GpuPlaces, [Adapter!Next]_Adapter!gpuVars PROVE GpuPlaces'
  OBVIOUS
<1>1. CASE Adapter!RemapLuids /\ UNCHANGED <<present, epoch, place>>
  BY <1>1, RemapKeeps
<1>2. CASE UNCHANGED <<adapters, epoch, place>>
  BY <1>2 DEF GpuPlaces, Adapter!Places
<1>3. ASSUME NEW d \in GpuDevices, Adapter!Restart(d) PROVE GpuPlaces'
  <2>1. UNCHANGED <<adapters, place>> /\ epoch' = [epoch EXCEPT ![d] = @ + 1]
    BY <1>3 DEF Adapter!Restart
  <2>2. \A e \in GpuDevices : epoch[e] \in Nat /\ epoch'[e] \in Nat /\ epoch[e] <= epoch'[e]
    BY <2>1 DEF GpuTypes
  <2> QED
    BY <2>1, <2>2 DEF GpuPlaces, Adapter!Places
<1>4. CASE Adapter!Update \/ Adapter!OtherRemap
  BY <1>1, <1>2, <1>4 DEF Adapter!Update, Adapter!OtherRemap, Adapter!deviceVars
<1>5. CASE \/ Adapter!QueryProcess \/ Adapter!UseMemory \/ Adapter!Tick \/ UNCHANGED Adapter!gpuVars
           \/ \E d \in GpuDevices : Adapter!Unplug(d)
  BY <1>2, <1>5 DEF Adapter!QueryProcess, Adapter!UseMemory, Adapter!Tick, Adapter!Unplug, Adapter!gpuVars,
                    Adapter!deviceVars
<1> QED
  BY <1>3, <1>4, <1>5 DEF Adapter!Next

\* An adapter is a record of its device and the device's LUID.
LEMMA DeviceAtPlace == GpuPlaces => \A a \in Adapter!Places : place[a] \in GpuDevices /\ adapters[a].device = place[a]
<1> SUFFICES ASSUME GpuPlaces, NEW a \in Adapter!Places PROVE place[a] \in GpuDevices /\ adapters[a].device = place[a]
  OBVIOUS
<1>1. place[a] \in GpuDevices /\ adapters[a] = [device |-> place[a], epoch |-> adapters[a].epoch]
  BY DEF GpuPlaces
<1>2. [device |-> place[a], epoch |-> adapters[a].epoch].device = place[a]
  OBVIOUS
<1> QED
  BY <1>1, <1>2

\* A running time that is queried is since the last restart.
LEMMA TimesAreSampled ==
  ASSUME GpuTypes, GpuPlaces, NEW a \in Adapter!Places, NEW n \in Adapter!NodesOf(place[a]), NEW failed
  PROVE  LET time == Adapter!TimeOf(a, n, failed)
         IN /\ time = Adapter!NotQueried \/ time = ran[place[a]][n] - ranBefore[place[a]][n]
            /\ Sampled(time, ran, place[a], n)
<1> DEFINE d == place[a]
<1>1. d \in GpuDevices /\ adapters[a].device = d
  BY DeviceAtPlace
<1>2. ran[d][n] \in Nat /\ ranBefore[d][n] \in Nat /\ ranBefore[d][n] <= ran[d][n]
  BY <1>1 DEF GpuTypes
<1> QED
  BY <1>1, <1>2 DEF Adapter!TimeOf, Sampled

LEMMA GpuSamplesStep ==
  ShapesDiffer /\ GpuTypes /\ GpuPlaces /\ GpuSamples /\ [Adapter!Next]_Adapter!gpuVars => GpuSamples'
<1> SUFFICES ASSUME ShapesDiffer, GpuTypes, GpuPlaces, GpuSamples, [Adapter!Next]_Adapter!gpuVars PROVE GpuSamples'
  OBVIOUS
<1>0. \A a \in Adapter!Places : place[a] \in GpuDevices /\ adapters[a].device = place[a]
  BY DeviceAtPlace
<1>1. ASSUME UNCHANGED <<place, Adapter!Places, Len(adapters), m_PrevTimes, m_PrevTime, m_Samples, worked, ranAtUpdate>>,
             clock <= clock', clock' \in Nat,
             \A d \in GpuDevices : \A n \in Adapter!NodesOf(d) :
                 ranBefore'[d][n] \in Nat /\ ranBefore[d][n] <= ranBefore'[d][n]
      PROVE  GpuSamples'
  <2>1. m_PrevTime' \in 0 .. clock'
    BY <1>1 DEF GpuSamples, GpuTypes
  <2>2. ASSUME NEW d \in GpuDevices, NEW n \in Adapter!NodesOf(d), NEW kept, Sampled(kept, ranAtUpdate, d, n)
        PROVE  Sampled(kept, ranAtUpdate, d, n)'
    <3>1. ranAtUpdate[d][n] \in Nat /\ ranBefore[d][n] \in Nat /\ ranBefore'[d][n] \in Nat
      BY <1>1 DEF GpuTypes
    <3> QED
      BY <1>1, <2>2, <3>1 DEF Sampled
  <2> QED
    BY <1>0, <1>1, <2>1, <2>2 DEF GpuSamples
<1>2. CASE Adapter!Update
  <2>1. UNCHANGED <<clock, present, epoch, ran, ranBefore, place>> /\ ranAtUpdate' = ran /\ m_PrevTime' = clock
    BY <1>2 DEF Adapter!Update, Adapter!deviceVars
  <2>2. Adapter!Places' = Adapter!Places /\ Len(adapters') = Len(adapters)
    <3>1. CASE Adapter!RemapLuids
      BY <2>1, <3>1, RemapKeeps DEF GpuPlaces
    <3>2. CASE UNCHANGED adapters
      BY <3>2 DEF Adapter!Places
    <3> QED
      BY <1>2, <3>1, <3>2 DEF Adapter!Update
  <2>3. PICK failed : m_PrevTimes' = Adapter!Times(failed) /\ m_Samples' = Adapter!Samples(Adapter!Times(failed))
    BY <1>2 DEF Adapter!Update
  <2> DEFINE times == Adapter!Times(failed)
             Ran(a, n) == Adapter!RanSince(ranAtUpdate, a, n)
  <2>4. ASSUME NEW a \in Adapter!Places, NEW n \in Adapter!NodesOf(place[a])
        PROVE  /\ times[a][n] = Adapter!NotQueried \/ times[a][n] = ran[place[a]][n] - ranBefore[place[a]][n]
               /\ Sampled(times[a][n], ran, place[a], n)
    <3>1. times[a][n] = Adapter!TimeOf(a, n, failed)
      BY DEF Adapter!Times
    <3> QED
      BY <3>1, TimesAreSampled
  <2>5. DOMAIN m_PrevTimes' = Adapter!Places /\ Len(m_PrevTimes') = Len(adapters)
    BY <2>3 DEF GpuPlaces, Adapter!Times
  <2> HIDE DEF times
  <2>6. m_PrevTime \in Nat /\ clock \in Nat /\ Adapter!Elapsed \in Int
    BY DEF GpuTypes, GpuSamples, Adapter!Elapsed
  <2>7. ASSUME NEW a \in Adapter!Places, NEW n \in Adapter!NodesOf(place[a])
        PROVE  /\ Adapter!NodeUsage(times, a, n) \in Int /\ Ran(a, n) \in Int /\ Ran(a, n) <= clock
               /\ Adapter!NodeUsage(times, a, n) <= Ran(a, n)
    <3> DEFINE d == place[a]
    <3>1. d \in GpuDevices /\ Ran(a, n) = ran[d][n] - ranAtUpdate[d][n] /\ ranAtUpdate[d][n] \in 0 .. ran[d][n]
          /\ ran[d][n] \in 0 .. clock
      BY <1>0 DEF Adapter!RanSince, GpuTypes
    <3>2. CASE Len(m_PrevTimes) # Len(adapters)
      <4>1. Adapter!NodeUsage(times, a, n) = 0
        BY <3>2 DEF Adapter!NodeUsage
      <4> QED
        BY <2>6, <3>1, <4>1
    <3>3. CASE Len(m_PrevTimes) = Len(adapters)
      <4>1. m_PrevTimes # <<>>
        BY <3>3 DEF GpuPlaces
      <4>2. Sampled(m_PrevTimes[a][n], ranAtUpdate, d, n)
        BY <4>1 DEF GpuSamples
      <4>3. Adapter!NodeUsage(times, a, n) = Adapter!Busy(times[a][n], m_PrevTimes[a][n], Adapter!Elapsed)
        BY <3>3 DEF Adapter!NodeUsage
      <4> HIDE DEF Ran
      <4>4. /\ Adapter!Busy(times[a][n], m_PrevTimes[a][n], Adapter!Elapsed) \in Int
            /\ Adapter!Busy(times[a][n], m_PrevTimes[a][n], Adapter!Elapsed) <= ran[d][n] - ranAtUpdate[d][n]
            /\ ran[d][n] - ranAtUpdate[d][n] \in Int /\ ran[d][n] - ranAtUpdate[d][n] <= clock
        BY <2>4, <2>6, <3>1, <4>2, BusyIsTrue
      <4> QED
        BY <3>1, <4>3, <4>4
    <3> QED
      BY <3>2, <3>3
  <2> HIDE DEF Ran
  <2>8. ASSUME NEW a \in Adapter!Places
        PROVE  Adapter!Samples(times)[a] <= Adapter!Worked[a]
    <3> DEFINE N == Adapter!NodesOf(place[a])
               R == {Adapter!NodeUsage(times, a, n) : n \in N}
               W == {Ran(a, n) : n \in N}
    <3>1. 1 \in N
      BY <1>0, GpuAssumption DEF Adapter!NodesOf
    <3> HIDE DEF N
    <3>2. /\ R \subseteq Int /\ R # {} /\ W \subseteq Int /\ \A y \in W : y <= clock
          /\ \A x \in R : \E y \in W : x <= y
      BY <2>7, <3>1 DEF N
    <3>3. clock \in Int
      BY <2>6
    <3> HIDE DEF R, W
    <3>4. Adapter!Largest(R) <= Adapter!Largest(W)
      BY <3>2, <3>3, LargestGrows
    <3> QED
      BY <3>4 DEF R, W, N, Ran, Adapter!Samples, Adapter!Worked
  <2>9. /\ DOMAIN m_Samples' = Adapter!Places /\ DOMAIN worked' = Adapter!Places
        /\ \A a \in Adapter!Places : m_Samples'[a] <= worked'[a]
    <3>1. m_Samples' = Adapter!Samples(times) /\ worked' = Adapter!Worked
      BY <1>2, <2>3 DEF Adapter!Update, times
    <3>2. DOMAIN Adapter!Samples(times) = Adapter!Places /\ DOMAIN Adapter!Worked = Adapter!Places
      BY DEF Adapter!Samples, Adapter!Worked
    <3> QED
      BY <2>8, <3>1, <3>2
  <2>10. ASSUME NEW a \in Adapter!Places, NEW n \in Adapter!NodesOf(place[a])
         PROVE  Sampled(m_PrevTimes[a][n], ranAtUpdate, place[a], n)'
    BY <2>1, <2>3, <2>4 DEF Sampled, times
  <2>11. m_PrevTime' \in 0 .. clock'
    BY <2>1, <2>6
  <2> QED
    BY <2>1, <2>2, <2>5, <2>9, <2>10, <2>11 DEF GpuSamples
<1>3. CASE Adapter!OtherRemap
  <2>1. UNCHANGED <<Adapter!deviceVars, Adapter!trackerVars, place>> /\ Adapter!RemapLuids
    BY <1>3 DEF Adapter!OtherRemap
  <2>2. Adapter!Places' = Adapter!Places /\ Len(adapters') = Len(adapters)
    BY <2>1, RemapKeeps DEF GpuPlaces, Adapter!deviceVars
  <2> QED
    BY <1>1, <2>1, <2>2 DEF Adapter!deviceVars, Adapter!trackerVars, GpuTypes
<1>4. ASSUME NEW d \in GpuDevices, Adapter!Restart(d) PROVE GpuSamples'
  <2>1. UNCHANGED <<Adapter!trackerVars, adapters, place, clock>> /\ ranBefore' = [ranBefore EXCEPT ![d] = ran[d]]
    BY <1>4 DEF Adapter!Restart
  <2>2. ASSUME NEW e \in GpuDevices, NEW n \in Adapter!NodesOf(e)
        PROVE  ranBefore'[e][n] \in Nat /\ ranBefore[e][n] <= ranBefore'[e][n]
    BY <2>1 DEF GpuTypes
  <2> QED
    BY <1>1, <2>1, <2>2 DEF Adapter!trackerVars, Adapter!Places, GpuTypes
<1>5. CASE \/ Adapter!QueryProcess \/ Adapter!UseMemory \/ Adapter!Tick \/ UNCHANGED Adapter!gpuVars
           \/ \E d \in GpuDevices : Adapter!Unplug(d)
  <2>1. UNCHANGED <<Adapter!trackerVars, adapters, place, ranBefore>>
    BY <1>5 DEF Adapter!QueryProcess, Adapter!UseMemory, Adapter!Tick, Adapter!Unplug, Adapter!gpuVars,
                Adapter!deviceVars, Adapter!trackerVars
  <2>2. clock' = clock \/ clock' = clock + 1
    BY <1>5 DEF Adapter!QueryProcess, Adapter!UseMemory, Adapter!Tick, Adapter!Unplug, Adapter!gpuVars, Adapter!deviceVars
  <2>3. clock <= clock' /\ clock' \in Nat
    BY <2>2 DEF GpuTypes
  <2> QED
    BY <1>1, <2>1, <2>3 DEF Adapter!trackerVars, Adapter!Places, GpuTypes
<1> QED
  BY <1>2, <1>3, <1>4, <1>5 DEF Adapter!Next

LEMMA GpuQueriesStep ==
  ShapesDiffer /\ GpuTypes /\ GpuPlaces /\ GpuQueries /\ [Adapter!Next]_Adapter!gpuVars => GpuQueries'
<1> SUFFICES ASSUME ShapesDiffer, GpuTypes, GpuPlaces, GpuQueries, [Adapter!Next]_Adapter!gpuVars PROVE GpuQueries'
  OBVIOUS
<1>0. \A an \in Adapter!AdapterNodes :
        an[1] \in Adapter!Places /\ an[2] \in Adapter!NodesOf(place[an[1]]) /\ place[an[1]] \in GpuDevices
        /\ adapters[an[1]].device = place[an[1]]
  BY DeviceAtPlace DEF Adapter!AdapterNodes
<1>1. ASSUME UNCHANGED <<place, Adapter!Places, nodeTimes, stateTime, usage, workedForQuery, ranAtQuery>>,
             clock <= clock', clock' \in Nat,
             \A d \in GpuDevices : \A n \in Adapter!NodesOf(d) :
                 ranBefore'[d][n] \in Nat /\ ranBefore[d][n] <= ranBefore'[d][n]
      PROVE  GpuQueries'
  <2>1. stateTime' \in 0 .. clock'
    BY <1>1 DEF GpuQueries, GpuTypes
  <2>2. ASSUME NEW d \in GpuDevices, NEW n \in Adapter!NodesOf(d), NEW kept, Sampled(kept, ranAtQuery, d, n)
        PROVE  Sampled(kept, ranAtQuery, d, n)'
    <3>1. ranAtQuery[d][n] \in Nat /\ ranBefore[d][n] \in Nat /\ ranBefore'[d][n] \in Nat
      BY <1>1 DEF GpuTypes
    <3> QED
      BY <1>1, <2>2, <3>1 DEF Sampled
  <2>3. Adapter!AdapterNodes' = Adapter!AdapterNodes
    BY <1>1 DEF Adapter!AdapterNodes
  <2> QED
    BY <1>0, <1>1, <2>1, <2>2, <2>3 DEF GpuQueries
<1>2. CASE Adapter!QueryProcess
  <2>1. UNCHANGED <<clock, ran, ranBefore, adapters, place>>
    BY <1>2 DEF Adapter!QueryProcess, Adapter!deviceVars
  <2>2. Adapter!AdapterNodes' = Adapter!AdapterNodes /\ Adapter!Places' = Adapter!Places
    BY <2>1 DEF Adapter!AdapterNodes, Adapter!Places
  <2>3. CASE ~hasMemory
    <3>1. nodeTimes' = <<>> /\ usage' = 0 /\ UNCHANGED <<stateTime, workedForQuery>>
      BY <1>2, <2>3 DEF Adapter!QueryProcess
    <3> QED
      BY <2>1, <3>1 DEF GpuQueries
  <2>4. CASE hasMemory
    <3>1. PICK failed : /\ nodeTimes' = Adapter!ProcessTimes(failed)
                        /\ usage' = Adapter!ProcessUsage(Adapter!ProcessTimes(failed))
      BY <1>2, <2>4 DEF Adapter!QueryProcess
    <3>2. stateTime' = clock /\ workedForQuery' = Adapter!ProcessWorked /\ ranAtQuery' = ran
      BY <1>2, <2>4 DEF Adapter!QueryProcess
    <3> DEFINE times == Adapter!ProcessTimes(failed)
    <3>3. DOMAIN times = Adapter!AdapterNodes
      BY DEF Adapter!ProcessTimes
    <3>4. ASSUME NEW an \in Adapter!AdapterNodes
          PROVE  /\ \/ times[an] = Adapter!NotQueried
                    \/ times[an] = ran[place[an[1]]][an[2]] - ranBefore[place[an[1]]][an[2]]
                 /\ Sampled(times[an], ran, place[an[1]], an[2])
      <4>1. times[an] = Adapter!TimeOf(an[1], an[2], failed)
        BY DEF Adapter!ProcessTimes
      <4> QED
        BY <1>0, <4>1, TimesAreSampled
    <3> HIDE DEF times
    <3> DEFINE Runs(an) == Adapter!Busy(times[an], nodeTimes[an], clock - stateTime)
               Ran(an) == Adapter!RanSince(ranAtQuery, an[1], an[2])
    <3>5. ASSUME NEW an \in Adapter!AdapterNodes
          PROVE  LET d == place[an[1]] IN LET n == an[2] IN
                 /\ d \in GpuDevices /\ n \in Adapter!NodesOf(d)
                 /\ Ran(an) = ran[d][n] - ranAtQuery[d][n] /\ ranAtQuery[d][n] \in 0 .. ran[d][n]
                 /\ ran[d][n] \in 0 .. clock
      BY <1>0 DEF Adapter!RanSince, GpuTypes
    <3>6. clock \in Nat /\ clock - stateTime \in Int
      BY DEF GpuTypes, GpuQueries
    <3>7. ASSUME NEW an \in Adapter!AdapterNodes
          PROVE  Ran(an) \in Nat /\ Ran(an) <= clock
      <4>1. /\ Ran(an) = ran[place[an[1]]][an[2]] - ranAtQuery[place[an[1]]][an[2]]
            /\ ranAtQuery[place[an[1]]][an[2]] \in 0 .. ran[place[an[1]]][an[2]]
            /\ ran[place[an[1]]][an[2]] \in 0 .. clock
        BY <3>5
      <4> HIDE DEF Ran
      <4> QED
        BY <3>6, <4>1
    <3> DEFINE W == {Ran(an) : an \in Adapter!AdapterNodes}
    <3>8. W \subseteq Nat /\ W # {} /\ \A y \in W : y <= clock
      <4>1. PICK a \in Adapter!Places : TRUE
        BY DEF GpuPlaces
      <4>2. 1 \in Adapter!NodesOf(place[a])
        BY DeviceAtPlace, GpuAssumption DEF Adapter!NodesOf
      <4>3. <<a, 1>> \in Adapter!AdapterNodes
        BY <4>2 DEF Adapter!AdapterNodes
      <4> HIDE DEF Ran
      <4> QED
        BY <3>7, <4>3
    <3>9. Adapter!ProcessUsage(times) <= Adapter!ProcessWorked /\ Adapter!ProcessWorked \in Nat
      <4>0. W \subseteq Int /\ clock \in Int
        BY <3>6, <3>8
      <4>1. Adapter!ProcessWorked = Adapter!Largest(W)
        BY DEF Adapter!ProcessWorked
      <4>2. Adapter!Largest(W) \in Nat
        <5> HIDE DEF W
        <5>1. Adapter!Largest(W) \in W
          BY <3>8, <4>0, LargestIs
        <5> QED
          BY <3>8, <5>1
      <4>3. CASE nodeTimes = <<>>
        <5>1. Adapter!ProcessUsage(times) = 0
          BY <4>3 DEF Adapter!ProcessUsage
        <5> QED
          BY <4>1, <4>2, <5>1
      <4>4. CASE nodeTimes # <<>>
        <5> DEFINE R == {Runs(an) : an \in Adapter!AdapterNodes}
        <5>1. Adapter!ProcessUsage(times) = Adapter!Largest(R)
          BY <4>4 DEF Adapter!ProcessUsage
        <5>2. ASSUME NEW an \in Adapter!AdapterNodes PROVE Runs(an) \in Int /\ Runs(an) <= Ran(an)
          <6> DEFINE d == place[an[1]]
                     n == an[2]
          <6>1. /\ d \in GpuDevices /\ n \in Adapter!NodesOf(d)
                /\ Ran(an) = ran[d][n] - ranAtQuery[d][n] /\ ranAtQuery[d][n] \in 0 .. ran[d][n]
            BY <3>5
          <6>2. Sampled(nodeTimes[an], ranAtQuery, d, n)
            BY <4>4 DEF GpuQueries
          <6>3. times[an] = Adapter!NotQueried \/ times[an] = ran[d][n] - ranBefore[d][n]
            BY <3>4
          <6> HIDE DEF Ran, d, n
          <6>4. /\ Adapter!Busy(times[an], nodeTimes[an], clock - stateTime) \in Int
                /\ Adapter!Busy(times[an], nodeTimes[an], clock - stateTime) <= ran[d][n] - ranAtQuery[d][n]
            BY <3>6, <6>1, <6>2, <6>3, BusyIsTrue
          <6> QED
            BY <6>1, <6>4
        <5>3. R \subseteq Int /\ R # {} /\ \A x \in R : \E y \in W : x <= y
          <6> HIDE DEF Runs, Ran
          <6> QED
            BY <3>8, <5>2
        <5> HIDE DEF R, W
        <5>4. Adapter!Largest(R) <= Adapter!Largest(W)
          BY <3>8, <4>0, <5>3, LargestGrows
        <5> QED
          BY <4>1, <4>2, <5>1, <5>4
      <4> QED
        BY <4>2, <4>3, <4>4, <4>1
    <3>10. \A an \in Adapter!AdapterNodes : Sampled(nodeTimes[an], ranAtQuery, place[an[1]], an[2])'
      BY <2>1, <3>1, <3>2, <3>4 DEF Sampled, times
    <3>11. usage' <= workedForQuery' /\ workedForQuery' \in Nat /\ DOMAIN nodeTimes' = Adapter!AdapterNodes
      BY <3>1, <3>2, <3>3, <3>9 DEF times
    <3>12. stateTime' \in 0 .. clock'
      BY <2>1, <3>2, <3>6
    <3> QED
      BY <2>1, <2>2, <3>10, <3>11, <3>12 DEF GpuQueries
  <2> QED
    BY <2>3, <2>4
<1>3. CASE Adapter!RemapLuids /\ UNCHANGED <<Adapter!deviceVars, Adapter!processVars, place>>
  <2>1. Adapter!Places' = Adapter!Places
    BY <1>3, RemapKeeps DEF GpuPlaces, Adapter!deviceVars
  <2> QED
    BY <1>1, <1>3, <2>1 DEF Adapter!deviceVars, Adapter!processVars, GpuTypes
<1>4. ASSUME NEW d \in GpuDevices, Adapter!Restart(d) PROVE GpuQueries'
  <2>1. UNCHANGED <<Adapter!processVars, adapters, place, clock>> /\ ranBefore' = [ranBefore EXCEPT ![d] = ran[d]]
    BY <1>4 DEF Adapter!Restart
  <2>2. ASSUME NEW e \in GpuDevices, NEW n \in Adapter!NodesOf(e)
        PROVE  ranBefore'[e][n] \in Nat /\ ranBefore[e][n] <= ranBefore'[e][n]
    BY <2>1 DEF GpuTypes
  <2> QED
    BY <1>1, <2>1, <2>2 DEF Adapter!processVars, Adapter!Places, GpuTypes
<1>5. CASE /\ UNCHANGED <<Adapter!processVars, adapters, place, ranBefore>>
           /\ clock' = clock \/ clock' = clock + 1
  <2>1. clock <= clock' /\ clock' \in Nat
    BY <1>5 DEF GpuTypes
  <2> QED
    BY <1>1, <1>5, <2>1 DEF Adapter!processVars, Adapter!Places, GpuTypes
<1>6. CASE Adapter!Update \/ Adapter!OtherRemap
  BY <1>3, <1>5, <1>6 DEF Adapter!Update, Adapter!OtherRemap, Adapter!deviceVars
<1>7. CASE \/ Adapter!UseMemory \/ Adapter!Tick \/ UNCHANGED Adapter!gpuVars
           \/ \E d \in GpuDevices : Adapter!Unplug(d)
  BY <1>5, <1>7 DEF Adapter!UseMemory, Adapter!Tick, Adapter!Unplug, Adapter!gpuVars, Adapter!processVars,
                    Adapter!deviceVars
<1> QED
  BY <1>2, <1>4, <1>6, <1>7 DEF Adapter!Next

LEMMA GpuRemapsStep ==
  ShapesDiffer /\ GpuTypes /\ GpuPlaces /\ GpuSamples /\ GpuRemaps /\ [Adapter!Next]_Adapter!gpuVars => GpuRemaps'
<1> SUFFICES ASSUME ShapesDiffer, GpuTypes, GpuPlaces, GpuSamples, GpuRemaps, [Adapter!Next]_Adapter!gpuVars
             PROVE  GpuRemaps'
  OBVIOUS
<1> USE DEF Adapter!RestartedIsFound
<1>0. /\ clock \in Nat /\ RemapInterval \in Nat \ {0} /\ m_PrevTime \in 0 .. clock /\ m_RemapTime \in 0 .. clock
      /\ RemapInterval <= clock
      /\ \A a \in Adapter!Places : place[a] \in GpuDevices /\ back[place[a]] \in 0 .. clock
  BY GpuAssumption DEF GpuTypes, GpuPlaces, GpuSamples, GpuRemaps
<1>1. ASSUME Adapter!RemapLuids, UNCHANGED <<Adapter!deviceVars, place>>
      PROVE  /\ Adapter!Places' = Adapter!Places
             /\ ~missed' => \A a \in Adapter!Places : place[a] \in present => (adapters[a] = Adapter!Luid(place[a]))'
  <2>1. UNCHANGED <<present, epoch, place>>
    BY <1>1 DEF Adapter!deviceVars
  <2> QED
    BY <1>1, <2>1, RemapKeeps DEF GpuPlaces, Adapter!Luid
<1>2. CASE Adapter!Update
  <2>1. UNCHANGED <<Adapter!deviceVars, place>> /\ m_PrevTime' = clock
    BY <1>2 DEF Adapter!Update
  <2>2. PICK failed :
          LET stale == Adapter!Stale(Adapter!Times(failed))
              due == stale /\ clock - m_RemapTime >= RemapInterval
          IN /\ m_RemapTime' = Adapter!RemapTime(stale, due)
             /\ IF due THEN Adapter!RemapLuids ELSE UNCHANGED <<adapters, missed>>
    BY <1>2 DEF Adapter!Update
  <2> DEFINE stale == Adapter!Stale(Adapter!Times(failed))
  <2>3. CASE stale /\ clock - m_RemapTime >= RemapInterval
    <3>1. m_RemapTime' = clock /\ Adapter!RemapLuids
      BY <2>2, <2>3 DEF Adapter!RemapTime
    <3>2. m_RemapTime' \in 0 .. clock'
      BY <1>0, <2>1, <3>1 DEF Adapter!deviceVars
    <3> QED
      BY <1>1, <2>1, <3>1, <3>2 DEF GpuRemaps, Adapter!deviceVars
  <2>4. CASE ~(stale /\ clock - m_RemapTime >= RemapInterval)
    <3>1. UNCHANGED <<m_RemapTime, adapters, missed, place, present, epoch, back, clock>>
      BY <2>1, <2>2, <2>4 DEF Adapter!RemapTime, Adapter!deviceVars
    <3>2. Adapter!Places' = Adapter!Places /\ \A d : Adapter!Luid(d)' = Adapter!Luid(d)
      BY <3>1 DEF Adapter!Places, Adapter!Luid
    <3>3. ASSUME NEW a \in Adapter!Places, place[a] \in present, ~missed, clock - back[place[a]] >= RemapInterval
          PROVE  adapters[a] = Adapter!Luid(place[a])
      <4>1. CASE back[place[a]] < m_RemapTime
        BY <3>3, <4>1 DEF GpuRemaps
      <4>2. CASE ~(back[place[a]] < m_RemapTime)
        <5>1. clock - m_RemapTime >= RemapInterval
          BY <1>0, <3>3, <4>2
        <5>2. ~stale
          BY <2>4, <5>1
        <5>3. PICK n \in Adapter!NodesOf(place[a]) : Adapter!TimeOf(a, n, failed) # Adapter!NotQueried
          BY <5>2 DEF Adapter!Stale, Adapter!Times
        <5>4. Adapter!Answers(adapters[a])
          BY <5>3 DEF Adapter!TimeOf
        <5> QED
          BY <5>4, DeviceAtPlace DEF Adapter!Answers
      <4> QED
        BY <4>1, <4>2
    <3>4. m_RemapTime' \in 0 .. clock'
      BY <1>0, <3>1
    <3>5. Adapter!RestartedIsFound'
      BY <2>1, <3>1, <3>2, <3>3
    <3> HIDE DEF Adapter!RestartedIsFound
    <3> QED
      BY <3>1, <3>2, <3>4, <3>5 DEF GpuRemaps
  <2> QED
    BY <2>3, <2>4
<1>3. CASE Adapter!OtherRemap
  <2>1. UNCHANGED <<Adapter!deviceVars, Adapter!trackerVars, place>> /\ Adapter!RemapLuids
    BY <1>3 DEF Adapter!OtherRemap
  <2>2. UNCHANGED <<present, back, clock, m_RemapTime, m_PrevTime>>
    BY <2>1 DEF Adapter!deviceVars, Adapter!trackerVars
  <2> QED
    BY <1>0, <1>1, <2>1, <2>2 DEF GpuRemaps
<1>4. ASSUME NEW d \in GpuDevices, Adapter!Restart(d) PROVE GpuRemaps'
  <2>1. /\ UNCHANGED <<Adapter!trackerVars, adapters, place, clock, missed>>
        /\ present' = present \cup {d} /\ epoch' = [epoch EXCEPT ![d] = @ + 1] /\ back' = [back EXCEPT ![d] = clock]
    BY <1>4 DEF Adapter!Restart
  <2>2. Adapter!Places' = Adapter!Places /\ UNCHANGED <<m_RemapTime, m_PrevTime>>
    BY <2>1 DEF Adapter!Places, Adapter!trackerVars
  <2>3. back'[d] = clock
    BY <2>1 DEF GpuTypes
  <2>4. ASSUME NEW a \in Adapter!Places, place[a] # d
        PROVE  /\ back'[place[a]] = back[place[a]] /\ Adapter!Luid(place[a])' = Adapter!Luid(place[a])
               /\ place[a] \in present' <=> place[a] \in present
    BY <1>0, <2>1, <2>4 DEF GpuTypes, Adapter!Luid
  <2>5. ~(clock < m_RemapTime) /\ ~(m_PrevTime - clock >= RemapInterval)
    BY <1>0
  <2>6. \A a \in Adapter!Places :
          /\ (place[a] \in present /\ ~missed /\ back[place[a]] < m_RemapTime)' => (adapters[a] = Adapter!Luid(place[a]))'
          /\ (place[a] \in present /\ ~missed /\ m_PrevTime - back[place[a]] >= RemapInterval)'
                 => (adapters[a] = Adapter!Luid(place[a]))'
    <3> SUFFICES ASSUME NEW a \in Adapter!Places
                 PROVE  /\ (place[a] \in present /\ ~missed /\ back[place[a]] < m_RemapTime)'
                               => (adapters[a] = Adapter!Luid(place[a]))'
                        /\ (place[a] \in present /\ ~missed /\ m_PrevTime - back[place[a]] >= RemapInterval)'
                               => (adapters[a] = Adapter!Luid(place[a]))'
      OBVIOUS
    <3>1. CASE place[a] = d
      BY <2>1, <2>2, <2>3, <2>5, <3>1
    <3>2. CASE place[a] # d
      BY <2>1, <2>2, <2>4, <3>2 DEF GpuRemaps
    <3> QED
      BY <3>1, <3>2
  <2>7. m_RemapTime' \in 0 .. clock'
    BY <1>0, <2>1, <2>2
  <2> QED
    BY <2>2, <2>6, <2>7 DEF GpuRemaps
<1>5. CASE /\ UNCHANGED <<epoch, back, m_RemapTime, m_PrevTime, adapters, place, missed>> /\ present' \subseteq present
           /\ clock' = clock \/ clock' = clock + 1
  <2>1. m_RemapTime' \in 0 .. clock'
    BY <1>0, <1>5
  <2>2. Adapter!Places' = Adapter!Places /\ \A d : Adapter!Luid(d)' = Adapter!Luid(d)
    BY <1>5 DEF Adapter!Places, Adapter!Luid
  <2> QED
    BY <1>5, <2>1, <2>2 DEF GpuRemaps
<1>6. CASE \/ Adapter!QueryProcess \/ Adapter!UseMemory \/ Adapter!Tick \/ UNCHANGED Adapter!gpuVars
           \/ \E d \in GpuDevices : Adapter!Unplug(d)
  BY <1>5, <1>6 DEF Adapter!QueryProcess, Adapter!UseMemory, Adapter!Tick, Adapter!Unplug, Adapter!gpuVars,
                    Adapter!deviceVars, Adapter!trackerVars
<1> QED
  BY <1>2, <1>3, <1>4, <1>6 DEF Adapter!Next

LEMMA GpuInit == Adapter!Init => GpuTypes /\ GpuPlaces /\ GpuSamples /\ GpuQueries /\ GpuRemaps
<1> SUFFICES ASSUME Adapter!Init PROVE GpuTypes /\ GpuPlaces /\ GpuSamples /\ GpuQueries /\ GpuRemaps
  OBVIOUS
<1>1. /\ clock = RemapInterval /\ RemapInterval \in Nat \ {0} /\ missed = FALSE
      /\ epoch = [d \in GpuDevices |-> 0] /\ back = [d \in GpuDevices |-> 0]
      /\ ran = [d \in GpuDevices |-> [n \in Adapter!NodesOf(d) |-> 0]] /\ ranBefore = ran
      /\ ranAtUpdate = ran /\ ranAtQuery = ran
      /\ adapters \in Adapter!Listings(present)
      /\ place = [a \in DOMAIN adapters |-> adapters[a].device]
      /\ m_PrevTimes = <<>> /\ m_PrevTime = 0 /\ m_RemapTime = 0 /\ m_Samples = <<>> /\ worked = <<>>
      /\ nodeTimes = <<>> /\ stateTime = 0 /\ usage = 0 /\ workedForQuery = 0
  BY GpuAssumption DEF Adapter!Init
<1>0. present \in SUBSET GpuDevices /\ present # {}
  <2>1. present \in (SUBSET GpuDevices) \ {{}}
    BY DEF Adapter!Init
  <2> QED
    BY <2>1
<1>2. GpuTypes
  <2>1. DOMAIN epoch = GpuDevices /\ DOMAIN back = GpuDevices /\ DOMAIN ranBefore = GpuDevices
    BY <1>1
  <2>2. \A d \in GpuDevices : epoch[d] = 0 /\ back[d] = 0 /\ \A n \in Adapter!NodesOf(d) : ran[d][n] = 0
    BY <1>1
  <2>3. clock \in Nat /\ RemapInterval <= clock /\ 0 \in 0 .. clock
    <3>1. clock = RemapInterval /\ RemapInterval \in Nat
      BY <1>1
    <3> QED
      BY <3>1
  <2>5. missed \in BOOLEAN
    BY <1>1
  <2>4. ASSUME NEW d \in GpuDevices, NEW n \in Adapter!NodesOf(d)
        PROVE  /\ ran[d][n] \in 0 .. clock /\ ranBefore[d][n] \in 0 .. ran[d][n]
               /\ ranAtUpdate[d][n] \in 0 .. ran[d][n] /\ ranAtQuery[d][n] \in 0 .. ran[d][n]
    BY <1>1, <2>2, <2>3
  <2> QED
    BY <1>0, <2>1, <2>2, <2>3, <2>4, <2>5 DEF GpuTypes
<1>3. /\ Lists(adapters, present) /\ DOMAIN adapters = 1 .. Len(adapters) /\ Len(adapters) \in Nat
  BY <1>0, <1>1, ListingLists
<1>4. GpuPlaces
  <2>1. Len(adapters) # 0
    <3>1. PICK d \in present : TRUE
      BY <1>0
    <3>2. PICK i \in DOMAIN adapters : adapters[i].device = d
      BY <1>3, <3>1 DEF Lists
    <3> QED
      BY <1>3, <3>2
  <2>2. ASSUME NEW a \in Adapter!Places
        PROVE  /\ place[a] \in GpuDevices /\ place[a] = adapters[a].device
               /\ adapters[a] = [device |-> place[a], epoch |-> adapters[a].epoch]
               /\ adapters[a].epoch \in 0 .. epoch[place[a]]
    <3>1. place[a] \in GpuDevices /\ place[a] = adapters[a].device /\ adapters[a] = Adapter!Luid(place[a])
      BY <1>0, <1>1, <1>3 DEF Lists, Adapter!Places
    <3>2. Adapter!Luid(place[a]) = [device |-> place[a], epoch |-> 0] /\ epoch[place[a]] = 0
      BY <1>1, <3>1 DEF Adapter!Luid
    <3>3. adapters[a].epoch = 0 /\ adapters[a] = [device |-> place[a], epoch |-> 0]
      BY <3>1, <3>2
    <3> QED
      BY <3>1, <3>2, <3>3
  <2>3. DOMAIN place = Adapter!Places
    BY <1>1 DEF Adapter!Places
  <2>4. \A a, b \in Adapter!Places : place[a] = place[b] => a = b
    BY <1>3, <2>2 DEF Lists, Adapter!Places
  <2> QED
    BY <1>3, <2>1, <2>2, <2>3, <2>4 DEF GpuPlaces, Adapter!Places
<1>5. GpuSamples /\ GpuQueries
  BY <1>1 DEF GpuSamples, GpuQueries
<1>6. GpuRemaps
  <2>1. \A a \in Adapter!Places : back[place[a]] = 0
    BY <1>1, <1>4 DEF GpuPlaces
  <2>2. m_RemapTime = 0 /\ m_PrevTime = 0 /\ clock \in Nat /\ RemapInterval \in Nat \ {0}
    BY <1>1
  <2>3. ~(0 < 0) /\ ~(0 - 0 >= RemapInterval) /\ 0 \in 0 .. clock
    BY <2>2
  <2> QED
    BY <2>1, <2>2, <2>3 DEF GpuRemaps, Adapter!RestartedIsFound
<1> QED
  BY <1>2, <1>4, <1>5, <1>6

-----------------------------------------------------------------------------
(* The messages counted (Ipc).                                               *)

AlpcEvents == [op : {"Send", "WaitForReply", "Receive"}, id : MessageIds]
Messages == [sender : IpcPids \cup {0}, receiver : IpcPids \cup {0}, client : IpcPids \cup {0}, old : BOOLEAN]
Exchanges == [step : {"sent", "received", "answered"}, client : IpcPids, server : IpcPids, waits : BOOLEAN]

\* only a tracker that runs has any entries
AlpcTypes ==
    /\ DOMAIN m_Alpc \subseteq Alpc!Pairs
    /\ \A l \in DOMAIN m_Alpc : m_Alpc[l] \in Nat \ {0}
    /\ DOMAIN m_Rpc = {} /\ DOMAIN m_Endpoints = {}
    /\ DOMAIN m_Pending \subseteq MessageIds
    /\ \A id \in DOMAIN m_Pending : m_Pending[id] \in Messages
    /\ exchange \in [MessageIds -> Exchanges \cup {Alpc!NoExchange}]
    /\ logged \in [IpcPids -> Seq(AlpcEvents)]
    /\ exchanged \in [Alpc!Pairs -> Nat]
    /\ ~running => /\ m_Pending = <<>>
                   /\ \A p \in IpcPids : logged[p] = <<>>
                   /\ \A id \in MessageIds : exchange[id] = Alpc!NoExchange

\* what is under way of a message: the events not delivered yet, and a record that is not an old one
LoggedAt(p, i, op, id) == i \in 1 .. Len(logged[p]) /\ logged[p][i].op = op /\ logged[p][i].id = id
Recorded(id) == id \in DOMAIN m_Pending /\ ~m_Pending[id].old
SentBy(id, p) == Recorded(id) /\ m_Pending[id].sender = p
AwaitedBy(id, p) == Recorded(id) /\ m_Pending[id].client = p
SendUnderWay(id, p) == SentBy(id, p) \/ \E i \in Nat : LoggedAt(p, i, "Send", id)
WaitUnderWay(id, p) == AwaitedBy(id, p) \/ \E i \in Nat : LoggedAt(p, i, "WaitForReply", id)

\* who exchanges the message: its <<client, server>>
Roles == [MessageIds -> (IpcPids \X IpcPids) \cup {<<0, 0>>}]

\* the events of a message are its client's and its server's; a process sends it once at a time, and its client waits
\* before it receives the answer
EventsAreOf(roles) ==
    \A p \in IpcPids, i \in Nat, id \in MessageIds :
       /\ \A op \in {"Send", "WaitForReply", "Receive"} :
             LoggedAt(p, i, op, id) => roles[id] \in Alpc!Pairs /\ p \in {roles[id][1], roles[id][2]}
       /\ LoggedAt(p, i, "WaitForReply", id) => p = roles[id][1]
       /\ LoggedAt(p, i, "Send", id) => ~SentBy(id, p) /\ \A j \in Nat : LoggedAt(p, j, "Send", id) => i = j
       /\ LoggedAt(p, i, "Receive", id) /\ p = roles[id][1] =>
             AwaitedBy(id, p) \/ \E j \in Nat : j < i /\ LoggedAt(p, j, "WaitForReply", id)

\* and so are its record's sides
RecordsAreOf(roles) ==
    \A id \in MessageIds : Recorded(id) =>
       LET m == m_Pending[id] IN
       /\ roles[id] \in Alpc!Pairs
       /\ m.sender \in {0, roles[id][1], roles[id][2]} /\ m.receiver \in {0, roles[id][1], roles[id][2]}
       /\ m.client \in {0, roles[id][1]}
       /\ m.receiver = roles[id][1] => m.client = roles[id][1]
       /\ m.sender = 0 \/ m.receiver = 0

\* an exchange that is to be answered is waited for; its server has nothing under way that it sent before
ExchangesAreOf(roles) ==
    \A id \in MessageIds : exchange[id].step # "none" =>
       /\ exchange[id].client # exchange[id].server /\ roles[id] = <<exchange[id].client, exchange[id].server>>
       /\ exchange[id].step # "sent" => exchange[id].waits
       /\ exchange[id].waits => WaitUnderWay(id, roles[id][1])
       /\ exchange[id].step # "answered" => ~SendUnderWay(id, roles[id][2])

\* the messages of a pair that may still be counted
Open(roles, l) == {s \in MessageIds \X IpcPids : roles[s[1]] = l /\ s[2] \in {l[1], l[2]} /\ SendUnderWay(s[1], s[2])}
CountsAreOf(roles) ==
    \A l \in Alpc!Pairs : Alpc!Count(m_Alpc, l) + Cardinality(Open(roles, l)) <= exchanged[l]

RolesInv(roles) == EventsAreOf(roles) /\ RecordsAreOf(roles) /\ ExchangesAreOf(roles) /\ CountsAreOf(roles)
AlpcInv == AlpcTypes /\ \E roles \in Roles : RolesInv(roles)

Ops == {"Send", "WaitForReply", "Receive"}

\* what an action of a process logs, and what the trace delivers
LEMMA LogGrows ==
  ASSUME AlpcTypes, NEW p \in IpcPids, NEW entries \in Seq(AlpcEvents), Alpc!Log(p, entries)
  PROVE  /\ logged' \in [IpcPids -> Seq(AlpcEvents)]
         /\ \A q \in IpcPids, i \in Nat, op \in Ops, id \in MessageIds :
              LoggedAt(q, i, op, id)' <=>
                \/ LoggedAt(q, i, op, id)
                \/ /\ q = p /\ i - Len(logged[p]) \in 1 .. Len(entries)
                   /\ entries[i - Len(logged[p])].op = op /\ entries[i - Len(logged[p])].id = id
<1>1. logged \in [IpcPids -> Seq(AlpcEvents)] /\ logged[p] \in Seq(AlpcEvents)
  BY DEF AlpcTypes
<1>2. logged' = [logged EXCEPT ![p] = logged[p] \o entries]
  BY DEF Alpc!Log
<1>3. logged[p] \o entries \in Seq(AlpcEvents) /\ Len(logged[p] \o entries) = Len(logged[p]) + Len(entries)
  BY <1>1
<1>4. \A i \in 1 .. Len(logged[p]) + Len(entries) :
         (logged[p] \o entries)[i] = IF i <= Len(logged[p]) THEN logged[p][i] ELSE entries[i - Len(logged[p])]
  BY <1>1
<1>5. logged' \in [IpcPids -> Seq(AlpcEvents)]
  BY <1>1, <1>2, <1>3
<1>6. logged'[p] = logged[p] \o entries /\ \A q \in IpcPids \ {p} : logged'[q] = logged[q]
  BY <1>1, <1>2
<1>7. ASSUME NEW i \in Nat, NEW op \in Ops, NEW id \in MessageIds
      PROVE  LoggedAt(p, i, op, id)' <=>
                \/ LoggedAt(p, i, op, id)
                \/ /\ i - Len(logged[p]) \in 1 .. Len(entries)
                   /\ entries[i - Len(logged[p])].op = op /\ entries[i - Len(logged[p])].id = id
  <2>1. Len(logged[p]) \in Nat /\ Len(entries) \in Nat
    BY <1>1
  <2>2. i \in 1 .. Len(logged'[p]) <=> i \in 1 .. Len(logged[p]) \/ i - Len(logged[p]) \in 1 .. Len(entries)
    BY <1>3, <1>6, <2>1
  <2>3. i \in 1 .. Len(logged[p]) => logged'[p][i] = logged[p][i] /\ ~(i - Len(logged[p]) \in 1 .. Len(entries))
    BY <1>4, <1>6, <2>1
  <2>4. i - Len(logged[p]) \in 1 .. Len(entries) => logged'[p][i] = entries[i - Len(logged[p])]
    BY <1>4, <1>6, <2>1
  <2> QED
    BY <2>2, <2>3, <2>4 DEF LoggedAt
<1>8. \A q \in IpcPids \ {p}, i \in Nat, op \in Ops, id \in MessageIds : LoggedAt(q, i, op, id)' <=> LoggedAt(q, i, op, id)
  BY <1>6 DEF LoggedAt
<1> QED
  BY <1>5, <1>7, <1>8

LEMMA LogShrinks ==
  ASSUME AlpcTypes, NEW p \in IpcPids, logged[p] # <<>>, logged' = [logged EXCEPT ![p] = Tail(@)]
  PROVE  /\ logged' \in [IpcPids -> Seq(AlpcEvents)]
         /\ Head(logged[p]) \in AlpcEvents /\ LoggedAt(p, 1, Head(logged[p]).op, Head(logged[p]).id)
         /\ \A i \in Nat, op \in Ops, id \in MessageIds : LoggedAt(p, i, op, id)' <=> i # 0 /\ LoggedAt(p, i + 1, op, id)
         /\ \A q \in IpcPids \ {p}, i \in Nat, op \in Ops, id \in MessageIds :
              LoggedAt(q, i, op, id)' <=> LoggedAt(q, i, op, id)
<1>1. logged \in [IpcPids -> Seq(AlpcEvents)] /\ logged[p] \in Seq(AlpcEvents)
  BY DEF AlpcTypes
<1>2. Tail(logged[p]) \in Seq(AlpcEvents) /\ Len(Tail(logged[p])) = Len(logged[p]) - 1
      /\ \A j \in 1 .. Len(Tail(logged[p])) : Tail(logged[p])[j] = logged[p][j + 1]
  BY <1>1
<1>3. logged' \in [IpcPids -> Seq(AlpcEvents)]
  BY <1>1, <1>2
<1>4. logged'[p] = Tail(logged[p]) /\ \A q \in IpcPids \ {p} : logged'[q] = logged[q]
  BY <1>1
<1>5. Head(logged[p]) = logged[p][1] /\ 1 \in 1 .. Len(logged[p]) /\ logged[p][1] \in AlpcEvents
  BY <1>1
<1>6. ASSUME NEW i \in Nat, NEW op \in Ops, NEW id \in MessageIds
      PROVE  LoggedAt(p, i, op, id)' <=> i # 0 /\ LoggedAt(p, i + 1, op, id)
  <2>0. Len(logged[p]) \in Nat
    BY <1>1
  <2>1. Len(logged'[p]) = Len(logged[p]) - 1
    BY <1>2, <1>4
  <2>3. i \in 1 .. Len(logged'[p]) <=> i # 0 /\ i + 1 \in 1 .. Len(logged[p])
    BY <2>0, <2>1
  <2>2. i \in 1 .. Len(logged'[p]) => logged'[p][i] = logged[p][i + 1]
    BY <1>2, <1>4
  <2> QED
    BY <2>2, <2>3 DEF LoggedAt
<1>7. \A q \in IpcPids \ {p}, i \in Nat, op \in Ops, id \in MessageIds : LoggedAt(q, i, op, id)' <=> LoggedAt(q, i, op, id)
  BY <1>4 DEF LoggedAt
<1> QED
  BY <1>3, <1>5, <1>6, <1>7 DEF LoggedAt

LEMMA LogStays ==
  ASSUME logged' = logged
  PROVE  \A q \in IpcPids, i \in Nat, op \in Ops, id \in MessageIds : LoggedAt(q, i, op, id)' <=> LoggedAt(q, i, op, id)
BY DEF LoggedAt

\* the record of a message with an event's side of it
LEMMA MessageIs ==
  ASSUME AlpcTypes, NEW p \in IpcPids, NEW id \in MessageIds, NEW op \in Ops
  PROVE  LET m == Alpc!Message(id, p, op) IN
         /\ m \in Messages /\ m.old = FALSE
         /\ m.sender = IF op = "Send" THEN p ELSE IF Recorded(id) THEN m_Pending[id].sender ELSE 0
         /\ m.receiver = IF op = "Receive" THEN p ELSE IF Recorded(id) THEN m_Pending[id].receiver ELSE 0
         /\ m.client = IF op = "WaitForReply" THEN p ELSE IF Recorded(id) THEN m_Pending[id].client ELSE 0
<1> DEFINE fresh == IF id \in DOMAIN m_Pending /\ ~m_Pending[id].old THEN m_Pending[id] ELSE Alpc!NoMessage
<1>1. fresh \in Messages /\ fresh.old = FALSE
      /\ fresh.sender = (IF Recorded(id) THEN m_Pending[id].sender ELSE 0)
      /\ fresh.receiver = (IF Recorded(id) THEN m_Pending[id].receiver ELSE 0)
      /\ fresh.client = (IF Recorded(id) THEN m_Pending[id].client ELSE 0)
  BY DEF AlpcTypes, Messages, Recorded, Alpc!NoMessage, Alpc!Nobody
<1>2. Alpc!Message(id, p, op) =
        CASE op = "Send" -> [fresh EXCEPT !.sender = p]
          [] op = "Receive" -> [fresh EXCEPT !.receiver = p]
          [] op = "WaitForReply" -> [fresh EXCEPT !.client = p]
  BY DEF Alpc!Message
<1> HIDE DEF fresh
<1>3. CASE op = "Send"
  <2>1. Alpc!Message(id, p, op) = [fresh EXCEPT !.sender = p]
    BY <1>2, <1>3
  <2> QED
    BY <1>1, <1>3, <2>1 DEF Messages
<1>4. CASE op = "Receive"
  <2>1. Alpc!Message(id, p, op) = [fresh EXCEPT !.receiver = p]
    BY <1>2, <1>4
  <2> QED
    BY <1>1, <1>4, <2>1 DEF Messages
<1>5. CASE op = "WaitForReply"
  <2>1. Alpc!Message(id, p, op) = [fresh EXCEPT !.client = p]
    BY <1>2, <1>5
  <2> QED
    BY <1>1, <1>5, <2>1 DEF Messages
<1> QED
  BY <1>3, <1>4, <1>5 DEF Ops

\* the record an event leaves: without the sides of a match
Left(m, op) == IF op # "WaitForReply" /\ Alpc!Matched(m) THEN [m EXCEPT !.sender = 0, !.receiver = 0] ELSE m

LEMMA EventLeaves ==
  ASSUME AlpcTypes, NEW p \in IpcPids, NEW id \in MessageIds, NEW op \in Ops, Alpc!OnAlpc(p, id, op)
  PROVE  LET m == Alpc!Message(id, p, op) IN
         /\ DOMAIN m_Pending' \subseteq MessageIds /\ \A x \in DOMAIN m_Pending' : m_Pending'[x] \in Messages
         /\ Recorded(id)' /\ m_Pending'[id] = Left(m, op)
         /\ \A x \in MessageIds \ {id} : (Recorded(x)' <=> Recorded(x)) /\ (Recorded(x) => m_Pending'[x] = m_Pending[x])
<1> DEFINE m == Alpc!Message(id, p, op)
           pending == Alpc!With(m_Pending, id, Left(m, op))
<1>1. m \in Messages /\ m.old = FALSE
  BY MessageIs
<1>2. Left(m, op) \in Messages /\ Left(m, op).old = FALSE
  <2> HIDE DEF m
  <2> QED
    BY <1>1 DEF Left, Messages
<1>3. DOMAIN pending = DOMAIN m_Pending \cup {id} /\ pending[id] = Left(m, op)
      /\ \A x \in DOMAIN m_Pending \ {id} : pending[x] = m_Pending[x]
  BY DEF Alpc!With
<1>4. m_Pending' \in {pending, Alpc!PruneOld(pending)}
  BY DEF Alpc!OnAlpc, Left, Alpc!Reset, Alpc!Nobody
<1>5. DOMAIN Alpc!PruneOld(pending) = {x \in DOMAIN pending : ~pending[x].old}
      /\ \A x \in DOMAIN pending : ~pending[x].old => Alpc!PruneOld(pending)[x] = pending[x]
  <2> HIDE DEF pending
  <2> QED
    BY DEF Alpc!PruneOld, Alpc!Without, Alpc!Restrict
<1> HIDE DEF m, pending
<1>6. CASE m_Pending' = pending
  BY <1>2, <1>3, <1>6 DEF AlpcTypes, Recorded, m
<1>7. CASE m_Pending' = Alpc!PruneOld(pending)
  BY <1>2, <1>3, <1>5, <1>7 DEF AlpcTypes, Recorded, m
<1> QED
  BY <1>4, <1>6, <1>7 DEF m

\* the processes' actions
LEMMA Forgotten ==
  ASSUME NEW f, NEW S, DOMAIN f = {} PROVE DOMAIN Alpc!Without(f, S) = {}
  BY DEF Alpc!Without, Alpc!Restrict

LEMMA AlpcTypesStep == AlpcTypes /\ [Alpc!Next]_Alpc!ipcVars => AlpcTypes'
<1> SUFFICES ASSUME AlpcTypes, [Alpc!Next]_Alpc!ipcVars PROVE AlpcTypes'
  OBVIOUS
<1> USE DEF Alpc!alpcVars, Alpc!rpcVars, Alpc!worldVars
<1>0. exchange \in [MessageIds -> Exchanges \cup {Alpc!NoExchange}] /\ exchanged \in [Alpc!Pairs -> Nat]
  BY DEF AlpcTypes
<1>1. ASSUME NEW id \in MessageIds, NEW c \in IpcPids, NEW s \in IpcPids, Alpc!AlpcSendAndWait(id, c, s)
      PROVE  AlpcTypes'
  <2>1. PICK waits \in BOOLEAN :
          /\ exchange' = [exchange EXCEPT ![id] = [step |-> "sent", client |-> c, server |-> s, waits |-> waits]]
          /\ Alpc!Log(c, <<[op |-> "Send", id |-> id]>> \o
                           IF waits THEN <<[op |-> "WaitForReply", id |-> id]>> ELSE <<>>)
    BY <1>1 DEF Alpc!AlpcSendAndWait
  <2>2. <<[op |-> "Send", id |-> id]>> \o (IF waits THEN <<[op |-> "WaitForReply", id |-> id]>> ELSE <<>>) \in Seq(AlpcEvents)
    <3>1. <<[op |-> "Send", id |-> id]>> \in Seq(AlpcEvents) /\ <<[op |-> "WaitForReply", id |-> id]>> \in Seq(AlpcEvents)
      BY DEF AlpcEvents
    <3>2. (IF waits THEN <<[op |-> "WaitForReply", id |-> id]>> ELSE <<>>) \in Seq(AlpcEvents)
      BY <3>1
    <3> QED
      BY <3>1, <3>2, ConcatProperties
  <2>3. logged' \in [IpcPids -> Seq(AlpcEvents)]
    BY <2>1, <2>2, LogGrows
  <2>4. exchange' \in [MessageIds -> Exchanges \cup {Alpc!NoExchange}]
    BY <1>0, <2>1 DEF Exchanges
  <2>5. <<c, s>> \in Alpc!Pairs
    BY <1>1 DEF Alpc!AlpcSendAndWait, Alpc!Pairs
  <2>6. exchanged' \in [Alpc!Pairs -> Nat]
    BY <1>0, <1>1, <2>5 DEF Alpc!AlpcSendAndWait
  <2> QED
    BY <1>1, <2>3, <2>4, <2>6 DEF AlpcTypes, Alpc!AlpcSendAndWait
<1>2. ASSUME NEW id \in MessageIds, exchange[id].step = "sent", Alpc!AlpcReceive(id) PROVE AlpcTypes'
  <2>1. exchange[id] \in Exchanges /\ running
    BY <1>0, <1>2 DEF AlpcTypes, Alpc!NoExchange
  <2>2. <<[op |-> "Receive", id |-> id]>> \in Seq(AlpcEvents)
    BY DEF AlpcEvents
  <2>3. logged' \in [IpcPids -> Seq(AlpcEvents)]
    BY <1>2, <2>1, <2>2, LogGrows DEF Alpc!AlpcReceive, Exchanges
  <2>4. exchange' \in [MessageIds -> Exchanges \cup {Alpc!NoExchange}]
    BY <1>0, <1>2, <2>1 DEF Alpc!AlpcReceive, Exchanges
  <2> QED
    BY <1>2, <2>1, <2>3, <2>4 DEF AlpcTypes, Alpc!AlpcReceive
<1>3. ASSUME NEW id \in MessageIds, Alpc!AlpcReply(id) PROVE AlpcTypes'
  <2>1. exchange[id] \in Exchanges /\ running
    BY <1>0, <1>3 DEF AlpcTypes, Alpc!NoExchange, Alpc!AlpcReply
  <2>2. <<[op |-> "Send", id |-> id]>> \in Seq(AlpcEvents)
    BY DEF AlpcEvents
  <2>3. logged' \in [IpcPids -> Seq(AlpcEvents)]
    BY <1>3, <2>1, <2>2, LogGrows DEF Alpc!AlpcReply, Exchanges
  <2>4. exchange' \in [MessageIds -> Exchanges \cup {Alpc!NoExchange}]
    BY <1>0, <1>3, <2>1 DEF Alpc!AlpcReply, Exchanges
  <2>5. exchanged' \in [Alpc!Pairs -> Nat]
    <3> DEFINE l == <<exchange[id].client, exchange[id].server>>
    <3>1. exchanged' = [exchanged EXCEPT ![l] = @ + 1]
      BY <1>3 DEF Alpc!AlpcReply
    <3> HIDE DEF l
    <3>2. exchanged' = [k \in Alpc!Pairs |-> IF k = l THEN exchanged[k] + 1 ELSE exchanged[k]]
      BY <1>0, <3>1
    <3> QED
      BY <1>0, <3>2
  <2> QED
    BY <1>3, <2>1, <2>3, <2>4, <2>5 DEF AlpcTypes, Alpc!AlpcReply
<1>4. ASSUME NEW id \in MessageIds, Alpc!AlpcTakeReply(id) PROVE AlpcTypes'
  <2>1. exchange[id] \in Exchanges /\ running
    BY <1>0, <1>4 DEF AlpcTypes, Alpc!NoExchange, Alpc!AlpcTakeReply
  <2>2. <<[op |-> "Receive", id |-> id]>> \in Seq(AlpcEvents)
    BY DEF AlpcEvents
  <2>3. logged' \in [IpcPids -> Seq(AlpcEvents)]
    BY <1>4, <2>1, <2>2, LogGrows DEF Alpc!AlpcTakeReply, Exchanges
  <2>4. exchange' \in [MessageIds -> Exchanges \cup {Alpc!NoExchange}]
    BY <1>0, <1>4, <2>1 DEF Alpc!AlpcTakeReply
  <2> QED
    BY <1>4, <2>1, <2>3, <2>4 DEF AlpcTypes, Alpc!AlpcTakeReply
<1>5. ASSUME NEW p \in IpcPids, Alpc!Exit(p) PROVE AlpcTypes'
  BY <1>0, <1>5 DEF AlpcTypes, Alpc!Exit
<1>6. ASSUME NEW p \in IpcPids, Alpc!OnEvent(p) PROVE AlpcTypes'
  <2>1. PICK id \in MessageIds, op \in Ops : Alpc!OnAlpc(p, id, op)
    <3>1. Head(logged[p]) \in AlpcEvents
      BY <1>6, LogShrinks DEF Alpc!OnEvent
    <3>2. Head(logged[p]).op \in Ops /\ Head(logged[p]).id \in MessageIds /\ Head(logged[p]).op \notin Alpc!RpcEvents
      BY <3>1 DEF AlpcEvents, Ops, Alpc!RpcEvents
    <3>3. Alpc!OnAlpc(p, Head(logged[p]).id, Head(logged[p]).op)
      BY <1>6, <3>2 DEF Alpc!OnEvent
    <3> QED
      BY <3>2, <3>3
  <2>2. /\ DOMAIN m_Pending' \subseteq MessageIds /\ \A x \in DOMAIN m_Pending' : m_Pending'[x] \in Messages
    BY <2>1, EventLeaves
  <2>3. logged' \in [IpcPids -> Seq(AlpcEvents)] /\ running
    BY <1>6, LogShrinks DEF Alpc!OnEvent, AlpcTypes
  <2>4. DOMAIN m_Alpc' \subseteq Alpc!Pairs /\ \A l \in DOMAIN m_Alpc' : m_Alpc'[l] \in Nat \ {0}
    <3> DEFINE m == Alpc!Message(id, p, op)
    <3>1. m \in Messages
      BY MessageIs
    <3>2. m_Alpc' = m_Alpc \/ (Alpc!Counts(m) /\ m_Alpc' = Alpc!Add(m_Alpc, Alpc!Link(m)))
      BY <2>1 DEF Alpc!OnAlpc
    <3> HIDE DEF m
    <3>3. Alpc!Counts(m) => Alpc!Link(m) \in Alpc!Pairs
      BY <3>1 DEF Alpc!Counts, Alpc!Matched, Alpc!Link, Alpc!Pairs, Alpc!Nobody, Messages
    <3> QED
      BY <3>2, <3>3 DEF AlpcTypes, Alpc!Add, Alpc!With, Alpc!Count
  <2> QED
    BY <1>6, <2>1, <2>2, <2>3, <2>4 DEF AlpcTypes, Alpc!OnEvent, Alpc!OnAlpc
<1>7. ASSUME NEW p \in IpcPids, Alpc!RemoveProcess(p) PROVE AlpcTypes'
  <2>1. DOMAIN m_Rpc' = {} /\ DOMAIN m_Endpoints' = {}
    BY <1>7, Forgotten DEF AlpcTypes, Alpc!RemoveProcess
  <2> QED
    BY <1>7, <2>1 DEF AlpcTypes, Alpc!RemoveProcess, Alpc!Without, Alpc!Restrict
<1>8. ASSUME Alpc!LifetimePasses PROVE AlpcTypes'
  BY <1>8 DEF AlpcTypes, Alpc!LifetimePasses, Alpc!Empty, Messages
<1>9. ASSUME Alpc!Start PROVE AlpcTypes'
  BY <1>9 DEF AlpcTypes, Alpc!Start
<1>10. ASSUME Alpc!Stop PROVE AlpcTypes'
  BY <1>10 DEF AlpcTypes, Alpc!Stop, Alpc!Empty
<1>11. CASE UNCHANGED Alpc!ipcVars
  BY <1>11 DEF AlpcTypes, Alpc!ipcVars
<1>12. \A id \in MessageIds : Alpc!AlpcReceive(id) => exchange[id].step = "sent"
  BY DEF Alpc!AlpcReceive
<1>13. CASE Alpc!Next
  <2>1. CASE \E id \in MessageIds :
               \/ \E c, s \in IpcPids : Alpc!AlpcSendAndWait(id, c, s)
               \/ Alpc!AlpcReceive(id) \/ Alpc!AlpcReply(id) \/ Alpc!AlpcTakeReply(id)
    BY <2>1, <1>1, <1>2, <1>3, <1>4, <1>12
  <2>2. CASE \E p \in IpcPids : Alpc!Exit(p) \/ Alpc!OnEvent(p) \/ Alpc!RemoveProcess(p)
    BY <2>2, <1>5, <1>6, <1>7
  <2> QED
    BY <1>8, <1>9, <1>10, <1>13, <2>1, <2>2 DEF Alpc!Next
<1> QED
  BY <1>11, <1>13

\* how many messages of a pair are under way
LEMMA SomeUnderWay ==
  ASSUME NEW S \in SUBSET (MessageIds \X IpcPids), NEW T \in SUBSET (MessageIds \X IpcPids), NEW x \in MessageIds \X IpcPids
  PROVE  /\ Cardinality(S) \in Nat /\ Cardinality(T) \in Nat
         /\ T \subseteq S => Cardinality(T) <= Cardinality(S)
         /\ T \subseteq S \cup {x} => Cardinality(T) <= Cardinality(S) + 1
         /\ x \in S /\ T \subseteq S \ {x} => Cardinality(T) + 1 <= Cardinality(S)
<1>1. IsFiniteSet(MessageIds \X IpcPids)
  BY IpcAssumption, FS_Product
<1>2. IsFiniteSet(S) /\ IsFiniteSet(T)
  BY <1>1, FS_Subset
<1>3. Cardinality(S) \in Nat /\ Cardinality(T) \in Nat
  BY <1>2, FS_CardinalityType
<1>4. T \subseteq S => Cardinality(T) <= Cardinality(S)
  BY <1>2, FS_Subset
<1>5. IsFiniteSet(S \cup {x}) /\ Cardinality(S \cup {x}) \in Nat /\ Cardinality(S \cup {x}) <= Cardinality(S) + 1
  <2>1. IsFiniteSet(S \cup {x}) /\ Cardinality(S \cup {x}) \in Nat
    BY <1>2, FS_AddElement, FS_CardinalityType
  <2>2. Cardinality(S \cup {x}) = (IF x \in S THEN Cardinality(S) ELSE Cardinality(S) + 1)
    BY <1>2, FS_AddElement
  <2> QED
    BY <1>3, <2>1, <2>2
<1>6. T \subseteq S \cup {x} => Cardinality(T) <= Cardinality(S) + 1
  BY <1>2, <1>3, <1>5, FS_Subset
<1>7. x \in S => /\ IsFiniteSet(S \ {x}) /\ Cardinality(S \ {x}) \in Nat
                 /\ Cardinality(S \ {x}) = Cardinality(S) - 1
  BY <1>2, <1>3, FS_RemoveElement, FS_CardinalityType
<1>8. x \in S /\ T \subseteq S \ {x} => Cardinality(T) + 1 <= Cardinality(S)
  BY <1>2, <1>3, <1>7, FS_Subset
<1> QED
  BY <1>3, <1>4, <1>6, <1>8

LEMMA OpenIsPart ==
  ASSUME NEW roles \in Roles, NEW l
  PROVE  Open(roles, l) \in SUBSET (MessageIds \X IpcPids) /\ Open(roles, l)' \in SUBSET (MessageIds \X IpcPids)
  BY DEF Open

\* nothing new is under way and nothing is counted
LEMMA CountsStay ==
  ASSUME NEW roles \in Roles, CountsAreOf(roles), AlpcTypes,
         \A id \in MessageIds, p \in IpcPids : SendUnderWay(id, p)' => SendUnderWay(id, p),
         \A l \in Alpc!Pairs : Alpc!Count(m_Alpc', l) \in 0 .. Alpc!Count(m_Alpc, l), exchanged' = exchanged
  PROVE  CountsAreOf(roles)'
<1> SUFFICES ASSUME NEW l \in Alpc!Pairs
             PROVE  Alpc!Count(m_Alpc', l) + Cardinality(Open(roles, l)') <= exchanged[l]
  BY DEF CountsAreOf
<1>1. Open(roles, l)' \subseteq Open(roles, l)
  BY DEF Open
<1>2. CASE Open(roles, l) = {}
  <2>1. Cardinality(Open(roles, l)') = 0 /\ Cardinality(Open(roles, l)) = 0
    BY <1>1, <1>2, FS_EmptySet
  <2> QED
    <3>1. Alpc!Count(m_Alpc, l) + Cardinality(Open(roles, l)) <= exchanged[l] /\ Alpc!Count(m_Alpc, l) \in Nat
          /\ exchanged[l] \in Nat /\ Alpc!Count(m_Alpc', l) \in 0 .. Alpc!Count(m_Alpc, l)
      BY DEF CountsAreOf, AlpcTypes, Alpc!Count
    <3> QED
      BY <2>1, <3>1
<1>3. CASE \E x \in MessageIds \X IpcPids : x \in Open(roles, l)
  <2>1. Cardinality(Open(roles, l)') <= Cardinality(Open(roles, l))
        /\ Cardinality(Open(roles, l)') \in Nat /\ Cardinality(Open(roles, l)) \in Nat
    BY <1>1, <1>3, SomeUnderWay, OpenIsPart
  <2>2. Alpc!Count(m_Alpc', l) \in 0 .. Alpc!Count(m_Alpc, l) /\ exchanged[l] \in Nat
        /\ Alpc!Count(m_Alpc, l) + Cardinality(Open(roles, l)) <= exchanged[l] /\ Alpc!Count(m_Alpc, l) \in Nat
    BY DEF CountsAreOf, AlpcTypes, Alpc!Count
  <2> QED
    BY <2>1, <2>2
<1> QED
  BY <1>2, <1>3, OpenIsPart

\* a message is sent, of a pair
LEMMA CountsGrow ==
  ASSUME NEW roles \in Roles, NEW after \in Roles, CountsAreOf(roles), AlpcTypes, m_Alpc' = m_Alpc,
         NEW x \in MessageIds, NEW q \in IpcPids, after[x] \in Alpc!Pairs,
         \A l \in Alpc!Pairs : Open(after, l)' \subseteq Open(roles, l) \cup {<<x, q>>},
         \A l \in Alpc!Pairs \ {after[x]} : Open(after, l)' \subseteq Open(roles, l),
         \A l \in Alpc!Pairs : exchanged'[l] = IF l = after[x] THEN exchanged[l] + 1 ELSE exchanged[l]
  PROVE  CountsAreOf(after)'
<1> SUFFICES ASSUME NEW l \in Alpc!Pairs
             PROVE  Alpc!Count(m_Alpc, l) + Cardinality(Open(after, l)') <= exchanged'[l]
  BY DEF CountsAreOf
<1>0. <<x, q>> \in MessageIds \X IpcPids
  OBVIOUS
<1>1. Cardinality(Open(after, l)') \in Nat /\ Cardinality(Open(roles, l)) \in Nat
      /\ Cardinality(Open(after, l)') <= Cardinality(Open(roles, l)) + 1
      /\ (l # after[x] => Cardinality(Open(after, l)') <= Cardinality(Open(roles, l)))
  <2> DEFINE S == Open(roles, l)
             T == Open(after, l)'
  <2>1. S \in SUBSET (MessageIds \X IpcPids) /\ T \in SUBSET (MessageIds \X IpcPids)
    BY OpenIsPart
  <2>2. T \subseteq S \cup {<<x, q>>} /\ (l # after[x] => T \subseteq S)
    OBVIOUS
  <2> HIDE DEF S, T
  <2>3. Cardinality(T) \in Nat /\ Cardinality(S) \in Nat /\ Cardinality(T) <= Cardinality(S) + 1
        /\ (l # after[x] => Cardinality(T) <= Cardinality(S))
    BY <1>0, <2>1, <2>2, SomeUnderWay
  <2> QED
    BY <2>3 DEF S, T
<1>2. Alpc!Count(m_Alpc, l) \in Nat /\ exchanged[l] \in Nat /\ Alpc!Count(m_Alpc, l) + Cardinality(Open(roles, l)) <= exchanged[l]
  BY DEF CountsAreOf, AlpcTypes, Alpc!Count
<1> QED
  BY <1>1, <1>2

\* what the events and the record that stay say of a message, they still say
LEMMA RecordsStay ==
  ASSUME m_Pending' = m_Pending
  PROVE  \A id \in MessageIds, p \in IpcPids :
           (Recorded(id)' <=> Recorded(id)) /\ (SentBy(id, p)' <=> SentBy(id, p)) /\ (AwaitedBy(id, p)' <=> AwaitedBy(id, p))
BY DEF Recorded, SentBy, AwaitedBy

LEMMA RolesSend ==
  ASSUME AlpcTypes, NEW roles \in Roles, RolesInv(roles),
         NEW id \in MessageIds, NEW c \in IpcPids, NEW s \in IpcPids, Alpc!AlpcSendAndWait(id, c, s)
  PROVE  \E after \in Roles : RolesInv(after)'
<1> USE DEF Ops
<1>1. PICK waits \in BOOLEAN :
        /\ exchange' = [exchange EXCEPT ![id] = [step |-> "sent", client |-> c, server |-> s, waits |-> waits]]
        /\ Alpc!Log(c, <<[op |-> "Send", id |-> id]>> \o
                         IF waits THEN <<[op |-> "WaitForReply", id |-> id]>> ELSE <<>>)
  BY DEF Alpc!AlpcSendAndWait
<1>2. PICK L \in Nat :
        \A q \in IpcPids, i \in Nat, op \in Ops, x \in MessageIds :
          LoggedAt(q, i, op, x)' <=>
            \/ LoggedAt(q, i, op, x)
            \/ q = c /\ x = id /\ op = "Send" /\ i = L + 1
            \/ q = c /\ x = id /\ op = "WaitForReply" /\ i = L + 2 /\ waits
  <2> DEFINE entries == <<[op |-> "Send", id |-> id]>> \o (IF waits THEN <<[op |-> "WaitForReply", id |-> id]>> ELSE <<>>)
  <2>1. <<[op |-> "Send", id |-> id]>> \in Seq(AlpcEvents) /\ <<[op |-> "WaitForReply", id |-> id]>> \in Seq(AlpcEvents)
    BY DEF AlpcEvents
  <2>2. entries \in Seq(AlpcEvents) /\ Len(entries) = (IF waits THEN 2 ELSE 1)
        /\ entries[1] = [op |-> "Send", id |-> id] /\ (waits => entries[2] = [op |-> "WaitForReply", id |-> id])
    <3>1. CASE waits
      <4>1. entries = <<[op |-> "Send", id |-> id]>> \o <<[op |-> "WaitForReply", id |-> id]>>
        BY <3>1
      <4> QED
        BY <2>1, <3>1, <4>1, ConcatProperties
    <3>2. CASE ~waits
      <4>1. entries = <<[op |-> "Send", id |-> id]>>
        BY <2>1, <3>2
      <4> QED
        BY <2>1, <3>2, <4>1
    <3> QED
      BY <3>1, <3>2
  <2>3. Alpc!Log(c, entries)
    BY <1>1
  <2>4. Len(logged[c]) \in Nat
    BY DEF AlpcTypes
  <2> HIDE DEF entries
  <2>5. \A q \in IpcPids, i \in Nat, op \in Ops, x \in MessageIds :
          LoggedAt(q, i, op, x)' <=>
            \/ LoggedAt(q, i, op, x)
            \/ /\ q = c /\ i - Len(logged[c]) \in 1 .. Len(entries)
               /\ entries[i - Len(logged[c])].op = op /\ entries[i - Len(logged[c])].id = x
    BY <2>2, <2>3, LogGrows, SMTT(30)
  <2>6. ASSUME NEW i \in Nat, NEW op \in Ops, NEW x \in MessageIds
        PROVE  /\ i - Len(logged[c]) \in 1 .. Len(entries)
               /\ entries[i - Len(logged[c])].op = op /\ entries[i - Len(logged[c])].id = x
               <=> \/ x = id /\ op = "Send" /\ i = Len(logged[c]) + 1
                   \/ x = id /\ op = "WaitForReply" /\ i = Len(logged[c]) + 2 /\ waits
    <3>1. CASE i = Len(logged[c]) + 1
      BY <2>2, <2>4, <3>1
    <3>2. CASE i = Len(logged[c]) + 2
      BY <2>2, <2>4, <3>2
    <3>3. CASE i # Len(logged[c]) + 1 /\ i # Len(logged[c]) + 2
      BY <2>2, <2>4, <3>3
    <3> QED
      BY <3>1, <3>2, <3>3
  <2>7. \A q \in IpcPids, i \in Nat, op \in Ops, x \in MessageIds :
          LoggedAt(q, i, op, x)' <=>
            \/ LoggedAt(q, i, op, x)
            \/ q = c /\ x = id /\ op = "Send" /\ i = Len(logged[c]) + 1
            \/ q = c /\ x = id /\ op = "WaitForReply" /\ i = Len(logged[c]) + 2 /\ waits
    <3> SUFFICES ASSUME NEW q \in IpcPids, NEW i \in Nat, NEW op \in Ops, NEW x \in MessageIds
                 PROVE  LoggedAt(q, i, op, x)' <=>
                          \/ LoggedAt(q, i, op, x)
                          \/ q = c /\ x = id /\ op = "Send" /\ i = Len(logged[c]) + 1
                          \/ q = c /\ x = id /\ op = "WaitForReply" /\ i = Len(logged[c]) + 2 /\ waits
      OBVIOUS
    <3>1. CASE q = c
      BY <2>5, <2>6, <3>1
    <3>2. CASE q # c
      BY <2>5, <3>2
    <3> QED
      BY <3>1, <3>2
  <2> QED
    BY <2>4, <2>7
<1>3. \A q \in IpcPids, i \in Nat, op \in Ops : ~LoggedAt(q, i, op, id)
  <2>1. \A q \in IpcPids : \A i \in DOMAIN logged[q] : logged[q][i].op \notin Alpc!RpcEvents => logged[q][i].id # id
    BY DEF Alpc!AlpcSendAndWait
  <2>2. \A q \in IpcPids : logged[q] \in Seq(AlpcEvents)
    BY DEF AlpcTypes
  <2> QED
    BY <2>1, <2>2 DEF LoggedAt, Alpc!RpcEvents
<1>4. ~Recorded(id) /\ c # s /\ m_Pending' = m_Pending
  BY DEF Alpc!AlpcSendAndWait, Alpc!alpcVars, Recorded
<1>5. \A p \in IpcPids, x \in MessageIds :
         (Recorded(x)' <=> Recorded(x)) /\ (SentBy(x, p)' <=> SentBy(x, p)) /\ (AwaitedBy(x, p)' <=> AwaitedBy(x, p))
  BY <1>4, RecordsStay
<1>6. ~SentBy(id, s) /\ ~SentBy(id, c)
  BY <1>4 DEF SentBy
<1>7. PICK after \in Roles :
        after[id] = <<c, s>> /\ <<c, s>> \in Alpc!Pairs /\ \A x \in MessageIds \ {id} : after[x] = roles[x]
  <2> DEFINE after == [roles EXCEPT ![id] = <<c, s>>]
  <2>1. after \in Roles /\ after[id] = <<c, s>> /\ <<c, s>> \in Alpc!Pairs /\ \A x \in MessageIds \ {id} : after[x] = roles[x]
    BY <1>4 DEF Roles, Alpc!Pairs
  <2> QED
    BY <2>1
<1>8. EventsAreOf(after)'
  <2> SUFFICES ASSUME NEW p \in IpcPids, NEW i \in Nat, NEW x \in MessageIds
      PROVE /\ \A op \in {"Send", "WaitForReply", "Receive"} :
                  LoggedAt(p, i, op, x)' => after[x] \in Alpc!Pairs /\ p \in {after[x][1], after[x][2]}
            /\ LoggedAt(p, i, "WaitForReply", x)' => p = after[x][1]
            /\ LoggedAt(p, i, "Send", x)' => ~SentBy(x, p)' /\ \A j \in Nat : LoggedAt(p, j, "Send", x)' => i = j
            /\ LoggedAt(p, i, "Receive", x)' /\ p = after[x][1] =>
                  AwaitedBy(x, p)' \/ \E j \in Nat : j < i /\ LoggedAt(p, j, "WaitForReply", x)'
    BY DEF EventsAreOf
  <2>1. CASE x = id
    BY <2>1, <1>2, <1>3, <1>5, <1>6, <1>7
  <2>2. CASE x # id
    BY <2>2, <1>2, <1>5, <1>7 DEF RolesInv, EventsAreOf
  <2> QED
    BY <2>1, <2>2
<1>9. RecordsAreOf(after)'
  BY <1>4, <1>5, <1>7 DEF RolesInv, RecordsAreOf
<1>10. \A x \in MessageIds \ {id} : exchange'[x] = exchange[x]
  BY <1>1 DEF AlpcTypes
<1>11. exchange'[id] = [step |-> "sent", client |-> c, server |-> s, waits |-> waits]
  BY <1>1 DEF AlpcTypes
<1>12. \A x \in MessageIds \ {id}, p \in IpcPids :
         (SendUnderWay(x, p)' <=> SendUnderWay(x, p)) /\ (WaitUnderWay(x, p)' <=> WaitUnderWay(x, p))
  BY <1>2, <1>5 DEF SendUnderWay, WaitUnderWay
<1>13. \A p \in IpcPids : (SendUnderWay(id, p)' => p = c) /\ ~SendUnderWay(id, p) /\ (waits => WaitUnderWay(id, c)')
  BY <1>2, <1>3, <1>4, <1>5 DEF SendUnderWay, WaitUnderWay, SentBy
<1>14. \A x \in MessageIds : exchange[x].step # "none" => exchange[x].client \in IpcPids /\ exchange[x].server \in IpcPids
  BY DEF AlpcTypes, Exchanges, Alpc!NoExchange
<1>15. ExchangesAreOf(after)'
  <2> SUFFICES ASSUME NEW x \in MessageIds, exchange'[x].step # "none"
      PROVE /\ exchange'[x].client # exchange'[x].server /\ after[x] = <<exchange'[x].client, exchange'[x].server>>
            /\ exchange'[x].step # "sent" => exchange'[x].waits
            /\ exchange'[x].waits => WaitUnderWay(x, after[x][1])'
            /\ exchange'[x].step # "answered" => ~SendUnderWay(x, after[x][2])'
    BY DEF ExchangesAreOf
  <2>1. CASE x = id
    BY <2>1, <1>4, <1>7, <1>11, <1>13
  <2>2. CASE x # id
    BY <2>2, <1>7, <1>10, <1>12, <1>14 DEF RolesInv, ExchangesAreOf
  <2> QED
    BY <2>1, <2>2
<1>16. CountsAreOf(after)'
  <2>1. \A l \in Alpc!Pairs : Open(after, l)' \subseteq Open(roles, l) \cup {<<id, c>>}
    BY <1>7, <1>12, <1>13 DEF Open
  <2>2. \A l \in Alpc!Pairs \ {after[id]} : Open(after, l)' \subseteq Open(roles, l)
    BY <1>7, <1>12, <1>13 DEF Open
  <2>3. exchanged' = [exchanged EXCEPT ![after[id]] = @ + 1] /\ m_Alpc' = m_Alpc
    BY <1>7 DEF Alpc!AlpcSendAndWait, Alpc!alpcVars
  <2>4. \A l \in Alpc!Pairs : exchanged'[l] = IF l = after[id] THEN exchanged[l] + 1 ELSE exchanged[l]
    BY <2>3 DEF AlpcTypes
  <2>5. after[id] \in Alpc!Pairs /\ CountsAreOf(roles)
    BY <1>7 DEF RolesInv
  <2> QED
    BY <2>1, <2>2, <2>3, <2>4, <2>5, CountsGrow
<1> QED
  BY <1>7, <1>8, <1>9, <1>15, <1>16 DEF RolesInv

LEMMA LogsOne ==
  ASSUME AlpcTypes, NEW p \in IpcPids, NEW op \in Ops, NEW id \in MessageIds, Alpc!Log(p, <<[op |-> op, id |-> id]>>)
  PROVE  /\ Len(logged[p]) \in Nat
         /\ \A i \in Nat, o \in Ops, x \in MessageIds : LoggedAt(p, i, o, x) => i <= Len(logged[p])
         /\ \A q \in IpcPids, i \in Nat, o \in Ops, x \in MessageIds :
              LoggedAt(q, i, o, x)' <=> LoggedAt(q, i, o, x) \/ (q = p /\ x = id /\ o = op /\ i = Len(logged[p]) + 1)
<1> DEFINE entries == <<[op |-> op, id |-> id]>>
<1>1. entries \in Seq(AlpcEvents) /\ Len(entries) = 1 /\ entries[1].op = op /\ entries[1].id = id
  BY DEF AlpcEvents, Ops
<1>2. Alpc!Log(p, entries)
  OBVIOUS
<1>3. Len(logged[p]) \in Nat
  BY DEF AlpcTypes
<1> HIDE DEF entries
<1>4. \A q \in IpcPids, i \in Nat, o \in Ops, x \in MessageIds :
        LoggedAt(q, i, o, x)' <=>
          \/ LoggedAt(q, i, o, x)
          \/ /\ q = p /\ i - Len(logged[p]) \in 1 .. Len(entries)
             /\ entries[i - Len(logged[p])].op = o /\ entries[i - Len(logged[p])].id = x
  BY <1>1, <1>2, LogGrows
<1>5. ASSUME NEW i \in Nat, NEW o \in Ops, NEW x \in MessageIds
      PROVE  /\ i - Len(logged[p]) \in 1 .. Len(entries)
             /\ entries[i - Len(logged[p])].op = o /\ entries[i - Len(logged[p])].id = x
             <=> x = id /\ o = op /\ i = Len(logged[p]) + 1
  BY <1>1, <1>3
<1>6. \A q \in IpcPids, i \in Nat, o \in Ops, x \in MessageIds :
        LoggedAt(q, i, o, x)' <=> LoggedAt(q, i, o, x) \/ (q = p /\ x = id /\ o = op /\ i = Len(logged[p]) + 1)
  BY <1>4, <1>5
<1>7. \A i \in Nat, o \in Ops, x \in MessageIds : LoggedAt(p, i, o, x) => i <= Len(logged[p])
  BY <1>3 DEF LoggedAt
<1> QED
  BY <1>3, <1>6, <1>7

\* who takes part in an exchange
LEMMA ExchangeIs ==
  ASSUME AlpcTypes, NEW roles \in Roles, ExchangesAreOf(roles), NEW id \in MessageIds, exchange[id].step # "none"
  PROVE  /\ exchange[id] \in Exchanges /\ exchange[id].client \in IpcPids /\ exchange[id].server \in IpcPids
         /\ roles[id] \in Alpc!Pairs /\ roles[id][1] = exchange[id].client /\ roles[id][2] = exchange[id].server
         /\ roles[id][1] # roles[id][2]
<1>1. exchange[id] \in Exchanges
  BY DEF AlpcTypes, Alpc!NoExchange
<1>2. exchange[id].client \in IpcPids /\ exchange[id].server \in IpcPids
  BY <1>1 DEF Exchanges
<1>3. exchange[id].client # exchange[id].server /\ roles[id] = <<exchange[id].client, exchange[id].server>>
  BY DEF ExchangesAreOf
<1> QED
  BY <1>1, <1>2, <1>3 DEF Alpc!Pairs

LEMMA RolesReceive ==
  ASSUME AlpcTypes, NEW roles \in Roles, RolesInv(roles), NEW id \in MessageIds, Alpc!AlpcReceive(id)
  PROVE  RolesInv(roles)'
<1> USE DEF Ops
<1>1. exchange[id].step = "sent" /\ m_Pending' = m_Pending /\ m_Alpc' = m_Alpc /\ exchanged' = exchanged
  BY DEF Alpc!AlpcReceive, Alpc!alpcVars
<1>2. /\ exchange[id] \in Exchanges /\ exchange[id].client \in IpcPids /\ exchange[id].server \in IpcPids
      /\ roles[id] \in Alpc!Pairs /\ roles[id][1] = exchange[id].client /\ roles[id][2] = exchange[id].server
      /\ roles[id][1] # roles[id][2]
  BY <1>1, ExchangeIs DEF RolesInv
<1>3. PICK s \in IpcPids : s = roles[id][2] /\ Alpc!Log(s, <<[op |-> "Receive", id |-> id]>>)
  BY <1>2 DEF Alpc!AlpcReceive
<1>4. \A q \in IpcPids, i \in Nat, o \in Ops, x \in MessageIds :
        LoggedAt(q, i, o, x)' <=> LoggedAt(q, i, o, x) \/ (q = s /\ x = id /\ o = "Receive" /\ i = Len(logged[s]) + 1)
  BY <1>3, LogsOne
<1>5. \A p \in IpcPids, x \in MessageIds :
         (Recorded(x)' <=> Recorded(x)) /\ (SentBy(x, p)' <=> SentBy(x, p)) /\ (AwaitedBy(x, p)' <=> AwaitedBy(x, p))
  BY <1>1, RecordsStay
<1>6. \A x \in MessageIds, p \in IpcPids :
         (SendUnderWay(x, p)' <=> SendUnderWay(x, p)) /\ (WaitUnderWay(x, p)' <=> WaitUnderWay(x, p))
  BY <1>4, <1>5 DEF SendUnderWay, WaitUnderWay
<1>7. EventsAreOf(roles)'
  BY <1>2, <1>3, <1>4, <1>5 DEF EventsAreOf, RolesInv
<1>8. RecordsAreOf(roles)'
  BY <1>1 DEF RolesInv, RecordsAreOf, Recorded
<1>9. ExchangesAreOf(roles)'
  <2> SUFFICES ASSUME NEW x \in MessageIds, exchange'[x].step # "none"
      PROVE /\ exchange'[x].client # exchange'[x].server /\ roles[x] = <<exchange'[x].client, exchange'[x].server>>
            /\ exchange'[x].step # "sent" => exchange'[x].waits
            /\ exchange'[x].waits => WaitUnderWay(x, roles[x][1])'
            /\ exchange'[x].step # "answered" => ~SendUnderWay(x, roles[x][2])'
    BY DEF ExchangesAreOf
  <2>0. roles[x] \in (IpcPids \X IpcPids) \cup {<<0, 0>>}
    BY DEF Roles
  <2>1. CASE x = id
    <3>1. exchange'[x] = IF exchange[id].waits THEN [exchange[id] EXCEPT !.step = "received"] ELSE Alpc!NoExchange
      BY <2>1 DEF Alpc!AlpcReceive, AlpcTypes
    <3>2. exchange[id].waits /\ exchange'[x] = [exchange[id] EXCEPT !.step = "received"]
      BY <3>1 DEF Alpc!NoExchange
    <3>3. exchange'[x].client = exchange[id].client /\ exchange'[x].server = exchange[id].server
          /\ exchange'[x].step = "received" /\ exchange'[x].waits = exchange[id].waits
      BY <1>2, <3>2 DEF Exchanges
    <3>4. /\ roles[id] = <<exchange[id].client, exchange[id].server>> /\ exchange[id].client # exchange[id].server
          /\ WaitUnderWay(id, roles[id][1]) /\ ~SendUnderWay(id, roles[id][2])
      BY <1>1, <3>2 DEF RolesInv, ExchangesAreOf
    <3> QED
      BY <1>2, <1>3, <1>6, <2>1, <3>2, <3>3, <3>4
  <2>2. CASE x # id
    <3>1. exchange'[x] = exchange[x]
      BY <2>2 DEF Alpc!AlpcReceive, AlpcTypes
    <3>2. exchange[x].step # "none" => roles[x][1] \in IpcPids /\ roles[x][2] \in IpcPids
      BY ExchangeIs DEF RolesInv
    <3> QED
      BY <1>6, <3>1, <3>2 DEF RolesInv, ExchangesAreOf
  <2> QED
    BY <2>1, <2>2
<1>10. CountsAreOf(roles)'
  <2>1. \A l \in Alpc!Pairs : Alpc!Count(m_Alpc', l) \in 0 .. Alpc!Count(m_Alpc, l)
    BY <1>1 DEF AlpcTypes, Alpc!Count
  <2> QED
    BY <1>1, <1>6, <2>1, CountsStay DEF RolesInv
<1> QED
  BY <1>7, <1>8, <1>9, <1>10 DEF RolesInv

LEMMA RolesTakeReply ==
  ASSUME AlpcTypes, NEW roles \in Roles, RolesInv(roles), NEW id \in MessageIds, Alpc!AlpcTakeReply(id)
  PROVE  RolesInv(roles)'
<1> USE DEF Ops
<1>1. exchange[id].step = "answered" /\ m_Pending' = m_Pending /\ m_Alpc' = m_Alpc /\ exchanged' = exchanged
  BY DEF Alpc!AlpcTakeReply, Alpc!alpcVars
<1>2. /\ exchange[id] \in Exchanges /\ exchange[id].client \in IpcPids /\ exchange[id].server \in IpcPids
      /\ roles[id] \in Alpc!Pairs /\ roles[id][1] = exchange[id].client /\ roles[id][2] = exchange[id].server
      /\ roles[id][1] # roles[id][2]
  BY <1>1, ExchangeIs DEF RolesInv
<1>3. Alpc!Log(roles[id][1], <<[op |-> "Receive", id |-> id]>>) /\ roles[id][1] \in IpcPids
  BY <1>2 DEF Alpc!AlpcTakeReply
<1> DEFINE L == Len(logged[roles[id][1]])
<1>4. /\ L \in Nat
      /\ \A i \in Nat, o \in Ops, x \in MessageIds : LoggedAt(roles[id][1], i, o, x) => i <= L
      /\ \A q \in IpcPids, i \in Nat, o \in Ops, x \in MessageIds :
           LoggedAt(q, i, o, x)' <=> LoggedAt(q, i, o, x) \/ (q = roles[id][1] /\ x = id /\ o = "Receive" /\ i = L + 1)
  BY <1>3, LogsOne
<1> HIDE DEF L
<1>5. \A p \in IpcPids, x \in MessageIds :
         (Recorded(x)' <=> Recorded(x)) /\ (SentBy(x, p)' <=> SentBy(x, p)) /\ (AwaitedBy(x, p)' <=> AwaitedBy(x, p))
  BY <1>1, RecordsStay
<1>6. \A x \in MessageIds, p \in IpcPids :
         (SendUnderWay(x, p)' <=> SendUnderWay(x, p)) /\ (WaitUnderWay(x, p)' <=> WaitUnderWay(x, p))
  BY <1>4, <1>5 DEF SendUnderWay, WaitUnderWay
<1>7. EventsAreOf(roles)'
  <2>1. exchange[id].waits /\ WaitUnderWay(id, roles[id][1])
    BY <1>1 DEF RolesInv, ExchangesAreOf
  <2>2. AwaitedBy(id, roles[id][1])' \/ \E j \in Nat : j < L + 1 /\ LoggedAt(roles[id][1], j, "WaitForReply", id)'
    BY <1>3, <1>4, <1>5, <2>1 DEF WaitUnderWay
  <2> SUFFICES ASSUME NEW p \in IpcPids, NEW i \in Nat, NEW x \in MessageIds
      PROVE /\ \A op \in {"Send", "WaitForReply", "Receive"} :
                  LoggedAt(p, i, op, x)' => roles[x] \in Alpc!Pairs /\ p \in {roles[x][1], roles[x][2]}
            /\ LoggedAt(p, i, "WaitForReply", x)' => p = roles[x][1]
            /\ LoggedAt(p, i, "Send", x)' => ~SentBy(x, p)' /\ \A j \in Nat : LoggedAt(p, j, "Send", x)' => i = j
            /\ LoggedAt(p, i, "Receive", x)' /\ p = roles[x][1] =>
                  AwaitedBy(x, p)' \/ \E j \in Nat : j < i /\ LoggedAt(p, j, "WaitForReply", x)'
    BY DEF EventsAreOf
  <2>3. CASE x = id /\ p = roles[id][1] /\ i = L + 1
    BY <1>2, <1>4, <1>5, <2>2, <2>3 DEF EventsAreOf, RolesInv
  <2>4. CASE ~(x = id /\ p = roles[id][1] /\ i = L + 1)
    BY <1>2, <1>4, <1>5, <2>4 DEF EventsAreOf, RolesInv
  <2> QED
    BY <2>3, <2>4
<1>8. RecordsAreOf(roles)'
  BY <1>1 DEF RolesInv, RecordsAreOf, Recorded
<1>9. ExchangesAreOf(roles)'
  <2>1. \A x \in MessageIds \ {id} : exchange'[x] = exchange[x]
    BY DEF Alpc!AlpcTakeReply, AlpcTypes
  <2>2. exchange'[id].step = "none"
    BY DEF Alpc!AlpcTakeReply, AlpcTypes, Alpc!NoExchange
  <2>3. \A x \in MessageIds : exchange[x].step # "none" => roles[x][1] \in IpcPids /\ roles[x][2] \in IpcPids
    BY ExchangeIs DEF RolesInv
  <2> QED
    BY <1>6, <2>1, <2>2, <2>3 DEF RolesInv, ExchangesAreOf
<1>10. CountsAreOf(roles)'
  <2>1. \A l \in Alpc!Pairs : Alpc!Count(m_Alpc', l) \in 0 .. Alpc!Count(m_Alpc, l)
    BY <1>1 DEF AlpcTypes, Alpc!Count
  <2> QED
    BY <1>1, <1>6, <2>1, CountsStay DEF RolesInv
<1> QED
  BY <1>7, <1>8, <1>9, <1>10 DEF RolesInv

LEMMA RolesReply ==
  ASSUME AlpcTypes, NEW roles \in Roles, RolesInv(roles), NEW id \in MessageIds, Alpc!AlpcReply(id)
  PROVE  RolesInv(roles)'
<1> USE DEF Ops
<1>1. exchange[id].step = "received" /\ m_Pending' = m_Pending /\ m_Alpc' = m_Alpc
  BY DEF Alpc!AlpcReply, Alpc!alpcVars
<1>2. /\ exchange[id] \in Exchanges /\ exchange[id].client \in IpcPids /\ exchange[id].server \in IpcPids
      /\ roles[id] \in Alpc!Pairs /\ roles[id][1] = exchange[id].client /\ roles[id][2] = exchange[id].server
      /\ roles[id][1] # roles[id][2]
  BY <1>1, ExchangeIs DEF RolesInv
<1>3. PICK s \in IpcPids : s = roles[id][2] /\ Alpc!Log(s, <<[op |-> "Send", id |-> id]>>)
  BY <1>2 DEF Alpc!AlpcReply
<1>4. \A q \in IpcPids, i \in Nat, o \in Ops, x \in MessageIds :
        LoggedAt(q, i, o, x)' <=> LoggedAt(q, i, o, x) \/ (q = s /\ x = id /\ o = "Send" /\ i = Len(logged[s]) + 1)
  BY <1>3, LogsOne
<1>5. \A p \in IpcPids, x \in MessageIds :
         (Recorded(x)' <=> Recorded(x)) /\ (SentBy(x, p)' <=> SentBy(x, p)) /\ (AwaitedBy(x, p)' <=> AwaitedBy(x, p))
  BY <1>1, RecordsStay
<1>6. ~SentBy(id, s) /\ ~SendUnderWay(id, s) /\ \A i \in Nat : ~LoggedAt(s, i, "Send", id)
  BY <1>1, <1>3 DEF RolesInv, ExchangesAreOf, SendUnderWay
<1>7. \A x \in MessageIds, p \in IpcPids :
         /\ SendUnderWay(x, p)' => SendUnderWay(x, p) \/ (x = id /\ p = s)
         /\ WaitUnderWay(x, p)' <=> WaitUnderWay(x, p)
  BY <1>4, <1>5 DEF SendUnderWay, WaitUnderWay
<1>8. EventsAreOf(roles)'
  <2> SUFFICES ASSUME NEW p \in IpcPids, NEW i \in Nat, NEW x \in MessageIds
      PROVE /\ \A op \in {"Send", "WaitForReply", "Receive"} :
                  LoggedAt(p, i, op, x)' => roles[x] \in Alpc!Pairs /\ p \in {roles[x][1], roles[x][2]}
            /\ LoggedAt(p, i, "WaitForReply", x)' => p = roles[x][1]
            /\ LoggedAt(p, i, "Send", x)' => ~SentBy(x, p)' /\ \A j \in Nat : LoggedAt(p, j, "Send", x)' => i = j
            /\ LoggedAt(p, i, "Receive", x)' /\ p = roles[x][1] =>
                  AwaitedBy(x, p)' \/ \E j \in Nat : j < i /\ LoggedAt(p, j, "WaitForReply", x)'
    BY DEF EventsAreOf
  <2>1. CASE x = id /\ p = s
    <3>1. p # roles[id][1] /\ p = roles[id][2] /\ ~SentBy(x, p)'
      BY <1>2, <1>3, <1>5, <1>6, <2>1
    <3>2. \A op \in Ops : LoggedAt(p, i, op, x)' => LoggedAt(p, i, op, x) \/ op = "Send"
      BY <1>4
    <3>3. ~LoggedAt(p, i, "WaitForReply", x)'
      BY <3>1, <3>2, <2>1 DEF EventsAreOf, RolesInv
    <3>4. \A j \in Nat : LoggedAt(p, j, "Send", x)' => j = Len(logged[s]) + 1
      BY <1>4, <1>6, <2>1
    <3> QED
      BY <1>2, <2>1, <3>1, <3>3, <3>4
  <2>2. CASE ~(x = id /\ p = s)
    BY <1>2, <1>4, <1>5, <2>2 DEF EventsAreOf, RolesInv
  <2> QED
    BY <2>1, <2>2
<1>9. RecordsAreOf(roles)'
  BY <1>1 DEF RolesInv, RecordsAreOf, Recorded
<1>10. ExchangesAreOf(roles)'
  <2> SUFFICES ASSUME NEW x \in MessageIds, exchange'[x].step # "none"
      PROVE /\ exchange'[x].client # exchange'[x].server /\ roles[x] = <<exchange'[x].client, exchange'[x].server>>
            /\ exchange'[x].step # "sent" => exchange'[x].waits
            /\ exchange'[x].waits => WaitUnderWay(x, roles[x][1])'
            /\ exchange'[x].step # "answered" => ~SendUnderWay(x, roles[x][2])'
    BY DEF ExchangesAreOf
  <2>1. CASE x = id
    <3>1. exchange'[x] = [exchange[id] EXCEPT !.step = "answered"]
      BY <2>1 DEF Alpc!AlpcReply, AlpcTypes
    <3>2. exchange'[x].client = exchange[id].client /\ exchange'[x].server = exchange[id].server
          /\ exchange'[x].step = "answered" /\ exchange'[x].waits = exchange[id].waits
      BY <1>2, <3>1 DEF Exchanges
    <3>3. /\ roles[id] = <<exchange[id].client, exchange[id].server>> /\ exchange[id].client # exchange[id].server
          /\ exchange[id].waits /\ WaitUnderWay(id, roles[id][1])
      BY <1>1 DEF RolesInv, ExchangesAreOf
    <3> QED
      BY <1>2, <1>7, <2>1, <3>2, <3>3
  <2>2. CASE x # id
    <3>1. exchange'[x] = exchange[x]
      BY <2>2 DEF Alpc!AlpcReply, AlpcTypes
    <3>2. exchange[x].step # "none" => roles[x][1] \in IpcPids /\ roles[x][2] \in IpcPids
      BY ExchangeIs DEF RolesInv
    <3> QED
      BY <1>7, <2>2, <3>1, <3>2 DEF RolesInv, ExchangesAreOf
  <2> QED
    BY <2>1, <2>2
<1>11. CountsAreOf(roles)'
  <2>1. \A l \in Alpc!Pairs : Open(roles, l)' \subseteq Open(roles, l) \cup {<<id, s>>}
    BY <1>7 DEF Open
  <2>2. \A l \in Alpc!Pairs \ {roles[id]} : Open(roles, l)' \subseteq Open(roles, l)
    BY <1>7 DEF Open
  <2>3. exchanged' = [exchanged EXCEPT ![roles[id]] = @ + 1]
    BY <1>1 DEF Alpc!AlpcReply, RolesInv, ExchangesAreOf
  <2>4. \A l \in Alpc!Pairs : exchanged'[l] = IF l = roles[id] THEN exchanged[l] + 1 ELSE exchanged[l]
    BY <2>3 DEF AlpcTypes
  <2>5. roles[id] \in Alpc!Pairs /\ CountsAreOf(roles) /\ m_Alpc' = m_Alpc
    BY <1>1, <1>2 DEF RolesInv
  <2> QED
    BY <2>1, <2>2, <2>4, <2>5, CountsGrow
<1> QED
  BY <1>8, <1>9, <1>10, <1>11 DEF RolesInv

\* what does not touch the events and the records of messages under way
LEMMA RolesStay ==
  ASSUME AlpcTypes, NEW roles \in Roles, RolesInv(roles), logged' = logged, m_Pending' = m_Pending, exchanged' = exchanged,
         \A id \in MessageIds : exchange'[id] \in {exchange[id], Alpc!NoExchange},
         \A l \in Alpc!Pairs : Alpc!Count(m_Alpc', l) \in {0, Alpc!Count(m_Alpc, l)}
  PROVE  RolesInv(roles)'
<1> USE DEF Ops
<1>1. \A p \in IpcPids, x \in MessageIds :
         (Recorded(x)' <=> Recorded(x)) /\ (SentBy(x, p)' <=> SentBy(x, p)) /\ (AwaitedBy(x, p)' <=> AwaitedBy(x, p))
  BY RecordsStay
<1>2. \A q \in IpcPids, i \in Nat, op \in Ops, x \in MessageIds : LoggedAt(q, i, op, x)' <=> LoggedAt(q, i, op, x)
  BY LogStays
<1>3. \A x \in MessageIds, p \in IpcPids :
         (SendUnderWay(x, p)' <=> SendUnderWay(x, p)) /\ (WaitUnderWay(x, p)' <=> WaitUnderWay(x, p))
  BY <1>1, <1>2 DEF SendUnderWay, WaitUnderWay
<1>4. EventsAreOf(roles)'
  BY <1>1, <1>2 DEF EventsAreOf, RolesInv
<1>5. RecordsAreOf(roles)'
  BY DEF RolesInv, RecordsAreOf, Recorded
<1>6. ExchangesAreOf(roles)'
  <2>1. \A x \in MessageIds : exchange'[x].step # "none" => exchange'[x] = exchange[x]
    BY DEF Alpc!NoExchange
  <2>2. \A x \in MessageIds : exchange[x].step # "none" => roles[x][1] \in IpcPids /\ roles[x][2] \in IpcPids
    BY ExchangeIs DEF RolesInv
  <2> QED
    BY <1>3, <2>1, <2>2 DEF RolesInv, ExchangesAreOf
<1>7. CountsAreOf(roles)'
  <2>1. \A l \in Alpc!Pairs : Alpc!Count(m_Alpc, l) \in Nat
    BY DEF AlpcTypes, Alpc!Count
  <2>2. \A l \in Alpc!Pairs : Alpc!Count(m_Alpc', l) \in 0 .. Alpc!Count(m_Alpc, l)
    BY <2>1
  <2> QED
    BY <1>3, <2>2, CountsStay DEF RolesInv
<1> QED
  BY <1>4, <1>5, <1>6, <1>7 DEF RolesInv

\* nothing is under way
LEMMA RolesRest ==
  ASSUME NEW roles \in Roles, \A p \in IpcPids : logged'[p] = <<>>, \A id \in MessageIds : ~Recorded(id)',
         \A id \in MessageIds : exchange'[id].step = "none",
         \A l \in Alpc!Pairs : Alpc!Count(m_Alpc', l) <= exchanged'[l] /\ Alpc!Count(m_Alpc', l) \in Nat
  PROVE  RolesInv(roles)'
<1>1. \A q \in IpcPids, i \in Nat, op \in Ops, x \in MessageIds : ~LoggedAt(q, i, op, x)'
  BY DEF LoggedAt
<1>2. \A x \in MessageIds, p \in IpcPids : ~SendUnderWay(x, p)'
  BY <1>1 DEF SendUnderWay, SentBy, Ops
<1>3. \A l : Open(roles, l)' = {}
  BY <1>2 DEF Open
<1>4. CountsAreOf(roles)'
  BY <1>3, FS_EmptySet DEF CountsAreOf
<1>5. EventsAreOf(roles)'
  BY <1>1 DEF EventsAreOf, Ops
<1>6. RecordsAreOf(roles)' /\ ExchangesAreOf(roles)'
  BY DEF RecordsAreOf, ExchangesAreOf
<1> QED
  BY <1>4, <1>5, <1>6 DEF RolesInv

\* the event at the head of a process's log
LEMMA EventIs ==
  ASSUME AlpcTypes, NEW p \in IpcPids, Alpc!OnEvent(p)
  PROVE  \E id \in MessageIds, op \in Ops :
           /\ Alpc!OnAlpc(p, id, op) /\ LoggedAt(p, 1, op, id)
           /\ \A o \in Ops, x \in MessageIds : LoggedAt(p, 1, o, x) => o = op /\ x = id
<1>1. logged[p] # <<>> /\ logged' = [logged EXCEPT ![p] = Tail(@)]
  BY DEF Alpc!OnEvent
<1>2. Head(logged[p]) \in AlpcEvents /\ LoggedAt(p, 1, Head(logged[p]).op, Head(logged[p]).id)
  BY <1>1, LogShrinks
<1>3. Head(logged[p]).op \in Ops /\ Head(logged[p]).id \in MessageIds /\ Head(logged[p]).op \notin Alpc!RpcEvents
  BY <1>2 DEF AlpcEvents, Ops, Alpc!RpcEvents
<1>4. Alpc!OnAlpc(p, Head(logged[p]).id, Head(logged[p]).op)
  BY <1>3 DEF Alpc!OnEvent
<1> QED
  BY <1>2, <1>3, <1>4 DEF LoggedAt

LEMMA RolesEvent ==
  ASSUME AlpcTypes, NEW roles \in Roles, RolesInv(roles), NEW p \in IpcPids, Alpc!OnEvent(p)
  PROVE  RolesInv(roles)'
<1>0. 0 \notin IpcPids
  BY IpcAssumption
<1>1. PICK id \in MessageIds, op \in Ops :
        /\ Alpc!OnAlpc(p, id, op) /\ LoggedAt(p, 1, op, id)
        /\ \A o \in Ops, x \in MessageIds : LoggedAt(p, 1, o, x) => o = op /\ x = id
  BY EventIs
<1> DEFINE m == Alpc!Message(id, p, op)
           c == roles[id][1]
           s == roles[id][2]
<1>2. /\ \A i \in Nat, o \in Ops, x \in MessageIds : LoggedAt(p, i, o, x)' <=> i # 0 /\ LoggedAt(p, i + 1, o, x)
      /\ \A q \in IpcPids \ {p}, i \in Nat, o \in Ops, x \in MessageIds : LoggedAt(q, i, o, x)' <=> LoggedAt(q, i, o, x)
  BY LogShrinks DEF Alpc!OnEvent
<1>3. /\ m \in Messages
      /\ m.sender = IF op = "Send" THEN p ELSE IF Recorded(id) THEN m_Pending[id].sender ELSE 0
      /\ m.receiver = IF op = "Receive" THEN p ELSE IF Recorded(id) THEN m_Pending[id].receiver ELSE 0
      /\ m.client = IF op = "WaitForReply" THEN p ELSE IF Recorded(id) THEN m_Pending[id].client ELSE 0
  BY MessageIs
<1>4. /\ Recorded(id)' /\ m_Pending'[id] = Left(m, op)
      /\ \A x \in MessageIds \ {id} : (Recorded(x)' <=> Recorded(x)) /\ (Recorded(x) => m_Pending'[x] = m_Pending[x])
  BY <1>1, EventLeaves
<1>5. m_Alpc' = IF op # "WaitForReply" /\ Alpc!Counts(m) THEN Alpc!Add(m_Alpc, Alpc!Link(m)) ELSE m_Alpc
  BY <1>1 DEF Alpc!OnAlpc
<1>6. exchange' = exchange /\ exchanged' = exchanged
  BY DEF Alpc!OnEvent, Alpc!worldVars
<1> HIDE DEF m
<1>7. roles[id] \in Alpc!Pairs /\ c # s /\ c \in IpcPids /\ s \in IpcPids /\ p \in {c, s} /\ roles[id] = <<c, s>>
  <2>1. roles[id] \in Alpc!Pairs /\ p \in {c, s}
    BY <1>1 DEF RolesInv, EventsAreOf, Ops
  <2> QED
    BY <2>1 DEF Alpc!Pairs
<1>8. (op = "WaitForReply" => p = c) /\ (op = "Receive" /\ p = c => AwaitedBy(id, p))
      /\ (op = "Send" => ~SentBy(id, p) /\ \A j \in Nat : LoggedAt(p, j, "Send", id) => j = 1)
  <2>1. \A j \in Nat : j < 1 => ~LoggedAt(p, j, "WaitForReply", id)
    BY DEF LoggedAt
  <2> QED
    BY <1>1, <2>1 DEF RolesInv, EventsAreOf
<1>9. Recorded(id) =>
        /\ m_Pending[id].sender \in {0, c, s} /\ m_Pending[id].receiver \in {0, c, s} /\ m_Pending[id].client \in {0, c}
        /\ m_Pending[id].receiver = c => m_Pending[id].client = c
        /\ m_Pending[id].sender = 0 \/ m_Pending[id].receiver = 0
  BY DEF RolesInv, RecordsAreOf
<1> HIDE DEF c, s
<1>10. /\ m.sender \in {0, c, s} /\ m.receiver \in {0, c, s} /\ m.client \in {0, c}
       /\ m.receiver = c => m.client = c
       /\ op = "WaitForReply" => m.sender = 0 \/ m.receiver = 0
  BY <1>0, <1>3, <1>7, <1>8, <1>9 DEF AwaitedBy, Ops
<1>11. /\ Left(m, op).client = m.client
       /\ Left(m, op).sender \in {0, m.sender} /\ Left(m, op).receiver \in {0, m.receiver}
       /\ Left(m, op).sender = 0 \/ Left(m, op).receiver = 0
       /\ op # "WaitForReply" /\ Alpc!Matched(m) => Left(m, op).sender = 0
  <2>1. CASE op # "WaitForReply" /\ Alpc!Matched(m)
    <3>1. Left(m, op) = [m EXCEPT !.sender = 0, !.receiver = 0]
      BY <2>1 DEF Left
    <3> QED
      BY <1>3, <3>1 DEF Messages
  <2>2. CASE ~(op # "WaitForReply" /\ Alpc!Matched(m))
    BY <1>10, <2>2 DEF Left, Alpc!Matched, Alpc!Nobody
  <2> QED
    BY <2>1, <2>2
<1>12. \A x \in MessageIds, q \in IpcPids :
         /\ SentBy(x, q)' => SentBy(x, q) \/ (x = id /\ q = p /\ op = "Send")
         /\ q = roles[x][1] /\ AwaitedBy(x, q) => AwaitedBy(x, q)'
  <2> SUFFICES ASSUME NEW x \in MessageIds, NEW q \in IpcPids
               PROVE  /\ SentBy(x, q)' => SentBy(x, q) \/ (x = id /\ q = p /\ op = "Send")
                      /\ q = roles[x][1] /\ AwaitedBy(x, q) => AwaitedBy(x, q)'
    OBVIOUS
  <2>1. CASE x = id
    BY <1>0, <1>3, <1>4, <1>8, <1>11, <2>1 DEF SentBy, AwaitedBy, c
  <2>2. CASE x # id
    BY <1>4, <2>2 DEF SentBy, AwaitedBy
  <2> QED
    BY <2>1, <2>2
<1>13. op = "WaitForReply" => AwaitedBy(id, p)'
  BY <1>3, <1>4, <1>11 DEF AwaitedBy
<1>14. \A x \in MessageIds, q \in IpcPids : SendUnderWay(x, q)' => SendUnderWay(x, q)
  <2> SUFFICES ASSUME NEW x \in MessageIds, NEW q \in IpcPids, SendUnderWay(x, q)' PROVE SendUnderWay(x, q)
    OBVIOUS
  <2>1. CASE SentBy(x, q)'
    BY <1>1, <1>12, <2>1 DEF SendUnderWay
  <2>2. ASSUME NEW i \in Nat, LoggedAt(q, i, "Send", x)' PROVE SendUnderWay(x, q)
    <3>1. i + 1 \in Nat
      OBVIOUS
    <3> QED
      BY <1>2, <2>2, <3>1 DEF SendUnderWay, Ops
  <2> QED
    BY <2>1, <2>2 DEF SendUnderWay
<1>15. ASSUME NEW x \in MessageIds, NEW q \in IpcPids, q = roles[x][1], NEW i \in Nat, LoggedAt(q, i, "WaitForReply", x)
       PROVE  AwaitedBy(x, q)' \/ (q # p /\ LoggedAt(q, i, "WaitForReply", x)')
                               \/ (q = p /\ i - 1 \in Nat /\ LoggedAt(q, i - 1, "WaitForReply", x)')
  <2>1. CASE q # p
    BY <1>2, <1>15, <2>1 DEF Ops
  <2>2. CASE q = p /\ i = 1
    BY <1>1, <1>13, <1>15, <2>2 DEF Ops
  <2>3. CASE q = p /\ i # 1
    <3>1. i # 0
      BY <1>15 DEF LoggedAt
    <3>2. i - 1 \in Nat /\ i - 1 # 0 /\ (i - 1) + 1 = i
      BY <2>3, <3>1
    <3> QED
      BY <1>2, <1>15, <2>3, <3>2 DEF Ops
  <2> QED
    BY <2>1, <2>2, <2>3
<1>16. \A x \in MessageIds, q \in IpcPids : q = roles[x][1] /\ WaitUnderWay(x, q) => WaitUnderWay(x, q)'
  BY <1>12, <1>15 DEF WaitUnderWay
<1>17. EventsAreOf(roles)'
  <2> SUFFICES ASSUME NEW q \in IpcPids, NEW i \in Nat, NEW x \in MessageIds
      PROVE /\ \A o \in {"Send", "WaitForReply", "Receive"} :
                  LoggedAt(q, i, o, x)' => roles[x] \in Alpc!Pairs /\ q \in {roles[x][1], roles[x][2]}
            /\ LoggedAt(q, i, "WaitForReply", x)' => q = roles[x][1]
            /\ LoggedAt(q, i, "Send", x)' => ~SentBy(x, q)' /\ \A j \in Nat : LoggedAt(q, j, "Send", x)' => i = j
            /\ LoggedAt(q, i, "Receive", x)' /\ q = roles[x][1] =>
                  AwaitedBy(x, q)' \/ \E j \in Nat : j < i /\ LoggedAt(q, j, "WaitForReply", x)'
    BY DEF EventsAreOf
  <2> DEFINE before(j) == IF q = p THEN j + 1 ELSE j
  <2>1. \A j \in Nat : /\ before(j) \in Nat
                       /\ \A o \in Ops : LoggedAt(q, j, o, x)' => LoggedAt(q, before(j), o, x) /\ (q = p => before(j) # 1)
    BY <1>2
  <2>2. \A o \in Ops : LoggedAt(q, i, o, x)' => roles[x] \in Alpc!Pairs /\ q \in {roles[x][1], roles[x][2]}
    BY <2>1 DEF RolesInv, EventsAreOf, Ops
  <2>3. LoggedAt(q, i, "WaitForReply", x)' => q = roles[x][1]
    BY <2>1 DEF RolesInv, EventsAreOf, Ops
  <2>4. ASSUME LoggedAt(q, i, "Send", x)' PROVE ~SentBy(x, q)' /\ \A j \in Nat : LoggedAt(q, j, "Send", x)' => i = j
    <3>1. LoggedAt(q, before(i), "Send", x) /\ (q = p => before(i) # 1) /\ before(i) \in Nat
      BY <2>1, <2>4 DEF Ops
    <3>2. ~SentBy(x, q) /\ \A j \in Nat : LoggedAt(q, j, "Send", x) => before(i) = j
      BY <3>1 DEF RolesInv, EventsAreOf
    <3>3. ~(x = id /\ q = p /\ op = "Send")
      BY <1>8, <3>1
    <3>4. \A j \in Nat : LoggedAt(q, j, "Send", x)' => before(i) = before(j)
      BY <2>1, <3>2 DEF Ops
    <3> QED
      BY <1>12, <3>2, <3>3, <3>4
  <2>5. ASSUME LoggedAt(q, i, "Receive", x)', q = roles[x][1]
        PROVE  AwaitedBy(x, q)' \/ \E j \in Nat : j < i /\ LoggedAt(q, j, "WaitForReply", x)'
    <3>1. LoggedAt(q, before(i), "Receive", x) /\ before(i) \in Nat
      BY <2>1, <2>5 DEF Ops
    <3>2. AwaitedBy(x, q) \/ \E j \in Nat : j < before(i) /\ LoggedAt(q, j, "WaitForReply", x)
      BY <2>5, <3>1 DEF RolesInv, EventsAreOf
    <3>3. ASSUME NEW j \in Nat, j < before(i), LoggedAt(q, j, "WaitForReply", x)
          PROVE  AwaitedBy(x, q)' \/ \E k \in Nat : k < i /\ LoggedAt(q, k, "WaitForReply", x)'
      <4>1. AwaitedBy(x, q)' \/ (q # p /\ LoggedAt(q, j, "WaitForReply", x)')
                             \/ (q = p /\ j - 1 \in Nat /\ LoggedAt(q, j - 1, "WaitForReply", x)')
        BY <1>15, <2>5, <3>3
      <4>2. (q # p => j < i) /\ (q = p => j - 1 < i)
        BY <3>3
      <4> QED
        BY <4>1, <4>2
    <3> QED
      BY <1>12, <2>5, <3>2, <3>3
  <2> QED
    BY <2>2, <2>3, <2>4, <2>5 DEF Ops
<1>18. RecordsAreOf(roles)'
  <2> SUFFICES ASSUME NEW x \in MessageIds, Recorded(x)'
      PROVE /\ roles[x] \in Alpc!Pairs
            /\ m_Pending'[x].sender \in {0, roles[x][1], roles[x][2]} /\ m_Pending'[x].receiver \in {0, roles[x][1], roles[x][2]}
            /\ m_Pending'[x].client \in {0, roles[x][1]}
            /\ m_Pending'[x].receiver = roles[x][1] => m_Pending'[x].client = roles[x][1]
            /\ m_Pending'[x].sender = 0 \/ m_Pending'[x].receiver = 0
    BY DEF RecordsAreOf
  <2>1. CASE x = id
    BY <1>0, <1>4, <1>7, <1>10, <1>11, <2>1 DEF c, s
  <2>2. CASE x # id
    <3>1. Recorded(x) /\ m_Pending'[x] = m_Pending[x]
      BY <1>4, <2>2
    <3> QED
      BY <3>1 DEF RolesInv, RecordsAreOf
  <2> QED
    BY <2>1, <2>2
<1>19. ExchangesAreOf(roles)'
  <2>1. \A x \in MessageIds : exchange[x].step # "none" => roles[x][1] \in IpcPids /\ roles[x][2] \in IpcPids
    BY ExchangeIs DEF RolesInv
  <2> QED
    BY <1>6, <1>14, <1>16, <2>1 DEF RolesInv, ExchangesAreOf
<1>20. CountsAreOf(roles)'
  <2>1. CASE ~(op # "WaitForReply" /\ Alpc!Counts(m))
    <3>1. m_Alpc' = m_Alpc
      BY <1>5, <2>1
    <3>2. \A l \in Alpc!Pairs : Alpc!Count(m_Alpc', l) \in 0 .. Alpc!Count(m_Alpc, l)
      BY <3>1 DEF AlpcTypes, Alpc!Count
    <3> QED
      BY <1>6, <1>14, <3>2, CountsStay DEF RolesInv
  <2>2. CASE op # "WaitForReply" /\ Alpc!Counts(m)
    <3>1. m.sender # 0 /\ m.receiver # 0 /\ m.sender # m.receiver /\ Alpc!Matched(m)
      BY <2>2 DEF Alpc!Counts, Alpc!Matched, Alpc!Nobody
    <3>2. Alpc!Link(m) = roles[id]
      BY <1>0, <1>7, <1>10, <3>1 DEF Alpc!Link
    <3>3. PICK q \in IpcPids : q = m.sender /\ q \in {c, s}
      BY <1>7, <1>10, <3>1
    <3>4. SendUnderWay(id, q)
      BY <1>1, <1>3, <3>1, <3>3 DEF SendUnderWay, SentBy
    <3>5. ~SentBy(id, q)'
      BY <1>0, <1>4, <1>11, <2>2, <3>1 DEF SentBy
    <3>6. \A i \in Nat : ~LoggedAt(q, i, "Send", id)'
      <4>1. CASE op = "Send"
        <5>1. q = p
          BY <1>3, <3>3, <4>1
        <5>2. ASSUME NEW i \in Nat, LoggedAt(q, i, "Send", id)' PROVE FALSE
          <6>1. i # 0 /\ LoggedAt(p, i + 1, "Send", id) /\ i + 1 \in Nat
            BY <1>2, <5>1, <5>2 DEF Ops
          <6> QED
            BY <1>8, <4>1, <6>1
        <5> QED
          BY <5>2
      <4>2. CASE op # "Send"
        <5>1. SentBy(id, q)
          BY <1>3, <3>1, <3>3, <4>2 DEF SentBy
        <5>2. \A i \in Nat : ~LoggedAt(q, i, "Send", id)
          BY <5>1 DEF RolesInv, EventsAreOf
        <5>3. \A i \in Nat : i + 1 \in Nat
          OBVIOUS
        <5> QED
          BY <1>2, <5>2, <5>3 DEF Ops
      <4> QED
        BY <4>1, <4>2
    <3>7. ~SendUnderWay(id, q)'
      BY <3>5, <3>6 DEF SendUnderWay
    <3> SUFFICES ASSUME NEW l \in Alpc!Pairs
                 PROVE  Alpc!Count(m_Alpc', l) + Cardinality(Open(roles, l)') <= exchanged[l]
      BY <1>6 DEF CountsAreOf
    <3> DEFINE S == Open(roles, l)
               T == Open(roles, l)'
    <3>8. S \in SUBSET (MessageIds \X IpcPids) /\ T \in SUBSET (MessageIds \X IpcPids)
      BY OpenIsPart
    <3>9. T \subseteq S /\ (l = roles[id] => <<id, q>> \in S /\ <<id, q>> \notin T)
      BY <1>7, <1>14, <3>3, <3>4, <3>7 DEF Open
    <3>10. Alpc!Count(m_Alpc, l) + Cardinality(S) <= exchanged[l] /\ Alpc!Count(m_Alpc, l) \in Nat /\ exchanged[l] \in Nat
      BY DEF CountsAreOf, AlpcTypes, Alpc!Count, RolesInv
    <3>11. Alpc!Count(m_Alpc', l) = IF l = roles[id] THEN Alpc!Count(m_Alpc, l) + 1 ELSE Alpc!Count(m_Alpc, l)
      BY <1>5, <2>2, <3>2 DEF Alpc!Add, Alpc!With, Alpc!Count
    <3> HIDE DEF S, T
    <3>12. /\ Cardinality(S) \in Nat /\ Cardinality(T) \in Nat /\ Cardinality(T) <= Cardinality(S)
           /\ (l = roles[id] => Cardinality(T) + 1 <= Cardinality(S))
      <4>1. <<id, q>> \in MessageIds \X IpcPids
        OBVIOUS
      <4>2. l = roles[id] => T \subseteq S \ {<<id, q>>}
        BY <3>9
      <4> QED
        BY <3>8, <3>9, <4>1, <4>2, SomeUnderWay
    <3>13. Alpc!Count(m_Alpc', l) + Cardinality(T) <= exchanged[l]
      BY <3>10, <3>11, <3>12
    <3> QED
      BY <3>13 DEF T
  <2> QED
    BY <2>1, <2>2
<1> QED
  BY <1>17, <1>18, <1>19, <1>20 DEF RolesInv

LEMMA AlpcStep == AlpcInv /\ [Alpc!Next]_Alpc!ipcVars => AlpcInv'
<1> SUFFICES ASSUME AlpcInv, [Alpc!Next]_Alpc!ipcVars PROVE AlpcInv'
  OBVIOUS
<1>1. AlpcTypes /\ AlpcTypes'
  BY AlpcTypesStep DEF AlpcInv
<1>2. PICK roles \in Roles : RolesInv(roles)
  BY DEF AlpcInv
<1> SUFFICES \E after \in Roles : RolesInv(after)'
  BY <1>1 DEF AlpcInv
<1>3. \A l \in Alpc!Pairs : Alpc!Count(m_Alpc, l) \in Nat
  BY <1>1 DEF AlpcTypes, Alpc!Count
<1>4. ASSUME NEW id \in MessageIds, NEW c \in IpcPids, NEW s \in IpcPids, Alpc!AlpcSendAndWait(id, c, s)
      PROVE  \E after \in Roles : RolesInv(after)'
  BY <1>1, <1>2, <1>4, RolesSend
<1>5. ASSUME NEW id \in MessageIds, Alpc!AlpcReceive(id) \/ Alpc!AlpcReply(id) \/ Alpc!AlpcTakeReply(id)
      PROVE  RolesInv(roles)'
  BY <1>1, <1>2, <1>5, RolesReceive, RolesReply, RolesTakeReply
<1>6. ASSUME NEW p \in IpcPids, Alpc!OnEvent(p) PROVE RolesInv(roles)'
  BY <1>1, <1>2, <1>6, RolesEvent
<1>7. ASSUME NEW p \in IpcPids, Alpc!Exit(p) PROVE RolesInv(roles)'
  <2>1. logged' = logged /\ m_Pending' = m_Pending /\ exchanged' = exchanged /\ m_Alpc' = m_Alpc
    BY <1>7 DEF Alpc!Exit, Alpc!alpcVars
  <2>2. \A id \in MessageIds : exchange'[id] \in {exchange[id], Alpc!NoExchange}
    BY <1>7 DEF Alpc!Exit
  <2>3. \A l \in Alpc!Pairs : Alpc!Count(m_Alpc', l) \in {0, Alpc!Count(m_Alpc, l)}
    BY <2>1
  <2> QED
    BY <1>1, <1>2, <2>1, <2>2, <2>3, RolesStay
<1>8. ASSUME NEW p \in IpcPids, Alpc!RemoveProcess(p) PROVE RolesInv(roles)'
  <2>1. logged' = logged /\ m_Pending' = m_Pending /\ exchanged' = exchanged /\ exchange' = exchange
    BY <1>8 DEF Alpc!RemoveProcess, Alpc!worldVars
  <2>2. \A l \in Alpc!Pairs : Alpc!Count(m_Alpc', l) \in {0, Alpc!Count(m_Alpc, l)}
    BY <1>8 DEF Alpc!RemoveProcess, Alpc!Count, Alpc!Without, Alpc!Restrict
  <2> QED
    BY <1>1, <1>2, <2>1, <2>2, RolesStay
<1>9. ASSUME Alpc!LifetimePasses PROVE RolesInv(roles)'
  <2>1. \A p \in IpcPids : logged'[p] = <<>>
    BY <1>9 DEF Alpc!LifetimePasses
  <2>2. \A id \in MessageIds : ~Recorded(id)'
    BY <1>1, <1>9 DEF Alpc!LifetimePasses, Recorded, AlpcTypes, Messages
  <2>3. \A id \in MessageIds : exchange'[id].step = "none"
    BY <1>9 DEF Alpc!LifetimePasses
  <2>4. exchanged' = exchanged /\ m_Alpc' = m_Alpc
    BY <1>9 DEF Alpc!LifetimePasses
  <2>5. \A l \in Alpc!Pairs : Alpc!Count(m_Alpc, l) <= exchanged[l]
    <3> SUFFICES ASSUME NEW l \in Alpc!Pairs PROVE Alpc!Count(m_Alpc, l) <= exchanged[l]
      OBVIOUS
    <3>1. Alpc!Count(m_Alpc, l) + Cardinality(Open(roles, l)) <= exchanged[l] /\ exchanged[l] \in Nat
      BY <1>1, <1>2 DEF RolesInv, CountsAreOf, AlpcTypes
    <3>2. Cardinality(Open(roles, l)) \in Nat
      BY IpcAssumption, FS_Product, FS_Subset, FS_CardinalityType, OpenIsPart
    <3> QED
      BY <1>3, <3>1, <3>2
  <2> QED
    BY <1>3, <2>1, <2>2, <2>3, <2>4, <2>5, RolesRest
<1>10. ASSUME Alpc!Start PROVE RolesInv(roles)'
  <2>1. logged' = logged /\ m_Pending' = m_Pending /\ exchanged' = exchanged /\ exchange' = exchange /\ m_Alpc' = m_Alpc
    BY <1>10 DEF Alpc!Start, Alpc!worldVars, Alpc!alpcVars
  <2> QED
    BY <1>1, <1>2, <2>1, RolesStay
<1>11. ASSUME Alpc!Stop PROVE RolesInv(roles)'
  <2>1. /\ m_Alpc' = <<>> /\ m_Pending' = <<>> /\ logged' = [p \in IpcPids |-> <<>>]
        /\ exchange' = [id \in MessageIds |-> Alpc!NoExchange] /\ exchanged' = [p \in Alpc!Pairs |-> 0]
    BY <1>11 DEF Alpc!Stop, Alpc!Empty
  <2>2. \A id \in MessageIds : ~Recorded(id)'
    BY <2>1 DEF Recorded
  <2>3. \A id \in MessageIds : exchange'[id].step = "none"
    BY <2>1 DEF Alpc!NoExchange
  <2>4. \A l \in Alpc!Pairs : Alpc!Count(m_Alpc', l) = 0 /\ exchanged'[l] = 0
    BY <2>1 DEF Alpc!Count
  <2> QED
    BY <2>1, <2>2, <2>3, <2>4, RolesRest
<1>12. CASE UNCHANGED Alpc!ipcVars
  <2>1. logged' = logged /\ m_Pending' = m_Pending /\ exchanged' = exchanged /\ exchange' = exchange /\ m_Alpc' = m_Alpc
    BY <1>12 DEF Alpc!ipcVars, Alpc!worldVars, Alpc!alpcVars
  <2> QED
    BY <1>1, <1>2, <2>1, RolesStay
<1>13. CASE Alpc!Next
  <2>1. CASE \E id \in MessageIds :
               \/ \E c, s \in IpcPids : Alpc!AlpcSendAndWait(id, c, s)
               \/ Alpc!AlpcReceive(id) \/ Alpc!AlpcReply(id) \/ Alpc!AlpcTakeReply(id)
    BY <2>1, <1>4, <1>5
  <2>2. CASE \E p \in IpcPids : Alpc!Exit(p) \/ Alpc!OnEvent(p) \/ Alpc!RemoveProcess(p)
    BY <2>2, <1>6, <1>7, <1>8
  <2> QED
    BY <1>9, <1>10, <1>11, <1>13, <2>1, <2>2 DEF Alpc!Next
<1> QED
  BY <1>12, <1>13

LEMMA AlpcInit == Alpc!Init => AlpcInv
<1> SUFFICES ASSUME Alpc!Init PROVE AlpcInv
  OBVIOUS
<1> USE DEF Alpc!Init, Alpc!Empty
<1>1. AlpcTypes
  BY DEF AlpcTypes
<1>2. PICK roles \in Roles : roles = [id \in MessageIds |-> <<0, 0>>]
  BY DEF Roles
<1>3. \A q \in IpcPids, i \in Nat, op \in Ops, x \in MessageIds : ~LoggedAt(q, i, op, x)
  BY DEF LoggedAt
<1>4. \A x \in MessageIds : ~Recorded(x)
  BY DEF Recorded
<1>5. \A x \in MessageIds, p \in IpcPids : ~SendUnderWay(x, p)
  BY <1>3, <1>4 DEF SendUnderWay, SentBy, Ops
<1>6. \A l : Open(roles, l) = {}
  BY <1>5 DEF Open
<1>7. CountsAreOf(roles)
  <2>1. \A l \in Alpc!Pairs : Alpc!Count(m_Alpc, l) = 0 /\ exchanged[l] = 0
    BY DEF Alpc!Count
  <2>2. \A l : Cardinality(Open(roles, l)) = 0
    BY <1>6, FS_EmptySet
  <2> QED
    BY <2>1, <2>2 DEF CountsAreOf
<1>8. EventsAreOf(roles)
  BY <1>3 DEF EventsAreOf, Ops
<1>9. RecordsAreOf(roles) /\ ExchangesAreOf(roles)
  BY <1>4 DEF RecordsAreOf, ExchangesAreOf, Alpc!NoExchange
<1> QED
  BY <1>1, <1>7, <1>8, <1>9 DEF AlpcInv, RolesInv

LEMMA AlpcConcludes == AlpcInv => Alpc!LinksAreTrue /\ Alpc!TypeOK
<1> SUFFICES ASSUME AlpcInv PROVE Alpc!LinksAreTrue /\ Alpc!TypeOK
  OBVIOUS
<1>1. PICK roles \in Roles : RolesInv(roles)
  BY DEF AlpcInv
<1>2. ASSUME NEW l \in DOMAIN m_Alpc PROVE m_Alpc[l] <= exchanged[l]
  <2>1. l \in Alpc!Pairs /\ m_Alpc[l] \in Nat /\ exchanged[l] \in Nat /\ Alpc!Count(m_Alpc, l) = m_Alpc[l]
    BY <1>2 DEF AlpcInv, AlpcTypes, Alpc!Count
  <2>2. m_Alpc[l] + Cardinality(Open(roles, l)) <= exchanged[l]
    BY <1>1, <2>1 DEF RolesInv, CountsAreOf
  <2>3. Cardinality(Open(roles, l)) \in Nat
    BY IpcAssumption, FS_Product, FS_Subset, FS_CardinalityType, OpenIsPart
  <2> QED
    BY <2>1, <2>2, <2>3
<1>3. Alpc!TypeOK
  BY DEF AlpcInv, AlpcTypes, Alpc!TypeOK, Alpc!Empty
<1> QED
  BY <1>2, <1>3 DEF Alpc!LinksAreTrue

-----------------------------------------------------------------------------
(* The calls counted (Ipc).                                                  *)

ClientCalls == [op : {"ClientCallStart"}, endpoint : RpcEndpoints, remote : BOOLEAN]
ServerCalls == [op : {"ServerCallStart"}, endpoint : RpcEndpoints]

\* only who serves an endpoint logs a server's call or is its endpoint's server
RpcInv ==
    /\ m_Alpc = <<>> /\ m_Pending = <<>>
    /\ served \in [RpcEndpoints -> SUBSET IpcPids]
    /\ logged \in [IpcPids -> Seq(ClientCalls \cup ServerCalls)]
    /\ \A p \in IpcPids : \A i \in 1 .. Len(logged[p]) :
         logged[p][i].op = "ServerCallStart" => p \in served[logged[p][i].endpoint]
    /\ DOMAIN m_Endpoints \subseteq RpcEndpoints
    /\ \A e \in DOMAIN m_Endpoints : m_Endpoints[e] \in served[e]
    /\ \A r \in DOMAIN m_Rpc : r.client \in IpcPids /\ r.endpoint \in RpcEndpoints /\ m_Rpc[r] \in Nat \ {0}
    /\ ~running => \A p \in IpcPids : logged[p] = <<>>

LEMMA RpcStep == RpcInv /\ [Rpc!Next]_Rpc!ipcVars => RpcInv'
<1> SUFFICES ASSUME RpcInv, [Rpc!Next]_Rpc!ipcVars PROVE RpcInv'
  OBVIOUS
<1> USE DEF Rpc!alpcVars, Rpc!rpcVars, Rpc!worldVars
<1>0. /\ served \in [RpcEndpoints -> SUBSET IpcPids] /\ logged \in [IpcPids -> Seq(ClientCalls \cup ServerCalls)]
  BY DEF RpcInv
<1>1. ASSUME NEW c \in IpcPids, NEW s \in IpcPids, NEW e \in RpcEndpoints, NEW remote \in BOOLEAN, Rpc!RpcCall(c, s, e, remote)
      PROVE  RpcInv'
  <2> DEFINE call == [op |-> "ClientCallStart", endpoint |-> e, remote |-> remote]
             answer == [op |-> "ServerCallStart", endpoint |-> e]
  <2>1. call \in ClientCalls /\ answer \in ServerCalls /\ call.op = "ClientCallStart"
        /\ answer.op = "ServerCallStart" /\ answer.endpoint = e
    BY DEF ClientCalls, ServerCalls
  <2>2. c # s /\ logged' = [logged EXCEPT ![c] = Append(@, call), ![s] = IF remote THEN @ ELSE Append(@, answer)]
    BY <1>1 DEF Rpc!RpcCall
  <2>3. served' = IF remote THEN served ELSE [served EXCEPT ![e] = @ \cup {s}]
    BY <1>1 DEF Rpc!RpcCall
  <2> HIDE DEF call, answer
  <2>4. served' \in [RpcEndpoints -> SUBSET IpcPids] /\ (\A x \in RpcEndpoints : served[x] \subseteq served'[x])
        /\ (~remote => s \in served'[e])
    BY <1>0, <2>3
  <2>5. logged[c] \in Seq(ClientCalls \cup ServerCalls) /\ logged[s] \in Seq(ClientCalls \cup ServerCalls)
    BY <1>0
  <2>6. logged'[c] = Append(logged[c], call) /\ logged'[s] = (IF remote THEN logged[s] ELSE Append(logged[s], answer))
        /\ \A p \in IpcPids \ {c, s} : logged'[p] = logged[p]
    BY <1>0, <2>2
  <2>7. Append(logged[c], call) \in Seq(ClientCalls \cup ServerCalls) /\ Append(logged[s], answer) \in Seq(ClientCalls \cup ServerCalls)
    BY <2>1, <2>5
  <2>8. logged' \in [IpcPids -> Seq(ClientCalls \cup ServerCalls)]
    BY <1>0, <2>2, <2>5, <2>7
  <2>9. ASSUME NEW p \in IpcPids, NEW i \in 1 .. Len(logged'[p]), logged'[p][i].op = "ServerCallStart"
        PROVE  p \in served'[logged'[p][i].endpoint]
    <3>1. ASSUME i \in 1 .. Len(logged[p]), logged'[p][i] = logged[p][i] PROVE p \in served'[logged'[p][i].endpoint]
      <4>1. logged[p][i] \in ClientCalls \cup ServerCalls
        BY <1>0, <3>1
      <4>2. logged[p][i].endpoint \in RpcEndpoints
        BY <4>1 DEF ClientCalls, ServerCalls
      <4> QED
        BY <2>4, <2>9, <3>1, <4>2 DEF RpcInv
    <3>2. CASE p = c
      <4>1. (i \in 1 .. Len(logged[c]) /\ logged'[p][i] = logged[c][i]) \/ logged'[p][i] = call
        BY <2>5, <2>6, <2>9, <3>2
      <4> QED
        BY <2>1, <2>9, <3>1, <3>2, <4>1
    <3>3. CASE p = s /\ ~remote
      <4>1. (i \in 1 .. Len(logged[s]) /\ logged'[p][i] = logged[s][i]) \/ logged'[p][i] = answer
        <5>1. logged'[p] = Append(logged[s], answer) /\ i \in 1 .. Len(Append(logged[s], answer))
          BY <2>6, <2>9, <3>3
        <5>2. (i \in 1 .. Len(logged[s]) /\ Append(logged[s], answer)[i] = logged[s][i]) \/ Append(logged[s], answer)[i] = answer
          BY <2>5, <5>1
        <5> QED
          BY <5>1, <5>2
      <4> QED
        BY <2>1, <2>4, <2>9, <3>1, <3>3, <4>1
    <3>4. CASE p # c /\ ~(p = s /\ ~remote)
      BY <2>6, <2>9, <3>1, <3>4
    <3> QED
      BY <3>2, <3>3, <3>4
  <2> QED
    BY <1>1, <2>4, <2>8, <2>9 DEF RpcInv, Rpc!RpcCall
<1>2. ASSUME NEW p \in IpcPids, Rpc!Exit(p) PROVE RpcInv'
  BY <1>2 DEF RpcInv, Rpc!Exit
<1>3. ASSUME NEW p \in IpcPids, Rpc!OnEvent(p) PROVE RpcInv'
  <2> DEFINE e == Head(logged[p])
  <2>1. logged[p] # <<>> /\ logged[p] \in Seq(ClientCalls \cup ServerCalls)
    BY <1>0, <1>3 DEF Rpc!OnEvent
  <2>2. e = logged[p][1] /\ 1 \in 1 .. Len(logged[p]) /\ e \in ClientCalls \cup ServerCalls
    BY <2>1
  <2>3. e.op \in Rpc!RpcEvents /\ e.endpoint \in RpcEndpoints /\ (e.op = "ServerCallStart" => p \in served[e.endpoint])
    BY <2>2 DEF ClientCalls, ServerCalls, Rpc!RpcEvents, RpcInv
  <2>4. Rpc!OnRpc(p, e) /\ logged' = [logged EXCEPT ![p] = Tail(@)] /\ UNCHANGED <<running, served>>
    BY <1>3, <2>3 DEF Rpc!OnEvent
  <2> HIDE DEF e
  <2>5. Tail(logged[p]) \in Seq(ClientCalls \cup ServerCalls) /\ Len(Tail(logged[p])) = Len(logged[p]) - 1
        /\ \A j \in 1 .. Len(Tail(logged[p])) : j + 1 \in 1 .. Len(logged[p]) /\ Tail(logged[p])[j] = logged[p][j + 1]
    BY <2>1
  <2>6. logged'[p] = Tail(logged[p]) /\ \A q \in IpcPids \ {p} : logged'[q] = logged[q]
    BY <1>0, <2>4
  <2>7. logged' \in [IpcPids -> Seq(ClientCalls \cup ServerCalls)]
    BY <1>0, <2>4, <2>5
  <2>8. \A q \in IpcPids : \A i \in 1 .. Len(logged'[q]) :
          logged'[q][i].op = "ServerCallStart" => q \in served'[logged'[q][i].endpoint]
    BY <2>4, <2>5, <2>6 DEF RpcInv
  <2>9. /\ DOMAIN m_Endpoints' \subseteq RpcEndpoints
        /\ \A x \in DOMAIN m_Endpoints' : m_Endpoints'[x] \in served'[x]
    BY <2>3, <2>4 DEF Rpc!OnRpc, Rpc!With, Rpc!EndpointKey, RpcInv
  <2>10. \A r \in DOMAIN m_Rpc' : r.client \in IpcPids /\ r.endpoint \in RpcEndpoints /\ m_Rpc'[r] \in Nat \ {0}
    BY <2>3, <2>4 DEF Rpc!OnRpc, Rpc!Add, Rpc!With, Rpc!Count, RpcInv
  <2>11. m_Alpc' = m_Alpc /\ m_Pending' = m_Pending /\ running
    BY <2>1, <2>4 DEF Rpc!OnRpc, RpcInv
  <2> QED
    BY <1>0, <2>4, <2>7, <2>8, <2>9, <2>10, <2>11 DEF RpcInv
<1>4. ASSUME NEW p \in IpcPids, Rpc!RemoveProcess(p) PROVE RpcInv'
  <2>1. m_Alpc' = <<>>
    BY <1>4 DEF Rpc!RemoveProcess, RpcInv, Rpc!Without, Rpc!Restrict
  <2>2. m_Pending' = m_Pending /\ running' = running /\ logged' = logged /\ served' = served
    BY <1>4 DEF Rpc!RemoveProcess
  <2>3. DOMAIN m_Endpoints' \subseteq DOMAIN m_Endpoints /\ \A x \in DOMAIN m_Endpoints' : m_Endpoints'[x] = m_Endpoints[x]
    BY <1>4 DEF Rpc!RemoveProcess, Rpc!Without, Rpc!Restrict
  <2>4. DOMAIN m_Rpc' \subseteq DOMAIN m_Rpc /\ \A x \in DOMAIN m_Rpc' : m_Rpc'[x] = m_Rpc[x]
    BY <1>4 DEF Rpc!RemoveProcess, Rpc!Without, Rpc!Restrict
  <2> QED
    BY <2>1, <2>2, <2>3, <2>4 DEF RpcInv
<1>5. ASSUME Rpc!LifetimePasses PROVE RpcInv'
  BY <1>5 DEF Rpc!LifetimePasses, RpcInv, Rpc!Empty
<1>6. ASSUME Rpc!Start PROVE RpcInv'
  BY <1>6 DEF Rpc!Start, RpcInv
<1>7. ASSUME Rpc!Stop PROVE RpcInv'
  BY <1>7 DEF Rpc!Stop, RpcInv, Rpc!Empty
<1>8. CASE UNCHANGED Rpc!ipcVars
  BY <1>8 DEF Rpc!ipcVars, RpcInv
<1> QED
  BY <1>1, <1>2, <1>3, <1>4, <1>5, <1>6, <1>7, <1>8 DEF Rpc!Next

LEMMA RpcInit == Rpc!Init => RpcInv
  BY DEF Rpc!Init, RpcInv, Rpc!Empty

LEMMA RpcConcludes == RpcInv => Rpc!ServersAreTrue /\ Rpc!TypeOK
<1> SUFFICES ASSUME RpcInv PROVE Rpc!ServersAreTrue /\ Rpc!TypeOK
  OBVIOUS
<1>1. Rpc!ServersAreTrue
  BY DEF RpcInv, Rpc!ServersAreTrue, Rpc!Server, Rpc!EndpointKey, Rpc!Nobody
<1>2. Rpc!TypeOK
  BY DEF RpcInv, Rpc!TypeOK, Rpc!Empty
<1> QED
  BY <1>1, <1>2

-----------------------------------------------------------------------------
(* The modules of a process (ProcessModules).                                *)

ModuleKeys == (DOMAIN Sizes \cup {""}) \X (1 .. Pages)
ModuleObjects == [key : ModuleKeys, call : Nat, place : Nat]
PagesOf(m) == Sizes[m[2].file]

ModuleTypes ==
    /\ byHandle \in BOOLEAN
    /\ epc \in {"idle", "query", "name"} /\ (epc # "idle" => byHandle)
    /\ address \in 1 .. Pages + 1 /\ (epc = "name" => address <= Pages)
    /\ enums \in Nat
    /\ DOMAIN info \subseteq ModuleObjects /\ \A o \in DOMAIN info : info[o] \in Nat
    /\ _modules \in Seq(ModuleObjects) /\ modules \in Seq(ModuleObjects)
    /\ \A i \in 1 .. Len(_modules) : _modules[i] \in DOMAIN info
    /\ \A i \in 1 .. Len(modules) : modules[i] \in DOMAIN info
    /\ _newModules \subseteq DOMAIN info /\ _unloadedModules \subseteq DOMAIN info
    /\ \A key \in DOMAIN _moduleMap : _moduleMap[key] \in DOMAIN info /\ _moduleMap[key].key = key
    /\ \A key \in DOMAIN map : map[key] \in DOMAIN info /\ map[key].key = key

\* no page is of two mappings
ModuleSpace ==
    /\ DOMAIN space \subseteq 1 .. Pages /\ mapped \in Nat
    /\ \A b \in DOMAIN space :
         /\ space[b] \in [file : DOMAIN Sizes, mapped : 1 .. mapped]
         /\ b + Sizes[space[b].file] - 1 <= Pages
    /\ \A a, b \in DOMAIN space, page \in 1 .. Pages : Module!Covers(a, page) /\ Module!Covers(b, page) => a = b
    /\ \A m \in steady \cup DOMAIN listedAs :
          /\ m[1] \in 1 .. Pages /\ m[2] \in [file : DOMAIN Sizes, mapped : 1 .. mapped]
          /\ m = <<m[1], m[2]>>
          /\ m[1] + PagesOf(m) - 1 <= Pages

\* the client has what is listed, and is told of the rest at the end of the walk
ModuleClient ==
    /\ client = DOMAIN _moduleMap
    /\ IF epc = "idle"
       THEN /\ Module!KeysOf(_newModules) \subseteq DOMAIN _moduleMap
            /\ Module!KeysOf(_unloadedModules) \cap DOMAIN _moduleMap = {}
       ELSE Module!KeysOf(_newModules) = DOMAIN map \ DOMAIN _moduleMap

\* the list of a walk, and what it maps
ModuleList ==
    epc # "idle" =>
      /\ \A key \in DOMAIN map : \E i \in 1 .. Len(modules) : modules[i] = map[key]
      /\ \A i \in 1 .. Len(modules) :
           /\ modules[i].key \in DOMAIN map
           /\ modules[i].key \in DOMAIN _moduleMap => modules[i] = _moduleMap[modules[i].key]

\* how far a walk has listed a mapping that stays
ListedAt(m, i) ==
    /\ modules[i].key = Module!KeyOf(m)
    /\ \A j \in 1 .. Len(modules) : modules[j].key[2] = m[1] => j = i
    /\ IF address < m[1] + PagesOf(m)
       THEN epc = "query" /\ currentBase = m[1] /\ currentModule = modules[i] /\ info[modules[i]] = address - m[1]
       ELSE info[modules[i]] = PagesOf(m)

ModuleWalk ==
    epc # "idle" =>
      /\ steady \subseteq Module!Mappings
      /\ currentBase \in 0 .. Pages
      /\ epc = "query" => currentBase < address
      /\ epc = "name" => currentBase \in 1 .. address
      /\ epc = "query" /\ currentBase # 0 => currentModule \in DOMAIN info /\ currentModule.key[2] = currentBase
      /\ \A i \in 1 .. Len(modules) : modules[i].key[2] < address
      /\ \A m \in steady :
           /\ epc = "name" => (address = m[1] <=> currentBase = m[1])
           /\ m[1] < address => \E i \in 1 .. Len(modules) : ListedAt(m, i)

\* a mapping is listed as one object, the one that is kept for it
ModuleHistory ==
    /\ epc = "idle" => \A m \in steady :
          \E i \in 1 .. Len(_modules) :
             /\ _modules[i].key = Module!KeyOf(m) /\ info[_modules[i]] = PagesOf(m)
             /\ \A j \in 1 .. Len(_modules) : _modules[j].key = Module!KeyOf(m) => j = i
    /\ \A m \in DOMAIN listedAs : \E o \in DOMAIN info : listedAs[m] = {o}
    /\ \A m \in Module!Mappings \cap DOMAIN listedAs :
          /\ Module!KeyOf(m) \in DOMAIN _moduleMap /\ listedAs[m] = {_moduleMap[Module!KeyOf(m)]}
          /\ epc # "idle" => m \in steady

\* without a handle, an object's size is its file's for good
ModuleSizes == ~byHandle => \A o \in DOMAIN info : o.key[1] \in DOMAIN Sizes /\ info[o] = Sizes[o.key[1]]

ModuleInv == ModuleTypes /\ ModuleSpace /\ ModuleClient /\ ModuleList /\ ModuleWalk /\ ModuleHistory /\ ModuleSizes

LEMMA CoverIs ==
  ASSUME ModuleSpace, NEW page \in 1 .. Pages
  PROVE  /\ Module!AllocationBase(page) \in 0 .. page
         /\ Module!AllocationBase(page) # 0 =>
              /\ Module!AllocationBase(page) \in DOMAIN space
              /\ Module!Covers(Module!AllocationBase(page), page)
         /\ \A b \in DOMAIN space : Module!Covers(b, page) => Module!AllocationBase(page) = b
<1>1. Pages \in Nat /\ page \in Nat \ {0}
  BY ModuleAssumption
<1>2. CASE \E b \in DOMAIN space : Module!Covers(b, page)
  <2> DEFINE c == CHOOSE b \in DOMAIN space : Module!Covers(b, page)
  <2>1. c \in DOMAIN space /\ Module!Covers(c, page)
    BY <1>2
  <2>2. Module!AllocationBase(page) = c
    BY <1>2 DEF Module!AllocationBase
  <2>3. c \in 1 .. page
    BY <1>1, <2>1 DEF Module!Covers, ModuleSpace
  <2>4. \A b \in DOMAIN space : Module!Covers(b, page) => c = b
    BY <2>1 DEF ModuleSpace
  <2> HIDE DEF c
  <2> QED
    BY <1>1, <2>1, <2>2, <2>3, <2>4
<1>3. CASE ~\E b \in DOMAIN space : Module!Covers(b, page)
  BY <1>1, <1>3 DEF Module!AllocationBase, Module!Free
<1> QED
  BY <1>2, <1>3

\* a mapping's first page is its own
LEMMA BaseIs ==
  ASSUME ModuleSpace, NEW b \in DOMAIN space
  PROVE  /\ b \in 1 .. Pages /\ Sizes[space[b].file] \in Nat \ {0} /\ Module!Covers(b, b)
         /\ Module!AllocationBase(b) = b /\ Module!MappedFileName(b) = space[b].file
<1>1. b \in 1 .. Pages /\ Sizes[space[b].file] \in Nat \ {0} /\ Pages \in Nat
  BY ModuleAssumption DEF ModuleSpace
<1>2. Module!Covers(b, b)
  BY <1>1 DEF Module!Covers
<1>3. Module!AllocationBase(b) = b
  BY <1>1, <1>2, CoverIs
<1>4. Module!AllocationBase(b) # Module!Free
  BY <1>1, <1>3 DEF Module!Free
<1>5. Module!MappedFileName(b) = space[b].file
  BY <1>3, <1>4, Zenon DEF Module!MappedFileName
<1> QED
  BY <1>1, <1>2, <1>3, <1>5

LEMMA FileNameIs ==
  ASSUME ModuleSpace, NEW page \in 1 .. Pages
  PROVE  Module!MappedFileName(page) \in DOMAIN Sizes \cup {""}
  BY CoverIs DEF Module!MappedFileName, Module!Free, ModuleSpace

LEMMA KeyIs == \A file \in DOMAIN Sizes \cup {""}, base \in 1 .. Pages : <<file, base>> \in ModuleKeys
  BY DEF ModuleKeys

LEMMA BaseOfKey == ASSUME NEW o \in ModuleObjects PROVE o.key \in ModuleKeys /\ o.key[2] \in 1 .. Pages /\ o.key[2] \in Int
<1>1. o.key \in ModuleKeys
  BY DEF ModuleObjects
<1>2. o.key[2] \in 1 .. Pages
  BY <1>1 DEF ModuleKeys
<1> QED
  BY <1>1, <1>2

LEMMA MappingIs ==
  ASSUME ModuleSpace, NEW m \in Module!Mappings
  PROVE  /\ m[1] \in DOMAIN space /\ m[2] = space[m[1]] /\ m = <<m[1], space[m[1]]>>
         /\ m[1] \in 1 .. Pages /\ m[2].file \in DOMAIN Sizes /\ PagesOf(m) = Sizes[space[m[1]].file]
         /\ Module!KeyOf(m) = <<m[2].file, m[1]>>
         /\ Module!KeyOf(m) \in ModuleKeys
<1>1. PICK b \in DOMAIN space : m = <<b, space[b]>>
  BY DEF Module!Mappings
<1>2. m[1] = b /\ m[2] = space[b]
  BY <1>1
<1>3. b \in 1 .. Pages /\ space[b].file \in DOMAIN Sizes
  BY DEF ModuleSpace
<1>4. Module!KeyOf(m) = <<space[b].file, b>>
  BY <1>2 DEF Module!KeyOf
<1>5. PagesOf(m) = Sizes[space[b].file]
  BY <1>2 DEF PagesOf
<1>6. Module!KeyOf(m) \in ModuleKeys
  BY <1>3, <1>4, KeyIs
<1>7. Module!KeyOf(m) = <<m[2].file, m[1]>>
  BY <1>2, <1>4
<1> HIDE DEF PagesOf
<1> QED
  BY <1>1, <1>2, <1>3, <1>5, <1>6, <1>7

LEMMA KeysDiffer ==
  ASSUME ModuleSpace
  PROVE  \A l, m \in Module!Mappings : l[1] = m[1] \/ Module!KeyOf(l) = Module!KeyOf(m) => l = m
<1> SUFFICES ASSUME NEW l \in Module!Mappings, NEW m \in Module!Mappings,
                    l[1] = m[1] \/ Module!KeyOf(l) = Module!KeyOf(m)
             PROVE  l = m
  OBVIOUS
<1>1. Module!KeyOf(l) = <<l[2].file, l[1]>> /\ Module!KeyOf(m) = <<m[2].file, m[1]>>
  BY DEF Module!KeyOf
<1>2. l[1] = m[1]
  BY <1>1
<1>3. l = <<l[1], space[l[1]]>> /\ m = <<m[1], space[m[1]]>>
  BY MappingIs
<1> QED
  BY <1>2, <1>3

\* EnumModulesWithToolHelp: each mapping's module once, the object it had if it had one
LEMMA SnapshotLists ==
  ASSUME ModuleTypes, ModuleSpace, NEW listing \in Module!SetToSeqs(Module!Mappings)
  PROVE  LET list == Module!Listed(listing) IN
         /\ list \in Seq(ModuleObjects)
         /\ \A i \in 1 .. Len(list) :
              /\ \E m \in Module!Mappings : list[i].key = Module!KeyOf(m)
              /\ list[i].key \in DOMAIN _moduleMap => list[i] = _moduleMap[list[i].key]
         /\ \A m \in Module!Mappings : \E i \in 1 .. Len(list) :
              /\ list[i].key = Module!KeyOf(m)
              /\ \A j \in 1 .. Len(list) : list[j].key = Module!KeyOf(m) => j = i
<1> DEFINE n == Cardinality(Module!Mappings)
           list == Module!Listed(listing)
<1>1. IsFiniteSet(Module!Mappings) /\ n \in Nat
  <2>1. IsFiniteSet(1 .. Pages)
    BY ModuleAssumption, FS_Interval
  <2>2. IsFiniteSet(DOMAIN space)
    BY <2>1, FS_Subset DEF ModuleSpace
  <2>3. IsFiniteSet(Module!Mappings)
    <3> DEFINE f == [b \in DOMAIN space |-> <<b, space[b]>>]
    <3>1. f \in Surjection(DOMAIN space, Module!Mappings)
      BY DEF Surjection, Module!Mappings
    <3> HIDE DEF f
    <3> QED
      BY <2>2, <3>1, FS_Surjection
  <2> QED
    BY <2>3, FS_CardinalityType
<1>2. listing \in [1 .. n -> Module!Mappings] /\ \A i, j \in 1 .. n : i # j => listing[i] # listing[j]
  <2>1. Module!SetToSeqs(Module!Mappings) = {f \in [1 .. n -> Module!Mappings] : \A i, j \in 1 .. n : i # j => f[i] # f[j]}
    <3>1. Module!Cardinality(Module!Mappings) = n
      BY DEF Module!Cardinality, Cardinality
    <3> QED
      BY <3>1, Zenon DEF Module!SetToSeqs
  <2> QED
    BY <2>1
<1>3. \A m \in Module!Mappings : \E i \in 1 .. n : listing[i] = m
  <2>1. listing \in Injection(1 .. n, Module!Mappings)
    BY <1>2 DEF Injection, IsInjective
  <2>2. IsFiniteSet(1 .. n) /\ Cardinality(1 .. n) = n
    BY <1>1, FS_Interval
  <2> HIDE DEF n
  <2>3. listing \in Surjection(1 .. n, Module!Mappings)
    BY <1>1, <2>1, <2>2, FS_Injection DEF n
  <2> QED
    BY <2>3 DEF Surjection
<1> HIDE DEF n
<1>4. \A l, m \in Module!Mappings : Module!KeyOf(l) = Module!KeyOf(m) => l = m
  BY KeysDiffer
<1>5. \A m \in Module!Mappings : Module!KeyOf(m) \in ModuleKeys
  BY MappingIs
<1>6. DOMAIN list = 1 .. n /\ \A i \in 1 .. n : list[i] = Module!ObjectOf(Module!KeyOf(listing[i]), enums + 1, i)
  BY <1>2 DEF Module!Listed
<1>7. ASSUME NEW i \in 1 .. n
      PROVE  /\ list[i].key = Module!KeyOf(listing[i]) /\ list[i] \in ModuleObjects
             /\ list[i].key \in DOMAIN _moduleMap => list[i] = _moduleMap[list[i].key]
  <2>1. Module!KeyOf(listing[i]) \in ModuleKeys /\ enums + 1 \in Nat /\ i \in Nat
    <3>1. listing[i] \in Module!Mappings
      BY <1>2
    <3>2. enums \in Nat
      BY DEF ModuleTypes
    <3> QED
      BY <1>1, <1>5, <3>1, <3>2
  <2>2. CASE Module!KeyOf(listing[i]) \in DOMAIN _moduleMap
    <3>1. list[i] = _moduleMap[Module!KeyOf(listing[i])]
      BY <1>6, <2>2 DEF Module!ObjectOf
    <3>2. _moduleMap[Module!KeyOf(listing[i])] \in ModuleObjects
          /\ _moduleMap[Module!KeyOf(listing[i])].key = Module!KeyOf(listing[i])
      BY <2>2 DEF ModuleTypes
    <3> HIDE DEF list
    <3> QED
      BY <3>1, <3>2
  <2>3. CASE Module!KeyOf(listing[i]) \notin DOMAIN _moduleMap
    <3>1. list[i] = [key |-> Module!KeyOf(listing[i]), call |-> enums + 1, place |-> i]
      BY <1>6, <2>3 DEF Module!ObjectOf
    <3>2. list[i].key = Module!KeyOf(listing[i])
      BY <3>1
    <3>3. list[i] \in ModuleObjects
      <4>1. \A key \in ModuleKeys, call \in Nat, at \in Nat :
                [key |-> key, call |-> call, place |-> at] \in ModuleObjects
        BY DEF ModuleObjects
      <4> QED
        BY <2>1, <3>1, <4>1
    <3> HIDE DEF list
    <3> QED
      BY <2>3, <3>2, <3>3
  <2> QED
    BY <2>2, <2>3
<1>8. list \in Seq(ModuleObjects) /\ Len(list) = n
  <2>1. list = [i \in 1 .. n |-> list[i]]
    BY <1>2 DEF Module!Listed
  <2> HIDE DEF list
  <2>2. list \in [1 .. n -> ModuleObjects]
    BY <1>7, <2>1
  <2> QED
    BY <1>1, <2>2
<1> HIDE DEF list
<1>9. \A m \in Module!Mappings : \E i \in 1 .. n :
          list[i].key = Module!KeyOf(m) /\ \A j \in 1 .. n : list[j].key = Module!KeyOf(m) => j = i
  BY <1>2, <1>3, <1>4, <1>7
<1>10. \A i \in 1 .. n : \E m \in Module!Mappings : list[i].key = Module!KeyOf(m)
  BY <1>2, <1>7
<1> QED
  BY <1>7, <1>8, <1>9, <1>10 DEF list

LEMMA MapIs ==
  ASSUME NEW list, Len(list) \in Nat, DOMAIN list = 1 .. Len(list)
  PROVE  /\ Module!ToSet(list) = {list[i] : i \in 1 .. Len(list)}
         /\ DOMAIN Module!MapOf(list) = {list[i].key : i \in 1 .. Len(list)}
         /\ \A key \in DOMAIN Module!MapOf(list) :
              \E i \in 1 .. Len(list) : Module!MapOf(list)[key] = list[i] /\ list[i].key = key
<1>1. Module!ToSet(list) = {list[i] : i \in 1 .. Len(list)}
  BY DEF Module!ToSet
<1>2. Module!KeysOf(Module!ToSet(list)) = {list[i].key : i \in 1 .. Len(list)}
  BY <1>1 DEF Module!KeysOf
<1>3. DOMAIN Module!MapOf(list) = {list[i].key : i \in 1 .. Len(list)}
  BY <1>2 DEF Module!MapOf
<1>4. ASSUME NEW key \in DOMAIN Module!MapOf(list)
      PROVE  \E i \in 1 .. Len(list) : Module!MapOf(list)[key] = list[i] /\ list[i].key = key
  <2>1. \E o \in Module!ToSet(list) : o.key = key
    BY <1>1, <1>3
  <2>2. Module!MapOf(list)[key] = CHOOSE o \in Module!ToSet(list) : o.key = key
    BY <1>2, <1>3 DEF Module!MapOf
  <2>3. Module!MapOf(list)[key] \in Module!ToSet(list) /\ Module!MapOf(list)[key].key = key
    BY <2>1, <2>2
  <2> QED
    BY <1>1, <2>3
<1> QED
  BY <1>1, <1>3, <1>4

\* GetMappedFileName: the object listed next
NamedKey == <<Module!MappedFileName(currentBase), currentBase>>
NamedObject == Module!ObjectOf(NamedKey, enums, Len(modules) + 1)

LEMMA NameIs ==
  ASSUME ModuleTypes, ModuleSpace, currentBase \in 1 .. Pages
  PROVE  /\ NamedObject \in ModuleObjects /\ NamedObject.key = NamedKey /\ NamedKey[2] = currentBase
         /\ NamedKey \in DOMAIN _moduleMap => NamedObject = _moduleMap[NamedKey]
<1>1. NamedKey \in ModuleKeys /\ NamedKey[2] = currentBase
  BY FileNameIs, KeyIs DEF NamedKey
<1>2. enums \in Nat /\ Len(modules) + 1 \in Nat
  BY DEF ModuleTypes
<1>3. CASE NamedKey \in DOMAIN _moduleMap
  <2>1. NamedObject = _moduleMap[NamedKey]
    BY <1>3 DEF NamedObject, Module!ObjectOf
  <2> QED
    BY <1>1, <1>3, <2>1 DEF ModuleTypes
<1>4. CASE NamedKey \notin DOMAIN _moduleMap
  <2>1. NamedObject = [key |-> NamedKey, call |-> enums, place |-> Len(modules) + 1]
    BY <1>4 DEF NamedObject, Module!ObjectOf
  <2>2. NamedObject.key = NamedKey
    BY <2>1
  <2>3. \A key \in ModuleKeys, call \in Nat, at \in Nat : [key |-> key, call |-> call, place |-> at] \in ModuleObjects
    BY DEF ModuleObjects
  <2>4. NamedObject \in ModuleObjects
    BY <1>1, <1>2, <2>1, <2>3
  <2> QED
    BY <1>1, <1>4, <2>2, <2>4
<1> QED
  BY <1>3, <1>4

LEMMA NameRegionIs ==
  ASSUME ModuleTypes, ModuleSpace, ModuleWalk, Module!NameRegion
  PROVE  /\ epc = "name" /\ epc' = "query" /\ currentBase \in 1 .. address /\ currentBase \in 1 .. Pages
         /\ address' = address + 1 /\ currentModule' = NamedObject
         /\ DOMAIN info' = DOMAIN info \cup {NamedObject}
         /\ info'[NamedObject] = 1 /\ \A o \in DOMAIN info : o # NamedObject => info'[o] = info[o]
         /\ _newModules' = IF NamedKey \in DOMAIN _moduleMap THEN _newModules ELSE _newModules \cup {NamedObject}
         /\ DOMAIN map' = DOMAIN map \cup {NamedKey}
         /\ \A key \in DOMAIN map : map'[key] = map[key]
         /\ NamedKey \notin DOMAIN map => map'[NamedKey] = NamedObject
         /\ modules' = Append(modules, NamedObject)
         /\ UNCHANGED <<byHandle, _modules, _unloadedModules, _moduleMap, currentBase, enums, space, mapped, steady,
                        listedAs, client>>
<1>1. epc = "name" /\ currentBase \in 1 .. address /\ address \in 1 .. Pages
  BY ModuleAssumption DEF Module!NameRegion, ModuleWalk, ModuleTypes
<1>2. currentBase \in 1 .. Pages
  BY <1>1, ModuleAssumption
<1>3. /\ info' = [x \in DOMAIN info \cup {NamedObject} |-> IF x = NamedObject THEN Module!Restarted(NamedObject) + 1 ELSE info[x]]
      /\ _newModules' = IF NamedKey \in DOMAIN _moduleMap THEN _newModules ELSE _newModules \cup {NamedObject}
      /\ map' = IF NamedKey \in DOMAIN map THEN map
                ELSE [k \in DOMAIN map \cup {NamedKey} |-> IF k = NamedKey THEN NamedObject ELSE map[k]]
      /\ modules' = Append(modules, NamedObject) /\ currentModule' = NamedObject
  BY DEF Module!NameRegion, NamedObject, NamedKey
<1>4. Module!Restarted(NamedObject) + 1 = 1
  BY DEF Module!Restarted
<1>5. UNCHANGED <<byHandle, _modules, _unloadedModules, _moduleMap, currentBase, enums, space, mapped, steady,
                  listedAs, client>> /\ epc' = "query" /\ address' = address + 1
  BY DEF Module!NameRegion, Module!historyVars
<1> QED
  BY <1>1, <1>2, <1>3, <1>4, <1>5

\* what a step of Update leaves
LEMMA UpdateIs ==
  ASSUME NEW list, NEW next, Module!Update(list, next)
  PROVE  /\ _unloadedModules' = {_moduleMap[key] : key \in DOMAIN _moduleMap \ DOMAIN next}
         /\ _modules' = list /\ _moduleMap' = next
         /\ DOMAIN listedAs' = DOMAIN listedAs \cup steady'
         /\ client' = (client \cup Module!KeysOf(_newModules')) \ Module!KeysOf(_unloadedModules')
  BY DEF Module!Update, Module!Gone, Module!Applied

LEMMA GoneKeys ==
  ASSUME ModuleTypes, NEW next
  PROVE  Module!KeysOf({_moduleMap[key] : key \in DOMAIN _moduleMap \ DOMAIN next}) = DOMAIN _moduleMap \ DOMAIN next
  BY DEF Module!KeysOf, ModuleTypes

\* a walk begins, and the snapshot as a whole
LEMMA ToolHelpIs ==
  ASSUME ModuleTypes, ModuleSpace, Module!EnumModulesWithToolHelp
  PROVE  \E list \in Seq(ModuleObjects) :
           LET fresh == {o \in {list[i] : i \in 1 .. Len(list)} : o.key \notin DOMAIN _moduleMap} IN
           /\ ~byHandle /\ epc' = epc /\ enums' = enums + 1
           /\ UNCHANGED <<byHandle, address, currentModule, currentBase, modules, map, space, mapped>>
           /\ \A i \in 1 .. Len(list) :
                /\ \E m \in Module!Mappings : list[i].key = Module!KeyOf(m)
                /\ list[i].key \in DOMAIN _moduleMap => list[i] = _moduleMap[list[i].key]
           /\ \A m \in Module!Mappings : \E i \in 1 .. Len(list) :
                /\ list[i].key = Module!KeyOf(m)
                /\ \A j \in 1 .. Len(list) : list[j].key = Module!KeyOf(m) => j = i
           /\ DOMAIN info' = DOMAIN info \cup fresh
           /\ \A o \in DOMAIN info' : info'[o] = IF o \in fresh THEN Sizes[o.key[1]] ELSE info[o]
           /\ _newModules' = fresh /\ steady' = Module!Mappings
           /\ Module!Update(list, Module!MapOf(list))
<1>1. PICK listing \in Module!SetToSeqs(Module!Mappings) :
         LET list == Module!Listed(listing)
             new == {o \in Module!ToSet(list) : o.key \notin DOMAIN _moduleMap}
         IN /\ info' = [o \in DOMAIN info \cup new |-> IF o \in new THEN Sizes[o.key[1]] ELSE info[o]]
            /\ _newModules' = new
            /\ steady' = Module!Mappings
            /\ Module!Update(list, Module!MapOf(list))
  BY DEF Module!EnumModulesWithToolHelp
<1> DEFINE list == Module!Listed(listing)
           new == {o \in {list[i] : i \in 1 .. Len(list)} : o.key \notin DOMAIN _moduleMap}
<1>2. /\ list \in Seq(ModuleObjects)
      /\ \A i \in 1 .. Len(list) :
           /\ \E m \in Module!Mappings : list[i].key = Module!KeyOf(m)
           /\ list[i].key \in DOMAIN _moduleMap => list[i] = _moduleMap[list[i].key]
      /\ \A m \in Module!Mappings : \E i \in 1 .. Len(list) :
           /\ list[i].key = Module!KeyOf(m)
           /\ \A j \in 1 .. Len(list) : list[j].key = Module!KeyOf(m) => j = i
  BY SnapshotLists
<1>3. Module!ToSet(list) = {list[i] : i \in 1 .. Len(list)}
  <2> HIDE DEF list
  <2>1. Len(list) \in Nat /\ DOMAIN list = 1 .. Len(list)
    BY <1>2
  <2> QED
    BY <2>1, MapIs
<1>4. /\ info' = [o \in DOMAIN info \cup new |-> IF o \in new THEN Sizes[o.key[1]] ELSE info[o]]
      /\ _newModules' = new
      /\ steady' = Module!Mappings
      /\ Module!Update(list, Module!MapOf(list))
  BY <1>1, <1>3
<1>5. /\ ~byHandle /\ epc' = epc /\ enums' = enums + 1
      /\ UNCHANGED <<byHandle, address, currentModule, currentBase, modules, map, space, mapped>>
  BY DEF Module!EnumModulesWithToolHelp, Module!walkVars
<1> HIDE DEF list
<1> QED
  BY <1>2, <1>4, <1>5

LEMMA ModuleTypesStep == ModuleTypes /\ ModuleSpace /\ ModuleWalk /\ [Module!Next]_Module!moduleVars => ModuleTypes'
<1> SUFFICES ASSUME ModuleTypes, ModuleSpace, ModuleWalk, [Module!Next]_Module!moduleVars PROVE ModuleTypes'
  OBVIOUS
<1> USE ModuleAssumption
<1>1. CASE Module!BeginWalk
  <2>1. /\ byHandle' = byHandle /\ byHandle /\ epc' = "query" /\ address' = 1 /\ enums' = enums + 1 /\ info' = info
        /\ _modules' = _modules /\ modules' = <<>> /\ _newModules' = {} /\ _unloadedModules' = _unloadedModules
        /\ _moduleMap' = _moduleMap /\ map' = <<>>
    BY <1>1 DEF Module!BeginWalk
  <2>2. Len(modules') = 0 /\ modules' \in Seq(ModuleObjects) /\ DOMAIN map' = {}
    BY <2>1
  <2> QED
    BY <2>1, <2>2 DEF ModuleTypes
<1>2. CASE Module!QueryRegion
  <2>1. /\ byHandle' = byHandle /\ epc = "query" /\ epc' \in {"query", "name"} /\ (epc' = "name" => address' = address)
        /\ address \in 1 .. Pages /\ address' \in {address, address + 1}
        /\ UNCHANGED <<enums, _modules, modules, _newModules, _unloadedModules, _moduleMap, map>>
        /\ info' = info \/ (currentBase # 0 /\ info' = [info EXCEPT ![currentModule] = @ + 1])
    BY <1>2 DEF Module!QueryRegion, ModuleTypes, Module!Free
  <2>2. DOMAIN info' = DOMAIN info /\ \A o \in DOMAIN info' : info'[o] \in Nat
    BY <2>1 DEF ModuleTypes
  <2>3. address' \in 1 .. Pages + 1 /\ (epc' = "name" => address' <= Pages)
    BY <2>1
  <2> QED
    BY <2>1, <2>2, <2>3 DEF ModuleTypes
<1>3. CASE Module!NameRegion
  <2>1. NamedObject \in ModuleObjects /\ NamedObject.key = NamedKey
    BY <1>3, NameRegionIs, NameIs
  <2>2. DOMAIN info' = DOMAIN info \cup {NamedObject} /\ \A o \in DOMAIN info' : info'[o] \in Nat
    <3>1. /\ DOMAIN info' = DOMAIN info \cup {NamedObject}
          /\ info'[NamedObject] = 1 /\ \A o \in DOMAIN info : o # NamedObject => info'[o] = info[o]
      BY <1>3, NameRegionIs, SMTT(30)
    <3>2. \A o \in DOMAIN info : info[o] \in Nat
      BY DEF ModuleTypes
    <3> HIDE DEF NamedObject
    <3> QED
      BY <3>1, <3>2
  <2>3. modules \in Seq(ModuleObjects) /\ Len(modules) \in Nat
    BY DEF ModuleTypes
  <2>9. modules' \in Seq(ModuleObjects)
    BY <1>3, <2>1, <2>3, NameRegionIs
  <2>4. /\ Len(modules') = Len(modules) + 1 /\ modules'[Len(modules) + 1] = NamedObject
        /\ \A i \in 1 .. Len(modules) : modules'[i] = modules[i]
    BY <1>3, <2>1, <2>3, NameRegionIs
  <2>5. \A i \in 1 .. Len(modules') : modules'[i] \in DOMAIN info'
    <3> SUFFICES ASSUME NEW i \in 1 .. Len(modules') PROVE modules'[i] \in DOMAIN info'
      OBVIOUS
    <3>1. i \in 1 .. Len(modules) \/ i = Len(modules) + 1
      BY <2>3, <2>4
    <3>2. CASE i \in 1 .. Len(modules)
      <4>1. modules'[i] = modules[i] /\ modules[i] \in DOMAIN info
        BY <2>4, <3>2 DEF ModuleTypes
      <4> QED
        BY <2>2, <4>1
    <3>3. modules'[Len(modules) + 1] \in DOMAIN info'
      BY <2>2, <2>4
    <3> QED
      BY <2>3, <3>1, <3>2, <3>3
  <2>6. \A key \in DOMAIN map' : map'[key] \in DOMAIN info' /\ map'[key].key = key
    BY <1>3, <2>1, <2>2, NameRegionIs DEF ModuleTypes
  <2>7. _newModules' \subseteq DOMAIN info'
    BY <1>3, <2>2, NameRegionIs DEF ModuleTypes
  <2>8. UNCHANGED <<byHandle, _modules, _unloadedModules, _moduleMap, enums>> /\ epc = "name" /\ epc' = "query"
        /\ address' = address + 1 /\ address' \in 1 .. Pages + 1
    BY <1>3, NameRegionIs DEF ModuleTypes
  <2> QED
    BY <2>1, <2>2, <2>4, <2>5, <2>6, <2>7, <2>8, <2>9 DEF ModuleTypes
<1>4. CASE Module!EndWalk
  <2>1. /\ UNCHANGED <<byHandle, _newModules, info, enums>> /\ epc' = "idle" /\ modules' = <<>> /\ map' = <<>>
        /\ address' = 1 /\ Module!Update(modules, map)
    BY <1>4 DEF Module!EndWalk
  <2>2. /\ _unloadedModules' = {_moduleMap[key] : key \in DOMAIN _moduleMap \ DOMAIN map}
        /\ _modules' = modules /\ _moduleMap' = map
    BY <2>1, UpdateIs
  <2>3. Len(modules') = 0 /\ modules' \in Seq(ModuleObjects) /\ DOMAIN map' = {}
    BY <2>1
  <2>4. _unloadedModules' \subseteq DOMAIN info'
    BY <2>1, <2>2 DEF ModuleTypes
  <2> QED
    BY <2>1, <2>2, <2>3, <2>4 DEF ModuleTypes
<1>5. CASE Module!EnumModulesWithToolHelp
  <2>1. PICK list \in Seq(ModuleObjects) :
           LET fresh == {o \in {list[i] : i \in 1 .. Len(list)} : o.key \notin DOMAIN _moduleMap} IN
           /\ ~byHandle /\ epc' = epc /\ enums' = enums + 1
           /\ UNCHANGED <<byHandle, address, modules, map>>
           /\ \A i \in 1 .. Len(list) :
                /\ \E m \in Module!Mappings : list[i].key = Module!KeyOf(m)
                /\ list[i].key \in DOMAIN _moduleMap => list[i] = _moduleMap[list[i].key]
           /\ DOMAIN info' = DOMAIN info \cup fresh
           /\ \A o \in DOMAIN info' : info'[o] = IF o \in fresh THEN Sizes[o.key[1]] ELSE info[o]
           /\ _newModules' = fresh
           /\ Module!Update(list, Module!MapOf(list))
    BY <1>5, ToolHelpIs
  <2> DEFINE fresh == {o \in {list[i] : i \in 1 .. Len(list)} : o.key \notin DOMAIN _moduleMap}
             next == Module!MapOf(list)
  <2>2. /\ _unloadedModules' = {_moduleMap[key] : key \in DOMAIN _moduleMap \ DOMAIN next}
        /\ _modules' = list /\ _moduleMap' = next
    BY <2>1, UpdateIs
  <2>3. Len(list) \in Nat /\ DOMAIN list = 1 .. Len(list) /\ \A i \in 1 .. Len(list) : list[i] \in ModuleObjects
    OBVIOUS
  <2>4. \A key \in DOMAIN next : \E i \in 1 .. Len(list) : next[key] = list[i] /\ list[i].key = key
    BY <2>3, MapIs
  <2> HIDE DEF next
  <2>5. \A i \in 1 .. Len(list) : list[i] \in DOMAIN info'
    BY <2>1 DEF ModuleTypes
  <2>6. \A o \in fresh : o \in ModuleObjects /\ Sizes[o.key[1]] \in Nat
    <3> SUFFICES ASSUME NEW i \in 1 .. Len(list) PROVE list[i] \in ModuleObjects /\ Sizes[list[i].key[1]] \in Nat
      OBVIOUS
    <3>1. PICK m \in Module!Mappings : list[i].key = Module!KeyOf(m)
      BY <2>1
    <3>2. m[2].file \in DOMAIN Sizes /\ Module!KeyOf(m) = <<m[2].file, m[1]>>
      BY MappingIs
    <3>3. list[i].key[1] = m[2].file
      BY <3>1, <3>2
    <3> QED
      BY <2>3, <3>2, <3>3
  <2>7. DOMAIN info' \subseteq ModuleObjects /\ \A o \in DOMAIN info' : info'[o] \in Nat
    <3> HIDE DEF fresh
    <3> QED
      BY <2>1, <2>6 DEF ModuleTypes, fresh
  <2>8. \A key \in DOMAIN _moduleMap' : _moduleMap'[key] \in DOMAIN info' /\ _moduleMap'[key].key = key
    BY <2>2, <2>4, <2>5
  <2>9. _newModules' \subseteq DOMAIN info' /\ _unloadedModules' \subseteq DOMAIN info' /\ DOMAIN info \subseteq DOMAIN info'
    BY <2>1, <2>2 DEF ModuleTypes
  <2>10. \A key \in DOMAIN map' : map'[key] \in DOMAIN info' /\ map'[key].key = key
    BY <2>1, <2>9 DEF ModuleTypes
  <2>11. \A i \in 1 .. Len(modules') : modules'[i] \in DOMAIN info'
    BY <2>1, <2>9 DEF ModuleTypes
  <2>12. modules' \in Seq(ModuleObjects) /\ enums' \in Nat /\ byHandle' \in BOOLEAN /\ address' \in 1 .. Pages + 1
         /\ epc' \in {"idle", "query", "name"} /\ (epc' # "idle" => byHandle') /\ (epc' = "name" => address' <= Pages)
    BY <2>1 DEF ModuleTypes
  <2> QED
    BY <2>2, <2>5, <2>7, <2>8, <2>9, <2>10, <2>11, <2>12 DEF ModuleTypes
<1>6. CASE Module!ToolHelpFails
  BY <1>6 DEF Module!ToolHelpFails, Module!listVars, Module!walkVars, ModuleTypes
<1>7. CASE UNCHANGED <<byHandle, Module!listVars, Module!walkVars, enums>>
  BY <1>7 DEF Module!listVars, Module!walkVars, ModuleTypes
<1>8. \A file \in DOMAIN Sizes, base \in 1 .. Pages : Module!Map(file, base) => UNCHANGED <<byHandle, Module!listVars, Module!walkVars, enums>>
  BY DEF Module!Map
<1>9. \A base \in DOMAIN space : Module!Unmap(base) => UNCHANGED <<byHandle, Module!listVars, Module!walkVars, enums>>
  BY DEF Module!Unmap
<1> QED
  BY <1>1, <1>2, <1>3, <1>4, <1>5, <1>6, <1>7, <1>8, <1>9 DEF Module!Next, Module!moduleVars

LEMMA ModuleSizesStep ==
  ModuleTypes /\ ModuleSpace /\ ModuleSizes /\ [Module!Next]_Module!moduleVars => ModuleSizes'
<1> SUFFICES ASSUME ModuleTypes, ModuleSpace, ModuleSizes, [Module!Next]_Module!moduleVars, ~byHandle' PROVE ModuleSizes'
  BY DEF ModuleSizes
<1>1. CASE Module!EnumModulesWithToolHelp
  <2>1. PICK list \in Seq(ModuleObjects) :
           LET fresh == {o \in {list[i] : i \in 1 .. Len(list)} : o.key \notin DOMAIN _moduleMap} IN
           /\ ~byHandle
           /\ \A i \in 1 .. Len(list) : \E m \in Module!Mappings : list[i].key = Module!KeyOf(m)
           /\ DOMAIN info' = DOMAIN info \cup fresh
           /\ \A o \in DOMAIN info' : info'[o] = IF o \in fresh THEN Sizes[o.key[1]] ELSE info[o]
    BY <1>1, ToolHelpIs
  <2>2. ASSUME NEW i \in 1 .. Len(list) PROVE list[i].key[1] \in DOMAIN Sizes
    <3>1. PICK m \in Module!Mappings : list[i].key = Module!KeyOf(m)
      BY <2>1
    <3>2. m[2].file \in DOMAIN Sizes /\ Module!KeyOf(m) = <<m[2].file, m[1]>>
      BY MappingIs
    <3> QED
      BY <3>1, <3>2
  <2> QED
    BY <2>1, <2>2 DEF ModuleSizes
<1>2. byHandle' = byHandle
  BY DEF Module!Next, Module!moduleVars, Module!BeginWalk, Module!QueryRegion, Module!NameRegion, Module!EndWalk,
         Module!EnumModulesWithToolHelp, Module!ToolHelpFails, Module!Map, Module!Unmap
<1>3. epc = "idle"
  BY <1>2 DEF ModuleTypes
<1>4. CASE info' = info
  BY <1>2, <1>4 DEF ModuleSizes
<1>5. Module!EnumModulesWithToolHelp \/ info' = info
  BY <1>2, <1>3 DEF Module!Next, Module!moduleVars, Module!BeginWalk, Module!QueryRegion, Module!NameRegion, Module!EndWalk,
         Module!ToolHelpFails, Module!Map, Module!Unmap, Module!listVars
<1> QED
  BY <1>1, <1>4, <1>5

LEMMA ModuleClientStep ==
  ModuleTypes /\ ModuleSpace /\ ModuleWalk /\ ModuleClient /\ [Module!Next]_Module!moduleVars => ModuleClient'
<1> SUFFICES ASSUME ModuleTypes, ModuleSpace, ModuleWalk, ModuleClient, [Module!Next]_Module!moduleVars PROVE ModuleClient'
  OBVIOUS
<1>1. CASE Module!BeginWalk
  BY <1>1 DEF Module!BeginWalk, ModuleClient, Module!KeysOf
<1>2. CASE Module!QueryRegion
  <2>1. /\ UNCHANGED <<client, _moduleMap, _newModules, map>> /\ epc # "idle" /\ epc' # "idle"
    BY <1>2 DEF Module!QueryRegion, Module!historyVars
  <2> QED
    BY <2>1 DEF ModuleClient, Module!KeysOf
<1>3. CASE Module!NameRegion
  <2>1. NamedObject.key = NamedKey
    BY <1>3, NameRegionIs, NameIs
  <2>2. Module!KeysOf(_newModules)' = DOMAIN map' \ DOMAIN _moduleMap'
    BY <1>3, <2>1, NameRegionIs DEF ModuleClient, Module!KeysOf
  <2>3. client' = client /\ _moduleMap' = _moduleMap /\ epc' = "query"
    BY <1>3, NameRegionIs
  <2> QED
    BY <2>2, <2>3 DEF ModuleClient
<1>4. CASE Module!EndWalk
  <2>1. /\ _newModules' = _newModules /\ epc = "query" /\ epc' = "idle" /\ Module!Update(modules, map)
    BY <1>4 DEF Module!EndWalk
  <2>2. /\ _unloadedModules' = {_moduleMap[key] : key \in DOMAIN _moduleMap \ DOMAIN map} /\ _moduleMap' = map
        /\ client' = (client \cup Module!KeysOf(_newModules')) \ Module!KeysOf(_unloadedModules')
    BY <2>1, UpdateIs
  <2>3. Module!KeysOf(_unloadedModules') = DOMAIN _moduleMap \ DOMAIN map
    BY <2>2, GoneKeys
  <2>4. Module!KeysOf(_newModules') = DOMAIN map \ DOMAIN _moduleMap
    BY <2>1 DEF ModuleClient
  <2>5. Module!KeysOf(_newModules)' = Module!KeysOf(_newModules') /\ Module!KeysOf(_unloadedModules)' = Module!KeysOf(_unloadedModules')
    BY DEF Module!KeysOf
  <2> QED
    BY <2>1, <2>2, <2>3, <2>4, <2>5 DEF ModuleClient
<1>5. CASE Module!EnumModulesWithToolHelp
  <2>1. PICK list \in Seq(ModuleObjects) :
           /\ ~byHandle /\ epc' = epc
           /\ _newModules' = {o \in {list[i] : i \in 1 .. Len(list)} : o.key \notin DOMAIN _moduleMap}
           /\ Module!Update(list, Module!MapOf(list))
    BY <1>5, ToolHelpIs
  <2> DEFINE next == Module!MapOf(list)
  <2>2. /\ _unloadedModules' = {_moduleMap[key] : key \in DOMAIN _moduleMap \ DOMAIN next} /\ _moduleMap' = next
        /\ client' = (client \cup Module!KeysOf(_newModules')) \ Module!KeysOf(_unloadedModules')
    BY <2>1, UpdateIs
  <2>3. Module!KeysOf(_unloadedModules') = DOMAIN _moduleMap \ DOMAIN next
    BY <2>2, GoneKeys
  <2>4. Len(list) \in Nat /\ DOMAIN list = 1 .. Len(list)
    OBVIOUS
  <2>5. DOMAIN next = {list[i].key : i \in 1 .. Len(list)}
    BY <2>4, MapIs
  <2> HIDE DEF next
  <2>6. Module!KeysOf(_newModules') = DOMAIN next \ DOMAIN _moduleMap
    BY <2>1, <2>5 DEF Module!KeysOf
  <2>7. Module!KeysOf(_newModules)' = Module!KeysOf(_newModules') /\ Module!KeysOf(_unloadedModules)' = Module!KeysOf(_unloadedModules')
    BY DEF Module!KeysOf
  <2>8. epc' = "idle"
    BY <2>1 DEF ModuleTypes
  <2> QED
    BY <2>2, <2>3, <2>6, <2>7, <2>8 DEF ModuleClient
<1>6. CASE Module!ToolHelpFails
  <2>1. UNCHANGED <<_newModules, _unloadedModules, _moduleMap, epc, map>> /\ ~byHandle
        /\ client' = (client \cup Module!KeysOf(_newModules')) \ Module!KeysOf(_unloadedModules')
    BY <1>6 DEF Module!ToolHelpFails, Module!listVars, Module!walkVars, Module!Applied
  <2>2. epc = "idle"
    BY <2>1 DEF ModuleTypes
  <2>3. Module!KeysOf(_newModules)' = Module!KeysOf(_newModules) /\ Module!KeysOf(_unloadedModules)' = Module!KeysOf(_unloadedModules)
        /\ Module!KeysOf(_newModules') = Module!KeysOf(_newModules) /\ Module!KeysOf(_unloadedModules') = Module!KeysOf(_unloadedModules)
    BY <2>1 DEF Module!KeysOf
  <2> QED
    BY <2>1, <2>2, <2>3 DEF ModuleClient
<1>7. CASE UNCHANGED <<client, Module!listVars, Module!walkVars>>
  BY <1>7 DEF Module!listVars, Module!walkVars, ModuleClient, Module!KeysOf
<1>8. \A file \in DOMAIN Sizes, base \in 1 .. Pages : Module!Map(file, base) => UNCHANGED <<client, Module!listVars, Module!walkVars>>
  BY DEF Module!Map, Module!historyVars
<1>9. \A base \in DOMAIN space : Module!Unmap(base) => UNCHANGED <<client, Module!listVars, Module!walkVars>>
  BY DEF Module!Unmap
<1> QED
  BY <1>1, <1>2, <1>3, <1>4, <1>5, <1>6, <1>7, <1>8, <1>9 DEF Module!Next, Module!moduleVars, Module!historyVars

\* files come to be mapped on pages that are free
LEMMA SpaceStays ==
  ASSUME ModuleSpace, space' = space, mapped' = mapped,
         \A m \in steady' \cup DOMAIN listedAs' : m \in steady \cup DOMAIN listedAs \/ m \in Module!Mappings
  PROVE  ModuleSpace'
<1>1. \A m \in Module!Mappings :
          /\ m[1] \in 1 .. Pages /\ m[2] \in [file : DOMAIN Sizes, mapped : 1 .. mapped]
          /\ m = <<m[1], m[2]>> /\ m[1] + PagesOf(m) - 1 <= Pages
  <2> SUFFICES ASSUME NEW m \in Module!Mappings
               PROVE  /\ m[1] \in 1 .. Pages /\ m[2] \in [file : DOMAIN Sizes, mapped : 1 .. mapped]
                      /\ m = <<m[1], m[2]>> /\ m[1] + PagesOf(m) - 1 <= Pages
    OBVIOUS
  <2>1. /\ m[1] \in DOMAIN space /\ m[2] = space[m[1]] /\ m = <<m[1], space[m[1]]>> /\ m[1] \in 1 .. Pages
        /\ PagesOf(m) = Sizes[space[m[1]].file]
    BY MappingIs
  <2>2. space[m[1]] \in [file : DOMAIN Sizes, mapped : 1 .. mapped] /\ m[1] + Sizes[space[m[1]].file] - 1 <= Pages
    BY <2>1 DEF ModuleSpace
  <2> QED
    BY <2>1, <2>2
<1>2. \A m \in steady' \cup DOMAIN listedAs' :
          /\ m[1] \in 1 .. Pages /\ m[2] \in [file : DOMAIN Sizes, mapped : 1 .. mapped]
          /\ m = <<m[1], m[2]>> /\ m[1] + PagesOf(m) - 1 <= Pages
  BY <1>1 DEF ModuleSpace
<1> QED
  BY <1>2 DEF ModuleSpace, Module!Covers, PagesOf

LEMMA MapIsNew ==
  ASSUME ModuleSpace, NEW file \in DOMAIN Sizes, NEW base \in 1 .. Pages, Module!Map(file, base)
  PROVE  /\ base \notin DOMAIN space /\ DOMAIN space' = DOMAIN space \cup {base}
         /\ space'[base] = [file |-> file, mapped |-> mapped + 1] /\ mapped' = mapped + 1
         /\ \A b \in DOMAIN space : space'[b] = space[b]
         /\ \A b \in DOMAIN space, page \in base .. base + Sizes[file] - 1 : ~Module!Covers(b, page)
         /\ base + Sizes[file] - 1 <= Pages
         /\ Module!Mappings' = Module!Mappings \cup {<<base, [file |-> file, mapped |-> mapped + 1]>>}
         /\ UNCHANGED <<byHandle, _modules, _newModules, _unloadedModules, _moduleMap, info, epc, address, currentModule,
                        currentBase, modules, map, enums, steady, listedAs, client>>
<1>1. /\ base + Sizes[file] - 1 <= Pages /\ mapped' = mapped + 1
      /\ \A page \in base .. base + Sizes[file] - 1 : Module!AllocationBase(page) = Module!Free
      /\ space' = [b \in DOMAIN space \cup {base} |-> IF b = base THEN [file |-> file, mapped |-> mapped'] ELSE space[b]]
      /\ UNCHANGED <<byHandle, _modules, _newModules, _unloadedModules, _moduleMap, info, epc, address, currentModule,
                     currentBase, modules, map, enums, steady, listedAs, client>>
  BY DEF Module!Map, Module!listVars, Module!walkVars, Module!historyVars
<1>2. Sizes[file] \in Nat \ {0} /\ Pages \in Nat
  BY ModuleAssumption
<1>3. \A b \in DOMAIN space, page \in base .. base + Sizes[file] - 1 : ~Module!Covers(b, page)
  <2> SUFFICES ASSUME NEW b \in DOMAIN space, NEW page \in base .. base + Sizes[file] - 1, Module!Covers(b, page)
               PROVE  FALSE
    OBVIOUS
  <2>1. page \in 1 .. Pages
    BY <1>1, <1>2
  <2>2. Module!AllocationBase(page) = b
    BY <2>1, CoverIs
  <2>3. b \in 1 .. Pages
    BY DEF ModuleSpace
  <2>4. b # 0
    BY <2>3
  <2> QED
    BY <1>1, <2>2, <2>4 DEF Module!Free
<1>4. base \notin DOMAIN space
  <2>1. base \in base .. base + Sizes[file] - 1
    BY <1>2
  <2> QED
    BY <1>3, <2>1, BaseIs
<1>5. /\ DOMAIN space' = DOMAIN space \cup {base} /\ space'[base] = [file |-> file, mapped |-> mapped + 1]
      /\ \A b \in DOMAIN space : space'[b] = space[b]
  BY <1>1, <1>4
<1>6. Module!Mappings' = Module!Mappings \cup {<<base, [file |-> file, mapped |-> mapped + 1]>>}
  BY <1>4, <1>5 DEF Module!Mappings
<1> QED
  BY <1>1, <1>3, <1>4, <1>5, <1>6

LEMMA UnmapIs ==
  ASSUME NEW base \in DOMAIN space, Module!Unmap(base)
  PROVE  /\ DOMAIN space' = DOMAIN space \ {base} /\ \A b \in DOMAIN space' : space'[b] = space[b]
         /\ mapped' = mapped /\ Module!Mappings' = {m \in Module!Mappings : m[1] # base}
         /\ steady' = IF epc = "idle" THEN steady ELSE {m \in steady : m[1] # base}
         /\ UNCHANGED <<byHandle, _modules, _newModules, _unloadedModules, _moduleMap, info, epc, address, currentModule,
                        currentBase, modules, map, enums, listedAs, client>>
<1>1. /\ space' = [b \in DOMAIN space \ {base} |-> space[b]] /\ mapped' = mapped
      /\ steady' = IF epc = "idle" THEN steady ELSE {m \in steady : m[1] # base}
      /\ UNCHANGED <<byHandle, _modules, _newModules, _unloadedModules, _moduleMap, info, epc, address, currentModule,
                     currentBase, modules, map, enums, listedAs, client>>
  BY DEF Module!Unmap, Module!listVars, Module!walkVars
<1>2. DOMAIN space' = DOMAIN space \ {base} /\ \A b \in DOMAIN space' : space'[b] = space[b]
  BY <1>1
<1>3. Module!Mappings' = {m \in Module!Mappings : m[1] # base}
  <2>1. Module!Mappings' = {<<b, space[b]>> : b \in DOMAIN space \ {base}}
    BY <1>1, <1>2 DEF Module!Mappings
  <2>2. \A b \in DOMAIN space : <<b, space[b]>>[1] = b
    OBVIOUS
  <2> QED
    BY <2>1, <2>2 DEF Module!Mappings
<1> QED
  BY <1>1, <1>2, <1>3

LEMMA ModuleSpaceStep ==
  ModuleTypes /\ ModuleSpace /\ ModuleWalk /\ [Module!Next]_Module!moduleVars => ModuleSpace'
<1> SUFFICES ASSUME ModuleTypes, ModuleSpace, ModuleWalk, [Module!Next]_Module!moduleVars PROVE ModuleSpace'
  OBVIOUS
<1>1. CASE Module!BeginWalk
  BY <1>1, SpaceStays DEF Module!BeginWalk
<1>2. CASE Module!QueryRegion
  BY <1>2, SpaceStays DEF Module!QueryRegion, Module!historyVars
<1>3. CASE Module!NameRegion
  BY <1>3, SpaceStays DEF Module!NameRegion, Module!historyVars
<1>4. CASE Module!EndWalk
  <2>1. UNCHANGED <<space, mapped, steady>> /\ Module!Update(modules, map)
    BY <1>4 DEF Module!EndWalk
  <2>2. DOMAIN listedAs' = DOMAIN listedAs \cup steady'
    BY <2>1, UpdateIs
  <2> QED
    BY <2>1, <2>2, SpaceStays
<1>5. CASE Module!EnumModulesWithToolHelp
  <2>1. PICK list \in Seq(ModuleObjects) :
           /\ UNCHANGED <<space, mapped>> /\ steady' = Module!Mappings
           /\ Module!Update(list, Module!MapOf(list))
    BY <1>5, ToolHelpIs
  <2>2. DOMAIN listedAs' = DOMAIN listedAs \cup steady'
    BY <2>1, UpdateIs
  <2> QED
    BY <2>1, <2>2, SpaceStays
<1>6. CASE Module!ToolHelpFails
  BY <1>6, SpaceStays DEF Module!ToolHelpFails
<1>7. ASSUME NEW file \in DOMAIN Sizes, NEW base \in 1 .. Pages, Module!Map(file, base) PROVE ModuleSpace'
  <2>1. /\ base \notin DOMAIN space /\ DOMAIN space' = DOMAIN space \cup {base}
        /\ space'[base] = [file |-> file, mapped |-> mapped + 1] /\ mapped' = mapped + 1
        /\ \A b \in DOMAIN space : space'[b] = space[b]
        /\ \A b \in DOMAIN space, page \in base .. base + Sizes[file] - 1 : ~Module!Covers(b, page)
        /\ base + Sizes[file] - 1 <= Pages
        /\ steady' = steady /\ listedAs' = listedAs
    BY <1>7, MapIsNew
  <2>2. mapped \in Nat /\ mapped + 1 \in Nat /\ 1 .. mapped \subseteq 1 .. mapped + 1 /\ mapped + 1 \in 1 .. mapped + 1
    BY DEF ModuleSpace
  <2>3. \A b \in DOMAIN space' :
          /\ space'[b] \in [file : DOMAIN Sizes, mapped : 1 .. mapped']
          /\ b + Sizes[space'[b].file] - 1 <= Pages
    <3> SUFFICES ASSUME NEW b \in DOMAIN space' PROVE /\ space'[b] \in [file : DOMAIN Sizes, mapped : 1 .. mapped']
                                                      /\ b + Sizes[space'[b].file] - 1 <= Pages
      OBVIOUS
    <3>1. CASE b = base
      BY <2>1, <2>2, <3>1
    <3>2. CASE b # base
      <4>1. b \in DOMAIN space /\ space'[b] = space[b]
        BY <2>1, <3>2
      <4>2. space[b] \in [file : DOMAIN Sizes, mapped : 1 .. mapped] /\ b + Sizes[space[b].file] - 1 <= Pages
        BY <4>1 DEF ModuleSpace
      <4>3. space[b] \in [file : DOMAIN Sizes, mapped : 1 .. mapped']
        BY <2>1, <2>2, <4>2
      <4> QED
        BY <4>1, <4>2, <4>3
    <3> QED
      BY <3>1, <3>2
  <2>4. \A b \in DOMAIN space, page \in 1 .. Pages : Module!Covers(b, page)' <=> Module!Covers(b, page)
    BY <2>1 DEF Module!Covers
  <2>5. \A page \in 1 .. Pages : Module!Covers(base, page)' <=> page \in base .. base + Sizes[file] - 1
    BY <2>1 DEF Module!Covers
  <2>6. \A a, b \in DOMAIN space', page \in 1 .. Pages : Module!Covers(a, page)' /\ Module!Covers(b, page)' => a = b
    BY <2>1, <2>4, <2>5 DEF ModuleSpace
  <2>7. \A m \in steady' \cup DOMAIN listedAs' :
          /\ m[1] \in 1 .. Pages /\ m[2] \in [file : DOMAIN Sizes, mapped : 1 .. mapped']
          /\ m = <<m[1], m[2]>> /\ m[1] + PagesOf(m) - 1 <= Pages
    <3> SUFFICES ASSUME NEW m \in steady \cup DOMAIN listedAs
                 PROVE  /\ m[1] \in 1 .. Pages /\ m[2] \in [file : DOMAIN Sizes, mapped : 1 .. mapped']
                        /\ m = <<m[1], m[2]>> /\ m[1] + PagesOf(m) - 1 <= Pages
      BY <2>1
    <3>1. /\ m[1] \in 1 .. Pages /\ m[2] \in [file : DOMAIN Sizes, mapped : 1 .. mapped]
          /\ m = <<m[1], m[2]>> /\ m[1] + PagesOf(m) - 1 <= Pages
      BY DEF ModuleSpace
    <3>2. m[2] \in [file : DOMAIN Sizes, mapped : 1 .. mapped']
      BY <2>1, <2>2, <3>1
    <3> QED
      BY <3>1, <3>2
  <2>8. DOMAIN space' \subseteq 1 .. Pages /\ mapped' \in Nat
    BY <2>1, <2>2 DEF ModuleSpace
  <2> QED
    BY <2>3, <2>6, <2>7, <2>8 DEF ModuleSpace, PagesOf
<1>8. ASSUME NEW base \in DOMAIN space, Module!Unmap(base) PROVE ModuleSpace'
  <2>1. /\ DOMAIN space' = DOMAIN space \ {base} /\ \A b \in DOMAIN space' : space'[b] = space[b]
        /\ mapped' = mapped /\ steady' \subseteq steady /\ listedAs' = listedAs
    BY <1>8, UnmapIs
  <2>2. \A b \in DOMAIN space', page \in 1 .. Pages : Module!Covers(b, page)' <=> Module!Covers(b, page)
    BY <2>1 DEF Module!Covers
  <2>3. \A m \in steady' \cup DOMAIN listedAs' :
          /\ m[1] \in 1 .. Pages /\ m[2] \in [file : DOMAIN Sizes, mapped : 1 .. mapped']
          /\ m = <<m[1], m[2]>> /\ m[1] + PagesOf(m) - 1 <= Pages
    BY <2>1 DEF ModuleSpace
  <2>4. /\ DOMAIN space' \subseteq 1 .. Pages /\ mapped' \in Nat
        /\ \A b \in DOMAIN space' :
             /\ space'[b] \in [file : DOMAIN Sizes, mapped : 1 .. mapped']
             /\ b + Sizes[space'[b].file] - 1 <= Pages
    BY <2>1 DEF ModuleSpace
  <2>5. \A a, b \in DOMAIN space', page \in 1 .. Pages : Module!Covers(a, page)' /\ Module!Covers(b, page)' => a = b
    BY <2>1, <2>2 DEF ModuleSpace
  <2> QED
    BY <2>3, <2>4, <2>5 DEF ModuleSpace, PagesOf
<1>9. CASE UNCHANGED Module!moduleVars
  BY <1>9, SpaceStays DEF Module!moduleVars, Module!historyVars
<1> QED
  BY <1>1, <1>2, <1>3, <1>4, <1>5, <1>6, <1>7, <1>8, <1>9 DEF Module!Next

LEMMA ModuleListStep ==
  ModuleTypes /\ ModuleSpace /\ ModuleWalk /\ ModuleList /\ [Module!Next]_Module!moduleVars => ModuleList'
<1> SUFFICES ASSUME ModuleTypes, ModuleSpace, ModuleWalk, ModuleList, [Module!Next]_Module!moduleVars PROVE ModuleList'
  OBVIOUS
<1>1. CASE Module!BeginWalk
  <2>1. modules' = <<>> /\ map' = <<>>
    BY <1>1 DEF Module!BeginWalk
  <2>2. 1 .. Len(modules') = {} /\ DOMAIN map' = {}
    BY <2>1
  <2> QED
    BY <2>2 DEF ModuleList
<1>2. CASE Module!QueryRegion
  <2>1. UNCHANGED <<modules, map, _moduleMap>> /\ epc # "idle"
    BY <1>2 DEF Module!QueryRegion
  <2> QED
    BY <2>1 DEF ModuleList
<1>3. CASE Module!NameRegion
  <2> HIDE DEF NamedObject, NamedKey
  <2>1. /\ epc = "name" /\ currentBase \in 1 .. Pages /\ DOMAIN map' = DOMAIN map \cup {NamedKey}
        /\ \A key \in DOMAIN map : map'[key] = map[key]
        /\ NamedKey \notin DOMAIN map => map'[NamedKey] = NamedObject
        /\ modules' = Append(modules, NamedObject) /\ _moduleMap' = _moduleMap
    BY <1>3, NameRegionIs
  <2>2. /\ NamedObject \in ModuleObjects /\ NamedObject.key = NamedKey
        /\ NamedKey \in DOMAIN _moduleMap => NamedObject = _moduleMap[NamedKey]
    BY <2>1, NameIs
  <2>3. modules \in Seq(ModuleObjects) /\ Len(modules) \in Nat
    BY DEF ModuleTypes
  <2>4. Len(modules') = Len(modules) + 1 /\ modules'[Len(modules) + 1] = NamedObject
        /\ \A i \in 1 .. Len(modules) : modules'[i] = modules[i]
    BY <2>1, <2>2, <2>3
  <2>5. \A i \in 1 .. Len(modules') : i \in 1 .. Len(modules) \/ i = Len(modules) + 1
    BY <2>3, <2>4
  <2>6. 1 .. Len(modules) \subseteq 1 .. Len(modules') /\ Len(modules) + 1 \in 1 .. Len(modules')
    BY <2>3, <2>4
  <2>7. \A key \in DOMAIN map' : \E i \in 1 .. Len(modules') : modules'[i] = map'[key]
    <3> SUFFICES ASSUME NEW key \in DOMAIN map' PROVE \E i \in 1 .. Len(modules') : modules'[i] = map'[key]
      OBVIOUS
    <3>1. CASE key \in DOMAIN map
      <4>1. PICK i \in 1 .. Len(modules) : modules[i] = map[key]
        BY <2>1, <3>1 DEF ModuleList
      <4> QED
        BY <2>1, <2>4, <2>6, <3>1, <4>1
    <3>2. CASE key \notin DOMAIN map
      BY <2>1, <2>4, <2>6, <3>2
    <3> QED
      BY <3>1, <3>2
  <2>8. ASSUME NEW i \in 1 .. Len(modules')
        PROVE  /\ modules'[i].key \in DOMAIN map'
               /\ modules'[i].key \in DOMAIN _moduleMap' => modules'[i] = _moduleMap'[modules'[i].key]
    <3>1. CASE i \in 1 .. Len(modules)
      BY <2>1, <2>4, <3>1 DEF ModuleList
    <3>2. CASE i = Len(modules) + 1
      <4>1. modules'[i] = NamedObject
        BY <2>4, <3>2
      <4> QED
        BY <2>1, <2>2, <4>1
    <3> QED
      BY <2>5, <3>1, <3>2
  <2> QED
    BY <2>7, <2>8 DEF ModuleList
<1>4. CASE Module!EndWalk
  BY <1>4 DEF Module!EndWalk, ModuleList
<1>5. CASE Module!EnumModulesWithToolHelp
  <2>1. ~byHandle /\ epc' = epc
    BY <1>5 DEF Module!EnumModulesWithToolHelp, Module!walkVars
  <2> QED
    BY <2>1 DEF ModuleTypes, ModuleList
<1>6. CASE Module!ToolHelpFails
  BY <1>6 DEF Module!ToolHelpFails, Module!listVars, Module!walkVars, ModuleList
<1>7. CASE UNCHANGED <<Module!listVars, Module!walkVars>>
  BY <1>7 DEF Module!listVars, Module!walkVars, ModuleList
<1>8. \A file \in DOMAIN Sizes, base \in 1 .. Pages : Module!Map(file, base) => UNCHANGED <<Module!listVars, Module!walkVars>>
  BY DEF Module!Map
<1>9. \A base \in DOMAIN space : Module!Unmap(base) => UNCHANGED <<Module!listVars, Module!walkVars>>
  BY DEF Module!Unmap
<1> QED
  BY <1>1, <1>2, <1>3, <1>4, <1>5, <1>6, <1>7, <1>8, <1>9 DEF Module!Next, Module!moduleVars

\* a mapping that stays has its pages
LEMMA SteadyIs ==
  ASSUME ModuleSpace, steady \subseteq Module!Mappings, NEW m \in steady
  PROVE  /\ m[1] \in DOMAIN space /\ m[1] \in 1 .. Pages /\ PagesOf(m) \in Nat \ {0} /\ m[1] + PagesOf(m) - 1 <= Pages
         /\ m[2].file = space[m[1]].file
         /\ \A page \in 1 .. Pages : m[1] <= page /\ page < m[1] + PagesOf(m) => Module!AllocationBase(page) = m[1]
         /\ \A page \in 1 .. Pages : Module!AllocationBase(page) = m[1] => m[1] <= page /\ page < m[1] + PagesOf(m)
<1>1. /\ m[1] \in DOMAIN space /\ m[2] = space[m[1]] /\ m[1] \in 1 .. Pages
      /\ PagesOf(m) = Sizes[space[m[1]].file] /\ m[2].file \in DOMAIN Sizes
  BY MappingIs
<1>2. PagesOf(m) \in Nat \ {0} /\ m[1] + PagesOf(m) - 1 <= Pages /\ Pages \in Nat
  BY <1>1, ModuleAssumption DEF ModuleSpace
<1>3. \A page \in 1 .. Pages : Module!Covers(m[1], page) <=> m[1] <= page /\ page < m[1] + PagesOf(m)
  <2> SUFFICES ASSUME NEW page \in 1 .. Pages
               PROVE  Module!Covers(m[1], page) <=> m[1] <= page /\ page < m[1] + PagesOf(m)
    OBVIOUS
  <2>1. Module!Covers(m[1], page) <=> page \in m[1] .. m[1] + PagesOf(m) - 1
    BY <1>1 DEF Module!Covers
  <2> HIDE DEF PagesOf
  <2> QED
    BY <1>1, <1>2, <2>1
<1>4. \A page \in 1 .. Pages : Module!Covers(m[1], page) <=> Module!AllocationBase(page) = m[1]
  <2>1. m[1] # 0
    BY <1>1
  <2> QED
    BY <1>1, <2>1, CoverIs
<1> QED
  BY <1>1, <1>2, <1>3, <1>4

LEMMA WalkQueries ==
  ASSUME ModuleTypes, ModuleSpace, ModuleWalk, Module!QueryRegion
  PROVE  ModuleWalk'
<1> DEFINE base == Module!AllocationBase(address)
<1>1. /\ epc = "query" /\ address \in 1 .. Pages /\ Pages \in Nat
      /\ UNCHANGED <<currentModule, modules, steady, space>> /\ Module!Mappings' = Module!Mappings
  BY ModuleAssumption DEF Module!QueryRegion, ModuleTypes, Module!historyVars, Module!Mappings
<1>2. base \in 0 .. address
  BY <1>1, CoverIs
<1>3. /\ steady \subseteq Module!Mappings /\ currentBase \in 0 .. Pages /\ currentBase < address
      /\ currentBase # 0 => currentModule \in DOMAIN info /\ currentModule.key[2] = currentBase
      /\ \A i \in 1 .. Len(modules) : modules[i].key[2] < address
  BY <1>1 DEF ModuleWalk
<1>4. ASSUME NEW m \in steady
      PROVE  /\ m[1] \in 1 .. Pages /\ PagesOf(m) \in Nat \ {0} /\ m[1] + PagesOf(m) - 1 <= Pages
             /\ m[1] <= address /\ address < m[1] + PagesOf(m) <=> base = m[1]
             /\ m[1] < address => \E i \in 1 .. Len(modules) : ListedAt(m, i)
  BY <1>1, <1>3, SteadyIs DEF ModuleWalk
<1>5. modules \in Seq(ModuleObjects) /\ \A i \in 1 .. Len(modules) : modules[i] \in DOMAIN info
  BY DEF ModuleTypes
<1> HIDE DEF base, PagesOf
<1>6. CASE base = 0
  <2>1. epc' = epc /\ info' = info /\ currentBase' = currentBase /\ address' = address + 1
    BY <1>1, <1>6 DEF Module!QueryRegion, base, Module!Free
  <2>2. ASSUME NEW m \in steady, m[1] < address + 1
        PROVE  \E i \in 1 .. Len(modules) : ListedAt(m, i)'
    <3>0. m[1] \in Nat /\ m[1] # 0 /\ PagesOf(m) \in Nat \ {0} /\ m[1] <= address /\ base # m[1]
      BY <1>1, <1>4, <1>6, <2>2
    <3>4. ~(address < m[1] + PagesOf(m))
      BY <1>4, <3>0
    <3>1. m[1] < address /\ ~(address < m[1] + PagesOf(m)) /\ ~(address + 1 < m[1] + PagesOf(m))
      BY <1>1, <3>0, <3>4
    <3>2. PICK i \in 1 .. Len(modules) : ListedAt(m, i)
      BY <1>4, <3>1
    <3>3. ListedAt(m, i)'
      BY <1>1, <2>1, <3>1, <3>2 DEF ListedAt, Module!KeyOf, PagesOf
    <3> QED
      BY <3>3
  <2>3. \A i \in 1 .. Len(modules') : modules'[i].key[2] < address'
    <3>1. \A i \in 1 .. Len(modules) : modules[i].key[2] \in Int
      BY <1>5, BaseOfKey
    <3> QED
      BY <1>1, <1>3, <2>1, <3>1
  <2>4. currentBase' < address'
    BY <1>1, <1>3, <2>1
  <2> QED
    BY <1>1, <1>3, <2>1, <2>2, <2>3, <2>4 DEF ModuleWalk
<1>7. CASE base # 0 /\ base = currentBase
  <2>1. /\ epc' = epc /\ info' = [info EXCEPT ![currentModule] = info[currentModule] + 1] /\ currentBase' = currentBase
        /\ address' = address + 1
    BY <1>1, <1>7 DEF Module!QueryRegion, base, Module!Free
  <2>2. /\ currentModule \in DOMAIN info /\ currentModule.key[2] = base
        /\ DOMAIN info' = DOMAIN info /\ info'[currentModule] = info[currentModule] + 1
        /\ \A o \in DOMAIN info : o # currentModule => info'[o] = info[o]
    BY <1>3, <1>7, <2>1
  <2>3. ASSUME NEW m \in steady, m[1] < address + 1
        PROVE  \E i \in 1 .. Len(modules) : ListedAt(m, i)'
    <3>1. CASE base = m[1]
      <4>1. m[1] < address /\ address < m[1] + PagesOf(m)
        BY <1>3, <1>4, <1>7, <3>1
      <4>2. PICK i \in 1 .. Len(modules) : ListedAt(m, i)
        BY <1>4, <4>1
      <4>3. /\ modules[i].key = Module!KeyOf(m)
            /\ \A j \in 1 .. Len(modules) : modules[j].key[2] = m[1] => j = i
            /\ currentModule = modules[i] /\ info[modules[i]] = address - m[1]
        BY <4>1, <4>2 DEF ListedAt
      <4>4. info'[modules[i]] = address + 1 - m[1]
        <5>1. info'[modules[i]] = (address - m[1]) + 1
          BY <2>2, <4>3
        <5> QED
          BY <1>1, <1>4, <5>1
      <4>5. ~(address + 1 < m[1] + PagesOf(m)) => address + 1 - m[1] = PagesOf(m)
        BY <1>1, <1>4, <4>1
      <4>6. /\ modules'[i].key = Module!KeyOf(m)
            /\ \A j \in 1 .. Len(modules') : modules'[j].key[2] = m[1] => j = i
            /\ epc' = "query" /\ currentBase' = m[1] /\ currentModule' = modules'[i]
        BY <1>1, <1>7, <2>1, <3>1, <4>3
      <4>9. modules' = modules /\ address' = address + 1
        BY <1>1, <2>1
      <4>10. info'[modules'[i]] = address' - m[1]
        BY <1>1, <1>4, <4>4, <4>9, SMTT(30)
      <4>7. info'[modules'[i]] = address' - m[1] /\ (~(address' < m[1] + PagesOf(m)) => info'[modules'[i]] = PagesOf(m))
        BY <1>1, <1>4, <4>5, <4>9, <4>10
      <4>8. ListedAt(m, i)'
        BY <4>6, <4>7 DEF ListedAt, Module!KeyOf, PagesOf
      <4> QED
        BY <4>8
    <3>2. CASE base # m[1]
      <4>1. m[1] < address /\ ~(address < m[1] + PagesOf(m)) /\ ~(address + 1 < m[1] + PagesOf(m))
        BY <1>1, <1>4, <2>3, <3>2
      <4>2. PICK i \in 1 .. Len(modules) : ListedAt(m, i)
        BY <1>4, <4>1
      <4>3. /\ modules[i].key = Module!KeyOf(m)
            /\ \A j \in 1 .. Len(modules) : modules[j].key[2] = m[1] => j = i
            /\ info[modules[i]] = PagesOf(m)
        BY <4>1, <4>2 DEF ListedAt
      <4>4. modules[i].key[2] = m[1]
        BY <4>3 DEF Module!KeyOf
      <4>5. info'[modules[i]] = PagesOf(m)
        BY <1>5, <2>2, <3>2, <4>3, <4>4
      <4>6. ListedAt(m, i)'
        BY <1>1, <2>1, <4>1, <4>3, <4>5 DEF ListedAt, Module!KeyOf, PagesOf
      <4> QED
        BY <4>6
    <3> QED
      BY <3>1, <3>2
  <2>4. \A i \in 1 .. Len(modules') : modules'[i].key[2] < address'
    <3>1. \A i \in 1 .. Len(modules) : modules[i].key[2] \in Int
      BY <1>5, BaseOfKey
    <3> QED
      BY <1>1, <1>3, <2>1, <3>1
  <2>5. currentBase' < address'
    BY <1>1, <1>3, <2>1
  <2> QED
    BY <1>1, <1>3, <2>1, <2>2, <2>3, <2>4, <2>5 DEF ModuleWalk
<1>8. CASE base # 0 /\ base # currentBase
  <2>1. epc' = "name" /\ info' = info /\ currentBase' = base /\ address' = address
    BY <1>1, <1>8 DEF Module!QueryRegion, base, Module!Free
  <2>2. ASSUME NEW m \in steady
        PROVE  /\ address' = m[1] <=> currentBase' = m[1]
               /\ m[1] < address' => \E i \in 1 .. Len(modules) : ListedAt(m, i)'
    <3>1. base = m[1] => ~(m[1] < address)
      <4> SUFFICES ASSUME base = m[1], m[1] < address PROVE FALSE
        OBVIOUS
      <4>1. PICK i \in 1 .. Len(modules) : ListedAt(m, i)
        BY <1>4
      <4>2. address < m[1] + PagesOf(m)
        BY <1>4
      <4>3. currentBase = m[1]
        BY <4>1, <4>2 DEF ListedAt
      <4> QED
        BY <1>8, <4>3
    <3>2. base = m[1] => address = m[1]
      BY <1>1, <1>4, <3>1
    <3>3. address = m[1] => base = m[1]
      BY <1>1, <1>4
    <3>4. ASSUME m[1] < address PROVE \E i \in 1 .. Len(modules) : ListedAt(m, i)'
      <4>1. ~(address < m[1] + PagesOf(m))
        BY <1>1, <1>4, <3>1, <3>4
      <4>2. PICK i \in 1 .. Len(modules) : ListedAt(m, i)
        BY <1>4, <3>4
      <4>3. ListedAt(m, i)'
        BY <1>1, <2>1, <4>1, <4>2 DEF ListedAt, Module!KeyOf, PagesOf
      <4> QED
        BY <4>3
    <3> QED
      BY <2>1, <3>2, <3>3, <3>4
  <2>3. currentBase' \in 1 .. address' /\ currentBase' \in 0 .. Pages
    BY <1>1, <1>2, <1>8, <2>1
  <2> QED
    BY <1>1, <1>3, <2>1, <2>2, <2>3 DEF ModuleWalk
<1> QED
  BY <1>6, <1>7, <1>8

LEMMA WalkNames ==
  ASSUME ModuleTypes, ModuleSpace, ModuleWalk, Module!NameRegion
  PROVE  ModuleWalk'
<1>1. /\ epc = "name" /\ epc' = "query" /\ currentBase \in 1 .. address /\ currentBase \in 1 .. Pages
      /\ address' = address + 1 /\ currentModule' = NamedObject
      /\ DOMAIN info' = DOMAIN info \cup {NamedObject}
      /\ info'[NamedObject] = 1
      /\ \A o \in DOMAIN info : o # NamedObject => info'[o] = info[o]
      /\ modules' = Append(modules, NamedObject)
      /\ UNCHANGED <<currentBase, space, steady>>
  BY NameRegionIs
<1>2. /\ NamedObject \in ModuleObjects /\ NamedObject.key = NamedKey /\ NamedKey[2] = currentBase
  BY <1>1, NameIs
<1>3. address \in 1 .. Pages /\ Pages \in Nat /\ Module!Mappings' = Module!Mappings
  BY <1>1, ModuleAssumption DEF ModuleTypes, Module!Mappings
<1>4. /\ steady \subseteq Module!Mappings
      /\ \A i \in 1 .. Len(modules) : modules[i].key[2] < address
  BY <1>1 DEF ModuleWalk
<1>5. ASSUME NEW m \in steady
      PROVE  /\ m[1] \in 1 .. Pages /\ PagesOf(m) \in Nat \ {0} /\ m[1] \in DOMAIN space
             /\ m[2].file = space[m[1]].file
             /\ address = m[1] <=> currentBase = m[1]
             /\ m[1] < address => \E i \in 1 .. Len(modules) : ListedAt(m, i)
  BY <1>1, <1>4, SteadyIs DEF ModuleWalk
<1>6. /\ modules \in Seq(ModuleObjects) /\ Len(modules) \in Nat
      /\ \A i \in 1 .. Len(modules) : modules[i] \in DOMAIN info /\ modules[i] \in ModuleObjects
  BY DEF ModuleTypes
<1>7. /\ Len(modules') = Len(modules) + 1 /\ modules'[Len(modules) + 1] = NamedObject
      /\ \A i \in 1 .. Len(modules) : modules'[i] = modules[i]
  BY <1>1, <1>2, <1>6
<1>8. /\ \A i \in 1 .. Len(modules') : i \in 1 .. Len(modules) \/ i = Len(modules) + 1
      /\ 1 .. Len(modules) \subseteq 1 .. Len(modules') /\ Len(modules) + 1 \in 1 .. Len(modules')
  BY <1>6, <1>7
<1>9. \A i \in 1 .. Len(modules) : modules[i].key[2] \in Int /\ modules[i].key[2] # address
  <2>1. \A i \in 1 .. Len(modules) : modules[i].key[2] \in Int /\ modules[i].key[2] < address
    BY <1>4, <1>6, BaseOfKey
  <2> QED
    BY <1>3, <2>1
<1>10. \A i \in 1 .. Len(modules') : modules'[i].key[2] < address'
  <2> SUFFICES ASSUME NEW i \in 1 .. Len(modules') PROVE modules'[i].key[2] < address'
    OBVIOUS
  <2>1. CASE i \in 1 .. Len(modules)
    BY <1>1, <1>3, <1>4, <1>7, <1>9, <2>1
  <2>2. CASE i = Len(modules) + 1
    <3>1. modules'[i].key[2] = currentBase
      BY <1>2, <1>7, <2>2
    <3> QED
      BY <1>1, <1>3, <3>1
  <2> QED
    BY <1>8, <2>1, <2>2
<1>11. ASSUME NEW m \in steady, m[1] < address + 1
       PROVE  \E i \in 1 .. Len(modules') : ListedAt(m, i)'
  <2>1. CASE address = m[1]
    <3>0. PICK n \in 1 .. Len(modules') : n = Len(modules) + 1
      BY <1>8
    <3>1. currentBase = m[1]
      BY <1>5, <2>1
    <3>2. Module!MappedFileName(m[1]) = space[m[1]].file
      BY <1>5, BaseIs
    <3>3. NamedKey = <<m[2].file, m[1]>>
      BY <1>5, <3>1, <3>2 DEF NamedKey
    <3>4. modules'[n].key = Module!KeyOf(m) /\ modules'[n] = NamedObject
      BY <1>2, <1>7, <3>0, <3>3 DEF Module!KeyOf
    <3>5. \A j \in 1 .. Len(modules') : modules'[j].key[2] = m[1] => j = n
      BY <1>7, <1>8, <1>9, <2>1, <3>0
    <3>6. info'[modules'[n]] = 1 /\ address' - m[1] = 1 /\ (~(address' < m[1] + PagesOf(m)) => PagesOf(m) = 1)
      BY <1>1, <1>3, <1>5, <2>1, <3>4
    <3>7. epc' = "query" /\ currentBase' = m[1] /\ currentModule' = modules'[n]
      BY <1>1, <3>1, <3>4
    <3>8. ListedAt(m, n)'
      BY <3>4, <3>5, <3>6, <3>7 DEF ListedAt, Module!KeyOf, PagesOf
    <3> QED
      BY <3>8
  <2>2. CASE address # m[1]
    <3>1. m[1] < address /\ currentBase # m[1]
      BY <1>3, <1>5, <1>11, <2>2
    <3>2. PICK i \in 1 .. Len(modules) : ListedAt(m, i)
      BY <1>5, <3>1
    <3>3. ~(address < m[1] + PagesOf(m))
      BY <1>1, <3>2 DEF ListedAt
    <3>4. /\ modules[i].key = Module!KeyOf(m) /\ info[modules[i]] = PagesOf(m)
          /\ \A j \in 1 .. Len(modules) : modules[j].key[2] = m[1] => j = i
      BY <3>2, <3>3 DEF ListedAt
    <3>5. modules[i].key[2] = m[1]
      BY <3>4 DEF Module!KeyOf
    <3>6. info'[modules'[i]] = PagesOf(m) /\ modules'[i].key = Module!KeyOf(m)
      BY <1>1, <1>2, <1>6, <1>7, <3>1, <3>4, <3>5
    <3>7. \A j \in 1 .. Len(modules') : modules'[j].key[2] = m[1] => j = i
      BY <1>2, <1>7, <1>8, <3>1, <3>4
    <3>8. ~(address' < m[1] + PagesOf(m))
      BY <1>1, <1>3, <1>5, <3>3
    <3>9. ListedAt(m, i)'
      BY <3>6, <3>7, <3>8 DEF ListedAt, Module!KeyOf, PagesOf
    <3> QED
      BY <1>8, <3>9
  <2> QED
    BY <2>1, <2>2
<1>12. currentBase' \in 0 .. Pages /\ currentBase' < address'
  BY <1>1, <1>3
<1>13. currentModule' \in DOMAIN info' /\ currentModule'.key[2] = currentBase'
  BY <1>1, <1>2
<1> QED
  BY <1>1, <1>3, <1>4, <1>10, <1>11, <1>12, <1>13 DEF ModuleWalk

LEMMA WalkGoesOn ==
  ASSUME ModuleSpace, ModuleWalk, epc # "idle", steady' \subseteq Module!Mappings', steady' \subseteq steady,
         UNCHANGED <<epc, address, currentModule, currentBase, modules, info>>
  PROVE  ModuleWalk'
<1>1. ASSUME NEW m \in steady', NEW i \in 1 .. Len(modules), ListedAt(m, i) PROVE ListedAt(m, i)'
  BY <1>1 DEF ListedAt, Module!KeyOf, PagesOf
<1> QED
  BY <1>1 DEF ModuleWalk

LEMMA ModuleWalkStep ==
  ModuleTypes /\ ModuleSpace /\ ModuleWalk /\ [Module!Next]_Module!moduleVars => ModuleWalk'
<1> SUFFICES ASSUME ModuleTypes, ModuleSpace, ModuleWalk, [Module!Next]_Module!moduleVars PROVE ModuleWalk'
  OBVIOUS
<1>1. CASE Module!BeginWalk
  <2>1. /\ epc' = "query" /\ address' = 1 /\ currentBase' = 0 /\ modules' = <<>> /\ steady' = Module!Mappings
        /\ Module!Mappings' = Module!Mappings
    BY <1>1 DEF Module!BeginWalk, Module!Free, Module!Mappings
  <2>2. 1 .. Len(modules') = {} /\ Pages \in Nat
    BY <2>1, ModuleAssumption
  <2>3. \A m \in steady' : ~(m[1] < address')
    <3> SUFFICES ASSUME NEW m \in Module!Mappings PROVE ~(m[1] < 1)
      BY <2>1
    <3>1. m[1] \in 1 .. Pages
      BY MappingIs
    <3> QED
      BY <3>1
  <2> QED
    BY <2>1, <2>2, <2>3 DEF ModuleWalk
<1>2. CASE Module!QueryRegion
  BY <1>2, WalkQueries
<1>3. CASE Module!NameRegion
  BY <1>3, WalkNames
<1>4. CASE epc' = "idle"
  BY <1>4 DEF ModuleWalk
<1>5. CASE Module!EndWalk
  BY <1>4, <1>5 DEF Module!EndWalk
<1>6. CASE Module!EnumModulesWithToolHelp \/ Module!ToolHelpFails
  <2>1. ~byHandle /\ epc' = epc
    BY <1>6 DEF Module!EnumModulesWithToolHelp, Module!ToolHelpFails, Module!walkVars
  <2>2. epc' = "idle"
    BY <2>1 DEF ModuleTypes
  <2> QED
    BY <1>4, <2>2
<1>7. ASSUME NEW file \in DOMAIN Sizes, NEW base \in 1 .. Pages, Module!Map(file, base), epc' # "idle" PROVE ModuleWalk'
  <2>1. /\ Module!Mappings \subseteq Module!Mappings'
        /\ UNCHANGED <<epc, address, currentModule, currentBase, modules, info, steady>>
    BY <1>7, MapIsNew
  <2>2. steady \subseteq Module!Mappings
    BY <1>7, <2>1 DEF ModuleWalk
  <2> QED
    BY <1>7, <2>1, <2>2, WalkGoesOn
<1>8. ASSUME NEW base \in DOMAIN space, Module!Unmap(base), epc' # "idle" PROVE ModuleWalk'
  <2>1. /\ Module!Mappings' = {m \in Module!Mappings : m[1] # base}
        /\ steady' = IF epc = "idle" THEN steady ELSE {m \in steady : m[1] # base}
        /\ UNCHANGED <<epc, address, currentModule, currentBase, modules, info>>
    BY <1>8, UnmapIs
  <2>2. steady \subseteq Module!Mappings
    BY <1>8, <2>1 DEF ModuleWalk
  <2> QED
    BY <1>8, <2>1, <2>2, WalkGoesOn
<1>9. CASE UNCHANGED Module!moduleVars /\ epc' # "idle"
  <2>1. UNCHANGED <<epc, address, currentModule, currentBase, modules, info, steady, space>>
    BY <1>9 DEF Module!moduleVars, Module!listVars, Module!walkVars, Module!historyVars
  <2>2. Module!Mappings' = Module!Mappings /\ steady \subseteq Module!Mappings
    BY <1>9, <2>1 DEF Module!Mappings, ModuleWalk
  <2> QED
    BY <1>9, <2>1, <2>2, WalkGoesOn
<1> QED
  BY <1>1, <1>2, <1>3, <1>4, <1>5, <1>6, <1>7, <1>8, <1>9 DEF Module!Next

\* what a list that has each steady mapping once leaves
LEMMA ListLeaves ==
  ASSUME ModuleTypes, ModuleSpace, ModuleHistory,
         NEW list \in Seq(ModuleObjects), NEW next, Module!Update(list, next),
         \A key \in DOMAIN next : \E i \in 1 .. Len(list) : next[key] = list[i] /\ list[i].key = key,
         \A i \in 1 .. Len(list) : /\ list[i] \in DOMAIN info' /\ list[i].key \in DOMAIN next
                                   /\ list[i].key \in DOMAIN _moduleMap => list[i] = _moduleMap[list[i].key],
         \A m \in steady' : \E i \in 1 .. Len(list) :
            /\ list[i].key = Module!KeyOf(m) /\ info'[list[i]] = PagesOf(m)
            /\ \A j \in 1 .. Len(list) : list[j].key = Module!KeyOf(m) => j = i,
         DOMAIN info \subseteq DOMAIN info', space' = space, epc' = "idle", steady' \subseteq Module!Mappings,
         \A m \in Module!Mappings \cap DOMAIN listedAs : m \in steady'
  PROVE  ModuleHistory'
<1>0. Module!Mappings' = Module!Mappings
  BY DEF Module!Mappings
<1>1. /\ _modules' = list /\ _moduleMap' = next /\ Module!Mappings' = Module!Mappings
      /\ DOMAIN listedAs' = DOMAIN listedAs \cup steady'
  BY <1>0 DEF Module!Update
<1>2. \A m \in DOMAIN listedAs' :
         listedAs'[m] = (IF m \in DOMAIN listedAs THEN listedAs[m] ELSE {})
                        \cup (IF m \in steady' THEN {o \in Module!ToSet(list) : o.key = Module!KeyOf(m)} ELSE {})
  BY DEF Module!Update
<1>3. Module!ToSet(list) = {list[i] : i \in 1 .. Len(list)}
  <2>1. Len(list) \in Nat /\ DOMAIN list = 1 .. Len(list)
    OBVIOUS
  <2> QED
    BY <2>1, MapIs
<1>4. ASSUME NEW m \in steady'
      PROVE  /\ Module!KeyOf(m) \in DOMAIN next /\ next[Module!KeyOf(m)] \in DOMAIN info'
             /\ listedAs'[m] = {next[Module!KeyOf(m)]}
  <2>1. PICK i \in 1 .. Len(list) : /\ list[i].key = Module!KeyOf(m)
                                    /\ \A j \in 1 .. Len(list) : list[j].key = Module!KeyOf(m) => j = i
    OBVIOUS
  <2>2. next[Module!KeyOf(m)] = list[i] /\ Module!KeyOf(m) \in DOMAIN next /\ list[i] \in DOMAIN info'
    BY <2>1
  <2>3. {o \in Module!ToSet(list) : o.key = Module!KeyOf(m)} = {list[i]}
    BY <1>3, <2>1
  <2>4. m \in DOMAIN listedAs => listedAs[m] = {list[i]}
    <3> SUFFICES ASSUME m \in DOMAIN listedAs PROVE listedAs[m] = {list[i]}
      OBVIOUS
    <3>1. Module!KeyOf(m) \in DOMAIN _moduleMap /\ listedAs[m] = {_moduleMap[Module!KeyOf(m)]}
      BY DEF ModuleHistory
    <3> QED
      BY <2>1, <3>1
  <2>5. listedAs'[m] = {list[i]}
    BY <1>1, <1>2, <2>3, <2>4
  <2> QED
    BY <2>2, <2>5
<1>5. \A m \in DOMAIN listedAs' : \E o \in DOMAIN info' : listedAs'[m] = {o}
  <2> SUFFICES ASSUME NEW m \in DOMAIN listedAs' PROVE \E o \in DOMAIN info' : listedAs'[m] = {o}
    OBVIOUS
  <2>1. CASE m \in steady'
    BY <1>4, <2>1
  <2>2. CASE m \notin steady'
    <3>1. m \in DOMAIN listedAs /\ listedAs'[m] = listedAs[m]
      BY <1>1, <1>2, <2>2
    <3> QED
      BY <3>1 DEF ModuleHistory
  <2> QED
    BY <2>1, <2>2
<1>6. \A m \in Module!Mappings' \cap DOMAIN listedAs' :
         Module!KeyOf(m) \in DOMAIN _moduleMap' /\ listedAs'[m] = {_moduleMap'[Module!KeyOf(m)]}
  BY <1>1, <1>4
<1>7. \A m \in steady' : \E i \in 1 .. Len(_modules') :
         /\ _modules'[i].key = Module!KeyOf(m) /\ info'[_modules'[i]] = PagesOf(m)
         /\ \A j \in 1 .. Len(_modules') : _modules'[j].key = Module!KeyOf(m) => j = i
  BY <1>1
<1> QED
  BY <1>5, <1>6, <1>7 DEF ModuleHistory, Module!KeyOf, PagesOf

\* steps that list nothing
LEMMA HistoryGoesOn ==
  ASSUME ModuleHistory, UNCHANGED <<_modules, _moduleMap, listedAs>>, DOMAIN info \subseteq DOMAIN info',
         epc' = "idle" => epc = "idle" /\ steady' = steady /\ info' = info,
         \A m \in Module!Mappings' \cap DOMAIN listedAs : m \in Module!Mappings /\ (epc' # "idle" => m \in steady')
  PROVE  ModuleHistory'
<1>1. epc' = "idle" => \A m \in steady' : \E i \in 1 .. Len(_modules') :
          /\ _modules'[i].key = Module!KeyOf(m) /\ info'[_modules'[i]] = PagesOf(m)
          /\ \A j \in 1 .. Len(_modules') : _modules'[j].key = Module!KeyOf(m) => j = i
  BY DEF ModuleHistory
<1>2. \A m \in DOMAIN listedAs' : \E o \in DOMAIN info' : listedAs'[m] = {o}
  BY DEF ModuleHistory
<1>3. \A m \in Module!Mappings' \cap DOMAIN listedAs' :
          /\ Module!KeyOf(m) \in DOMAIN _moduleMap' /\ listedAs'[m] = {_moduleMap'[Module!KeyOf(m)]}
          /\ epc' # "idle" => m \in steady'
  BY DEF ModuleHistory
<1> QED
  BY <1>1, <1>2, <1>3 DEF ModuleHistory, Module!KeyOf, PagesOf

LEMMA ModuleHistoryStep ==
  ModuleInv /\ ModuleTypes' /\ [Module!Next]_Module!moduleVars => ModuleHistory'
<1> SUFFICES ASSUME ModuleTypes, ModuleSpace, ModuleClient, ModuleList, ModuleWalk, ModuleHistory, ModuleSizes, ModuleTypes',
                    [Module!Next]_Module!moduleVars
             PROVE  ModuleHistory'
  BY DEF ModuleInv
<1>1. CASE Module!BeginWalk
  <2>1. /\ UNCHANGED <<_modules, _moduleMap, listedAs, info>> /\ epc' = "query" /\ steady' = Module!Mappings
        /\ Module!Mappings' = Module!Mappings
    BY <1>1 DEF Module!BeginWalk, Module!Mappings
  <2> QED
    BY <2>1, HistoryGoesOn
<1>2. CASE Module!QueryRegion
  <2>1. /\ UNCHANGED <<_modules, _moduleMap, listedAs, steady>> /\ epc = "query" /\ epc' \in {"query", "name"}
        /\ Module!Mappings' = Module!Mappings /\ DOMAIN info' = DOMAIN info
    BY <1>2 DEF Module!QueryRegion, Module!Mappings, Module!historyVars
  <2>2. \A m \in Module!Mappings \cap DOMAIN listedAs : m \in steady
    BY <2>1 DEF ModuleHistory
  <2> QED
    BY <2>1, <2>2, HistoryGoesOn
<1>3. CASE Module!NameRegion
  <2>1. /\ UNCHANGED <<_modules, _moduleMap, listedAs, steady, space>> /\ epc = "name" /\ epc' = "query"
        /\ DOMAIN info \subseteq DOMAIN info'
    BY <1>3, NameRegionIs
  <2>2. Module!Mappings' = Module!Mappings /\ \A m \in Module!Mappings \cap DOMAIN listedAs : m \in steady
    BY <2>1 DEF ModuleHistory, Module!Mappings
  <2> QED
    BY <2>1, <2>2, HistoryGoesOn
<1>4. CASE Module!EndWalk
  <2>1. /\ epc = "query" /\ epc' = "idle" /\ address > Pages /\ UNCHANGED <<info, space, steady>> /\ Module!Update(modules, map)
    BY <1>4 DEF Module!EndWalk
  <2>2. modules \in Seq(ModuleObjects) /\ \A i \in 1 .. Len(modules) : modules[i] \in DOMAIN info
    BY DEF ModuleTypes
  <2>3. \A key \in DOMAIN map : \E i \in 1 .. Len(modules) : map[key] = modules[i] /\ modules[i].key = key
    <3>1. \A key \in DOMAIN map : \E i \in 1 .. Len(modules) : modules[i] = map[key]
      BY <2>1 DEF ModuleList
    <3>2. \A key \in DOMAIN map : map[key].key = key
      BY DEF ModuleTypes
    <3> QED
      BY <3>1, <3>2
  <2>4. \A i \in 1 .. Len(modules) : /\ modules[i].key \in DOMAIN map
                                     /\ modules[i].key \in DOMAIN _moduleMap => modules[i] = _moduleMap[modules[i].key]
    BY <2>1 DEF ModuleList
  <2>5. steady \subseteq Module!Mappings /\ address \in Nat /\ Pages \in Nat
    BY <2>1, ModuleAssumption DEF ModuleWalk, ModuleTypes
  <2>6. \A m \in steady : \E i \in 1 .. Len(modules) :
            /\ modules[i].key = Module!KeyOf(m) /\ info[modules[i]] = PagesOf(m)
            /\ \A j \in 1 .. Len(modules) : modules[j].key = Module!KeyOf(m) => j = i
    <3> SUFFICES ASSUME NEW m \in steady
                 PROVE  \E i \in 1 .. Len(modules) :
                          /\ modules[i].key = Module!KeyOf(m) /\ info[modules[i]] = PagesOf(m)
                          /\ \A j \in 1 .. Len(modules) : modules[j].key = Module!KeyOf(m) => j = i
      OBVIOUS
    <3>1. m[1] \in 1 .. Pages /\ PagesOf(m) \in Nat \ {0} /\ m[1] + PagesOf(m) - 1 <= Pages
      BY <2>5, SteadyIs
    <3>2. m[1] < address /\ ~(address < m[1] + PagesOf(m))
      <4> HIDE DEF PagesOf
      <4> QED
        BY <2>1, <2>5, <3>1
    <3>3. PICK i \in 1 .. Len(modules) : ListedAt(m, i)
      BY <2>1, <3>2 DEF ModuleWalk
    <3>4. /\ modules[i].key = Module!KeyOf(m) /\ info[modules[i]] = PagesOf(m)
          /\ \A j \in 1 .. Len(modules) : modules[j].key[2] = m[1] => j = i
      BY <3>2, <3>3 DEF ListedAt
    <3>5. Module!KeyOf(m)[2] = m[1]
      BY DEF Module!KeyOf
    <3> QED
      BY <3>4, <3>5
  <2>7. \A m \in Module!Mappings \cap DOMAIN listedAs : m \in steady
    BY <2>1 DEF ModuleHistory
  <2> QED
    BY <2>1, <2>2, <2>3, <2>4, <2>5, <2>6, <2>7, ListLeaves
<1>5. CASE Module!EnumModulesWithToolHelp
  <2>1. PICK list \in Seq(ModuleObjects) :
           LET fresh == {o \in {list[i] : i \in 1 .. Len(list)} : o.key \notin DOMAIN _moduleMap} IN
           /\ ~byHandle /\ epc' = epc /\ space' = space
           /\ \A i \in 1 .. Len(list) :
                /\ \E m \in Module!Mappings : list[i].key = Module!KeyOf(m)
                /\ list[i].key \in DOMAIN _moduleMap => list[i] = _moduleMap[list[i].key]
           /\ \A m \in Module!Mappings : \E i \in 1 .. Len(list) :
                /\ list[i].key = Module!KeyOf(m)
                /\ \A j \in 1 .. Len(list) : list[j].key = Module!KeyOf(m) => j = i
           /\ DOMAIN info' = DOMAIN info \cup fresh
           /\ \A o \in DOMAIN info' : info'[o] = IF o \in fresh THEN Sizes[o.key[1]] ELSE info[o]
           /\ steady' = Module!Mappings
           /\ Module!Update(list, Module!MapOf(list))
    BY <1>5, ToolHelpIs
  <2> DEFINE next == Module!MapOf(list)
  <2>2. Len(list) \in Nat /\ DOMAIN list = 1 .. Len(list)
    OBVIOUS
  <2>3. /\ DOMAIN next = {list[i].key : i \in 1 .. Len(list)}
        /\ \A key \in DOMAIN next : \E i \in 1 .. Len(list) : next[key] = list[i] /\ list[i].key = key
    BY <2>2, MapIs
  <2>4. \A i \in 1 .. Len(list) : list[i].key \in DOMAIN next
    BY <2>3
  <2>5. ASSUME NEW i \in 1 .. Len(list) PROVE list[i] \in DOMAIN info' /\ info'[list[i]] = Sizes[list[i].key[1]]
    <3>1. CASE list[i].key \in DOMAIN _moduleMap
      <4>1. list[i] \in DOMAIN info
        BY <2>1, <3>1 DEF ModuleTypes
      <4>2. info[list[i]] = Sizes[list[i].key[1]]
        BY <2>1, <4>1 DEF ModuleSizes
      <4> QED
        BY <2>1, <3>1, <4>1, <4>2
    <3>2. CASE list[i].key \notin DOMAIN _moduleMap
      BY <2>1, <3>2
    <3> QED
      BY <3>1, <3>2
  <2>6. \A m \in Module!Mappings : Module!KeyOf(m)[1] = m[2].file
    BY DEF Module!KeyOf
  <2>7. \A m \in steady' : \E i \in 1 .. Len(list) :
            /\ list[i].key = Module!KeyOf(m) /\ info'[list[i]] = PagesOf(m)
            /\ \A j \in 1 .. Len(list) : list[j].key = Module!KeyOf(m) => j = i
    BY <2>1, <2>5, <2>6, SMTT(30) DEF PagesOf
  <2>8. epc' = "idle" /\ space' = space /\ DOMAIN info \subseteq DOMAIN info' /\ steady' = Module!Mappings
    BY <2>1 DEF ModuleTypes
  <2>9. Module!Update(list, next) /\ \A i \in 1 .. Len(list) :
          list[i].key \in DOMAIN _moduleMap => list[i] = _moduleMap[list[i].key]
    BY <2>1
  <2> HIDE DEF next
  <2> QED
    BY <2>3, <2>4, <2>5, <2>7, <2>8, <2>9, ListLeaves
<1>6. CASE Module!ToolHelpFails
  <2>1. /\ UNCHANGED <<_modules, _moduleMap, listedAs, steady, space, epc, info>> /\ Module!Mappings' = Module!Mappings
    BY <1>6 DEF Module!ToolHelpFails, Module!listVars, Module!walkVars, Module!Mappings
  <2>2. \A m \in Module!Mappings \cap DOMAIN listedAs : epc # "idle" => m \in steady
    BY DEF ModuleHistory
  <2> QED
    BY <2>1, <2>2, HistoryGoesOn
<1>7. ASSUME NEW file \in DOMAIN Sizes, NEW base \in 1 .. Pages, Module!Map(file, base) PROVE ModuleHistory'
  <2>1. /\ Module!Mappings' = Module!Mappings \cup {<<base, [file |-> file, mapped |-> mapped + 1]>>}
        /\ UNCHANGED <<_modules, _moduleMap, listedAs, steady, epc, info>>
    BY <1>7, MapIsNew
  <2>2. <<base, [file |-> file, mapped |-> mapped + 1]>> \notin DOMAIN listedAs
    <3> DEFINE new == <<base, [file |-> file, mapped |-> mapped + 1]>>
    <3> SUFFICES ASSUME new \in DOMAIN listedAs PROVE FALSE
      OBVIOUS
    <3>1. new[2].mapped = mapped + 1
      OBVIOUS
    <3>2. new[2].mapped \in 1 .. mapped /\ mapped \in Nat
      <4> HIDE DEF new
      <4> QED
        BY DEF ModuleSpace
    <3> QED
      BY <3>1, <3>2
  <2>3. \A m \in Module!Mappings \cap DOMAIN listedAs : epc # "idle" => m \in steady
    BY DEF ModuleHistory
  <2> QED
    BY <2>1, <2>2, <2>3, HistoryGoesOn
<1>8. ASSUME NEW base \in DOMAIN space, Module!Unmap(base) PROVE ModuleHistory'
  <2>1. /\ Module!Mappings' = {m \in Module!Mappings : m[1] # base}
        /\ steady' = IF epc = "idle" THEN steady ELSE {m \in steady : m[1] # base}
        /\ UNCHANGED <<_modules, _moduleMap, listedAs, epc, info>>
    BY <1>8, UnmapIs
  <2>2. \A m \in Module!Mappings \cap DOMAIN listedAs : epc # "idle" => m \in steady
    BY DEF ModuleHistory
  <2> QED
    BY <2>1, <2>2, HistoryGoesOn
<1>9. CASE UNCHANGED Module!moduleVars
  <2>1. /\ UNCHANGED <<_modules, _moduleMap, listedAs, steady, space, epc, info>> /\ Module!Mappings' = Module!Mappings
    BY <1>9 DEF Module!moduleVars, Module!listVars, Module!walkVars, Module!historyVars, Module!Mappings
  <2>2. \A m \in Module!Mappings \cap DOMAIN listedAs : epc # "idle" => m \in steady
    BY DEF ModuleHistory
  <2> QED
    BY <2>1, <2>2, HistoryGoesOn
<1> QED
  BY <1>1, <1>2, <1>3, <1>4, <1>5, <1>6, <1>7, <1>8, <1>9 DEF Module!Next

LEMMA ModuleStep == ModuleInv /\ [Module!Next]_Module!moduleVars => ModuleInv'
<1> SUFFICES ASSUME ModuleInv, [Module!Next]_Module!moduleVars PROVE ModuleInv'
  OBVIOUS
<1>1. ModuleTypes'
  BY ModuleTypesStep DEF ModuleInv
<1>2. ModuleSpace' /\ ModuleClient' /\ ModuleList' /\ ModuleWalk' /\ ModuleSizes'
  BY ModuleSpaceStep, ModuleClientStep, ModuleListStep, ModuleWalkStep, ModuleSizesStep DEF ModuleInv
<1>3. ModuleHistory'
  BY <1>1, ModuleHistoryStep
<1> QED
  BY <1>1, <1>2, <1>3 DEF ModuleInv

LEMMA ModuleInit == Module!Init => ModuleInv
<1> SUFFICES ASSUME Module!Init PROVE ModuleInv
  OBVIOUS
<1>1. /\ Pages \in Nat /\ byHandle \in BOOLEAN /\ _modules = <<>> /\ _newModules = {} /\ _unloadedModules = {}
      /\ epc = "idle" /\ address = 1 /\ modules = <<>> /\ enums = 0 /\ mapped = 0 /\ steady = {} /\ client = {}
  BY ModuleAssumption DEF Module!Init
<1>2. DOMAIN info = {} /\ DOMAIN _moduleMap = {} /\ DOMAIN map = {} /\ DOMAIN space = {} /\ DOMAIN listedAs = {}
  BY DEF Module!Init
<1>3. 1 .. Len(_modules) = {} /\ 1 .. Len(modules) = {} /\ _modules \in Seq(ModuleObjects) /\ modules \in Seq(ModuleObjects)
  BY <1>1
<1>4. ModuleTypes
  BY <1>1, <1>2, <1>3 DEF ModuleTypes
<1>5. ModuleSpace
  BY <1>1, <1>2 DEF ModuleSpace
<1>6. ModuleClient
  BY <1>1, <1>2 DEF ModuleClient, Module!KeysOf
<1>7. ModuleList /\ ModuleWalk /\ ModuleSizes
  BY <1>1, <1>2 DEF ModuleList, ModuleWalk, ModuleSizes
<1>8. ModuleHistory
  BY <1>1, <1>2 DEF ModuleHistory
<1> QED
  BY <1>4, <1>5, <1>6, <1>7, <1>8 DEF ModuleInv

LEMMA ModuleConcludes ==
  ModuleInv => Module!TypeOK /\ Module!ClientHasModules /\ Module!SteadyIsListed /\ Module!ObjectsAreKept
<1> SUFFICES ASSUME ModuleInv PROVE Module!TypeOK /\ Module!ClientHasModules /\ Module!SteadyIsListed /\ Module!ObjectsAreKept
  OBVIOUS
<1>1. _modules \in Seq(ModuleObjects) /\ modules \in Seq(ModuleObjects)
  BY DEF ModuleInv, ModuleTypes
<1>2. DOMAIN _modules = 1 .. Len(_modules) /\ DOMAIN modules = 1 .. Len(modules)
  BY <1>1
<1>3. Module!ToSet(_modules) = {_modules[i] : i \in 1 .. Len(_modules)} /\ Module!ToSet(modules) = {modules[i] : i \in 1 .. Len(modules)}
  BY <1>2 DEF Module!ToSet
<1>4. Module!TypeOK
  BY <1>3 DEF ModuleInv, ModuleTypes, Module!TypeOK
<1>5. Module!ClientHasModules
  BY DEF ModuleInv, ModuleClient, Module!ClientHasModules
<1>6. \A S : Module!Cardinality(S) = Cardinality(S)
  BY DEF Module!Cardinality, Cardinality
<1>7. \A o : Cardinality({o}) = 1
  BY FS_Singleton
<1>8. Module!SteadyIsListed
  <2> SUFFICES ASSUME epc = "idle", NEW m \in steady
               PROVE  LET places == {i \in DOMAIN _modules : _modules[i].key = Module!KeyOf(m)}
                      IN Module!Cardinality(places) = 1 /\ \A i \in places : info[_modules[i]] = Sizes[m[2].file]
    BY DEF Module!SteadyIsListed
  <2> DEFINE places == {i \in DOMAIN _modules : _modules[i].key = Module!KeyOf(m)}
  <2>1. PICK i \in 1 .. Len(_modules) :
          /\ _modules[i].key = Module!KeyOf(m) /\ info[_modules[i]] = PagesOf(m)
          /\ \A j \in 1 .. Len(_modules) : _modules[j].key = Module!KeyOf(m) => j = i
    BY DEF ModuleInv, ModuleHistory
  <2>2. places = {i}
    BY <1>2, <2>1
  <2> QED
    BY <1>6, <1>7, <2>1, <2>2 DEF PagesOf
<1>9. Module!ObjectsAreKept
  BY <1>6, <1>7 DEF ModuleInv, ModuleHistory, Module!ObjectsAreKept
<1> QED
  BY <1>4, <1>5, <1>8, <1>9

-----------------------------------------------------------------------------
(* The bytes counted (ProcessNetwork).                                       *)

NetworkPids == {c.pid : c \in Ends}
ConnectionIds == {Network!ConnectionOf(c) : c \in Ends}

NetworkTypes ==
    /\ running \in BOOLEAN
    /\ DOMAIN m_Counters \subseteq NetworkPids /\ \A p \in DOMAIN m_Counters : m_Counters[p] \in Nat \ {0}
    /\ DOMAIN m_Connections \subseteq ConnectionIds /\ \A id \in DOMAIN m_Connections : m_Connections[id] \in Nat \ {0}
    /\ tpc \in {"wait", "read", "prune", "count"} /\ events \in Nat
    /\ table \subseteq Ends /\ DOMAIN seen = table /\ \A c \in table : seen[c] \in Nat
    /\ \A e \in inFlight : e.number \in Nat \ {0} /\ e.ends \in Ends
    /\ IF tpc = "wait" THEN event = Network!NoEvent ELSE event.number \in Nat \ {0} /\ event.ends \in Ends
    /\ ~running => /\ tpc = "wait" /\ inFlight = {}
                   /\ m_Counters = Network!Empty /\ m_Connections = Network!Empty

\* a connection that opened since the table was read has nothing counted before the prune
NetworkCounts ==
    /\ \A p \in NetworkPids :
         /\ IsFiniteSet(Network!BytesOf(p))
         /\ Cardinality(Network!BytesOf(p)) <= Network!Count(m_Counters, p)
    /\ \A c \in table : Network!Count(m_Connections, Network!IdOf(c)) >= seen[c]
    /\ tpc = "prune" => \A c \in table : Network!IdOf(c) \in live \/ seen[c] = 0

NetworkInv == NetworkTypes /\ NetworkCounts

\* a connection's bytes, numbered
Bytes(f, p) == UNION {{id} \X (1 .. f[id]) : id \in {id \in DOMAIN f : id.pid = p}}

LEMMA BytesAre ==
  ASSUME NEW f, NEW p
  PROVE  \A x : x \in Bytes(f, p) <=> \E id \in DOMAIN f : id.pid = p /\ \E n \in 1 .. f[id] : x = <<id, n>>
  BY DEF Bytes

\* fewer when connections are forgotten, one more when one is counted
LEMMA BytesFewer ==
  ASSUME NEW f, NEW g, DOMAIN g \subseteq DOMAIN f, \A id \in DOMAIN g : g[id] = f[id], NEW p, IsFiniteSet(Bytes(f, p))
  PROVE  /\ IsFiniteSet(Bytes(g, p)) /\ Cardinality(Bytes(g, p)) <= Cardinality(Bytes(f, p))
         /\ Cardinality(Bytes(g, p)) \in Nat /\ Cardinality(Bytes(f, p)) \in Nat
<1>1. Bytes(g, p) \subseteq Bytes(f, p)
  BY BytesAre
<1> QED
  BY <1>1, FS_Subset, FS_CardinalityType

LEMMA BytesMore ==
  ASSUME NEW f, \A id \in DOMAIN f : f[id] \in Nat, NEW g, NEW c, DOMAIN g = DOMAIN f \cup {c},
         g[c] = Network!Count(f, c) + 1, \A id \in DOMAIN f : id # c => g[id] = f[id],
         NEW p, IsFiniteSet(Bytes(f, p))
  PROVE  /\ IsFiniteSet(Bytes(g, p)) /\ Cardinality(Bytes(g, p)) \in Nat /\ Cardinality(Bytes(f, p)) \in Nat
         /\ Cardinality(Bytes(g, p)) <= Cardinality(Bytes(f, p)) + 1
         /\ c.pid # p => Cardinality(Bytes(g, p)) = Cardinality(Bytes(f, p))
<1> DEFINE one == <<c, g[c]>>
<1>1. ASSUME NEW id \in DOMAIN g, id # c, NEW n \in 1 .. g[id] PROVE id \in DOMAIN f /\ n \in 1 .. f[id]
  BY <1>1
<1>2. ASSUME NEW n \in 1 .. g[c], n # g[c] PROVE c \in DOMAIN f /\ n \in 1 .. f[c]
  BY <1>2 DEF Network!Count
<1>3. Bytes(g, p) \subseteq Bytes(f, p) \cup {one}
  <2> SUFFICES ASSUME NEW x \in Bytes(g, p), x # one PROVE x \in Bytes(f, p)
    OBVIOUS
  <2>1. PICK id \in DOMAIN g : id.pid = p /\ \E n \in 1 .. g[id] : x = <<id, n>>
    BY BytesAre
  <2>2. PICK n \in 1 .. g[id] : x = <<id, n>>
    BY <2>1
  <2>3. id \in DOMAIN f /\ n \in 1 .. f[id]
    BY <1>1, <1>2, <2>2
  <2> QED
    BY <2>1, <2>2, <2>3, BytesAre
<1>4. c.pid # p => Bytes(g, p) \subseteq Bytes(f, p)
  <2> SUFFICES ASSUME c.pid # p, NEW x \in Bytes(g, p) PROVE x \in Bytes(f, p)
    OBVIOUS
  <2>1. PICK id \in DOMAIN g : id.pid = p /\ \E n \in 1 .. g[id] : x = <<id, n>>
    BY BytesAre
  <2>2. id \in DOMAIN f /\ g[id] = f[id]
    BY <2>1
  <2> QED
    BY <2>1, <2>2, BytesAre
<1>5. Bytes(f, p) \subseteq Bytes(g, p)
  <2> SUFFICES ASSUME NEW x \in Bytes(f, p) PROVE x \in Bytes(g, p)
    OBVIOUS
  <2>1. PICK id \in DOMAIN f : id.pid = p /\ \E n \in 1 .. f[id] : x = <<id, n>>
    BY BytesAre
  <2>2. 1 .. f[id] \subseteq 1 .. g[id]
    BY DEF Network!Count
  <2> QED
    BY <2>1, <2>2, BytesAre
<1>6. /\ IsFiniteSet(Bytes(f, p) \cup {one}) /\ Cardinality(Bytes(f, p)) \in Nat
      /\ Cardinality(Bytes(f, p) \cup {one}) <= Cardinality(Bytes(f, p)) + 1 /\ Cardinality(Bytes(f, p) \cup {one}) \in Nat
  <2> HIDE DEF one
  <2>1. IsFiniteSet(Bytes(f, p) \cup {one}) /\ Cardinality(Bytes(f, p)) \in Nat
        /\ Cardinality(Bytes(f, p) \cup {one}) = IF one \in Bytes(f, p) THEN Cardinality(Bytes(f, p)) ELSE Cardinality(Bytes(f, p)) + 1
    BY FS_AddElement, FS_CardinalityType
  <2> QED
    BY <2>1
<1> HIDE DEF one
<1>7. IsFiniteSet(Bytes(g, p)) /\ Cardinality(Bytes(g, p)) <= Cardinality(Bytes(f, p) \cup {one}) /\ Cardinality(Bytes(g, p)) \in Nat
  BY <1>3, <1>6, FS_Subset, FS_CardinalityType
<1>8. c.pid # p => Cardinality(Bytes(g, p)) = Cardinality(Bytes(f, p))
  <2> SUFFICES ASSUME c.pid # p PROVE Cardinality(Bytes(g, p)) = Cardinality(Bytes(f, p))
    OBVIOUS
  <2>1. Bytes(g, p) = Bytes(f, p)
    BY <1>4, <1>5
  <2> QED
    BY <2>1
<1>9. Cardinality(Bytes(g, p)) <= Cardinality(Bytes(f, p)) + 1
  BY <1>6, <1>7
<1> QED
  BY <1>6, <1>7, <1>8, <1>9

\* the ID of a connection has its process's
LEMMA ConnectionIs ==
  ASSUME NEW c \in Ends
  PROVE  Network!ConnectionOf(c).pid = c.pid /\ c.pid \in NetworkPids /\ Network!ConnectionOf(c) \in ConnectionIds
         /\ Network!IdOf(c) = Network!ConnectionOf(c)
<1>1. c \in [pid : Nat, udp : BOOLEAN, local : Nat, port : Nat, remote : Nat]
  BY NetworkAssumption
<1>2. Network!ConnectionOf(c).pid = c.pid
  BY <1>1 DEF Network!ConnectionOf
<1> QED
  BY <1>2 DEF NetworkPids, ConnectionIds, Network!IdOf, Network!ConnectionOf

LEMMA NetworkTypesStep == NetworkTypes /\ [Network!Next]_Network!networkVars => NetworkTypes'
<1> SUFFICES ASSUME NetworkTypes, [Network!Next]_Network!networkVars PROVE NetworkTypes'
  OBVIOUS
<1>1. ASSUME NEW c \in Ends, Network!Open(c) PROVE NetworkTypes'
  BY <1>1 DEF Network!Open, NetworkTypes, Network!With, Network!trackerVars
<1>2. ASSUME NEW c \in Ends, Network!Close(c) PROVE NetworkTypes'
  BY <1>2 DEF Network!Close, NetworkTypes, Network!Without, Network!Restrict, Network!trackerVars
<1>3. ASSUME NEW c \in Ends, Network!Transfer(c) PROVE NetworkTypes'
  BY <1>3 DEF Network!Transfer, NetworkTypes, Network!trackerVars
<1>4. ASSUME NEW pid \in NetworkPids, Network!RemoveProcess(pid) PROVE NetworkTypes'
  <2>1. /\ DOMAIN m_Counters' \subseteq DOMAIN m_Counters /\ \A p \in DOMAIN m_Counters' : m_Counters'[p] = m_Counters[p]
        /\ DOMAIN m_Connections' \subseteq DOMAIN m_Connections
        /\ \A id \in DOMAIN m_Connections' : m_Connections'[id] = m_Connections[id]
    BY <1>4 DEF Network!RemoveProcess, Network!Without, Network!Restrict
  <2>2. /\ running /\ UNCHANGED <<running, tpc, event, table, inFlight, events>> /\ DOMAIN seen' = DOMAIN seen
        /\ \A c \in DOMAIN seen : seen'[c] = IF c.pid = pid THEN 0 ELSE seen[c]
    BY <1>4 DEF Network!RemoveProcess, Network!worldVars
  <2> QED
    BY <2>1, <2>2 DEF NetworkTypes
<1>5. CASE Network!TakeEvent
  BY <1>5 DEF Network!TakeEvent, NetworkTypes
<1>6. CASE Network!ReadTable
  BY <1>6 DEF Network!ReadTable, NetworkTypes, Network!worldVars
<1>7. CASE Network!PruneConnections
  <2>1. /\ DOMAIN m_Connections' \subseteq DOMAIN m_Connections /\ tpc = "prune" /\ tpc' = "count"
        /\ \A id \in DOMAIN m_Connections' : m_Connections'[id] = m_Connections[id]
        /\ UNCHANGED <<m_Counters, running, event, table, inFlight, events, seen>>
    BY <1>7 DEF Network!PruneConnections, Network!Restrict, Network!worldVars
  <2> QED
    BY <2>1 DEF NetworkTypes
<1>8. CASE Network!CountEvent
  <2>1. /\ tpc = "count" /\ tpc' = "wait" /\ event' = Network!NoEvent
        /\ UNCHANGED <<running, table, inFlight, events>>
    BY <1>8 DEF Network!CountEvent, Network!worldVars
  <2>2. event.ends \in Ends /\ running
    BY <2>1 DEF NetworkTypes
  <2>3. /\ DOMAIN m_Counters' \subseteq DOMAIN m_Counters \cup {event.ends.pid}
        /\ \A p \in DOMAIN m_Counters' : m_Counters'[p] \in Nat \ {0}
    BY <1>8 DEF Network!CountEvent, Network!Add, Network!With, Network!Count, NetworkTypes
  <2>4. /\ DOMAIN m_Connections' \subseteq DOMAIN m_Connections \cup {Network!ConnectionOf(event.ends)}
        /\ \A id \in DOMAIN m_Connections' : m_Connections'[id] \in Nat \ {0}
    BY <1>8 DEF Network!CountEvent, Network!Add, Network!With, Network!Count, NetworkTypes
  <2>5. DOMAIN seen' = DOMAIN seen /\ \A c \in DOMAIN seen' : seen'[c] \in Nat
    BY <1>8 DEF Network!CountEvent, NetworkTypes
  <2> QED
    BY <2>1, <2>2, <2>3, <2>4, <2>5, ConnectionIs DEF NetworkTypes
<1>9. CASE Network!Start
  BY <1>9 DEF Network!Start, NetworkTypes, Network!worldVars
<1>10. CASE Network!Stop
  <2>1. DOMAIN m_Connections' = {} /\ DOMAIN m_Counters' = {} /\ DOMAIN seen' = table /\ \A c \in table : seen'[c] = 0
    BY <1>10 DEF Network!Stop, Network!Empty
  <2>2. /\ m_Connections' = Network!Empty /\ m_Counters' = Network!Empty /\ running' = FALSE /\ tpc = "wait"
        /\ inFlight' = {} /\ UNCHANGED <<tpc, event, table, events>>
    BY <1>10 DEF Network!Stop
  <2>3. event' = Network!NoEvent /\ tpc' = "wait" /\ running' \in BOOLEAN /\ table' \subseteq Ends /\ events' \in Nat
    BY <2>2 DEF NetworkTypes
  <2>4. DOMAIN seen' = table' /\ \A c \in table' : seen'[c] \in Nat
    BY <2>1, <2>2
  <2> QED
    BY <2>1, <2>2, <2>3, <2>4 DEF NetworkTypes
<1>11. CASE UNCHANGED Network!networkVars
  BY <1>11 DEF NetworkTypes, Network!networkVars, Network!trackerVars, Network!worldVars
<1> QED
  BY <1>1, <1>2, <1>3, <1>4, <1>5, <1>6, <1>7, <1>8, <1>9, <1>10, <1>11 DEF Network!Next, NetworkPids

\* a process's count against its connections' bytes, in terms of what the steps change
WithinProcess(connections, counters) ==
    \A p \in NetworkPids :
       IsFiniteSet(Bytes(connections, p)) /\ Cardinality(Bytes(connections, p)) <= Network!Count(counters, p)

LEMMA WithinIs ==
  /\ WithinProcess(m_Connections, m_Counters) <=>
       \A p \in NetworkPids : /\ IsFiniteSet(Network!BytesOf(p))
                              /\ Cardinality(Network!BytesOf(p)) <= Network!Count(m_Counters, p)
  /\ WithinProcess(m_Connections', m_Counters') <=>
       (\A p \in NetworkPids : /\ IsFiniteSet(Network!BytesOf(p))
                               /\ Cardinality(Network!BytesOf(p)) <= Network!Count(m_Counters, p))'
  BY DEF WithinProcess, Bytes, Network!BytesOf, Network!Count

LEMMA NetworkWithinStep ==
  ASSUME NetworkTypes, WithinProcess(m_Connections, m_Counters), [Network!Next]_Network!networkVars
  PROVE  WithinProcess(m_Connections', m_Counters')
<1>1. CASE UNCHANGED <<m_Connections, m_Counters>>
  BY <1>1
<1>2. ASSUME NEW pid \in NetworkPids, Network!RemoveProcess(pid) PROVE WithinProcess(m_Connections', m_Counters')
  <2>1. /\ DOMAIN m_Connections' = DOMAIN m_Connections \ {id \in DOMAIN m_Connections : id.pid = pid}
        /\ \A id \in DOMAIN m_Connections' : m_Connections'[id] = m_Connections[id]
        /\ \A p \in NetworkPids : Network!Count(m_Counters', p) = IF p = pid THEN 0 ELSE Network!Count(m_Counters, p)
    BY <1>2 DEF Network!RemoveProcess, Network!Without, Network!Restrict, Network!RemovedConnections, Network!Count
  <2> SUFFICES ASSUME NEW p \in NetworkPids
               PROVE  /\ IsFiniteSet(Bytes(m_Connections', p))
                      /\ Cardinality(Bytes(m_Connections', p)) <= Network!Count(m_Counters', p)
    BY DEF WithinProcess
  <2>2. CASE p = pid
    <3>1. Bytes(m_Connections', p) = {}
      BY <2>1, <2>2, BytesAre
    <3> QED
      BY <2>1, <2>2, <3>1, FS_EmptySet
  <2>3. CASE p # pid
    <3>1. /\ IsFiniteSet(Bytes(m_Connections, p)) /\ Cardinality(Bytes(m_Connections, p)) <= Network!Count(m_Counters, p)
          /\ Network!Count(m_Counters', p) = Network!Count(m_Counters, p) /\ Network!Count(m_Counters, p) \in Nat
      BY <2>1, <2>3 DEF WithinProcess, NetworkTypes, Network!Count
    <3>2. /\ IsFiniteSet(Bytes(m_Connections', p)) /\ Cardinality(Bytes(m_Connections', p)) <= Cardinality(Bytes(m_Connections, p))
          /\ Cardinality(Bytes(m_Connections', p)) \in Nat /\ Cardinality(Bytes(m_Connections, p)) \in Nat
      BY <2>1, <3>1, BytesFewer
    <3> QED
      BY <3>1, <3>2
  <2> QED
    BY <2>2, <2>3
<1>3. CASE Network!PruneConnections
  <2>1. /\ DOMAIN m_Connections' \subseteq DOMAIN m_Connections /\ m_Counters' = m_Counters
        /\ \A id \in DOMAIN m_Connections' : m_Connections'[id] = m_Connections[id]
    BY <1>3 DEF Network!PruneConnections, Network!Restrict
  <2> SUFFICES ASSUME NEW p \in NetworkPids
               PROVE  /\ IsFiniteSet(Bytes(m_Connections', p))
                      /\ Cardinality(Bytes(m_Connections', p)) <= Network!Count(m_Counters', p)
    BY DEF WithinProcess
  <2>2. /\ IsFiniteSet(Bytes(m_Connections, p)) /\ Cardinality(Bytes(m_Connections, p)) <= Network!Count(m_Counters, p)
        /\ Network!Count(m_Counters', p) = Network!Count(m_Counters, p) /\ Network!Count(m_Counters, p) \in Nat
    BY <2>1 DEF WithinProcess, NetworkTypes, Network!Count
  <2>3. /\ IsFiniteSet(Bytes(m_Connections', p)) /\ Cardinality(Bytes(m_Connections', p)) <= Cardinality(Bytes(m_Connections, p))
        /\ Cardinality(Bytes(m_Connections', p)) \in Nat /\ Cardinality(Bytes(m_Connections, p)) \in Nat
    BY <2>1, <2>2, BytesFewer
  <2> QED
    BY <2>2, <2>3
<1>4. CASE Network!CountEvent
  <2>1. tpc = "count" /\ event.ends \in Ends
    BY <1>4 DEF Network!CountEvent, NetworkTypes
  <2>2. PICK c : c = Network!ConnectionOf(event.ends)
    OBVIOUS
  <2>3. c.pid = event.ends.pid /\ c.pid \in NetworkPids
    BY <2>1, <2>2, ConnectionIs
  <2> SUFFICES ASSUME NEW p \in NetworkPids
               PROVE  /\ IsFiniteSet(Bytes(m_Connections', p))
                      /\ Cardinality(Bytes(m_Connections', p)) <= Network!Count(m_Counters', p)
    BY DEF WithinProcess
  <2>4. Network!Count(m_Counters', p) = IF p = c.pid THEN Network!Count(m_Counters, p) + 1 ELSE Network!Count(m_Counters, p)
    <3>1. m_Counters' = Network!Add(m_Counters, c.pid)
      BY <1>4, <2>3 DEF Network!CountEvent
    <3> QED
      BY <3>1 DEF Network!Add, Network!With, Network!Count
  <2>5. /\ IsFiniteSet(Bytes(m_Connections, p)) /\ Cardinality(Bytes(m_Connections, p)) <= Network!Count(m_Counters, p)
        /\ Network!Count(m_Counters, p) \in Nat /\ Cardinality(Bytes(m_Connections, p)) \in Nat
    BY FS_CardinalityType DEF WithinProcess, NetworkTypes, Network!Count
  <2>6. CASE m_Connections' = m_Connections
    BY <2>4, <2>5, <2>6
  <2>7. CASE m_Connections' = Network!Add(m_Connections, c)
    <3>1. /\ DOMAIN m_Connections' = DOMAIN m_Connections \cup {c} /\ m_Connections'[c] = Network!Count(m_Connections, c) + 1
          /\ \A id \in DOMAIN m_Connections : id # c => m_Connections'[id] = m_Connections[id]
      BY <2>7 DEF Network!Add, Network!With
    <3>2. \A id \in DOMAIN m_Connections : m_Connections[id] \in Nat
      BY DEF NetworkTypes
    <3>3. /\ IsFiniteSet(Bytes(m_Connections', p)) /\ Cardinality(Bytes(m_Connections', p)) \in Nat
          /\ Cardinality(Bytes(m_Connections', p)) <= Cardinality(Bytes(m_Connections, p)) + 1
          /\ c.pid # p => Cardinality(Bytes(m_Connections', p)) = Cardinality(Bytes(m_Connections, p))
      BY <2>5, <3>1, <3>2, BytesMore
    <3> QED
      BY <2>4, <2>5, <3>3
  <2> QED
    BY <1>4, <2>2, <2>6, <2>7 DEF Network!CountEvent
<1>5. CASE Network!Stop
  <2>1. DOMAIN m_Connections' = {} /\ DOMAIN m_Counters' = {}
    BY <1>5 DEF Network!Stop, Network!Empty
  <2>2. \A p \in NetworkPids : Bytes(m_Connections', p) = {} /\ Network!Count(m_Counters', p) = 0
    BY <2>1, BytesAre DEF Network!Count
  <2> QED
    BY <2>2, FS_EmptySet DEF WithinProcess
<1>6. \/ UNCHANGED <<m_Connections, m_Counters>> \/ Network!PruneConnections \/ Network!CountEvent \/ Network!Stop
      \/ \E pid \in NetworkPids : Network!RemoveProcess(pid)
  BY DEF Network!Next, Network!networkVars, Network!Open, Network!Close, Network!Transfer, Network!TakeEvent, Network!ReadTable,
         Network!Start, Network!trackerVars, NetworkPids
<1> QED
  BY <1>1, <1>2, <1>3, <1>4, <1>5, <1>6

\* what is counted on each connection that stays open
NetworkOpen ==
    /\ \A c \in table : Network!Count(m_Connections, Network!IdOf(c)) >= seen[c]
    /\ tpc = "prune" => \A c \in table : Network!IdOf(c) \in live \/ seen[c] = 0

LEMMA NetworkOpenStep ==
  ASSUME NetworkTypes, NetworkTypes', NetworkOpen, [Network!Next]_Network!networkVars
  PROVE  NetworkOpen'
<1>0. /\ table \subseteq Ends /\ DOMAIN seen = table /\ \A c \in table : seen[c] \in Nat
      /\ \A id : Network!Count(m_Connections, id) \in Nat
  BY DEF NetworkTypes, Network!Count
<1>1. ASSUME NEW c \in Ends, Network!Open(c) PROVE NetworkOpen'
  <2>1. table' = table \cup {c} /\ seen'[c] = 0 /\ \A d \in table : d # c => seen'[d] = seen[d]
    BY <1>0, <1>1 DEF Network!Open, Network!With
  <2>2. UNCHANGED <<m_Connections, tpc, live>> /\ c \notin table
    BY <1>1 DEF Network!Open, Network!trackerVars
  <2>3. \A d \in table' : Network!Count(m_Connections', Network!IdOf(d)) >= seen'[d]
    BY <1>0, <2>1, <2>2 DEF NetworkOpen
  <2> QED
    BY <2>1, <2>2, <2>3 DEF NetworkOpen, Network!Count, Network!IdOf
<1>2. ASSUME NEW c \in Ends, Network!Close(c) PROVE NetworkOpen'
  <2>1. table' = table \ {c} /\ \A d \in table' : seen'[d] = seen[d]
    BY <1>0, <1>2 DEF Network!Close, Network!Without, Network!Restrict
  <2>2. UNCHANGED <<m_Connections, tpc, live>>
    BY <1>2 DEF Network!Close, Network!trackerVars
  <2> QED
    BY <2>1, <2>2 DEF NetworkOpen, Network!Count, Network!IdOf
<1>3. ASSUME NEW pid \in NetworkPids, Network!RemoveProcess(pid) PROVE NetworkOpen'
  <2>1. /\ DOMAIN m_Connections' = DOMAIN m_Connections \ {id \in DOMAIN m_Connections : id.pid = pid}
        /\ \A id \in DOMAIN m_Connections' : m_Connections'[id] = m_Connections[id]
    BY <1>3 DEF Network!RemoveProcess, Network!Without, Network!Restrict, Network!RemovedConnections
  <2>2. UNCHANGED <<tpc, live, table>> /\ \A c \in table : seen'[c] = IF c.pid = pid THEN 0 ELSE seen[c]
    BY <1>0, <1>3 DEF Network!RemoveProcess, Network!worldVars
  <2>3. \A c \in table : Network!IdOf(c).pid = c.pid
    BY <1>0, ConnectionIs
  <2>4. \A c \in table : Network!Count(m_Connections', Network!IdOf(c)) >= seen'[c]
    <3> SUFFICES ASSUME NEW c \in table PROVE Network!Count(m_Connections', Network!IdOf(c)) >= seen'[c]
      OBVIOUS
    <3>1. CASE c.pid = pid
      <4>1. Network!IdOf(c) \notin DOMAIN m_Connections' /\ seen'[c] = 0
        BY <2>1, <2>2, <2>3, <3>1
      <4> QED
        BY <4>1 DEF Network!Count
    <3>2. CASE c.pid # pid
      <4>1. Network!Count(m_Connections', Network!IdOf(c)) = Network!Count(m_Connections, Network!IdOf(c)) /\ seen'[c] = seen[c]
        BY <2>1, <2>2, <2>3, <3>2 DEF Network!Count
      <4> QED
        BY <4>1 DEF NetworkOpen
    <3> QED
      BY <3>1, <3>2
  <2>5. tpc' = "prune" => \A c \in table' : Network!IdOf(c) \in live' \/ seen'[c] = 0
    BY <2>2 DEF NetworkOpen
  <2> QED
    BY <2>2, <2>4, <2>5 DEF NetworkOpen, Network!Count, Network!IdOf
<1>4. CASE Network!ReadTable
  <2>1. UNCHANGED <<m_Connections, table, seen>> /\ (tpc' = "prune" => live' = {Network!IdOf(c) : c \in table})
    BY <1>4 DEF Network!ReadTable, Network!worldVars
  <2> QED
    BY <2>1 DEF NetworkOpen, Network!Count, Network!IdOf
<1>5. CASE Network!PruneConnections
  <2>1. /\ DOMAIN m_Connections' = DOMAIN m_Connections \cap live /\ tpc = "prune" /\ tpc' = "count"
        /\ \A id \in DOMAIN m_Connections' : m_Connections'[id] = m_Connections[id]
        /\ UNCHANGED <<table, seen>>
    BY <1>5 DEF Network!PruneConnections, Network!Restrict, Network!worldVars
  <2>2. \A c \in table : Network!Count(m_Connections', Network!IdOf(c)) >= seen[c]
    <3> SUFFICES ASSUME NEW c \in table PROVE Network!Count(m_Connections', Network!IdOf(c)) >= seen[c]
      OBVIOUS
    <3>1. CASE Network!IdOf(c) \in live
      <4>1. Network!Count(m_Connections', Network!IdOf(c)) = Network!Count(m_Connections, Network!IdOf(c))
        BY <2>1, <3>1 DEF Network!Count
      <4> QED
        BY <4>1 DEF NetworkOpen
    <3>2. CASE Network!IdOf(c) \notin live
      <4>1. seen[c] = 0 /\ Network!Count(m_Connections', Network!IdOf(c)) = 0
        BY <2>1, <3>2 DEF NetworkOpen, Network!Count
      <4> QED
        BY <4>1
    <3> QED
      BY <3>1, <3>2
  <2> QED
    BY <2>1, <2>2 DEF NetworkOpen, Network!Count, Network!IdOf
<1>6. CASE Network!CountEvent
  <2>1. tpc = "count" /\ tpc' = "wait" /\ event.ends \in Ends /\ table' = table
    BY <1>6 DEF Network!CountEvent, NetworkTypes, Network!worldVars
  <2>2. PICK id : id = Network!ConnectionOf(event.ends) /\ id = Network!IdOf(event.ends)
    BY <2>1, ConnectionIs
  <2>3. CASE UNCHANGED <<m_Connections, seen>>
    BY <2>1, <2>3 DEF NetworkOpen, Network!Count, Network!IdOf
  <2>4. CASE /\ m_Connections' = Network!Add(m_Connections, id)
             /\ seen' = IF event.ends \in DOMAIN seen THEN [seen EXCEPT ![event.ends] = seen[event.ends] + 1] ELSE seen
    <3>1. \A x : Network!Count(m_Connections', x) = IF x = id THEN Network!Count(m_Connections, x) + 1 ELSE Network!Count(m_Connections, x)
      BY <2>4 DEF Network!Add, Network!With, Network!Count
    <3>2. \A c \in table : seen'[c] = IF c = event.ends THEN seen[c] + 1 ELSE seen[c]
      BY <1>0, <2>4
    <3>3. \A c \in table : Network!Count(m_Connections', Network!IdOf(c)) >= seen'[c]
      <4> SUFFICES ASSUME NEW c \in table PROVE Network!Count(m_Connections', Network!IdOf(c)) >= seen'[c]
        OBVIOUS
      <4>1. /\ Network!Count(m_Connections, Network!IdOf(c)) >= seen[c] /\ seen[c] \in Nat
            /\ Network!Count(m_Connections, Network!IdOf(c)) \in Nat
        BY <1>0 DEF NetworkOpen
      <4>2. CASE c = event.ends
        <5>1. Network!Count(m_Connections', Network!IdOf(c)) = Network!Count(m_Connections, Network!IdOf(c)) + 1
          BY <2>2, <3>1, <4>2
        <5> QED
          BY <3>2, <4>1, <4>2, <5>1
      <4>3. CASE c # event.ends
        BY <3>1, <3>2, <4>1, <4>3
      <4> QED
        BY <4>2, <4>3
    <3> QED
      BY <2>1, <3>3 DEF NetworkOpen, Network!Count, Network!IdOf
  <2> QED
    BY <1>6, <2>2, <2>3, <2>4 DEF Network!CountEvent
<1>7. CASE Network!Stop
  <2>1. table' = table /\ tpc' = "wait" /\ \A c \in table : seen'[c] = 0
    BY <1>7 DEF Network!Stop
  <2>2. \A x : Network!Count(m_Connections', x) \in Nat
    BY DEF NetworkTypes, Network!Count
  <2>3. \A c \in table : Network!Count(m_Connections', Network!IdOf(c)) >= seen'[c]
    BY <2>1, <2>2
  <2> QED
    BY <2>1, <2>3 DEF NetworkOpen, Network!Count, Network!IdOf
<1>8. CASE UNCHANGED <<m_Connections, table, seen, live, tpc>>
  BY <1>8 DEF NetworkOpen, Network!Count, Network!IdOf
<1>9. CASE Network!TakeEvent
  <2>1. UNCHANGED <<m_Connections, table, seen>> /\ tpc' # "prune"
    BY <1>9 DEF Network!TakeEvent
  <2> QED
    BY <2>1 DEF NetworkOpen, Network!Count, Network!IdOf
<1>10. ASSUME NEW c \in Ends, Network!Transfer(c) PROVE UNCHANGED <<m_Connections, table, seen, live, tpc>>
  BY <1>10 DEF Network!Transfer, Network!trackerVars
<1>11. Network!Start \/ UNCHANGED Network!networkVars => UNCHANGED <<m_Connections, table, seen, live, tpc>>
  BY DEF Network!Start, Network!networkVars, Network!trackerVars, Network!worldVars
<1> QED
  BY <1>1, <1>2, <1>3, <1>4, <1>5, <1>6, <1>7, <1>8, <1>9, <1>10, <1>11 DEF Network!Next, NetworkPids

LEMMA NetworkStep == NetworkInv /\ [Network!Next]_Network!networkVars => NetworkInv'
<1> SUFFICES ASSUME NetworkInv, [Network!Next]_Network!networkVars PROVE NetworkInv'
  OBVIOUS
<1>1. NetworkTypes'
  BY NetworkTypesStep DEF NetworkInv
<1>2. WithinProcess(m_Connections', m_Counters')
  BY WithinIs, NetworkWithinStep DEF NetworkInv, NetworkCounts
<1>3. NetworkOpen'
  BY <1>1, NetworkOpenStep DEF NetworkInv, NetworkCounts, NetworkOpen
<1> QED
  BY <1>1, <1>2, <1>3, WithinIs DEF NetworkInv, NetworkCounts, NetworkOpen

LEMMA NetworkInit == Network!Init => NetworkInv
<1> SUFFICES ASSUME Network!Init PROVE NetworkInv
  OBVIOUS
<1>1. NetworkTypes
  <2>1. DOMAIN m_Connections = {} /\ DOMAIN m_Counters = {} /\ DOMAIN seen = {}
    BY DEF Network!Init, Network!Empty
  <2>2. /\ m_Connections = Network!Empty /\ m_Counters = Network!Empty /\ running = FALSE /\ tpc = "wait"
        /\ event = Network!NoEvent /\ table = {} /\ inFlight = {} /\ events = 0
    BY DEF Network!Init
  <2> QED
    BY <2>1, <2>2 DEF NetworkTypes
<1>2. WithinProcess(m_Connections, m_Counters)
  <2>1. DOMAIN m_Connections = {} /\ DOMAIN m_Counters = {}
    BY DEF Network!Init, Network!Empty
  <2>2. \A p \in NetworkPids : Bytes(m_Connections, p) = {} /\ Network!Count(m_Counters, p) = 0
    BY <2>1, BytesAre DEF Network!Count
  <2> QED
    BY <2>2, FS_EmptySet DEF WithinProcess
<1>3. NetworkOpen
  BY DEF Network!Init, NetworkOpen
<1> QED
  BY <1>1, <1>2, <1>3, WithinIs DEF NetworkInv, NetworkCounts, NetworkOpen

LEMMA NetworkConcludes == NetworkInv => Network!TypeOK /\ Network!ConnectionsWithinProcess /\ Network!OpenConnectionsKeepCounts
<1> SUFFICES ASSUME NetworkInv PROVE Network!TypeOK /\ Network!ConnectionsWithinProcess /\ Network!OpenConnectionsKeepCounts
  OBVIOUS
<1>1. \A S : Network!Cardinality(S) = Cardinality(S)
  BY DEF Network!Cardinality, Cardinality
<1>2. Network!TypeOK
  BY DEF NetworkInv, NetworkTypes, NetworkPids, ConnectionIds, Network!TypeOK, Network!NoEvent
<1>3. Network!ConnectionsWithinProcess
  BY <1>1 DEF NetworkInv, NetworkCounts, NetworkPids, Network!ConnectionsWithinProcess
<1>4. Network!OpenConnectionsKeepCounts
  BY DEF NetworkInv, NetworkCounts, Network!OpenConnectionsKeepCounts
<1> QED
  BY <1>2, <1>3, <1>4

-----------------------------------------------------------------------------
(* The trackers together: a behaviour is one tracker's.                      *)

\* a step of the one that "which" names, and none of another's variables'
LEMMA StepOfSession == [Next]_vars /\ which = "sessions" => which' = "sessions" /\ [Session!Next]_Session!sessionVars
  BY DEF Next, vars, sessionOnly, Session!sessionVars
LEMMA StepOfCreation == [Next]_vars /\ which = "creations" => which' = "creations" /\ [Creation!Next]_Creation!creationVars
  BY DEF Next, vars, creationOnly, Creation!creationVars, Creation!trackerVars, Creation!systemVars
LEMMA StepOfFile == [Next]_vars /\ which = "files" => which' = "files" /\ [File!Next]_File!fileVars
  BY DEF Next, vars, fileOnly, File!fileVars, File!tableVars, File!resolverVars, File!worldVars
LEMMA StepOfAlpc == [Next]_vars /\ which = "alpc" => which' = "alpc" /\ [Alpc!Next]_Alpc!ipcVars
  BY DEF Next, vars, ipcOnly, Alpc!ipcVars, Alpc!alpcVars, Alpc!rpcVars, Alpc!worldVars
LEMMA StepOfRpc == [Next]_vars /\ which = "rpc" => which' = "rpc" /\ [Rpc!Next]_Rpc!ipcVars
  BY DEF Next, vars, ipcOnly, Rpc!ipcVars, Rpc!alpcVars, Rpc!rpcVars, Rpc!worldVars
LEMMA StepOfAdapter == [Next]_vars /\ which = "gpus" => which' = "gpus" /\ [Adapter!Next]_Adapter!gpuVars
  BY DEF Next, vars, gpuOnly, Adapter!gpuVars
LEMMA StepOfNetwork == [Next]_vars /\ which = "network" => which' = "network" /\ [Network!Next]_Network!networkVars
  BY DEF Next, vars, networkOnly, Network!networkVars, Network!trackerVars, Network!worldVars
LEMMA StepOfModule == [Next]_vars /\ which = "modules" => which' = "modules" /\ [Module!Next]_Module!moduleVars
  BY DEF Next, vars, moduleOnly, Module!moduleVars, Module!listVars, Module!walkVars, Module!historyVars

SessionsInv == Is("sessions", SessionInv /\ OrphanInv /\ SessionTypes)
CreationsInv == Is("creations", EventInv /\ RecordInv /\ KnownInv)
FilesInv == Is("files", FileTypes /\ ObjectInv /\ NameInv /\ AttemptInv /\ FileRuns /\ FileCounts)
LinksInv == Is("alpc", AlpcInv) /\ Is("rpc", RpcInv)
NetworksInv == Is("network", NetworkInv)
ModulesInv == Is("modules", ModuleInv)
GpusInv == Is("gpus", GpuTypes /\ GpuPlaces /\ GpuSamples /\ GpuQueries /\ GpuRemaps)

LEMMA SessionsInductive == Spec => []SessionsInv
<1>1. Init => SessionsInv
  BY SessionInit DEF Init, SessionsInv, Is
<1>2. SessionsInv /\ [Next]_vars => SessionsInv'
  <2> SUFFICES ASSUME SessionsInv, [Next]_vars PROVE SessionsInv'
    OBVIOUS
  <2>1. UNCHANGED which
    BY DEF Next, vars
  <2>2. CASE which = "sessions"
    BY <2>2, StepOfSession, SessionStep, OrphanStep, SessionTypesStep DEF SessionsInv, Is
  <2> QED
    BY <2>1, <2>2 DEF SessionsInv, Is
<1> QED
  BY <1>1, <1>2, PTL DEF Spec

LEMMA CreationsInductive == Spec => []CreationsInv
<1>1. Init => CreationsInv
  BY CreationInit DEF Init, CreationsInv, Is
<1>2. CreationsInv /\ [Next]_vars => CreationsInv'
  <2> SUFFICES ASSUME CreationsInv, [Next]_vars PROVE CreationsInv'
    OBVIOUS
  <2>1. UNCHANGED which
    BY DEF Next, vars
  <2>2. CASE which = "creations"
    BY <2>2, StepOfCreation, CreationEvents, CreationRecords, CreationKnown DEF CreationsInv, Is
  <2> QED
    BY <2>1, <2>2 DEF CreationsInv, Is
<1> QED
  BY <1>1, <1>2, PTL DEF Spec

LEMMA FilesInductive == Spec => []FilesInv
<1>1. Init => FilesInv
  BY FileInit, FileCountsInit DEF Init, FilesInv, Is
<1>2. FilesInv /\ [Next]_vars => FilesInv'
  <2> SUFFICES ASSUME FilesInv, [Next]_vars PROVE FilesInv'
    OBVIOUS
  <2>1. UNCHANGED which
    BY DEF Next, vars
  <2>2. CASE which = "files"
    BY <2>2, StepOfFile, FileTypesStep, ObjectsStep, NamesStep, AttemptsStep, FileRunsStep, FileCountsStep DEF FilesInv, Is
  <2> QED
    BY <2>1, <2>2 DEF FilesInv, Is
<1> QED
  BY <1>1, <1>2, PTL DEF Spec

LEMMA LinksInductive == Spec => []LinksInv
<1>1. Init => LinksInv
  BY AlpcInit, RpcInit DEF Init, LinksInv, Is
<1>2. LinksInv /\ [Next]_vars => LinksInv'
  <2> SUFFICES ASSUME LinksInv, [Next]_vars PROVE LinksInv'
    OBVIOUS
  <2>1. UNCHANGED which
    BY DEF Next, vars
  <2>2. CASE which = "alpc"
    BY <2>2, StepOfAlpc, AlpcStep DEF LinksInv, Is
  <2>3. CASE which = "rpc"
    BY <2>3, StepOfRpc, RpcStep DEF LinksInv, Is
  <2> QED
    BY <2>1, <2>2, <2>3 DEF LinksInv, Is
<1> QED
  BY <1>1, <1>2, PTL DEF Spec

LEMMA NetworksInductive == Spec => []NetworksInv
<1>1. Init => NetworksInv
  BY NetworkInit DEF Init, NetworksInv, Is
<1>2. NetworksInv /\ [Next]_vars => NetworksInv'
  <2> SUFFICES ASSUME NetworksInv, [Next]_vars PROVE NetworksInv'
    OBVIOUS
  <2>1. UNCHANGED which
    BY DEF Next, vars
  <2>2. CASE which = "network"
    BY <2>2, StepOfNetwork, NetworkStep DEF NetworksInv, Is
  <2> QED
    BY <2>1, <2>2 DEF NetworksInv, Is
<1> QED
  BY <1>1, <1>2, PTL DEF Spec

LEMMA ModulesInductive == Spec => []ModulesInv
<1>1. Init => ModulesInv
  BY ModuleInit DEF Init, ModulesInv, Is
<1>2. ModulesInv /\ [Next]_vars => ModulesInv'
  <2> SUFFICES ASSUME ModulesInv, [Next]_vars PROVE ModulesInv'
    OBVIOUS
  <2>1. UNCHANGED which
    BY DEF Next, vars
  <2>2. CASE which = "modules"
    BY <2>2, StepOfModule, ModuleStep DEF ModulesInv, Is
  <2> QED
    BY <2>1, <2>2 DEF ModulesInv, Is
<1> QED
  BY <1>1, <1>2, PTL DEF Spec

LEMMA GpusInductive == ASSUME ShapesDiffer PROVE Spec => []GpusInv
<1>1. Init => GpusInv
  BY GpuInit DEF Init, GpusInv, Is
<1>2. GpusInv /\ [Next]_vars => GpusInv'
  <2> SUFFICES ASSUME GpusInv, [Next]_vars PROVE GpusInv'
    OBVIOUS
  <2>1. UNCHANGED which
    BY DEF Next, vars
  <2>2. CASE which = "gpus"
    BY <2>2, StepOfAdapter, GpuTypesStep, GpuPlacesStep, GpuSamplesStep, GpuQueriesStep, GpuRemapsStep DEF GpusInv, Is
  <2> QED
    BY <2>1, <2>2 DEF GpusInv, Is
<1> QED
  BY <1>1, <1>2, PTL DEF Spec

(* No sweep of another process's tracker stops the session of one that runs, *)
(* whatever process IDs are used again meanwhile.                            *)
THEOREM NoSweepStopsATracker == Spec => []RunningHasSession
<1>1. SessionsInv => RunningHasSession
  BY SessionConcludes DEF SessionsInv, RunningHasSession, Is
<1> QED
  BY <1>1, SessionsInductive, PTL

(* A sweep that ended has stopped each session it could list of a process    *)
(* that was gone, and no session that only starts with the same prefix.      *)
THEOREM SweepsStopTheOrphans == Spec => []OrphansAreStopped
<1>1. SessionsInv => OrphansAreStopped
  BY SessionConcludes DEF SessionsInv, OrphansAreStopped, Is
<1> QED
  BY <1>1, SessionsInductive, PTL

(* TakeExited returns each exit once, and misses none whose events arrived,  *)
(* in either order and with any delay less than ExitedKept.                  *)
THEOREM ExitsAreReturnedOnce == Spec => []ExitsAreTakenOnce
<1>1. CreationsInv => ExitsAreTakenOnce
  BY CreationConcludes DEF CreationsInv, ExitsAreTakenOnce, Is
<1> QED
  BY <1>1, CreationsInductive, PTL

(* A record says who created the process, while the service keeps running.   *)
THEOREM CreatorsAreRecorded == Spec => []CreatorsAreTrue
<1>1. CreationsInv => CreatorsAreTrue
  BY CreationConcludes DEF CreationsInv, CreatorsAreTrue, Is
<1> QED
  BY <1>1, CreationsInductive, PTL

(* The resolver, which names keys from what it took and looked up before,    *)
(* gives no key a name older than its events did, and gives up in time.      *)
THEOREM NamesStayNew == Spec => []NamesAreNotOlder
<1>1. FilesInv => NamesAreNotOlder
  BY FileConcludes DEF FilesInv, NamesAreNotOlder, Is
<1> QED
  BY <1>1, FilesInductive, PTL

(* Whatever order the events of any messages and calls arrive in, a link     *)
(* counts what its client and server exchanged, in these roles, and its      *)
(* server is one.                                                            *)
THEOREM LinksCountExchanges == Spec => []LinksAreTrue
<1>1. LinksInv => LinksAreTrue
  BY AlpcConcludes, RpcConcludes DEF LinksInv, LinksAreTrue, Is
<1> QED
  BY <1>1, LinksInductive, PTL

(* The bytes of a process's connections are never together more than its     *)
(* own, and an open connection keeps what was counted since the table was    *)
(* read, whatever events arrive between the read and the prune.              *)
THEOREM ConnectionsAreKept == Spec => []ConnectionsKeepCounts
<1>1. NetworksInv => ConnectionsKeepCounts
  BY NetworkConcludes DEF NetworksInv, ConnectionsKeepCounts, Is
<1> QED
  BY <1>1, NetworksInductive, PTL

(* However files are mapped and unmapped during the walks, a client that     *)
(* applies what is new and gone has the modules listed, and a mapping that   *)
(* stays is listed once, with its size, as one object for good.              *)
THEOREM ClientsHaveModules == Spec => []ClientHasModules
<1>1. ModulesInv => ClientHasModules
  BY ModuleConcludes DEF ModulesInv, ClientHasModules, Is
<1> QED
  BY <1>1, ModulesInductive, PTL

(* No usage is more than the devices ran, for any devices that RemapLuids    *)
(* tells apart, with any nodes, restarts, failed queries and remaps.         *)
THEOREM UsageIsNeverMore == ASSUME ShapesDiffer PROVE Spec => []UsageIsTrue
<1>1. GpusInv => UsageIsTrue
  BY DEF GpusInv, GpuSamples, GpuQueries, Adapter!UsageIsTrue, UsageIsTrue, Is
<1> QED
  BY <1>1, GpusInductive, PTL

(* A device that restarted is known again at an Update once RemapInterval    *)
(* has passed, if no listing left one out, and each keeps its place.         *)
THEOREM RestartsAreFound == ASSUME ShapesDiffer PROVE Spec => []RestartedIsFound
<1>1. GpusInv => RestartedIsFound
  BY DeviceAtPlace DEF GpusInv, GpuRemaps, Adapter!AdaptersKeepTheirPlace, RestartedIsFound, Is
<1> QED
  BY <1>1, GpusInductive, PTL

(* What the trackers keep is of processes, keys, connections and devices     *)
(* there are; a count of a file is of reads and writes that happened, no two *)
(* events of the same one; the GPUs' times fit the list.                     *)
THEOREM TypesKept == ASSUME ShapesDiffer PROVE Spec => []TypeOK
<1>1. SessionsInv => Is("sessions", Session!TypeOK)
  BY SessionConcludes DEF SessionsInv, Is
<1>2. CreationsInv => Is("creations", Creation!TypeOK)
  BY CreationConcludes DEF CreationsInv, Is
<1>3. FilesInv => Is("files", File!TypeOK)
  BY FileTypesConclude DEF FilesInv, Is
<1>4. LinksInv => Is("alpc", Alpc!TypeOK) /\ Is("rpc", Rpc!TypeOK)
  BY AlpcConcludes, RpcConcludes DEF LinksInv, Is
<1>5. NetworksInv => Is("network", Network!TypeOK)
  BY NetworkConcludes DEF NetworksInv, Is
<1>6. ModulesInv => Is("modules", Module!TypeOK)
  BY ModuleConcludes DEF ModulesInv, Is
<1>7. GpusInv => Is("gpus", Adapter!TypeOK)
  <2> SUFFICES ASSUME GpuTypes, GpuPlaces, GpuSamples, GpuQueries, GpuRemaps PROVE Adapter!TypeOK
    BY DEF GpusInv, Is
  <2>1. \A a \in Adapter!Places : adapters[a].device \in GpuDevices /\ adapters[a].epoch \in 0 .. epoch[adapters[a].device]
    BY DeviceAtPlace DEF GpuPlaces
  <2>2. m_PrevTime <= clock /\ m_RemapTime <= clock /\ stateTime <= clock
    BY DEF GpuTypes, GpuSamples, GpuQueries, GpuRemaps
  <2> QED
    BY <2>1, <2>2 DEF GpuPlaces, GpuSamples, GpuQueries, Adapter!TypeOK
<1>8. SessionsInv /\ CreationsInv /\ FilesInv /\ LinksInv /\ NetworksInv /\ ModulesInv /\ GpusInv => TypeOK
  BY <1>1, <1>2, <1>3, <1>4, <1>5, <1>6, <1>7 DEF TypeOK
<1> QED
  BY <1>8, SessionsInductive, CreationsInductive, FilesInductive, LinksInductive, NetworksInductive, ModulesInductive,
     GpusInductive, PTL

=============================================================================
