-------------------------------- MODULE Ipc --------------------------------
(***************************************************************************)
(* The IPC tracker (WinSys Ipc.cpp: IpcTracker): which processes talk to   *)
(* which, from the ALPC and RPC events of a trace session.                 *)
(*                                                                         *)
(* An ALPC message's send and receive are matched by the message's ID.     *)
(* The processes that exchange messages are modelled too: each logs its    *)
(* events in the order it causes them, and the trace delivers one          *)
(* processor's buffer when it fills, so those of two processes arrive in   *)
(* any interleaving.  Start and Stop, which joins the trace's thread       *)
(* before it clears the tables, are one step each; so is the handling of   *)
(* an event, whose only shared data is under one lock.                     *)
(***************************************************************************)
EXTENDS Naturals, Sequences, Functions

CONSTANTS
    IpcPids,      \* the processes that talk
    MessageIds,
    RpcEndpoints, \* <<protocol, endpoint>>
    MaxExchanges, \* bound: ALPC exchanges begun
    MaxCalls,     \* bound: RPC calls
    MaxPasses,    \* bound: how often PendingLifetime passes
    SlowReplies   \* whether a reply may take longer than PendingLifetime

VARIABLES
    m_Alpc,       \* <<client, server>> -> messages counted
    m_Rpc,        \* [client, endpoint, remote] -> calls counted
    m_Endpoints,  \* endpoint -> the process that last started a server call
    m_Pending,    \* message ID -> [sender, receiver, client, old]
    running,      \* the session runs
    exchange,     \* message ID -> the exchange it is in now, NoExchange if none
    logged,       \* process -> its events not delivered yet
    exited,       \* the processes that exited
    exchanged,    \* history: <<client, server>> -> messages sent
    served,       \* history: endpoint -> the processes that started a server call
    begun, calls, passes

alpcVars == <<m_Alpc, m_Pending>>
rpcVars == <<m_Rpc, m_Endpoints>>
worldVars == <<exchange, exited, exchanged, served, begun, calls, passes>>
ipcVars == <<alpcVars, rpcVars, running, logged, worldVars>>

Nobody == 0         \* process IDs are not 0
NoExchange == [step |-> "none"]
NoMessage == [sender |-> Nobody, receiver |-> Nobody, client |-> Nobody, old |-> FALSE]
RpcEvents == {"ClientCallStart", "ServerCallStart"}
Empty == <<>>       \* the function with no arguments
Pairs == {p \in IpcPids \X IpcPids : p[1] # p[2]}

Count(f, x) == IF x \in DOMAIN f THEN f[x] ELSE 0
With(f, x, e) == [y \in DOMAIN f \cup {x} |-> IF y = x THEN e ELSE f[y]]
Add(f, x) == With(f, x, Count(f, x) + 1)
Without(f, S) == Restrict(f, DOMAIN f \ S)

Log(p, events) == logged' = [logged EXCEPT ![p] = @ \o events]

-----------------------------------------------------------------------------
(* The processes, as far as the session sees them: what they do while it     *)
(* runs.  A request is sent, waited for, received, answered under its ID,    *)
(* and the answer received; a datagram is sent and received.  The client     *)
(* waits as it sends: the two are one call of its.  An ID is free again once *)
(* its message is done with and its record in the tracker is an old one.     *)

AlpcSendAndWait(id, c, s) ==
    /\ running
    /\ exchange[id].step = "none" /\ begun < MaxExchanges
    /\ c # s /\ {c, s} \cap exited = {}
    /\ \A p \in IpcPids : \A i \in DOMAIN logged[p] : logged[p][i].op \notin RpcEvents => logged[p][i].id # id
    /\ id \in DOMAIN m_Pending => m_Pending[id].old
    /\ begun' = begun + 1
    /\ \E waits \in BOOLEAN :
         /\ exchange' = [exchange EXCEPT ![id] =
                           [step |-> "sent", client |-> c, server |-> s, waits |-> waits]]
         /\ Log(c, <<[op |-> "Send", id |-> id]>> \o
                      IF waits THEN <<[op |-> "WaitForReply", id |-> id]>> ELSE <<>>)
    /\ exchanged' = [exchanged EXCEPT ![<<c, s>>] = @ + 1]
    /\ UNCHANGED <<alpcVars, rpcVars, running, exited, served, calls, passes>>

AlpcReceive(id) ==
    LET x == exchange[id] IN
    /\ x.step = "sent"
    /\ exchange' = [exchange EXCEPT ![id] = IF x.waits THEN [x EXCEPT !.step = "received"] ELSE NoExchange]
    /\ Log(x.server, <<[op |-> "Receive", id |-> id]>>)
    /\ UNCHANGED <<alpcVars, rpcVars, running, exited, exchanged, served, begun, calls, passes>>

AlpcReply(id) ==
    LET x == exchange[id] IN
    /\ x.step = "received"
    /\ exchange' = [exchange EXCEPT ![id].step = "answered"]
    /\ Log(x.server, <<[op |-> "Send", id |-> id]>>)
    /\ exchanged' = [exchanged EXCEPT ![<<x.client, x.server>>] = @ + 1]
    /\ UNCHANGED <<alpcVars, rpcVars, running, exited, served, begun, calls, passes>>

AlpcTakeReply(id) ==
    LET x == exchange[id] IN
    /\ x.step = "answered"
    /\ exchange' = [exchange EXCEPT ![id] = NoExchange]
    /\ Log(x.client, <<[op |-> "Receive", id |-> id]>>)
    /\ UNCHANGED <<alpcVars, rpcVars, running, exited, exchanged, served, begun, calls, passes>>

\* a call's start in the client, and, if the server is on this machine, in the server
RpcCall(c, s, e, remote) ==
    /\ running
    /\ calls < MaxCalls /\ c # s /\ {c, s} \cap exited = {}
    /\ calls' = calls + 1
    /\ LET client == [op |-> "ClientCallStart", endpoint |-> e, remote |-> remote]
           server == [op |-> "ServerCallStart", endpoint |-> e]
       IN logged' = [logged EXCEPT ![c] = Append(@, client), ![s] = IF remote THEN @ ELSE Append(@, server)]
    /\ served' = IF remote THEN served ELSE [served EXCEPT ![e] = @ \cup {s}]
    /\ UNCHANGED <<alpcVars, rpcVars, running, exchange, exited, exchanged, begun, passes>>

\* a process exits: its exchanges end
Exit(p) ==
    /\ p \notin exited
    /\ exited' = exited \cup {p}
    /\ exchange' = [id \in MessageIds |->
         IF exchange[id].step # "none" /\ p \in {exchange[id].client, exchange[id].server}
         THEN NoExchange ELSE exchange[id]]
    /\ UNCHANGED <<alpcVars, rpcVars, running, logged, exchanged, served, begun, calls, passes>>

\* more than PendingLifetime passes; events are delivered within a second or two, so none is left
LifetimePasses ==
    /\ passes < MaxPasses
    /\ passes' = passes + 1
    /\ m_Pending # Empty
    /\ \A p \in IpcPids : logged[p] = <<>>
    /\ SlowReplies \/ \A id \in MessageIds : exchange[id].step = "none"
    /\ m_Pending' = [id \in DOMAIN m_Pending |-> [m_Pending[id] EXCEPT !.old = TRUE]]
    /\ UNCHANGED <<m_Alpc, rpcVars, running, logged, exchange, exited, exchanged, served, begun, calls>>

-----------------------------------------------------------------------------
(* The tracker.                                                              *)

Start ==
    /\ ~running
    /\ running' = TRUE
    /\ UNCHANGED <<alpcVars, rpcVars, logged, worldVars>>

\* the session, the trace, its thread; then the tables
Stop ==
    /\ running
    /\ running' = FALSE
    /\ m_Alpc' = Empty /\ m_Rpc' = Empty /\ m_Endpoints' = Empty /\ m_Pending' = Empty
    /\ logged' = [p \in IpcPids |-> <<>>]
    /\ exchange' = [id \in MessageIds |-> NoExchange]
    /\ exchanged' = [p \in Pairs |-> 0]
    /\ UNCHANGED <<exited, served, begun, calls, passes>>

\* messages whose other events never came
PruneOld(pending) == Without(pending, {id \in DOMAIN pending : pending[id].old})

\* the message with the event's side of it; one too old starts over
Message(id, pid, op) ==
    LET known == IF id \in DOMAIN m_Pending /\ ~m_Pending[id].old THEN m_Pending[id] ELSE NoMessage
    IN CASE op = "Send" -> [known EXCEPT !.sender = pid]
         [] op = "Receive" -> [known EXCEPT !.receiver = pid]
         [] op = "WaitForReply" -> [known EXCEPT !.client = pid]

\* for the mutants: the sender is taken for the client
Link_Sender(m) == <<m.sender, m.receiver>>

\* <<client, server>>: the client is who waits for the reply, else the sender
Link(m) == LET client == IF m.client = m.receiver THEN m.receiver ELSE m.sender
           IN <<client, IF client = m.sender THEN m.receiver ELSE m.sender>>

\* a matched message counts unless a process sent it to itself, and waits for its next match
Matched(m) == m.sender # Nobody /\ m.receiver # Nobody

\* for the mutants: a process is counted as its own server
Counts_Self(m) == Matched(m)
Counts(m) == Matched(m) /\ m.sender # m.receiver
Reset(m) == IF Matched(m) THEN [m EXCEPT !.sender = Nobody, !.receiver = Nobody] ELSE m

OnAlpc(pid, id, op) ==
    LET m == Message(id, pid, op)
    IN /\ IF op = "WaitForReply"
          THEN /\ m_Pending' = With(m_Pending, id, m)
               /\ m_Alpc' = m_Alpc
          ELSE /\ LET pending == With(m_Pending, id, Reset(m))
                  IN m_Pending' \in {pending, PruneOld(pending)}
               /\ m_Alpc' = IF Counts(m) THEN Add(m_Alpc, Link(m)) ELSE m_Alpc
       /\ UNCHANGED rpcVars

EndpointKey(e) == e

OnRpc(pid, event) ==
    /\ IF event.op = "ServerCallStart"
       THEN /\ m_Endpoints' = With(m_Endpoints, EndpointKey(event.endpoint), pid)
            /\ m_Rpc' = m_Rpc
       ELSE /\ m_Rpc' = Add(m_Rpc, [client |-> pid, endpoint |-> event.endpoint, remote |-> event.remote])
            /\ m_Endpoints' = m_Endpoints
    /\ UNCHANGED alpcVars

OnEvent(p) ==
    /\ logged[p] # <<>>
    /\ LET event == Head(logged[p]) IN
         IF event.op \in RpcEvents
         THEN OnRpc(p, event) ELSE OnAlpc(p, event.id, event.op)
    /\ logged' = [logged EXCEPT ![p] = Tail(@)]
    /\ UNCHANGED <<running, worldVars>>

\* the client was told of a process's exit
RemoveProcess(p) ==
    /\ running /\ p \in exited
    /\ m_Alpc' = Without(m_Alpc, {l \in DOMAIN m_Alpc : p \in {l[1], l[2]}})
    /\ m_Rpc' = Without(m_Rpc, {r \in DOMAIN m_Rpc : r.client = p})
    /\ m_Endpoints' = Without(m_Endpoints, {e \in DOMAIN m_Endpoints : m_Endpoints[e] = p})
    /\ UNCHANGED <<m_Pending, running, logged, worldVars>>

\* an RPC link's server, looked up when the links are read: local ones, once a server call was seen
Server(link) ==
    IF ~link.remote /\ EndpointKey(link.endpoint) \in DOMAIN m_Endpoints
    THEN m_Endpoints[EndpointKey(link.endpoint)] ELSE Nobody

-----------------------------------------------------------------------------
Init ==
    /\ m_Alpc = Empty /\ m_Rpc = Empty /\ m_Endpoints = Empty /\ m_Pending = Empty
    /\ running = FALSE
    /\ exchange = [id \in MessageIds |-> NoExchange]
    /\ logged = [p \in IpcPids |-> <<>>]
    /\ exited = {}
    /\ exchanged = [p \in Pairs |-> 0]
    /\ served = [e \in RpcEndpoints |-> {}]
    /\ begun = 0 /\ calls = 0 /\ passes = 0

Next ==
    \/ \E id \in MessageIds :
         \/ \E c, s \in IpcPids : AlpcSendAndWait(id, c, s)
         \/ AlpcReceive(id)
         \/ AlpcReply(id)
         \/ AlpcTakeReply(id)
    \/ \E c, s \in IpcPids, e \in RpcEndpoints, remote \in BOOLEAN : RpcCall(c, s, e, remote)
    \/ \E p \in IpcPids : Exit(p) \/ OnEvent(p) \/ RemoveProcess(p)
    \/ LifetimePasses
    \/ Start
    \/ Stop

Spec == Init /\ [][Next]_ipcVars

-----------------------------------------------------------------------------
(* Every table relates processes to numbers of messages or calls, and what   *)
(* waits for its other side is a message of a known ID.                      *)
TypeOK ==
    /\ DOMAIN m_Alpc \subseteq Pairs
    /\ \A l \in DOMAIN m_Alpc : m_Alpc[l] \in Nat \ {0}
    /\ \A r \in DOMAIN m_Rpc : r.client \in IpcPids /\ r.endpoint \in RpcEndpoints /\ m_Rpc[r] \in Nat \ {0}
    /\ \A e \in DOMAIN m_Endpoints : m_Endpoints[e] \in IpcPids
    /\ DOMAIN m_Pending \subseteq MessageIds
    /\ ~running => m_Pending = Empty /\ \A p \in IpcPids : logged[p] = <<>>

(* Ipc.h: "The client is the process that waited for the reply; a message    *)
(* nobody waits for makes its sender the client": no pair is counted more    *)
(* messages than its client and server, in these roles, have exchanged,      *)
(* whatever order their events arrive in.                                    *)
LinksAreTrue == \A l \in DOMAIN m_Alpc : m_Alpc[l] <= exchanged[l]

(* GetLinks names as an RPC link's server only a process that served its     *)
(* endpoint, over its protocol, for a call on this machine.                  *)
ServersAreTrue ==
    \A link \in DOMAIN m_Rpc :
        Server(link) # Nobody => ~link.remote /\ Server(link) \in served[link.endpoint]

=============================================================================
