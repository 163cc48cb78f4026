-------------------------- MODULE DispatcherProofs --------------------------
(***************************************************************************)
(* What holds of the message-queue dispatcher for any clients, any         *)
(* capacity of the queue and any number of messages and interrupts.  A     *)
(* message goes through seven places: the queue (as one for the server),   *)
(* the hand of the server's receive thread, the server's std::queue, the   *)
(* hand of its main thread, the queue again (as one for a client), the     *)
(* hand of the client's receive thread, and what arrived.  Two messages    *)
(* of one client for another never overtake each other on that way: those  *)
(* further along it have the lower numbers.                                *)
(***************************************************************************)
EXTENDS Dispatcher, NaturalsInduction, WellFoundedInduction, SequenceTheorems, TLAPS

-----------------------------------------------------------------------------
(* The inductive invariant *)

ForServer(m) ==
    m.mtype = SERVER /\ m.source \in Started /\ m.dest \in Clients \ {m.source}
ForClient(m) ==
    /\ m.mtype \in Clients /\ m.dest = m.mtype
    /\ m.source = 0 \/ m.source \in Started \ {m.dest}

\* What the queue holds, and what the server has in hand.
Routed(q) == \A i \in 1..Len(q) : ForServer(q[i]) \/ ForClient(q[i])

ServerAddressed ==
    /\ \A i \in 1..Len(sMessage) : ForServer(sMessage[i])
    /\ sRecv = "push" => ForServer(recv_Msg)
    /\ sMain = "drain" => ForServer(send_Msg)
    /\ sMain = "forward" => ForClient(send_Msg) /\ send_Msg.source # 0

\* A client's part of it.  A message no msgrcv() filled is at hand only after one
\* has failed.
ClientAddressed(c) ==
    /\ cMain[c] = "send" => dest[c] \in Clients \ {c}
    /\ msg[c] = Garbage \/ (ForClient(msg[c]) /\ msg[c].mtype = c)
    /\ cRecv[c] = "handle" /\ failed[c] = 0 => msg[c] # Garbage
    /\ \A i \in 1..Len(arrived[c]) :
           \/ arrived[c][i] = Garbage /\ failed[c] # 0
           \/ /\ ForClient(arrived[c][i]) /\ arrived[c][i].mtype = c
              /\ arrived[c][i].source # 0

AddressedInv == Routed(queue) /\ ServerAddressed /\ \A c \in Started : ClientAddressed(c)

\* m was sent before n, if one client sent both to the same other one.
Before(m, n) == m.source = n.source /\ m.dest = n.dest => m.id < n.id

\* A sequence of messages is in order within each type.
Ordered(q) ==
    \A i, j \in 1..Len(q) :
        i < j /\ q[i].mtype = q[j].mtype /\ q[i].source # 0 => Before(q[i], q[j])

Tags     == [source : Clients, dest : Clients, id : Nat]
TagOf(m) == [source |-> m.source, dest |-> m.dest, id |-> m.id]

\* The clients' messages in q whose type is one of T, and m if b.
TagsOf(q, T) ==
    {x \in Tags : \E i \in 1..Len(q) : q[i].mtype \in T /\ x = TagOf(q[i])}
TagsIf(b, m) == {x \in Tags : b /\ x = TagOf(m)}

\* The places of the messages for client d, the last one first.
Got(d)      == {x \in TagsOf(arrived[d], {d}) : failed[d] = 0}
Fetched(d)  == TagsIf(cRecv[d] = "handle" /\ failed[d] = 0, msg[d])
ToClients   == TagsOf(queue, Clients)
Forwarding  == TagsIf(sMain \in {"drain", "forward"}, send_Msg)
Collected   == TagsOf(sMessage, {SERVER})
Collecting  == TagsIf(sRecv = "push", recv_Msg)
ToTheServer == TagsOf(queue, {SERVER})

Way(d) ==
    [p \in 1..7 |->
        IF p = 1 THEN Got(d) ELSE IF p = 2 THEN Fetched(d) ELSE IF p = 3 THEN ToClients
        ELSE IF p = 4 THEN Forwarding ELSE IF p = 5 THEN Collected
        ELSE IF p = 6 THEN Collecting ELSE ToTheServer]

\* Whoever is further along was sent before.
InLine(W) ==
    \A p, q \in 1..7 : p < q => \A x \in W[p], y \in W[q] : Before(x, y)

\* No message is numbered beyond its sender's count, nor with the number of the
\* one its sender is about to send.
Counted(x) ==
    /\ x.source \in Started /\ x.id <= sent[x.source]
    /\ cMain[x.source] = "send" => x.id < sent[x.source]

OrderInv ==
    /\ Ordered(queue) /\ Ordered(sMessage)
    /\ \A d \in Started :
           /\ failed[d] = 0 => Ordered(arrived[d])
           /\ InLine(Way(d))
           /\ \A p \in 1..7 : \A x \in Way(d)[p] : Counted(x)

-----------------------------------------------------------------------------
(* Queues of messages *)

\* Every set of numbers has a least one.
LEMMA LeastNumber ==
    ASSUME NEW S \in SUBSET Nat, S # {}
    PROVE  \E n \in S : \A k \in S : n <= k
<1>1. PICK n \in S : \A k \in S : ~(<<k, n>> \in OpToRel(<, Nat))
  BY Zenon, NatLessThanWellFounded, WFMin
<1>2. OpToRel(<, Nat) = {ss \in Nat \X Nat : ss[1] < ss[2]}
  BY Zenon DEF OpToRel
<1>3. \A k \in S : ~(k < n)
  BY <1>1, <1>2
<1> QED
  BY <1>3

\* What msgrcv() takes is there, and is the first of its type.
LEMMA FirstOfType ==
    ASSUME NEW t, queue \in Seq(Message), Waiting(t)
    PROVE  /\ FirstOf(t) \in 1..Len(queue) /\ queue[FirstOf(t)].mtype = t
           /\ \A j \in 1..(FirstOf(t) - 1) : queue[j].mtype # t
<1> DEFINE S == {i \in 1..Len(queue) : queue[i].mtype = t}
<1>1. S \in SUBSET Nat /\ S # {}
  BY DEF Waiting
<1>2. PICK i \in S : \A j \in S : i <= j
  <2> HIDE DEF S
  <2> QED
    BY <1>1, LeastNumber
<1>3. /\ i \in 1..Len(queue) /\ queue[i].mtype = t
      /\ \A j \in 1..(i - 1) : queue[j].mtype # t
  BY <1>2
<1> QED
  BY <1>3, Zenon DEF FirstOf

\* Removing one message leaves the others, in their order.
LEMMA Removed ==
    ASSUME NEW K, NEW q \in Seq(K), NEW k \in 1..Len(q)
    PROVE  /\ RemoveAt(q, k) \in Seq(K) /\ Len(RemoveAt(q, k)) = Len(q) - 1
           /\ \A i \in 1..(Len(q) - 1) :
                  RemoveAt(q, k)[i] = IF i < k THEN q[i] ELSE q[i + 1]
<1> DEFINE s == SubSeq(q, 1, k - 1)
           t == SubSeq(q, k + 1, Len(q))
<1>1. /\ s \in Seq(K) /\ Len(s) = k - 1
      /\ \A i \in 1..(k - 1) : s[i] = q[i]
  OBVIOUS
<1>2. /\ t \in Seq(K) /\ Len(t) = Len(q) - k
      /\ \A i \in 1..(Len(q) - k) : t[i] = q[k + i]
  OBVIOUS
<1>3. RemoveAt(q, k) = s \o t
  BY DEF RemoveAt
<1> HIDE DEF s, t
<1>4. /\ s \o t \in Seq(K) /\ Len(s \o t) = Len(s) + Len(t)
      /\ \A i \in 1..(Len(s) + Len(t)) :
             (s \o t)[i] = IF i <= Len(s) THEN s[i] ELSE t[i - Len(s)]
  BY <1>1, <1>2, ConcatProperties
<1>5. ASSUME NEW i \in 1..(Len(q) - 1)
      PROVE  (s \o t)[i] = IF i < k THEN q[i] ELSE q[i + 1]
  <2>1. CASE i < k
    BY <1>1, <1>2, <1>4, <2>1
  <2>2. CASE ~(i < k)
    <3>1. i - (k - 1) \in 1..(Len(q) - k) /\ k + (i - (k - 1)) = i + 1
      BY <2>2
    <3>2. (s \o t)[i] = t[i - (k - 1)]
      BY <1>1, <1>2, <1>4, <2>2
    <3> QED
      BY <1>2, <2>2, <3>1, <3>2
  <2> QED
    BY <2>1, <2>2
<1> QED
  BY <1>1, <1>2, <1>3, <1>4, <1>5

LEMMA RemovedOrdered ==
    ASSUME NEW q \in Seq(Message), NEW k \in 1..Len(q), Ordered(q)
    PROVE  Ordered(RemoveAt(q, k))
<1> DEFINE r == RemoveAt(q, k)
           At(i) == IF i < k THEN i ELSE i + 1
<1>1. /\ Len(r) = Len(q) - 1
      /\ \A i \in 1..Len(r) : r[i] = q[At(i)]
  BY Removed
<1>2. \A i, j \in 1..Len(r) :
          At(i) \in 1..Len(q) /\ At(j) \in 1..Len(q) /\ (i < j => At(i) < At(j))
  BY <1>1
<1> HIDE DEF r, At
<1>3. Ordered(r)
  BY <1>1, <1>2 DEF Ordered
<1> QED
  BY <1>3 DEF r

LEMMA AppendedOrdered ==
    ASSUME NEW q \in Seq(Message), NEW m \in Message, Ordered(q),
           m.source # 0 =>
               \A i \in 1..Len(q) : q[i].mtype = m.mtype => Before(q[i], m)
    PROVE  Ordered(Append(q, m))
<1> DEFINE r == Append(q, m)
<1>1. /\ Len(r) = Len(q) + 1 /\ r[Len(q) + 1] = m
      /\ \A i \in 1..Len(q) : r[i] = q[i]
  OBVIOUS
<1> HIDE DEF r
<1>2. SUFFICES ASSUME NEW i \in 1..Len(r), NEW j \in 1..Len(r), i < j,
                      r[i].mtype = r[j].mtype, r[i].source # 0
               PROVE  Before(r[i], r[j])
  BY DEF Ordered, r
<1>3. CASE j \in 1..Len(q)
  BY <1>1, <1>2, <1>3 DEF Ordered
<1>4. CASE j = Len(q) + 1
  <2>1. i \in 1..Len(q) /\ r[i] = q[i] /\ r[j] = m
    BY <1>1, <1>2, <1>4
  <2> QED
    BY <1>2, <2>1 DEF Before
<1> QED
  BY <1>1, <1>3, <1>4

LEMMA TailOrdered ==
    ASSUME NEW q \in Seq(Message), q # <<>>, Ordered(q)
    PROVE  Ordered(Tail(q))
<1> DEFINE r == Tail(q)
<1>1. Len(r) = Len(q) - 1 /\ \A i \in 1..Len(r) : r[i] = q[i + 1] /\ i + 1 \in 1..Len(q)
  OBVIOUS
<1> HIDE DEF r
<1>2. Ordered(r)
  BY <1>1 DEF Ordered
<1> QED
  BY <1>2 DEF r

-----------------------------------------------------------------------------
(* Types *)

\* Where main's msgsnd() stands, and what it sends from there.
LEMMA SendCases ==
    ServerSend =>
        \/ sMain = "forward" /\ sMain' = "loop" /\ Send(send_Msg)
        \/ sMain = "quit1" /\ sMain' = "quit2" /\ Send(Quit(1))
        \/ sMain = "quit2" /\ sMain' = "quit3" /\ Send(Quit(2))
        \/ sMain = "quit3" /\ sMain' = "join" /\ Send(Quit(3))
BY DEF ServerSend, AfterSend, ToSend

LEMMA AfterSendStates ==
    /\ DOMAIN AfterSend = {"forward", "quit1", "quit2", "quit3"}
    /\ AfterSend["forward"] = "loop" /\ AfterSend["quit1"] = "quit2"
    /\ AfterSend["quit2"] = "quit3" /\ AfterSend["quit3"] = "join"
BY DEF AfterSend

LEMMA Messages ==
    /\ Garbage \in Message /\ \A d \in Clients : Quit(d) \in Message
    /\ \A c, d \in Clients, k \in Nat : ClientMsg(SERVER, c, d, k) \in Message
BY DEF Garbage, Quit, ClientMsg, Message, Clients, SERVER

\* So is one that is addressed to its destination.
LEMMA Readdressed ==
    ASSUME NEW m \in Message
    PROVE  [m EXCEPT !.mtype = m.dest] \in Message
<1>1. m.dest \in 0..SERVER
  BY DEF Message, SERVER
<1> QED
  BY <1>1 DEF Message

\* The destinations: the two other clients.
LEMMA Destinations == \A c \in Clients : NextDest(c) \in Clients \ {c}
<1> SUFFICES ASSUME NEW c \in Clients PROVE NextDest(c) \in Clients \ {c}
    OBVIOUS
<1>1. /\ c = 1 => NextDest(c) = IF dest[c] = 2 THEN 3 ELSE 2
      /\ c = 2 => NextDest(c) = IF dest[c] = 3 THEN 1 ELSE 3
      /\ c = 3 => NextDest(c) = IF dest[c] = 1 THEN 2 ELSE 1
  BY DEF NextDest
<1> QED
  BY <1>1 DEF Clients

\* What a msgsnd() makes of the queue.
LEMMA Sent ==
    ASSUME NEW m \in Message, TypeOK, CanSend, Send(m)
    PROVE  queue' \in Seq(Message) /\ Len(queue') <= QueueCap
BY DispatcherAssumption DEF TypeOK, CanSend, Send

\* What a msgrcv() leaves of the queue, and what it returns.
LEMMA Received ==
    ASSUME NEW t, TypeOK, Waiting(t), queue' = RemoveAt(queue, FirstOf(t))
    PROVE  /\ queue' \in Seq(Message) /\ Len(queue') <= QueueCap
           /\ queue[FirstOf(t)] \in Message
<1>1. queue \in Seq(Message) /\ Len(queue) <= QueueCap
  BY DEF TypeOK
<1>2. FirstOf(t) \in 1..Len(queue)
  BY <1>1, FirstOfType
<1>3. queue' \in Seq(Message) /\ Len(queue') = Len(queue) - 1
  BY <1>1, <1>2, Removed
<1> QED
  BY <1>1, <1>2, <1>3, DispatcherAssumption

\* TypeOK in three parts.
QueueType == queue \in Seq(Message) /\ Len(queue) <= QueueCap /\ exists \in BOOLEAN
ServerType ==
    /\ sMain \in {"loop", "drain", "forward", "quit1", "quit2", "quit3", "join", "ended"}
    /\ sRecv \in {"loop", "push", "done"}
    /\ sRunning \in BOOLEAN
    /\ sMessage \in Seq(Message) /\ send_Msg \in Message /\ recv_Msg \in Message
ClientType ==
    /\ cMain \in [Started -> {"loop", "drain", "send", "join", "ended"}]
    /\ cRecv \in [Started -> {"loop", "msgrcv", "handle", "done"}]
    /\ cRunning \in [Started -> BOOLEAN]
    /\ cMessage \in [Started -> Seq(Message)] /\ arrived \in [Started -> Seq(Message)]
    /\ dest \in [Started -> 0..3] /\ msg \in [Started -> Message]
    /\ failed \in [Started -> Nat]
    /\ sent \in [Started -> Nat] /\ \A c \in Started : sent[c] <= MaxSends[c]

LEMMA TypeParts ==
    TypeOK <=> QueueType /\ ServerType /\ ClientType /\ interrupts \in 0..MaxInterrupts
BY AfterSendStates DEF TypeOK, QueueType, ServerType, ClientType

LEMMA TypeInit == Init => TypeOK
<1> SUFFICES ASSUME Init PROVE TypeOK
    OBVIOUS
<1> USE DispatcherAssumption DEF Init
<1>1. QueueType
  BY DEF QueueType
<1>2. ServerType
  BY Messages DEF ServerInit, ServerType
<1>3. ClientType
  BY Messages DEF ClientInit, ClientType
<1>4. interrupts \in 0..MaxInterrupts
  OBVIOUS
<1> QED
  BY <1>1, <1>2, <1>3, <1>4, TypeParts

\* Each part is left alone by a step that leaves its variables alone.
LEMMA TypeFrames ==
    /\ QueueType /\ UNCHANGED mq => QueueType'
    /\ ServerType /\ UNCHANGED server => ServerType'
    /\ ClientType /\ UNCHANGED client => ClientType'
BY DEF QueueType, ServerType, ClientType, mq, server, serverMain, serverRecv,
       client, clientMain, clientRecv

\* The server keeps the types of its own variables and of the queue.
LEMMA ServerTypeStep ==
    ASSUME TypeOK, ServerMain \/ ServerRecvThread
    PROVE  QueueType' /\ ServerType' /\ UNCHANGED <<client, interrupts>>
<1>0. QueueType /\ ServerType
  BY TypeParts
<1> USE DEF ServerType, serverMain, serverRecv
<1>1. CASE ServerLeave \/ ServerDrained \/ ServerRecvLeave
  <2>1. UNCHANGED <<mq, client, interrupts, sMessage, recv_Msg>>
    BY <1>1 DEF ServerLeave, ServerDrained, ServerRecvLeave
  <2>2. send_Msg' \in Message
    <3>1. [send_Msg EXCEPT !.mtype = send_Msg.dest] \in Message
      BY <1>0, Readdressed
    <3> QED
      BY <1>0, <1>1, <3>1 DEF ServerLeave, ServerDrained, ServerRecvLeave
  <2>3. ServerType'
    BY <1>0, <1>1, <2>1, <2>2 DEF ServerLeave, ServerDrained, ServerRecvLeave
  <2> QED
    BY <1>0, <2>1, <2>3, TypeFrames
<1>2. CASE ServerDrain \/ ServerPush
  <2>1. UNCHANGED <<mq, client, interrupts, recv_Msg, sRunning>>
    BY <1>2 DEF ServerDrain, ServerPush
  <2>2. sMessage' \in Seq(Message) /\ send_Msg' \in Message
    BY <1>0, <1>2 DEF ServerDrain, ServerPush
  <2>3. /\ sMain' \in {"loop", "drain", "forward", "quit1", "quit2", "quit3", "join", "ended"}
        /\ sRecv' \in {"loop", "push", "done"}
    BY <1>0, <1>2 DEF ServerDrain, ServerPush
  <2> QED
    BY <1>0, <2>1, <2>2, <2>3, TypeFrames
<1>3. CASE ServerSend
  <2>1. UNCHANGED <<exists, serverRecv, sRunning, sMessage, send_Msg, client, interrupts>>
        /\ CanSend
    BY <1>3 DEF ServerSend
  <2>2. ServerType'
    BY <1>0, <1>3, <2>1, SendCases
  <2>3. \E m \in Message : Send(m)
    BY <1>0, <1>3, SendCases, Messages DEF Clients
  <2>4. QueueType'
    BY <1>0, <2>1, <2>3, Sent DEF QueueType
  <2> QED
    BY <2>1, <2>2, <2>4
<1>4. CASE ServerRemove
  <2>1. /\ UNCHANGED <<serverRecv, sRunning, sMessage, send_Msg, client, interrupts>>
        /\ sMain' = "ended" /\ queue' = <<>> /\ exists' = FALSE
    BY <1>4 DEF ServerRemove
  <2>2. QueueType'
    <3>1. queue' \in Seq(Message) /\ Len(queue') = 0
      BY <2>1
    <3>2. exists' \in BOOLEAN
      BY <2>1
    <3>3. 0 <= QueueCap
      BY DispatcherAssumption
    <3> QED
      BY <3>1, <3>2, <3>3 DEF QueueType
  <2> QED
    BY <1>0, <2>1, <2>2
<1>5. CASE ServerRecv
  <2>1. /\ UNCHANGED <<exists, serverMain, sRunning, sMessage, client, interrupts>>
        /\ sRecv' = "push" /\ recv_Msg' = queue[FirstOf(SERVER)]
        /\ Waiting(SERVER) /\ queue' = RemoveAt(queue, FirstOf(SERVER))
    BY <1>5 DEF ServerRecv
  <2>2. QueueType' /\ recv_Msg' \in Message
    BY <1>0, <2>1, Received DEF QueueType
  <2> QED
    BY <1>0, <2>1, <2>2
<1> QED
  BY <1>1, <1>2, <1>3, <1>4, <1>5 DEF ServerMain, ServerRecvThread

\* So does a client's main thread,
LEMMA ClientMainTypeStep ==
    ASSUME TypeOK, NEW c \in Started, ClientMain(c)
    PROVE  QueueType' /\ ClientType' /\ UNCHANGED <<server, interrupts>>
<1>0. QueueType /\ ClientType /\ c \in Clients
  BY TypeParts, DispatcherAssumption
<1> USE DEF ClientType, clientMain, clientRecv
<1>1. CASE ClientLeave(c) \/ ClientPrint(c) \/ ClientJoin(c)
  <2>1. UNCHANGED <<mq, server, clientRecv, cRunning, dest, sent, interrupts>>
    BY <1>1 DEF ClientLeave, ClientPrint, ClientJoin
  <2>2. cMain' \in [Started -> {"loop", "drain", "send", "join", "ended"}]
    BY <1>0, <1>1 DEF ClientLeave, ClientPrint, ClientJoin
  <2>3. cMessage' \in [Started -> Seq(Message)]
    <3>1. cMessage[c] \in Seq(Message)
      BY <1>0
    <3>2. cMessage[c] # <<>> => Tail(cMessage[c]) \in Seq(Message)
      BY <3>1
    <3>3. \/ cMessage' = cMessage
          \/ cMessage[c] # <<>> /\ cMessage' = [cMessage EXCEPT ![c] = Tail(cMessage[c])]
      BY <1>1 DEF ClientLeave, ClientPrint, ClientJoin
    <3> QED
      BY <1>0, <3>2, <3>3
  <2> QED
    BY <1>0, <2>1, <2>2, <2>3, TypeFrames
<1>2. CASE ClientAddress(c)
  <2>1. UNCHANGED <<mq, server, clientRecv, cRunning, cMessage, interrupts>>
    BY <1>2 DEF ClientAddress
  <2>2. cMain' \in [Started -> {"loop", "drain", "send", "join", "ended"}]
    BY <1>0, <1>2 DEF ClientAddress
  <2>3. dest' \in [Started -> 0..3]
    BY <1>0, <1>2, Destinations DEF ClientAddress, Clients
  <2>4. sent' \in [Started -> Nat] /\ \A d \in Started : sent'[d] <= MaxSends[d]
    <3>1. CASE sent[c] < MaxSends[c]
      <4>1. sent' = [sent EXCEPT ![c] = sent[c] + 1]
        BY <1>2, <3>1 DEF ClientAddress
      <4>2. sent[c] \in Nat /\ MaxSends[c] \in Nat
        BY <1>0, DispatcherAssumption
      <4>3. sent[c] + 1 \in Nat /\ sent[c] + 1 <= MaxSends[c]
        BY <3>1, <4>2
      <4> QED
        BY <1>0, <4>1, <4>3
    <3>2. CASE ~(sent[c] < MaxSends[c])
      BY <1>0, <1>2, <3>2 DEF ClientAddress
    <3> QED
      BY <3>1, <3>2
  <2> QED
    BY <1>0, <2>1, <2>2, <2>3, <2>4, TypeFrames
<1>3. CASE ClientSend(c)
  <2>1. /\ UNCHANGED <<exists, server, clientRecv, cRunning, cMessage, dest, sent, interrupts>>
        /\ CanSend /\ Send(ClientMsg(SERVER, c, dest[c], sent[c]))
    BY <1>3 DEF ClientSend
  <2>2. cMain' \in [Started -> {"loop", "drain", "send", "join", "ended"}]
    BY <1>0, <1>3 DEF ClientSend
  <2>3. ClientMsg(SERVER, c, dest[c], sent[c]) \in Message
    BY <1>0 DEF ClientMsg, Message, Clients, SERVER
  <2>4. QueueType'
    BY <1>0, <2>1, <2>3, Sent DEF QueueType
  <2> QED
    BY <1>0, <2>1, <2>2, <2>4
<1> QED
  BY <1>1, <1>2, <1>3 DEF ClientMain

\* and its receive thread.
LEMMA ClientRecvTypeStep ==
    ASSUME TypeOK, NEW c \in Started, ClientRecvThread(c)
    PROVE  QueueType' /\ ClientType' /\ UNCHANGED <<server, interrupts>>
<1>0. QueueType /\ ClientType /\ c \in Clients
  BY TypeParts, DispatcherAssumption
<1> USE DEF ClientType, clientMain, clientRecv
<1>1. CASE ClientRecvLoop(c)
  <2>1. UNCHANGED <<mq, server, clientMain, cRunning, cMessage, msg, arrived, failed, interrupts>>
    BY <1>1 DEF ClientRecvLoop
  <2>2. cRecv' \in [Started -> {"loop", "msgrcv", "handle", "done"}]
    BY <1>0, <1>1 DEF ClientRecvLoop
  <2> QED
    BY <1>0, <2>1, <2>2, TypeFrames
<1>2. CASE ClientRecv(c)
  <2>1. /\ UNCHANGED <<exists, server, clientMain, cRunning, cMessage, arrived, failed, interrupts>>
        /\ cRecv' = [cRecv EXCEPT ![c] = "handle"]
        /\ msg' = [msg EXCEPT ![c] = queue[FirstOf(c)]]
        /\ Waiting(c) /\ queue' = RemoveAt(queue, FirstOf(c))
    BY <1>2 DEF ClientRecv
  <2>2. QueueType' /\ queue[FirstOf(c)] \in Message
    BY <1>0, <2>1, Received DEF QueueType
  <2> QED
    BY <1>0, <2>1, <2>2
<1>3. CASE ClientRecvRemoved(c)
  <2>1. UNCHANGED <<mq, server, clientMain, cRunning, cMessage, arrived, interrupts>>
    BY <1>3 DEF ClientRecvRemoved
  <2>2. cRecv' \in [Started -> {"loop", "msgrcv", "handle", "done"}]
    BY <1>0, <1>3 DEF ClientRecvRemoved, ClientRecvFails
  <2>4. msg' \in [Started -> Message]
    <3>1. msg' \in {msg, [msg EXCEPT ![c] = Garbage]}
      BY <1>3 DEF ClientRecvRemoved, ClientRecvFails
    <3>2. msg \in [Started -> Message] /\ Garbage \in Message
      BY <1>0, Messages
    <3> QED
      BY <3>1, <3>2
  <2>3. failed' \in [Started -> Nat]
    <3>1. failed \in [Started -> Nat] /\ failed[c] \in Nat
      BY <1>0
    <3>2. failed' = failed \/ failed' = [failed EXCEPT ![c] = failed[c] + 1]
      BY <1>3 DEF ClientRecvRemoved, ClientRecvFails
    <3> QED
      BY <3>1, <3>2, SMT
  <2> QED
    BY <1>0, <2>1, <2>2, <2>3, <2>4, TypeFrames
<1>4. CASE ClientHandle(c)
  <2>1. UNCHANGED <<mq, server, clientMain, msg, failed, interrupts>>
    BY <1>4 DEF ClientHandle
  <2>2. cRecv' \in [Started -> {"loop", "msgrcv", "handle", "done"}]
    BY <1>0, <1>4 DEF ClientHandle
  <2>3. cRunning' \in [Started -> BOOLEAN]
    BY <1>0, <1>4 DEF ClientHandle
  <2>4. cMessage' \in [Started -> Seq(Message)]
    <3>1. Append(cMessage[c], msg[c]) \in Seq(Message)
      BY <1>0
    <3>2. cMessage' \in {cMessage, [cMessage EXCEPT ![c] = Append(cMessage[c], msg[c])]}
      BY <1>4 DEF ClientHandle
    <3> QED
      BY <1>0, <3>1, <3>2
  <2>5. arrived' \in [Started -> Seq(Message)]
    <3>1. Append(arrived[c], msg[c]) \in Seq(Message)
      BY <1>0
    <3>2. arrived' \in {arrived, [arrived EXCEPT ![c] = Append(arrived[c], msg[c])]}
      BY <1>4 DEF ClientHandle
    <3> QED
      BY <1>0, <3>1, <3>2
  <2> QED
    BY <1>0, <2>1, <2>2, <2>3, <2>4, <2>5, TypeFrames
<1> QED
  BY <1>1, <1>2, <1>3, <1>4 DEF ClientRecvThread

LEMMA InterruptTypeStep ==
    ASSUME TypeOK, ServerInterrupt \/ \E c \in Started : ClientInterrupt(c)
    PROVE  QueueType' /\ ServerType' /\ ClientType' /\ interrupts' \in 0..MaxInterrupts
<1>0. QueueType /\ ServerType /\ ClientType /\ interrupts \in 0..MaxInterrupts
  BY TypeParts
<1>1. CASE ServerInterrupt
  <2>1. /\ UNCHANGED <<mq, serverRecv, sMessage, send_Msg, client>> /\ sRunning' = FALSE
        /\ interrupts < MaxInterrupts /\ interrupts' = interrupts + 1
    BY <1>1 DEF ServerInterrupt
  <2>2. sMain' \in {"loop", "drain", "forward", "quit1", "quit2", "quit3", "join", "ended"}
    BY <1>0, <1>1, AfterSendStates DEF ServerInterrupt, ServerType
  <2>3. ServerType'
    BY <1>0, <2>1, <2>2 DEF ServerType, serverRecv
  <2>4. interrupts' \in 0..MaxInterrupts
    BY <1>0, <2>1, DispatcherAssumption
  <2> QED
    BY <1>0, <2>1, <2>3, <2>4, TypeFrames
<1>2. ASSUME NEW c \in Started, ClientInterrupt(c)
      PROVE  QueueType' /\ ServerType' /\ ClientType' /\ interrupts' \in 0..MaxInterrupts
  <2>1. /\ UNCHANGED <<mq, server, cMessage, arrived, dest, sent>>
        /\ interrupts < MaxInterrupts /\ interrupts' = interrupts + 1
        /\ cRunning' = [cRunning EXCEPT ![c] = FALSE]
    BY <1>2 DEF ClientInterrupt, clientMain, clientRecv
  <2>2. cMain' \in [Started -> {"loop", "drain", "send", "join", "ended"}]
    BY <1>0, <1>2 DEF ClientInterrupt, clientMain, ClientType
  <2>3. cRecv' \in [Started -> {"loop", "msgrcv", "handle", "done"}]
    BY <1>0, <1>2 DEF ClientInterrupt, clientRecv, ClientType, ClientRecvFails
  <2>4. msg' \in [Started -> Message]
    <3>1. msg' \in {msg, [msg EXCEPT ![c] = Garbage]}
      BY <1>2 DEF ClientInterrupt, clientRecv, ClientRecvFails
    <3>2. msg \in [Started -> Message] /\ Garbage \in Message
      BY <1>0, Messages DEF ClientType
    <3> QED
      BY <3>1, <3>2
  <2>7. failed' \in [Started -> Nat]
    <3>1. failed' \in {failed, [failed EXCEPT ![c] = failed[c] + 1]}
      BY <1>2 DEF ClientInterrupt, clientRecv, ClientRecvFails
    <3>2. failed \in [Started -> Nat] /\ failed[c] + 1 \in Nat
      BY <1>0 DEF ClientType
    <3> QED
      BY <3>1, <3>2
  <2>5. ClientType'
    BY <1>0, <2>1, <2>2, <2>3, <2>4, <2>7 DEF ClientType
  <2>6. interrupts' \in 0..MaxInterrupts
    BY <1>0, <2>1, DispatcherAssumption
  <2> QED
    BY <1>0, <2>1, <2>5, <2>6, TypeFrames
<1> QED
  BY <1>1, <1>2

LEMMA TypeStep == TypeOK /\ [Next]_vars => TypeOK'
<1> SUFFICES ASSUME TypeOK, [Next]_vars
             PROVE  QueueType' /\ ServerType' /\ ClientType' /\ interrupts' \in 0..MaxInterrupts
    BY AfterSendStates DEF TypeOK, QueueType, ServerType, ClientType
<1>0. QueueType /\ ServerType /\ ClientType /\ interrupts \in 0..MaxInterrupts
  BY TypeParts
<1>1. CASE ServerMain \/ ServerRecvThread
  BY <1>0, <1>1, ServerTypeStep, TypeFrames
<1>2. ASSUME NEW c \in Started, ClientMain(c) \/ ClientRecvThread(c)
      PROVE  QueueType' /\ ServerType' /\ ClientType' /\ interrupts' \in 0..MaxInterrupts
  BY <1>0, <1>2, ClientMainTypeStep, ClientRecvTypeStep, TypeFrames
<1>3. CASE ServerInterrupt \/ \E c \in Started : ClientInterrupt(c)
  BY <1>3, InterruptTypeStep
<1>4. CASE UNCHANGED vars
  BY <1>0, <1>4, TypeFrames DEF vars
<1> QED
  BY <1>1, <1>2, <1>3, <1>4 DEF Next

-----------------------------------------------------------------------------
(* Addresses *)

LEMMA RoutedAppend ==
    ASSUME NEW q \in Seq(Message), NEW m \in Message, Routed(q), ForServer(m) \/ ForClient(m)
    PROVE  Routed(Append(q, m))
<1> DEFINE r == Append(q, m)
<1>1. /\ Len(r) = Len(q) + 1 /\ r[Len(q) + 1] = m
      /\ \A i \in 1..Len(q) : r[i] = q[i]
  OBVIOUS
<1> HIDE DEF r
<1>2. ASSUME NEW i \in 1..Len(r) PROVE r[i] = m \/ (i \in 1..Len(q) /\ r[i] = q[i])
  BY <1>1
<1>3. Routed(r)
  BY <1>2 DEF Routed
<1> QED
  BY <1>3 DEF r

LEMMA RoutedRemoved ==
    ASSUME NEW q \in Seq(Message), NEW k \in 1..Len(q), Routed(q)
    PROVE  Routed(RemoveAt(q, k))
<1> DEFINE r == RemoveAt(q, k)
<1>1. Len(r) = Len(q) - 1
  BY Removed
<1>2. ASSUME NEW i \in 1..Len(r) PROVE \E j \in 1..Len(q) : r[i] = q[j]
  <2>1. r[i] = q[i] \/ r[i] = q[i + 1]
    BY <1>1, Removed
  <2>2. i \in 1..Len(q) /\ i + 1 \in 1..Len(q)
    BY <1>1
  <2> QED
    BY <2>1, <2>2
<1> HIDE DEF r
<1>3. Routed(r)
  BY <1>2 DEF Routed
<1> QED
  BY <1>3 DEF r

\* A client's variables are all its addresses depend on.
LEMMA AddressFrame ==
    ASSUME NEW d, ClientAddressed(d),
           UNCHANGED <<cMain[d], dest[d], msg[d], cRecv[d], failed[d], arrived[d]>>
    PROVE  ClientAddressed(d)'
BY DEF ClientAddressed

LEMMA TypeOfKinds ==
    /\ \A m \in Message : ForServer(m) => m.mtype = SERVER /\ ~ForClient(m)
    /\ \A m \in Message : ForClient(m) => m.mtype \in Clients
    /\ SERVER \notin Clients
BY DEF ForServer, ForClient, Clients, SERVER

LEMMA AddressedInit == Init => AddressedInv
<1> SUFFICES ASSUME Init PROVE AddressedInv
    OBVIOUS
<1>1. Routed(queue)
  BY DEF Init, Routed
<1>2. ServerAddressed
  BY DEF Init, ServerInit, ServerAddressed
<1>3. \A c \in Started : ClientAddressed(c)
  BY DEF Init, ClientInit, ClientAddressed
<1> QED
  BY <1>1, <1>2, <1>3 DEF AddressedInv

LEMMA ServerAddressedStep ==
    ASSUME TypeOK, AddressedInv, ServerMain \/ ServerRecvThread
    PROVE  AddressedInv'
<1>0. /\ QueueType /\ ServerType /\ Routed(queue) /\ ServerAddressed
      /\ \A c \in Started : ClientAddressed(c)
  BY TypeParts DEF AddressedInv
<1>c. ASSUME NEW c \in Started PROVE ClientAddressed(c)'
  BY <1>0, ServerTypeStep, AddressFrame DEF client, clientMain, clientRecv
<1> USE DEF serverMain, serverRecv
<1>1. CASE ServerLeave \/ ServerRecvLeave
  <2>1. UNCHANGED <<mq, sMessage, recv_Msg, send_Msg>>
    BY <1>1 DEF ServerLeave, ServerRecvLeave
  <2>2. ServerAddressed'
    BY <1>0, <1>1, <2>1 DEF ServerAddressed, ServerLeave, ServerRecvLeave
  <2> QED
    BY <1>0, <1>c, <2>1, <2>2 DEF AddressedInv, mq
<1>2. CASE ServerDrained
  <2>1. /\ sMain = "drain" /\ sMain' = "forward"
        /\ send_Msg' = [send_Msg EXCEPT !.mtype = send_Msg.dest]
        /\ UNCHANGED <<mq, serverRecv, sMessage>>
    BY <1>2 DEF ServerDrained
  <2>2. send_Msg \in Message /\ ForServer(send_Msg)
    BY <1>0, <2>1 DEF ServerType, ServerAddressed
  <2>3. /\ send_Msg'.mtype = send_Msg.dest /\ send_Msg'.dest = send_Msg.dest
        /\ send_Msg'.source = send_Msg.source
    BY <2>1, <2>2 DEF Message
  <2>4. ForClient(send_Msg') /\ send_Msg'.source # 0
    BY <2>2, <2>3, DispatcherAssumption DEF ForServer, ForClient, Clients
  <2>5. ServerAddressed'
    BY <1>0, <2>1, <2>4 DEF ServerAddressed
  <2> QED
    BY <1>0, <1>c, <2>1, <2>5 DEF AddressedInv, mq
<1>3. CASE ServerDrain
  <2>1. /\ sMain' = "drain" /\ sMessage # <<>>
        /\ send_Msg' = Head(sMessage) /\ sMessage' = Tail(sMessage)
        /\ UNCHANGED <<mq, serverRecv>>
    BY <1>3 DEF ServerDrain
  <2>2. /\ sMessage \in Seq(Message) /\ 1 \in 1..Len(sMessage) /\ Head(sMessage) = sMessage[1]
        /\ Len(Tail(sMessage)) = Len(sMessage) - 1
        /\ \A i \in 1..(Len(sMessage) - 1) :
               Tail(sMessage)[i] = sMessage[i + 1] /\ i + 1 \in 1..Len(sMessage)
    BY <1>0, <2>1 DEF ServerType
  <2>3. ForServer(send_Msg') /\ \A i \in 1..Len(sMessage') : ForServer(sMessage'[i])
    BY <1>0, <2>1, <2>2 DEF ServerAddressed
  <2>4. ServerAddressed'
    BY <1>0, <2>1, <2>3 DEF ServerAddressed
  <2> QED
    BY <1>0, <1>c, <2>1, <2>4 DEF AddressedInv, mq
<1>4. CASE ServerSend
  <2>1. UNCHANGED <<exists, serverRecv, sMessage, send_Msg>>
    BY <1>4 DEF ServerSend
  <2>2. ServerAddressed'
    BY <1>0, <1>4, <2>1, SendCases DEF ServerAddressed
  <2>3. \A d \in Clients : ForClient(Quit(d))
    BY DEF ForClient, Quit, ClientMsg
  <2>4. PICK m \in Message : ForClient(m) /\ Send(m)
    BY <1>0, <1>4, <2>3, SendCases, Messages DEF ServerAddressed, ServerType, Clients
  <2>5. Routed(queue')
    BY <1>0, <2>4, RoutedAppend DEF Send, QueueType
  <2> QED
    BY <1>0, <1>c, <2>1, <2>2, <2>5 DEF AddressedInv
<1>5. CASE ServerRemove
  <2>1. /\ sMain' = "ended" /\ queue' = <<>> /\ exists' = FALSE
        /\ UNCHANGED <<serverRecv, sMessage, send_Msg>>
    BY <1>5 DEF ServerRemove
  <2>2. ServerAddressed'
    BY <1>0, <2>1 DEF ServerAddressed
  <2>3. Routed(queue')
    BY <2>1 DEF Routed
  <2> QED
    BY <1>0, <1>c, <2>1, <2>2, <2>3 DEF AddressedInv
<1>6. CASE ServerRecv
  <2>1. /\ sRecv' = "push" /\ recv_Msg' = queue[FirstOf(SERVER)]
        /\ Waiting(SERVER) /\ queue' = RemoveAt(queue, FirstOf(SERVER))
        /\ UNCHANGED <<exists, serverMain, sMessage>>
    BY <1>6 DEF ServerRecv
  <2>2. /\ queue \in Seq(Message) /\ FirstOf(SERVER) \in 1..Len(queue)
        /\ queue[FirstOf(SERVER)].mtype = SERVER
    BY <1>0, <2>1, FirstOfType DEF QueueType
  <2>3. ForServer(recv_Msg')
    BY <1>0, <2>1, <2>2, TypeOfKinds DEF Routed
  <2>4. Routed(queue')
    BY <1>0, <2>1, <2>2, RoutedRemoved
  <2>5. ServerAddressed'
    BY <1>0, <2>1, <2>3 DEF ServerAddressed
  <2> QED
    BY <1>0, <1>c, <2>1, <2>4, <2>5 DEF AddressedInv
<1>7. CASE ServerPush
  <2>1. /\ sRecv = "push" /\ sRecv' = "loop" /\ sMessage' = Append(sMessage, recv_Msg)
        /\ UNCHANGED <<mq, serverMain, recv_Msg>>
    BY <1>7 DEF ServerPush
  <2>2. /\ sMessage \in Seq(Message) /\ Len(sMessage') = Len(sMessage) + 1
        /\ sMessage'[Len(sMessage) + 1] = recv_Msg
        /\ \A i \in 1..Len(sMessage) : sMessage'[i] = sMessage[i]
    BY <1>0, <2>1 DEF ServerType
  <2>3. \A i \in 1..Len(sMessage') : ForServer(sMessage'[i])
    BY <1>0, <2>1, <2>2 DEF ServerAddressed
  <2>4. ServerAddressed'
    BY <1>0, <2>1, <2>3 DEF ServerAddressed
  <2> QED
    BY <1>0, <1>c, <2>1, <2>4 DEF AddressedInv, mq
<1> QED
  BY <1>1, <1>2, <1>3, <1>4, <1>5, <1>6, <1>7 DEF ServerMain, ServerRecvThread

\* A step of client c, or an interrupt, leaves the other clients alone.
LEMMA OthersFrame ==
    ASSUME TypeOK, NEW c \in Started, ClientMain(c) \/ ClientRecvThread(c) \/ ClientInterrupt(c),
           NEW d \in Started, d # c
    PROVE  UNCHANGED <<exists, cMain[d], dest[d], msg[d], cRecv[d], cRunning[d], failed[d],
                       arrived[d], sent[d]>>
<1>0. ClientType
  BY TypeParts
<1> USE DEF mq, clientMain, clientRecv
<1>1. CASE ClientMain(c)
  BY <1>0, <1>1 DEF ClientMain, ClientLeave, ClientPrint, ClientAddress, ClientSend,
     ClientJoin, ClientType
<1>2. CASE ClientRecvThread(c)
  <2>1. msg'[d] = msg[d] /\ failed'[d] = failed[d]
    BY <1>0, <1>2 DEF ClientRecvThread, ClientRecvLoop, ClientRecv, ClientRecvRemoved,
       ClientRecvFails, ClientHandle, ClientType
  <2>2. UNCHANGED <<exists, cMain, dest, sent>>
    BY <1>2 DEF ClientRecvThread, ClientRecvLoop, ClientRecv, ClientRecvRemoved, ClientHandle
  <2>3. cRecv'[d] = cRecv[d] /\ cRunning'[d] = cRunning[d]
    BY <1>0, <1>2 DEF ClientRecvThread, ClientRecvLoop, ClientRecv, ClientRecvRemoved,
       ClientRecvFails, ClientHandle, ClientType
  <2>4. arrived'[d] = arrived[d]
    BY <1>0, <1>2 DEF ClientRecvThread, ClientRecvLoop, ClientRecv, ClientRecvRemoved,
       ClientHandle, ClientType
  <2> QED
    BY <2>1, <2>2, <2>3, <2>4
<1>3. CASE ClientInterrupt(c)
  <2>1. msg'[d] = msg[d] /\ cRecv'[d] = cRecv[d] /\ failed'[d] = failed[d]
    BY <1>0, <1>3 DEF ClientInterrupt, ClientRecvFails, ClientType
  <2>2. cMain'[d] = cMain[d] /\ cRunning'[d] = cRunning[d]
    BY <1>0, <1>3 DEF ClientInterrupt, ClientType
  <2>3. UNCHANGED <<exists, dest, sent, arrived>>
    BY <1>3 DEF ClientInterrupt
  <2> QED
    BY <2>1, <2>2, <2>3
<1> QED
  BY <1>1, <1>2, <1>3

LEMMA ClientMainAddressedStep ==
    ASSUME TypeOK, AddressedInv, NEW c \in Started, ClientMain(c)
    PROVE  AddressedInv'
<1>0. /\ QueueType /\ ClientType /\ Routed(queue) /\ ServerAddressed
      /\ ClientAddressed(c) /\ c \in Clients
  BY TypeParts, DispatcherAssumption DEF AddressedInv
<1>1. \A d \in Started \ {c} : ClientAddressed(d)'
  BY OthersFrame, AddressFrame DEF AddressedInv
<1>2. ServerAddressed'
  <2>1. UNCHANGED server
    BY ClientMainTypeStep
  <2> QED
    BY <1>0, <2>1 DEF ServerAddressed, server, serverMain, serverRecv
<1>3. UNCHANGED <<exists, msg, cRecv, failed, arrived>>
  BY DEF ClientMain, ClientLeave, ClientPrint, ClientAddress, ClientSend, ClientJoin, mq,
     clientRecv
<1> USE DEF clientMain, clientRecv
<1>4. CASE ClientLeave(c) \/ ClientPrint(c) \/ ClientJoin(c)
  <2>1. queue' = queue /\ dest' = dest /\ cMain'[c] # "send"
    BY <1>0, <1>4 DEF ClientLeave, ClientPrint, ClientJoin, mq, ClientType
  <2>2. ClientAddressed(c)'
    BY <1>0, <1>3, <2>1 DEF ClientAddressed
  <2> QED
    BY <1>0, <1>1, <1>2, <2>1, <2>2 DEF AddressedInv
<1>5. CASE ClientAddress(c)
  <2>1. queue' = queue
    BY <1>5 DEF ClientAddress, mq
  <2>2. cMain'[c] = "send" => dest'[c] \in Clients \ {c}
    BY <1>0, <1>5, Destinations DEF ClientAddress, ClientType
  <2>3. ClientAddressed(c)'
    BY <1>0, <1>3, <2>2 DEF ClientAddressed
  <2> QED
    BY <1>0, <1>1, <1>2, <2>1, <2>3 DEF AddressedInv
<1>6. CASE ClientSend(c)
  <2>1. /\ cMain[c] = "send" /\ cMain'[c] # "send" /\ dest' = dest
        /\ Send(ClientMsg(SERVER, c, dest[c], sent[c]))
    BY <1>0, <1>6 DEF ClientSend, ClientType
  <2>2. ClientAddressed(c)'
    BY <1>0, <1>3, <2>1 DEF ClientAddressed
  <2>3. dest[c] \in Clients \ {c} /\ sent[c] \in Nat
    BY <1>0, <2>1 DEF ClientAddressed, ClientType
  <2>4. ForServer(ClientMsg(SERVER, c, dest[c], sent[c]))
    BY <2>3 DEF ForServer, ClientMsg
  <2>5. Routed(queue')
    BY <1>0, <2>1, <2>3, <2>4, Messages, RoutedAppend DEF Send, QueueType
  <2> QED
    BY <1>0, <1>1, <1>2, <2>2, <2>5 DEF AddressedInv
<1> QED
  BY <1>4, <1>5, <1>6 DEF ClientMain

LEMMA ClientRecvAddressedStep ==
    ASSUME TypeOK, AddressedInv, NEW c \in Started, ClientRecvThread(c)
    PROVE  AddressedInv'
<1>0. /\ QueueType /\ ClientType /\ Routed(queue) /\ ServerAddressed
      /\ ClientAddressed(c) /\ c \in Clients
  BY TypeParts, DispatcherAssumption DEF AddressedInv
<1>1. \A d \in Started \ {c} : ClientAddressed(d)'
  BY OthersFrame, AddressFrame DEF AddressedInv
<1>2. ServerAddressed'
  <2>1. UNCHANGED server
    BY ClientRecvTypeStep
  <2> QED
    BY <1>0, <2>1 DEF ServerAddressed, server, serverMain, serverRecv
<1>3. UNCHANGED <<exists, cMain, dest>>
  BY DEF ClientRecvThread, ClientRecvLoop, ClientRecv, ClientRecvRemoved, ClientHandle, mq,
     clientMain
<1>a. ASSUME Routed(queue'), ClientAddressed(c)' PROVE AddressedInv'
  BY <1>1, <1>2, <1>a DEF AddressedInv
<1>4. CASE ClientRecvLoop(c)
  <2>1. UNCHANGED <<queue, msg, failed, arrived>> /\ cRecv'[c] # "handle"
    BY <1>0, <1>4 DEF ClientRecvLoop, mq, ClientType
  <2> QED
    BY <1>0, <1>3, <1>a, <2>1 DEF ClientAddressed
<1>5. CASE ClientRecv(c)
  <2>1. /\ UNCHANGED <<failed, arrived>>
        /\ msg' = [msg EXCEPT ![c] = queue[FirstOf(c)]]
        /\ Waiting(c) /\ queue' = RemoveAt(queue, FirstOf(c))
    BY <1>5 DEF ClientRecv
  <2>2. /\ queue \in Seq(Message) /\ FirstOf(c) \in 1..Len(queue)
        /\ queue[FirstOf(c)].mtype = c
    BY <1>0, <2>1, FirstOfType DEF QueueType
  <2>3. msg'[c] = queue[FirstOf(c)] /\ msg'[c] \in Message
    BY <1>0, <2>1, <2>2 DEF ClientType
  <2>4. ForClient(msg'[c]) /\ msg'[c].mtype = c
    BY <1>0, <2>2, <2>3, TypeOfKinds DEF Routed
  <2>5. msg'[c] # Garbage
    BY <1>0, <2>4 DEF Garbage, ClientMsg, Clients
  <2>6. Routed(queue')
    BY <1>0, <2>1, <2>2, RoutedRemoved
  <2> QED
    BY <1>0, <1>3, <1>a, <2>1, <2>4, <2>5, <2>6 DEF ClientAddressed
<1>6. CASE ClientRecvRemoved(c)
  <2>1. /\ UNCHANGED <<queue, arrived>> /\ msg'[c] \in {msg[c], Garbage}
        /\ failed'[c] # 0 \/ (failed'[c] = failed[c] /\ cRecv'[c] # "handle")
    BY <1>0, <1>6 DEF ClientRecvRemoved, ClientRecvFails, mq, ClientType
  <2> QED
    BY <1>0, <1>3, <1>a, <2>1 DEF ClientAddressed
<1>7. CASE ClientHandle(c)
  <2>1. UNCHANGED <<queue, msg, failed>> /\ cRecv'[c] # "handle" /\ cRecv[c] = "handle"
    BY <1>0, <1>7 DEF ClientHandle, mq, ClientType
  <2>2. CASE arrived' = arrived
    BY <1>0, <1>3, <1>a, <2>1, <2>2 DEF ClientAddressed
  <2>3. CASE ~IsQuit(msg[c]) /\ arrived' = [arrived EXCEPT ![c] = Append(arrived[c], msg[c])]
    <3>1. /\ Len(arrived'[c]) = Len(arrived[c]) + 1
          /\ arrived'[c][Len(arrived[c]) + 1] = msg[c]
          /\ \A i \in 1..Len(arrived[c]) : arrived'[c][i] = arrived[c][i]
          /\ Len(arrived[c]) \in Nat
      BY <1>0, <2>3 DEF ClientType
    <3>3. \/ msg[c] = Garbage /\ failed[c] # 0
          \/ ForClient(msg[c]) /\ msg[c].mtype = c /\ msg[c].source # 0
      BY <1>0, <2>1, <2>3 DEF ClientAddressed, IsQuit
    <3>4. \A i \in 1..Len(arrived'[c]) :
              i \in 1..Len(arrived[c]) \/ i = Len(arrived[c]) + 1
      BY <3>1
    <3>5. ASSUME NEW i \in 1..Len(arrived'[c])
          PROVE  \/ arrived'[c][i] = Garbage /\ failed[c] # 0
                 \/ /\ ForClient(arrived'[c][i]) /\ arrived'[c][i].mtype = c
                    /\ arrived'[c][i].source # 0
      BY <1>0, <3>1, <3>3, <3>4 DEF ClientAddressed
    <3> QED
      BY <1>0, <1>3, <1>a, <2>1, <3>5 DEF ClientAddressed
  <2> QED
    BY <1>7, <2>2, <2>3 DEF ClientHandle
<1> QED
  BY <1>4, <1>5, <1>6, <1>7 DEF ClientRecvThread

LEMMA InterruptAddressedStep ==
    ASSUME TypeOK, AddressedInv, ServerInterrupt \/ \E c \in Started : ClientInterrupt(c)
    PROVE  AddressedInv'
<1>0. /\ Routed(queue) /\ ServerAddressed /\ ClientType
      /\ \A c \in Started : ClientAddressed(c)
  BY TypeParts DEF AddressedInv
<1>1. CASE ServerInterrupt
  <2>1. UNCHANGED <<mq, sMessage, recv_Msg, sRecv, send_Msg, client>>
    BY <1>1 DEF ServerInterrupt, serverRecv
  <2>2. sMain' \notin {"drain", "forward"} \/ sMain' = sMain
    BY <1>1, AfterSendStates DEF ServerInterrupt
  <2>3. ServerAddressed'
    BY <1>0, <2>1, <2>2 DEF ServerAddressed
  <2>4. \A c \in Started : ClientAddressed(c)'
    BY <1>0, <2>1, AddressFrame DEF mq, client, clientMain, clientRecv
  <2> QED
    BY <1>0, <2>1, <2>3, <2>4 DEF AddressedInv, mq
<1>2. ASSUME NEW c \in Started, ClientInterrupt(c) PROVE AddressedInv'
  <2>1. UNCHANGED <<queue, exists, dest, arrived, sMain, sRecv, sMessage, send_Msg, recv_Msg>>
    BY <1>2 DEF ClientInterrupt, mq, server, serverMain, serverRecv, clientMain, clientRecv
  <2>2. /\ cMain'[c] = cMain[c] \/ cMain'[c] = "loop"
        /\ \/ UNCHANGED <<msg[c], cRecv[c], failed[c]>>
           \/ failed'[c] # 0 /\ msg'[c] \in {msg[c], Garbage}
    BY <1>0, <1>2 DEF ClientInterrupt, ClientRecvFails, ClientType, clientMain, clientRecv
  <2>3. ClientAddressed(c)'
    BY <1>0, <2>1, <2>2 DEF ClientAddressed
  <2>4. \A d \in Started \ {c} : ClientAddressed(d)'
    BY <1>0, <1>2, OthersFrame, AddressFrame
  <2>5. ServerAddressed'
    BY <1>0, <2>1 DEF ServerAddressed
  <2> QED
    BY <1>0, <2>1, <2>3, <2>4, <2>5 DEF AddressedInv
<1> QED
  BY <1>1, <1>2

LEMMA AddressedStep == TypeOK /\ AddressedInv /\ [Next]_vars => AddressedInv'
<1> SUFFICES ASSUME TypeOK, AddressedInv, [Next]_vars PROVE AddressedInv'
    OBVIOUS
<1>1. CASE UNCHANGED vars
  <2>1. UNCHANGED <<mq, server, client>>
    BY <1>1 DEF vars
  <2>2. Routed(queue') /\ ServerAddressed'
    BY <2>1 DEF AddressedInv, ServerAddressed, mq, server, serverMain, serverRecv
  <2>3. \A c \in Started : ClientAddressed(c)'
    BY <2>1, AddressFrame DEF AddressedInv, mq, client, clientMain, clientRecv
  <2> QED
    BY <2>2, <2>3 DEF AddressedInv
<1> QED
  BY <1>1, ServerAddressedStep, ClientMainAddressedStep, ClientRecvAddressedStep,
     InterruptAddressedStep DEF Next

-----------------------------------------------------------------------------
(* The way of the messages *)

LEMMA Places ==
    ASSUME NEW d
    PROVE  /\ Way(d)[1] = Got(d) /\ Way(d)[2] = Fetched(d) /\ Way(d)[3] = ToClients
           /\ Way(d)[4] = Forwarding /\ Way(d)[5] = Collected
           /\ Way(d)[6] = Collecting /\ Way(d)[7] = ToTheServer
           /\ Way(d)'[1] = Got(d)' /\ Way(d)'[2] = Fetched(d)' /\ Way(d)'[3] = ToClients'
           /\ Way(d)'[4] = Forwarding' /\ Way(d)'[5] = Collected'
           /\ Way(d)'[6] = Collecting' /\ Way(d)'[7] = ToTheServer'
BY DEF Way

\* Nothing in V that was not in W.
From(V, W) == \A p \in 1..7 : \A x \in V[p] : \E q \in 1..7 : x \in W[q]

\* Messages may disappear,
LEMMA Fewer ==
    ASSUME NEW W, NEW V, InLine(W), \A p \in 1..7 : V[p] \subseteq W[p]
    PROVE  InLine(V) /\ From(V, W)
BY DEF InLine, From

\* the first of a place may go to the next one,
LEMMA MoveOn ==
    ASSUME NEW W, NEW V, InLine(W), NEW k \in 1..6, NEW x \in W[k + 1],
           V[k] \subseteq W[k] \cup {x},
           V[k + 1] \subseteq W[k + 1], \A y \in V[k + 1] : Before(x, y),
           \A p \in 1..7 : p # k => V[p] \subseteq W[p]
    PROVE  InLine(V) /\ From(V, W)
<1>1. From(V, W)
  <2>1. k + 1 \in 1..7
    OBVIOUS
  <2> QED
    BY <2>1 DEF From
<1>2. SUFFICES ASSUME NEW p \in 1..7, NEW q \in 1..7, p < q,
                      NEW a \in V[p], NEW b \in V[q]
               PROVE  Before(a, b)
  BY <1>1 DEF InLine
<1>3. CASE a \in W[p] /\ b \in W[q]
  BY <1>2, <1>3 DEF InLine
<1>4. CASE p = k /\ a = x /\ b \in W[q]
  <2>1. CASE q = k + 1
    BY <1>2, <1>4, <2>1
  <2>2. CASE k + 1 < q
    BY <1>4, <2>2 DEF InLine
  <2> QED
    BY <1>2, <1>4, <2>1, <2>2
<1>5. CASE q = k /\ b = x /\ a \in W[p]
  <2>1. p < k + 1 /\ k + 1 \in 1..7
    BY <1>2, <1>5
  <2> QED
    BY <1>5, <2>1 DEF InLine
<1> QED
  BY <1>2, <1>3, <1>4, <1>5

\* and a new one that comes after all others may enter.
LEMMA Enter ==
    ASSUME NEW W, NEW V, InLine(W), NEW x,
           \A p \in 1..6 : \A y \in W[p] : Before(y, x),
           V[7] \subseteq W[7] \cup {x}, \A p \in 1..6 : V[p] \subseteq W[p]
    PROVE  InLine(V)
<1>1. SUFFICES ASSUME NEW p \in 1..7, NEW q \in 1..7, p < q,
                      NEW a \in V[p], NEW b \in V[q]
               PROVE  Before(a, b)
  BY DEF InLine
<1>2. p \in 1..6 /\ a \in W[p]
  BY <1>1
<1>3. CASE b \in W[q]
  BY <1>1, <1>2, <1>3 DEF InLine
<1>4. CASE b = x
  BY <1>2, <1>4
<1> QED
  BY <1>1, <1>3, <1>4

\* The tags of a queue that grew, and of one a message was taken from.
LEMMA TagsAppended ==
    ASSUME NEW q \in Seq(Message), NEW m \in Message, NEW T
    PROVE  /\ TagsOf(Append(q, m), T) \subseteq TagsOf(q, T) \cup {TagOf(m)}
           /\ m.mtype \notin T \/ TagOf(m) \notin Tags
                  => TagsOf(Append(q, m), T) \subseteq TagsOf(q, T)
<1> DEFINE r == Append(q, m)
<1>1. /\ Len(r) = Len(q) + 1 /\ r[Len(q) + 1] = m
      /\ \A i \in 1..Len(q) : r[i] = q[i]
  OBVIOUS
<1> HIDE DEF r
<1>2. ASSUME NEW i \in 1..Len(r) PROVE r[i] = m \/ (i \in 1..Len(q) /\ r[i] = q[i])
  BY <1>1
<1>3. \A x \in TagsOf(r, T) : x \in TagsOf(q, T) \/ (x = TagOf(m) /\ x \in Tags /\ m.mtype \in T)
  BY <1>2 DEF TagsOf
<1> QED
  BY <1>3 DEF r

LEMMA TagsRemoved ==
    ASSUME NEW q \in Seq(Message), NEW k \in 1..Len(q), NEW T
    PROVE  TagsOf(RemoveAt(q, k), T) \subseteq TagsOf(q, T)
<1> DEFINE r == RemoveAt(q, k)
<1>1. Len(r) = Len(q) - 1
  BY Removed
<1>2. ASSUME NEW i \in 1..Len(r) PROVE \E j \in 1..Len(q) : r[i] = q[j]
  <2>1. r[i] = q[i] \/ r[i] = q[i + 1]
    BY <1>1, Removed
  <2>2. i \in 1..Len(q) /\ i + 1 \in 1..Len(q)
    BY <1>1
  <2> QED
    BY <2>1, <2>2
<1> HIDE DEF r
<1>3. TagsOf(r, T) \subseteq TagsOf(q, T)
  BY <1>2 DEF TagsOf
<1> QED
  BY <1>3 DEF r

\* What msgrcv() takes was sent before whatever it leaves for the same client.
LEMMA TakenBeforeRest ==
    ASSUME NEW q \in Seq(Message), Ordered(q), NEW k \in 1..Len(q), NEW T,
           q[k].source # 0, \A j \in 1..(k - 1) : q[j].mtype # q[k].mtype,
           \A i \in 1..Len(q) :
               q[i].mtype \in T => q[i].mtype = q[k].mtype \/ q[i].dest # q[k].dest
    PROVE  \A y \in TagsOf(RemoveAt(q, k), T) : Before(TagOf(q[k]), y)
<1> DEFINE r == RemoveAt(q, k)
<1>1. Len(r) = Len(q) - 1
  BY Removed
<1>2. ASSUME NEW i \in 1..Len(r) PROVE \E j \in 1..Len(q) : j # k /\ r[i] = q[j]
  <2>1. CASE i < k
    BY <1>1, <2>1, Removed
  <2>2. CASE ~(i < k)
    <3>1. r[i] = q[i + 1] /\ i + 1 \in 1..Len(q) /\ i + 1 # k
      BY <1>1, <2>2, Removed
    <3> QED
      BY <3>1
  <2> QED
    BY <2>1, <2>2
<1> HIDE DEF r
<1>3. ASSUME NEW y \in TagsOf(r, T) PROVE Before(TagOf(q[k]), y)
  <2>1. PICK j \in 1..Len(q) : j # k /\ q[j].mtype \in T /\ y = TagOf(q[j])
    BY <1>2 DEF TagsOf
  <2>2. CASE q[j].mtype = q[k].mtype
    <3>1. k < j
      BY <2>1, <2>2
    <3>2. Before(q[k], q[j])
      BY <2>2, <3>1 DEF Ordered
    <3> QED
      BY <2>1, <3>2 DEF Before, TagOf
  <2>3. CASE q[j].dest # q[k].dest
    BY <2>1, <2>3 DEF Before, TagOf
  <2> QED
    BY <2>1, <2>2, <2>3
<1> QED
  BY <1>3 DEF r

\* A client's count only grows, and has grown when it is about to send.
LEMMA CountedKept ==
    ASSUME TypeOK, [Next]_vars, NEW x \in Tags, Counted(x)
    PROVE  Counted(x)'
<1>0. ClientType /\ x.source \in Started /\ x.id \in Nat
  BY TypeParts DEF Counted, Tags
<1> USE DEF Counted
<1>1. CASE ServerMain \/ ServerRecvThread \/ ServerInterrupt \/ UNCHANGED vars
  <2>1. UNCHANGED client
    BY <1>1, ServerTypeStep DEF ServerInterrupt, vars
  <2> QED
    BY <1>0, <2>1 DEF client, clientMain
<1>2. ASSUME NEW c \in Started, ClientMain(c) \/ ClientRecvThread(c) \/ ClientInterrupt(c)
      PROVE  Counted(x)'
  <2>1. CASE x.source # c
    <3>1. UNCHANGED <<cMain[x.source], sent[x.source]>>
      BY <1>0, <1>2, <2>1, OthersFrame
    <3> QED
      BY <1>0, <3>1
  <2>2. CASE x.source = c /\ ClientAddress(c)
    <3>1. CASE sent[c] < MaxSends[c]
      <4>1. /\ sent[c] \in Nat /\ sent'[c] = sent[c] + 1
            /\ cMain[c] # "send"
        BY <1>0, <2>2, <3>1 DEF ClientAddress, InTurn, ClientType
      <4>2. x.id <= sent[c]
        BY <2>2
      <4> QED
        BY <1>0, <2>2, <4>1, <4>2
    <3>2. CASE ~(sent[c] < MaxSends[c])
      <4>1. sent' = sent /\ cMain'[c] # "send"
        BY <1>0, <2>2, <3>2 DEF ClientAddress, ClientType
      <4> QED
        BY <1>0, <2>2, <4>1
    <3> QED
      BY <3>1, <3>2
  <2>3. CASE x.source = c /\ ~ClientAddress(c)
    <3>1. sent' = sent /\ (cMain'[c] = cMain[c] \/ cMain'[c] # "send")
      BY <1>0, <1>2, <2>3 DEF ClientMain, ClientLeave, ClientPrint, ClientSend, ClientJoin,
         ClientRecvThread, ClientRecvLoop, ClientRecv, ClientRecvRemoved, ClientHandle,
         ClientInterrupt, clientMain, ClientType
    <3> QED
      BY <1>0, <2>3, <3>1
  <2> QED
    BY <2>1, <2>2, <2>3
<1> QED
  BY <1>1, <1>2 DEF Next

LEMMA SevenPlaces == \A p \in 1..7 : p \in {1, 2, 3, 4, 5, 6, 7}
OBVIOUS

\* The tag of a client's message, and orders of messages and of their tags.
LEMMA TagOfClients ==
    ASSUME NEW m \in Message, ForServer(m) \/ (ForClient(m) /\ m.source # 0)
    PROVE  TagOf(m) \in Tags /\ m.source \in Started
BY DispatcherAssumption DEF TagOf, Tags, Message, ForServer, ForClient, Clients

LEMMA BeforeTags == \A m, n : Before(m, n) <=> Before(TagOf(m), TagOf(n))
BY DEF Before, TagOf

\* The first of a queue of one type was sent before the others.
LEMMA HeadBeforeTail ==
    ASSUME NEW q \in Seq(Message), q # <<>>, Ordered(q), NEW T, q[1].source # 0,
           \A i \in 1..Len(q) : q[i].mtype = SERVER
    PROVE  /\ TagsOf(Tail(q), T) \subseteq TagsOf(q, T)
           /\ \A y \in TagsOf(Tail(q), T) : Before(TagOf(q[1]), y)
<1> DEFINE r == Tail(q)
<1>1. \A i \in 1..Len(r) : r[i] = q[i + 1] /\ i + 1 \in 1..Len(q) /\ 1 < i + 1 /\ 1 \in 1..Len(q)
  OBVIOUS
<1> HIDE DEF r
<1>2. ASSUME NEW y \in TagsOf(r, T)
      PROVE  y \in TagsOf(q, T) /\ Before(TagOf(q[1]), y)
  <2>1. PICK i \in 1..Len(r) : r[i].mtype \in T /\ y = TagOf(r[i]) /\ y \in Tags
    BY DEF TagsOf
  <2>2. PICK j \in 1..Len(q) : 1 < j /\ r[i] = q[j] /\ 1 \in 1..Len(q)
    BY <1>1
  <2>3. Before(q[1], q[j])
    BY <2>2 DEF Ordered
  <2> QED
    BY <2>1, <2>2, <2>3, BeforeTags DEF TagsOf
<1> QED
  BY <1>2 DEF r

LEMMA WayTags == \A d : \A p \in 1..7 : Way(d)[p] \subseteq Tags /\ Way(d)'[p] \subseteq Tags
<1> SUFFICES ASSUME NEW d, NEW p \in 1..7
             PROVE  Way(d)[p] \subseteq Tags /\ Way(d)'[p] \subseteq Tags
    OBVIOUS
<1>1. p = 1 \/ p = 2 \/ p = 3 \/ p = 4 \/ p = 5 \/ p = 6 \/ p = 7
  OBVIOUS
<1>2. /\ Got(d) \subseteq Tags /\ Fetched(d) \subseteq Tags /\ ToClients \subseteq Tags
      /\ Forwarding \subseteq Tags /\ Collected \subseteq Tags
      /\ Collecting \subseteq Tags /\ ToTheServer \subseteq Tags
  BY DEF Got, Fetched, ToClients, Forwarding, Collected, Collecting, ToTheServer, TagsOf, TagsIf
<1>3. /\ Got(d)' \subseteq Tags /\ Fetched(d)' \subseteq Tags /\ ToClients' \subseteq Tags
      /\ Forwarding' \subseteq Tags /\ Collected' \subseteq Tags
      /\ Collecting' \subseteq Tags /\ ToTheServer' \subseteq Tags
  BY DEF Got, Fetched, ToClients, Forwarding, Collected, Collecting, ToTheServer, TagsOf, TagsIf
<1> QED
  BY <1>1, <1>2, <1>3, Places

\* A step that keeps each sequence in order and brings the messages on, or loses
\* some, keeps all of it.
LEMMA OrderKept ==
    ASSUME TypeOK, [Next]_vars, OrderInv, Ordered(queue'), Ordered(sMessage'),
           \A d \in Started :
               /\ failed'[d] = 0 => Ordered(arrived'[d])
               /\ InLine(Way(d)') /\ From(Way(d)', Way(d))
    PROVE  OrderInv'
<1>1. ASSUME NEW d \in Started, NEW p \in 1..7, NEW x \in Way(d)'[p] PROVE Counted(x)'
  <2>1. x \in Tags
    BY WayTags
  <2>2. PICK q \in 1..7 : x \in Way(d)[q]
    BY DEF From
  <2>3. Counted(x)
    BY <2>2 DEF OrderInv
  <2> QED
    BY <2>1, <2>3, CountedKept
<1> QED
  BY <1>1 DEF OrderInv

LEMMA OrderInit == Init => OrderInv
<1> SUFFICES ASSUME Init PROVE OrderInv
    OBVIOUS
<1>1. Ordered(queue) /\ Ordered(sMessage)
  BY DEF Init, ServerInit, Ordered
<1>2. ASSUME NEW d \in Started
      PROVE  Ordered(arrived[d]) /\ \A p \in 1..7 : Way(d)[p] = {}
  <2>1. arrived[d] = <<>>
    BY DEF Init, ClientInit
  <2>2. Got(d) = {} /\ ToClients = {} /\ Collected = {} /\ ToTheServer = {}
    BY <2>1 DEF Init, ServerInit, Got, ToClients, Collected, ToTheServer, TagsOf
  <2>3. Fetched(d) = {} /\ Forwarding = {} /\ Collecting = {}
    BY DEF Init, ServerInit, ClientInit, Fetched, Forwarding, Collecting, TagsIf
  <2>4. ASSUME NEW p \in 1..7 PROVE Way(d)[p] = {}
    <3>1. p = 1 \/ p = 2 \/ p = 3 \/ p = 4 \/ p = 5 \/ p = 6 \/ p = 7
      OBVIOUS
    <3> QED
      BY <2>2, <2>3, <3>1, Places
  <2> QED
    BY <2>1, <2>4 DEF Ordered
<1> QED
  BY <1>1, <1>2 DEF OrderInv, InLine

LEMMA ServerOrderStep ==
    ASSUME TypeOK, AddressedInv, OrderInv, ServerMain \/ ServerRecvThread
    PROVE  OrderInv'
<1>0. /\ queue \in Seq(Message) /\ ServerType /\ Routed(queue) /\ ServerAddressed
      /\ Ordered(queue) /\ Ordered(sMessage) /\ \A d \in Started : InLine(Way(d))
  BY TypeParts DEF AddressedInv, QueueType, OrderInv
<1>1. UNCHANGED client
  BY ServerTypeStep
<1>2. ASSUME NEW d PROVE Got(d)' = Got(d)
  BY <1>1 DEF client, clientRecv, Got
<1>3. ASSUME NEW d PROVE Fetched(d)' = Fetched(d)
  BY <1>1 DEF client, clientRecv, Fetched, TagsIf
<1>4. \A d \in Started : failed'[d] = 0 => Ordered(arrived'[d])
  BY <1>1 DEF OrderInv, client, clientRecv
<1>a. ASSUME Ordered(queue'), Ordered(sMessage'),
             \A d \in Started : InLine(Way(d)') /\ From(Way(d)', Way(d))
      PROVE  OrderInv'
  BY <1>4, <1>a, OrderKept DEF Next
<1> USE DEF serverMain, serverRecv, mq
<1>5. CASE ServerLeave \/ ServerRecvLeave \/ ServerRemove
  <2>1. /\ UNCHANGED <<sMessage, send_Msg, recv_Msg>> /\ (exists' => exists)
        /\ queue' = queue \/ queue' = <<>>
    BY <1>5 DEF ServerLeave, ServerRecvLeave, ServerRemove
  <2>2. Ordered(queue') /\ ToClients' \subseteq ToClients /\ ToTheServer' \subseteq ToTheServer
    <3>1. CASE queue' = queue
      BY <1>0, <3>1 DEF ToClients, ToTheServer
    <3>2. CASE queue' = <<>>
      BY <3>2 DEF Ordered, ToClients, ToTheServer, TagsOf
    <3> QED
      BY <2>1, <3>1, <3>2
  <2>3. Forwarding' \subseteq Forwarding
    BY <1>5, <2>1 DEF ServerLeave, ServerRecvLeave, ServerRemove, Forwarding, TagsIf
  <2>4. Collecting' \subseteq Collecting /\ Collected' = Collected
    BY <1>5, <2>1 DEF ServerLeave, ServerRecvLeave, ServerRemove, Collecting, Collected, TagsIf
  <2>5. ASSUME NEW d \in Started PROVE InLine(Way(d)') /\ From(Way(d)', Way(d))
    <3>1. \A p \in 1..7 : Way(d)'[p] \subseteq Way(d)[p]
      <4>1. \A p \in 1..7 : p = 1 \/ p = 2 \/ p = 3 \/ p = 4 \/ p = 5 \/ p = 6 \/ p = 7
        OBVIOUS
      <4> QED
        BY <1>2, <1>3, <2>1, <2>2, <2>3, <2>4, <4>1, Places
    <3> QED
      BY <1>0, <3>1, Fewer
  <2> QED
    BY <1>0, <1>a, <2>1, <2>2, <2>5
<1>6. CASE ServerDrained
  <2>1. /\ sMain = "drain" /\ send_Msg' = [send_Msg EXCEPT !.mtype = send_Msg.dest]
        /\ UNCHANGED <<queue, exists, sMessage, sRecv, recv_Msg>>
    BY <1>6 DEF ServerDrained
  <2>2. TagOf(send_Msg') = TagOf(send_Msg)
    BY <1>0, <2>1 DEF TagOf, ServerType, Message
  <2>3. /\ Forwarding' \subseteq Forwarding /\ ToClients' = ToClients
        /\ ToTheServer' = ToTheServer
    BY <2>1, <2>2 DEF Forwarding, ToClients, ToTheServer, TagsIf
  <2>4. Collecting' = Collecting /\ Collected' = Collected
    BY <2>1 DEF Collecting, Collected
  <2>5. ASSUME NEW d \in Started PROVE InLine(Way(d)') /\ From(Way(d)', Way(d))
    <3>1. \A p \in 1..7 : Way(d)'[p] \subseteq Way(d)[p]
      BY <1>2, <1>3, <2>1, <2>3, <2>4, SevenPlaces, Places
    <3> QED
      BY <1>0, <3>1, Fewer
  <2> QED
    BY <1>0, <1>a, <2>1, <2>5
<1>7. CASE ServerDrain
  <2>1. /\ sMessage # <<>> /\ send_Msg' = Head(sMessage) /\ sMessage' = Tail(sMessage)
        /\ UNCHANGED <<queue, exists, sRecv, recv_Msg>>
    BY <1>7 DEF ServerDrain
  <2>2. /\ sMessage \in Seq(Message) /\ 1 \in 1..Len(sMessage)
        /\ send_Msg' = sMessage[1] /\ sMessage[1] \in Message
    BY <1>0, <2>1 DEF ServerType
  <2>3. \A i \in 1..Len(sMessage) : ForServer(sMessage[i]) /\ sMessage[i].mtype = SERVER
    BY <1>0 DEF ServerAddressed, ForServer
  <2>4. TagOf(sMessage[1]) \in Tags /\ sMessage[1].source # 0
    BY <2>2, <2>3, TagOfClients, DispatcherAssumption DEF Clients
  <2>5. TagOf(sMessage[1]) \in Collected
    BY <2>2, <2>3, <2>4 DEF Collected, TagsOf
  <2>6. /\ Collected' \subseteq Collected
        /\ \A y \in Collected' : Before(TagOf(sMessage[1]), y)
    BY <1>0, <2>1, <2>2, <2>3, <2>4, HeadBeforeTail DEF Collected
  <2>7. Forwarding' \subseteq {TagOf(sMessage[1])}
    BY <2>2 DEF Forwarding, TagsIf
  <2>8. /\ Collecting' = Collecting /\ ToClients' = ToClients
        /\ ToTheServer' = ToTheServer
    BY <2>1 DEF Collecting, ToClients, ToTheServer
  <2>9. ASSUME NEW d \in Started PROVE InLine(Way(d)') /\ From(Way(d)', Way(d))
    <3>1. \A p \in 1..7 : p # 4 => Way(d)'[p] \subseteq Way(d)[p]
      BY <1>2, <1>3, <2>1, <2>6, <2>8, SevenPlaces, Places
    <3>2. /\ TagOf(sMessage[1]) \in Way(d)[4 + 1] /\ 4 \in 1..6
          /\ Way(d)'[4] \subseteq Way(d)[4] \cup {TagOf(sMessage[1])}
          /\ Way(d)'[4 + 1] \subseteq Way(d)[4 + 1]
          /\ \A y \in Way(d)'[4 + 1] : Before(TagOf(sMessage[1]), y)
      BY <2>5, <2>6, <2>7, Places
    <3> QED
      BY <1>0, <3>1, <3>2, MoveOn
  <2>10. Ordered(sMessage')
    BY <1>0, <2>1, <2>2, TailOrdered
  <2> QED
    BY <1>0, <1>a, <2>1, <2>9, <2>10
<1>8. CASE ServerRecv
  <2> DEFINE m == queue[FirstOf(SERVER)]
  <2>1. /\ recv_Msg' = m /\ Waiting(SERVER) /\ queue' = RemoveAt(queue, FirstOf(SERVER))
        /\ UNCHANGED <<exists, sMain, send_Msg, sMessage>>
    BY <1>8 DEF ServerRecv
  <2>2. /\ FirstOf(SERVER) \in 1..Len(queue) /\ m.mtype = SERVER /\ m \in Message
        /\ \A j \in 1..(FirstOf(SERVER) - 1) : queue[j].mtype # m.mtype
    BY <1>0, <2>1, FirstOfType
  <2>3. ForServer(m)
    BY <1>0, <2>2, TypeOfKinds DEF Routed
  <2>4. TagOf(m) \in Tags /\ m.source # 0
    BY <2>2, <2>3, TagOfClients, DispatcherAssumption DEF Clients
  <2>5. TagOf(m) \in ToTheServer
    BY <2>2, <2>4 DEF ToTheServer, TagsOf
  <2>6. \A y \in ToTheServer' : Before(TagOf(m), y)
    BY <1>0, <2>1, <2>2, <2>4, TakenBeforeRest DEF ToTheServer
  <2>7. ToTheServer' \subseteq ToTheServer /\ ToClients' \subseteq ToClients
    BY <1>0, <2>1, <2>2, TagsRemoved DEF ToTheServer, ToClients
  <2>8. Collecting' \subseteq {TagOf(m)}
    BY <2>1 DEF Collecting, TagsIf
  <2>9. Forwarding' = Forwarding /\ Collected' = Collected
    BY <2>1 DEF Forwarding, Collected
  <2>10. Ordered(queue')
    BY <1>0, <2>1, <2>2, RemovedOrdered
  <2> HIDE DEF m
  <2>11. ASSUME NEW d \in Started PROVE InLine(Way(d)') /\ From(Way(d)', Way(d))
    <3>1. \A p \in 1..7 : p # 6 => Way(d)'[p] \subseteq Way(d)[p]
      BY <1>2, <1>3, <2>1, <2>7, <2>9, SevenPlaces, Places
    <3>2. /\ TagOf(m) \in Way(d)[6 + 1] /\ 6 \in 1..6
          /\ Way(d)'[6] \subseteq Way(d)[6] \cup {TagOf(m)}
          /\ Way(d)'[6 + 1] \subseteq Way(d)[6 + 1]
          /\ \A y \in Way(d)'[6 + 1] : Before(TagOf(m), y)
      BY <2>5, <2>6, <2>7, <2>8, Places
    <3> QED
      BY <1>0, <3>1, <3>2, MoveOn
  <2> QED
    BY <1>0, <1>a, <2>1, <2>10, <2>11
<1>9. CASE ServerPush
  <2>1. /\ sRecv = "push" /\ sRecv' = "loop" /\ sMessage' = Append(sMessage, recv_Msg)
        /\ UNCHANGED <<queue, exists, sMain, send_Msg, recv_Msg>>
    BY <1>9 DEF ServerPush
  <2>2. sMessage \in Seq(Message) /\ recv_Msg \in Message /\ ForServer(recv_Msg)
    BY <1>0, <2>1 DEF ServerType, ServerAddressed
  <2>3. TagOf(recv_Msg) \in Tags /\ recv_Msg.source \in Started
    BY <2>2, TagOfClients
  <2>4. TagOf(recv_Msg) \in Collecting /\ Collecting' = {}
    BY <2>1, <2>3 DEF Collecting, TagsIf
  <2>5. Collected' \subseteq Collected \cup {TagOf(recv_Msg)}
    BY <2>1, <2>2, TagsAppended DEF Collected
  <2>6. /\ Forwarding' = Forwarding /\ ToClients' = ToClients
        /\ ToTheServer' = ToTheServer
    BY <2>1 DEF Forwarding, ToClients, ToTheServer
  <2>7. ASSUME NEW d \in Started PROVE InLine(Way(d)') /\ From(Way(d)', Way(d))
    <3>1. \A p \in 1..7 : p # 5 => Way(d)'[p] \subseteq Way(d)[p]
      BY <1>2, <1>3, <2>1, <2>4, <2>6, SevenPlaces, Places
    <3>2. /\ TagOf(recv_Msg) \in Way(d)[5 + 1] /\ 5 \in 1..6
          /\ Way(d)'[5] \subseteq Way(d)[5] \cup {TagOf(recv_Msg)}
          /\ Way(d)'[5 + 1] \subseteq Way(d)[5 + 1]
          /\ \A y \in Way(d)'[5 + 1] : Before(TagOf(recv_Msg), y)
      BY <2>4, <2>5, Places
    <3> QED
      BY <1>0, <3>1, <3>2, MoveOn
  <2>8. ASSUME NEW i \in 1..Len(sMessage) PROVE Before(sMessage[i], recv_Msg)
    <3>1. sMessage[i] \in Message /\ ForServer(sMessage[i])
      BY <1>0, <2>2 DEF ServerAddressed
    <3>2. TagOf(sMessage[i]) \in Collected
      BY <3>1, TagOfClients DEF Collected, TagsOf, ForServer
    <3>3. PICK d \in Started : InLine(Way(d))
      BY <1>0, <2>3
    <3>4. TagOf(sMessage[i]) \in Way(d)[5] /\ TagOf(recv_Msg) \in Way(d)[6]
      BY <2>4, <3>2, Places
    <3> QED
      BY <3>3, <3>4, BeforeTags DEF InLine
  <2>9. Ordered(sMessage')
    BY <1>0, <2>1, <2>2, <2>8, AppendedOrdered
  <2> QED
    BY <1>0, <1>a, <2>1, <2>7, <2>9
<1>10. CASE ServerSend
  <2>1. UNCHANGED <<exists, sRecv, recv_Msg, sMessage, send_Msg>>
    BY <1>10 DEF ServerSend
  <2>2. Collecting' = Collecting /\ Collected' = Collected
    BY <2>1 DEF Collecting, Collected
  <2>3. Forwarding' = {}
    BY <1>10, SendCases DEF Forwarding, TagsIf
  <2>4. CASE sMain = "forward"
    <3>1. /\ queue' = queue \/ queue' = Append(queue, send_Msg)
          /\ send_Msg \in Message /\ ForClient(send_Msg) /\ send_Msg.source # 0
      BY <1>0, <1>10, <2>4, SendCases DEF Send, ServerType, ServerAddressed
    <3>2. TagOf(send_Msg) \in Tags /\ send_Msg.source \in Started
      BY <3>1, TagOfClients
    <3>3. TagOf(send_Msg) \in Forwarding
      BY <2>4, <3>2 DEF Forwarding, TagsIf
    <3>4. ToClients' \subseteq ToClients \cup {TagOf(send_Msg)}
      BY <1>0, <3>1, TagsAppended DEF ToClients
    <3>5. ToTheServer' \subseteq ToTheServer
      <4>1. send_Msg.mtype \notin {SERVER}
        BY <3>1, TypeOfKinds
      <4> QED
        BY <1>0, <3>1, <4>1, TagsAppended DEF ToTheServer
    <3>6. ASSUME NEW d \in Started PROVE InLine(Way(d)') /\ From(Way(d)', Way(d))
      <4>1. \A p \in 1..7 : p # 3 => Way(d)'[p] \subseteq Way(d)[p]
        BY <1>2, <1>3, <2>1, <2>2, <2>3, <3>5, SevenPlaces, Places
      <4>2. /\ TagOf(send_Msg) \in Way(d)[3 + 1] /\ 3 \in 1..6
            /\ Way(d)'[3] \subseteq Way(d)[3] \cup {TagOf(send_Msg)}
            /\ Way(d)'[3 + 1] \subseteq Way(d)[3 + 1]
            /\ \A y \in Way(d)'[3 + 1] : Before(TagOf(send_Msg), y)
        BY <2>3, <3>3, <3>4, Places
      <4> QED
        BY <1>0, <4>1, <4>2, MoveOn
    <3>7. ASSUME NEW i \in 1..Len(queue), queue[i].mtype = send_Msg.mtype
          PROVE  Before(queue[i], send_Msg)
      <4>1. queue[i] \in Message /\ ForClient(queue[i]) /\ queue[i].mtype \in Clients
        BY <1>0, <3>1, <3>7, TypeOfKinds DEF Routed
      <4>2. CASE queue[i].source = 0
        BY <3>1, <4>2 DEF Before
      <4>3. CASE queue[i].source # 0
        <5>1. TagOf(queue[i]) \in ToClients
          BY <4>1, <4>3, TagOfClients DEF ToClients, TagsOf
        <5>2. PICK d \in Started : InLine(Way(d))
          BY <1>0, <3>2
        <5>3. TagOf(queue[i]) \in Way(d)[3] /\ TagOf(send_Msg) \in Way(d)[4]
          BY <3>3, <5>1, Places
        <5> QED
          BY <5>2, <5>3, BeforeTags DEF InLine
      <4> QED
        BY <4>2, <4>3
    <3>8. Ordered(queue')
      BY <1>0, <3>1, <3>7, AppendedOrdered
    <3> QED
      BY <1>0, <1>a, <2>1, <3>6, <3>8
  <2>5. CASE sMain # "forward"
    <3>1. PICK e \in Clients : queue' = queue \/ queue' = Append(queue, Quit(e))
      BY <1>10, <2>5, SendCases DEF Send, Clients
    <3>2. /\ Quit(e) \in Message /\ Quit(e).source = 0 /\ Quit(e).mtype = e
          /\ TagOf(Quit(e)) \notin Tags
      BY Messages DEF Quit, ClientMsg, TagOf, Tags, Clients
    <3>3. ToClients' \subseteq ToClients /\ ToTheServer' \subseteq ToTheServer
      BY <1>0, <3>1, <3>2, TagsAppended DEF ToClients, ToTheServer
    <3>4. ASSUME NEW d \in Started PROVE InLine(Way(d)') /\ From(Way(d)', Way(d))
      <4>1. \A p \in 1..7 : Way(d)'[p] \subseteq Way(d)[p]
        BY <1>2, <1>3, <2>1, <2>2, <2>3, <3>3, SevenPlaces, Places
      <4> QED
        BY <1>0, <4>1, Fewer
    <3>5. Ordered(queue')
      BY <1>0, <3>1, <3>2, AppendedOrdered
    <3> QED
      BY <1>0, <1>a, <2>1, <3>4, <3>5
  <2> QED
    BY <2>4, <2>5
<1> QED
  BY <1>5, <1>6, <1>7, <1>8, <1>9, <1>10 DEF ServerMain, ServerRecvThread

\* What the clients that do not move have got and fetched.
LEMMA OthersPlaces ==
    ASSUME TypeOK, NEW c \in Started, ClientMain(c) \/ ClientRecvThread(c) \/ ClientInterrupt(c)
    PROVE  \A d \in Started \ {c} :
               /\ Got(d)' = Got(d) /\ Fetched(d)' = Fetched(d)
               /\ arrived'[d] = arrived[d] /\ failed'[d] = failed[d]
BY OthersFrame DEF Got, Fetched

LEMMA ServerPlaces ==
    ASSUME UNCHANGED server
    PROVE  /\ Forwarding' = Forwarding /\ Collected' = Collected
           /\ Collecting' = Collecting /\ sMessage' = sMessage
BY DEF Forwarding, Collected, Collecting, server, serverMain, serverRecv

LEMMA ClientMainOrderStep ==
    ASSUME TypeOK, AddressedInv, OrderInv, NEW c \in Started, ClientMain(c)
    PROVE  OrderInv'
<1>0. /\ queue \in Seq(Message) /\ ClientType /\ Routed(queue) /\ ClientAddressed(c)
      /\ Ordered(queue) /\ Ordered(sMessage) /\ \A d \in Started : InLine(Way(d))
      /\ c \in Clients /\ SERVER \notin Clients
  BY TypeParts, DispatcherAssumption, TypeOfKinds DEF AddressedInv, QueueType, OrderInv
<1>1. UNCHANGED <<exists, clientRecv, cRunning, server>>
  BY DEF ClientMain, ClientLeave, ClientPrint, ClientAddress, ClientSend, ClientJoin, mq
<1>2. ASSUME NEW d PROVE Got(d)' = Got(d) /\ Fetched(d)' = Fetched(d)
  BY <1>1 DEF clientRecv, Got, Fetched
<1>3. \A d \in Started : failed'[d] = 0 => Ordered(arrived'[d])
  BY <1>1 DEF OrderInv, clientRecv
<1>4. /\ Forwarding' = Forwarding /\ Collected' = Collected
      /\ Collecting' = Collecting /\ sMessage' = sMessage
  BY <1>1, ServerPlaces
<1>5. CASE ~ClientSend(c)
  <2>1. queue' = queue
    BY <1>5 DEF ClientMain, ClientLeave, ClientPrint, ClientAddress, ClientJoin, mq
  <2>2. ToClients' = ToClients /\ ToTheServer' = ToTheServer
    BY <2>1 DEF ToClients, ToTheServer
  <2>3. ASSUME NEW d \in Started PROVE InLine(Way(d)') /\ From(Way(d)', Way(d))
    <3>1. \A p \in 1..7 : Way(d)'[p] \subseteq Way(d)[p]
      BY <1>2, <1>4, <2>2, SevenPlaces, Places
    <3> QED
      BY <1>0, <3>1, Fewer
  <2> QED
    BY <1>0, <1>3, <1>4, <2>1, <2>3, OrderKept DEF Next
<1>6. CASE ClientSend(c)
  <2> DEFINE m == ClientMsg(SERVER, c, dest[c], sent[c])
             x == TagOf(m)
  <2>1. /\ cMain[c] = "send" /\ cMain' = [cMain EXCEPT ![c] = "loop"] /\ sent' = sent
        /\ queue' = queue \/ queue' = Append(queue, m)
    BY <1>6 DEF ClientSend, Send
  <2>2. dest[c] \in Clients \ {c} /\ sent[c] \in Nat
    BY <1>0, <2>1 DEF ClientAddressed, ClientType
  <2>3. /\ m \in Message /\ m.mtype = SERVER /\ m.source = c /\ m.id = sent[c]
        /\ x \in Tags /\ x.source = c /\ x.id = sent[c]
    BY <1>0, <2>2, Messages DEF ClientMsg, TagOf, Tags
  <2> HIDE DEF m, x
  <2>4. ToClients' \subseteq ToClients
    <3>1. m.mtype \notin Clients
      BY <1>0, <2>3
    <3> QED
      BY <1>0, <2>1, <2>3, <3>1, TagsAppended DEF ToClients
  <2>5. ToTheServer' \subseteq ToTheServer \cup {x}
    BY <1>0, <2>1, <2>3, TagsAppended DEF ToTheServer, x
  <2>6. ASSUME NEW d \in Started, NEW p \in 1..7, NEW y \in Way(d)[p] PROVE Before(y, x)
    <3>1. Counted(y)
      BY DEF OrderInv
    <3> QED
      BY <2>1, <2>3, <3>1 DEF Counted, Before
  <2>7. ASSUME NEW d \in Started PROVE InLine(Way(d)')
    <3>1. \A p \in 1..6 : Way(d)'[p] \subseteq Way(d)[p]
      BY <1>2, <1>4, <2>4, SevenPlaces, Places
    <3>2. Way(d)'[7] \subseteq Way(d)[7] \cup {x}
      BY <2>5, Places
    <3> QED
      BY <1>0, <2>6, <3>1, <3>2, Enter
  <2>8. ASSUME NEW d \in Started, NEW p \in 1..7, NEW y \in Way(d)'[p] PROVE Counted(y)'
    <3>1. CASE y = x
      <4>1. cMain'[c] = "loop" /\ sent'[c] = sent[c] /\ sent[c] <= sent[c]
        BY <1>0, <2>1, <2>2 DEF ClientType
      <4> QED
        BY <2>3, <3>1, <4>1 DEF Counted
    <3>2. CASE y # x
      <4>1. y \in Way(d)[p]
        BY <1>2, <1>4, <2>4, <2>5, <3>2, SevenPlaces, Places
      <4>2. Counted(y) /\ y \in Tags
        BY <4>1, WayTags DEF OrderInv
      <4> QED
        BY <4>2, CountedKept DEF Next
    <3> QED
      BY <3>1, <3>2
  <2>9. ASSUME NEW i \in 1..Len(queue), queue[i].mtype = m.mtype PROVE Before(queue[i], m)
    <3>1. queue[i] \in Message /\ queue[i].mtype = SERVER /\ ForServer(queue[i])
      BY <1>0, <2>3, <2>9, TypeOfKinds DEF Routed
    <3>2. TagOf(queue[i]) \in ToTheServer
      BY <3>1, TagOfClients DEF ToTheServer, TagsOf
    <3>3. Before(TagOf(queue[i]), x)
      BY <2>6, <3>2, Places
    <3> QED
      BY <3>3, BeforeTags DEF x
  <2>10. Ordered(queue')
    BY <1>0, <2>1, <2>3, <2>9, AppendedOrdered
  <2> QED
    BY <1>0, <1>3, <1>4, <2>7, <2>8, <2>10 DEF OrderInv
<1> QED
  BY <1>5, <1>6

LEMMA ClientRecvOrderStep ==
    ASSUME TypeOK, AddressedInv, OrderInv, NEW c \in Started, ClientRecvThread(c)
    PROVE  OrderInv'
<1>0. /\ queue \in Seq(Message) /\ ClientType /\ Routed(queue) /\ ClientAddressed(c)
      /\ Ordered(queue) /\ Ordered(sMessage) /\ \A d \in Started : InLine(Way(d))
      /\ c \in Clients /\ (failed[c] = 0 => Ordered(arrived[c]))
  BY TypeParts, DispatcherAssumption DEF AddressedInv, QueueType, OrderInv
<1>1. UNCHANGED <<exists, server>>
  BY DEF ClientRecvThread, ClientRecvLoop, ClientRecv, ClientRecvRemoved, ClientHandle, mq
<1>2. \A d \in Started \ {c} : /\ Got(d)' = Got(d) /\ Fetched(d)' = Fetched(d)
                               /\ failed'[d] = 0 => Ordered(arrived'[d])
  BY OthersPlaces DEF OrderInv
<1>3. /\ Forwarding' = Forwarding /\ Collected' = Collected
      /\ Collecting' = Collecting /\ sMessage' = sMessage
  BY <1>1, ServerPlaces
<1>a. ASSUME Ordered(queue'), failed'[c] = 0 => Ordered(arrived'[c]),
             \A d \in Started : InLine(Way(d)') /\ From(Way(d)', Way(d))
      PROVE  OrderInv'
  BY <1>0, <1>2, <1>3, <1>a, OrderKept DEF Next
<1>b. ASSUME ToClients' \subseteq ToClients, ToTheServer' \subseteq ToTheServer,
             NEW d \in Started \ {c}
      PROVE  InLine(Way(d)') /\ From(Way(d)', Way(d))
  <2>1. \A p \in 1..7 : Way(d)'[p] \subseteq Way(d)[p]
    BY <1>2, <1>3, <1>b, SevenPlaces, Places
  <2> QED
    BY <1>0, <2>1, Fewer
<1>c. ASSUME ToClients' \subseteq ToClients, ToTheServer' \subseteq ToTheServer,
             Got(c)' \subseteq Got(c), Fetched(c)' \subseteq Fetched(c)
      PROVE  \A d \in Started : InLine(Way(d)') /\ From(Way(d)', Way(d))
  <2>1. \A p \in 1..7 : Way(c)'[p] \subseteq Way(c)[p]
    BY <1>3, <1>c, SevenPlaces, Places
  <2>2. InLine(Way(c)') /\ From(Way(c)', Way(c))
    BY <1>0, <2>1, Fewer
  <2> QED
    BY <1>b, <1>c, <2>2
<1>4. CASE ClientRecvLoop(c) \/ ClientRecvRemoved(c)
  <2>1. /\ UNCHANGED <<queue, arrived>>
        /\ failed'[c] # 0 \/ (failed'[c] = failed[c] /\ cRecv'[c] # "handle")
    BY <1>0, <1>1, <1>4 DEF ClientRecvLoop, ClientRecvRemoved, ClientRecvFails, mq, ClientType
  <2>2. /\ Got(c)' \subseteq Got(c) /\ Fetched(c)' = {} /\ ToClients' = ToClients
        /\ ToTheServer' = ToTheServer
    BY <2>1 DEF Got, Fetched, TagsIf, ToClients, ToTheServer
  <2> QED
    BY <1>0, <1>a, <1>c, <2>1, <2>2
<1>5. CASE ClientRecv(c)
  <2> DEFINE m == queue[FirstOf(c)]
  <2>1. /\ cRecv[c] = "msgrcv" /\ UNCHANGED <<failed, arrived>>
        /\ msg' = [msg EXCEPT ![c] = m]
        /\ Waiting(c) /\ queue' = RemoveAt(queue, FirstOf(c))
    BY <1>5 DEF ClientRecv
  <2>2. /\ FirstOf(c) \in 1..Len(queue) /\ m.mtype = c /\ m \in Message /\ msg'[c] = m
        /\ \A j \in 1..(FirstOf(c) - 1) : queue[j].mtype # m.mtype
    BY <1>0, <2>1, FirstOfType DEF ClientType
  <2>3. ForClient(m)
    BY <1>0, <2>2, TypeOfKinds DEF Routed
  <2>4. Ordered(queue')
    BY <1>0, <2>1, <2>2, RemovedOrdered
  <2>5. ToTheServer' \subseteq ToTheServer /\ ToClients' \subseteq ToClients
    BY <1>0, <2>1, <2>2, TagsRemoved DEF ToTheServer, ToClients
  <2>6. Got(c)' = Got(c)
    BY <2>1 DEF Got
  <2>7. CASE m.source = 0
    <3>1. TagOf(m) \notin Tags
      BY <2>7 DEF TagOf, Tags, Clients
    <3>2. Fetched(c)' = {}
      BY <2>2, <3>1 DEF Fetched, TagsIf
    <3> QED
      BY <1>0, <1>a, <1>c, <2>1, <2>4, <2>5, <2>6, <3>2
  <2>8. CASE m.source # 0
    <3>1. TagOf(m) \in Tags
      BY <2>2, <2>3, <2>8, TagOfClients
    <3>2. TagOf(m) \in ToClients
      BY <1>0, <2>2, <3>1 DEF ToClients, TagsOf
    <3>3. ASSUME NEW i \in 1..Len(queue), queue[i].mtype \in Clients
          PROVE  queue[i].mtype = m.mtype \/ queue[i].dest # m.dest
      BY <1>0, <2>2, <2>3, <3>3, TypeOfKinds DEF Routed, ForServer, ForClient
    <3>4. \A y \in ToClients' : Before(TagOf(m), y)
      BY <1>0, <2>1, <2>2, <2>8, <3>3, TakenBeforeRest DEF ToClients
    <3>5. Fetched(c)' \subseteq {TagOf(m)}
      BY <2>2 DEF Fetched, TagsIf
    <3> HIDE DEF m
    <3>6. \A p \in 1..7 : p # 2 => Way(c)'[p] \subseteq Way(c)[p]
      BY <1>3, <2>5, <2>6, SevenPlaces, Places
    <3>7. /\ TagOf(m) \in Way(c)[2 + 1] /\ 2 \in 1..6
          /\ Way(c)'[2] \subseteq Way(c)[2] \cup {TagOf(m)}
          /\ Way(c)'[2 + 1] \subseteq Way(c)[2 + 1]
          /\ \A y \in Way(c)'[2 + 1] : Before(TagOf(m), y)
      BY <2>5, <3>2, <3>4, <3>5, Places
    <3>8. InLine(Way(c)') /\ From(Way(c)', Way(c))
      BY <1>0, <3>6, <3>7, MoveOn
    <3> QED
      BY <1>0, <1>a, <1>b, <2>1, <2>4, <2>5, <3>8
  <2> QED
    BY <2>7, <2>8
<1>6. CASE ClientHandle(c)
  <2>1. UNCHANGED <<queue, msg, failed>> /\ cRecv'[c] # "handle" /\ cRecv[c] = "handle"
    BY <1>0, <1>6 DEF ClientHandle, mq, ClientType
  <2>2. /\ Fetched(c)' = {} /\ ToClients' = ToClients /\ ToTheServer' = ToTheServer
    BY <2>1 DEF Fetched, TagsIf, ToClients, ToTheServer
  <2>3. CASE arrived'[c] = arrived[c] \/ failed[c] # 0
    <3>1. Got(c)' \subseteq Got(c)
      BY <2>1, <2>3 DEF Got
    <3> QED
      BY <1>0, <1>a, <1>c, <2>1, <2>2, <2>3, <3>1
  <2>4. CASE ~(arrived'[c] = arrived[c] \/ failed[c] # 0)
    <3>1. /\ ~IsQuit(msg[c]) /\ failed[c] = 0 /\ failed'[c] = 0
          /\ arrived' = [arrived EXCEPT ![c] = Append(arrived[c], msg[c])]
      BY <1>0, <1>6, <2>1, <2>4 DEF ClientHandle, ClientType
    <3>2. /\ ForClient(msg[c]) /\ msg[c].mtype = c /\ msg[c].source # 0
          /\ msg[c] \in Message /\ arrived[c] \in Seq(Message)
          /\ arrived'[c] = Append(arrived[c], msg[c])
      BY <1>0, <2>1, <3>1 DEF ClientAddressed, IsQuit, ClientType
    <3>3. TagOf(msg[c]) \in Fetched(c)
      BY <2>1, <3>1, <3>2, TagOfClients DEF Fetched, TagsIf
    <3>4. TagsOf(arrived'[c], {c}) \subseteq TagsOf(arrived[c], {c}) \cup {TagOf(msg[c])}
      BY <3>2, TagsAppended
    <3>5. Got(c)' \subseteq Got(c) \cup {TagOf(msg[c])}
      BY <3>1, <3>4 DEF Got
    <3>6. \A p \in 1..7 : p # 1 => Way(c)'[p] \subseteq Way(c)[p]
      BY <1>3, <2>2, SevenPlaces, Places
    <3>7. /\ TagOf(msg[c]) \in Way(c)[1 + 1] /\ 1 \in 1..6
          /\ Way(c)'[1] \subseteq Way(c)[1] \cup {TagOf(msg[c])}
          /\ Way(c)'[1 + 1] \subseteq Way(c)[1 + 1]
          /\ \A y \in Way(c)'[1 + 1] : Before(TagOf(msg[c]), y)
      BY <2>2, <3>3, <3>5, Places
    <3>8. InLine(Way(c)') /\ From(Way(c)', Way(c))
      BY <1>0, <3>6, <3>7, MoveOn
    <3>9. ASSUME NEW i \in 1..Len(arrived[c]) PROVE Before(arrived[c][i], msg[c])
      <4>1. /\ arrived[c][i] \in Message /\ ForClient(arrived[c][i])
            /\ arrived[c][i].mtype = c /\ arrived[c][i].source # 0
        BY <1>0, <3>1, <3>2 DEF ClientAddressed
      <4>2. TagOf(arrived[c][i]) \in Got(c)
        BY <3>1, <4>1, TagOfClients DEF Got, TagsOf
      <4>3. TagOf(arrived[c][i]) \in Way(c)[1] /\ TagOf(msg[c]) \in Way(c)[2]
        BY <3>3, <4>2, Places
      <4> QED
        BY <1>0, <4>3, BeforeTags DEF InLine
    <3>10. Ordered(arrived'[c])
      BY <1>0, <3>1, <3>2, <3>9, AppendedOrdered
    <3> QED
      BY <1>0, <1>a, <1>b, <2>1, <2>2, <3>8, <3>10
  <2> QED
    BY <2>3, <2>4
<1> QED
  BY <1>4, <1>5, <1>6 DEF ClientRecvThread

LEMMA InterruptOrderStep ==
    ASSUME TypeOK, OrderInv, ServerInterrupt \/ \E c \in Started : ClientInterrupt(c)
    PROVE  OrderInv'
<1>0. /\ ClientType /\ Ordered(queue) /\ Ordered(sMessage)
      /\ \A d \in Started : InLine(Way(d)) /\ (failed[d] = 0 => Ordered(arrived[d]))
  BY TypeParts DEF OrderInv
<1>1. UNCHANGED <<queue, exists, arrived, sMessage, sRecv, recv_Msg, send_Msg>>
  BY DEF ServerInterrupt, ClientInterrupt, mq, server, serverMain, serverRecv, client, clientRecv
<1>2. /\ ToClients' = ToClients /\ ToTheServer' = ToTheServer
      /\ Collected' = Collected /\ Collecting' = Collecting
  BY <1>1 DEF ToClients, ToTheServer, Collected, Collecting
<1>3. Forwarding' \subseteq Forwarding
  <2>1. sMain' = sMain \/ sMain' \notin {"drain", "forward"}
    BY AfterSendStates DEF ServerInterrupt, ClientInterrupt, server, serverMain
  <2> QED
    BY <1>1, <2>1 DEF Forwarding, TagsIf
<1>4. ASSUME NEW d \in Started
      PROVE  /\ failed'[d] = 0 => failed[d] = 0
             /\ Got(d)' \subseteq Got(d) /\ Fetched(d)' \subseteq Fetched(d)
  <2>1. CASE ServerInterrupt
    BY <2>1 DEF ServerInterrupt, client, clientRecv, Got, Fetched
  <2>2. ASSUME NEW c \in Started, ClientInterrupt(c), d # c
        PROVE  /\ failed'[d] = 0 => failed[d] = 0
               /\ Got(d)' \subseteq Got(d) /\ Fetched(d)' \subseteq Fetched(d)
    BY <2>2, OthersPlaces
  <2>3. CASE ClientInterrupt(d)
    <3>1. UNCHANGED <<msg[d], cRecv[d], failed[d]>> \/ failed'[d] # 0
      BY <1>0, <2>3 DEF ClientInterrupt, ClientRecvFails, ClientType, clientRecv
    <3> QED
      BY <1>1, <3>1 DEF Got, Fetched, TagsIf
  <2> QED
    BY <2>1, <2>2, <2>3
<1>5. ASSUME NEW d \in Started PROVE InLine(Way(d)') /\ From(Way(d)', Way(d))
  <2>1. \A p \in 1..7 : Way(d)'[p] \subseteq Way(d)[p]
    BY <1>2, <1>3, <1>4, SevenPlaces, Places
  <2> QED
    BY <1>0, <2>1, Fewer
<1> QED
  BY <1>0, <1>1, <1>4, <1>5, OrderKept DEF Next

LEMMA OrderStep == TypeOK /\ AddressedInv /\ OrderInv /\ [Next]_vars => OrderInv'
<1> SUFFICES ASSUME TypeOK, AddressedInv, OrderInv, [Next]_vars PROVE OrderInv'
    OBVIOUS
<1>1. CASE UNCHANGED vars
  <2>1. UNCHANGED <<queue, exists, arrived, cRecv, failed, msg, cMain, sent, sMain, sRecv,
                    sMessage, recv_Msg, send_Msg>>
    BY <1>1 DEF vars, mq, server, serverMain, serverRecv, client, clientMain, clientRecv
  <2>2. ASSUME NEW d \in Started PROVE InLine(Way(d)') /\ From(Way(d)', Way(d))
    <3>1. \A p \in 1..7 : Way(d)'[p] \subseteq Way(d)[p]
      BY <2>1 DEF Way, Got, Fetched, ToClients, Forwarding, Collected, Collecting, ToTheServer
    <3> QED
      BY <3>1, Fewer DEF OrderInv
  <2> QED
    BY <2>1, <2>2, OrderKept DEF OrderInv
<1> QED
  BY <1>1, ServerOrderStep, ClientMainOrderStep, ClientRecvOrderStep, InterruptOrderStep
     DEF Next

-----------------------------------------------------------------------------
(* No message is made up *)

\* A client's message was sent: by the client it names, to the one it names.
Genuine(m) == m.source # 0 => m.source \in Started /\ m.id \in Mail!Written(m.source, m.dest)

\* All messages that anybody holds, whatever is done with them.
Held ==
    Range(queue) \cup Range(sMessage) \cup {send_Msg, recv_Msg}
        \cup UNION {{msg[c]} \cup Range(arrived[c]) : c \in Started}

\* The last destination of a client is that of its last message.
InTurnInv ==
    \A c \in Started :
        /\ dest[c] = IF sent[c] = 0 THEN 0 ELSE Mail!Receiver(c, sent[c])
        /\ cMain[c] = "send" => sent[c] # 0

GenuineInv == (\A m \in Held : Genuine(m)) /\ InTurnInv

\* Alternating is taking turns.
LEMMA NextInTurn ==
    ASSUME NEW c \in Clients, sent[c] \in Nat,
           dest[c] = IF sent[c] = 0 THEN 0 ELSE Mail!Receiver(c, sent[c])
    PROVE  NextDest(c) = Mail!Receiver(c, sent[c] + 1)
<1>1. /\ Mail!Receiver(1, sent[c]) = IF sent[c] % 2 = 1 THEN 2 ELSE 3
      /\ Mail!Receiver(2, sent[c]) = IF sent[c] % 2 = 1 THEN 3 ELSE 1
      /\ Mail!Receiver(3, sent[c]) = IF sent[c] % 2 = 1 THEN 1 ELSE 2
  BY DEF Mail!Receiver
<1>2. /\ Mail!Receiver(1, sent[c] + 1) = IF (sent[c] + 1) % 2 = 1 THEN 2 ELSE 3
      /\ Mail!Receiver(2, sent[c] + 1) = IF (sent[c] + 1) % 2 = 1 THEN 3 ELSE 1
      /\ Mail!Receiver(3, sent[c] + 1) = IF (sent[c] + 1) % 2 = 1 THEN 1 ELSE 2
  BY DEF Mail!Receiver
<1>3. /\ (sent[c] + 1) % 2 = 1 <=> sent[c] % 2 # 1
      /\ sent[c] = 0 => sent[c] % 2 # 1
  OBVIOUS
<1>4. /\ c = 1 => NextDest(c) = IF dest[c] = 2 THEN 3 ELSE 2
      /\ c = 2 => NextDest(c) = IF dest[c] = 3 THEN 1 ELSE 3
      /\ c = 3 => NextDest(c) = IF dest[c] = 1 THEN 2 ELSE 1
  BY DEF NextDest
<1>5. c = 1 \/ c = 2 \/ c = 3
  BY DEF Clients
<1>6. CASE c = 1
  BY <1>1, <1>2, <1>3, <1>4, <1>6
<1>7. CASE c = 2
  BY <1>1, <1>2, <1>3, <1>4, <1>7
<1>8. CASE c = 3
  BY <1>1, <1>2, <1>3, <1>4, <1>8
<1> QED
  BY <1>5, <1>6, <1>7, <1>8

\* What is in a sequence of messages after one is added, or taken.
LEMMA RangeAfter ==
    ASSUME NEW q \in Seq(Message)
    PROVE  /\ \A m \in Message : Range(Append(q, m)) = Range(q) \cup {m}
           /\ \A i \in 1..Len(q) : q[i] \in Range(q) /\ Range(RemoveAt(q, i)) \subseteq Range(q)
           /\ q # <<>> => Head(q) \in Range(q) /\ Range(Tail(q)) \subseteq Range(q)
<1>0. \A s \in Seq(Message) : Range(s) = {s[i] : i \in 1..Len(s)}
  BY DEF Range
<1>1. ASSUME NEW m \in Message PROVE Range(Append(q, m)) = Range(q) \cup {m}
  <2> DEFINE r == Append(q, m)
  <2>1. /\ r \in Seq(Message) /\ Len(r) = Len(q) + 1 /\ r[Len(q) + 1] = m
        /\ \A i \in 1..Len(q) : r[i] = q[i]
    OBVIOUS
  <2> HIDE DEF r
  <2>2. Len(q) \in Nat /\ Len(q) + 1 \in 1..Len(r) /\ \A i \in 1..Len(r) : i \in 1..Len(q) \/ i = Len(q) + 1
    BY <2>1
  <2>3. Range(r) = Range(q) \cup {m}
    BY <1>0, <2>1, <2>2
  <2> QED
    BY <2>3 DEF r
<1>2. ASSUME NEW k \in 1..Len(q) PROVE Range(RemoveAt(q, k)) \subseteq Range(q)
  <2> DEFINE r == RemoveAt(q, k)
  <2>1. r \in Seq(Message) /\ Len(r) = Len(q) - 1
    BY Removed
  <2>2. ASSUME NEW i \in 1..Len(r) PROVE \E j \in 1..Len(q) : r[i] = q[j]
    <3>1. r[i] = q[i] \/ r[i] = q[i + 1]
      BY <2>1, Removed
    <3>2. i \in 1..Len(q) /\ i + 1 \in 1..Len(q)
      BY <2>1
    <3> QED
      BY <3>1, <3>2
  <2> HIDE DEF r
  <2>3. Range(r) \subseteq Range(q)
    BY <1>0, <2>1, <2>2
  <2> QED
    BY <2>3 DEF r
<1>3. ASSUME q # <<>> PROVE Head(q) \in Range(q) /\ Range(Tail(q)) \subseteq Range(q)
  <2> DEFINE r == Tail(q)
  <2>1. /\ r \in Seq(Message) /\ Len(r) = Len(q) - 1 /\ Head(q) = q[1] /\ 1 \in 1..Len(q)
        /\ \A i \in 1..Len(r) : r[i] = q[i + 1] /\ i + 1 \in 1..Len(q)
    BY <1>3
  <2> HIDE DEF r
  <2>2. Head(q) \in Range(q) /\ Range(r) \subseteq Range(q)
    BY <1>0, <2>1
  <2> QED
    BY <2>2 DEF r
<1> QED
  BY <1>0, <1>1, <1>2, <1>3

\* Where a message that somebody holds after a step comes from.
Origin(m) ==
    \/ m.source = 0
    \/ \E x \in Held : x.source = m.source /\ x.dest = m.dest /\ x.id = m.id
    \/ \E c \in Started : cMain[c] = "send" /\ m = ClientMsg(SERVER, c, dest[c], sent[c])

LEMMA HeldParts ==
    /\ Range(queue) \subseteq Held /\ Range(sMessage) \subseteq Held
    /\ send_Msg \in Held /\ recv_Msg \in Held
    /\ \A c \in Started : msg[c] \in Held /\ Range(arrived[c]) \subseteq Held
    /\ \A m \in Held : Origin(m)
<1>1. ASSUME NEW c \in Started PROVE msg[c] \in Held /\ Range(arrived[c]) \subseteq Held
  <2>1. ASSUME NEW m \in {msg[c]} \cup Range(arrived[c])
        PROVE  m \in UNION {{msg[x]} \cup Range(arrived[x]) : x \in Started}
    BY Zenon
  <2> QED
    BY <2>1, Zenon DEF Held
<1>2. \A m \in Held : Origin(m)
  BY Zenon DEF Origin
<1>3. /\ Range(queue) \subseteq Held /\ Range(sMessage) \subseteq Held
      /\ send_Msg \in Held /\ recv_Msg \in Held
  BY Zenon DEF Held
<1> QED
  BY <1>1, <1>2, <1>3

LEMMA QueueOrigin ==
    ASSUME TypeOK, [Next]_vars, NEW m \in Range(queue')
    PROVE  Origin(m)
<1>0. QueueType /\ ServerType /\ ClientType
  BY TypeParts
<1>1. ASSUME queue' = queue \/ queue' = <<>> \/ \E t : Waiting(t) /\ queue' = RemoveAt(queue, FirstOf(t))
      PROVE  Origin(m)
  <2>1. CASE queue' = queue
    BY <2>1, HeldParts
  <2>2. CASE queue' = <<>>
    BY <2>2 DEF Range
  <2>3. ASSUME NEW t, Waiting(t), queue' = RemoveAt(queue, FirstOf(t)) PROVE Origin(m)
    <3>1. queue \in Seq(Message) /\ FirstOf(t) \in 1..Len(queue)
      BY <1>0, <2>3, FirstOfType DEF QueueType
    <3>2. Range(queue') \subseteq Range(queue)
      BY <2>3, <3>1, RangeAfter
    <3> QED
      BY <3>2, HeldParts
  <2> QED
    BY <1>1, <2>1, <2>2, <2>3
<1>2. ASSUME NEW x \in Message, Origin(x), Send(x)
      PROVE  Origin(m)
  <2>1. Range(queue') \subseteq Range(queue) \cup {x}
    BY <1>0, <1>2, RangeAfter DEF Send, QueueType
  <2> QED
    BY <1>2, <2>1, HeldParts
<1>3. CASE ServerSend
  <2>1. \A d \in Clients : Origin(Quit(d))
    BY DEF Origin, Quit, ClientMsg
  <2>2. \E x \in Message : Origin(x) /\ Send(x)
    BY <1>0, <1>3, <2>1, SendCases, Messages, HeldParts DEF ServerType, Clients
  <2> QED
    BY <1>2, <2>2
<1>4. ASSUME NEW c \in Started, ClientSend(c)
      PROVE  Origin(m)
  <2>1. /\ cMain[c] = "send"
        /\ Send(ClientMsg(SERVER, c, dest[c], sent[c]))
    BY <1>4 DEF ClientSend
  <2>2. ClientMsg(SERVER, c, dest[c], sent[c]) \in Message
    BY <1>0, DispatcherAssumption DEF ClientMsg, Message, Clients, SERVER, ClientType
  <2>3. Origin(ClientMsg(SERVER, c, dest[c], sent[c]))
    BY <2>1 DEF Origin
  <2> QED
    BY <1>2, <2>1, <2>2, <2>3
<1>5. CASE ServerLeave \/ ServerDrain \/ ServerDrained \/ ServerRemove \/ ServerRecvThread
           \/ ServerInterrupt
  BY <1>1, <1>5 DEF ServerLeave, ServerDrain, ServerDrained, ServerRemove, ServerRecvThread,
     ServerRecv, ServerRecvLeave, ServerPush, ServerInterrupt, mq
<1>6. ASSUME NEW c \in Started,
             \/ ClientLeave(c) \/ ClientPrint(c) \/ ClientAddress(c) \/ ClientJoin(c)
             \/ ClientRecvThread(c) \/ ClientInterrupt(c)
      PROVE  Origin(m)
  BY <1>1, <1>6 DEF ClientLeave, ClientPrint, ClientAddress, ClientJoin, ClientRecvThread,
     ClientRecvLoop, ClientRecv, ClientRecvRemoved, ClientHandle, ClientInterrupt, mq
<1>7. CASE UNCHANGED vars
  BY <1>1, <1>7 DEF vars, mq
<1> QED
  BY <1>3, <1>4, <1>5, <1>6, <1>7 DEF Next, ServerMain, ClientMain

\* The server's messages.
LEMMA ServerOrigin ==
    ASSUME TypeOK, [Next]_vars
    PROVE  /\ \A m \in Range(sMessage') : Origin(m)
           /\ Origin(send_Msg') /\ Origin(recv_Msg')
<1>0. QueueType /\ ServerType
  BY TypeParts
<1>1. CASE UNCHANGED <<sMessage, send_Msg, recv_Msg>>
  BY <1>1, HeldParts
<1>2. CASE ServerDrain
  <2>1. /\ sMessage # <<>> /\ sMessage \in Seq(Message) /\ recv_Msg' = recv_Msg
        /\ send_Msg' = Head(sMessage) /\ sMessage' = Tail(sMessage)
    BY <1>0, <1>2 DEF ServerDrain, ServerType, serverRecv
  <2>2. send_Msg' \in Range(sMessage) /\ Range(sMessage') \subseteq Range(sMessage)
    BY <2>1, RangeAfter
  <2> QED
    BY <2>1, <2>2, HeldParts
<1>3. CASE ServerDrained
  <2>1. /\ send_Msg' = [send_Msg EXCEPT !.mtype = send_Msg.dest] /\ send_Msg \in Message
        /\ UNCHANGED <<sMessage, recv_Msg>>
    BY <1>0, <1>3 DEF ServerDrained, ServerType, serverRecv
  <2>2. send_Msg'.source = send_Msg.source /\ send_Msg'.dest = send_Msg.dest
        /\ send_Msg'.id = send_Msg.id
    BY <2>1 DEF Message
  <2>3. Origin(send_Msg')
    BY <2>2, HeldParts DEF Origin
  <2> QED
    BY <2>1, <2>3, HeldParts
<1>4. CASE ServerRecv
  <2>1. /\ Waiting(SERVER) /\ recv_Msg' = queue[FirstOf(SERVER)]
        /\ UNCHANGED <<sMessage, send_Msg>>
    BY <1>4 DEF ServerRecv, serverMain
  <2>2. queue \in Seq(Message) /\ FirstOf(SERVER) \in 1..Len(queue)
    BY <1>0, <2>1, FirstOfType DEF QueueType
  <2>3. recv_Msg' \in Range(queue)
    BY <2>1, <2>2, RangeAfter
  <2> QED
    BY <2>1, <2>3, HeldParts
<1>5. CASE ServerPush
  <2>1. /\ sMessage' = Append(sMessage, recv_Msg) /\ UNCHANGED <<send_Msg, recv_Msg>>
        /\ sMessage \in Seq(Message) /\ recv_Msg \in Message
    BY <1>0, <1>5 DEF ServerPush, ServerType, serverMain
  <2>2. Range(sMessage') = Range(sMessage) \cup {recv_Msg}
    BY <2>1, RangeAfter
  <2> QED
    BY <2>1, <2>2, HeldParts
<1>6. CASE ServerLeave \/ ServerSend \/ ServerRemove \/ ServerRecvLeave \/ ServerInterrupt
  BY <1>1, <1>6 DEF ServerLeave, ServerSend, ServerRemove, ServerRecvLeave, ServerInterrupt,
     serverMain, serverRecv
<1>7. ASSUME NEW c \in Started, ClientMain(c) \/ ClientRecvThread(c) \/ ClientInterrupt(c)
      PROVE  UNCHANGED <<sMessage, send_Msg, recv_Msg>>
  BY <1>7 DEF ClientMain, ClientLeave, ClientPrint, ClientAddress, ClientSend, ClientJoin,
     ClientRecvThread, ClientRecvLoop, ClientRecv, ClientRecvRemoved, ClientHandle,
     ClientInterrupt, server, serverMain, serverRecv
<1>a. CASE \E c \in Started : ClientMain(c) \/ ClientRecvThread(c) \/ ClientInterrupt(c)
  BY <1>1, <1>7, <1>a
<1>8. CASE UNCHANGED vars
  BY <1>1, <1>8 DEF vars, server, serverMain, serverRecv
<1>b. CASE ServerMain \/ ServerRecvThread \/ ServerInterrupt
  BY <1>2, <1>3, <1>4, <1>5, <1>6, <1>b, Zenon DEF ServerMain, ServerRecvThread
<1> QED
  BY <1>8, <1>a, <1>b, Zenon DEF Next

\* A client's.
LEMMA ClientOrigin ==
    ASSUME TypeOK, [Next]_vars, NEW d \in Started
    PROVE  Origin(msg'[d]) /\ \A m \in Range(arrived'[d]) : Origin(m)
<1>0. QueueType /\ ClientType
  BY TypeParts
<1>1. CASE UNCHANGED <<msg[d], arrived[d]>>
  BY <1>1, HeldParts
<1>2. CASE ClientRecv(d)
  <2>1. /\ Waiting(d) /\ msg' = [msg EXCEPT ![d] = queue[FirstOf(d)]] /\ arrived' = arrived
    BY <1>2 DEF ClientRecv
  <2>2. queue \in Seq(Message) /\ FirstOf(d) \in 1..Len(queue)
    BY <1>0, <2>1, FirstOfType DEF QueueType
  <2>3. msg'[d] \in Range(queue)
    BY <1>0, <2>1, <2>2, RangeAfter DEF ClientType
  <2> QED
    BY <2>1, <2>3, HeldParts
<1>3. CASE ClientRecvRemoved(d) \/ ClientInterrupt(d)
  <2>1. msg'[d] = msg[d] \/ msg'[d] = Garbage
    BY <1>0, <1>3 DEF ClientRecvRemoved, ClientInterrupt, ClientRecvFails, ClientType,
       clientRecv
  <2>2. arrived' = arrived
    BY <1>3 DEF ClientRecvRemoved, ClientInterrupt, clientRecv
  <2>3. Origin(Garbage)
    BY DEF Origin, Garbage, ClientMsg
  <2> QED
    BY <2>1, <2>2, <2>3, HeldParts
<1>4. CASE ClientHandle(d)
  <2>1. /\ msg' = msg
        /\ arrived'[d] = arrived[d] \/ arrived'[d] = Append(arrived[d], msg[d])
        /\ arrived[d] \in Seq(Message) /\ msg[d] \in Message
    BY <1>0, <1>4 DEF ClientHandle, ClientType
  <2>2. Range(arrived'[d]) \subseteq Range(arrived[d]) \cup {msg[d]}
    <3>1. CASE arrived'[d] = arrived[d]
      BY <3>1
    <3>2. CASE arrived'[d] = Append(arrived[d], msg[d])
      <4>1. Range(Append(arrived[d], msg[d])) = Range(arrived[d]) \cup {msg[d]}
        BY <2>1, RangeAfter
      <4> QED
        BY <3>2, <4>1
    <3> QED
      BY <2>1, <3>1, <3>2
  <2> QED
    BY <2>1, <2>2, HeldParts
<1>5. CASE ClientMain(d) \/ ClientRecvLoop(d)
  BY <1>1, <1>5 DEF ClientMain, ClientLeave, ClientPrint, ClientAddress, ClientSend,
     ClientJoin, ClientRecvLoop, clientRecv
<1>6. ASSUME NEW c \in Started, c # d,
             ClientMain(c) \/ ClientRecvThread(c) \/ ClientInterrupt(c)
      PROVE  UNCHANGED <<msg[d], arrived[d]>>
  BY <1>6, OthersFrame
<1>7. CASE ServerMain \/ ServerRecvThread \/ ServerInterrupt
  BY <1>1, <1>7, ServerTypeStep DEF ServerInterrupt, client, clientRecv
<1>8. CASE UNCHANGED vars
  BY <1>1, <1>8 DEF vars, client, clientRecv
<1> QED
  BY <1>1, <1>2, <1>3, <1>4, <1>5, <1>6, <1>7, <1>8 DEF Next, ClientRecvThread

LEMMA HeldStep ==
    ASSUME TypeOK, [Next]_vars, NEW m \in Held'
    PROVE  Origin(m)
<1>1. \/ m \in Range(queue') \/ m \in Range(sMessage') \/ m = send_Msg' \/ m = recv_Msg'
      \/ \E c \in Started : m = msg'[c] \/ m \in Range(arrived'[c])
  BY Zenon DEF Held
<1> QED
  BY <1>1, QueueOrigin, ServerOrigin, ClientOrigin

\* A message that was sent stays one.
LEMMA SentSteps ==
    ASSUME TypeOK, [Next]_vars, NEW c \in Started
    PROVE  /\ sent'[c] \in Nat /\ sent[c] \in Nat
           /\ \/ sent'[c] = sent[c] /\ dest'[c] = dest[c] /\ (cMain'[c] = "send" => cMain[c] = "send")
              \/ sent'[c] = sent[c] + 1 /\ dest'[c] = NextDest(c)
<1>0. ClientType
  BY TypeParts
<1>1. CASE UNCHANGED <<sent, dest, cMain>>
  BY <1>0, <1>1 DEF ClientType
<1>2. CASE ClientMain(c)
  <2>1. CASE ClientAddress(c)
    BY <1>0, <2>1 DEF ClientAddress, ClientType
  <2>2. CASE ClientLeave(c) \/ ClientPrint(c) \/ ClientSend(c) \/ ClientJoin(c)
    BY <1>0, <2>2 DEF ClientLeave, ClientPrint, ClientSend, ClientJoin, ClientType
  <2> QED
    BY <1>2, <2>1, <2>2 DEF ClientMain
<1>3. CASE ClientRecvThread(c)
  BY <1>1, <1>3 DEF ClientRecvThread, ClientRecvLoop, ClientRecv, ClientRecvRemoved,
     ClientHandle, clientMain
<1>4. CASE ClientInterrupt(c)
  BY <1>0, <1>4 DEF ClientInterrupt, ClientType, clientMain
<1>5. ASSUME NEW x \in Started, x # c,
             ClientMain(x) \/ ClientRecvThread(x) \/ ClientInterrupt(x)
      PROVE  UNCHANGED <<sent[c], dest[c], cMain[c]>>
  BY <1>5, OthersFrame
<1>6. CASE ServerMain \/ ServerRecvThread \/ ServerInterrupt
  BY <1>1, <1>6, ServerTypeStep DEF ServerInterrupt, client, clientMain
<1>7. CASE UNCHANGED vars
  BY <1>1, <1>7 DEF vars, client, clientMain
<1> QED
  BY <1>0, <1>2, <1>3, <1>4, <1>5, <1>6, <1>7 DEF Next, ClientType

LEMMA GenuineKept ==
    ASSUME TypeOK, [Next]_vars, NEW m, Genuine(m)
    PROVE  Genuine(m)'
<1> SUFFICES ASSUME m.source # 0 PROVE m.id \in Mail!Written(m.source, m.dest)' /\ m.source \in Started
    BY DEF Genuine
<1>1. m.source \in Started /\ m.id \in Mail!Written(m.source, m.dest)
  BY DEF Genuine
<1>2. /\ sent'[m.source] \in Nat /\ sent[m.source] \in Nat
      /\ sent'[m.source] = sent[m.source] \/ sent'[m.source] = sent[m.source] + 1
  BY <1>1, SentSteps
<1> QED
  BY <1>1, <1>2 DEF Mail!Written

LEMMA GenuineInit == Init => GenuineInv
<1> SUFFICES ASSUME Init PROVE GenuineInv
    OBVIOUS
<1>1. Garbage.source = 0
  BY DEF Garbage, ClientMsg
<1>2. ASSUME NEW m \in Held PROVE m = Garbage
  <2>1. \/ m \in Range(queue) \/ m \in Range(sMessage) \/ m = send_Msg \/ m = recv_Msg
        \/ \E c \in Started : m = msg[c] \/ m \in Range(arrived[c])
    BY Zenon DEF Held
  <2>2. Range(<<>>) = {}
    BY DEF Range
  <2> QED
    BY <2>1, <2>2 DEF Init, ServerInit, ClientInit
<1>3. InTurnInv
  BY DEF InTurnInv, Init, ClientInit
<1> QED
  BY <1>1, <1>2, <1>3 DEF GenuineInv, Genuine

LEMMA GenuineStep == TypeOK /\ GenuineInv /\ [Next]_vars => GenuineInv'
<1> SUFFICES ASSUME TypeOK, GenuineInv, [Next]_vars PROVE GenuineInv'
    OBVIOUS
<1>1. ASSUME NEW m \in Held' PROVE Genuine(m)'
  <2>1. Origin(m)
    BY HeldStep
  <2>2. CASE m.source = 0
    BY <2>2 DEF Genuine
  <2>3. ASSUME NEW x \in Held, x.source = m.source, x.dest = m.dest, x.id = m.id
        PROVE  Genuine(m)'
    <3>1. Genuine(x)'
      BY GenuineKept DEF GenuineInv
    <3> QED
      BY <2>3, <3>1 DEF Genuine
  <2>4. ASSUME NEW c \in Started, cMain[c] = "send", m = ClientMsg(SERVER, c, dest[c], sent[c])
        PROVE  Genuine(m)'
    <3>1. sent[c] \in Nat /\ sent[c] # 0 /\ dest[c] = Mail!Receiver(c, sent[c])
      BY <2>4, SentSteps DEF GenuineInv, InTurnInv
    <3>2. m.source = c /\ m.dest = dest[c] /\ m.id = sent[c] /\ c \in Clients
      BY <2>4, DispatcherAssumption DEF ClientMsg
    <3>3. dest[c] # c
      BY <3>1, <3>2 DEF Mail!Receiver, Clients
    <3>4. Genuine(m)
      BY <3>1, <3>2, <3>3 DEF Genuine, Mail!Written
    <3> QED
      BY <3>4, GenuineKept
  <2> QED
    BY <2>1, <2>2, <2>3, <2>4 DEF Origin
<1>2. ASSUME NEW c \in Started
      PROVE  /\ dest'[c] = IF sent'[c] = 0 THEN 0 ELSE Mail!Receiver(c, sent'[c])
             /\ cMain'[c] = "send" => sent'[c] # 0
  <2>1. /\ sent[c] \in Nat /\ c \in Clients
        /\ dest[c] = IF sent[c] = 0 THEN 0 ELSE Mail!Receiver(c, sent[c])
        /\ cMain[c] = "send" => sent[c] # 0
    BY SentSteps, DispatcherAssumption DEF GenuineInv, InTurnInv
  <2>2. NextDest(c) = Mail!Receiver(c, sent[c] + 1)
    BY <2>1, NextInTurn
  <2> QED
    BY <2>1, <2>2, SentSteps
<1>3. InTurnInv'
  BY <1>2 DEF InTurnInv
<1> QED
  BY <1>1, <1>3 DEF GenuineInv

-----------------------------------------------------------------------------
(* What a failed msgrcv() leaves *)

\* Outside its hands msg[c] is what the client was given last, if it was given
\* it at all.
LastGiven(c) ==
    \/ msg[c] = Garbage \/ IsQuit(msg[c])
    \/ arrived[c] # <<>> /\ msg[c] = arrived[c][Len(arrived[c])]

\* Once a call has failed no other one succeeds: either ctrl-C came, and the loop
\* is left, or the queue is gone.
Stray(c) ==
    /\ failed[c] # 0 /\ exists => ~cRunning[c] /\ cRecv[c] # "msgrcv"
    /\ failed[c] # 0 \/ cRecv[c] # "handle" => LastGiven(c)

StrayInv == \A c \in Started : Stray(c)

LEMMA StrayFrame ==
    ASSUME NEW d, Stray(d), exists' => exists,
           UNCHANGED <<msg[d], cRecv[d], cRunning[d], failed[d], arrived[d]>>
    PROVE  Stray(d)'
BY DEF Stray, LastGiven, IsQuit

\* The receive thread of a client keeps it so.
LEMMA ClientRecvStray ==
    ASSUME TypeOK, NEW c \in Started, Stray(c), ClientRecvThread(c)
    PROVE  Stray(c)'
<1>0. ClientType
  BY TypeParts
<1>1. CASE ClientRecvLoop(c)
  <2>1. /\ cRecv[c] = "loop" /\ cRecv'[c] = IF cRunning[c] THEN "msgrcv" ELSE "done"
        /\ UNCHANGED <<exists, cRunning, msg, arrived, failed>>
    BY <1>0, <1>1 DEF ClientRecvLoop, ClientType, mq
  <2> QED
    BY <2>1 DEF Stray, LastGiven, IsQuit
<1>2. CASE ClientRecv(c)
  <2>1. cRecv[c] = "msgrcv" /\ exists /\ failed' = failed /\ cRecv'[c] = "handle"
    BY <1>0, <1>2 DEF ClientRecv, Waiting, ClientType
  <2> QED
    BY <2>1 DEF Stray
<1>3. CASE ClientRecvRemoved(c)
  <2>1. /\ cRecv[c] = "msgrcv" /\ ~exists' /\ arrived' = arrived
        /\ msg'[c] \in {msg[c], Garbage}
    BY <1>0, <1>3 DEF ClientRecvRemoved, ClientRecvFails, ClientType, mq
  <2> QED
    BY <2>1 DEF Stray, LastGiven, IsQuit
<1>4. CASE ClientHandle(c)
  <2>1. cRecv'[c] = "loop" /\ UNCHANGED <<exists, msg, failed>>
    BY <1>0, <1>4 DEF ClientHandle, ClientType, mq
  <2>2. cRunning'[c] => cRunning[c]
    BY <1>0, <1>4 DEF ClientHandle, ClientType
  <2>3. LastGiven(c)'
    <3>1. CASE IsQuit(msg[c])
      BY <2>1, <3>1 DEF LastGiven, IsQuit
    <3>2. CASE ~IsQuit(msg[c])
      <4>1. arrived'[c] = Append(arrived[c], msg[c]) /\ arrived[c] \in Seq(Message)
            /\ msg[c] \in Message
        BY <1>0, <1>4, <3>2 DEF ClientHandle, ClientType
      <4>2. arrived'[c] # <<>> /\ arrived'[c][Len(arrived'[c])] = msg[c]
        BY <4>1
      <4> QED
        BY <2>1, <4>2 DEF LastGiven
    <3> QED
      BY <3>1, <3>2
  <2> QED
    BY <2>1, <2>2, <2>3 DEF Stray
<1> QED
  BY <1>1, <1>2, <1>3, <1>4 DEF ClientRecvThread

LEMMA StrayStep == TypeOK /\ StrayInv /\ [Next]_vars => StrayInv'
<1> SUFFICES ASSUME TypeOK, StrayInv, [Next]_vars, NEW d \in Started PROVE Stray(d)'
    BY DEF StrayInv
<1>0. ClientType /\ Stray(d)
  BY TypeParts DEF StrayInv
<1>1. CASE ServerMain \/ ServerRecvThread
  <2>1. exists' => exists
    BY <1>1 DEF ServerMain, ServerRecvThread, ServerLeave, ServerDrain, ServerDrained,
       ServerSend, ServerRemove, ServerRecv, ServerRecvLeave, ServerPush, mq
  <2> QED
    BY <1>0, <1>1, <2>1, ServerTypeStep, StrayFrame DEF client, clientRecv
<1>2. CASE ServerInterrupt \/ UNCHANGED vars
  BY <1>0, <1>2, StrayFrame DEF ServerInterrupt, vars, mq, client, clientRecv
<1>3. ASSUME NEW c \in Started, c # d,
             ClientMain(c) \/ ClientRecvThread(c) \/ ClientInterrupt(c)
      PROVE  Stray(d)'
  BY <1>0, <1>3, OthersFrame, StrayFrame
<1>4. CASE ClientMain(d)
  <2>1. UNCHANGED <<exists, clientRecv, cRunning>>
    BY <1>4 DEF ClientMain, ClientLeave, ClientPrint, ClientAddress, ClientSend, ClientJoin, mq
  <2> QED
    BY <1>0, <2>1, StrayFrame DEF clientRecv
<1>5. CASE ClientRecvThread(d)
  BY <1>0, <1>5, ClientRecvStray
<1>6. CASE ClientInterrupt(d)
  <2>1. ~cRunning'[d] /\ exists' = exists /\ arrived' = arrived
    BY <1>0, <1>6 DEF ClientInterrupt, ClientType, mq, clientRecv
  <2>2. \/ UNCHANGED <<msg[d], cRecv[d], failed[d]>>
        \/ cRecv[d] = "msgrcv" /\ cRecv'[d] = "handle" /\ msg'[d] \in {msg[d], Garbage}
    BY <1>0, <1>6 DEF ClientInterrupt, ClientRecvFails, ClientType, clientRecv
  <2> QED
    BY <1>0, <2>1, <2>2 DEF Stray, LastGiven, IsQuit
<1> QED
  BY <1>1, <1>2, <1>3, <1>4, <1>5, <1>6 DEF Next

-----------------------------------------------------------------------------
(* The theorems *)

\* The dispatcher never leaves the types of its variables, nor its queue its
\* capacity, nor a client its share of messages; and the three invariants hold, at
\* clients that work on a removed queue as well (server.cpp:46-92,
\* client1.cpp:67-112).
THEOREM Inductive == Spec => [](TypeOK /\ AddressedInv /\ OrderInv /\ StrayInv)
<1>1. Init => TypeOK /\ AddressedInv /\ OrderInv
  BY TypeInit, AddressedInit, OrderInit
<1>2. Init => StrayInv
  BY DEF Init, ClientInit, StrayInv, Stray, LastGiven
<1>3. TypeOK /\ AddressedInv /\ OrderInv /\ StrayInv /\ [Next]_vars
          => (TypeOK /\ AddressedInv /\ OrderInv /\ StrayInv)'
  BY TypeStep, AddressedStep, OrderStep, StrayStep
<1> QED
  BY <1>1, <1>2, <1>3, PTL DEF Spec

\* For any clients, capacity and number of messages, every variable of server and
\* clients keeps to its type, and the queue to its capacity (server.cpp:33-92).
THEOREM TypeCorrect == Spec => []TypeOK
BY Inductive, PTL

\* Between two clients messages arrive in the order they were sent and once, for
\* any number of them and any capacity of the queue, as long as no msgrcv() of the
\* receiving client has failed (server.cpp:46-92).
THEOREM InOrderOnceAlways == Spec => []InOrderOnce
<1>1. TypeOK /\ AddressedInv /\ OrderInv => InOrderOnce
  <2> SUFFICES ASSUME AddressedInv, OrderInv, NEW c \in Started, failed[c] = 0,
                      NEW i \in 1..Len(arrived[c]), NEW j \in 1..Len(arrived[c]),
                      i < j, arrived[c][i].source = arrived[c][j].source
               PROVE  arrived[c][i].id < arrived[c][j].id
      BY DEF InOrderOnce
  <2>1. ASSUME NEW k \in 1..Len(arrived[c])
        PROVE  /\ arrived[c][k].mtype = c /\ arrived[c][k].dest = c
               /\ arrived[c][k].source # 0
    BY DEF AddressedInv, ClientAddressed, ForClient
  <2>2. Before(arrived[c][i], arrived[c][j])
    BY <2>1 DEF OrderInv, Ordered
  <2> QED
    BY <2>1, <2>2 DEF Before
<1> QED
  BY <1>1, Inductive, PTL

\* Nobody holds a message that was not sent to whom it names, and the clients
\* take turns with their destinations (server.cpp:50-58, client1.cpp:91-112).
THEOREM NothingMadeUp == Spec => []GenuineInv
<1>1. TypeOK /\ GenuineInv /\ [Next]_vars => GenuineInv'
  BY GenuineStep
<1> QED
  BY <1>1, GenuineInit, TypeCorrect, PTL DEF Spec

-----------------------------------------------------------------------------
(* The dispatcher implements the post *)

\* What a client was given, one message more.
LEMMA LettersAppended ==
    ASSUME TypeOK, NEW d \in Started, NEW m \in Message,
           arrived' = [arrived EXCEPT ![d] = Append(arrived[d], m)]
    PROVE  Letters' = [Letters EXCEPT ![d] = Append(Letters[d], LetterOf(m))]
<1>1. /\ arrived \in [Started -> Seq(Message)]
      /\ arrived'[d] = Append(arrived[d], m) /\ \A c \in Started \ {d} : arrived'[c] = arrived[c]
  BY DEF TypeOK
<1>2. arrived[d] \in Seq(Message)
  BY <1>1
<1>3. /\ Len(arrived'[d]) = Len(arrived[d]) + 1 /\ Len(arrived[d]) \in Nat
      /\ arrived'[d][Len(arrived[d]) + 1] = m
      /\ \A i \in 1..Len(arrived[d]) : arrived'[d][i] = arrived[d][i]
  BY <1>1, <1>2
<1>4. /\ Letters[d] = [i \in 1..Len(arrived[d]) |-> LetterOf(arrived[d][i])]
      /\ Letters'[d] = [i \in 1..(Len(arrived[d]) + 1) |-> LetterOf(arrived'[d][i])]
  BY <1>3 DEF Letters
<1> DEFINE l == Len(arrived[d])
<1>5. Append(Letters[d], LetterOf(m)) = Letters'[d]
  <2>1. Letters[d] \in Seq({LetterOf(arrived[d][i]) : i \in 1..l}) /\ Len(Letters[d]) = l
    BY <1>3, <1>4
  <2> QED
    BY <1>3, <1>4, <2>1
<1>6. \A c \in Started \ {d} : Letters'[c] = Letters[c]
  BY <1>1 DEF Letters
<1>7. /\ DOMAIN Letters = Started /\ DOMAIN Letters' = Started
      /\ Letters = [c \in Started |-> Letters[c]] /\ Letters' = [c \in Started |-> Letters'[c]]
  BY DEF Letters
<1> QED
  BY <1>5, <1>6, <1>7, Zenon

\* A call that fails closes the box.
LEMMA BoxCloses ==
    ASSUME TypeOK, NEW c \in Started, failed' = [failed EXCEPT ![c] = failed[c] + 1]
    PROVE  Boxes' = [Boxes EXCEPT ![c] = FALSE]
<1>1. failed \in [Started -> Nat]
  BY DEF TypeOK
<1>2. /\ failed[c] \in Nat /\ failed'[c] = failed[c] + 1
      /\ \A d \in Started : d # c => failed'[d] = failed[d]
  BY <1>1
<1>3. failed'[c] # 0
  BY <1>2
<1> QED
  BY <1>2, <1>3, Zenon DEF Boxes

\* What the receive thread handles is given to the client, or is a "Quit".
LEMMA HandleIsMail ==
    ASSUME TypeOK, AddressedInv, OrderInv, GenuineInv, StrayInv,
           NEW c \in Started, ClientHandle(c)
    PROVE  Mail!Deliver(c) \/ Mail!Find(c) \/ UNCHANGED Mail!vars
<1>0. ClientType /\ ClientAddressed(c) /\ Stray(c)
  BY TypeParts DEF AddressedInv, StrayInv
<1>1. sent' = sent /\ Boxes' = Boxes /\ cRecv[c] = "handle" /\ Boxes[c] = (failed[c] = 0)
  BY DEF ClientHandle, clientMain, Boxes
<1>2. CASE IsQuit(msg[c])
  <2>1. arrived' = arrived
    BY <1>2 DEF ClientHandle
  <2> QED
    BY <1>1, <2>1 DEF Mail!vars, Letters
<1>3. ASSUME ~IsQuit(msg[c])
      PROVE  Mail!Give(c, LetterOf(msg[c]))
  <2>1. /\ msg[c] \in Message
        /\ arrived' = [arrived EXCEPT ![c] = Append(arrived[c], msg[c])]
    BY <1>0, <1>3 DEF ClientHandle, ClientType
  <2>2. Letters' = [Letters EXCEPT ![c] = Append(Letters[c], LetterOf(msg[c]))]
    BY <2>1, LettersAppended
  <2> QED
    BY <1>1, <2>2 DEF Mail!Give
<1>4. CASE ~IsQuit(msg[c]) /\ failed[c] # 0
  <2>1. msg[c] = Garbage \/ (arrived[c] # <<>> /\ msg[c] = arrived[c][Len(arrived[c])])
    BY <1>0, <1>4 DEF Stray, LastGiven
  <2>2. CASE msg[c] = Garbage
    <3>1. LetterOf(msg[c]) = Mail!Nobody
      BY <2>2 DEF LetterOf, Garbage, ClientMsg, Mail!Nobody, Mail!Letter
    <3> QED
      BY <1>1, <1>3, <1>4, <3>1 DEF Mail!Find
  <2>3. CASE arrived[c] # <<>> /\ msg[c] = arrived[c][Len(arrived[c])]
    <3>1. arrived[c] \in Seq(Message) /\ Len(arrived[c]) \in 1..Len(arrived[c])
      BY <1>0, <2>3 DEF ClientType
    <3>2. Letters[c] = [i \in 1..Len(arrived[c]) |-> LetterOf(arrived[c][i])]
      BY DEF Letters
    <3>3. Len(Letters[c]) = Len(arrived[c]) /\ Letters[c] # <<>>
      BY <3>1, <3>2
    <3>4. Letters[c][Len(Letters[c])] = LetterOf(msg[c])
      BY <2>3, <3>1, <3>2, <3>3
    <3> QED
      BY <1>1, <1>3, <1>4, <3>3, <3>4 DEF Mail!Find
  <2> QED
    BY <2>1, <2>2, <2>3
<1>5. CASE ~IsQuit(msg[c]) /\ failed[c] = 0
  <2> DEFINE s == msg[c].source
             k == msg[c].id
  <2>1. ForClient(msg[c]) /\ msg[c].mtype = c /\ msg[c] \in Message
    BY <1>0, <1>1, <1>5 DEF ClientAddressed, ClientType
  <2>2. s # 0 /\ msg[c].dest = c
    BY <1>5, <2>1 DEF IsQuit, ForClient
  <2>3. s \in Started /\ k \in Mail!Written(s, c)
    BY <2>2, HeldParts DEF GenuineInv, Genuine
  <2>4. LetterOf(msg[c]) = Mail!Letter(s, c, k)
    BY <2>2 DEF LetterOf, Mail!Letter
  <2>5. ASSUME NEW i \in 1..Len(Letters[c]), Letters[c][i].source = s
        PROVE  Letters[c][i].id < k
    <3>1. /\ i \in 1..Len(arrived[c]) /\ Letters[c][i] = LetterOf(arrived[c][i])
          /\ arrived[c][i] \in Message
      BY <1>0 DEF Letters, ClientType
    <3>2. /\ ForClient(arrived[c][i]) /\ arrived[c][i].mtype = c
          /\ arrived[c][i].source # 0
      BY <1>0, <1>5, <3>1 DEF ClientAddressed
    <3>3. TagOf(arrived[c][i]) \in Got(c)
      BY <1>5, <3>1, <3>2, TagOfClients DEF Got, TagsOf
    <3>4. TagOf(msg[c]) \in Fetched(c)
      BY <1>1, <1>5, <2>1, <2>2, TagOfClients DEF Fetched, TagsIf
    <3>5. Before(arrived[c][i], msg[c])
      BY <3>3, <3>4, Places, BeforeTags DEF OrderInv, InLine
    <3> QED
      BY <2>2, <2>5, <3>1, <3>2, <3>5 DEF Before, LetterOf, ForClient
  <2>6. \A i \in 1..Len(Letters[c]) : Letters[c][i].source = s => Letters[c][i].id < k
    BY <2>5
  <2> QED
    BY <1>1, <1>3, <1>5, <2>3, <2>4, <2>6 DEF Mail!Deliver
<1> QED
  BY <1>2, <1>4, <1>5

LEMMA MailStep ==
    ASSUME TypeOK, AddressedInv, OrderInv, GenuineInv, StrayInv, [Next]_vars
    PROVE  [Mail!Next]_(Mail!vars)
<1>0. ClientType
  BY TypeParts
<1>1. CASE UNCHANGED <<sent, failed, arrived>>
  BY <1>1 DEF Mail!vars, Letters, Boxes
<1>2. ASSUME NEW c \in Started, ClientHandle(c) PROVE [Mail!Next]_(Mail!vars)
  BY <1>2, HandleIsMail DEF Mail!Next
<1>3. ASSUME NEW c \in Started, ClientAddress(c) PROVE [Mail!Next]_(Mail!vars)
  <2>1. failed' = failed /\ arrived' = arrived
    BY <1>3 DEF ClientAddress, clientRecv
  <2>2. sent' = sent \/ sent' = [sent EXCEPT ![c] = sent[c] + 1]
    BY <1>3 DEF ClientAddress
  <2>3. Letters' = Letters /\ Boxes' = Boxes
    BY <2>1 DEF Letters, Boxes
  <2>4. UNCHANGED Mail!vars \/ Mail!Write(c)
    BY <2>2, <2>3 DEF Mail!vars, Mail!Write
  <2> QED
    BY <2>4 DEF Mail!Next
<1>4. ASSUME NEW c \in Started, ClientInterrupt(c) \/ ClientRecvRemoved(c)
      PROVE  [Mail!Next]_(Mail!vars)
  <2>1. /\ arrived' = arrived /\ sent' = sent
        /\ failed' = failed \/ failed' = [failed EXCEPT ![c] = failed[c] + 1]
    BY <1>4 DEF ClientInterrupt, ClientRecvRemoved, ClientRecvFails, clientRecv, clientMain
  <2>2. CASE failed' = failed
    BY <1>1, <2>1, <2>2
  <2>3. CASE failed' = [failed EXCEPT ![c] = failed[c] + 1]
    <3>1. Boxes' = [Boxes EXCEPT ![c] = FALSE] /\ Letters' = Letters
      BY <2>1, <2>3, BoxCloses DEF Letters
    <3> QED
      BY <2>1, <3>1 DEF Mail!Close, Mail!Next
  <2> QED
    BY <2>1, <2>2, <2>3
<1>5. ASSUME NEW c \in Started,
             \/ ClientLeave(c) \/ ClientPrint(c) \/ ClientSend(c) \/ ClientJoin(c)
             \/ ClientRecvLoop(c) \/ ClientRecv(c)
      PROVE  UNCHANGED <<sent, failed, arrived>>
  BY <1>5 DEF ClientLeave, ClientPrint, ClientSend, ClientJoin, ClientRecvLoop, ClientRecv,
     clientMain, clientRecv
<1>6. ASSUME NEW c \in Started, ClientMain(c) \/ ClientRecvThread(c) \/ ClientInterrupt(c)
      PROVE  [Mail!Next]_(Mail!vars)
  BY <1>1, <1>2, <1>3, <1>4, <1>5, <1>6 DEF ClientMain, ClientRecvThread
<1>7. CASE ServerMain \/ ServerRecvThread \/ ServerInterrupt
  BY <1>1, <1>7, ServerTypeStep DEF ServerInterrupt, client, clientMain, clientRecv
<1>8. CASE UNCHANGED vars
  BY <1>1, <1>8 DEF vars, client, clientMain, clientRecv
<1> QED
  BY <1>6, <1>7, <1>8 DEF Next

\* For any clients, capacity and number of messages, server and clients implement
\* the post that Post describes, what clients make of failed calls included
\* (server.cpp:46-92, client1.cpp:67-112).
THEOREM KeepsThePost == Spec => PostSpec
<1>1. Init => Mail!Init
  <2> SUFFICES ASSUME Init PROVE Mail!Init
      OBVIOUS
  <2>1. /\ arrived = [c \in Started |-> <<>>] /\ sent = [c \in Started |-> 0]
        /\ failed = [c \in Started |-> 0]
    BY DEF Init, ClientInit
  <2>2. Letters = [c \in Started |-> <<>>]
    BY <2>1 DEF Letters
  <2>3. \A c \in Started : (failed[c] = 0) = TRUE
    BY <2>1
  <2>4. Boxes = [c \in Started |-> TRUE]
    BY <2>3, Zenon DEF Boxes
  <2> QED
    BY <2>1, <2>2, <2>4 DEF Mail!Init
<1>2. TypeOK /\ AddressedInv /\ OrderInv /\ StrayInv /\ GenuineInv /\ [Next]_vars
          => [Mail!Next]_(Mail!vars)
  BY MailStep
<1> QED
  BY <1>1, <1>2, Inductive, NothingMadeUp, PTL DEF Spec, PostSpec, Mail!Spec
=============================================================================
