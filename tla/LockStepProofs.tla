--------------------------- MODULE LockStepProofs ---------------------------
(* The lock-step protocol for any number of servers and clients. *)
EXTENDS LockStep, TLAPS

Accepted(c) == to[c] # 0 /\ peer[to[c]] = c

\* Who is connected to whom.
LinkInv ==
    /\ \A s \in Servers : peer[s] # 0 => to[peer[s]] = s
    /\ \A s \in Servers : server[s] \in Talking => peer[s] # 0
    /\ \A s \in Servers : server[s] \in {"start", "bind", "listen", "accept"} => peer[s] = 0
    /\ \A s \in Servers : \A x \in 1..Len(backlog[s]) : to[backlog[s][x]] = s
    /\ \A c \in Clients : client[c] \in {"read", "act", "write"} => to[c] # 0
    /\ \A c \in Clients : client[c] = "connect" => to[c] = 0

\* A client that nobody accepted has said and heard nothing.
UnheardInv ==
    \A c \in Clients : ~Accepted(c) =>
        /\ down[c] = <<>> /\ up[c] = <<>>
        /\ client[c] \notin {"act", "write", "ended"}

\* The turns of a server and its client.
Turn(s, c) ==
    /\ server[s] = "write" =>
           down[c] = <<>> /\ up[c] = <<>> /\ client[c] \notin {"act", "write"}
    /\ server[s] = "read" =>
           \/ down[c] = <<i[s]>> /\ up[c] = <<>> /\ client[c] \notin {"act", "write"}
           \/ down[c] = <<>> /\ up[c] = <<>> /\ client[c] # "read"
           \/ down[c] = <<>> /\ up[c] = <<i[s]>> /\ client[c] \notin {"act", "write"}

TurnInv == \A s \in Servers : Turn(s, peer[s])

\* The request that a client is to read or carries out is the server's last.
Asked(c) ==
    /\ down[c] # <<>> => down[c] = <<i[to[c]]>>
    /\ client[c] \in {"act", "write"} /\ buffer[c] # 0 => buffer[c] = i[to[c]]
    /\ client[c] \in {"act", "write"} /\ buffer[c] = 0 => server[to[c]] \in Over
    /\ client[c] \in {"connect", "read", "act"} => isRunning[c]
    /\ client[c] = "write" /\ ~isRunning[c] => buffer[c] = 3 /\ to[c] \notin ExServers
    /\ client[c] = "ended" => i[to[c]] = 3 /\ to[c] \notin ExServers

RequestInv == \A c \in Clients : Asked(c)

IInv == TypeOK /\ LinkInv /\ UnheardInv /\ TurnInv /\ RequestInv

-----------------------------------------------------------------------------
\* What is put into and taken from the streams.
LEMMA Streams ==
    ASSUME NEW Kind, NEW q \in Seq(Kind), NEW m \in Kind
    PROVE  /\ Append(q, m) \in Seq(Kind)
           /\ q # <<>> => Head(q) \in Kind /\ Tail(q) \in Seq(Kind)
           /\ Append(<<>>, m) = <<m>>
           /\ <<m>> # <<>> /\ Head(<<m>>) = m /\ Tail(<<m>>) = <<>>
OBVIOUS

\* A function with one value replaced.
LEMMA Update ==
    ASSUME NEW Kind, NEW Dom, NEW f \in [Dom -> Kind], NEW x, NEW v, x \in Dom => v \in Kind
    PROVE  [f EXCEPT ![x] = v] \in [Dom -> Kind]
OBVIOUS

\* Every step keeps the types.
LEMMA TypeOKStep == TypeOK /\ [Next]_vars => TypeOK'
<1> SUFFICES ASSUME TypeOK, [Next]_vars PROVE TypeOK'
    OBVIOUS
<1> USE DEF TypeOK, Request, Talking, Over, servers, clients, streams
<1>1. ASSUME NEW s \in Servers, Unlink(s) \/ Bind(s) \/ Listen(s) \/ Finish(s) \/ KillServer(s)
      PROVE  TypeOK'
  BY <1>1 DEF Unlink, Bind, Listen, Finish, KillServer, At
<1>2. ASSUME NEW s \in Servers, Accept(s) PROVE TypeOK'
  <2>1. backlog[s] \in Seq(Clients) /\ backlog[s] # <<>>
    BY <1>2 DEF Accept
  <2>2. Head(backlog[s]) \in Clients /\ Tail(backlog[s]) \in Seq(Clients)
    BY <2>1
  <2> QED
    BY <1>2, <2>2 DEF Accept, At
<1>3. ASSUME NEW s \in Servers, Write(s) PROVE TypeOK'
  <2>1. \A c \in Clients : Append(down[c], i[s]) \in Seq(Request)
    <3> SUFFICES ASSUME NEW c \in Clients PROVE Append(down[c], i[s]) \in Seq(Request)
      OBVIOUS
    <3>1. down[c] \in Seq(Request) /\ i[s] \in Request
      OBVIOUS
    <3> HIDE DEF Request
    <3> QED
      BY <3>1, Streams
  <2>2. down' \in [Clients -> Seq(Request)]
    <3>1. down' = down \/ down' = [down EXCEPT ![peer[s]] = Append(down[peer[s]], i[s])]
      BY <1>3 DEF Write
    <3>2. down \in [Clients -> Seq(Request)]
      OBVIOUS
    <3>3. peer[s] \in Clients => Append(down[peer[s]], i[s]) \in Seq(Request)
      BY <2>1
    <3> HIDE DEF Request, TypeOK
    <3> QED
      BY <3>1, <3>2, <3>3, Update
  <2>3. /\ server' \in [Servers -> {"start", "bind", "listen", "accept", "sleep"} \cup Talking \cup Over]
        /\ UNCHANGED <<i, peer, backlog, clients, up, name>>
    BY <1>3 DEF Write, At
  <2> QED
    BY <2>2, <2>3
<1>4. ASSUME NEW s \in Servers, Read(s) PROVE TypeOK'
  <2>1. up' \in [Clients -> Seq(Request \cup {0})]
    <3> DEFINE c == peer[s]
    <3>1. up' = up \/ (up[c] # <<>> /\ up' = [up EXCEPT ![c] = Tail(up[c])])
      BY <1>4 DEF Read
    <3>2. up \in [Clients -> Seq(Request \cup {0})]
      OBVIOUS
    <3> HIDE DEF Request, TypeOK
    <3>3. c \in Clients /\ up[c] # <<>> => Tail(up[c]) \in Seq(Request \cup {0})
      BY <3>2
    <3> QED
      BY <3>1, <3>2, <3>3, Update
  <2>2. server' \in [Servers -> {"start", "bind", "listen", "accept", "sleep"} \cup Talking \cup Over]
    BY <1>4 DEF Read, ReadFails, NextRequest, At
  <2>3. i' \in [Servers -> Request]
    BY <1>4 DEF Read, ReadFails, NextRequest
  <2>4. UNCHANGED <<peer, backlog, clients, down>> /\ name' \in {0, name}
    BY <1>4 DEF Read, ReadFails, NextRequest
  <2> QED
    BY <2>1, <2>2, <2>3, <2>4
<1>5. ASSUME NEW c \in Clients, Connect(c) PROVE TypeOK'
  <2>1. \A s \in Servers : Append(backlog[s], c) \in Seq(Clients)
    OBVIOUS
  <2>2. backlog' \in [Servers -> Seq(Clients)]
    BY <1>5, <2>1 DEF Connect
  <2> QED
    BY <1>5, <2>2 DEF Connect, ClientAt
<1>6. ASSUME NEW c \in Clients, ClientRead(c) PROVE TypeOK'
  <2>1. down[c] # <<>> => Head(down[c]) \in Request /\ Tail(down[c]) \in Seq(Request)
    OBVIOUS
  <2>2. down' \in [Clients -> Seq(Request)] /\ buffer' \in [Clients -> Request \cup {0}]
    BY <1>6, <2>1 DEF ClientRead
  <2> QED
    BY <1>6, <2>2 DEF ClientRead, ClientAt
<1>7. ASSUME NEW c \in Clients, Act(c) \/ ExAct(c) \/ KillClient(c) PROVE TypeOK'
  BY <1>7 DEF Act, ExAct, KillClient, ClientAt
<1>8. ASSUME NEW c \in Clients, ClientWrite(c) PROVE TypeOK'
  <2>1. Append(up[c], buffer[c]) \in Seq(Request \cup {0})
    OBVIOUS
  <2>2. up' \in [Clients -> Seq(Request \cup {0})]
    BY <1>8, <2>1 DEF ClientWrite
  <2> QED
    BY <1>8, <2>2 DEF ClientWrite, ClientAt
<1>9. CASE UNCHANGED vars
  BY <1>9 DEF vars
<1> QED
  BY <1>1, <1>2, <1>3, <1>4, <1>5, <1>6, <1>7, <1>8, <1>9 DEF Next, Serve, Answer

-----------------------------------------------------------------------------
\* Connections come about in Connect and are accepted in Accept; else they stay.
LEMMA LinkStep == TypeOK /\ LinkInv /\ [Next]_vars => LinkInv'
<1> SUFFICES ASSUME TypeOK, LinkInv, [Next]_vars PROVE LinkInv'
    OBVIOUS
<1> USE LockStepAssumption DEF LinkInv, Talking, Over, servers, clients, streams
<1>0. /\ server \in [Servers -> {"start", "bind", "listen", "accept", "sleep"} \cup Talking \cup Over]
      /\ peer \in [Servers -> Clients \cup {0}] /\ to \in [Clients -> Servers \cup {0}]
      /\ client \in [Clients -> {"connect", "read", "act", "write"} \cup Over]
      /\ \A s \in Servers : backlog[s] \in Seq(Clients)
      /\ backlog \in [Servers -> Seq(Clients)] /\ name \in Servers \cup {0}
  BY DEF TypeOK
<1>1. ASSUME NEW s \in Servers, Unlink(s) \/ Bind(s) \/ Listen(s) \/ Finish(s) \/ KillServer(s)
      PROVE  LinkInv'
  BY <1>0, <1>1 DEF Unlink, Bind, Listen, Finish, KillServer, At
<1>2. ASSUME NEW s \in Servers, Accept(s) PROVE LinkInv'
  <2>1. /\ backlog[s] # <<>> /\ 1 \in 1..Len(backlog[s]) /\ Head(backlog[s]) = backlog[s][1]
        /\ Head(backlog[s]) \in Clients
        /\ Len(Tail(backlog[s])) = Len(backlog[s]) - 1
        /\ \A x \in 1..Len(Tail(backlog[s])) :
               x + 1 \in 1..Len(backlog[s]) /\ Tail(backlog[s])[x] = backlog[s][x + 1]
    BY <1>0, <1>2 DEF Accept
  <2>2. to[Head(backlog[s])] = s /\ \A x \in 1..Len(Tail(backlog[s])) : to[Tail(backlog[s])[x]] = s
    BY <2>1
  <2>3. \A t \in Servers : \A x \in 1..Len(backlog'[t]) : to[backlog'[t][x]] = t
    BY <1>0, <1>2, <2>2 DEF Accept
  <2>4. UNCHANGED <<to, client>>
    BY <1>2 DEF Accept
  <2>5. peer' = [peer EXCEPT ![s] = Head(backlog[s])] /\ server' = [server EXCEPT ![s] = "write"]
    BY <1>2 DEF Accept, At
  <2> QED
    BY <1>0, <2>1, <2>2, <2>3, <2>4, <2>5
<1>3. ASSUME NEW s \in Servers, Write(s) \/ Read(s) PROVE LinkInv'
  BY <1>0, <1>3 DEF Write, Read, ReadFails, NextRequest, At
<1>4. ASSUME NEW c \in Clients, Connect(c) PROVE LinkInv'
  <2>1. CASE UNCHANGED <<to, backlog>>
    BY <1>0, <1>4, <2>1 DEF Connect, ClientAt
  <2>2. CASE ~UNCHANGED <<to, backlog>>
    <3>1. /\ to[c] = 0 /\ name \in Servers /\ to' = [to EXCEPT ![c] = name]
          /\ backlog' = [backlog EXCEPT ![name] = Append(backlog[name], c)]
          /\ client' = [client EXCEPT ![c] = "read"] /\ UNCHANGED <<server, peer>>
      BY <1>0, <1>4, <2>2 DEF Connect, ClientAt
    <3>2. \A s \in Servers : peer[s] # c
      BY <3>1
    <3>3. ASSUME NEW s \in Servers, NEW x \in 1..Len(backlog'[s]) PROVE to'[backlog'[s][x]] = s
      <4>1. \A y \in 1..Len(backlog[s]) : backlog[s][y] \in Clients /\ backlog[s][y] # c
        BY <1>0, <3>1
      <4>2. CASE s # name
        BY <1>0, <3>1, <3>3, <4>1, <4>2
      <4>3. CASE s = name
        <5>1. backlog'[s] = Append(backlog[s], c) /\ backlog[s] \in Seq(Clients)
          BY <1>0, <3>1, <4>3
        <5>2. \/ backlog'[s][x] = c
              \/ x \in 1..Len(backlog[s]) /\ backlog'[s][x] = backlog[s][x]
          BY <3>3, <5>1
        <5>3. CASE backlog'[s][x] = c
          BY <1>0, <3>1, <4>3, <5>3
        <5>4. CASE x \in 1..Len(backlog[s]) /\ backlog'[s][x] = backlog[s][x]
          <6>1. to[backlog[s][x]] = s
            BY <5>4
          <6> QED
            BY <1>0, <3>1, <4>1, <5>4, <6>1
        <5> QED
          BY <5>2, <5>3, <5>4
      <4> QED
        BY <4>2, <4>3
    <3> QED
      BY <1>0, <3>1, <3>2, <3>3
  <2> QED
    BY <2>1, <2>2
<1>5. ASSUME NEW c \in Clients, ClientRead(c) \/ Act(c) \/ ExAct(c) \/ ClientWrite(c) \/ KillClient(c)
      PROVE  LinkInv'
  BY <1>0, <1>5 DEF ClientRead, Act, ExAct, ClientWrite, KillClient, ClientAt
<1>6. CASE UNCHANGED vars
  BY <1>6 DEF vars
<1> QED
  BY <1>1, <1>2, <1>3, <1>4, <1>5, <1>6 DEF Next, Serve, Answer

-----------------------------------------------------------------------------
\* A client becomes accepted once, with nothing said, and stays it.
LEMMA UnheardStep == TypeOK /\ LinkInv /\ UnheardInv /\ [Next]_vars => UnheardInv'
<1> SUFFICES ASSUME TypeOK, LinkInv, UnheardInv, [Next]_vars PROVE UnheardInv'
    OBVIOUS
<1> USE LockStepAssumption DEF UnheardInv, Accepted, Over, servers, clients, streams
<1>0. /\ peer \in [Servers -> Clients \cup {0}] /\ to \in [Clients -> Servers \cup {0}]
      /\ client \in [Clients -> {"connect", "read", "act", "write"} \cup Over]
      /\ down \in [Clients -> Seq(Request)] /\ up \in [Clients -> Seq(Request \cup {0})]
      /\ name \in Servers \cup {0}
      /\ \A c \in Clients : (client[c] = "connect" => to[c] = 0)
      /\ \A s \in Servers : peer[s] # 0 => to[peer[s]] = s
      /\ \A s \in Servers : server[s] \in Talking => peer[s] # 0
      /\ \A s \in Servers : server[s] = "accept" => peer[s] = 0
  BY DEF TypeOK, LinkInv
<1>1. ASSUME UNCHANGED <<peer, clients, streams>> PROVE UnheardInv'
  BY <1>1
<1>2. ASSUME NEW s \in Servers,
             Unlink(s) \/ Bind(s) \/ Listen(s) \/ Finish(s) \/ KillServer(s)
      PROVE  UnheardInv'
  BY <1>1, <1>2 DEF Unlink, Bind, Listen, Finish, KillServer
<1>3. ASSUME NEW s \in Servers, Accept(s) PROVE UnheardInv'
  <2>1. \A c \in Clients : to[c] # 0 /\ peer[to[c]] = c => peer'[to[c]] = c
    BY <1>0, <1>3 DEF Accept
  <2> QED
    BY <1>0, <1>3, <2>1 DEF Accept
<1>4. ASSUME NEW s \in Servers, Write(s) \/ Read(s) PROVE UnheardInv'
  <2>1. Accepted(peer[s]) /\ UNCHANGED <<peer, clients>>
    BY <1>0, <1>4 DEF Write, Read, Talking
  <2>2. \A c \in Clients : c # peer[s] => down'[c] = down[c] /\ up'[c] = up[c]
    BY <1>0, <1>4 DEF Write, Read
  <2> QED
    BY <2>1, <2>2
<1>5. ASSUME NEW c \in Clients, Connect(c) PROVE UnheardInv'
  <2>1. to[c] = 0 /\ client'[c] \in {"read", "failed"} /\ UNCHANGED <<peer, streams>>
    BY <1>0, <1>5 DEF Connect, ClientAt
  <2>2. \A b \in Clients : b # c => client'[b] = client[b] /\ to'[b] = to[b]
    BY <1>0, <1>5 DEF Connect, ClientAt
  <2> QED
    BY <2>1, <2>2
<1>6. ASSUME NEW c \in Clients,
             ClientRead(c) \/ Act(c) \/ ExAct(c) \/ ClientWrite(c) \/ KillClient(c)
      PROVE  UnheardInv'
  <2>1. UNCHANGED <<peer, to>>
    BY <1>6 DEF ClientRead, Act, ExAct, ClientWrite, KillClient
  <2>2. \A b \in Clients : b # c => client'[b] = client[b] /\ down'[b] = down[b] /\ up'[b] = up[b]
    BY <1>0, <1>6 DEF ClientRead, Act, ExAct, ClientWrite, KillClient, ClientAt
  <2>3. ~Accepted(c) => client'[c] \in {"failed", "killed"} /\ down'[c] = down[c] /\ up'[c] = up[c]
    <3> SUFFICES ASSUME ~Accepted(c)
                 PROVE client'[c] \in {"failed", "killed"} /\ down'[c] = down[c] /\ up'[c] = up[c]
      OBVIOUS
    <3>1. CASE KillClient(c)
      BY <1>0, <3>1 DEF KillClient, ClientAt
    <3>2. CASE ClientRead(c)
      <4>1. down[c] = <<>> /\ to[c] # 0
        BY <3>2 DEF ClientRead, LinkInv
      <4> QED
        BY <1>0, <3>2, <4>1 DEF ClientRead, ClientAt
    <3> QED
      BY <1>6, <3>1, <3>2 DEF Act, ExAct, ClientWrite
  <2> QED
    BY <2>1, <2>2, <2>3
<1>7. CASE UNCHANGED vars
  BY <1>1, <1>7 DEF vars
<1> QED
  BY <1>2, <1>3, <1>4, <1>5, <1>6, <1>7 DEF Next, Serve, Answer

-----------------------------------------------------------------------------
\* What the steps of the turns and requests are proved from.
Base ==
    /\ server \in [Servers -> {"start", "bind", "listen", "accept", "sleep"} \cup Talking \cup Over]
    /\ peer \in [Servers -> Clients \cup {0}] /\ to \in [Clients -> Servers \cup {0}]
    /\ client \in [Clients -> {"connect", "read", "act", "write"} \cup Over]
    /\ down \in [Clients -> Seq(Request)] /\ up \in [Clients -> Seq(Request \cup {0})]
    /\ i \in [Servers -> Request] /\ buffer \in [Clients -> Request \cup {0}]
    /\ \A s \in Servers : server[s] \in Talking => peer[s] \in Clients /\ to[peer[s]] = s
    /\ \A c \in Clients : client[c] = "connect" => to[c] = 0
    /\ \A c \in Clients : client[c] \in {"read", "act", "write"} => to[c] \in Servers
    /\ \A c \in Clients : client[c] \in {"act", "write", "ended"} => Accepted(c)

LEMMA BaseHolds == TypeOK /\ LinkInv /\ UnheardInv => Base
<1> SUFFICES ASSUME TypeOK, LinkInv, UnheardInv PROVE Base
    OBVIOUS
<1>1. \A s \in Servers : server[s] \in Talking => peer[s] \in Clients /\ to[peer[s]] = s
  BY DEF TypeOK, LinkInv
<1>2. \A c \in Clients : client[c] \in {"read", "act", "write"} => to[c] \in Servers
  BY DEF TypeOK, LinkInv
<1>3. \A c \in Clients : client[c] \in {"act", "write", "ended"} => Accepted(c)
  BY DEF UnheardInv
<1> QED
  BY <1>1, <1>2, <1>3 DEF TypeOK, LinkInv, Base

\* A server that leaves its turns alone, while the clients do.
LEMMA TurnFrame ==
    ASSUME TurnInv, UNCHANGED <<peer, i, clients, streams>>,
           \A s \in Servers : server'[s] \in Talking => server'[s] = server[s]
    PROVE  TurnInv'
BY DEF TurnInv, Turn, Talking, clients, streams

\* A step of client c that matters to the server it is connected to only.
LEMMA TurnLocal ==
    ASSUME Base, TurnInv, NEW c \in Clients, UNCHANGED <<server, i, peer>>,
           \A b \in Clients : b # c => client'[b] = client[b] /\ down'[b] = down[b] /\ up'[b] = up[b],
           \A s \in Servers : s = to[c] /\ server[s] \in Talking /\ peer[s] = c => Turn(s, c)'
    PROVE  TurnInv'
<1> SUFFICES ASSUME NEW s \in Servers, server[s] \in Talking PROVE Turn(s, peer[s])'
  BY DEF TurnInv, Turn, Talking
<1>1. peer[s] \in Clients /\ to[peer[s]] = s
  BY DEF Base
<1>2. CASE peer[s] = c
  BY <1>1, <1>2 DEF Turn
<1>3. CASE peer[s] # c
  BY <1>1, <1>3 DEF TurnInv, Turn
<1> QED
  BY <1>2, <1>3

\* Requests and answers alternate.
LEMMA TurnStep ==
    TypeOK /\ LinkInv /\ Base /\ UnheardInv /\ TurnInv /\ RequestInv /\ [Next]_vars => TurnInv'
<1> SUFFICES ASSUME TypeOK, LinkInv, Base, UnheardInv, TurnInv, RequestInv, [Next]_vars PROVE TurnInv'
    OBVIOUS
<1> USE LockStepAssumption DEF Talking, Over, servers, clients, streams
<1>1. ASSUME NEW s \in Servers,
             Unlink(s) \/ Bind(s) \/ Listen(s) \/ Finish(s) \/ KillServer(s)
      PROVE  TurnInv'
  <2>1. \A t \in Servers : server'[t] \in Talking => server'[t] = server[t]
    BY <1>1 DEF Base, Unlink, Bind, Listen, Finish, KillServer, At
  <2>2. UNCHANGED <<peer, i, clients, streams>>
    BY <1>1 DEF Unlink, Bind, Listen, Finish, KillServer
  <2> QED
    BY <2>1, <2>2, TurnFrame
<1>2. ASSUME NEW s \in Servers, Accept(s) PROVE TurnInv'
  <2> DEFINE c == Head(backlog[s])
  <2>1. backlog[s] \in Seq(Clients) /\ backlog[s] # <<>> /\ peer[s] = 0
    BY <1>2 DEF Accept, TypeOK, LinkInv
  <2>2. c \in Clients /\ c = backlog[s][1] /\ 1 \in 1..Len(backlog[s])
    BY <2>1
  <2>3. to[c] = s
    BY <2>2 DEF LinkInv
  <2>4. down[c] = <<>> /\ up[c] = <<>> /\ client[c] \notin {"act", "write"}
    BY <2>1, <2>2, <2>3 DEF UnheardInv, Accepted
  <2>5. /\ peer'[s] = c /\ server'[s] = "write" /\ UNCHANGED <<i, clients, streams>>
        /\ \A t \in Servers : t # s => server'[t] = server[t] /\ peer'[t] = peer[t]
    BY <1>2 DEF Accept, At, Base
  <2> HIDE DEF c
  <2> QED
    BY <2>4, <2>5 DEF TurnInv, Turn
<1>3. ASSUME NEW s \in Servers, Write(s) PROVE TurnInv'
  <2> DEFINE c == peer[s]
  <2>1. /\ c \in Clients /\ to[c] = s
        /\ down[c] = <<>> /\ up[c] = <<>> /\ client[c] \notin {"act", "write"}
    BY <1>3 DEF Base, TurnInv, Turn, Write
  <2>2. /\ UNCHANGED <<peer, i, clients, up>>
        /\ \A t \in Servers : t # s => server'[t] = server[t]
        /\ server'[s] = "killed" \/ (server'[s] = "read" /\ down'[c] = <<i[s]>>)
        /\ \A b \in Clients : b # c => down'[b] = down[b]
    BY <1>3, <2>1 DEF Write, At, Base
  <2>3. \A t \in Servers : t # s /\ server[t] \in Talking => peer[t] \in Clients /\ peer[t] # c
    BY <2>1 DEF Base
  <2> QED
    BY <2>1, <2>2, <2>3 DEF TurnInv, Turn
<1>4. ASSUME NEW s \in Servers, Read(s) PROVE TurnInv'
  <2> DEFINE c == peer[s]
  <2>1. c \in Clients /\ to[c] = s /\ up[c] \in Seq(Request \cup {0})
    BY <1>4 DEF Base, Read
  <2>2. \/ down[c] = <<i[s]>> /\ up[c] = <<>> /\ client[c] \notin {"act", "write"}
        \/ down[c] = <<>> /\ up[c] = <<>> /\ client[c] # "read"
        \/ down[c] = <<>> /\ up[c] = <<i[s]>> /\ client[c] \notin {"act", "write"}
    BY <1>4 DEF TurnInv, Turn, Read
  <2>3. server'[s] = "write" => down[c] = <<>> /\ up'[c] = <<>> /\ client[c] \notin {"act", "write"}
    <3>1. CASE up[c] # <<>>
      <4>1. up'[c] = Tail(up[c])
        BY <1>4, <2>1, <3>1 DEF Read, Base
      <4>2. down[c] = <<>> /\ up[c] = <<i[s]>> /\ client[c] \notin {"act", "write"}
        BY <2>2, <3>1
      <4> QED
        BY <4>1, <4>2
    <3>2. CASE up[c] = <<>>
      BY <1>4, <2>1, <2>2, <3>2 DEF Read, ReadFails, At, Base
    <3> QED
      BY <3>1, <3>2
  <2>4. /\ server'[s] \in {"write", "sleep", "failed"} /\ UNCHANGED <<peer, clients, down>>
        /\ \A t \in Servers : t # s => server'[t] = server[t] /\ i'[t] = i[t]
        /\ \A b \in Clients : b # c => up'[b] = up[b]
    BY <1>4, <2>1 DEF Read, ReadFails, NextRequest, At, Base
  <2>5. \A t \in Servers : t # s /\ server[t] \in Talking => peer[t] \in Clients /\ peer[t] # c
    BY <2>1 DEF Base
  <2> QED
    BY <2>3, <2>4, <2>5 DEF TurnInv, Turn
<1>5. ASSUME NEW c \in Clients, Connect(c) PROVE TurnInv'
  <2>1. to[c] = 0 /\ UNCHANGED <<server, i, peer, streams>>
    BY <1>5 DEF Connect, Base
  <2>2. \A b \in Clients : b # c => client'[b] = client[b] /\ down'[b] = down[b] /\ up'[b] = up[b]
    BY <1>5 DEF Connect, ClientAt, Base
  <2>3. to[c] \notin Servers
    BY <2>1
  <2> QED
    BY <2>1, <2>2, <2>3, TurnLocal
<1>6. ASSUME NEW c \in Clients, ClientRead(c) PROVE TurnInv'
  <2>1. UNCHANGED <<server, i, peer>>
    BY <1>6 DEF ClientRead
  <2>2. \A b \in Clients : b # c => client'[b] = client[b] /\ down'[b] = down[b] /\ up'[b] = up[b]
    BY <1>6 DEF ClientRead, ClientAt, Base
  <2>3. ASSUME NEW s \in Servers, s = to[c], server[s] \in Talking, peer[s] = c PROVE Turn(s, c)'
    <3>1. down[c] # <<>> /\ up' = up /\ down'[c] = Tail(down[c]) /\ client'[c] = "act"
      BY <1>6, <2>3 DEF ClientRead, ClientAt, Base
    <3>2. server[s] = "read" /\ down[c] = <<i[s]>> /\ up[c] = <<>>
      BY <2>3, <3>1 DEF TurnInv, Turn
    <3> QED
      BY <3>1, <3>2, <2>1 DEF Turn
  <2> QED
    BY <2>1, <2>2, <2>3, TurnLocal
<1>7. ASSUME NEW c \in Clients, Act(c) \/ ExAct(c) \/ KillClient(c) PROVE TurnInv'
  <2>1. UNCHANGED <<server, i, peer, streams>>
    BY <1>7 DEF Act, ExAct, KillClient
  <2>2. \A b \in Clients : b # c => client'[b] = client[b]
    BY <1>7 DEF Act, ExAct, KillClient, ClientAt, Base
  <2>3. /\ client'[c] \in {"write", "failed", "ended", "killed"}
        /\ client'[c] = "write" => client[c] = "act"
    BY <1>7 DEF Act, ExAct, KillClient, ClientAt, Base
  <2>4. ASSUME NEW s \in Servers, s = to[c], server[s] \in Talking, peer[s] = c PROVE Turn(s, c)'
    BY <2>1, <2>3, <2>4 DEF TurnInv, Turn
  <2> QED
    BY <2>1, <2>2, <2>4, TurnLocal
<1>8. ASSUME NEW c \in Clients, ClientWrite(c) PROVE TurnInv'
  <2>1. UNCHANGED <<server, i, peer, down>>
    BY <1>8 DEF ClientWrite
  <2>2. \A b \in Clients : b # c => client'[b] = client[b] /\ up'[b] = up[b]
    BY <1>8 DEF ClientWrite, ClientAt, Base
  <2>3. ASSUME NEW s \in Servers, s = to[c], server[s] \in Talking, peer[s] = c PROVE Turn(s, c)'
    <3>1. server[s] = "read" /\ down[c] = <<>> /\ up[c] = <<>>
      BY <1>8, <2>3 DEF ClientWrite, TurnInv, Turn
    <3>2. buffer[c] = i[s]
      BY <1>8, <2>3 DEF ClientWrite, RequestInv, Asked
    <3>3. up'[c] = Append(up[c], buffer[c]) /\ client'[c] \in {"read", "ended"}
      BY <1>8, <2>3 DEF ClientWrite, ClientAt, Base
    <3> QED
      BY <2>1, <3>1, <3>2, <3>3 DEF Turn
  <2> QED
    BY <2>1, <2>2, <2>3, TurnLocal
<1>9. CASE UNCHANGED vars
  BY <1>9, TurnFrame DEF vars
<1> QED
  BY <1>1, <1>2, <1>3, <1>4, <1>5, <1>6, <1>7, <1>8, <1>9 DEF Next, Serve, Answer

-----------------------------------------------------------------------------
\* A step of client c alone.
LEMMA RequestLocal ==
    ASSUME RequestInv, NEW c \in Clients, UNCHANGED <<server, i>>,
           \A b \in Clients : b # c =>
               /\ client'[b] = client[b] /\ to'[b] = to[b] /\ buffer'[b] = buffer[b]
               /\ isRunning'[b] = isRunning[b] /\ down'[b] = down[b],
           Asked(c)'
    PROVE  RequestInv'
BY DEF RequestInv, Asked

\* A step of a server that leaves its counter and the requests alone.
LEMMA RequestFrame ==
    ASSUME RequestInv, UNCHANGED <<i, clients, down>>,
           \A s \in Servers : server[s] \in Over => server'[s] \in Over,
           \A c \in Clients : client[c] \in {"act", "write"} => to[c] \in Servers
    PROVE  RequestInv'
BY DEF RequestInv, Asked, clients

\* A request is carried out as it was sent.
LEMMA RequestStep ==
    TypeOK /\ LinkInv /\ Base /\ UnheardInv /\ TurnInv /\ RequestInv /\ [Next]_vars => RequestInv'
<1> SUFFICES ASSUME TypeOK, LinkInv, Base, UnheardInv, TurnInv, RequestInv, [Next]_vars PROVE RequestInv'
    OBVIOUS
<1> USE LockStepAssumption DEF Over, servers, clients, streams
<1>0. \A c \in Clients : client[c] \in {"act", "write"} => to[c] \in Servers
  BY DEF Base
<1>1. ASSUME NEW s \in Servers,
             Unlink(s) \/ Bind(s) \/ Listen(s) \/ Accept(s) \/ Finish(s) \/ KillServer(s)
      PROVE  RequestInv'
  <2>1. \A t \in Servers : server[t] \in Over => server'[t] \in Over
    BY <1>1 DEF Base, Unlink, Bind, Listen, Accept, Finish, KillServer, At
  <2>2. UNCHANGED <<i, clients, down>>
    BY <1>1 DEF Unlink, Bind, Listen, Accept, Finish, KillServer
  <2> QED
    BY <1>0, <2>1, <2>2, RequestFrame
<1>2. ASSUME NEW s \in Servers, Write(s) PROVE RequestInv'
  <2> DEFINE c == peer[s]
  <2>1. /\ c \in Clients /\ to[c] = s /\ down[c] = <<>>
        /\ client[c] \notin {"act", "write"} /\ server[s] = "write"
    BY <1>2 DEF Base, TurnInv, Turn, Write, Talking
  <2>2. CASE down' = down
    <3>1. \A t \in Servers : server[t] \in Over => server'[t] \in Over
      BY <1>2, <2>1 DEF Base, Write, At
    <3> QED
      BY <1>0, <1>2, <2>2, <3>1, RequestFrame DEF Write
  <2>3. CASE down' = [down EXCEPT ![c] = Append(@, i[s])]
    <3>1. down'[c] = <<i[to[c]]>> /\ \A b \in Clients : b # c => down'[b] = down[b]
      BY <2>1, <2>3 DEF Base
    <3>2. \A t \in Servers : server[t] \in Over => server'[t] \in Over
      BY <1>2, <2>1 DEF Base, Write, At
    <3>3. UNCHANGED <<i, clients>>
      BY <1>2 DEF Write
    <3> QED
      BY <1>0, <2>1, <3>1, <3>2, <3>3 DEF RequestInv, Asked
  <2> QED
    BY <1>2, <2>2, <2>3 DEF Write
<1>3. ASSUME NEW s \in Servers, Read(s) PROVE RequestInv'
  <2> DEFINE c == peer[s]
  <2>1. c \in Clients /\ to[c] = s /\ server[s] = "read"
    BY <1>3 DEF Base, Read, Talking
  <2>2. UNCHANGED <<clients, down>> /\ \A t \in Servers : t # s => i'[t] = i[t]
    BY <1>3 DEF Read, ReadFails, NextRequest, Base
  <2>3. \A t \in Servers : server[t] \in Over => server'[t] \in Over
    BY <1>3, <2>1 DEF Base, Read, ReadFails, NextRequest, At
  <2>4. CASE i' = i
    BY <1>0, <2>2, <2>3, <2>4, RequestFrame
  <2>5. CASE i' # i
    <3>1. /\ i[s] # 3
          /\ up[c] # <<>> \/ (up[c] = <<>> /\ client[c] \in Over /\ down[c] = <<>>)
      BY <1>3, <2>5 DEF Read, ReadFails, NextRequest, Base
    <3>2. down[c] = <<>> /\ client[c] \notin {"act", "write"}
      BY <2>1, <3>1 DEF TurnInv, Turn
    <3>3. client[c] # "ended"
      BY <2>1, <3>1 DEF RequestInv, Asked
    <3>4. \A b \in Clients : to[b] = s => down[b] = <<>> /\ client[b] \notin {"act", "write", "ended"}
      BY <3>2, <3>3 DEF UnheardInv, Accepted
    <3>5. \A b \in Clients : to[b] # s =>
              /\ down[b] # <<>> => i'[to[b]] = i[to[b]]
              /\ client[b] \in {"act", "write", "ended"} => i'[to[b]] = i[to[b]]
      BY <2>2 DEF UnheardInv, Accepted, Base
    <3>6. ASSUME NEW b \in Clients PROVE Asked(b)'
      <4>1. Asked(b)
        BY DEF RequestInv
      <4> QED
        BY <1>0, <2>2, <2>3, <3>4, <3>5, <4>1 DEF Asked
    <3> QED
      BY <3>6 DEF RequestInv
  <2> QED
    BY <2>4, <2>5
<1>4. ASSUME NEW c \in Clients, Connect(c) PROVE RequestInv'
  <2>1. down[c] = <<>> /\ isRunning[c]
    BY <1>4 DEF Connect, Base, UnheardInv, Accepted, RequestInv, Asked
  <2>2. client'[c] \in {"read", "failed"} /\ UNCHANGED <<server, i, isRunning, buffer, down>>
    BY <1>4 DEF Connect, ClientAt, Base
  <2>3. \A b \in Clients : b # c => client'[b] = client[b] /\ to'[b] = to[b]
    BY <1>4 DEF Connect, ClientAt, Base
  <2>4. Asked(c)'
    BY <2>1, <2>2 DEF Asked
  <2> QED
    BY <2>2, <2>3, <2>4, RequestLocal
<1>5. ASSUME NEW c \in Clients, ClientRead(c) PROVE RequestInv'
  <2>1. UNCHANGED <<server, i, to, isRunning>> /\ isRunning[c]
    BY <1>5 DEF ClientRead, RequestInv, Asked
  <2>2. \A b \in Clients : b # c =>
            client'[b] = client[b] /\ buffer'[b] = buffer[b] /\ down'[b] = down[b]
    BY <1>5 DEF ClientRead, ClientAt, Base
  <2>3. CASE down[c] # <<>>
    <3>1. down[c] = <<i[to[c]]>>
      BY <2>3 DEF RequestInv, Asked
    <3>2. /\ client'[c] = "act" /\ buffer'[c] = Head(down[c]) /\ down'[c] = Tail(down[c])
      BY <1>5, <2>3 DEF ClientRead, ClientAt, Base
    <3>3. buffer'[c] = i[to[c]] /\ down'[c] = <<>>
      BY <3>1, <3>2
    <3>4. i[to[c]] # 0
      <4>1. to[c] \in Servers /\ i \in [Servers -> Request]
        BY <1>5 DEF ClientRead, Base
      <4> QED
        BY <4>1 DEF Request
    <3>5. Asked(c)'
      BY <2>1, <3>2, <3>3, <3>4 DEF Asked
    <3> QED
      BY <2>1, <2>2, <3>5, RequestLocal
  <2>4. CASE down[c] = <<>>
    <3>1. /\ server[to[c]] \in Over /\ down'[c] = <<>>
          /\ client'[c] = "failed" \/ (client'[c] = "act" /\ buffer'[c] = 0)
      BY <1>5, <2>4 DEF ClientRead, ClientAt, Base
    <3>2. Asked(c)'
      BY <2>1, <3>1 DEF Asked
    <3> QED
      BY <2>1, <2>2, <3>2, RequestLocal
  <2> QED
    BY <2>3, <2>4
<1>6. ASSUME NEW c \in Clients, Act(c) PROVE RequestInv'
  <2>1. UNCHANGED <<server, i, to, buffer, down>>
    BY <1>6 DEF Act
  <2>2. \A b \in Clients : b # c => client'[b] = client[b] /\ isRunning'[b] = isRunning[b]
    BY <1>6 DEF Act, ClientAt, Base, TypeOK
  <2>3. /\ client[c] = "act" /\ client'[c] = "write"
        /\ ~isRunning'[c] => buffer[c] = 3 /\ to[c] \notin ExServers
    <3>1. client[c] = "act" /\ client'[c] = "write"
      BY <1>6 DEF Act, ClientAt, Base
    <3>2. isRunning'[c] = (Command(to[c], buffer[c]) # 3)
      BY <1>6 DEF Act, TypeOK
    <3>3. Command(to[c], buffer[c]) = 3 => buffer[c] = 3 /\ to[c] \notin ExServers
      BY DEF Command
    <3> QED
      BY <3>1, <3>2, <3>3
  <2>4. Asked(c)'
    BY <2>1, <2>3 DEF RequestInv, Asked
  <2> QED
    BY <2>1, <2>2, <2>4, RequestLocal
<1>7. ASSUME NEW c \in Clients, ExAct(c) \/ KillClient(c) PROVE RequestInv'
  <2>1. UNCHANGED <<server, i, to, buffer, isRunning, down>>
    BY <1>7 DEF ExAct, KillClient
  <2>2. \A b \in Clients : b # c => client'[b] = client[b]
    BY <1>7 DEF ExAct, KillClient, ClientAt, Base
  <2>3. Asked(c)'
    <3>1. CASE ExAct(c)
      <4>1. /\ client[c] = "act" /\ client'[c] \in {"failed", "ended", "write"}
            /\ client'[c] = "ended" => buffer[c] = 3 /\ to[c] \notin ExServers
        BY <3>1 DEF ExAct, ClientAt, Base, Command
      <4> QED
        BY <2>1, <4>1 DEF RequestInv, Asked
    <3>2. CASE KillClient(c)
      BY <2>1, <3>2 DEF KillClient, ClientAt, Base, RequestInv, Asked
    <3> QED
      BY <1>7, <3>1, <3>2
  <2> QED
    BY <2>1, <2>2, <2>3, RequestLocal
<1>8. ASSUME NEW c \in Clients, ClientWrite(c) PROVE RequestInv'
  <2>1. UNCHANGED <<server, i, to, buffer, isRunning, down>>
    BY <1>8 DEF ClientWrite
  <2>2. \A b \in Clients : b # c => client'[b] = client[b]
    BY <1>8 DEF ClientWrite, ClientAt, Base
  <2>3. Asked(c)'
    <3>1. client[c] = "write" /\ client'[c] \in {"killed", "read", "ended"}
      BY <1>8 DEF ClientWrite, ClientAt, Base
    <3>2. client'[c] = "read" => isRunning[c]
      BY <1>8 DEF ClientWrite, ClientAt, Base
    <3>3. client'[c] = "ended" => ~isRunning[c]
      BY <1>8 DEF ClientWrite, ClientAt, Base
    <3> QED
      BY <2>1, <3>1, <3>2, <3>3 DEF RequestInv, Asked
  <2> QED
    BY <2>1, <2>2, <2>3, RequestLocal
<1>9. CASE UNCHANGED vars
  BY <1>9 DEF vars, RequestInv, Asked
<1> QED
  BY <1>1, <1>2, <1>3, <1>4, <1>5, <1>6, <1>7, <1>8, <1>9 DEF Next, Serve, Answer

-----------------------------------------------------------------------------
\* The invariant holds at the start.
LEMMA Start == Init => IInv
<1> SUFFICES ASSUME Init PROVE IInv
    OBVIOUS
<1> USE LockStepAssumption DEF Init, ServerInit, ClientInit
<1>1. TypeOK
  BY DEF TypeOK, Request
<1>2. LinkInv
  BY DEF LinkInv, Talking
<1>3. UnheardInv /\ TurnInv /\ RequestInv
  BY DEF UnheardInv, TurnInv, Turn, RequestInv, Asked
<1> QED
  BY <1>1, <1>2, <1>3 DEF IInv

\* Init => IInv and IInv /\ [Next]_vars => IInv': links, turns and requests.
THEOREM Inductive == Spec => []IInv
<1>1. IInv /\ [Next]_vars => IInv'
  BY BaseHolds, TypeOKStep, LinkStep, UnheardStep, TurnStep, RequestStep DEF IInv
<1> QED
  BY Start, <1>1, PTL DEF Spec

\* Server and client stay in step, for any number of either: what a server takes
\* for the pid is the answer to Pid (server.cpp:69-92).
THEOREM StaysInStep == Spec => []InStep
<1>1. IInv => InStep
  BY DEF IInv, TurnInv, Turn, InStep, Talking
<1> QED
  BY Inductive, <1>1, PTL

\* A client that leaves regularly was told to (client.cpp:83-86).
THEOREM LeavesWhenTold == Spec => []QuitsWhenTold
<1>1. IInv => QuitsWhenTold
  BY DEF IInv, RequestInv, Asked, QuitsWhenTold
<1> QED
  BY Inductive, <1>1, PTL
=============================================================================
