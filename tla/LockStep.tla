------------------------------ MODULE LockStep ------------------------------
(***************************************************************************)
(* Labs/lab4: a server that serves one client over a Unix socket.  It      *)
(* sends three requests, Pid, Sleep and Done, and waits for the answer to  *)
(* each; then it removes the socket's name and ends.  Servers and clients  *)
(* may be started and may be killed at any time, and a second server while *)
(* the first is running: it takes the name over.                           *)
(*                                                                         *)
(* The programs of Labs/ex use the same name and so meet those of lab4:    *)
(* ex/server.cpp is as lab4's, ex/Server.cpp writes "sleep" and "done",    *)
(* which no client knows, and ex/client.cpp leaves on Done without an      *)
(* answer and fails on what it does not know.                              *)
(*                                                                         *)
(* A connection is the two streams down (requests) and up (answers).  The  *)
(* end of a process closes its side; writing to a closed side ends the     *)
(* writer (SIGPIPE), reading from one gives 0 bytes, or an error when the  *)
(* peer left something unread or never accepted the connection.            *)
(***************************************************************************)
EXTENDS Naturals, Sequences

CONSTANTS Servers, Clients,     \* the processes that are started
          ExServers, ExClients  \* those among them that run ex/Server.cpp, ex/client.cpp

ASSUME LockStepAssumption == 0 \notin Servers \cup Clients

VARIABLES
    server,    \* control point of each server
    i,         \* its loop counter: 1 Pid, 2 Sleep, 3 Done
    peer,      \* the client it accepted, or 0
    backlog,   \* the clients that it has not accepted
    name,      \* the server that the socket's name leads to, or 0
    client,    \* control point of each client
    to,        \* the server it is connected to, or 0
    buffer,    \* the request it is carrying out: its number, 0 for none
    isRunning, \* its flag
    down, up   \* the requests and the answers under way, by client

servers == <<server, i, peer, backlog>>
clients == <<client, to, buffer, isRunning>>
streams == <<down, up>>
vars    == <<servers, clients, streams, name>>

Over    == {"ended", "failed", "killed"}
Request == 1..3
Talking == {"write", "read"}

ServerInit ==
    /\ server = [s \in Servers |-> "start"] /\ i = [s \in Servers |-> 1]
    /\ peer = [s \in Servers |-> 0] /\ backlog = [s \in Servers |-> <<>>]
    /\ name = 0

ClientInit ==
    /\ client = [c \in Clients |-> "connect"] /\ to = [c \in Clients |-> 0]
    /\ buffer = [c \in Clients |-> 0] /\ isRunning = [c \in Clients |-> TRUE]
    /\ down = [c \in Clients |-> <<>>] /\ up = [c \in Clients |-> <<>>]

Init == ServerInit /\ ClientInit

At(s, p)       == server' = [server EXCEPT ![s] = p]
ClientAt(c, p) == client' = [client EXCEPT ![c] = p]

-----------------------------------------------------------------------------
(* A server *)

\* Whatever name is there, a stale one or another server's, is removed.
Unlink(s) ==
    /\ server[s] = "start" /\ At(s, "bind") /\ name' = 0
    /\ UNCHANGED <<i, peer, backlog, clients, streams>>

\* Another server may have bound the name meanwhile: error_msg() ends the server.
Bind(s) ==
    /\ server[s] = "bind"
    /\ IF name = 0 THEN At(s, "listen") /\ name' = s
                   ELSE At(s, "failed") /\ name' = name
    /\ UNCHANGED <<i, peer, backlog, clients, streams>>

Listen(s) ==
    /\ server[s] = "listen" /\ At(s, "accept")
    /\ UNCHANGED <<i, peer, backlog, clients, streams, name>>

Accept(s) ==
    /\ server[s] = "accept" /\ backlog[s] # <<>> /\ At(s, "write")
    /\ peer' = [peer EXCEPT ![s] = Head(backlog[s])]
    /\ backlog' = [backlog EXCEPT ![s] = Tail(@)]
    /\ UNCHANGED <<i, clients, streams, name>>

\* Mutant: the server does not wait for the answer.
WriteOn(s) ==
    /\ server[s] = "write" /\ client[peer[s]] \notin Over
    /\ At(s, IF i[s] = 3 THEN "read" ELSE "write")
    /\ i' = [i EXCEPT ![s] = IF @ = 3 THEN @ ELSE @ + 1]
    /\ down' = [down EXCEPT ![peer[s]] = Append(@, i[s])]
    /\ UNCHANGED <<peer, backlog, clients, up, name>>

Write(s) ==
    /\ server[s] = "write"
    /\ IF client[peer[s]] \in Over
       THEN At(s, "killed") /\ down' = down
       ELSE At(s, "read") /\ down' = [down EXCEPT ![peer[s]] = Append(@, i[s])]
    /\ UNCHANGED <<i, peer, backlog, clients, up, name>>

\* Where an answer, or none from a client that is gone, leads to.
NextRequest(s) ==
    /\ At(s, IF i[s] = 3 THEN "sleep" ELSE "write")
    /\ i' = [i EXCEPT ![s] = IF @ = 3 THEN @ ELSE @ + 1]

\* Mutant: only an answer ends the waiting.
ReadWaits(s) ==
    /\ server[s] = "read" /\ up[peer[s]] # <<>>
    /\ NextRequest(s) /\ up' = [up EXCEPT ![peer[s]] = Tail(@)]
    /\ UNCHANGED <<peer, backlog, clients, down, name>>

\* A read() that fails ends the server; only ex/Server.cpp removes the name then.
ReadFails(s) ==
    /\ At(s, "failed") /\ i' = i
    /\ name' = IF s \in ExServers THEN 0 ELSE name

Read(s) ==
    /\ server[s] = "read"
    /\ \/ /\ up[peer[s]] # <<>>
          /\ NextRequest(s) /\ up' = [up EXCEPT ![peer[s]] = Tail(@)] /\ name' = name
       \/ /\ up[peer[s]] = <<>> /\ client[peer[s]] \in Over /\ up' = up
          /\ IF down[peer[s]] = <<>> THEN NextRequest(s) /\ name' = name ELSE ReadFails(s)
    /\ UNCHANGED <<peer, backlog, clients, down>>

\* sleep(3), unlink() and close(): the name goes, whosever it is now.
Finish(s) ==
    /\ server[s] = "sleep" /\ At(s, "ended") /\ name' = 0
    /\ UNCHANGED <<i, peer, backlog, clients, streams>>

KillServer(s) ==
    /\ server[s] \notin Over \cup {"start"} /\ At(s, "killed")
    /\ UNCHANGED <<i, peer, backlog, clients, streams, name>>

-----------------------------------------------------------------------------
(* A client *)

\* connect() fails when there is no name or nobody listens behind it.
Connect(c) ==
    /\ client[c] = "connect"
    /\ IF name # 0 /\ server[name] \notin Over \cup {"listen"}
       THEN /\ ClientAt(c, "read") /\ to' = [to EXCEPT ![c] = name]
            /\ backlog' = [backlog EXCEPT ![name] = Append(@, c)]
       ELSE ClientAt(c, "failed") /\ UNCHANGED <<to, backlog>>
    /\ UNCHANGED <<server, i, peer, name, buffer, isRunning, streams>>

\* A connection that was never accepted is reset.
ClientRead(c) ==
    /\ client[c] = "read"
    /\ \/ /\ down[c] # <<>> /\ ClientAt(c, "act")
          /\ buffer' = [buffer EXCEPT ![c] = Head(down[c])]
          /\ down' = [down EXCEPT ![c] = Tail(@)]
       \/ /\ down[c] = <<>> /\ server[to[c]] \in Over /\ down' = down
          /\ IF peer[to[c]] = c /\ up[c] = <<>>
             THEN ClientAt(c, "act") /\ buffer' = [buffer EXCEPT ![c] = 0]
             ELSE ClientAt(c, "failed") /\ buffer' = buffer
    /\ UNCHANGED <<servers, to, isRunning, up, name>>

\* Mutant: the client numbers the commands from one on.
CommandOffByOne(s, k) == IF s \in ExServers /\ k # 1 THEN 0 ELSE k + 1

\* What a client makes of the k-th request of server s: one of the three
\* commands, or 0, none; of the words of ex/Server.cpp only the first is one.
Command(s, k) == IF s \in ExServers /\ k # 1 THEN 0 ELSE k

\* actions(): the answer to Pid is the pid, or what is left of the temporary
\* string; everything else is sent back.
Act(c) ==
    /\ client[c] = "act" /\ c \notin ExClients /\ ClientAt(c, "write")
    /\ isRunning' = [isRunning EXCEPT ![c] = Command(to[c], buffer[c]) # 3]
    /\ UNCHANGED <<servers, to, buffer, streams, name>>

\* ex/client.cpp: Pid and Sleep are answered.
ExAct(c) ==
    /\ client[c] = "act" /\ c \in ExClients
    /\ ClientAt(c, CASE Command(to[c], buffer[c]) = 0 -> "failed"
                     [] Command(to[c], buffer[c]) = 3 -> "ended"
                     [] OTHER -> "write")
    /\ UNCHANGED <<servers, to, buffer, isRunning, streams, name>>

ClientWrite(c) ==
    /\ client[c] = "write"
    /\ IF server[to[c]] \in Over
       THEN ClientAt(c, "killed") /\ up' = up
       ELSE /\ ClientAt(c, IF isRunning[c] THEN "read" ELSE "ended")
            /\ up' = [up EXCEPT ![c] = Append(@, buffer[c])]
    /\ UNCHANGED <<servers, to, buffer, isRunning, down, name>>

KillClient(c) ==
    /\ client[c] \notin Over \cup {"connect"} /\ ClientAt(c, "killed")
    /\ UNCHANGED <<servers, to, buffer, isRunning, streams, name>>

-----------------------------------------------------------------------------
Serve(s) ==
    Unlink(s) \/ Bind(s) \/ Listen(s) \/ Accept(s) \/ Write(s) \/ Read(s) \/ Finish(s)
Answer(c) == ClientRead(c) \/ Act(c) \/ ExAct(c) \/ ClientWrite(c)

Next ==
    \/ \E s \in Servers : Serve(s) \/ KillServer(s)
    \/ \E c \in Clients : Connect(c) \/ Answer(c) \/ KillClient(c)

Spec == Init /\ [][Next]_vars

\* Every process is scheduled again and again; a client need not be started.
FairSpec ==
    /\ Spec
    /\ \A s \in Servers : WF_vars(Serve(s))
    /\ \A c \in Clients : WF_vars(Answer(c))

-----------------------------------------------------------------------------
(* Properties *)

\* Every variable keeps to the values the code's types allow; the loop has
\* three requests.
TypeOK ==
    /\ server \in [Servers -> {"start", "bind", "listen", "accept", "sleep"} \cup Talking \cup Over]
    /\ i \in [Servers -> Request] /\ peer \in [Servers -> Clients \cup {0}]
    /\ backlog \in [Servers -> Seq(Clients)]
    /\ name \in Servers \cup {0}
    /\ client \in [Clients -> {"connect", "read", "act", "write"} \cup Over]
    /\ to \in [Clients -> Servers \cup {0}] /\ buffer \in [Clients -> Request \cup {0}]
    /\ isRunning \in [Clients -> BOOLEAN]
    /\ down \in [Clients -> Seq(Request)] /\ up \in [Clients -> Seq(Request \cup {0})]

\* The two stay in step: one request or answer is under way at most, and it is
\* the one of the server's turn, so that what the server prints as the pid is
\* the answer to Pid (server.cpp:69-92, client.cpp:44-61).
InStep ==
    \A s \in Servers : server[s] \in Talking =>
        LET c == peer[s] IN
            \/ down[c] = <<>> /\ up[c] = <<>>
            \/ server[s] = "read" /\ down[c] = <<i[s]>> /\ up[c] = <<>>
            \/ server[s] = "read" /\ down[c] = <<>> /\ up[c] = <<i[s]>>

\* A client that quits was told to: it leaves regularly at the third request of
\* a server that says Done as the clients know it, never at another one or at
\* the end of a stream (client.cpp:83-86, ex/client.cpp:63-66).
QuitsWhenTold ==
    \A c \in Clients : client[c] = "ended" => i[to[c]] = 3 /\ to[c] \notin ExServers

\* Whoever got a connection comes to an end, whenever the other one dies, also
\* behind a server that serves somebody else, and when neither knows the
\* other's words (client.cpp:44-63, server.cpp:57-100).
EveryoneEnds ==
    /\ \A c \in Clients : to[c] # 0 ~> client[c] \in Over
    /\ \A s \in Servers : peer[s] # 0 ~> server[s] \in Over
=============================================================================
