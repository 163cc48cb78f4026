----------------------------- MODULE Dispatcher -----------------------------
(***************************************************************************)
(* Labs/lab6: three clients and a server on one System V message queue.    *)
(* A client's main thread sends its messages to the server (type 4), in    *)
(* turns for the other two clients; the server's receive thread collects   *)
(* them and its main thread forwards them under the type of the client     *)
(* they are for; a client's receive thread collects what is for it.  At    *)
(* its end the server sends "Quit" to every client and removes the queue.  *)
(*                                                                         *)
(* `Main' and `Recv' are the control points of a process's two threads.    *)
(* Each section under a process's mutex is one push or one front-and-pop   *)
(* on that process's own std::queue, and is one action; size(), which the  *)
(* main threads read without the mutex, is read as what it is.             *)
(***************************************************************************)
EXTENDS Integers, Sequences, SequencesExt

CONSTANTS Started,       \* the clients the user started
          QueueCap,      \* how many messages the message queue holds
          MaxSends,      \* bound: messages each client sends; its loop then turns idly
          MaxFailed,     \* bound: how many failed msgrcv() calls on a removed queue a
                         \* receive thread pushes something for; it then turns idly
          MaxInterrupts  \* bound: how often ctrl-C is pressed

Clients == 1..3
SERVER  == 4

ASSUME DispatcherAssumption ==
    /\ Started \subseteq Clients
    /\ QueueCap \in Nat /\ MaxFailed \in Nat /\ MaxInterrupts \in Nat
    /\ MaxSends \in [Clients -> Nat]

\* A message of client s, its k-th, for client d; the "Quit" for client d; and
\* what a Message variable holds that no call has filled.
ClientMsg(t, s, d, k) == [mtype |-> t, source |-> s, dest |-> d, id |-> k]
Quit(d)  == ClientMsg(d, 0, d, 0)
Garbage  == ClientMsg(0, 0, 0, 0)
Message  == [mtype : 0..SERVER, source : 0..3, dest : 0..3, id : Nat]

VARIABLES
    queue, exists,          \* the message queue, until it is removed
    sMain, sRecv,           \* the server's control points
    sRunning, sMessage,     \* its is_running and its std::queue
    send_Msg,               \* main's message to forward
    recv_Msg,               \* the receive thread's message in hand
    cMain, cRecv,           \* each client's control points
    cRunning, cMessage,     \* its is_running and its std::queue
    dest, msg,              \* main's last destination; the message in hand
    sent,                   \* how many messages it has sent
    arrived,                \* history: the messages its receive thread pushed
    failed,                 \* history: how many of its msgrcv() calls failed
    interrupts              \* counter for the bound

mq         == <<queue, exists>>
serverMain == <<sMain, send_Msg>>
serverRecv == <<sRecv, recv_Msg>>
server     == <<serverMain, serverRecv, sRunning, sMessage>>
clientMain == <<cMain, dest, sent>>
clientRecv == <<cRecv, msg, arrived, failed>>
client     == <<clientMain, clientRecv, cRunning, cMessage>>
vars       == <<mq, server, client, interrupts>>

ServerInit ==
    /\ sMain = "loop" /\ sRecv = "loop" /\ sRunning = TRUE /\ sMessage = <<>>
    /\ send_Msg = Garbage /\ recv_Msg = Garbage

ClientInit ==
    /\ cMain = [c \in Started |-> "loop"] /\ cRecv = [c \in Started |-> "loop"]
    /\ cRunning = [c \in Started |-> TRUE] /\ cMessage = [c \in Started |-> <<>>]
    /\ dest = [c \in Started |-> 0] /\ msg = [c \in Started |-> Garbage]
    /\ sent = [c \in Started |-> 0] /\ arrived = [c \in Started |-> <<>>]
    /\ failed = [c \in Started |-> 0]

\* Whoever comes first creates the queue; the others find it.
Init ==
    /\ queue = <<>> /\ exists = TRUE
    /\ ServerInit /\ ClientInit
    /\ interrupts = 0

-----------------------------------------------------------------------------
(* The message queue *)

\* msgsnd() waits for room; on a queue that was removed it fails.
CanSend == exists => Len(queue) < QueueCap
Send(m) == queue' = IF exists THEN Append(queue, m) ELSE queue

\* msgrcv() takes the first message of the type asked for.
Waiting(t)  == exists /\ \E i \in 1..Len(queue) : queue[i].mtype = t
FirstOf(t)  == CHOOSE i \in 1..Len(queue) :
                   /\ queue[i].mtype = t
                   /\ \A j \in 1..(i - 1) : queue[j].mtype # t

-----------------------------------------------------------------------------
(* The server *)

\* The main loop polls: while is_running is up and nothing is there it changes
\* nothing.
ServerLeave ==
    /\ sMain = "loop" /\ ~sRunning
    /\ sMain' = "quit1"
    /\ UNCHANGED <<mq, serverRecv, sRunning, sMessage, send_Msg, client, interrupts>>

\* One turn of the inner loop, which does not look at is_running: the front of
\* the queue replaces what send_Msg held; received is set.
ServerDrain ==
    /\ sMain = "drain" \/ (sMain = "loop" /\ sRunning)
    /\ sMessage # <<>>
    /\ sMain' = "drain"
    /\ send_Msg' = Head(sMessage) /\ sMessage' = Tail(sMessage)
    /\ UNCHANGED <<mq, serverRecv, sRunning, client, interrupts>>

\* Mutant: the type is the source's, not the destination's.
ServerDrainedBack ==
    /\ sMain = "drain" /\ sMessage = <<>>
    /\ sMain' = "forward" /\ send_Msg' = [send_Msg EXCEPT !.mtype = send_Msg.source]
    /\ UNCHANGED <<mq, serverRecv, sRunning, sMessage, client, interrupts>>

ServerDrained ==
    /\ sMain = "drain" /\ sMessage = <<>>
    /\ sMain' = "forward" /\ send_Msg' = [send_Msg EXCEPT !.mtype = send_Msg.dest]
    /\ UNCHANGED <<mq, serverRecv, sRunning, sMessage, client, interrupts>>

\* Where main goes from a msgsnd(): each client is sent a "Quit", started or not.
AfterSend == [forward |-> "loop", quit1 |-> "quit2", quit2 |-> "quit3", quit3 |-> "join"]
ToSend    == [forward |-> send_Msg, quit1 |-> Quit(1), quit2 |-> Quit(2), quit3 |-> Quit(3)]

ServerSend ==
    /\ sMain \in DOMAIN AfterSend /\ CanSend
    /\ Send(ToSend[sMain]) /\ sMain' = AfterSend[sMain]
    /\ UNCHANGED <<exists, serverRecv, sRunning, sMessage, send_Msg, client, interrupts>>

\* pthread_join(), msgctl(IPC_RMID), return.
ServerRemove ==
    /\ sMain = "join" /\ sRecv = "done"
    /\ sMain' = "ended" /\ queue' = <<>> /\ exists' = FALSE
    /\ UNCHANGED <<serverRecv, sRunning, sMessage, send_Msg, client, interrupts>>

\* The receive thread polls as well: msgrcv() with IPC_NOWAIT fails when there
\* is nothing for the server.
ServerRecv ==
    /\ sRecv = "loop" /\ sRunning /\ Waiting(SERVER)
    /\ sRecv' = "push" /\ recv_Msg' = queue[FirstOf(SERVER)]
    /\ queue' = RemoveAt(queue, FirstOf(SERVER))
    /\ UNCHANGED <<exists, serverMain, sRunning, sMessage, client, interrupts>>

\* Mutant: without IPC_NOWAIT the thread waits for a message.
ServerRecvLeaveWaits ==
    /\ sRecv = "loop" /\ ~sRunning /\ Waiting(SERVER)
    /\ sRecv' = "done"
    /\ UNCHANGED <<mq, serverMain, sRunning, sMessage, recv_Msg, client, interrupts>>

ServerRecvLeave ==
    /\ sRecv = "loop" /\ ~sRunning
    /\ sRecv' = "done"
    /\ UNCHANGED <<mq, serverMain, sRunning, sMessage, recv_Msg, client, interrupts>>

ServerPush ==
    /\ sRecv = "push"
    /\ sRecv' = "loop" /\ sMessage' = Append(sMessage, recv_Msg)
    /\ UNCHANGED <<mq, serverMain, sRunning, recv_Msg, client, interrupts>>

\* SIGINT; sa_flags is 0, so a msgsnd() that main is waiting in is given up.
ServerInterrupt ==
    /\ sMain # "ended" /\ interrupts < MaxInterrupts
    /\ interrupts' = interrupts + 1
    /\ sRunning' = FALSE
    /\ \/ sMain' = sMain
       \/ sMain \in DOMAIN AfterSend /\ ~CanSend /\ sMain' = AfterSend[sMain]
    /\ UNCHANGED <<mq, serverRecv, sMessage, send_Msg, client>>

-----------------------------------------------------------------------------
(* A client *)

ClientLeave(c) ==
    /\ cMain[c] = "loop" /\ ~cRunning[c]
    /\ cMain' = [cMain EXCEPT ![c] = "join"]
    /\ UNCHANGED <<mq, server, clientRecv, cRunning, cMessage, dest, sent, interrupts>>

\* One turn of the inner loop, which does not look at is_running.
InTurn(c) == cMain[c] = "drain" \/ (cMain[c] = "loop" /\ cRunning[c])

ClientPrint(c) ==
    /\ InTurn(c) /\ cMessage[c] # <<>>
    /\ cMain' = [cMain EXCEPT ![c] = "drain"]
    /\ cMessage' = [cMessage EXCEPT ![c] = Tail(@)]
    /\ UNCHANGED <<mq, server, clientRecv, cRunning, dest, sent, interrupts>>

\* Mutant: counts on instead of alternating.
NextDestCounting(c) == dest[c] + 2

\* The other two clients in turn.
NextDest(c) ==
    CASE c = 1 -> IF dest[c] = 2 THEN 3 ELSE 2
      [] c = 2 -> IF dest[c] = 3 THEN 1 ELSE 3
      [] c = 3 -> IF dest[c] = 1 THEN 2 ELSE 1

ClientAddress(c) ==
    /\ InTurn(c) /\ cMessage[c] = <<>>
    /\ IF sent[c] < MaxSends[c]
       THEN /\ cMain' = [cMain EXCEPT ![c] = "send"]
            /\ dest' = [dest EXCEPT ![c] = NextDest(c)]
            /\ sent' = [sent EXCEPT ![c] = @ + 1]
       ELSE cMain' = [cMain EXCEPT ![c] = "loop"] /\ UNCHANGED <<dest, sent>>
    /\ UNCHANGED <<mq, server, clientRecv, cRunning, cMessage, interrupts>>

\* Mutant: a msgsnd() that succeeded may be tried again.
ClientSendAgain(c) ==
    /\ cMain[c] = "send" /\ CanSend
    /\ Send(ClientMsg(SERVER, c, dest[c], sent[c]))
    /\ \E next \in {"send", "loop"} : cMain' = [cMain EXCEPT ![c] = next]
    /\ UNCHANGED <<exists, server, clientRecv, cRunning, cMessage, dest, sent, interrupts>>

ClientSend(c) ==
    /\ cMain[c] = "send" /\ CanSend
    /\ Send(ClientMsg(SERVER, c, dest[c], sent[c]))
    /\ cMain' = [cMain EXCEPT ![c] = "loop"]
    /\ UNCHANGED <<exists, server, clientRecv, cRunning, cMessage, dest, sent, interrupts>>

ClientJoin(c) ==
    /\ cMain[c] = "join" /\ cRecv[c] = "done"
    /\ cMain' = [cMain EXCEPT ![c] = "ended"]
    /\ UNCHANGED <<mq, server, clientRecv, cRunning, cMessage, dest, sent, interrupts>>

ClientRecvLoop(c) ==
    /\ cRecv[c] = "loop"
    /\ cRecv' = [cRecv EXCEPT ![c] = IF cRunning[c] THEN "msgrcv" ELSE "done"]
    /\ UNCHANGED <<mq, server, clientMain, cRunning, cMessage, msg, arrived, failed, interrupts>>

\* msgrcv() waits for a message of the client's type.
ClientRecv(c) ==
    /\ cRecv[c] = "msgrcv" /\ Waiting(c)
    /\ cRecv' = [cRecv EXCEPT ![c] = "handle"]
    /\ msg' = [msg EXCEPT ![c] = queue[FirstOf(c)]]
    /\ queue' = RemoveAt(queue, FirstOf(c))
    /\ UNCHANGED <<exists, server, clientMain, cRunning, cMessage, arrived, failed, interrupts>>

\* A failed msgrcv() is not noticed: msg is then an uninitialised variable of
\* this turn of the loop, in practice what the last turn left on the stack.
ClientRecvFails(c) ==
    /\ cRecv' = [cRecv EXCEPT ![c] = "handle"]
    /\ msg' \in {msg, [msg EXCEPT ![c] = Garbage]}
    /\ failed' = [failed EXCEPT ![c] = @ + 1]

\* On a removed queue every call fails, turn after turn while is_running is up.
ClientRecvRemoved(c) ==
    /\ cRecv[c] = "msgrcv" /\ ~exists
    /\ IF failed[c] < MaxFailed
       THEN ClientRecvFails(c)
       ELSE cRecv' = [cRecv EXCEPT ![c] = "loop"] /\ UNCHANGED <<msg, failed>>
    /\ UNCHANGED <<mq, server, clientMain, cRunning, cMessage, arrived, interrupts>>

IsQuit(m) == m.mtype \in Clients /\ m.source = 0

\* Mutant: at "Quit" the receive thread leaves its loop, the flag stays up.
ClientHandleQuitAlone(c) ==
    /\ cRecv[c] = "handle"
    /\ IF IsQuit(msg[c])
       THEN cRecv' = [cRecv EXCEPT ![c] = "done"] /\ UNCHANGED <<cMessage, arrived>>
       ELSE /\ cRecv' = [cRecv EXCEPT ![c] = "loop"]
            /\ cMessage' = [cMessage EXCEPT ![c] = Append(@, msg[c])]
            /\ arrived' = [arrived EXCEPT ![c] = Append(@, msg[c])]
    /\ UNCHANGED <<mq, server, clientMain, cRunning, msg, failed, interrupts>>

\* Whatever is no "Quit" is pushed, what a failed call left in msg as well.
ClientHandle(c) ==
    /\ cRecv[c] = "handle"
    /\ cRecv' = [cRecv EXCEPT ![c] = "loop"]
    /\ IF IsQuit(msg[c])
       THEN cRunning' = [cRunning EXCEPT ![c] = FALSE] /\ UNCHANGED <<cMessage, arrived>>
       ELSE /\ cMessage' = [cMessage EXCEPT ![c] = Append(@, msg[c])]
            /\ arrived' = [arrived EXCEPT ![c] = Append(@, msg[c])]
            /\ UNCHANGED cRunning
    /\ UNCHANGED <<mq, server, clientMain, msg, failed, interrupts>>

\* SIGINT; the thread the system picks gives up the call it is waiting in.
ClientInterrupt(c) ==
    /\ cMain[c] # "ended" /\ interrupts < MaxInterrupts
    /\ interrupts' = interrupts + 1
    /\ cRunning' = [cRunning EXCEPT ![c] = FALSE]
    /\ \/ UNCHANGED <<clientMain, clientRecv>>
       \/ /\ cMain[c] = "send" /\ ~CanSend
          /\ cMain' = [cMain EXCEPT ![c] = "loop"]
          /\ UNCHANGED <<clientRecv, dest, sent>>
       \/ /\ cRecv[c] = "msgrcv" /\ ~Waiting(c)
          /\ ClientRecvFails(c)
          /\ UNCHANGED <<clientMain, arrived>>
    /\ UNCHANGED <<mq, server, cMessage>>

-----------------------------------------------------------------------------
ServerMain == ServerLeave \/ ServerDrain \/ ServerDrained \/ ServerSend \/ ServerRemove
ServerRecvThread == ServerRecv \/ ServerRecvLeave \/ ServerPush

ClientMain(c) ==
    ClientLeave(c) \/ ClientPrint(c) \/ ClientAddress(c) \/ ClientSend(c) \/ ClientJoin(c)
ClientRecvThread(c) ==
    ClientRecvLoop(c) \/ ClientRecv(c) \/ ClientRecvRemoved(c) \/ ClientHandle(c)

Next ==
    \/ ServerMain \/ ServerRecvThread \/ ServerInterrupt
    \/ \E c \in Started :
           ClientMain(c) \/ ClientRecvThread(c) \/ ClientInterrupt(c)

Spec == Init /\ [][Next]_vars

\* Every thread is scheduled again and again; nobody has to press ctrl-C.
FairSpec ==
    /\ Spec
    /\ WF_vars(ServerMain) /\ WF_vars(ServerRecvThread)
    /\ \A c \in Started : WF_vars(ClientMain(c)) /\ WF_vars(ClientRecvThread(c))

-----------------------------------------------------------------------------
(* Properties *)

\* Every variable keeps to the values the code's types allow.
TypeOK ==
    /\ queue \in Seq(Message) /\ Len(queue) <= QueueCap /\ exists \in BOOLEAN
    /\ sMain \in {"loop", "drain", "join", "ended"} \cup DOMAIN AfterSend
    /\ sRecv \in {"loop", "push", "done"}
    /\ sRunning \in BOOLEAN
    /\ sMessage \in Seq(Message) /\ send_Msg \in Message /\ recv_Msg \in Message
    /\ cMain \in [Started -> {"loop", "drain", "send", "join", "ended"}]
    /\ cRecv \in [Started -> {"loop", "msgrcv", "handle", "done"}]
    /\ cRunning \in [Started -> BOOLEAN]
    /\ cMessage \in [Started -> Seq(Message)] /\ arrived \in [Started -> Seq(Message)]
    /\ dest \in [Started -> 0..3] /\ msg \in [Started -> Message]
    /\ interrupts \in 0..MaxInterrupts
    /\ failed \in [Started -> Nat]
    /\ sent \in [Started -> Nat] /\ \A c \in Started : sent[c] <= MaxSends[c]

LetterOf(m) == [source |-> m.source, dest |-> m.dest, id |-> m.id]
Letters     == [c \in Started |-> [i \in 1..Len(arrived[c]) |-> LetterOf(arrived[c][i])]]
Boxes       == [c \in Started |-> failed[c] = 0]

Mail == INSTANCE Post WITH Clients <- Started, open <- Boxes, got <- Letters

\* Server and clients implement the post that Post describes.  As long as no
\* msgrcv() of a client has failed it is given what was addressed to it, in each
\* sender's order and once; this includes the message that it has in hand when
\* ctrl-C comes or the queue is removed.  Once a call has failed, because ctrl-C
\* ended it or the queue is gone, it is given nothing but what it was given last,
\* again, or nobody's message (server.cpp:46-92, client1.cpp:67-112).
PostSpec == Mail!Spec

\* What one client sends to another arrives in the order it was sent, and once:
\* through the queue twice, the server's two threads and its std::queue, as long
\* as no msgrcv() of the receiving client has failed (server.cpp:46-92).  After
\* that "once" is not true: the loop of client1.cpp:93-104 does not look at the
\* result and pushes its last message again.
InOrderOnce ==
    \A c \in Started : failed[c] = 0 =>
        \A i, j \in 1..Len(arrived[c]) :
            (i < j /\ arrived[c][i].source = arrived[c][j].source)
                => arrived[c][i].id < arrived[c][j].id

\* A client whose receive thread has stopped ends (client1.cpp:67-89), if only
\* there is room in the queue for the message its main thread may be sending.
StoppedClientEnds ==
    \A c \in Started : cRecv[c] = "done" ~> (cMain[c] = "ended" \/ ~CanSend)

\* A server told to stop removes the queue and ends, if there is room for its
\* "Quit" messages (server.cpp:46-74).
ServerStops == ~sRunning ~> (sMain = "ended" \/ ~CanSend)
=============================================================================
