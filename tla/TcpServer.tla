------------------------------ MODULE TcpServer ------------------------------
(***************************************************************************)
(* Labs/lab5: a TCP server with one receive thread per client, and its     *)
(* clients, each with a receive thread of its own.  A client writes one    *)
(* message a second; the server's receive threads push what they read on   *)
(* one queue under a mutex and main prints the queue; at ctrl-C main       *)
(* writes "Quit" to every client.                                          *)
(*                                                                         *)
(* A message is its client and number.  A connection is the two streams    *)
(* up (to the server) and down (to the client).  Polling that finds        *)
(* nothing changes nothing.  A push is two steps, as a thread without the   *)
(* mutex would find it: the end of the queue is looked up, and what is     *)
(* pushed becomes what follows that end.                                   *)
(***************************************************************************)
EXTENDS Integers, Sequences

CONSTANTS MAX_CLIENTS,   \* 3 in server.cpp
          MaxWrites      \* bound: messages each client writes; the next are not counted

ASSUME TcpServerAssumption ==
    /\ MAX_CLIENTS \in Nat \ {0}
    /\ MaxWrites \in [1..MAX_CLIENTS -> Nat]

Clients == 1..MAX_CLIENTS

\* Who holds the mutex, when it is none of the receive threads.
NOBODY == 0
MAIN   == -1

VARIABLES
    sMain,       \* control point of the server's main thread
    reader,      \* of each client's receive thread in the server
    is_running,  \* the server's flag
    mutex,       \* who holds the mutex; a receive thread by its client's number
    num_client,  \* how many clients were accepted
    message,     \* the queue
    told,        \* the clients that "Quit" was written to
    buf,         \* what each receive thread has read and not pushed yet
    end,         \* in a push: the end of the queue as the receive thread found it
    cMain,       \* control point of each client's main thread
    cRecv,       \* of its receive thread
    cRunning,    \* its flag, in which a global variable starts with false
    accepted,    \* the clients whose connection was accepted
    up, down,    \* the streams of each connection
    sent         \* how many messages each client has written

server  == <<sMain, reader, is_running, mutex, num_client, message, told, buf, end,
             accepted>>
client  == <<cMain, cRecv, cRunning, sent>>
streams == <<up, down>>
vars    == <<server, client, streams>>

ServerInit ==
    /\ sMain = "while" /\ reader = [c \in Clients |-> "none"]
    /\ is_running = TRUE /\ mutex = NOBODY /\ num_client = 0 /\ message = <<>>
    /\ told = {} /\ accepted = {}
    /\ buf = [c \in Clients |-> <<>>] /\ end = [c \in Clients |-> 0]

ClientInit ==
    /\ cMain = [c \in Clients |-> "connect"] /\ cRecv = [c \in Clients |-> "none"]
    /\ cRunning = [c \in Clients |-> FALSE] /\ sent = [c \in Clients |-> 0]
    /\ up = [c \in Clients |-> <<>>] /\ down = [c \in Clients |-> <<>>]

Init == ServerInit /\ ClientInit

Dead      == sMain \in {"ended", "failed"}
Ended(c)  == cMain[c] = "ended"
Pending(c) == cMain[c] # "connect" /\ c \notin accepted

-----------------------------------------------------------------------------
(* The server's main thread *)

While ==
    /\ sMain = "while"
    /\ sMain' = IF is_running THEN "accept" ELSE "quit"
    /\ UNCHANGED <<reader, is_running, mutex, num_client, message, told, buf, end,
                   accepted, client, streams>>

\* The inner loop, which does not look at is_running: accept() does not block.
\* Also a client that is gone already is accepted.
Accept(c) ==
    /\ sMain = "accept" /\ num_client < MAX_CLIENTS /\ Pending(c)
    /\ accepted' = accepted \cup {c} /\ num_client' = num_client + 1
    /\ reader' = [reader EXCEPT ![c] = "loop"]
    /\ UNCHANGED <<sMain, is_running, mutex, message, told, buf, end, client, streams>>

AcceptedAll ==
    /\ sMain = "accept" /\ num_client = MAX_CLIENTS /\ mutex = NOBODY
    /\ sMain' = "print" /\ mutex' = MAIN
    /\ UNCHANGED <<reader, is_running, num_client, message, told, buf, end, accepted,
                   client, streams>>

\* printQueue() or sleep(1); clearQueue() clears its copy of the queue.
PrintQueue ==
    /\ sMain = "print"
    /\ sMain' = "while" /\ mutex' = NOBODY
    /\ UNCHANGED <<reader, is_running, num_client, message, told, buf, end, accepted,
                   client, streams>>

Quit(c) ==
    /\ sMain = "quit" /\ c \in accepted \ told
    /\ told' = told \cup {c} /\ down' = [down EXCEPT ![c] = Append(@, "Quit")]
    /\ UNCHANGED <<sMain, reader, is_running, mutex, num_client, message, buf, end,
                   accepted, client, up>>

Join ==
    /\ sMain = "quit" /\ told = accepted /\ \A c \in accepted : reader[c] = "done"
    /\ sMain' = "ended"
    /\ UNCHANGED <<reader, is_running, mutex, num_client, message, told, buf, end,
                   accepted, client, streams>>

-----------------------------------------------------------------------------
(* readThread() *)

\* Mutant: the thread does not look at the flag.
ReaderLoopForever(c) ==
    /\ ~Dead /\ reader[c] = "loop"
    /\ reader' = [reader EXCEPT ![c] = "read"]
    /\ UNCHANGED <<sMain, is_running, mutex, num_client, message, told, buf, end,
                   accepted, client, streams>>

ReaderLoop(c) ==
    /\ ~Dead /\ reader[c] = "loop"
    /\ reader' = [reader EXCEPT ![c] = IF is_running THEN "read" ELSE "done"]
    /\ UNCHANGED <<sMain, is_running, mutex, num_client, message, told, buf, end,
                   accepted, client, streams>>

\* read() returns what there is, or 0 when the client closed its end.
Read(c) ==
    /\ ~Dead /\ reader[c] = "read" /\ (up[c] # <<>> \/ Ended(c))
    /\ reader' = [reader EXCEPT ![c] = "lock"]
    /\ buf' = [buf EXCEPT ![c] = up[c]] /\ up' = [up EXCEPT ![c] = <<>>]
    /\ UNCHANGED <<sMain, is_running, mutex, num_client, message, told, end,
                   accepted, client, down>>

\* SO_RCVTIMEO: a read() that found nothing for five seconds fails, and
\* errorMsg() ends the server.
ReadTimeout(c) ==
    /\ ~Dead /\ reader[c] = "read" /\ up[c] = <<>> /\ ~Ended(c)
    /\ sMain' = "failed"
    /\ UNCHANGED <<reader, is_running, mutex, num_client, message, told, buf, end,
                   accepted, client, streams>>

\* Mutant: the thread does not take the mutex, or not before it is in push().
LockSkipped(c) ==
    /\ ~Dead /\ reader[c] = "lock"
    /\ reader' = [reader EXCEPT ![c] = "push"]
    /\ mutex' = c /\ end' = [end EXCEPT ![c] = Len(message)]
    /\ UNCHANGED <<sMain, is_running, num_client, message, told, buf, accepted,
                   client, streams>>

\* pthread_mutex_lock(), clearQueue(), which clears its copy, and push() up to
\* where it has found the end of the queue.
Lock(c) ==
    /\ ~Dead /\ reader[c] = "lock" /\ mutex = NOBODY
    /\ reader' = [reader EXCEPT ![c] = "push"]
    /\ mutex' = c /\ end' = [end EXCEPT ![c] = Len(message)]
    /\ UNCHANGED <<sMain, is_running, num_client, message, told, buf, accepted,
                   client, streams>>

\* The rest of push(), and unlock.  The empty strings pushed after a client's
\* end are not counted.
Push(c) ==
    /\ ~Dead /\ reader[c] = "push"
    /\ reader' = [reader EXCEPT ![c] = "loop"]
    /\ message' = SubSeq(message, 1, end[c]) \o buf[c]
    /\ buf' = [buf EXCEPT ![c] = <<>>] /\ end' = [end EXCEPT ![c] = 0]
    /\ mutex' = NOBODY
    /\ UNCHANGED <<sMain, is_running, num_client, told, accepted, client, streams>>

\* sigHandler(SIGINT).  sa_flags is 0: when the system gives it to a thread that
\* waits in read(), the read fails and errorMsg() ends the server.
Interrupt ==
    /\ ~Dead
    /\ is_running' = FALSE
    /\ \/ sMain' = sMain
       \/ \E c \in Clients : reader[c] = "read" /\ up[c] = <<>> /\ ~Ended(c) /\ sMain' = "failed"
    /\ UNCHANGED <<reader, mutex, num_client, message, told, buf, end, accepted, client, streams>>

-----------------------------------------------------------------------------
(* A client *)

\* connect() succeeds while the server listens, before it is accepted.
Connect(c) ==
    /\ cMain[c] = "connect"
    /\ cMain' = [cMain EXCEPT ![c] = IF Dead THEN "ended" ELSE "create"]
    /\ UNCHANGED <<server, cRecv, cRunning, sent, streams>>

\* pthread_create(), which may fail.
Create(c) ==
    /\ cMain[c] = "create"
    /\ \/ /\ cMain' = [cMain EXCEPT ![c] = "flag"]
          /\ cRecv' = [cRecv EXCEPT ![c] = "loop"]
       \/ cMain' = [cMain EXCEPT ![c] = "ended"] /\ cRecv' = cRecv
    /\ UNCHANGED <<server, cRunning, sent, streams>>

SetRunning(c) ==
    /\ cMain[c] = "flag"
    /\ cMain' = [cMain EXCEPT ![c] = "loop"]
    /\ cRunning' = [cRunning EXCEPT ![c] = TRUE]
    /\ UNCHANGED <<server, cRecv, sent, streams>>

Write(c) ==
    /\ cMain[c] = "loop" /\ cRunning[c] /\ ~Dead /\ sent[c] < MaxWrites[c]
    /\ sent' = [sent EXCEPT ![c] = @ + 1]
    /\ up' = [up EXCEPT ![c] = Append(@, <<c, sent'[c]>>)]
    /\ UNCHANGED <<server, cMain, cRecv, cRunning, down>>

\* Mutant: the client ignores SIGPIPE, and goes on.
BrokenPipeIgnored(c) ==
    /\ cMain[c] = "loop" /\ cRunning[c] /\ Dead
    /\ UNCHANGED vars

\* Writing to a server that is gone: the SIGPIPE ends the client.
BrokenPipe(c) ==
    /\ cMain[c] = "loop" /\ cRunning[c] /\ Dead
    /\ cMain' = [cMain EXCEPT ![c] = "ended"]
    /\ UNCHANGED <<server, cRecv, cRunning, sent, streams>>

Leave(c) ==
    /\ cMain[c] = "loop" /\ ~cRunning[c]
    /\ cMain' = [cMain EXCEPT ![c] = "ended"]
    /\ UNCHANGED <<server, cRecv, cRunning, sent, streams>>

\* The receive thread tests a flag that main may not have raised yet.
RecvLoop(c) ==
    /\ ~Ended(c) /\ cRecv[c] = "loop"
    /\ cRecv' = [cRecv EXCEPT ![c] = IF cRunning[c] THEN "read" ELSE "done"]
    /\ UNCHANGED <<server, cMain, cRunning, sent, streams>>

\* "Quit"; nothing else is ever written to a client.
RecvQuit(c) ==
    /\ ~Ended(c) /\ cRecv[c] = "read" /\ down[c] # <<>>
    /\ cRecv' = [cRecv EXCEPT ![c] = "loop"] /\ cRunning' = [cRunning EXCEPT ![c] = FALSE]
    /\ down' = [down EXCEPT ![c] = Tail(@)]
    /\ UNCHANGED <<server, cMain, sent, up>>

\* ctrl-C, or the kill of stopClient.sh, on a client.
Kill(c) ==
    /\ cMain[c] \notin {"connect", "ended"}
    /\ cMain' = [cMain EXCEPT ![c] = "ended"]
    /\ UNCHANGED <<server, cRecv, cRunning, sent, streams>>

-----------------------------------------------------------------------------
ServerMain == While \/ AcceptedAll \/ PrintQueue \/ Join \/ \E c \in Clients : Accept(c) \/ Quit(c)
Reader(c)  == ReaderLoop(c) \/ Read(c) \/ ReadTimeout(c) \/ Lock(c) \/ Push(c)
ClientMain(c) == Create(c) \/ SetRunning(c) \/ Write(c) \/ BrokenPipe(c) \/ Leave(c)
ClientRecv(c) == RecvLoop(c) \/ RecvQuit(c)

Next ==
    \/ ServerMain \/ Interrupt
    \/ \E c \in Clients : Reader(c) \/ Connect(c) \/ ClientMain(c) \/ ClientRecv(c) \/ Kill(c)

Spec == Init /\ [][Next]_vars

\* Every thread of the server and of the clients is scheduled again and again;
\* a client need not be started.
FairSpec ==
    /\ Spec /\ WF_vars(ServerMain)
    /\ \A c \in Clients :
           WF_vars(Reader(c)) /\ WF_vars(ClientMain(c)) /\ WF_vars(ClientRecv(c))

-----------------------------------------------------------------------------
(* Properties *)

\* A client's messages after the a-th, up to the b-th.
Run(c, a, b) == [k \in 1..(b - a) |-> <<c, a + k>>]

\* Its places in the queue, where the first a of its messages are, in order.
Of(c) == {x \in 1..Len(message) : message[x][1] = c}

Queued(c, a) ==
    /\ {message[x][2] : x \in Of(c)} = 1..a
    /\ \A x, y \in Of(c) : x < y => message[x][2] < message[y][2]

\* Every message a client wrote is in the queue, in the receive thread's hands
\* or on its way, once and in the order of writing, whatever the other receive
\* threads and main do with the queue (server.cpp:90-94, 129-141).
EachInOrder ==
    \A c \in Clients : \E a, b \in 0..sent[c] :
        /\ a <= b /\ Queued(c, a)
        /\ buf[c] = Run(c, a, b) /\ up[c] = Run(c, b, sent[c])

\* A server that has all its clients ends after ctrl-C: neither the queue's
\* mutex nor a silent client keeps it (server.cpp:72-106, 125-133).  With fewer
\* clients it waits for more.
ServerEnds == (~is_running /\ num_client = MAX_CLIENTS) ~> Dead

\* No client outlives the server: it gets its "Quit", or the SIGPIPE if its
\* receive thread ended before main raised the flag, or if the server died
\* (server.cpp:97-102, client.cpp:55-96).
ClientsEndToo == \A c \in Clients : (Dead /\ cMain[c] # "connect") ~> Ended(c)
=============================================================================
