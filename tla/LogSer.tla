------------------------------- MODULE LogSer -------------------------------
(***************************************************************************)
(* Labs/logser.cpp, the first version of the log server.  Unlike           *)
(* Server.cpp it keeps one buffer for everything: the receive thread takes *)
(* records into it and writes it to the file, the menu writes commands     *)
(* into it, sends them from it, and dumps the file through it.  Also       *)
(* file_fd is shared: the receive thread opens the file anew in every turn *)
(* of its loop, the dump opens it too, and only the last descriptor is     *)
(* ever closed.  The mutex is held from the first to the last of these     *)
(* accesses, by the receive thread through recvfrom() and sleep() as well. *)
(*                                                                         *)
(* `main' and `recv' are the threads' control points; the user at the menu *)
(* is part of the environment.  With SA_RESTART a SIGINT ends no wait for  *)
(* the user.                                                               *)
(***************************************************************************)
EXTENDS Integers, Udp

CONSTANTS Records,     \* the log records that clients send
          Levels,      \* the numbers the user may type for a level: any
          FdLimit,     \* how many descriptors the process may open for the file
          MaxChoices,  \* bound: how often the user picks options 1 and 2
          MaxSends     \* bound: datagrams that arrive from clients

ASSUME LogSerAssumption ==
    /\ Records \subseteq Datagram /\ Levels \subseteq Nat
    /\ FdLimit \in Nat /\ MaxChoices \in Nat /\ MaxSends \in Nat

VARIABLES
    main, recv,   \* control points
    lock_x,       \* the mutex: its holder, or "none"
    isRunning,    \* the flag of both loops
    buf,          \* the buffer
    file_fd,      \* what file_fd was opened for: "none", "read" or "append"
    fds,          \* how many descriptors of the file are open
    destaddr,     \* address of the last sender: "zero" until there is one
    level,        \* the level the user typed
    log,          \* the file's blocks, of BUF_LEN bytes each
    to_server,    \* receive buffer of the server's socket
    sent,         \* history: the datagrams sent to the logger
    owed,         \* history: the datagrams recvfrom() returned, but for those
                  \* whose own write() failed on a descriptor that appends
    shown,        \* history: the block the last dump showed
    choices, sends  \* counters for the bounds

menu    == <<level, sent, shown, choices>>
disk    == <<file_fd, fds, log>>
network == <<destaddr, to_server, owed, sends>>
vars    == <<main, recv, lock_x, isRunning, buf, menu, disk, network>>

Init ==
    /\ main = "menu" /\ recv \in {"loop", "none"}
    /\ lock_x = "none" /\ isRunning = TRUE /\ buf = Blank
    /\ file_fd = "none" /\ fds = 0 /\ log = <<>>
    /\ destaddr = "zero" /\ to_server = <<>> /\ owed = <<>>
    /\ level = 0 /\ sent = <<>> /\ shown = Blank
    /\ choices = 0 /\ sends = 0

Dead == main \in {"ended", "failed"}

\* error_msg() ends the process, wherever the other thread is.
Fail ==
    /\ main' = "failed" /\ recv' = "failed"
    /\ UNCHANGED <<lock_x, isRunning, buf, menu, disk, network>>

\* open() of the log file, which both threads create if it is not there.
Open(mode) ==
    /\ fds < FdLimit
    /\ file_fd' = mode /\ fds' = fds + 1 /\ log' = log

-----------------------------------------------------------------------------
(* The main thread *)

MenuLoop ==
    /\ main = "menu"
    /\ main' = IF isRunning THEN "choose" ELSE "join"
    /\ UNCHANGED <<recv, lock_x, isRunning, buf, menu, disk, network>>

\* Option 0, and whatever is no number.
ShutDown ==
    /\ main = "choose"
    /\ main' = "menu" /\ isRunning' = FALSE
    /\ UNCHANGED <<recv, lock_x, buf, menu, disk, network>>

\* Option 1 and the level.
AskLevel ==
    /\ main = "choose" /\ choices < MaxChoices
    /\ main' = "lockLevel" /\ choices' = choices + 1 /\ level' \in Levels
    /\ UNCHANGED <<recv, lock_x, isRunning, buf, sent, shown, disk, network>>

\* Option 2.
AskDump ==
    /\ main = "choose" /\ choices < MaxChoices
    /\ main' = "lockDump" /\ choices' = choices + 1
    /\ UNCHANGED <<recv, lock_x, isRunning, buf, level, sent, shown, disk, network>>

\* Mutant: the menu uses the buffer without the mutex.
MainLockSkipped ==
    /\ \/ main = "lockLevel" /\ main' = "format"
       \/ main = "lockDump" /\ main' = "open"
    /\ UNCHANGED <<recv, lock_x, isRunning, buf, menu, disk, network>>

MainLock ==
    /\ lock_x = "none" /\ lock_x' = "main"
    /\ \/ main = "lockLevel" /\ main' = "format"
       \/ main = "lockDump" /\ main' = "open"
    /\ UNCHANGED <<recv, isRunning, buf, menu, disk, network>>

FormatLevel ==
    /\ main = "format"
    /\ main' = "send" /\ buf' = Cmd(level)
    /\ UNCHANGED <<recv, lock_x, isRunning, menu, disk, network>>

\* sendto() to the zero address fails, unnoticed.
SendLevel ==
    /\ main = "send"
    /\ main' = "unlockLevel"
    /\ sent' = IF destaddr = "zero" THEN sent ELSE Append(sent, buf)
    /\ UNCHANGED <<recv, lock_x, isRunning, buf, level, shown, choices, disk, network>>

DumpOpen ==
    /\ main = "open"
    /\ main' = "read" /\ Open("read")
    /\ UNCHANGED <<recv, lock_x, isRunning, buf, menu, network>>

DumpOpenFails == main = "open" /\ Fail

\* bzero() and read(): the file's first block.
DumpRead ==
    /\ main = "read"
    /\ main' = "show" /\ buf' = IF log = <<>> THEN Blank ELSE log[1]
    /\ UNCHANGED <<recv, lock_x, isRunning, menu, disk, network>>

DumpShow ==
    /\ main = "show"
    /\ main' = "unlockDump" /\ shown' = buf
    /\ UNCHANGED <<recv, lock_x, isRunning, buf, level, sent, choices, disk, network>>

MainUnlock ==
    /\ \/ main = "unlockLevel" /\ main' = "menu"
       \/ main = "unlockDump" /\ main' = "key"
    /\ lock_x' = "none"
    /\ UNCHANGED <<recv, isRunning, buf, menu, disk, network>>

PressKey ==
    /\ main = "key"
    /\ main' = "menu"
    /\ UNCHANGED <<recv, lock_x, isRunning, buf, menu, disk, network>>

\* pthread_join(), and close() of file_fd and the socket.  When the thread was
\* never created recv_thread is an uninitialised variable: the call fails and
\* returns, or the process crashes.
Join ==
    /\ main = "join"
    /\ \/ /\ recv \in {"none", "done"} /\ main' = "ended"
          /\ file_fd' = "none" /\ fds' = IF fds > 0 THEN fds - 1 ELSE 0
       \/ recv = "none" /\ main' = "failed" /\ UNCHANGED <<file_fd, fds>>
    /\ UNCHANGED <<recv, lock_x, isRunning, buf, menu, log, network>>

-----------------------------------------------------------------------------
(* recvFunc(), the receive thread *)

RecvLoop ==
    /\ recv = "loop"
    /\ recv' = IF isRunning THEN "lock" ELSE "done"
    /\ UNCHANGED <<main, lock_x, isRunning, buf, menu, disk, network>>

RecvLock ==
    /\ recv = "lock" /\ lock_x = "none"
    /\ recv' = "open" /\ lock_x' = "recv"
    /\ UNCHANGED <<main, isRunning, buf, menu, disk, network>>

RecvOpen ==
    /\ recv = "open"
    /\ recv' = "recvfrom" /\ Open("append")
    /\ UNCHANGED <<main, lock_x, isRunning, buf, menu, network>>

RecvOpenFails == recv = "open" /\ Fail

\* bzero() and recvfrom(), which does not block; when it fails, sleep(1) with
\* the mutex held.
RecvFrom ==
    /\ recv = "recvfrom"
    /\ IF to_server # <<>>
       THEN /\ recv' = "write"
            /\ buf' = Head(to_server) /\ to_server' = Tail(to_server)
            /\ owed' = Append(owed, buf') /\ destaddr' = "logger"
       ELSE recv' = "unlock" /\ buf' = Blank /\ UNCHANGED <<to_server, owed, destaddr>>
    /\ UNCHANGED <<main, lock_x, isRunning, menu, disk, sends>>

\* recvfrom() fails for another reason than that nothing is there.
RecvFromFails == recv = "recvfrom" /\ Fail

\* Nobody looks at the result of write(), which fails on a descriptor that was
\* opened for reading.
RecvWrite ==
    /\ recv = "write"
    /\ recv' = "unlock"
    /\ log' = IF file_fd = "append" THEN Append(log, buf) ELSE log
    /\ UNCHANGED <<main, lock_x, isRunning, buf, menu, file_fd, fds, network>>

\* It fails on one that appends as well, on a full disk, say: the record is gone
\* and the loop goes on.  A part of a block is never written.
RecvWriteFails ==
    /\ recv = "write" /\ file_fd = "append"
    /\ recv' = "unlock"
    /\ owed' = SubSeq(owed, 1, Len(owed) - 1)
    /\ UNCHANGED <<main, lock_x, isRunning, buf, menu, disk, destaddr, to_server, sends>>

\* Mutant: the mutex is not given back.
RecvUnlockForgotten ==
    /\ recv = "unlock"
    /\ recv' = "loop"
    /\ UNCHANGED <<main, lock_x, isRunning, buf, menu, disk, network>>

RecvUnlock ==
    /\ recv = "unlock"
    /\ recv' = "loop" /\ lock_x' = "none"
    /\ UNCHANGED <<main, isRunning, buf, menu, disk, network>>

-----------------------------------------------------------------------------
(* The environment *)

Interrupt ==
    /\ ~Dead
    /\ isRunning' = FALSE
    /\ UNCHANGED <<main, recv, lock_x, buf, menu, disk, network>>

\* A logger sends a record while the server's socket is bound.
ClientSend(m) ==
    /\ sends < MaxSends /\ ~Dead
    /\ sends' = sends + 1 /\ to_server' = Deposit(to_server, m)
    /\ UNCHANGED <<main, recv, lock_x, isRunning, buf, menu, disk, destaddr, owed>>

User == ShutDown \/ AskLevel \/ AskDump \/ PressKey

MainStep ==
    \/ MenuLoop \/ MainLock \/ FormatLevel \/ SendLevel
    \/ DumpOpen \/ DumpOpenFails \/ DumpRead \/ DumpShow \/ MainUnlock \/ Join

RecvStep ==
    \/ RecvLoop \/ RecvLock \/ RecvOpen \/ RecvOpenFails
    \/ RecvFrom \/ RecvFromFails \/ RecvWrite \/ RecvWriteFails \/ RecvUnlock

Next ==
    \/ User \/ MainStep \/ RecvStep \/ Interrupt
    \/ \E m \in Records : ClientSend(m)

Spec == Init /\ [][Next]_vars

\* Both threads are scheduled again and again; nobody else owes anything.  The
\* mutex is not fair: the receive thread may take it again whenever it gave it
\* back.
FairSpec == Spec /\ WF_vars(MainStep) /\ WF_vars(RecvStep)

-----------------------------------------------------------------------------
(* Properties *)

\* The menu and the receive thread use one buffer and one file_fd, and yet every
\* record that was taken goes to the file as it came and in order, but for the one
\* in hand and for each whose own write() failed, which nobody notices and which
\* costs no other record; none is lost because the descriptor is the dump's.  And
\* what is sent to the logger are commands, each with a level the user typed, and
\* never a record (logser.cpp:75-90, 124-142).
RecordsWhole ==
    /\ recv # "failed" =>
           owed = log \o (IF recv = "write" THEN <<buf>> ELSE <<>>)
    /\ \A x \in 1..Len(sent) : \E l \in Levels : sent[x] = Cmd(l)

\* A dump shows the file's first block as it is, and never a command or a record
\* that passes through the buffer meanwhile (logser.cpp:82-90).
DumpShowsFirst ==
    main = "unlockDump" => shown = IF log = <<>> THEN Blank ELSE log[1]

\* The server goes down once main has left its menu: the receive thread, which
\* sleeps with the mutex held, does not keep main from it (logser.cpp:104-107,
\* 124-142).
ShutdownCompletes == main = "join" ~> Dead

=============================================================================
