------------------------------- MODULE Server -------------------------------
(***************************************************************************)
(* Labs/asgn/Server.cpp, the log server: the main thread with its menu     *)
(* (set the log level, dump the log file, shut down), the receive thread   *)
(* recv_func that appends every datagram to the log file, and the SIGINT   *)
(* handler.                                                                *)
(*                                                                         *)
(* The threads share isRunning, cl_addr, the log file and lock_x; `main'   *)
(* and `recv' are their control points.  The user at the menu is part of   *)
(* the environment: the main thread waits for it in getInteger() (at       *)
(* "choose" and "level") and in getchar() (at "key").  The handler is      *)
(* installed with SA_RESTART, so a SIGINT ends none of these waits.        *)
(***************************************************************************)
EXTENDS Naturals, Sequences, Udp

CONSTANTS Records,      \* the log records that clients send
          MaxChoices,   \* bound: how often the user picks options 1 and 2
          MaxSends,     \* bound: datagrams that arrive from clients
          MaxRestarts   \* bound: how often the server is started again

ASSUME ServerAssumption ==
    /\ Records \subseteq Datagram
    /\ MaxChoices \in Nat
    /\ MaxSends \in Nat
    /\ MaxRestarts \in Nat

VARIABLES
    main,        \* control point of the main thread
    recv,        \* control point of the receive thread
    lock_x,      \* the mutex: its holder, or "none"
    isRunning,   \* the flag of both loops
    cl_addr,     \* address of the last sender: "zero" until there is one
    tempBuf,     \* local to recv_func: the last datagram received
    exists,      \* the log file exists
    log,         \* the records that the server appended to the file
    file,        \* main's ifstream: "closed", "open", or "bad" when open failed
    shown,       \* the records the current dump has shown so far
    to_server,   \* receive buffer of the server's socket (port 1153)
    to_logger,   \* receive buffer of the logger's socket (port 1154)
    taken,       \* history: the datagrams recvfrom() returned; those that a
                 \* crash lost are struck out at the next start
    choices, sends, restarts  \* counters for the bounds

menuVars   == <<file, shown, choices>>
recvVars   == <<tempBuf, exists, log, taken, cl_addr>>
network    == <<to_server, to_logger, sends, restarts>>
vars       == <<main, recv, lock_x, isRunning, menuVars, recvVars, network>>

MainPC == {"create", "menu", "choose", "level", "lock", "dump", "unlock", "key",
           "join", "close", "ended", "failed"}
RecvPC == {"none", "open", "loop", "recvfrom", "lock", "write", "unlock",
           "done", "failed"}

\* The socket is created and bound, the handler installed.  The file may be
\* there from an earlier run; it is appended to.
Init ==
    /\ main = "create" /\ recv = "none" /\ lock_x = "none"
    /\ isRunning = TRUE /\ cl_addr = "zero" /\ tempBuf = Blank
    /\ exists \in BOOLEAN /\ log = <<>> /\ file = "closed" /\ shown = <<>>
    /\ to_server = <<>> /\ to_logger = <<>> /\ taken = <<>>
    /\ choices = 0 /\ sends = 0 /\ restarts = 0

-----------------------------------------------------------------------------
(* The main thread *)

CreateThread ==
    /\ main = "create"
    /\ main' = "menu" /\ recv' = "open"
    /\ UNCHANGED <<lock_x, isRunning, menuVars, recvVars, network>>

\* check() lets the positive error number of pthread_create() pass.
CreateFails ==
    /\ main = "create"
    /\ main' = "menu"
    /\ UNCHANGED <<recv, lock_x, isRunning, menuVars, recvVars, network>>

MenuLoop ==
    /\ main = "menu"
    /\ main' = IF isRunning THEN "choose" ELSE "join"
    /\ UNCHANGED <<recv, lock_x, isRunning, menuVars, recvVars, network>>

\* Option 0.
ShutDown ==
    /\ main = "choose"
    /\ main' = "menu" /\ isRunning' = FALSE
    /\ UNCHANGED <<recv, lock_x, menuVars, recvVars, network>>

\* Option 1, as far as the second question; a number that is no level is asked
\* for again.
AskLevel ==
    /\ main = "choose" /\ choices < MaxChoices
    /\ main' = "level" /\ choices' = choices + 1
    /\ UNCHANGED <<recv, lock_x, isRunning, file, shown, recvVars, network>>

\* Mutant: the levels are counted from 1.
SendLevelFromOne(l) ==
    /\ main = "level"
    /\ main' = "menu"
    /\ IF cl_addr = "zero"
       THEN to_logger' = to_logger
       ELSE to_logger' \in Arrivals(to_logger, Cmd(l + 1))
    /\ UNCHANGED <<recv, lock_x, isRunning, file, shown, choices, recvVars,
                   to_server, sends, restarts>>

\* The command goes to cl_addr, read outside the lock; sendto() to the zero
\* address fails, unnoticed.
SendLevel(l) ==
    /\ main = "level"
    /\ main' = "menu"
    /\ IF cl_addr = "zero"
       THEN to_logger' = to_logger
       ELSE to_logger' \in Arrivals(to_logger, Cmd(l))
    /\ UNCHANGED <<recv, lock_x, isRunning, file, shown, choices, recvVars,
                   to_server, sends, restarts>>

\* Option 2: the file is opened for reading before the lock is asked for.
DumpOpen ==
    /\ main = "choose" /\ choices < MaxChoices
    /\ main' = "lock" /\ choices' = choices + 1
    /\ file' = IF exists THEN "open" ELSE "bad"
    /\ shown' = <<>>
    /\ UNCHANGED <<recv, lock_x, isRunning, recvVars, network>>

\* Mutant: the dump does not take the mutex.
DumpLockSkipped ==
    /\ main = "lock"
    /\ main' = "dump"
    /\ UNCHANGED <<recv, lock_x, isRunning, menuVars, recvVars, network>>

DumpLock ==
    /\ main = "lock" /\ lock_x = "none"
    /\ main' = "dump" /\ lock_x' = "main"
    /\ UNCHANGED <<recv, isRunning, menuVars, recvVars, network>>

DumpRecord ==
    /\ main = "dump" /\ file = "open" /\ Len(shown) < Len(log)
    /\ shown' = Append(shown, log[Len(shown) + 1])
    /\ UNCHANGED <<main, recv, lock_x, isRunning, file, choices,
                   recvVars, network>>

\* getline() fails: there is nothing more, or nothing at all, to read.
DumpEnd ==
    /\ main = "dump" /\ (file = "open" => Len(shown) = Len(log))
    /\ main' = "unlock"
    /\ UNCHANGED <<recv, lock_x, isRunning, menuVars, recvVars, network>>

DumpUnlock ==
    /\ main = "unlock"
    /\ main' = "key" /\ lock_x' = "none" /\ file' = "closed"
    /\ UNCHANGED <<recv, isRunning, shown, choices, recvVars, network>>

PressKey ==
    /\ main = "key"
    /\ main' = "menu"
    /\ UNCHANGED <<recv, lock_x, isRunning, menuVars, recvVars, network>>

\* Mutant: the server does not wait for its receive thread.
JoinSkipped ==
    /\ main = "join"
    /\ main' = "close"
    /\ UNCHANGED <<recv, lock_x, isRunning, menuVars, recvVars, network>>

\* pthread_join(tid).  When the thread was never created tid is an
\* uninitialised variable: the call fails and returns, or the process crashes.
Join ==
    /\ main = "join"
    /\ \/ recv \in {"none", "done"} /\ main' = "close"
       \/ recv = "none" /\ main' = "failed"
    /\ UNCHANGED <<recv, lock_x, isRunning, menuVars, recvVars, network>>

Close ==
    /\ main = "close"
    /\ main' = "ended"
    /\ UNCHANGED <<recv, lock_x, isRunning, menuVars, recvVars, network>>

-----------------------------------------------------------------------------
(* recv_func(), the receive thread *)

\* check(): a failed open() or write() ends the process, wherever main is.
Exit ==
    /\ main' = "failed" /\ recv' = "failed"
    /\ UNCHANGED <<lock_x, isRunning, menuVars, recvVars, network>>

RecvOpen ==
    /\ recv = "open" /\ main # "ended"
    /\ recv' = "loop" /\ exists' = TRUE
    /\ UNCHANGED <<main, lock_x, isRunning, menuVars, tempBuf, log, taken,
                   cl_addr, network>>

RecvOpenFails == recv = "open" /\ main # "ended" /\ Exit

\* Mutant: the loop does not look at the flag.
RecvLoopForever ==
    /\ recv = "loop" /\ main # "ended"
    /\ recv' = "recvfrom"
    /\ UNCHANGED <<main, lock_x, isRunning, menuVars, recvVars, network>>

RecvLoop ==
    /\ recv = "loop" /\ main # "ended"
    /\ recv' = IF isRunning THEN "recvfrom" ELSE "done"
    /\ UNCHANGED <<main, lock_x, isRunning, menuVars, recvVars, network>>

\* Mutant: what tempBuf holds is written even when nothing was received.
RecvFromUnchecked ==
    /\ recv = "recvfrom" /\ main # "ended"
    /\ recv' = "lock"
    /\ IF to_server # <<>>
       THEN /\ tempBuf' = Head(to_server) /\ taken' = Append(taken, tempBuf')
            /\ cl_addr' = "logger" /\ to_server' = Tail(to_server)
       ELSE tempBuf' = Blank /\ UNCHANGED <<taken, cl_addr, to_server>>
    /\ UNCHANGED <<main, lock_x, isRunning, menuVars, exists, log, to_logger,
                   sends, restarts>>

\* recvfrom() does not block: when nothing is queued it fails and the thread
\* sleeps; otherwise it also overwrites cl_addr, outside the lock.
RecvFrom ==
    /\ recv = "recvfrom" /\ main # "ended"
    /\ IF to_server # <<>>
       THEN /\ recv' = "lock"
            /\ tempBuf' = Head(to_server) /\ taken' = Append(taken, tempBuf')
            /\ cl_addr' = "logger" /\ to_server' = Tail(to_server)
       ELSE /\ recv' = "loop" /\ tempBuf' = Blank
            /\ UNCHANGED <<taken, cl_addr, to_server>>
    /\ UNCHANGED <<main, lock_x, isRunning, menuVars, exists, log, to_logger,
                   sends, restarts>>

RecvLock ==
    /\ recv = "lock" /\ main # "ended" /\ lock_x = "none"
    /\ recv' = "write" /\ lock_x' = "recv"
    /\ UNCHANGED <<main, isRunning, menuVars, recvVars, network>>

RecvWrite ==
    /\ recv = "write" /\ main # "ended"
    /\ recv' = "unlock" /\ log' = Append(log, tempBuf)
    /\ UNCHANGED <<main, lock_x, isRunning, menuVars, tempBuf, exists, taken,
                   cl_addr, network>>

RecvWriteFails == recv = "write" /\ main # "ended" /\ Exit

\* Mutant: the mutex is not given back.
RecvUnlockForgotten ==
    /\ recv = "unlock" /\ main # "ended"
    /\ recv' = "loop"
    /\ UNCHANGED <<main, lock_x, isRunning, menuVars, recvVars, network>>

RecvUnlock ==
    /\ recv = "unlock" /\ main # "ended"
    /\ recv' = "loop" /\ lock_x' = "none"
    /\ UNCHANGED <<main, isRunning, menuVars, recvVars, network>>

-----------------------------------------------------------------------------
(* The environment *)

\* sigHandler(SIGINT), in whichever thread the system picks.
Interrupt ==
    /\ main \notin {"ended", "failed"}
    /\ isRunning' = FALSE
    /\ UNCHANGED <<main, recv, lock_x, menuVars, recvVars, network>>

\* A logger sends a record while the server's socket is bound.
ClientSend(m) ==
    /\ sends < MaxSends /\ main \notin {"ended", "failed"}
    /\ sends' = sends + 1 /\ to_server' = Deposit(to_server, m)
    /\ UNCHANGED <<main, recv, lock_x, isRunning, menuVars, recvVars, to_logger,
                   restarts>>

\* The logger takes a command in.
LoggerTakes ==
    /\ to_logger # <<>>
    /\ to_logger' = Tail(to_logger)
    /\ UNCHANGED <<main, recv, lock_x, isRunning, menuVars, recvVars, to_server,
                   sends, restarts>>

\* The user starts a server again after the last one ended or died: a new
\* process that appends to the same file.
Restart ==
    /\ main \in {"ended", "failed"} /\ restarts < MaxRestarts
    /\ restarts' = restarts + 1
    /\ main' = "create" /\ recv' = "none" /\ lock_x' = "none" /\ isRunning' = TRUE
    /\ cl_addr' = "zero" /\ tempBuf' = Blank /\ file' = "closed" /\ shown' = <<>>
    /\ to_server' = <<>> /\ taken' = log
    /\ UNCHANGED <<exists, log, choices, sends, to_logger>>

\* The user's keystrokes, on which the main thread waits; the network aside.
UserLocal == ShutDown \/ AskLevel \/ DumpOpen \/ PressKey

User == UserLocal \/ \E l \in LOG_LEVEL : SendLevel(l)

\* What the main thread does without waiting for the user.
MainStep ==
    \/ CreateThread \/ CreateFails \/ MenuLoop \/ DumpLock \/ DumpRecord
    \/ DumpEnd \/ DumpUnlock \/ Join \/ Close

\* What the receive thread does, the network aside.
RecvLocal ==
    \/ RecvOpen \/ RecvOpenFails \/ RecvLoop \/ RecvLock
    \/ RecvWrite \/ RecvWriteFails \/ RecvUnlock

RecvStep == RecvLocal \/ RecvFrom

Next ==
    \/ User
    \/ MainStep
    \/ RecvStep
    \/ Interrupt
    \/ \E m \in Records : ClientSend(m)
    \/ LoggerTakes
    \/ Restart

Spec == Init /\ [][Next]_vars

\* Both threads are scheduled again and again; the user, the clients and the
\* signal owe nothing.
FairSpec == Spec /\ WF_vars(MainStep) /\ WF_vars(RecvStep)

-----------------------------------------------------------------------------
(* Properties *)

Dead == main \in {"ended", "failed"}

\* Every variable keeps to the values the code's types allow, and only commands
\* that set one of the four severities are ever sent (Server.cpp:83-91).
TypeOK ==
    /\ main \in MainPC /\ recv \in RecvPC
    /\ lock_x \in {"none", "main", "recv"} /\ isRunning \in BOOLEAN
    /\ cl_addr \in {"zero", "logger"} /\ tempBuf \in Datagram
    /\ exists \in BOOLEAN /\ file \in {"closed", "open", "bad"}
    /\ log \in Seq(Datagram) /\ shown \in Seq(Datagram) /\ taken \in Seq(Datagram)
    /\ to_server \in Seq(Datagram) /\ to_logger \in Seq({Cmd(l) : l \in LOG_LEVEL})
    /\ choices \in 0..MaxChoices /\ sends \in 0..MaxSends
    /\ restarts \in 0..MaxRestarts

\* The records in hand: taken from the socket, not yet in the file.
InHand == IF recv \in {"lock", "write"} THEN <<tempBuf>> ELSE <<>>

\* The file holds what the receive thread took from the socket, in that order,
\* each record once; only the one in hand is missing (Server.cpp:128-139).
FileFollowsSocket == recv # "failed" => taken = log \o InHand

\* Once the server has ended, every record it took from the socket is in the
\* file: the shutdown waits for the receive thread (README.md:165, "join the
\* receive thread to itself so it doesn't shut down before the receive thread
\* does"; Server.cpp:113-114).
ShutdownKeepsRecords == main = "ended" => log = taken

\* A dump that found the file shows all of it: no record is appended between
\* the last line shown and the end of the dump (Server.cpp:95-102).
DumpIsWhole == main = "unlock" /\ file = "open" => shown = log

\* Once main has left its menu the server goes down, whatever the receive
\* thread is doing (Server.cpp:112-114).
ShutdownCompletes == main = "join" ~> Dead

\* A record queued at the socket of a server that has a receive thread is
\* taken in, and a record taken in is written, unless the server is stopped
\* first or dies (Server.cpp:128-139).
RecordsAreWritten ==
    /\ (to_server # <<>> /\ recv # "none") ~> (to_server = <<>> \/ ~isRunning \/ Dead)
    /\ InHand # <<>> ~> (InHand = <<>> \/ Dead)

=============================================================================
