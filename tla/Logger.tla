------------------------------- MODULE Logger -------------------------------
(***************************************************************************)
(* Labs/asgn/Logger.cpp, the logging library of a process: the functions   *)
(* InitializeLog, SetLogLevel, Log and ExitLog that the application's main *)
(* thread calls, and the receive thread recv_func that obeys the server's  *)
(* "Set Log Level=<level>" commands.                                       *)
(*                                                                         *)
(* The two threads share filter, buf, ret, is_running, fd and lock_x.      *)
(* Every access to one of them that another thread can observe is an       *)
(* action of its own; `main' and `recv' are the threads' control points.   *)
(* A section that holds lock_x for one shared access only is one action    *)
(* guarded by the lock being free.                                         *)
(***************************************************************************)
EXTENDS Integers, Udp

CONSTANTS AppLevels,   \* the levels the application logs at or sets
          CmdLevels,   \* the levels the server writes into its commands
          MaxCalls,    \* bound: calls of SetLogLevel and Log by the application
          MaxCmds      \* bound: commands the server sends

ASSUME LoggerAssumption ==
    /\ AppLevels \subseteq LOG_LEVEL
    /\ CmdLevels \subseteq Nat
    /\ MaxCalls \in Nat
    /\ MaxCmds \in Nat

VARIABLES
    main,        \* control point of the application's main thread
    recv,        \* control point of the receive thread
    lock_x,      \* the mutex: its holder, or "none"
    filter,      \* the filter severity
    buf,         \* the buffer that Log and recv_func share
    ret,         \* the global result of the last system call: -1, 0 or 1
    is_running,  \* the receive thread's loop flag
    fd,          \* the socket: "none", "open" or "closed"
    call,        \* the record the current Log() call is to send
    new_level,   \* local to recv_func
    to_logger,   \* receive buffer of the logger's socket (port 1154)
    to_server,   \* receive buffer of the server's socket (port 1153)
    got,         \* history: the datagram recvfrom() last returned
    late,        \* history: records below the filter sent since it last changed
    calls, cmds  \* counters for the bounds; calls also numbers the records

mainVars  == <<main, call, calls>>
recvVars  == <<recv, new_level, got>>
network   == <<to_logger, to_server, cmds>>
shared    == <<lock_x, filter, buf, ret, is_running, fd, late>>
vars      == <<mainVars, recvVars, network, shared>>

MainPC == {"init", "create", "store", "test", "setFilter", "idle", "lock",
           "format", "send", "unlock", "close", "exited"}
RecvPC == {"none", "start", "loop", "lock", "recvfrom", "unlock", "test",
           "snap", "parse", "compare", "store", "done"}

Init ==
    /\ main = "init" /\ recv = "none" /\ lock_x = "none" /\ fd = "none"
    /\ filter = DEBUG /\ buf = Blank /\ ret = 0 /\ is_running = TRUE
    /\ call = Blank /\ new_level = DEBUG /\ got = Blank /\ late = 0
    /\ to_logger = <<>> /\ to_server = <<>> /\ calls = 0 /\ cmds = 0

-----------------------------------------------------------------------------
(* InitializeLog(), in the main thread *)

\* The socket is created and bound, the server's address converted (the
\* constant address is valid, so inet_pton() gives 1), the mutex initialised.
OpenSocket ==
    /\ main = "init"
    /\ main' = "create" /\ fd' = "open" /\ ret' = 1 /\ lock_x' = "none"
    /\ UNCHANGED <<recvVars, network, call, calls, filter, buf, is_running, late>>

\* pthread_create() starts the thread before its result is assigned to ret.
CreateThread ==
    /\ main = "create"
    /\ main' = "store" /\ recv' = "start"
    /\ UNCHANGED <<network, shared, call, calls, new_level, got>>

\* The system may refuse the thread; ret is then a positive error number.
CreateFails ==
    /\ main = "create"
    /\ main' = "test" /\ ret' = 1
    /\ UNCHANGED <<recvVars, network, call, calls, lock_x, filter, buf,
                   is_running, fd, late>>

\* ret = <the 0 that pthread_create() returned>
StoreRet ==
    /\ main = "store"
    /\ main' = "test" /\ ret' = 0
    /\ UNCHANGED <<recvVars, network, call, calls, lock_x, filter, buf,
                   is_running, fd, late>>

\* if(ret!=0) close the socket and return -1, a result TravelSimulator.cpp
\* drops: its calls go on, whichever way InitializeLog() returned.
TestRet ==
    /\ main = "test"
    /\ IF ret # 0 THEN main' = "idle" /\ fd' = "closed"
                  ELSE main' = "setFilter" /\ fd' = fd
    /\ UNCHANGED <<recvVars, network, call, calls, lock_x, filter, buf, ret,
                   is_running, late>>

\* Writes the filter; every write that changes it starts a new count of late
\* records.
WriteFilter(l) ==
    /\ filter' = l
    /\ late' = IF l # filter THEN 0 ELSE late

\* filter = ERROR, outside the lock.
InitFilter ==
    /\ main = "setFilter"
    /\ main' = "idle" /\ WriteFilter(ERROR)
    /\ UNCHANGED <<recvVars, network, call, calls, lock_x, buf, ret,
                   is_running, fd>>

-----------------------------------------------------------------------------
(* SetLogLevel(), Log() and ExitLog(), in the main thread *)

SetLogLevel(l) ==
    /\ main = "idle" /\ calls < MaxCalls /\ lock_x = "none"
    /\ calls' = calls + 1 /\ WriteFilter(l)
    /\ UNCHANGED <<recvVars, network, main, call, lock_x, buf, ret,
                   is_running, fd>>

\* Mutant: the severity comparison of Log() the wrong way round.
LogTestReversed(l, k) ==
    /\ main = "idle" /\ lock_x = "none"
    /\ IF l > filter THEN UNCHANGED <<main, call>>
                     ELSE main' = "lock" /\ call' = Record(l, k)
    /\ UNCHANGED <<recvVars, network, shared>>

\* Log() compares its level with the filter under the lock and gives the lock
\* back before it formats anything.  k stands for the text.
LogTest(l, k) ==
    /\ main = "idle" /\ lock_x = "none"
    /\ IF l < filter THEN UNCHANGED <<main, call>>
                     ELSE main' = "lock" /\ call' = Record(l, k)
    /\ UNCHANGED <<recvVars, network, shared>>

\* A bounded, numbered call of Log().
FilterTest(l) ==
    calls < MaxCalls /\ calls' = calls + 1 /\ LogTest(l, calls')

LogLock ==
    /\ main = "lock" /\ lock_x = "none"
    /\ main' = "format" /\ lock_x' = "main"
    /\ UNCHANGED <<recvVars, network, call, calls, filter, buf, ret,
                   is_running, fd, late>>

LogFormat ==
    /\ main = "format"
    /\ main' = "send" /\ buf' = call
    /\ UNCHANGED <<recvVars, network, call, calls, lock_x, filter, ret,
                   is_running, fd, late>>

\* sendto() sends what buf holds; on a closed socket it fails, unnoticed.
LogSend ==
    /\ main = "send"
    /\ main' = "unlock"
    /\ IF fd = "open"
       THEN /\ to_server' \in Arrivals(to_server, buf)
            /\ late' = IF buf.level < filter THEN late + 1 ELSE late
       ELSE UNCHANGED <<to_server, late>>
    /\ UNCHANGED <<recvVars, to_logger, cmds, call, calls, lock_x, filter, buf,
                   ret, is_running, fd>>

LogUnlock ==
    /\ main = "unlock"
    /\ main' = "idle" /\ lock_x' = "none"
    /\ UNCHANGED <<recvVars, network, call, calls, filter, buf, ret,
                   is_running, fd, late>>

ExitLog ==
    /\ main = "idle"
    /\ main' = "close" /\ is_running' = FALSE
    /\ UNCHANGED <<recvVars, network, call, calls, lock_x, filter, buf, ret,
                   fd, late>>

CloseSocket ==
    /\ main = "close"
    /\ main' = "exited" /\ fd' = "closed"
    /\ UNCHANGED <<recvVars, network, call, calls, lock_x, filter, buf, ret,
                   is_running, late>>

-----------------------------------------------------------------------------
(* recv_func(), the receive thread *)

RecvStart ==
    /\ recv = "start"
    /\ recv' = "loop" /\ is_running' = TRUE
    /\ UNCHANGED <<mainVars, network, new_level, got, lock_x, filter, buf, ret,
                   fd, late>>

\* Mutant: an endless loop that never looks at the flag.
RecvLoopForever ==
    /\ recv = "loop"
    /\ recv' = "lock"
    /\ UNCHANGED <<mainVars, network, shared, new_level, got>>

RecvLoop ==
    /\ recv = "loop"
    /\ recv' = IF is_running THEN "lock" ELSE "done"
    /\ UNCHANGED <<mainVars, network, shared, new_level, got>>

\* Mutant: recvfrom() without taking the mutex.
RecvLockSkipped ==
    /\ recv = "lock"
    /\ recv' = "recvfrom"
    /\ UNCHANGED <<mainVars, network, shared, new_level, got>>

RecvLock ==
    /\ recv = "lock" /\ lock_x = "none"
    /\ recv' = "recvfrom" /\ lock_x' = "recv"
    /\ UNCHANGED <<mainVars, network, new_level, got, filter, buf, ret,
                   is_running, fd, late>>

\* buf is zeroed; then recvfrom(), which does not block, fills it with the
\* first datagram queued, or fails when there is none or the socket is closed.
RecvFrom ==
    /\ recv = "recvfrom"
    /\ recv' = "unlock"
    /\ IF fd = "open" /\ to_logger # <<>>
       THEN /\ got' = Head(to_logger) /\ ret' = 1
            /\ to_logger' = Tail(to_logger)
       ELSE got' = Blank /\ ret' = -1 /\ to_logger' = to_logger
    /\ buf' = got'
    /\ UNCHANGED <<mainVars, to_server, cmds, new_level, lock_x, filter,
                   is_running, fd, late>>

\* Mutant: the mutex is not given back.
RecvUnlockForgotten ==
    /\ recv = "unlock"
    /\ recv' = "test"
    /\ UNCHANGED <<mainVars, network, shared, new_level, got>>

RecvUnlock ==
    /\ recv = "unlock"
    /\ recv' = "test" /\ lock_x' = "none"
    /\ UNCHANGED <<mainVars, network, new_level, got, filter, buf, ret,
                   is_running, fd, late>>

\* if(ret > 0), of the ret that InitializeLog() also assigns; otherwise
\* sleep(1) and the next iteration.
RecvTest ==
    /\ recv = "test"
    /\ recv' = IF ret > 0 THEN "snap" ELSE "loop"
    /\ UNCHANGED <<mainVars, network, shared, new_level, got>>

\* new_level = filter, outside the lock.
RecvSnap ==
    /\ recv = "snap"
    /\ recv' = "parse" /\ new_level' = filter
    /\ UNCHANGED <<mainVars, network, shared, got>>

IsCommand(d) == d.type = "cmd" /\ d.level \in LOG_LEVEL

\* Mutant: any "Set Log Level=<n>" is taken, whatever the number.
RecvParseUnchecked ==
    /\ recv = "parse"
    /\ recv' = "compare"
    /\ new_level' = IF buf.type = "cmd" THEN buf.level ELSE new_level
    /\ UNCHANGED <<mainVars, network, shared, got>>

\* The four strncmp() calls read buf outside the lock.
RecvParse ==
    /\ recv = "parse"
    /\ recv' = "compare"
    /\ new_level' = IF IsCommand(buf) THEN buf.level ELSE new_level
    /\ UNCHANGED <<mainVars, network, shared, got>>

RecvCompare ==
    /\ recv = "compare"
    /\ recv' = IF new_level # filter THEN "store" ELSE "loop"
    /\ UNCHANGED <<mainVars, network, shared, new_level, got>>

RecvStore ==
    /\ recv = "store" /\ lock_x = "none"
    /\ recv' = "loop" /\ WriteFilter(new_level)
    /\ UNCHANGED <<mainVars, network, new_level, got, lock_x, buf, ret,
                   is_running, fd>>

-----------------------------------------------------------------------------
(* The server, as far as the logger sees it: it sends commands at any time *)
(* a socket is bound, and takes records in at any time.                    *)

ServerCommand(l) ==
    /\ cmds < MaxCmds /\ fd = "open"
    /\ cmds' = cmds + 1 /\ to_logger' = Deposit(to_logger, Cmd(l))
    /\ UNCHANGED <<mainVars, recvVars, shared, to_server>>

\* The server takes one in, or dies with all that is queued at its socket.
ServerTakes ==
    /\ to_server # <<>>
    /\ to_server' \in {Tail(to_server), <<>>}
    /\ UNCHANGED <<mainVars, recvVars, shared, to_logger, cmds>>

\* What the main thread does without being asked by the application, the
\* network aside.
MainLocal ==
    \/ OpenSocket \/ CreateThread \/ CreateFails \/ StoreRet \/ TestRet
    \/ InitFilter \/ LogLock \/ LogFormat \/ LogUnlock \/ CloseSocket

MainStep == MainLocal \/ LogSend

\* The application that uses the library (TravelSimulator.cpp, Automobile.cpp):
\* of what it does, its calls to the library are kept, in any order and number.
Application ==
    \/ \E l \in AppLevels : SetLogLevel(l) \/ FilterTest(l)
    \/ ExitLog

\* What the receive thread does, the network aside.
RecvLocal ==
    \/ RecvStart \/ RecvLoop \/ RecvLock \/ RecvUnlock \/ RecvTest
    \/ RecvSnap \/ RecvParse \/ RecvCompare \/ RecvStore

RecvStep == RecvLocal \/ RecvFrom

Next ==
    \/ MainStep
    \/ Application
    \/ RecvStep
    \/ \E l \in CmdLevels : ServerCommand(l)
    \/ ServerTakes

Spec == Init /\ [][Next]_vars

\* Both threads are scheduled again and again; the application and the server
\* owe nothing.
FairSpec == Spec /\ WF_vars(MainStep) /\ WF_vars(RecvStep)

-----------------------------------------------------------------------------
(* Properties *)

\* Every variable keeps to the values the code's types and protocol allow; in
\* particular only the four severities ever become the filter, whatever number
\* a command carries (Logger.cpp:167-180).
TypeOK ==
    /\ main \in MainPC /\ recv \in RecvPC
    /\ lock_x \in {"none", "main", "recv"}
    /\ filter \in LOG_LEVEL /\ new_level \in LOG_LEVEL
    /\ buf \in Datagram /\ call \in Datagram /\ got \in Datagram
    /\ ret \in -1..1 /\ is_running \in BOOLEAN
    /\ fd \in {"none", "open", "closed"}
    /\ to_logger \in Seq(Datagram) /\ to_server \in Seq(Datagram)
    /\ late \in Nat /\ calls \in 0..MaxCalls /\ cmds \in 0..MaxCmds

\* A datagram leaves as the record the current Log() call formatted: while the
\* call is between formatting and sending, the receive thread, which zeroes and
\* refills the same buffer, cannot touch it (Logger.cpp:116-123, 160-165).
SendsOwnRecord == main = "send" => buf = call

\* Once the filter changes, at most one record below it still goes out: that of
\* a Log() call which passed the test before the change (Logger.cpp:106-121).
AtMostOneLate == late <= 1

\* After ExitLog() a receive thread that is past its first statement ends: the
\* flag, once down, brings it out of its loop from wherever it is
\* (Logger.cpp:132, 158-185).
ExitStopsStartedReceiver ==
    (main = "exited" /\ ~is_running /\ recv # "start") ~> recv \in {"none", "done"}

\* A command queued at the socket is eventually taken out by the receive
\* thread, or the application closes the socket (Logger.cpp:158-184).
CommandsAreReceived == to_logger # <<>> ~> (to_logger = <<>> \/ fd = "closed")

\* README.md:131: the receive thread acts on the command it received: when it
\* has compared the buffer, the level it goes on with is the command's.
CommandObeyed == recv = "compare" /\ IsCommand(got) => new_level = got.level
=============================================================================
