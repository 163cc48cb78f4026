---------------------------- MODULE ServerProofs ----------------------------
(***************************************************************************)
(* Safety of the log server, Server, and of the earlier one, LogSer, for   *)
(* every choice of their constants.                                        *)
(***************************************************************************)
EXTENDS Server, TLAPS

\* Who holds the mutex is told by the control points; a process that died in
\* write() leaves it locked.
LockInv ==
    /\ main \in {"dump", "unlock"} => lock_x = "main"
    /\ recv \in {"write", "unlock"} => lock_x = "recv"
    /\ main = "create" => recv = "none"
    /\ recv = "failed" => main = "failed"

\* main leaves its menu loop for good only when there is no receive thread or
\* it has ended.
JoinInv == main \in {"close", "ended"} => recv \in {"none", "done"}

\* A dump has shown, at any point of it, the first records of the file.
DumpInv ==
    /\ main = "lock" => shown = <<>>
    /\ main = "dump" => Len(shown) <= Len(log)
    /\ main = "dump" => shown = SubSeq(log, 1, Len(shown))

IInv == TypeOK /\ LockInv /\ JoinInv /\ FileFollowsSocket /\ DumpInv /\ DumpIsWhole

-----------------------------------------------------------------------------
(* Datagrams and sequences of them *)

\* A receive buffer of datagrams of some kind stays one when another of that
\* kind arrives.
LEMMA ArrivalsType ==
    ASSUME NEW Kind, NEW q \in Seq(Kind), NEW m \in Kind
    PROVE  /\ Deposit(q, m) \in Seq(Kind)
           /\ Arrivals(q, m) \subseteq Seq(Kind)
BY DEF Deposit, Arrivals

\* The three kinds of datagram are datagrams.
LEMMA DatagramTypes ==
    /\ Blank \in Datagram
    /\ \A l \in Nat : Cmd(l) \in Datagram
    /\ \A l \in Nat, k \in Nat : Record(l, k) \in Datagram
BY DEF Blank, Cmd, Record, Datagram

\* Showing the next record keeps what is shown an initial part of the file.
LEMMA PrefixGrows ==
    ASSUME NEW t \in Seq(Datagram), NEW s \in Seq(Datagram),
           Len(s) < Len(t), s = SubSeq(t, 1, Len(s))
    PROVE  /\ Len(Append(s, t[Len(s) + 1])) = Len(s) + 1
           /\ Append(s, t[Len(s) + 1]) = SubSeq(t, 1, Len(s) + 1)
<1> DEFINE n == Len(s)
<1>1. n \in Nat /\ n + 1 \in 1..Len(t)
  OBVIOUS
<1>2. \A i \in 1..n : s[i] = t[i]
  OBVIOUS
<1>3. Append(s, t[n + 1]) \in Seq(Datagram) /\ SubSeq(t, 1, n + 1) \in Seq(Datagram)
  BY <1>1
<1>4. Len(Append(s, t[n + 1])) = n + 1 /\ Len(SubSeq(t, 1, n + 1)) = n + 1
  BY <1>1
<1>5. \A i \in 1..(n + 1) : Append(s, t[n + 1])[i] = SubSeq(t, 1, n + 1)[i]
  BY <1>1, <1>2
<1> QED
  BY <1>3, <1>4, <1>5

-----------------------------------------------------------------------------
\* The threads, the dump, the file and both socket buffers start in their types.
LEMMA TypeOKInit == Init => TypeOK
<1> SUFFICES ASSUME Init PROVE TypeOK
    OBVIOUS
<1>1. exists \in BOOLEAN /\ isRunning \in BOOLEAN
  BY DEF Init
<1> QED
  BY <1>1, ServerAssumption, DatagramTypes DEF Init, TypeOK, MainPC, RecvPC

\* Every step of either thread and of the surroundings keeps the types.
LEMMA TypeOKStep == TypeOK /\ [Next]_vars => TypeOK'
<1> SUFFICES ASSUME TypeOK, [Next]_vars PROVE TypeOK'
    OBVIOUS
<1> USE ServerAssumption DEF TypeOK, MainPC, RecvPC, menuVars, recvVars, network
<1>1. CASE CreateThread
  BY <1>1 DEF CreateThread
<1>2. CASE CreateFails
  BY <1>2 DEF CreateFails
<1>3. CASE MenuLoop
  BY <1>3 DEF MenuLoop
<1>4. CASE ShutDown
  BY <1>4 DEF ShutDown
<1>5. CASE AskLevel
  BY <1>5 DEF AskLevel
<1>6. CASE DumpOpen
  BY <1>6 DEF DumpOpen
<1>7. CASE DumpLock
  BY <1>7 DEF DumpLock
<1>8. CASE DumpEnd
  BY <1>8 DEF DumpEnd
<1>9. CASE DumpUnlock
  BY <1>9 DEF DumpUnlock
<1>10. CASE PressKey
  BY <1>10 DEF PressKey
<1>11. CASE Join
  BY <1>11 DEF Join
<1>12. CASE Close
  BY <1>12 DEF Close
<1>13. CASE RecvOpen
  BY <1>13 DEF RecvOpen
<1>14. CASE RecvOpenFails
  BY <1>14 DEF RecvOpenFails, Exit
<1>15. CASE RecvLoop
  BY <1>15 DEF RecvLoop
<1>16. CASE RecvLock
  BY <1>16 DEF RecvLock
<1>17. CASE RecvWrite
  BY <1>17 DEF RecvWrite
<1>18. CASE RecvWriteFails
  BY <1>18 DEF RecvWriteFails, Exit
<1>19. CASE RecvUnlock
  BY <1>19 DEF RecvUnlock
<1>20. ASSUME NEW l \in LOG_LEVEL, SendLevel(l) PROVE TypeOK'
  <2>1. to_logger' \in Seq({Cmd(k) : k \in LOG_LEVEL})
    <3> DEFINE Commands == {Cmd(k) : k \in LOG_LEVEL}
    <3>1. Cmd(l) \in Commands /\ to_logger \in Seq(Commands)
      BY <1>20
    <3>2. Arrivals(to_logger, Cmd(l)) \subseteq Seq(Commands)
      <4> HIDE DEF Commands
      <4> QED
        BY <3>1, ArrivalsType
    <3>3. to_logger' = to_logger \/ to_logger' \in Arrivals(to_logger, Cmd(l))
      BY <1>20 DEF SendLevel
    <3> QED
      BY <3>1, <3>2, <3>3
  <2> QED
    BY <1>20, <2>1 DEF SendLevel
<1>21. CASE DumpRecord
  <2>1. shown' \in Seq(Datagram)
    <3>1. log[Len(shown) + 1] \in Datagram
      BY <1>21 DEF DumpRecord
    <3> QED
      BY <1>21, <3>1 DEF DumpRecord
  <2> QED
    BY <1>21, <2>1 DEF DumpRecord
<1>22. CASE RecvFrom
  <2>1. CASE to_server # <<>>
    <3>1. Head(to_server) \in Datagram /\ Tail(to_server) \in Seq(Datagram)
      BY <2>1
    <3>2. tempBuf' = Head(to_server) /\ to_server' = Tail(to_server) /\ recv' = "lock"
      BY <1>22, <2>1 DEF RecvFrom
    <3>3. taken' = Append(taken, tempBuf') /\ cl_addr' = "logger"
      BY <1>22, <2>1 DEF RecvFrom
    <3>4. UNCHANGED <<main, lock_x, isRunning, menuVars, exists, log, to_logger,
                     sends, restarts>>
      BY <1>22 DEF RecvFrom
    <3>5. taken' \in Seq(Datagram)
      BY <3>1, <3>2, <3>3
    <3> QED
      BY <3>1, <3>2, <3>3, <3>4, <3>5
  <2>2. CASE to_server = <<>>
    BY <1>22, <2>2, DatagramTypes DEF RecvFrom
  <2> QED
    BY <2>1, <2>2
<1>23. CASE Interrupt
  <2>1. isRunning' \in BOOLEAN
    BY <1>23 DEF Interrupt
  <2>2. UNCHANGED <<main, recv, lock_x, menuVars, recvVars, network>>
    BY <1>23 DEF Interrupt
  <2> QED
    BY <2>1, <2>2
<1>24. ASSUME NEW m \in Records, ClientSend(m) PROVE TypeOK'
  <2>1. to_server' \in Seq(Datagram) /\ sends' \in 0..MaxSends
    <3>1. sends' \in 0..MaxSends
      BY <1>24 DEF ClientSend
    <3> QED
      BY <1>24, <3>1, ArrivalsType DEF ClientSend
  <2>2. UNCHANGED <<main, recv, lock_x, isRunning, menuVars, recvVars, to_logger,
                   restarts>>
    BY <1>24 DEF ClientSend
  <2> QED
    BY <2>1, <2>2
<1>25. CASE LoggerTakes
  BY <1>25 DEF LoggerTakes
<1>26. CASE Restart
  BY <1>26, DatagramTypes DEF Restart
<1>27. CASE UNCHANGED vars
  BY <1>27 DEF vars
<1> QED
  BY <1>1, <1>2, <1>3, <1>4, <1>5, <1>6, <1>7, <1>8, <1>9, <1>10, <1>11, <1>12, <1>13,
     <1>14, <1>15, <1>16, <1>17, <1>18, <1>19, <1>20, <1>21, <1>22, <1>23, <1>24, <1>25,
     <1>26, <1>27
     DEF Next, User, UserLocal, MainStep, RecvStep, RecvLocal

-----------------------------------------------------------------------------
\* The control points keep telling who holds the mutex and whether the process
\* lives; the guard of Join keeps the socket open for the receive thread.
LEMMA LockJoinStep ==
    LockInv /\ JoinInv /\ [Next]_vars => LockInv' /\ JoinInv'
<1> SUFFICES ASSUME LockInv, JoinInv, [Next]_vars PROVE LockInv' /\ JoinInv'
    OBVIOUS
<1> USE DEF LockInv, JoinInv, menuVars, recvVars, network
<1>1. CASE User
  BY <1>1 DEF User, UserLocal, ShutDown, AskLevel, DumpOpen, PressKey, SendLevel
<1>2. CASE CreateThread \/ CreateFails \/ MenuLoop \/ Join \/ Close
  BY <1>2 DEF CreateThread, CreateFails, MenuLoop, Join, Close
<1>3. CASE DumpLock \/ DumpRecord \/ DumpEnd \/ DumpUnlock
  BY <1>3 DEF DumpLock, DumpRecord, DumpEnd, DumpUnlock
<1>4. CASE RecvOpenFails \/ RecvWriteFails
  BY <1>4 DEF RecvOpenFails, RecvWriteFails, Exit
<1>5. CASE RecvOpen \/ RecvLoop \/ RecvFrom
  BY <1>5 DEF RecvOpen, RecvLoop, RecvFrom
<1>6. CASE RecvLock \/ RecvWrite \/ RecvUnlock
  BY <1>6 DEF RecvLock, RecvWrite, RecvUnlock
<1>7. CASE Interrupt \/ LoggerTakes \/ \E m \in Records : ClientSend(m)
  BY <1>7 DEF Interrupt, LoggerTakes, ClientSend
<1>8. CASE Restart \/ UNCHANGED vars
  BY <1>8 DEF Restart, vars
<1> QED
  BY <1>1, <1>2, <1>3, <1>4, <1>5, <1>6, <1>7, <1>8 DEF Next, MainStep, RecvStep, RecvLocal

\* A step that leaves the receive thread's control point and variables alone
\* leaves the file and the record in hand alone.
LEMMA FileFrame ==
    ASSUME FileFollowsSocket, UNCHANGED <<recv, tempBuf, log, taken>>
    PROVE  FileFollowsSocket'
BY DEF FileFollowsSocket, InHand

\* RecvFrom puts a record in hand and RecvWrite moves it to the file.
LEMMA FileFollowsSocketStep ==
    TypeOK /\ LockInv /\ FileFollowsSocket /\ [Next]_vars => FileFollowsSocket'
<1> SUFFICES ASSUME TypeOK, LockInv, FileFollowsSocket, [Next]_vars
             PROVE  FileFollowsSocket'
    OBVIOUS
<1> USE DEF menuVars, recvVars, network
<1>1. CASE User
  BY <1>1, FileFrame DEF User, UserLocal, ShutDown, AskLevel, DumpOpen, PressKey, SendLevel
<1>2. CASE CreateThread
  BY <1>2 DEF CreateThread, FileFollowsSocket, InHand, LockInv
<1>3. CASE CreateFails \/ MenuLoop \/ Join \/ Close
  BY <1>3, FileFrame DEF CreateFails, MenuLoop, Join, Close
<1>4. CASE DumpLock \/ DumpRecord \/ DumpEnd \/ DumpUnlock
  BY <1>4, FileFrame DEF DumpLock, DumpRecord, DumpEnd, DumpUnlock
<1>5. CASE RecvOpenFails \/ RecvWriteFails
  BY <1>5 DEF RecvOpenFails, RecvWriteFails, Exit, FileFollowsSocket
<1>6. CASE RecvOpen \/ RecvLoop \/ RecvLock \/ RecvUnlock
  BY <1>6 DEF RecvOpen, RecvLoop, RecvLock, RecvUnlock, FileFollowsSocket, InHand
<1>7. CASE RecvFrom
  <2>1. taken = log \o <<>>
    BY <1>7 DEF RecvFrom, FileFollowsSocket, InHand
  <2>2. CASE to_server # <<>>
    <3>1. taken' = Append(taken, tempBuf') /\ recv' = "lock" /\ log' = log
      BY <1>7, <2>2 DEF RecvFrom
    <3>2. log \in Seq(Datagram) /\ taken = log
      BY <2>1 DEF TypeOK
    <3>3. Append(log, tempBuf') = log \o <<tempBuf'>>
      BY <3>2
    <3>4. taken' = log' \o <<tempBuf'>>
      BY <3>1, <3>2, <3>3
    <3> QED
      BY <3>1, <3>4 DEF FileFollowsSocket, InHand
  <2>3. CASE to_server = <<>>
    BY <1>7, <2>1, <2>3 DEF RecvFrom, FileFollowsSocket, InHand
  <2> QED
    BY <2>2, <2>3
<1>8. CASE RecvWrite
  <2>1. taken = log \o <<tempBuf>>
    BY <1>8 DEF RecvWrite, FileFollowsSocket, InHand
  <2>2. log' = Append(log, tempBuf) /\ taken' = taken /\ recv' = "unlock"
    BY <1>8 DEF RecvWrite
  <2>3. taken' = log' \o <<>>
    BY <2>1, <2>2 DEF TypeOK
  <2> QED
    BY <2>2, <2>3 DEF FileFollowsSocket, InHand
<1>9. CASE Interrupt \/ LoggerTakes \/ \E m \in Records : ClientSend(m)
  BY <1>9, FileFrame DEF Interrupt, LoggerTakes, ClientSend
<1>10. CASE Restart
  <2>1. taken' = log /\ log' = log /\ recv' = "none"
    BY <1>10 DEF Restart
  <2>2. log = log \o <<>>
    BY DEF TypeOK
  <2> QED
    BY <2>1, <2>2 DEF FileFollowsSocket, InHand
<1>11. CASE UNCHANGED vars
  BY <1>11, FileFrame DEF vars
<1> QED
  BY <1>1, <1>2, <1>3, <1>4, <1>5, <1>6, <1>7, <1>8, <1>9, <1>10, <1>11
     DEF Next, MainStep, RecvStep, RecvLocal

\* A dump in progress: a step that leaves main, what is shown and the file alone.
LEMMA DumpFrame ==
    ASSUME DumpInv, DumpIsWhole, UNCHANGED <<main, file, shown, log>>
    PROVE  DumpInv' /\ DumpIsWhole'
BY DEF DumpInv, DumpIsWhole

\* While main dumps it holds the mutex, so RecvWrite, the one step that makes
\* the file grow, is not enabled.
LEMMA DumpStep ==
    TypeOK /\ LockInv /\ DumpInv /\ DumpIsWhole /\ [Next]_vars
        => DumpInv' /\ DumpIsWhole'
<1> SUFFICES ASSUME TypeOK, LockInv, DumpInv, DumpIsWhole, [Next]_vars
             PROVE  DumpInv' /\ DumpIsWhole'
    OBVIOUS
<1> USE DEF menuVars, recvVars, network
<1>1. CASE User
  BY <1>1 DEF User, UserLocal, ShutDown, AskLevel, DumpOpen, PressKey, SendLevel,
              DumpInv, DumpIsWhole
<1>2. CASE CreateThread \/ CreateFails \/ MenuLoop \/ Join \/ Close
  BY <1>2 DEF CreateThread, CreateFails, MenuLoop, Join, Close, DumpInv, DumpIsWhole
<1>3. CASE DumpLock
  <2>1. shown' = <<>> /\ log' = log /\ main' = "dump"
    BY <1>3 DEF DumpLock, DumpInv
  <2> QED
    BY <2>1 DEF DumpInv, DumpIsWhole, TypeOK
<1>4. CASE DumpRecord
  <2>1. /\ main = "dump" /\ main' = "dump" /\ log' = log
        /\ Len(shown) < Len(log) /\ shown' = Append(shown, log[Len(shown) + 1])
    BY <1>4 DEF DumpRecord
  <2>2. Len(shown') = Len(shown) + 1 /\ shown' = SubSeq(log, 1, Len(shown) + 1)
    BY <2>1, PrefixGrows DEF TypeOK, DumpInv
  <2>3. Len(shown') <= Len(log)
    BY <2>1, <2>2 DEF TypeOK
  <2> QED
    BY <2>1, <2>2, <2>3 DEF DumpInv, DumpIsWhole
<1>5. CASE DumpEnd
  <2>1. /\ main = "dump" /\ main' = "unlock" /\ UNCHANGED <<file, shown, log>>
        /\ file = "open" => Len(shown) = Len(log)
    BY <1>5 DEF DumpEnd
  <2>2. SubSeq(log, 1, Len(log)) = log
    BY DEF TypeOK
  <2> QED
    BY <2>1, <2>2 DEF DumpInv, DumpIsWhole
<1>6. CASE DumpUnlock
  BY <1>6 DEF DumpUnlock, DumpInv, DumpIsWhole
<1>7. CASE RecvWrite
  <2>1. main \notin {"dump", "unlock"} /\ UNCHANGED <<main, shown>>
    BY <1>7 DEF RecvWrite, LockInv
  <2> QED
    BY <2>1 DEF DumpInv, DumpIsWhole
<1>8. CASE RecvOpenFails \/ RecvWriteFails
  BY <1>8 DEF RecvOpenFails, RecvWriteFails, Exit, DumpInv, DumpIsWhole
<1>9. CASE RecvOpen \/ RecvLoop \/ RecvFrom \/ RecvLock \/ RecvUnlock
  BY <1>9, DumpFrame DEF RecvOpen, RecvLoop, RecvFrom, RecvLock, RecvUnlock
<1>10. CASE Interrupt \/ LoggerTakes \/ \E m \in Records : ClientSend(m)
  BY <1>10, DumpFrame DEF Interrupt, LoggerTakes, ClientSend
<1>11. CASE Restart
  BY <1>11 DEF Restart, DumpInv, DumpIsWhole
<1>12. CASE UNCHANGED vars
  BY <1>12, DumpFrame DEF vars
<1> QED
  BY <1>1, <1>2, <1>3, <1>4, <1>5, <1>6, <1>7, <1>8, <1>9, <1>10, <1>11, <1>12
     DEF Next, MainStep, RecvStep, RecvLocal

-----------------------------------------------------------------------------
\* The inductive invariant holds of every reachable state of the server.
THEOREM Inductive == Spec => []IInv
<1>1. Init => IInv
  <2> SUFFICES ASSUME Init PROVE IInv
    OBVIOUS
  <2>1. TypeOK
    BY TypeOKInit
  <2>2. LockInv /\ JoinInv /\ DumpInv /\ DumpIsWhole
    BY DEF Init, LockInv, JoinInv, DumpInv, DumpIsWhole
  <2>3. FileFollowsSocket
    BY DEF Init, FileFollowsSocket, InHand
  <2> QED
    BY <2>1, <2>2, <2>3 DEF IInv
<1>2. IInv /\ [Next]_vars => IInv'
  BY TypeOKStep, LockJoinStep, FileFollowsSocketStep, DumpStep DEF IInv
<1> QED
  BY <1>1, <1>2, PTL DEF Spec

\* Every variable of the server keeps to its type.
THEOREM TypeCorrect == Spec => []TypeOK
<1>1. IInv => TypeOK
  BY DEF IInv
<1> QED
  BY <1>1, Inductive, PTL

\* However many records arrive and whatever the user does meanwhile, the file
\* is what was taken from the socket, in order (Server.cpp:128-139).
THEOREM FileFollowsSocketAlways == Spec => []FileFollowsSocket
<1>1. IInv => FileFollowsSocket
  BY DEF IInv
<1> QED
  BY <1>1, Inductive, PTL

\* A server that ended normally has written every record it took from its
\* socket (README.md:165, Server.cpp:113-114).
THEOREM ShutdownKeepsRecordsAlways == Spec => []ShutdownKeepsRecords
<1>1. IInv => ShutdownKeepsRecords
  <2> SUFFICES ASSUME IInv, main = "ended" PROVE log = taken
    BY DEF ShutdownKeepsRecords
  <2>1. recv \in {"none", "done"}
    BY DEF IInv, JoinInv
  <2>2. taken = log \o <<>>
    BY <2>1 DEF IInv, FileFollowsSocket, InHand
  <2> QED
    BY <2>2 DEF IInv, TypeOK
<1> QED
  BY <1>1, Inductive, PTL

\* A dump that found the log file shows all of it (Server.cpp:95-102).
THEOREM DumpIsWholeAlways == Spec => []DumpIsWhole
<1>1. IInv => DumpIsWhole
  BY DEF IInv
<1> QED
  BY <1>1, Inductive, PTL
-----------------------------------------------------------------------------
(***************************************************************************)
(* The earlier server, logser.cpp.  Its threads share the buffer and the   *)
(* descriptor, so everything hangs on the mutex: which control points hold *)
(* it, and what the holder has put into buf and file_fd meanwhile.         *)
(***************************************************************************)
CONSTANTS Levels, FdLimit
VARIABLES buf, file_fd, fds, destaddr, level, sent, owed

Old == INSTANCE LogSer

\* What the buffer and the file can hold.
Blocks == Records \cup {Old!Blank} \cup {Old!Cmd(l) : l \in Levels}
FirstBlock == IF log = <<>> THEN Old!Blank ELSE log[1]

OldType ==
    /\ buf \in Blocks /\ log \in Seq(Blocks) /\ to_server \in Seq(Blocks)
    /\ owed \in Seq(Blocks) /\ sent \in Seq(Blocks)

OldLock ==
    /\ main \in {"format", "send", "unlockLevel", "open", "read", "show", "unlockDump"}
           => lock_x = "main"
    /\ recv \in {"open", "recvfrom", "write", "unlock"} => lock_x = "recv"

\* What the holder of the mutex relies on.
OldHeld ==
    /\ main \in {"lockLevel", "format", "send"} => level \in Levels
    /\ main = "send" => buf = Old!Cmd(level)
    /\ main = "show" => buf = FirstBlock
    /\ recv \in {"recvfrom", "write"} => file_fd = "append"

OldInv == OldType /\ OldLock /\ OldHeld /\ Old!RecordsWhole /\ Old!DumpShowsFirst

OldShared == <<buf, file_fd, log, sent, owed, shown, level>>

\* A step that touches neither the buffer nor a descriptor nor the histories.
LEMMA OldFrame ==
    ASSUME OldHeld, Old!RecordsWhole, Old!DumpShowsFirst, UNCHANGED OldShared,
           main' = main \/ main' \notin {"lockLevel", "format", "send", "show", "unlockDump"},
           recv' = recv \/ recv' \in {"failed", "loop", "lock", "open", "unlock", "done", "none"},
           recv = "write" => recv' \in {"write", "failed"},
           recv = "failed" => recv' = "failed"
    PROVE  OldHeld' /\ Old!RecordsWhole' /\ Old!DumpShowsFirst'
<1>1. OldHeld'
  BY DEF OldHeld, OldShared, FirstBlock
<1>2. Old!RecordsWhole'
  BY DEF Old!RecordsWhole, OldShared
<1>3. Old!DumpShowsFirst'
  BY DEF Old!DumpShowsFirst, OldShared
<1> QED
  BY <1>1, <1>2, <1>3

\* The blocks stay blocks, whoever moves them.
LEMMA OldTypeStep ==
    OldType /\ OldHeld /\ Old!RecordsWhole /\ [Old!Next]_Old!vars => OldType'
<1> SUFFICES ASSUME OldType, OldHeld, Old!RecordsWhole, [Old!Next]_Old!vars PROVE OldType'
    OBVIOUS
<1> USE DEF Old!menu, Old!disk, Old!network
<1>1. CASE UNCHANGED <<buf, log, to_server, owed, sent>>
  BY <1>1 DEF OldType, Blocks
<1>2. CASE Old!User \/ Old!Interrupt
  BY <1>1, <1>2 DEF Old!User, Old!ShutDown, Old!AskLevel, Old!AskDump, Old!PressKey,
     Old!Interrupt
<1>3. CASE Old!MenuLoop \/ Old!MainLock \/ Old!DumpOpen \/ Old!DumpOpenFails \/ Old!DumpShow
           \/ Old!MainUnlock \/ Old!Join
  BY <1>1, <1>3 DEF Old!MenuLoop, Old!MainLock, Old!DumpOpen, Old!DumpOpenFails, Old!DumpShow,
     Old!MainUnlock, Old!Join, Old!Open, Old!Fail
<1>4. CASE Old!FormatLevel
  <2>1. buf' \in Blocks
    BY <1>4 DEF Old!FormatLevel, OldHeld, Blocks
  <2> QED
    BY <1>4, <2>1 DEF Old!FormatLevel, OldType, Blocks
<1>5. CASE Old!SendLevel
  <2>1. sent' \in {sent, Append(sent, buf)}
    BY <1>5 DEF Old!SendLevel
  <2> QED
    BY <1>5, <2>1 DEF Old!SendLevel, OldType, Blocks
<1>6. CASE Old!DumpRead
  <2>1. log # <<>> => log[1] \in Blocks
    BY DEF OldType
  <2>2. buf' \in Blocks
    BY <1>6, <2>1 DEF Old!DumpRead, Blocks
  <2> QED
    BY <1>6, <2>2 DEF Old!DumpRead, OldType, Blocks
<1>7. CASE Old!RecvLoop \/ Old!RecvLock \/ Old!RecvOpen \/ Old!RecvOpenFails
           \/ Old!RecvFromFails \/ Old!RecvUnlock
  BY <1>1, <1>7 DEF Old!RecvLoop, Old!RecvLock, Old!RecvOpen, Old!RecvOpenFails,
     Old!RecvFromFails, Old!RecvUnlock, Old!Open, Old!Fail
<1>8. CASE Old!RecvFrom
  <2>1. Old!Blank \in Blocks
    BY DEF Blocks
  <2>2. CASE to_server # <<>>
    <3>1. /\ buf' = Head(to_server) /\ to_server' = Tail(to_server)
          /\ owed' = Append(owed, buf') /\ log' = log /\ sent' = sent
      BY <1>8, <2>2 DEF Old!RecvFrom
    <3>2. Head(to_server) \in Blocks /\ Tail(to_server) \in Seq(Blocks)
      BY <2>2 DEF OldType
    <3>3. owed' \in Seq(Blocks)
      BY <3>1, <3>2 DEF OldType
    <3> QED
      BY <3>1, <3>2, <3>3 DEF OldType, Blocks
  <2>3. CASE to_server = <<>>
    <3>1. buf' = Old!Blank /\ UNCHANGED <<log, to_server, owed, sent>>
      BY <1>8, <2>3 DEF Old!RecvFrom
    <3> QED
      BY <2>1, <3>1 DEF OldType, Blocks
  <2> QED
    BY <2>2, <2>3
<1>9. CASE Old!RecvWrite
  <2>1. log' \in {log, Append(log, buf)}
    BY <1>9 DEF Old!RecvWrite
  <2> QED
    BY <1>9, <2>1 DEF Old!RecvWrite, OldType, Blocks
<1>10. ASSUME NEW m \in Records, Old!ClientSend(m) PROVE OldType'
  <2>1. m \in Blocks
    BY DEF Blocks
  <2>2. to_server' \in {to_server, Append(to_server, m)}
    BY <1>10 DEF Old!ClientSend, Old!Deposit
  <2>3. to_server \in Seq(Blocks) => Append(to_server, m) \in Seq(Blocks)
    BY <2>1
  <2>4. to_server' \in Seq(Blocks)
    BY <2>2, <2>3 DEF OldType
  <2>5. UNCHANGED <<buf, log, owed, sent>>
    BY <1>10 DEF Old!ClientSend
  <2> QED
    BY <2>4, <2>5 DEF OldType
<1>11. CASE UNCHANGED Old!vars
  BY <1>1, <1>11 DEF Old!vars
<1>12. CASE Old!RecvWriteFails
  <2>1. owed' \in Seq(Blocks)
    <3>1. recv = "write" /\ recv # "failed"
      BY <1>12 DEF Old!RecvWriteFails
    <3>2. owed = log \o <<buf>>
      BY <3>1 DEF Old!RecordsWhole
    <3>3. Len(owed) \in Nat \ {0}
      BY <3>2 DEF OldType
    <3> QED
      BY <1>12, <3>3 DEF Old!RecvWriteFails, OldType
  <2> QED
    BY <1>12, <2>1 DEF Old!RecvWriteFails, OldType, Blocks
<1> QED
  BY <1>2, <1>3, <1>4, <1>5, <1>6, <1>7, <1>8, <1>9, <1>10, <1>11, <1>12
     DEF Old!Next, Old!MainStep, Old!RecvStep

\* The mutex is held from the first to the last use of the shared buffer.
LEMMA OldLockStep == OldLock /\ [Old!Next]_Old!vars => OldLock'
<1> SUFFICES ASSUME OldLock, [Old!Next]_Old!vars PROVE OldLock'
    OBVIOUS
<1> USE DEF OldLock, Old!menu, Old!disk, Old!network
<1>1. CASE Old!User \/ Old!Interrupt \/ \E m \in Records : Old!ClientSend(m)
  BY <1>1 DEF Old!User, Old!ShutDown, Old!AskLevel, Old!AskDump, Old!PressKey,
     Old!Interrupt, Old!ClientSend
<1>2. CASE Old!MenuLoop \/ Old!MainLock \/ Old!FormatLevel \/ Old!SendLevel
  BY <1>2 DEF Old!MenuLoop, Old!MainLock, Old!FormatLevel, Old!SendLevel
<1>3. CASE Old!DumpOpen \/ Old!DumpOpenFails \/ Old!DumpRead \/ Old!DumpShow
           \/ Old!MainUnlock \/ Old!Join
  BY <1>3 DEF Old!DumpOpen, Old!DumpOpenFails, Old!DumpRead, Old!DumpShow,
     Old!MainUnlock, Old!Join, Old!Open, Old!Fail
<1>4. CASE Old!RecvLoop \/ Old!RecvLock \/ Old!RecvOpen \/ Old!RecvOpenFails
           \/ Old!RecvFrom \/ Old!RecvFromFails \/ Old!RecvWrite \/ Old!RecvWriteFails
           \/ Old!RecvUnlock
  BY <1>4 DEF Old!RecvLoop, Old!RecvLock, Old!RecvOpen, Old!RecvOpenFails,
     Old!RecvFrom, Old!RecvFromFails, Old!RecvWrite, Old!RecvWriteFails,
     Old!RecvUnlock, Old!Open, Old!Fail
<1>5. CASE UNCHANGED Old!vars
  BY <1>5 DEF Old!vars
<1> QED
  BY <1>1, <1>2, <1>3, <1>4, <1>5 DEF Old!Next, Old!MainStep, Old!RecvStep

\* While one thread has the mutex the other puts nothing into buf and file_fd.
LEMMA OldHeldStep ==
    OldInv /\ [Old!Next]_Old!vars => OldHeld' /\ Old!RecordsWhole' /\ Old!DumpShowsFirst'
<1> SUFFICES ASSUME OldInv, [Old!Next]_Old!vars
             PROVE  OldHeld' /\ Old!RecordsWhole' /\ Old!DumpShowsFirst'
    OBVIOUS
<1> USE DEF Old!menu, Old!disk, Old!network
<1>0. OldType /\ OldLock /\ OldHeld /\ Old!RecordsWhole /\ Old!DumpShowsFirst
  BY DEF OldInv
<1>1. CASE Old!ShutDown \/ Old!AskDump \/ Old!PressKey \/ Old!Interrupt
           \/ \E m \in Records : Old!ClientSend(m)
  BY <1>0, <1>1, OldFrame DEF Old!ShutDown, Old!AskDump, Old!PressKey, Old!Interrupt,
     Old!ClientSend, OldShared
<1>2. CASE Old!AskLevel
  <2>1. OldHeld'
    BY <1>0, <1>2 DEF Old!AskLevel, OldHeld, FirstBlock
  <2> QED
    BY <1>0, <1>2, <2>1 DEF Old!AskLevel, Old!RecordsWhole, Old!DumpShowsFirst
<1>3. CASE Old!MenuLoop \/ Old!DumpOpenFails \/ Old!RecvOpenFails \/ Old!RecvFromFails
  BY <1>0, <1>3, OldFrame DEF Old!MenuLoop, Old!DumpOpenFails, Old!RecvOpenFails,
     Old!RecvFromFails, Old!Fail, OldShared
<1>4. CASE Old!MainLock \/ Old!MainUnlock
  <2>1. OldHeld'
    BY <1>0, <1>4 DEF Old!MainLock, Old!MainUnlock, OldHeld, FirstBlock
  <2> QED
    BY <1>0, <1>4, <2>1 DEF Old!MainLock, Old!MainUnlock, Old!RecordsWhole, Old!DumpShowsFirst
<1>5. CASE Old!FormatLevel
  <2>1. recv \notin {"write", "recvfrom"}
    BY <1>0, <1>5 DEF Old!FormatLevel, OldLock
  <2>2. OldHeld'
    BY <1>0, <1>5, <2>1 DEF Old!FormatLevel, OldHeld
  <2> QED
    BY <1>0, <1>5, <2>1, <2>2 DEF Old!FormatLevel, Old!RecordsWhole, Old!DumpShowsFirst
<1>6. CASE Old!SendLevel
  <2>1. main = "send" /\ main' = "unlockLevel" /\ UNCHANGED <<recv, buf, level, shown, file_fd, log, owed>>
    BY <1>6 DEF Old!SendLevel
  <2>2. sent' \in {sent, Append(sent, buf)} /\ buf = Old!Cmd(level) /\ level \in Levels
    BY <1>0, <1>6 DEF Old!SendLevel, OldHeld
  <2>3. sent \in Seq(Blocks) /\ buf \in Blocks
    BY <1>0 DEF OldType
  <2>4. ASSUME NEW x \in 1..Len(sent') PROVE \E l \in Levels : sent'[x] = Old!Cmd(l)
    <3>1. x \in 1..Len(sent) \/ (sent' = Append(sent, buf) /\ x = Len(sent) + 1)
      BY <2>2, <2>3
    <3>2. CASE x \in 1..Len(sent)
      <4>1. sent'[x] = sent[x]
        BY <2>2, <2>3, <3>2
      <4> QED
        BY <1>0, <3>2, <4>1 DEF Old!RecordsWhole
    <3>3. CASE sent' = Append(sent, buf) /\ x = Len(sent) + 1
      <4>1. sent'[x] = buf
        BY <2>3, <3>3
      <4> QED
        BY <2>2, <4>1
    <3> QED
      BY <3>1, <3>2, <3>3
  <2>5. Old!RecordsWhole'
    BY <1>0, <2>1, <2>4 DEF Old!RecordsWhole
  <2> QED
    BY <1>0, <2>1, <2>5 DEF OldHeld, Old!DumpShowsFirst
<1>7. CASE Old!DumpOpen
  <2>1. recv \notin {"write", "recvfrom"}
    BY <1>0, <1>7 DEF Old!DumpOpen, OldLock
  <2> QED
    BY <1>0, <1>7, <2>1 DEF Old!DumpOpen, Old!Open, OldHeld, FirstBlock, Old!RecordsWhole,
       Old!DumpShowsFirst
<1>8. CASE Old!DumpRead
  <2>1. recv \notin {"write", "recvfrom"}
    BY <1>0, <1>8 DEF Old!DumpRead, OldLock
  <2>2. OldHeld'
    BY <1>0, <1>8, <2>1 DEF Old!DumpRead, OldHeld, FirstBlock
  <2> QED
    BY <1>0, <1>8, <2>1, <2>2 DEF Old!DumpRead, Old!RecordsWhole, Old!DumpShowsFirst
<1>9. CASE Old!DumpShow
  <2>1. Old!DumpShowsFirst'
    BY <1>0, <1>9 DEF Old!DumpShow, Old!DumpShowsFirst, OldHeld, FirstBlock
  <2>2. OldHeld'
    BY <1>0, <1>9 DEF Old!DumpShow, OldHeld
  <2> QED
    BY <1>0, <1>9, <2>1, <2>2 DEF Old!DumpShow, Old!RecordsWhole
<1>10. CASE Old!Join
  <2>1. OldHeld'
    BY <1>0, <1>10 DEF Old!Join, OldHeld
  <2> QED
    BY <1>0, <1>10, <2>1 DEF Old!Join, Old!RecordsWhole, Old!DumpShowsFirst
<1>11. CASE Old!RecvLoop \/ Old!RecvLock \/ Old!RecvUnlock
  BY <1>0, <1>11, OldFrame DEF Old!RecvLoop, Old!RecvLock, Old!RecvUnlock, OldShared
<1>12. CASE Old!RecvOpen
  BY <1>0, <1>12 DEF Old!RecvOpen, Old!Open, OldHeld, FirstBlock, Old!RecordsWhole,
     Old!DumpShowsFirst
<1>13. CASE Old!RecvFrom
  <2>1. /\ main \notin {"send", "show"} /\ main' = main /\ recv = "recvfrom" /\ file_fd' = file_fd
        /\ UNCHANGED <<level, log, sent, shown>>
    BY <1>0, <1>13 DEF Old!RecvFrom, OldLock
  <2>2. OldHeld'
    BY <1>0, <2>1 DEF OldHeld, FirstBlock
  <2>3. owed = log \o <<>>
    BY <1>0, <2>1 DEF Old!RecordsWhole
  <2>4. CASE to_server # <<>>
    <3>1. recv' = "write" /\ owed' = Append(owed, buf') /\ buf' = Head(to_server)
      BY <1>13, <2>4 DEF Old!RecvFrom
    <3>2. log \in Seq(Blocks) /\ owed \in Seq(Blocks) /\ buf' \in Blocks
      BY <1>0, <2>4, <3>1 DEF OldType
    <3>3. owed' = log \o <<buf'>>
      BY <2>3, <3>1, <3>2
    <3> QED
      BY <1>0, <2>1, <2>2, <3>1, <3>3 DEF Old!RecordsWhole, Old!DumpShowsFirst
  <2>5. CASE to_server = <<>>
    <3>1. recv' = "unlock" /\ owed' = owed
      BY <1>13, <2>5 DEF Old!RecvFrom
    <3> QED
      BY <1>0, <2>1, <2>2, <3>1 DEF Old!RecordsWhole, Old!DumpShowsFirst
  <2> QED
    BY <2>4, <2>5
<1>14. CASE Old!RecvWrite
  <2>1. /\ main \notin {"show", "unlockDump"} /\ main' = main /\ recv = "write" /\ recv' = "unlock"
        /\ UNCHANGED <<level, sent, shown, owed, buf, file_fd>>
    BY <1>0, <1>14 DEF Old!RecvWrite, OldLock
  <2>2. log' = Append(log, buf)
    BY <1>0, <1>14 DEF Old!RecvWrite, OldHeld
  <2>3. owed = log \o <<buf>> /\ log \in Seq(Blocks) /\ buf \in Blocks
    BY <1>0, <2>1 DEF Old!RecordsWhole, OldType
  <2>4. owed = log' \o <<>>
    BY <2>2, <2>3
  <2> QED
    BY <1>0, <2>1, <2>4 DEF OldHeld, Old!RecordsWhole, Old!DumpShowsFirst
<1>15. CASE Old!RecvWriteFails
  <2>1. /\ main' = main /\ recv = "write" /\ recv' = "unlock"
        /\ UNCHANGED <<level, sent, shown, log, buf, file_fd>>
    BY <1>15 DEF Old!RecvWriteFails
  <2>2. owed = log \o <<buf>> /\ log \in Seq(Blocks) /\ buf \in Blocks
    BY <1>0, <2>1 DEF Old!RecordsWhole, OldType
  <2>3. owed' = SubSeq(owed, 1, Len(owed) - 1)
    BY <1>15 DEF Old!RecvWriteFails
  <2>4. owed' = log' \o <<>>
    <3>1. Len(owed) = Len(log) + 1 /\ owed \in Seq(Blocks)
      BY <2>2
    <3>2. owed' = SubSeq(owed, 1, Len(log))
      BY <2>2, <2>3, <3>1
    <3>3. SubSeq(owed, 1, Len(log)) = log
      BY <2>2, <3>1
    <3> QED
      BY <2>1, <2>2, <3>2, <3>3
  <2>5. OldHeld'
    BY <1>0, <2>1 DEF OldHeld, FirstBlock
  <2> QED
    BY <1>0, <2>1, <2>4, <2>5 DEF Old!RecordsWhole, Old!DumpShowsFirst
<1>16. CASE UNCHANGED Old!vars
  BY <1>0, <1>16, OldFrame DEF Old!vars, OldShared
<1> QED
  BY <1>1, <1>2, <1>3, <1>4, <1>5, <1>6, <1>7, <1>8, <1>9, <1>10, <1>11, <1>12, <1>13, <1>14,
     <1>15, <1>16 DEF Old!Next, Old!User, Old!MainStep, Old!RecvStep

\* The inductive invariant of the earlier server.
LEMMA OldInductive == Old!Spec => []OldInv
<1>1. Old!Init => OldInv
  <2> SUFFICES ASSUME Old!Init PROVE OldInv
      OBVIOUS
  <2>1. OldType
    BY DEF Old!Init, OldType, Blocks
  <2>2. Old!RecordsWhole
    BY DEF Old!Init, Old!RecordsWhole
  <2> QED
    BY <2>1, <2>2 DEF Old!Init, OldInv, OldLock, OldHeld, Old!DumpShowsFirst
<1>2. OldInv /\ [Old!Next]_Old!vars => OldInv'
  BY OldTypeStep, OldLockStep, OldHeldStep DEF OldInv
<1> QED
  BY <1>1, <1>2, PTL DEF Old!Spec

\* In the earlier server, too, the file is what was taken from the socket, but for
\* the records whose own write() failed, and only commands with a level the user
\* typed are sent, although records, commands and dumps go through one buffer and
\* one descriptor (logser.cpp:75-90, 124-142).
THEOREM RecordsWholeAlways == Old!Spec => []Old!RecordsWhole
<1>1. OldInv => Old!RecordsWhole
  BY DEF OldInv
<1> QED
  BY <1>1, OldInductive, PTL

\* And its dump shows the file's first block, whatever the receive thread does
\* with the buffer (logser.cpp:82-90).
THEOREM DumpShowsFirstAlways == Old!Spec => []Old!DumpShowsFirst
<1>1. OldInv => Old!DumpShowsFirst
  BY DEF OldInv
<1> QED
  BY <1>1, OldInductive, PTL
=============================================================================
