---------------------------- MODULE LoggerProofs ----------------------------
(***************************************************************************)
(* Safety of the logger, under any application and under the travel        *)
(* simulator, for every choice of the constants.                           *)
(***************************************************************************)
EXTENDS TravelSimulator, TLAPS

-----------------------------------------------------------------------------
(* Datagrams and receive buffers *)

\* Whatever arrives at a receive buffer, the buffer stays a sequence of
\* datagrams.
LEMMA DepositType ==
    ASSUME NEW q \in Seq(Datagram), NEW m \in Datagram
    PROVE  /\ Deposit(q, m) \in Seq(Datagram)
           /\ Arrivals(q, m) \subseteq Seq(Datagram)
BY DEF Deposit, Arrivals

\* The three kinds of datagram are datagrams.
LEMMA DatagramTypes ==
    /\ Blank \in Datagram
    /\ \A l \in Nat : Cmd(l) \in Datagram
    /\ \A l \in Nat, k \in Nat : Record(l, k) \in Datagram
BY DEF Blank, Cmd, Record, Datagram

-----------------------------------------------------------------------------
(* The inductive invariant *)

\* Who holds the mutex is told by the control points; no receive thread exists
\* before pthread_create().
LockInv ==
    /\ lock_x = "main" <=> main \in {"format", "send", "unlock"}
    /\ lock_x = "recv" <=> recv \in {"recvfrom", "unlock"}
    /\ main \in {"init", "create"} => recv = "none"

\* When a late record has gone out, the Log() call in progress, if any, has
\* passed the test against the filter now in force.
LateInv ==
    /\ late \in {0, 1}
    /\ late = 1 /\ main \in {"lock", "format", "send"} => call.level >= filter

IInv == TypeOK /\ LockInv /\ SendsOwnRecord /\ LateInv

\* A step of the logger under whatever application: the simulator's calls are
\* not counted as those of Application are, and need not be of AppLevels.
LogStep ==
    \/ MainStep \/ RecvStep \/ ServerTakes \/ ExitLog
    \/ \E l \in LOG_LEVEL : SetLogLevel(l) \/ FilterTest(l) \/ (LogTest(l, 0) /\ calls' = calls)
    \/ \E l \in CmdLevels : ServerCommand(l)

\* What it does under an application of Logger, and under the simulator.
LEMMA NextIsLogStep == [Next]_vars => [LogStep]_vars
BY LoggerAssumption DEF Next, Application, LogStep

LEMMA SimNextIsLogStep == [SimNext]_allVars => [LogStep]_vars
<1> SUFFICES ASSUME [SimNext]_allVars PROVE [LogStep]_vars
    OBVIOUS
<1>1. DEBUG \in LOG_LEVEL /\ WARNING \in LOG_LEVEL /\ ERROR \in LOG_LEVEL
  BY DEF DEBUG, WARNING, ERROR, LOG_LEVEL
<1>2. CASE LoggerStep
  BY <1>2 DEF LoggerStep, LogStep
<1>3. CASE Application \/ \E l \in CmdLevels : ServerCommand(l)
  BY <1>3, LoggerAssumption DEF Application, LogStep
<1>4. CASE SetLevel \/ Note \/ Exit
  BY <1>1, <1>4 DEF SetLevel, Note, Exit, LogStep
<1>5. CASE Run \/ While \/ Turn \/ shutdownHandler \/ UNCHANGED allVars
  BY <1>5 DEF Run, While, Turn, shutdownHandler, allVars, logVars
<1>6. CASE Car
  BY <1>1, <1>6 DEF Car, addFuel, drive, Report, NoReport, logVars, LogStep
<1> QED
  BY <1>2, <1>3, <1>4, <1>5, <1>6 DEF SimNext, Simulator

-----------------------------------------------------------------------------
\* The threads, the filter, the buffer and both socket buffers start in their types.
LEMMA TypeOKInit == Init => TypeOK
BY LoggerAssumption, DatagramTypes
   DEF Init, TypeOK, MainPC, RecvPC, LOG_LEVEL, DEBUG

\* Every step of either thread and of the surroundings keeps the types.
LEMMA TypeOKStep == TypeOK /\ [LogStep]_vars => TypeOK'
<1> SUFFICES ASSUME TypeOK, [LogStep]_vars PROVE TypeOK'
    OBVIOUS
<1> USE LoggerAssumption, DatagramTypes
    DEF TypeOK, MainPC, RecvPC, LOG_LEVEL, ERROR, WriteFilter, mainVars, recvVars,
        network, shared
<1>1. CASE OpenSocket
  BY <1>1 DEF OpenSocket
<1>2. CASE CreateThread \/ CreateFails
  BY <1>2 DEF CreateThread, CreateFails
<1>3. CASE StoreRet \/ TestRet \/ InitFilter
  BY <1>3 DEF StoreRet, TestRet, InitFilter
<1>4. CASE LogLock \/ LogFormat \/ LogUnlock \/ CloseSocket
  BY <1>4 DEF LogLock, LogFormat, LogUnlock, CloseSocket
<1>5. CASE LogSend
  <2>1. to_server' \in Seq(Datagram)
    BY <1>5, DepositType DEF LogSend
  <2>2. late' \in Nat
    <3>1. late' = late \/ late' = late + 1
      BY <1>5 DEF LogSend
    <3> QED
      BY <3>1
  <2> QED
    BY <1>5, <2>1, <2>2 DEF LogSend
<1>6. ASSUME NEW l \in LOG_LEVEL, SetLogLevel(l) \/ FilterTest(l) \/ (LogTest(l, 0) /\ calls' = calls) PROVE TypeOK'
  BY <1>6 DEF SetLogLevel, FilterTest, LogTest
<1>7. CASE ExitLog
  BY <1>7 DEF ExitLog
<1>8. CASE RecvStart \/ RecvLoop \/ RecvLock \/ RecvUnlock \/ RecvTest \/ RecvSnap
           \/ RecvCompare \/ RecvStore
  <2>1. CASE RecvStart \/ RecvLock \/ RecvUnlock \/ RecvSnap
    BY <2>1 DEF RecvStart, RecvLock, RecvUnlock, RecvSnap
  <2>2. CASE RecvLoop
    <3>1. recv' \in RecvPC
      BY <2>2 DEF RecvLoop
    <3> QED
      BY <2>2, <3>1 DEF RecvLoop
  <2>3. CASE RecvTest \/ RecvCompare
    BY <2>3 DEF RecvTest, RecvCompare
  <2>4. CASE RecvStore
    BY <2>4 DEF RecvStore
  <2> QED
    BY <1>8, <2>1, <2>2, <2>3, <2>4
<1>9. CASE RecvFrom
  BY <1>9 DEF RecvFrom
<1>10. CASE RecvParse
  BY <1>10 DEF RecvParse, IsCommand
<1>11. ASSUME NEW l \in CmdLevels, ServerCommand(l) PROVE TypeOK'
  BY <1>11, DepositType DEF ServerCommand
<1>12. CASE ServerTakes
  <2>1. to_server' \in Seq(Datagram)
    <3>1. to_server # <<>> /\ to_server' \in {Tail(to_server), <<>>}
      BY <1>12 DEF ServerTakes
    <3>2. Tail(to_server) \in Seq(Datagram) /\ <<>> \in Seq(Datagram)
      BY <3>1
    <3> QED
      BY <3>1, <3>2
  <2> QED
    BY <1>12, <2>1 DEF ServerTakes
<1>13. CASE UNCHANGED vars
  BY <1>13 DEF vars
<1> QED
  BY <1>1, <1>2, <1>3, <1>4, <1>5, <1>6, <1>7, <1>8, <1>9, <1>10, <1>11, <1>12,
     <1>13
     DEF LogStep, MainStep, MainLocal, RecvStep, RecvLocal

-----------------------------------------------------------------------------
\* The control points keep telling who holds the mutex.
LEMMA LockInvStep == LockInv /\ [LogStep]_vars => LockInv'
<1> SUFFICES ASSUME LockInv, [LogStep]_vars PROVE LockInv'
    OBVIOUS
<1> USE DEF LockInv, mainVars, recvVars, network, shared
<1>1. CASE OpenSocket \/ CreateThread \/ CreateFails \/ StoreRet
  BY <1>1 DEF OpenSocket, CreateThread, CreateFails, StoreRet
<1>2. CASE TestRet \/ InitFilter
  BY <1>2 DEF TestRet, InitFilter
<1>3. CASE LogLock \/ LogFormat \/ LogSend \/ LogUnlock \/ CloseSocket
  BY <1>3 DEF LogLock, LogFormat, LogSend, LogUnlock, CloseSocket
<1>4. ASSUME NEW l \in LOG_LEVEL, SetLogLevel(l) \/ FilterTest(l) \/ (LogTest(l, 0) /\ calls' = calls) PROVE LockInv'
  BY <1>4 DEF SetLogLevel, FilterTest, LogTest
<1>5. CASE ExitLog
  BY <1>5 DEF ExitLog
<1>6. CASE RecvStart \/ RecvLoop \/ RecvLock \/ RecvFrom \/ RecvUnlock
  BY <1>6 DEF RecvStart, RecvLoop, RecvLock, RecvFrom, RecvUnlock
<1>7. CASE RecvTest \/ RecvSnap \/ RecvParse \/ RecvCompare \/ RecvStore
  BY <1>7 DEF RecvTest, RecvSnap, RecvParse, RecvCompare, RecvStore
<1>8. ASSUME NEW l \in CmdLevels, ServerCommand(l) PROVE LockInv'
  BY <1>8 DEF ServerCommand
<1>9. CASE ServerTakes \/ UNCHANGED vars
  BY <1>9 DEF ServerTakes, vars
<1> QED
  BY <1>1, <1>2, <1>3, <1>4, <1>5, <1>6, <1>7, <1>8, <1>9
     DEF LogStep, MainStep, MainLocal, RecvStep, RecvLocal

\* Between formatting and sending, main holds the mutex, so RecvFrom, the one
\* step of the other thread that writes buf, is not enabled.
LEMMA SendsOwnRecordStep ==
    LockInv /\ SendsOwnRecord /\ [LogStep]_vars => SendsOwnRecord'
<1> SUFFICES ASSUME LockInv, SendsOwnRecord, [LogStep]_vars PROVE SendsOwnRecord'
    OBVIOUS
<1> USE DEF SendsOwnRecord, mainVars, recvVars, network, shared
<1>1. CASE LogFormat
  BY <1>1 DEF LogFormat
<1>2. CASE RecvFrom
  BY <1>2 DEF RecvFrom, LockInv
<1>3. CASE OpenSocket \/ CreateThread \/ CreateFails \/ StoreRet \/ TestRet
           \/ InitFilter \/ LogLock \/ LogSend \/ LogUnlock \/ CloseSocket \/ ExitLog
  BY <1>3 DEF OpenSocket, CreateThread, CreateFails, StoreRet, TestRet,
              InitFilter, LogLock, LogSend, LogUnlock, CloseSocket, ExitLog
<1>4. ASSUME NEW l \in LOG_LEVEL, SetLogLevel(l) \/ FilterTest(l) \/ (LogTest(l, 0) /\ calls' = calls)
      PROVE  SendsOwnRecord'
  BY <1>4 DEF SetLogLevel, FilterTest, LogTest
<1>5. CASE RecvStart \/ RecvLoop \/ RecvLock \/ RecvUnlock \/ RecvTest \/ RecvSnap
           \/ RecvParse \/ RecvCompare \/ RecvStore
  BY <1>5 DEF RecvStart, RecvLoop, RecvLock, RecvUnlock, RecvTest, RecvSnap,
              RecvParse, RecvCompare, RecvStore
<1>6. ASSUME NEW l \in CmdLevels, ServerCommand(l) PROVE SendsOwnRecord'
  BY <1>6 DEF ServerCommand
<1>7. CASE ServerTakes \/ UNCHANGED vars
  BY <1>7 DEF ServerTakes, vars
<1> QED
  BY <1>1, <1>2, <1>3, <1>4, <1>5, <1>6, <1>7
     DEF LogStep, MainStep, MainLocal, RecvStep, RecvLocal

\* A write that changes the filter restarts the count; a write that does not
\* keeps the promise LateInv makes of the call in progress.
LEMMA LateInvWrite ==
    ASSUME TypeOK, LateInv, NEW l, WriteFilter(l), UNCHANGED call,
           main' \in {"lock", "format", "send"} => main' = main
    PROVE  LateInv'
<1>1. CASE l # filter
  BY <1>1 DEF WriteFilter, LateInv
<1>2. CASE l = filter
  BY <1>2 DEF WriteFilter, LateInv
<1> QED
  BY <1>1, <1>2

\* The one step that counts a late record is LogSend, and what it sends is the
\* record of the call in progress.
LEMMA LateInvStep ==
    TypeOK /\ SendsOwnRecord /\ LateInv /\ [LogStep]_vars => LateInv'
<1> SUFFICES ASSUME TypeOK, SendsOwnRecord, LateInv, [LogStep]_vars PROVE LateInv'
    OBVIOUS
<1> USE DEF mainVars, recvVars, network, shared
<1>1. CASE LogSend
  <2>1. buf = call /\ main = "send" /\ main' = "unlock"
    BY <1>1 DEF LogSend, SendsOwnRecord
  <2>2. late = 1 => ~(buf.level < filter)
    <3>1. filter \in Nat /\ buf.level \in Nat
      BY DEF TypeOK, Datagram, LOG_LEVEL
    <3> QED
      BY <2>1, <3>1 DEF LateInv
  <2>3. late' \in {0, 1}
    BY <1>1, <2>2 DEF LogSend, LateInv
  <2> QED
    BY <2>1, <2>3 DEF LateInv
<1>2. ASSUME NEW l \in LOG_LEVEL, FilterTest(l) \/ (LogTest(l, 0) /\ calls' = calls) PROVE LateInv'
  <2>1. CASE l < filter
    BY <1>2, <2>1 DEF FilterTest, LogTest, LateInv
  <2>2. CASE ~(l < filter)
    <3>1. l \in Nat /\ filter \in Nat
      BY LoggerAssumption DEF TypeOK, LOG_LEVEL
    <3>2. call'.level = l /\ UNCHANGED <<filter, late>>
      BY <1>2, <2>2 DEF FilterTest, LogTest, Record
    <3> QED
      BY <2>2, <3>1, <3>2 DEF LateInv
  <2> QED
    BY <2>1, <2>2
<1>3. ASSUME NEW l \in LOG_LEVEL, SetLogLevel(l) PROVE LateInv'
  BY <1>3, LateInvWrite DEF SetLogLevel
<1>4. CASE InitFilter
  BY <1>4, LateInvWrite DEF InitFilter
<1>5. CASE RecvStore
  BY <1>5, LateInvWrite DEF RecvStore
<1>6. CASE OpenSocket \/ CreateThread \/ CreateFails \/ StoreRet \/ TestRet
           \/ LogLock \/ LogFormat \/ LogUnlock \/ CloseSocket \/ ExitLog
  BY <1>6 DEF OpenSocket, CreateThread, CreateFails, StoreRet, TestRet, LogLock,
              LogFormat, LogUnlock, CloseSocket, ExitLog, LateInv
<1>7. CASE RecvStart \/ RecvLoop \/ RecvLock \/ RecvFrom \/ RecvUnlock \/ RecvTest
           \/ RecvSnap \/ RecvParse \/ RecvCompare
  BY <1>7 DEF RecvStart, RecvLoop, RecvLock, RecvFrom, RecvUnlock, RecvTest,
              RecvSnap, RecvParse, RecvCompare, LateInv
<1>8. ASSUME NEW l \in CmdLevels, ServerCommand(l) PROVE LateInv'
  BY <1>8 DEF ServerCommand, LateInv
<1>9. CASE ServerTakes \/ UNCHANGED vars
  BY <1>9 DEF ServerTakes, vars, LateInv
<1> QED
  BY <1>1, <1>2, <1>3, <1>4, <1>5, <1>6, <1>7, <1>8, <1>9
     DEF LogStep, MainStep, MainLocal, RecvStep, RecvLocal

-----------------------------------------------------------------------------
\* The inductive invariant holds of every reachable state of the logger, under
\* any application and under the simulator.
THEOREM Inductive == (Spec => []IInv) /\ (SimSpec => []IInv)
<1>1. Init => IInv
  BY TypeOKInit DEF Init, IInv, LockInv, SendsOwnRecord, LateInv
<1>2. IInv /\ [LogStep]_vars => IInv'
  BY TypeOKStep, LockInvStep, SendsOwnRecordStep, LateInvStep DEF IInv
<1>3. Spec => []IInv
  BY <1>1, <1>2, NextIsLogStep, PTL DEF Spec
<1>4. AppInit => Init
  BY DEF AppInit
<1>5. SimSpec => AppInit /\ [][SimNext]_allVars
  BY PTL DEF SimSpec
<1>6. SimSpec => []IInv
  BY <1>1, <1>2, <1>4, <1>5, SimNextIsLogStep, PTL
<1> QED
  BY <1>3, <1>6

\* Every variable of the logger keeps to its type, whatever the levels used and
\* however many calls and commands there are.
THEOREM TypeCorrect == (Spec => []TypeOK) /\ (SimSpec => []TypeOK)
<1>1. IInv => TypeOK
  BY DEF IInv
<1> QED
  BY <1>1, Inductive, PTL

\* Log() sends the record it formatted and never what the receive thread left
\* in the shared buffer (Logger.cpp:116-123).
THEOREM SendsOwnRecordAlways == (Spec => []SendsOwnRecord) /\ (SimSpec => []SendsOwnRecord)
<1>1. IInv => SendsOwnRecord
  BY DEF IInv
<1> QED
  BY <1>1, Inductive, PTL

\* However the filter is changed and by whom, at most one record below it
\* leaves the process until it is changed again (Logger.cpp:106-121).
THEOREM AtMostOneLateAlways == (Spec => []AtMostOneLate) /\ (SimSpec => []AtMostOneLate)
<1>1. IInv => AtMostOneLate
  BY DEF IInv, LateInv, AtMostOneLate
<1> QED
  BY <1>1, Inductive, PTL

-----------------------------------------------------------------------------
(* The tours of the simulator *)

\* The cars as a leg leaves them.  A city tour never ends with an empty tank and
\* no report of it: no distance takes just what a tank holds.
Empty(c)   == fuelInTank[c] = 0 /\ reports[c] = {}
Full(c)    == fuelInTank[c] = Tank /\ reports[c] = {}
Driven(c)  == \/ fuelInTank[c] = 0 /\ reports[c] = {<<"city", ERROR>>}
              \/ fuelInTank[c] \in 1..Tank /\ reports[c] = {}
Told(c)    == reports[c] \in {{<<"city", ERROR>>}, {<<"refill", WARNING>>}}

CarType ==
    /\ next \in 1..5 /\ track \in 1..5
    /\ fuelInTank \in [Cars -> Int]
    /\ reports \in [Cars -> SUBSET ({"fill", "city", "refill", "highway"} \X LOG_LEVEL)]

\* A tour begins with the first car, and a leg changes the cars one by one.
TourInv ==
    /\ app \notin {"fill", "city", "refill", "highway"} => next = 1
    /\ app = "fill" => \A c \in Cars : IF c < next THEN Full(c) ELSE Empty(c)
    /\ app = "city" => \A c \in Cars : IF c < next THEN Driven(c) ELSE Full(c)
    /\ app = "refill" => \A c \in Cars : IF c < next THEN Told(c) ELSE Driven(c)

CarInv == CarType /\ TourInv

\* A step that is not the simulator's, or changes no car, keeps the tour.
LEMMA CarFrame ==
    ASSUME CarInv, UNCHANGED <<app, next, fuelInTank, track, reports>> PROVE CarInv'
BY DEF CarInv, CarType, TourInv, Empty, Full, Driven, Told

\* What the city takes of a full tank is never just all of it.
LEMMA CityTakes ==
    ASSUME NEW t \in 1..5, NEW c \in Cars
    PROVE  t * City[c] \in Nat \ {0, Tank}
<1>1. c = 1 \/ c = 2 \/ c = 3 \/ c = 4
  BY DEF Cars
<1>2. City[c] \in {820, 780, 1060, 1729}
  BY <1>1 DEF City
<1>3. t = 1 \/ t = 2 \/ t = 3 \/ t = 4 \/ t = 5
  OBVIOUS
<1> QED
  BY <1>2, <1>3 DEF Tank

\* One car's part of a leg: its tank and its reports change as the leg asks.
LEMMA CarLeg ==
    ASSUME CarInv, Car
    PROVE  CarInv'
<1> DEFINE c == next
<1>1. /\ c \in Cars /\ c \in Int /\ app' = app /\ track' = track /\ next' = c + 1
      /\ next' \in 1..5
  BY DEF Car, CarInv, CarType, Cars
<1>2. app \in {"fill", "city", "refill", "highway"}
  BY DEF Car
<1>3. PICK f, r : /\ f \in Int
                  /\ fuelInTank' = [fuelInTank EXCEPT ![c] = f]
                  /\ reports' = [reports EXCEPT ![c] = r]
                  /\ r \subseteq reports[c] \cup {<<app, WARNING>>, <<app, ERROR>>}
                  /\ app = "fill" /\ Empty(c) => f = Tank /\ r = {}
                  /\ app = "city" /\ Full(c) =>
                        \/ f = 0 /\ r = {<<"city", ERROR>>}
                        \/ f \in 1..Tank /\ r = {}
                  /\ app = "refill" /\ Driven(c) =>
                        r \in {{<<"city", ERROR>>}, {<<"refill", WARNING>>}}
  <2> DEFINE g == fuelInTank[c]
  <2>0. g \in Int /\ reports = [reports EXCEPT ![c] = reports[c]]
    BY <1>1 DEF CarInv, CarType
  <2>1. CASE app \in {"fill", "refill"}
    <3>0. addFuel(c) /\ Tank \in Int /\ g + Tank \in Int
      BY <2>0, <2>1 DEF Car, Tank
    <3>1. CASE g + Tank > Tank
      <4>1. /\ fuelInTank' = [fuelInTank EXCEPT ![c] = Tank]
            /\ reports' = [reports EXCEPT ![c] = reports[c] \cup {<<app, WARNING>>}]
        BY <3>0, <3>1 DEF addFuel, Report
      <4>2. app = "fill" => ~Empty(c)
        BY <3>1 DEF Empty, Tank
      <4>3. app = "refill" /\ Driven(c) => reports[c] = {}
        BY <3>1 DEF Driven, Tank
      <4> QED
        BY <2>1, <3>0, <4>1, <4>2, <4>3
    <3>2. CASE ~(g + Tank > Tank)
      <4>1. /\ fuelInTank' = [fuelInTank EXCEPT ![c] = g + Tank]
            /\ reports' = [reports EXCEPT ![c] = reports[c]]
        BY <2>0, <3>0, <3>2 DEF addFuel, NoReport
      <4>2. app = "fill" /\ Empty(c) => g + Tank = Tank /\ reports[c] = {}
        BY DEF Empty, Tank
      <4>3. app = "refill" /\ Driven(c) => reports[c] = {<<"city", ERROR>>}
        <5>1. g \notin 1..Tank
          <6>1. \A k \in Int : k + 5000 > 5000 \/ k <= 0
            OBVIOUS
          <6>2. g <= 0
            BY <2>0, <3>2, <6>1 DEF Tank
          <6> QED
            BY <2>0, <6>2
        <5> QED
          BY <5>1 DEF Driven
      <4> QED
        BY <2>1, <3>0, <4>1, <4>2, <4>3
    <3> QED
      BY <3>1, <3>2
  <2>2. CASE app = "city"
    <3>0. drive(c, track * City[c]) /\ track * City[c] \in Nat \ {0, Tank}
      BY <1>1, <2>2, CityTakes DEF Car, CarInv, CarType
    <3>1. CASE g - track * City[c] < 0
      <4>1. /\ fuelInTank' = [fuelInTank EXCEPT ![c] = 0]
            /\ reports' = [reports EXCEPT ![c] = reports[c] \cup {<<app, ERROR>>}]
        BY <3>0, <3>1 DEF drive, Report
      <4>2. Full(c) => reports[c] \cup {<<app, ERROR>>} = {<<"city", ERROR>>}
        BY <2>2 DEF Full
      <4>3. PICK z \in Int : z = 0
        OBVIOUS
      <4>4. fuelInTank' = [fuelInTank EXCEPT ![c] = z]
        BY <4>1, <4>3
      <4> QED
        BY <2>2, <4>1, <4>2, <4>3, <4>4
    <3>2. CASE ~(g - track * City[c] < 0)
      <4>1. /\ fuelInTank' = [fuelInTank EXCEPT ![c] = g - track * City[c]]
            /\ reports' = [reports EXCEPT ![c] = reports[c]]
        BY <2>0, <3>0, <3>2 DEF drive, NoReport
      <4>2. Full(c) => g - track * City[c] \in 1..Tank /\ reports[c] = {}
        <5>1. ASSUME NEW k \in Nat \ {0, Tank}, g = Tank, ~(g - k < 0) PROVE g - k \in 1..Tank
          BY <5>1 DEF Tank
        <5> QED
          BY <3>0, <3>2, <5>1 DEF Full
      <4>3. g - track * City[c] \in Int
        BY <2>0, <3>0
      <4> QED
        BY <2>2, <4>1, <4>2, <4>3
    <3> QED
      BY <3>1, <3>2
  <2>3. CASE app = "highway"
    <3>0. PICK k : drive(c, k) /\ k = (5 - track) * Highway[c]
      BY <2>3 DEF Car
    <3>1. k \in Int
      <4>1. c = 1 \/ c = 2 \/ c = 3 \/ c = 4
        BY <1>1 DEF Cars
      <4>2. Highway[c] \in Int /\ 5 - track \in Int
        BY <4>1 DEF Highway, CarInv, CarType
      <4> QED
        BY <3>0, <4>2
    <3>2. CASE g - k < 0
      <4>1. /\ fuelInTank' = [fuelInTank EXCEPT ![c] = 0]
            /\ reports' = [reports EXCEPT ![c] = reports[c] \cup {<<app, ERROR>>}]
        BY <3>0, <3>2 DEF drive, Report
      <4>2. PICK z \in Int : z = 0
        OBVIOUS
      <4>3. fuelInTank' = [fuelInTank EXCEPT ![c] = z]
        BY <4>1, <4>2
      <4> QED
        BY <2>3, <4>1, <4>3
    <3>3. CASE ~(g - k < 0)
      <4>1. /\ fuelInTank' = [fuelInTank EXCEPT ![c] = g - k]
            /\ reports' = [reports EXCEPT ![c] = reports[c]]
        BY <2>0, <3>0, <3>3 DEF drive, NoReport
      <4>2. g - k \in Int
        BY <2>0, <3>1
      <4> QED
        BY <2>3, <4>1, <4>2
    <3> QED
      BY <3>2, <3>3
  <2> QED
    BY <1>2, <2>1, <2>2, <2>3
<1>4. CarType'
  <2>1. r \in SUBSET ({"fill", "city", "refill", "highway"} \X LOG_LEVEL)
    <3>1. reports[c] \in SUBSET ({"fill", "city", "refill", "highway"} \X LOG_LEVEL)
      BY <1>1 DEF CarInv, CarType
    <3>2. WARNING \in LOG_LEVEL /\ ERROR \in LOG_LEVEL
      BY DEF WARNING, ERROR, LOG_LEVEL
    <3> QED
      BY <1>2, <1>3, <3>1, <3>2
  <2> QED
    BY <1>1, <1>3, <2>1 DEF CarInv, CarType
<1>5. /\ \A x \in Cars : x # c => fuelInTank'[x] = fuelInTank[x] /\ reports'[x] = reports[x]
      /\ fuelInTank'[c] = f /\ reports'[c] = r
  BY <1>1, <1>3 DEF CarInv, CarType
<1>6. \A x \in Cars : (x # c => (x < next' <=> x < c)) /\ c < next' /\ ~(c < c)
  BY <1>1 DEF Cars
<1>7. TourInv'
  <2>1. CASE app = "fill"
    BY <1>1, <1>3, <1>5, <1>6, <2>1 DEF CarInv, TourInv, Full, Empty
  <2>2. CASE app = "city"
    BY <1>1, <1>3, <1>5, <1>6, <2>2 DEF CarInv, TourInv, Full, Driven
  <2>3. CASE app = "refill"
    BY <1>1, <1>3, <1>5, <1>6, <2>3 DEF CarInv, TourInv, Told, Driven
  <2>4. CASE app = "highway"
    BY <1>1, <2>4 DEF TourInv
  <2> QED
    BY <1>2, <2>1, <2>2, <2>3, <2>4
<1> QED
  BY <1>4, <1>7 DEF CarInv

\* Every step of the simulator and of its logger keeps the tour.
LEMMA CarStep == CarInv /\ [SimNext]_allVars => CarInv'
<1> SUFFICES ASSUME CarInv, [SimNext]_allVars PROVE CarInv'
    OBVIOUS
<1>1. CASE UNCHANGED appVars \/ UNCHANGED allVars \/ shutdownHandler
  BY <1>1, CarFrame DEF appVars, allVars, shutdownHandler
<1>2. CASE SetLevel \/ Run \/ Exit
  <2>1. /\ UNCHANGED <<next, fuelInTank, track, reports>>
        /\ {app, app'} \cap {"fill", "city", "refill", "highway"} = {}
    BY <1>2 DEF SetLevel, Run, Exit, After
  <2> QED
    BY <2>1 DEF CarInv, CarType, TourInv
<1>3. CASE Note
  <2>1. UNCHANGED <<fuelInTank, track, reports>> /\ next' = 1 /\ app' = After[app]
    BY <1>3 DEF Note
  <2>2. CarType'
    BY <2>1 DEF CarInv, CarType
  <2>3. \A c \in Cars : ~(c < next')
    BY <2>1 DEF Cars
  <2>4. CASE app \in {"created", "displayed", "deleted"}
    BY <2>1, <2>2, <2>4 DEF CarInv, TourInv, After
  <2>5. CASE app \notin {"created", "displayed", "deleted"}
    <3>1. next > 4 /\ \A c \in Cars : c < next
      BY <1>3, <2>5 DEF Note, Cars, CarInv, CarType
    <3>2. app \in {"fill", "city", "refill", "highway"}
      BY <3>1 DEF CarInv, TourInv
    <3>3. CASE app = "fill"
      <4>1. app' = "city" /\ \A c \in Cars : Full(c)
        BY <2>1, <3>1, <3>3 DEF After, CarInv, TourInv
      <4> QED
        BY <2>1, <2>2, <2>3, <4>1 DEF CarInv, TourInv, Full
    <3>4. CASE app = "city"
      <4>1. app' = "refill" /\ \A c \in Cars : Driven(c)
        BY <2>1, <3>1, <3>4 DEF After, CarInv, TourInv
      <4> QED
        BY <2>1, <2>2, <2>3, <4>1 DEF CarInv, TourInv, Driven
    <3>5. CASE app \in {"refill", "highway"}
      <4>1. app' \in {"highway", "turn"}
        BY <2>1, <3>5 DEF After
      <4> QED
        BY <2>1, <2>2, <4>1 DEF CarInv, TourInv
    <3> QED
      BY <3>2, <3>3, <3>4, <3>5
  <2> QED
    BY <2>4, <2>5
<1>4. CASE While
  <2>1. next = 1 /\ next' = next /\ track' = track
    BY <1>4 DEF While, CarInv, TourInv
  <2>2. CASE isRunning
    <3>1. /\ app' = "fill" /\ fuelInTank' = [c \in Cars |-> 0]
          /\ reports' = [c \in Cars |-> {}]
      BY <1>4, <2>2 DEF While
    <3>2. \A c \in Cars : ~(c < next')
      BY <2>1 DEF Cars
    <3> QED
      BY <2>1, <3>1, <3>2 DEF CarInv, CarType, TourInv, Empty
  <2>3. CASE ~isRunning
    BY <1>4, <2>1, <2>3 DEF While, CarInv, CarType, TourInv
  <2> QED
    BY <2>2, <2>3
<1>5. CASE Car
  BY <1>5, CarLeg
<1>6. CASE Turn
  <2>1. track' \in 1..5
    BY <1>6 DEF Turn, CarInv, CarType
  <2> QED
    BY <1>6, <2>1 DEF Turn, CarInv, CarType, TourInv
<1> QED
  BY <1>1, <1>2, <1>3, <1>4, <1>5, <1>6 DEF SimNext, Simulator

\* On every tour of the simulator, whatever the logger and the server do
\* meanwhile, each car that is filled up for the highway has run dry in the city
\* or is full before its time, and one of that was reported, once
\* (Automobile.cpp:27-50, TravelSimulator.cpp:41-62).
THEOREM OneReportEachAlways == SimSpec => []OneReportEach
<1>1. AppInit => CarInv
  BY DEF AppInit, CarInv, CarType, TourInv
<1>2. CarInv => OneReportEach
  <2> SUFFICES ASSUME CarInv, app = "refill", next > 4, NEW c \in Cars PROVE Told(c)
      BY DEF OneReportEach, Told
  <2>1. c < next
    BY DEF Cars, CarInv, CarType
  <2> QED
    BY <2>1 DEF CarInv, TourInv
<1>3. SimSpec => AppInit /\ [][SimNext]_allVars
  BY PTL DEF SimSpec
<1> QED
  BY <1>1, <1>2, <1>3, CarStep, PTL
=============================================================================
