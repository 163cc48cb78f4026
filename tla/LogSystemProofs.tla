-------------------------- MODULE LogSystemProofs --------------------------
(* The composed system keeps the promise LossyLog, for all constants. *)
EXTENDS LogSystem, TLAPS

\* The logger's part: who holds its mutex, and that it sends what it formatted.
LoggerInv ==
    /\ calls \in Nat /\ call \in Datagram
    /\ app_main \in {"init", "create"} => app_recv = "none"
    /\ app_main \in {"format", "send", "unlock"} => app_lock = "main"
    /\ app_recv \in {"recvfrom", "unlock"} => app_lock = "recv"
    /\ app_main = "send" => buf = call

Waiting == app_main \in {"lock", "format", "send"}
InHand  == sv_recv \in {"lock", "write"}

\* The number of the last record in the file, 0 when there is none.
LastId == IF log = <<>> THEN 0 ELSE log[Len(log)].id

\* The way of the records: every record is behind those that left before it.
\* `Queued' is about the socket, `Held' about the record in hand, `Sending'
\* about the call in progress.
Queued ==
    /\ \A x \in 1..Len(to_server) : to_server[x].id \in (LastId + 1)..calls
    /\ \A x, y \in 1..Len(to_server) : x < y => to_server[x].id < to_server[y].id
Held ==
    InHand => /\ tempBuf.id \in (LastId + 1)..calls
              /\ \A x \in 1..Len(to_server) : tempBuf.id < to_server[x].id
Sending ==
    Waiting => /\ call.id = calls /\ LastId < calls
               /\ InHand => tempBuf.id < calls
               /\ \A x \in 1..Len(to_server) : to_server[x].id < calls

TypeInv ==
    /\ log \in Seq(Datagram) /\ to_server \in Seq(Datagram) /\ tempBuf \in Datagram
    /\ LastId \in 0..calls

PipeInv == TypeInv /\ Queued /\ Held /\ Sending

IInv == LoggerInv /\ PipeInv

-----------------------------------------------------------------------------
\* No step disturbs the logger's mutex discipline: the receive thread empties
\* buf only while it holds the mutex.
LEMMA LoggerStep == LoggerInv /\ [Next]_vars => LoggerInv'
<1> SUFFICES ASSUME LoggerInv, [Next]_vars PROVE LoggerInv'
    OBVIOUS
<1> USE LogSystemAssumption
    DEF LoggerInv, L!mainVars, L!recvVars, L!network, L!shared, loggerVars
<1>1. CASE L!MainLocal
  BY <1>1 DEF L!MainLocal, L!OpenSocket, L!CreateThread, L!CreateFails, L!StoreRet,
              L!TestRet, L!InitFilter, L!WriteFilter, L!LogLock, L!LogFormat,
              L!LogUnlock, L!CloseSocket
<1>2. ASSUME NEW l \in AppLevels, L!FilterTest(l) PROVE LoggerInv'
  <2>1. calls + 1 \in Nat /\ L!Record(l, calls + 1) \in Datagram
    BY DEF L!Record, Datagram, LOG_LEVEL
  <2> QED
    BY <1>2, <2>1 DEF L!FilterTest, L!LogTest
<1>3. ASSUME NEW l \in AppLevels, L!SetLogLevel(l) PROVE LoggerInv'
  BY <1>3 DEF L!SetLogLevel, L!WriteFilter
<1>4. CASE L!ExitLog
  BY <1>4 DEF L!ExitLog
<1>5. CASE L!RecvLocal
  BY <1>5 DEF L!RecvLocal, L!RecvStart, L!RecvLoop, L!RecvLock, L!RecvUnlock,
              L!RecvTest, L!RecvSnap, L!RecvParse, L!RecvCompare, L!RecvStore, L!WriteFilter
<1>6. CASE L!LogSend
  BY <1>6 DEF L!LogSend
<1>7. CASE TakeCommand
  BY <1>7 DEF TakeCommand, L!RecvFrom
<1>8. CASE ServerLocal \/ TakeRecord \/ RestartServer \/ \E l \in CmdLevels : SendCommand(l)
  BY <1>8 DEF ServerLocal, TakeRecord, RestartServer, SendCommand, L!ServerTakes, L!ServerCommand
<1>9. CASE UNCHANGED vars
  BY <1>9 DEF vars
<1> QED
  BY <1>1, <1>2, <1>3, <1>4, <1>5, <1>6, <1>7, <1>8, <1>9
     DEF Next, LoggerLocal, L!Application, SendRecord

-----------------------------------------------------------------------------
\* A step that moves no record, and gives nobody a record it had not.
LEMMA PipeFrame ==
    ASSUME PipeInv, UNCHANGED <<calls, call, tempBuf, log, to_server>>,
           Waiting' => Waiting, InHand' => InHand
    PROVE  PipeInv'
BY DEF PipeInv, TypeInv, LastId, Queued, Held, Sending

\* A call that is counted: older numbers are below its own.
LEMMA PipeCall ==
    ASSUME PipeInv, calls \in Nat, calls' = calls + 1, Waiting' => call'.id = calls',
           UNCHANGED <<sv_recv, tempBuf, log, to_server>>
    PROVE  PipeInv'
<1>1. LastId' = LastId /\ LastId \in 0..calls /\ calls + 1 \in Nat
  BY DEF PipeInv, TypeInv, LastId
<1>2. TypeInv'
  BY <1>1 DEF PipeInv, TypeInv
<1>3. Queued'
  BY <1>1 DEF PipeInv, Queued
<1>4. Held'
  BY <1>1 DEF PipeInv, Held, InHand
<1>5. Sending'
  BY <1>1 DEF PipeInv, Queued, Held, Sending, InHand
<1> QED
  BY <1>2, <1>3, <1>4, <1>5 DEF PipeInv

\* The record of the call in progress arrives behind all others.
LEMMA PipeArrive ==
    ASSUME PipeInv, calls \in Nat, call \in Datagram, Waiting, ~Waiting',
           to_server' = Append(to_server, call),
           UNCHANGED <<calls, call, sv_recv, tempBuf, log>>
    PROVE  PipeInv'
<1> DEFINE n == Len(to_server)
<1>1. to_server \in Seq(Datagram) /\ LastId' = LastId /\ LastId \in 0..calls
  BY DEF PipeInv, TypeInv, LastId
<1>2. /\ to_server' \in Seq(Datagram) /\ n \in Nat /\ Len(to_server') = n + 1
      /\ \A x \in 1..n : to_server'[x] = to_server[x]
      /\ to_server'[n + 1] = call
  BY <1>1
<1>3. /\ call.id = calls /\ LastId < calls /\ (InHand => tempBuf.id < calls)
      /\ \A x \in 1..n : to_server[x].id < calls
  BY DEF PipeInv, Sending
<1>4. TypeInv'
  BY <1>1, <1>2 DEF PipeInv, TypeInv
<1>5. \A x \in 1..(n + 1) : x \in 1..n \/ x = n + 1
  BY <1>2
<1>6. \A x \in 1..(n + 1) : to_server'[x].id \in (LastId + 1)..calls
  <2>1. calls \in (LastId + 1)..calls
    BY <1>1, <1>3
  <2> QED
    BY <1>2, <1>3, <1>5, <2>1 DEF PipeInv, Queued
<1>7. ASSUME NEW x \in 1..(n + 1), NEW y \in 1..(n + 1), x < y
      PROVE  to_server'[x].id < to_server'[y].id
  <2>1. x \in 1..n
    BY <1>2, <1>7
  <2>2. CASE y = n + 1
    BY <1>2, <1>3, <2>1, <2>2
  <2>3. CASE y \in 1..n
    BY <1>2, <1>7, <2>1, <2>3 DEF PipeInv, Queued
  <2> QED
    BY <1>5, <2>2, <2>3
<1>8. Queued'
  BY <1>1, <1>2, <1>6, <1>7 DEF Queued
<1>9. Held'
  BY <1>1, <1>2, <1>3, <1>5 DEF PipeInv, Held, InHand
<1> QED
  BY <1>4, <1>8, <1>9 DEF PipeInv, Sending

\* The record at the head of the socket's buffer comes in hand.
LEMMA PipeTake ==
    ASSUME PipeInv, calls \in Nat, ~InHand, to_server # <<>>,
           tempBuf' = Head(to_server), to_server' = Tail(to_server),
           UNCHANGED <<calls, call, app_main, log>>
    PROVE  PipeInv'
<1> DEFINE n == Len(to_server)
<1>1. to_server \in Seq(Datagram) /\ LastId' = LastId /\ LastId \in 0..calls
  BY DEF PipeInv, TypeInv, LastId
<1>2. /\ to_server' \in Seq(Datagram) /\ tempBuf' \in Datagram /\ n \in Nat \ {0}
      /\ Len(to_server') = n - 1 /\ tempBuf' = to_server[1]
      /\ \A x \in 1..(n - 1) : to_server'[x] = to_server[x + 1]
  BY <1>1
<1>3. 1 \in 1..n /\ \A x \in 1..(n - 1) : x + 1 \in 1..n /\ 1 < x + 1
  BY <1>2
<1>4. TypeInv'
  BY <1>1, <1>2 DEF PipeInv, TypeInv
<1>5. Queued'
  <2>1. \A x \in 1..(n - 1) : to_server'[x].id \in (LastId + 1)..calls
    BY <1>2, <1>3 DEF PipeInv, Queued
  <2>2. ASSUME NEW x \in 1..(n - 1), NEW y \in 1..(n - 1), x < y
        PROVE  to_server'[x].id < to_server'[y].id
    <3>1. x + 1 < y + 1
      BY <2>2
    <3> QED
      BY <1>2, <1>3, <3>1 DEF PipeInv, Queued
  <2> QED
    BY <1>1, <1>2, <2>1, <2>2 DEF Queued
<1>6. Held'
  BY <1>1, <1>2, <1>3 DEF PipeInv, Held, Queued
<1>7. Sending'
  BY <1>1, <1>2, <1>3 DEF PipeInv, Sending, Waiting
<1> QED
  BY <1>4, <1>5, <1>6, <1>7 DEF PipeInv

\* The record in hand becomes the last one of the file.
LEMMA PipeWrite ==
    ASSUME PipeInv, calls \in Nat, InHand, ~InHand', log' = Append(log, tempBuf),
           UNCHANGED <<calls, call, app_main, tempBuf, to_server>>
    PROVE  PipeInv' /\ LastId' = tempBuf.id /\ tempBuf.id \in (LastId + 1)..calls
<1>1. log \in Seq(Datagram) /\ tempBuf \in Datagram /\ LastId \in 0..calls
  BY DEF PipeInv, TypeInv
<1>2. log' \in Seq(Datagram) /\ log' # <<>> /\ log'[Len(log')] = tempBuf
  BY <1>1
<1>3. LastId' = tempBuf.id
  BY <1>2 DEF LastId
<1>4. /\ tempBuf.id \in (LastId + 1)..calls
      /\ \A x \in 1..Len(to_server) : tempBuf.id < to_server[x].id
  BY DEF PipeInv, Held
<1>5. TypeInv'
  BY <1>1, <1>2, <1>3, <1>4 DEF PipeInv, TypeInv
<1>6. Queued'
  BY <1>1, <1>3, <1>4 DEF PipeInv, Queued
<1>7. Sending'
  BY <1>3 DEF PipeInv, Sending, Waiting
<1> QED
  BY <1>3, <1>4, <1>5, <1>6, <1>7 DEF PipeInv, Held

-----------------------------------------------------------------------------
\* What the promise sees of a step: nothing, a call, or a record in the file.
Seen == [Account!Next]_Account!vars

LEMMA SeenNothing == ASSUME UNCHANGED <<calls, log>> PROVE Seen
BY DEF Seen, Account!vars

LEMMA SeenCall ==
    ASSUME calls < MaxCalls, calls' = calls + 1, log' = log
    PROVE  Seen
BY DEF Seen, Account!Next, Account!Issue

LEMMA SeenRecord ==
    ASSUME log \in Seq(Datagram), tempBuf \in Datagram, log' = Append(log, tempBuf),
           calls' = calls, tempBuf.id \in (LastId + 1)..calls
    PROVE  Seen
<1> DEFINE ids == [x \in 1..Len(log) |-> log[x].id]
           n   == Len(log)
<1>1. n \in Nat /\ ids \in Seq(Nat) /\ Len(ids) = n /\ tempBuf.id \in Nat
  <2>1. n \in Nat /\ tempBuf.id \in Nat
    BY DEF Datagram
  <2>2. \A x \in 1..n : log[x] \in Datagram
    OBVIOUS
  <2>3. \A x \in 1..n : log[x].id \in Nat
    BY <2>2 DEF Datagram
  <2>4. ids \in [1..n -> Nat]
    BY <2>3
  <2> QED
    BY <2>1, <2>4
<1>2. Account!Newest = LastId
  <2>1. CASE n = 0
    <3>1. ids = <<>> /\ log = <<>>
      BY <1>1, <2>1
    <3> QED
      BY <3>1 DEF Account!Newest, LastId
  <2>2. CASE n # 0
    <3>1. n \in 1..n /\ ids # <<>> /\ log # <<>>
      BY <1>1, <2>2
    <3>2. ids[Len(ids)] = log[n].id
      BY <1>1, <3>1
    <3> QED
      BY <3>1, <3>2 DEF Account!Newest, LastId
  <2> QED
    BY <2>1, <2>2
<1>3. ids' = Append(ids, tempBuf.id)
  <2>1. /\ Len(log') = n + 1 /\ log'[n + 1] = tempBuf
        /\ \A x \in 1..n : log'[x] = log[x]
    OBVIOUS
  <2>2. \A x \in 1..(n + 1) : x \in 1..n \/ x = n + 1
    BY <1>1
  <2>3. ids' = [x \in 1..(n + 1) |-> log'[x].id]
    BY <2>1
  <2>4. Append(ids, tempBuf.id) \in Seq(Nat) /\ Len(Append(ids, tempBuf.id)) = n + 1
    BY <1>1
  <2>5. Append(ids, tempBuf.id) = [x \in 1..(n + 1) |-> IF x = n + 1 THEN tempBuf.id ELSE ids[x]]
    BY <1>1, <2>4
  <2>6. ASSUME NEW x \in 1..(n + 1)
        PROVE  log'[x].id = IF x = n + 1 THEN tempBuf.id ELSE ids[x]
    BY <2>1, <2>2, <2>6
  <2> QED
    BY <2>3, <2>5, <2>6
<1>4. Account!Record
  BY <1>2, <1>3 DEF Account!Record
<1> QED
  BY <1>4 DEF Seen, Account!Next

\* Every step keeps the records on their way, and is a step of the promise.
LEMMA PipeStep == IInv /\ [Next]_vars => PipeInv' /\ Seen
<1> SUFFICES ASSUME LoggerInv, PipeInv, [Next]_vars PROVE PipeInv' /\ Seen
    BY DEF IInv
<1> USE DEF L!mainVars, L!recvVars, L!network, L!shared, loggerVars,
            S!menuVars, S!recvVars, S!network, serverVars, buffers
<1>0. calls \in Nat /\ call \in Datagram
  BY DEF LoggerInv
<1>1. ASSUME UNCHANGED <<calls, call, tempBuf, log, to_server>>,
             Waiting' => Waiting, InHand' => InHand
      PROVE  PipeInv' /\ Seen
  BY <1>1, PipeFrame, SeenNothing
<1>2. CASE L!MainLocal /\ UNCHANGED serverVars
  BY <1>1, <1>2 DEF L!MainLocal, L!OpenSocket, L!CreateThread, L!CreateFails, L!StoreRet,
     L!TestRet, L!InitFilter, L!LogLock, L!LogFormat, L!LogUnlock, L!CloseSocket,
     Waiting, InHand
<1>3. ASSUME NEW l \in AppLevels, L!FilterTest(l), UNCHANGED serverVars
      PROVE  PipeInv' /\ Seen
  <2>1. calls < MaxCalls /\ calls' = calls + 1 /\ UNCHANGED <<sv_recv, tempBuf, log, to_server>>
    BY <1>3 DEF L!FilterTest, L!LogTest
  <2>2. Waiting' => call'.id = calls'
    BY <1>3 DEF L!FilterTest, L!LogTest, L!Record, Waiting
  <2> QED
    BY <1>0, <2>1, <2>2, PipeCall, SeenCall
<1>4. ASSUME NEW l \in AppLevels, L!SetLogLevel(l), UNCHANGED serverVars
      PROVE  PipeInv' /\ Seen
  <2>1. calls < MaxCalls /\ calls' = calls + 1 /\ UNCHANGED <<sv_recv, tempBuf, log, to_server>>
    BY <1>4 DEF L!SetLogLevel
  <2>2. ~Waiting'
    BY <1>4 DEF L!SetLogLevel, Waiting
  <2> QED
    BY <1>0, <2>1, <2>2, PipeCall, SeenCall
<1>5. CASE (L!ExitLog \/ L!RecvLocal) /\ UNCHANGED serverVars
  BY <1>1, <1>5 DEF L!ExitLog, L!RecvLocal, L!RecvStart, L!RecvLoop, L!RecvLock,
     L!RecvUnlock, L!RecvTest, L!RecvSnap, L!RecvParse, L!RecvCompare, L!RecvStore,
     Waiting, InHand
<1>6. CASE SendRecord
  <2>1. Waiting /\ ~Waiting' /\ buf = call /\ UNCHANGED <<calls, call>>
    BY <1>6 DEF SendRecord, L!LogSend, LoggerInv, Waiting
  <2>2. UNCHANGED <<sv_recv, tempBuf, log>>
    BY <1>6 DEF SendRecord, S!ClientSend
  <2>3. to_server' \in {to_server, Append(to_server, call)}
    BY <1>6, <2>1 DEF SendRecord, S!ClientSend, S!Deposit
  <2>4. CASE to_server' = to_server
    BY <1>1, <2>1, <2>2, <2>4 DEF InHand
  <2>5. CASE to_server' = Append(to_server, call)
    BY <1>0, <2>1, <2>2, <2>5, PipeArrive, SeenNothing
  <2> QED
    BY <2>3, <2>4, <2>5
<1>7. CASE TakeCommand
  BY <1>1, <1>7 DEF TakeCommand, L!RecvFrom, S!LoggerTakes, Waiting, InHand
<1>8. CASE (S!UserLocal \/ S!MainStep \/ S!Interrupt) /\ UNCHANGED loggerVars
  BY <1>1, <1>8 DEF S!UserLocal, S!ShutDown, S!AskLevel, S!DumpOpen, S!PressKey, S!MainStep,
     S!CreateThread, S!CreateFails, S!MenuLoop, S!DumpLock, S!DumpRecord, S!DumpEnd,
     S!DumpUnlock, S!Join, S!Close, S!Interrupt, Waiting, InHand
<1>9. CASE S!RecvLocal /\ ~S!RecvWrite /\ UNCHANGED loggerVars
  BY <1>1, <1>9 DEF S!RecvLocal, S!RecvOpen, S!RecvOpenFails, S!RecvLoop, S!RecvLock,
     S!RecvWriteFails, S!RecvUnlock, S!Exit, Waiting, InHand
<1>10. CASE S!RecvWrite /\ UNCHANGED loggerVars
  <2>1. /\ InHand /\ ~InHand' /\ log' = Append(log, tempBuf)
        /\ UNCHANGED <<calls, call, app_main, tempBuf, to_server>>
    BY <1>10 DEF S!RecvWrite, InHand
  <2>2. log \in Seq(Datagram) /\ tempBuf \in Datagram
    BY DEF PipeInv, TypeInv
  <2> QED
    BY <1>0, <2>1, <2>2, PipeWrite, SeenRecord
<1>11. ASSUME NEW l \in CmdLevels, SendCommand(l) PROVE PipeInv' /\ Seen
  BY <1>1, <1>11 DEF SendCommand, S!SendLevel, L!ServerCommand, Waiting, InHand
<1>12. CASE TakeRecord
  <2>1. UNCHANGED <<calls, call, app_main, log>> /\ ~InHand
    BY <1>12 DEF TakeRecord, S!RecvFrom, L!ServerTakes, InHand
  <2>2. CASE to_server # <<>>
    <3>1. tempBuf' = Head(to_server) /\ to_server' = Tail(to_server)
      BY <1>12, <2>2 DEF TakeRecord, S!RecvFrom
    <3> QED
      BY <1>0, <2>1, <2>2, <3>1, PipeTake, SeenNothing
  <2>3. CASE to_server = <<>>
    <3>1. ~InHand' /\ to_server' = to_server /\ tempBuf' = S!Blank
      BY <1>12, <2>3 DEF TakeRecord, S!RecvFrom, InHand
    <3>2. tempBuf' \in Datagram
      BY <3>1 DEF S!Blank, Datagram
    <3> QED
      BY <2>1, <3>1, <3>2, SeenNothing
         DEF PipeInv, TypeInv, LastId, Queued, Held, Sending, Waiting
  <2> QED
    BY <2>2, <2>3
<1>13. CASE RestartServer
  <2>1. UNCHANGED <<calls, call, app_main, log>> /\ ~InHand' /\ to_server' = <<>>
    BY <1>13 DEF RestartServer, S!Restart, L!ServerTakes, InHand
  <2>2. tempBuf' \in Datagram
    BY <1>13 DEF RestartServer, S!Restart, S!Blank, Datagram
  <2> QED
    BY <2>1, <2>2, SeenNothing
       DEF PipeInv, TypeInv, LastId, Queued, Held, Sending, Waiting
<1>14. CASE UNCHANGED vars
  BY <1>1, <1>14 DEF vars, Waiting, InHand
<1> QED
  BY <1>2, <1>3, <1>4, <1>5, <1>6, <1>7, <1>8, <1>9, <1>10, <1>11, <1>12, <1>13, <1>14
     DEF Next, LoggerLocal, ServerLocal, L!Application

-----------------------------------------------------------------------------
\* Nothing is on its way when the system starts.
LEMMA Start == Init => IInv /\ Account!Init
<1> SUFFICES ASSUME Init PROVE IInv /\ Account!Init
    OBVIOUS
<1>1. /\ calls = 0 /\ log = <<>> /\ to_server = <<>> /\ app_main = "init"
      /\ app_recv = "none" /\ sv_recv = "none" /\ call \in Datagram /\ tempBuf \in Datagram
  BY DEF Init, L!Init, S!Init, L!Blank, S!Blank, Datagram
<1>2. LoggerInv
  BY <1>1 DEF LoggerInv
<1>3. PipeInv
  BY <1>1 DEF PipeInv, TypeInv, LastId, Queued, Held, Sending, Waiting, InHand
<1>4. Account!Init
  BY <1>1 DEF Account!Init
<1> QED
  BY <1>2, <1>3, <1>4 DEF IInv

\* The inductive invariant of the composed system.
THEOREM Inductive == Spec => []IInv
<1>1. IInv /\ [Next]_vars => IInv'
  BY LoggerStep, PipeStep DEF IInv
<1> QED
  BY <1>1, Start, PTL DEF Spec

\* Logger and server, with everything that can get lost between them and every
\* crash and restart of the server, implement the promise LossyLog.
THEOREM KeepsPromise == Spec => AccountSpec
<1>1. IInv /\ [Next]_vars => [Account!Next]_Account!vars
  BY PipeStep DEF Seen
<1> QED
  BY <1>1, Start, Inductive, PTL DEF Spec, AccountSpec, Account!Spec

-----------------------------------------------------------------------------
(* The components in the composition *)

\* What the logger sends is one of the records that the server's clients send.
KnownRecord == Waiting => call \in Records

LEMMA KnownRecordStep == LoggerInv /\ KnownRecord /\ [Next]_vars => KnownRecord'
<1> SUFFICES ASSUME LoggerInv, KnownRecord, [Next]_vars PROVE KnownRecord'
    OBVIOUS
<1> USE DEF L!mainVars, L!recvVars, L!network, L!shared, loggerVars, KnownRecord, Waiting
<1>1. CASE L!MainLocal \/ L!ExitLog \/ L!LogSend
  BY <1>1 DEF L!MainLocal, L!OpenSocket, L!CreateThread, L!CreateFails, L!StoreRet,
     L!TestRet, L!InitFilter, L!LogLock, L!LogFormat, L!LogUnlock, L!CloseSocket, L!ExitLog,
     L!LogSend, Records
<1>2. ASSUME NEW l \in AppLevels, L!FilterTest(l) PROVE KnownRecord'
  <2>1. calls \in Nat /\ calls' = calls + 1 /\ calls' \in 1..MaxCalls
    BY <1>2, LogSystemAssumption DEF LoggerInv, L!FilterTest
  <2>2. L!Record(l, calls') \in Records
    BY <2>1 DEF Records, L!Record, Record
  <2>3. Records' = Records
    BY DEF Records
  <2> QED
    BY <1>2, <2>2, <2>3 DEF L!FilterTest, L!LogTest
<1>3. ASSUME NEW l \in AppLevels, L!SetLogLevel(l) PROVE KnownRecord'
  BY <1>3 DEF L!SetLogLevel, Records
<1>4. CASE UNCHANGED <<app_main, call>>
  BY <1>4 DEF Records
<1>5. CASE L!RecvLocal \/ TakeCommand
  BY <1>4, <1>5 DEF L!RecvLocal, L!RecvStart, L!RecvLoop, L!RecvLock, L!RecvUnlock,
     L!RecvTest, L!RecvSnap, L!RecvParse, L!RecvCompare, L!RecvStore, TakeCommand, L!RecvFrom
<1>6. CASE ServerLocal \/ TakeRecord \/ RestartServer \/ \E l \in CmdLevels : SendCommand(l)
  BY <1>4, <1>6 DEF ServerLocal, TakeRecord, RestartServer, SendCommand, L!ServerTakes,
     L!ServerCommand
<1> QED
  BY <1>1, <1>2, <1>3, <1>4, <1>5, <1>6 DEF Next, LoggerLocal, L!Application, SendRecord, vars

\* A step of the system is a step of the logger in its surroundings, or none.
LEMMA LoggerSees == [Next]_vars => [L!Next]_L!vars
<1> SUFFICES ASSUME [Next]_vars PROVE [L!Next]_L!vars
    OBVIOUS
<1>1. CASE LoggerLocal \/ SendRecord \/ TakeCommand
  BY <1>1 DEF LoggerLocal, SendRecord, TakeCommand, L!Next, L!MainStep, L!RecvStep
<1>2. CASE UNCHANGED <<loggerVars, buffers>>
  BY <1>2 DEF loggerVars, buffers, L!vars, L!mainVars, L!recvVars, L!network, L!shared
<1>3. CASE ServerLocal
  <2>1. UNCHANGED buffers
    BY <1>3 DEF ServerLocal, S!UserLocal, S!ShutDown, S!AskLevel, S!DumpOpen, S!PressKey,
       S!MainStep, S!CreateThread, S!CreateFails, S!MenuLoop, S!DumpLock, S!DumpRecord,
       S!DumpEnd, S!DumpUnlock, S!Join, S!Close, S!RecvLocal, S!RecvOpen, S!RecvOpenFails,
       S!RecvLoop, S!RecvLock, S!RecvWrite, S!RecvWriteFails, S!RecvUnlock, S!Exit,
       S!Interrupt, S!network, buffers
  <2> QED
    BY <1>2, <1>3, <2>1 DEF ServerLocal
<1>4. CASE TakeRecord \/ RestartServer
  BY <1>2, <1>4 DEF TakeRecord, RestartServer, S!RecvFrom, S!Restart, L!Next, buffers
<1>5. ASSUME NEW l \in CmdLevels, SendCommand(l) PROVE [L!Next]_L!vars
  BY <1>2, <1>5 DEF SendCommand, L!Next
<1> QED
  BY <1>1, <1>2, <1>3, <1>4, <1>5 DEF Next, vars

\* And one of the server in its surroundings, or none.
LEMMA ServerSees == LoggerInv /\ KnownRecord /\ [Next]_vars => [S!Next]_S!vars
<1> SUFFICES ASSUME LoggerInv, KnownRecord, [Next]_vars PROVE [S!Next]_S!vars
    OBVIOUS
<1>1. CASE ServerLocal \/ TakeRecord \/ RestartServer
  BY <1>1 DEF ServerLocal, TakeRecord, RestartServer, S!Next, S!User, S!RecvStep
<1>2. ASSUME NEW l \in CmdLevels, SendCommand(l) PROVE [S!Next]_S!vars
  BY <1>2, LogSystemAssumption DEF SendCommand, S!Next, S!User, LOG_LEVEL, S!LOG_LEVEL
<1>3. CASE UNCHANGED <<serverVars, buffers>>
  BY <1>3 DEF serverVars, buffers, S!vars, S!menuVars, S!recvVars, S!network
<1>4. CASE LoggerLocal
  <2>1. UNCHANGED buffers
    BY <1>4 DEF LoggerLocal, L!MainLocal, L!OpenSocket, L!CreateThread, L!CreateFails,
       L!StoreRet, L!TestRet, L!InitFilter, L!LogLock, L!LogFormat, L!LogUnlock,
       L!CloseSocket, L!Application, L!SetLogLevel, L!FilterTest, L!LogTest, L!ExitLog,
       L!RecvLocal, L!RecvStart, L!RecvLoop, L!RecvLock, L!RecvUnlock, L!RecvTest,
       L!RecvSnap, L!RecvParse, L!RecvCompare, L!RecvStore, L!network, buffers
  <2> QED
    BY <1>3, <1>4, <2>1 DEF LoggerLocal
<1>5. CASE SendRecord
  <2>1. buf \in Records
    BY <1>5 DEF SendRecord, L!LogSend, LoggerInv, KnownRecord, Waiting
  <2> QED
    BY <1>3, <1>5, <2>1 DEF SendRecord, S!Next
<1>6. CASE TakeCommand
  <2>1. CASE LoggerBound /\ to_logger # <<>>
    BY <1>6, <2>1 DEF TakeCommand, S!Next
  <2>2. CASE ~(LoggerBound /\ to_logger # <<>>)
    <3>1. UNCHANGED <<serverVars, buffers>>
      BY <1>6, <2>2 DEF TakeCommand, L!RecvFrom, LoggerBound, buffers
    <3> QED
      BY <1>3, <3>1
  <2> QED
    BY <2>1, <2>2
<1> QED
  BY <1>1, <1>2, <1>3, <1>4, <1>5, <1>6 DEF Next, vars

\* Each component behaves in the system as its own module has it, so that all
\* that is proved of Logger and of Server holds in the system: what one module
\* assumes of its surroundings is what the other does.
THEOREM ComponentsKept == Spec => L!Spec /\ S!Spec
<1>1. Init => L!Init /\ S!Init /\ KnownRecord
  BY DEF Init, KnownRecord, Waiting, L!Init
<1>2. IInv => LoggerInv
  BY DEF IInv
<1>3. Spec => []KnownRecord
  BY <1>1, <1>2, Inductive, KnownRecordStep, PTL DEF Spec
<1> QED
  BY <1>1, <1>2, <1>3, Inductive, LoggerSees, ServerSees, PTL DEF Spec, L!Spec, S!Spec

-----------------------------------------------------------------------------
(* What the promise amounts to *)

\* The numbers of the file's records: the promise's file.
ids == [i \in 1..Len(log) |-> log[i].id]

\* A number above the last, and issued, keeps a file of issued numbers in
\* sequence.
InOrder(s, n) ==
    /\ \A i \in 1..Len(s) : s[i] \in 1..n
    /\ \A i, j \in 1..Len(s) : i < j => s[i] < s[j]

\* InSequence is inductive once the types are known.
AccountInv == calls \in Nat /\ ids \in Seq(Nat) /\ InOrder(ids, calls)

LEMMA InOrderAppend ==
    ASSUME NEW n \in Nat, NEW s \in Seq(Nat), InOrder(s, n),
           NEW k \in 1..n, s # <<>> => s[Len(s)] < k
    PROVE  InOrder(Append(s, k), n)
<1> DEFINE t == Append(s, k)
           m == Len(s)
<1>1. /\ m \in Nat /\ Len(t) = m + 1 /\ t[m + 1] = k
      /\ \A i \in 1..m : t[i] = s[i] /\ s[i] \in Nat
  OBVIOUS
<1>2. \A i \in 1..(m + 1) : i \in 1..m \/ i = m + 1
  BY <1>1
<1>3. \A i \in 1..m : s[i] < k
  <2> SUFFICES ASSUME NEW i \in 1..m PROVE s[i] < k
      OBVIOUS
  <2>1. m \in 1..m /\ s # <<>>
    BY <1>1
  <2>2. i = m \/ s[i] < s[m]
    BY <1>1, <2>1 DEF InOrder
  <2> QED
    BY <1>1, <2>1, <2>2
<1>4. ASSUME NEW i \in 1..(m + 1), NEW j \in 1..(m + 1), i < j PROVE t[i] < t[j]
  <2>1. i \in 1..m
    BY <1>1, <1>4
  <2> QED
    BY <1>1, <1>2, <1>3, <1>4, <2>1 DEF InOrder
<1>5. \A i \in 1..(m + 1) : t[i] \in 1..n
  BY <1>1, <1>2 DEF InOrder
<1> QED
  BY <1>1, <1>4, <1>5 DEF InOrder

\* Every file that the promise allows is in sequence: a record is appended only
\* behind older ones.
LEMMA PromiseInSequence == Account!Spec => []Account!InSequence
<1>1. Account!InSequence <=> InOrder(ids, calls)
  BY DEF Account!InSequence, InOrder, ids
<1>2. Account!Init => AccountInv
  BY DEF Account!Init, AccountInv, InOrder, ids
<1>3. ASSUME AccountInv, Account!Next PROVE AccountInv'
  <2>1. CASE Account!Issue
    <3>1. calls' = calls + 1 /\ ids' = ids
      BY <2>1 DEF Account!Issue, ids
    <3>2. InOrder(ids, calls)'
      <4>1. InOrder(ids, calls) /\ calls \in Nat
        BY <1>3 DEF AccountInv
      <4>2. \A x \in 1..calls : x \in 1..(calls + 1)
        BY <4>1
      <4> QED
        BY <3>1, <4>1, <4>2 DEF InOrder
    <3> QED
      BY <1>3, <3>1, <3>2 DEF AccountInv
  <2>2. CASE Account!Record
    <3>1. PICK k \in (Account!Newest + 1)..calls : ids' = Append(ids, k) /\ calls' = calls
      BY <2>2 DEF Account!Record, ids
    <3>2. Account!Newest = IF ids = <<>> THEN 0 ELSE ids[Len(ids)]
      BY DEF Account!Newest, ids
    <3>3. calls \in Nat /\ ids \in Seq(Nat) /\ InOrder(ids, calls)
      BY <1>3 DEF AccountInv
    <3>4. k \in 1..calls /\ (ids # <<>> => ids[Len(ids)] < k)
      <4>1. ids # <<>> => ids[Len(ids)] \in Nat
        BY <3>3
      <4> QED
        BY <3>2, <3>3, <4>1
    <3>5. InOrder(ids, calls)' /\ ids' \in Seq(Nat)
      BY <3>1, <3>3, <3>4, InOrderAppend
    <3> QED
      BY <3>1, <3>3, <3>5 DEF AccountInv
  <2> QED
    BY <1>3, <2>1, <2>2 DEF Account!Next
<1>4. ASSUME AccountInv, UNCHANGED Account!vars PROVE AccountInv'
  BY <1>4 DEF AccountInv, Account!vars, InOrder, ids
<1>5. AccountInv /\ [Account!Next]_Account!vars => AccountInv'
  BY <1>3, <1>4
<1>6. AccountInv => Account!InSequence
  BY <1>1 DEF AccountInv
<1> QED
  BY <1>2, <1>5, <1>6, PTL DEF Account!Spec

\* README.md:200: the log messages are in sequence, none comes twice and none
\* without a call.
THEOREM FileInSequence == Spec => []Account!InSequence
  BY KeepsPromise, PromiseInSequence, PTL DEF AccountSpec
=============================================================================
