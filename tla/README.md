# SEP400 Labs: specification and verification

TLA+ modules of the programs under `src/Labs`, the TLC runs that check them on
small instances, and TLAPS proofs about every component. The repository is a term's
work: one larger system, the embedded debug logger of `asgn` (a logger library
inside an application, and a log server, on two UDP sockets), and a series of
small concurrent programs, each about one mechanism of Unix: signals and
processes, Unix and TCP sockets, message queues, semaphores and shared memory,
memory-mapped files. Each concurrent program is a component here.

All source paths below are relative to `src/Labs`.

## 1. Inventory

| Component | State | Operations | What is hard | What makes it correct |
|---|---|---|---|---|
| Logger library, `asgn/Logger.cpp` | filter, one shared buffer, global `ret`, `is_running`, mutex, socket | `InitializeLog`, `SetLogLevel`, `Log`, `ExitLog`; receive thread | caller and receive thread share buffer, filter and `ret`, only partly under the mutex | what is sent is what was formatted; filter changes take effect at once; commands are obeyed; the thread ends |
| Log server, `asgn/Server.cpp` | log file, `cl_addr`, `tempBuf`, `isRunning`, mutex | menu (level, dump, shutdown), receive thread, SIGINT | shutdown against a record in hand, dump against writes, SIGINT against a blocked `cin`, failing calls, restarts | file follows socket, nothing in hand is lost by a shutdown, a dump is whole, the shutdown completes |
| Logging system (both) | both sockets' receive buffers | records one way, commands the other | losses, crashes, restarts | the file is an ordered, duplicate-free account of the calls |
| Travel simulator, `asgn/TravelSimulator.cpp`, `Automobile.cpp` | four cars, `track`, `isRunning` | fill, drive, report through `Log`, ctrl-C | ctrl-C before line 34 is forgotten; the reports interleave with the receive thread | each car is reported on once by the end of its second filling; ctrl-C ends it through whatever calls are left |
| Earlier log server, `logser.cpp` | one buffer and one `file_fd` for both threads | as above | buffer, descriptor and file shared; the mutex is held while sleeping; descriptors leak; a failing `write` goes unnoticed | neither thread's data gets into the other's channel |
| Dispatcher, `lab6` | one message queue, a `std::queue` per process | server main and receive thread, client main and receive thread, Quit | messages pass the queue twice; overwriting; removal of the queue; full queue; `msgrcv` that fails unnoticed | addressed, in order, once; nothing new after a failed call; everybody ends |
| Shared memory, `lab7` | segment, named semaphore | wait, check, read, answer, post; remove names | names removed and created anew, `sem_wait` interrupted, the token given too early | one token per semaphore, whole messages, common end |
| TCP server, `lab5` | `std::queue` and its mutex, one receive thread per client | accept, read, push, print, Quit, join | threads on one queue, receive timeout, sleeping with the mutex, dying clients | no message lost or reordered; server and clients end |
| Monitor, `lab3` | signal handlers, `isRunning` per child | fork, start, stop, wait | signals before handlers, merged and reordered signals, failing fork and exec, ctrl-C | nobody works unstarted; who works when it is stopped stops, and the parent ends |
| Lock-step server, `lab4` | Unix socket and its name | Pid, Sleep, Done | peers that die in between, a second server on the name | the two stay in step and end |
| Work packages, `lab10` | one mapped record | hours, expense, deposit, clear | loads and stores of several processes without a lock | nothing invented; exact and not overdrawn unless a store was torn |
| RSA over UDP, `lab8` | keys, two ports, `is_running`, both threads of each client | derive, bind, encrypt, send, receive, decrypt | each port is wanted by both programs; `sendto()` an address nobody filled; `int` overflow in decryption | the keys fit; whoever was started ends and frees its ports |
| Menus over `ioctl`, `lab 2`, `lab2p.cpp`; process information, `lab 1` | none | single system calls | nothing | - |
| Exercises, `ex` | copies of lab3's and variants of lab4's programs | as there | they share the socket's name with lab4 but not all the words | a client quits only when told to in words it knows |

How they interact: inside `asgn` the application calls the library, the library
sends records to the server's socket, the server sends commands to the address
of the last record. In `lab4` to `lab8` processes interact through the kernel
object named in the table only. Nothing crosses between labs, but for `ex` and
`lab4`, whose programs use the same socket name.

The hazards, each at its line with the property that watches it, are in
`PROJECT.json`.

## 2. Modules

| Module | Models | Notes |
|---|---|---|
| `Udp` | datagrams, receive buffers, loss | the kernel as the sockets' users see it |
| `Logger` | `Logger.cpp` | the shared accesses one by one |
| `TravelSimulator` | `TravelSimulator.cpp`, `Automobile.cpp` | extends `Logger`, whose application it is |
| `Server` | `Server.cpp` | menu and receive thread, failures, restart |
| `LossyLog` | the promise of the whole | abstract: calls are issued, some are recorded, in order |
| `LogSystem` | both, composed | two `INSTANCE`s on common receive buffers |
| `LogSer` | `logser.cpp` | |
| `Post` | the promise of `lab6` | abstract: letters are written, some are delivered, in each sender's order |
| `Dispatcher` | `lab6` | server and any set of clients |
| `SharedMemory` | `lab7` | the three clients |
| `TcpServer` | `lab5` | server, receive threads, clients with both threads |
| `Monitor` | `lab3`, and the same two programs in `ex` | `sysmonExec` and its `intfMonitor`s |
| `LockStep` | `lab4`, `ex/Server.cpp`, `ex/client.cpp` | any number of servers and clients of either kind |
| `WorkPackage` | `lab10` | any number of processes |
| `Rsa` | `lab8` | the arithmetic as recursive functions, the two clients |
| `LoggerProofs` | theorems about `Logger` and `TravelSimulator` | section 6, as the next ones |
| `ServerProofs` | about `Server` and, as `Old`, `LogSer` | the same argument for both servers |
| `LogSystemProofs` | about `LogSystem` and the promise `LossyLog` | |
| `DispatcherProofs`, `SharedMemoryProofs`, `LockStepProofs`, `WorkPackageProofs` | about the modules so named | |
| `LabProofs` | about `Rsa` and, as `Mon` and `Tcp`, `Monitor` and `TcpServer` | |
| `MC...` | values of constants for TLC | |

**Conventions.** A thread is a variable that holds its control point; its values
are named after the statement that comes next. An action is one statement, or a
run of statements between which no other thread can see or change anything
(accesses inside one mutex section of variables that are used only under that
mutex, and local variables). Where the code touches a shared variable outside
the mutex, that access is an action of its own. Each definition's lines are
given in `PROJECT.json`. Idle polling (a non-blocking call that returns nothing,
`sleep()`, back to the loop) changes nothing and is a stuttering step.
Definitions marked "Mutant" are not used by a specification: each is a
plausible error in the definition below it, kept to show that a property would
notice.

**Logger.** `main` is the application thread inside the library, `recv` the
receive thread. `buf` is the buffer of `Log()` and `recvfrom()`, `ret` the
global both assign. `call` (the record of the current call), `got` (the last
command taken in), `late` (records sent below the current filter) are history.
`Application` is the user of the library: any sequence of `SetLogLevel`, `Log`
and `ExitLog`. The filter is stored by `InitializeLog`, `SetLogLevel` and the
receive thread, each a step.

**TravelSimulator.** `app` is the control point of the application above the
library, `next` the car whose turn it is, `fuelInTank` in hundredths of a litre,
so that the code's doubles are exact where it compares them. A car that
overflows or runs dry begins a call of `Log()`, and nothing of the simulator
goes on before that call has returned. `SimNext` starts either with the
simulator (under a server that sends no commands) or with any other application
(`app = "other"`), so that one run checks the library under both.

**Server.** `main` and `recv` are the threads. `file` is main's `ifstream`,
`log` the content of the log file, `exists` whether it is there at all; `taken`
is the history of what `recvfrom()` returned. `Exit` is `check()` and
`exit(-1)`: both threads end wherever they are. `Restart` starts the program
again on the same file. A file that is there before the first start has old
records, of which the model's `log` does not speak.

**LogSystem.** `LoggerLocal` and `ServerLocal` are the components' own steps; the
others join a step of one with the environment's step of the other: `Log()`
sends and the datagram arrives at the server or is lost, and so on. What is lost
is decided by `Arrivals` of `Udp` (a full buffer, or no socket at the address).

**LogSer.** As `Server`, but the buffer is one variable `buf`, the descriptor one
variable `file_fd`, and `fds` counts the open descriptors, which only grow. The
log file is empty at the start; records are whole blocks. `owed` is the history of
what `recvfrom()` returned, without the records whose own `write()` failed: the code
does not look at that result, and nobody misses them. A record that is written to
the dump's descriptor instead of the file stays owed.

**Dispatcher.** `queue` is the System V queue, of capacity `QueueCap`; `sMessage`
and `cMessage` are the processes' `std::queue`s; a message is its type, source,
destination and number. `arrived` is everything a client's receive thread pushed,
and `failed` counts its failed `msgrcv()` calls, which the code does not notice: it
pushes what its variable holds, the last message again or what no call has filled,
and on a removed queue does so in every turn. `Mail` is `Post` with the clients none
of whose calls failed as the open boxes and `arrived`, without the types, as what
was given.

**SharedMemory.** Semaphores and segments are numbered as they are created; the
names lead to one of them or to none. A client keeps what it opened. `forged`
counts the `sem_wait()` calls that ctrl-C ended.

**TcpServer.** `up` and `down` are the two directions of each connection, `message`
the queue of the server, `mutex` who holds its mutex. A push is two steps: `Lock` looks
up the end of the queue (`end`), `Push` has what follows that end replaced by what is
pushed, so that two receive threads that are in it together lose one of the messages. What a client wrote is `<<client, k>>`. `Run(c, a, b)` is
its messages after the `a`-th up to the `b`-th: `EachInOrder` says that queue, hand
and stream hold three such runs, one after the other.

**Monitor.** `pending` are the signals on their way, `handlers` those that a
monitor has installed. A pending signal without a handler ends the monitor.

**LockStep.** `down` and `up` are the streams, `name` the server to which
`/tmp/lab4` leads. The end of a process closes its side. `ExServers` and `ExClients` are the processes
that run `ex/Server.cpp` and `ex/client.cpp`: `Command` is what a client makes of
the words it is sent. A server whose `read()` fails ends; that of `ex/Server.cpp`
removes the name before.

**WorkPackage.** Every load and store of a field of the mapped record is a step.
`stale` and `torn` record whether a process stored a balance over one it had
not read, `ledger` what the balance would be if each change were one step.

**Rsa.** `gcd`, `e`, `d`, `encrypt` and `decrypt` are those of the code; `decrypt`
gives the set of characters that an overflowing `int` may lead to. `bound` is who
holds each port. `main` never gets past `sendto()`, whose address nothing fills,
so what follows it in both loops is not reached and not modelled.

## 3. Runs

Passing runs check all listed properties; each has a mutant in `PROJECT.json`
that breaks it under the same configuration.

| Run | Bounds | Shows |
|---|---|---|
| `logger` | the simulator with all four cars; any other application with 3 calls at two levels; 2 commands (one below, one above the filter, one that is no severity), buffer of 1 | `SendsOwnRecord`: the receive thread never touches a record between formatting and sending. `AtMostOneLate`: a filter change leaves one record at most. `ExitStopsStartedReceiver`, `CommandsAreReceived`. `OneReportEach`, `CtrlCEnds` of the simulator |
| `server` | 2 records, 3 arrivals, 2 menu choices, 1 restart | `FileFollowsSocket`, `ShutdownKeepsRecords`, `DumpIsWhole`, `ShutdownCompletes`, `RecordsAreWritten` |
| `log_system` | 2 calls, 1 command, 1 menu choice, 1 restart | `AccountSpec`: logger and server together implement `LossyLog` |
| `log_ser` | 2 records, 3 arrivals, levels 0 and 7, 5 descriptors; `open()`, `write()` and `recvfrom()` may fail | `RecordsWhole` (each thread's data stays in its channel, and only a failing `write()` loses a record), `DumpShowsFirst`, `ShutdownCompletes` |
| `dispatcher` | 2 clients, one sends 3 messages (two to the other, one to a client that is not there), queue of 2, 1 ctrl-C; 2 failed calls of a client on a removed queue are followed | `PostSpec`: server and clients implement `Post`. `InOrderOnce`, `StoppedClientEnds`, `ServerStops` |
| `shared_memory` | the 3 clients, 2 turns each, 1 ctrl-C | `TokensAccounted`, `MessageWhole`, `TogetherEnd` |
| `tcp_server` | 2 clients with 2 and 1 messages | `EachInOrder` (pushes by two receive threads and main), `ServerEnds`, `ClientsEndToo` |
| `monitor` | 2 monitors, as in the code | `WritesWhenStarted`, `StopEndsAll` |
| `lock_step` | 2 servers, 2 clients, one of each from `ex` | `InStep`, `QuitsWhenTold`, `EveryoneEnds` |
| `work_package` | 2 processes, 4 turns, 2 amounts | `NothingInvented`, `ExactUnlessTorn` |
| `rsa` | both clients, 6 letters (the first and last printable character, multiples of `p` and of `q`), any number of interrupts | `KeysFit`, `EveryClientEnds` |
| `logger_lost_command` (violation) | 2 calls, 1 command | `CommandObeyed` fails: finding |

`TypeOK` is an invariant of the runs `logger`, `server` and `dispatcher`; the types
of the other components are part of the invariants of section 6.

**Why the bounds are enough.** They are chosen so that each situation the
properties are about occurs: two records so that one could overtake the other
and three so that one can come after a restart; a buffer of two so that it is
full with less than what is sent, in `logger` one of one; two commands so that the second meets a filter
the first has changed; a queue of two that a message to nobody and one under way
fill; two turns of each client of `lab7`, so that all of them wait for each
other at least twice and the destination alternates; two failed calls of a client
of `lab6`, so that what the first one left behind is found by the second; as many descriptors as let
the receive thread, the dump and the receive thread again open the file before
`open()` fails. No two components of the same kind share more than what is
there once in the model, so a third would be in the position of one of the two.
The proofs of section 6 need no bound.

**Deadlock.** Every run allows states without a successor: each of these
programs may come to its regular end, and users stop typing.

## 4. Fairness

Every `FairSpec` asks for weak fairness of each thread or single-threaded
process as a whole: the operating system goes on scheduling a thread that can
run. Nothing else is fair, but for the simulator below. Users, ctrl-C, clients that might be started,
arrivals of datagrams, failures and kills may happen or not. `Monitor` adds weak
fairness of the delivery of a signal that was sent to a living process.

A pthread mutex promises no order, so no property here depends on a thread
winning a mutex that the other one takes again and again. In `Server` and
`Logger` the number of dumps and calls is bounded: `RecordsAreWritten` and
`CommandsAreReceived` say that no path *keeps* the mutex, not that the mutex is
handed out in turn. For the
simulator, whose calls have no bound, `SimSpec` adds strong fairness of the
simulator and of its `LogLock`: the receive thread sleeps for a second outside
the mutex in every turn of its loop (`Logger.cpp:184`), so that a caller that
waits gets it. `Rsa` asks for weak fairness of both threads of a client once it
was started; nobody has to start it. For the same reason nothing is claimed of the menu of
`logser.cpp`, whose receive thread gives the mutex back and takes it at once.
Likewise `semaphores` in `SharedMemory` are only asked for progress of clients
whose number of turns is bounded in the code itself (`NUM_MESSAGES`).

## 5. Findings

Three times a program disagrees with what the repository says of it. One is shown by
a run that is expected to fail, the other two by theorems, of every letter and every
order of steps:

- *A command gets lost* (run `logger_lost_command`). By `asgn/README.md` the level the
  user sets at the server takes effect in the logger. The receive thread gives the
  mutex back at `Logger.cpp:165` and compares `buf` at 169-172. A `Log()` call in
  between zeroes and refills it; the command is not recognised.
- *Nothing is decrypted* (theorem `GarbledAlways`). By its comment `decrypt()` computes
  "m = C^d mod(n)" (`lab8/client1.cpp:207`). It converts the 147th power to an `int`,
  which does not hold it, and adds the code of '0' to the remainder: no letter comes
  back. The keys are not to blame (`KeysFit`).
- *The clients do not communicate* (theorem `NeverAPairAlways`). "A client that
  communicates with a second client" (`lab8/client1.cpp:1`): `main` of each binds the
  port it is to send to, which is the one the other's receive thread binds, and then
  sends to an address nothing fills. The two never both listen.

The models contain further behaviours that are worth knowing and that no run
checks; the properties are stated so that they hold regardless:

- `Logger.cpp:168-176` may store a filter it read before somebody else set one;
  line 71 may test the other thread's result; line 149 may undo `ExitLog`.
- `Server.cpp:176` installs the handler with `SA_RESTART`: the `read()` under `cin`
  goes on after ctrl-C has lowered `isRunning`, and main looks at the flag only
  when the user has typed something, although `asgn/README.md:139` says that ctrl-C
  shuts the server down. `Server` models it as it is: `Interrupt` leaves main at
  its menu.
- `TravelSimulator.cpp:34` raises the flag after the handler was installed and the
  logger started: an earlier ctrl-C is forgotten. `CtrlCEnds` therefore begins
  behind that line.
- `Server.cpp:89` sends to a zero address until a record has come; line 95 opens
  the file before the mutex is taken, and a dump may miss a file created in
  between; line 68 does not notice a thread that was not created; a record in
  hand is lost when `write()` fails; records still in the socket at shutdown are
  lost.
- `logser.cpp` starves its menu, leaks a descriptor per turn, loses a record whose
  `write()` fails (139), and dumps only the first 1024 bytes.
- `lab6/server.cpp:50` forwards only the last of several messages; a full queue
  with an absent receiver stops all senders; ctrl-C in a blocked `msgrcv()` makes
  the client push its last message again or what no call has filled, and a ctrl-C
  handled elsewhere leaves it waiting; a client that got no "Quit" before the queue
  was removed pushes so in every turn of its loop (`client1.cpp:96-103`), without end.
- `lab7/client3.cpp:65` gives the token before the first message is written; an
  interrupted `sem_wait()` forges a token.
- `lab5/server.cpp:74` accepts without looking at `is_running`; a silent client
  or an interrupted `read()` ends the whole server (131); `clearQueue` clears a
  copy; the client's flag is set after its thread was created (`client.cpp:63`).
- `lab3`: a monitor that gets both signals before it looks never ends and the
  parent waits for it for ever; ctrl-C ends the parent only; a failed `fork()`
  becomes `kill(-1)`.
- `lab4`: the first of two servers removes the name of the second when it ends.
- `ex/Server.cpp` writes "sleep" and "done", which no client knows: lab4's client
  echoes them and goes on, that of `ex` fails.
- `lab8`: the `exit()` of a receive thread that did not get its port ends its main too.
- `lab10`: the 64 bytes are never written to a new file, and the first look at the
  record is a SIGBUS; after one failed `cin` the loop runs on by itself; lost
  updates.

## 6. Proofs

Every safety invariant that a passing run checks is proved for every value of the
constants; so are the refinements of `LossyLog` and `Post`. The proofs rest on
the named assumptions on the constants alone: `LoggerAssumption`,
`ServerAssumption`, `LogSystemAssumption`, `DispatcherAssumption`,
`RsaAssumption`, `LockStepAssumption`, `WorkPackageAssumption`. They say that
counts are natural numbers, that levels are severities, that whoever is started is
a client, that letters have seven bits and that 0 is no process. The theorems
about `Monitor` have its `MonitorAssumption` as a hypothesis; what is proved of
`LogSer`, `SharedMemory` and `TcpServer` needs none. In each module the theorem
`Inductive` (in `ServerProofs` also the lemma `OldInductive`, in `LabProofs`
`MonitorInductive`, `TcpInv`, `RsaInv` and `LetterInv`) is the inductive invariant, with one step per action, and the theorems after it read their
properties off.

- `LoggerProofs`: `TypeCorrect`, `SendsOwnRecordAlways`, `AtMostOneLateAlways`, each
  of the library under any application (`Spec`) and under the simulator (`SimSpec`).
  `SendsOwnRecord` alone is not inductive: a receive thread at `recvfrom` could
  zero the buffer of a call at `send`; `LockInv` says that the two control
  points never occur together because each implies that its thread holds the
  mutex. `AtMostOneLate` is a bound on a counter; `LateInv` says why it cannot
  be passed: after the one late record, the call in progress, if there is one,
  passed the test against the filter that now holds. `OneReportEachAlways`: the
  arithmetic of every car's tank, along the control points of its tour, gives it
  one report, however long the calls of `Log()` take.
- `ServerProofs`: `TypeCorrect`, `FileFollowsSocketAlways`,
  `ShutdownKeepsRecordsAlways`, `DumpIsWholeAlways`. The inductive invariant adds
  `LockInv` (who holds the mutex at which control point), `JoinInv` (main is past
  `pthread_join()` only if the receive thread has ended or never was), and
  `DumpInv` (what a dump has shown is a prefix of the file, from the moment it
  took the mutex). `ShutdownKeepsRecords` follows from `JoinInv` and
  `FileFollowsSocket`: a thread that has ended has nothing in hand.
  `RecordsWholeAlways` and `DumpShowsFirstAlways` are about `logser.cpp`, where one
  buffer and one descriptor serve both threads. `OldLock` says at which control
  points a thread has the mutex, `OldHeld` what it may rely on there: the command
  it formatted, the block it read, the descriptor it opened, which no dump replaces.
- `LogSystemProofs`: `KeepsPromise`, logger and server together implement
  `LossyLog`; every step of either is a step of the promise or none. The invariant
  follows a record through its stations: the call in progress, the server's receive
  buffer, the record in the hand of its receive thread, the file. `PipeInv`
  (`Queued`, `Held`, `Sending`) says that what is on these stations is in the
  order of the calls, behind what the file ends with; `LoggerInv` says that the
  library's buffer holds the call's record when it is sent.
  `ComponentsKept`: the composed system implements `Logger!Spec` and `Server!Spec`,
  so what is proved of either alone holds in it; the environment that each module
  supposes is no narrower than the other component and the network.
  `FileInSequence` combines `KeepsPromise` with `PromiseInSequence` (any file the
  promise allows is strictly increasing in the calls' numbers) and answers the question of
  `asgn/README.md:200`, "Are the log messages in sequence?", for the programs and not
  only for the promise.
- `DispatcherProofs`: `TypeCorrect`, `InOrderOnceAlways`, `NothingMadeUp`,
  `KeepsThePost`, for any clients, capacity and number of messages.
  `AddressedInv` says at each place of a message who it is for and that it is no
  garbage, unless it is at a client one of whose calls has failed. A message passes
  seven places: the queue, the hand of the server's receive thread, its
  `std::queue`, the hand of its main thread, the queue again, the hand of the
  client's receive thread, and what arrived. `OrderInv` says that of two messages
  of one pair the one further along has the lower number, that within a place the
  same holds of the positions (`Ordered`), and that nothing on the way has a number
  its source has not given yet (`Counted`), all of it for receivers none of whose
  calls failed. `msgrcv()` takes the first message of a
  type, which need not be the first of the queue: that one exists is
  `LeastNumber`, from well-founded induction on the naturals.
  `StrayInv` is about the others: that what such a client finds in its variable is
  nothing or what it pushed last, and that after a failed call none succeeds, since
  the flag is down or the queue is gone.
  `KeepsThePost` needs more: that a letter given to anybody was written, by whom and
  under which number it says. `GenuineInv` says so at each of the seven places, and
  `InTurnInv` that a client's `dest` is what its count of messages makes it.
  `InOrderOnce` is the part of the promise that needs no letter's origin; the
  order in which `Deliver` wants the letters rests on `OrderInv` as it does.
- `LockStepProofs`: `StaysInStep`, `LeavesWhenTold`, for any sets of servers and
  clients of `lab4` and `ex`. `LinkInv` ties server, client and backlog together,
  `UnheardInv` says that nothing is under way for a client that nobody accepted,
  `TurnInv` whose turn it is at each pair of control points, `RequestInv` that what
  a client carries out is its server's last request.
- `LabProofs`, on `lab8`: `KeysFitAlways`, and `GarbledAlways` and `NeverAPairAlways`,
  the two disagreements of section 5. That a letter is
  encrypted before it is sent is a short invariant (`LetterInv`); the work is in
  the arithmetic. `GcdExists`: Euclid's loop computes a function, since each turn
  looks only at a smaller number (`SameTurn`); the steps it takes for 2 and 3 give
  `e` = 3, so `d` = 147 (`Keys`). `PowerModRun`, `PowersMultiply`: the loop of
  `PowerMod` goes through numbers that multiply as powers do, so its 147th is
  reached from the first by ten products (`Powers147`). Modulo 11 and modulo 23
  these bring a third power back to where it came from (`ExponentsInverse`, by
  looking at each remainder), and what agrees by both factors of 253 is the same
  (`SameRemainders`). `GarbledAlways` adds what becomes of the letter: another
  character when the power fits an int, a negative one when it does not.
  `NeverAPairAlways`: `RsaPorts` says which thread holds which port at which control
  point, and the two clients want the same two.
  On `lab3`: `WritesWhenStartedAlways`, for any `NUM`. `StartInv` covers what leads to a write: whoever has a SIGUSR1 pending, its flag
  raised, or is in its loop was sent the signal by the parent.
  On `lab5`: `EachInOrderAlways`, for any numbers of clients and messages: a push
  moves a run from the hand of a receive thread to the end of the queue and leaves
  the places of the others' messages alone (`QueuedOn`, `QueuedOthers`); `TcpHands`
  says that a thread that reads has empty hands, `TcpMutex` that the end of the queue
  which a thread has looked up under the mutex is still the end when it pushes
  (`PushIsAppend`).
- `WorkPackageProofs`: `ExactUnlessTornAlways`, `NothingInventedAlways`, for any
  processes and amounts.
  `HeldInv` says what each process holds at each control point, `BalanceInv` that
  the balance is `ledger` as long as nothing was torn, and that what a process has
  read of it (`Seen`) is still true unless it is marked stale. `NothingInvented`
  compares the record with the total that was typed, but what the processes have
  typed and not yet stored belongs to that total too: a process that adds to what
  it loaded must not exceed it. A sum over the processes is out of the prover's
  reach, so `Fits` packs the pending amounts instead: they lie as disjoint
  intervals between a mark, which bounds the record and every register, and the
  total. A store moves the mark by the amount and gives up its interval (`RoomLeave`).
- `SharedMemoryProofs`: `TokensAccountedAlways`: on each semaphore, its value and
  its holders together are at most one more than the waits that ctrl-C ended.
  `OpenInv` says who is on a semaphore and that only client 3 gives the first
  token; `TokenInv` counts that token only from when it was given.
  `MutualExclusion`: as long as ctrl-C ended no wait, no two clients are in their
  sections together, on whatever semaphores, since only client 3's has a token.
  `MessageWholeAlways` rests on it: `Begun` (nobody finds a message before client 3
  has named a receiver), `Signed` (who has written its number finds it there until
  it is done) and `Settled` (a segment that is not whole is in somebody's work).

Only model-checked: every liveness property, since fairness and ENABLED are beyond
the prover. The library's induction theorems take an operator as a parameter,
which the prover cannot instantiate; where a loop's values are needed for every
number of turns (`LabProofs`), induction goes over a set of numbers instead
(`SetInduction`, from the well-foundedness of the naturals).

## 7. Abstractions, and what is not modelled

- Texts are numbers: a record is its level and call; formatting is not modelled
  beyond what the receiver of a command makes of it.
- `socket()`, `bind()`, `listen()`, `shmget()` and similar set-up calls succeed (but `bind()` in `lab4` and `lab8`);
  when they fail the program ends before it has any state. Short writes do not
  occur in `asgn` and `logser.cpp`; failing ones do. `msgsnd()` and `msgrcv()` in `lab6` are given a size that counts `mtype`
  and so copy eight bytes beyond the message; these bytes are left out.
- A handler is one step; that it may interrupt a library call that is not
  reentrant (`cout` in handlers of `lab3`) is left out, as is ctrl-Z.
- Empty strings pushed for every `read()` at the end of a stream in `lab5` are left
  out. A client of `lab6` on a removed queue pushes for `MaxFailed` failed calls and
  then turns idly; the proofs hold for every such bound.
- Joining a thread that was not created (`Server.cpp:68`) may end in any way; no
  property promises more of it.
- `WorkPackage` takes amounts that are not negative, which the code does not
  check, and exact numbers instead of doubles.
- A text of `lab8` is one of its letters. Ports are those two numbers; that another
  program holds one is left out.
- The simulator's `sleep(1)` is no step; what it prints (`displayReport`) is
  left out.
- Not modelled: `lab 1`, `lab 2` and `lab2p.cpp` (menus over single system calls: no
  state, no second actor, nothing to interleave), `asgn/LogServer.cpp`
  (`logser.cpp` with unresolved merge-conflict markers, which does not compile),
  scratch files, editor settings, logs and binaries. `ex/intfMonitor.cpp` and
  `ex/sysmonExec.cpp` do what lab3's do, in the same order but for SIGTSTP's
  handler; `Monitor` stands for both pairs.

## 8. Plan

The order was: the logging system first, since it is the largest program and
the only one with two components; then the other programs by how much can go
wrong in them; then proofs where an invariant holds for any number of processes.
What is left:

1. *Model.* The simulator under a server that sends commands, with both sides of
   `LogSystem`; the menus of `lab 2`, should they get state.
2. *Prove.* The step properties under the liveness properties, that is, that the
   measures by which these programs end decrease.
