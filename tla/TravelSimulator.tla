-------------------------- MODULE TravelSimulator --------------------------
(***************************************************************************)
(* Labs/asgn/TravelSimulator.cpp and Automobile.cpp: the application that  *)
(* uses the logger.  Until ctrl-C, four cars are filled, driven through    *)
(* the city, filled up and driven on the highway; Automobile reports a     *)
(* full and an empty tank through Log().                                   *)
(*                                                                         *)
(* Fuel is counted in hundredths of a litre, distances in hundreds of      *)
(* kilometres; in these units the doubles of the code are exact where it   *)
(* compares them.                                                          *)
(***************************************************************************)
EXTENDS Logger

VARIABLES
    app,        \* control point of the application, or "other": not this one
    next,       \* the car whose turn it is, 5 after the last
    fuelInTank, \* of each car
    track, isRunning,
    reports     \* history: what was reported of each car on this tour

appVars == <<app, next, fuelInTank, track, isRunning, reports>>
logVars == vars

Cars     == 1..4
City     == <<820, 780, 1060, 1729>>
Highway  == <<620, 580, 750, 1250>>
WARNING  == 1
Tank     == 5000

\* Either some other application, or the simulator with a server that sends no
\* commands.
AppInit ==
    /\ Init /\ app \in {"other", "set"}
    /\ next = 1 /\ track = 1 /\ isRunning = FALSE
    /\ fuelInTank = [c \in Cars |-> 0] /\ reports = [c \in Cars |-> {}]

\* Where the control goes when the cars of a leg, or a call, are done.
After == [set |-> "created", created |-> "run", fill |-> "city", city |-> "refill",
          refill |-> "highway", highway |-> "turn",
          displayed |-> "deleted", deleted |-> "exit"]

\* SetLogLevel(DEBUG), which the logger's Application counts.
SetLevel ==
    /\ app = "set" /\ SetLogLevel(DEBUG) /\ app' = After[app]
    /\ UNCHANGED <<next, fuelInTank, track, isRunning, reports>>

\* The calls of Log() that close a section of main().
Note ==
    /\ app \in {"created", "displayed", "deleted"} \/ next > 4
    /\ LogTest(DEBUG, 0) /\ calls' = calls /\ app' = After[app] /\ next' = 1
    /\ UNCHANGED <<fuelInTank, track, isRunning, reports>>

\* A ctrl-C that came before is forgotten.
Run ==
    /\ app = "run" /\ main = "idle" /\ app' = "while" /\ isRunning' = TRUE
    /\ UNCHANGED <<logVars, next, fuelInTank, track, reports>>

\* The loop's condition, and emptyFuel() for each car.
While ==
    /\ app = "while" /\ main = "idle"
    /\ IF isRunning
       THEN /\ app' = "fill" /\ fuelInTank' = [c \in Cars |-> 0]
            /\ reports' = [c \in Cars |-> {}]
       ELSE app' = "displayed" /\ UNCHANGED <<fuelInTank, reports>>
    /\ UNCHANGED <<logVars, next, track, isRunning>>

\* Car c reports through Log() that its tank is full, or empty.
Report(c, l) ==
    /\ LogTest(l, 0) /\ calls' = calls
    /\ reports' = [reports EXCEPT ![c] = @ \cup {<<app, l>>}]

NoReport == main = "idle" /\ UNCHANGED <<logVars, reports>>

\* Mutant: a tank that has just become full counts as overfull.
addFuelFull(c) ==
    LET f == fuelInTank[c] + Tank IN
    /\ fuelInTank' = [fuelInTank EXCEPT ![c] = IF f >= Tank THEN Tank ELSE f]
    /\ IF f >= Tank THEN Report(c, WARNING) ELSE NoReport

addFuel(c) ==
    LET f == fuelInTank[c] + Tank IN
    /\ fuelInTank' = [fuelInTank EXCEPT ![c] = IF f > Tank THEN Tank ELSE f]
    /\ IF f > Tank THEN Report(c, WARNING) ELSE NoReport

drive(c, consumed) ==
    LET f == fuelInTank[c] - consumed IN
    /\ fuelInTank' = [fuelInTank EXCEPT ![c] = IF f < 0 THEN 0 ELSE f]
    /\ IF f < 0 THEN Report(c, ERROR) ELSE NoReport

\* One car's part of a leg.
Car ==
    /\ next <= 4 /\ next' = next + 1
    /\ \/ app \in {"fill", "refill"} /\ addFuel(next)
       \/ app = "city" /\ drive(next, track * City[next])
       \/ app = "highway" /\ drive(next, (5 - track) * Highway[next])
    /\ UNCHANGED <<app, track, isRunning>>

\* Mutant: the flag is raised on every turn.
TurnRaises ==
    /\ app = "turn" /\ main = "idle" /\ app' = "while"
    /\ track' = ((track + 1) % 5) + 1 /\ isRunning' = TRUE
    /\ UNCHANGED <<logVars, next, fuelInTank, reports>>

\* The next track, and sleep(1).
Turn ==
    /\ app = "turn" /\ main = "idle" /\ app' = "while"
    /\ track' = ((track + 1) % 5) + 1
    /\ UNCHANGED <<logVars, next, fuelInTank, isRunning, reports>>

Exit ==
    /\ app = "exit" /\ ExitLog /\ app' = "over"
    /\ UNCHANGED <<next, fuelInTank, track, isRunning, reports>>

shutdownHandler ==
    /\ app \notin {"other", "over"} /\ isRunning /\ isRunning' = FALSE
    /\ UNCHANGED <<logVars, app, next, fuelInTank, track, reports>>

Simulator == SetLevel \/ Note \/ Run \/ While \/ Car \/ Turn \/ Exit

LoggerStep == MainStep \/ RecvStep \/ ServerTakes

SimNext ==
    \/ LoggerStep /\ UNCHANGED appVars
    \/ app = "other" /\ (Application \/ \E l \in CmdLevels : ServerCommand(l)) /\ UNCHANGED appVars
    \/ Simulator \/ shutdownHandler

allVars == <<vars, appVars>>

\* As for the logger.  In addition the simulator gets the mutex when it is free
\* again and again: the receive thread sleeps for a second outside of it in
\* every turn of its loop.
SimSpec ==
    /\ AppInit /\ [][SimNext]_allVars
    /\ WF_allVars(MainStep /\ UNCHANGED appVars) /\ WF_allVars(RecvStep /\ UNCHANGED appVars)
    /\ SF_allVars(Simulator \/ (app # "other" /\ LogLock /\ UNCHANGED appVars))

-----------------------------------------------------------------------------
(* Properties *)

\* When all cars are filled up for the highway, each one either ran dry in the
\* city or is full before its time, and just one of that was reported
\* (Automobile.cpp:27-50, TravelSimulator.cpp:41-62).
OneReportEach ==
    app = "refill" /\ next > 4 =>
        \A c \in Cars : reports[c] \in {{<<"city", ERROR>>}, {<<"refill", WARNING>>}}

\* Once the tours have begun, ctrl-C brings the simulator to its end, through
\* whatever calls of Log() are left (TravelSimulator.cpp:34-94).
CtrlCEnds ==
    app \notin {"other", "set", "created", "run"} /\ ~isRunning ~> main = "exited"
=============================================================================
