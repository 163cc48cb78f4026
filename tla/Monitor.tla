------------------------------- MODULE Monitor -------------------------------
(***************************************************************************)
(* Labs/lab3: sysmonExec.cpp, the parent, forks one intfMonitor.cpp per    *)
(* network interface, starts them with SIGUSR1, stops them with SIGUSR2    *)
(* and waits for them.  Signals are delivered some time after they were    *)
(* sent, two of one kind as one, and two that are pending together in      *)
(* either order.  A monitor that has not installed its handler yet dies of *)
(* the signal.                                                             *)
(*                                                                         *)
(* The sleeps of the parent, 10 and 30 seconds, promise nothing about how  *)
(* far the monitors got.  Labs/ex holds the same two programs in another   *)
(* wording.                                                                *)
(***************************************************************************)
EXTENDS Integers

CONSTANT NUM      \* 2 in sysmonExec.cpp

ASSUME MonitorAssumption == NUM \in Nat \ {0}

Monitors == 1..NUM
Signals  == {"SIGUSR1", "SIGUSR2", "SIGINT"}

VARIABLES
    parent,      \* control point of the parent
    i,           \* its loop counter
    childPid,    \* what fork() returned: the monitor or -1; 0 before
    monitor,     \* control point of each monitor
    handlers,    \* the signals whose handler it has installed
    isRunning,   \* its flag
    pending,     \* the signals on their way to it
    written,     \* history: it has written to Network.log
    started      \* history: the parent has sent it SIGUSR1

sysmonExec  == <<parent, i, childPid>>
intfMonitor == <<monitor, handlers, isRunning, pending, written>>
vars        == <<sysmonExec, intfMonitor, started>>

Gone  == {"none", "exited", "killed", "reaped"}
Alive == {m \in Monitors : monitor[m] \notin Gone}

Init ==
    /\ parent = "fork" /\ i = 1 /\ childPid = [m \in Monitors |-> 0]
    /\ monitor = [m \in Monitors |-> "none"] /\ handlers = [m \in Monitors |-> {}]
    /\ isRunning = [m \in Monitors |-> FALSE] /\ pending = [m \in Monitors |-> {}]
    /\ written = [m \in Monitors |-> FALSE] /\ started = [m \in Monitors |-> FALSE]

-----------------------------------------------------------------------------
(* The parent *)

\* One turn of a for loop over the children.
Turn(next) ==
    IF i < NUM THEN i' = i + 1 /\ parent' = parent ELSE i' = 1 /\ parent' = next

Fork ==
    /\ parent = "fork"
    /\ Turn("start")
    /\ \/ /\ childPid' = [childPid EXCEPT ![i] = i]
          /\ monitor' = [monitor EXCEPT ![i] = "forked"]
       \/ childPid' = [childPid EXCEPT ![i] = -1] /\ monitor' = monitor
    /\ UNCHANGED <<handlers, isRunning, pending, written, started>>

\* kill(childPid[i]), which for the -1 of a failed fork() is kill(-1): to
\* everybody.
Targets == Alive \cap (IF childPid[i] = -1 THEN Monitors ELSE {childPid[i]})

Kill(sig) ==
    pending' = [m \in Monitors |-> IF m \in Targets THEN pending[m] \cup {sig} ELSE pending[m]]

Start ==
    /\ parent = "start"
    /\ Kill("SIGUSR1") /\ Turn("stop")
    /\ started' = [m \in Monitors |-> started[m] \/ m \in Targets]
    /\ UNCHANGED <<childPid, monitor, handlers, isRunning, written>>

Stop ==
    /\ parent = "stop"
    /\ Kill("SIGUSR2") /\ Turn("wait")
    /\ UNCHANGED <<childPid, monitor, handlers, isRunning, written, started>>

\* wait() returns one child that ended.
Wait ==
    /\ parent = "wait"
    /\ \E m \in Monitors : /\ monitor[m] \in {"exited", "killed"}
                           /\ monitor' = [monitor EXCEPT ![m] = "reaped"]
    /\ UNCHANGED <<sysmonExec, handlers, isRunning, pending, written, started>>

\* wait() fails when there is no child any more.
Finish ==
    /\ parent = "wait"
    /\ \A m \in Monitors : monitor[m] \in {"none", "reaped"}
    /\ parent' = "finished"
    /\ UNCHANGED <<i, childPid, intfMonitor, started>>

-----------------------------------------------------------------------------
(* A monitor *)

Exec(m) ==
    /\ monitor[m] = "forked"
    /\ monitor' = [monitor EXCEPT ![m] = "SIGUSR1"]
    /\ UNCHANGED <<sysmonExec, handlers, isRunning, pending, written, started>>

\* The child prints that it should not get here, and returns from main().
ExecFails(m) ==
    /\ monitor[m] = "forked"
    /\ monitor' = [monitor EXCEPT ![m] = "exited"]
    /\ UNCHANGED <<sysmonExec, handlers, isRunning, pending, written, started>>

\* The handlers are installed one by one.  (The fourth, for SIGTSTP, is not
\* part of the model.)
Next3 == [SIGUSR1 |-> "SIGUSR2", SIGUSR2 |-> "SIGINT", SIGINT |-> "wait"]

Install(m) ==
    /\ monitor[m] \in Signals
    /\ handlers' = [handlers EXCEPT ![m] = @ \cup {monitor[m]}]
    /\ monitor' = [monitor EXCEPT ![m] = Next3[monitor[m]]]
    /\ UNCHANGED <<sysmonExec, isRunning, pending, written, started>>

\* Mutant: the loop that waits for SIGUSR1 is missing.
AwaitNothing(m) ==
    /\ monitor[m] = "wait"
    /\ monitor' = [monitor EXCEPT ![m] = "write"]
    /\ UNCHANGED <<sysmonExec, handlers, isRunning, pending, written, started>>

\* while(!isRunning)
AwaitStart(m) ==
    /\ monitor[m] = "wait" /\ isRunning[m]
    /\ monitor' = [monitor EXCEPT ![m] = "loop"]
    /\ UNCHANGED <<sysmonExec, handlers, isRunning, pending, written, started>>

Loop(m) ==
    /\ monitor[m] = "loop"
    /\ monitor' = [monitor EXCEPT ![m] = IF isRunning[m] THEN "write" ELSE "exited"]
    /\ UNCHANGED <<sysmonExec, handlers, isRunning, pending, written, started>>

WriteStats(m) ==
    /\ monitor[m] = "write"
    /\ monitor' = [monitor EXCEPT ![m] = "loop"]
    /\ written' = [written EXCEPT ![m] = TRUE]
    /\ UNCHANGED <<sysmonExec, handlers, isRunning, pending, started>>

\* Mutant: SIGUSR2 only reports.
SetsRunningOnce(m, sig) == IF sig = "SIGUSR1" THEN TRUE ELSE isRunning[m]

\* What signalHandler() makes of the flag.
SetsRunning(m, sig) ==
    IF sig = "SIGUSR1" THEN TRUE ELSE IF sig = "SIGUSR2" THEN FALSE ELSE isRunning[m]

\* A pending signal is delivered: to its handler, or to end the process.
Deliver(m) ==
    /\ m \in Alive
    /\ \E sig \in pending[m] :
           /\ pending' = [pending EXCEPT ![m] = @ \ {sig}]
           /\ IF sig \in handlers[m]
              THEN /\ isRunning' = [isRunning EXCEPT ![m] = SetsRunning(m, sig)]
                   /\ monitor' = monitor
              ELSE monitor' = [monitor EXCEPT ![m] = "killed"] /\ isRunning' = isRunning
    /\ UNCHANGED <<sysmonExec, handlers, written, started>>

\* ctrl-C goes to every process of the terminal.  The parent has no handler.
CtrlC ==
    /\ parent \notin {"finished", "killed"}
    /\ parent' = "killed"
    /\ pending' = [m \in Monitors |-> IF m \in Alive THEN pending[m] \cup {"SIGINT"}
                                                      ELSE pending[m]]
    /\ UNCHANGED <<i, childPid, monitor, handlers, isRunning, written, started>>

-----------------------------------------------------------------------------
ParentStep == Fork \/ Start \/ Stop \/ Wait \/ Finish
MonitorStep(m) ==
    Exec(m) \/ ExecFails(m) \/ Install(m) \/ AwaitStart(m) \/ Loop(m) \/ WriteStats(m)

Next ==
    \/ ParentStep \/ CtrlC
    \/ \E m \in Monitors : MonitorStep(m) \/ Deliver(m)

Spec == Init /\ [][Next]_vars

\* Every process is scheduled again and again, and every signal is delivered at
\* last; nobody has to press ctrl-C.
FairSpec ==
    /\ Spec /\ WF_vars(ParentStep)
    /\ \A m \in Monitors : WF_vars(MonitorStep(m)) /\ WF_vars(Deliver(m))

-----------------------------------------------------------------------------
(* Properties *)

\* Every variable keeps to the values the code's types allow.
TypeOK ==
    /\ parent \in {"fork", "start", "stop", "wait", "finished", "killed"}
    /\ i \in 1..NUM /\ childPid \in [Monitors -> -1..NUM]
    /\ monitor \in [Monitors -> Gone \cup Signals \cup {"forked", "wait", "loop", "write"}]
    /\ handlers \in [Monitors -> SUBSET Signals] /\ pending \in [Monitors -> SUBSET Signals]
    /\ isRunning \in [Monitors -> BOOLEAN] /\ written \in [Monitors -> BOOLEAN]
    /\ started \in [Monitors -> BOOLEAN]

\* No monitor writes that the parent has not sent SIGUSR1, neither because of
\* another signal nor because the parent is gone (intfMonitor.cpp:50-54,
\* sysmonExec.cpp:57-60).
WritesWhenStarted == \A m \in Monitors : written[m] => started[m]

\* When every monitor works and has its SIGUSR1 behind it as the parent comes to
\* stop them, the parent comes to its end (sysmonExec.cpp:66-77): no SIGUSR2 is
\* lost on a monitor that has come so far.
StopEndsAll ==
    (/\ parent = "stop" /\ i = 1
     /\ \A m \in Alive : monitor[m] \in {"loop", "write"} /\ "SIGUSR1" \notin pending[m])
        ~> parent \in {"finished", "killed"}
=============================================================================
