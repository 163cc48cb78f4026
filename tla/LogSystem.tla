------------------------------ MODULE LogSystem ------------------------------
(***************************************************************************)
(* The logging system of Labs/asgn: an application process with the logger *)
(* of Logger.cpp in it, the log server of Server.cpp, and the two UDP      *)
(* sockets between them.  The components are the modules Logger and        *)
(* Server; they share the receive buffers to_logger and to_server.  A step *)
(* of one that puts into or takes from a buffer is at once the step of the *)
(* other's environment.                                                    *)
(***************************************************************************)
EXTENDS Integers, Udp

CONSTANTS AppLevels, CmdLevels, MaxCalls, MaxCmds,    \* of Logger
          MaxChoices, MaxSends, MaxRestarts           \* of Server

\* Server.cpp asks again for a level that is none of the four.
ASSUME LogSystemAssumption ==
    /\ AppLevels \subseteq LOG_LEVEL /\ CmdLevels \subseteq LOG_LEVEL
    /\ {MaxCalls, MaxCmds, MaxChoices, MaxSends, MaxRestarts} \subseteq Nat

VARIABLES
    \* the logger: its control points and mutex are renamed
    app_main, app_recv, app_lock, filter, buf, ret, is_running, fd, call,
    new_level, got, late, calls, cmds,
    \* the server: likewise
    sv_main, sv_recv, sv_lock, isRunning, cl_addr, tempBuf, exists, log, file,
    shown, taken, choices, sends, restarts,
    \* the sockets' receive buffers
    to_logger, to_server

loggerVars == <<app_main, app_recv, app_lock, filter, buf, ret, is_running, fd,
                call, new_level, got, late, calls, cmds>>
serverVars == <<sv_main, sv_recv, sv_lock, isRunning, cl_addr, tempBuf, exists,
                log, file, shown, taken, choices, sends, restarts>>
buffers    == <<to_logger, to_server>>
vars       == <<loggerVars, serverVars, buffers>>

\* The records that the application's calls can make.
Records == {Record(l, k) : l \in AppLevels, k \in 1..MaxCalls}

L == INSTANCE Logger WITH main <- app_main, recv <- app_recv, lock_x <- app_lock
S == INSTANCE Server WITH main <- sv_main, recv <- sv_recv, lock_x <- sv_lock

Init == L!Init /\ S!Init

LoggerBound == fd = "open"
ServerBound == sv_main \notin {"ended", "failed"}

-----------------------------------------------------------------------------
(* The logger's steps *)

LoggerLocal ==
    /\ L!MainLocal \/ L!Application \/ L!RecvLocal
    /\ UNCHANGED serverVars

\* Log() sends: what it sends arrives while both sockets are there.
SendRecord ==
    /\ L!LogSend
    /\ IF LoggerBound /\ ServerBound
       THEN S!ClientSend(buf)
       ELSE UNCHANGED <<serverVars, buffers>>

TakeCommand ==
    /\ L!RecvFrom
    /\ IF LoggerBound /\ to_logger # <<>>
       THEN S!LoggerTakes
       ELSE UNCHANGED serverVars

-----------------------------------------------------------------------------
(* The server's steps *)

ServerLocal ==
    /\ S!UserLocal \/ S!MainStep \/ S!RecvLocal \/ S!Interrupt
    /\ UNCHANGED loggerVars

\* The user sets the level: the command arrives when cl_addr is an address and
\* the logger's socket is still there.
SendCommand(l) ==
    /\ S!SendLevel(l)
    /\ IF cl_addr # "zero" /\ LoggerBound
       THEN L!ServerCommand(l)
       ELSE UNCHANGED <<loggerVars, buffers>>

TakeRecord ==
    /\ S!RecvFrom
    /\ IF to_server # <<>>
       THEN L!ServerTakes
       ELSE UNCHANGED loggerVars

RestartServer ==
    /\ S!Restart
    /\ IF to_server # <<>>
       THEN L!ServerTakes
       ELSE UNCHANGED loggerVars

-----------------------------------------------------------------------------
Next ==
    \/ LoggerLocal \/ SendRecord \/ TakeCommand
    \/ ServerLocal \/ TakeRecord \/ RestartServer
    \/ \E l \in CmdLevels : SendCommand(l)

Spec == Init /\ [][Next]_vars

-----------------------------------------------------------------------------
(* Properties *)

\* The server's file is the account of the application's calls that LossyLog
\* describes: a record is in the file once, after the records of all earlier
\* calls that are there at all, across losses in the network and crashes and
\* restarts of the server (README.md:200).
Account == INSTANCE LossyLog WITH
               MaxIssued <- MaxCalls, issued <- calls,
               file <- [i \in 1..Len(log) |-> log[i].id]

AccountSpec == Account!Spec
=============================================================================
