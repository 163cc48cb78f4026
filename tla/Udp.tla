-------------------------------- MODULE Udp --------------------------------
(***************************************************************************)
(* The datagrams of the logging system and the loopback UDP socket that    *)
(* carries them.  A datagram sits in the receive buffer of the socket it   *)
(* was sent to; on the loopback interface datagrams keep their order and   *)
(* are lost only when no socket is bound or its receive buffer is full.    *)
(***************************************************************************)
EXTENDS Naturals, Sequences

CONSTANT RcvBuf      \* how many datagrams a receive buffer holds

ASSUME RcvBufAssumption == RcvBuf \in Nat

\* Logger.h: the severities, and the names the code gives them.
LOG_LEVEL == 0..3
DEBUG     == 0
ERROR     == 2

\* What a buffer can hold: nothing (all zeroes), a "Set Log Level=<level>"
\* command, or a formatted log record.  A record carries the number of the
\* Log() call that made it, which stands for its time stamp, place and text.
Datagram  == [type: {"blank", "cmd", "log"}, level: Nat, id: Nat]
Blank     == [type |-> "blank", level |-> 0, id |-> 0]
Cmd(l)    == [type |-> "cmd", level |-> l, id |-> 0]
Record(l, k) == [type |-> "log", level |-> l, id |-> k]

\* The receive buffer q after datagram m arrives at it.
Deposit(q, m) == IF Len(q) < RcvBuf THEN Append(q, m) ELSE q

\* What sendto() can leave in q: no socket may be bound there any more, or yet,
\* and the datagram is then lost without the sender noticing.
Arrivals(q, m) == {q, Deposit(q, m)}
=============================================================================
