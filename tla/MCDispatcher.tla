---------------------------- MODULE MCDispatcher ----------------------------
(* Dispatcher for TLC. *)
EXTENDS Dispatcher

\* Client 1 sends three messages, the first and the third to client 2; the
\* second, for client 3, which was not started, stays in the queue.
MCTwo      == {1, 2}
MCSender   == [c \in Clients |-> IF c = 1 THEN 3 ELSE 0]
=============================================================================
