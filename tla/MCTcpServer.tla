---------------------------- MODULE MCTcpServer ----------------------------
(* TcpServer with two clients, for TLC. *)
EXTENDS TcpServer

\* One client writes twice, so that its messages could change places; the other
\* once.
MCWrites == <<2, 1>>
=============================================================================
