------------------------------ MODULE MCServer ------------------------------
(* Server with two log records, for TLC. *)
EXTENDS Server

\* Any number of each may be sent, so that one lost, repeated or out of its
\* place is told from the right one.
MCRecords == {Record(DEBUG, 1), Record(ERROR, 2)}
=============================================================================
