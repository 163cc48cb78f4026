------------------------------ MODULE MCLogSer ------------------------------
(* LogSer with two log records, for TLC. *)
EXTENDS LogSer

MCRecords == {Record(DEBUG, 1), Record(ERROR, 2)}
=============================================================================
