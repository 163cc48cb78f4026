------------------------------ MODULE LossyLog ------------------------------
(***************************************************************************)
(* What the logging system promises: the log file is a lossy, never        *)
(* shrinking account of the application's Log() calls, in the order of the *)
(* calls.  Calls are numbered from 1; the file holds their numbers.        *)
(***************************************************************************)
EXTENDS Naturals, Sequences

CONSTANT MaxIssued     \* bound: calls

VARIABLES
    issued,    \* how many calls the application has made
    file       \* the numbers of the calls whose records are in the log file

vars == <<issued, file>>

Init == issued = 0 /\ file = <<>>

\* The last number in the file, 0 when there is none.
Newest == IF file = <<>> THEN 0 ELSE file[Len(file)]

Issue ==
    /\ issued < MaxIssued
    /\ issued' = issued + 1 /\ file' = file

\* A record reaches the file: of a call that was made, and of a later one than
\* any record there.
Record ==
    /\ \E k \in (Newest + 1)..issued : file' = Append(file, k)
    /\ issued' = issued

Next == Issue \/ Record

Spec == Init /\ [][Next]_vars

-----------------------------------------------------------------------------
\* README.md:200, "Are the log messages in sequence?": they are, and none is
\* there twice or without a call.
InSequence ==
    /\ \A i, j \in 1..Len(file) : i < j => file[i] < file[j]
    /\ \A i \in 1..Len(file) : file[i] \in 1..issued
=============================================================================
