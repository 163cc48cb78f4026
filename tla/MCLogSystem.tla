----------------------------- MODULE MCLogSystem -----------------------------
(* LogSystem with few levels, for TLC. *)
EXTENDS LogSystem

\* What passes the initial filter and what does not.
MCAppLevels == {DEBUG, ERROR}

\* The menu of Server.cpp lets the four severities through only; the lowest and
\* the highest are enough to open and to shut the filter.
MCCmdLevels == {DEBUG, 3}
=============================================================================
