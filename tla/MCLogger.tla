------------------------------ MODULE MCLogger ------------------------------
(* Logger with small sets of levels, for TLC. *)
EXTENDS Logger

\* TravelSimulator.cpp and Automobile.cpp log at DEBUG and ERROR (and WARNING,
\* which no property here tells from DEBUG).
MCAppLevels == {DEBUG, ERROR}

\* A command below and one above ERROR, and a number that is no severity:
\* logser.cpp forwards whatever number its user types.
MCCmdLevels == {DEBUG, 3, 7}

\* Such a pair as Server.cpp sends, which lets the four severities through only.
MCServerLevels == {DEBUG, 3}
=============================================================================
