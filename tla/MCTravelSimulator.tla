------------------------- MODULE MCTravelSimulator -------------------------
(* The logger under the simulator, or under any application, for TLC. *)
EXTENDS TravelSimulator

\* TravelSimulator.cpp and Automobile.cpp log at DEBUG and ERROR (and WARNING,
\* which no property here tells from DEBUG).
MCAppLevels == {DEBUG, ERROR}

\* A command below and one above ERROR, and a number that is no severity:
\* logser.cpp forwards whatever number its user types.
MCCmdLevels == {DEBUG, 3, 7}
=============================================================================
