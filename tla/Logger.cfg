\* Types, buffer integrity, what a filter change leaves in flight, and the end
\* of the receive thread; under any application and under the simulator.
SPECIFICATION SimSpec
CONSTANTS
    RcvBuf = 1
    AppLevels <- MCAppLevels
    CmdLevels <- MCCmdLevels
    MaxCalls = 3
    MaxCmds = 2
INVARIANTS
    TypeOK
    SendsOwnRecord
    AtMostOneLate
    OneReportEach
PROPERTIES
    ExitStopsStartedReceiver
    CommandsAreReceived
    CtrlCEnds
CHECK_DEADLOCK FALSE
