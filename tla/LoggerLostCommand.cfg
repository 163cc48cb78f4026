\* A command the receive thread took in is lost to a Log() call.
SPECIFICATION Spec
CONSTANTS
    RcvBuf = 2
    AppLevels <- MCAppLevels
    CmdLevels <- MCServerLevels
    MaxCalls = 2
    MaxCmds = 1
INVARIANT
    CommandObeyed
CHECK_DEADLOCK FALSE
