\* The log file is the account that LossyLog promises.
SPECIFICATION Spec
CONSTANTS
    RcvBuf = 2
    AppLevels <- MCAppLevels
    CmdLevels <- MCCmdLevels
    MaxCalls = 2
    MaxCmds = 1
    MaxChoices = 1
    MaxSends = 2
    MaxRestarts = 1
PROPERTIES
    AccountSpec
CHECK_DEADLOCK FALSE
