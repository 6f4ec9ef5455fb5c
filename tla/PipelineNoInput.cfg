SPECIFICATION Spec
CONSTANTS
    N = 2
    MaxFd = 4
    Capacity = 1
    Starts <- NoStandardInput
    ExitStatuses = {0}
    Signals = {15}
CHECK_DEADLOCK FALSE
INVARIANT NoneIsStuck
