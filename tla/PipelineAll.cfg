SPECIFICATION Spec
CONSTANTS
    N = 3
    MaxFd = 6
    Capacity = 1
    Starts <- UsualStarts
    ExitStatuses = {0, 1}
    Signals = {15}
CHECK_DEADLOCK FALSE
INVARIANT TypeOK
INVARIANT Plumbed
INVARIANT PidsAreLive
INVARIANT StatusSummarises
INVARIANT NoneIsStuck
PROPERTY PipelineDrains
