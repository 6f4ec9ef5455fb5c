SPECIFICATION Spec
CONSTANTS
    m = m
    Macros <- OneMacro
    NoMacro = none
    NoNumber = nonumber
    LastPageNumber = 0
    IsEmpty <- AlwaysEmpty
    Documents <- PlainAndWild
    MaxSlots = 2
    MaxCount = 2
    MaxInput = 2
    MaxPosition = 4
CHECK_DEADLOCK FALSE
INVARIANT TypeOK
INVARIANT NlFollowsPosition
PROPERTY StaysOnPage
PROPERTY NoTrapSkipped
