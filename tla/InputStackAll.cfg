SPECIFICATION FairSpec
CONSTANTS
    Sizes = {0, 2}
    LoopSizes = {1, 2}
    Counts = {1}
    MaxFiles = 2
    Limit = 4
    Exits = 2
    Extras = {}
INVARIANTS
    BoundariesMatchLoops
    ReturnsUnwind
    EndsMatchBegins
PROPERTIES
    Implements
    KeepsPromises
    Terminates
CHECK_DEADLOCK FALSE
