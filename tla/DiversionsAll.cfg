SPECIFICATION Spec
CONSTANTS
    Envs = {e0, e1}
    InitialEnv = e0
    Filled = {e0}
    Width = 1
    Lengths = {1, 2}
    MaxWords = 3
    MaxOpen = 3
    MaxEvs = 1
    Extras = {}
INVARIANTS
    TypeOK
    NothingWaits
PROPERTY Implements
CHECK_DEADLOCK FALSE
