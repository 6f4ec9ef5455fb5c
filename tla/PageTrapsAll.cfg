SPECIFICATION Spec
CONSTANTS
    a = a
    b = b
    Macros <- TwoMacros
    NoMacro = none
    Positions <- MixedPositions
    MaxSlots = 3
INVARIANT TypeOK
INVARIANT OneTrapAPosition
INVARIANT LoopFindsNearest
PROPERTY ImplementsPlantedTraps
