SPECIFICATION Spec
CONSTANTS
    Header = header
    Footer = footer
    End = end
    NoMacro = none
    NoNumber = nonumber
    Lines <- DocumentLines
    Setups <- ManySetups
    EndMacros <- AnyEnd
    PageLength = 4
    Width = 2
    MaxLines = 3
    MaxCount = 24
CHECK_DEADLOCK FALSE
INVARIANT TypeOK
INVARIANT TrapsNest
INVARIANT PostponingIsBrief
INVARIANT EjectionContinues
PROPERTY ImplementsTypesetter
PROPERTY Terminates
