SPECIFICATION Spec
CONSTANTS
    bs = bs
    dot = dot
    apos = apos
    at = at
    nul = nul
    noarg = noarg
    invalid = invalid
    e0 = e0
    e1 = e1
    Chars <- MCChars
    DefaultEscape <- bs
    DefaultControl <- dot
    DefaultNoBreak <- apos
    NoChar <- nul
    NoArg <- noarg
    Invalid <- invalid
    Envs <- MCEnvs
    InitialEnv <- e0
    MaxDepth = 1
CHECK_DEADLOCK FALSE
INVARIANT TypeOK
INVARIANT ControlsDistinct
INVARIANT ChecksSuffice
