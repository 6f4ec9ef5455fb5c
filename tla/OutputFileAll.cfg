SPECIFICATION Spec
CONSTANTS
    roman = roman
    bold = bold
    a = a
    special = special
    red = red
    black = black
    Width <- Widths
    NoFont = nofont
    Default = black
    Fonts <- TwoFonts
    FontPositions <- OnePosition
    NotMounted = 0
    NoTfont = notfont
    Tfonts <- SomeTfonts
    Colors <- TwoColors
    Paints <- SomePaints
    NoColor = nocolor
    Chars <- OneChar
    Specials <- OneSpecial
    Drawings <- SomeDrawings
    Motions <- SomeMotions
    Starts <- SomeStarts
    RawEnds <- OneRawEnd
    Sizes <- TwoSizes
    Devices <- SomeDevices
    PageLength = 2
    TbufSize = 2
    NearLimit = 2
    Extras = {}
    MaxH = 2
    MaxV = 1
CHECK_DEADLOCK FALSE
INVARIANT AsAsked
INVARIANT BelievesLooks
INVARIANT BelievesPosition
INVARIANT BufferIsCurrent
