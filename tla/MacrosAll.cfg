SPECIFICATION Spec
CONSTANTS
    letter = letter
    node = node
    Names = {a, b}
    Objects = {o1, o2}
    Headers = {h1, h2}
    NoObject = noobject
    Request = request
    NoHeader = noheader
    NoDraft = nodraft
    Chars <- OneChar
    Nodes <- OneNode
    Push = push
    Pop = pop
    Upper <- SameCase
    Plain <- AsChar
    Kept = {}
    MaxLength = 2
    MaxInput = 1
    MaxOpen = 1
    Extras = {"chop of nothing", "case of a node", "node after a mode"}
CHECK_DEADLOCK FALSE
SYMMETRY Symmetry
INVARIANT TypeOK
INVARIANT CountsAreExact
INVARIANT ModesBalance
PROPERTY Implements
