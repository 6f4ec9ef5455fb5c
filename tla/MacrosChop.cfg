SPECIFICATION Spec
CONSTANTS
    letter = letter
    node = node
    Names = {a, b}
    Objects = {o1, o2}
    Headers = {h1, h2}
    NoObject = noobject
    Request = request
    NoHeader = noheader
    NoDraft = nodraft
    Chars <- OneChar
    Nodes <- OneNode
    Push = push
    Pop = pop
    Upper <- SameCase
    Plain <- AsChar
    Kept = {}
    MaxLength = 2
    MaxInput = 0
    MaxOpen = 0
    Extras = {"chop of nothing"}
CHECK_DEADLOCK FALSE
INVARIANT NothingAborts
