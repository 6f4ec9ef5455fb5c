------------------------------- MODULE Driver -------------------------------
(* libdriver: how a driver obeys the commands of device-independent output. *)
(* A command is a tuple of its letter and its arguments.                    *)
EXTENDS Integers, Sequences

CONSTANTS
    Width,         \* Width[glyph][font][size]: the advance of a glyph
    NoFont,        \* an entry of the font table where nothing is mounted
    Default        \* the default color

\* The driver before its first page: its environment, its font table and the
\* marks it has made on the line at hand.
NewDriver(fontPositions) ==
    [fontno |-> -1, size |-> 10, height |-> 0, slant |-> 0,
     stroke |-> Default, fill |-> Default, hpos |-> -1, vpos |-> -1,
     table |-> [n \in fontPositions |-> NoFont], ink |-> <<>>]

Mounted(d) == d.fontno \in DOMAIN d.table /\ d.table[d.fontno] # NoFont

\* Height 0 stands for the height that goes with the size.
Look(d) ==
    [font |-> d.table[d.fontno], size |-> d.size,
     height |-> IF d.height = 0 THEN d.size ELSE d.height,
     slant |-> d.slant, stroke |-> d.stroke, fill |-> d.fill]

ShapeLook(d) == [size |-> d.size, stroke |-> d.stroke, fill |-> d.fill]

Mark(what, look, h, v) == [what |-> what, look |-> look, h |-> h, v |-> v]

\* A glyph is set if its font is mounted, otherwise an error is reported.
SetGlyph(d, g) ==
    IF Mounted(d)
    THEN [d EXCEPT !.ink = Append(@, Mark(g, Look(d), d.hpos, d.vpos))]
    ELSE d

\* The word of a t or u command: where it begins and where each of its glyphs
\* ends.  (Without a font the code advances by an uninitialized width; troff
\* mounts and selects a font before it writes a word.)
Advances(d, kern, word) ==
    LET At[i \in 0..Len(word)] ==
            IF i = 0 THEN d.hpos
            ELSE At[i - 1]
                 + (kern + Width[word[i]][d.table[d.fontno]][d.size])
    IN  At

SetWord(d, kern, word) ==
    LET At == Advances(d, kern, word)
    IN  IF Mounted(d)
        THEN [d EXCEPT
                !.ink = @ \o [i \in DOMAIN word |->
                                Mark(word[i], Look(d), At[i - 1], d.vpos)],
                !.hpos = At[Len(word)]]
        ELSE d

\* How far a D command moves the drawing position.
DrawnTo(shape) ==
    <<shape.h, IF shape.code \in {"c", "C", "e", "E"} THEN 0 ELSE shape.v>>

Draw(d, shape) ==
    [d EXCEPT !.ink = Append(@, Mark(shape, ShapeLook(d), d.hpos, d.vpos)),
              !.hpos = @ + DrawnTo(shape)[1],
              !.vpos = @ + DrawnTo(shape)[2]]

\* A fixed height equal to the size is the height that goes with the size.
UnlessSize(height, size) == IF height = size THEN 0 ELSE height

\* What the commands do to the environment, one command at a time.
FontCommand(d, n) == [d EXCEPT !.fontno = n]
SizeCommand(d, n) == [d EXCEPT !.size = n, !.height = UnlessSize(@, n)]
HeightCommand(d, n) == [d EXCEPT !.height = UnlessSize(n, d.size)]
SlantCommand(d, n) == [d EXCEPT !.slant = n]
MountCommand(d, n, name) == [d EXCEPT !.table[n] = name]
StrokeCommand(d, c) == [d EXCEPT !.stroke = c]
FillCommand(d, c) == [d EXCEPT !.fill = c]
MoveBy(d, h, v) == [d EXCEPT !.hpos = @ + h, !.vpos = @ + v]
JumpTo(d, h, v) == [d EXCEPT !.hpos = h, !.vpos = v]

Extend(d, text) ==
    [d EXCEPT !.ink = Append(@, Mark(text, ShapeLook(d), d.hpos, d.vpos))]

Obey(d, c) ==
    CASE c[1] = "f" -> FontCommand(d, c[2])
      [] c[1] = "s" -> SizeCommand(d, c[2])
      [] c[1] = "x Height" -> HeightCommand(d, c[2])
      [] c[1] = "x Slant" -> SlantCommand(d, c[2])
      [] c[1] = "x font" -> MountCommand(d, c[2], c[3])
      [] c[1] = "m" -> StrokeCommand(d, c[2])
      [] c[1] = "DF" -> FillCommand(d, c[2])
      [] c[1] = "h" -> MoveBy(d, c[2], 0)
      [] c[1] = "v" -> MoveBy(d, 0, c[2])
      [] c[1] = "H" -> JumpTo(d, c[2], d.vpos)
      [] c[1] = "V" -> JumpTo(d, d.hpos, c[2])
      [] c[1] = "p" -> JumpTo(d, d.hpos, 0)
      [] c[1] \in {"c", "C"} -> SetGlyph(d, c[2])
      [] c[1] = "nnc" -> SetGlyph(MoveBy(d, c[2], 0), c[3])
      [] c[1] = "u" -> SetWord(d, c[2], c[3])
      [] c[1] = "D" -> Draw(d, c[2])
      [] c[1] = "x X" -> Extend(d, c[2])
      [] c[1] = "n" -> d
=============================================================================
