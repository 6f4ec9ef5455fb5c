---------------------------- MODULE MCOutputFile ----------------------------
(* Instances of OutputFile for TLC. *)
EXTENDS OutputFile

CONSTANTS roman, bold, a, special, red, black

Tfont(name, pos, size, height, slant, emboldened, kern, cs) ==
    [name |-> name, pos |-> pos, size |-> size, height |-> height,
     slant |-> slant, bold |-> emboldened, kern |-> kern, cs |-> cs]

OneChar == {a}
OneSpecial == {special}
TwoFonts == {roman, bold}
TwoColors == {red, black}
TwoSizes == {1, 2}
OnePosition == {1}

\* The character is as narrow as a combining one.
Widths == [g \in {a, special} |->
              [f \in TwoFonts |->
                  [s \in TwoSizes |-> IF g = special THEN 1 ELSE 0]]]

\* The same font without and with kerning, and an emboldened font of another
\* size, height and slant, constantly spaced, that is mounted over it.
SomeTfonts == {Tfont(roman, 1, 1, 0, 0, 0, 0, 0),
               Tfont(roman, 1, 1, 0, 0, 0, 1, 0),
               Tfont(bold, 1, 2, 3, 1, 1, 0, 2)}

SomeDrawings == {<<[code |-> "l", h |-> 1, v |-> 1], 1>>,
                 <<[code |-> "e", h |-> 1, v |-> 1], 2>>}
SomePaints == {<<black, red>>, <<red, black>>}
SomeMotions == {<<1, 1>>, <<-1, -1>>}
SomeStarts == {<<0, 1>>, <<1, 0>>}
OneRawEnd == {<<1, 0>>}

Device(tcommand, nroff, switches) ==
    [tcommand |-> tcommand, nroff |-> nroff, color |-> TRUE,
     switches |-> switches]
SomeDevices == {Device(TRUE, FALSE, FALSE), Device(TRUE, TRUE, FALSE),
                Device(FALSE, FALSE, TRUE)}
=============================================================================
