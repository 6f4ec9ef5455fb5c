----------------------------- MODULE OutputFile -----------------------------
(* troff_output_file, which turns the nodes of output lines into commands   *)
(* for a driver, and the driver that obeys them.  troff never hears from    *)
(* the driver: it remembers what it has sent and sends only what differs,   *)
(* and it collects characters in a buffer until something else must be      *)
(* sent.  The pipe between them keeps the order, so a command is obeyed     *)
(* when it is put.                                                          *)
EXTENDS Driver, Imposition

CONSTANTS
    Fonts,          \* names of fonts
    FontPositions,  \* where fonts are mounted
    NotMounted,     \* FONT_NOT_MOUNTED
    NoTfont,        \* the null pointer to a tfont
    Tfonts,         \* [name, pos, size, height, slant, bold, kern, cs]
    Colors,         \* colors, with Default
    Paints,         \* <<stroke color, fill color>> of nodes
    NoColor,        \* the null pointer to a color
    Chars,          \* glyphs with an ordinary character
    Specials,       \* glyphs without one
    Drawings,       \* <<[code, h, v], size>> of drawing commands, the points
                    \* added up
    Motions,        \* <<h, v>> of motions
    Starts,         \* <<h, v>>: where lines begin
    RawEnds,        \* <<h, v>>: where raw output leaves the driver
    Sizes,          \* the sizes of text and of drawing commands
    Devices,        \* [tcommand, nroff, color, switches]: device_has_tcommand,
                    \* in_nroff_mode, want_color_output at the start, and
                    \* whether the document uses the request color
    PageLength,
    TbufSize,       \* TBUF_SIZE, 256 in the code
    NearLimit,      \* 100 in the code: motions a two digit command can make
    Extras,         \* what the document does, see below
    MaxH, MaxV      \* bounds on positions

Glyphs == Chars \cup Specials
SpecialText == "device extension"

\* Some documents: enable color output again, draw filled ellipses, draw while
\* output is off, or set characters that do not move where troff has lost
\* the driver.
ExtraKinds == {"color", "ellipse", "drawing off", "lost"}

\* A circle moves the drawing position horizontally only.
ASSUME OutputFileAssumption ==
    /\ FontPositions \subseteq Nat
    /\ NotMounted \notin FontPositions /\ -1 \notin FontPositions
    /\ NoFont \notin Fonts
    /\ Default \in Colors /\ NoColor \notin Colors
    /\ Paints \subseteq Colors \X Colors
    /\ Sizes \subseteq Nat \ {0}
    /\ Width \in [Glyphs -> [Fonts -> [Sizes -> Nat]]]
    /\ \A tf \in Tfonts :
          /\ tf.name \in Fonts /\ tf.pos \in FontPositions
          /\ tf.size \in Sizes /\ tf.height \in Nat /\ tf.slant \in Int
          /\ tf.bold \in Nat /\ tf.kern \in Int /\ tf.cs \in Nat
    /\ NoTfont \notin [name : Fonts, pos : FontPositions, size : Sizes,
                       height : Nat, slant : Int]
    /\ \A drawing \in Drawings :
          /\ drawing[2] \in Sizes
          /\ drawing[1].h \in Int /\ drawing[1].v \in Int
          /\ drawing[1].code \in {"c", "C"} => drawing[1].v = 0
    /\ Motions \subseteq Int \X Int
    /\ Starts \subseteq Int \X Int /\ RawEnds \subseteq Int \X Int
    /\ PageLength \in Int /\ TbufSize \in Nat \ {0} /\ NearLimit \in Nat
    /\ Devices \subseteq [tcommand : BOOLEAN, nroff : BOOLEAN,
                           color : BOOLEAN, switches : BOOLEAN]
    /\ Extras \subseteq ExtraKinds

VARIABLES
    out,           \* the fields of troff_output_file
    drv,           \* the driver
    inLine         \* between the start and the end of really_print_line

vars == <<out, drv, inLine, pen, owed>>

\* An output file and its driver, as the operators below take and give them.
Both == [o |-> out, d |-> drv]

\* Before the first page most fields are uninitialized; beginning a page
\* sets them before they are read.
Init ==
    /\ \E dev \in Devices :
       out = [hpos |-> 0, vpos |-> 0, ohpos |-> 0, ovpos |-> 0, must |-> TRUE,
              tfont |-> NoTfont, fontno |-> NotMounted, size |-> 0,
              slant |-> 0, height |-> 0, stroke |-> NoColor, fill |-> NoColor,
              mounted |-> [n \in FontPositions |-> NoFont],
              tbuf |-> <<>>, kern |-> 0, on |-> TRUE, color |-> dev.color,
              tcommand |-> dev.tcommand, nroff |-> dev.nroff,
              switches |-> dev.switches,
              begun |-> FALSE, selected |-> FALSE]
    /\ drv = NewDriver(FontPositions)
    /\ inLine = FALSE
    /\ ImpositionInit

-----------------------------------------------------------------------------
\* The helpers of troff_output_file.

Put(x, command) == [x EXCEPT !.d = Obey(@, command)]

FlushTbuf(x) ==
    IF x.o.on /\ x.o.tbuf # <<>>
    THEN [Put(x, <<"u", x.o.kern, x.o.tbuf>>) EXCEPT !.o.tbuf = <<>>]
    ELSE [x EXCEPT !.o.tbuf = <<>>]

\* A relative motion is sent where it is shorter to write.
MoveH(x) ==
    LET n == x.o.hpos - x.o.ohpos
    IN  IF ~x.o.must /\ n = 0 THEN x
        ELSE IF ~x.o.must /\ 0 < n /\ n < x.o.hpos THEN Put(x, <<"h", n>>)
        ELSE Put(x, <<"H", x.o.hpos>>)

MoveV(x) ==
    LET n == x.o.vpos - x.o.ovpos
    IN  IF ~x.o.must /\ n = 0 THEN x
        ELSE IF ~x.o.must /\ 0 < n /\ n < x.o.vpos THEN Put(x, <<"v", n>>)
        ELSE Put(x, <<"V", x.o.vpos>>)

DoMotion(x) ==
    [MoveV(MoveH(x)) EXCEPT !.o.ohpos = x.o.hpos, !.o.ovpos = x.o.vpos,
                            !.o.must = FALSE]

MustUpdate(x) == [x EXCEPT !.o.must = TRUE]
MoveTo(x, h, v) == [x EXCEPT !.o.hpos = h, !.o.vpos = v]
Right(x, n) == [x EXCEPT !.o.hpos = @ + n]
Down(x, n) == [x EXCEPT !.o.vpos = @ + n]

\* In nroff mode a color belongs to a character cell.
BeforeColor(x) == IF x.o.nroff THEN DoMotion(FlushTbuf(x)) ELSE FlushTbuf(x)

StrokeColor(x, c) ==
    LET y == [x EXCEPT !.o.stroke = c]
    IN  IF c \in {NoColor, x.o.stroke} THEN x
        ELSE IF ~x.o.color THEN y
        ELSE Put(BeforeColor(y), <<"m", c>>)

FillColor(x, c) ==
    LET y == [x EXCEPT !.o.fill = c]
    IN  IF c \in {NoColor, x.o.fill} THEN x
        ELSE IF ~x.o.color THEN y
        ELSE Put(BeforeColor(y), <<"DF", c>>)

SetColors(x, sc, fc) == FillColor(StrokeColor(x, sc), fc)

HasColors(x, sc, fc) ==
    sc \in {NoColor, x.o.stroke} /\ fc \in {NoColor, x.o.fill}

MountFont(x, tf) ==
    IF x.o.mounted[tf.pos] = tf.name THEN x
    ELSE [Put(x, <<"x font", tf.pos, tf.name>>)
             EXCEPT !.o.mounted[tf.pos] = tf.name]

SetFontNumber(x, n) ==
    IF x.o.fontno = n THEN x ELSE [Put(x, <<"f", n>>) EXCEPT !.o.fontno = n]

SetSize(x, n) ==
    IF x.o.size = n THEN x ELSE [Put(x, <<"s", n>>) EXCEPT !.o.size = n]

SetSlant(x, n) ==
    IF x.o.slant = n THEN x
    ELSE [Put(x, <<"x Slant", n>>) EXCEPT !.o.slant = n]

SetHeight(x, n) ==
    IF x.o.height = n THEN x
    ELSE [Put(x, <<"x Height", IF n = 0 THEN x.o.size ELSE n>>)
             EXCEPT !.o.height = n]

\* Slip: the characters in the buffer get the font that is selected after
\* them.
SelectFontAhead(x, tf) ==
    IF x.o.tfont = tf THEN x
    ELSE LET named == SetFontNumber(MountFont(x, tf), tf.pos)
             sized == SetSlant(SetSize(named, tf.size), tf.slant)
         IN  [SetHeight(sized, tf.height) EXCEPT !.o.tfont = tf]

SelectFont(x, tf) ==
    IF x.o.tfont = tf THEN x
    ELSE LET named == SetFontNumber(MountFont(FlushTbuf(x), tf), tf.pos)
             sized == SetSlant(SetSize(named, tf.size), tf.slant)
         IN  [SetHeight(sized, tf.height) EXCEPT !.o.tfont = tf]

\* The command for one glyph at the drawing position.
GlyphCommand(g) == IF g \in Chars THEN <<"c", g>> ELSE <<"C", g>>

SetHere(x, g, sc, fc) ==
    Put(DoMotion(FlushTbuf(SetColors(x, sc, fc))), GlyphCommand(g))

\* A short motion and an ordinary character in one command.
IsNear(x, sc, fc) ==
    /\ x.o.vpos = x.o.ovpos
    /\ HasColors(x, sc, fc)
    /\ x.o.hpos - x.o.ohpos \in 1..(NearLimit - 1)

SetNear(x, g) ==
    [Put(x, <<"nnc", x.o.hpos - x.o.ohpos, g>>) EXCEPT !.o.ohpos = x.o.hpos]

\* Slip: the length of the buffer is compared after the character joined.
JoinsFull(x, sc, fc, k) ==
    /\ x.o.tbuf # <<>> /\ Len(x.o.tbuf) <= TbufSize /\ x.o.kern = k
    /\ x.o.hpos = x.o.ohpos /\ x.o.vpos = x.o.ovpos
    /\ HasColors(x, sc, fc)

\* Whether a character can join those in the buffer.
Joins(x, sc, fc, k) ==
    /\ x.o.tbuf # <<>> /\ Len(x.o.tbuf) < TbufSize /\ x.o.kern = k
    /\ x.o.hpos = x.o.ohpos /\ x.o.vpos = x.o.ovpos
    /\ HasColors(x, sc, fc)

Buffer(x, g, advance) ==
    [x EXCEPT !.o.tbuf = Append(@, g), !.o.ohpos = @ + advance,
              !.o.hpos = x.o.ohpos + advance]

PutCharWidth(x, g, tf, sc, fc, w, k) ==
    LET y == SelectFont(x, tf)
    IN  IF ~x.o.on THEN Right(FlushTbuf(x), w + k)
        ELSE IF g \in Specials THEN Right(SetHere(y, g, sc, fc), w + k)
        ELSE IF x.o.tcommand
        THEN IF Joins(y, sc, fc, k) THEN Buffer(y, g, w + k)
             ELSE [Buffer(DoMotion(FlushTbuf(SetColors(y, sc, fc))), g, w + k)
                      EXCEPT !.o.kern = k]
        ELSE IF IsNear(y, sc, fc) /\ ~y.o.must THEN Right(SetNear(y, g), w + k)
        ELSE Right(SetHere(y, g, sc, fc), w + k)

\* A character that does not move the drawing position.
PutChar(x, g, tf, sc, fc) ==
    LET y == SelectFont(FlushTbuf(x), tf)
    IN  IF ~x.o.on THEN FlushTbuf(x)
        ELSE IF g \in Chars /\ IsNear(y, sc, fc) THEN SetNear(y, g)
        ELSE SetHere(y, g, sc, fc)

\* A drawing command uses its own size, and forgets the font then.
DrawSize(x, size) ==
    IF x.o.size = size THEN x
    ELSE [SetSize(x, size) EXCEPT !.o.tfont = NoTfont]

DrawShape(x, shape, size, sc, fc) ==
    LET y == DoMotion(FlushTbuf(SetColors(x, sc, fc)))
        z == IF y.o.on THEN Put(DrawSize(y, size), <<"D", shape>>) ELSE y
        v == IF shape.code = "e" THEN 0 ELSE shape.v
    IN  [z EXCEPT !.o.ohpos = @ + shape.h, !.o.hpos = y.o.ohpos + shape.h,
                  !.o.ovpos = @ + v,
                  !.o.vpos = IF shape.code = "e" THEN @ ELSE y.o.ovpos + v]

StartDeviceExtension(x, tf, sc, fc) ==
    DoMotion(SetColors(SelectFont(FlushTbuf(x), tf), sc, fc))

WordMarker(x) == FlushTbuf(x)

ReallyOn(x) == DoMotion(MustUpdate(FlushTbuf(x)))

\* Slip: a page does not forget what is mounted.
ForgetFontsSelected(x) ==
    [x EXCEPT !.o.tfont = NoTfont, !.o.fontno = NotMounted, !.o.size = 0]

\* troff forgets which fonts the driver has, but not its height, slant and
\* colors, which a new page of the driver keeps.
ForgetFonts(x) ==
    [x EXCEPT !.o.tfont = NoTfont, !.o.fontno = NotMounted, !.o.size = 0,
              !.o.mounted = [n \in FontPositions |-> NoFont]]

ReallyBeginPage(x) ==
    LET y == FlushTbuf(x)
        z == IF y.o.begun THEN Put(y, <<"V", PageLength>>) ELSE y
    IN  Put([MustUpdate(ForgetFonts(MoveTo(z, 0, 0)))
                EXCEPT !.o.ohpos = 0, !.o.ovpos = 0, !.o.begun = TRUE],
            <<"p">>)

\* Slip: the new line is taken to begin where the driver is.
EndPrintLineKnown(x) ==
    Put([DoMotion(FlushTbuf(x)) EXCEPT !.o.hpos = 0], <<"n">>)

EndPrintLine(x) ==
    Put([MustUpdate(DoMotion(FlushTbuf(x))) EXCEPT !.o.hpos = 0], <<"n">>)

-----------------------------------------------------------------------------
\* What the nodes do.

\* A step of both that asks for marks and moves the pen.
Step(x, marks, move) ==
    LET due == owed \o Placed(marks)
    IN  /\ out' = x.o
        /\ drv' = [x.d EXCEPT !.ink = Astray(@, due)]
        /\ owed' = StillDue(x.d.ink, due)
        /\ pen' = From(pen, move)

Quietly(x) == Step(x, <<>>, <<0, 0>>)

Plain(tf) == [name |-> tf.name, pos |-> tf.pos, size |-> tf.size,
              height |-> tf.height, slant |-> tf.slant]

GlyphWidth(g, tf) == Width[g][tf.name][tf.size]

\* What is left of a constant character space, put before the glyph.
Before(g, tf) ==
    IF tf.cs = 0 THEN 0 ELSE (tf.cs - GlyphWidth(g, tf) - tf.bold) \div 2

After(g, tf) ==
    IF tf.cs = 0 THEN tf.kern
    ELSE tf.cs - GlyphWidth(g, tf) - tf.bold - Before(g, tf)

GlyphTprint(x, g, tf, sc, fc) ==
    LET y == Right(x, Before(g, tf))
        z == IF tf.bold = 0 THEN y
             ELSE Right(PutChar(y, g, Plain(tf), sc, fc), tf.bold)
    IN  PutCharWidth(z, g, Plain(tf), sc, fc, GlyphWidth(g, tf), After(g, tf))

GlyphZeroWidthTprint(x, g, tf, sc, fc) ==
    LET before == Before(g, tf)
        y == PutChar(Right(x, before), g, Plain(tf), sc, fc)
        z == IF tf.bold = 0 THEN y
             ELSE Right(PutChar(Right(y, tf.bold), g, Plain(tf), sc, fc),
                        -tf.bold)
    IN  Right(z, -before)

\* How glyphs and shapes should look: with the colors of the node, or, while
\* color output is disabled, with those the driver has.
WantedStroke(c) == IF out.color THEN c ELSE drv.stroke
WantedFill(c) == IF out.color THEN c ELSE drv.fill

WantedLook(tf, sc, fc) ==
    [font |-> tf.name, size |-> tf.size,
     height |-> IF tf.height = 0 THEN tf.size ELSE tf.height,
     slant |-> tf.slant, stroke |-> WantedStroke(sc), fill |-> WantedFill(fc)]

WantedShape(size, sc, fc) ==
    [size |-> size, stroke |-> WantedStroke(sc), fill |-> WantedFill(fc)]

\* An emboldened glyph is set twice.
WantedGlyphs(g, tf, sc, fc) ==
    LET First == Mark(g, WantedLook(tf, sc, fc), Before(g, tf), 0)
        Second == [First EXCEPT !.h = @ + tf.bold]
    IN  IF ~out.on THEN <<>>
        ELSE IF tf.bold = 0 THEN <<First>> ELSE <<First, Second>>

\* troff must tell the driver where to go, but is at the vertical position it
\* told it last.
Lost ==
    /\ out.must /\ out.vpos = out.ovpos
    /\ <<drv.hpos, drv.vpos>> # <<out.ohpos, out.ovpos>>

Advance(g, tf) ==
    Before(g, tf) + tf.bold + GlyphWidth(g, tf) + After(g, tf)

Glyph(g, tf, sc, fc) ==
    /\ inLine
    /\ tf.bold # 0 /\ Lost => "lost" \in Extras
    /\ Step(GlyphTprint(Both, g, tf, sc, fc), WantedGlyphs(g, tf, sc, fc),
            <<Advance(g, tf), 0>>)
    /\ UNCHANGED inLine

ZeroWidthGlyph(g, tf, sc, fc) ==
    /\ inLine
    /\ Lost => "lost" \in Extras
    /\ Step(GlyphZeroWidthTprint(Both, g, tf, sc, fc),
            WantedGlyphs(g, tf, sc, fc), <<0, 0>>)
    /\ UNCHANGED inLine

\* Spaces and horizontal motions; words end with a marker.
Space(n, fc) ==
    /\ inLine
    /\ Step(Right(FillColor(Both, fc), n), <<>>, <<n, 0>>)
    /\ UNCHANGED inLine

WordSpace(n, fc) ==
    /\ inLine
    /\ Step(Right(WordMarker(FillColor(Both, fc)), n), <<>>, <<n, 0>>)
    /\ UNCHANGED inLine

VMotion(n, fc) ==
    /\ inLine
    /\ Step(Down(FillColor(Both, fc), n), <<>>, <<0, n>>)
    /\ UNCHANGED inLine

\* "For circles and ellipses, the end is at the right side."
DrawEnd(shape) ==
    <<shape.h, IF shape.code \in {"c", "C", "e", "E"} THEN 0 ELSE shape.v>>

DrawNode(shape, size, sc, fc) ==
    /\ inLine
    /\ shape.code = "E" => "ellipse" \in Extras
    /\ ~out.on => "drawing off" \in Extras
    /\ Step(DrawShape(Both, shape, size, sc, fc),
            IF out.on THEN <<Mark(shape, WantedShape(size, sc, fc), 0, 0)>>
            ELSE <<>>,
            DrawEnd(shape))
    /\ UNCHANGED inLine

\* A device extension is sent even while output is off.
DeviceExtension(tf, sc, fc) ==
    LET x == StartDeviceExtension(Both, Plain(tf), sc, fc)
    IN  /\ inLine
        /\ Step(Put(x, <<"x X", SpecialText>>),
                <<Mark(SpecialText, WantedShape(tf.size, sc, fc), 0, 0)>>,
                <<0, 0>>)
        /\ UNCHANGED inLine

\* A suppression node turns output off and on again.
On ==
    LET x == ReallyOn(Both)
    IN  /\ inLine
        /\ Quietly([x EXCEPT !.o.on = TRUE])
        /\ UNCHANGED inLine

Off ==
    LET x == FlushTbuf(Both)
    IN  /\ inLine
        /\ Quietly([x EXCEPT !.o.on = FALSE])
        /\ UNCHANGED inLine

-----------------------------------------------------------------------------
\* What the top-level diversion does.

BeginPage(selected) ==
    LET x == IF selected THEN ReallyBeginPage(Both) ELSE Both
    IN  /\ ~inLine
        /\ Quietly([x EXCEPT !.o.selected = selected])
        /\ UNCHANGED inLine

\* A line of a page that is not selected is dropped.
BeginLine(h, v) ==
    /\ ~inLine /\ out.selected
    /\ out' = MoveTo(Both, h, v).o
    /\ inLine' = TRUE
    /\ pen' = <<h, v>>
    /\ UNCHANGED <<drv, owed>>

EndLine ==
    /\ inLine
    /\ Quietly(EndPrintLine(Both))
    /\ inLine' = FALSE

\* What a copied file or raw output may do to the driver: it may go anywhere,
\* and a copied file may also mount and select fonts and sizes.
Moved(d, h, v) == [d EXCEPT !.hpos = h, !.vpos = v]

CopyFile(h, v, tf, to) ==
    LET x == DoMotion(FlushTbuf(MoveTo(Both, h, v)))
        y == Put(Put(Put(x, <<"x font", tf.pos, tf.name>>), <<"f", tf.pos>>),
                 <<"s", tf.size>>)
        z == [y EXCEPT !.o = MustUpdate(ForgetFonts(y)).o,
                       !.d = Moved(y.d, to[1], to[2])]
    IN  /\ ~inLine /\ out.selected /\ out.on
        /\ Quietly(z)
        /\ UNCHANGED inLine

RawOutput(to) ==
    /\ ~inLine /\ out.selected /\ out.on
    /\ drv' = Moved(drv, to[1], to[2])
    /\ UNCHANGED <<out, inLine, pen, owed>>

\* The request color.
SwitchColor ==
    /\ ~inLine /\ out.switches /\ (out.color \/ "color" \in Extras)
    /\ out' = [out EXCEPT !.color = ~@]
    /\ UNCHANGED <<drv, inLine, pen, owed>>

\* The bounds of the instances: lines and pages are short.
WithinBounds == out'.hpos \in 0..MaxH /\ out'.vpos \in 0..MaxV

Next ==
    /\ \/ \E tf \in Tfonts, p \in Paints :
             \/ \E g \in Glyphs : \/ Glyph(g, tf, p[1], p[2])
                                  \/ ZeroWidthGlyph(g, tf, p[1], p[2])
             \/ DeviceExtension(tf, p[1], p[2])
       \/ \E move \in Motions, fc \in Colors \cup {NoColor} :
             \/ Space(move[1], fc) \/ WordSpace(move[1], fc)
             \/ VMotion(move[2], fc)
       \/ \E drawing \in Drawings, p \in Paints :
             DrawNode(drawing[1], drawing[2], p[1], p[2])
       \/ On \/ Off \/ EndLine \/ SwitchColor
       \/ \E selected \in BOOLEAN : BeginPage(selected)
       \/ \E at \in Starts : BeginLine(at[1], at[2])
       \/ \E to \in RawEnds :
             \/ RawOutput(to)
             \/ \E at \in Starts, tf \in Tfonts : CopyFile(at[1], at[2], tf, to)
    /\ WithinBounds

Spec == Init /\ [][Next]_vars

-----------------------------------------------------------------------------
\* Every glyph, shape and device extension of a line is where its node asked
\* for it and looks as its node asked, whatever the driver was told before and
\* whatever of it still waits in the buffer.
AsAsked == FlushTbuf(Both).d.ink = owed

\* What troff believes of the fonts, the size, the height, the slant and the
\* colors of the driver is so.
Mounts(o, d) ==
    /\ \A n \in FontPositions :
          o.mounted[n] # NoFont => d.table[n] = o.mounted[n]
    /\ o.fontno # NotMounted => d.fontno = o.fontno

Sized(o, d) ==
    /\ o.size # 0 => d.size = o.size
    /\ d.height = o.height
    /\ d.slant = o.slant

Colored(o, d) ==
    /\ o.color /\ o.stroke # NoColor => d.stroke = o.stroke
    /\ o.color /\ o.fill # NoColor => d.fill = o.fill

Selects(o) ==
    o.tfont # NoTfont =>
        /\ o.mounted[o.tfont.pos] = o.tfont.name
        /\ o.tfont.pos = o.fontno
        /\ o.tfont.size = o.size
        /\ o.tfont.height = o.height
        /\ o.tfont.slant = o.slant

BelievesLooks ==
    /\ Mounts(out, drv) /\ Sized(out, drv) /\ Colored(out, drv)
    /\ Selects(out)

\* Between motions troff knows where the driver is, the buffer included.
BelievesPosition ==
    out.on /\ ~out.must =>
        LET d == FlushTbuf(Both).d
        IN  <<d.hpos, d.vpos>> = <<out.ohpos, out.ovpos>>

\* The buffer never overflows, and holds nothing while output is off, between
\* lines or after troff has lost the driver.
BufferIsCurrent ==
    /\ Len(out.tbuf) <= TbufSize
    /\ out.tbuf # <<>> => inLine /\ out.on /\ ~out.must
=============================================================================
