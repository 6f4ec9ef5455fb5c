---------------------------- MODULE MCFormatter -----------------------------
(* Instances of Formatter for TLC. *)
EXTENDS Formatter

TheMacros(header, footer, end) ==
    {(Header :> h) @@ (Footer :> t) @@ (End :> e) :
        h \in header, t \in footer, e \in end}

\* What a document may use without running into the defect of 'sp before the
\* first page.
DocumentLines == InputLines \ {"'sp"}

\* Headers that break, space and write a title, footers that space or eject
\* into the next page, write a title or exit, and end macros that write, eject
\* and exit.  A title and the space after it fit below the footer's location.
ManyBodies ==
    TheMacros({<<>>, <<"br">>, <<"sp">>, <<"tl">>},
              {<<>>, <<"bp">>, <<"sp">>, <<"tl">>, <<"tl", "'bp">>},
              {<<"word">>, <<"bp">>, <<"bp", "word">>, <<"long", "br">>,
               <<"ex">>})

OneFooter == <<Slot(Header, 0), Slot(Footer, -2)>>
TwoFooters == <<Slot(Header, 0), Slot(Footer, -2), Slot(Footer, -1)>>

\* A footer at two locations may exit at both of them.
ManySetups ==
    [traps : {OneFooter}, body : ManyBodies]
      \cup [traps : {TwoFooters},
            body : TheMacros({<<"sp">>}, {<<>>, <<"ex">>}, {<<"word">>})]

AnyEnd == {NoMacro, End}
=============================================================================
