------------------------- MODULE ControlCharsProofs -------------------------
(* Type correctness of ControlChars, that no environment's control and      *)
(* no-break control characters ever coincide, and that a document with one  *)
(* environment and valid arguments keeps the escape character apart from    *)
(* both, for any characters and environments.                               *)
EXTENDS ControlChars, TLAPS

\* What a request compares and assigns is a character.
LEMMA WantedIsChar ==
    ASSUME NEW arg \in Args, NEW default \in Chars
    PROVE  Wanted(arg, default) \in Chars
  BY CharsAssumption DEF Wanted, Args

\* A setter keeps its characters in range whatever it does.
LEMMA AssignType ==
    ASSUME NEW chars \in [Envs -> Chars], NEW others, NEW default \in Chars,
           NEW arg \in Args
    PROVE  Assign(chars, others, arg, default) \in [Envs -> Chars]
  BY WantedIsChar DEF Assign, SetUnlessTaken

\* A setter never makes the two families of characters meet.
LEMMA AssignDistinct ==
    ASSUME NEW chars \in [Envs -> Chars], NEW others \in [Envs -> Chars],
           NEW default \in Chars, NEW arg \in Args,
           \A e \in Envs : chars[e] # others[e]
    PROVE  \A e \in Envs : Assign(chars, others, arg, default)[e] # others[e]
<1>1. CASE Ignored(arg, default, others)
  BY <1>1 DEF Assign
<1>2. CASE ~Ignored(arg, default, others)
  BY <1>2 DEF Assign, SetUnlessTaken
<1> QED
  BY <1>1, <1>2

\* Every variable keeps its type: escape_char and saved_escape_char hold an
\* ordinary character or 0U, and an environment exists before it is current.
THEOREM TypeCorrect == Spec => []TypeOK
<1>1. Init => TypeOK
  <2> SUFFICES ASSUME Init
               PROVE  TypeOK
    OBVIOUS
  <2>1. control \in [Envs -> Chars] /\ noBreak \in [Envs -> Chars]
    BY CharsAssumption DEF Init
  <2>2. envStack \in Seq(defined)
    BY DEF Init
  <2> QED
    BY <2>1, <2>2, CharsAssumption DEF Init, TypeOK
<1>2. TypeOK /\ [Next]_vars => TypeOK'
  <2> SUFFICES ASSUME TypeOK, [Next]_vars
               PROVE  TypeOK'
    OBVIOUS
  <2>1. ASSUME NEW arg \in Args, AssignEscape(arg)
        PROVE  TypeOK'
    <3>1. Wanted(arg, DefaultEscape) \in Chars
      BY WantedIsChar, CharsAssumption
    <3> QED
      BY <2>1, <3>1 DEF TypeOK, AssignEscape, envVars
  <2>2. ASSUME NEW arg \in Args, AssignControl(arg)
        PROVE  TypeOK'
    <3>1. control' \in [Envs -> Chars]
      BY <2>2, AssignType, CharsAssumption DEF TypeOK, AssignControl
    <3>2. aborted' \in BOOLEAN
      BY <2>2 DEF AssignControl, AssertionFails
    <3> QED
      BY <2>2, <3>1, <3>2 DEF TypeOK, AssignControl, envVars
  <2>3. ASSUME NEW arg \in Args, AssignNoBreak(arg)
        PROVE  TypeOK'
    <3>1. noBreak' \in [Envs -> Chars]
      BY <2>3, AssignType, CharsAssumption DEF TypeOK, AssignNoBreak
    <3>2. aborted' \in BOOLEAN
      BY <2>3 DEF AssignNoBreak, AssertionFails
    <3> QED
      BY <2>3, <3>1, <3>2 DEF TypeOK, AssignNoBreak, envVars
  <2>4. CASE EscapeOff
    BY <2>4 DEF TypeOK, EscapeOff, envVars
  <2>5. CASE SaveEscape
    BY <2>5 DEF TypeOK, SaveEscape, envVars
  <2>6. CASE RestoreEscape
    BY <2>6 DEF TypeOK, RestoreEscape, envVars
  <2>7. ASSUME NEW e \in Envs, SwitchTo(e)
        PROVE  TypeOK'
    <3>1. envStack' \in Seq(defined')
      BY <2>7 DEF TypeOK, SwitchTo
    <3> QED
      BY <2>7, <3>1 DEF TypeOK, SwitchTo
  <2>8. ASSUME NEW e \in Envs, CopyFrom(e)
        PROVE  TypeOK'
    BY <2>8 DEF TypeOK, CopyFrom, envVars
  <2>9. CASE SwitchBack
    <3>1. curenv' \in defined /\ envStack' \in Seq(defined)
      BY <2>9 DEF TypeOK, SwitchBack
    <3> QED
      BY <2>9, <3>1 DEF TypeOK, SwitchBack
  <2>10. CASE UNCHANGED vars
    BY <2>10 DEF TypeOK, vars
  <2> QED
    BY <2>1, <2>2, <2>3, <2>4, <2>5, <2>6, <2>7, <2>8, <2>9, <2>10 DEF Next
<1> QED
  BY <1>1, <1>2, PTL DEF Spec

\* No sequence of requests makes an environment's control character equal to
\* its no-break control character: set_control_character and its counterpart
\* refuse, and .evc brings a pair that already differs.
THEOREM ControlsStayDistinct == Spec => []ControlsDistinct
<1>1. Init => ControlsDistinct
  BY CharsAssumption DEF Init, ControlsDistinct
<1>2. TypeOK /\ ControlsDistinct /\ [Next]_vars => ControlsDistinct'
  <2> SUFFICES ASSUME TypeOK, ControlsDistinct, [Next]_vars
               PROVE  ControlsDistinct'
    OBVIOUS
  <2>1. ASSUME NEW arg \in Args, AssignControl(arg)
        PROVE  ControlsDistinct'
    BY <2>1, AssignDistinct, CharsAssumption
       DEF TypeOK, ControlsDistinct, AssignControl
  <2>2. ASSUME NEW arg \in Args, AssignNoBreak(arg)
        PROVE  ControlsDistinct'
    BY <2>2, AssignDistinct, CharsAssumption
       DEF TypeOK, ControlsDistinct, AssignNoBreak
  <2>3. ASSUME NEW e \in Envs, CopyFrom(e)
        PROVE  ControlsDistinct'
    BY <2>3 DEF TypeOK, ControlsDistinct, CopyFrom
  <2>4. CASE UNCHANGED <<control, noBreak>>
    BY <2>4 DEF ControlsDistinct
  <2> QED
    BY <2>1, <2>2, <2>3, <2>4
       DEF Next, AssignEscape, EscapeOff, SaveEscape, RestoreEscape,
           SwitchTo, SwitchBack, vars
<1> QED
  BY <1>1, <1>2, TypeCorrect, PTL DEF Spec

\* For a valid argument the character compared is the one assigned.
LEMMA ComparedIsWanted ==
    ASSUME NEW arg \in Args, arg # Invalid, NEW default \in Chars
    PROVE  /\ Compared(arg, default) = Wanted(arg, default)
           /\ Wanted(arg, default) \in Chars
  BY WantedIsChar DEF Compared, Wanted

\* The comparisons of ec, cc and c2 are enough in a document that keeps to one
\* environment, gives valid arguments and does not use ecr: the three
\* characters stay distinct, and the assertions of cc and c2 hold.
THEOREM ChecksAreEnough == Spec => []ChecksSuffice
<1>1. Init => ChecksSuffice
  BY CharsAssumption DEF Init, ChecksSuffice
<1>2. TypeOK /\ ControlsDistinct /\ ChecksSuffice /\ [Next]_vars
        => ChecksSuffice'
  <2> SUFFICES ASSUME TypeOK, ControlsDistinct, ChecksSuffice, [Next]_vars,
                      plain'
               PROVE  escape' \notin {control'[curenv'], noBreak'[curenv']}
                      /\ ~aborted'
    BY DEF ChecksSuffice
  <2>t. /\ control \in [Envs -> Chars] /\ noBreak \in [Envs -> Chars]
        /\ curenv \in Envs /\ NoChar \notin Chars
        /\ control[curenv] # noBreak[curenv]
    BY CharsAssumption DEF TypeOK, ControlsDistinct
  <2>1. ASSUME NEW arg \in Args, AssignEscape(arg)
        PROVE  escape' \notin {control'[curenv'], noBreak'[curenv']} /\ ~aborted'
    <3>1. Compared(arg, DefaultEscape) = Wanted(arg, DefaultEscape)
      BY <2>1, ComparedIsWanted, CharsAssumption DEF AssignEscape
    <3> QED
      BY <2>1, <3>1 DEF AssignEscape, ChecksSuffice, envVars
  <2>2. ASSUME NEW arg \in Args, AssignControl(arg)
        PROVE  escape' \notin {control'[curenv'], noBreak'[curenv']} /\ ~aborted'
    <3>1. Compared(arg, DefaultControl) = Wanted(arg, DefaultControl)
      BY <2>2, ComparedIsWanted, CharsAssumption DEF AssignControl
    <3> QED
      BY <2>2, <2>t, <3>1 DEF AssignControl, Assign, Ignored, SetUnlessTaken,
                              AssertionFails, ChecksSuffice, envVars
  <2>3. ASSUME NEW arg \in Args, AssignNoBreak(arg)
        PROVE  escape' \notin {control'[curenv'], noBreak'[curenv']} /\ ~aborted'
    <3>1. Compared(arg, DefaultNoBreak) = Wanted(arg, DefaultNoBreak)
      BY <2>3, ComparedIsWanted, CharsAssumption DEF AssignNoBreak
    <3> QED
      BY <2>3, <2>t, <3>1 DEF AssignNoBreak, Assign, Ignored, SetUnlessTaken,
                              AssertionFails, ChecksSuffice, envVars
  <2>4. CASE EscapeOff
    BY <2>4, <2>t DEF EscapeOff, ChecksSuffice, envVars
  <2>5. CASE SaveEscape
    BY <2>5 DEF SaveEscape, ChecksSuffice, envVars
  <2>6. CASE UNCHANGED vars
    BY <2>6 DEF vars, ChecksSuffice
  <2> QED
    BY <2>1, <2>2, <2>3, <2>4, <2>5, <2>6
       DEF Next, RestoreEscape, SwitchTo, SwitchBack, CopyFrom
<1> QED
  BY <1>1, <1>2, TypeCorrect, ControlsStayDistinct, PTL DEF Spec
=============================================================================
