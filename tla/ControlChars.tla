---------------------------- MODULE ControlChars ----------------------------
(***************************************************************************)
(* The characters that tell the formatter what is a request and what is an *)
(* escape sequence: the escape character, global, and the control and      *)
(* no-break control characters, kept in each environment                   *)
(* (src/roff/troff/input.cpp, env.cpp).                                    *)
(*                                                                         *)
(* Each of the requests ec, cc and c2 compares its argument with the two   *)
(* characters it must stay different from and ignores a clash.  The escape *)
(* character is global while the other two change with the environment, so *)
(* the checks, made once at the request, need not hold later.              *)
(***************************************************************************)
EXTENDS Sequences, Naturals

CONSTANTS
    Chars,             \* the ordinary characters of the input
    DefaultEscape,     \* '\\'
    DefaultControl,    \* '.'
    DefaultNoBreak,    \* '\''
    NoChar,            \* 0U: no character (the escape mechanism is off)
    NoArg,             \* the request was given no argument
    Invalid,           \* the argument is not a character: tok.ch() is 0U
    Envs,              \* names of environments
    InitialEnv,        \* the environment formatting starts in
    MaxDepth           \* bound on the environment stack (none in the code)

ASSUME CharsAssumption ==
    /\ {DefaultEscape, DefaultControl, DefaultNoBreak} \subseteq Chars
    /\ DefaultEscape # DefaultControl
    /\ DefaultEscape # DefaultNoBreak
    /\ DefaultControl # DefaultNoBreak
    /\ NoChar \notin Chars /\ NoArg \notin Chars /\ Invalid \notin Chars
    /\ NoArg # Invalid
    /\ InitialEnv \in Envs
    /\ MaxDepth \in Nat

\* The arguments of ec, cc and c2.
Args == Chars \cup {NoArg, Invalid}

VARIABLES
    escape,        \* escape_char
    savedEscape,   \* saved_escape_char
    control,       \* control_character of each environment
    noBreak,       \* no_break_control_character of each environment
    defined,       \* the environments in env_dictionary
    curenv,        \* the current environment
    envStack,      \* env_stack, top first
    aborted,       \* an assertion failed and the process is gone
    plain          \* history: one environment, valid arguments and no ecr

vars == <<escape, savedEscape, control, noBreak, defined, curenv, envStack,
          aborted, plain>>

envVars == <<defined, curenv, envStack>>

TypeOK ==
    /\ escape \in Chars \cup {NoChar}
    /\ savedEscape \in Chars \cup {NoChar}
    /\ control \in [Envs -> Chars]
    /\ noBreak \in [Envs -> Chars]
    /\ defined \subseteq Envs
    /\ curenv \in defined
    /\ envStack \in Seq(defined)
    /\ aborted \in BOOLEAN
    /\ plain \in BOOLEAN

\* An environment that does not exist yet holds what its constructor sets.
Init ==
    /\ escape = DefaultEscape
    /\ savedEscape = DefaultEscape
    /\ control = [e \in Envs |-> DefaultControl]
    /\ noBreak = [e \in Envs |-> DefaultNoBreak]
    /\ defined = {InitialEnv}
    /\ curenv = InitialEnv
    /\ envStack = <<>>
    /\ aborted = FALSE
    /\ plain = TRUE

\* The character a request compares with the others: an invalid argument
\* leaves 0U in the local variable.
Compared(arg, default) ==
    CASE arg = NoArg   -> default
      [] arg = Invalid -> NoChar
      [] OTHER         -> arg

\* Slip: an invalid argument is not replaced.
WantedNoDefault(arg, default) ==
    IF arg = NoArg THEN default ELSE arg

\* The character it then assigns: the default replaces an invalid argument.
Wanted(arg, default) ==
    IF arg \in {NoArg, Invalid} THEN default ELSE arg

\* Slip: the no-break control character is forgotten.
AssignEscapeHalfCheck(arg) ==
    /\ ~aborted
    /\ escape' = IF Compared(arg, DefaultEscape) = control[curenv]
                 THEN escape
                 ELSE Wanted(arg, DefaultEscape)
    /\ plain' = (plain /\ arg # Invalid)
    /\ UNCHANGED <<savedEscape, control, noBreak, envVars, aborted>>

\* .ec: the clash is looked for in the current environment only.
AssignEscape(arg) ==
    /\ ~aborted
    /\ escape' = IF Compared(arg, DefaultEscape)
                       \in {control[curenv], noBreak[curenv]}
                 THEN escape
                 ELSE Wanted(arg, DefaultEscape)
    /\ plain' = (plain /\ arg # Invalid)
    /\ UNCHANGED <<savedEscape, control, noBreak, envVars, aborted>>

\* .eo
EscapeOff ==
    /\ ~aborted
    /\ escape' = NoChar
    /\ UNCHANGED <<savedEscape, control, noBreak, envVars, aborted, plain>>

\* .ecs
SaveEscape ==
    /\ ~aborted
    /\ savedEscape' = escape
    /\ UNCHANGED <<escape, control, noBreak, envVars, aborted, plain>>

\* .ecr: restores without comparing.
RestoreEscape ==
    /\ ~aborted
    /\ escape' = savedEscape
    /\ plain' = FALSE
    /\ UNCHANGED <<savedEscape, control, noBreak, envVars, aborted>>

\* Slip: the setter trusts its caller.
SetAlways(chars, others, c) == [chars EXCEPT ![curenv] = c]

\* environment::set_control_character and set_no_break_control_character:
\* refuse the other one's character.
SetUnlessTaken(chars, others, c) ==
    IF c = others[curenv] THEN chars ELSE [chars EXCEPT ![curenv] = c]

\* Slip: only the escape character is compared.
IgnoredEscapeOnly(arg, default, others) ==
    Compared(arg, default) = escape

\* The part cc and c2 share: chars' is assigned unless the argument clashes
\* with the escape character or with others; the request asserts that an
\* assignment it attempts succeeds.
Ignored(arg, default, others) ==
    Compared(arg, default) \in {escape, others[curenv]}

Assign(chars, others, arg, default) ==
    IF Ignored(arg, default, others)
    THEN chars
    ELSE SetUnlessTaken(chars, others, Wanted(arg, default))

AssertionFails(others, arg, default) ==
    /\ ~Ignored(arg, default, others)
    /\ Wanted(arg, default) = others[curenv]

\* .cc
AssignControl(arg) ==
    /\ ~aborted
    /\ control' = Assign(control, noBreak, arg, DefaultControl)
    /\ aborted' = AssertionFails(noBreak, arg, DefaultControl)
    /\ plain' = (plain /\ arg # Invalid)
    /\ UNCHANGED <<escape, savedEscape, noBreak, envVars>>

\* .c2
AssignNoBreak(arg) ==
    /\ ~aborted
    /\ noBreak' = Assign(noBreak, control, arg, DefaultNoBreak)
    /\ aborted' = AssertionFails(control, arg, DefaultNoBreak)
    /\ plain' = (plain /\ arg # Invalid)
    /\ UNCHANGED <<escape, savedEscape, control, envVars>>

\* .ev NAME: makes the environment on first use.
SwitchTo(e) ==
    /\ ~aborted
    /\ Len(envStack) < MaxDepth
    /\ defined' = defined \cup {e}
    /\ envStack' = <<curenv>> \o envStack
    /\ curenv' = e
    /\ plain' = FALSE
    /\ UNCHANGED <<escape, savedEscape, control, noBreak, aborted>>

\* .ev without an argument; an empty stack is reported and nothing happens.
SwitchBack ==
    /\ ~aborted
    /\ envStack # <<>>
    /\ curenv' = Head(envStack)
    /\ plain' = FALSE
    /\ envStack' = Tail(envStack)
    /\ UNCHANGED <<escape, savedEscape, control, noBreak, defined, aborted>>

\* .evc NAME: both characters come with the rest of the environment.
CopyFrom(e) ==
    /\ ~aborted
    /\ e \in defined
    /\ control' = [control EXCEPT ![curenv] = control[e]]
    /\ noBreak' = [noBreak EXCEPT ![curenv] = noBreak[e]]
    /\ plain' = FALSE
    /\ UNCHANGED <<escape, savedEscape, envVars, aborted>>

Next ==
    \/ \E arg \in Args : AssignEscape(arg) \/ AssignControl(arg)
                            \/ AssignNoBreak(arg)
    \/ EscapeOff
    \/ SaveEscape
    \/ RestoreEscape
    \/ \E e \in Envs : SwitchTo(e) \/ CopyFrom(e)
    \/ SwitchBack

Spec == Init /\ [][Next]_vars

-----------------------------------------------------------------------------
\* In no environment, current or not, do the two control characters coincide:
\* a line that begins with one of them either breaks the output line or does
\* not (the checks of .cc, .c2 and of the setters, and .evc copying both).
ControlsDistinct == \A e \in Envs : control[e] # noBreak[e]

\* As the documentation of ec, cc and c2 has it, the escape character "must be
\* distinct from the control characters" of the current environment, and no
\* assertion of these requests fails: their checks are enough as long as a
\* document keeps to one environment, valid arguments and no ecr.
ChecksSuffice ==
    plain => escape \notin {control[curenv], noBreak[curenv]} /\ ~aborted

\* The assertion that closes the handlers of cc and c2 never fails.
AssertionHolds == ~aborted
=============================================================================
