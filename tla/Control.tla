------------------------------- MODULE Control -------------------------------
(***************************************************************************)
(* BlockRuns commands (parse_line in source/commands.c, source/if.c and the  *)
(* calls of alias.c): lines within loops within aliases, the stack of      *)
(* frames that hold their local variables, break, continue and return, and *)
(* /wait, during which timers, hooks and the user run lines of their own.  *)
(*                                                                         *)
(* Which command comes next and whether a condition holds is left to chance.*)
(***************************************************************************)
EXTENDS Integers, Sequences, FiniteSets

LOCAL INSTANCE SequencesExt
LOCAL INSTANCE FiniteSetsExt

CONSTANTS
    Constructs,     \* commands that run lines; a subset of AllConstructs
    MaxDepth,       \* bound: lines and constructs within each other
    ThrowsAnywhere, \* may what /wait, foreach, repeat or the start or step of a for
                    \* runs leave what is around it?
    Unbalanced      \* are there mistakes of syntax: an unmatched { or case label?

AllConstructs ==
    {"alias", "function", "if", "while", "fe", "for", "do", "foreach", "repeat", "switch",
     "block", "wait"}

ASSUME ControlAssumption ==
    /\ Constructs \subseteq AllConstructs /\ MaxDepth \in Nat
    /\ ThrowsAnywhere \in BOOLEAN /\ Unbalanced \in BOOLEAN

VARIABLES
    code,        \* what runs, the innermost last
    call_stack,  \* frames 0 .. wind_index
    catches,     \* will_catch_break_exceptions, ..continue.., ..return..
    exceptions,  \* break_exception, continue_exception, return_exception: set?
    called       \* last_function_call_level as a place in call_stack, 0 for -1

controlVars == <<code, call_stack, catches, exceptions, called>>

Throws == {"break", "continue", "return"}
Activity == AllConstructs \cup {"line", "forStart", "forStep"}

\* Something that runs: has it a frame of its own, is that named, has it
\* not run anything yet, and the function that called it
Activations == [kind : Activity, own : BOOLEAN, named : BOOLEAN, fresh : BOOLEAN, old : Nat]

ControlTypeOK ==
    /\ code \in Seq(Activations) /\ Len(code) <= MaxDepth
    /\ call_stack \in Seq([named : BOOLEAN, parent : Nat])
    /\ catches \in [Throws -> Int] /\ exceptions \in [Throws -> BOOLEAN] /\ called \in Nat

ControlInit ==
    /\ code = <<>> /\ call_stack = <<>> /\ called = 0
    /\ catches = [x \in Throws |-> 0] /\ exceptions = [x \in Throws |-> FALSE]

----------------------------------------------------------------------------
(* Frames, and what is caught *)

\* make_local_stack(), where the activation has a frame
WithFrame(frames, a) ==
    IF ~ a.own THEN frames
    ELSE Append(frames, [named |-> a.named, parent |-> IF a.named THEN 0 ELSE Len(frames)])

\* destroy_local_stack()
WithoutFrame(frames, own) == IF own /\ frames # <<>> THEN Front(frames) ELSE frames

Loops == {"while", "fe", "for", "forStep"}
Calls == {"alias", "function"}

\* What entering adds to the counts, and what leaving takes
Caught(kind, x) ==
    IF \/ kind \in Loops /\ x \in {"break", "continue"}
       \/ kind \in Calls /\ x = "return"
       \/ kind = "do" /\ x \in {"break", "return"}
    THEN 1 ELSE 0
Uncaught(kind, x) ==
    IF kind = "do" THEN (IF x \in {"break", "continue"} THEN 1 ELSE 0) ELSE Caught(kind, x)

Thrown == \E x \in Throws : catches[x] # 0 /\ exceptions[x]

Activation(kind) ==
    [kind |-> kind, named |-> kind = "function", fresh |-> TRUE, old |-> 0,
     own |-> kind \in {"function", "while", "fe", "forStart", "foreach", "switch"}]

LineOf(own, named) ==
    [kind |-> "line", own |-> own, named |-> named, fresh |-> TRUE, old |-> 0]

Innermost == Last(code)
Ran == [code EXCEPT ![Len(code)].fresh = FALSE]

Push(c, a) ==
    /\ Len(code) < MaxDepth
    /\ code' = Append(c, a) /\ call_stack' = WithFrame(call_stack, a)

----------------------------------------------------------------------------
(* The commands of a line *)

\* The first command is run whatever happened before the line.
LineRuns == code # <<>> /\ Innermost.kind = "line" /\ (Innermost.fresh \/ ~ Thrown)

Unchecked == {"wait", "foreach", "repeat", "forStart", "forStep"}

\* Nothing around this line stands between a throw and what is to catch it.
MayThrow(x) ==
    LET catchers == {i \in DOMAIN code : Caught(code[i].kind, x) = 1}
    IN catchers # {} => \A i \in Max(catchers) .. Len(code) : code[i].kind \notin Unchecked

\* breakcmd(), continuecmd(), returncmd(): nothing where it is not caught
Throw(x) ==
    /\ LineRuns /\ (ThrowsAnywhere \/ MayThrow(x))
    /\ exceptions' = [exceptions EXCEPT ![x] = @ \/ catches[x] # 0]
    /\ code' = Ran /\ UNCHANGED <<call_stack, catches, called>>

Counted(kind) == [x \in Throws |-> catches[x] + Caught(kind, x)]

\* A command that runs lines: docmd() with a condition, whilecmd(), fe(), ...
EnterBlock(kind) ==
    LET first == IF kind = "for" THEN "forStart" ELSE kind
        a == [Activation(first) EXCEPT !.old = called]
    IN
    /\ LineRuns /\ kind \in Constructs \ {"block"}
    /\ Push(Ran, a)
    /\ catches' = Counted(first)
    /\ called' = IF kind = "function" THEN Len(call_stack) + 1 ELSE called
    /\ UNCHANGED exceptions

\* { commands } in a line: run like the line
Block ==
    /\ LineRuns /\ "block" \in Constructs
    /\ Push(Ran, LineOf(Innermost.own, Innermost.own /\ Innermost.named))
    /\ UNCHANGED <<catches, exceptions, called>>

Leave(own) ==
    /\ code' = Front(code) /\ call_stack' = WithoutFrame(call_stack, own)

\* A mistake: each line ends with its frame.
EndLineAlways ==
    /\ code # <<>> /\ Innermost.kind = "line" /\ Leave(TRUE)
    /\ UNCHANGED <<catches, exceptions, called>>

\* The line is over.
EndLine ==
    /\ code # <<>> /\ Innermost.kind = "line" /\ Leave(Innermost.own)
    /\ UNCHANGED <<catches, exceptions, called>>

\* "Unmatched {": the frame goes, whether it is the line's or not.
Unmatched ==
    /\ Unbalanced /\ LineRuns /\ Leave(TRUE)
    /\ UNCHANGED <<catches, exceptions, called>>

----------------------------------------------------------------------------
(* What runs lines, when it has just begun or one of them is over *)

Tests == {TRUE, FALSE} \* a condition, or is there a next word?

Cleared(x) == [exceptions EXCEPT ![x] = FALSE]

\* May it go on, and what is left of the exceptions? After the lines of
\* whilecmd() and fe(),
LoopGoesOn ==
    IF exceptions["continue"] THEN <<Tests, Cleared("continue")>>
    ELSE IF exceptions["break"] THEN <<{FALSE}, Cleared("break")>>
    ELSE <<IF exceptions["return"] THEN {FALSE} ELSE Tests, exceptions>>

\* forcmd(),
ForGoesOn ==
    IF exceptions["break"] THEN <<{FALSE}, Cleared("break")>>
    ELSE <<{~ exceptions["return"]}, Cleared("continue")>>

\* and docmd()
DoGoesOn ==
    IF exceptions["break"] THEN <<{FALSE}, Cleared("break")>>
    ELSE IF exceptions["continue"] THEN <<{TRUE}, Cleared("continue")>>
    ELSE <<IF exceptions["return"] THEN {FALSE} ELSE Tests, exceptions>>

\* ifcmd() and switchcmd() run one line or none.
OnceGoesOn(a) == <<IF a.fresh THEN Tests ELSE {FALSE}, exceptions>>

GoesOn(a) ==
    CASE a.kind \in {"while", "fe"} /\ ~ a.fresh -> LoopGoesOn
      [] a.kind = "for" -> ForGoesOn
      [] a.kind = "do" /\ ~ a.fresh -> DoGoesOn
      [] a.kind \in {"do", "forStart"} /\ a.fresh -> <<{TRUE}, exceptions>>
      [] a.kind \in {"if", "switch"} -> OnceGoesOn(a)
      [] a.kind \in Calls ->
            <<{a.fresh}, IF a.fresh THEN exceptions ELSE Cleared("return")>>
      [] OTHER -> <<Tests, exceptions>>

\* What a for runs next: its body after a test, its step after the body
NextPart(a) ==
    IF a.kind = "for" THEN "forStep"
    ELSE IF a.kind = "forStep" \/ (a.kind = "forStart" /\ ~ a.fresh) THEN "for"
    ELSE a.kind

BlockRuns == code # <<>> /\ Innermost.kind \notin {"line", "wait"}

\* The next line is run; those of an alias, if, do and repeat have frames.
NextLine ==
    /\ BlockRuns /\ TRUE \in GoesOn(Innermost)[1]
    /\ Push([Ran EXCEPT ![Len(code)].kind = NextPart(Innermost)],
            LineOf(Innermost.kind \in Calls \cup {"if", "do", "repeat"},
                   Innermost.kind = "alias"))
    /\ exceptions' = GoesOn(Innermost)[2]
    /\ catches' = IF Innermost.kind = "forStart" /\ ~ Innermost.fresh THEN Counted("for")
                  ELSE catches
    /\ UNCHANGED called

EndBlock ==
    /\ BlockRuns /\ FALSE \in GoesOn(Innermost)[1] /\ Leave(Innermost.own)
    /\ catches' = [x \in Throws |-> catches[x] - Uncaught(Innermost.kind, x)]
    /\ exceptions' = GoesOn(Innermost)[2]
    /\ called' = IF Innermost.kind = "function" THEN Innermost.old ELSE called

\* switchcmd() finds a mistake: it returns without its frame.
BadCase ==
    /\ Unbalanced /\ BlockRuns /\ Innermost.kind = "switch" /\ Innermost.fresh
    /\ Leave(FALSE)
    /\ UNCHANGED <<catches, exceptions, called>>

----------------------------------------------------------------------------
(* What comes from outside: at the top, or while a line waits in io() *)

Idle == code # <<>> => Innermost.kind = "wait"

\* The user types a line.
TypedLine ==
    /\ Idle /\ Push(code, LineOf(TRUE, FALSE))
    /\ UNCHANGED <<catches, exceptions, called>>

\* parse_line("TIMER", ...), "EXEC", "WAIT", ...
Event ==
    /\ Idle /\ Push(code, LineOf(TRUE, TRUE))
    /\ UNCHANGED <<catches, exceptions, called>>

\* A hook: parse_line_with_return()
HookRuns ==
    /\ Idle /\ Push(code, [Activation("function") EXCEPT !.old = called])
    /\ catches' = Counted("function") /\ called' = Len(call_stack) + 1
    /\ UNCHANGED exceptions

EndWait ==
    /\ code # <<>> /\ Innermost.kind = "wait" /\ Leave(FALSE)
    /\ UNCHANGED <<catches, exceptions, called>>

ControlNext ==
    \/ \E x \in Throws : Throw(x)
    \/ \E kind \in AllConstructs : EnterBlock(kind)
    \/ Block \/ EndLine \/ Unmatched \/ NextLine \/ EndBlock \/ BadCase
    \/ TypedLine \/ Event \/ HookRuns \/ EndWait

ControlSpec == ControlInit /\ [][ControlNext]_controlVars

----------------------------------------------------------------------------
(* Properties *)

Own(n) == Cardinality({i \in 1 .. n : code[i].own})

\* Whatever ends, and however, takes its frame with it and no other: there are
\* as many frames as things that run have, and a local variable is looked for
\* in those of the alias, function or event that runs, and not beyond.
FramesMatch ==
    LET seen[i \in 0 .. Len(call_stack)] ==
            IF i = 0 THEN {} ELSE {i} \cup seen[call_stack[i].parent]
        scopes == {i \in DOMAIN code : code[i].named}
        base == IF scopes = {} THEN 1 ELSE Own(Max(scopes))
    IN /\ Len(call_stack) = Own(Len(code))
       /\ seen[Len(call_stack)] = base .. Len(call_stack)

\* A break, continue or return is pending only within what catches it, nothing
\* that runs is begun until it is caught, and what is said to be caught is.
ThrowsCaught ==
    /\ \A x \in Throws :
        /\ catches[x] = Cardinality({i \in DOMAIN code : Caught(code[i].kind, x) = 1})
        /\ exceptions[x] => catches[x] > 0
    /\ ~ (Thrown /\ code # <<>> /\ Innermost.kind = "line" /\ Innermost.fresh)

\* /return sets the result of the innermost function that runs.
ReturnsHere ==
    LET functions == {i \in DOMAIN code : code[i].kind = "function"}
    IN called = IF functions = {} THEN 0 ELSE Own(Max(functions))

ControlSound == FramesMatch /\ ThrowsCaught /\ ReturnsHere
=============================================================================
