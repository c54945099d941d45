----------------------------- MODULE Expressions -----------------------------
(***************************************************************************)
(* The two evaluators of expressions: next_unit() of source/expr.c, which   *)
(* cuts the text at an operator, stage by stage, and matheval() of          *)
(* source/expr2.c, used when FLOATING_POINT is above 1, which shifts and    *)
(* reduces. Both are run on the text of expressions of two levels and       *)
(* compared with what the expression means in C, as the documentation has it*)
(* (teknap-help/7_Docs/Expressions). Values are whole numbers.              *)
(*                                                                         *)
(* A text is a sequence of words: names, digits, operators and brackets.    *)
(***************************************************************************)
EXTENDS Integers, Sequences, FiniteSets, TLC

LOCAL INSTANCE SequencesExt
LOCAL INSTANCE FiniteSetsExt

CONSTANTS
    BinaryOps,    \* operators of two operands
    UnaryOps,     \* operators of one
    UnitsParens,  \* does next_unit() get brackets where it groups otherwise than C?
    BareMiddle    \* may what is between ? and : go without brackets?

Assignments == {"=", "+="}
Logical == {"&&", "||"}

ASSUME ExpressionsAssumption ==
    /\ BinaryOps \subseteq {"*", "+", "-", "<<", ">>", "<", ">", "==", "!=", "&", "^", "|",
                      "&&", "||", ","} \cup Assignments
    /\ UnaryOps \subseteq {"!", "pre++", "pre--", "post++", "post--"}
    /\ UnitsParens \in BOOLEAN /\ BareMiddle \in BOOLEAN

Variables == {"x", "y"}

----------------------------------------------------------------------------
(* Expressions, and what they mean *)

Num(n) == [op |-> "num", n |-> n]
Var(v) == [op |-> "var", v |-> v]
IsVar(e) == e.op = "var"

Modifies(op) == op \in Assignments \cup (UnaryOps \ {"!"})

\* Expressions of one operator over some operands
Over(es, fs) ==
    {[op |-> o, l |-> e] : o \in UnaryOps, e \in es}
      \cup {[op |-> o, l |-> e, r |-> f] : o \in BinaryOps, e \in es, f \in fs}

RECURSIVE Uses(_), Writes(_)
Kids(e) == {e[k] : k \in DOMAIN e \cap {"l", "m", "r"}}
Uses(e) == IF IsVar(e) THEN {e.v} ELSE UNION {Uses(f) : f \in Kids(e)}
Writes(e) == (IF Modifies(e.op) THEN {e.l.v} ELSE {}) \cup UNION {Writes(f) : f \in Kids(e)}

\* Only a variable is modified, and, except where the order is said, no operand
\* modifies what the other uses: C leaves the value open then.
RECURSIVE Legal(_)
Legal(e) ==
    /\ \A f \in Kids(e) : Legal(f)
    /\ Modifies(e.op) => IsVar(e.l)
    /\ e.op \in Assignments => e.l.v \notin Writes(e.r)
    /\ e.op \in BinaryOps \ (Logical \cup Assignments \cup {","}) =>
          Writes(e.l) \cap Uses(e.r) = {} /\ Uses(e.l) \cap Writes(e.r) = {}

Leaves == {Var("x"), Num(2)}
Simple == {e \in Over(Leaves, Leaves) : Legal(e)}
Questions(a, b, c) == {[op |-> "?", l |-> e, m |-> f, r |-> g] : e \in a, f \in b, g \in c}
Second == {Var("y")}
Sentences ==
    {e \in Over(Simple, Second) \cup Over(Second, Simple) \cup Questions(Simple, Leaves, Second)
             \cup Questions(Second, Simple, Leaves) \cup Questions(Second, Leaves, Simple)
             \cup Questions(Second, Questions(Leaves, Leaves, Second), Leaves)
             \cup Questions(Second, Leaves, Questions(Leaves, Leaves, Second)) : Legal(e)}

Truth(b) == IF b THEN 1 ELSE 0

BitAnd(a, b) == LET bits[i \in 0 .. 5] ==
                        IF i = 0 THEN 0
                        ELSE bits[i - 1] + (IF (a \div 2 ^ (i - 1)) % 2 = 1
                                              /\ (b \div 2 ^ (i - 1)) % 2 = 1
                                            THEN 2 ^ (i - 1) ELSE 0)
                IN bits[5]

\* (C leaves a shift by a negative number open.)
Of(op, a, b) ==
    CASE op \in {"+", "+="} -> a + b
      [] op = "-" -> a - b
      [] op = "*" -> a * b
      [] op = "<<" -> IF b < 0 THEN 0 ELSE a * 2 ^ b
      [] op = ">>" -> IF b < 0 THEN 0 ELSE a \div 2 ^ b
      [] op = "<" -> Truth(a < b)
      [] op = ">" -> Truth(a > b)
      [] op = "==" -> Truth(a = b)
      [] op = "!=" -> Truth(a # b)
      [] op = "&" -> BitAnd(a, b)
      [] op = "^" -> a + b - 2 * BitAnd(a, b)
      [] op = "|" -> a + b - BitAnd(a, b)
      [] op \in {",", "="} -> b

By(op) == IF op \in {"pre++", "post++"} THEN 1 ELSE -1

RECURSIVE Means(_, _)
Means(e, vars) ==
    CASE e.op = "num" -> <<e.n, vars>>
      [] e.op = "var" -> <<vars[e.v], vars>>
      [] e.op = "!" -> LET a == Means(e.l, vars) IN <<Truth(a[1] = 0), a[2]>>
      [] e.op \in UnaryOps \ {"!"} ->
            LET new == vars[e.l.v] + By(e.op)
            IN <<IF e.op \in {"pre++", "pre--"} THEN new ELSE vars[e.l.v],
                 [vars EXCEPT ![e.l.v] = new]>>
      [] e.op = "?" ->
            LET a == Means(e.l, vars) IN Means(IF a[1] # 0 THEN e.m ELSE e.r, a[2])
      [] e.op \in Logical ->
            LET a == Means(e.l, vars)
                b == Means(e.r, a[2])
            IN IF (a[1] # 0) = (e.op = "||") THEN <<Truth(a[1] # 0), a[2]>>
               ELSE <<Truth(b[1] # 0), b[2]>>
      [] e.op \in Assignments ->
            LET b == Means(e.r, vars)
                new == Of(e.op, vars[e.l.v], b[1])
            IN <<new, [b[2] EXCEPT ![e.l.v] = new]>>
      [] OTHER -> LET a == Means(e.l, vars)
                      b == Means(e.r, a[2])
                  IN <<Of(e.op, a[1], b[1]), b[2]>>

----------------------------------------------------------------------------
(* Writing an expression down, with the brackets that C or next_unit() needs *)

\* How loosely an operator holds its operands together
InC ==
    [o \in {"num", "var"} |-> 0] @@ [o \in UnaryOps |-> 2]
      @@ ("*" :> 4 @@ "+" :> 5 @@ "-" :> 5 @@ "<<" :> 6 @@ ">>" :> 6 @@ "<" :> 7
          @@ ">" :> 7 @@ "==" :> 9 @@ "!=" :> 9 @@ "&" :> 10 @@ "^" :> 11 @@ "|" :> 12 @@ "&&" :> 13 @@ "||" :> 15 @@ "?" :> 16 @@ "=" :> 17
          @@ "+=" :> 17 @@ "," :> 18)

StageOf(o) ==
    CASE o \in {"num", "var"} -> 9
      [] o \in {",", "|"} -> 0
      [] o \in Assignments -> 1
      [] o = "?" -> 2
      [] o \in Logical -> 3
      [] o \in {"&", "^", "<<", ">>"} -> 4
      [] o \in {"<", ">", "==", "!="} -> 5
      [] o \in {"+", "-"} -> 6
      [] o = "*" -> 7
      [] OTHER -> 8

Looseness(o, rule) == IF rule = "C" THEN InC[o] ELSE 9 - StageOf(o)
FromTheRight(o, rule) == rule = "units" \/ o \in Assignments \cup UnaryOps \cup {"?"}

RECURSIVE Words(_, _)
Bracketed(e, need, rule) ==
    IF need THEN <<"(">> \o Words(e, rule) \o <<")">> ELSE Words(e, rule)

LeftText(e, o, rule) ==
    Bracketed(e, \/ Looseness(e.op, rule) > Looseness(o, rule)
                 \/ Looseness(e.op, rule) = Looseness(o, rule) /\ FromTheRight(o, rule), rule)
RightText(e, o, rule) ==
    Bracketed(e, \/ Looseness(e.op, rule) > Looseness(o, rule)
                 \/ Looseness(e.op, rule) = Looseness(o, rule) /\ ~ FromTheRight(o, rule), rule)
MiddleText(e, rule) ==
    Bracketed(e, ~ BareMiddle /\ Looseness(e.op, rule) >= Looseness("?", rule), rule)

Words(e, rule) ==
    CASE e.op = "num" -> <<"2">>
      [] e.op = "var" -> <<e.v>>
      [] e.op = "!" -> <<"!">> \o RightText(e.l, "!", rule)
      [] e.op = "pre++" -> <<"++", e.l.v>>
      [] e.op = "pre--" -> <<"--", e.l.v>>
      [] e.op = "post++" -> <<e.l.v, "++">>
      [] e.op = "post--" -> <<e.l.v, "--">>
      [] e.op = "?" -> LeftText(e.l, "?", rule) \o <<"?">> \o MiddleText(e.m, rule)
                         \o <<":">> \o RightText(e.r, "?", rule)
      [] OTHER -> LeftText(e.l, e.op, rule) \o <<e.op>> \o RightText(e.r, e.op, rule)

Value(w, vars) == IF w = "2" THEN 2 ELSE vars[w]

----------------------------------------------------------------------------
(* matheval(): tokens are shifted on the operand stack and reduced          *)

\* A token stands for a value or, as one that was read from the text can, for a
\* variable whose value is taken when it is used; Empty is token 0.
Token(n) == [var |-> "none", n |-> n]
Empty == Token(0)

Binding ==
    ("(" :> 1 @@ "pre++" :> 2 @@ "pre--" :> 2 @@ "post++" :> 2 @@ "post--" :> 2 @@ "!" :> 2
       @@ "*" :> 4 @@ "+" :> 5 @@ "-" :> 5 @@ "<<" :> 6 @@ ">>" :> 6 @@ "<" :> 7 @@ ">" :> 7
       @@ "==" :> 9 @@ "!=" :> 9 @@ "&" :> 10 @@ "^" :> 11 @@ "|" :> 12 @@ "&&" :> 13 @@ "||" :> 15 @@ "?" :> 16 @@ ":" :> 16
       @@ "=" :> 17 @@ "+=" :> 17 @@ "," :> 18 @@ "id" :> 0 @@ ")" :> 137 @@ "end" :> 200)
Loosest == 21
RightToLeft == {"pre++", "pre--", "post++", "post--", "!", "?", ":"} \cup Assignments

setup_expr_info(text, vars) ==
    [text |-> text, at |-> 1, noeval |-> 0, operand |-> TRUE, stack |-> <<>>, mtok |-> "end",
     last |-> Empty, err |-> FALSE, vars |-> vars]

PushToken(c, t) == [c EXCEPT !.stack = Append(@, t)]
\* What is missing from the stack is the empty token.
Pops(c, n) == [c EXCEPT !.stack = SubSeq(@, 1, Max({0, Len(@) - n}))]
Top(c, n) == IF n < Len(c.stack) THEN c.stack[Len(c.stack) - n] ELSE Empty

ValueOf(c, t) == IF c.noeval = 0 /\ t.var # "none" THEN c.vars[t.var] ELSE t.n

\* zzlex()
OperandRead(c, t) ==
    [c EXCEPT !.operand = FALSE, !.mtok = "id", !.last = IF c.noeval = 0 THEN t ELSE Empty]
OperatorRead(c, w, fits) ==
    IF fits THEN [c EXCEPT !.operand = TRUE, !.mtok = w] ELSE [c EXCEPT !.err = TRUE, !.mtok = "end"]

Lexed(c, w) ==
    CASE w = "2" -> OperandRead(c, Token(2))
      [] w \in Variables -> OperandRead(c, [var |-> w, n |-> 0])
      [] w = "(" -> [c EXCEPT !.operand = TRUE, !.mtok = w]
      [] w = ")" -> [IF c.operand THEN PushToken(c, Empty) ELSE c EXCEPT !.operand = FALSE, !.mtok = w]
      [] w \in {"++", "--"} -> [c EXCEPT !.mtok = (IF c.operand THEN "pre" ELSE "post") \o w]
      [] w = "!" -> OperatorRead(c, w, c.operand)
      [] w \in {"?", ":"} -> [c EXCEPT !.operand = TRUE, !.mtok = w]
      [] w \in BinaryOps -> OperatorRead(c, w, ~ c.operand)

zzlex(c) ==
    IF c.at > Len(c.text) THEN [c EXCEPT !.operand = TRUE, !.mtok = "end"]
    ELSE Lexed([c EXCEPT !.at = @ + 1], c.text[c.at])

\* op(): what is assigned to is a variable, unless it is not evaluated.
Assign(c, n, t, value, result) ==
    IF t.var = "none" THEN PushToken(Pops(c, n), Empty)
    ELSE PushToken([Pops(c, n) EXCEPT !.vars[t.var] = value], Token(result))

Increment(c, t, o) ==
    Assign(c, 1, t, ValueOf(c, t) + By(o),
           ValueOf(c, t) + IF o \in {"pre++", "pre--"} THEN By(o) ELSE 0)

Connect(o, a, b) == IF o = "&&" THEN a # 0 /\ b # 0 ELSE a # 0 \/ b # 0

Operate(c, o) ==
    CASE c.err -> c
      [] o = "!" -> PushToken(Pops(c, 1), Token(Truth(ValueOf(c, Top(c, 0)) = 0)))
      [] o \in UnaryOps \ {"!"} -> Increment(c, Top(c, 0), o)
      [] o \in Assignments ->
            Assign(c, 2, Top(c, 1), Of(o, ValueOf(c, Top(c, 1)), ValueOf(c, Top(c, 0))),
                   Of(o, ValueOf(c, Top(c, 1)), ValueOf(c, Top(c, 0))))
      [] o \in Logical ->
            PushToken(Pops(c, 2), Token(Truth(Connect(o, ValueOf(c, Top(c, 1)), ValueOf(c, Top(c, 0))))))
      [] o = "?" -> PushToken(Pops(c, 3), IF ValueOf(c, Top(c, 2)) # 0 THEN Top(c, 1) ELSE Top(c, 0))
      [] o = "," -> PushToken(Pops(c, 2), Top(c, 0))
      [] o = ":" -> c
      [] OTHER -> PushToken(Pops(c, 2), Token(Of(o, ValueOf(c, Top(c, 1)), ValueOf(c, Top(c, 0)))))

\* The operand that decides is taken from the stack, and its truth put back.
Decide(c) == [PushToken(Pops(c, 1), Token(Truth(ValueOf(c, Top(c, 0)) # 0))) EXCEPT !.last = Empty]
ShortCircuit(c, stop) == IF stop THEN [c EXCEPT !.noeval = @ + 1] ELSE c

\* Mutant: the right operand of an operator takes what binds as tightly.
RightSideEqual(o) == Binding[o]

\* How loosely what is on the right of an operator may be bound
RightSide(o) == Binding[o] - (IF o \in RightToLeft THEN 0 ELSE 1)

RECURSIVE mathparse(_, _), Shift(_, _)

\* The operator o has been read; its right operand follows, and it is reduced.
Reduce(c, o, noeval) ==
    Operate([mathparse(c, RightSide(o)) EXCEPT !.noeval = noeval], o)

BeforeRight(c, o) ==
    IF o \in Logical THEN ShortCircuit(Decide(c), (ValueOf(c, Top(c, 0)) # 0) = (o = "||")) ELSE c

\* ? and :, of a condition that is true or not
Otherwise(c, holds) ==
    [mathparse([c EXCEPT !.noeval = @ + (IF holds THEN 1 ELSE -1)], Binding["?"])
        EXCEPT !.noeval = @ - (IF holds THEN 1 ELSE 0)]
Select(c, holds) ==
    Operate(Otherwise(mathparse(ShortCircuit(c, ~ holds), Binding["?"] - 1), holds), "?")

AfterBracket(c, pc) == IF c.mtok = ")" THEN Shift(zzlex(c), pc) ELSE [c EXCEPT !.err = TRUE]

Shift(c, pc) ==
    CASE c.err \/ Binding[c.mtok] > pc -> c
      [] c.mtok = "id" -> Shift(zzlex(PushToken(c, c.last)), pc)
      [] c.mtok = "(" -> AfterBracket(mathparse(c, Loosest), pc)
      [] c.mtok = "?" -> Shift(Select(Decide(c), ValueOf(c, Top(c, 0)) # 0), pc)
      [] OTHER -> Shift(Reduce(BeforeRight(c, c.mtok), c.mtok, c.noeval), pc)

mathparse(c, pc) == IF c.err THEN c ELSE Shift(zzlex(c), pc)

matheval(text, vars) == mathparse(setup_expr_info(text, vars), Loosest)

----------------------------------------------------------------------------
(* next_unit(): the text is cut at the first operator of each stage         *)

Brackets == [open |-> "(", close |-> ")"]
Question == [open |-> "?", close |-> ":"]

\* MatchingBracket(): where what is open from p on is closed, 0 if nowhere
RECURSIVE MatchingBracket(_, _, _, _)
MatchingBracket(w, p, pair, depth) ==
    IF p > Len(w) THEN 0
    ELSE IF w[p] = pair.close
      THEN IF depth = 0 THEN p ELSE MatchingBracket(w, p + 1, pair, depth - 1)
    ELSE MatchingBracket(w, p + 1, pair, depth + IF w[p] = pair.open THEN 1 ELSE 0)

\* lastop(): the last of the operators that stand one after the other
RECURSIVE lastop(_, _)
lastop(w, p) ==
    IF p < Len(w) /\ w[p + 1] \in BinaryOps \cup {"!", "++", "--"} THEN lastop(w, p + 1) ELSE p

\* Is the operator at p one that is worked on at this stage?
Handled(w, p, stage) ==
    CASE w[p] \in {"++", "--"} -> stage = 8
      [] w[p] = "!" -> stage = 8 /\ p = 1
      [] w[p] = "|" -> stage # 4
      [] OTHER -> StageOf(w[p]) = stage

RECURSIVE Scan(_, _, _)
Scan(w, p, stage) ==
    CASE p > Len(w) -> 0
      [] w[p] = "(" -> Scan(w, MatchingBracket(w, p + 1, Brackets, 0) + 1, stage)
      [] w[p] \in BinaryOps \cup {"?", "!", "++", "--"} ->
            IF Handled(w, p, stage) THEN p
            ELSE Scan(w, (IF w[p] \in {"++", "--"} THEN p ELSE lastop(w, p)) + 1, stage)
      [] OTHER -> Scan(w, p + 1, stage)

\* The variable a text names is given a value.
Given(vars, w, n) == IF Len(w) = 1 /\ w[1] \in Variables THEN [vars EXCEPT ![w[1]] = n] ELSE vars
Named(vars, w) == IF Len(w) = 1 /\ w[1] \in Variables THEN vars[w[1]] ELSE 0

Before(w, p) == SubSeq(w, 1, p - 1)
After(w, p) == SubSeq(w, p + 1, Len(w))

\* What -- leaves behind a variable is one less than it should be.
Stepped(name, o, prefix, vars) ==
    <<Named(vars, name) + By("pre" \o o) - (IF prefix THEN 0 ELSE 1),
      Given(vars, name, Named(vars, name) + By("pre" \o o))>>

RECURSIVE next_unit(_, _, _)

Both(o, a, b) == <<Of(o, a, b[1]), b[2]>>

Chosen(a, yes, no, stage) ==
    IF a[1] # 0 THEN next_unit(yes, stage, a[2]) ELSE next_unit(no, stage, a[2])

\* A ? without its : is ignored, and so is what follows.
Selected(a, cond, w, colon, stage) ==
    IF colon > 0 THEN Chosen(a, Before(w, colon), After(w, colon), stage)
    ELSE next_unit(cond, stage + 1, a[2])

Truly(b) == <<Truth(b[1] # 0), b[2]>>
Conjoined(o, a, w, stage) ==
    IF (a[1] # 0) = (o = "||") THEN Truly(a) ELSE Truly(next_unit(w, stage, a[2]))

Given2(b, name) == <<b[1], Given(b[2], name, b[1])>>
NotOf(a) == <<Truth(a[1] = 0), a[2]>>

Cut(w, p, stage, vars) ==
    CASE w[p] = "!" -> NotOf(next_unit(After(w, p), stage, vars))
      [] w[p] \in {"++", "--"} ->
            Stepped(IF p = 1 THEN After(w, p) ELSE Before(w, p), w[p], p = 1, vars)
      [] w[p] = "?" ->
            Selected(next_unit(Before(w, p), stage, vars), Before(w, p), After(w, p),
                     MatchingBracket(w, p + 1, Question, 0) - p, stage)
      [] w[p] \in Logical -> Conjoined(w[p], next_unit(Before(w, p), stage, vars), After(w, p), stage)
      [] w[p] \in Assignments ->
            Given2(Both(w[p], Named(vars, Before(w, p)), next_unit(After(w, p), stage, vars)), Before(w, p))
      [] OTHER ->
            LET a == next_unit(Before(w, p), stage, vars)
            IN Both(w[p], a[1], next_unit(After(w, p), stage, a[2]))

Parse(w, p, stage, vars) ==
    IF p # 0 THEN Cut(w, p, stage, vars)
    ELSE IF stage < 8 THEN next_unit(w, stage + 1, vars)
    ELSE <<IF w = <<"2">> THEN 2 ELSE Named(vars, w), vars>>

next_unit(w, stage, vars) ==
    IF stage = 8 /\ Last(w) = ")" /\ Head(w) = "("
      THEN next_unit(SubSeq(w, 2, Len(w) - 1), 0, vars)
    ELSE Parse(w, Scan(w, 1, stage), stage, vars)

----------------------------------------------------------------------------
(* An expression is evaluated by both.                                      *)

VARIABLES
    expression, \* what is evaluated
    before,     \* the variables before
    evaluated   \* what came of it; empty until then

expressionVars == <<expression, before, evaluated>>

ExpressionsTypeOK ==
    /\ expression \in Sentences /\ before \in [Variables -> Int]
    /\ Len(evaluated) <= 1

ExpressionsInit ==
    /\ expression \in Sentences /\ before \in {[x |-> 3, y |-> 0], [x |-> 3, y |-> 2]}
    /\ evaluated = <<>>

parse_inline ==
    /\ evaluated = <<>>
    /\ evaluated' = <<[shifted |-> matheval(Words(expression, "C"), before),
                       cut |-> next_unit(Words(expression, IF UnitsParens THEN "units" ELSE "C"),
                                         0, before)]>>
    /\ UNCHANGED <<expression, before>>

ExpressionsNext == parse_inline

ExpressionsSpec == ExpressionsInit /\ [][ExpressionsNext]_expressionVars

----------------------------------------------------------------------------
(* Property *)

\* matheval() reads the text to its end without complaint, leaves one operand,
\* and evaluates again; its value and the variables are those C has it.
ShiftedRight(c, meaning) ==
    /\ ~ c.err /\ c.noeval = 0 /\ c.at > Len(c.text) /\ Len(c.stack) = 1
    /\ <<ValueOf(c, Top(c, 0)), c.vars>> = meaning

\* Both evaluators give an expression the value and the effects it has in C,
\* next_unit() where brackets say what it would group otherwise.
ExpressionsSound ==
    evaluated # <<>> =>
        /\ ShiftedRight(evaluated[1].shifted, Means(expression, before))
        /\ evaluated[1].cut = Means(expression, before)
=============================================================================
