------------------------------- MODULE Patterns -------------------------------
(***************************************************************************)
(* Matching a text with patterns, reg.c: new_match() with its wildcards, one *)
(* turn of its loop a step, and the patterns it is run with one after the     *)
(* other, those of a \[ \] set (wild_match()) or of a list ($rmatch()).      *)
(***************************************************************************)
EXTENDS Integers, Sequences

LOCAL INSTANCE FiniteSetsExt
LOCAL INSTANCE SequencesExt

CONSTANTS
    TextLetters,       \* the characters of texts, "_" for the space among them
    Wildcards,     \* what patterns have besides: "*", "%", "?", and "b" for \
    PatternSize,   \* bound: a pattern that is matched alone
    SetSize,       \* bound: a pattern of two
    TextSize,      \* bound: the text
    Flawed         \* patterns with the flaws of new_match() are tried

ASSUME PatternsAssumption ==
    /\ TextLetters \cap Wildcards = {} /\ Wildcards \subseteq {"*", "%", "?", "b"}
    /\ {PatternSize, SetSize, TextSize} \subseteq Nat /\ Flawed \in BOOLEAN

VARIABLES
    string,    \* the text
    tries,     \* the patterns
    at,        \* the number of the pattern that is matched, past the last at the end
    m,         \* new_match()'s variables: positions in the pattern and the text, its
               \* counts, which wildcard it is skipping for, and where it may go back to
    best       \* the best value so far, and which pattern had it first

patternVars == <<string, tries, at, m, best>>

TextsOf(C, n) == UNION {[1 .. k -> C] : k \in 0 .. n}
Plainly(p, i) == p[i] \notin Wildcards

\* What is excepted, unless Flawed: a % behind another wildcard, which does not go
\* back to that one as it should; a ? right behind a %, which stands for itself;
\* and a \ behind a wildcard.
WellMade(p) ==
    \A i, j \in DOMAIN p : i < j =>
        /\ ~ (p[i] \in {"*", "%"} /\ p[j] = "%" /\ \E k \in i .. j : Plainly(p, k) \/ p[k] = "?")
        /\ ~ (p[i] = "%" /\ p[j] = "?" /\ \A k \in i .. j - 1 : p[k] = "%")
        /\ ~ (p[i] \in {"*", "%"} /\ p[j] = "b")
PatternsOf(n) == {p \in TextsOf(TextLetters \cup Wildcards, n) : Flawed \/ WellMade(p)}

Start == [pattern |-> 1, string |-> 1, count |-> 1, asterisk |-> FALSE, percent |-> FALSE,
          last_asterisk |-> [point |-> 0, count |-> 0], last_percent |-> [point |-> 0, count |-> 0],
          after_wildcard |-> 0]

PatternsInit ==
    /\ string = <<>> /\ tries = <<>> /\ at = 0
    /\ m = Start /\ best = [value |-> 0, which |-> 0]

\* The call
Called ==
    /\ at = 0
    /\ string' \in TextsOf(TextLetters, TextSize)
    /\ tries' \in {<<p>> : p \in PatternsOf(PatternSize)} \cup
                  {<<p, q>> : p \in PatternsOf(SetSize), q \in PatternsOf(SetSize)}
    /\ at' = 1 /\ UNCHANGED <<m, best>>

CharOf(t, i) == IF i \in DOMAIN t THEN t[i] ELSE "end"
PatternChar == CharOf(tries[at], m.pattern)
StringChar == CharOf(string, m.string)

Running == at \in DOMAIN tries

\* new_match() returns; $rmatch() and wild_match() keep the first of the best.
Returns(value) ==
    /\ best' = IF value > best.value THEN [value |-> value, which |-> at] ELSE best
    /\ at' = at + 1 /\ m' = Start
    /\ UNCHANGED <<string, tries>>
Goes(state) == m' = state /\ UNCHANGED <<string, tries, at, best>>
Here == [point |-> m.string, count |-> m.count]

\* Looking for the character after a *
Asterisk ==
    /\ Running /\ m.asterisk
    /\ \/ StringChar = "end" /\ Returns(0)
       \/ StringChar # "end" /\ PatternChar = "b" /\ Goes([m EXCEPT !.pattern = @ + 1])
       \/ StringChar # "end" /\ PatternChar \in {"?", StringChar} /\ Goes([m EXCEPT !.asterisk = FALSE, !.last_asterisk = Here])
       \/ StringChar # "end" /\ PatternChar \notin {"b", "?", StringChar} /\ Goes([m EXCEPT !.string = @ + 1])

\* Looking for the character after a %, not beyond a space
Percent ==
    /\ Running /\ ~ m.asterisk /\ m.percent
    /\ \/ StringChar = "end" /\ Returns(IF PatternChar = "end" THEN m.count ELSE 0)
       \/ LET q == IF PatternChar = "b" THEN m.pattern + 1 ELSE m.pattern
              c == CharOf(tries[at], q)
              n == [m EXCEPT !.pattern = q]
          IN  /\ StringChar # "end"
              /\ Goes(IF PatternChar = "b" /\ c # StringChar THEN n
                      ELSE IF StringChar = "_" THEN [n EXCEPT !.percent = FALSE, !.last_percent.point = 0]
                      ELSE IF c # StringChar THEN [n EXCEPT !.string = @ + 1]
                      ELSE [n EXCEPT !.percent = FALSE, !.last_percent = Here])

Walking == Running /\ ~ m.asterisk /\ ~ m.percent

\* One or more wildcards: a * among them makes them one *.
Wildcard ==
    LET p == tries[at]
        past == Min({i \in m.pattern .. Len(p) + 1 : CharOf(p, i) \notin {"*", "%"}})
        star == \E i \in m.pattern .. past - 1 : p[i] = "*"
    IN  /\ Walking /\ PatternChar \in {"*", "%"}
        /\ IF star /\ past > Len(p) THEN Returns(m.count)
           ELSE Goes([m EXCEPT !.pattern = past, !.after_wildcard = past,
                               !.asterisk = star, !.percent = ~ star,
                               !.last_asterisk = IF star THEN Here ELSE @,
                               !.last_percent = IF star THEN @ ELSE Here])

QuestionMark ==
    /\ Walking /\ PatternChar = "?"
    /\ IF StringChar = "end" THEN Returns(0)
       ELSE Goes([m EXCEPT !.pattern = @ + 1, !.string = @ + 1])

Backslash ==
    /\ Walking /\ PatternChar = "b"
    /\ IF CharOf(tries[at], m.pattern + 1) = "end" \/ CharOf(tries[at], m.pattern + 1) # StringChar
       THEN Returns(0)
       ELSE Goes([m EXCEPT !.count = @ + 1, !.pattern = @ + 2, !.string = @ + 1])

\* A plain character, or the end
Character ==
    /\ Walking /\ PatternChar \notin Wildcards
    /\ IF PatternChar = "end" /\ StringChar = "end" THEN Returns(m.count)
       ELSE IF PatternChar = StringChar THEN Goes([m EXCEPT !.count = @ + 1, !.pattern = @ + 1, !.string = @ + 1])
       ELSE IF m.last_asterisk.point # 0
            THEN Goes([m EXCEPT !.asterisk = TRUE, !.string = m.last_asterisk.point + 1,
                                !.pattern = m.after_wildcard, !.count = m.last_asterisk.count])
       ELSE IF m.last_percent.point # 0
            THEN Goes([m EXCEPT !.percent = TRUE, !.string = m.last_percent.point + 1,
                                !.pattern = m.after_wildcard, !.count = m.last_percent.count])
       ELSE Returns(0)

PatternsNext == Called \/ Asterisk \/ Percent \/ Wildcard \/ QuestionMark \/ Backslash \/ Character

PatternsSpec == PatternsInit /\ [][PatternsNext]_patternVars

----------------------------------------------------------------------------
(* Properties *)

PatternsTypeOK ==
    /\ Running => m.pattern \in 1 .. Len(tries[at]) + 1
    /\ m.string \in 1 .. Len(string) + 1

\* What a pattern means: * is any text, % any without a space, ? any character,
\* and \ takes the meaning away from the character behind it.
MeansText(p, s) ==
    LET fits[i \in 1 .. Len(p) + 1, j \in 1 .. Len(s) + 1] ==
            IF i > Len(p) THEN j > Len(s)
            ELSE CASE p[i] = "*" -> \E k \in j .. Len(s) + 1 : fits[i + 1, k]
                   [] p[i] = "%" -> \E k \in j .. Len(s) + 1 :
                                        (\A l \in j .. k - 1 : s[l] # "_") /\ fits[i + 1, k]
                   [] p[i] = "?" -> j <= Len(s) /\ fits[i + 1, j + 1]
                   [] p[i] = "b" -> i < Len(p) /\ j <= Len(s) /\ p[i + 1] = s[j] /\ fits[i + 2, j + 1]
                   [] OTHER -> j <= Len(s) /\ p[i] = s[j] /\ fits[i + 1, j + 1]
    IN  fits[1, 1]

\* One, and one for each character that stands for itself
WorthOf(p, s) ==
    IF ~ MeansText(p, s) THEN 0
    ELSE 1 + Len(SelectSeq(p, LAMBDA c : c \in TextLetters))

\* At the end the value is that of the best pattern, by what patterns mean, and
\* the first that has it.
PatternsSound ==
    at > Len(tries) /\ at # 0 =>
        LET values == [i \in DOMAIN tries |-> WorthOf(tries[i], string)]
            top == Max({values[i] : i \in DOMAIN tries})
        IN  best.value = top /\ best.which = (IF top = 0 THEN 0 ELSE Min({i \in DOMAIN tries : values[i] = top}))
=============================================================================
