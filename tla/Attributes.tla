------------------------------ MODULE Attributes ------------------------------
(***************************************************************************)
(* Bold, blinking, underlined, reversed text and colours, from the text to   *)
(* the terminal: strip_ansi() turns ANSI sequences into the toggles and       *)
(* colour codes of ircII, and output_with_count() turns those into what the   *)
(* terminal is told (screen.c).  A text is any number of codes, each with     *)
(* characters behind it.                                                      *)
(***************************************************************************)
EXTENDS Integers, Sequences

LOCAL INSTANCE FiniteSetsExt

CONSTANTS
    Sgr,       \* numbers of ESC [ n m in texts
    Colors,    \* what stands behind ^C, as characters
    Toggles,   \* the characters that switch an attribute
    Following, \* what follows a code
    Mixed,     \* colours come while attributes other than bold are on
    Faulty     \* what else texts have: subset of {"comma", "off", "repaint"}

\* The attributes that ATTRIBUTE_HANDLER is made for
Handlers == {"bold", "blink", "underline", "standout", "altcharset"}

ASSUME AttributesAssumption ==
    /\ Sgr \subseteq {0, 1, 4, 5, 6, 7, 21, 24, 25, 26, 27} \cup (30 .. 37) \cup (40 .. 47)
    /\ Toggles \subseteq Handlers
    /\ Mixed \in BOOLEAN

VARIABLES
    stripper,   \* strip_ansi()'s variables
    out,     \* what it has put out and output_with_count() has not taken
    attr,    \* the attributes: what display_bold() and the others have (display),
             \* output_with_count()'s copies (old) and in_color, doing_color, and the
             \* last colours of replace_color()
    term,    \* the terminal
    asked,   \* what the text asks for
    eaten    \* characters of the text were taken for a part of a code

attributeVars == <<stripper, out, attr, term, asked, eaten>>

Normal == [on |-> {}, fg |-> -1, bg |-> -1]
NoAttributes == [on |-> {}, fg |-> 0, bg |-> 1]

AttributesInit ==
    /\ stripper = NoAttributes /\ out = <<>> /\ term = Normal /\ asked = Normal /\ eaten = FALSE
    /\ attr = [display |-> {}, old |-> {}, in_color |-> FALSE, doing_color |-> FALSE, fg |-> -2, bg |-> -2]

----------------------------------------------------------------------------
(* The codes of the text *)

AComma == 10
Letter == 11
Minus1 == 12
DigitChars == 0 .. 9

\* A number of a colour: two digits only if they are a colour.  The digits taken.
SecondDigit(c) == CASE c = 0 -> 0 .. 9 [] c = 1 -> 0 .. 6 [] c \in {3, 4} -> 0 .. 7 [] c = 5 -> 0 .. 8
               [] OTHER -> {}
NumberLen(t) ==
    IF t = <<>> \/ t[1] \notin DigitChars THEN 0
    ELSE IF Len(t) > 1 /\ t[2] \in SecondDigit(t[1]) THEN 2 ELSE 1
ColorNumber(t) ==
    CASE NumberLen(t) = 0 -> -1
      [] NumberLen(t) = 1 -> t[1]
      [] OTHER            -> 10 * t[1] + t[2]
BehindAt(t, i) == SubSeq(t, i, Len(t))

\* skip_ctl_c_seq(): the colours of the code that t is what follows ^C of, and how
\* much of t it takes; a comma behind the first number is always taken
BehindComma(t) == BehindAt(t, NumberLen(t) + 2)
skip_ctl_c_seq(t) ==
    CASE t = <<>> \/ t[1] = Letter -> [lhs |-> -1, rhs |-> -1, len |-> 0]
      [] t # <<>> /\ t[1] = Minus1 -> [lhs |-> -1, rhs |-> -1, len |-> 1]
      [] OTHER ->
            IF Len(t) > NumberLen(t) /\ t[NumberLen(t) + 1] = AComma
            THEN [lhs |-> ColorNumber(t), rhs |-> ColorNumber(BehindComma(t)),
                  len |-> NumberLen(t) + 1 + IF BehindComma(t) # <<>> /\ BehindComma(t)[1] = Minus1 THEN 1
                                             ELSE NumberLen(BehindComma(t))]
            ELSE [lhs |-> ColorNumber(t), rhs |-> -1, len |-> NumberLen(t)]

----------------------------------------------------------------------------
(* strip_ansi() *)

Tog(a) == [kind |-> "toggle", of |-> a, text |-> <<>>]
Off == [kind |-> "off", of |-> "", text |-> <<>>]
Code(t) == [kind |-> "color", of |-> "", text |-> t]
TextItem(t) == [kind |-> "text", of |-> "", text |-> t]

\* One number of ESC [ m: what it puts out, and the variables after it
Is(a) == a \in stripper.on
Foreground(n) ==
    Code(<<IF Is("bold") THEN 5 ELSE 3, n - 30>> \o IF Is("blink") THEN <<AComma, 5, 8>> ELSE <<>>)
Background(n) == Code(<<AComma, IF Is("blink") THEN 5 ELSE 4, n - 40>>)

SgrOut(n) ==
    CASE n = 0 -> <<Off>>
      [] n = 1 /\ ~ Is("bold") -> <<Tog("bold")>>
            \o IF stripper.fg \in 30 .. 37 THEN <<Code(<<5, stripper.fg % 10>>)>> ELSE <<>>
      [] n = 21 /\ Is("bold") -> <<Tog("bold")>>
            \o IF stripper.fg \in 50 .. 57 THEN <<Code(<<3, stripper.fg % 10>>)>> ELSE <<>>
      [] n \in {5, 26} /\ ~ Is("blink") -> <<Tog("blink")>>
            \o IF stripper.bg \in 40 .. 47 THEN <<Code(<<AComma, 5, stripper.bg % 10>>)>> ELSE <<>>
      [] n \in {6, 25} /\ Is("blink") -> <<Tog("blink")>>
            \o IF stripper.bg \in 50 .. 57 THEN <<Code(<<AComma, 4, stripper.bg % 10>>)>> ELSE <<>>
      [] (n = 4 /\ ~ Is("underline")) \/ (n = 24 /\ Is("underline")) -> <<Tog("underline")>>
      [] (n = 7 /\ ~ Is("standout")) \/ (n = 27 /\ Is("standout")) -> <<Tog("standout")>>
      [] n \in 30 .. 37 -> <<Foreground(n)>>
      [] n \in 40 .. 47 -> <<Background(n)>>
      [] OTHER -> <<>>

\* altcharset is not reset by ESC [ 0 m.
SgrStrip(n) ==
    CASE n = 0 -> [on |-> stripper.on \cap {"altcharset"}, fg |-> 0, bg |-> 0]
      [] n = 1 -> [stripper EXCEPT !.on = @ \cup {"bold"},
                       !.fg = IF ~ Is("bold") /\ @ \in 30 .. 37 THEN @ + 20 ELSE @]
      [] n = 21 -> [stripper EXCEPT !.on = @ \ {"bold"},
                        !.fg = IF Is("bold") /\ @ \in 50 .. 57 THEN @ - 20 ELSE @]
      [] n \in {5, 26} -> [stripper EXCEPT !.on = @ \cup {"blink"},
                               !.bg = IF ~ Is("blink") /\ @ \in 40 .. 47 THEN @ + 10 ELSE @]
      [] n \in {6, 25} -> [stripper EXCEPT !.on = @ \ {"blink"},
                               !.bg = IF Is("blink") /\ @ \in 50 .. 57 THEN @ - 10 ELSE @]
      [] n = 4  -> [stripper EXCEPT !.on = @ \cup {"underline"}]
      [] n = 24 -> [stripper EXCEPT !.on = @ \ {"underline"}]
      [] n = 7  -> [stripper EXCEPT !.on = @ \cup {"standout"}]
      [] n = 27 -> [stripper EXCEPT !.on = @ \ {"standout"}]
      [] n \in 30 .. 37 -> [stripper EXCEPT !.fg = n]
      [] n \in 40 .. 47 -> [stripper EXCEPT !.bg = n]

\* ^C: the colours are as given, not brightened by bold or blink
ColorOff(c) == (IF c.lhs # -1 THEN {"bold"} ELSE {}) \cup (IF c.rhs # -1 THEN {"blink"} ELSE {})
ColorOut(t, c) ==
    (IF c.lhs # -1 /\ Is("bold") THEN <<Tog("bold")>> ELSE <<>>)
    \o (IF c.rhs # -1 /\ Is("blink") THEN <<Tog("blink")>> ELSE <<>>)
    \o <<Code(SubSeq(t, 1, c.len))>>

----------------------------------------------------------------------------
(* What the text asks for *)

fore_conv(n) ==
    IF n < 16 THEN <<15, 0, 4, 2, 1, 3, 5, 9, 11, 10, 6, 14, 12, 13, 8, 7>>[n + 1]
    ELSE IF n = 16 THEN 15
    ELSE IF n \in 31 .. 37 THEN n - 30 ELSE IF n \in 50 .. 57 THEN n - 42 ELSE 0
back_conv(n) ==
    IF n < 16 THEN <<7, 0, 4, 2, 1, 3, 5, 1, 3, 2, 6, 6, 4, 5, 0, 0>>[n + 1]
    ELSE IF n = 16 THEN 7
    ELSE IF n \in 41 .. 47 THEN n - 40 ELSE IF n \in 50 .. 57 THEN n - 42 ELSE 0

AsksOn(a) == [asked EXCEPT !.on = @ \cup {a}]
AsksOff(a) == [asked EXCEPT !.on = @ \ {a}]
SgrAsks(n) ==
    CASE n = 0 -> Normal
      [] n = 1 -> AsksOn("bold")
      [] n = 21 -> AsksOff("bold")
      [] n \in {5, 26} -> AsksOn("blink")
      [] n \in {6, 25} -> AsksOff("blink")
      [] n = 4 -> AsksOn("underline")
      [] n = 24 -> AsksOff("underline")
      [] n = 7 -> AsksOn("standout")
      [] n = 27 -> AsksOff("standout")
      [] n \in 30 .. 37 -> [asked EXCEPT !.fg = n - 30]
      [] n \in 40 .. 47 -> [asked EXCEPT !.bg = n - 40]
ColorAsks(c) ==
    IF c.lhs = -1 /\ c.rhs = -1 THEN [asked EXCEPT !.fg = -1, !.bg = -1]
    ELSE [on |-> asked.on \ ColorOff(c), fg |-> IF c.lhs = -1 THEN asked.fg ELSE fore_conv(c.lhs),
          bg |-> IF c.rhs = -1 THEN asked.bg ELSE back_conv(c.rhs)]

\* How the terminal shows it: a colour above 7 is bright by bold, a background by blink
Looks(s) ==
    [on |-> s.on \cup (IF s.fg > 7 THEN {"bold"} ELSE {}) \cup (IF s.bg > 7 THEN {"blink"} ELSE {}),
     fg |-> IF s.fg = -1 THEN -1 ELSE s.fg % 8, bg |-> IF s.bg = -1 THEN -1 ELSE s.bg % 8]

----------------------------------------------------------------------------
(* The steps of strip_ansi() *)

Coloured == asked.fg # -1 \/ asked.bg # -1

\* Unless Mixed, a foreground meets bold only, a background nothing, and bold goes
\* before the colour does only if it was switched on with an ANSI one.
Apart(n) ==
    CASE n \in 30 .. 37 -> asked.on \subseteq {"bold"}
      [] n \in 40 .. 47 -> asked.on = {}
      [] n \in {0, 1}   -> TRUE
      [] n = 21         -> Coloured => stripper.fg \in 50 .. 57 /\ asked.fg < 8 /\ asked.bg = -1
      [] OTHER          -> ~ Coloured

\* ESC [ n m, with t behind it
Ansi(n, t) ==
    /\ out = <<>>
    /\ Mixed \/ Apart(n)
    /\ "comma" \notin Faulty => ~ (n \in {1, 21} \cup 30 .. 47 /\ t # <<>> /\ t[1] = AComma)
    /\ out' = SgrOut(n) \o <<TextItem(t)>>
    /\ stripper' = SgrStrip(n) /\ asked' = SgrAsks(n)
    /\ UNCHANGED <<attr, term, eaten>>

\* ^C with c and t behind it
CtlC(c, t) ==
    /\ out = <<>>
    /\ ~ Mixed => asked.on \subseteq {"bold"}
    /\ LET code == skip_ctl_c_seq(c \o t)
       IN  /\ ~ Mixed /\ code.lhs = -1 => ~ Is("bold") /\ attr.old = {}
           /\ out' = ColorOut(c \o t, code) \o <<TextItem(BehindAt(c \o t, code.len + 1))>>
           /\ stripper' = [on |-> stripper.on \ ColorOff(code), fg |-> code.lhs, bg |-> code.rhs]
           /\ asked' = ColorAsks(code)
    /\ UNCHANGED <<attr, term, eaten>>

\* A character that switches an attribute
ToggleChar(a, t) ==
    /\ out = <<>>
    /\ ~ Mixed => ~ Coloured
    /\ out' = <<Tog(a), TextItem(t)>>
    /\ stripper' = [stripper EXCEPT !.on = IF a \in @ THEN @ \ {a} ELSE @ \cup {a}]
    /\ asked' = IF a \in asked.on THEN AsksOff(a) ELSE AsksOn(a)
    /\ UNCHANGED <<attr, term, eaten>>

\* ALL_OFF: strip_ansi() keeps its colours
AllOff(t) ==
    /\ out = <<>>
    /\ "off" \notin Faulty => stripper.fg \notin 30 .. 57 /\ stripper.bg \notin 40 .. 57
    /\ out' = <<Off, TextItem(t)>> /\ stripper' = [stripper EXCEPT !.on = {}] /\ asked' = Normal
    /\ UNCHANGED <<attr, term, eaten>>

\* A character that cannot be printed, as a letter in reverse
Unprintable(t) ==
    /\ out = <<>>
    /\ ~ Mixed => ~ Coloured
    /\ out' = <<Tog("standout"), TextItem(<<Letter>>), Tog("standout"), TextItem(t)>>
    /\ UNCHANGED <<stripper, attr, term, asked, eaten>>

\* A sequence that is not for attributes is dropped.
Dropped(t) ==
    /\ out = <<>>
    /\ out' = <<TextItem(t)>>
    /\ UNCHANGED <<stripper, attr, term, asked, eaten>>

----------------------------------------------------------------------------
(* output_with_count() *)

\* Turning off bold or blinking turns off everything (term.c).
TermOn(m, A) == [m EXCEPT !.on = @ \cup A]
TermOff(m, a) == IF a \in {"bold", "blink"} THEN Normal ELSE [m EXCEPT !.on = @ \ {a}]

\* The attribute handlers and the case of a toggle; what is turned off with it is
\* turned on again, unless there are colours
Toggled(a) ==
    LET on == a \notin attr.display
        flip(s) == IF a \in s THEN s \ {a} ELSE s \cup {a}
        old == IF attr.in_color THEN attr.old ELSE flip(attr.old)
        m == IF on THEN TermOn(term, {a}) ELSE TermOff(term, a)
    IN  /\ attr' = [attr EXCEPT !.display = flip(@), !.old = old]
        /\ term' = IF ~ attr.in_color /\ a \notin old THEN TermOn(m, old) ELSE m

SwitchedOff ==
    /\ attr' = [attr EXCEPT !.display = {}, !.old = {}, !.in_color = FALSE, !.doing_color = FALSE,
                    !.fg = -2, !.bg = -2]
    /\ term' = Normal

\* replace_color(): the old colour where none is given; a dark one begins with
\* turning everything off
ReplacedColor(m, f, b) ==
    LET clean == (f > -1 /\ fore_conv(f) < 8) \/ (b \in 0 .. 57 /\ fore_conv(b) < 8)
        bright == (IF f > -1 /\ fore_conv(f) > 7 THEN {"bold"} ELSE {})
                  \cup (IF b = 58 \/ (b \in 0 .. 57 /\ back_conv(b) > 7) THEN {"blink"} ELSE {})
        n == TermOn(IF clean THEN Normal ELSE m, bright)
    IN  [n EXCEPT !.fg = IF f > -1 THEN fore_conv(f) % 8 ELSE @,
                  !.bg = IF b \in 0 .. 57 THEN back_conv(b) % 8 ELSE @]

\* The case of a colour code
Brightened(n, low, by, a) == IF a \in attr.display /\ n \in low .. low + 7 THEN n + by ELSE n
GivenColor(n, last) == IF n = -1 THEN last ELSE n
Colored(c) ==
    IF c.lhs = -1 /\ c.rhs = -1
    THEN /\ attr' = [attr EXCEPT !.in_color = FALSE, !.doing_color = FALSE, !.fg = -2, !.bg = -2]
         /\ term' = [Normal EXCEPT !.on = attr.old]
    ELSE LET f == GivenColor(Brightened(c.lhs, 30, 20, "bold"), attr.fg)
             b == GivenColor(Brightened(c.rhs, 40, 10, "blink"), attr.bg)
         IN  /\ attr' = [attr EXCEPT !.in_color = TRUE, !.doing_color = TRUE, !.fg = f, !.bg = b]
             /\ term' = ReplacedColor(TermOff(term, "standout"), f, b)

\* One code, or the characters behind it
CodeTaken ==
    /\ out # <<>>
    /\ LET i == Head(out)
           c == skip_ctl_c_seq(i.text \o IF Len(out) > 1 THEN out[2].text ELSE <<>>)
       IN  /\ CASE i.kind = "toggle" -> Toggled(i.of)
                [] i.kind = "off"    -> SwitchedOff
                [] i.kind = "color"  -> Colored(c)
                [] i.kind = "text"   -> UNCHANGED <<attr, term>>
           /\ eaten' = (eaten \/ (i.kind = "color" /\ c.len > Len(i.text)))
    /\ out' = Tail(out)
    /\ UNCHANGED <<stripper, asked>>

\* The line is broken: the rest is put out by another call.
LineGoesOn ==
    /\ out = <<>>
    /\ attr' = [attr EXCEPT !.old = attr.display, !.in_color = attr.doing_color]
    /\ UNCHANGED <<stripper, out, term, asked, eaten>>

\* prepare_display() ends the text with ALL_OFF; another is begun.
LineEnds ==
    /\ out = <<>>
    /\ SwitchedOff
    /\ stripper' = NoAttributes /\ asked' = Normal
    /\ UNCHANGED <<out, eaten>>

\* The rest of a broken line is drawn again, without its beginning.
Repaint ==
    /\ "repaint" \in Faulty /\ out = <<>>
    /\ SwitchedOff
    /\ UNCHANGED <<stripper, out, asked, eaten>>

AttributesNext ==
    \/ \E t \in Following : (\E n \in Sgr : Ansi(n, t)) \/ (\E c \in Colors : CtlC(c, t))
                            \/ (\E a \in Toggles : ToggleChar(a, t)) \/ AllOff(t) \/ Unprintable(t)
                            \/ Dropped(t)
    \/ CodeTaken \/ LineGoesOn \/ LineEnds \/ Repaint

----------------------------------------------------------------------------
(* Properties *)

AttributesTypeOK ==
    /\ stripper.fg \in -1 .. 58 /\ stripper.bg \in -1 .. 58
    /\ attr.fg \in -2 .. 58 /\ attr.bg \in -2 .. 58
    /\ attr.display \subseteq Handlers
    /\ term.fg \in -1 .. 7 /\ term.bg \in -1 .. 7 /\ eaten \in BOOLEAN

\* Characters look the way the text asks for.
LooksRight == out = <<>> => term = Looks(asked)

\* strip_ansi() and the handlers agree on what is on.
Agree == out = <<>> /\ ~ Coloured => attr.display = asked.on /\ attr.old = asked.on

AttributesSound == LooksRight /\ Agree /\ ~ eaten

=============================================================================
