--------------------------------- MODULE Wrap ---------------------------------
(***************************************************************************)
(* Breaking a line of text into lines of the window, screen.c:               *)
(* prepare_display(), one character of the text a step.  Each cell of the     *)
(* buffer holds a character and its place in the text, 0 for the             *)
(* continuation mark, whose characters are never looked at.  No caller sets    *)
(* PREPARE_NOWRAP or a limit of lines.                                        *)
(***************************************************************************)
EXTENDS Integers, Sequences, FiniteSets

LOCAL INSTANCE FiniteSetsExt
LOCAL INSTANCE SequencesExt

CONSTANTS
    Settings    \* set of [cols, cont, indent, limit, letters, size]: the width of the window,
                \* the length of /set CONTINUED_LINE, /set INDENT, how many bells, tabs and
                \* ND_SPACEs are taken as such (BEEP_MAX, TAB_MAX, ND_SPACE_MAX), and, for
                \* the bound, the characters of texts and how many there are.  Characters:
                \* "x" of words, "_" the blank, "," of WORD_BREAK, "newline", "tab", "bell",
                \* "nd", and "rev" for the toggles of attributes

ASSUME WrapAssumption ==
    \A s \in Settings : s.cols \in Nat /\ s.cols > s.cont + 1 /\ s.size \in Nat /\ s.limit \in Nat

VARIABLES
    page,    \* the settings in use
    str,     \* the text so far; its last character is the one that is taken next
    w,       \* the variables of prepare_display()
    lines    \* output

wrapVars == <<page, str, w, lines>>

Cell(c, i) == [ch |-> c, at |-> i]
TakesColumn(c) == c \notin {"bell", "rev"}

\* output_with_count() without output: the columns that cells take
output_with_count(cells) == Cardinality({i \in DOMAIN cells : TakesColumn(cells[i].ch)})

Fresh == [buffer |-> <<>>, col |-> 0, word_break |-> 0, indent |-> 0, firstwb |-> 0, cont |-> 0,
          in_rev |-> FALSE, beeps |-> 0, tabs |-> 0, nds |-> 0, newline |-> FALSE, done |-> FALSE]

WrapInit == page = [cols |-> 0] /\ str = <<>> /\ w = Fresh /\ lines = <<>>

----------------------------------------------------------------------------
(* One character into the buffer *)

pos == Len(w.buffer)
Toggle(i) == IF w.in_rev THEN <<>> ELSE <<Cell("rev", i)>>

\* A control character as its letter in reverse
Mangled(v, c, i) == [v EXCEPT !.buffer = @ \o Toggle(i) \o <<Cell(c, i)>> \o Toggle(i), !.col = @ + 1]

\* Behind the first word; in C, indent 0 is also that no word has been seen
WordEnds(v) == [v EXCEPT !.indent = IF @ = 0 THEN -1 ELSE @]

\* As many blanks as reach the next tab stop, at most one past the edge
TabBlanks == Min({8 - (w.col % 8), page.cols - w.col + 1})

Bell(i) ==
    LET v == [w EXCEPT !.beeps = @ + 1]
    IN  IF v.beeps > page.limit THEN Mangled(v, "letter", i)
        ELSE [v EXCEPT !.buffer = Append(@, Cell("bell", i))]
Tab(i) ==
    LET v == [w EXCEPT !.tabs = @ + 1]
    IN  IF page.limit > 0 /\ v.tabs > page.limit THEN Mangled(v, "letter", i)
        ELSE [WordEnds(v) EXCEPT !.word_break = pos, !.col = @ + TabBlanks,
                  !.buffer = @ \o [k \in 1 .. TabBlanks |-> Cell("_", i)]]
NdSpace(i) ==
    LET kept == page.limit = 0 \/ w.nds < page.limit
    IN  [w EXCEPT !.nds = @ + 1, !.col = @ + 1,
                  !.buffer = IF kept THEN Append(@, Cell("nd", i)) ELSE @]

\* A blank or a character of WORD_BREAK, and any other
Separator(c, i, last) ==
    [WordEnds(w) EXCEPT
        !.firstwb = IF w.indent = 0 THEN pos ELSE @,
        !.word_break = IF c = "_" THEN pos
                       ELSE IF ~ last /\ w.col + 1 < page.cols THEN pos + 1 ELSE @,
        !.buffer = Append(@, Cell(c, i)), !.col = @ + 1]
OtherLetter(c, i) ==
    [w EXCEPT !.indent = IF @ = -1 THEN w.col ELSE @, !.buffer = Append(@, Cell(c, i)), !.col = @ + 1]

Put(c, i, last) ==
    CASE c = "bell"    -> Bell(i)
      [] c = "tab"     -> Tab(i)
      [] c = "nd"      -> NdSpace(i)
      [] c = "newline" -> [WordEnds(w) EXCEPT !.newline = TRUE, !.word_break = pos]
      [] c = "rev"     -> [w EXCEPT !.in_rev = ~ @, !.buffer = Append(@, Cell(c, i))]
      [] c \in {"_", ","} -> Separator(c, i, last)
      [] OTHER         -> OtherLetter(c, i)

----------------------------------------------------------------------------
(* Breaking the line *)

Full(v) == v.col >= page.cols \/ v.newline

\* The mark that the lines behind the first begin with; indent is compared with a
\* length, as an unsigned number, so -1 is above any
NextCont(v) ==
    IF v.cont # 0 THEN v.cont
    ELSE IF page.indent /\ v.indent < page.cols \div 3 /\ (v.indent = -1 \/ page.cont < v.indent)
         THEN Max({v.indent, page.cont, 1})
    ELSE page.cont

\* Where the line ends: behind the last word, or where it is full; the first line
\* also when it would be no longer than the mark, or has one word before a long one
BreakAt(v) ==
    LET end == Len(v.buffer)
        brk == IF v.word_break = 0 THEN end
               ELSE IF v.col > page.cols + 1 THEN end - 1 ELSE v.word_break
        long == v.cont = 0 /\ v.firstwb = brk /\ page.indent
        short == v.cont = 0 /\ output_with_count(SubSeq(v.buffer, 1, brk)) <= NextCont(v)
    IN  IF long \/ short THEN end ELSE brk

\* What is left behind it, without the blanks it begins with
Rest(v, brk) ==
    LET words == {i \in brk + 1 .. Len(v.buffer) : v.buffer[i].ch # "_"}
    IN  IF words = {} THEN <<>> ELSE SubSeq(v.buffer, Min(words), Len(v.buffer))

Marks(n) == [k \in 1 .. n |-> Cell("mark", 0)]
LineBehind(v, brk) == Marks(NextCont(v)) \o Rest(v, brk)

LineBroken(v, brk) ==
    [v EXCEPT !.buffer = LineBehind(v, brk), !.col = output_with_count(LineBehind(v, brk)),
              !.cont = NextCont(v), !.word_break = 0, !.newline = FALSE]

----------------------------------------------------------------------------
(* The loop *)

\* The call, with the first character of the text
WrapCalled ==
    /\ str = <<>>
    /\ \E s \in Settings : page' = s /\ \E c \in s.letters : str' = <<c>>
    /\ UNCHANGED <<w, lines>>

\* Taking a character that c follows
Takes(c) ==
    /\ str # <<>> /\ ~ w.done /\ Len(str) < page.size /\ c \in page.letters
    /\ LET v == Put(Last(str), Len(str), FALSE)
       IN  IF Full(v)
           THEN /\ lines' = Append(lines, SubSeq(v.buffer, 1, BreakAt(v)))
                /\ w' = LineBroken(v, BreakAt(v))
           ELSE lines' = lines /\ w' = v
    /\ str' = Append(str, c)
    /\ UNCHANGED page

\* Taking the last: what is in the buffer is the last line.
TextEnds ==
    /\ str # <<>> /\ ~ w.done
    /\ LET v == Put(Last(str), Len(str), TRUE)
       IN  lines' = Append(lines, v.buffer) /\ w' = [v EXCEPT !.done = TRUE]
    /\ UNCHANGED <<page, str>>

WrapNext ==
    \/ WrapCalled
    \/ \E c \in UNION {s.letters : s \in Settings} : Takes(c)
    \/ TextEnds

----------------------------------------------------------------------------
(* Properties *)

WrapTypeOK ==
    /\ w.indent \in -1 .. page.cols + 1 /\ w.word_break \in 0 .. Len(w.buffer)
    /\ w.cont \in 0 .. page.cols
    /\ \A l \in {lines[i] : i \in DOMAIN lines} : l \in Seq([ch : STRING, at : 0 .. Len(str)])

\* Before a character is taken the line has room for it.
HasRoom == str # <<>> /\ ~ w.done => w.col < page.cols

\* No line is wider than the window, but for the last blank of a tab that reaches
\* its edge.
LinesFit ==
    \A i \in DOMAIN lines :
        \/ output_with_count(lines[i]) <= page.cols
        \/ output_with_count(lines[i]) = page.cols + 1 /\ Last(lines[i]).ch = "_"
                                       /\ "tab" \in page.letters

\* The lines together are the text: each character once, in its order, but for
\* the blanks at breaks, newlines and ND_SPACEs above the limit.
PlacesShown == SelectSeq([i \in 1 .. Len(FlattenSeq(lines)) |-> FlattenSeq(lines)[i].at], LAMBDA p : p # 0)
NothingLost ==
    w.done =>
        /\ \A i \in 1 .. Len(PlacesShown) - 1 :
              \/ PlacesShown[i] < PlacesShown[i + 1]
              \/ PlacesShown[i] = PlacesShown[i + 1] /\ str[PlacesShown[i]] \in {"tab", "bell"}
        /\ \A p \in DOMAIN str : str[p] \notin {"_", "tab", "newline", "nd"} => p \in Range(PlacesShown)

\* A break within a word is one that the line had no room for, once the first line
\* with its special cases is over.
Within(i) ==
    LET next == SelectSeq(lines[i + 1], LAMBDA k : k.at # 0)
    IN  /\ lines[i] # <<>> /\ next # <<>>
        /\ Last(lines[i]).ch = "x" /\ next[1].ch = "x" /\ Last(lines[i]).at + 1 = next[1].at
WordAround(p) ==
    {q \in DOMAIN str :
        str[q] # "rev" /\ \A r \in Min({p, q}) .. Max({p, q}) : str[r] \notin {"_", "newline"}}
MarkOf(i) == Cardinality({k \in DOMAIN lines[i] : lines[i][k].at = 0})
WordsWhole ==
    w.done => \A i \in 1 .. Len(lines) - 1 :
        Within(i) /\ (MarkOf(i) > 0 \/ (w.cont = 0 /\ ~ page.indent))
            => Cardinality(WordAround(Last(lines[i]).at)) >= page.cols - MarkOf(i)

WrapSound == HasRoom /\ LinesFit /\ NothingLost /\ WordsWhole

=============================================================================
