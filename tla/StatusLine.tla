----------------------------- MODULE StatusLine -----------------------------
(* The status line of a window (status.c).  A format is walked once for what  *)
(* it is to show (build_status_format); each time the line is made, functions *)
(* are called for their texts, and the line is filled to the width of the     *)
(* terminal and drawn if it has changed (make_status).                        *)
(*                                                                            *)
(* A text is a sequence of symbols, one a column, but for "tab", "f" (the     *)
(* mark of %>) and "bold" (an attribute, no column).                          *)
EXTENDS Integers, Sequences, FiniteSets, SequencesExt

CONSTANTS
    LineWidth, TabStop, \* the width of the terminal; a tab goes to the next multiple of 8
    MaxExpandos,        \* MAX_FUNCTIONS
    Format1, Format2,   \* typed for STATUS_FORMAT1 and 2
    Situations,         \* what there is to show, and STATUS_CHANNEL (<<"null">>: unset)
    Displays            \* settings: records [full, plain, all, reverse]

VARIABLES
    table,        \* what the formats were built to: of STATUS_FORMAT1 (twice), 2
    subformats,   \* channel_format and its like, the format the text of a key is put in
    now,          \* the situation
    display,      \* FULL_STATUS_LINE, STATUS_NO_REPEAT, SHOW_STATUS_ALL, REVERSE_STATUS
    extra,        \* "none", "double" (double_status) or "split" (status_lines)
    result,       \* the lines as they were last drawn
    statusRows,   \* what is on the rows of the window's status lines
    stale         \* a setting changed without the line being made

statusVars == <<table, subformats, now, display, extra, result, statusRows, stale>>

-----------------------------------------------------------------------------
\* Formats

\* status_expandos: keys that have a format of their own, and the others.
WithFormat == {"B", "C", "F", "N", "Q", "S", "T"}
WithoutFormat == {"H", "I", "O", "R", "U", "W", "d", "s", "%", ">"}
KnownExpando(map, key) ==
    \/ map = 0 /\ key \in WithFormat \cup WithoutFormat
    \/ map = 1 /\ key \in {"F", "S", "K", "U"}
    \/ map = 2 /\ key \in {"S", "U"}

MapDigit == [d \in {"1", "2", "3"} |-> CASE d = "1" -> 1 [] d = "2" -> 2 [] OTHER -> 3]
Symbol(s) == <<[map |-> -1, key |-> s]>>
Expando(map, key) == IF KnownExpando(map, key) THEN <<[map |-> map, key |-> key]>> ELSE <<>>

\* The format after its expandos are found: %c, or %{map}c.  What is not known is left
\* out, and so is the brace that opens no map.
Walked(raw) ==
    LET At(i) == IF i <= Len(raw) THEN raw[i] ELSE "NUL"
        Walk[i \in 1 .. Len(raw) + 5] ==
            IF i > Len(raw) THEN <<>>
            ELSE IF raw[i] # "%" THEN Symbol(raw[i]) \o Walk[i + 1]
            ELSE IF At(i + 1) # "{" THEN Expando(0, At(i + 1)) \o Walk[i + 2]
            ELSE IF At(i + 2) = "}" THEN Expando(0, At(i + 3)) \o Walk[i + 4]
            ELSE IF At(i + 2) \in DOMAIN MapDigit /\ At(i + 3) = "}"
                 THEN Expando(MapDigit[At(i + 2)], At(i + 4)) \o Walk[i + 5]
            ELSE Walk[i + 2]
    IN Walk[1]

\* Only so many expandos are kept.
BuildStatusFormat(raw) ==
    LET items == Walked(raw)
        Before(i) == Cardinality({j \in 1 .. i : items[j].map >= 0})
        Kept == {i \in DOMAIN items : items[i].map >= 0 => Before(i) <= MaxExpandos}
        kept == SetToSortSeq(Kept, <)
    IN [k \in DOMAIN kept |-> items[kept[k]]]

\* convert_sub_format(): each %c is where the text goes, any other % stands for itself,
\* but the second of %% may begin one.
ConvertSubFormat(format, key) ==
    LET At(i) == IF i <= Len(format) THEN format[i] ELSE "NUL"
        Walk[i \in 1 .. Len(format) + 2] ==
            IF i > Len(format) THEN <<>>
            ELSE IF format[i] # "%" THEN <<format[i]>> \o Walk[i + 1]
            ELSE IF At(i + 1) = key THEN <<"arg">> \o Walk[i + 2]
            ELSE IF At(i + 1) = "%" THEN <<"%">> \o Walk[i + 1]
            ELSE <<"%", At(i + 1)>> \o Walk[i + 2]
    IN Walk[1]

\* The formats of keys are renewed when an expando with the key is built.
Renewed(tables, typed) ==
    IF \E l \in DOMAIN tables : \E i \in DOMAIN tables[l] : tables[l][i].key = "C"
    THEN [subformats EXCEPT !["C"] = ConvertSubFormat(typed, "C")]
    ELSE subformats

-----------------------------------------------------------------------------
\* The texts of the expandos

\* snprintf() of a text in a format that was converted
ArgPlaces(format) == Cardinality({i \in DOMAIN format : format[i] = "arg"})
PutInFormat(format, text) ==
    FlattenSeq([i \in DOMAIN format |->
        IF format[i] = "arg" THEN text ELSE <<format[i]>>])

Listing(parts) ==
    FlattenSeq([i \in DOMAIN parts |-> (IF i > 1 THEN <<",">> ELSE <<>>) \o parts[i]])

OnThisWindow(s, d) == s.current \/ d.all

\* The name of the server: all of it (map 2), or up to its first dot, behind "irc".
StatusServer(s, map) ==
    LET name == s.server
        Dots == {i \in DOMAIN name : name[i] = "."}
        first == Min(Dots)
        Behind == {i \in Dots : i > first + 1}
        short == IF map = 2 \/ Dots = {} \/ name[1] = "1" THEN name
                 ELSE IF name[1] # "irc" THEN SubSeq(name, 1, first - 1)
                 ELSE SubSeq(name, first + 1, Min(Behind \cup {Len(name) + 1}) - 1)
    IN IF name = <<>> THEN <<"N", "o">> ELSE PutInFormat(subformats["S"], short)

\* The channel, cut to CHANNEL_NAME_WIDTH if that is not 0
StatusChannel(s, sub) ==
    LET n == s.channel.width
        name == s.channel.name
    IN IF name = <<>> THEN <<>>
       ELSE PutInFormat(sub, IF n > 0 /\ n < Len(name) THEN SubSeq(name, 1, n) ELSE name)

\* The windows with something new, by number or (map 1) by name
StatusNotifyWindows(s, d, map) ==
    LET w == s.notified
        Called(i) == IF map = 1 /\ w[i].name # "" THEN <<w[i].name>> ELSE <<w[i].refnum>>
    IN IF w = <<>> \/ ~OnThisWindow(s, d) THEN <<>>
       ELSE PutInFormat(subformats["F"], Listing([i \in DOMAIN w |-> Called(i)]))

StatusQueryNick(s) == IF s.query = <<>> THEN <<>> ELSE PutInFormat(subformats["Q"], s.query)
StatusNickname(s) == PutInFormat(subformats["N"], s.nick)
StatusClock(s, d) ==
    IF s.clock = <<>> \/ ~OnThisWindow(s, d) THEN <<>> ELSE PutInFormat(subformats["T"], s.clock)

\* Lines held back, in whole intervals
StatusHoldLines(s) ==
    LET interval == IF s.interval = 0 THEN 1 ELSE s.interval
        num == (s.held \div interval) * interval
    IN IF num = 0 THEN <<>> ELSE PutInFormat(subformats["B"], <<ToString(num)>>)
StatusHold(s) == IF s.held > 0 THEN <<"h">> ELSE <<>>

StatusInsertMode(s, d) == IF s.insert /\ OnThisWindow(s, d) THEN <<"i">> ELSE <<>>
StatusOverwriteMode(s, d) == IF ~s.insert /\ OnThisWindow(s, d) THEN <<"o">> ELSE <<>>
StatusWindow(s) == IF s.visible_windows > 1 /\ s.current THEN <<"w">> ELSE <<>>
StatusRefnum(s) == <<s.refnum>>
StatusScrollInfo(s) == IF s.scrolled = <<>> THEN <<>> ELSE <<"(">> \o s.scrolled \o <<")">>
\* STATUS_USER0, 10 and 20; the maps above 1 are for every window.
StatusUser(s, d, map) ==
    IF OnThisWindow(s, d) \/ map > 1 THEN <<"u", ToString(map)>> ELSE <<>>
StatusServerStats(s) == IF s.stats = <<>> THEN <<>> ELSE s.stats

\* How far the transfers are: those of unknown size are left out.
NapsterDownload(s) ==
    LET Of(up) == SelectSeq(s.transfers, LAMBDA t : t.up = up /\ t.size > 0)
        Listed(ts, name) ==
            IF ts = <<>> THEN <<>>
            ELSE <<"[", name>> \o
                 Listing([i \in DOMAIN ts |->
                            <<ToString((100 * ts[i].done) \div ts[i].size)>>])
                 \o <<"]">>
    IN Listed(Of(FALSE), "G") \o Listed(Of(TRUE), "S")

StatusText(s, d, sub, map, key) ==
    CASE key = "S" -> StatusServer(s, map)
      [] key = "C" -> StatusChannel(s, sub)
      [] key = "F" -> StatusNotifyWindows(s, d, map)
      [] key = "Q" -> StatusQueryNick(s)
      [] key = "N" -> StatusNickname(s)
      [] key = "T" -> StatusClock(s, d)
      [] key = "B" -> StatusHoldLines(s)
      [] key = "H" -> StatusHold(s)
      [] key = "I" -> StatusInsertMode(s, d)
      [] key = "O" -> StatusOverwriteMode(s, d)
      [] key = "W" -> StatusWindow(s)
      [] key = "R" -> StatusRefnum(s)
      [] key = "K" -> StatusScrollInfo(s)
      [] key = "U" -> StatusUser(s, d, map)
      [] key = "s" -> StatusServerStats(s)
      [] key = "d" -> NapsterDownload(s)
      [] key = "%" -> <<"%">>
      [] key = ">" -> <<"f">>

\* The functions of the server and of the notified windows return a buffer of their
\* own: a line with two calls shows what the last one left.
Buffered == {"S", "F"}
ShownText(items, i, s, d, sub) ==
    LET Calls == {j \in DOMAIN items : items[j].map >= 0 /\ items[j].key = items[i].key}
        j == IF items[i].key \in Buffered THEN Max(Calls) ELSE i
    IN IF items[i].map < 0 THEN <<items[i].key>>
       ELSE StatusText(s, d, sub, items[j].map, items[j].key)

-----------------------------------------------------------------------------
\* make_status(): the line from the texts

StatusTextOf(items, s, d, sub) ==
    (IF d.reverse THEN <<"bold">> ELSE <<>>)
    \o FlattenSeq([i \in DOMAIN items |-> ShownText(items, i, s, d, sub)])

Blanks(n) == [i \in 1 .. n |-> "_"]
\* One symbol counted and copied to the left or the right; no more once the line is full.
PutSymbol(a, text, n, fill) ==
    IF a.right_side
    THEN [a EXCEPT !.rhs = @ \o text, !.pr_rhs = @ + n]
    ELSE [a EXCEPT !.lhs = @ \o text, !.pr_lhs = @ + n, !.fillchar = fill]
TabWidth(n) == TabStop - (n % TabStop)
CountSymbol(a, c) ==
    CASE a.pr_lhs + a.pr_rhs >= LineWidth -> a
      [] c = "f" /\ ~a.right_side -> [a EXCEPT !.right_side = TRUE]
      [] c = "bold" -> PutSymbol(a, <<c>>, 0, a.fillchar)
      [] c = "tab" ->
            LET n == TabWidth(IF a.right_side THEN a.pr_rhs ELSE a.pr_lhs)
            IN PutSymbol(a, Blanks(n), n, <<"_">>)
      [] OTHER -> PutSymbol(a, <<c>>, 1, <<c>>)

Nothing == [lhs |-> <<>>, rhs |-> <<>>, pr_lhs |-> 0, pr_rhs |-> 0, fillchar |-> <<>>,
            right_side |-> FALSE]
Times(n, text) == FlattenSeq([i \in 1 .. n |-> text])
Padded(a, d) ==
    LET fill == IF d.plain THEN <<"_">> ELSE a.fillchar
        n == LineWidth - a.pr_lhs - (IF a.right_side THEN a.pr_rhs ELSE 0)
    IN a.lhs \o (IF a.right_side \/ d.full THEN Times(n, fill) ELSE <<>>) \o a.rhs
MadeOf(items, s, d, sub) ==
    Padded(FoldLeft(CountSymbol, Nothing, StatusTextOf(items, s, d, sub)), d)

\* The formats of the lines: the first, or in a double line the second, of which both
\* are STATUS_FORMAT1; below or above it STATUS_FORMAT2.
LinesOf(x) == IF x = "none" THEN {0} ELSE {0, 1}
FormatOf(x, k) == IF k = 1 THEN 3 ELSE IF x = "double" THEN 2 ELSE 1
RowOf(x, k) == CASE k = 0 -> "bottom" [] x = "split" -> "top" [] OTHER -> "below"

\* Each line is made; one that is as it was last drawn is not drawn.
MakeStatus(tables, subs, s, d, x, cached, onscreen) ==
    LET Made(k) == MadeOf(tables[FormatOf(x, k)], s, d, subs["C"])
    IN /\ result' = [k \in 0 .. 1 |-> IF k \in LinesOf(x) THEN Made(k) ELSE cached[k]]
       /\ statusRows' = [r \in DOMAIN onscreen |->
                     IF \E k \in LinesOf(x) : RowOf(x, k) = r /\ result'[k] # cached[k]
                     THEN result'[CHOOSE k \in LinesOf(x) : RowOf(x, k) = r]
                     ELSE onscreen[r]]
       /\ stale' = FALSE

-----------------------------------------------------------------------------
Undrawn == <<"undrawn">>
BlankRows == [r \in {"top", "bottom", "below"} |-> Undrawn]
NoResult == [k \in 0 .. 1 |-> Undrawn]

StatusLineInit ==
    /\ table = [l \in 1 .. 3 |-> <<>>]
    /\ subformats = [c \in WithFormat |-> <<"arg">>]
    /\ now = CHOOSE s \in Situations : s.start
    /\ display = [full |-> TRUE, plain |-> FALSE, all |-> FALSE, reverse |-> FALSE]
    /\ extra = "none"
    /\ result = NoResult /\ statusRows = BlankRows
    /\ stale = TRUE

\* /set STATUS_FORMAT1, 2, and /set - of them: the tables are built and every line is
\* made.  Bound: a format is set where there is none.
SetStatusFormat(k, raw) ==
    LET Of(l) == (l = 3) = (k = 2)
        tables == [l \in 1 .. 3 |-> IF Of(l) THEN BuildStatusFormat(raw) ELSE table[l]]
    IN /\ raw = <<>> \/ \A l \in 1 .. 3 : Of(l) => table[l] = <<>>
       /\ table' = tables
       /\ subformats' = Renewed(tables, now.channel.format)
       /\ MakeStatus(tables, subformats', now, display, extra, result, statusRows)
       /\ UNCHANGED <<now, display, extra>>

\* Something to show changes, a setting of a part among it; then update_all_status(),
\* which the part's callback precedes with building the formats anew.
Happens(s) ==
    /\ now' = s
    /\ subformats' = Renewed(table, s.channel.format)
    /\ MakeStatus(table, subformats', s, display, extra, result, statusRows)
    /\ UNCHANGED <<table, display, extra>>

\* A setting of the line; STATUS_NO_REPEAT has no callback.
SetDisplay(d) ==
    /\ d # display
    /\ display' = d
    /\ IF d = [display EXCEPT !.plain = d.plain]
       THEN stale' = TRUE /\ UNCHANGED <<result, statusRows>>
       ELSE MakeStatus(table, subformats, now, d, extra, result, statusRows)
    /\ UNCHANGED <<table, subformats, now, extra>>

\* /window double and /window split: the lines change places, and are drawn anew.
WindowDouble(x) ==
    /\ extra = "none" \/ x = "none"
    /\ extra' = x
    /\ MakeStatus(table, subformats, now, display, x, NoResult, BlankRows)
    /\ UNCHANGED <<table, subformats, now, display>>

StatusLineNext ==
    \/ \E raw \in Format1 : SetStatusFormat(1, raw)
    \/ \E raw \in Format2 : SetStatusFormat(2, raw)
    \/ \E s \in Situations : Happens(s)
    \/ \E d \in Displays : SetDisplay(d)
    \/ \E x \in {"none", "double", "split"} : WindowDouble(x)

StatusLineTypeOK ==
    /\ extra \in {"none", "double", "split"} /\ stale \in BOOLEAN
    /\ now \in Situations
    /\ \A l \in 1 .. 3 :
        Cardinality({i \in DOMAIN table[l] : table[l][i].map >= 0}) <= MaxExpandos

-----------------------------------------------------------------------------
Made(k) == MadeOf(table[FormatOf(extra, k)], now, display, subformats["C"])
TextOf(k) == StatusTextOf(table[FormatOf(extra, k)], now, display, subformats["C"])
Visible(text) == SelectSeq(text, LAMBDA c : c # "bold")

\* What a line of the text is to be: the part before the mark on the left, the one
\* behind it on the right, filled with what stands last on the left; cut if too long.
Expected(text, d) ==
    LET Marks == {i \in DOMAIN text : text[i] = "f"}
        p == IF Marks = {} THEN Len(text) + 1 ELSE Min(Marks)
        left == SubSeq(text, 1, p - 1)
        right == SubSeq(text, p + 1, Len(text))
        room == LineWidth - Len(left) - Len(right)
        fill == IF d.plain THEN <<"_">> ELSE IF left = <<>> THEN <<>> ELSE <<Last(left)>>
    IN IF room < 0 THEN SubSeq(left \o right, 1, LineWidth)
       ELSE left \o (IF Marks # {} \/ d.full THEN Times(room, fill) ELSE <<>>) \o right

\* A line without tabs is laid out as it should be.
LaidOut ==
    \A k \in LinesOf(extra) :
        LET text == Visible(TextOf(k))
        IN (\A i \in DOMAIN text : text[i] # "tab") =>
            Visible(Made(k)) = Expected(text, display)

\* Each part of a line shows its own text.
OwnText ==
    \A k \in LinesOf(extra) :
        LET items == table[FormatOf(extra, k)]
        IN \A i \in DOMAIN items : items[i].map >= 0 =>
            ShownText(items, i, now, display, subformats["C"]) =
                StatusText(now, display, subformats["C"], items[i].map, items[i].key)

\* What the terminal shows is the line for what there is to show now.
OnTerminal == ~stale => \A k \in LinesOf(extra) : statusRows[RowOf(extra, k)] = Made(k)

\* The channel is put in the format that is set for it, where there is one place.
OnePlace ==
    (\E l \in 1 .. 3 : \E i \in DOMAIN table[l] : table[l][i].key = "C") =>
        /\ subformats["C"] = ConvertSubFormat(now.channel.format, "C")
        /\ now.channel.name # <<>> =>
                now.channel.format # <<"null">> /\ ArgPlaces(subformats["C"]) <= 1

\* A status line shows what there is to show, in its place, on the terminal.
StatusSound == LaidOut /\ OwnText /\ OnTerminal /\ OnePlace
=============================================================================
