------------------------------ MODULE InputLine ------------------------------
(***************************************************************************)
(* The editing of the input line (source/input.c): the buffer with its     *)
(* cursor, the cut buffer, and the row of the terminal the line is shown   *)
(* on.  A key changes the buffer, may write to the terminal itself, and    *)
(* calls update_input(), which decides what to draw: nothing, from the     *)
(* cursor on, or everything, when the prompt or the zone has changed.  A   *)
(* line longer than the row is shown in zones, which overlap by Width on   *)
(* each side.                                                              *)
(*                                                                         *)
(* Characters are "x", for letters, and "_", for spaces and punctuation;   *)
(* "p" is a character of the prompt, and " " an empty cell.  Positions     *)
(* count from 0.                                                           *)
(***************************************************************************)
EXTENDS Integers, Sequences, FiniteSetsExt

CONSTANTS
    Size,        \* INPUT_BUFFER_SIZE
    Columns,     \* columns of the terminal
    Margin,      \* WIDTH
    LeastZone,   \* the least length of a zone
    PromptLens,  \* lengths the prompt may expand to
    MaxPrompts,  \* bound: changes of what the prompt expands to
    MaxCut,      \* bound: characters a key cuts
    FullInserts  \* are characters inserted into a line that is full?

Zone == Max({Columns - 2 * Margin, LeastZone})

\* A prompt that fills a zone, and a terminal with less room than the least
\* zone, are shown wrong.
ASSUME InputLineAssumption ==
    /\ Size \in Nat \ {0} /\ Columns \in Nat /\ Margin \in Nat \ {0, 1} /\ MaxCut \in Nat
    /\ MaxPrompts \in Nat /\ FullInserts \in BOOLEAN
    /\ Columns >= 2 * Margin + LeastZone
    /\ PromptLens \subseteq 1 .. Zone - 1

Chars == {"x", "_"}
Cells == Chars \cup {"p", " "}

VARIABLES
    buffer,      \* input_buffer
    buffer_pos,  \* where the cursor is in it
    cut_buffer,  \* what was cut last
    insert_mode, \* /set INSERT_MODE
    can,         \* does the terminal delete and insert characters? (termfeatures)
    expands,     \* the length of what the prompt expands to now
    prompts,     \* how often that changed
    screen       \* the row of the terminal with its cursor; the length of the prompt
                 \* as drawn; where the zone starts

inputVars == <<buffer, buffer_pos, cut_buffer, insert_mode, can, expands, prompts, screen>>

InputLineTypeOK ==
    /\ buffer \in Seq(Chars) /\ Len(buffer) <= Size /\ buffer_pos \in 0 .. Len(buffer)
    /\ cut_buffer \in Seq(Chars) /\ Len(cut_buffer) <= MaxCut
    /\ insert_mode \in BOOLEAN /\ can \in BOOLEAN
    /\ expands \in PromptLens /\ prompts \in 0 .. MaxPrompts
    /\ screen \in [row : [1 .. Columns -> Cells], col : 0 .. Columns,
                   prompt_len : PromptLens, start_zone : Nat]

----------------------------------------------------------------------------
(* The terminal *)

MoveCursor(t, n) == [t EXCEPT !.col = n]
CursorRight(t) == [t EXCEPT !.col = Min({@ + 1, Columns})]
CursorLeft(t) == [t EXCEPT !.col = Max({@ - 1, 0})]

Puts(t, s) ==
    [t EXCEPT !.row = [k \in 1 .. Columns |->
                         IF k - t.col \in DOMAIN s THEN s[k - t.col] ELSE @[k]],
              !.col = Min({@ + Len(s), Columns})]

Clear(t) == [t EXCEPT !.row = [k \in 1 .. Columns |-> IF k > t.col THEN " " ELSE @[k]]]

DeleteCell(t) ==
    [t EXCEPT !.row = [k \in 1 .. Columns |->
        IF k <= t.col THEN @[k] ELSE IF k = Columns THEN " " ELSE @[k + 1]]]

InsertCell(t, c) ==
    Puts([t EXCEPT !.row = [k \in 1 .. Columns |-> IF k <= t.col + 1 THEN @[k] ELSE @[k - 1]]],
         <<c>>)

----------------------------------------------------------------------------
(* update_input() *)

FirstChars(s, n) == SubSeq(s, 1, Min({n, Len(s)}))
From(b, p) == SubSeq(b, p + 1, Len(b))
PromptCells(n) == [k \in 1 .. n |-> "p"]

\* INPUT_ONSCREEN, the first character of the buffer that is shown
Onscreen(t) == IF t.start_zone = Margin THEN 0 ELSE t.start_zone - Margin - t.prompt_len

\* INPUT_CURSOR
Cursor(t, p) == IF Onscreen(t) = 0 THEN t.prompt_len + p ELSE p - Onscreen(t)

StartZone(n, p) == IF n + p < Margin THEN Margin
                   ELSE ((n + p - Margin) \div Zone) * Zone + Margin

\* UPDATE_ALL
DrawAll(t, b) ==
    Clear(Puts(MoveCursor(t, 0),
               IF Onscreen(t) = 0
                 THEN PromptCells(t.prompt_len) \o FirstChars(b, Columns - t.prompt_len)
                 ELSE FirstChars(From(b, Onscreen(t)), Columns)))

\* UPDATE_FROM_CURSOR
DrawFromCursor(t, b, p) ==
    LET room == Columns - (p - Onscreen(t)) - IF Onscreen(t) = 0 THEN t.prompt_len ELSE 0
    IN Clear(Puts(MoveCursor(t, Cursor(t, p)), FirstChars(From(b, p), room)))

\* Mutant: a new zone is taken, but not drawn.
UpdateInZone(t, b, p, level) ==
    LET n == IF level = "NO_UPDATE" THEN t.prompt_len ELSE expands
        z == [t EXCEPT !.prompt_len = n, !.start_zone = StartZone(n, p)]
    IN MoveCursor(IF n # t.prompt_len \/ level = "ALL" THEN DrawAll(z, b)
            ELSE IF level = "FROM_CURSOR" THEN DrawFromCursor(z, b, p) ELSE z, Cursor(z, p))

\* The prompt is not looked at when there is nothing to update.
update_input(t, b, p, level) ==
    LET n == IF level = "NO_UPDATE" THEN t.prompt_len ELSE expands
        z == [t EXCEPT !.prompt_len = n, !.start_zone = StartZone(n, p)]
        all == n # t.prompt_len \/ z.start_zone # t.start_zone \/ level = "ALL"
    IN MoveCursor(IF all THEN DrawAll(z, b)
            ELSE IF level = "FROM_CURSOR" THEN DrawFromCursor(z, b, p) ELSE z, Cursor(z, p))

\* A key leaves the buffer b with the cursor at p, and t on the terminal.
Edit(b, p, t, level) ==
    /\ buffer' = b /\ buffer_pos' = p /\ screen' = update_input(t, b, p, level)
    /\ UNCHANGED <<insert_mode, can, expands, prompts>>

CutOff(s) == Len(s) <= MaxCut /\ cut_buffer' = s

InputLineInit ==
    /\ buffer = <<>> /\ buffer_pos = 0 /\ cut_buffer = <<>> /\ prompts = 0
    /\ insert_mode = TRUE /\ can \in BOOLEAN /\ expands = Min(PromptLens)
    /\ screen = LET t == [row |-> [k \in 1 .. Columns |-> " "], col |-> 0,
                          prompt_len |-> expands, start_zone |-> Margin]
                IN MoveCursor(DrawAll(t, <<>>), expands)

----------------------------------------------------------------------------
(* The keys *)

Ahead == SubSeq(buffer, 1, buffer_pos)
Behind == From(buffer, buffer_pos)
AtEnd == buffer_pos = Len(buffer)

forward_character ==
    /\ ~ AtEnd /\ Edit(buffer, buffer_pos + 1, CursorRight(screen), "NO_UPDATE")
    /\ UNCHANGED cut_buffer

backward_character ==
    /\ buffer_pos > 0 /\ Edit(buffer, buffer_pos - 1, CursorLeft(screen), "NO_UPDATE")
    /\ UNCHANGED cut_buffer

\* Where the words around a position begin and end: separators are skipped first.
WordEnd(p) ==
    LET skipped == Min({i \in p .. Len(buffer) : i = Len(buffer) \/ buffer[i + 1] # "_"})
    IN Min({i \in skipped .. Len(buffer) : i = Len(buffer) \/ buffer[i + 1] = "_"})

WordStart(p) ==
    LET skipped == Max({i \in 0 .. p : i = 0 \/ buffer[i] # "_"})
    IN Max({i \in 0 .. skipped : i = 0 \/ buffer[i] = "_"})

MoveTo(p) == Edit(buffer, p, screen, "JUST_CURSOR") /\ UNCHANGED cut_buffer

input_forward_word == MoveTo(WordEnd(buffer_pos))
input_backward_word == MoveTo(WordStart(buffer_pos))
input_beginning_of_line == MoveTo(0)
input_end_of_line == MoveTo(Len(buffer))

\* A character comes in at the end of the row, where the others moved left.
Refill(t, b) ==
    LET p == Onscreen(t) + Columns - 1 - IF Onscreen(t) = 0 THEN t.prompt_len ELSE 0
    IN IF p < Len(b) THEN Puts(MoveCursor(t, Columns - 1), <<b[p + 1]>>) ELSE t

input_delete_character ==
    LET b == Ahead \o Tail(Behind) IN
    /\ ~ AtEnd
    /\ IF ~ can THEN Edit(b, buffer_pos, screen, "FROM_CURSOR")
       ELSE Edit(b, buffer_pos, Refill(DeleteCell(screen), b), "NO_UPDATE")
    /\ UNCHANGED cut_buffer

input_backspace ==
    LET p == buffer_pos - 1
        b == SubSeq(buffer, 1, p) \o Behind
        t == CursorLeft(screen)
    IN
    /\ buffer_pos > 0
    /\ IF AtEnd THEN Edit(b, p, CursorLeft(Puts(t, <<" ">>)), "NO_UPDATE")
       ELSE IF ~ can THEN Edit(b, p, t, "FROM_CURSOR")
       ELSE Edit(b, p, Refill(DeleteCell(t), b), "JUST_CURSOR")
    /\ UNCHANGED cut_buffer

\* Nothing is deleted when the cursor is on a space.
input_delete_to_previous_space ==
    LET p == Max({i \in 0 .. buffer_pos : i = 0 \/ buffer[i] = "_"}) IN
    /\ IF ~ AtEnd /\ Head(Behind) = "_" THEN Edit(buffer, buffer_pos, screen, "FROM_CURSOR")
       ELSE Edit(SubSeq(buffer, 1, p) \o Behind, p, screen, "FROM_CURSOR")
    /\ UNCHANGED cut_buffer

input_delete_previous_word ==
    LET p == WordStart(buffer_pos) IN
    /\ CutOff(From(Ahead, p))
    /\ Edit(SubSeq(buffer, 1, p) \o Behind, p, screen, "FROM_CURSOR")

input_delete_next_word ==
    LET p == WordEnd(buffer_pos) IN
    /\ CutOff(FirstChars(Behind, p - buffer_pos))
    /\ Edit(Ahead \o From(buffer, p), buffer_pos, screen, "FROM_CURSOR")

\* A full line takes no character at its end; in the middle it loses its last.
input_add_character(c) ==
    LET b == FirstChars(Ahead \o <<c>> \o (IF insert_mode THEN Behind ELSE From(Behind, 1)),
                        Size)
        p == buffer_pos + 1
        t == Puts(screen, <<c>>)
    IN
    /\ buffer_pos < Size /\ (insert_mode /\ ~ AtEnd => FullInserts \/ Len(buffer) < Size)
    /\ IF insert_mode /\ ~ AtEnd
         THEN IF can THEN Edit(b, p, InsertCell(screen, c), "NO_UPDATE")
              ELSE Edit(b, p, t, IF p < Len(b) THEN "FROM_CURSOR" ELSE "NO_UPDATE")
         ELSE Edit(b, p, t, "NO_UPDATE")
    /\ UNCHANGED cut_buffer

input_clear_to_eol ==
    /\ CutOff(Behind)
    /\ Edit(Ahead, buffer_pos, Clear(screen), "NO_UPDATE")

input_clear_to_bol ==
    /\ CutOff(Ahead)
    /\ Edit(Behind, 0, Clear(MoveCursor(screen, screen.prompt_len)), "FROM_CURSOR")

input_clear_line ==
    /\ CutOff(buffer)
    /\ Edit(<<>>, 0, Clear(MoveCursor(screen, screen.prompt_len)), "NO_UPDATE")

\* At the end of the line the last two are exchanged, if there are three.
input_transpose_characters ==
    LET i == IF AtEnd THEN buffer_pos ELSE buffer_pos + 1   \* the later of the two
        b == [buffer EXCEPT ![i] = buffer[i - 1], ![i - 1] = buffer[i]]
        left == IF AtEnd THEN CursorLeft(CursorLeft(screen)) ELSE CursorLeft(screen)
        t == Puts(left, <<buffer[i], buffer[i - 1]>>)
    IN
    /\ buffer_pos > 0 /\ (AtEnd => Len(buffer) > 2)
    /\ Edit(b, buffer_pos, IF AtEnd THEN t ELSE CursorLeft(t), "NO_UPDATE")
    /\ UNCHANGED cut_buffer

\* Mutant: there is always room.
YankedWhole == Ahead \o cut_buffer \o Behind

\* What is cut comes in at the cursor, as far as there is room.
Yanked == FirstChars(FirstChars(Ahead \o cut_buffer, Size) \o Behind, Size)

\* The line is drawn before the cursor moves behind what came in, and after.
input_yank_cut_buffer ==
    LET b == Yanked
        p == Min({buffer_pos + Len(cut_buffer), Size})
        t == update_input(screen, b, buffer_pos, "FROM_CURSOR")
    IN Edit(b, p, t, "JUST_CURSOR") /\ UNCHANGED cut_buffer

refresh_inputline == Edit(buffer, buffer_pos, screen, "ALL") /\ UNCHANGED cut_buffer

\* get_history() and others put a line there.
set_input(s) == Edit(s, Len(s), screen, "ALL") /\ UNCHANGED cut_buffer

LineSent == Edit(<<>>, 0, screen, "ALL") /\ UNCHANGED cut_buffer

toggle_insert_mode ==
    /\ insert_mode' = ~ insert_mode
    /\ UNCHANGED <<buffer, buffer_pos, cut_buffer, can, expands, prompts, screen>>

\* What is in the prompt has changed: it is expanded when the line is drawn next.
PromptChanges(n) ==
    /\ prompts < MaxPrompts /\ n # expands
    /\ expands' = n /\ prompts' = prompts + 1
    /\ UNCHANGED <<buffer, buffer_pos, cut_buffer, insert_mode, can, screen>>

InputLineNext ==
    \/ forward_character \/ backward_character
    \/ input_forward_word \/ input_backward_word
    \/ input_beginning_of_line \/ input_end_of_line
    \/ input_delete_character \/ input_backspace \/ input_delete_to_previous_space
    \/ input_delete_previous_word \/ input_delete_next_word
    \/ input_clear_to_eol \/ input_clear_to_bol \/ input_clear_line
    \/ input_transpose_characters \/ input_yank_cut_buffer
    \/ refresh_inputline \/ LineSent \/ toggle_insert_mode
    \/ \E c \in Chars : input_add_character(c)
    \/ set_input([k \in 1 .. Size |-> "x"])
    \/ \E n \in PromptLens : PromptChanges(n)

InputLineSpec == InputLineInit /\ [][InputLineNext]_inputVars

----------------------------------------------------------------------------
(* Property *)

\* What the row should show: the prompt and the line in its first zone, and in
\* another the line from a little before that zone.
OnScreen ==
    LET line == IF Onscreen(screen) = 0 THEN PromptCells(screen.prompt_len) \o buffer
                ELSE From(buffer, Onscreen(screen))
    IN [k \in 1 .. Columns |-> IF k <= Len(line) THEN line[k] ELSE " "]

\* After every key the terminal shows the line as it is, with its cursor where
\* the next character will go, and some room on both sides of it.
LineShown ==
    /\ screen.row = OnScreen
    /\ screen.col = Cursor(screen, buffer_pos)
    /\ screen.col <= Columns - Margin
    /\ screen.col >= Margin \/ screen.start_zone = Margin
=============================================================================
