-------------------------------- MODULE Display --------------------------------
(***************************************************************************)
(* What a window shows: its list of lines, scrolled back and held            *)
(* (window.c:4272-4645), and the rows of the terminal that it draws line by   *)
(* line (screen.c).  Lines are numbered in the order they are written; the     *)
(* entry behind the last, display_ip, has no text yet.                        *)
(***************************************************************************)
EXTENDS Integers, Sequences, FiniteSets

LOCAL INSTANCE FiniteSetsExt

CONSTANTS
    MaxLines,     \* bound: lines written
    BufferMax,    \* display_buffer_max: the lines that are kept
    DisplaySizes, \* the sizes that the window can have
    ScrollLines,  \* /set SCROLL_LINES
    Ratios,       \* /set SCROLLBACK_RATIO
    Careless      \* what is done even while lines are held or scrolled back: subset of
                  \* {"clear", "resize", "clear scrollback"}; "unclear": when the list is
                  \* empty; "write": when a line would be held that the window has room for

ASSUME DisplayAssumption ==
    /\ MaxLines \in Nat /\ BufferMax \in Nat /\ ScrollLines \in Nat \ {0}
    /\ DisplaySizes \subseteq Nat \ {0} /\ Ratios \subseteq Nat

VARIABLES
    scrollback,  \* top_of_scrollback, top_of_display, display_ip, scrollback_point
              \* (0: none), ceiling_of_display (0: its entry waits to be used again)
    view,     \* cursor, distance_from_display, lines_scrolled_back, display_size, visible
    hold,     \* hold_mode, holding_something, lines_held, held_displayed
    rows,     \* the line on each row of the terminal, 0 for none
    seen,     \* the lines that were in the window or need not be
    lost      \* the program has panicked, or followed a pointer to nowhere

displayVars == <<scrollback, view, hold, rows, seen, lost>>

Rows == 1 .. view.size
Fits(n) == Min({n, view.size})

\* The rows of a window of size s whose list is l
Drawn(l, s) == [r \in 1 .. s |-> IF l.top + r - 1 < l.ip THEN l.top + r - 1 ELSE 0]

----------------------------------------------------------------------------
(* Drawing *)

\* repaint_window() of the whole window, with recalculate_window_cursor()
Repainted(l, v) ==
    /\ scrollback' = l
    /\ view' = [v EXCEPT !.distance = l.ip - l.top, !.cursor = Min({l.ip - l.top, v.size})]
    /\ rows' = IF v.visible THEN Drawn(l, v.size) ELSE rows
    /\ seen' = seen \cup (l.top .. Min({l.ip, l.top + v.size}) - 1)

\* scroll_window() and rite(): a line is drawn where the cursor is, below the
\* others, which move up when the cursor has left the window.
ScrollsBy(v) == IF v.cursor = v.size THEN ScrollLines ELSE 0
rite(l, v) ==
    LET by == ScrollsBy(v)
        row == v.cursor - by
    IN  IF by > 0 /\ (hold.holding \/ l.point # 0 \/ l.top + by > l.ip)
        THEN lost' = TRUE /\ scrollback' = l /\ UNCHANGED <<view, rows, seen>>
        ELSE /\ scrollback' = [l EXCEPT !.top = @ + by]
             /\ view' = [v EXCEPT !.distance = @ - by, !.cursor = row + 1]
             /\ rows' = IF ~ v.visible THEN rows
                        ELSE [r \in Rows |-> IF r = row + 1 THEN l.ip - 1
                                             ELSE IF r + by \in Rows THEN rows[r + by] ELSE 0]
             /\ seen' = IF row + 1 \in Rows THEN seen \cup {l.ip - 1} ELSE seen
             /\ UNCHANGED lost

----------------------------------------------------------------------------
(* add_to_display_list() *)

Grown ==
    [scrollback EXCEPT !.ip = @ + 1, !.ceiling = IF @ = 0 THEN scrollback.ip + 1 ELSE @]

\* unhold_a_window() finds that what was held is in the window.
NotHeld == hold.holding /\ view.distance < view.size

\* held_displayed is counted only when the first condition does not hold.
Holds ==
    \/ view.distance + 1 > view.size /\ scrollback.point # 0
    \/ hold.mode /\ hold.displayed + 1 > view.size
    \/ hold.holding /\ hold.lines > 0
Counts == ~ (view.distance + 1 > view.size /\ scrollback.point # 0) /\ hold.mode

\* The oldest lines go; an entry is used again for the next line.
Snipped(l) ==
    LET first == Max({l.first, l.ip - BufferMax + 1})
    IN  [l EXCEPT !.first = first, !.ceiling = IF @ \in l.first .. first - 1 THEN 0 ELSE @]

add_to_display_list ==
    IF Holds
    THEN /\ scrollback' = Grown
         /\ view' = [view EXCEPT !.distance = @ + 1]
         /\ hold' = [hold EXCEPT !.holding = TRUE, !.lines = @ + 1,
                                 !.displayed = IF Counts THEN @ + 1 ELSE @]
         /\ UNCHANGED <<rows, seen, lost>>
    ELSE /\ hold' = [hold EXCEPT !.displayed = IF Counts THEN @ + 1 ELSE @]
         /\ rite(Snipped(Grown), [view EXCEPT !.distance = @ + 1])

\* One row of what add_to_window() writes
add_to_window ==
    /\ scrollback.ip <= MaxLines
    /\ Holds /\ view.distance < view.size => "write" \in Careless
    /\ add_to_display_list

----------------------------------------------------------------------------
(* Scrolling back and forth *)

\* A page is a part of the window, of no line when it is small.
Page(ratio) == (view.size * Max({10, Min({ratio, 100})})) \div 100

scrollback_backwards_lines(lines) ==
    LET to == Max({scrollback.first, scrollback.top - lines})
    IN  /\ scrollback.top # scrollback.first
        /\ Repainted([scrollback EXCEPT !.top = to, !.point = IF @ = 0 THEN scrollback.top ELSE @],
                     [view EXCEPT !.back = @ + scrollback.top - to])
        /\ UNCHANGED <<hold, lost>>

\* scrollback_end(), with the top where it is
BackEnded(l, v) ==
    Repainted([l EXCEPT !.top = IF v.back > 0 THEN l.point ELSE @, !.point = 0], [v EXCEPT !.back = 0])

\* It stops at the point and nowhere else.
scrollback_forwards_lines(lines) ==
    LET n == IF scrollback.top <= scrollback.point THEN Min({lines, scrollback.point - scrollback.top}) ELSE lines
        l == [scrollback EXCEPT !.top = @ + n]
        v == [view EXCEPT !.back = @ - n]
    IN  /\ scrollback.top # scrollback.ip /\ scrollback.point # 0
        /\ IF l.top > scrollback.ip THEN lost' = TRUE /\ UNCHANGED <<scrollback, view, rows, seen>>
           ELSE UNCHANGED lost /\ IF v.back <= 0 THEN BackEnded(l, v) ELSE Repainted(l, v)
        /\ UNCHANGED hold

scrollback_backwards(ratio) == view.visible /\ scrollback_backwards_lines(Page(ratio))
scrollback_forwards(ratio) == view.visible /\ scrollback_forwards_lines(Page(ratio))

scrollback_end == scrollback.point # 0 /\ BackEnded(scrollback, view) /\ UNCHANGED <<hold, lost>>

scrollback_start ==
    /\ scrollback.ip - scrollback.first + 1 > view.size
    /\ IF scrollback.top < scrollback.first THEN lost' = TRUE /\ UNCHANGED <<scrollback, view, rows, seen>>
       ELSE /\ Repainted([scrollback EXCEPT !.top = scrollback.first, !.point = IF @ = 0 THEN scrollback.top ELSE @],
                         [view EXCEPT !.back = @ + scrollback.top - scrollback.first])
            /\ UNCHANGED lost
    /\ UNCHANGED hold

----------------------------------------------------------------------------
(* Holding *)

\* hold_mode(), off: not while scrolled back
HoldOff(h) == IF scrollback.point # 0 THEN h ELSE [h EXCEPT !.mode = FALSE]
toggle_stop_screen ==
    /\ scrollback.point = 0 /\ hold' = [hold EXCEPT !.mode = ~ @]
    /\ UNCHANGED <<scrollback, view, rows, seen, lost>>
reset_line_cnt(mode) ==
    /\ hold' = [hold EXCEPT !.mode = mode, !.displayed = 0]
    /\ UNCHANGED <<scrollback, view, rows, seen, lost>>

unhold_a_window ==
    LET amount == Min({hold.lines, view.size})
    IN  /\ NotHeld \/ scrollback.point = 0
        /\ IF NotHeld
           THEN hold' = [hold EXCEPT !.holding = FALSE, !.lines = 0] /\ UNCHANGED <<scrollback, view, rows, seen>>
           ELSE /\ hold' = [hold EXCEPT !.lines = @ - amount, !.displayed = 0,
                                        !.holding = @ /\ hold.lines > amount]
                /\ Repainted([scrollback EXCEPT !.top = @ + amount], view)
        /\ UNCHANGED lost

\* What the main loop does once a turn, and again at once while it finds lines held
unhold_windows == ~ hold.mode /\ hold.lines > 0 /\ unhold_a_window

----------------------------------------------------------------------------
(* Clearing, sizes, hiding *)

Free(what) == what \in Careless \/ (scrollback.point = 0 /\ hold.lines = 0)

\* clear_window(); what was held need not be seen.
WindowCleared(h) ==
    /\ scrollback' = [scrollback EXCEPT !.top = scrollback.ip, !.ceiling = scrollback.ip]
    /\ hold' = [h EXCEPT !.displayed = 0]
    /\ view' = [view EXCEPT !.distance = 0, !.cursor = 0]
    /\ rows' = IF view.visible THEN [r \in Rows |-> 0] ELSE rows
    /\ seen' = 1 .. scrollback.ip - 1
    /\ UNCHANGED lost
my_clear(unhold) == Free("clear") /\ WindowCleared(IF unhold THEN HoldOff(hold) ELSE hold)

\* /clear -scrollback: every entry is freed, and the list starts anew.
clear_scrollback ==
    /\ Free("clear scrollback")
    /\ scrollback' = [scrollback EXCEPT !.first = scrollback.ip, !.top = scrollback.ip, !.ceiling = scrollback.ip]
    /\ view' = [view EXCEPT !.cursor = 0, !.distance = 0]
    /\ hold' = [hold EXCEPT !.displayed = 0]
    /\ rows' = IF view.visible THEN [r \in Rows |-> 0] ELSE rows
    /\ seen' = 1 .. scrollback.ip - 1
    /\ UNCHANGED lost

\* unclear_window() goes back by the size of the window, from an entry that has
\* one before it.
unclear ==
    /\ Free("clear") /\ (scrollback.first = scrollback.ip => "unclear" \in Careless)
    /\ LET top == Max({scrollback.first, scrollback.ip - view.size})
       IN  IF scrollback.first = scrollback.ip THEN lost' = TRUE /\ UNCHANGED <<scrollback, view, rows, seen>>
           ELSE Repainted([scrollback EXCEPT !.top = top, !.ceiling = top], view) /\ UNCHANGED lost
    /\ hold' = HoldOff(hold)

\* resize_window_display(): the top goes back by the lines that were won, but
\* not above the ceiling, or forward by those that were lost and not empty.
ResizedTop(old, new) ==
    LET won == new - old
        lines == won + (old - view.distance)
    IN  IF won > 0
        THEN IF scrollback.ceiling \in scrollback.first .. scrollback.top
             THEN Max({scrollback.ceiling, scrollback.top - won}) ELSE Max({1, scrollback.top - won})
        ELSE IF lines < 0 THEN Min({scrollback.ip, scrollback.top - lines}) ELSE scrollback.top

resize(size) ==
    LET v == [view EXCEPT !.size = size]
        top == IF scrollback.point # 0 THEN scrollback.top ELSE ResizedTop(view.size, size)
    IN  /\ size # view.size /\ Free("resize")
        /\ IF top < scrollback.first THEN lost' = TRUE /\ UNCHANGED <<scrollback, view, rows, seen>>
           ELSE /\ scrollback' = [scrollback EXCEPT !.top = top]
                /\ view' = [v EXCEPT !.distance = scrollback.ip - top, !.cursor = Min({scrollback.ip - top, size})]
                /\ rows' = Drawn(scrollback', size)
                /\ seen' = seen \cup (top .. Min({scrollback.ip, top + size}) - 1)
                /\ UNCHANGED lost
        /\ UNCHANGED hold

hide == view.visible /\ view' = [view EXCEPT !.visible = FALSE] /\ UNCHANGED <<scrollback, hold, rows, seen, lost>>
show == ~ view.visible /\ Repainted(scrollback, [view EXCEPT !.visible = TRUE]) /\ UNCHANGED <<hold, lost>>

----------------------------------------------------------------------------
DisplayInit ==
    \E s \in {Min(DisplaySizes)} :
        /\ scrollback = [first |-> 1, top |-> 1, ip |-> 1, point |-> 0, ceiling |-> 1]
        /\ view = [cursor |-> 0, distance |-> 0, back |-> 0, size |-> s, visible |-> TRUE]
        /\ hold = [mode |-> FALSE, holding |-> FALSE, lines |-> 0, displayed |-> 0]
        /\ rows = [r \in 1 .. s |-> 0]
        /\ seen = {} /\ lost = FALSE

DisplayNext ==
    /\ ~ lost
    /\ \/ add_to_window \/ unhold_windows \/ toggle_stop_screen
       \/ scrollback_end \/ scrollback_start
       \/ \E ratio \in Ratios : scrollback_backwards(ratio) \/ scrollback_forwards(ratio)
       \/ \E b \in BOOLEAN : my_clear(b) \/ reset_line_cnt(b)
       \/ clear_scrollback \/ unclear \/ hide \/ show
       \/ \E s \in DisplaySizes : resize(s)

DisplaySpec == DisplayInit /\ [][DisplayNext]_displayVars

----------------------------------------------------------------------------
(* Properties *)

DisplayTypeOK ==
    /\ {scrollback.first, scrollback.top, scrollback.ip, scrollback.point, scrollback.ceiling} \subseteq 0 .. MaxLines + 1
    /\ view.size \in DisplaySizes /\ {view.cursor, view.distance} \subseteq Nat /\ view.back \in Int
    /\ {hold.mode, hold.holding, view.visible, lost} \subseteq BOOLEAN
    /\ {hold.lines, hold.displayed} \subseteq Nat
    /\ DOMAIN rows = Rows /\ seen \subseteq 1 .. MaxLines

\* The list is walked within its ends.
ListWhole ==
    /\ ~ lost /\ scrollback.top \in scrollback.first .. scrollback.ip
    /\ scrollback.point # 0 => scrollback.point \in scrollback.top .. scrollback.ip

\* What was drawn line by line and moved up is the list from the top of the
\* display on, as a repaint would draw it, but for what is held; and the cursor is
\* behind it.
RowsRight ==
    /\ view.distance = scrollback.ip - scrollback.top
    /\ view.cursor = Fits(view.distance) \/ (hold.lines > 0 /\ view.cursor < view.distance)
    /\ view.visible => \A r \in Rows : rows[r] = IF r <= view.cursor THEN scrollback.top + r - 1 ELSE 0

\* Unless lines are held, the last line is in the window; and none leaves it
\* before it was in it.
NoneSkipped ==
    /\ scrollback.point = 0 /\ hold.lines = 0 => view.distance <= view.size
    /\ hold.lines > 0 => hold.holding
    /\ view.visible /\ scrollback.point = 0 => scrollback.first .. scrollback.top - 1 \subseteq seen

DisplaySound == ListWhole /\ RowsRight /\ NoneSkipped
=============================================================================
