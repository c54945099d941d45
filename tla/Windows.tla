-------------------------------- MODULE Windows --------------------------------
(***************************************************************************)
(* The windows of the screen (window.c): which are shown, from the top     *)
(* down, which are hidden, the last hidden first, how many lines each has, *)
(* which one is current, and the commands of /window that change this.     *)
(* There is one screen.  A window is its refnum.                           *)
(*                                                                         *)
(* An operator takes the state, or layout, and gives the one the function  *)
(* of its name leaves; where the function calls others so does it.         *)
(***************************************************************************)
EXTENDS Integers, Sequences, FiniteSets, SequencesExt

CONSTANTS
    NPanes,      \* bound: the number of windows
    TermLines,   \* the heights the terminal may have
    Offsets,     \* numbers of lines a window grows by
    Styled,      \* bound: the windows whose status lines are changed or that are fixed
    Careful,     \* whether the user shows windows only where there is room
    LeastLines   \* bound: the fewest lines a window is made to have

Panes == 1 .. NPanes

ASSUME WindowsAssumption ==
    /\ NPanes \in Nat \ {0} /\ TermLines \subseteq Nat /\ Offsets \subseteq Int /\ Styled \subseteq Panes
    /\ Careful \in BOOLEAN /\ LeastLines \in Int

VARIABLE layout

\* Of a layout: the two lists; the sizes and flags of the windows; the current
\* window of the screen, current_window and last_window_refnum (0 for none);
\* the window that is being deleted; the height of the terminal; whether
\* recalculate_windows() could not share the lines out; whether the program has
\* stopped in nappanic() or at a window without a screen.
PaneField(S) == [Panes -> S]

WindowsTypeOK ==
    /\ layout.shown \in Seq(Panes) /\ layout.hidden \in Seq(Panes)
    /\ layout.size \in PaneField(Int)
    /\ layout.double \in PaneField({0, 1}) /\ layout.split \in PaneField({0, 1})
    /\ layout.fixed \in PaneField(BOOLEAN)
    /\ layout.screen \in Panes /\ layout.current \in Panes
    /\ layout.last \in {0} \cup Panes /\ layout.dying \in {0} \cup Panes
    /\ layout.lines \in TermLines /\ layout.uneven \in BOOLEAN /\ layout.broken \in BOOLEAN

Places(q) == {q[i] : i \in DOMAIN q}
Shown(y, w) == w \in Places(y.shown)
Hidden(y, w) == w \in Places(y.hidden)
Broken(y) == [y EXCEPT !.broken = TRUE]

\* C division, towards zero
Quotient(a, b) == IF a >= 0 THEN a \div b ELSE - ((- a) \div b)

Without(q, w) == SelectSeq(q, LAMBDA v : v # w)
Index(q, w) == CHOOSE i \in DOMAIN q : q[i] = w

\* The sum of f over a list of windows
Total(q, f(_)) == FoldLeft(LAMBDA n, w : n + f(w), 0, q)

----------------------------------------------------------------------------
(* Sizes *)

\* Lines a window takes: itself, split status lines, the status line, and a
\* second one.
Height(y, w) == y.size[w] + y.split[w] + 1 + y.double[w]

\* The windows whose lines are shared out: all that are not fixed, and the
\* last one if no other is left.
Resized(y) ==
    {w \in Places(y.shown) :
        \/ ~ y.fixed[w]
        \/ w = Last(y.shown) /\ \A v \in Places(y.shown) : y.fixed[v]}

\* Mutant: the second status line is not counted.
NeededSingle(y) == 1 + Total(y.shown, LAMBDA w : y.size[w] + 1)

Needed(y) == 1 + Total(y.shown, LAMBDA w : y.size[w] + y.double[w] + 1)

\* recalculate_windows(): each window gets its share of the lines in excess,
\* in proportion to its size, and the last one what is left of them.
ShareOut(y, resized, x, w) ==
    LET offset == IF w # Last(y.shown) /\ resized # 0
                    THEN Quotient(y.size[w] * x.excess, resized) ELSE x.excess
    IN [excess |-> x.excess - offset,
        size |-> [x.size EXCEPT ![w] = IF @ + offset < 0 THEN 1 ELSE @ + offset],
        uneven |-> x.uneven \/ y.size[w] + offset < 0]

SharedOut(y, resized) ==
    FoldLeft(LAMBDA x, w : IF y.fixed[w] /\ w # Last(y.shown) THEN x
                           ELSE ShareOut(y, Total(resized, LAMBDA v : y.size[v]), x, w),
             [excess |-> y.lines - Needed(y) - Total(resized, LAMBDA v : y.split[v]),
              size |-> y.size,
              uneven |-> \E w \in Places(y.shown) \ Places(resized) : y.split[w] = 1],
             y.shown)

Settle(y, x) == [y EXCEPT !.size = x.size, !.uneven = x.uneven]

RecalculateWindows(y) ==
    Settle(y, SharedOut(y, SelectSeq(y.shown, LAMBDA w : w \in Resized(y))))

\* rebalance_windows()
RebalanceWindows(y) ==
    LET movable == SelectSeq(y.shown, LAMBDA w : ~ y.fixed[w])
        n == Len(movable)
        sum == Total(movable, LAMBDA w : y.size[w])
    IN IF n = 0 THEN y
       ELSE [y EXCEPT !.size = [w \in Panes |->
              IF w \in Places(movable)
                THEN sum \div n + (IF Index(movable, w) <= sum % n THEN 1 ELSE 0)
                ELSE y.size[w]]]

\* The first window below, and then from the top, that has the lines.
\* Fixed windows are taken too: in the C code the test for them continues with
\* the condition of the loop.
Donors(y, w, offset) ==
    LET i == Index(y.shown, w)
        others == SubSeq(y.shown, i + 1, Len(y.shown)) \o SubSeq(y.shown, 1, i - 1)
    IN SelectSeq(others, LAMBDA v : y.size[v] >= offset)

Recalculated(y, two) ==
    IF \E w \in two : y.size[w] < 0 THEN y ELSE RecalculateWindows(y)

\* resize_window(): when there is not enough room the sizes stay as computed.
Take(y, w, donors, offset) ==
    IF donors = <<>> THEN y
    ELSE Recalculated([y EXCEPT !.size[w] = @ + offset, !.size[Head(donors)] = @ - offset],
                      {w, Head(donors)})

ResizeWindow(y, w, offset) ==
    IF Shown(y, w) THEN Take(y, w, Donors(y, w, offset), offset) ELSE y

----------------------------------------------------------------------------
(* The current window and the lists *)

\* make_window_current(); 0 stands for NULL, the current window of the screen.
CurrentTo(y, w) == [y EXCEPT !.current = w, !.broken = @ \/ w = y.dying]

MakeWindowCurrent(y, w) == CurrentTo(y, IF w = 0 THEN y.screen ELSE w)

\* get_window_by_refnum() of last_window_refnum; of 0 it is the current window.
LastWindow(y) == IF y.last = 0 THEN y.current ELSE y.last

ScreenTo(y, w) ==
    IF w = y.dying \/ ~ Shown(y, w) THEN Broken(y)
    ELSE CurrentTo([y EXCEPT !.last = IF y.screen = w THEN @ ELSE y.screen, !.screen = w], w)

FirstOrLast(y, w) == IF Shown(y, w) THEN w ELSE Head(y.shown)

SetScreensCurrentWindow(y, w) ==
    ScreenTo(y, IF w # 0 THEN w ELSE FirstOrLast(y, LastWindow(y)))

\* The size of a hidden window is not looked at before it is set again: 0 here.
AddToInvisibleList(y, w) == [y EXCEPT !.hidden = <<w>> \o @, !.size[w] = 0]

\* remove_window_from_screen() of one of several
OtherScreen(y, w) == IF y.screen = w THEN SetScreensCurrentWindow(y, 0) ELSE y
OtherLast(y, w) == IF y.last = w THEN [y EXCEPT !.last = y.screen] ELSE y

RemoveWindowFromScreen(y, w) ==
    RecalculateWindows(MakeWindowCurrent(
        OtherLast(OtherScreen([y EXCEPT !.shown = Without(@, w)], w), w), 0))

\* The window add_to_window_list() splits: the current one of the screen, or
\* the first of the largest if it has too few lines; 0 when all are fixed.
Movable(y) == SelectSeq(y.shown, LAMBDA w : ~ y.fixed[w] /\ y.size[w] > 0)
Larger(y, v, w) == IF v = 0 \/ y.size[w] > y.size[v] THEN w ELSE v

Biggest(y) ==
    IF y.size[y.screen] >= 4 THEN y.screen
    ELSE FoldLeft(LAMBDA v, w : Larger(y, v, w), 0, Movable(y))

Halved(y, big, w) ==
    [y EXCEPT !.shown = InsertAt(@, Index(@, big), w),
              !.size = [@ EXCEPT ![big] = Quotient(@, 2), ![w] = Quotient(y.size[big], 2)]]

AddToWindowList(y, w) == RecalculateWindows(Halved(y, Biggest(y), w))

Exchange(y, v, w) ==
    [y EXCEPT !.last = v, !.hidden = Without(@, w),
              !.size[w] = y.size[v] + y.double[v] - y.double[w],
              !.screen = IF @ = v THEN w ELSE @,
              !.shown = [i \in DOMAIN @ |-> IF @[i] = v THEN w ELSE @[i]]]
KeepHidden(y, w) == IF w = y.dying THEN y ELSE AddToInvisibleList(y, w)
FollowSwap(y, v, w) == IF y.current = v THEN MakeWindowCurrent(y, w) ELSE y

\* swap_window(), which does nothing unless v is shown and w hidden
SwapWindow(y, v, w) ==
    IF w = 0 \/ ~ Shown(y, v) \/ ~ Hidden(y, w) THEN y
    ELSE RecalculateWindows(SetScreensCurrentWindow(
            FollowSwap(KeepHidden(Exchange(y, v, w), v), v, w), w))

HideWindow(y, w) ==
    IF ~ Shown(y, w) \/ Len(y.shown) = 1 THEN y
    ELSE AddToInvisibleList(RemoveWindowFromScreen(y, w), w)

PlaceIfRoom(y, w) ==
    IF Biggest(y) = 0 THEN AddToInvisibleList(y, w) ELSE AddToWindowList(y, w)

\* show_window(): w goes to the screen of the current window, which for a hidden
\* one is none.  Without room it is hidden again, and then made the screen's.
ShowWindow(y, w) ==
    IF Shown(y, w) THEN SetScreensCurrentWindow(MakeWindowCurrent(y, w), w)
    ELSE IF w # y.current /\ ~ Shown(y, y.current) THEN Broken(y)
    ELSE SetScreensCurrentWindow(MakeWindowCurrent(
            PlaceIfRoom([y EXCEPT !.hidden = Without(@, w)], w), w), w)

\* new_window(), on the screen of window v or hidden
PlainWindow(y, n, w) == [y EXCEPT !.size[w] = n, !.double[w] = 0, !.split[w] = 0, !.fixed[w] = FALSE]

UnusedPane(y) == CHOOSE w \in Panes : /\ ~ Shown(y, w) /\ ~ Hidden(y, w)
                                  /\ \A v \in 1 .. w - 1 : Shown(y, v) \/ Hidden(y, v)

PlaceNew(y, v, w) ==
    IF v = 0 \/ ~ Shown(y, v) THEN MakeWindowCurrent(AddToInvisibleList(PlainWindow(y, 1, w), w), w)
    ELSE IF Biggest(y) = 0 THEN y
    ELSE SetScreensCurrentWindow(AddToWindowList(PlainWindow(y, 1, w), w), w)

NewWindow(y, v) == PlaceNew(y, v, UnusedPane(y))

TakeOff(y, w) ==
    IF Hidden(y, w) THEN [y EXCEPT !.hidden = Without(@, w)]
    ELSE IF Len(y.shown) > 1 THEN RemoveWindowFromScreen(y, w)
    ELSE SwapWindow(y, w, Head(y.hidden))

OtherCurrent(y, w) ==
    IF y.current # w THEN y
    ELSE MakeWindowCurrent(y, IF y.screen = w THEN Head(y.shown) ELSE 0)

ForgetWindow(y, w) == [PlainWindow(y, 0, w) EXCEPT !.dying = 0, !.broken = @ \/ y.current = w]

\* delete_window(), which the last window is safe from
DeleteWindow(y, w) ==
    IF Shown(y, w) /\ Len(y.shown) = 1 /\ y.hidden = <<>> THEN y
    ELSE ForgetWindow(OtherCurrent(TakeOff([y EXCEPT !.dying = w], w), w), w)

\* move_window(): offset places on, from the end to the start
MoveWindow(y, w, offset) ==
    LET at == (Index(y.shown, w) - 1 + offset) % Len(y.shown)
    IN IF offset = 0 \/ ~ Shown(y, w) THEN y
       ELSE [y EXCEPT !.shown = InsertAt(Without(@, w), at + 1, w)]

----------------------------------------------------------------------------
(* Commands.  /window works on the current window, or on one it is told. *)

WindowsInit ==
    \E n \in TermLines :
       layout = [shown |-> <<1>>, hidden |-> <<>>,
                 size |-> [w \in Panes |-> IF w = 1 THEN n - 2 ELSE 0], double |-> [w \in Panes |-> 0],
                 split |-> [w \in Panes |-> 0], fixed |-> [w \in Panes |-> FALSE],
                 screen |-> 1, current |-> 1, last |-> 0, dying |-> 0,
                 lines |-> n, uneven |-> FALSE, broken |-> FALSE]

Told == Places(layout.shown) \cup Places(layout.hidden)

Becomes(y) == ~ layout.broken /\ layout' = y

\* new, and new_hide, which gives the same as new for a hidden window
New(w) == Told # Panes /\ Becomes(NewWindow(layout, w))

NewHide == Told # Panes /\ Becomes(NewWindow(layout, 0))

\* kill, killswap, kill_others
Kill(w) == Becomes(DeleteWindow(layout, w))

Killswap(w) ==
    /\ layout.hidden # <<>>
    /\ Becomes(DeleteWindow(SwapWindow(layout, w, Head(layout.hidden)), w))

\* The list the window is on
Others(w) == Without(IF Shown(layout, w) THEN layout.shown ELSE layout.hidden, w)

KillOthers(w) == Becomes(FoldLeft(DeleteWindow, layout, Others(w)))

\* hide, hide_others
Hide(w) == Becomes(HideWindow(layout, w))

HideOthers(w) == Becomes(FoldLeft(HideWindow, layout, Others(w)))

\* Another window fits the screen and the current one is on it.
Room(y) == Shown(y, y.current) /\ Biggest(y) # 0

\* show, which looks for the screen of the window v it was given to
Show(v, w) ==
    LET y == ShowWindow(layout, w)
    IN /\ Careful => Room(layout) /\ Shown(layout, v)
       /\ Becomes(IF Shown(y, v) THEN y ELSE Broken(y))

\* show_all
ShowAll ==
    LET step(y, w) == IF Careful /\ ~ Room(y) THEN y ELSE ShowWindow(y, w)
    IN Becomes(FoldLeft(step, layout, layout.hidden))

\* swap, swap last, next and previous: each swaps in some hidden window.
Swap(v, w) == Hidden(layout, w) /\ Becomes(SwapWindow(layout, v, w))

\* last, on the screen of the window
LastOf(w) ==
    /\ Careful => Shown(layout, w)
    /\ Becomes(IF Shown(layout, w) THEN SetScreensCurrentWindow(layout, 0)
                                  ELSE Broken(layout))

\* goto, and the keys for the next and the previous window
Goto(w) ==
    /\ Shown(layout, w)
    /\ Becomes(MakeWindowCurrent(SetScreensCurrentWindow(layout, w), w))

\* back: to the window that was current before, shown or not
Back(v) ==
    LET w == IF LastWindow(layout) \in Told THEN LastWindow(layout) ELSE Head(layout.shown)
    IN Becomes(IF Shown(layout, w)
                 THEN SetScreensCurrentWindow(MakeWindowCurrent(layout, w), w)
                 ELSE SwapWindow(layout, v, w))

Move(w) == \E n \in Offsets : Becomes(MoveWindow(layout, w, n))

\* grow, shrink, size.  The bounds: no window is shrunk to less than LeastLines,
\* nor made larger than the terminal, as a fixed one can be again and again.
Grow(w) ==
    \E n \in Offsets :
        LET y == ResizeWindow(layout, w, n)
        IN /\ layout.size[w] + n >= LeastLines
           /\ \A v \in Panes : y.size[v] <= layout.lines
           /\ Becomes(y)

Balance == Becomes(RebalanceWindows(layout))

Sized(w, n) == IF Shown(layout, w) THEN n ELSE 0

\* double: a window has either split status lines or a second one.
Double(w) ==
    /\ layout.split[w] = 0 /\ layout.size[w] > LeastLines
    /\ \E n \in {0, 1} :
         Becomes([layout EXCEPT !.size[w] = Sized(w, @ + layout.double[w] - n), !.double[w] = n])

Split(w) ==
    /\ layout.double[w] = 0 /\ layout.size[w] > LeastLines
    /\ \E n \in {0, 1} :
         LET y == [layout EXCEPT !.size[w] = Sized(w, @ + layout.split[w] - n), !.split[w] = n]
         IN Becomes(IF Shown(layout, w) THEN RecalculateWindows(y) ELSE y)

Fixed(w) == \E b \in BOOLEAN : Becomes([layout EXCEPT !.fixed[w] = b])

\* The terminal changes its size.
ResizeTerm ==
    \E n \in TermLines : Becomes(RecalculateWindows([layout EXCEPT !.lines = n]))

WindowsNext ==
    \/ \E w \in Told : \/ New(w) \/ Kill(w) \/ Killswap(w) \/ KillOthers(w)
                       \/ Hide(w) \/ HideOthers(w) \/ LastOf(w) \/ Goto(w)
                       \/ Back(w) \/ Move(w) \/ Grow(w) 
                       \/ w \in Styled /\ (Double(w) \/ Split(w) \/ Fixed(w))
    \/ \E v, w \in Told : Swap(v, w) \/ Show(v, w)
    \/ NewHide \/ ShowAll \/ Balance \/ ResizeTerm

WindowsSpec == WindowsInit /\ [][WindowsNext]_layout

----------------------------------------------------------------------------
(* Property *)

NotBroken == ~ layout.broken

\* A window is on one of the lists, once, and some window is shown.
Listed ==
    LET all == layout.shown \o layout.hidden
    IN layout.shown # <<>> /\ Len(all) = Cardinality(Places(all))

\* The current window is that of the screen, or a hidden one that was just made.
CurrentShown ==
    /\ Shown(layout, layout.screen)
    /\ layout.current = layout.screen \/ Hidden(layout, layout.current)

\* The windows shown take all lines of the terminal but the input line, unless
\* the last recalculate_windows() made a window of less than no lines one of one
\* line, or did not count the split status lines of a fixed window.
Tiled ==
    \/ Total(layout.shown, LAMBDA w : Height(layout, w)) = layout.lines - 1
    \/ layout.uneven

ScreenSound == NotBroken /\ Listed /\ CurrentShown /\ Tiled
=============================================================================
