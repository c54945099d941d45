-------------------------------- MODULE Timers --------------------------------
(***************************************************************************)
(* The timers of source/timer.c: /timer and the internal callbacks put     *)
(* them on PendingTimers in the order of their times, and ExecuteTimers,   *)
(* once a turn of the main loop, runs those whose time has come.  A timer  *)
(* that runs is off the list, and what it runs may add, update, kill and   *)
(* delete timers itself, and may turn the main loop, which comes back to   *)
(* ExecuteTimers.                                                          *)
(*                                                                         *)
(* Times are counted in ticks, Second of them to a second: rescheduling    *)
(* throws the fraction of a second away and puts the timer's address in    *)
(* its place (timer.c 235-237).                                            *)
(***************************************************************************)
EXTENDS Integers, Sequences, SequencesExt

CONSTANTS
    Second,      \* ticks in a second
    Waits,       \* the waits, in ticks, that are asked for
    Events,      \* how often a timer is asked to run, -1 for ever
    Short,       \* TRUE if waits of less than a second are repeated
    Nested,      \* what a running timer does: a set of operations
    MaxPending,  \* bound: timers that pend at a time
    MaxRef,      \* bound: reference numbers stop there
    MaxTime      \* bound: the clock stops there

Operations == {"add", "kill", "delete_all"}

ASSUME SecondAssumption == Second \in Nat \ {0}
ASSUME WaitsAssumption == Waits \subseteq Nat
ASSUME EventsAssumption == Events \subseteq Nat \cup {-1}
ASSUME ShortAssumption == Short \in BOOLEAN
ASSUME NestedAssumption == Nested \subseteq Operations
ASSUME BoundsAssumption ==
    MaxPending \in Nat /\ MaxRef \in Nat /\ MaxTime \in Nat

VARIABLES
    PendingTimers,   \* a sequence of timers
    current,         \* the timer that runs, in a sequence of at most one
    parsingtimer,    \* ExecuteTimers is under way
    now,             \* the time of day
    now1,            \* when this pass began, 0 between passes
    waiting,         \* a /wait for the server is under way
    spinning,        \* delete_all_timers goes round for ever
    ran              \* history: the time of the last timer this pass ran, or 0

vars == <<PendingTimers, current, parsingtimer, now, now1, waiting, spinning, ran>>

\* The fraction is that of the address; it takes the place of tv_usec.  A
\* timer that counts is never taken to minus one, which means for ever.
TimerList == [ref : 1 .. MaxRef, time : Nat, interval : Nat,
              events : Nat \cup {-1}, fraction : 0 .. Second - 1]

TypeOK ==
    /\ PendingTimers \in Seq(TimerList)
    /\ current \in Seq(TimerList) /\ Len(current) <= 1
    /\ parsingtimer \in BOOLEAN /\ waiting \in BOOLEAN /\ spinning \in BOOLEAN
    /\ now \in 0 .. MaxTime /\ now1 \in 0 .. MaxTime
    /\ ran \in Nat

Init ==
    /\ PendingTimers = <<>> /\ current = <<>>
    /\ parsingtimer = FALSE /\ waiting = FALSE /\ spinning = FALSE
    /\ now = 0 /\ now1 = 0 /\ ran = 0

----------------------------------------------------------------------------
(* The list *)

\* schedule_timer(): a timer goes before the first one with a later time.
IsPlace(list, i, time) ==
    /\ \A j \in 1 .. i - 1 : list[j].time <= time
    /\ i <= Len(list) => list[i].time > time

\* Mutant: a timer goes to the end of the list.
ScheduleLast(list, t) == PendingTimers' = Append(list, t)

Schedule(list, t) ==
    \E i \in 1 .. Len(list) + 1 :
        IsPlace(list, i, t.time) /\ PendingTimers' = InsertAt(list, i, t)

Exists(list, ref) == \E i \in DOMAIN list : list[i].ref = ref

\* The first timer with a reference number.
IsFirst(list, i, ref) ==
    list[i].ref = ref /\ \A j \in 1 .. i - 1 : list[j].ref # ref

\* create_timer_ref() for a caller who does not care: not, as its comment
\* has it, the lowest number unused, but one above the highest.
IsNextRef(list, r) ==
    /\ \A i \in DOMAIN list : list[i].ref < r
    /\ r = 1 \/ \E i \in DOMAIN list : list[i].ref = r - 1

----------------------------------------------------------------------------
(* What commands and callbacks do *)

\* Anything may be done between passes, and some of it by a timer.
May(op) == /\ ~spinning
           /\ parsingtimer => current # <<>> /\ op \in Nested

Repeats(events) == events \notin {0, 1}

\* What the address of a timer may be; it matters only to one that repeats.
Fractions(events) == IF Repeats(events) THEN 0 .. Second - 1 ELSE {0}

Allowed(interval, events) == interval >= Second \/ ~Repeats(events) \/ Short

\* add_timer(), with a reference number or without.  A number in use is
\* refused.
AddTimer ==
    /\ May("add")
    /\ Len(PendingTimers) < MaxPending
    /\ \E r \in 1 .. MaxRef, w \in Waits, e \in Events : \E f \in Fractions(e) :
         /\ ~Exists(PendingTimers, r) \/ IsNextRef(PendingTimers, r)
         /\ Allowed(w, e)
         /\ Schedule(PendingTimers, [ref |-> r, time |-> now + w, interval |-> w,
                                     events |-> e, fraction |-> f])
    /\ UNCHANGED <<current, parsingtimer, now, now1, waiting, spinning, ran>>

\* The rest of add_timer(): a timer takes the place of the one with the same
\* number.  While another timer runs the old one cannot be deleted, its number
\* is still in use when the new one asks for it, and nothing happens.  For
\* ever, as a number of times, means as before.
UpdateTimer ==
    /\ ~spinning /\ ~parsingtimer
    /\ \E i \in DOMAIN PendingTimers, w \in Waits, e \in Events, keepTime \in BOOLEAN :
       \E f \in Fractions(IF e = -1 THEN PendingTimers[i].events ELSE e) :
         LET old  == PendingTimers[i]
             new  == [ref      |-> old.ref,
                      time     |-> IF keepTime THEN old.time ELSE now + w,
                      interval |-> IF keepTime THEN old.interval ELSE w,
                      events   |-> IF e = -1 THEN old.events ELSE e,
                      fraction |-> f]
             rest == RemoveAt(PendingTimers, i)
         IN  /\ IsFirst(PendingTimers, i, old.ref)
             /\ Allowed(new.interval, new.events)
             /\ IF Exists(rest, old.ref) THEN PendingTimers' = rest
                ELSE Schedule(rest, new)
    /\ UNCHANGED <<current, parsingtimer, now, now1, waiting, spinning, ran>>

\* kill_timer(), of the function $timer(), and delete_timer(), of the
\* command, which a running timer may not use.  The running timer itself is
\* not on the list, so neither finds it.
RemoveTimer ==
    /\ May("kill")
    /\ \E i \in DOMAIN PendingTimers :
         /\ IsFirst(PendingTimers, i, PendingTimers[i].ref)
         /\ PendingTimers' = RemoveAt(PendingTimers, i)
    /\ UNCHANGED <<current, parsingtimer, now, now1, waiting, spinning, ran>>

\* delete_all_timers() goes on until the list is empty; while a timer runs
\* delete_timer() takes nothing off it.
DeleteAllTimers ==
    /\ May("delete_all")
    /\ PendingTimers # <<>>
    /\ IF current = <<>> THEN PendingTimers' = <<>> /\ UNCHANGED spinning
       ELSE spinning' = TRUE /\ UNCHANGED PendingTimers
    /\ UNCHANGED <<current, parsingtimer, now, now1, waiting, ran>>

\* /wait, and the server's answer.
Wait ==
    /\ ~spinning /\ waiting' = ~waiting
    /\ UNCHANGED <<PendingTimers, current, parsingtimer, now, now1, spinning, ran>>

Tick ==
    /\ now < MaxTime /\ now' = now + 1
    /\ UNCHANGED <<PendingTimers, current, parsingtimer, now1, waiting, spinning, ran>>

----------------------------------------------------------------------------
(* ExecuteTimers *)

BeginPass ==
    /\ ~waiting /\ ~parsingtimer /\ PendingTimers # <<>>
    /\ parsingtimer' = TRUE /\ now1' = now
    /\ UNCHANGED <<PendingTimers, current, now, waiting, spinning, ran>>

\* The time of the first timer has come.
HasCome == PendingTimers # <<>> /\ PendingTimers[1].time < now1

RunNext ==
    /\ parsingtimer /\ current = <<>> /\ HasCome
    /\ current' = <<PendingTimers[1]>>
    /\ PendingTimers' = Tail(PendingTimers)
    /\ ran' = PendingTimers[1].time
    /\ UNCHANGED <<parsingtimer, now, now1, waiting, spinning>>

\* Mutants: the interval is not added; a timer that runs for ever counts too.
LaterNot(t) == [t EXCEPT !.events = IF t.events = -1 THEN -1 ELSE t.events - 1]

LaterCounts(t) ==
    [t EXCEPT !.time   = ((t.time + t.interval) \div Second) * Second + t.fraction,
              !.events = t.events - 1]

\* The second is that of the new time, the fraction the timer's own.
Later(t) ==
    [t EXCEPT !.time   = ((t.time + t.interval) \div Second) * Second + t.fraction,
              !.events = IF t.events = -1 THEN -1 ELSE t.events - 1]

\* The command or callback returns: a timer that is to run again is put back.
Return ==
    /\ ~spinning
    /\ current # <<>>
    /\ current' = <<>>
    /\ IF Repeats(current[1].events) THEN Schedule(PendingTimers, Later(current[1]))
       ELSE UNCHANGED PendingTimers
    /\ UNCHANGED <<parsingtimer, now, now1, waiting, spinning, ran>>

\* Mutant: parsingtimer stays set.
EndPassBusy ==
    /\ parsingtimer /\ current = <<>> /\ ~HasCome
    /\ UNCHANGED vars

EndPass ==
    /\ parsingtimer /\ current = <<>> /\ ~HasCome
    /\ parsingtimer' = FALSE /\ now1' = 0 /\ ran' = 0
    /\ UNCHANGED <<PendingTimers, current, now, waiting, spinning>>

Pass == BeginPass \/ RunNext \/ Return \/ EndPass

Next == AddTimer \/ UpdateTimer \/ RemoveTimer \/ DeleteAllTimers \/ Wait \/ Tick \/ Pass

Spec == Init /\ [][Next]_vars

\* The main loop comes back to ExecuteTimers, and commands and callbacks
\* return.
FairSpec == Spec /\ WF_vars(BeginPass) /\ WF_vars(RunNext \/ Return \/ EndPass)

----------------------------------------------------------------------------
(* Properties *)

\* TimerTimeout and ExecuteTimers look at the first timer only: no timer
\* behind it is earlier (timer.c 176, 599-603, 626).
Sorted ==
    \A i, j \in DOMAIN PendingTimers :
        i < j => PendingTimers[i].time <= PendingTimers[j].time

\* Timers run in the order of their times: the list is sorted, what a pass has
\* run it does not run again at the same or an earlier time, and what running
\* timers add or put back never comes before what has run.
InOrder ==
    /\ Sorted
    /\ parsingtimer =>
        /\ \A i \in DOMAIN PendingTimers : ran <= PendingTimers[i].time
        /\ current # <<>> => current[1].time = ran

\* Every pass comes to an end: a repeating timer whose time is long past
\* catches up, and a timer added by another waits for the next pass
\* (timer.c 176).  Only a timer that deletes all timers keeps it from that.
PassEnds == parsingtimer ~> (~parsingtimer \/ spinning)

\* A timer whose time has come does not stay at the head of the list, unless
\* the server is waited for again and again, or timers are being deleted for
\* ever.
Overdue(t) == PendingTimers # <<>> /\ PendingTimers[1].time = t /\ t < now

DueRuns ==
    []<>waiting \/ \A t \in 1 .. MaxTime - 1 : Overdue(t) ~> (~Overdue(t) \/ spinning)

\* A reference number tells the timers on the list apart, and one in use is
\* not given to another (teknap-help/5_Programming/timer 12-15).
RefsUnique ==
    \A i, j \in DOMAIN PendingTimers :
        i # j => PendingTimers[i].ref # PendingTimers[j].ref

=============================================================================
