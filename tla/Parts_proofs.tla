----------------------------- MODULE Parts_proofs -----------------------------
(***************************************************************************)
(* Six parts of the program that keep a list, a queue or a stream in       *)
(* order, proved for every value of the constants: timers run in the order *)
(* of their times (Timers.InOrder), no request to a worker thread is lost, *)
(* doubled or slept on (Workers.RequestsSound), each byte of a file comes  *)
(* to its place (ByteTransfer.BytesInPlace), a download that ended early   *)
(* can be taken up again (Unfinished.ResumeKept), nobody pulls the list of *)
(* shared files from under do_share() (Sharing.ShareListSound), nor the    *)
(* list of processes from under do_processes() (Exec.ExecSound).           *)
(* Each has an inductive invariant of its own, and lemmas on what its      *)
(* sequences or sets hold after a change.                                  *)
(***************************************************************************)
EXTENDS Timers, Workers, ByteTransfer, Unfinished, Sharing, Exec, Recursion_proofs,
        SequenceTheorems, FiniteSetTheorems, WellFoundedInduction, TLAPS

----------------------------------------------------------------------------
(* Sequences *)

\* What stands before place i of a list.
LEMMA BeforeProperties ==
    ASSUME NEW S, NEW s \in Seq(S), NEW i \in 1 .. Len(s) + 1
    PROVE  /\ SubSeq(s, 1, i - 1) \in Seq(S) /\ Len(SubSeq(s, 1, i - 1)) = i - 1
           /\ \A j \in 1 .. i - 1 : SubSeq(s, 1, i - 1)[j] = s[j]
<1> DEFINE before == SubSeq(s, 1, i - 1)
<1>1. Len(s) \in Nat /\ \A j \in 1 .. Len(s) : s[j] \in S
  BY LenProperties, ElementOfSeq
<1>2. 1 \in Int /\ i - 1 \in Int /\ \A j \in 1 .. i - 1 : s[j] \in S  BY <1>1
<1> HIDE DEF before
<1>3. /\ before \in Seq(S)
      /\ Len(before) = IF 1 <= i - 1 THEN i - 1 - 1 + 1 ELSE 0
      /\ \A j \in 1 .. (i - 1) - 1 + 1 : before[j] = s[1 + j - 1]
  BY <1>2, SubSeqProperties DEF before
<1> QED  BY <1>1, <1>3 DEF before

\* What stands from place i of a list on.
LEMMA BehindProperties ==
    ASSUME NEW S, NEW s \in Seq(S), NEW i \in 1 .. Len(s) + 1
    PROVE  /\ SubSeq(s, i, Len(s)) \in Seq(S) /\ Len(SubSeq(s, i, Len(s))) = Len(s) - i + 1
           /\ \A j \in 1 .. Len(s) - i + 1 : SubSeq(s, i, Len(s))[j] = s[i + j - 1]
<1> DEFINE behind == SubSeq(s, i, Len(s))
<1>1. Len(s) \in Nat /\ \A j \in 1 .. Len(s) : s[j] \in S
  BY LenProperties, ElementOfSeq
<1>2. i \in Int /\ Len(s) \in Int /\ \A j \in i .. Len(s) : s[j] \in S  BY <1>1
<1> HIDE DEF behind
<1>3. /\ behind \in Seq(S)
      /\ Len(behind) = IF i <= Len(s) THEN Len(s) - i + 1 ELSE 0
      /\ \A j \in 1 .. Len(s) - i + 1 : behind[j] = s[i + j - 1]
  BY <1>2, SubSeqProperties DEF behind
<1> QED  BY <1>1, <1>3 DEF behind

\* What is put into a list is there, and the others keep their order.
LEMMA InsertAtProperties ==
    ASSUME NEW S, NEW s \in Seq(S), NEW i \in 1 .. Len(s) + 1, NEW e \in S
    PROVE  /\ InsertAt(s, i, e) \in Seq(S)
           /\ Len(InsertAt(s, i, e)) = Len(s) + 1
           /\ \A j \in 1 .. Len(s) + 1 :
                InsertAt(s, i, e)[j] =
                    IF j < i THEN s[j] ELSE IF j = i THEN e ELSE s[j - 1]
<1> DEFINE before == SubSeq(s, 1, i - 1)
           behind == SubSeq(s, i, Len(s))
           one == <<e>>
           start == before \o one
           all == start \o behind
<1>1. Len(s) \in Nat  BY LenProperties
<1>2. /\ before \in Seq(S) /\ Len(before) = i - 1
      /\ \A j \in 1 .. i - 1 : before[j] = s[j]
  BY BeforeProperties
<1>3. /\ behind \in Seq(S) /\ Len(behind) = Len(s) - i + 1
      /\ \A j \in 1 .. Len(s) - i + 1 : behind[j] = s[i + j - 1]
  BY BehindProperties
<1>4. one \in Seq(S) /\ Len(one) = 1 /\ one[1] = e  OBVIOUS
<1>5. InsertAt(s, i, e) = all  BY DEF InsertAt
<1> HIDE DEF before, behind, one
<1>6. /\ start \in Seq(S) /\ Len(start) = Len(before) + Len(one)
      /\ \A j \in 1 .. Len(before) + Len(one) :
           start[j] = IF j <= Len(before) THEN before[j] ELSE one[j - Len(before)]
  BY <1>2, <1>4, ConcatProperties
<1> HIDE DEF start
<1>7. /\ all \in Seq(S) /\ Len(all) = Len(start) + Len(behind)
      /\ \A j \in 1 .. Len(start) + Len(behind) :
           all[j] = IF j <= Len(start) THEN start[j] ELSE behind[j - Len(start)]
  <2>1. start \in Seq(S) /\ behind \in Seq(S)  BY <1>3, <1>6
  <2> QED  BY <2>1, ConcatProperties
<1> HIDE DEF all
<1>8. Len(start) = i /\ Len(all) = Len(s) + 1  BY <1>1, <1>2, <1>3, <1>4, <1>6, <1>7
<1>9. ASSUME NEW j \in 1 .. Len(s) + 1
      PROVE  all[j] = IF j < i THEN s[j] ELSE IF j = i THEN e ELSE s[j - 1]
  <2>1. all[j] = IF j <= i THEN start[j] ELSE behind[j - i]
    BY <1>1, <1>3, <1>7, <1>8
  <2>2. CASE j < i
    <3>1. j \in 1 .. Len(before) + Len(one) /\ j <= Len(before) /\ j \in 1 .. i - 1
      BY <1>2, <1>4, <2>2
    <3>2. start[j] = before[j] /\ before[j] = s[j]  BY <1>2, <1>6, <3>1
    <3> QED  BY <2>1, <2>2, <3>2
  <2>3. CASE j = i
    <3>1. j \in 1 .. Len(before) + Len(one) /\ ~ (j <= Len(before)) /\ j - Len(before) = 1
      BY <1>2, <1>4, <2>3
    <3>2. start[j] = e  BY <1>4, <1>6, <3>1
    <3> QED  BY <2>1, <2>3, <3>2
  <2>4. CASE j > i
    <3>1. j - i \in 1 .. Len(s) - i + 1 /\ i + (j - i) - 1 = j - 1 /\ ~ (j <= i)
      BY <1>1, <2>4
    <3>2. behind[j - i] = s[j - 1]  BY <1>3, <3>1
    <3> QED  BY <2>1, <2>4, <3>1, <3>2
  <2> QED  BY <1>1, <2>2, <2>3, <2>4
<1> QED  BY <1>5, <1>7, <1>8, <1>9

\* What is taken off a list is not there, and the others keep their order.
LEMMA RemoveAtProperties ==
    ASSUME NEW S, NEW s \in Seq(S), NEW i \in 1 .. Len(s)
    PROVE  /\ RemoveAt(s, i) \in Seq(S)
           /\ Len(RemoveAt(s, i)) = Len(s) - 1
           /\ \A j \in 1 .. Len(s) - 1 :
                RemoveAt(s, i)[j] = IF j < i THEN s[j] ELSE s[j + 1]
<1> DEFINE before == SubSeq(s, 1, i - 1)
           behind == SubSeq(s, i + 1, Len(s))
<1>1. Len(s) \in Nat  BY LenProperties
<1>2. i \in 1 .. Len(s) + 1 /\ i + 1 \in 1 .. Len(s) + 1  BY <1>1
<1>3. /\ before \in Seq(S) /\ Len(before) = i - 1
      /\ \A j \in 1 .. i - 1 : before[j] = s[j]
  BY <1>2, BeforeProperties
<1>4. /\ behind \in Seq(S) /\ Len(behind) = Len(s) - (i + 1) + 1
      /\ \A j \in 1 .. Len(s) - (i + 1) + 1 : behind[j] = s[(i + 1) + j - 1]
  BY <1>2, BehindProperties
<1> HIDE DEF before, behind
<1>5. /\ before \o behind \in Seq(S)
      /\ Len(before \o behind) = Len(before) + Len(behind)
      /\ \A j \in 1 .. Len(before) + Len(behind) :
           (before \o behind)[j] = IF j <= Len(before) THEN before[j] ELSE behind[j - Len(before)]
  BY <1>3, <1>4, ConcatProperties
<1>6. RemoveAt(s, i) = before \o behind
  BY DEF RemoveAt, before, behind
<1>7. ASSUME NEW j \in 1 .. Len(s) - 1
      PROVE  RemoveAt(s, i)[j] = IF j < i THEN s[j] ELSE s[j + 1]
  <2>1. RemoveAt(s, i)[j] = IF j <= i - 1 THEN before[j] ELSE behind[j - (i - 1)]
    <3>1. Len(before) = i - 1 /\ j \in 1 .. Len(before) + Len(behind)  BY <1>1, <1>3, <1>4
    <3>2. (before \o behind)[j] = IF j <= Len(before) THEN before[j]
                                  ELSE behind[j - Len(before)]
      BY <1>5, <3>1, Zenon
    <3> QED  BY <1>6, <3>1, <3>2, Zenon
  <2>2. CASE j < i
    BY <1>1, <1>3, <2>1, <2>2
  <2>3. CASE j >= i
    <3>1. /\ j - (i - 1) \in 1 .. Len(s) - (i + 1) + 1
          /\ (i + 1) + (j - (i - 1)) - 1 = j + 1 /\ ~ (j <= i - 1)
      BY <1>1, <2>3
    <3>2. behind[j - (i - 1)] = s[j + 1]  BY <1>4, <3>1
    <3> QED  BY <1>1, <2>1, <2>3, <3>1, <3>2
  <2> QED  BY <1>1, <2>2, <2>3
<1>8. Len(before \o behind) = Len(s) - 1  BY <1>1, <1>3, <1>4, <1>5
<1> QED  BY <1>5, <1>6, <1>7, <1>8

----------------------------------------------------------------------------
(* Timers *)

Ordered(list) == \A i, j \in DOMAIN list : i < j => list[i].time <= list[j].time

\* A timer that repeats waits a second or more.
Waiting(list) == \A t \in Range(list) : Allowed(t.interval, t.events)

\* What keeps InOrder: what has run is not later than the pass, which began before
\* now, and a timer that runs is off the list.
TimersInv ==
    /\ TypeOK
    /\ Ordered(PendingTimers)
    /\ Waiting(PendingTimers) /\ Waiting(current)
    /\ ran <= now1 /\ now1 <= now
    /\ ~ parsingtimer => ran = 0 /\ current = <<>>
    /\ \A t \in Range(PendingTimers) : ran <= t.time
    /\ current # <<>> => current[1].time = ran

\* schedule_timer() leaves an ordered list, of the same timers and the new one.
LEMMA ScheduleKeeps ==
    ASSUME NEW list \in Seq(TimerList), NEW t \in TimerList, Ordered(list), Schedule(list, t)
    PROVE  /\ PendingTimers' \in Seq(TimerList)
           /\ Ordered(PendingTimers')
           /\ Range(PendingTimers') \subseteq Range(list) \cup {t}
<1>1. PICK i \in 1 .. Len(list) + 1 :
        IsPlace(list, i, t.time) /\ PendingTimers' = InsertAt(list, i, t)
  BY DEF Schedule
<1> DEFINE new == InsertAt(list, i, t)
<1>2. /\ new \in Seq(TimerList) /\ Len(new) = Len(list) + 1
      /\ \A j \in 1 .. Len(list) + 1 :
           new[j] = IF j < i THEN list[j] ELSE IF j = i THEN t ELSE list[j - 1]
  BY InsertAtProperties
<1> HIDE DEF new
<1>3. /\ Len(list) \in Nat /\ DOMAIN list = 1 .. Len(list)
      /\ DOMAIN new = 1 .. Len(list) + 1
      /\ \A j \in 1 .. Len(list) : list[j] \in TimerList
  BY <1>2, LenProperties, ElementOfSeq
<1>4. \A j \in 1 .. Len(list) : list[j].time \in Nat /\ t.time \in Nat
  BY <1>3 DEF TimerList
<1>5. /\ \A j \in 1 .. i - 1 : list[j].time <= t.time
      /\ \A j \in i .. Len(list) : list[j].time > t.time
  <2>1. \A j \in 1 .. i - 1 : list[j].time <= t.time  BY <1>1 DEF IsPlace
  <2>2. ASSUME NEW j \in i .. Len(list) PROVE list[j].time > t.time
    <3>1. list[i].time > t.time  BY <1>1, <1>3, <2>2 DEF IsPlace
    <3>2. i \in 1 .. Len(list) /\ j \in 1 .. Len(list) /\ (i = j \/ i < j)  BY <1>3
    <3>3. list[i].time <= list[j].time  BY <1>3, <1>4, <3>2 DEF Ordered
    <3> QED  BY <1>4, <3>1, <3>2, <3>3
  <2> QED  BY <2>1, <2>2
<1>6. ASSUME NEW j \in DOMAIN new, NEW k \in DOMAIN new, j < k
      PROVE  new[j].time <= new[k].time
  <2>1. CASE k < i
    BY <1>2, <1>3, <1>6, <2>1 DEF Ordered
  <2>2. CASE k = i
    BY <1>2, <1>3, <1>5, <1>6, <2>2
  <2>3. CASE k > i
    <3>1. new[k] = list[k - 1] /\ k - 1 \in 1 .. Len(list) /\ k - 1 >= i
      BY <1>2, <1>3, <2>3
    <3>2. CASE j < i
      <4>1. new[j] = list[j] /\ j \in 1 .. Len(list) /\ j < k - 1  BY <1>2, <1>3, <2>3, <3>2
      <4> QED  BY <1>3, <3>1, <4>1 DEF Ordered
    <3>3. CASE j = i
      BY <1>2, <1>3, <1>4, <1>5, <3>1, <3>3
    <3>4. CASE j > i
      <4>1. new[j] = list[j - 1] /\ j - 1 \in 1 .. Len(list) /\ j - 1 < k - 1
        BY <1>2, <1>3, <1>6, <3>4
      <4> QED  BY <1>3, <3>1, <4>1 DEF Ordered
    <3> QED  BY <1>3, <3>2, <3>3, <3>4
  <2> QED  BY <1>3, <2>1, <2>2, <2>3
<1>7. ASSUME NEW j \in DOMAIN new PROVE new[j] \in Range(list) \cup {t}
  <2>1. \/ j = i
        \/ j \in 1 .. Len(list) /\ new[j] = list[j]
        \/ j - 1 \in 1 .. Len(list) /\ new[j] = list[j - 1]
    BY <1>2, <1>3
  <2> QED  BY <1>2, <1>3, <2>1 DEF Range
<1>8. PendingTimers' = new  BY <1>1 DEF new
<1>9. Range(new) \subseteq Range(list) \cup {t}  BY <1>7 DEF Range
<1>10. Ordered(new)  BY <1>6 DEF Ordered
<1> QED  BY <1>2, <1>8, <1>9, <1>10

\* A timer taken out leaves the list in order.
LEMMA RemoveKeeps ==
    ASSUME NEW list \in Seq(TimerList), NEW i \in DOMAIN list, Ordered(list)
    PROVE  /\ RemoveAt(list, i) \in Seq(TimerList)
           /\ Ordered(RemoveAt(list, i))
           /\ Range(RemoveAt(list, i)) \subseteq Range(list)
<1> DEFINE new == RemoveAt(list, i)
<1>1. Len(list) \in Nat /\ DOMAIN list = 1 .. Len(list)  BY LenProperties
<1>2. /\ new \in Seq(TimerList) /\ Len(new) = Len(list) - 1
      /\ \A j \in 1 .. Len(list) - 1 : new[j] = IF j < i THEN list[j] ELSE list[j + 1]
  BY <1>1, RemoveAtProperties
<1> HIDE DEF new
<1>3. DOMAIN new = 1 .. Len(list) - 1  BY <1>1, <1>2, LenProperties
<1>4. ASSUME NEW j \in DOMAIN new, NEW k \in DOMAIN new, j < k
      PROVE  new[j].time <= new[k].time
  <2> DEFINE at(n) == IF n < i THEN n ELSE n + 1
  <2>1. /\ at(j) \in DOMAIN list /\ at(k) \in DOMAIN list /\ at(j) < at(k)
        /\ new[j] = list[at(j)] /\ new[k] = list[at(k)]
    BY <1>1, <1>2, <1>3, <1>4
  <2> HIDE DEF at
  <2> QED  BY <2>1 DEF Ordered
<1>5. ASSUME NEW j \in DOMAIN new PROVE new[j] \in Range(list)
  <2>1. \E k \in DOMAIN list : new[j] = list[k]
    <3>1. CASE j < i  BY <1>1, <1>2, <1>3, <3>1
    <3>2. CASE j >= i
      <4>1. j + 1 \in DOMAIN list /\ new[j] = list[j + 1]  BY <1>1, <1>2, <1>3, <3>2
      <4> QED  BY <4>1
    <3> QED  BY <1>1, <1>3, <3>1, <3>2
  <2> QED  BY <2>1 DEF Range
<1>6. Range(new) \subseteq Range(list)  BY <1>5 DEF Range
<1>7. Ordered(new)  BY <1>4 DEF Ordered
<1> QED  BY <1>2, <1>6, <1>7 DEF new

\* The first timer taken off leaves the list in order.
LEMMA TailKeeps ==
    ASSUME NEW list \in Seq(TimerList), list # <<>>, Ordered(list)
    PROVE  /\ Tail(list) \in Seq(TimerList)
           /\ Ordered(Tail(list))
           /\ Range(Tail(list)) \subseteq Range(list)
           /\ list[1] \in Range(list)
           /\ \A t \in Range(Tail(list)) : list[1].time <= t.time
<1> DEFINE new == Tail(list)
<1>1. Len(list) \in Nat \ {0} /\ DOMAIN list = 1 .. Len(list)  BY LenProperties, EmptySeq
<1>2. /\ new \in Seq(TimerList) /\ Len(new) = Len(list) - 1
      /\ \A j \in 1 .. Len(new) : new[j] = list[j + 1]
  BY HeadTailProperties
<1> HIDE DEF new
<1>3. DOMAIN new = 1 .. Len(list) - 1  BY <1>1, <1>2, LenProperties
<1>4. ASSUME NEW j \in DOMAIN new
      PROVE  j + 1 \in DOMAIN list /\ 1 < j + 1 /\ new[j] = list[j + 1]
  BY <1>1, <1>2, <1>3
<1>5. Ordered(new)
  <2> SUFFICES ASSUME NEW j \in DOMAIN new, NEW k \in DOMAIN new, j < k
               PROVE  new[j].time <= new[k].time
    BY DEF Ordered
  <2>1. j + 1 < k + 1  BY <1>3
  <2> QED  BY <1>4, <2>1 DEF Ordered
<1>6. Range(new) \subseteq Range(list) /\ list[1] \in Range(list)  BY <1>1, <1>4 DEF Range
<1>7. \A j \in DOMAIN new : list[1].time <= new[j].time  BY <1>1, <1>4 DEF Ordered
<1>8. \A t \in Range(new) : list[1].time <= t.time  BY <1>7 DEF Range
<1> QED  BY <1>2, <1>5, <1>6, <1>8 DEF new

\* A whole number of seconds is not a second or more below what it is taken from.
LEMMA WholeSeconds ==
    ASSUME NEW a \in Nat, NEW b \in Nat \ {0}
    PROVE  (a \div b) * b \in Nat /\ (a \div b) * b <= a /\ (a \div b) * b > a - b
<1>1. a = b * (a \div b) + (a % b) /\ a % b \in 0 .. b - 1 /\ a \div b \in Nat
  BY SMT
<1> DEFINE q == a \div b
           r == a % b
<1> HIDE DEF q, r
<1>2. b * q = q * b /\ q * b \in Nat  BY <1>1 DEF q, r
<1> QED  BY <1>1, <1>2 DEF q, r

\* The program begins with no timers.
LEMMA TimersInvInit == Init => TimersInv
<1> SUFFICES ASSUME Init PROVE TimersInv  OBVIOUS
<1>1. Range(PendingTimers) = {} /\ Range(current) = {}  BY DEF Init, Range
<1>2. TypeOK
  <2>1. <<>> \in Seq(TimerList) /\ Len(<<>>) = 0  OBVIOUS
  <2>2. 0 \in 0 .. MaxTime /\ 0 \in Nat /\ 0 <= 1  BY BoundsAssumption
  <2> QED  BY <2>1, <2>2, Zenon DEF Init, TypeOK
<1>3. Ordered(PendingTimers)  BY DEF Init, Ordered
<1> QED  BY <1>1, <1>2, <1>3, BoundsAssumption DEF Init, TimersInv, Waiting

\* A new timer is as add_timer() makes it.
LEMMA NewTimer ==
    ASSUME TypeOK, NEW r \in 1 .. MaxRef, NEW time \in Nat, NEW w \in Nat,
           NEW e \in Nat \cup {-1}, NEW f \in 0 .. Second - 1
    PROVE  [ref |-> r, time |-> time, interval |-> w, events |-> e, fraction |-> f]
               \in TimerList
BY DEF TimerList

\* The rounding of times that are whole.
LEMMA FractionsSound ==
    ASSUME NEW e, NEW f \in Fractions(e)
    PROVE  f \in 0 .. Second - 1
BY SecondAssumption DEF Fractions

\* Every step keeps the invariant, of timers that repeat at intervals of a second
\* or more.
LEMMA TimersInvNext ==
    ASSUME Short = FALSE, TimersInv, [Next]_vars
    PROVE  TimersInv'
<1> USE DEF TimersInv
<1>1. CASE AddTimer
  <2>1. PICK r \in 1 .. MaxRef, w \in Waits, e \in Events : \E f \in Fractions(e) :
          /\ Allowed(w, e)
          /\ Schedule(PendingTimers, [ref |-> r, time |-> now + w, interval |-> w,
                                      events |-> e, fraction |-> f])
    BY <1>1 DEF AddTimer
  <2>0. PICK f \in Fractions(e) :
          /\ Allowed(w, e)
          /\ Schedule(PendingTimers, [ref |-> r, time |-> now + w, interval |-> w,
                                      events |-> e, fraction |-> f])
    BY <2>1
  <2> DEFINE t == [ref |-> r, time |-> now + w, interval |-> w, events |-> e, fraction |-> f]
  <2>2. w \in Nat /\ e \in Nat \cup {-1} /\ now + w \in Nat /\ f \in 0 .. Second - 1
    BY WaitsAssumption, EventsAssumption, FractionsSound DEF TypeOK
  <2>3. t \in TimerList  BY <2>2, NewTimer
  <2>4. t.time = now + w /\ Allowed(t.interval, t.events)  BY <2>0
  <2>5. PendingTimers \in Seq(TimerList)  BY DEF TypeOK
  <2> HIDE DEF t
  <2>6. Schedule(PendingTimers, t)  BY <2>0 DEF t
  <2>7. /\ PendingTimers' \in Seq(TimerList) /\ Ordered(PendingTimers')
        /\ Range(PendingTimers') \subseteq Range(PendingTimers) \cup {t}
    BY <2>3, <2>5, <2>6, ScheduleKeeps
  <2>8. UNCHANGED <<current, parsingtimer, now, now1, waiting, spinning, ran>>
    BY <1>1 DEF AddTimer
  <2>9. ran <= t.time  BY <2>2, <2>4 DEF TypeOK
  <2> QED  BY <2>4, <2>7, <2>8, <2>9 DEF TypeOK, Waiting
<1>2. CASE UpdateTimer
  <2>1. /\ ~ parsingtimer
        /\ UNCHANGED <<current, parsingtimer, now, now1, waiting, spinning, ran>>
    BY <1>2 DEF UpdateTimer
  <2>2. PICK i \in DOMAIN PendingTimers, w \in Waits, e \in Events, keepTime \in BOOLEAN :
          \E f \in Fractions(IF e = -1 THEN PendingTimers[i].events ELSE e) :
            LET old  == PendingTimers[i]
                new  == [ref      |-> old.ref,
                         time     |-> IF keepTime THEN old.time ELSE now + w,
                         interval |-> IF keepTime THEN old.interval ELSE w,
                         events   |-> IF e = -1 THEN old.events ELSE e,
                         fraction |-> f]
                rest == RemoveAt(PendingTimers, i)
            IN  /\ IsFirst(PendingTimers, i, old.ref)
                /\ Allowed(new.interval, new.events)
                /\ IF Exists(rest, old.ref) THEN PendingTimers' = rest
                   ELSE Schedule(rest, new)
    BY <1>2, Zenon DEF UpdateTimer
  <2> DEFINE old == PendingTimers[i]
             time == IF keepTime THEN old.time ELSE now + w
             wait == IF keepTime THEN old.interval ELSE w
             events == IF e = -1 THEN old.events ELSE e
             rest == RemoveAt(PendingTimers, i)
             new(f) == [ref |-> old.ref, time |-> time, interval |-> wait, events |-> events,
                        fraction |-> f]
  <2>3. PICK f \in Fractions(events) :
          /\ Allowed(new(f).interval, new(f).events)
          /\ \/ PendingTimers' = rest
             \/ Schedule(rest, new(f))
    BY <2>2
  <2>4. old \in TimerList
    BY RangeOfSeq DEF TypeOK, Range
  <2>5. /\ old.ref \in 1 .. MaxRef /\ time \in Nat /\ wait \in Nat
        /\ events \in Nat \cup {-1} /\ f \in 0 .. Second - 1
    BY <2>4, WaitsAssumption, EventsAssumption, FractionsSound DEF TimerList, TypeOK
  <2>6. /\ rest \in Seq(TimerList) /\ Ordered(rest) /\ Range(rest) \subseteq Range(PendingTimers)
    BY RemoveKeeps DEF TypeOK
  <2> HIDE DEF old, time, wait, events, rest
  <2>7. new(f) \in TimerList /\ Allowed(new(f).interval, new(f).events)
    BY <2>3, <2>5, NewTimer
  <2>8. new(f).time \in Nat  BY <2>5
  <2> HIDE DEF new
  <2>9. /\ PendingTimers' \in Seq(TimerList) /\ Ordered(PendingTimers')
        /\ Range(PendingTimers') \subseteq Range(rest) \cup {new(f)}
    BY <2>3, <2>6, <2>7, ScheduleKeeps
  <2>10. \A t \in Range(PendingTimers') :
           t.time \in Nat /\ 0 <= t.time /\ Allowed(t.interval, t.events)
    <3>1. \A t \in Range(PendingTimers) : t.time \in Nat
      <4>1. Range(PendingTimers) \subseteq TimerList  BY RangeOfSeq DEF TypeOK
      <4> QED  BY <4>1 DEF TimerList
    <3> QED  BY <2>6, <2>7, <2>8, <2>9, <3>1 DEF Waiting
  <2> QED  BY <2>1, <2>9, <2>10 DEF TypeOK, Waiting
<1>3. CASE RemoveTimer
  <2>1. PICK i \in DOMAIN PendingTimers : PendingTimers' = RemoveAt(PendingTimers, i)
    BY <1>3 DEF RemoveTimer
  <2>2. UNCHANGED <<current, parsingtimer, now, now1, waiting, spinning, ran>>
    BY <1>3 DEF RemoveTimer
  <2>3. PendingTimers \in Seq(TimerList)  BY DEF TypeOK
  <2>4. /\ PendingTimers' \in Seq(TimerList) /\ Ordered(PendingTimers')
        /\ Range(PendingTimers') \subseteq Range(PendingTimers)
    BY <2>1, <2>3, RemoveKeeps
  <2> QED  BY <2>2, <2>4 DEF TypeOK, Waiting
<1>4. CASE DeleteAllTimers
  <2>1. UNCHANGED <<current, parsingtimer, now, now1, waiting, ran>>
    BY <1>4 DEF DeleteAllTimers
  <2>2. CASE PendingTimers' = <<>> /\ UNCHANGED spinning
    <3>1. Range(PendingTimers') = {} /\ Ordered(PendingTimers')  BY <2>2 DEF Range, Ordered
    <3> QED  BY <2>1, <2>2, <3>1 DEF TypeOK, Waiting
  <2>3. CASE spinning' = TRUE /\ UNCHANGED PendingTimers
    BY <2>1, <2>3 DEF TypeOK
  <2> QED  BY <1>4, <2>2, <2>3 DEF DeleteAllTimers
<1>5. CASE Wait
  BY <1>5 DEF Wait, TypeOK
<1>6. CASE Tick
  <2>1. /\ now < MaxTime /\ now' = now + 1
        /\ UNCHANGED <<PendingTimers, current, parsingtimer, now1, waiting, spinning, ran>>
    BY <1>6 DEF Tick
  <2> QED  BY <2>1, BoundsAssumption DEF TypeOK
<1>7. CASE BeginPass
  <2>1. /\ ~ parsingtimer /\ parsingtimer' = TRUE /\ now1' = now
        /\ UNCHANGED <<PendingTimers, current, now, waiting, spinning, ran>>
    BY <1>7 DEF BeginPass
  <2> QED  BY <2>1 DEF TypeOK
<1>8. CASE RunNext
  <2> DEFINE t == PendingTimers[1]
  <2>1. /\ parsingtimer /\ current = <<>> /\ PendingTimers # <<>> /\ t.time < now1
        /\ current' = <<t>> /\ PendingTimers' = Tail(PendingTimers) /\ ran' = t.time
        /\ UNCHANGED <<parsingtimer, now, now1, waiting, spinning>>
    BY <1>8 DEF RunNext, HasCome
  <2>2. PendingTimers \in Seq(TimerList)  BY DEF TypeOK
  <2>3. /\ PendingTimers' \in Seq(TimerList) /\ Ordered(PendingTimers')
        /\ Range(PendingTimers') \subseteq Range(PendingTimers)
        /\ t \in Range(PendingTimers)
        /\ \A u \in Range(PendingTimers') : t.time <= u.time
    BY <2>1, <2>2, TailKeeps
  <2>4. t \in TimerList  BY <2>2, <2>3, RangeOfSeq
  <2> HIDE DEF t
  <2>5. t.time \in Nat  BY <2>4 DEF TimerList
  <2>6. /\ current' \in Seq(TimerList) /\ Len(current') = 1 /\ current'[1] = t
        /\ Range(current') = {t}
    BY <2>1, <2>4 DEF Range
  <2>7. TypeOK'  BY <2>1, <2>3, <2>5, <2>6 DEF TypeOK
  <2>8. Waiting(PendingTimers)' /\ Waiting(current)'  BY <2>3, <2>6 DEF Waiting
  <2> QED  BY <2>1, <2>3, <2>5, <2>6, <2>7, <2>8 DEF TypeOK
<1>9. CASE Return
  <2> DEFINE t == current[1]
  <2>1. /\ current # <<>> /\ current' = <<>>
        /\ UNCHANGED <<parsingtimer, now, now1, waiting, spinning, ran>>
    BY <1>9 DEF Return
  <2>2. current' \in Seq(TimerList) /\ Len(current') <= 1 /\ Waiting(current')
    BY <2>1 DEF Waiting, Range
  <2>3. t \in TimerList /\ Allowed(t.interval, t.events) /\ ran = t.time
    <3>1. current \in Seq(TimerList) /\ Len(current) \in Nat \ {0}
      BY <2>1, EmptySeq DEF TypeOK
    <3>2. 1 \in DOMAIN current  BY <3>1, LenProperties
    <3>3. t \in Range(current)  BY <3>2 DEF Range
    <3> QED  BY <2>1, <3>1, <3>3, RangeOfSeq DEF Waiting
  <2>4. CASE ~ Repeats(t.events)
    <3>1. UNCHANGED PendingTimers  BY <1>9, <2>4 DEF Return
    <3> QED  BY <2>1, <2>2, <3>1 DEF TypeOK, Waiting
  <2>5. CASE Repeats(t.events)
    <3> DEFINE u == Later(t)
               time == ((t.time + t.interval) \div Second) * Second
    <3> HIDE DEF t
    <3>1. /\ t.time \in Nat /\ t.interval \in Nat /\ t.events \in Nat \cup {-1}
          /\ t.fraction \in 0 .. Second - 1 /\ t.interval >= Second
      BY <2>3, <2>5 DEF TimerList, Allowed
    <3>2. time \in Nat /\ time > (t.time + t.interval) - Second
      <4> DEFINE sum == t.time + t.interval
      <4>1. sum \in Nat  BY <3>1
      <4> HIDE DEF sum
      <4>2. /\ (sum \div Second) * Second \in Nat
            /\ (sum \div Second) * Second > sum - Second
        BY <4>1, SecondAssumption, WholeSeconds
      <4> QED  BY <4>2, Zenon DEF sum
    <3>3. time + t.fraction \in Nat /\ time + t.fraction >= t.time
      <4> HIDE DEF time
      <4> QED  BY <3>1, <3>2, SecondAssumption
    <3>4. u = [ref |-> t.ref, time |-> time + t.fraction, interval |-> t.interval,
               events |-> IF t.events = -1 THEN -1 ELSE t.events - 1,
               fraction |-> t.fraction]
      <4>1. t = [ref |-> t.ref, time |-> t.time, interval |-> t.interval,
                 events |-> t.events, fraction |-> t.fraction]
        BY <2>3 DEF TimerList
      <4> DEFINE moved == [t EXCEPT !.time = time + t.fraction]
                 less == IF t.events = -1 THEN -1 ELSE t.events - 1
      <4>2. u = [moved EXCEPT !.events = less]  BY DEF Later
      <4> HIDE DEF u, time, less
      <4>3. moved = [ref |-> t.ref, time |-> time + t.fraction, interval |-> t.interval,
                     events |-> t.events, fraction |-> t.fraction]
        BY <4>1
      <4> HIDE DEF moved
      <4>4. u = [ref |-> t.ref, time |-> time + t.fraction, interval |-> t.interval,
                 events |-> less, fraction |-> t.fraction]
        BY <4>2, <4>3
      <4> QED  BY <4>4 DEF less
    <3> HIDE DEF time
    <3>5. u \in TimerList
      <4>1. t.ref \in 1 .. MaxRef  BY <2>3 DEF TimerList
      <4>2. (IF t.events = -1 THEN -1 ELSE t.events - 1) \in Nat \cup {-1}
        BY <3>1, <2>5 DEF Repeats
      <4> QED  BY <3>1, <3>3, <3>4, <4>1, <4>2 DEF TimerList
    <3>6. Allowed(u.interval, u.events)  BY <3>1, <3>4 DEF Allowed
    <3>7. u.time >= ran  BY <2>3, <3>3, <3>4
    <3> HIDE DEF u
    <3>8. Schedule(PendingTimers, u)  BY <1>9, <2>5 DEF Return, t, u
    <3>9. /\ PendingTimers' \in Seq(TimerList) /\ Ordered(PendingTimers')
          /\ Range(PendingTimers') \subseteq Range(PendingTimers) \cup {u}
      BY <3>5, <3>8, ScheduleKeeps DEF TypeOK
    <3>10. \A v \in Range(PendingTimers') : ran <= v.time /\ Allowed(v.interval, v.events)
      <4>1. u.time \in Nat  BY <3>5 DEF TimerList
      <4> QED  BY <3>6, <3>7, <3>9, <4>1 DEF TypeOK, Waiting
    <3> QED  BY <2>1, <2>2, <3>9, <3>10 DEF TypeOK, Waiting
  <2> QED  BY <2>4, <2>5
<1>10. CASE EndPass
  <2>1. /\ current = <<>> /\ parsingtimer' = FALSE /\ now1' = 0 /\ ran' = 0
        /\ UNCHANGED <<PendingTimers, current, now, waiting, spinning>>
    BY <1>10 DEF EndPass
  <2>2. \A t \in Range(PendingTimers) : t.time \in Nat
    <3>1. Range(PendingTimers) \subseteq TimerList  BY RangeOfSeq DEF TypeOK
    <3> QED  BY <3>1 DEF TimerList
  <2>3. TypeOK'
    <3>1. 0 \in 0 .. MaxTime /\ 0 \in Nat  BY BoundsAssumption
    <3> QED  BY <2>1, <3>1, Zenon DEF TypeOK
  <2> QED  BY <2>1, <2>2, <2>3 DEF TypeOK
<1>11. CASE UNCHANGED vars
  BY <1>11 DEF vars, TypeOK
<1> QED
  BY <1>1, <1>2, <1>3, <1>4, <1>5, <1>6, <1>7, <1>8, <1>9, <1>10, <1>11 DEF Next, Pass

\* Timers run in the order of their times (timer.c 176, 599-603, 626).
THEOREM TimersInOrder ==
    ASSUME Short = FALSE
    PROVE  Spec => []InOrder
<1>1. TimersInv => InOrder
  BY DEF TimersInv, InOrder, Sorted, Ordered, Range
<1> QED  BY <1>1, TimersInvInit, TimersInvNext, PTL DEF Spec

----------------------------------------------------------------------------
(* The worker threads *)

Distinct(q) == \A i, j \in DOMAIN q : q[i] = q[j] => i = j

Rising(q) == \A i, j \in DOMAIN q : i < j => q[i] < q[j]

\* Everything in S comes before everything in T.
Precedes(S, T) == \A x \in S, y \in T : x < y

InHand == {hand} \ {0}

\* Sets that make up 1 .. n and have nothing in common.
Divide(n, A, B, C, D, E) ==
    /\ A \cup B \cup C \cup D \cup E = 1 .. n
    /\ A \cap B = {} /\ A \cap C = {} /\ A \cap D = {} /\ A \cap E = {}
    /\ B \cap C = {} /\ B \cap D = {} /\ B \cap E = {}
    /\ C \cap D = {} /\ C \cap E = {} /\ D \cap E = {}

\* Each request is at one of these places, once.
Placed ==
    /\ Distinct(pending) /\ Distinct(finished) /\ Distinct(answered)
    /\ Divide(asked, Elements(answered), Elements(finished), InHand, Elements(pending), dropped)

\* The queues, and the thread between them, keep port tests in the order asked.
InLine ==
    /\ Rising(answered) /\ Rising(finished) /\ Rising(pending)
    /\ Precedes(Elements(answered), Elements(finished) \cup InHand \cup Elements(pending))
    /\ Precedes(Elements(finished), InHand \cup Elements(pending))
    /\ Precedes(InHand, Elements(pending))

WorkersInv ==
    /\ WorkersTypeOK
    /\ Placed
    /\ kind = "port test" => InLine
    /\ hand # 0 => thread \in {"work", "lock", "store", "ended"}
    /\ thread \in {"work", "lock", "store"} => hand # 0
    /\ thread = "none" => pending = <<>> /\ finished = <<>>
    /\ cancelled => main \in {"cancelling", "join"}
    /\ NothingForgotten

\* new is q with x put at its end.
Extends(S, q, x, new) ==
    /\ new \in Seq(S)
    /\ Elements(new) = Elements(q) \cup {x}
    /\ Distinct(q) /\ x \notin Elements(q) => Distinct(new)
    /\ S \subseteq Nat /\ Rising(q) /\ Precedes(Elements(q), {x}) => Rising(new)

\* A request put at the end of a queue.
LEMMA ElementsAppend ==
    ASSUME NEW S, NEW q \in Seq(S), NEW x \in S
    PROVE  Extends(S, q, x, Append(q, x))
<1> DEFINE new == Append(q, x)
<1>1. Len(q) \in Nat /\ DOMAIN q = 1 .. Len(q)  BY LenProperties
<1>2. /\ new \in Seq(S) /\ Len(new) = Len(q) + 1
      /\ \A i \in 1 .. Len(q) : new[i] = q[i]
      /\ new[Len(q) + 1] = x
  BY AppendProperties
<1> HIDE DEF new
<1>3. DOMAIN new = 1 .. Len(q) + 1  BY <1>2, LenProperties
<1>4. Elements(new) = Elements(q) \cup {x}
  <2>1. ASSUME NEW i \in DOMAIN new PROVE new[i] \in Elements(q) \cup {x}
    BY <1>1, <1>2, <1>3 DEF Elements
  <2>2. Elements(new) \subseteq Elements(q) \cup {x}  BY <2>1 DEF Elements
  <2>3. ASSUME NEW i \in DOMAIN q PROVE q[i] \in Elements(new)
    <3>1. i \in DOMAIN new /\ new[i] = q[i]  BY <1>1, <1>2, <1>3
    <3> QED  BY <3>1 DEF Elements
  <2>4. x \in Elements(new)
    <3>1. Len(q) + 1 \in DOMAIN new  BY <1>1, <1>3
    <3> QED  BY <1>2, <3>1 DEF Elements
  <2> QED  BY <2>2, <2>3, <2>4 DEF Elements
<1>5. ASSUME Distinct(q), x \notin Elements(q) PROVE Distinct(new)
  <2>1. \A i \in DOMAIN q : q[i] # x  BY <1>5 DEF Elements
  <2> QED  BY <1>1, <1>2, <1>3, <1>5, <2>1 DEF Distinct
<1>6. ASSUME Rising(q), Precedes(Elements(q), {x}) PROVE Rising(new)
  <2>1. \A i \in DOMAIN q : q[i] < x  BY <1>6 DEF Elements, Precedes
  <2> QED  BY <1>1, <1>2, <1>3, <1>6, <2>1 DEF Rising
<1> QED  BY <1>2, <1>4, <1>5, <1>6 DEF new, Extends

\* A request put at the head of a queue.
LEMMA ElementsFront ==
    ASSUME NEW S, NEW q \in Seq(S), NEW x \in S
    PROVE  /\ <<x>> \o q \in Seq(S)
           /\ Elements(<<x>> \o q) = Elements(q) \cup {x}
           /\ Distinct(q) /\ x \notin Elements(q) => Distinct(<<x>> \o q)
<1> DEFINE new == <<x>> \o q
<1>1. Len(q) \in Nat /\ DOMAIN q = 1 .. Len(q)  BY LenProperties
<1>2. <<x>> \in Seq(S) /\ Len(<<x>>) = 1 /\ <<x>>[1] = x  OBVIOUS
<1>3. /\ new \in Seq(S) /\ Len(new) = Len(<<x>>) + Len(q)
      /\ \A i \in 1 .. Len(<<x>>) + Len(q) :
           new[i] = IF i <= Len(<<x>>) THEN <<x>>[i] ELSE q[i - Len(<<x>>)]
  BY <1>2, ConcatProperties
<1> HIDE DEF new
<1>4. /\ DOMAIN new = 1 .. Len(q) + 1 /\ new[1] = x
      /\ \A i \in 2 .. Len(q) + 1 : new[i] = q[i - 1] /\ i - 1 \in DOMAIN q
  BY <1>1, <1>2, <1>3, LenProperties
<1>5. Elements(new) = Elements(q) \cup {x}
  <2>1. ASSUME NEW i \in DOMAIN new PROVE new[i] \in Elements(q) \cup {x}
    <3>1. CASE i = 1  BY <1>4, <3>1
    <3>2. CASE i \in 2 .. Len(q) + 1  BY <1>4, <3>2 DEF Elements
    <3> QED  BY <1>1, <1>4, <3>1, <3>2
  <2>2. Elements(new) \subseteq Elements(q) \cup {x}  BY <2>1 DEF Elements
  <2>3. ASSUME NEW i \in DOMAIN q PROVE q[i] \in Elements(new)
    <3>1. i + 1 \in 2 .. Len(q) + 1 /\ (i + 1) - 1 = i  BY <1>1
    <3>2. i + 1 \in DOMAIN new /\ new[i + 1] = q[i]  BY <1>1, <1>4, <3>1
    <3> QED  BY <3>2 DEF Elements
  <2>4. x \in Elements(new)
    <3>1. 1 \in DOMAIN new  BY <1>1, <1>4
    <3> QED  BY <1>4, <3>1 DEF Elements
  <2> QED  BY <2>2, <2>3, <2>4 DEF Elements
<1>6. ASSUME Distinct(q), x \notin Elements(q) PROVE Distinct(new)
  <2>1. \A i \in DOMAIN q : q[i] # x  BY <1>6 DEF Elements
  <2> SUFFICES ASSUME NEW i \in DOMAIN new, NEW j \in DOMAIN new, new[i] = new[j]
               PROVE  i = j
    BY DEF Distinct
  <2>2. i = 1 \/ i \in 2 .. Len(q) + 1  BY <1>1, <1>4
  <2>3. j = 1 \/ j \in 2 .. Len(q) + 1  BY <1>1, <1>4
  <2>4. CASE i = 1 /\ j = 1  BY <2>4
  <2>5. CASE i = 1 /\ j \in 2 .. Len(q) + 1  BY <1>4, <2>1, <2>5
  <2>6. CASE i \in 2 .. Len(q) + 1 /\ j = 1  BY <1>4, <2>1, <2>6
  <2>7. CASE i \in 2 .. Len(q) + 1 /\ j \in 2 .. Len(q) + 1
    <3>1. i - 1 = j - 1  BY <1>4, <1>6, <2>7 DEF Distinct
    <3> QED  BY <1>1, <2>7, <3>1
  <2> QED  BY <2>2, <2>3, <2>4, <2>5, <2>6, <2>7
<1> QED  BY <1>3, <1>5, <1>6 DEF new

\* The request at the head of a queue taken off.
LEMMA ElementsTail ==
    ASSUME NEW S, NEW q \in Seq(S), q # <<>>, Distinct(q)
    PROVE  /\ Tail(q) \in Seq(S) /\ Head(q) \in Elements(q)
           /\ Elements(Tail(q)) = Elements(q) \ {Head(q)}
           /\ Distinct(Tail(q))
           /\ Rising(q) => Rising(Tail(q)) /\ Precedes({Head(q)}, Elements(Tail(q)))
<1> DEFINE new == Tail(q)
           first == Head(q)
<1>1. Len(q) \in Nat \ {0} /\ DOMAIN q = 1 .. Len(q)  BY LenProperties, EmptySeq
<1>2. /\ new \in Seq(S) /\ Len(new) = Len(q) - 1
      /\ \A i \in 1 .. Len(new) : new[i] = q[i + 1]
  BY HeadTailProperties
<1>3. first = q[1]  OBVIOUS
<1> HIDE DEF new, first
<1>4. /\ DOMAIN new = 1 .. Len(q) - 1
      /\ \A i \in DOMAIN new : new[i] = q[i + 1] /\ i + 1 \in DOMAIN q /\ i + 1 # 1 /\ 1 < i + 1
      /\ 1 \in DOMAIN q
  BY <1>1, <1>2, LenProperties
<1>5. first \in Elements(q)  BY <1>3, <1>4 DEF Elements
<1>6. Elements(new) = Elements(q) \ {first}
  <2>1. \A i \in DOMAIN new : new[i] \in Elements(q) /\ new[i] # first
    BY <1>3, <1>4 DEF Elements, Distinct
  <2>2. ASSUME NEW i \in DOMAIN q, q[i] # first PROVE q[i] \in Elements(new)
    <3>1. i # 1  BY <1>3, <2>2
    <3>2. i - 1 \in DOMAIN new /\ (i - 1) + 1 = i  BY <1>1, <1>4, <3>1
    <3>3. q[i] = new[i - 1]  BY <1>4, <3>2
    <3> QED  BY <3>2, <3>3 DEF Elements
  <2> QED  BY <2>1, <2>2 DEF Elements
<1>7. Distinct(new)
  <2> SUFFICES ASSUME NEW i \in DOMAIN new, NEW j \in DOMAIN new, new[i] = new[j]
               PROVE  i = j
    BY DEF Distinct
  <2>1. i + 1 = j + 1  BY <1>4 DEF Distinct
  <2> QED  BY <1>1, <1>4, <2>1
<1>8. ASSUME Rising(q) PROVE Rising(new) /\ Precedes({first}, Elements(new))
  <2>1. Rising(new)
    <3> SUFFICES ASSUME NEW i \in DOMAIN new, NEW j \in DOMAIN new, i < j
                 PROVE  new[i] < new[j]
      BY DEF Rising
    <3>1. i + 1 < j + 1  BY <1>1, <1>4
    <3> QED  BY <1>4, <1>8, <3>1 DEF Rising
  <2>2. \A i \in DOMAIN new : first < new[i]  BY <1>3, <1>4, <1>8 DEF Rising
  <2> QED  BY <2>1, <2>2 DEF Precedes, Elements
<1> QED  BY <1>2, <1>5, <1>6, <1>7, <1>8 DEF new, first

\* A request that goes from one place to the next.
LEMMA DivideMoves ==
    ASSUME NEW n \in Nat, NEW A, NEW B, NEW C, NEW D, NEW E, NEW r, Divide(n, A, B, C, D, E)
    PROVE  /\ r = n + 1 => Divide(r, A, B, C, D \cup {r}, E)
           /\ r \in D /\ C = {} => Divide(n, A, B, {r}, D \ {r}, E)
           /\ C = {r} => Divide(n, A, B \cup {r}, {}, D, E)
           /\ r \in B => Divide(n, A \cup {r}, B \ {r}, C, D, E)
<1>1. ASSUME r = n + 1 PROVE Divide(r, A, B, C, D \cup {r}, E)
  <2>1. r \notin 1 .. n /\ 1 .. n \cup {r} = 1 .. r  BY <1>1
  <2> QED  BY <2>1, ZenonT(30) DEF Divide
<1>2. ASSUME r \in D, C = {} PROVE Divide(n, A, B, {r}, D \ {r}, E)
  BY <1>2, Zenon DEF Divide
<1>3. ASSUME C = {r} PROVE Divide(n, A, B \cup {r}, {}, D, E)
  BY <1>3, Zenon DEF Divide
<1>4. ASSUME r \in B PROVE Divide(n, A \cup {r}, B \ {r}, C, D, E)
  BY <1>4, Zenon DEF Divide
<1> QED  BY <1>1, <1>2, <1>3, <1>4

\* An empty queue.
LEMMA NoElements == Elements(<<>>) = {} /\ Distinct(<<>>) /\ Rising(<<>>)
BY DEF Elements, Distinct, Rising

\* At the beginning nothing is asked.
LEMMA WorkersInvInit == WorkersInit => WorkersInv
<1> SUFFICES ASSUME WorkersInit PROVE WorkersInv  OBVIOUS
<1>1. WorkersTypeOK
  <2>1. <<>> \in Seq(Requests)  OBVIOUS
  <2>2. 0 \in 0 .. MaxRequests /\ 0 \in 0 .. MaxStarts /\ 0 \in Nat  BY WorkersAssumption
  <2> QED  BY <2>1, <2>2, Zenon DEF WorkersInit, WorkersTypeOK, ThreadPoints, MainPoints
<1>2. Placed
  <2>1. /\ hand = 0 /\ asked = 0 /\ dropped = {}
        /\ pending = <<>> /\ finished = <<>> /\ answered = <<>>
    BY Zenon DEF WorkersInit
  <2> HIDE DEF WorkersInit
  <2>2. InHand = {} /\ 1 .. asked = {}  BY <2>1 DEF InHand
  <2> QED  BY <2>1, <2>2, NoElements DEF Placed, Divide
<1>3. InLine
  <2>1. InHand = {}  BY DEF WorkersInit, InHand
  <2> QED  BY <2>1, NoElements DEF WorkersInit, InLine, Precedes
<1> QED  BY <1>1, <1>2, <1>3 DEF WorkersInit, WorkersInv, NothingForgotten

\* Steps that move no request leave each where it is.
LEMMA PlacesUnchanged ==
    ASSUME Placed, kind = "port test" => InLine,
           UNCHANGED <<kind, answered, finished, hand, pending, dropped, asked>>
    PROVE  Placed' /\ (kind = "port test" => InLine)'
BY DEF Placed, InLine, InHand

\* No step of the thread or of the main loop loses a request.
LEMMA WorkersInvNext ==
    ASSUME WorkersInv, [WorkersNext]_workerVars
    PROVE  WorkersInv'
<1>a. /\ Placed /\ (kind = "port test" => InLine) /\ NothingForgotten /\ WorkersTypeOK
      /\ hand # 0 => thread \in {"work", "lock", "store", "ended"}
      /\ thread \in {"work", "lock", "store"} => hand # 0
      /\ thread = "none" => pending = <<>> /\ finished = <<>>
  BY Zenon DEF WorkersInv
<1>b. cancelled => main \in {"cancelling", "join"}  BY Zenon DEF WorkersInv
<1>c. /\ pipe \in Nat /\ starts \in 0 .. MaxStarts
      /\ hand \in 0 .. MaxRequests /\ asked \in 0 .. MaxRequests
      /\ pending \in Seq(Requests) /\ finished \in Seq(Requests) /\ answered \in Seq(Requests)
  BY <1>a, Zenon DEF WorkersTypeOK
<1>d. /\ Requests \subseteq Nat \ {0} /\ 1 .. asked \subseteq Requests /\ 0 \in 0 .. MaxRequests
      /\ Requests \subseteq 0 .. MaxRequests
  BY <1>c, WorkersAssumption DEF Requests
<1>e. /\ asked \in Nat
      /\ Divide(asked, Elements(answered), Elements(finished), InHand, Elements(pending), dropped)
      /\ Distinct(answered) /\ Distinct(finished) /\ Distinct(pending)
  <2>1. asked \in Nat  BY <1>c, WorkersAssumption
  <2> QED  BY <1>a, <2>1, Zenon DEF Placed
<1> USE DEF whole, threads, queues, ends, mains, history
<1>1. CASE Start
  <2>1. /\ main \in {"idle", "callback"} /\ thread = "none"
        /\ starts < MaxStarts /\ starts' = starts + 1
        /\ thread' = "try" /\ quit' = "main" /\ pipe' = 0
        /\ pending' = <<>> /\ finished' = <<>>
        /\ UNCHANGED <<mains, history, kind, hand, cancelled, dead>>
    <3>1. /\ AtEase /\ ~ Running
          /\ starts < (IF kind = "lookup" THEN 1 ELSE MaxStarts) /\ starts' = starts + 1
          /\ thread' = "try" /\ quit' = "main" /\ pipe' = 0
          /\ pending' = <<>> /\ finished' = <<>>
          /\ UNCHANGED <<mains, history, kind, hand, cancelled, dead>>
      BY <1>1, Zenon DEF Start
    <3>2. starts < MaxStarts  BY <1>c, <3>1, WorkersAssumption
    <3>3. thread = "none"  BY <3>1 DEF Running
    <3> QED  BY <3>1, <3>2, <3>3, Zenon DEF AtEase
  <2>2. pending = <<>> /\ finished = <<>> /\ hand = 0
    BY <1>a, <2>1, Zenon
  <2>3. WorkersTypeOK'
    <3>1. starts' \in 0 .. MaxStarts /\ 0 \in Nat  BY <1>c, <2>1, WorkersAssumption
    <3>2. <<>> \in Seq(Requests)  OBVIOUS
    <3> QED  BY <1>a, <2>1, <3>1, <3>2, Zenon DEF WorkersTypeOK, ThreadPoints
  <2>4. Placed' /\ (kind = "port test" => InLine)'  BY <2>1, <2>2, <1>a, PlacesUnchanged
  <2> QED  BY <1>a, <1>b, <2>1, <2>2, <2>3, <2>4, Zenon DEF NothingForgotten, WorkersInv
<1>2. CASE AddToQueue
  <2> DEFINE r == asked + 1
  <2>1. /\ thread # "none" /\ asked < MaxRequests /\ asked' = r
        /\ pending' = (IF kind = "lookup" THEN <<r>> \o pending ELSE Append(pending, r))
        /\ thread' = (IF thread = "wait" THEN "try" ELSE thread)
        /\ UNCHANGED <<whole, mains, ends, hand, cancelled, finished, pipe, answered, dropped>>
    BY <1>2 DEF AddToQueue, Running, Enqueue, Signal
  <2>2. r \in Requests /\ asked \in Nat /\ Requests \subseteq Nat /\ pending \in Seq(Requests)
        /\ r \in 0 .. MaxRequests
    BY <1>c, <1>d, <2>1, WorkersAssumption DEF Requests
  <2>r. r = asked + 1  OBVIOUS
  <2>3. r \notin 1 .. asked /\ 1 .. asked \cup {r} = 1 .. r  BY <2>2
  <2>4. r \notin Elements(pending)  BY <1>a, <2>3 DEF Placed, Divide
  <2>5. /\ pending' \in Seq(Requests)
        /\ Elements(pending') = Elements(pending) \cup {r}
        /\ Distinct(pending')
    <3> HIDE DEF r
    <3>1. /\ Append(pending, r) \in Seq(Requests)
          /\ Elements(Append(pending, r)) = Elements(pending) \cup {r}
          /\ Distinct(pending) /\ r \notin Elements(pending) => Distinct(Append(pending, r))
      <4>1. r \in Requests /\ pending \in Seq(Requests)  BY <2>2
      <4>2. Extends(Requests, pending, r, Append(pending, r))  BY <4>1, ElementsAppend
      <4> QED  BY <4>2, Zenon DEF Extends
    <3>2. /\ <<r>> \o pending \in Seq(Requests)
          /\ Elements(<<r>> \o pending) = Elements(pending) \cup {r}
          /\ Distinct(pending) /\ r \notin Elements(pending) => Distinct(<<r>> \o pending)
      <4>1. r \in Requests /\ pending \in Seq(Requests)  BY <2>2
      <4> QED  BY <4>1, ElementsFront, Zenon
    <3> QED  BY <1>e, <2>1, <2>4, <3>1, <3>2
  <2>6. WorkersTypeOK'
    <3> HIDE DEF r
    <3> QED  BY <1>a, <2>1, <2>2, <2>5, Zenon DEF WorkersTypeOK, ThreadPoints
  <2>7. Placed'
    <3> HIDE DEF r
    <3>1. Divide(asked', Elements(answered), Elements(finished), InHand, Elements(pending'), dropped)
      <4>1. Divide(r, Elements(answered), Elements(finished), InHand, Elements(pending) \cup {r}, dropped)
        BY <1>e, <2>r, DivideMoves, Zenon
      <4> QED  BY <2>1, <2>5, <4>1
    <3> QED  BY <1>a, <2>1, <2>5, <3>1 DEF Placed, InHand
  <2>8. ASSUME kind' = "port test" PROVE InLine'
    <3>1. \A x \in 1 .. asked : x < r  BY <2>2
    <3> HIDE DEF r
    <3>2. Precedes(Elements(answered) \cup Elements(finished) \cup InHand \cup Elements(pending), {r})
      BY <1>a, <3>1 DEF Precedes, Placed, Divide
    <3>3. pending' = Append(pending, r) /\ InLine  BY <1>a, <2>1, <2>8
    <3>4. Rising(pending')
      <4>1. r \in Requests /\ pending \in Seq(Requests) /\ Requests \subseteq Nat  BY <2>2
      <4>2. Extends(Requests, pending, r, Append(pending, r))  BY <4>1, ElementsAppend
      <4>3. Precedes(Elements(pending), {r}) /\ Rising(pending)
        BY <3>2, <3>3, Zenon DEF InLine, Precedes
      <4> QED  BY <3>3, <4>1, <4>2, <4>3, Zenon DEF Extends
    <3> QED  BY <1>a, <2>1, <2>5, <3>2, <3>3, <3>4 DEF InLine, Precedes, InHand
  <2> QED  BY <1>a, <1>b, <2>1, <2>6, <2>7, <2>8, Zenon DEF NothingForgotten, Stopping, WorkersInv
<1>3. CASE StopKill
  <2>1. /\ main \in {"idle", "callback"} /\ thread # "none" /\ quit' = "free"
        /\ thread' = (IF thread = "wait" THEN "try" ELSE thread) /\ main' = "unlocked"
        /\ UNCHANGED <<whole, queues, history, hand, cancelled, dead, pipe, within>>
    BY <1>3 DEF StopKill, AtEase, Running, Signal
  <2>2. WorkersTypeOK'  BY <1>a, <2>1, Zenon DEF WorkersTypeOK, ThreadPoints, MainPoints
  <2>3. Placed' /\ (kind = "port test" => InLine)'  BY <2>1, <1>a, PlacesUnchanged
  <2> QED  BY <1>a, <1>b, <2>1, <2>2, <2>3, Zenon DEF NothingForgotten, Stopping, WorkersInv
<1>4. CASE Check
  <2>1. /\ main = "idle" /\ thread # "none" /\ pipe > 0 /\ pipe' = pipe - 1 /\ main' = "drain"
        /\ UNCHANGED <<whole, threads, queues, ends, history, within>>
    BY <1>4 DEF Check, Running
  <2>2. pipe' \in Nat  BY <1>c, <2>1
  <2>3. WorkersTypeOK'  BY <1>a, <2>1, <2>2, Zenon DEF WorkersTypeOK, MainPoints
  <2>4. Placed' /\ (kind = "port test" => InLine)'  BY <2>1, <1>a, PlacesUnchanged
  <2> QED  BY <1>a, <1>b, <2>1, <2>3, <2>4, Zenon DEF NothingForgotten, WorkersInv
<1>5. CASE DrainEnds
  <2>1. /\ main = "drain" /\ (thread \in {"store", "none"} \/ finished = <<>>) /\ main' = "idle"
        /\ UNCHANGED <<whole, threads, queues, ends, history, pipe, within>>
    BY <1>5 DEF DrainEnds
  <2>2. WorkersTypeOK'  BY <1>a, <2>1, Zenon DEF WorkersTypeOK, MainPoints
  <2>3. Placed' /\ (kind = "port test" => InLine)'  BY <2>1, <1>a, PlacesUnchanged
  <2> QED  BY <1>a, <1>b, <2>1, <2>2, <2>3, Zenon DEF NothingForgotten, WorkersInv
<1>6. CASE Drain
  <2> DEFINE r == Head(finished)
  <2>1. /\ main = "drain" /\ thread # "none" /\ finished # <<>>
        /\ answered' = Append(answered, r) /\ finished' = Tail(finished)
        /\ main' = "callback" /\ within' = TRUE
        /\ UNCHANGED <<whole, threads, ends, pending, pipe, asked, dropped>>
    BY <1>6 DEF Drain, TakeAnswer
  <2>2. finished \in Seq(Requests) /\ answered \in Seq(Requests) /\ Distinct(finished)
    BY <1>a, <1>c DEF Placed
  <2>3. /\ finished' \in Seq(Requests) /\ r \in Elements(finished)
        /\ Elements(finished') = Elements(finished) \ {r} /\ Distinct(finished')
        /\ Rising(finished) => Rising(finished') /\ Precedes({r}, Elements(finished'))
    BY <2>1, <2>2, ElementsTail
  <2>4. r \in Requests  BY <2>1, <2>2, HeadTailProperties
  <2> HIDE DEF r
  <2>5. r \notin Elements(answered)  BY <1>a, <2>3 DEF Placed, Divide
  <2>6. /\ answered' \in Seq(Requests) /\ Elements(answered') = Elements(answered) \cup {r}
        /\ Distinct(answered')
        /\ Rising(answered) /\ Precedes(Elements(answered), {r}) => Rising(answered')
    <3>1. Requests \subseteq Nat  BY <1>d
    <3>2. r \in Requests /\ answered \in Seq(Requests)  BY <2>2, <2>4
    <3>3. Extends(Requests, answered, r, Append(answered, r))  BY <3>2, ElementsAppend
    <3> QED  BY <1>a, <2>1, <2>4, <2>5, <3>1, <3>3, Zenon DEF Placed, Extends
  <2>7. WorkersTypeOK'  BY <1>a, <2>1, <2>3, <2>6, Zenon DEF WorkersTypeOK, MainPoints
  <2>8. Placed'
    <3>1. Divide(asked, Elements(answered'), Elements(finished'), InHand, Elements(pending), dropped)
      <4>1. Divide(asked, Elements(answered) \cup {r}, Elements(finished) \ {r}, InHand, Elements(pending), dropped)
        BY <1>e, <2>3, DivideMoves, Zenon
      <4> QED  BY <2>3, <2>6, <4>1
    <3> QED  BY <1>a, <2>1, <2>3, <2>6, <3>1 DEF Placed, InHand
  <2>9. ASSUME kind' = "port test" PROVE InLine'
    <3>1. InLine /\ UNCHANGED <<hand, pending>>  BY <1>a, <2>1, <2>9
    <3>2. /\ r \in Elements(finished) /\ Elements(finished') \subseteq Elements(finished)
          /\ Elements(answered') = Elements(answered) \cup {r}
      BY <2>3, <2>6
    <3>3. Rising(answered') /\ Rising(finished') /\ Rising(pending') /\ Precedes({r}, Elements(finished'))
      <4>1. Precedes(Elements(answered), {r})  BY <3>1, <3>2 DEF InLine, Precedes
      <4> QED  BY <2>3, <2>6, <3>1, <4>1 DEF InLine
    <3>4. Precedes(Elements(answered'), Elements(finished') \cup InHand' \cup Elements(pending'))
      BY <3>1, <3>2, <3>3 DEF InLine, Precedes, InHand
    <3>5. Precedes(Elements(finished'), InHand' \cup Elements(pending'))
          /\ Precedes(InHand', Elements(pending'))
      BY <3>1, <3>2 DEF InLine, Precedes, InHand
    <3> QED  BY <3>3, <3>4, <3>5, Zenon DEF InLine
  <2> QED  BY <1>a, <1>b, <2>1, <2>7, <2>8, <2>9, ZenonT(40) DEF NothingForgotten, WorkersInv
<1>7. CASE CallbackReturns
  <2>1. /\ main = "callback" /\ main' = "drain" /\ within' = FALSE
        /\ UNCHANGED <<whole, threads, queues, ends, history, pipe>>
    BY <1>7 DEF CallbackReturns
  <2>2. WorkersTypeOK'  BY <1>a, <2>1, Zenon DEF WorkersTypeOK, MainPoints
  <2>3. Placed' /\ (kind = "port test" => InLine)'  BY <2>1, <1>a, PlacesUnchanged
  <2> QED  BY <1>a, <1>b, <2>1, <2>2, <2>3, Zenon DEF NothingForgotten, WorkersInv
<1>8. CASE Cancel
  <2>1. /\ main = "unlocked" /\ cancelled' = ~ dead
        /\ main' = (IF dead THEN "join" ELSE "cancelling")
        /\ UNCHANGED <<whole, queues, ends, history, thread, hand, pipe, within>>
    BY <1>8 DEF Cancel, CancelUnlessDead
  <2>2. main' \in {"cancelling", "join"} /\ cancelled' \in BOOLEAN  BY <2>1, Zenon
  <2>3. WorkersTypeOK'  BY <1>a, <2>1, <2>2, Zenon DEF WorkersTypeOK, MainPoints
  <2>4. Placed' /\ (kind = "port test" => InLine)'  BY <2>1, <1>a, PlacesUnchanged
  <2> QED  BY <1>a, <1>b, <2>1, <2>2, <2>3, <2>4, Zenon DEF NothingForgotten, Stopping, WorkersInv
<1>9. CASE GiveUp
  <2>1. /\ main = "cancelling" /\ main' = "join" /\ dead' \in {dead, TRUE}
        /\ UNCHANGED <<whole, threads, queues, history, quit, pipe, within>>
    BY <1>9 DEF GiveUp
  <2>2. dead' \in BOOLEAN  BY <1>a, <2>1, Zenon DEF WorkersTypeOK
  <2>3. WorkersTypeOK'  BY <1>a, <2>1, <2>2, Zenon DEF WorkersTypeOK, MainPoints
  <2>4. Placed' /\ (kind = "port test" => InLine)'  BY <2>1, <1>a, PlacesUnchanged
  <2> QED  BY <1>a, <1>b, <2>1, <2>3, <2>4, Zenon DEF NothingForgotten, Stopping, WorkersInv
<1>10. CASE Join
  <2>1. /\ main = "join" /\ thread = "ended" /\ thread' = "none" /\ hand' = 0 /\ cancelled' = FALSE
        /\ dropped' = dropped \cup Elements(pending) \cup Elements(finished) \cup InHand
        /\ pending' = <<>> /\ finished' = <<>> /\ pipe' = 0 /\ quit' = "none"
        /\ main' \in {"gone", "callback", "idle"}
        /\ UNCHANGED <<whole, dead, within, asked, answered>>
    BY <1>10, Zenon DEF Join, InHand
  <2>2. InHand' = {}  BY <2>1 DEF InHand
  <2>3. dropped' \subseteq Requests
    <3>1. dropped' \subseteq 1 .. asked  BY <1>a, <2>1 DEF Placed, Divide
    <3>2. 1 .. asked \subseteq Requests  BY <1>d
    <3> QED  BY <3>1, <3>2
  <2>4. WorkersTypeOK'
    <3>1. <<>> \in Seq(Requests) /\ 0 \in Nat /\ 0 \in 0 .. MaxRequests  BY <1>d
    <3> QED  BY <1>a, <2>1, <2>3, <3>1, Zenon DEF WorkersTypeOK, ThreadPoints, MainPoints
  <2>5. Placed'  BY <1>a, <2>1, <2>2, NoElements DEF Placed, Divide
  <2>6. ASSUME kind' = "port test" PROVE InLine'
    BY <1>a, <2>1, <2>2, <2>6, NoElements DEF InLine, Precedes
  <2> QED  BY <1>a, <1>b, <2>1, <2>4, <2>5, <2>6, Zenon DEF NothingForgotten, WorkersInv
<1>11. CASE TryQuit
  <2>1. /\ thread = "try" /\ thread' \in {"ended", "take"}
        /\ quit' \in {quit, "thread"} /\ dead' \in {dead, TRUE}
        /\ UNCHANGED <<whole, mains, queues, history, hand, cancelled, pipe>>
    BY <1>11, Zenon DEF TryQuit
  <2>2. dead' \in BOOLEAN  BY <1>a, <2>1, Zenon DEF WorkersTypeOK
  <2>3. WorkersTypeOK'  BY <1>a, <2>1, <2>2, Zenon DEF WorkersTypeOK, ThreadPoints
  <2>4. Placed' /\ (kind = "port test" => InLine)'  BY <2>1, <1>a, PlacesUnchanged
  <2> QED  BY <1>a, <1>b, <2>1, <2>3, <2>4, Zenon DEF NothingForgotten, Stopping, WorkersInv
<1>12. CASE Take
  <2>1. /\ thread = "take" /\ hand = 0
        /\ UNCHANGED <<whole, mains, ends, history, cancelled, finished, pipe>>
    BY <1>12, <1>a, Zenon DEF Take
  <2>2. CASE pending = <<>>
    <3>1. thread' = "wait" /\ UNCHANGED <<pending, hand>>  BY <1>12, <2>2 DEF Take
    <3>2. WorkersTypeOK'  BY <1>a, <2>1, <3>1, Zenon DEF WorkersTypeOK, ThreadPoints
    <3>3. Placed' /\ (kind = "port test" => InLine)'  BY <2>1, <3>1, <1>a, PlacesUnchanged
    <3> QED  BY <1>a, <1>b, <2>1, <2>2, <3>1, <3>2, <3>3, Zenon DEF NothingForgotten, Stopping, WorkersInv
  <2>3. CASE pending # <<>>
    <3> DEFINE r == Head(pending)
    <3>1. hand' = r /\ pending' = Tail(pending) /\ thread' = "work"  BY <1>12, <2>3 DEF Take
    <3>2. pending \in Seq(Requests) /\ Distinct(pending)  BY <1>a, <1>c DEF Placed
    <3>3. /\ pending' \in Seq(Requests) /\ r \in Elements(pending)
          /\ Elements(pending') = Elements(pending) \ {r} /\ Distinct(pending')
          /\ Rising(pending) => Rising(pending') /\ Precedes({r}, Elements(pending'))
      BY <2>3, <3>1, <3>2, ElementsTail
    <3>4. r \in Requests  BY <2>3, <3>2, HeadTailProperties
    <3>5. r # 0 /\ r \in 0 .. MaxRequests  BY <1>d, <3>4
    <3> HIDE DEF r
    <3>6. InHand = {} /\ InHand' = {r}  BY <2>1, <3>1, <3>5 DEF InHand
    <3>7. WorkersTypeOK'  BY <1>a, <2>1, <3>1, <3>3, <3>5, Zenon DEF WorkersTypeOK, ThreadPoints
    <3>8. Placed'
      <4>1. Divide(asked, Elements(answered), Elements(finished), InHand', Elements(pending'), dropped)
        <5>1. Divide(asked, Elements(answered), Elements(finished), {r}, Elements(pending) \ {r}, dropped)
          BY <1>e, <3>3, <3>6, DivideMoves, Zenon
        <5> QED  BY <3>3, <3>6, <5>1
      <4> QED  BY <1>a, <2>1, <3>3, <4>1 DEF Placed
    <3>9. ASSUME kind' = "port test" PROVE InLine'
      BY <1>a, <2>1, <3>3, <3>6, <3>9 DEF InLine, Precedes
    <3>10. r # 0 /\ hand' # 0  BY <3>1, <3>5
    <3> QED  BY <1>a, <1>b, <2>1, <3>1, <3>10, <3>7, <3>8, <3>9, Zenon DEF NothingForgotten, Stopping, WorkersInv
  <2> QED  BY <1>a, <1>b, <2>2, <2>3, Zenon DEF WorkersInv
<1>13. CASE Wakes \/ Dies \/ Work \/ LockFinished
  <2>1. /\ \/ thread = "wait" /\ thread' = "try"
           \/ cancelled /\ thread \in {"wait", "work", "write"} /\ thread' = "ended"
           \/ thread = "work" /\ thread' = "lock"
           \/ thread = "lock" /\ thread' = "store"
        /\ UNCHANGED <<whole, mains, queues, ends, history, hand, cancelled, pipe>>
    BY <1>13, Zenon DEF Wakes, Dies, Work, LockFinished
  <2>2. WorkersTypeOK'  BY <1>a, <2>1, Zenon DEF WorkersTypeOK, ThreadPoints
  <2>3. Placed' /\ (kind = "port test" => InLine)'  BY <2>1, <1>a, PlacesUnchanged
  <2>4. pending' = pending /\ finished' = finished /\ pipe' = pipe /\ main' = main  BY <2>1
  <2>5. thread' # "wait" /\ (thread \in {"store", "write"} => thread' \in {"store", "write"} \/ cancelled)
    BY <2>1, Zenon
  <2>6. NothingForgotten'  BY <1>a, <1>b, <2>4, <2>5, Zenon DEF NothingForgotten, Stopping
  <2> QED  BY <1>a, <1>b, <2>1, <2>2, <2>3, <2>6, Zenon DEF WorkersInv
<1>14. CASE Store
  <2>1. /\ thread = "store" /\ finished' = Append(finished, hand) /\ hand' = 0 /\ thread' = "write"
        /\ UNCHANGED <<whole, mains, ends, history, cancelled, pending, pipe>>
    BY <1>14 DEF Store
  <2>2. hand # 0 /\ hand \in Requests /\ InHand = {hand} /\ InHand' = {}
    <3>1. hand # 0  BY <1>a, <2>1, Zenon
    <3> QED  BY <1>c, <2>1, <3>1, WorkersAssumption DEF Requests, InHand
  <2>3. finished \in Seq(Requests) /\ hand \notin Elements(finished)
    BY <1>a, <1>c, <2>2 DEF Placed, Divide, InHand
  <2>4. /\ finished' \in Seq(Requests) /\ Elements(finished') = Elements(finished) \cup {hand}
        /\ Distinct(finished')
        /\ Rising(finished) /\ Precedes(Elements(finished), {hand}) => Rising(finished')
    <3>1. Requests \subseteq Nat  BY <1>d
    <3>2. Requests \subseteq Nat /\ hand \in Requests  BY <2>2, <3>1
    <3>3. Extends(Requests, finished, hand, Append(finished, hand))
      BY <2>3, <3>2, ElementsAppend, Zenon
    <3> QED  BY <1>e, <2>1, <2>3, <3>2, <3>3, Zenon DEF Extends
  <2>5. WorkersTypeOK'
    <3>1. 0 \in 0 .. MaxRequests  BY <1>d
    <3> QED  BY <1>a, <2>1, <2>4, <3>1, Zenon DEF WorkersTypeOK, ThreadPoints
  <2>6. Placed'
    <3>1. Divide(asked, Elements(answered), Elements(finished'), InHand', Elements(pending), dropped)
      <4>1. Divide(asked, Elements(answered), Elements(finished) \cup {hand}, {}, Elements(pending), dropped)
        BY <1>e, <2>2, DivideMoves, Zenon
      <4> QED  BY <2>2, <2>4, <4>1
    <3> QED  BY <1>a, <2>1, <2>4, <3>1 DEF Placed
  <2>7. ASSUME kind' = "port test" PROVE InLine'
    BY <1>a, <2>1, <2>2, <2>4, <2>7 DEF InLine, Precedes
  <2> QED  BY <1>a, <1>b, <2>1, <2>5, <2>6, <2>7, Zenon DEF NothingForgotten, WorkersInv
<1>15. CASE Write
  <2>1. /\ thread = "write" /\ pipe' = pipe + 1 /\ thread' = "try"
        /\ UNCHANGED <<whole, mains, queues, ends, history, hand, cancelled>>
    BY <1>15 DEF Write
  <2>2. pipe' \in Nat /\ pipe' > 0  BY <1>c, <2>1
  <2>3. WorkersTypeOK'  BY <1>a, <2>1, <2>2, Zenon DEF WorkersTypeOK, ThreadPoints
  <2>4. Placed' /\ (kind = "port test" => InLine)'  BY <2>1, <1>a, PlacesUnchanged
  <2> QED  BY <1>a, <1>b, <2>1, <2>2, <2>3, <2>4, Zenon DEF NothingForgotten, WorkersInv
<1>16. CASE UNCHANGED workerVars
  <2>1. Placed' /\ (kind = "port test" => InLine)'
    BY <1>16, <1>a, PlacesUnchanged DEF workerVars
  <2>2. WorkersTypeOK'  BY <1>16, <1>a, Zenon DEF workerVars, WorkersTypeOK
  <2> QED  BY <1>16, <1>a, <1>b, <2>1, <2>2, Zenon DEF workerVars, NothingForgotten, Stopping, WorkersInv
<1> QED
  BY <1>1, <1>2, <1>3, <1>4, <1>5, <1>6, <1>7, <1>8, <1>9, <1>10, <1>11, <1>12, <1>13,
     <1>14, <1>15, <1>16
  DEF WorkersNext, ThreadSteps, MainSteps, Commands

\* A queue without repetitions holds a request once or not.
LEMMA HeldOnce ==
    ASSUME NEW q, Distinct(q), NEW r
    PROVE  Cardinality({i \in DOMAIN q : q[i] = r}) = (IF r \in Elements(q) THEN 1 ELSE 0)
<1> DEFINE places == {i \in DOMAIN q : q[i] = r}
<1>1. CASE r \in Elements(q)
  <2>1. PICK i \in DOMAIN q : q[i] = r  BY <1>1 DEF Elements
  <2>2. places = {i}  BY <2>1 DEF Distinct
  <2> QED  BY <1>1, <2>2, FS_Singleton
<1>2. CASE r \notin Elements(q)
  <2>1. places = {}  BY <1>2 DEF Elements
  <2> QED  BY <1>2, <2>1, FS_EmptySet
<1> QED  BY <1>1, <1>2

\* So does a set.
LEMMA HeldInSet ==
    ASSUME NEW S, NEW r
    PROVE  Cardinality({x \in S : x = r}) = (IF r \in S THEN 1 ELSE 0)
<1>1. CASE r \in S
  <2>1. {x \in S : x = r} = {r}  BY <1>1
  <2> QED  BY <1>1, <2>1, FS_Singleton
<1>2. CASE r \notin S
  <2>1. {x \in S : x = r} = {}  BY <1>2
  <2> QED  BY <1>2, <2>1, FS_EmptySet
<1> QED  BY <1>1, <1>2

\* Requests in places that have nothing in common are counted once.
LEMMA PlacedOnce ==
    ASSUME Placed, asked \in Nat, NEW r \in Nat \ {0}
    PROVE  Holdings(r) = (IF r <= asked THEN 1 ELSE 0)
<1>1. /\ Cardinality({i \in DOMAIN pending : pending[i] = r}) = (IF r \in Elements(pending) THEN 1 ELSE 0)
      /\ Cardinality({i \in DOMAIN finished : finished[i] = r}) = (IF r \in Elements(finished) THEN 1 ELSE 0)
      /\ Cardinality({i \in DOMAIN answered : answered[i] = r}) = (IF r \in Elements(answered) THEN 1 ELSE 0)
      /\ Cardinality({x \in {hand} : x = r}) = (IF r \in {hand} THEN 1 ELSE 0)
      /\ Cardinality({x \in dropped : x = r}) = (IF r \in dropped THEN 1 ELSE 0)
  BY SMTT(30), HeldOnce, HeldInSet DEF Placed
<1>2. r \in {hand} <=> r \in InHand  BY DEF InHand
<1>3. r \in 1 .. asked <=> r <= asked  OBVIOUS
<1>4. CASE r \in 1 .. asked
  BY <1>1, <1>2, <1>3, <1>4 DEF Placed, Divide, Holdings
<1>5. CASE r \notin 1 .. asked
  BY <1>1, <1>2, <1>3, <1>5 DEF Placed, Divide, Holdings
<1> QED  BY <1>4, <1>5

\* No request to a worker thread is lost, doubled or slept on, whatever commands
\* come and however the thread is stopped, for every number of requests and of
\* lives of the thread; port tests are answered in the order of asking.
THEOREM RequestsAreSound == WorkersSpec => []RequestsSound
<1>1. WorkersInv => RequestsSound
  <2> SUFFICES ASSUME WorkersInv PROVE RequestsSound  OBVIOUS
  <2>1. Placed /\ NothingForgotten /\ (kind = "port test" => InLine) /\ WorkersTypeOK
    BY Zenon DEF WorkersInv
  <2>2. asked \in 0 .. MaxRequests  BY <2>1, Zenon DEF WorkersTypeOK
  <2>3. \A r \in Requests : Holdings(r) = (IF r <= asked THEN 1 ELSE 0)
    <3> SUFFICES ASSUME NEW r \in Requests PROVE Holdings(r) = (IF r <= asked THEN 1 ELSE 0)
      OBVIOUS
    <3>1. asked \in Nat /\ r \in Nat \ {0}  BY <2>2, WorkersAssumption DEF Requests
    <3> QED  BY <2>1, <3>1, PlacedOnce, Zenon
  <2>4. kind = "port test" => \A i, j \in DOMAIN answered : i < j => answered[i] < answered[j]
    BY <2>1, Zenon DEF InLine, Rising
  <2> QED  BY <2>1, <2>3, <2>4, Zenon DEF RequestsSound, AnsweredOnce
<1> QED  BY <1>1, WorkersInvInit, WorkersInvNext, PTL DEF WorkersSpec

----------------------------------------------------------------------------
(* The bytes of a file *)

\* What is before the file's bytes on the wire, while these are not reached.
Before ==
    IF getting = "start" THEN Digits + 1 ELSE IF getting = "size" THEN Digits ELSE 0

\* The byte at place i of the wire, of an upload that began where the download was.
ByteAt(i) ==
    IF i <= Before - Digits THEN Hello
      ELSE IF i <= Before THEN Digit ELSE resume + received + (i - Before) - 1

Going == getting \in {"start", "size", "data"}

BytesInv ==
    /\ ByteTransferTypeOK
    /\ seeker = "this" => MaxResumes = 0
    /\ resumes = 0 => resume = 0
    /\ Len(file) = resume + received /\ Len(file) <= expected
    /\ \A i \in 1 .. Len(file) : file[i] = i - 1
    /\ getting = "normal" => Len(file) = expected
    /\ ~ Going => wire = <<>> /\ sending = "ended"
    /\ getting \in {"start", "size"} => received = 0
    /\ Going => \A i \in 1 .. Len(wire) : wire[i] = ByteAt(i)
    /\ Going /\ sending = "request" => Len(wire) = Before - Digits /\ getting # "data"
    /\ Going /\ sending = "data" =>
           resume + received <= offset /\ Len(wire) + resume + received = Before + offset

\* Bytes put behind those on the wire.
LEMMA WireAppend ==
    ASSUME NEW S, NEW w \in Seq(S), NEW n \in Nat, NEW t \in Seq(S), Len(t) = n
    PROVE  /\ w \o t \in Seq(S) /\ Len(w \o t) = Len(w) + n
           /\ \A i \in 1 .. Len(w) : (w \o t)[i] = w[i]
           /\ \A i \in Len(w) + 1 .. Len(w) + n : (w \o t)[i] = t[i - Len(w)]
<1> DEFINE all == w \o t
<1>1. Len(w) \in Nat  BY LenProperties
<1>2. /\ all \in Seq(S) /\ Len(all) = Len(w) + Len(t)
      /\ \A i \in 1 .. Len(w) + Len(t) : all[i] = IF i <= Len(w) THEN w[i] ELSE t[i - Len(w)]
  BY ConcatProperties
<1> HIDE DEF all
<1> QED  BY <1>1, <1>2 DEF all

\* A transfer begins with nothing but the greeting on the wire.
LEMMA BytesInvInit ==
    ASSUME Seekers = {"other"} \/ MaxResumes = 0
    PROVE  ByteTransferInit => BytesInv
<1> SUFFICES ASSUME ByteTransferInit PROVE BytesInv  OBVIOUS
<1>1. /\ sending = "request" /\ offset = 0 /\ wire = <<Hello>> /\ open = TRUE
      /\ getting = "start" /\ resume = 0 /\ received = 0 /\ file = <<>> /\ resumes = 0
      /\ seeker \in Seekers
  BY Zenon DEF ByteTransferInit
<1>2. <<expected, actual>> \in FileSizes /\ expected \in Nat /\ actual \in Nat
  <2>1. PICK pair \in FileSizes : expected = pair[1] /\ actual = pair[2]
    BY Zenon DEF ByteTransferInit
  <2> QED  BY <2>1, ByteTransferAssumption
<1> HIDE DEF ByteTransferInit
<1>3. ByteTransferTypeOK
  <2>1. wire \in Seq({Hello, Digit} \cup 0 .. actual) /\ file \in Seq({Digit} \cup 0 .. actual)
    BY <1>1
  <2>2. resume \in Nat /\ received \in Nat /\ resumes \in 0 .. MaxResumes /\ offset \in 0 .. actual
    BY <1>1, <1>2, ByteTransferAssumption
  <2>3. seeker \in {"this", "other"}  BY <1>1, ByteTransferAssumption, Zenon
  <2> QED  BY <1>1, <1>2, <2>1, <2>2, <2>3, Zenon DEF ByteTransferTypeOK
<1>4. \A i \in 1 .. Len(wire) : wire[i] = ByteAt(i)
  BY <1>1, ByteTransferAssumption DEF ByteAt, Before
<1>5. seeker = "this" => MaxResumes = 0  BY <1>1, Zenon
<1>6. Len(file) = 0 /\ Len(wire) = Before - Digits /\ Len(file) = resume + received
  BY <1>1, ByteTransferAssumption DEF Before
<1>7. Len(file) <= expected  BY <1>2, <1>6
<1>8. \A i \in 1 .. Len(file) : file[i] = i - 1  BY <1>6
<1> QED  BY <1>1, <1>3, <1>4, <1>5, <1>6, <1>7, <1>8, Zenon DEF BytesInv, Going

\* No step of either side, and no breaking off, misplaces a byte.
LEMMA BytesInvNext ==
    ASSUME BytesInv, [ByteTransferNext]_byteVars, SizeSplit = FALSE
    PROVE  BytesInv'
<1>a. /\ resume \in Nat /\ received \in Nat /\ offset \in Nat /\ offset <= actual
      /\ actual \in Nat /\ expected \in Nat /\ Digits \in Nat \ {0} /\ Chunk \in Nat \ {0}
      /\ wire \in Seq({Hello, Digit} \cup 0 .. actual) /\ file \in Seq({Digit} \cup 0 .. actual)
      /\ resumes \in 0 .. MaxResumes /\ MaxResumes \in Nat
      /\ Len(wire) \in Nat /\ Len(file) \in Nat
  <2>1. /\ resume \in Nat /\ received \in Nat /\ offset \in 0 .. actual
        /\ wire \in Seq({Hello, Digit} \cup 0 .. actual) /\ file \in Seq({Digit} \cup 0 .. actual)
        /\ resumes \in 0 .. MaxResumes /\ <<expected, actual>> \in FileSizes
    BY Zenon DEF BytesInv, ByteTransferTypeOK
  <2>2. <<expected, actual>> \in Nat \X Nat  BY <2>1, ByteTransferAssumption
  <2>3. Len(wire) \in Nat /\ Len(file) \in Nat  BY <2>1, LenProperties
  <2> QED  BY <2>1, <2>2, <2>3, ByteTransferAssumption
<1>b. /\ ByteTransferTypeOK
      /\ seeker = "this" => MaxResumes = 0
      /\ resumes = 0 => resume = 0
      /\ Len(file) = resume + received /\ Len(file) <= expected
      /\ \A i \in 1 .. Len(file) : file[i] = i - 1
      /\ getting = "normal" => Len(file) = expected
      /\ ~ Going => wire = <<>> /\ sending = "ended"
      /\ getting \in {"start", "size"} => received = 0
      /\ Going => \A i \in 1 .. Len(wire) : wire[i] = ByteAt(i)
      /\ Going /\ sending = "request" => Len(wire) = Before - Digits /\ getting # "data"
      /\ Going /\ sending = "data" =>
           resume + received <= offset /\ Len(wire) + resume + received = Before + offset
  BY Zenon DEF BytesInv
<1>c. getting \in {"start", "size", "data", "normal", "premature"} /\ sending \in {"request", "data", "ended"}
      /\ seeker \in {"this", "other"}
  BY <1>b, Zenon DEF ByteTransferTypeOK
<1>d. ~ SizeSplit  OBVIOUS
<1> HIDE DEF BytesInv
<1> USE DEF sizes, download, upload
\* The uploading side closes; nothing else changes.
<1>1. CASE /\ sending' = "ended" /\ open' = FALSE
           /\ UNCHANGED <<sizes, download, offset, wire, resumes>>
  <2>1. ByteTransferTypeOK'  BY <1>1, <1>b, Zenon DEF ByteTransferTypeOK
  <2>2. /\ Before' = Before /\ Going' = Going /\ \A i : ByteAt(i)' = ByteAt(i)
    BY <1>1 DEF Before, Going, ByteAt
  <2>3. UNCHANGED <<seeker, resumes, resume, received, file, expected, getting, wire>> /\ sending' = "ended"
    BY <1>1
  <2> QED  BY <1>b, <2>1, <2>2, <2>3, Zenon DEF BytesInv
\* The download ends.
<1>2. ASSUME NEW how \in {"normal", "premature"}, Finish(how),
             UNCHANGED <<sizes, offset, resume, received, file, resumes>>,
             how = "normal" => Len(file) = expected
      PROVE  BytesInv'
  <2>1. /\ getting' = how /\ wire' = <<>> /\ sending' = "ended" /\ open' = FALSE
        /\ UNCHANGED <<seeker, resumes, resume, received, file, expected, actual, offset>>
    BY <1>2 DEF Finish
  <2>2. <<>> \in Seq({Hello, Digit} \cup 0 .. actual)  OBVIOUS
  <2>3. ByteTransferTypeOK'  BY <2>1, <2>2, <1>b, Zenon DEF ByteTransferTypeOK
  <2>4. ~ Going' /\ getting' \notin {"start", "size"} /\ (getting' = "normal" => Len(file) = expected)
    BY <1>2, <2>1 DEF Going
  <2> QED  BY <1>b, <2>1, <2>3, <2>4, Zenon DEF BytesInv
<1>3. CASE NapfileRead
  <2>1. sending = "request" /\ UNCHANGED <<sizes, download, resumes>>  BY <1>3 DEF NapfileRead
  <2>2. CASE resume >= actual
    BY <1>1, <1>3, <2>1, <2>2 DEF NapfileRead
  <2>3. CASE ~ (resume >= actual)
    <3> DEFINE digits == [i \in 1 .. Digits |-> Digit]
    <3>1. sending' = "data" /\ offset' = Seek(resume) /\ wire' = wire \o digits /\ open' = open
      BY <1>3, <2>3 DEF NapfileRead
    <3>2. Seek(resume) = resume
      <4>1. CASE seeker = "other"  BY <4>1 DEF Seek
      <4>2. CASE seeker = "this"
        <5>1. resume = 0  BY <1>a, <1>b, <4>2
        <5> QED  BY <4>2, <5>1 DEF Seek
      <4> QED  BY <1>c, <4>1, <4>2
    <3>3. Going /\ getting # "data" /\ Len(wire) = Before - Digits /\ received = 0
      BY <1>b, <1>c, <2>1 DEF Going
    <3>4. digits \in Seq({Hello, Digit} \cup 0 .. actual) /\ Len(digits) = Digits
          /\ \A i \in 1 .. Digits : digits[i] = Digit
      BY <1>a
    <3> HIDE DEF digits
    <3>5. /\ wire' \in Seq({Hello, Digit} \cup 0 .. actual) /\ Len(wire') = Len(wire) + Digits
          /\ \A i \in 1 .. Len(wire) : wire'[i] = wire[i]
          /\ \A i \in Len(wire) + 1 .. Len(wire) + Digits : wire'[i] = digits[i - Len(wire)]
      BY <1>a, <3>1, <3>4, WireAppend
    <3>6. Before' = Before /\ Going' /\ \A i : ByteAt(i)' = ByteAt(i)
      BY <2>1, <3>3 DEF Before, Going, ByteAt
    <3>7. ByteTransferTypeOK'
      <4>1. offset' \in 0 .. actual  BY <1>a, <2>3, <3>1, <3>2
      <4> QED  BY <1>b, <2>1, <3>1, <3>5, <4>1, Zenon DEF ByteTransferTypeOK
    <3>8. \A i \in 1 .. Len(wire') : wire'[i] = ByteAt(i)
      <4> SUFFICES ASSUME NEW i \in 1 .. Len(wire') PROVE wire'[i] = ByteAt(i)
        OBVIOUS
      <4>1. CASE i <= Len(wire)  BY <1>a, <1>b, <3>3, <3>5, <4>1
      <4>2. CASE i > Len(wire)
        <5>1. Before \in Nat  BY <1>a DEF Before
        <5>2. i - Len(wire) \in 1 .. Digits /\ i > Before - Digits /\ i <= Before
          BY <1>a, <3>3, <3>5, <4>2, <5>1
        <5> QED  BY <1>a, <3>4, <3>5, <4>2, <5>1, <5>2 DEF ByteAt
      <4> QED  BY <1>a, <3>5, <4>1, <4>2
    <3>9. resume + received <= offset' /\ Len(wire') + resume + received = Before + offset'
      <4>1. Before \in Nat  BY <1>a DEF Before
      <4> QED  BY <1>a, <3>1, <3>2, <3>3, <3>5, <4>1
    <3>10. UNCHANGED <<seeker, resumes, resume, received, file, expected, getting>> /\ sending' = "data"
      BY <2>1, <3>1
    <3> QED  BY <1>b, <3>6, <3>7, <3>8, <3>9, <3>10, Zenon DEF BytesInv
  <2> QED  BY <2>2, <2>3
<1>4. CASE NapfileSendfile
  <2> DEFINE numread == Fewer(Chunk, actual - offset)
  <2>1. sending = "data" /\ offset < actual /\ UNCHANGED <<sizes, sending, open, download, resumes>>
    BY <1>4 DEF NapfileSendfile
  <2>2. PICK rc \in 1 .. numread : Sent(numread, rc)
    BY <1>4 DEF NapfileSendfile
  <2> DEFINE bytes == [i \in 1 .. rc |-> offset + i - 1]
  <2>3. rc \in Nat \ {0} /\ rc <= actual - offset
    BY <1>a, <2>1 DEF Fewer
  <2>4. wire' = wire \o bytes /\ offset' = offset + rc  BY <2>2 DEF Sent
  <2>5. bytes \in Seq({Hello, Digit} \cup 0 .. actual) /\ Len(bytes) = rc
        /\ \A i \in 1 .. rc : bytes[i] = offset + i - 1
    BY <1>a, <2>3
  <2> HIDE DEF bytes, numread
  <2>6. /\ wire' \in Seq({Hello, Digit} \cup 0 .. actual) /\ Len(wire') = Len(wire) + rc
        /\ \A i \in 1 .. Len(wire) : wire'[i] = wire[i]
        /\ \A i \in Len(wire) + 1 .. Len(wire) + rc : wire'[i] = bytes[i - Len(wire)]
    BY <1>a, <2>3, <2>4, <2>5, WireAppend
  <2>7. ByteTransferTypeOK'
    <3>1. offset' \in 0 .. actual  BY <1>a, <2>3, <2>4
    <3> QED  BY <1>b, <2>1, <2>6, <3>1, Zenon DEF ByteTransferTypeOK
  <2>8. Going /\ resume + received <= offset /\ Len(wire) + resume + received = Before + offset
    BY <1>b, <2>1
  <2>9. Before' = Before /\ Going' /\ \A i : ByteAt(i)' = ByteAt(i)
    BY <2>1, <2>8 DEF Before, Going, ByteAt
  <2>10. Before \in Nat  BY <1>a DEF Before
  <2>11. \A i \in 1 .. Len(wire') : wire'[i] = ByteAt(i)
    <3> SUFFICES ASSUME NEW i \in 1 .. Len(wire') PROVE wire'[i] = ByteAt(i)
      OBVIOUS
    <3>1. CASE i <= Len(wire)  BY SMTT(30), <1>a, <1>b, <2>8, <2>6, <3>1
    <3>2. CASE i > Len(wire)
      <4>1. i - Len(wire) \in 1 .. rc  BY <1>a, <2>3, <2>6, <3>2
      <4>2. wire'[i] = offset + (i - Len(wire)) - 1  BY <2>5, <2>6, <1>a, <2>3, <3>2, <4>1
      <4>3. Len(wire) >= Before  BY <1>a, <2>8, <2>10
      <4>4. i > Before  BY <1>a, <2>10, <3>2, <4>3
      <4> QED  BY <1>a, <2>8, <2>10, <4>2, <4>4 DEF ByteAt
    <3> QED  BY <1>a, <2>6, <3>1, <3>2
  <2>12. resume + received <= offset' /\ Len(wire') + resume + received = Before + offset'
    <3>1. offset' = offset + rc /\ Len(wire') = Len(wire) + rc /\ rc \in Nat
      BY <2>3, <2>4, <2>6
    <3>2. resume + received <= offset /\ Len(wire) + resume + received = Before + offset
      BY <2>8
    <3>3. resume \in Nat /\ received \in Nat /\ offset \in Nat /\ Len(wire) \in Nat  BY <1>a
    <3>4. resume + received <= offset'  BY <3>1, <3>2, <3>3
    <3>5. Len(wire') + resume + received = Before + offset'  BY <2>10, <3>1, <3>2, <3>3
    <3> QED  BY <3>4, <3>5
  <2>13. UNCHANGED <<seeker, resumes, resume, received, file, expected, getting>> /\ sending' = "data"
    BY <2>1
  <2> QED  BY <1>b, <2>7, <2>9, <2>11, <2>12, <2>13, Zenon DEF BytesInv
<1>5. CASE UploadEnds
  BY <1>1, <1>5 DEF UploadEnds
<1>6. CASE NapGetfilestart
  <2>1. /\ getting = "start" /\ wire # <<>> /\ getting' = "size" /\ wire' = Tail(wire)
        /\ UNCHANGED <<sizes, upload, resume, received, file, resumes>>
    BY <1>6 DEF NapGetfilestart
  <2>2. /\ wire' \in Seq({Hello, Digit} \cup 0 .. actual) /\ Len(wire') = Len(wire) - 1
        /\ \A i \in 1 .. Len(wire') : wire'[i] = wire[i + 1]
    BY <1>a, <2>1, HeadTailProperties
  <2>3. ByteTransferTypeOK'  BY <1>b, <2>1, <2>2, Zenon DEF ByteTransferTypeOK
  <2>4. Going /\ Going' /\ received = 0  BY <1>b, <2>1 DEF Going
  <2>5. Before = Digits + 1 /\ Before' = Digits  BY <2>1 DEF Before
  <2>6. \A i \in 1 .. Len(wire') : wire'[i] = ByteAt(i)'
    <3> SUFFICES ASSUME NEW i \in 1 .. Len(wire') PROVE wire'[i] = ByteAt(i)'
      OBVIOUS
    <3>1. i + 1 \in 1 .. Len(wire) /\ i \in Nat \ {0}  BY <1>a, <2>2
    <3>2. wire'[i] = ByteAt(i + 1)  BY <1>b, <2>2, <2>4, <3>1
    <3> QED  BY <1>a, <2>1, <2>5, <3>1, <3>2 DEF ByteAt
  <2>7. sending = "request" => Len(wire') = Before' - Digits
    BY <1>a, <1>b, <2>2, <2>4, <2>5
  <2>8. sending = "data" =>
            resume + received <= offset /\ Len(wire') + resume + received = Before' + offset
    BY <1>a, <1>b, <2>2, <2>4, <2>5
  <2>9. /\ UNCHANGED <<seeker, resumes, resume, received, file, expected, sending, offset>>
        /\ getting' = "size"
    BY <2>1
  <2> QED  BY <1>b, <2>3, <2>4, <2>6, <2>7, <2>8, <2>9, Zenon DEF BytesInv
<1>7. CASE NapGetfileSize
  <2>1. getting = "size" /\ UNCHANGED <<sizes, offset, resume, received, file, resumes>>
    BY <1>7 DEF NapGetfileSize
  <2>2. CASE Finish("premature")
    BY <1>2, <2>1, <2>2
  <2>3. CASE ~ Finish("premature")
    <3>1. PICK n \in 1 .. Fewer(Digits, Len(wire)) :
            /\ n < Digits => SizeSplit
            /\ wire' = SubSeq(wire, n + 1, Len(wire))
            /\ getting' = (IF n = Digits THEN "data" ELSE "size")
            /\ UNCHANGED <<sending, open>>
      BY <1>7, <2>3, Zenon DEF NapGetfileSize
    <3>2. n \in Nat /\ n <= Digits /\ n <= Len(wire)  BY <1>a DEF Fewer
    <3>3. n = Digits  BY <1>a, <1>d, <3>1, <3>2
    <3>4. wire' = SubSeq(wire, Digits + 1, Len(wire)) /\ getting' = "data" /\ Digits <= Len(wire)
      BY <3>1, <3>2, <3>3
    <3>5. /\ wire' \in Seq({Hello, Digit} \cup 0 .. actual) /\ Len(wire') = Len(wire) - Digits
          /\ \A i \in 1 .. Len(wire') : wire'[i] = wire[Digits + i]
      <4>1. Digits + 1 \in 1 .. Len(wire) + 1  BY <1>a, <3>4
      <4>2. /\ wire' \in Seq({Hello, Digit} \cup 0 .. actual) /\ Len(wire') = Len(wire) - (Digits + 1) + 1
            /\ \A i \in 1 .. Len(wire) - (Digits + 1) + 1 : wire'[i] = wire[Digits + 1 + i - 1]
        BY <1>a, <3>4, <4>1, BehindProperties
      <4> QED  BY SMTT(30), <1>a, <4>2
    <3>6. ByteTransferTypeOK'  BY <1>b, <2>1, <3>1, <3>4, <3>5, Zenon DEF ByteTransferTypeOK
    <3>7. Going /\ Going' /\ Before = Digits /\ Before' = 0
      BY <2>1, <3>4 DEF Before, Going
    <3>8. \A i \in 1 .. Len(wire') : wire'[i] = ByteAt(i)'
      <4> SUFFICES ASSUME NEW i \in 1 .. Len(wire') PROVE wire'[i] = ByteAt(i)'
        OBVIOUS
      <4>1. Digits + i \in 1 .. Len(wire) /\ i \in Nat \ {0}  BY <1>a, <3>5
      <4>2. wire'[i] = ByteAt(Digits + i)  BY <1>b, <3>5, <3>7, <4>1
      <4> QED  BY <1>a, <2>1, <3>7, <4>1, <4>2 DEF ByteAt
    <3>9. sending # "request"  BY <1>a, <1>b, <3>4, <3>7
    <3>10. sending = "data" =>
              resume + received <= offset /\ Len(wire') + resume + received = Before' + offset
      BY <1>a, <1>b, <3>5, <3>7
    <3>11. UNCHANGED <<seeker, resumes, resume, received, file, expected, sending, offset>>
      BY <2>1, <3>1
    <3> QED  BY <1>b, <3>4, <3>6, <3>7, <3>8, <3>9, <3>10, <3>11, Zenon DEF BytesInv
  <2> QED  BY <2>2, <2>3
<1>8. CASE NapGetfile
  <2>1. PICK n \in 1 .. Fewer(Chunk, Len(wire)) :
          /\ getting = "data" /\ Count(n) > 0
          /\ file' = [i \in 1 .. resume + received + Count(n) |->
                         IF i <= resume + received THEN file[i] ELSE wire[i - resume - received]]
          /\ received' = received + Count(n)
          /\ IF received' + resume >= expected
               THEN Finish("normal")
               ELSE /\ wire' = SubSeq(wire, Count(n) + 1, Len(wire))
                    /\ UNCHANGED <<getting, sending, open>>
          /\ UNCHANGED <<sizes, offset, resume, resumes>>
    BY <1>8, Zenon DEF NapGetfile
  <2> DEFINE rc == Count(n)
  <2>2. rc \in Nat \ {0} /\ rc <= Len(wire) /\ resume + received + rc <= expected
    BY <1>a, <1>b, <2>1 DEF Fewer, Count
  <2> HIDE DEF rc
  <2>3. Going /\ Before = 0 /\ \A i \in 1 .. Len(wire) : wire[i] = resume + received + i - 1
    <3>1. Going /\ Before = 0  BY <2>1 DEF Going, Before
    <3> QED  BY <1>a, <1>b, <3>1 DEF ByteAt
  <2>4. /\ file' \in Seq({Digit} \cup 0 .. actual) /\ Len(file') = resume + received + rc
        /\ \A i \in 1 .. Len(file') : file'[i] = i - 1
    <3> DEFINE m == resume + received + rc
    <3>1. m \in Nat /\ Len(file) = resume + received  BY <1>a, <1>b, <2>2
    <3>2. \A i \in 1 .. m :
            (IF i <= resume + received THEN file[i] ELSE wire[i - resume - received]) = i - 1
      <4> SUFFICES ASSUME NEW i \in 1 .. m
                   PROVE  (IF i <= resume + received THEN file[i] ELSE wire[i - resume - received])
                              = i - 1
        OBVIOUS
      <4>1. CASE i <= resume + received  BY <1>a, <1>b, <4>1
      <4>2. CASE i > resume + received
        <5>1. i - resume - received \in 1 .. Len(wire)  BY <1>a, <2>2, <4>2
        <5> QED  BY <1>a, <2>3, <4>2, <5>1
      <4> QED  BY <1>a, <4>1, <4>2
    <3>3. file' = [i \in 1 .. m |-> i - 1]  BY <2>1, <3>2 DEF rc
    <3>4. \A i \in 1 .. m : i - 1 \in {Digit} \cup 0 .. actual
      <4>1. \A i \in 1 .. m : i <= resume + received => i - 1 \in {Digit} \cup 0 .. actual
        <5>1. \A i \in 1 .. Len(file) : file[i] \in {Digit} \cup 0 .. actual
          BY <1>a, ElementOfSeq
        <5> QED  BY <1>a, <1>b, <5>1
      <4>2. \A i \in 1 .. m : i > resume + received => i - 1 \in {Digit} \cup 0 .. actual
        <5> SUFFICES ASSUME NEW i \in 1 .. m, i > resume + received
                     PROVE  i - 1 \in {Digit} \cup 0 .. actual
          OBVIOUS
        <5>1. i - resume - received \in 1 .. Len(wire)  BY <1>a, <2>2
        <5>2. wire[i - resume - received] \in {Hello, Digit} \cup 0 .. actual
          BY <1>a, <5>1, ElementOfSeq
        <5>3. wire[i - resume - received] = i - 1  BY <1>a, <2>3, <5>1
        <5> QED  BY <1>a, <5>2, <5>3 DEF Hello
      <4> QED  BY <1>a, <3>1, <4>1, <4>2
    <3> HIDE DEF m
    <3>5. file' \in Seq({Digit} \cup 0 .. actual) /\ Len(file') = m
          /\ \A i \in 1 .. m : file'[i] = i - 1
      BY <3>1, <3>3, <3>4
    <3> QED  BY <3>5 DEF m
  <2>5. received' = received + rc /\ received' \in Nat /\ Len(file') = resume + received'
        /\ Len(file') <= expected
    <3>1. received' = received + rc  BY <2>1 DEF rc
    <3>2. received \in Nat /\ resume \in Nat /\ expected \in Int  BY <1>a
    <3> QED  BY <2>2, <2>4, <3>1, <3>2
  <2>6. UNCHANGED <<seeker, expected, actual, offset, resume, resumes>>  BY <2>1
  <2>7. CASE received' + resume >= expected
    <3>1. getting' = "normal" /\ wire' = <<>> /\ sending' = "ended" /\ open' = FALSE
      BY <2>1, <2>7 DEF Finish
    <3>2. <<>> \in Seq({Hello, Digit} \cup 0 .. actual)  OBVIOUS
    <3>3. ByteTransferTypeOK'  BY <1>b, <2>4, <2>5, <2>6, <3>1, <3>2, Zenon DEF ByteTransferTypeOK
    <3>4. Len(file') = expected  BY <1>a, <2>5, <2>7
    <3>5. ~ Going' /\ getting' \notin {"start", "size"}  BY <3>1 DEF Going
    <3> QED  BY <1>b, <2>4, <2>5, <2>6, <3>1, <3>3, <3>4, <3>5, Zenon DEF BytesInv
  <2>8. CASE ~ (received' + resume >= expected)
    <3>1. wire' = SubSeq(wire, rc + 1, Len(wire)) /\ UNCHANGED <<getting, sending, open>>
      BY <2>1, <2>8 DEF rc
    <3>2. /\ wire' \in Seq({Hello, Digit} \cup 0 .. actual) /\ Len(wire') = Len(wire) - rc
          /\ \A i \in 1 .. Len(wire') : wire'[i] = wire[rc + i]
      <4>1. rc + 1 \in 1 .. Len(wire) + 1  BY <1>a, <2>2
      <4>2. /\ wire' \in Seq({Hello, Digit} \cup 0 .. actual) /\ Len(wire') = Len(wire) - (rc + 1) + 1
            /\ \A i \in 1 .. Len(wire) - (rc + 1) + 1 : wire'[i] = wire[rc + 1 + i - 1]
        BY <1>a, <3>1, <4>1, BehindProperties
      <4> QED  BY <1>a, <2>2, <4>2
    <3>3. ByteTransferTypeOK'  BY <1>b, <2>4, <2>5, <2>6, <3>1, <3>2, Zenon DEF ByteTransferTypeOK
    <3>4. Going' /\ Before' = 0  BY <2>1, <3>1 DEF Going, Before
    <3>5. \A i \in 1 .. Len(wire') : wire'[i] = ByteAt(i)'
      <4> SUFFICES ASSUME NEW i \in 1 .. Len(wire') PROVE wire'[i] = ByteAt(i)'
        OBVIOUS
      <4>1. rc + i \in 1 .. Len(wire) /\ i \in Nat \ {0}  BY <1>a, <2>2, <3>2
      <4>2. wire'[i] = resume + received + (rc + i) - 1  BY <2>3, <3>2, <4>1
      <4> QED  BY <1>a, <2>2, <2>5, <2>6, <3>4, <4>1, <4>2 DEF ByteAt
    <3>6. sending # "request"  BY <1>b, <2>1, <2>3
    <3>7. sending = "data" =>
              resume + received' <= offset /\ Len(wire') + resume + received' = Before' + offset
      <4> SUFFICES ASSUME sending = "data"
                   PROVE  resume + received' <= offset
                            /\ Len(wire') + resume + received' = Before' + offset
        OBVIOUS
      <4>1. Len(wire') \in Nat  BY <3>2, LenProperties
      <4>2. Len(wire) + resume + received = offset  BY <1>a, <1>b, <2>3
      <4>3. received' = received + rc /\ Len(wire') = Len(wire) - rc /\ Before' = 0 /\ rc \in Nat
        BY <2>2, <2>5, <3>2, <3>4
      <4> QED  BY <1>a, <4>1, <4>2, <4>3
    <3>8. getting' = "data" /\ sending' = sending  BY <2>1, <3>1
    <3> QED  BY <1>b, <2>4, <2>5, <2>6, <3>3, <3>4, <3>5, <3>6, <3>7, <3>8, Zenon DEF BytesInv
  <2> QED  BY <2>7, <2>8
<1>9. CASE NapGetfileEnds
  <2> DEFINE how == IF received + resume >= expected THEN "normal" ELSE "premature"
  <2>1. Finish(how) /\ UNCHANGED <<sizes, offset, resume, received, file, resumes>>
    BY <1>9 DEF NapGetfileEnds
  <2>2. how \in {"normal", "premature"} /\ (how = "normal" => Len(file) = expected)
    BY <1>a, <1>b
  <2> HIDE DEF how
  <2> QED  BY <1>2, <2>1, <2>2
<1>10. CASE DownloadFails
  BY <1>2, <1>10 DEF DownloadFails
<1>11. CASE ResumeTransfer
  <2>1. /\ getting = "premature" /\ resumes < MaxResumes /\ resumes' = resumes + 1
        /\ resume' = Len(file) /\ received' = 0 /\ getting' = "start" /\ sending' = "request"
        /\ offset' = 0 /\ wire' = <<Hello>> /\ open' = TRUE /\ UNCHANGED <<sizes, file>>
    BY <1>11 DEF ResumeTransfer
  <2>2. ByteTransferTypeOK'
    <3>1. wire' \in Seq({Hello, Digit} \cup 0 .. actual)  BY <2>1
    <3>2. resume' \in Nat /\ received' \in Nat /\ resumes' \in 0 .. MaxResumes /\ offset' \in 0 .. actual
      BY <1>a, <2>1
    <3> QED  BY <1>b, <2>1, <3>1, <3>2, Zenon DEF ByteTransferTypeOK
  <2>3. Before' = Digits + 1 /\ Going' /\ Len(wire') = Before' - Digits
    BY <1>a, <2>1 DEF Before, Going
  <2>4. \A i \in 1 .. Len(wire') : wire'[i] = ByteAt(i)'
    BY <1>a, <2>1, <2>3 DEF ByteAt
  <2>5. resumes' # 0 /\ Len(file) = resume' + received'  BY <1>a, <2>1
  <2>6. UNCHANGED <<seeker, expected, file>>  BY <2>1
  <2> QED  BY <1>b, <2>1, <2>2, <2>3, <2>4, <2>5, <2>6, Zenon DEF BytesInv
<1>12. CASE UNCHANGED byteVars
  BY <1>12, <1>b, Zenon DEF byteVars, BytesInv, ByteTransferTypeOK, Before, Going, ByteAt
<1> QED
  BY <1>3, <1>4, <1>5, <1>6, <1>7, <1>8, <1>9, <1>10, <1>11, <1>12 DEF ByteTransferNext

\* However often a transfer is cut off and taken up again, each byte written is the
\* byte of the file at that place, and a transfer that ends normally has written as
\* much as was expected: for every size, chunk and number of resumes.  The sender
\* seeks rightly, as other clients do, or is never asked to (send.c 337 has the
\* arguments of lseek exchanged), and the digits of the size come in one piece
\* (files.c 495).
THEOREM BytesAreInPlace ==
    ASSUME Seekers = {"other"} \/ MaxResumes = 0, SizeSplit = FALSE
    PROVE  ByteTransferSpec => []BytesInPlace
<1>1. BytesInv => BytesInPlace
  <2> SUFFICES ASSUME BytesInv PROVE BytesInPlace  OBVIOUS
  <2>1. /\ \A i \in 1 .. Len(file) : file[i] = i - 1
        /\ getting = "normal" => Len(file) = expected
        /\ file \in Seq({Digit} \cup 0 .. actual)
    BY Zenon DEF BytesInv, ByteTransferTypeOK
  <2>2. DOMAIN file = 1 .. Len(file)  BY <2>1, LenProperties
  <2> QED  BY <2>1, <2>2, Zenon DEF BytesInPlace
<1> QED  BY <1>1, BytesInvInit, BytesInvNext, PTL DEF ByteTransferSpec

----------------------------------------------------------------------------
(* The list of unfinished downloads *)

\* A line read is on the list once, and nothing else is lost or added.
LEMMA AddOnceKeeps ==
    ASSUME NEW S, NEW q \in Seq(S), IsInjective(q), NEW c \in S
    PROVE  /\ AddOnce(q, c) \in Seq(S) /\ IsInjective(AddOnce(q, c))
           /\ Lines(AddOnce(q, c)) = Lines(q) \cup {c}
<1>1. Len(q) \in Nat /\ DOMAIN q = 1 .. Len(q)  BY LenProperties
<1>2. CASE c \in Lines(q)
  BY <1>2 DEF AddOnce
<1>3. CASE c \notin Lines(q)
  <2> DEFINE new == <<c>> \o q
  <2>1. <<c>> \in Seq(S) /\ Len(<<c>>) = 1 /\ <<c>>[1] = c  OBVIOUS
  <2>2. /\ new \in Seq(S) /\ Len(new) = Len(<<c>>) + Len(q)
        /\ \A i \in 1 .. Len(<<c>>) + Len(q) :
             new[i] = IF i <= Len(<<c>>) THEN <<c>>[i] ELSE q[i - Len(<<c>>)]
    BY <2>1, ConcatProperties
  <2>3. AddOnce(q, c) = new  BY <1>3 DEF AddOnce, AddLine
  <2> HIDE DEF new
  <2>4. /\ DOMAIN new = 1 .. Len(q) + 1 /\ new[1] = c
        /\ \A i \in 2 .. Len(q) + 1 : new[i] = q[i - 1] /\ i - 1 \in DOMAIN q
    BY <1>1, <2>1, <2>2, LenProperties
  <2>5. Lines(new) = Lines(q) \cup {c}
    <3>1. ASSUME NEW i \in DOMAIN new PROVE new[i] \in Lines(q) \cup {c}
      <4>1. CASE i = 1  BY <2>4, <4>1
      <4>2. CASE i \in 2 .. Len(q) + 1  BY <2>4, <4>2 DEF Lines
      <4> QED  BY <1>1, <2>4, <4>1, <4>2
    <3>2. ASSUME NEW i \in DOMAIN q PROVE q[i] \in Lines(new)
      <4>1. i + 1 \in 2 .. Len(q) + 1 /\ (i + 1) - 1 = i  BY <1>1
      <4>2. i + 1 \in DOMAIN new /\ new[i + 1] = q[i]  BY <1>1, <2>4, <4>1
      <4> QED  BY <4>2 DEF Lines
    <3>3. c \in Lines(new)
      <4>1. 1 \in DOMAIN new  BY <1>1, <2>4
      <4> QED  BY <2>4, <4>1 DEF Lines
    <3> QED  BY <3>1, <3>2, <3>3 DEF Lines
  <2>6. IsInjective(new)
    <3>1. \A i \in DOMAIN q : q[i] # c  BY <1>3 DEF Lines
    <3> SUFFICES ASSUME NEW i \in DOMAIN new, NEW j \in DOMAIN new, new[i] = new[j]
                 PROVE  i = j
      BY DEF IsInjective
    <3>2. i = 1 \/ i \in 2 .. Len(q) + 1  BY <1>1, <2>4
    <3>3. j = 1 \/ j \in 2 .. Len(q) + 1  BY <1>1, <2>4
    <3>4. CASE i = 1 /\ j = 1  BY <3>4
    <3>5. CASE i = 1 /\ j \in 2 .. Len(q) + 1  BY <2>4, <3>1, <3>5
    <3>6. CASE i \in 2 .. Len(q) + 1 /\ j = 1  BY <2>4, <3>1, <3>6
    <3>7. CASE i \in 2 .. Len(q) + 1 /\ j \in 2 .. Len(q) + 1
      <4>1. i - 1 = j - 1  BY <2>4, <3>7 DEF IsInjective
      <4> QED  BY <1>1, <3>7, <4>1
    <3> QED  BY <3>2, <3>3, <3>4, <3>5, <3>6, <3>7
  <2> QED  BY <2>2, <2>3, <2>5, <2>6
<1> QED  BY <1>2, <1>3

\* What read_unfinished_list() makes of a file: each line's download, once.
LEMMA ListOfProperties ==
    ASSUME NEW S, NEW q \in Seq(S)
    PROVE  ListOf(q) \in Seq(S) /\ IsInjective(ListOf(q)) /\ Lines(ListOf(q)) = Lines(q)
<1> DEFINE n == Len(q)
           step == [p \in (1 .. n) \X Seq(S) |-> AddOnce(p[2], q[p[1]])]
           list == CHOOSE f : f = [i \in 0 .. n |-> IF i = 0 THEN <<>> ELSE AddOnce(f[i - 1], q[i])]
<1>1. n \in Nat /\ DOMAIN q = 1 .. n /\ \A i \in 1 .. n : q[i] \in S
  BY LenProperties, ElementOfSeq
<1>2. ASSUME NEW i \in 1 .. n, NEW r \in Seq(S) PROVE AddOnce(r, q[i]) \in Seq(S)
  <2>1. CASE q[i] \in Lines(r)  BY <2>1 DEF AddOnce
  <2>2. CASE q[i] \notin Lines(r)
    <3>1. <<q[i]>> \in Seq(S)  BY <1>1
    <3>2. <<q[i]>> \o r \in Seq(S)  BY <3>1, ConcatProperties
    <3> QED  BY <2>2, <3>2 DEF AddOnce, AddLine
  <2> QED  BY <2>1, <2>2
<1>3. step \in [(1 .. n) \X Seq(S) -> Seq(S)]  BY <1>2
<1>4. \A i \in 1 .. n, r \in Seq(S) : step[<<i, r>>] = AddOnce(r, q[i])
  OBVIOUS
<1>5. <<>> \in Seq(S)  OBVIOUS
<1> HIDE DEF step
<1>6. PICK f \in [0 .. n -> Seq(S)] :
         f = [i \in 0 .. n |-> IF i = 0 THEN <<>> ELSE step[<<i, f[i - 1]>>]]
  <2> HIDE DEF n
  <2> DEFINE Q == Seq(S)
  <2>1. step \in [(1 .. n) \X Q -> Q] /\ <<>> \in Q /\ n \in Nat  BY <1>1, <1>3, <1>5
  <2> HIDE DEF Q, n
  <2>2. \E f \in [0 .. n -> Q] : Recursion(n, <<>>, step, f)
    BY <2>1, RecursionOnInterval
  <2> QED  BY <2>2 DEF Q, Recursion
<1>7. f = [i \in 0 .. n |-> IF i = 0 THEN <<>> ELSE AddOnce(f[i - 1], q[i])]
  <2>1. ASSUME NEW i \in 0 .. n, i # 0 PROVE step[<<i, f[i - 1]>>] = AddOnce(f[i - 1], q[i])
    <3>1. i \in 1 .. n /\ i - 1 \in 0 .. n  BY <1>1, <2>1
    <3> QED  BY <1>4, <1>6, <3>1
  <2> HIDE DEF n
  <2> QED  BY <1>6, <2>1, Zenon
<1>8. list = [i \in 0 .. n |-> IF i = 0 THEN <<>> ELSE AddOnce(list[i - 1], q[i])]
  <2> HIDE DEF n
  <2> QED  BY <1>7, Zenon
<1>9. ListOf(q) = list[n]  BY Zenon DEF ListOf
<1> HIDE DEF list
<1>10. list[0] = <<>> /\ \A i \in 1 .. n : list[i] = AddOnce(list[i - 1], q[i])
  BY <1>1, <1>8
<1> DEFINE Good == {i \in Nat : i <= n =>
                      /\ list[i] \in Seq(S) /\ IsInjective(list[i])
                      /\ Lines(list[i]) = {q[k] : k \in 1 .. i}}
<1>11. 0 \in Good
  <2>1. IsInjective(<<>>) /\ Lines(<<>>) = {} /\ {q[k] : k \in 1 .. 0} = {}
    BY DEF IsInjective, Lines
  <2> QED  BY <1>5, <1>10, <2>1
<1>12. ASSUME NEW i \in Nat, i \in Good PROVE i + 1 \in Good
  <2> SUFFICES ASSUME i + 1 <= n
               PROVE  /\ list[i + 1] \in Seq(S) /\ IsInjective(list[i + 1])
                      /\ Lines(list[i + 1]) = {q[k] : k \in 1 .. i + 1}
    <3>1. i + 1 \in Nat  OBVIOUS
    <3> HIDE DEF n
    <3> QED  BY <3>1, Zenon
  <2>1. i + 1 \in 1 .. n /\ (i + 1) - 1 = i /\ i <= n  BY <1>1
  <2>2. list[i + 1] = AddOnce(list[i], q[i + 1]) /\ q[i + 1] \in S  BY <1>1, <1>10, <2>1
  <2>3. /\ list[i] \in Seq(S) /\ IsInjective(list[i])
        /\ Lines(list[i]) = {q[k] : k \in 1 .. i}
    BY <1>12, <2>1
  <2>4. /\ list[i + 1] \in Seq(S) /\ IsInjective(list[i + 1])
        /\ Lines(list[i + 1]) = Lines(list[i]) \cup {q[i + 1]}
    <3> DEFINE before == list[i]
               c == q[i + 1]
    <3>1. before \in Seq(S) /\ IsInjective(before) /\ c \in S  BY <2>2, <2>3
    <3> HIDE DEF before, c
    <3>2. /\ AddOnce(before, c) \in Seq(S) /\ IsInjective(AddOnce(before, c))
          /\ Lines(AddOnce(before, c)) = Lines(before) \cup {c}
      BY <3>1, AddOnceKeeps
    <3> QED  BY <2>2, <3>2 DEF before, c
  <2>5. {q[k] : k \in 1 .. i + 1} = {q[k] : k \in 1 .. i} \cup {q[i + 1]}
    <3>1. 1 .. i + 1 = 1 .. i \cup {i + 1}  OBVIOUS
    <3> QED  BY <3>1, Zenon
  <2> QED  BY <2>3, <2>4, <2>5
<1>13. n \in Good
  <2> HIDE DEF Good
  <2> QED  BY <1>1, <1>11, <1>12, Induction
<1>14. /\ list[n] \in Seq(S) /\ IsInjective(list[n]) /\ Lines(list[n]) = {q[k] : k \in 1 .. n}
  BY <1>1, <1>13
<1> QED  BY <1>1, <1>9, <1>14 DEF Lines

\* While the program runs the file has what the list has and what was added, and no
\* more.
UnfinishedInv ==
    /\ UnfinishedTypeOK
    /\ IsInjective(resume_struct)
    /\ Lines(resume_struct) \subseteq broken_off /\ Lines(unfinished) \subseteq broken_off
    /\ session = "on" => Lines(resume_struct) \cup added = Lines(unfinished)
    /\ session # "writing" => broken_off \subseteq Lines(unfinished) \cup overwritten
    /\ session = "writing" => broken_off \subseteq Lines(resume_struct) \cup overwritten

\* At first there are neither list nor file.
LEMMA UnfinishedInvInit == UnfinishedInit => UnfinishedInv
<1> SUFFICES ASSUME UnfinishedInit PROVE UnfinishedInv  OBVIOUS
<1>1. <<>> \in Seq(Checksums) /\ IsInjective(<<>>) /\ Lines(<<>>) = {}
  BY DEF IsInjective, Lines
<1>2. 0 \in 0 .. MaxAppends /\ 0 \in 0 .. MaxSessions  BY UnfinishedAssumption
<1> QED  BY <1>1, <1>2 DEF UnfinishedInit, UnfinishedInv, UnfinishedTypeOK

\* A line put behind the others.
LEMMA LinesAppend ==
    ASSUME NEW S, NEW q \in Seq(S), NEW c \in S
    PROVE  Append(q, c) \in Seq(S) /\ Lines(Append(q, c)) = Lines(q) \cup {c}
<1> DEFINE new == Append(q, c)
<1>1. Len(q) \in Nat /\ DOMAIN q = 1 .. Len(q)  BY LenProperties
<1>2. /\ new \in Seq(S) /\ Len(new) = Len(q) + 1
      /\ \A i \in 1 .. Len(q) : new[i] = q[i]
      /\ new[Len(q) + 1] = c
  BY AppendProperties
<1> HIDE DEF new
<1>3. DOMAIN new = 1 .. Len(q) + 1  BY <1>2, LenProperties
<1>4. \A i \in DOMAIN new : new[i] \in Lines(q) \cup {c}
  BY <1>1, <1>2, <1>3 DEF Lines
<1>5. ASSUME NEW i \in DOMAIN q PROVE q[i] \in Lines(new)
  <2>1. i \in DOMAIN new /\ new[i] = q[i]  BY <1>1, <1>2, <1>3
  <2> QED  BY <2>1 DEF Lines
<1>6. c \in Lines(new)
  <2>1. Len(q) + 1 \in DOMAIN new  BY <1>1, <1>3
  <2> QED  BY <1>2, <2>1 DEF Lines
<1>7. Lines(new) = Lines(q) \cup {c}  BY <1>4, <1>5, <1>6 DEF Lines
<1> QED  BY <1>2, <1>7 DEF new

\* What a list has is before a place in it or behind.
LEMMA LinesSplit ==
    ASSUME NEW S, NEW q \in Seq(S), NEW n \in 0 .. Len(q)
    PROVE  /\ SubSeq(q, 1, n) \in Seq(S)
           /\ Lines(SubSeq(q, 1, n)) \subseteq Lines(q)
           /\ Lines(SubSeq(q, n + 1, Len(q))) \subseteq Lines(q)
           /\ Lines(q) \subseteq Lines(SubSeq(q, 1, n)) \cup Lines(SubSeq(q, n + 1, Len(q)))
<1> DEFINE a == SubSeq(q, 1, n)
           b == SubSeq(q, n + 1, Len(q))
<1>1. Len(q) \in Nat /\ n \in Nat /\ DOMAIN q = 1 .. Len(q)  BY LenProperties
<1>2. n + 1 \in 1 .. Len(q) + 1 /\ (n + 1) - 1 = n  BY <1>1
<1>3. a \in Seq(S) /\ Len(a) = n /\ \A j \in 1 .. n : a[j] = q[j]
  <2>1. /\ SubSeq(q, 1, (n + 1) - 1) \in Seq(S) /\ Len(SubSeq(q, 1, (n + 1) - 1)) = (n + 1) - 1
        /\ \A j \in 1 .. (n + 1) - 1 : SubSeq(q, 1, (n + 1) - 1)[j] = q[j]
    BY <1>2, BeforeProperties
  <2> QED  BY <1>2, <2>1
<1>4. /\ b \in Seq(S) /\ Len(b) = Len(q) - (n + 1) + 1
      /\ \A j \in 1 .. Len(q) - (n + 1) + 1 : b[j] = q[n + 1 + j - 1]
  BY <1>2, BehindProperties
<1> HIDE DEF a, b
<1>5. DOMAIN a = 1 .. n /\ DOMAIN b = 1 .. Len(q) - n /\ \A j \in 1 .. Len(q) - n : b[j] = q[n + j]
  BY <1>1, <1>3, <1>4, LenProperties
<1>6. ASSUME NEW j \in DOMAIN b PROVE b[j] \in Lines(q)
  <2>1. n + j \in DOMAIN q  BY <1>1, <1>5
  <2> QED  BY <1>5, <2>1 DEF Lines
<1>7. ASSUME NEW j \in DOMAIN a PROVE a[j] \in Lines(q)
  <2>1. j \in DOMAIN q  BY <1>1, <1>5
  <2> QED  BY <1>3, <1>5, <2>1 DEF Lines
<1>8. ASSUME NEW i \in DOMAIN q PROVE q[i] \in Lines(a) \cup Lines(b)
  <2>1. CASE i <= n
    <3>1. i \in DOMAIN a /\ a[i] = q[i]  BY <1>1, <1>3, <1>5, <2>1
    <3> QED  BY <3>1 DEF Lines
  <2>2. CASE i > n
    <3>1. i - n \in DOMAIN b /\ n + (i - n) = i  BY <1>1, <1>5, <2>2
    <3>2. b[i - n] = q[i]  BY <1>5, <3>1
    <3> QED  BY <3>1, <3>2 DEF Lines
  <2> QED  BY <1>1, <2>1, <2>2
<1>9. /\ Lines(a) \subseteq Lines(q) /\ Lines(b) \subseteq Lines(q)
      /\ Lines(q) \subseteq Lines(a) \cup Lines(b)
  BY <1>6, <1>7, <1>8, Zenon DEF Lines
<1> QED  BY <1>3, <1>9 DEF a, b

\* No step of the program, and no end of it, loses a download unseen.
LEMMA UnfinishedInvNext ==
    ASSUME UnfinishedInv, [UnfinishedNext]_unfinishedVars
    PROVE  UnfinishedInv'
<1> USE DEF UnfinishedInv, UnfinishedTypeOK
<1>1. CASE ReadUnfinishedList
  <2>1. /\ session = "off" /\ sessions < MaxSessions /\ sessions' = sessions + 1
        /\ session' = "on" /\ resume_struct' = ListOf(unfinished) /\ added' = {}
        /\ UNCHANGED <<unfinished, appends, broken_off, overwritten>>
    BY <1>1 DEF ReadUnfinishedList
  <2>2. /\ resume_struct' \in Seq(Checksums) /\ IsInjective(resume_struct')
        /\ Lines(resume_struct') = Lines(unfinished)
    BY <2>1, ListOfProperties
  <2>3. sessions' \in 0 .. MaxSessions  BY <2>1, UnfinishedAssumption
  <2> QED  BY <2>1, <2>2, <2>3
<1>2. ASSUME NEW c \in Checksums, MoveFileToUnfinished(c) PROVE UnfinishedInv'
  <2>1. /\ session = "on" /\ appends < MaxAppends
        /\ broken_off' = broken_off \cup {c} /\ added' = added \cup {c}
        /\ UNCHANGED <<resume_struct, session, sessions, overwritten>>
    BY <1>2 DEF MoveFileToUnfinished
  <2>2. CASE c \in Lines(resume_struct)
    <3>1. UNCHANGED <<unfinished, appends>>  BY <1>2, <2>2 DEF MoveFileToUnfinished
    <3> QED  BY <2>1, <2>2, <3>1
  <2>3. CASE c \notin Lines(resume_struct)
    <3>1. unfinished' = Append(unfinished, c) /\ appends' = appends + 1
      BY <1>2, <2>3 DEF MoveFileToUnfinished
    <3>2. unfinished' \in Seq(Checksums) /\ Lines(unfinished') = Lines(unfinished) \cup {c}
      BY <3>1, LinesAppend
    <3>3. appends' \in 0 .. MaxAppends  BY <2>1, <3>1, UnfinishedAssumption
    <3> QED  BY <2>1, <3>2, <3>3
  <2> QED  BY <2>2, <2>3
<1>3. CASE OpensUnfinished
  <2>1. /\ session = "on"
        /\ UNCHANGED <<resume_struct, appends, sessions, broken_off, added>>
    BY <1>3 DEF OpensUnfinished
  <2>2. CASE resume_struct = <<>>
    BY <1>3, <2>1, <2>2 DEF OpensUnfinished
  <2>3. CASE resume_struct # <<>>
    <3>1. /\ session' = "writing" /\ unfinished' = <<>>
          /\ overwritten' = (overwritten \cup added) \ Lines(resume_struct)
      BY <1>3, <2>3 DEF OpensUnfinished
    <3>2. broken_off \subseteq Lines(resume_struct) \cup overwritten'
      BY <2>1, <3>1
    <3>3. <<>> \in Seq(Checksums) /\ Lines(<<>>) = {}  BY DEF Lines
    <3> QED  BY <2>1, <3>1, <3>2, <3>3
  <2> QED  BY <2>2, <2>3
<1>4. CASE WritesUnfinished
  BY <1>4 DEF WritesUnfinished
<1>5. CASE Killed
  <2>1. session # "off" /\ session' = "off"
        /\ UNCHANGED <<resume_struct, appends, sessions, broken_off, added>>
    BY <1>5 DEF Killed
  <2>2. CASE session = "on"
    <3>1. UNCHANGED <<unfinished, overwritten>>  BY <1>5, <2>2 DEF Killed
    <3> QED  BY <2>1, <2>2, <3>1
  <2>3. CASE session # "on"
    <3>1. PICK n \in 0 .. Len(resume_struct) :
            /\ unfinished' = SubSeq(resume_struct, 1, n)
            /\ overwritten' = overwritten
                                \cup Lines(SubSeq(resume_struct, n + 1, Len(resume_struct)))
      BY <1>5, <2>3, Zenon DEF Killed
    <3> DEFINE lost == Lines(SubSeq(resume_struct, n + 1, Len(resume_struct)))
    <3>2. /\ unfinished' \in Seq(Checksums)
          /\ lost \subseteq Lines(resume_struct) /\ Lines(unfinished') \subseteq Lines(resume_struct)
          /\ Lines(resume_struct) \subseteq Lines(unfinished') \cup lost
      BY <3>1, LinesSplit
    <3>3. session = "writing"  BY <2>1, <2>3
    <3> HIDE DEF lost
    <3>4. overwritten' = overwritten \cup lost  BY <3>1 DEF lost
    <3> QED  BY <2>1, <3>2, <3>3, <3>4
  <2> QED  BY <2>2, <2>3
<1>6. CASE UNCHANGED unfinishedVars
  BY <1>6 DEF unfinishedVars
<1> QED  BY <1>1, <1>2, <1>3, <1>4, <1>5, <1>6 DEF UnfinishedNext

\* A download that ended early can be taken up again, however the program ended and
\* was started since, unless its line was overwritten: for every set of downloads.
THEOREM UnfinishedAreKept == UnfinishedSpec => []ResumeKept
<1>1. UnfinishedInv => ResumeKept  BY DEF UnfinishedInv, ResumeKept
<1> QED  BY <1>1, UnfinishedInvInit, UnfinishedInvNext, PTL DEF UnfinishedSpec

----------------------------------------------------------------------------
(* The shared files *)

\* What is shared of the list, what the thread will still take off shared_files for the
\* file in its hand, and what may be missing there since a server was lost.
Flags == flagged \cap listed
Owed == IF scanner = "load" \/ (scanner = "taken" /\ inhand \in flagged) THEN 1 ELSE 0
Missing == IF short THEN 1 ELSE 0

\* The list and its counters.
ListsInv ==
    /\ listed \subseteq Shareable /\ flagged \subseteq listed \cup Carried
    /\ inhand \in {0} \cup Shareable /\ inhand \notin listed
    /\ total \in Int /\ shared \in Int /\ held \in Int /\ short \in BOOLEAN
    /\ total = Cardinality(listed) + Cardinality(Carried)
    /\ shared >= Cardinality(Flags) + Owed - Missing
    /\ scanner = "store" => held - 1 >= Cardinality(Flags) - Missing

\* What each thread adds to in_load: one while it works, and one more once do_update()
\* waits for the mutex.
Grip == {"taken", "load", "store", "free"}
InScan == IF scanner \in {"lock", "entry", "files", "unlock", "leave"} \cup Grip THEN 1
          ELSE IF scanner = "relock" THEN 2 ELSE 0
InLoading == IF loader \in {"count", "leave"} THEN 1 ELSE 0

\* The threads: what is in the hand, what is left to read, and who has the mutex.
ThreadsInv ==
    /\ inhand # 0 <=> scanner \in Grip
    /\ scanner \in {"born", "files"} \cup Grip => share_files # <<>>
    /\ scanner \in {"entry", "files", "relock", "unlock"} \cup Grip => owner = "scan"
    /\ loader \in {"count", "leave"} => owner = "load"

\* The walk of a lost server: its file is there, and no flag is left behind it.
WalkInv ==
    /\ walk \in Shareable => walk \in listed \cup Carried
    /\ walk # 0 => \A f \in Flags : walk <= f

\* The types that the list and its counters do not fix.
SharingTypes ==
    /\ disk \subseteq Shareable /\ saved \subseteq Shareable /\ todo \subseteq Shareable
    /\ in_load \in Int /\ in_sharing \in Int
    /\ share_files \in Seq(ScanKinds) /\ load_files \in {0, 1}
    /\ owner \in {"scan", "load", "none"}
    /\ scanner \in {"none", "born", "lock", "entry", "files", "taken", "load", "store",
                    "free", "relock", "unlock", "leave", "ended"}
    /\ loader \in {"none", "born", "count", "leave"}
    /\ sharer \in {"idle", "sharing", "joining"}
    /\ cursor \in {0} \cup Shareable /\ walk \in 0 .. Past
    /\ shares \in 0 .. MaxShares
    /\ scan_done \in BOOLEAN

\* The counters that keep threads and commands off are what they stand for, and
\* the scanning thread is not at work while do_share() is.
CountersInv ==
    /\ in_load = InScan + InLoading
    /\ in_sharing = IF sharer = "sharing" THEN 1 ELSE 0
    /\ sharer = "sharing" => scanner \in {"none", "ended"}
    /\ cursor # 0 => sharer = "sharing" /\ cursor \in listed

SharingInv == SharingTypes /\ ListsInv /\ ThreadsInv /\ WalkInv /\ CountersInv

\* Files on a list are finitely many.
LEMMA FilesFinite ==
    ASSUME NEW S \in SUBSET Shareable
    PROVE  IsFiniteSet(S) /\ Cardinality(S) \in Nat
<1>1. IsFiniteSet(Shareable)  BY SharingAssumption, FS_Interval DEF Shareable
<1>2. IsFiniteSet(S)  BY <1>1, FS_Subset
<1> QED  BY <1>2, FS_CardinalityType

\* Nothing, or one file, in the hand.
LEMMA HandCounts ==
    ASSUME inhand \in {0} \cup Shareable
    PROVE  /\ Carried \subseteq Shareable
           /\ inhand = 0 => Carried = {} /\ Cardinality(Carried) = 0
           /\ inhand # 0 => Carried = {inhand} /\ Cardinality(Carried) = 1
<1>1. 0 \notin Shareable  BY SharingAssumption DEF Shareable
<1>2. CASE inhand = 0
  <2>1. Carried = {}  BY <1>2 DEF Carried
  <2> QED  BY <1>2, <2>1, FS_EmptySet
<1>3. CASE inhand # 0
  <2>1. Carried = {inhand}  BY <1>3 DEF Carried
  <2> QED  BY <1>3, <2>1, FS_Singleton
<1> QED  BY <1>2, <1>3

\* What is shared is finite, and all of what is flagged when the hand is empty.
LEMMA FlagsCount ==
    ASSUME ListsInv
    PROVE  /\ Flags \in SUBSET Shareable /\ Cardinality(Flags) \in Nat
           /\ Cardinality(listed) \in Nat /\ Owed \in {0, 1} /\ Missing \in {0, 1}
           /\ inhand = 0 => Flags = flagged
<1>1. Flags \in SUBSET Shareable /\ listed \in SUBSET Shareable  BY DEF ListsInv, Flags
<1>2. Cardinality(Flags) \in Nat /\ Cardinality(listed) \in Nat  BY <1>1, FilesFinite
<1>3. Owed \in {0, 1} /\ Missing \in {0, 1}  BY DEF Owed, Missing
<1>4. ASSUME inhand = 0 PROVE Flags = flagged  BY <1>4 DEF ListsInv, Flags, Carried
<1> QED  BY <1>1, <1>2, <1>3, <1>4

\* What is taken off the list is counted out.
LEMMA DropKeeps ==
    ASSUME ListsInv, inhand = 0, scanner \notin Grip, NEW files \in SUBSET listed,
           DropFiles(files), UNCHANGED <<inhand, held, scanner>>
    PROVE  ListsInv'
<1>1. /\ listed \in SUBSET Shareable /\ flagged \in SUBSET Shareable
      /\ files \in SUBSET Shareable /\ Flags = flagged
  BY FlagsCount DEF ListsInv, Carried
<1>2. /\ IsFiniteSet(listed) /\ Cardinality(listed) \in Nat
      /\ IsFiniteSet(flagged) /\ Cardinality(flagged) \in Nat
  BY <1>1, FilesFinite
<1>3. listed' = listed \ files /\ flagged' = flagged \ files /\ UNCHANGED short
      /\ total' = total - Cardinality(files) /\ shared' = shared - Cardinality(flagged \cap files)
  BY DEF DropFiles
<1>4. Cardinality(listed \ files) = Cardinality(listed) - Cardinality(files)
      /\ Cardinality(files) \in Nat
  <2>1. listed \cap files = files  BY <1>1
  <2>2. Cardinality(listed \ files) = Cardinality(listed) - Cardinality(listed \cap files)
    BY <1>2, FS_Difference
  <2> QED  BY <1>1, <2>1, <2>2, FilesFinite
<1>5. /\ Cardinality(flagged \ files) = Cardinality(flagged) - Cardinality(flagged \cap files)
      /\ Cardinality(flagged \cap files) \in Nat
  <2>1. flagged \cap files \in SUBSET Shareable  BY <1>1
  <2> QED  BY <1>2, <2>1, FS_Difference, FilesFinite
<1>6. Flags' = flagged \ files /\ Carried' = Carried
  BY <1>1, <1>3 DEF Flags, Carried, ListsInv
<1>7. Owed = 0 /\ Owed' = 0 /\ Missing' = Missing /\ Missing \in {0, 1}
  BY <1>3 DEF Owed, Missing, Grip
<1>8. Cardinality(listed') = Cardinality(listed) - Cardinality(files)
      /\ Cardinality(Flags') = Cardinality(flagged) - Cardinality(flagged \cap files)
  BY <1>3, <1>4, <1>5, <1>6
<1>9. total' \in Int /\ total' = Cardinality(listed') + Cardinality(Carried')
  <2>1. total = Cardinality(listed) /\ Cardinality(Carried') = 0
    BY <1>2, <1>6, HandCounts DEF ListsInv
  <2> QED  BY <1>2, <1>3, <1>4, <1>8, <2>1
<1>10. shared' \in Int /\ shared' >= Cardinality(Flags') + Owed' - Missing'
  <2>1. shared \in Int /\ shared >= Cardinality(flagged) - Missing
    BY <1>1, <1>2, <1>7 DEF ListsInv
  <2> QED  BY <1>2, <1>3, <1>5, <1>7, <1>8, <2>1
<1>11. /\ listed' \subseteq Shareable /\ flagged' \subseteq listed' \cup Carried'
       /\ inhand' \in {0} \cup Shareable /\ inhand' \notin listed' /\ held' \in Int
       /\ short' \in BOOLEAN /\ scanner' # "store"
  BY <1>1, <1>3, <1>6 DEF ListsInv, Grip, Carried
<1> QED  BY <1>9, <1>10, <1>11 DEF ListsInv

\* What is put on the list is counted, once.
LEMMA AddKeeps ==
    ASSUME ListsInv, inhand = 0, scanner \notin Grip, NEW files \in SUBSET Shareable,
           AddFiles(files), UNCHANGED <<inhand, held, scanner>>
    PROVE  ListsInv'
<1>1. /\ listed \in SUBSET Shareable /\ files \ listed \in SUBSET Shareable
      /\ flagged \subseteq listed
  BY FlagsCount DEF ListsInv, Carried
<1>2. /\ IsFiniteSet(listed) /\ Cardinality(listed) \in Nat
      /\ IsFiniteSet(files \ listed) /\ Cardinality(files \ listed) \in Nat
  BY <1>1, FilesFinite
<1>3. Cardinality(listed \cup files) = Cardinality(listed) + Cardinality(files \ listed)
  <2> DEFINE new == files \ listed
  <2>1. listed \cup files = listed \cup new /\ listed \cap new = {}  OBVIOUS
  <2>2. IsFiniteSet(new) /\ Cardinality(new) \in Nat  BY <1>2
  <2> HIDE DEF new
  <2>3. Cardinality(listed \cup new)
          = Cardinality(listed) + Cardinality(new) - Cardinality(listed \cap new)
    BY <1>2, <2>2, FS_Union
  <2>4. Cardinality(listed \cap new) = 0  BY <2>1, FS_EmptySet, Zenon
  <2>5. Cardinality(listed \cup files) = Cardinality(listed) + Cardinality(new)
    BY <1>2, <2>1, <2>2, <2>3, <2>4
  <2> QED  BY <2>5 DEF new
<1>4. /\ listed' = listed \cup files /\ total' = total + Cardinality(files \ listed)
      /\ UNCHANGED <<flagged, shared, short>>
  BY DEF AddFiles
<1>5. Flags' = Flags /\ Carried' = Carried  BY <1>1, <1>4 DEF Flags, Carried
<1>6. Owed' = Owed /\ Missing' = Missing  BY <1>4 DEF Owed, Missing, Grip
<1>7. 0 \notin Shareable  BY SharingAssumption DEF Shareable
<1>8. total' \in Int /\ total' = Cardinality(listed') + Cardinality(Carried')
  <2>1. total = Cardinality(listed) /\ Cardinality(Carried') = 0
    BY <1>2, <1>5, HandCounts DEF ListsInv
  <2>2. Cardinality(listed') = Cardinality(listed) + Cardinality(files \ listed)
    BY <1>3, <1>4
  <2> QED  BY <1>2, <1>4, <2>1, <2>2
<1>9. shared' \in Int /\ shared' >= Cardinality(Flags') + Owed' - Missing'
  BY <1>4, <1>5, <1>6 DEF ListsInv
<1>10. /\ listed' \subseteq Shareable /\ flagged' \subseteq listed' \cup Carried'
       /\ inhand' \in {0} \cup Shareable /\ inhand' \notin listed' /\ held' \in Int
       /\ short' \in BOOLEAN /\ scanner' # "store"
  BY <1>1, <1>4, <1>7 DEF ListsInv, Grip
<1> QED  BY <1>8, <1>9, <1>10 DEF ListsInv

\* What is sent is counted, again if it was sent before.
LEMMA FlagKeeps ==
    ASSUME ListsInv, inhand = 0, scanner \notin Grip, NEW run \in SUBSET listed,
           flagged' = flagged \cup run, shared' = shared + Cardinality(run),
           UNCHANGED <<listed, total, short, inhand, held, scanner>>
    PROVE  ListsInv'
<1>1. run \in SUBSET Shareable /\ flagged \in SUBSET Shareable
      /\ flagged \cap run \in SUBSET Shareable /\ Flags = flagged /\ flagged \subseteq listed
  BY FlagsCount DEF ListsInv, Carried
<1>2. /\ IsFiniteSet(run) /\ Cardinality(run) \in Nat
      /\ IsFiniteSet(flagged) /\ Cardinality(flagged) \in Nat
      /\ Cardinality(flagged \cap run) \in Nat
  BY <1>1, FilesFinite
<1>3. Cardinality(flagged \cup run)
        = Cardinality(flagged) + Cardinality(run) - Cardinality(flagged \cap run)
  BY <1>2, FS_Union
<1>4. Flags' = flagged \cup run /\ Carried' = Carried  BY <1>1 DEF Flags, Carried
<1>5. Owed = 0 /\ Owed' = 0 /\ Missing' = Missing /\ Missing \in {0, 1}
  BY DEF Owed, Missing, Grip
<1>6. flagged' \subseteq listed' \cup Carried'  BY <1>1
<1>7. shared' \in Int /\ shared' >= Cardinality(Flags') + Owed' - Missing'
  <2>1. shared \in Int /\ shared >= Cardinality(flagged) - Missing
    BY <1>1, <1>2, <1>5 DEF ListsInv
  <2>2. Cardinality(Flags')
          = Cardinality(flagged) + Cardinality(run) - Cardinality(flagged \cap run)
    BY <1>3, <1>4
  <2>3. Cardinality(flagged \cap run) <= Cardinality(flagged)
    BY <1>2, FS_Subset
  <2> QED  BY <1>2, <1>5, <2>1, <2>2, <2>3
<1>8. total' \in Int /\ total' = Cardinality(listed') + Cardinality(Carried')
  BY <1>4 DEF ListsInv
<1>9. /\ listed' \subseteq Shareable /\ inhand' \in {0} \cup Shareable /\ inhand' \notin listed'
      /\ held' \in Int /\ short' \in BOOLEAN /\ scanner' # "store"
  BY DEF ListsInv, Grip
<1> QED  BY <1>6, <1>7, <1>8, <1>9 DEF ListsInv

\* What is no longer shared is forgotten with its counter.
LEMMA ForgetKeeps ==
    ASSUME ListsInv, inhand = 0, scanner \notin Grip, flagged' = {}, shared' \in Nat,
           UNCHANGED <<inhand, held, scanner>>, short' \in BOOLEAN,
           UNCHANGED <<listed, total>> \/ (listed' = {} /\ total' = 0)
    PROVE  ListsInv'
<1>1. Flags' = {} /\ Carried' = Carried /\ Cardinality(Carried) = 0
  BY HandCounts DEF Flags, Carried, ListsInv
<1>2. Cardinality(Flags') = 0  BY <1>1, FS_EmptySet
<1>3. Owed' = 0 /\ Missing' \in {0, 1}  BY DEF Owed, Missing, Grip
<1>4. listed' \subseteq Shareable /\ total' \in Int /\ total' = Cardinality(listed')
      /\ inhand' \notin listed'
  <2>1. listed \subseteq Shareable /\ total \in Int /\ total = Cardinality(listed)
        /\ inhand \notin listed
    BY <1>1, FlagsCount DEF ListsInv
  <2>2. CASE UNCHANGED <<listed, total>>  BY <2>1, <2>2
  <2>3. CASE listed' = {} /\ total' = 0  BY <2>3, FS_EmptySet
  <2> QED  BY <2>2, <2>3
<1> QED  BY <1>1, <1>2, <1>3, <1>4 DEF ListsInv, Grip

\* What no step but one of the list or of the file in the hand disturbs.
LEMMA ListsKept ==
    ASSUME ListsInv, UNCHANGED <<lists, inhand, held>>,
           scanner' = scanner \/ scanner' \notin {"taken", "load", "store"}
    PROVE  ListsInv'
<1>1. Flags' = Flags /\ Carried' = Carried /\ Missing' = Missing
  BY DEF lists, Flags, Carried, Missing
<1>2. Owed' = Owed \/ Owed' = 0  BY DEF Owed, lists
<1> QED  BY <1>1, <1>2, FlagsCount DEF lists, ListsInv

\* The walk of a lost server: a flag is cleared, or the counter.
LEMMA ClearKeeps ==
    ASSUME ListsInv, ClearFlag
    PROVE  ListsInv'
<1>1. /\ flagged' = flagged \ {walk}
      /\ UNCHANGED <<listed, total, shared, short, inhand, held, scanner>>
  BY DEF ClearFlag, threadState
<1>2. Flags' \subseteq Flags /\ Carried' = Carried /\ Missing' = Missing
  BY <1>1 DEF Flags, Carried, Missing
<1>3. Owed' \in {0, 1} /\ Owed' <= Owed  BY <1>1 DEF Owed
<1>4. Cardinality(Flags') <= Cardinality(Flags) /\ Cardinality(Flags') \in Nat
  <2>1. IsFiniteSet(Flags)  BY FlagsCount, FilesFinite
  <2> HIDE DEF Flags
  <2> QED  BY <1>2, <2>1, FS_Subset, FS_CardinalityType
<1> QED  BY <1>1, <1>2, <1>3, <1>4, FlagsCount DEF ListsInv

LEMMA ResetKeeps ==
    ASSUME ListsInv, ThreadsInv, WalkInv, ResetShared
    PROVE  ListsInv'
<1>1. /\ shared' = 0 /\ short' = (inhand # 0) /\ walk = Past
      /\ UNCHANGED <<listed, flagged, total, inhand, held, scanner>>
  BY DEF ResetShared, threadState
<1>2. Flags = {}
  <2>1. Flags \subseteq Shareable  BY FlagsCount
  <2>2. Past # 0 /\ \A f \in Shareable : f < Past  BY SharingAssumption DEF Past, Shareable
  <2>3. \A f \in Flags : Past <= f  BY <1>1, <2>2 DEF WalkInv
  <2>4. Past \in Int /\ Shareable \subseteq Int  BY SharingAssumption DEF Past, Shareable
  <2> QED  BY <2>1, <2>2, <2>3, <2>4
<1>3. Flags' = {} /\ Cardinality(Flags) = 0 /\ Cardinality(Flags') = 0 /\ Carried' = Carried
  <2>1. Flags' = Flags /\ Carried' = Carried  BY <1>1 DEF Flags, Carried
  <2> QED  BY <1>2, <2>1, FS_EmptySet
<1>4. Owed' \in {0, 1} /\ (Owed' = 1 => inhand # 0)  BY <1>1 DEF Owed, ThreadsInv, Grip
<1>5. Missing' = IF inhand # 0 THEN 1 ELSE 0  BY <1>1 DEF Missing
<1>6. scanner = "store" => inhand # 0 /\ held - 1 >= -1
  BY <1>3, FlagsCount DEF ListsInv, ThreadsInv, Grip
<1> QED  BY <1>1, <1>3, <1>4, <1>5, <1>6 DEF ListsInv

\* The file in the thread's hand: taken, looked at, counted out and freed.
LEMMA TakeKeeps ==
    ASSUME ListsInv, inhand = 0, scanner \notin Grip, NEW f \in listed, inhand' = f,
           listed' = listed \ {f}, scanner' = "taken",
           UNCHANGED <<flagged, total, shared, short, held>>
    PROVE  ListsInv'
<1>1. f \in Shareable /\ f # 0 /\ listed \in SUBSET Shareable /\ flagged \subseteq listed
      /\ Flags = flagged
  BY FlagsCount, SharingAssumption DEF ListsInv, Carried, Shareable
<1>2. inhand' \in {0} \cup Shareable  BY <1>1
<1>3. Carried' = {f} /\ Cardinality(Carried') = 1 /\ Cardinality(Carried) = 0
  <2>1. Carried' = {f}  BY <1>1 DEF Carried
  <2> QED  BY <2>1, HandCounts, FS_Singleton DEF ListsInv
<1>4. IsFiniteSet(listed) /\ IsFiniteSet(flagged)  BY <1>1, FilesFinite
<1>5. Cardinality(listed \ {f}) = Cardinality(listed) - 1  BY <1>4, FS_RemoveElement
<1>6. Flags' = flagged \ {f}  BY <1>1 DEF Flags
<1>7. Owed = 0 /\ Missing' = Missing /\ Owed' = IF f \in flagged THEN 1 ELSE 0
  BY DEF Owed, Missing, Grip
<1>8. Cardinality(Flags') + Owed' = Cardinality(Flags) /\ Cardinality(Flags') \in Nat
  <2>0. Flags' \in SUBSET Shareable /\ Cardinality(flagged) \in Nat
    BY <1>1, <1>4, <1>6, FS_CardinalityType
  <2>a. Cardinality(Flags') \in Nat  BY <2>0, FilesFinite
  <2>1. CASE f \in flagged
    <3>1. Cardinality(flagged \ {f}) = Cardinality(flagged) - 1
      BY <1>4, <2>1, FS_RemoveElement
    <3>2. Cardinality(Flags') = Cardinality(flagged) - 1  BY <1>6, <3>1
    <3>3. Owed' = 1 /\ Cardinality(Flags) = Cardinality(flagged)  BY <1>1, <1>7, <2>1
    <3> QED  BY <2>0, <2>a, <3>2, <3>3
  <2>2. CASE f \notin flagged
    <3>1. Flags' = flagged  BY <1>6, <2>2
    <3>2. Owed' = 0 /\ Flags = flagged  BY <1>1, <1>7, <2>2
    <3> QED  BY <2>0, <3>1, <3>2
  <2> QED  BY <2>1, <2>2
<1>9. flagged' \subseteq listed' \cup Carried'  BY <1>1, <1>3
<1>10. shared' >= Cardinality(Flags') + Owed' - Missing'
  BY <1>7, <1>8, FlagsCount DEF ListsInv
<1>11. total' = Cardinality(listed') + Cardinality(Carried')
  BY <1>3, <1>5, FlagsCount DEF ListsInv
<1> QED  BY <1>1, <1>2, <1>9, <1>10, <1>11 DEF ListsInv

LEMMA HandKeeps ==
    ASSUME ListsInv, ThreadsInv, LookShared \/ LoadCount \/ StoreCount
    PROVE  ListsInv'
<1>1. UNCHANGED <<listed, flagged, total, short, inhand>>
  BY DEF LookShared, LoadCount, StoreCount, lists
<1>2. Flags' = Flags /\ Carried' = Carried /\ Missing' = Missing
  BY <1>1 DEF Flags, Carried, Missing
<1>3. CASE LookShared
  <2>1. UNCHANGED <<shared, held>> /\ scanner' # "store"  BY <1>3 DEF LookShared, lists
  <2>2. Owed' = Owed  BY <1>3, <1>1 DEF LookShared, Owed
  <2> QED  BY <1>1, <1>2, <2>1, <2>2 DEF ListsInv
<1>4. CASE LoadCount
  <2>1. held' = shared /\ UNCHANGED shared  BY <1>4 DEF LoadCount, lists
  <2>2. Owed = 1 /\ Owed' = 0  BY <1>4 DEF LoadCount, Owed
  <2> QED  BY <1>1, <1>2, <2>1, <2>2, FlagsCount DEF ListsInv
<1>5. CASE StoreCount
  <2>1. shared' = held - 1 /\ held' = 0 /\ scanner = "store" /\ scanner' = "free"
    BY <1>5 DEF StoreCount
  <2>2. Owed' = 0  BY <2>1 DEF Owed
  <2> QED  BY <1>1, <1>2, <2>1, <2>2, FlagsCount DEF ListsInv
<1> QED  BY <1>3, <1>4, <1>5

LEMMA FreeKeeps ==
    ASSUME ListsInv, ThreadsInv, FreeFile
    PROVE  ListsInv'
<1>1. /\ scanner = "free" /\ scanner' = "files" /\ inhand' = 0 /\ total' = total - 1
      /\ flagged' = flagged \ {inhand} /\ UNCHANGED <<listed, shared, short, held>>
  BY DEF FreeFile
<1>2. inhand # 0 /\ Carried = {inhand} /\ Cardinality(Carried) = 1
      /\ Carried' = {} /\ Cardinality(Carried') = 0
  <2>1. inhand # 0  BY <1>1 DEF ThreadsInv, Grip
  <2>2. Carried' = {}  BY <1>1 DEF Carried
  <2> QED  BY <2>1, <2>2, HandCounts, FS_EmptySet DEF ListsInv
<1>3. Flags' = Flags /\ Missing' = Missing /\ Owed = 0 /\ Owed' = 0
  BY <1>1 DEF ListsInv, Flags, Missing, Owed
<1>4. flagged' \subseteq listed' /\ 0 \notin listed
  <2>1. 0 \notin Shareable  BY SharingAssumption DEF Shareable
  <2>2. flagged' \subseteq listed  BY <1>1, <1>2 DEF ListsInv
  <2> QED  BY <1>1, <2>1, <2>2 DEF ListsInv
<1> QED  BY <1>1, <1>2, <1>3, <1>4, FlagsCount DEF ListsInv

\* The least and the next of the files on the list are on it.
LEMMA LeastFile ==
    ASSUME NEW S \in SUBSET Shareable, S # {}
    PROVE  Min(S) \in S /\ \A x \in S : Min(S) <= x
<1>1. S \in SUBSET Nat  BY SharingAssumption DEF Shareable
<1>2. \E x \in S : \A y \in S : x <= y  BY <1>1, LeastNumber
<1> QED  BY <1>2, Zenon DEF Min

LEMMA NextIsListed ==
    ASSUME listed \subseteq Shareable, NEW f
    PROVE  /\ NextListed(f) \in listed \cup {0}
           /\ NextListed(f) = 0 => \A g \in listed : ~(g > f)
           /\ \A g \in listed : g > f => NextListed(f) <= g
<1> DEFINE S == {g \in listed : g > f}
<1>0. 0 \notin listed  BY SharingAssumption DEF Shareable
<1>1. CASE S # {}
  <2>1. S \in SUBSET Shareable  OBVIOUS
  <2> HIDE DEF S
  <2>2. Min(S) \in S /\ \A x \in S : Min(S) <= x  BY <1>1, <2>1, LeastFile
  <2>3. NextListed(f) = Min(S)  BY <1>1 DEF NextListed, S
  <2> QED  BY <1>0, <2>2, <2>3 DEF S
<1>2. CASE S = {}
  BY <1>2 DEF NextListed
<1> QED  BY <1>1, <1>2

\* Where a walk goes on: to a file of the list or past its end, and over no file.
LEMMA OnwardWalks ==
    ASSUME listed \subseteq Shareable, NEW f \in 0 .. NFiles
    PROVE  /\ Onward(f) \in listed \cup {Past}
           /\ \A g \in listed : g > f => Onward(f) <= g
<1>1. /\ NextListed(f) \in listed \cup {0}
      /\ NextListed(f) = 0 => \A g \in listed : ~(g > f)
      /\ \A g \in listed : g > f => NextListed(f) <= g
  BY NextIsListed
<1> QED  BY <1>1, Zenon DEF Onward

LEMMA SharingInvInit == SharingInit => SharingInv
<1> SUFFICES ASSUME SharingInit PROVE SharingInv  OBVIOUS
<1>0. /\ listed = {} /\ flagged = {} /\ total = 0 /\ shared = 0 /\ inhand = 0 /\ held = 0
      /\ walk = 0 /\ cursor = 0 /\ in_load = 0 /\ in_sharing = 0 /\ load_files = 0
      /\ owner = "none" /\ scanner = "none" /\ loader = "none" /\ sharer = "idle"
      /\ todo = {} /\ saved = {} /\ disk = Shareable /\ share_files = <<>> /\ shares = 0
  BY Zenon DEF SharingInit
<1>b. short = FALSE /\ scan_done = FALSE  BY Zenon DEF SharingInit
<1>1. ListsInv
  <2>1. Carried = {} /\ Flags = {} /\ Owed = 0  BY <1>0 DEF Carried, Flags, Owed
  <2>2. Missing = 0  BY <1>b, Zenon DEF Missing
  <2>3. Cardinality(Carried) = 0 /\ Cardinality(Flags) = 0 /\ Cardinality(listed) = 0
    BY <1>0, <2>1, FS_EmptySet
  <2>4. short \in BOOLEAN  BY <1>b, Zenon
  <2> QED  BY <1>0, <2>1, <2>2, <2>3, <2>4 DEF ListsInv
<1>2. SharingTypes
  <2>1. share_files \in Seq(ScanKinds) /\ shares \in 0 .. MaxShares /\ walk \in 0 .. Past
    BY <1>0, SharingAssumption DEF Past
  <2>2. scan_done \in BOOLEAN /\ short \in BOOLEAN  BY <1>b, Zenon
  <2> QED  BY <1>0, <2>1, <2>2 DEF SharingTypes
<1>3. ThreadsInv /\ WalkInv
  BY <1>0, SharingAssumption DEF ThreadsInv, WalkInv, Grip, Shareable
<1>4. CountersInv  BY <1>0 DEF CountersInv, InScan, InLoading, Grip
<1> QED  BY <1>1, <1>2, <1>3, <1>4 DEF SharingInv

\* When a command of /share is let through, the scanning thread has not begun or is
\* over, and nothing is in its hand.
LEMMA MayShareMeans ==
    ASSUME SharingInv, MayShare
    PROVE  /\ sharer # "sharing" /\ cursor = 0 /\ in_sharing = 0 /\ in_load = 0
           /\ scanner \in {"none", "born", "ended"} /\ loader \in {"none", "born"}
           /\ inhand = 0 /\ scanner \notin Grip
<1>1. InScan \in {0, 1, 2} /\ InLoading \in {0, 1}  BY DEF InScan, InLoading
<1>2. in_load = 0 /\ in_sharing = 0 /\ InScan = 0 /\ InLoading = 0
  BY <1>1 DEF SharingInv, CountersInv, MayShare
<1>3. scanner \in {"none", "born", "ended"} /\ loader \in {"none", "born"}
  BY <1>2 DEF SharingInv, SharingTypes, InScan, InLoading, Grip
<1> QED  BY <1>2, <1>3 DEF SharingInv, CountersInv, ThreadsInv, Grip

\* What is not behind the walk stays so when nothing is flagged and nothing goes.
LEMMA WalkKept ==
    ASSUME WalkInv, UNCHANGED walk, Flags' \subseteq Flags,
           listed \cup Carried \subseteq listed' \cup Carried'
    PROVE  WalkInv'
  BY DEF WalkInv

\* A step that leaves the list, the threads and the walk alone.
LEMMA QuietKeeps ==
    ASSUME SharingInv, UNCHANGED <<lists, threadState, walk>>,
           share_files # <<>> => share_files' # <<>>
    PROVE  ListsInv' /\ ThreadsInv' /\ WalkInv' /\ InScan' = InScan /\ InLoading' = InLoading
<1>1. UNCHANGED <<lists, inhand, held, scanner, loader, owner>>  BY DEF threadState
<1>2. ListsInv'  BY <1>1, ListsKept DEF SharingInv
<1>3. ThreadsInv'  BY <1>1 DEF SharingInv, ThreadsInv
<1>4. Flags' = Flags /\ Carried' = Carried /\ UNCHANGED listed
  BY <1>1 DEF lists, Flags, Carried
<1>5. WalkInv'  BY <1>4, WalkKept DEF SharingInv
<1> QED  BY <1>1, <1>2, <1>3, <1>5 DEF InScan, InLoading

LEMMA ShareCommandKeeps ==
    ASSUME SharingInv, NEW r \in Requested, ShareCommand(r)
    PROVE  SharingInv'
<1>1. /\ walk = 0 /\ MayShare /\ shares < MaxShares /\ shares' = shares + 1
      /\ share_files' = r.dirs \o share_files
      /\ load_files' = IF r.loads > 0 THEN r.loads ELSE load_files
      /\ share_files' # <<>> => scanner \in {"none", "ended"}
      /\ scanner' = IF share_files' # <<>> THEN "born" ELSE scanner
      /\ loader' = IF load_files' > 0 THEN "born" ELSE loader
      /\ UNCHANGED <<lists, disk, saved, in_load, in_sharing, scan_done, owner, todo, inhand,
                     held, sharer, cursor, walk>>
  BY DEF ShareCommand, Reads, OneOfAKind, mainState
<1>2. /\ SharingTypes /\ ListsInv /\ ThreadsInv /\ CountersInv
  BY DEF SharingInv
<1>3. /\ sharer # "sharing" /\ cursor = 0 /\ in_sharing = 0 /\ in_load = 0 /\ inhand = 0
      /\ scanner \in {"none", "born", "ended"} /\ loader \in {"none", "born"}
  BY <1>1, MayShareMeans
<1>4. r.dirs \in Seq(ScanKinds) /\ r.loads \in {0, 1} /\ MaxShares \in Nat
  BY SharingAssumption
<1>5. share_files' \in Seq(ScanKinds) /\ load_files' \in {0, 1} /\ shares' \in 0 .. MaxShares
  BY <1>1, <1>2, <1>4 DEF SharingTypes
<1>6. scanner' \in {"none", "born", "ended"} /\ loader' \in {"none", "born"}
  BY <1>1, <1>3
<1>7. SharingTypes'  BY <1>1, <1>2, <1>5, <1>6 DEF SharingTypes
<1>8. ListsInv'  BY <1>1, <1>2, <1>6, ListsKept
<1>9. ThreadsInv'
  BY <1>1, <1>2, <1>3, <1>6 DEF ThreadsInv, Grip
<1>10. WalkInv'  BY <1>1, SharingAssumption DEF WalkInv, Shareable
<1>11. CountersInv'
  BY <1>1, <1>3, <1>6 DEF CountersInv, InScan, InLoading, Grip
<1> QED  BY <1>7, <1>8, <1>9, <1>10, <1>11 DEF SharingInv

LEMMA CommandsKeep ==
    ASSUME SharingInv, UnshareNap \/ ClearNap \/ RemoveNap
    PROVE  SharingInv'
<1>1. /\ walk = 0 /\ MayShare
      /\ UNCHANGED <<disk, saved, share_files, load_files, in_load, in_sharing, scan_done,
                     threadState, mainState, shares>>
  BY DEF UnshareNap, ClearNap, RemoveNap, Reads
<1>2. /\ SharingTypes /\ ListsInv /\ ThreadsInv /\ CountersInv  BY DEF SharingInv
<1>3. inhand = 0 /\ scanner \notin Grip /\ cursor = 0  BY <1>1, MayShareMeans
<1>4. ListsInv'
  <2>1. CASE UnshareNap
    BY <1>1, <1>2, <1>3, <2>1, ForgetKeeps DEF UnshareNap, ForgetShared, threadState
  <2>2. CASE ClearNap
    BY <1>1, <1>2, <1>3, <2>2, ForgetKeeps DEF ClearNap, ForgetShared, threadState
  <2>3. CASE RemoveNap
    <3>1. PICK f \in listed : DropFiles({f})  BY <2>3 DEF RemoveNap
    <3>2. {f} \in SUBSET listed  OBVIOUS
    <3> QED  BY <1>1, <1>2, <1>3, <3>1, <3>2, DropKeeps DEF threadState
  <2> QED  BY <2>1, <2>2, <2>3
<1>5. SharingTypes'  BY <1>1, <1>2 DEF SharingTypes, threadState, mainState
<1>6. ThreadsInv'  BY <1>1, <1>2 DEF ThreadsInv, threadState
<1>7. WalkInv'  BY <1>1, SharingAssumption DEF WalkInv, Shareable, mainState
<1>8. CountersInv'
  BY <1>1, <1>2, <1>3 DEF CountersInv, InScan, InLoading, threadState, mainState
<1> QED  BY <1>4, <1>5, <1>6, <1>7, <1>8 DEF SharingInv

LEMMA FilesKeep ==
    ASSUME SharingInv, SaveShared \/ FileVanishes
    PROVE  SharingInv'
<1>1. /\ UNCHANGED <<lists, share_files, load_files, in_load, in_sharing, scan_done,
                     threadState, mainState, shares>>
      /\ disk' \subseteq disk /\ saved' \in {saved, listed}
  BY DEF SaveShared, FileVanishes
<1>2. /\ SharingTypes /\ ListsInv /\ CountersInv  BY DEF SharingInv
<1>3. /\ ListsInv' /\ ThreadsInv' /\ WalkInv' /\ InScan' = InScan /\ InLoading' = InLoading
  BY <1>1, QuietKeeps DEF mainState
<1>4. SharingTypes'  BY <1>1, <1>2 DEF SharingTypes, ListsInv, threadState, mainState
<1>5. CountersInv'  BY <1>1, <1>2, <1>3 DEF CountersInv, lists, threadState, mainState
<1> QED  BY <1>3, <1>4, <1>5 DEF SharingInv

LEMMA StartShareKeeps ==
    ASSUME SharingInv, StartShare
    PROVE  SharingInv'
<1>1. /\ MayShare /\ share_files = <<>> /\ listed # {} /\ shares < MaxShares
      /\ shares' = shares + 1
      /\ in_sharing' = in_sharing + 1 /\ cursor' = Min(listed) /\ sharer' = "sharing"
      /\ UNCHANGED <<lists, disk, saved, share_files, load_files, in_load, scan_done,
                     threadState, walk>>
  BY DEF StartShare
<1>2. /\ SharingTypes /\ ListsInv /\ ThreadsInv /\ CountersInv  BY DEF SharingInv
<1>3. /\ ListsInv' /\ ThreadsInv' /\ WalkInv' /\ InScan' = InScan /\ InLoading' = InLoading
  BY <1>1, QuietKeeps
<1>4. in_sharing = 0 /\ scanner \in {"none", "ended"}
  BY <1>1, <1>2, MayShareMeans DEF ThreadsInv
<1>5. listed \in SUBSET Shareable  BY <1>2 DEF ListsInv
<1>6. Min(listed) \in listed  BY <1>1, <1>5, LeastFile
<1>7. cursor' \in listed' /\ cursor' \in Shareable  BY <1>1, <1>5, <1>6 DEF lists
<1>8. shares' \in 0 .. MaxShares  BY <1>1, <1>2, SharingAssumption DEF SharingTypes
<1>9. SharingTypes'  BY <1>1, <1>2, <1>4, <1>7, <1>8 DEF SharingTypes, threadState
<1>10. CountersInv'  BY <1>1, <1>2, <1>3, <1>4, <1>7 DEF CountersInv, threadState
<1> QED  BY <1>3, <1>9, <1>10 DEF SharingInv

\* While do_share() is at work nothing is in the thread's hand.
LEMMA DoShareMeans ==
    ASSUME SharingInv, InDoShare
    PROVE  /\ sharer = "sharing" /\ walk = 0 /\ in_sharing = 1
           /\ scanner \in {"none", "ended"} /\ scanner \notin Grip /\ inhand = 0
  BY DEF SharingInv, CountersInv, InDoShare, ThreadsInv, Grip

LEMMA DoShareKeeps ==
    ASSUME SharingInv, SharePacket \/ NothingToShare \/ SendFails
    PROVE  SharingInv'
<1>1. /\ InDoShare
      /\ UNCHANGED <<listed, total, short, disk, saved, share_files, load_files, in_load,
                     scan_done, threadState, walk, shares>>
  BY DEF SharePacket, NothingToShare, SendFails, lists
<1>2. /\ SharingTypes /\ ListsInv /\ ThreadsInv /\ CountersInv  BY DEF SharingInv
<1>3. /\ sharer = "sharing" /\ walk = 0 /\ in_sharing = 1
      /\ scanner \in {"none", "ended"} /\ scanner \notin Grip /\ inhand = 0
  BY <1>1, DoShareMeans
<1>4. UNCHANGED <<inhand, held, scanner, loader, owner>>  BY <1>1 DEF threadState
<1>5. listed \subseteq Shareable  BY <1>2 DEF ListsInv
<1> DEFINE f == Min(Unflagged)
<1>6. ListsInv' /\ \/ cursor' = 0 /\ sharer' = "idle" /\ in_sharing' = 0
                   \/ cursor' \in listed /\ sharer' = "sharing" /\ in_sharing' = 1
  <2>1. CASE SharePacket
    <3>1. PICK g \in listed :
            /\ flagged' = flagged \cup Run(f, g)
            /\ shared' = shared + Cardinality(Run(f, g))
            /\ IF NextListed(g) = 0 \/ NextListed(NextListed(g)) = 0
                 THEN SharingEnds
                 ELSE cursor' = NextListed(g) /\ UNCHANGED <<in_sharing, sharer>>
      BY <2>1 DEF SharePacket
    <3>2. Run(f, g) \in SUBSET listed  BY DEF Run
    <3>3. NextListed(g) \in listed \cup {0}  BY <1>5, NextIsListed
    <3> HIDE DEF f
    <3>4. ListsInv'  BY <1>1, <1>2, <1>3, <1>4, <3>1, <3>2, FlagKeeps
    <3> QED  BY <1>3, <3>1, <3>3, <3>4 DEF SharingEnds
  <2>2. CASE NothingToShare
    <3>1. UNCHANGED lists /\ SharingEnds  BY <2>2 DEF NothingToShare
    <3>2. ListsInv'  BY <1>2, <1>4, <3>1, ListsKept
    <3> QED  BY <1>3, <3>1, <3>2 DEF SharingEnds
  <2>3. CASE SendFails
    <3>1. PICK g \in listed : shared' = shared + Cardinality(Run(f, g))
      BY <2>3 DEF SendFails
    <3>2. flagged' = {} /\ in_sharing' = 0 /\ cursor' = 0 /\ sharer' = "idle"
      BY <2>3 DEF SendFails
    <3>3. Run(f, g) \in SUBSET Shareable  BY <1>5 DEF Run
    <3>4. Cardinality(Run(f, g)) \in Nat  BY <3>3, FilesFinite
    <3> HIDE DEF f
    <3>5. shared' \in Int /\ shared' >= 0 - Missing
      BY <1>2, <3>1, <3>4, FlagsCount DEF ListsInv
    <3>6. Flags' = {} /\ Carried' = Carried /\ Missing' = Missing
      BY <1>1, <1>4, <3>2 DEF Flags, Carried, Missing
    <3>7. Cardinality(Flags') = 0 /\ Owed' = 0 /\ scanner' # "store"
      BY <1>3, <1>4, <3>6, FS_EmptySet DEF Owed, Grip
    <3>8. shared' >= Cardinality(Flags') + Owed' - Missing'
      BY <1>2, <3>5, <3>6, <3>7, FlagsCount
    <3>9. ListsInv'  BY <1>1, <1>2, <1>4, <3>2, <3>5, <3>6, <3>7, <3>8 DEF ListsInv
    <3> QED  BY <3>2, <3>9
  <2> QED  BY <2>1, <2>2, <2>3
<1> HIDE DEF f
<1>7. SharingTypes'  BY <1>1, <1>2, <1>5, <1>6 DEF SharingTypes, threadState
<1>8. ThreadsInv'  BY <1>1, <1>2, <1>4 DEF ThreadsInv
<1>9. WalkInv'  BY <1>1, <1>3, SharingAssumption DEF WalkInv, Shareable
<1>10. CountersInv'
  BY <1>1, <1>2, <1>3, <1>4, <1>6, SharingAssumption DEF CountersInv, InScan, InLoading
<1> QED  BY <1>6, <1>7, <1>8, <1>9, <1>10 DEF SharingInv

LEMMA WalksKeep ==
    ASSUME SharingInv, ServerLost \/ ClearFlag \/ ResetShared
    PROVE  SharingInv'
<1>1. /\ UNCHANGED <<listed, total, disk, saved, share_files, load_files, in_load,
                     in_sharing, scan_done, threadState, sharer, cursor, shares>>
  BY DEF ServerLost, ClearFlag, ResetShared, lists
<1>2. /\ SharingTypes /\ ListsInv /\ ThreadsInv /\ WalkInv /\ CountersInv
  BY DEF SharingInv
<1>3. UNCHANGED <<inhand, held, scanner, loader, owner>>  BY <1>1 DEF threadState
<1>4. listed \subseteq Shareable /\ Flags \subseteq listed
  BY <1>2 DEF ListsInv, Flags
<1>5. /\ NFiles \in Nat /\ Past = NFiles + 1 /\ Shareable = 1 .. NFiles
  BY SharingAssumption DEF Past, Shareable
<1>a. \A x \in listed \cup {Past} : x \in 0 .. Past  BY <1>4, <1>5
<1>6. ListsInv' /\ walk' \in 0 .. Past /\ WalkInv'
  <2>1. CASE ServerLost
    <3>1. UNCHANGED lists /\ walk' = Onward(0)  BY <2>1 DEF ServerLost
    <3>2. 0 \in 0 .. NFiles  BY <1>5
    <3>3. Onward(0) \in listed \cup {Past} /\ \A g \in listed : g > 0 => Onward(0) <= g
      BY <1>4, <3>2, OnwardWalks
    <3>4. ListsInv'  BY <1>2, <1>3, <3>1, ListsKept
    <3>5. Flags' = Flags  BY <3>1 DEF lists, Flags
    <3>6. walk' \in 0 .. Past  BY <1>a, <3>1, <3>3, Zenon
    <3>7. WalkInv'  BY <1>1, <1>4, <1>5, <3>1, <3>3, <3>5 DEF WalkInv
    <3> QED  BY <3>4, <3>6, <3>7
  <2>2. CASE ClearFlag
    <3>1. walk \in Shareable /\ flagged' = flagged \ {walk} /\ walk' = Onward(walk)
      BY <2>2 DEF ClearFlag
    <3>2. walk \in 0 .. NFiles  BY <1>5, <3>1
    <3>3. /\ Onward(walk) \in listed \cup {Past}
          /\ \A g \in listed : g > walk => Onward(walk) <= g
      BY <1>4, <3>2, OnwardWalks
    <3>4. ListsInv'  BY <1>2, <2>2, ClearKeeps
    <3>5. Flags' = Flags \ {walk}  BY <1>1, <3>1 DEF Flags
    <3>6. walk' \in 0 .. Past  BY <1>a, <3>1, <3>3, Zenon
    <3>7. \A g \in Flags' : g > walk
      <4>1. walk # 0  BY <1>5, <3>1
      <4>2. \A g \in Flags : walk <= g  BY <1>2, <4>1 DEF WalkInv
      <4> QED  BY <1>4, <1>5, <3>2, <3>5, <4>2
    <3>8. WalkInv'  BY <1>1, <1>4, <1>5, <3>1, <3>3, <3>5, <3>7 DEF WalkInv
    <3> QED  BY <3>4, <3>6, <3>8
  <2>3. CASE ResetShared
    <3>1. walk' = 0  BY <2>3 DEF ResetShared
    <3>2. ListsInv'  BY <1>2, <2>3, ResetKeeps
    <3> QED  BY <1>5, <3>1, <3>2 DEF WalkInv
  <2> QED  BY <2>1, <2>2, <2>3
<1>7. SharingTypes'  BY <1>1, <1>2, <1>6 DEF SharingTypes, threadState
<1>8. ThreadsInv'  BY <1>1, <1>2, <1>3 DEF ThreadsInv
<1>9. CountersInv'  BY <1>1, <1>2, <1>3 DEF CountersInv, InScan, InLoading
<1> QED  BY <1>6, <1>7, <1>8, <1>9 DEF SharingInv

LEMMA ScanFileKeeps ==
    ASSUME SharingInv, ScanFile
    PROVE  SharingInv'
<1>1. /\ scanner = "files"
      /\ UNCHANGED <<disk, saved, share_files, load_files, in_load, in_sharing, scan_done,
                     owner, loader, held, mainState, shares>>
  BY DEF ScanFile
<1>2. /\ SharingTypes /\ ListsInv /\ ThreadsInv /\ WalkInv /\ CountersInv
  BY DEF SharingInv
<1>3. inhand = 0 /\ scanner \notin Grip /\ share_files # <<>> /\ owner = "scan"
      /\ sharer # "sharing" /\ cursor = 0
  BY <1>1, <1>2 DEF ThreadsInv, CountersInv, Grip
<1>4. PICK f \in todo :
        \/ /\ f \in listed /\ listed' = listed \ {f} /\ inhand' = f /\ scanner' = "taken"
           /\ todo' = todo \ {f} /\ UNCHANGED <<flagged, total, shared, short>>
        \/ todo' = todo \ {f} /\ UNCHANGED <<lists, inhand, scanner>>
        \/ /\ f \notin listed /\ AddFiles({f}) /\ todo' \in {todo \ {f}, {}}
           /\ UNCHANGED <<inhand, scanner>>
  BY DEF ScanFile
<1>5. f \in Shareable /\ f # 0 /\ todo' \subseteq Shareable
  <2>1. 0 \notin Shareable  BY SharingAssumption DEF Shareable
  <2>2. todo \subseteq Shareable  BY <1>2 DEF SharingTypes
  <2>3. todo' \subseteq todo \/ todo' = todo  BY <1>4
  <2> QED  BY <2>1, <2>2, <2>3
<1>6. flagged \subseteq listed  BY <1>2, <1>3 DEF ListsInv, Carried
<1>7. /\ ListsInv' /\ listed \cup Carried \subseteq listed' \cup Carried' /\ Flags' \subseteq Flags
      /\ (inhand' = 0 /\ scanner' = "files") \/ (inhand' # 0 /\ scanner' = "taken")
  <2>1. CASE f \in listed /\ listed' = listed \ {f} /\ inhand' = f /\ scanner' = "taken"
             /\ UNCHANGED <<flagged, total, shared, short>>
    <3>1. ListsInv'  BY <1>1, <1>2, <1>3, <2>1, TakeKeeps
    <3>2. Carried' = {f} /\ Carried = {}  BY <1>3, <1>5, <2>1 DEF Carried
    <3> QED  BY <1>5, <2>1, <3>1, <3>2 DEF Flags
  <2>2. CASE UNCHANGED <<lists, inhand, scanner>>
    <3>1. ListsInv'  BY <1>1, <1>2, <2>2, ListsKept
    <3> QED  BY <1>1, <1>3, <2>2, <3>1 DEF lists, Carried, Flags
  <2>3. CASE AddFiles({f}) /\ UNCHANGED <<inhand, scanner>>
    <3>1. {f} \in SUBSET Shareable  BY <1>5
    <3>2. ListsInv'  BY <1>1, <1>2, <1>3, <2>3, <3>1, AddKeeps
    <3>3. listed' = listed \cup {f} /\ UNCHANGED flagged  BY <2>3 DEF AddFiles
    <3> QED  BY <1>1, <1>3, <1>6, <2>3, <3>2, <3>3 DEF Carried, Flags
  <2> QED  BY <1>4, <2>1, <2>2, <2>3
<1>8. SharingTypes'  BY <1>1, <1>2, <1>5, <1>7 DEF SharingTypes, mainState
<1>9. ThreadsInv'  BY <1>1, <1>2, <1>3, <1>7 DEF ThreadsInv, Grip
<1>10. WalkInv'  BY <1>1, <1>2, <1>7, WalkKept DEF mainState
<1>11. CountersInv'
  BY <1>1, <1>2, <1>3, <1>7 DEF CountersInv, InScan, InLoading, Grip, mainState
<1> QED  BY <1>7, <1>8, <1>9, <1>10, <1>11 DEF SharingInv

LEMMA HandStepsKeep ==
    ASSUME SharingInv, WalkApart = TRUE,
           LookShared \/ LoadCount \/ StoreCount \/ FreeFile
    PROVE  SharingInv'
<1>1. /\ UNCHANGED <<listed, disk, saved, share_files, load_files, in_load, in_sharing,
                     scan_done, owner, loader, todo, mainState, shares>>
      /\ scanner \in Grip /\ scanner' \in Grip \cup {"files"}
  BY DEF LookShared, LoadCount, StoreCount, FreeFile, lists, Grip
<1>2. /\ SharingTypes /\ ListsInv /\ ThreadsInv /\ WalkInv /\ CountersInv
  BY DEF SharingInv
<1>3. inhand # 0 /\ share_files # <<>> /\ owner = "scan" /\ sharer # "sharing" /\ cursor = 0
  BY <1>1, <1>2 DEF ThreadsInv, CountersInv, Grip
<1>4. ListsInv' /\ WalkInv' /\ (inhand' # 0 <=> scanner' \in Grip)
  <2>1. CASE LookShared \/ LoadCount \/ StoreCount
    <3>1. UNCHANGED <<flagged, inhand>> /\ scanner' \in Grip
      BY <2>1 DEF LookShared, LoadCount, StoreCount, lists, Grip
    <3>2. Flags' = Flags /\ Carried' = Carried  BY <1>1, <3>1 DEF Flags, Carried
    <3>3. WalkInv'  BY <1>1, <1>2, <3>2, WalkKept DEF mainState
    <3>4. ListsInv'  BY <1>2, <2>1, HandKeeps
    <3> QED  BY <1>3, <3>1, <3>3, <3>4
  <2>2. CASE FreeFile
    <3>1. walk # inhand /\ flagged' = flagged \ {inhand} /\ inhand' = 0 /\ scanner' = "files"
      BY <2>2 DEF FreeFile
    <3>2. Flags' \subseteq Flags /\ Carried = {inhand}  BY <1>1, <1>3, <3>1 DEF Flags, Carried
    <3>3. WalkInv'  BY <1>1, <1>2, <3>1, <3>2 DEF WalkInv, mainState
    <3>4. ListsInv'  BY <1>2, <2>2, FreeKeeps
    <3> QED  BY <3>1, <3>3, <3>4 DEF Grip
  <2> QED  BY <2>1, <2>2
<1>5. SharingTypes'  BY <1>1, <1>2 DEF SharingTypes, mainState, Grip
<1>6. ThreadsInv'  BY <1>1, <1>2, <1>3, <1>4 DEF ThreadsInv, Grip
<1>7. CountersInv'
  BY <1>1, <1>2, <1>3 DEF CountersInv, InScan, InLoading, Grip, mainState
<1> QED  BY <1>4, <1>5, <1>6, <1>7 DEF SharingInv

LEMMA LoaderKeeps ==
    ASSUME SharingInv, LoadLocks \/ LoadShared \/ LoadLeaves
    PROVE  SharingInv'
<1>1. /\ UNCHANGED <<disk, saved, share_files, in_sharing, scan_done, scanner, todo, inhand,
                     held, mainState, shares>>
  BY DEF LoadLocks, LoadShared, LoadLeaves
<1>2. /\ SharingTypes /\ ListsInv /\ ThreadsInv /\ WalkInv /\ CountersInv
  BY DEF SharingInv
<1>3. InScan' = InScan /\ InScan \in {0, 1, 2}  BY <1>1 DEF InScan
<1>4. CASE LoadLocks \/ LoadLeaves
  <2>1. /\ UNCHANGED <<lists, load_files>>
        /\ \/ loader = "born" /\ owner = "none" /\ owner' = "load" /\ loader' = "count"
              /\ in_load' = in_load + 1
           \/ loader = "leave" /\ owner' = "none" /\ loader' = "none" /\ in_load' = in_load - 1
    BY <1>4 DEF LoadLocks, LoadLeaves
  <2>2. ListsInv'  BY <1>1, <1>2, <2>1, ListsKept
  <2>3. SharingTypes'  BY <1>1, <1>2, <2>1 DEF SharingTypes, mainState
  <2>4. ThreadsInv'
    <3>1. scanner \notin {"entry", "files", "relock", "unlock"} \cup Grip
      BY <1>2, <2>1 DEF ThreadsInv, Grip
    <3> QED  BY <1>1, <1>2, <2>1, <3>1 DEF ThreadsInv, Grip
  <2>5. Flags' = Flags /\ Carried' = Carried /\ UNCHANGED listed
    BY <1>1, <2>1 DEF lists, Flags, Carried
  <2>6. WalkInv'  BY <1>1, <1>2, <2>5, WalkKept DEF mainState
  <2>7. CountersInv'
    BY <1>1, <1>2, <1>3, <2>1, <2>5 DEF CountersInv, SharingTypes, InLoading, mainState
  <2> QED  BY <2>2, <2>3, <2>4, <2>6, <2>7 DEF SharingInv
<1>5. CASE LoadShared
  <2>1. /\ loader = "count" /\ AddFiles(saved) /\ load_files' = 0 /\ loader' = "leave"
        /\ UNCHANGED <<in_load, owner>>
    BY <1>5 DEF LoadShared
  <2>2. saved \in SUBSET Shareable  BY <1>2 DEF SharingTypes
  <2>3. scanner \notin Grip /\ inhand = 0  BY <1>2, <2>1 DEF ThreadsInv, Grip
  <2>4. ListsInv'  BY <1>1, <1>2, <2>1, <2>2, <2>3, AddKeeps
  <2>5. SharingTypes'  BY <1>1, <1>2, <2>1 DEF SharingTypes, mainState
  <2>6. ThreadsInv'  BY <1>1, <1>2, <2>1 DEF ThreadsInv, Grip
  <2>7. listed' = listed \cup saved /\ UNCHANGED flagged  BY <2>1 DEF AddFiles
  <2>8. Flags' = Flags /\ Carried' = Carried
    BY <1>1, <1>2, <2>3, <2>7 DEF Flags, Carried, ListsInv
  <2>9. WalkInv'  BY <1>1, <1>2, <2>7, <2>8, WalkKept DEF mainState
  <2>10. CountersInv'
    BY <1>1, <1>2, <1>3, <2>1, <2>7 DEF CountersInv, InLoading, mainState
  <2> QED  BY <2>4, <2>5, <2>6, <2>9, <2>10 DEF SharingInv
<1> QED  BY <1>4, <1>5

LEMMA ScannerKeeps ==
    ASSUME SharingInv,
           ScanBegins \/ ScanLocks \/ ScanEntry \/ ScanNext \/ ScanDone \/ ScanUnlocks \/ ScanLeaves
    PROVE  SharingInv'
<1>1. /\ UNCHANGED <<lists, disk, saved, load_files, in_sharing, loader, inhand, held, mainState,
                     shares>>
      /\ scanner \in {"born", "lock", "entry", "files", "unlock", "leave"}
      /\ scanner' \in {"lock", "entry", "files", "relock", "unlock", "leave", "ended"}
  BY DEF ScanBegins, ScanLocks, ScanEntry, ScanNext, ScanDone, ScanUnlocks, ScanLeaves
<1>2. /\ SharingTypes /\ ListsInv /\ ThreadsInv /\ WalkInv /\ CountersInv
  BY DEF SharingInv
<1>3. todo' \in {disk, todo} /\ scan_done' \in {TRUE, scan_done}
  BY DEF ScanBegins, ScanLocks, ScanEntry, ScanNext, ScanDone, ScanUnlocks, ScanLeaves
<1>4. inhand = 0 /\ inhand' = 0 /\ sharer # "sharing" /\ cursor = 0
  BY <1>1, <1>2 DEF ThreadsInv, CountersInv, Grip
<1>5. share_files' \in Seq(ScanKinds)
  <2>1. share_files \in Seq(ScanKinds)  BY <1>2 DEF SharingTypes
  <2>2. share_files' = share_files \/ (share_files # <<>> /\ share_files' = Tail(share_files))
    BY <1>2 DEF ScanBegins, ScanLocks, ScanEntry, ScanNext, ScanDone, ScanUnlocks,
                ScanLeaves, ThreadsInv
  <2> QED  BY <2>1, <2>2
<1>6. in_load' \in Int /\ in_load' = InScan' + InLoading'
  <2>1. in_load \in Int /\ in_load = InScan + InLoading
    BY <1>2 DEF SharingTypes, CountersInv
  <2>2. InLoading' = InLoading /\ InLoading \in {0, 1}  BY <1>1 DEF InLoading
  <2>3. CASE ScanBegins
    BY <2>1, <2>2, <2>3 DEF ScanBegins, InScan, Grip
  <2>4. CASE ScanLocks \/ ScanNext \/ ScanDone \/ ScanUnlocks
    BY <2>1, <2>2, <2>4 DEF ScanLocks, ScanNext, ScanDone, ScanUnlocks, InScan, Grip
  <2>5. CASE ScanEntry
    BY <2>1, <2>2, <2>5 DEF ScanEntry, InScan, Grip
  <2>6. CASE ScanLeaves
    BY <2>1, <2>2, <2>6 DEF ScanLeaves, InScan, Grip
  <2> QED  BY <2>3, <2>4, <2>5, <2>6
<1>7. ThreadsInv' /\ owner' \in {"scan", "load", "none"}
  <2>1. CASE ScanBegins
    BY <1>1, <1>2, <1>4, <2>1 DEF ScanBegins, ThreadsInv, Grip, SharingTypes
  <2>2. CASE ScanLocks
    BY <1>1, <1>2, <1>4, <2>2 DEF ScanLocks, ThreadsInv, Grip
  <2>3. CASE ScanEntry
    BY <1>1, <1>2, <1>4, <2>3 DEF ScanEntry, ThreadsInv, Grip, SharingTypes
  <2>4. CASE ScanNext \/ ScanDone
    BY <1>1, <1>2, <1>4, <2>4 DEF ScanNext, ScanDone, ThreadsInv, Grip, SharingTypes
  <2>5. CASE ScanUnlocks \/ ScanLeaves
    BY <1>1, <1>2, <1>4, <2>5 DEF ScanUnlocks, ScanLeaves, ThreadsInv, Grip, SharingTypes
  <2> QED  BY <2>1, <2>2, <2>3, <2>4, <2>5
<1>8. ListsInv'  BY <1>1, <1>2, ListsKept
<1>9. SharingTypes'
  <2>1. todo' \subseteq Shareable /\ scan_done' \in BOOLEAN
    BY <1>2, <1>3, Zenon DEF SharingTypes
  <2> QED  BY <1>1, <1>2, <1>5, <1>6, <1>7, <2>1 DEF SharingTypes, mainState
<1>10. Flags' = Flags /\ Carried' = Carried /\ UNCHANGED listed
  BY <1>1 DEF lists, Flags, Carried
<1>11. WalkInv'  BY <1>1, <1>2, <1>10, WalkKept DEF mainState
<1>12. CountersInv'  BY <1>1, <1>2, <1>4, <1>6 DEF CountersInv, mainState
<1> QED  BY <1>7, <1>8, <1>9, <1>11, <1>12 DEF SharingInv

LEMMA JoinsKeep ==
    ASSUME SharingInv, JoinScan \/ ScanJoined
    PROVE  SharingInv'
<1>1. /\ UNCHANGED <<lists, disk, saved, share_files, load_files, in_load, in_sharing, owner,
                     loader, todo, inhand, held, cursor, walk, shares>>
      /\ sharer # "sharing" /\ sharer' \in {"joining", "idle"}
      /\ scanner' = scanner \/ (scanner = "ended" /\ scanner' = "none")
  BY DEF JoinScan, ScanJoined, threadState
<1>2. /\ SharingTypes /\ ListsInv /\ ThreadsInv /\ WalkInv /\ CountersInv
  BY DEF SharingInv
<1>3. scan_done' \in BOOLEAN
  BY <1>2, Zenon DEF JoinScan, ScanJoined, SharingTypes
<1>4. ListsInv'  BY <1>1, <1>2, ListsKept
<1>5. SharingTypes'  BY <1>1, <1>2, <1>3 DEF SharingTypes
<1>6. ThreadsInv'  BY <1>1, <1>2 DEF ThreadsInv, Grip
<1>7. Flags' = Flags /\ Carried' = Carried /\ UNCHANGED listed
  BY <1>1 DEF lists, Flags, Carried
<1>8. WalkInv'  BY <1>1, <1>2, <1>7, WalkKept
<1>9. CountersInv'
  BY <1>1, <1>2, <1>7 DEF CountersInv, InScan, InLoading, Grip
<1> QED  BY <1>4, <1>5, <1>6, <1>8, <1>9 DEF SharingInv

LEMMA SharingInvNext ==
    ASSUME WalkApart = TRUE
    PROVE  SharingInv /\ [SharingNext]_sharingVars => SharingInv'
<1> SUFFICES ASSUME SharingInv, [SharingNext]_sharingVars PROVE SharingInv'  OBVIOUS
<1>1. CASE UNCHANGED sharingVars
  <2>1. UNCHANGED <<lists, threadState, walk, share_files>>
    BY <1>1 DEF sharingVars, mainState
  <2>2. ListsInv' /\ ThreadsInv' /\ WalkInv' /\ InScan' = InScan /\ InLoading' = InLoading
    BY <2>1, QuietKeeps
  <2>3. SharingTypes' /\ CountersInv'
    BY <1>1, <2>2
       DEF SharingInv, sharingVars, mainState, lists, threadState, SharingTypes, CountersInv
  <2> QED  BY <2>2, <2>3 DEF SharingInv
<1>2. CASE SharingNext
  <2>1. CASE ScanSteps
    BY <2>1, ScannerKeeps, ScanFileKeeps, HandStepsKeep DEF ScanSteps
  <2>2. CASE LoadSteps
    BY <2>2, LoaderKeeps DEF LoadSteps
  <2>3. CASE ShareSteps
    BY <2>3, WalksKeep, DoShareKeeps, JoinsKeep DEF ShareSteps
  <2>4. CASE ShareCommands
    BY <2>4, ShareCommandKeeps, CommandsKeep, FilesKeep, StartShareKeeps DEF ShareCommands
  <2>5. CASE ServerLost \/ FileVanishes
    BY <2>5, WalksKeep, FilesKeep
  <2> QED  BY <1>2, <2>1, <2>2, <2>3, <2>4, <2>5 DEF SharingNext
<1> QED  BY <1>1, <1>2

\* Neither a turn of the main loop nor a thread of /share pulls the list of shared files
\* from under do_share() or a lost server's walk, and the counters go with the list, but
\* for the one a lost server may cost: for any number of files, in any directories,
\* whatever is asked for and wherever a thread stands when the server goes, as long as it
\* does not free the very file the walk stands on.
THEOREM ShareListIsSound ==
    ASSUME WalkApart = TRUE
    PROVE  SharingSpec => []ShareListSound
<1>1. SharingInv => ShareListSound
  <2> SUFFICES ASSUME SharingInv PROVE ShareListSound  OBVIOUS
  <2>1. ListsInv /\ WalkInv /\ CountersInv  BY DEF SharingInv
  <2>2. shared >= Cardinality(Flags) - Missing  BY <2>1, FlagsCount DEF ListsInv
  <2>3. CountsHold  BY <2>1, <2>2 DEF ListsInv, CountsHold, Flags, Missing
  <2> QED  BY <2>1, <2>3 DEF ShareListSound, CursorStays, WalkStays, WalkInv, CountersInv
<1> QED  BY <1>1, SharingInvInit, SharingInvNext, PTL DEF SharingSpec

----------------------------------------------------------------------------
(* Processes *)

\* The types of what a hook, a handler or the main loop finds.
ProcessRecord == [exited : BOOLEAN, dumb : BOOLEAN, stdout : Fds \cup {0},
                  stderr : Fds \cup {0}, counter : Int]
FrameRecord == [f : {"do", "clean", "hook"}, i : Nat \ {0}, p : {0} \cup Procs,
                step : {"load", "stdout", "stderr", "limit", "ends", "run"}, left : Int]
Outside == [is : {"unborn", "alive", "zombie", "gone"}, holds : BOOLEAN]
Turns == {"select", "input", "processes", "reap"}
Pipe == [lines : Nat, part : BOOLEAN]
Buffer == [lines : Nat, part : BOOLEAN, segments : Nat]

\* The state as the invariant speaks of it: who was started, whose outputs are at their
\* end or given up, who may print, what is in the pipes and buffers, what was not handed
\* out, what of it is still there, and the descriptors.
Born == {p \in Procs : world[p].is # "unborn"}
Dumb == {p \in Procs : proc[p].dumb}
Holding == {p \in Procs : world[p].holds}
Left == {x \in Outputs : unread[x] # Nothing \/ io[x].lines > 0}
Late == {x \in Outputs : owed[x] # 0}
Even == {x \in Outputs : owed[x] = unread[x].lines + io[x].lines}
Fd == [x \in Outputs |-> proc[x[1]][x[2]]]

Entries(list) == {list[i] : i \in DOMAIN list} \ {0}

\* No process has two slots, and those on the list were started and are not freed.
ListSound(list, born, freed) ==
    /\ list \in Seq({0} \cup Procs)
    /\ \A i, j \in DOMAIN list : list[i] = list[j] /\ list[i] # 0 => i = j
    /\ Entries(list) \subseteq born \ freed
    /\ freed \subseteq born

\* A process that cleanup_dead_processes() is about to free is off the list, not
\* freed yet, and at the end of its outputs.
CleanSound(x, on, born, freed, dumb) ==
    /\ x.step \in {"load", "ends"}
    /\ x.step = "load" <=> x.p = 0
    /\ x.p # 0 => x.p \in (born \cap dumb) \ (on \cup freed)

\* What do_processes() points to is in the slot it has got to, and keeps it there
\* while hooks run: its outputs are not at their end.
DoSound(x, t, list) ==
    /\ t = "reap"
    /\ x.step \in {"load", "stdout", "stderr", "limit"}
    /\ x.step = "load" <=> x.p = 0
    /\ x.p # 0 => x.i \in DOMAIN list /\ list[x.i] = x.p

DoRuns(st) == st # <<>> /\ st[1].f = "do"

FrameSound(x, list, born, freed, dumb) ==
    /\ x.f = "hook" => x.p = 0
    /\ x.f = "clean" => CleanSound(x, Entries(list), born, freed, dumb)

FramesSound(st, t, list, born, freed, dumb) ==
    /\ st \in Seq(FrameRecord)
    /\ \A k \in DOMAIN st : st[k].f = "do" => k = 1
    /\ \A k \in DOMAIN st : FrameSound(st[k], list, born, freed, dumb)
    /\ \A k, l \in DOMAIN st :
          st[k].f = "clean" /\ st[l].f = "clean" /\ st[k].p = st[l].p /\ st[k].p # 0 => k = l
    /\ DoRuns(st) => /\ DoSound(st[1], t, list)
                     /\ Len(st) > 1 => st[1].p # 0 /\ st[1].p \notin dumb

\* A descriptor belongs to one output; those of a process that is not started or at
\* the end of its outputs are closed.
FdsSound(fd, born, dumb, ready) ==
    /\ fd \in [Outputs -> Fds \cup {0}]
    /\ \A x, y \in Outputs : fd[x] = fd[y] /\ fd[x] # 0 => x = y
    /\ dumb \subseteq born
    /\ \A x \in Outputs : x[1] \notin born \/ x[1] \in dumb => fd[x] = 0
    /\ ready \subseteq Fds

\* The outputs that do_processes() has yet to look at in this turn.
Todo(step) == IF step \in {"load", "stdout"} THEN Streams
              ELSE IF step = "stderr" THEN {"stderr"} ELSE {}

AwaitedBy(x, list) ==
    {y \in Outputs : \E j \in DOMAIN list :
        list[j] = y[1] /\ (j > x.i \/ (j = x.i /\ y[2] \in Todo(x.step)))}

Awaited(t, st, list) ==
    IF t \in {"input", "processes"} THEN Outputs
    ELSE IF DoRuns(st) THEN AwaitedBy(st[1], list) ELSE {}

\* select() is right about an output until do_processes() has looked at it, except where
\* the descriptor was another's.
ReadySound(fd, ready, awaited, gone, left, holding) ==
    \A x \in awaited \ gone : fd[x] \in ready => x \in left \/ x[1] \notin holding

\* The lines that were not handed out are in the pipe or in the buffer while an output is
\* open; when it was closed there were none.
OutputSound(fd, born, gone, late, even, holding) ==
    /\ \A x \in Outputs \ gone :
          x[1] \in born /\ fd[x] = 0 => x \notin late /\ x[1] \notin holding
    /\ \A x \in Outputs \ gone : x[1] \notin born \/ fd[x] # 0 => x \in even

ExecTyped ==
    /\ proc \in [Procs -> ProcessRecord] /\ world \in [Procs -> Outside]
    /\ unread \in [Outputs -> Pipe] /\ io \in [Outputs -> Buffer]
    /\ owed \in [Outputs -> Int] /\ turn \in Turns

ExecInv ==
    /\ ExecTyped
    /\ ListSound(process_list, Born, expunged)
    /\ FramesSound(stack, turn, process_list, Born, expunged, Dumb)
    /\ FdsSound(Fd, Born, Dumb, rd)
    /\ turn = "select" => rd = {}
    /\ ReadySound(Fd, rd, Awaited(turn, stack, process_list), forgotten, Left, Holding)
    /\ OutputSound(Fd, Born, forgotten, Late, Even, Holding)

----------------------------------------------------------------------------

\* A sequence with its end replaced.
Onto(s, m, u) == SubSeq(s, 1, m) \o u

Joined(w, s, m, u) == /\ Len(w) = m + Len(u)
                      /\ \A k \in 1 .. m : w[k] = s[k]
                      /\ \A k \in m + 1 .. m + Len(u) : w[k] = u[k - m]

LEMMA OntoProperties ==
    ASSUME NEW S, NEW s \in Seq(S), NEW m \in 0 .. Len(s), NEW u \in Seq(S)
    PROVE  Onto(s, m, u) \in Seq(S) /\ Joined(Onto(s, m, u), s, m, u)
<1> DEFINE before == SubSeq(s, 1, m)
           all == before \o u
<1>1. Len(s) \in Nat /\ Len(u) \in Nat /\ \A k \in 1 .. Len(s) : s[k] \in S
  BY LenProperties, ElementOfSeq
<1>2. /\ before \in Seq(S) /\ Len(before) = m
      /\ \A k \in 1 .. m : before[k] = s[k]
  <2>1. 1 \in Int /\ m \in Int /\ \A k \in 1 .. m : s[k] \in S  BY <1>1
  <2> HIDE DEF before
  <2>2. /\ before \in Seq(S) /\ Len(before) = (IF 1 <= m THEN m - 1 + 1 ELSE 0)
        /\ \A k \in 1 .. m - 1 + 1 : before[k] = s[1 + k - 1]
    BY <2>1, SubSeqProperties DEF before
  <2> QED  BY <1>1, <2>2
<1> HIDE DEF before
<1>3. /\ all \in Seq(S) /\ Len(all) = Len(before) + Len(u)
      /\ \A k \in 1 .. Len(before) + Len(u) :
           all[k] = IF k <= Len(before) THEN before[k] ELSE u[k - Len(before)]
  BY <1>2, ConcatProperties
<1> HIDE DEF all
<1>4. \A k \in 1 .. m : all[k] = s[k]  BY <1>1, <1>2, <1>3
<1>5. \A k \in m + 1 .. m + Len(u) : all[k] = u[k - m]  BY <1>1, <1>2, <1>3
<1>6. all \in Seq(S) /\ Joined(all, s, m, u)  BY <1>2, <1>3, <1>4, <1>5 DEF Joined
<1> QED  BY <1>6 DEF all, before, Onto

\* What the stack becomes by a step of its last frame.
Steps(s, m, below, x, y) ==
    /\ below = Onto(s, m, <<>>)
    /\ Append(below, x) = Onto(s, m, <<x>>)
    /\ below \o <<x, y>> = Onto(s, m, <<x, y>>)
    /\ Append(Append(below, x), y) = Onto(s, m, <<x, y>>)

LEMMA StackSteps ==
    ASSUME NEW S, NEW s \in Seq(S), s # <<>>, NEW x \in S, NEW y \in S
    PROVE  Steps(s, Len(s) - 1, SubSeq(s, 1, Len(s) - 1), x, y)
<1> DEFINE n == Len(s)
           below == SubSeq(s, 1, n - 1)
<1>1. n \in Nat \ {0}  BY EmptySeq
<1>2. n - 1 \in 0 .. n /\ n \in 1 .. n  BY <1>1
<1>4. below \in Seq(S)
  <2>1. <<>> \in Seq(S)  OBVIOUS
  <2> QED  BY <1>1, <1>2, ElementOfSeq, SubSeqProperties
<1> HIDE DEF below
<1>5. below \o <<>> = below  BY <1>4, ConcatEmptySeq
<1>6. Append(below, x) = below \o <<x>>  BY <1>4
<1>7. Append(Append(below, x), y) = below \o <<x, y>>
  <2>1. <<x>> \in Seq(S) /\ <<y>> \in Seq(S)  OBVIOUS
  <2>5. <<x>> \o <<y>> = <<x, y>>
    <3> DEFINE both == <<x>> \o <<y>>
    <3>1. /\ both \in Seq(S) /\ Len(both) = Len(<<x>>) + Len(<<y>>)
          /\ \A k \in 1 .. Len(<<x>>) + Len(<<y>>) :
               both[k] = IF k <= Len(<<x>>) THEN <<x>>[k] ELSE <<y>>[k - Len(<<x>>)]
      BY <2>1, ConcatProperties
    <3> HIDE DEF both
    <3>2. Len(both) = 2 /\ both[1] = x /\ both[2] = y  BY <3>1
    <3>3. <<x, y>> \in Seq(S) /\ Len(<<x, y>>) = 2 /\ <<x, y>>[1] = x /\ <<x, y>>[2] = y
      OBVIOUS
    <3>4. \A k \in 1 .. Len(both) : both[k] = <<x, y>>[k]  BY <3>2, <3>3
    <3>5. both = <<x, y>>  BY <3>1, <3>2, <3>3, <3>4, SeqEqual
    <3> QED  BY <3>5 DEF both
  <2>2. (below \o <<x>>) \o <<y>> = below \o (<<x>> \o <<y>>)
    BY <1>4, <2>1, ConcatAssociative
  <2>3. below \o <<x>> \in Seq(S)  BY <1>4, <2>1, ConcatProperties
  <2>4. Append(below \o <<x>>, y) = (below \o <<x>>) \o <<y>>  BY <2>3
  <2> QED  BY <1>6, <2>2, <2>4, <2>5
<1> QED  BY <1>5, <1>6, <1>7 DEF Steps, Onto, below

\* The frames stay sound when the upper ones are replaced and the rest of the state
\* changes, as long as that suits each of them.
LEMMA FramesStep ==
    ASSUME NEW st, NEW t, NEW list, NEW born, NEW freed, NEW dumb,
           FramesSound(st, t, list, born, freed, dumb),
           NEW t2, NEW list2, NEW born2, NEW freed2, NEW dumb2,
           NEW m \in 0 .. Len(st), NEW u \in Seq(FrameRecord),
           \A k \in 1 .. Len(u) : u[k].f = "do" => k = 1 /\ m = 0,
           \A k \in 1 .. Len(u) : FrameSound(u[k], list2, born2, freed2, dumb2),
           \A k \in 1 .. m : FrameSound(st[k], list2, born2, freed2, dumb2),
           \A k \in 1 .. Len(u) : u[k].f = "clean" /\ u[k].p # 0 =>
               k = 1 /\ \A l \in 1 .. m : st[l].f = "clean" => st[l].p # u[k].p,
           m > 0 /\ DoRuns(st) =>
               /\ DoSound(st[1], t2, list2)
               /\ m + Len(u) > 1 => st[1].p # 0 /\ st[1].p \notin dumb2,
           m = 0 /\ DoRuns(u) =>
               /\ DoSound(u[1], t2, list2)
               /\ Len(u) > 1 => u[1].p # 0 /\ u[1].p \notin dumb2
    PROVE  FramesSound(Onto(st, m, u), t2, list2, born2, freed2, dumb2)
<1> DEFINE w == Onto(st, m, u)
<1>1. st \in Seq(FrameRecord) /\ Len(st) \in Nat /\ Len(u) \in Nat /\ DOMAIN st = 1 .. Len(st)
  BY LenProperties DEF FramesSound
<1>2. /\ w \in Seq(FrameRecord) /\ Len(w) = m + Len(u)
      /\ \A k \in 1 .. m : w[k] = st[k]
      /\ \A k \in m + 1 .. m + Len(u) : w[k] = u[k - m]
  <2>1. w \in Seq(FrameRecord) /\ Joined(w, st, m, u)  BY <1>1, OntoProperties
  <2> QED  BY <2>1 DEF Joined
<1> HIDE DEF w
<1>3. DOMAIN w = 1 .. m + Len(u)  BY <1>2, LenProperties
<1>4. \A k \in DOMAIN st : st[k].f = "do" => k = 1
  BY DEF FramesSound
<1>5. ASSUME NEW k \in DOMAIN w
      PROVE  (w[k].f = "do" => k = 1) /\ FrameSound(w[k], list2, born2, freed2, dumb2)
  <2>1. CASE k \in 1 .. m  BY <1>1, <1>2, <1>4, <2>1
  <2>2. CASE k \notin 1 .. m
    <3>1. k \in m + 1 .. m + Len(u) /\ k - m \in 1 .. Len(u)  BY <1>1, <1>3, <2>2
    <3>2. w[k] = u[k - m]  BY <1>2, <3>1
    <3> QED  BY <1>1, <3>1, <3>2
  <2> QED  BY <2>1, <2>2
<1>6. ASSUME NEW k \in DOMAIN w, NEW l \in DOMAIN w,
             w[k].f = "clean", w[l].f = "clean", w[k].p = w[l].p, w[k].p # 0
      PROVE  k = l
  <2>1. \A a, b \in DOMAIN st : st[a].f = "clean" /\ st[b].f = "clean" /\ st[a].p = st[b].p
                                 /\ st[a].p # 0 => a = b
    BY DEF FramesSound
  <2>2. ASSUME NEW a \in DOMAIN w PROVE a \in 1 .. m \/ (a - m \in 1 .. Len(u) /\ w[a] = u[a - m])
    <3> SUFFICES ASSUME a \notin 1 .. m PROVE a - m \in 1 .. Len(u) /\ w[a] = u[a - m]
      OBVIOUS
    <3>1. a \in m + 1 .. m + Len(u) /\ a - m \in 1 .. Len(u)  BY <1>1, <1>3
    <3> QED  BY <1>2, <3>1
  <2>3. CASE k \in 1 .. m /\ l \in 1 .. m  BY <1>1, <1>2, <1>6, <2>1, <2>3
  <2>4. CASE k \notin 1 .. m /\ l \in 1 .. m  BY <1>2, <1>6, <2>2, <2>4
  <2>5. CASE k \in 1 .. m /\ l \notin 1 .. m  BY <1>2, <1>6, <2>2, <2>5
  <2>6. CASE k \notin 1 .. m /\ l \notin 1 .. m
    <3>1. k - m = 1 /\ l - m = 1  BY <1>6, <2>2, <2>6
    <3> QED  BY <1>3, <3>1
  <2> QED  BY <2>3, <2>4, <2>5, <2>6
<1>7. DoRuns(w) => /\ DoSound(w[1], t2, list2)
                   /\ Len(w) > 1 => w[1].p # 0 /\ w[1].p \notin dumb2
  <2> SUFFICES ASSUME DoRuns(w)
               PROVE  /\ DoSound(w[1], t2, list2)
                      /\ Len(w) > 1 => w[1].p # 0 /\ w[1].p \notin dumb2
    OBVIOUS
  <2>1. w # <<>> /\ w[1].f = "do"  BY DEF DoRuns
  <2>2. m + Len(u) > 0  BY <1>1, <1>2, <2>1, EmptySeq
  <2>3. CASE m > 0
    <3>1. w[1] = st[1]  BY <1>1, <1>2, <2>3
    <3>2. st # <<>>  BY <1>1, <2>3
    <3>3. DoRuns(st)  BY <2>1, <3>1, <3>2 DEF DoRuns
    <3> QED  BY <1>2, <2>3, <3>1, <3>3
  <2>4. CASE m = 0
    <3>1. w[1] = u[1]
      <4>1. 1 \in m + 1 .. m + Len(u) /\ 1 - m = 1  BY <1>1, <2>2, <2>4
      <4> QED  BY <1>2, <4>1
    <3>2. u # <<>>  BY <1>1, <2>2, <2>4
    <3>3. DoRuns(u)  BY <2>1, <3>1, <3>2 DEF DoRuns
    <3> QED  BY <1>1, <1>2, <2>4, <3>1, <3>3
  <2> QED  BY <1>1, <2>3, <2>4
<1>8. /\ \A k \in DOMAIN w : w[k].f = "do" => k = 1
      /\ \A k \in DOMAIN w : FrameSound(w[k], list2, born2, freed2, dumb2)
      /\ \A k, l \in DOMAIN w :
           w[k].f = "clean" /\ w[l].f = "clean" /\ w[k].p = w[l].p /\ w[k].p # 0 => k = l
  BY <1>5, <1>6
<1> QED  BY <1>2, <1>7, <1>8 DEF FramesSound, w

\* The frames that are called.
LEMMA FrameFacts ==
    /\ Clean \in FrameRecord /\ Clean.f = "clean" /\ Clean.p = 0 /\ Clean.step = "load"
    /\ Hook \in FrameRecord /\ Hook.f = "hook" /\ Hook.p = 0
  BY ExecAssumption DEF Clean, Hook, Frame, FrameRecord

\* The frames when there are one or two only.
LEMMA FewFrames ==
    ASSUME NEW t, NEW list, NEW born, NEW freed, NEW dumb, NEW y \in FrameRecord,
           \/ y.f = "hook" /\ y.p = 0
           \/ y = Clean
           \/ y.f = "do" /\ DoSound(y, t, list),
           NEW u,
           u = <<y>> \/ (u = <<y, Hook>> /\ y.f = "do" /\ y.p # 0 /\ y.p \notin dumb)
    PROVE  FramesSound(u, t, list, born, freed, dumb) /\ (DoRuns(u) => y.f = "do" /\ u[1] = y)
<1>1. /\ Clean \in FrameRecord /\ Clean.f = "clean" /\ Clean.p = 0 /\ Clean.step = "load"
      /\ Hook \in FrameRecord /\ Hook.f = "hook" /\ Hook.p = 0
  BY FrameFacts
<1>2. /\ u \in Seq(FrameRecord) /\ u # <<>> /\ u[1] = y /\ 1 \in DOMAIN u
      /\ \A k \in DOMAIN u : k = 1 \/ (k = 2 /\ u[k] = Hook)
      /\ Len(u) > 1 => y.f = "do" /\ y.p # 0 /\ y.p \notin dumb
  <2>1. CASE u = <<y>>  BY <2>1
  <2>2. CASE u = <<y, Hook>> /\ y.f = "do" /\ y.p # 0 /\ y.p \notin dumb
    <3> DEFINE h == Hook
    <3>1. h \in FrameRecord  BY <1>1
    <3> HIDE DEF h
    <3>2. u = <<y, h>>  BY <2>2 DEF h
    <3>3. /\ u \in Seq(FrameRecord) /\ u # <<>> /\ u[1] = y /\ 1 \in DOMAIN u
          /\ \A k \in DOMAIN u : k = 1 \/ (k = 2 /\ u[k] = h)
      BY <3>1, <3>2
    <3> QED  BY <2>2, <3>3 DEF h
  <2> QED  BY <2>1, <2>2
<1> HIDE DEF Clean, Hook
<1>3. CleanSound(Clean, Entries(list), born, freed, dumb)  BY <1>1 DEF CleanSound
<1>4. ASSUME NEW k \in DOMAIN u
      PROVE  /\ u[k].f = "do" => k = 1
             /\ FrameSound(u[k], list, born, freed, dumb)
             /\ u[k].f = "clean" => u[k].p = 0
  <2>1. CASE k = 2 /\ u[k] = Hook  BY <1>1, <2>1 DEF FrameSound
  <2>2. CASE k = 1
    <3>1. u[k] = y  BY <1>2, <2>2
    <3>2. CASE y.f = "hook" /\ y.p = 0  BY <2>2, <3>1, <3>2 DEF FrameSound
    <3>3. CASE y = Clean  BY <1>1, <1>3, <2>2, <3>1, <3>3 DEF FrameSound
    <3>4. CASE y.f = "do"  BY <2>2, <3>1, <3>4 DEF FrameSound
    <3> QED  BY <3>2, <3>3, <3>4
  <2> QED  BY <1>2, <2>1, <2>2
<1>5. y.f = "do" => DoSound(y, t, list)  BY <1>1
<1>6. DoRuns(u) => y.f = "do" /\ u[1] = y  BY <1>2 DEF DoRuns
<1>7. DoRuns(u) => /\ DoSound(u[1], t, list)
                   /\ Len(u) > 1 => u[1].p # 0 /\ u[1].p \notin dumb
  BY <1>2, <1>5, <1>6
<1>8. /\ \A k \in DOMAIN u : u[k].f = "do" => k = 1
      /\ \A k \in DOMAIN u : FrameSound(u[k], list, born, freed, dumb)
      /\ \A k, l \in DOMAIN u :
           u[k].f = "clean" /\ u[l].f = "clean" /\ u[k].p = u[l].p /\ u[k].p # 0 => k = l
  BY <1>4
<1> QED  BY <1>2, <1>6, <1>7, <1>8 DEF FramesSound

\* The frames when one that is not of do_processes() ends, goes on or calls.
LEMMA UpperFrames ==
    ASSUME NEW st, NEW t, NEW list, NEW born, NEW freed, NEW dumb,
           FramesSound(st, t, list, born, freed, dumb),
           NEW list2, NEW born2, NEW freed2, NEW dumb2,
           NEW m \in 0 .. Len(st), NEW y \in FrameRecord, NEW z, z = Clean \/ z = Hook,
           y.f # "do", FrameSound(y, list2, born2, freed2, dumb2),
           y.f = "clean" /\ y.p # 0 => \A l \in 1 .. m : st[l].f = "clean" => st[l].p # y.p,
           NEW u, u = <<>> \/ u = <<y>> \/ u = <<y, z>> \/ u = <<z>>,
           \A k \in 1 .. m : FrameSound(st[k], list2, born2, freed2, dumb2),
           m > 0 /\ DoRuns(st) => DoSound(st[1], t, list2) /\ st[1].p # 0 /\ st[1].p \notin dumb2
    PROVE  FramesSound(Onto(st, m, u), t, list2, born2, freed2, dumb2)
<1>1. z \in FrameRecord /\ z.f \in {"clean", "hook"} /\ z.p = 0 /\ (z.f = "clean" => z.step = "load")
  BY FrameFacts
<1>2. FrameSound(z, list2, born2, freed2, dumb2)  BY <1>1 DEF FrameSound, CleanSound
<1>3. /\ u \in Seq(FrameRecord)
      /\ \A k \in 1 .. Len(u) : u[k] = z \/ (k = 1 /\ u[k] = y)
  <2>1. y \in FrameRecord  OBVIOUS
  <2>2. CASE u = <<>>  BY <2>2
  <2>3. CASE u = <<y>>  BY <2>3
  <2>4. CASE u = <<z>>  BY <1>1, <2>4
  <2>5. CASE u = <<y, z>>
    <3>1. /\ <<y, z>> \in Seq(FrameRecord) /\ Len(<<y, z>>) = 2
          /\ <<y, z>>[1] = y /\ <<y, z>>[2] = z
      BY <1>1
    <3> QED  BY <2>5, <3>1
  <2> QED  BY <2>2, <2>3, <2>4, <2>5
<1>4. \A k \in 1 .. Len(u) : u[k].f # "do"  BY <1>1, <1>3
<1>5. ~ DoRuns(u)
  <2>1. u # <<>> => Len(u) \in Nat \ {0}  BY <1>3, EmptySeq
  <2>2. u # <<>> => u[1].f # "do"  BY <1>4, <2>1
  <2> QED  BY <2>2 DEF DoRuns
<1>6. \A k \in 1 .. Len(u) : FrameSound(u[k], list2, born2, freed2, dumb2)  BY <1>2, <1>3
<1>7. \A k \in 1 .. Len(u) : u[k].f = "clean" /\ u[k].p # 0 =>
          k = 1 /\ \A l \in 1 .. m : st[l].f = "clean" => st[l].p # u[k].p
  BY <1>1, <1>3
<1>8. \A k \in 1 .. Len(u) : u[k].f = "do" => k = 1 /\ m = 0  BY <1>4
<1> QED  BY <1>3, <1>5, <1>6, <1>7, <1>8, FramesStep

\* What a frame and the list have to do with each other stays.
LEMMA FrameKept ==
    ASSUME NEW x, NEW list, NEW born, NEW freed, NEW dumb, FrameSound(x, list, born, freed, dumb),
           NEW list2, NEW born2, NEW freed2, NEW dumb2,
           born \subseteq born2, dumb \subseteq dumb2,
           x.f = "clean" /\ x.p \in born \ (Entries(list) \cup freed)
               => x.p \notin Entries(list2) \cup freed2
    PROVE  FrameSound(x, list2, born2, freed2, dumb2)
<1>1. x.f = "clean" => CleanSound(x, Entries(list2), born2, freed2, dumb2)
  <2> SUFFICES ASSUME x.f = "clean" PROVE CleanSound(x, Entries(list2), born2, freed2, dumb2)
    OBVIOUS
  <2>1. /\ x.step \in {"load", "ends"} /\ (x.step = "load" <=> x.p = 0)
        /\ x.p # 0 => x.p \in (born \cap dumb) \ (Entries(list) \cup freed)
    BY DEF FrameSound, CleanSound
  <2> QED  BY <2>1 DEF CleanSound
<1> QED  BY <1>1 DEF FrameSound

\* A list that has some of the entries of another, each in its slot.
Within(list2, list) ==
    \A j \in DOMAIN list2 : list2[j] # 0 => j \in DOMAIN list /\ list2[j] = list[j]

LEMMA ListWithin ==
    ASSUME NEW list, NEW born, NEW freed, ListSound(list, born, freed),
           NEW list2 \in Seq({0} \cup Procs), Within(list2, list)
    PROVE  Entries(list2) \subseteq Entries(list) /\ ListSound(list2, born, freed)
<1>1. Entries(list2) \subseteq Entries(list)  BY DEF Entries, Within
<1>2. \A i, j \in DOMAIN list2 : list2[i] = list2[j] /\ list2[i] # 0 => i = j
  BY DEF Within, ListSound
<1> QED  BY <1>1, <1>2 DEF ListSound

LEMMA LeastMember ==
    ASSUME NEW T \in SUBSET Nat, T # {}
    PROVE  Min(T) \in T
<1>1. \E x \in T : \A y \in T : x <= y  BY LeastNumber
<1> QED  BY <1>1, Zenon DEF Min

\* The first slot from i on that qualifies, or one past the end.
LEMMA SlotFound ==
    ASSUME process_list \in Seq({0} \cup Procs), NEW i \in Nat, NEW ps
    PROVE  \/ NextSlot(i, ps) = Len(process_list) + 1
           \/ /\ NextSlot(i, ps) \in i .. Len(process_list)
              /\ process_list[NextSlot(i, ps)] \in ps
<1> DEFINE n == Len(process_list)
           T == {n + 1} \cup {k \in i .. n : process_list[k] \in ps}
<1>1. n \in Nat  BY LenProperties
<1> HIDE DEF n
<1>2. T \in SUBSET Nat /\ T # {}  BY <1>1
<1>3. Min(T) \in T  BY <1>2, LeastMember
<1>4. NextSlot(i, ps) = Min(T)  BY DEF NextSlot, n
<1>5. Min(T) = n + 1 \/ (Min(T) \in i .. n /\ process_list[Min(T)] \in ps)  BY <1>3
<1> HIDE DEF T
<1> QED  BY <1>4, <1>5 DEF n

\* Above a bounded set of numbers nothing is used.
LEMMA MaxProperties ==
    ASSUME NEW T \in SUBSET Nat, T # {}, NEW n \in Nat, \A x \in T : x <= n
    PROVE  Max(T) \in T /\ \A x \in T : Max(T) >= x
<1> DEFINE B == {b \in Nat : \A x \in T : x <= b}
<1>1. B \in SUBSET Nat /\ B # {}  OBVIOUS
<1> HIDE DEF B
<1>2. PICK m \in B : \A k \in B : m <= k  BY <1>1, LeastNumber
<1>3. m \in Nat /\ \A x \in T : x <= m  BY <1>2 DEF B
<1>4. m \in T
  <2> SUFFICES ASSUME m \notin T PROVE FALSE  OBVIOUS
  <2>1. \A x \in T : x <= m - 1  BY <1>3
  <2>2. m # 0
    <3>1. PICK x \in T : TRUE  OBVIOUS
    <3>2. x \in Nat /\ x <= m /\ x # m  BY <1>3, <3>1
    <3> QED  BY <1>3, <3>2
  <2>3. m - 1 \in B  BY <1>3, <2>1, <2>2 DEF B
  <2> QED  BY <1>2, <1>3, <2>3
<1>5. \E x \in T : \A y \in T : x >= y
  <2>1. \A y \in T : m >= y  BY <1>3
  <2> QED  BY <1>4, <2>1
<1> QED  BY <1>5, Zenon DEF Max

\* A process that is put in an empty slot or a new one.
LEMMA EntryAdded ==
    ASSUME NEW list, NEW born, NEW freed, ListSound(list, born, freed),
           NEW p \in Procs, p \notin born, NEW list2,
           \/ list2 = Append(list, p)
           \/ \E i \in DOMAIN list : list[i] = 0 /\ list2 = [list EXCEPT ![i] = p]
    PROVE  /\ ListSound(list2, born \cup {p}, freed)
           /\ Entries(list2) \subseteq Entries(list) \cup {p}
           /\ \A j \in DOMAIN list : list[j] # 0 => j \in DOMAIN list2 /\ list2[j] = list[j]
           /\ \A j \in DOMAIN list2 : list2[j] = p \/ (j \in DOMAIN list /\ list2[j] = list[j])
<1> DEFINE S == {0} \cup Procs
<1>1. list \in Seq(S) /\ p \in S /\ p # 0 /\ Len(list) \in Nat /\ DOMAIN list = 1 .. Len(list)
  <2>1. list \in Seq(S)  BY DEF ListSound
  <2>2. p \in S /\ p # 0  BY ExecAssumption DEF Procs
  <2> HIDE DEF S
  <2> QED  BY <2>1, <2>2, LenProperties
<1>2. \A j \in DOMAIN list : list[j] # p
  <2>1. Entries(list) \subseteq born  BY DEF ListSound
  <2> QED  BY <1>1, <2>1 DEF Entries
<1>3. PICK i \in 1 .. Len(list) + 1 :
         /\ list2 \in Seq(S) /\ i \in DOMAIN list2 /\ list2[i] = p
         /\ DOMAIN list \subseteq DOMAIN list2 /\ DOMAIN list2 \subseteq DOMAIN list \cup {i}
         /\ i \in DOMAIN list => list[i] = 0
         /\ \A j \in DOMAIN list : j # i => list2[j] = list[j]
  <2> HIDE DEF S
  <2>1. CASE list2 = Append(list, p)
    <3>1. list2 \in Seq(S) /\ Len(list2) = Len(list) + 1  BY <1>1, <2>1
    <3>2. DOMAIN list2 = 1 .. Len(list) + 1  BY <3>1, LenProperties
    <3>3. list2[Len(list) + 1] = p /\ \A j \in 1 .. Len(list) : list2[j] = list[j]
      BY <1>1, <2>1
    <3> DEFINE i == Len(list) + 1
    <3>4. /\ i \in 1 .. Len(list) + 1 /\ i \in DOMAIN list2 /\ i \notin DOMAIN list
          /\ DOMAIN list \subseteq DOMAIN list2 /\ DOMAIN list2 \subseteq DOMAIN list \cup {i}
      <4>1. i \in 1 .. Len(list) + 1 /\ i \notin 1 .. Len(list)  BY <1>1
      <4>2. \A j \in 1 .. Len(list) : j \in 1 .. Len(list) + 1  BY <1>1
      <4>3. \A j \in 1 .. Len(list) + 1 : j \in 1 .. Len(list) \/ j = i  BY <1>1
      <4> HIDE DEF i
      <4> QED  BY <1>1, <3>2, <4>1, <4>2, <4>3
    <3>5. list2[i] = p /\ \A j \in DOMAIN list : list2[j] = list[j]  BY <1>1, <3>3
    <3>6. i \in DOMAIN list => list[i] = 0  BY <3>4
    <3>7. \A j \in DOMAIN list : j # i => list2[j] = list[j]  BY <3>5
    <3> HIDE DEF i
    <3> QED  BY <3>1, <3>4, <3>5, <3>6, <3>7, Zenon
  <2>2. CASE \E i \in DOMAIN list : list[i] = 0 /\ list2 = [list EXCEPT ![i] = p]
    <3>1. PICK i \in 1 .. Len(list) : list[i] = 0 /\ list2 = [list EXCEPT ![i] = p]
      BY <1>1, <2>2
    <3>2. list2 \in Seq(S) /\ Len(list2) = Len(list)
          /\ \A j \in 1 .. Len(list) : list2[j] = IF j = i THEN p ELSE list[j]
      <4> DEFINE new == [list EXCEPT ![i] = p]
      <4>1. /\ new \in Seq(S) /\ Len(new) = Len(list)
            /\ \A j \in 1 .. Len(list) : new[j] = IF j = i THEN p ELSE list[j]
        BY <1>1, ExceptSeq
      <4> QED  BY <3>1, <4>1
    <3>3. DOMAIN list2 = 1 .. Len(list)  BY <3>2, LenProperties
    <3>4. i \in 1 .. Len(list) + 1  BY <1>1
    <3>5. i \in DOMAIN list2 /\ DOMAIN list = DOMAIN list2 /\ list[i] = 0  BY <1>1, <3>1, <3>3
    <3>6. list2[i] = p /\ \A j \in DOMAIN list : j # i => list2[j] = list[j]
      BY <1>1, <3>1, <3>2
    <3> QED  BY <3>2, <3>4, <3>5, <3>6
  <2> QED  BY <2>1, <2>2
<1>4. \A j \in DOMAIN list2 : (j = i /\ list2[j] = p) \/ (j # i /\ j \in DOMAIN list /\ list2[j] = list[j])
  BY <1>3
<1>5. Entries(list2) \subseteq Entries(list) \cup {p}  BY <1>4 DEF Entries
<1>6. \A j \in DOMAIN list : list[j] # 0 => j \in DOMAIN list2 /\ list2[j] = list[j]
  BY <1>3
<1>7. \A k, j \in DOMAIN list2 : list2[k] = list2[j] /\ list2[k] # 0 => k = j
  <2>1. \A k, j \in DOMAIN list : list[k] = list[j] /\ list[k] # 0 => k = j
    BY DEF ListSound
  <2> QED  BY <1>2, <1>4, <2>1
<1>8. Entries(list2) \subseteq (born \cup {p}) \ freed /\ freed \subseteq born \cup {p}
  BY <1>5 DEF ListSound
<1>9. list2 \in Seq({0} \cup Procs)  BY <1>3
<1> QED  BY <1>4, <1>5, <1>6, <1>7, <1>8, <1>9 DEF ListSound

----------------------------------------------------------------------------

\* What do_processes() has yet to look at, when its frame goes on ...
LEMMA FewerAwaited ==
    ASSUME NEW x \in FrameRecord, NEW y \in FrameRecord, NEW list, NEW list2,
           Within(list2, list), DOMAIN list2 \subseteq Int,
           y.i > x.i \/ (y.i = x.i /\ Todo(y.step) \subseteq Todo(x.step))
    PROVE  AwaitedBy(y, list2) \subseteq AwaitedBy(x, list)
<1> SUFFICES ASSUME NEW o \in Outputs, NEW j \in DOMAIN list2, list2[j] = o[1],
                    j > y.i \/ (j = y.i /\ o[2] \in Todo(y.step))
             PROVE  o \in AwaitedBy(x, list)
  BY DEF AwaitedBy
<1>1. x.i \in Nat /\ y.i \in Nat /\ j \in Int  BY DEF FrameRecord
<1>2. o[1] # 0  BY ExecAssumption DEF Outputs, Procs
<1>3. j \in DOMAIN list /\ list[j] = o[1]  BY <1>2 DEF Within
<1>4. j > x.i \/ (j = x.i /\ o[2] \in Todo(x.step))  BY <1>1
<1> QED  BY <1>3, <1>4 DEF AwaitedBy

\* ... and when another does.
LEMMA AwaitedKept ==
    ASSUME NEW st \in Seq(FrameRecord), NEW t, NEW list, NEW list2, NEW E,
           NEW m \in 0 .. Len(st), NEW u \in Seq(FrameRecord),
           \A k \in 1 .. Len(u) : u[k].f # "do",
           \A x \in FrameRecord : AwaitedBy(x, list2) \subseteq AwaitedBy(x, list) \cup E
    PROVE  Awaited(t, Onto(st, m, u), list2) \subseteq Awaited(t, st, list) \cup E
<1> DEFINE w == Onto(st, m, u)
<1>1. Len(st) \in Nat /\ Len(u) \in Nat  BY LenProperties
<1>2. w \in Seq(FrameRecord) /\ Joined(w, st, m, u)  BY OntoProperties
<1> HIDE DEF w
<1>3. CASE t \in {"input", "processes"}  BY <1>3 DEF Awaited
<1>4. CASE t \notin {"input", "processes"} /\ DoRuns(w)
  <2>1. w # <<>> /\ w[1].f = "do"  BY <1>4 DEF DoRuns
  <2>2. m + Len(u) > 0  BY <1>1, <1>2, <2>1, EmptySeq DEF Joined
  <2>3. m > 0
    <3> SUFFICES ASSUME m = 0 PROVE FALSE  BY <1>1
    <3>1. 1 \in m + 1 .. m + Len(u) /\ 1 - m = 1 /\ 1 \in 1 .. Len(u)  BY <1>1, <2>2
    <3>2. w[1] = u[1]  BY <1>2, <3>1 DEF Joined
    <3> QED  BY <2>1, <3>1, <3>2
  <2>4. w[1] = st[1] /\ 1 \in 1 .. Len(st)  BY <1>1, <1>2, <2>3 DEF Joined
  <2>5. st # <<>> /\ st[1] \in FrameRecord  BY <2>4, ElementOfSeq
  <2>6. DoRuns(st)  BY <2>1, <2>4, <2>5 DEF DoRuns
  <2>7. AwaitedBy(w[1], list2) \subseteq AwaitedBy(st[1], list) \cup E  BY <2>4, <2>5
  <2> QED  BY <1>4, <2>6, <2>7 DEF Awaited, w
<1>5. CASE t \notin {"input", "processes"} /\ ~ DoRuns(w)  BY <1>5 DEF Awaited, w
<1> QED  BY <1>3, <1>4, <1>5

----------------------------------------------------------------------------

Values(f, S) == {f[x] : x \in S}

LEMMA ImageBound ==
    ASSUME NEW S, IsFiniteSet(S), NEW T, NEW f \in [S -> T]
    PROVE  /\ IsFiniteSet(Values(f, S)) /\ Cardinality(Values(f, S)) <= Cardinality(S)
           /\ Cardinality(Values(f, S)) \in Nat
<1> DEFINE R == Values(f, S)
<1>0. R = {f[x] : x \in S}  BY DEF Values
<1> HIDE DEF R
<1>1. f \in [S -> R]  BY <1>0
<1>2. f \in Surjection(S, R)  BY <1>0, <1>1 DEF Surjection
<1>3. IsFiniteSet(R) /\ Cardinality(R) <= Cardinality(S)  BY <1>2, FS_Surjection
<1>4. Cardinality(R) \in Nat  BY <1>3, FS_CardinalityType
<1> QED  BY <1>3, <1>4 DEF R

\* Each process has two outputs.
LEMMA OutputsBound ==
    ASSUME NEW P \in SUBSET Procs
    PROVE  /\ IsFiniteSet(P \X Streams) /\ IsFiniteSet(P)
           /\ Cardinality(P \X Streams) = 2 * Cardinality(P) /\ Cardinality(P) \in Nat
           /\ Cardinality(P) <= NProcs
<1>1. IsFiniteSet(Procs) /\ Cardinality(Procs) = NProcs
  BY FS_Interval, ExecAssumption DEF Procs
<1>2. IsFiniteSet(P) /\ Cardinality(P) <= NProcs  BY <1>1, FS_Subset
<1>3. Cardinality(P) \in Nat  BY <1>2, FS_CardinalityType
<1>4. IsFiniteSet(Streams) /\ Cardinality(Streams) = 2
  <2>1. IsFiniteSet({"stdout"}) /\ Cardinality({"stdout"}) = 1  BY FS_Singleton
  <2>2. "stderr" \notin {"stdout"} /\ {"stdout"} \cup {"stderr"} = Streams  BY DEF Streams
  <2>3. /\ IsFiniteSet({"stdout"} \cup {"stderr"})
        /\ Cardinality({"stdout"} \cup {"stderr"}) = Cardinality({"stdout"}) + 1
    BY <2>1, <2>2, FS_AddElement
  <2> QED  BY <2>1, <2>2, <2>3
<1>5. IsFiniteSet(P \X Streams) /\ Cardinality(P \X Streams) = Cardinality(P) * Cardinality(Streams)
  BY <1>2, <1>4, FS_Product
<1>6. Cardinality(P) * 2 = 2 * Cardinality(P)  BY <1>3
<1> QED  BY <1>2, <1>3, <1>4, <1>5, <1>6

\* There are two descriptors for a process that is started: those that are open belong
\* to the others.
LEMMA FreeDescriptors ==
    ASSUME FdsSound(Fd, Born, Dumb, rd), NEW p \in Procs, p \notin Born
    PROVE  /\ Lowest \in Fds /\ Next2 \in Fds /\ Lowest # Next2
           /\ \A x \in Outputs : Fd[x] # Lowest /\ Fd[x] # Next2
<1> DEFINE P == Procs \ {p}
           D == P \X Streams
           g == [x \in D |-> Fd[x]]
           R == Values(g, D)
<1>1. IsFiniteSet(D) /\ Cardinality(D) = 2 * NProcs - 2
  <2>1. IsFiniteSet(Procs) /\ Cardinality(Procs) = NProcs
    BY FS_Interval, ExecAssumption DEF Procs
  <2>2. Cardinality(P) = NProcs - 1  BY <2>1, FS_RemoveElement
  <2>3. P \in SUBSET Procs  OBVIOUS
  <2> HIDE DEF P
  <2>4. IsFiniteSet(P \X Streams) /\ Cardinality(P \X Streams) = 2 * Cardinality(P)
    BY <2>3, OutputsBound
  <2> QED  BY <2>2, <2>4, ExecAssumption
<1>2. Fd \in [Outputs -> Fds \cup {0}] /\ \A x \in Outputs : x[1] = p => Fd[x] = 0
  BY DEF FdsSound
<1>3. Descriptors \subseteq R
  <2> SUFFICES ASSUME NEW d \in Descriptors PROVE d \in R  OBVIOUS
  <2>1. PICK q \in Procs, s \in Streams : d = proc[q][s] /\ d # 0  BY DEF Descriptors
  <2>2. <<q, s>> \in Outputs /\ Fd[<<q, s>>] = d  BY <2>1 DEF Outputs, Fd
  <2>3. q # p  BY <1>2, <2>1, <2>2
  <2>4. <<q, s>> \in D  BY <2>3
  <2>5. g[<<q, s>>] = d  BY <2>2, <2>4
  <2> HIDE DEF D, g
  <2> QED  BY <2>4, <2>5 DEF Values
<1>4. IsFiniteSet(R) /\ Cardinality(R) <= 2 * NProcs - 2 /\ Cardinality(R) \in Nat
  <2>1. D \subseteq Outputs  BY DEF Outputs
  <2>2. g \in [D -> Fds \cup {0}]  BY <1>2, <2>1
  <2> HIDE DEF D, g
  <2>3. IsFiniteSet(R) /\ Cardinality(R) <= Cardinality(D) /\ Cardinality(R) \in Nat
    BY <1>1, <2>2, ImageBound
  <2> HIDE DEF R
  <2> QED  BY <1>1, <2>3
<1> DEFINE V == Fds \cap R
<1> HIDE DEF R, D, g, P
<1>7. IsFiniteSet(Fds \ R) /\ Cardinality(Fds \ R) \in Nat /\ Cardinality(Fds \ R) >= 2
  <2>1. IsFiniteSet(Fds) /\ Cardinality(Fds) = 2 * NProcs
    BY FS_Interval, ExecAssumption DEF Fds
  <2>2. IsFiniteSet(Fds \ R) /\ Cardinality(Fds \ R) = Cardinality(Fds) - Cardinality(V)
    BY <2>1, FS_Difference
  <2>3. V \in SUBSET R  OBVIOUS
  <2> HIDE DEF V
  <2>4. IsFiniteSet(V) /\ Cardinality(V) <= Cardinality(R)  BY <1>4, <2>3, FS_Subset
  <2>5. Cardinality(V) \in Nat /\ Cardinality(Fds \ R) \in Nat  BY <2>2, <2>4, FS_CardinalityType
  <2> QED  BY <1>4, <2>1, <2>2, <2>4, <2>5, ExecAssumption
<1>8. Fds \ R \subseteq Free  BY <1>3 DEF Free
<1>9. Free \subseteq Fds /\ Free \cap Descriptors = {}  BY DEF Free
<1>10. Fds \ R # {} /\ (Fds \ R) \ {Lowest} # {}
  <2> DEFINE W == Fds \ R
  <2>1. Cardinality(W) # 0  BY <1>7
  <2> HIDE DEF W
  <2>2. IsFiniteSet(W) /\ Cardinality(W) \in Nat /\ Cardinality(W) >= 2  BY <1>7 DEF W
  <2>3. W # {}  BY <2>1, FS_EmptySet
  <2>4. /\ IsFiniteSet(W \ {Lowest})
        /\ Cardinality(W \ {Lowest}) = IF Lowest \in W THEN Cardinality(W) - 1 ELSE Cardinality(W)
    BY <2>2, FS_RemoveElement
  <2>5. Cardinality(W \ {Lowest}) # 0  BY <2>2, <2>4
  <2>6. W \ {Lowest} # {}  BY <2>5, FS_EmptySet
  <2> QED  BY <2>3, <2>6 DEF W
<1>11. Fds \subseteq Nat  BY ExecAssumption DEF Fds
<1>12. Lowest \in Free
  <2>1. Free \in SUBSET Nat /\ Free # {}  BY <1>8, <1>9, <1>10, <1>11
  <2> QED  BY <2>1, LeastMember DEF Lowest
<1>13. Next2 \in Free \ {Lowest}
  <2>1. Free \ {Lowest} \in SUBSET Nat /\ Free \ {Lowest} # {}  BY <1>8, <1>9, <1>10, <1>11
  <2> QED  BY <2>1, LeastMember DEF Next2
<1>14. \A x \in Outputs : Fd[x] # 0 => Fd[x] \in Descriptors  BY DEF Fd, Outputs, Descriptors
<1>15. 0 \notin Fds  BY ExecAssumption DEF Fds
<1> QED  BY <1>9, <1>12, <1>13, <1>14, <1>15

----------------------------------------------------------------------------

LEMMA ExecInvInit == ExecInit => ExecInv
<1> SUFFICES ASSUME ExecInit PROVE ExecInv  OBVIOUS
<1>1. ExecTyped
  BY DEF ExecInit, ExecTyped, ProcessRecord, Outside, Turns, Unstarted, Pipe, Buffer, Nothing,
         NoBuffer
<1>2. Born = {} /\ Dumb = {} /\ Fd = [x \in Outputs |-> 0] /\ Even = Outputs
  BY DEF ExecInit, Born, Dumb, Fd, Even, Unstarted, Outputs, Streams, Nothing, NoBuffer
<1>3. ListSound(process_list, Born, expunged)
  BY <1>2 DEF ExecInit, ListSound, Entries
<1>4. FramesSound(stack, turn, process_list, Born, expunged, Dumb)
  BY <1>2 DEF ExecInit, FramesSound, DoRuns
<1>5. FdsSound(Fd, Born, Dumb, rd)
  <2>1. rd = {}  BY DEF ExecInit
  <2> QED  BY <1>2, <2>1 DEF FdsSound
<1>6. OutputSound(Fd, Born, forgotten, Late, Even, Holding)  BY <1>2 DEF OutputSound
<1>7. rd = {} /\ ReadySound(Fd, rd, Awaited(turn, stack, process_list), forgotten, Left, Holding)
  BY DEF ExecInit, ReadySound
<1> QED  BY <1>1, <1>3, <1>4, <1>5, <1>6, <1>7 DEF ExecInv

\* A change of what is in a pipe and its buffer, with what is owed for it.
OnlyAt(x) ==
    /\ unread' \in [Outputs -> Pipe] /\ io' \in [Outputs -> Buffer] /\ owed' \in [Outputs -> Int]
    /\ \A y \in Outputs : y # x => (y \in Left' <=> y \in Left) /\ (y \in Late' <=> y \in Late)
    /\ \A y \in Outputs : y \in Even => y \in Even'

LEMMA AtPipe ==
    ASSUME ExecTyped, NEW x \in Outputs, NEW u \in Pipe, NEW r \in Buffer, NEW n \in Int,
           unread' = [unread EXCEPT ![x] = u], io' = [io EXCEPT ![x] = r],
           owed' = [owed EXCEPT ![x] = n],
           owed[x] = unread[x].lines + io[x].lines => n = u.lines + r.lines
    PROVE  OnlyAt(x)
<1>1. /\ unread \in [Outputs -> Pipe] /\ io \in [Outputs -> Buffer]
      /\ owed \in [Outputs -> Int]
  BY DEF ExecTyped
<1>2. /\ unread' \in [Outputs -> Pipe] /\ io' \in [Outputs -> Buffer]
      /\ owed' \in [Outputs -> Int]
  BY <1>1
<1>3. \A y \in Outputs : y # x => /\ unread'[y] = unread[y] /\ io'[y] = io[y]
                                  /\ owed'[y] = owed[y]
  BY <1>1
<1>4. unread'[x] = u /\ io'[x] = r /\ owed'[x] = n  BY <1>1
<1>5. \A y \in Outputs : y # x => (y \in Left' <=> y \in Left) /\ (y \in Late' <=> y \in Late)
  BY <1>3 DEF Left, Late
<1>6. \A y \in Outputs : y \in Even => y \in Even'
  <2> SUFFICES ASSUME NEW y \in Outputs, y \in Even PROVE y \in Even'  OBVIOUS
  <2>1. owed[y] = unread[y].lines + io[y].lines  BY DEF Even
  <2>2. CASE y = x
    <3>1. owed'[y] = unread'[y].lines + io'[y].lines  BY <1>4, <2>1, <2>2
    <3> QED  BY <3>1 DEF Even
  <2>3. CASE y # x
    <3>1. owed'[y] = unread'[y].lines + io'[y].lines  BY <1>3, <2>1, <2>3
    <3> QED  BY <3>1 DEF Even
  <2> QED  BY <2>2, <2>3
<1> QED  BY <1>2, <1>5, <1>6 DEF OnlyAt

\* Something is printed.
LEMMA PrintsAt ==
    ASSUME ExecTyped, NEW x \in Outputs, Prints(x)
    PROVE  OnlyAt(x) /\ Fd[x] # 0 /\ world' = world
<1>1. /\ proc[x[1]][x[2]] # 0 /\ world' = world /\ io' = io
      /\ \/ /\ unread' = [unread EXCEPT ![x] = [lines |-> @.lines + 1, part |-> FALSE]]
            /\ owed' = [owed EXCEPT ![x] = @ + 1]
         \/ /\ unread' = [unread EXCEPT ![x].part = TRUE]
            /\ owed' = owed
  BY DEF Prints
<1>2. /\ unread \in [Outputs -> Pipe] /\ io \in [Outputs -> Buffer]
      /\ owed \in [Outputs -> Int]
  BY DEF ExecTyped
<1>3. /\ unread[x] \in Pipe /\ io[x] \in Buffer /\ owed[x] \in Int
      /\ unread[x].lines \in Nat /\ io[x].lines \in Nat
  BY <1>2 DEF Pipe, Buffer
<1>4. io' = [io EXCEPT ![x] = io[x]]  BY <1>1, <1>2
<1>5. CASE /\ unread' = [unread EXCEPT ![x] = [lines |-> @.lines + 1, part |-> FALSE]]
           /\ owed' = [owed EXCEPT ![x] = @ + 1]
  <2> DEFINE u == [lines |-> unread[x].lines + 1, part |-> FALSE]
  <2>1. u \in Pipe /\ u.lines = unread[x].lines + 1  BY <1>3 DEF Pipe
  <2>2. unread' = [unread EXCEPT ![x] = u] /\ owed' = [owed EXCEPT ![x] = owed[x] + 1]
    BY <1>2, <1>5
  <2> HIDE DEF u
  <2>3. owed[x] + 1 \in Int  BY <1>3
  <2>4. owed[x] = unread[x].lines + io[x].lines => owed[x] + 1 = u.lines + io[x].lines
    BY <1>3, <2>1
  <2>5. OnlyAt(x)  BY <1>3, <1>4, <2>1, <2>2, <2>3, <2>4, AtPipe
  <2> QED  BY <1>1, <2>5 DEF Fd
<1>6. CASE /\ unread' = [unread EXCEPT ![x].part = TRUE]
           /\ owed' = owed
  <2> DEFINE u == [unread[x] EXCEPT !.part = TRUE]
  <2>1. u \in Pipe /\ u.lines = unread[x].lines  BY <1>3 DEF Pipe
  <2>2. unread' = [unread EXCEPT ![x] = u] /\ owed' = [owed EXCEPT ![x] = owed[x]]
    BY <1>2, <1>6
  <2> HIDE DEF u
  <2>3. owed[x] = unread[x].lines + io[x].lines => owed[x] = u.lines + io[x].lines
    BY <2>1
  <2>4. OnlyAt(x)  BY <1>3, <1>4, <2>1, <2>2, <2>3, AtPipe
  <2> QED  BY <1>1, <2>4 DEF Fd
<1> QED  BY <1>1, <1>5, <1>6

\* The processes themselves.
LEMMA WorldKeeps == ExecInv /\ WorldSteps => ExecInv'
<1> SUFFICES ASSUME ExecInv, WorldSteps PROVE ExecInv'  OBVIOUS
<1>1. /\ turn = "select"
      /\ UNCHANGED <<process_list, proc, expunged, forgotten, rd, turn, stack>>
  BY DEF WorldSteps, DieApart, DieTogether, Die, LetGo, Prints, Elsewhere, table
<1>2. Fd' = Fd /\ Dumb' = Dumb  BY <1>1 DEF Fd, Dumb
<1>3. ExecTyped /\ rd = {} /\ OutputSound(Fd, Born, forgotten, Late, Even, Holding)
  BY <1>1 DEF ExecInv
<1>a. world \in [Procs -> Outside]  BY <1>3 DEF ExecTyped
<1>b. UNCHANGED <<unread, io, owed>> =>
        /\ unread' \in [Outputs -> Pipe] /\ io' \in [Outputs -> Buffer]
        /\ owed' \in [Outputs -> Int] /\ Late' = Late /\ Even' = Even
  BY <1>3 DEF ExecTyped, Late, Even
<1>4. /\ world' \in [Procs -> Outside] /\ unread' \in [Outputs -> Pipe]
      /\ io' \in [Outputs -> Buffer] /\ owed' \in [Outputs -> Int]
      /\ Born' = Born /\ Holding' \subseteq Holding
      /\ \A x \in Outputs : x \in Late' => x \in Late \/ Fd[x] # 0
      /\ \A x \in Outputs : x \in Even => x \in Even'
  <2>1. CASE \E x \in Outputs : Prints(x)
    <3>1. PICK x \in Outputs : Prints(x)  BY <2>1
    <3>2. OnlyAt(x) /\ Fd[x] # 0 /\ world' = world  BY <1>3, <3>1, PrintsAt
    <3>3. Born' = Born /\ Holding' = Holding  BY <3>2 DEF Born, Holding
    <3> QED  BY <1>a, <3>2, <3>3 DEF OnlyAt
  <2>2. CASE \E p \in Procs : LetGo(p)
    <3>1. PICK p \in Procs : LetGo(p)  BY <2>2
    <3>2. world' = [world EXCEPT ![p].holds = FALSE] /\ UNCHANGED <<unread, io, owed>>
      BY <3>1 DEF LetGo, buffers
    <3>3. \A q \in Procs : world'[q].is = world[q].is /\ (world'[q].holds => world[q].holds)
      BY <1>a, <3>2 DEF Outside
    <3>4. world' \in [Procs -> Outside]  BY <1>a, <3>2 DEF Outside
    <3>5. Born' = Born /\ Holding' \subseteq Holding  BY <3>3 DEF Born, Holding
    <3> QED  BY <1>b, <3>2, <3>4, <3>5
  <2>3. CASE DieApart \/ DieTogether
    <3>1. PICK dying \in SUBSET Procs : Die(dying) /\ \A p \in dying : world[p].is = "alive"
      <4>1. CASE DieApart
        <5>1. PICK p \in Procs : world[p].is = "alive" /\ Die({p})  BY <4>1 DEF DieApart
        <5>2. {p} \in SUBSET Procs /\ \A q \in {p} : world[q].is = "alive"  BY <5>1
        <5> QED  BY <5>1, <5>2
      <4>2. CASE DieTogether
        <5>1. PICK p, q \in Procs : world[p].is = "alive" /\ world[q].is = "alive" /\ Die({p, q})
          BY <4>2 DEF DieTogether
        <5>2. {p, q} \in SUBSET Procs /\ \A o \in {p, q} : world[o].is = "alive"  BY <5>1
        <5> QED  BY <5>1, <5>2
      <4> QED  BY <2>3, <4>1, <4>2
    <3>2. /\ world' = [p \in Procs |-> IF p \in dying THEN [world[p] EXCEPT !.is = "zombie"]
                                        ELSE world[p]]
          /\ UNCHANGED <<unread, io, owed>>
      BY <3>1 DEF Die, buffers
    <3>3. \A q \in Procs :
             /\ world'[q].holds = world[q].holds
             /\ world'[q].is = world[q].is \/ (q \in dying /\ world'[q].is = "zombie")
      BY <1>a, <3>2 DEF Outside
    <3>4. world' \in [Procs -> Outside]  BY <1>a, <3>2 DEF Outside
    <3>5. Born' = Born
      <4>1. \A q \in Procs : world'[q].is # "unborn" <=> world[q].is # "unborn"
        BY <3>1, <3>3
      <4> QED  BY <4>1 DEF Born
    <3>6. Holding' = Holding  BY <3>3 DEF Holding
    <3> QED  BY <1>b, <3>2, <3>4, <3>5, <3>6
  <2> QED  BY <2>1, <2>2, <2>3 DEF WorldSteps
<1>5. ExecTyped'  BY <1>1, <1>3, <1>4 DEF ExecTyped
<1>6. OutputSound(Fd', Born', forgotten', Late', Even', Holding')
  BY <1>1, <1>2, <1>3, <1>4 DEF OutputSound
<1>7. ReadySound(Fd', rd', Awaited(turn', stack', process_list'), forgotten', Left', Holding')
  BY <1>1, <1>3 DEF ReadySound
<1> QED  BY <1>1, <1>2, <1>3, <1>4, <1>5, <1>6, <1>7 DEF ExecInv

\* The main loop, between what it calls.
LEMMA LoopKeeps ==
    ExecInv /\ (new_select \/ do_screens \/ do_processes \/ get_child_exit) => ExecInv'
<1> SUFFICES ASSUME ExecInv, new_select \/ do_screens \/ do_processes \/ get_child_exit
             PROVE  ExecInv'
  OBVIOUS
<1>a. /\ ExecTyped /\ ListSound(process_list, Born, expunged)
      /\ FramesSound(stack, turn, process_list, Born, expunged, Dumb)
      /\ FdsSound(Fd, Born, Dumb, rd)
      /\ ReadySound(Fd, rd, Awaited(turn, stack, process_list), forgotten, Left, Holding)
      /\ OutputSound(Fd, Born, forgotten, Late, Even, Holding)
  BY DEF ExecInv
<1>b. stack = <<>> /\ UNCHANGED <<process_list, expunged, forgotten, unread, io, owed>>
  BY DEF new_select, do_screens, do_processes, get_child_exit, table, outside, buffers
<1>c. ASSUME NEW t, NEW y \in FrameRecord,
             \/ y.f = "hook" /\ y.p = 0
             \/ y = Clean
             \/ y.f = "do" /\ DoSound(y, t, process_list)
      PROVE  FramesSound(<<y>>, t, process_list, Born, expunged, Dumb)
             /\ (DoRuns(<<y>>) => y.f = "do")
  <2> DEFINE u == <<y>>
  <2> HIDE DEF u
  <2>1. u = <<y>>  BY DEF u
  <2>2. FramesSound(u, t, process_list, Born, expunged, Dumb) /\ (DoRuns(u) => y.f = "do" /\ u[1] = y)
    BY <1>c, <2>1, FewFrames
  <2> QED  BY <2>1, <2>2
<1>1. CASE new_select
  <2>1. rd' = Ready /\ turn' \in {"input", "reap"} /\ UNCHANGED <<table, outside, buffers, stack>>
    BY <1>1 DEF new_select
  <2>2. /\ Fd' = Fd /\ Dumb' = Dumb /\ Born' = Born /\ Holding' = Holding
        /\ Left' = Left /\ Late' = Late /\ Even' = Even
    BY <2>1 DEF Fd, Dumb, Born, Left, Late, Even, Holding, table, outside,
                  buffers
  <2>3. ExecTyped'  BY <1>a, <2>1 DEF ExecTyped, table, outside, buffers, Turns
  <2>4. Ready \subseteq Fds
    <3> SUFFICES ASSUME NEW x \in Buffered \cup Readable PROVE proc[x[1]][x[2]] \in Fds
      BY DEF Ready
    <3>1. x \in Outputs /\ Fd[x] # 0 /\ Fd[x] = proc[x[1]][x[2]]
      BY DEF Buffered, Readable, Watched, Fd
    <3>2. Fd \in [Outputs -> Fds \cup {0}]  BY <1>a DEF FdsSound
    <3> QED  BY <3>1, <3>2
  <2>5. FdsSound(Fd', Born', Dumb', rd')  BY <1>a, <2>1, <2>2, <2>4 DEF FdsSound
  <2>6. FramesSound(stack', turn', process_list', Born', expunged', Dumb')
    BY <1>b, <2>1, <2>2 DEF FramesSound, DoRuns
  <2>7. ReadySound(Fd', rd', Awaited(turn', stack', process_list'), forgotten', Left', Holding')
    <3> SUFFICES ASSUME NEW x \in Outputs, Fd[x] \in Ready PROVE x \in Left \/ x[1] \notin Holding
      <4>1. Awaited(turn', stack', process_list') \subseteq Outputs
        BY <1>b, <2>1 DEF Awaited, DoRuns
      <4> QED  BY <2>1, <2>2, <4>1 DEF ReadySound
    <3>1. PICK y \in Buffered \cup Readable : Fd[x] = proc[y[1]][y[2]]  BY DEF Ready
    <3>2. y \in Outputs /\ Fd[x] = Fd[y] /\ Fd[x] # 0 /\ (y \in Left \/ y[1] \notin Holding)
      BY <3>1 DEF Buffered, Readable, Watched, Fd, Left, Holding
    <3>3. x = y  BY <1>a, <3>2 DEF FdsSound
    <3> QED  BY <3>2, <3>3
  <2> QED  BY <1>a, <1>b, <2>1, <2>2, <2>3, <2>5, <2>6, <2>7 DEF ExecInv
<1>2. CASE do_screens \/ do_processes
  <2>1. /\ turn \in {"input", "processes"} /\ turn' \in {"processes", "reap"}
        /\ UNCHANGED <<table, outside, buffers, rd>>
    BY <1>2 DEF do_screens, do_processes
  <2>2. /\ Fd' = Fd /\ Dumb' = Dumb /\ Born' = Born /\ Holding' = Holding
        /\ Left' = Left /\ Late' = Late /\ Even' = Even
    BY <2>1 DEF Fd, Dumb, Born, Left, Late, Even, Holding, table, outside,
                  buffers
  <2>3. ExecTyped'  BY <1>a, <2>1 DEF ExecTyped, table, outside, buffers, Turns
  <2>4. \/ stack' = <<>>
        \/ \E y \in FrameRecord :
              /\ stack' = <<y>>
              /\ \/ y.f = "hook" /\ y.p = 0
                 \/ y.f = "do" /\ DoSound(y, turn', process_list)
    <3>1. CASE do_screens
      <4>1. stack' = <<>> \/ stack' = <<[Hook EXCEPT !.left = 1]>>  BY <3>1 DEF do_screens
      <4>2. [Hook EXCEPT !.left = 1] \in FrameRecord /\ [Hook EXCEPT !.left = 1].f = "hook"
            /\ [Hook EXCEPT !.left = 1].p = 0
        BY FrameFacts DEF FrameRecord
      <4> QED  BY <4>1, <4>2
    <3>2. CASE do_processes
      <4>1. (stack' = <<>> \/ stack' = <<Frame("do", "load")>>) /\ turn' = "reap"
        BY <3>2 DEF do_processes
      <4>2. Frame("do", "load") \in FrameRecord /\ Frame("do", "load").f = "do"
            /\ DoSound(Frame("do", "load"), "reap", process_list)
        BY DEF Frame, FrameRecord, DoSound
      <4> QED  BY <4>1, <4>2
    <3> QED  BY <1>2, <3>1, <3>2
  <2>5. FramesSound(stack', turn', process_list', Born', expunged', Dumb')
    <3>1. CASE stack' = <<>>  BY <3>1 DEF FramesSound, DoRuns
    <3>2. CASE stack' # <<>>
      <4>1. PICK y \in FrameRecord :
               /\ stack' = <<y>>
               /\ \/ y.f = "hook" /\ y.p = 0
                  \/ y.f = "do" /\ DoSound(y, turn', process_list)
        BY <2>4, <3>2
      <4>2. FramesSound(<<y>>, turn', process_list, Born, expunged, Dumb)  BY <1>c, <4>1
      <4> QED  BY <1>b, <2>2, <4>1, <4>2
    <3> QED  BY <3>1, <3>2
  <2>6. ReadySound(Fd', rd', Awaited(turn', stack', process_list'), forgotten', Left', Holding')
    <3>1. Awaited(turn, stack, process_list) = Outputs  BY <2>1 DEF Awaited
    <3>2. Awaited(turn', stack', process_list') \subseteq Outputs  BY DEF Awaited, AwaitedBy
    <3>3. rd' = rd  BY <2>1
    <3>4. forgotten' = forgotten  BY <1>b
    <3> QED  BY <1>a, <2>2, <3>1, <3>2, <3>3, <3>4 DEF ReadySound
  <2>7. turn' # "select" /\ rd' = rd  BY <2>1
  <2> QED  BY <1>a, <1>b, <2>2, <2>3, <2>5, <2>6, <2>7 DEF ExecInv
<1>3. CASE get_child_exit
  <2>1. Reap /\ stack' = <<Clean>> /\ turn' = "select" /\ rd' = {}
    BY <1>3 DEF get_child_exit
  <2>2. /\ proc' \in [Procs -> ProcessRecord] /\ world' \in [Procs -> Outside]
        /\ \A p \in Procs :
              /\ proc'[p].dumb = proc[p].dumb
              /\ \A s \in Streams : proc'[p][s] = proc[p][s]
              /\ world'[p].holds = world[p].holds
              /\ world'[p].is # "unborn" <=> world[p].is # "unborn"
    <3>1. proc \in [Procs -> ProcessRecord] /\ world \in [Procs -> Outside]  BY <1>a DEF ExecTyped
    <3>2. CASE dead_children_processes = 0  BY <2>1, <3>1, <3>2 DEF Reap
    <3>3. CASE dead_children_processes # 0
      <4>1. /\ world' = [p \in Procs |-> [world[p] EXCEPT
                            !.is = IF p \in Zombies THEN "gone" ELSE @]]
            /\ proc' = [p \in Procs |-> IF p \in Zombies /\ HasSlot(p)
                                           THEN [proc[p] EXCEPT !.exited = TRUE] ELSE proc[p]]
        BY <2>1, <3>3 DEF Reap
      <4>2. /\ world' \in [Procs -> Outside]
            /\ \A p \in Procs : /\ world'[p].holds = world[p].holds
                                /\ world'[p].is # "unborn" <=> world[p].is # "unborn"
        BY <3>1, <4>1 DEF Zombies, Outside
      <4>3. proc' \in [Procs -> ProcessRecord]  BY <3>1, <4>1 DEF ProcessRecord
      <4>4. \A p \in Procs : /\ proc'[p].dumb = proc[p].dumb
                             /\ \A s \in Streams : proc'[p][s] = proc[p][s]
        BY <3>1, <4>1 DEF ProcessRecord, Streams
      <4> QED  BY <4>2, <4>3, <4>4
    <3> QED  BY <3>2, <3>3
  <2>3. /\ Fd' = Fd /\ Dumb' = Dumb /\ Born' = Born /\ Holding' = Holding
        /\ Left' = Left /\ Late' = Late /\ Even' = Even
    <3>1. Fd' = Fd  BY <2>2 DEF Fd, Outputs
    <3>2. Dumb' = Dumb /\ Holding' = Holding  BY <2>2 DEF Dumb, Holding
    <3>3. Born' = Born  BY <2>2 DEF Born
    <3> QED  BY <1>b, <3>1, <3>2, <3>3 DEF Left, Late, Even
  <2>4. ExecTyped'  BY <1>a, <1>b, <2>1, <2>2 DEF ExecTyped, Turns
  <2>5. FramesSound(stack', turn', process_list', Born', expunged', Dumb')
    <3>1. Clean \in FrameRecord  BY FrameFacts
    <3>2. FramesSound(<<Clean>>, turn', process_list, Born, expunged, Dumb)  BY <1>c, <3>1
    <3> QED  BY <1>b, <2>1, <2>3, <3>2
  <2>6. FdsSound(Fd', Born', Dumb', rd')
    BY <1>a, <2>1, <2>3 DEF FdsSound
  <2>7. ReadySound(Fd', rd', Awaited(turn', stack', process_list'), forgotten', Left', Holding')
    BY <2>1 DEF ReadySound
  <2> QED  BY <1>a, <1>b, <2>1, <2>3, <2>4, <2>5, <2>6, <2>7 DEF ExecInv
<1> QED  BY <1>1, <1>2, <1>3

\* Outputs that are closed.
LEMMA FdsFewer ==
    ASSUME NEW fd, NEW born, NEW dumb, NEW ready, FdsSound(fd, born, dumb, ready),
           NEW fd2 \in [Outputs -> Fds \cup {0}], NEW dumb2 \in SUBSET born,
           \A x \in Outputs : fd2[x] = fd[x] \/ fd2[x] = 0,
           \A x \in Outputs : x[1] \in dumb2 => fd2[x] = 0
    PROVE  FdsSound(fd2, born, dumb2, ready)
<1>1. \A x, y \in Outputs : fd2[x] = fd2[y] /\ fd2[x] # 0 => x = y
  BY DEF FdsSound
<1>2. \A x \in Outputs : x[1] \notin born \/ x[1] \in dumb2 => fd2[x] = 0
  BY DEF FdsSound
<1>3. ready \subseteq Fds  BY DEF FdsSound
<1> QED  BY <1>1, <1>2, <1>3 DEF FdsSound

\* What of the pipes is the same, where it matters.
SamePipes ==
    /\ unread' \in [Outputs -> Pipe] /\ io' \in [Outputs -> Buffer] /\ owed' = owed
    /\ forgotten \subseteq forgotten'
    /\ \A x \in Outputs \ forgotten' :
          (x \in Left' <=> x \in Left) /\ (x \in Even' <=> x \in Even)

LEMMA NothingChanged ==
    ASSUME ExecTyped, UNCHANGED <<unread, io, owed, forgotten>>
    PROVE  SamePipes
  BY DEF ExecTyped, SamePipes, Left, Even

\* Pipes that are as they were, of outputs that may be closed.
LEMMA PipesKept ==
    ASSUME OutputSound(Fd, Born, forgotten, Late, Even, Holding), SamePipes,
           \A x \in Outputs : Fd'[x] = Fd[x] \/ (Fd'[x] = 0 /\ x \in forgotten'),
           Born' = Born, Holding' = Holding
    PROVE  OutputSound(Fd', Born', forgotten', Late', Even', Holding')
<1>1. Late' = Late  BY DEF SamePipes, Late
<1>2. \A x \in Outputs \ forgotten' : x \notin forgotten /\ Fd'[x] = Fd[x]  BY DEF SamePipes
<1> QED  BY <1>1, <1>2 DEF OutputSound, SamePipes

\* A process that is given up.
LEMMA IgnoreKeeps ==
    ASSUME ExecInv, NEW p \in Procs, p \in Born, Ignore(p), UNCHANGED <<world, unread, owed, rd>>
    PROVE  /\ proc' \in [Procs -> ProcessRecord] /\ Dumb' = Dumb \cup {p}
           /\ Born' = Born /\ Holding' = Holding /\ SamePipes
           /\ \A x \in Outputs : Fd'[x] = Fd[x] \/ Fd'[x] = 0
           /\ FdsSound(Fd', Born', Dumb', rd')
           /\ OutputSound(Fd', Born', forgotten', Late', Even', Holding')
<1>a. ExecTyped /\ proc \in [Procs -> ProcessRecord] /\ FdsSound(Fd, Born, Dumb, rd)
      /\ OutputSound(Fd, Born, forgotten, Late, Even, Holding)
  BY DEF ExecInv, ExecTyped
<1>b. /\ proc' = [proc EXCEPT ![p].stdout = 0, ![p].stderr = 0, ![p].dumb = TRUE]
      /\ io' = [x \in Outputs |-> IF x[1] = p THEN NoBuffer ELSE io[x]]
      /\ forgotten' = forgotten \cup ({p} \X Streams)
  BY DEF Ignore
<1> DEFINE r == [proc[p] EXCEPT !.stdout = 0, !.stderr = 0, !.dumb = TRUE]
<1>c. proc' = [proc EXCEPT ![p] = r]  BY <1>a, <1>b
<1>d. r \in ProcessRecord /\ r.dumb /\ \A s \in Streams : r[s] = 0
  BY <1>a DEF ProcessRecord, Streams
<1> HIDE DEF r
<1>1. proc' \in [Procs -> ProcessRecord]  BY <1>a, <1>c, <1>d
<1>2. proc'[p].dumb /\ \A s \in Streams : proc'[p][s] = 0  BY <1>a, <1>c, <1>d
<1>3. \A q \in Procs : q # p => proc'[q] = proc[q]  BY <1>a, <1>c
<1>4. Dumb' = Dumb \cup {p}  BY <1>2, <1>3 DEF Dumb
<1>5. Born' = Born /\ Holding' = Holding /\ SamePipes
  <2>1. NoBuffer \in Buffer  BY DEF NoBuffer, Buffer
  <2>2. unread' \in [Outputs -> Pipe] /\ io' \in [Outputs -> Buffer]
    BY <1>a, <1>b, <2>1 DEF ExecTyped
  <2>3. \A x \in Outputs \ forgotten' : x[1] # p
    BY <1>b DEF Outputs
  <2>4. \A x \in Outputs \ forgotten' : io'[x] = io[x]  BY <1>b, <2>3
  <2> QED  BY <1>b, <2>2, <2>4 DEF Born, Holding, SamePipes, Left, Even
<1>6. \A x \in Outputs : Fd'[x] = IF x[1] = p THEN 0 ELSE Fd[x]
  BY <1>2, <1>3 DEF Fd, Outputs
<1>7. Fd' \in [Outputs -> Fds \cup {0}]
  <2>1. \A x \in Outputs : proc'[x[1]][x[2]] \in Fds \cup {0}
    BY <1>1 DEF Outputs, ProcessRecord, Streams
  <2> QED  BY <2>1 DEF Fd
<1>8. \A x \in Outputs : x[1] \in Dumb' => Fd'[x] = 0
  BY <1>a, <1>4, <1>6 DEF FdsSound
<1>9. Dumb' \subseteq Born  BY <1>a, <1>4 DEF FdsSound
<1>10. FdsSound(Fd', Born, Dumb', rd)
  BY <1>a, <1>6, <1>7, <1>8, <1>9, FdsFewer
<1>11. OutputSound(Fd', Born', forgotten', Late', Even', Holding')
  <2>1. \A x \in Outputs : x[1] = p => x \in forgotten'  BY <1>b DEF Outputs
  <2>2. \A x \in Outputs : Fd'[x] = Fd[x] \/ (Fd'[x] = 0 /\ x \in forgotten')  BY <1>6, <2>1
  <2> QED  BY <1>a, <1>5, <2>2, PipesKept
<1> QED  BY <1>1, <1>4, <1>5, <1>6, <1>10, <1>11

\* While do_processes() looks at a slot there is nothing else on the stack.
LEMMA DoTop ==
    ASSUME ExecInv, Runs("do")
    PROVE  /\ Top = stack[1] /\ Top \in FrameRecord /\ Top.f = "do" /\ turn = "reap"
           /\ DoSound(Top, "reap", process_list) /\ Below = <<>>
           /\ Awaited(turn, stack, process_list) = AwaitedBy(Top, process_list)
<1>1. stack \in Seq(FrameRecord) /\ stack # <<>> /\ Top.f = "do"
  BY DEF ExecInv, FramesSound, Runs
<1>2. Len(stack) \in Nat \ {0} /\ DOMAIN stack = 1 .. Len(stack)
  BY <1>1, EmptySeq, LenProperties
<1>3. Len(stack) = 1
  <2>1. \A k \in DOMAIN stack : stack[k].f = "do" => k = 1  BY DEF ExecInv, FramesSound
  <2> QED  BY <1>1, <1>2, <2>1 DEF Top
<1>4. Top = stack[1] /\ Top \in FrameRecord  BY <1>1, <1>3, ElementOfSeq DEF Top
<1>5. DoRuns(stack)  BY <1>1, <1>4 DEF DoRuns
<1>6. DoSound(Top, turn, process_list)  BY <1>4, <1>5 DEF ExecInv, FramesSound
<1>7. turn = "reap"  BY <1>6 DEF DoSound
<1>8. Below = <<>>
  <2>1. Below = SubSeq(stack, 1, 0)  BY <1>3 DEF Below
  <2> QED  BY <2>1, SubSeqEmpty
<1> QED  BY <1>1, <1>4, <1>5, <1>6, <1>7, <1>8 DEF Awaited

\* The frame of do_processes() goes on, or calls a hook, or leaves the rest to
\* cleanup_dead_processes().
LEMMA DoGoes ==
    ASSUME ExecInv, Runs("do"), UNCHANGED <<process_list, expunged, turn, world>>,
           NEW y \in FrameRecord,
           \/ y = Clean
           \/ /\ y.f = "do" /\ DoSound(y, "reap", process_list)
              /\ y.i > Top.i \/ (y.i = Top.i /\ Todo(y.step) \subseteq Todo(Top.step)),
           \/ stack' = <<y>>
           \/ stack' = <<y, Hook>> /\ y.f = "do" /\ y.p # 0 /\ y.p \notin Dumb'
    PROVE  /\ FramesSound(stack', turn', process_list', Born', expunged', Dumb')
           /\ Awaited(turn', stack', process_list') \subseteq Awaited(turn, stack, process_list)
           /\ y.f = "do" => Awaited(turn', stack', process_list') = AwaitedBy(y, process_list)
<1>1. /\ Top \in FrameRecord /\ turn = "reap" /\ turn' = "reap"
      /\ Awaited(turn, stack, process_list) = AwaitedBy(Top, process_list)
  BY DoTop
<1>2. Clean.f = "clean"  BY FrameFacts
<1>3. \/ y.f = "hook" /\ y.p = 0
      \/ y = Clean
      \/ y.f = "do" /\ DoSound(y, "reap", process_list)
  OBVIOUS
<1>4. FramesSound(stack', "reap", process_list, Born', expunged, Dumb')
      /\ (DoRuns(stack') => y.f = "do" /\ stack'[1] = y)
  BY <1>3, FewFrames
<1>5. y.f = "do" => stack' # <<>> /\ stack'[1] = y
  OBVIOUS
<1>6. Awaited(turn', stack', process_list')
        = IF y.f = "do" THEN AwaitedBy(y, process_list) ELSE {}
  BY <1>1, <1>4, <1>5 DEF Awaited, DoRuns
<1>7. y.f = "do" => AwaitedBy(y, process_list) \subseteq AwaitedBy(Top, process_list)
  <2> SUFFICES ASSUME y.f = "do"
               PROVE  AwaitedBy(y, process_list) \subseteq AwaitedBy(Top, process_list)
    OBVIOUS
  <2>1. y.i > Top.i \/ (y.i = Top.i /\ Todo(y.step) \subseteq Todo(Top.step))  BY <1>2
  <2>2. Within(process_list, process_list)  BY DEF Within
  <2>3. DOMAIN process_list \subseteq Int
    <3>1. process_list \in Seq({0} \cup Procs)  BY DEF ExecInv, ListSound
    <3> QED  BY <3>1, LenProperties
  <2> QED  BY <1>1, <2>1, <2>2, <2>3, FewerAwaited
<1> QED  BY <1>1, <1>4, <1>6, <1>7

\* An output that do_processes() has looked at is not looked at again.
LEMMA Passed ==
    ASSUME NEW list, NEW born, NEW freed, ListSound(list, born, freed),
           NEW y \in FrameRecord, y.i \in DOMAIN list, list[y.i] = y.p, y.p # 0,
           NEW s, s \notin Todo(y.step)
    PROVE  <<y.p, s>> \notin AwaitedBy(y, list)
<1> SUFFICES ASSUME NEW j \in DOMAIN list, list[j] = y.p,
                    j > y.i \/ (j = y.i /\ s \in Todo(y.step))
             PROVE  FALSE
  BY DEF AwaitedBy
<1>1. j = y.i  BY DEF ListSound
<1>2. y.i \in Nat  BY DEF FrameRecord
<1> QED  BY <1>1, <1>2

\* do_processes(), at an output it looks at.
LEMMA AtOutput ==
    ASSUME ExecInv, NEW s \in Streams, AtStep("do", s)
    PROVE  /\ Runs("do") /\ Top.p \in Procs /\ Top.p \in Born /\ <<Top.p, s>> \in Outputs
           /\ Fd[<<Top.p, s>>] = proc[Top.p][s]
           /\ After(s) \in FrameRecord /\ After(s).f = "do" /\ After(s).p = Top.p
           /\ DoSound(After(s), "reap", process_list)
           /\ After(s).i = Top.i /\ Todo(After(s).step) \subseteq Todo(Top.step)
           /\ <<Top.p, s>> \in Awaited(turn, stack, process_list)
           /\ <<Top.p, s>> \notin AwaitedBy(After(s), process_list)
<1>1. Runs("do") /\ Top.step = s  BY DEF AtStep
<1>2. /\ Top \in FrameRecord /\ Top.f = "do" /\ DoSound(Top, "reap", process_list)
      /\ Awaited(turn, stack, process_list) = AwaitedBy(Top, process_list)
  BY <1>1, DoTop
<1>3. /\ Top.p # 0 /\ Top.i \in DOMAIN process_list /\ process_list[Top.i] = Top.p
  BY <1>1, <1>2 DEF DoSound, Streams
<1>4. Top.p \in Procs  BY <1>2, <1>3 DEF FrameRecord
<1>5. ListSound(process_list, Born, expunged)  BY DEF ExecInv
<1>6. Top.p \in Born  BY <1>3, <1>5 DEF ListSound, Entries
<1>7. <<Top.p, s>> \in Outputs /\ Fd[<<Top.p, s>>] = proc[Top.p][s]  BY <1>4 DEF Outputs, Fd
<1> DEFINE y == After(s)
<1>8. /\ y \in FrameRecord /\ y.f = "do" /\ y.p = Top.p /\ y.i = Top.i
      /\ y.step = IF s = "stdout" THEN "stderr" ELSE "limit"
  BY <1>2 DEF After, FrameRecord
<1> HIDE DEF y
<1>9. DoSound(y, "reap", process_list)  BY <1>3, <1>8 DEF DoSound
<1>10. Todo(y.step) \subseteq Todo(Top.step) /\ s \notin Todo(y.step) /\ s \in Todo(Top.step)
  BY <1>1, <1>8 DEF Todo, Streams
<1>11. <<Top.p, s>> \notin AwaitedBy(y, process_list)
  BY <1>3, <1>5, <1>8, <1>10, Passed
<1>12. <<Top.p, s>> \in AwaitedBy(Top, process_list)
  BY <1>3, <1>7, <1>10 DEF AwaitedBy
<1> QED  BY <1>1, <1>2, <1>4, <1>6, <1>7, <1>8, <1>9, <1>10, <1>11, <1>12 DEF y

\* do_processes()
LEMMA LoadKeeps == ExecInv /\ Load => ExecInv'
<1> SUFFICES ASSUME ExecInv, Load PROVE ExecInv'  OBVIOUS
<1>a. /\ ExecTyped /\ ListSound(process_list, Born, expunged) /\ FdsSound(Fd, Born, Dumb, rd)
      /\ ReadySound(Fd, rd, Awaited(turn, stack, process_list), forgotten, Left, Holding)
      /\ OutputSound(Fd, Born, forgotten, Late, Even, Holding)
  BY DEF ExecInv
<1>b. /\ AtStep("do", "load") /\ UNCHANGED <<table, outside, buffers, rd, turn>>
      /\ LET i == NextSlot(Top.i, OnList) IN
         Continue(IF i > Len(process_list) THEN Clean
                  ELSE [Top EXCEPT !.step = "stdout", !.i = i, !.p = process_list[i]])
  BY DEF Load
<1>c. /\ Fd' = Fd /\ Dumb' = Dumb /\ Born' = Born /\ Holding' = Holding
      /\ Left' = Left /\ Late' = Late /\ Even' = Even
  BY <1>b DEF Fd, Dumb, Born, Left, Late, Even, Holding, table, outside,
                  buffers
<1>d. Runs("do") /\ Top.step = "load"  BY <1>b DEF AtStep
<1>e. Top \in FrameRecord /\ Top.f = "do" /\ turn = "reap" /\ Below = <<>>  BY <1>d, DoTop
<1> DEFINE i == NextSlot(Top.i, OnList)
           y == IF i > Len(process_list) THEN Clean
                ELSE [Top EXCEPT !.step = "stdout", !.i = i, !.p = process_list[i]]
<1>1. process_list \in Seq({0} \cup Procs) /\ Len(process_list) \in Nat
      /\ DOMAIN process_list = 1 .. Len(process_list)
  BY <1>a, LenProperties DEF ListSound
<1>2. Top.i \in Nat \ {0}  BY <1>e DEF FrameRecord
<1>3. i = Len(process_list) + 1
      \/ (i \in Top.i .. Len(process_list) /\ process_list[i] \in OnList)
  BY <1>1, <1>2, SlotFound
<1> HIDE DEF i
<1>4. /\ y \in FrameRecord
      /\ \/ y = Clean
         \/ /\ y.f = "do" /\ DoSound(y, "reap", process_list)
            /\ y.i > Top.i \/ (y.i = Top.i /\ Todo(y.step) \subseteq Todo(Top.step))
  <2>1. CASE i > Len(process_list)
    <3>1. y = Clean  BY <2>1
    <3> QED  BY <3>1, FrameFacts
  <2>2. CASE ~ (i > Len(process_list))
    <3>1. i \in Top.i .. Len(process_list) /\ process_list[i] # 0 /\ process_list[i] \in Procs
      <4>1. i \in Top.i .. Len(process_list) /\ process_list[i] \in OnList  BY <1>1, <1>3, <2>2
      <4>2. i \in 1 .. Len(process_list)  BY <1>1, <1>2, <4>1
      <4>3. process_list[i] # 0  BY <4>1 DEF OnList
      <4> QED  BY <1>1, <4>1, <4>2, <4>3, ElementOfSeq
    <3>2. i \in Nat \ {0} /\ i >= Top.i /\ i \in DOMAIN process_list  BY <1>1, <1>2, <3>1
    <3>3. y = [Top EXCEPT !.step = "stdout", !.i = i, !.p = process_list[i]]  BY <2>2
    <3>4. /\ y \in FrameRecord /\ y.f = "do" /\ y.i = i /\ y.p = process_list[i] /\ y.step = "stdout"
      BY <1>e, <3>1, <3>2, <3>3 DEF FrameRecord
    <3> HIDE DEF y
    <3>5. DoSound(y, "reap", process_list)  BY <3>1, <3>2, <3>4 DEF DoSound
    <3>6. Todo(y.step) \subseteq Todo(Top.step)  BY <1>d, <3>4 DEF Todo
    <3> QED  BY <1>2, <3>2, <3>4, <3>5, <3>6
  <2> QED  BY <2>1, <2>2
<1>5. stack' = <<y>>
  <2>1. stack' = Append(Below, y)  BY <1>b DEF Continue, i
  <2> HIDE DEF y
  <2>2. Append(<<>>, y) = <<y>>  OBVIOUS
  <2> QED  BY <1>e, <2>1, <2>2
<1> HIDE DEF y
<1>6. UNCHANGED <<process_list, expunged, turn, world>>  BY <1>b DEF table, outside
<1>7. /\ FramesSound(stack', turn', process_list', Born', expunged', Dumb')
      /\ Awaited(turn', stack', process_list') \subseteq Awaited(turn, stack, process_list)
  BY <1>d, <1>4, <1>5, <1>6, DoGoes
<1>8. ReadySound(Fd', rd', Awaited(turn', stack', process_list'), forgotten', Left', Holding')
  BY <1>a, <1>b, <1>c, <1>7 DEF ReadySound, table
<1>9. ExecTyped'  BY <1>a, <1>b DEF ExecTyped, table, outside, buffers
<1> QED  BY <1>a, <1>b, <1>c, <1>e, <1>7, <1>8, <1>9 DEF ExecInv, table

LEMMA NotReadyKeeps == ASSUME NEW s \in Streams PROVE ExecInv /\ NotReady(s) => ExecInv'
<1> SUFFICES ASSUME ExecInv, NotReady(s) PROVE ExecInv'  OBVIOUS
<1>a. /\ ExecTyped /\ ListSound(process_list, Born, expunged) /\ FdsSound(Fd, Born, Dumb, rd)
      /\ ReadySound(Fd, rd, Awaited(turn, stack, process_list), forgotten, Left, Holding)
      /\ OutputSound(Fd, Born, forgotten, Late, Even, Holding)
  BY DEF ExecInv
<1>b. /\ AtStep("do", s) /\ UNCHANGED <<table, outside, buffers, rd, turn>>
      /\ Continue(After(s))
  BY DEF NotReady
<1>c. /\ Fd' = Fd /\ Dumb' = Dumb /\ Born' = Born /\ Holding' = Holding
      /\ Left' = Left /\ Late' = Late /\ Even' = Even
  BY <1>b DEF Fd, Dumb, Born, Left, Late, Even, Holding, table, outside,
                  buffers
<1> DEFINE y == After(s)
<1>1. /\ Runs("do") /\ y \in FrameRecord /\ y.f = "do" /\ DoSound(y, "reap", process_list)
      /\ y.i = Top.i /\ Todo(y.step) \subseteq Todo(Top.step)
  BY <1>b, AtOutput
<1>2. turn = "reap" /\ Below = <<>>  BY <1>1, DoTop
<1>3. stack' = <<y>>
  <2>1. stack' = Append(Below, y)  BY <1>b DEF Continue
  <2> HIDE DEF y
  <2>2. Append(<<>>, y) = <<y>>  OBVIOUS
  <2> QED  BY <1>2, <2>1, <2>2
<1> HIDE DEF y
<1>4. UNCHANGED <<process_list, expunged, turn, world>>  BY <1>b DEF table, outside
<1>5. /\ FramesSound(stack', turn', process_list', Born', expunged', Dumb')
      /\ Awaited(turn', stack', process_list') \subseteq Awaited(turn, stack, process_list)
  BY <1>1, <1>3, <1>4, DoGoes
<1>6. ReadySound(Fd', rd', Awaited(turn', stack', process_list'), forgotten', Left', Holding')
  BY <1>a, <1>b, <1>c, <1>5 DEF ReadySound, table
<1>7. ExecTyped'  BY <1>a, <1>b DEF ExecTyped, table, outside, buffers
<1> QED  BY <1>a, <1>b, <1>c, <1>2, <1>5, <1>6, <1>7 DEF ExecInv, table

\* It handles an output that was found ready.
LEMMA AtHandled ==
    ASSUME ExecInv, NEW x \in Outputs, Handles(x)
    PROVE  /\ Runs("do") /\ x[1] \in Procs /\ x[1] \in Born /\ x[1] # 0 /\ x[1] \notin Dumb
           /\ Fd[x] = proc[x[1]][x[2]] /\ Fd[x] \in rd /\ Fd[x] # 0
           /\ After(x[2]) \in FrameRecord /\ After(x[2]).f = "do" /\ After(x[2]).p = x[1]
           /\ DoSound(After(x[2]), "reap", process_list) /\ After(x[2]).i = Top.i
           /\ Todo(After(x[2]).step) \subseteq Todo(Top.step)
           /\ x \in Awaited(turn, stack, process_list)
           /\ x \notin AwaitedBy(After(x[2]), process_list)
           /\ turn = "reap" /\ Below = <<>>
<1>1. x[1] \in Procs /\ x[2] \in Streams /\ x = <<x[1], x[2]>>  BY DEF Outputs
<1>2. AtStep("do", x[2]) /\ Top.p = x[1] /\ proc[x[1]][x[2]] \in rd  BY DEF Handles
<1> DEFINE s == x[2]
<1>3. s \in Streams /\ AtStep("do", s)  BY <1>1, <1>2
<1> HIDE DEF s
<1>4. /\ Runs("do") /\ Top.p \in Procs /\ Top.p \in Born /\ <<Top.p, s>> \in Outputs
      /\ Fd[<<Top.p, s>>] = proc[Top.p][s]
      /\ After(s) \in FrameRecord /\ After(s).f = "do" /\ After(s).p = Top.p
      /\ DoSound(After(s), "reap", process_list)
      /\ After(s).i = Top.i /\ Todo(After(s).step) \subseteq Todo(Top.step)
      /\ <<Top.p, s>> \in Awaited(turn, stack, process_list)
      /\ <<Top.p, s>> \notin AwaitedBy(After(s), process_list)
  BY <1>3, AtOutput
<1>5. turn = "reap" /\ Below = <<>>  BY <1>4, DoTop
<1>6. <<Top.p, s>> = x  BY <1>1, <1>2 DEF s
<1>7. 0 \notin Fds /\ 0 \notin Procs  BY ExecAssumption DEF Fds, Procs
<1>8. rd \subseteq Fds /\ \A y \in Outputs : y[1] \in Dumb => Fd[y] = 0
  BY DEF ExecInv, FdsSound
<1>9. Fd[x] \in rd  BY <1>2, <1>4, <1>6 DEF s
<1> QED  BY <1>1, <1>2, <1>4, <1>5, <1>6, <1>7, <1>8, <1>9 DEF s

\* The counter of a process: its outputs stay.
Counts(p, n) == proc' = [proc EXCEPT ![p].counter = @ + n]

LEMMA Counted ==
    ASSUME ExecTyped, NEW p \in Procs, NEW n \in Int, Counts(p, n)
    PROVE  proc' \in [Procs -> ProcessRecord] /\ Fd' = Fd /\ Dumb' = Dumb
<1>1. proc \in [Procs -> ProcessRecord]  BY DEF ExecTyped
<1> DEFINE k == proc[p].counter + n
           r == [proc[p] EXCEPT !.counter = k]
<1>2. proc[p] \in ProcessRecord /\ k \in Int  BY <1>1 DEF ProcessRecord
<1>3. proc' = [proc EXCEPT ![p] = r]  BY <1>1 DEF Counts
<1> HIDE DEF k
<1>4. /\ r \in ProcessRecord /\ r.dumb = proc[p].dumb
      /\ r.stdout = proc[p].stdout /\ r.stderr = proc[p].stderr
  BY <1>2 DEF ProcessRecord
<1> HIDE DEF r
<1>5. proc' \in [Procs -> ProcessRecord]  BY <1>1, <1>3, <1>4
<1>6. /\ \A q \in Procs : proc'[q].dumb = proc[q].dumb
      /\ \A q \in Procs : proc'[q].stdout = proc[q].stdout /\ proc'[q].stderr = proc[q].stderr
  BY <1>1, <1>3, <1>4
<1>7. \A x \in Outputs : proc'[x[1]][x[2]] = proc[x[1]][x[2]]
  BY <1>6 DEF Outputs, Streams
<1> QED  BY <1>5, <1>6, <1>7 DEF Fd, Dumb

\* What reading changes nothing of.
AllElse == UNCHANGED <<process_list, expunged, forgotten, world, rd, turn>>

\* A hook is run for what was read.
LEMMA ReadKeeps ==
    ASSUME ExecInv, NEW x \in Outputs, Handles(x), OnlyAt(x), NEW n \in Int,
           Counts(x[1], n), Call(Hook, After(x[2])), AllElse
    PROVE  ExecInv'
<1>a. /\ ExecTyped /\ ListSound(process_list, Born, expunged) /\ FdsSound(Fd, Born, Dumb, rd)
      /\ ReadySound(Fd, rd, Awaited(turn, stack, process_list), forgotten, Left, Holding)
      /\ OutputSound(Fd, Born, forgotten, Late, Even, Holding)
  BY DEF ExecInv
<1> DEFINE p == x[1]
           y == After(x[2])
<1>b. /\ Counts(p, n) /\ stack' = Below \o <<y, Hook>>
      /\ UNCHANGED <<process_list, expunged, forgotten, world, rd, turn>>
  BY DEF Call, AllElse
<1>1. /\ Runs("do") /\ p \in Procs /\ p # 0 /\ p \notin Dumb /\ Fd[x] \in rd /\ Fd[x] # 0
      /\ y \in FrameRecord /\ y.f = "do" /\ y.p = p /\ DoSound(y, "reap", process_list)
      /\ y.i = Top.i /\ Todo(y.step) \subseteq Todo(Top.step)
      /\ x \notin AwaitedBy(y, process_list)
  BY AtHandled
<1>2. turn = "reap" /\ Below = <<>>  BY AtHandled
<1> HIDE DEF p, y
<1>3. stack' = <<y, Hook>>
  <2> DEFINE h == Hook
  <2>1. h \in FrameRecord  BY FrameFacts
  <2>2. stack' = <<>> \o <<y, h>>  BY <1>b, <1>2
  <2> HIDE DEF h
  <2>3. <<y, h>> \in Seq(FrameRecord)  BY <1>1, <2>1
  <2>4. <<>> \o <<y, h>> = <<y, h>>  BY <2>3, ConcatEmptySeq
  <2>5. stack' = <<y, h>>  BY <2>2, <2>4
  <2> QED  BY <2>5 DEF h
<1>4. proc' \in [Procs -> ProcessRecord] /\ Fd' = Fd /\ Dumb' = Dumb
  BY <1>a, <1>b, <1>1, Counted
<1>5. Fd' = Fd /\ Dumb' = Dumb /\ Born' = Born /\ Holding' = Holding
  BY <1>b, <1>4 DEF Born, Holding
<1>6. p # 0 /\ p \notin Dumb'  BY <1>1, <1>5
<1>7. UNCHANGED <<process_list, expunged, turn, world>>  BY <1>b
<1>8. /\ FramesSound(stack', turn', process_list', Born', expunged', Dumb')
      /\ Awaited(turn', stack', process_list') \subseteq Awaited(turn, stack, process_list)
      /\ Awaited(turn', stack', process_list') = AwaitedBy(y, process_list)
  BY <1>1, <1>3, <1>6, <1>7, DoGoes
<1>9. ReadySound(Fd', rd', Awaited(turn', stack', process_list'), forgotten', Left', Holding')
  <2>1. \A o \in Awaited(turn', stack', process_list') : o \in Outputs /\ o # x
    BY <1>1, <1>8 DEF AwaitedBy
  <2> QED  BY <1>a, <1>b, <1>5, <1>8, <2>1 DEF ReadySound, OnlyAt
<1>10. OutputSound(Fd', Born', forgotten', Late', Even', Holding')
  BY <1>a, <1>b, <1>1, <1>5 DEF OutputSound, OnlyAt
<1>11. ExecTyped'  BY <1>a, <1>b, <1>4 DEF ExecTyped, OnlyAt
<1> QED  BY <1>a, <1>b, <1>2, <1>5, <1>8, <1>9, <1>10, <1>11 DEF ExecInv

LEMMA AfterLineType ==
    ASSUME NEW had, had \in Pipe \/ had \in Buffer, had.lines > 0
    PROVE  AfterLine(had) \in Buffer /\ AfterLine(had).lines = had.lines - 1
<1> DEFINE segments == IF had.lines = 1 /\ had.part THEN 1 ELSE 0
<1>1. had.lines \in Nat /\ had.part \in BOOLEAN  BY DEF Pipe, Buffer
<1>2. had.lines - 1 \in Nat  BY <1>1
<1>3. segments \in Nat  OBVIOUS
<1>4. AfterLine(had) = [lines |-> had.lines - 1, part |-> had.part, segments |-> segments]
  BY DEF AfterLine
<1> HIDE DEF segments
<1> QED  BY <1>1, <1>2, <1>3, <1>4 DEF Buffer

LEMMA HandleLineKeeps == ASSUME NEW x \in Outputs PROVE ExecInv /\ HandleLine(x) => ExecInv'
<1> SUFFICES ASSUME ExecInv, HandleLine(x) PROVE ExecInv'  OBVIOUS
<1>1. ExecTyped  BY DEF ExecInv
<1>2. /\ unread \in [Outputs -> Pipe] /\ io \in [Outputs -> Buffer]
      /\ owed \in [Outputs -> Int] /\ unread[x] \in Pipe /\ io[x] \in Buffer
      /\ owed[x] \in Int /\ unread[x].lines \in Nat /\ io[x].lines \in Nat
  BY <1>1 DEF ExecTyped, Pipe, Buffer
<1>3. /\ Handles(x) /\ owed' = [owed EXCEPT ![x] = owed[x] - 1] /\ owed[x] - 1 \in Int
      /\ Counts(x[1], 1) /\ Call(Hook, After(x[2])) /\ AllElse
  BY <1>2 DEF HandleLine, Counts, AllElse
<1>4. OnlyAt(x)
  <2>1. CASE io[x].lines > 0 /\ io' = [io EXCEPT ![x] = AfterLine(@)] /\ unread' = unread
    <3> DEFINE r == AfterLine(io[x])
    <3>1. r \in Buffer /\ r.lines = io[x].lines - 1  BY <1>2, <2>1, AfterLineType
    <3>2. io' = [io EXCEPT ![x] = r] /\ unread' = [unread EXCEPT ![x] = unread[x]]
      BY <1>2, <2>1
    <3> HIDE DEF r
    <3>3. owed[x] = unread[x].lines + io[x].lines => owed[x] - 1 = unread[x].lines + r.lines
      BY <1>2, <3>1
    <3> QED  BY <1>1, <1>2, <1>3, <3>1, <3>2, <3>3, AtPipe
  <2>2. CASE /\ io[x].lines = 0 /\ unread[x].lines > 0
             /\ io' = [io EXCEPT ![x] = AfterLine(unread[x])]
             /\ unread' = [unread EXCEPT ![x] = Nothing]
    <3> DEFINE r == AfterLine(unread[x])
    <3>1. r \in Buffer /\ r.lines = unread[x].lines - 1  BY <1>2, <2>2, AfterLineType
    <3>2. io' = [io EXCEPT ![x] = r]  BY <2>2
    <3> HIDE DEF r
    <3>3. Nothing \in Pipe /\ Nothing.lines = 0  BY DEF Nothing, Pipe
    <3>4. owed[x] = unread[x].lines + io[x].lines => owed[x] - 1 = Nothing.lines + r.lines
      BY <1>2, <2>2, <3>1, <3>3
    <3> QED  BY <1>1, <1>2, <1>3, <2>2, <3>1, <3>2, <3>3, <3>4, AtPipe
  <2> QED  BY <2>1, <2>2 DEF HandleLine
<1> QED  BY <1>3, <1>4, ReadKeeps

LEMMA HandlePartKeeps == ASSUME NEW x \in Outputs PROVE ExecInv /\ HandlePart(x) => ExecInv'
<1> SUFFICES ASSUME ExecInv, HandlePart(x) PROVE ExecInv'  OBVIOUS
<1>1. ExecTyped  BY DEF ExecInv
<1>2. /\ owed \in [Outputs -> Int] /\ owed[x] \in Int /\ io[x] \in Buffer
      /\ io[x].segments \in Nat
  BY <1>1 DEF ExecTyped, Buffer
<1> DEFINE r == [lines |-> 0, part |-> TRUE, segments |-> io[x].segments + 1]
<1>3. /\ Handles(x) /\ io' = [io EXCEPT ![x] = r] /\ unread' = [unread EXCEPT ![x] = Nothing]
      /\ Call(Hook, After(x[2])) /\ AllElse /\ owed' = owed
  BY DEF HandlePart, AllElse
<1>4. io[x].lines = 0 /\ unread[x].lines = 0  BY DEF HandlePart, PartRead
<1>5. PICK n \in {0, 1} : Counts(x[1], n)  BY DEF HandlePart, Counts
<1>6. r \in Buffer /\ r.lines = 0  BY <1>2 DEF Buffer
<1>7. Nothing \in Pipe /\ Nothing.lines = 0  BY DEF Nothing, Pipe
<1> HIDE DEF r
<1>8. owed' = [owed EXCEPT ![x] = owed[x]]  BY <1>2, <1>3
<1>9. owed[x] = unread[x].lines + io[x].lines => owed[x] = Nothing.lines + r.lines
  BY <1>4, <1>6, <1>7
<1>10. OnlyAt(x)  BY <1>1, <1>2, <1>3, <1>6, <1>7, <1>8, <1>9, AtPipe
<1> QED  BY <1>3, <1>5, <1>10, ReadKeeps

\* The structure of a process one of whose outputs is closed.
LEMMA ClosedOutput ==
    ASSUME NEW r \in ProcessRecord, NEW s \in Streams
    PROVE  /\ Without(r, s) \in ProcessRecord /\ Without(r, s)[s] = 0
           /\ Without(r, s)[Other(s)] = r[Other(s)]
           /\ Without(r, s).dumb => r.dumb \/ r[Other(s)] = 0
<1>1. CASE s = "stdout"
  <2>1. Other(s) = "stderr"  BY <1>1 DEF Other
  <2> DEFINE d == r.dumb \/ r.stderr = 0
             w == [r EXCEPT !.stdout = 0, !.dumb = d]
  <2>2. Without(r, s) = w  BY <1>1, <2>1, Zenon DEF Without
  <2>3. d \in BOOLEAN  OBVIOUS
  <2>4. d => r.dumb \/ r.stderr = 0  OBVIOUS
  <2> HIDE DEF d
  <2>5. /\ w \in ProcessRecord /\ w.stdout = 0 /\ w.stderr = r.stderr /\ w.dumb = d
    BY <2>3 DEF ProcessRecord
  <2> HIDE DEF w
  <2> QED  BY <1>1, <2>1, <2>2, <2>4, <2>5
<1>2. CASE s = "stderr"
  <2>1. Other(s) = "stdout"  BY <1>2 DEF Other
  <2> DEFINE d == r.dumb \/ r.stdout = 0
             w == [r EXCEPT !.stderr = 0, !.dumb = d]
  <2>2. Without(r, s) = w  BY <1>2, <2>1, Zenon DEF Without
  <2>3. d \in BOOLEAN  OBVIOUS
  <2>4. d => r.dumb \/ r.stdout = 0  OBVIOUS
  <2> HIDE DEF d
  <2>5. /\ w \in ProcessRecord /\ w.stderr = 0 /\ w.stdout = r.stdout /\ w.dumb = d
    BY <2>3 DEF ProcessRecord
  <2> HIDE DEF w
  <2> QED  BY <1>2, <2>1, <2>2, <2>4, <2>5
<1> QED  BY <1>1, <1>2 DEF Streams

\* An output is closed, when nothing is left in it or it is given up.
LEMMA CloseKeeps ==
    ASSUME ExecInv, NEW x \in Outputs, Handles(x), Close(x), io[x].lines = 0,
           \/ unread[x] = Nothing /\ forgotten' = forgotten
           \/ forgotten' = forgotten \cup {x}
    PROVE  ExecInv'
<1>a. /\ ExecTyped /\ ListSound(process_list, Born, expunged) /\ FdsSound(Fd, Born, Dumb, rd)
      /\ ReadySound(Fd, rd, Awaited(turn, stack, process_list), forgotten, Left, Holding)
      /\ OutputSound(Fd, Born, forgotten, Late, Even, Holding)
  BY DEF ExecInv
<1> DEFINE p == x[1]
           s == x[2]
           y == After(s)
           other == Other(s)
<1>b. /\ proc' = [proc EXCEPT ![p] = Without(proc[p], s)]
      /\ io' = [io EXCEPT ![x] = NoBuffer]
      /\ stack' = Append(Below, y)
      /\ UNCHANGED <<process_list, expunged, world, unread, owed, rd, turn>>
  BY DEF Close, Continue, outside
<1>1. /\ Runs("do") /\ p \in Procs /\ p \in Born /\ s \in Streams /\ x = <<p, s>>
      /\ Fd[x] = proc[p][s] /\ Fd[x] \in rd /\ Fd[x] # 0
      /\ y \in FrameRecord /\ y.f = "do" /\ y.p = p /\ DoSound(y, "reap", process_list)
      /\ y.i = Top.i /\ Todo(y.step) \subseteq Todo(Top.step)
      /\ x \in Awaited(turn, stack, process_list)
  <2>1. s \in Streams /\ x = <<p, s>>  BY DEF Outputs
  <2> QED  BY <2>1, AtHandled
<1>2. turn = "reap" /\ Below = <<>>  BY AtHandled
<1> HIDE DEF p, s, y
<1>3. stack' = <<y>>
  <2>1. Append(<<>>, y) = <<y>>  OBVIOUS
  <2> QED  BY <1>b, <1>2, <2>1
<1>4. /\ proc' \in [Procs -> ProcessRecord]
      /\ \A q \in Procs : q # p => proc'[q] = proc[q]
      /\ proc'[p][s] = 0 /\ proc'[p][other] = proc[p][other]
      /\ proc'[p].dumb => proc[p].dumb \/ proc[p][other] = 0
  <2>1. proc \in [Procs -> ProcessRecord] /\ proc[p] \in ProcessRecord  BY <1>a, <1>1 DEF ExecTyped
  <2> DEFINE r == Without(proc[p], s)
  <2>2. /\ r \in ProcessRecord /\ r[s] = 0 /\ r[other] = proc[p][other]
        /\ r.dumb => proc[p].dumb \/ proc[p][other] = 0
    BY <1>1, <2>1, ClosedOutput
  <2>3. proc' = [proc EXCEPT ![p] = r]  BY <1>b
  <2> HIDE DEF r, other
  <2> QED  BY <1>1, <2>1, <2>2, <2>3
<1>5. Born' = Born /\ Holding' = Holding /\ OnlyAt(x)
  <2>1. /\ unread \in [Outputs -> Pipe] /\ owed \in [Outputs -> Int]
        /\ unread[x] \in Pipe /\ owed[x] \in Int
    BY <1>a DEF ExecTyped
  <2>2. unread' = [unread EXCEPT ![x] = unread[x]] /\ owed' = [owed EXCEPT ![x] = owed[x]]
    BY <1>b, <2>1
  <2>3. NoBuffer \in Buffer /\ NoBuffer.lines = 0  BY DEF NoBuffer, Buffer
  <2>4. owed[x] = unread[x].lines + io[x].lines => owed[x] = unread[x].lines + NoBuffer.lines
    BY <2>3
  <2>5. OnlyAt(x)  BY <1>a, <1>b, <2>1, <2>2, <2>3, <2>4, AtPipe
  <2> QED  BY <1>b, <2>5 DEF Born, Holding
<1>6. /\ \A o \in Outputs : Fd'[o] = IF o = x THEN 0 ELSE Fd[o]
      /\ Fd' \in [Outputs -> Fds \cup {0}]
  <2>1. \A q \in Procs, r \in Streams : <<q, r>> # <<p, s>> => proc'[q][r] = proc[q][r]
    BY <1>1, <1>4 DEF Streams, Other, other
  <2>2. \A o \in Outputs : Fd'[o] = IF o = x THEN 0 ELSE Fd[o]
    BY <1>1, <1>4, <2>1 DEF Fd, Outputs
  <2>3. \A o \in Outputs : proc'[o[1]][o[2]] \in Fds \cup {0}
    BY <1>4 DEF Outputs, ProcessRecord, Streams
  <2> QED  BY <2>2, <2>3 DEF Fd
<1>7. Dumb' \subseteq Dumb \cup {p}  BY <1>4 DEF Dumb
<1>8. p \in Dumb' => \A r \in Streams : Fd'[<<p, r>>] = 0
  <2> SUFFICES ASSUME p \in Dumb', NEW r \in Streams PROVE Fd'[<<p, r>>] = 0
    OBVIOUS
  <2>1. <<p, r>> \in Outputs /\ Fd'[<<p, r>>] = proc'[p][r] /\ Fd[<<p, r>>] = proc[p][r]
    BY <1>1 DEF Fd, Outputs
  <2>2. p \in Dumb \/ proc[p][other] = 0  BY <1>1, <1>4 DEF Dumb
  <2>3. p \in Dumb => Fd[<<p, r>>] = 0  BY <1>a, <2>1 DEF FdsSound
  <2>4. r = s \/ r = other  BY <1>1 DEF Streams, Other
  <2> QED  BY <1>1, <1>4, <1>6, <2>1, <2>2, <2>3, <2>4
<1>9. FdsSound(Fd', Born', Dumb', rd')
  <2>1. Dumb \subseteq Born /\ \A o \in Outputs : o[1] \in Dumb => Fd[o] = 0
    BY <1>a DEF FdsSound
  <2>2. Dumb' \subseteq Born  BY <1>1, <1>7, <2>1
  <2>3. \A o \in Outputs : o[1] \in Dumb' => Fd'[o] = 0
    <3> SUFFICES ASSUME NEW o \in Outputs, o[1] \in Dumb' PROVE Fd'[o] = 0
      OBVIOUS
    <3>1. CASE o[1] = p
      <4>1. o = <<p, o[2]>> /\ o[2] \in Streams  BY <3>1 DEF Outputs
      <4> QED  BY <1>8, <3>1, <4>1
    <3>2. CASE o[1] # p
      <4>1. o # x  BY <3>2 DEF p
      <4> QED  BY <1>6, <1>7, <2>1, <3>2, <4>1
    <3> QED  BY <3>1, <3>2
  <2>4. \A o \in Outputs : Fd'[o] = Fd[o] \/ Fd'[o] = 0  BY <1>6
  <2>5. FdsSound(Fd', Born, Dumb', rd)  BY <1>a, <1>6, <2>2, <2>3, <2>4, FdsFewer
  <2> QED  BY <1>b, <1>5, <2>5
<1>10. UNCHANGED <<process_list, expunged, turn, world>>  BY <1>b
<1>11. /\ FramesSound(stack', turn', process_list', Born', expunged', Dumb')
       /\ Awaited(turn', stack', process_list') \subseteq Awaited(turn, stack, process_list)
  BY <1>1, <1>3, <1>10, DoGoes
<1>12. 0 \notin rd
  <2>1. 0 \notin Fds  BY ExecAssumption DEF Fds
  <2> QED  BY <1>a, <2>1 DEF FdsSound
<1>13. ReadySound(Fd', rd', Awaited(turn', stack', process_list'), forgotten', Left', Holding')
  <2>1. \A o \in Awaited(turn', stack', process_list') : o \in Outputs
    BY DEF Awaited, AwaitedBy
  <2>2. forgotten \subseteq forgotten'  OBVIOUS
  <2>3. \A o \in Awaited(turn', stack', process_list') : Fd'[o] \in rd => o # x /\ Fd'[o] = Fd[o]
    BY <1>6, <1>12, <2>1
  <2> QED  BY <1>a, <1>b, <1>5, <1>11, <2>1, <2>2, <2>3 DEF ReadySound, OnlyAt
<1>14. OutputSound(Fd', Born', forgotten', Late', Even', Holding')
  <2>1. x \notin forgotten' => x \notin Late' /\ p \notin Holding
    <3> SUFFICES ASSUME x \notin forgotten' PROVE x \notin Late' /\ p \notin Holding
      OBVIOUS
    <3>1. unread[x] = Nothing /\ x \notin forgotten  OBVIOUS
    <3>2. x \notin Left  BY <3>1 DEF Left
    <3>3. p \notin Holding  BY <1>a, <1>1, <3>1, <3>2 DEF ReadySound, p
    <3>4. x \in Even  BY <1>a, <1>1, <3>1 DEF OutputSound
    <3>5. owed[x] = 0  BY <3>1, <3>4 DEF Even, Nothing
    <3> QED  BY <1>b, <3>3, <3>5 DEF Late
  <2>2. \A o \in Outputs \ forgotten' : o \notin forgotten  OBVIOUS
  <2>3. \A o \in Outputs \ forgotten' :
           o[1] \in Born /\ Fd'[o] = 0 => o \notin Late' /\ o[1] \notin Holding
    BY <1>a, <1>5, <1>6, <2>1, <2>2 DEF OutputSound, OnlyAt, p
  <2>4. \A o \in Outputs \ forgotten' : o[1] \notin Born \/ Fd'[o] # 0 => o \in Even'
    BY <1>a, <1>1, <1>5, <1>6, <2>2 DEF OutputSound, OnlyAt, p
  <2> QED  BY <1>5, <2>3, <2>4 DEF OutputSound
<1>15. turn' \in Turns /\ world' \in [Procs -> Outside]  BY <1>a, <1>b DEF ExecTyped
<1>16. ExecTyped'  BY <1>4, <1>5, <1>15 DEF ExecTyped, OnlyAt
<1> QED  BY <1>a, <1>b, <1>2, <1>5, <1>9, <1>11, <1>13, <1>14, <1>16 DEF ExecInv

LEMMA HandleEndKeeps ==
    ASSUME NEW x \in Outputs PROVE ExecInv /\ (HandleEnd(x) \/ GiveUpOutput(x)) => ExecInv'
  BY CloseKeeps DEF HandleEnd, GiveUpOutput

LEMMA LimitKeeps == ExecInv /\ Limit => ExecInv'
<1> SUFFICES ASSUME ExecInv, Limit PROVE ExecInv'  OBVIOUS
<1>a. /\ ExecTyped /\ ListSound(process_list, Born, expunged) /\ FdsSound(Fd, Born, Dumb, rd)
      /\ ReadySound(Fd, rd, Awaited(turn, stack, process_list), forgotten, Left, Holding)
      /\ OutputSound(Fd, Born, forgotten, Late, Even, Holding)
  BY DEF ExecInv
<1> DEFINE p == Top.p
           y == [Top EXCEPT !.i = @ + 1, !.p = 0, !.step = "load"]
<1>b. /\ AtStep("do", "limit")
      /\ Ignore(p) \/ UNCHANGED <<proc, io, forgotten>>
      /\ stack' = Append(Below, y)
      /\ UNCHANGED <<process_list, expunged, world, unread, owed, rd, turn>>
  BY DEF Limit, Continue, outside
<1>1. Runs("do") /\ Top.step = "limit"  BY <1>b DEF AtStep
<1>2. /\ Top \in FrameRecord /\ Top.f = "do" /\ DoSound(Top, "reap", process_list)
      /\ Below = <<>> /\ turn = "reap"
  BY <1>1, DoTop
<1>3. p # 0 /\ Top.i \in DOMAIN process_list /\ process_list[Top.i] = p
  BY <1>1, <1>2 DEF DoSound
<1>4. p \in Procs /\ p \in Born
  <2>1. p \in Procs  BY <1>2, <1>3 DEF FrameRecord
  <2> QED  BY <1>a, <1>3, <2>1 DEF ListSound, Entries
<1>5. /\ y \in FrameRecord /\ y.f = "do" /\ DoSound(y, "reap", process_list) /\ y.i > Top.i
  <2>2. Top.i \in Nat /\ Top.i + 1 \in Nat \ {0}  BY <1>2 DEF FrameRecord
  <2>1. y \in FrameRecord /\ y.f = "do" /\ y.i = Top.i + 1 /\ y.p = 0 /\ y.step = "load"
    BY <1>2, <2>2 DEF FrameRecord
  <2> HIDE DEF y
  <2> QED  BY <2>1, <2>2 DEF DoSound
<1> HIDE DEF p, y
<1>6. stack' = <<y>>
  <2>1. Append(<<>>, y) = <<y>>  OBVIOUS
  <2> QED  BY <1>b, <1>2, <2>1
<1>7. /\ proc' \in [Procs -> ProcessRecord] /\ Born' = Born /\ Holding' = Holding /\ SamePipes
      /\ \A x \in Outputs : Fd'[x] = Fd[x] \/ Fd'[x] = 0
      /\ FdsSound(Fd', Born', Dumb', rd')
      /\ OutputSound(Fd', Born', forgotten', Late', Even', Holding')
  <2>1. CASE Ignore(p)
    <3>1. UNCHANGED <<world, unread, owed, rd>>  BY <1>b
    <3> QED  BY <1>4, <2>1, <3>1, IgnoreKeeps
  <2>2. CASE UNCHANGED <<proc, io, forgotten>>
    <3>1. Born' = Born /\ Holding' = Holding /\ Fd' = Fd /\ Dumb' = Dumb
      BY <1>b, <2>2 DEF Born, Holding, Fd, Dumb
    <3>2. UNCHANGED <<unread, io, owed, forgotten>>  BY <1>b, <2>2
    <3>3. SamePipes  BY <1>a, <3>2, NothingChanged
    <3>4. OutputSound(Fd', Born', forgotten', Late', Even', Holding')
      BY <1>a, <3>1, <3>3, PipesKept
    <3> QED  BY <1>a, <1>b, <2>2, <3>1, <3>3, <3>4 DEF ExecTyped
  <2> QED  BY <1>b, <2>1, <2>2
<1>8. UNCHANGED <<process_list, expunged, turn, world>>  BY <1>b
<1>9. /\ FramesSound(stack', turn', process_list', Born', expunged', Dumb')
      /\ Awaited(turn', stack', process_list') \subseteq Awaited(turn, stack, process_list)
  BY <1>1, <1>5, <1>6, <1>8, DoGoes
<1>10. 0 \notin rd
  <2>1. 0 \notin Fds  BY ExecAssumption DEF Fds
  <2> QED  BY <1>a, <2>1 DEF FdsSound
<1>11. ReadySound(Fd', rd', Awaited(turn', stack', process_list'), forgotten', Left', Holding')
  <2>1. \A x \in Awaited(turn', stack', process_list') : x \in Outputs
    BY DEF Awaited, AwaitedBy
  <2> QED  BY <1>a, <1>b, <1>7, <1>9, <1>10, <2>1 DEF ReadySound, SamePipes
<1>12. ExecTyped'  BY <1>a, <1>b, <1>7 DEF ExecTyped, SamePipes
<1> QED  BY <1>a, <1>b, <1>2, <1>7, <1>9, <1>11, <1>12 DEF ExecInv

----------------------------------------------------------------------------

\* The place of the last frame, less one.
Under == Len(stack) - 1

\* The stack, when what runs is not do_processes() itself.
LEMMA Positions ==
    ASSUME NEW S, NEW s, NEW n \in Nat \ {0}, DOMAIN s = 1 .. n,
           \A k \in 1 .. n : s[k] \in S
    PROVE  /\ n - 1 \in 0 .. n /\ n \in DOMAIN s /\ n - 1 \in Nat
           /\ \A k \in 1 .. n - 1 : k \in DOMAIN s /\ k # n
           /\ \A k \in 1 .. n - 1 : s[k] \in S
           /\ s[n] \in S
OBVIOUS

LEMMA UpperTop ==
    ASSUME ExecInv, NEW f \in {"clean", "hook"}, Runs(f)
    PROVE  /\ stack \in Seq(FrameRecord) /\ Under \in 0 .. Len(stack)
           /\ Top \in FrameRecord /\ Top.f = f
           /\ FrameSound(Top, process_list, Born, expunged, Dumb)
           /\ \A x, y \in FrameRecord : Steps(stack, Under, Below, x, y)
           /\ \A k \in 1 .. Under :
                 /\ stack[k] \in FrameRecord
                 /\ FrameSound(stack[k], process_list, Born, expunged, Dumb)
                 /\ stack[k].f = "clean" /\ Top.f = "clean" /\ Top.p # 0 => stack[k].p # Top.p
           /\ DoRuns(stack) => /\ DoSound(stack[1], turn, process_list)
                               /\ stack[1].p # 0 /\ stack[1].p \notin Dumb
<1>a. FramesSound(stack, turn, process_list, Born, expunged, Dumb)  BY DEF ExecInv
<1>1. stack \in Seq(FrameRecord) /\ stack # <<>> /\ Top.f = f
  BY <1>a DEF FramesSound, Runs
<1>2. Len(stack) \in Nat \ {0} /\ DOMAIN stack = 1 .. Len(stack)
  BY <1>1, EmptySeq, LenProperties
<1>p. \A k \in 1 .. Len(stack) : stack[k] \in FrameRecord  BY <1>1, ElementOfSeq
<1>3. Under \in 0 .. Len(stack) /\ Len(stack) \in DOMAIN stack /\ Under \in Nat
      /\ \A k \in 1 .. Under : k \in DOMAIN stack /\ k # Len(stack)
  BY <1>2, <1>p, Positions, Zenon DEF Under
<1>4. /\ Top \in FrameRecord
      /\ \A k \in 1 .. Under : stack[k] \in FrameRecord
  BY <1>2, <1>p, Positions, Zenon DEF Under, Top
<1>5. ASSUME NEW x \in FrameRecord, NEW y \in FrameRecord
      PROVE  Steps(stack, Under, Below, x, y)
  BY <1>1, StackSteps DEF Under, Below
<1>6. \A k \in DOMAIN stack : FrameSound(stack[k], process_list, Born, expunged, Dumb)
  BY <1>a DEF FramesSound
<1>7. \A k \in 1 .. Under : stack[k].f = "clean" /\ Top.f = "clean" /\ Top.p # 0 => stack[k].p # Top.p
  BY <1>a, <1>3 DEF FramesSound, Top
<1>8. DoRuns(stack) => /\ DoSound(stack[1], turn, process_list)
                       /\ stack[1].p # 0 /\ stack[1].p \notin Dumb
  <2> SUFFICES ASSUME DoRuns(stack)
               PROVE  /\ DoSound(stack[1], turn, process_list)
                      /\ stack[1].p # 0 /\ stack[1].p \notin Dumb
    OBVIOUS
  <2>1. Len(stack) # 1  BY <1>1 DEF DoRuns, Top
  <2>2. Len(stack) > 1  BY <1>2, <2>1
  <2> QED  BY <1>a, <2>2 DEF FramesSound
<1>9. FrameSound(Top, process_list, Born, expunged, Dumb)  BY <1>3, <1>6 DEF Top
<1>10. \A x, y \in FrameRecord : Steps(stack, Under, Below, x, y)  BY <1>5
<1> QED  BY <1>1, <1>3, <1>4, <1>6, <1>7, <1>8, <1>9, <1>10

\* It goes on, calls or returns.
LEMMA UpperGoes ==
    ASSUME ExecInv, NEW f \in {"clean", "hook"}, Runs(f), turn' = turn,
           NEW y \in FrameRecord, NEW z, z = Clean \/ z = Hook, y.f # "do",
           FrameSound(y, process_list', Born', expunged', Dumb'),
           y.f = "clean" /\ y.p # 0 => \A l \in 1 .. Under : stack[l].f = "clean" => stack[l].p # y.p,
           NEW u, u = <<>> \/ u = <<y>> \/ u = <<y, z>> \/ u = <<z>>, stack' = Onto(stack, Under, u),
           \A k \in 1 .. Under : FrameSound(stack[k], process_list', Born', expunged', Dumb'),
           DoRuns(stack) => DoSound(stack[1], turn, process_list') /\ stack[1].p \notin Dumb',
           NEW E,
           \A x \in FrameRecord : AwaitedBy(x, process_list') \subseteq AwaitedBy(x, process_list) \cup E
    PROVE  /\ FramesSound(stack', turn', process_list', Born', expunged', Dumb')
           /\ Awaited(turn', stack', process_list') \subseteq Awaited(turn, stack, process_list) \cup E
<1>1. /\ stack \in Seq(FrameRecord) /\ Under \in 0 .. Len(stack)
      /\ DoRuns(stack) => stack[1].p # 0
  BY UpperTop
<1>2. FramesSound(stack, turn, process_list, Born, expunged, Dumb)  BY DEF ExecInv
<1>3. Under > 0 /\ DoRuns(stack) =>
         DoSound(stack[1], turn, process_list') /\ stack[1].p # 0 /\ stack[1].p \notin Dumb'
  BY <1>1
<1>4. FramesSound(Onto(stack, Under, u), turn, process_list', Born', expunged', Dumb')
  BY <1>1, <1>2, <1>3, UpperFrames
<1>5. z \in FrameRecord /\ z.f \in {"clean", "hook"}  BY FrameFacts
<1>6. u \in Seq(FrameRecord) /\ \A k \in 1 .. Len(u) : u[k].f # "do"
  <2>1. CASE u = <<>>  BY <2>1
  <2>2. CASE u = <<y>>  BY <2>2
  <2>3. CASE u = <<z>>  BY <1>5, <2>3
  <2>4. CASE u = <<y, z>>
    <3>1. /\ <<y, z>> \in Seq(FrameRecord) /\ Len(<<y, z>>) = 2
          /\ <<y, z>>[1] = y /\ <<y, z>>[2] = z
      BY <1>5
    <3> QED  BY <1>5, <2>4, <3>1
  <2> QED  BY <2>1, <2>2, <2>3, <2>4
<1>7. Awaited(turn, Onto(stack, Under, u), process_list')
        \subseteq Awaited(turn, stack, process_list) \cup E
  BY <1>1, <1>6, AwaitedKept
<1> QED  BY <1>4, <1>7

\* What remains of a hook after a command, and the call of cleanup_dead_processes().
LEMMA RestFacts ==
    ASSUME ExecInv, Runs("hook")
    PROVE  \E h \in FrameRecord :
              /\ h.f = "hook" /\ h.p = 0
              /\ Rest \in {Onto(stack, Under, <<>>), Onto(stack, Under, <<h>>)}
              /\ Append(Rest, Clean) \in {Onto(stack, Under, <<Clean>>), Onto(stack, Under, <<h, Clean>>)}
<1>1. /\ Top \in FrameRecord /\ Top.f = "hook"
      /\ FrameSound(Top, process_list, Born, expunged, Dumb)
      /\ \A x, y \in FrameRecord : Steps(stack, Under, Below, x, y)
  BY UpperTop
<1>2. Clean \in FrameRecord  BY FrameFacts
<1> DEFINE h == [Top EXCEPT !.left = @ - 1]
<1>3. h \in FrameRecord /\ h.f = "hook" /\ h.p = 0
  <2>1. Top.p = 0 /\ Top.left \in Int  BY <1>1 DEF FrameSound, FrameRecord
  <2>2. Top.left - 1 \in Int  BY <2>1
  <2> QED  BY <1>1, <2>1, <2>2 DEF FrameRecord
<1>4. Rest = Below \/ Rest = Append(Below, h)  BY DEF Rest
<1> HIDE DEF h
<1>5. Steps(stack, Under, Below, h, Clean) /\ Steps(stack, Under, Below, Clean, Clean)
  BY <1>1, <1>2, <1>3
<1>6. \/ Rest = Onto(stack, Under, <<>>) /\ Append(Rest, Clean) = Onto(stack, Under, <<Clean>>)
      \/ Rest = Onto(stack, Under, <<h>>) /\ Append(Rest, Clean) = Onto(stack, Under, <<h, Clean>>)
  BY <1>4, <1>5 DEF Steps
<1> QED  BY <1>3, <1>6

\* A list that loses entries: nothing more is awaited.
LEMMA WithinAwaited ==
    ASSUME NEW list, NEW list2 \in Seq({0} \cup Procs), Within(list2, list)
    PROVE  \A x \in FrameRecord : AwaitedBy(x, list2) \subseteq AwaitedBy(x, list) \cup {}
<1> SUFFICES ASSUME NEW x \in FrameRecord PROVE AwaitedBy(x, list2) \subseteq AwaitedBy(x, list)
  OBVIOUS
<1>1. DOMAIN list2 \subseteq Int  BY LenProperties
<1> QED  BY <1>1, FewerAwaited

\* A hook ends, or what a command of it changes suits the other frames.
LEMMA HookGoes ==
    ASSUME ExecInv, Runs("hook"), turn' = turn,
           stack' \in {Below, Rest, Append(Rest, Clean)},
           \A k \in 1 .. Under : FrameSound(stack[k], process_list', Born', expunged', Dumb'),
           DoRuns(stack) => DoSound(stack[1], turn, process_list') /\ stack[1].p \notin Dumb',
           NEW E,
           \A x \in FrameRecord : AwaitedBy(x, process_list') \subseteq AwaitedBy(x, process_list) \cup E
    PROVE  /\ FramesSound(stack', turn', process_list', Born', expunged', Dumb')
           /\ Awaited(turn', stack', process_list') \subseteq Awaited(turn, stack, process_list) \cup E
<1>1. PICK h \in FrameRecord :
         /\ h.f = "hook" /\ h.p = 0
         /\ Rest \in {Onto(stack, Under, <<>>), Onto(stack, Under, <<h>>)}
         /\ Append(Rest, Clean) \in {Onto(stack, Under, <<Clean>>), Onto(stack, Under, <<h, Clean>>)}
  BY RestFacts
<1>2. Below = Onto(stack, Under, <<>>)
  <2>1. \A x, y \in FrameRecord : Steps(stack, Under, Below, x, y)  BY UpperTop
  <2> QED  BY <1>1, <2>1 DEF Steps
<1>3. PICK u : /\ u = <<>> \/ u = <<h>> \/ u = <<h, Clean>> \/ u = <<Clean>>
               /\ stack' = Onto(stack, Under, u)
  BY <1>1, <1>2
<1>4. FrameSound(h, process_list', Born', expunged', Dumb')  BY <1>1 DEF FrameSound
<1> QED  BY <1>1, <1>3, <1>4, UpperGoes

LEMMA HookKeeps == ExecInv /\ (HookEnds \/ Redirect) => ExecInv'
<1> SUFFICES ASSUME ExecInv, HookEnds \/ Redirect PROVE ExecInv'  OBVIOUS
<1>a. /\ ExecTyped /\ ListSound(process_list, Born, expunged) /\ FdsSound(Fd, Born, Dumb, rd)
      /\ ReadySound(Fd, rd, Awaited(turn, stack, process_list), forgotten, Left, Holding)
      /\ OutputSound(Fd, Born, forgotten, Late, Even, Holding)
      /\ turn = "select" => rd = {}
  BY DEF ExecInv
<1>b. /\ Runs("hook") /\ stack' \in {Below, Rest, Append(Rest, Clean)}
      /\ UNCHANGED <<table, outside, buffers, rd, turn>>
  BY DEF HookEnds, Redirect, Returned
<1>c. /\ Fd' = Fd /\ Dumb' = Dumb /\ Born' = Born /\ Holding' = Holding
      /\ Left' = Left /\ Late' = Late /\ Even' = Even
  BY <1>b DEF Fd, Dumb, Born, Left, Late, Even, Holding, table, outside,
                  buffers
<1>d. process_list' = process_list /\ expunged' = expunged /\ turn' = turn
  BY <1>b DEF table
<1>1. \A k \in 1 .. Under : FrameSound(stack[k], process_list', Born', expunged', Dumb')
  <2>1. \A k \in 1 .. Under : FrameSound(stack[k], process_list, Born, expunged, Dumb)
    BY <1>b, UpperTop
  <2> QED  BY <1>c, <1>d, <2>1
<1>2. DoRuns(stack) => DoSound(stack[1], turn, process_list') /\ stack[1].p \notin Dumb'
  <2>1. DoRuns(stack) => DoSound(stack[1], turn, process_list) /\ stack[1].p \notin Dumb
    BY <1>b, UpperTop
  <2> QED  BY <1>c, <1>d, <2>1
<1>3. \A x \in FrameRecord : AwaitedBy(x, process_list') \subseteq AwaitedBy(x, process_list) \cup {}
  BY <1>d
<1>4. /\ FramesSound(stack', turn', process_list', Born', expunged', Dumb')
      /\ Awaited(turn', stack', process_list') \subseteq Awaited(turn, stack, process_list) \cup {}
  BY <1>b, <1>1, <1>2, <1>3, HookGoes
<1>5. ReadySound(Fd', rd', Awaited(turn', stack', process_list'), forgotten', Left', Holding')
  BY <1>a, <1>b, <1>c, <1>4 DEF ReadySound, table
<1>6. ExecTyped'  BY <1>a, <1>b DEF ExecTyped, table, outside, buffers
<1> QED  BY <1>a, <1>b, <1>c, <1>4, <1>5, <1>6 DEF ExecInv, table

LEMMA CloseProcessKeeps ==
    ASSUME HooksClose = FALSE, NEW p \in Procs
    PROVE  ExecInv /\ CloseProcess(p) => ExecInv'
<1> SUFFICES ASSUME ExecInv, CloseProcess(p) PROVE ExecInv'  OBVIOUS
<1>a. /\ ExecTyped /\ ListSound(process_list, Born, expunged) /\ FdsSound(Fd, Born, Dumb, rd)
      /\ ReadySound(Fd, rd, Awaited(turn, stack, process_list), forgotten, Left, Holding)
      /\ turn = "select" => rd = {}
  BY DEF ExecInv
<1>b. /\ Runs("hook") /\ HasSlot(p) /\ stack' = Rest /\ Ignore(p)
      /\ \A k \in DOMAIN stack : stack[k].f # "do"
      /\ UNCHANGED <<process_list, expunged, world, unread, owed, rd, turn>>
  BY DEF CloseProcess, outside
<1>1. p \in Born
  <2>1. p # 0  BY ExecAssumption DEF Procs
  <2> QED  BY <1>a, <1>b, <2>1 DEF HasSlot, ListSound, Entries
<1>2. /\ proc' \in [Procs -> ProcessRecord] /\ Dumb' = Dumb \cup {p}
      /\ Born' = Born /\ Holding' = Holding /\ SamePipes
      /\ \A x \in Outputs : Fd'[x] = Fd[x] \/ Fd'[x] = 0
      /\ FdsSound(Fd', Born', Dumb', rd')
      /\ OutputSound(Fd', Born', forgotten', Late', Even', Holding')
  <2>1. UNCHANGED <<world, unread, owed, rd>>  BY <1>b
  <2> QED  BY <1>1, <1>b, <2>1, IgnoreKeeps
<1>3. \A k \in 1 .. Under : FrameSound(stack[k], process_list', Born', expunged', Dumb')
  <2> SUFFICES ASSUME NEW k \in 1 .. Under
               PROVE  FrameSound(stack[k], process_list', Born', expunged', Dumb')
    OBVIOUS
  <2>1. FrameSound(stack[k], process_list, Born, expunged, Dumb)  BY <1>b, UpperTop
  <2>2. Born \subseteq Born' /\ Dumb \subseteq Dumb'  BY <1>2
  <2>3. process_list' = process_list /\ expunged' = expunged  BY <1>b
  <2>4. stack[k].p \in Born \ (Entries(process_list) \cup expunged)
            => stack[k].p \notin Entries(process_list') \cup expunged'
    BY <2>3
  <2> QED  BY <2>1, <2>2, <2>4, FrameKept
<1>4. ~ DoRuns(stack)
  <2>1. stack \in Seq(FrameRecord)  BY <1>b, UpperTop
  <2>2. stack # <<>> => 1 \in DOMAIN stack
    <3>1. Len(stack) \in Nat /\ DOMAIN stack = 1 .. Len(stack)  BY <2>1, LenProperties
    <3>2. stack # <<>> => Len(stack) # 0  BY <2>1, EmptySeq
    <3> QED  BY <3>1, <3>2
  <2> QED  BY <1>b, <2>2 DEF DoRuns
<1>5. \A x \in FrameRecord : AwaitedBy(x, process_list') \subseteq AwaitedBy(x, process_list) \cup {}
  BY <1>b
<1>6. /\ FramesSound(stack', turn', process_list', Born', expunged', Dumb')
      /\ Awaited(turn', stack', process_list') \subseteq Awaited(turn, stack, process_list) \cup {}
  BY <1>b, <1>3, <1>4, <1>5, HookGoes
<1>7. 0 \notin rd
  <2>1. 0 \notin Fds  BY ExecAssumption DEF Fds
  <2> QED  BY <1>a, <2>1 DEF FdsSound
<1>8. ReadySound(Fd', rd', Awaited(turn', stack', process_list'), forgotten', Left', Holding')
  <2>1. \A x \in Awaited(turn', stack', process_list') : x \in Outputs
    BY DEF Awaited, AwaitedBy
  <2> QED  BY <1>a, <1>b, <1>2, <1>6, <1>7, <2>1 DEF ReadySound, SamePipes
<1>9. ExecTyped'  BY <1>a, <1>b, <1>2 DEF ExecTyped, SamePipes
<1> QED  BY <1>a, <1>b, <1>2, <1>6, <1>8, <1>9 DEF ExecInv

\* A process that is started: its structure, its outputs and itself.
LEMMA NewProcess ==
    ASSUME ExecInv, NEW p \in Procs, StartProcess(p)
    PROVE  /\ p \notin Born /\ Born' = Born \cup {p} /\ Holding' = Holding \cup {p}
           /\ Dumb' = Dumb /\ Left' = Left /\ Late' = Late /\ Even' = Even
           /\ \A x \in Outputs : x[1] # p => Fd'[x] = Fd[x]
           /\ \A x \in Outputs : x[1] = p => Fd'[x] # 0
           /\ ExecTyped' /\ FdsSound(Fd', Born', Dumb', rd')
<1>a. ExecTyped /\ FdsSound(Fd, Born, Dumb, rd)  BY DEF ExecInv
<1>b. /\ world[p].is = "unborn"
      /\ proc' = [proc EXCEPT ![p].stdout = Lowest, ![p].stderr = Next2]
      /\ world' = [world EXCEPT ![p] = [is |-> "alive", holds |-> TRUE]]
      /\ UNCHANGED <<unread, io, owed, rd, turn>>
  BY DEF StartProcess, Started, buffers
<1>1. p \notin Born  BY <1>b DEF Born
<1>2. /\ Lowest \in Fds /\ Next2 \in Fds /\ Lowest # Next2
      /\ \A x \in Outputs : Fd[x] # Lowest /\ Fd[x] # Next2
  BY <1>a, <1>1, FreeDescriptors
<1> DEFINE first == Lowest
           second == Next2
           r == [proc[p] EXCEPT !.stdout = first, !.stderr = second]
<1> HIDE DEF first, second
<1>3. proc \in [Procs -> ProcessRecord] /\ world \in [Procs -> Outside]  BY <1>a DEF ExecTyped
<1>4. /\ proc' = [proc EXCEPT ![p] = r] /\ r \in ProcessRecord /\ r.dumb = proc[p].dumb
      /\ r.stdout = first /\ r.stderr = second
  <2>1. first \in Fds /\ second \in Fds  BY <1>2 DEF first, second
  <2>2. proc' = [proc EXCEPT ![p].stdout = first, ![p].stderr = second]
    BY <1>b DEF first, second
  <2>3. proc' = [proc EXCEPT ![p] = r]  BY <1>3, <2>2
  <2>4. r \in ProcessRecord /\ r.dumb = proc[p].dumb /\ r.stdout = first /\ r.stderr = second
    BY <1>3, <2>1 DEF ProcessRecord
  <2> QED  BY <2>3, <2>4
<1> HIDE DEF r
<1>5. /\ proc' \in [Procs -> ProcessRecord] /\ proc'[p] = r
      /\ \A q \in Procs : q # p => proc'[q] = proc[q]
  BY <1>3, <1>4
<1>6. Dumb' = Dumb  BY <1>3, <1>4, <1>5 DEF Dumb
<1>7. /\ world' \in [Procs -> Outside] /\ world'[p].is = "alive" /\ world'[p].holds
      /\ \A q \in Procs : q # p => world'[q] = world[q]
  BY <1>b, <1>3 DEF Outside
<1>8. Born' = Born \cup {p} /\ Holding' = Holding \cup {p}  BY <1>7 DEF Born, Holding
<1>9. Left' = Left /\ Late' = Late /\ Even' = Even  BY <1>b DEF Left, Late, Even
<1>10. ExecTyped'  BY <1>a, <1>b, <1>5, <1>7 DEF ExecTyped
<1>11. \A x \in Outputs : x[1] # p => Fd'[x] = Fd[x]  BY <1>5 DEF Fd, Outputs
<1>12. /\ \A x \in Outputs : x[1] = p => Fd'[x] = IF x[2] = "stdout" THEN first ELSE second
  BY <1>4, <1>5 DEF Fd, Outputs, Streams
<1>13. \A x \in Outputs : x[1] = p => Fd'[x] # 0
  <2>1. 0 \notin Fds  BY ExecAssumption DEF Fds
  <2> QED  BY <1>2, <1>12, <2>1 DEF first, second
<1>14. FdsSound(Fd', Born', Dumb', rd')
  <2>1. Fd' \in [Outputs -> Fds \cup {0}]
    <3>1. \A x \in Outputs : proc'[x[1]][x[2]] \in Fds \cup {0}
      BY <1>5 DEF Outputs, ProcessRecord, Streams
    <3> QED  BY <3>1 DEF Fd
  <2>2. ASSUME NEW x \in Outputs, NEW y \in Outputs, Fd'[x] = Fd'[y], Fd'[x] # 0
        PROVE  x = y
    <3>1. CASE x[1] # p /\ y[1] # p  BY <1>a, <1>11, <2>2, <3>1 DEF FdsSound
    <3>2. CASE x[1] = p /\ y[1] # p  BY <1>2, <1>11, <1>12, <2>2, <3>2 DEF first, second
    <3>3. CASE x[1] # p /\ y[1] = p  BY <1>2, <1>11, <1>12, <2>2, <3>3 DEF first, second
    <3>4. CASE x[1] = p /\ y[1] = p
      <4>1. first # second  BY <1>2 DEF first, second
      <4>2. x[2] = "stdout" <=> y[2] = "stdout"  BY <1>12, <2>2, <3>4, <4>1
      <4> QED  BY <3>4, <4>2 DEF Outputs, Streams
    <3> QED  BY <3>1, <3>2, <3>3, <3>4
  <2>3. \A x \in Outputs : x[1] \notin Born' \/ x[1] \in Dumb' => Fd'[x] = 0
    BY <1>a, <1>1, <1>6, <1>8, <1>11 DEF FdsSound
  <2>4. Dumb' \subseteq Born' /\ rd' \subseteq Fds  BY <1>a, <1>b, <1>6, <1>8 DEF FdsSound
  <2> QED  BY <2>1, <2>2, <2>3, <2>4 DEF FdsSound
<1> QED  BY <1>1, <1>6, <1>8, <1>9, <1>10, <1>11, <1>13, <1>14

LEMMA StartProcessKeeps ==
    ASSUME NEW p \in Procs
    PROVE  ExecInv /\ StartProcess(p) => ExecInv'
<1> SUFFICES ASSUME ExecInv, StartProcess(p) PROVE ExecInv'  OBVIOUS
<1>a. /\ ListSound(process_list, Born, expunged)
      /\ ReadySound(Fd, rd, Awaited(turn, stack, process_list), forgotten, Left, Holding)
      /\ OutputSound(Fd, Born, forgotten, Late, Even, Holding)
      /\ turn = "select" => rd = {}
  BY DEF ExecInv
<1>b. /\ Runs("hook") /\ stack' = Append(Rest, Clean) /\ process_list' = Place(p)
      /\ forgotten' = forgotten \cup {x \in {p} \X Streams : proc'[p][x[2]] \in rd}
      /\ UNCHANGED <<expunged, unread, rd, turn>>
  BY DEF StartProcess
<1>1. /\ p \notin Born /\ Born' = Born \cup {p} /\ Holding' = Holding \cup {p}
      /\ Dumb' = Dumb /\ Left' = Left /\ Late' = Late /\ Even' = Even
      /\ \A x \in Outputs : x[1] # p => Fd'[x] = Fd[x]
      /\ \A x \in Outputs : x[1] = p => Fd'[x] # 0
      /\ ExecTyped' /\ FdsSound(Fd', Born', Dumb', rd')
  BY NewProcess
<1>2. \/ process_list' = Append(process_list, p)
      \/ \E i \in DOMAIN process_list :
            process_list[i] = 0 /\ process_list' = [process_list EXCEPT ![i] = p]
  <2>1. CASE Empty = {}  BY <1>b, <2>1 DEF Place
  <2>2. CASE Empty # {}
    <3>1. Empty \in SUBSET Nat
      <4>1. process_list \in Seq({0} \cup Procs)  BY <1>a DEF ListSound
      <4>2. DOMAIN process_list = 1 .. Len(process_list) /\ Len(process_list) \in Nat
        BY <4>1, LenProperties
      <4> QED  BY <4>2 DEF Empty
    <3>2. Min(Empty) \in Empty  BY <2>2, <3>1, LeastMember
    <3>3. process_list' = [process_list EXCEPT ![Min(Empty)] = p]  BY <1>b, <2>2 DEF Place
    <3> QED  BY <3>2, <3>3 DEF Empty
  <2> QED  BY <2>1, <2>2
<1>3. /\ ListSound(process_list', Born \cup {p}, expunged)
      /\ Entries(process_list') \subseteq Entries(process_list) \cup {p}
      /\ \A j \in DOMAIN process_list : process_list[j] # 0 =>
            j \in DOMAIN process_list' /\ process_list'[j] = process_list[j]
      /\ \A j \in DOMAIN process_list' :
            process_list'[j] = p \/ (j \in DOMAIN process_list /\ process_list'[j] = process_list[j])
  BY <1>a, <1>1, <1>2, EntryAdded
<1>4. \A k \in 1 .. Under : FrameSound(stack[k], process_list', Born', expunged', Dumb')
  <2> SUFFICES ASSUME NEW k \in 1 .. Under
               PROVE  FrameSound(stack[k], process_list', Born', expunged', Dumb')
    OBVIOUS
  <2>1. FrameSound(stack[k], process_list, Born, expunged, Dumb)  BY <1>b, UpperTop
  <2>2. Born \subseteq Born' /\ Dumb \subseteq Dumb'  BY <1>1
  <2>3. stack[k].p \in Born \ (Entries(process_list) \cup expunged)
            => stack[k].p \notin Entries(process_list') \cup expunged'
    BY <1>b, <1>1, <1>3
  <2> QED  BY <2>1, <2>2, <2>3, FrameKept
<1>5. DoRuns(stack) => DoSound(stack[1], turn, process_list') /\ stack[1].p \notin Dumb'
  <2>1. DoRuns(stack) => /\ DoSound(stack[1], turn, process_list)
                         /\ stack[1].p # 0 /\ stack[1].p \notin Dumb
    BY <1>b, UpperTop
  <2> QED  BY <1>1, <1>3, <2>1 DEF DoSound
<1> DEFINE E == {x \in Outputs : x[1] = p}
<1>6. \A x \in FrameRecord : AwaitedBy(x, process_list') \subseteq AwaitedBy(x, process_list) \cup E
  BY <1>3 DEF AwaitedBy
<1> HIDE DEF E
<1>7. /\ FramesSound(stack', turn', process_list', Born', expunged', Dumb')
      /\ Awaited(turn', stack', process_list') \subseteq Awaited(turn, stack, process_list) \cup E
  BY <1>b, <1>4, <1>5, <1>6, HookGoes
<1>8. ReadySound(Fd', rd', Awaited(turn', stack', process_list'), forgotten', Left', Holding')
  <2> SUFFICES ASSUME NEW x \in Awaited(turn', stack', process_list') \ forgotten', Fd'[x] \in rd
               PROVE  x \in Left \/ x[1] \notin Holding \cup {p}
    BY <1>b, <1>1 DEF ReadySound
  <2>1. x \in Outputs /\ x = <<x[1], x[2]>> /\ x[2] \in Streams
    BY DEF Awaited, AwaitedBy, Outputs
  <2>2. x[1] # p
    <3> SUFFICES ASSUME x[1] = p PROVE FALSE  OBVIOUS
    <3>1. x \in {p} \X Streams  BY <2>1
    <3>2. Fd'[x] = proc'[p][x[2]]  BY <2>1 DEF Fd
    <3> QED  BY <1>b, <3>1, <3>2
  <2>3. x \in Awaited(turn, stack, process_list)  BY <1>7, <2>2 DEF E
  <2>4. x \notin forgotten  BY <1>b
  <2> QED  BY <1>a, <1>1, <2>1, <2>2, <2>3, <2>4 DEF ReadySound
<1>9. OutputSound(Fd', Born', forgotten', Late', Even', Holding')
  <2>1. \A x \in Outputs \ forgotten' : x \notin forgotten  BY <1>b
  <2> QED  BY <1>a, <1>1, <2>1 DEF OutputSound
<1>10. ListSound(process_list', Born', expunged') /\ (turn' = "select" => rd' = {})
  BY <1>a, <1>b, <1>1, <1>3
<1> QED  BY <1>1, <1>7, <1>8, <1>9, <1>10 DEF ExecInv

\* cleanup_dead_processes() goes on, calls a hook or returns.
LEMMA CleanGoes ==
    ASSUME ExecInv, Runs("clean"), turn' = turn,
           NEW y \in FrameRecord, y.f = "clean",
           FrameSound(y, process_list', Born', expunged', Dumb'),
           y.p # 0 => \A l \in 1 .. Under : stack[l].f = "clean" => stack[l].p # y.p,
           stack' \in {Below, Append(Below, y), Below \o <<y, Hook>>},
           \A k \in 1 .. Under : FrameSound(stack[k], process_list', Born', expunged', Dumb'),
           DoRuns(stack) => DoSound(stack[1], turn, process_list') /\ stack[1].p \notin Dumb',
           process_list' \in Seq({0} \cup Procs), Within(process_list', process_list)
    PROVE  /\ FramesSound(stack', turn', process_list', Born', expunged', Dumb')
           /\ Awaited(turn', stack', process_list') \subseteq Awaited(turn, stack, process_list) \cup {}
<1>1. Hook \in FrameRecord /\ \A x, z \in FrameRecord : Steps(stack, Under, Below, x, z)
  BY UpperTop, FrameFacts
<1>2. Steps(stack, Under, Below, y, Hook)  BY <1>1
<1>3. PICK u : /\ u = <<>> \/ u = <<y>> \/ u = <<y, Hook>> \/ u = <<Hook>>
               /\ stack' = Onto(stack, Under, u)
  BY <1>2 DEF Steps
<1>4. \A x \in FrameRecord : AwaitedBy(x, process_list') \subseteq AwaitedBy(x, process_list) \cup {}
  <2> DEFINE list == process_list
             list2 == process_list'
  <2>1. list2 \in Seq({0} \cup Procs) /\ Within(list2, list)  OBVIOUS
  <2> HIDE DEF list, list2
  <2>2. \A x \in FrameRecord : AwaitedBy(x, list2) \subseteq AwaitedBy(x, list) \cup {}
    BY <2>1, WithinAwaited
  <2> QED  BY <2>2 DEF list, list2
<1>5. y.f # "do"  OBVIOUS
<1> QED  BY <1>3, <1>4, <1>5, UpperGoes

LEMMA ExpungeKeeps == ExecInv /\ Expunge => ExecInv'
<1> SUFFICES ASSUME ExecInv, Expunge PROVE ExecInv'  OBVIOUS
<1>a. /\ ExecTyped /\ ListSound(process_list, Born, expunged) /\ FdsSound(Fd, Born, Dumb, rd)
      /\ ReadySound(Fd, rd, Awaited(turn, stack, process_list), forgotten, Left, Holding)
      /\ OutputSound(Fd, Born, forgotten, Late, Even, Holding)
      /\ turn = "select" => rd = {}
  BY DEF ExecInv
<1> DEFINE p == Top.p
           y == [Top EXCEPT !.i = @ + 1, !.p = 0, !.step = "load"]
<1>b. /\ Runs("clean") /\ Top.step = "ends"
      /\ expunged' = expunged \cup {p}
      /\ proc' = [proc EXCEPT ![p].stdout = 0, ![p].stderr = 0]
      /\ io' = [x \in Outputs |-> IF x[1] = p THEN NoBuffer ELSE io[x]]
      /\ stack' = Append(Below, y)
      /\ UNCHANGED <<process_list, forgotten, world, unread, owed, rd, turn>>
  BY DEF Expunge, AtStep, Continue, outside
<1>1. /\ Top \in FrameRecord /\ Top.f = "clean"
      /\ FrameSound(Top, process_list, Born, expunged, Dumb)
      /\ \A k \in 1 .. Under :
            /\ FrameSound(stack[k], process_list, Born, expunged, Dumb)
            /\ stack[k].f = "clean" /\ Top.p # 0 => stack[k].p # Top.p
      /\ DoRuns(stack) => DoSound(stack[1], turn, process_list) /\ stack[1].p \notin Dumb
  BY <1>b, UpperTop
<1>2. /\ p # 0 /\ p \in Procs /\ p \in Born /\ p \in Dumb
      /\ p \notin Entries(process_list) /\ p \notin expunged
  <2>1. CleanSound(Top, Entries(process_list), Born, expunged, Dumb)  BY <1>1 DEF FrameSound
  <2>2. p # 0  BY <1>b, <2>1 DEF CleanSound
  <2> QED  BY <1>1, <2>1, <2>2 DEF CleanSound, FrameRecord
<1>3. y \in FrameRecord /\ y.f = "clean" /\ y.p = 0 /\ y.step = "load"
  <2>1. Top.i \in Nat /\ Top.i + 1 \in Nat \ {0}  BY <1>1 DEF FrameRecord
  <2> QED  BY <1>1, <2>1 DEF FrameRecord
<1> HIDE DEF p, y
<1>4. /\ proc' \in [Procs -> ProcessRecord] /\ Dumb' = Dumb /\ Fd' = Fd
  <2>1. proc \in [Procs -> ProcessRecord]  BY <1>a DEF ExecTyped
  <2> DEFINE r == [proc[p] EXCEPT !.stdout = 0, !.stderr = 0]
  <2>2. proc' = [proc EXCEPT ![p] = r]  BY <1>b, <1>2, <2>1
  <2>3. r \in ProcessRecord /\ r.dumb = proc[p].dumb /\ \A s \in Streams : r[s] = 0
    BY <1>2, <2>1 DEF ProcessRecord, Streams
  <2>4. \A s \in Streams : proc[p][s] = 0
    <3> SUFFICES ASSUME NEW s \in Streams PROVE proc[p][s] = 0  OBVIOUS
    <3>1. <<p, s>> \in Outputs /\ Fd[<<p, s>>] = proc[p][s]  BY <1>2 DEF Outputs, Fd
    <3> QED  BY <1>a, <1>2, <3>1 DEF FdsSound
  <2> HIDE DEF r
  <2>5. proc' \in [Procs -> ProcessRecord]  BY <1>2, <2>1, <2>2, <2>3
  <2>6. \A q \in Procs : proc'[q].dumb = proc[q].dumb /\ \A s \in Streams : proc'[q][s] = proc[q][s]
    BY <1>2, <2>1, <2>2, <2>3, <2>4
  <2> QED  BY <2>5, <2>6 DEF Dumb, Fd, Outputs
<1>5. /\ Born' = Born /\ Late' = Late /\ Holding' = Holding
      /\ unread' \in [Outputs -> Pipe] /\ io' \in [Outputs -> Buffer]
      /\ \A x \in Outputs : x[1] # p =>
            (x \in Left' <=> x \in Left) /\ (x \in Even' <=> x \in Even)
  <2>1. NoBuffer \in Buffer  BY DEF NoBuffer, Buffer
  <2>2. unread' \in [Outputs -> Pipe] /\ io' \in [Outputs -> Buffer]
    BY <1>a, <1>b, <2>1 DEF ExecTyped
  <2>3. \A x \in Outputs : x[1] # p => io'[x] = io[x]  BY <1>b
  <2> QED  BY <1>b, <2>2, <2>3 DEF Born, Late, Holding, Left, Even
<1>6. \A k \in 1 .. Under : FrameSound(stack[k], process_list', Born', expunged', Dumb')
  <2> SUFFICES ASSUME NEW k \in 1 .. Under
               PROVE  FrameSound(stack[k], process_list', Born', expunged', Dumb')
    OBVIOUS
  <2>1. /\ FrameSound(stack[k], process_list, Born, expunged, Dumb)
        /\ stack[k].f = "clean" => stack[k].p # p
    BY <1>1, <1>2 DEF p
  <2>2. Born \subseteq Born' /\ Dumb \subseteq Dumb'  BY <1>4, <1>5
  <2>3. process_list' = process_list  BY <1>b
  <2>4. stack[k].f = "clean" /\ stack[k].p \in Born \ (Entries(process_list) \cup expunged)
            => stack[k].p \notin Entries(process_list') \cup expunged'
    BY <1>b, <2>1, <2>3
  <2> QED  BY <2>1, <2>2, <2>4, FrameKept
<1>7. DoRuns(stack) => DoSound(stack[1], turn, process_list') /\ stack[1].p \notin Dumb'
  BY <1>b, <1>1, <1>4
<1>8. FrameSound(y, process_list', Born', expunged', Dumb')
  BY <1>3 DEF FrameSound, CleanSound
<1>9. process_list' \in Seq({0} \cup Procs) /\ Within(process_list', process_list)
  BY <1>a, <1>b DEF ListSound, Within
<1>10. /\ FramesSound(stack', turn', process_list', Born', expunged', Dumb')
       /\ Awaited(turn', stack', process_list') \subseteq Awaited(turn, stack, process_list) \cup {}
  BY <1>b, <1>3, <1>6, <1>7, <1>8, <1>9, CleanGoes
<1>11. ListSound(process_list', Born', expunged')
  BY <1>a, <1>b, <1>2, <1>5 DEF ListSound
<1>12. \A x \in Outputs : x[1] = p => Fd[x] = 0  BY <1>a, <1>2 DEF FdsSound
<1>13. ReadySound(Fd', rd', Awaited(turn', stack', process_list'), forgotten', Left', Holding')
  <2>1. 0 \notin rd
    <3>1. 0 \notin Fds  BY ExecAssumption DEF Fds
    <3> QED  BY <1>a, <3>1 DEF FdsSound
  <2>2. \A x \in Awaited(turn', stack', process_list') : x \in Outputs
    BY DEF Awaited, AwaitedBy
  <2> QED  BY <1>a, <1>b, <1>4, <1>5, <1>10, <1>12, <2>1, <2>2 DEF ReadySound
<1>14. OutputSound(Fd', Born', forgotten', Late', Even', Holding')
  BY <1>a, <1>b, <1>2, <1>4, <1>5, <1>12 DEF OutputSound
<1>15. ExecTyped'  BY <1>a, <1>b, <1>4, <1>5 DEF ExecTyped
<1> QED  BY <1>a, <1>b, <1>4, <1>5, <1>10, <1>11, <1>13, <1>15, <1>14 DEF ExecInv

LEMMA ScanKeeps == ExecInv /\ Scan => ExecInv'
<1> SUFFICES ASSUME ExecInv, Scan PROVE ExecInv'  OBVIOUS
<1>a. /\ ExecTyped /\ ListSound(process_list, Born, expunged) /\ FdsSound(Fd, Born, Dumb, rd)
      /\ ReadySound(Fd, rd, Awaited(turn, stack, process_list), forgotten, Left, Holding)
      /\ OutputSound(Fd, Born, forgotten, Late, Even, Holding)
      /\ turn = "select" => rd = {}
  BY DEF ExecInv
<1> DEFINE i == NextSlot(Top.i, DeadOnes)
           q == process_list[i]
           y == [Top EXCEPT !.step = "ends", !.i = i, !.p = q]
<1>b. /\ Runs("clean") /\ Top.step = "load" /\ i <= Len(process_list)
      /\ process_list' = [process_list EXCEPT ![i] = 0]
      /\ stack' = Below \o <<y, Hook>>
      /\ UNCHANGED <<proc, expunged, forgotten, world, unread, io, owed, rd, turn>>
  BY DEF Scan, AtStep, Call, outside, buffers
<1>c. /\ Fd' = Fd /\ Dumb' = Dumb /\ Born' = Born /\ Holding' = Holding
      /\ Left' = Left /\ Late' = Late /\ Even' = Even
  BY <1>b DEF Fd, Dumb, Born, Left, Late, Even, Holding
<1>1. /\ Top \in FrameRecord /\ Top.f = "clean"
      /\ \A k \in 1 .. Under : FrameSound(stack[k], process_list, Born, expunged, Dumb)
      /\ DoRuns(stack) => /\ DoSound(stack[1], turn, process_list)
                          /\ stack[1].p # 0 /\ stack[1].p \notin Dumb
  BY <1>b, UpperTop
<1>2. process_list \in Seq({0} \cup Procs) /\ Len(process_list) \in Nat
      /\ DOMAIN process_list = 1 .. Len(process_list)
  BY <1>a, LenProperties DEF ListSound
<1>3. Top.i \in Nat \ {0}  BY <1>1 DEF FrameRecord
<1>4. i \in Top.i .. Len(process_list) /\ q \in DeadOnes
  <2>1. i = Len(process_list) + 1
        \/ (i \in Top.i .. Len(process_list) /\ process_list[i] \in DeadOnes)
    BY <1>2, <1>3, SlotFound
  <2> HIDE DEF i
  <2>2. i # Len(process_list) + 1  BY <1>b, <1>2
  <2> QED  BY <2>1, <2>2
<1> HIDE DEF i
<1>5. i \in DOMAIN process_list /\ i \in Nat \ {0} /\ i \in 1 .. Len(process_list)
  BY <1>2, <1>3, <1>4
<1>6. /\ q \in Procs /\ q # 0 /\ q \in Dumb /\ q \in Entries(process_list)
      /\ q \in Born /\ q \notin expunged
  <2>1. q \in OnList /\ Dead(q)  BY <1>4 DEF DeadOnes
  <2>2. q # 0  BY <2>1 DEF OnList
  <2>3. q \in Procs  BY <1>2, <1>5, <2>2, ElementOfSeq
  <2>4. q \in Dumb  BY <2>1, <2>3 DEF Dead, Dumb
  <2>5. q \in Entries(process_list)  BY <1>5, <2>2 DEF Entries
  <2> QED  BY <1>a, <2>2, <2>3, <2>4, <2>5 DEF ListSound
<1>7. y \in FrameRecord /\ y.f = "clean" /\ y.p = q /\ y.step = "ends"
  BY <1>1, <1>5, <1>6 DEF FrameRecord
<1> HIDE DEF y
<1>8. /\ process_list' \in Seq({0} \cup Procs)
      /\ DOMAIN process_list' = DOMAIN process_list
      /\ \A j \in DOMAIN process_list : process_list'[j] = IF j = i THEN 0 ELSE process_list[j]
  <2> DEFINE S == {0} \cup Procs
             new == [process_list EXCEPT ![i] = 0]
  <2>1. 0 \in S /\ process_list \in Seq(S)  BY <1>2
  <2> HIDE DEF S
  <2>2. /\ new \in Seq(S) /\ Len(new) = Len(process_list)
        /\ \A j \in 1 .. Len(process_list) : new[j] = IF j = i THEN 0 ELSE process_list[j]
    BY <1>5, <2>1, ExceptSeq
  <2>3. DOMAIN new = 1 .. Len(process_list)  BY <2>2, LenProperties
  <2>4. process_list' = new  BY <1>b
  <2> HIDE DEF new
  <2> QED  BY <1>2, <2>2, <2>3, <2>4 DEF S
<1>9. Within(process_list', process_list)  BY <1>8 DEF Within
<1>10. /\ Entries(process_list') \subseteq Entries(process_list)
       /\ ListSound(process_list', Born, expunged)
  BY <1>a, <1>8, <1>9, ListWithin
<1>11. q \notin Entries(process_list')
  <2> SUFFICES ASSUME NEW j \in DOMAIN process_list, process_list'[j] = q PROVE FALSE
    BY <1>8 DEF Entries
  <2>1. j # i  BY <1>6, <1>8
  <2>2. process_list[j] = process_list[i]  BY <1>8, <2>1
  <2> QED  BY <1>a, <1>5, <1>6, <2>1, <2>2 DEF ListSound
<1>12. \A k \in 1 .. Under : FrameSound(stack[k], process_list', Born', expunged', Dumb')
  <2> SUFFICES ASSUME NEW k \in 1 .. Under
               PROVE  FrameSound(stack[k], process_list', Born', expunged', Dumb')
    OBVIOUS
  <2>1. FrameSound(stack[k], process_list, Born, expunged, Dumb)  BY <1>1
  <2>2. Born \subseteq Born' /\ Dumb \subseteq Dumb'  BY <1>c
  <2>3. stack[k].p \in Born \ (Entries(process_list) \cup expunged)
            => stack[k].p \notin Entries(process_list') \cup expunged'
    BY <1>b, <1>10
  <2> QED  BY <2>1, <2>2, <2>3, FrameKept
<1>13. DoRuns(stack) => DoSound(stack[1], turn, process_list') /\ stack[1].p \notin Dumb'
  <2> SUFFICES ASSUME DoRuns(stack)
               PROVE  DoSound(stack[1], turn, process_list') /\ stack[1].p \notin Dumb'
    OBVIOUS
  <2>1. /\ DoSound(stack[1], turn, process_list)
        /\ stack[1].p # 0 /\ stack[1].p \notin Dumb
    BY <1>1
  <2>2. stack[1].i \in DOMAIN process_list /\ process_list[stack[1].i] = stack[1].p
    BY <2>1 DEF DoSound
  <2>3. stack[1].i # i  BY <1>6, <2>1, <2>2
  <2> QED  BY <1>c, <1>8, <2>1, <2>2, <2>3 DEF DoSound
<1>14. FrameSound(y, process_list', Born', expunged', Dumb')
  <2>1. CleanSound(y, Entries(process_list'), Born', expunged', Dumb')
    BY <1>b, <1>c, <1>6, <1>7, <1>11 DEF CleanSound
  <2> QED  BY <1>7, <2>1 DEF FrameSound
<1>15. \A l \in 1 .. Under : stack[l].f = "clean" => stack[l].p # y.p
  BY <1>1, <1>6, <1>7 DEF FrameSound, CleanSound
<1>16. /\ FramesSound(stack', turn', process_list', Born', expunged', Dumb')
       /\ Awaited(turn', stack', process_list') \subseteq Awaited(turn, stack, process_list) \cup {}
  BY <1>b, <1>7, <1>8, <1>9, <1>12, <1>13, <1>14, <1>15, CleanGoes
<1>17. ReadySound(Fd', rd', Awaited(turn', stack', process_list'), forgotten', Left', Holding')
  BY <1>a, <1>b, <1>c, <1>16 DEF ReadySound
<1>18. ExecTyped'  BY <1>a, <1>b DEF ExecTyped
<1> QED  BY <1>a, <1>b, <1>c, <1>10, <1>16, <1>17, <1>18 DEF ExecInv

LEMMA ShrinkKeeps == ExecInv /\ Shrink => ExecInv'
<1> SUFFICES ASSUME ExecInv, Shrink PROVE ExecInv'  OBVIOUS
<1>a. /\ ExecTyped /\ ListSound(process_list, Born, expunged) /\ FdsSound(Fd, Born, Dumb, rd)
      /\ ReadySound(Fd, rd, Awaited(turn, stack, process_list), forgotten, Left, Holding)
      /\ OutputSound(Fd, Born, forgotten, Late, Even, Holding)
      /\ turn = "select" => rd = {}
  BY DEF ExecInv
<1>b. /\ Runs("clean") /\ process_list' = SubSeq(process_list, 1, Used) /\ stack' = Below
      /\ UNCHANGED <<proc, expunged, forgotten, world, unread, io, owed, rd, turn>>
  BY DEF Shrink, AtStep, Returned, outside, buffers
<1>c. /\ Fd' = Fd /\ Dumb' = Dumb /\ Born' = Born /\ Holding' = Holding
      /\ Left' = Left /\ Late' = Late /\ Even' = Even
  BY <1>b DEF Fd, Dumb, Born, Left, Late, Even, Holding
<1>1. /\ \A k \in 1 .. Under : FrameSound(stack[k], process_list, Born, expunged, Dumb)
      /\ DoRuns(stack) => /\ DoSound(stack[1], turn, process_list)
                          /\ stack[1].p # 0 /\ stack[1].p \notin Dumb
  BY <1>b, UpperTop
<1>2. process_list \in Seq({0} \cup Procs) /\ Len(process_list) \in Nat
      /\ DOMAIN process_list = 1 .. Len(process_list)
  BY <1>a, LenProperties DEF ListSound
<1>3. /\ Used \in 0 .. Len(process_list)
      /\ \A j \in DOMAIN process_list : process_list[j] # 0 => j <= Used
  <2> DEFINE T == {0} \cup {j \in DOMAIN process_list : process_list[j] # 0}
  <2>1. T \in SUBSET Nat /\ T # {} /\ \A x \in T : x <= Len(process_list)  BY <1>2
  <2>2. Used = Max(T)  BY DEF Used
  <2>3. Max(T) \in T /\ \A x \in T : Max(T) >= x
    <3> HIDE DEF T
    <3> QED  BY <1>2, <2>1, MaxProperties
  <2>4. Used \in Nat /\ Used <= Len(process_list)  BY <2>1, <2>2, <2>3
  <2>5. \A j \in DOMAIN process_list : process_list[j] # 0 => j <= Used
    <3> SUFFICES ASSUME NEW j \in DOMAIN process_list, process_list[j] # 0 PROVE j <= Used
      OBVIOUS
    <3>1. j \in T /\ j \in Nat  BY <1>2
    <3> QED  BY <2>2, <2>3, <2>4, <3>1
  <2> QED  BY <1>2, <2>4, <2>5
<1>4. /\ process_list' \in Seq({0} \cup Procs) /\ DOMAIN process_list' = 1 .. Used
      /\ \A j \in 1 .. Used : process_list'[j] = process_list[j]
  <2> DEFINE S == {0} \cup Procs
             new == SubSeq(process_list, 1, Used)
             n == Used
  <2>1. process_list \in Seq(S) /\ n \in 0 .. Len(process_list)  BY <1>2, <1>3
  <2> HIDE DEF S, n
  <2>2. 1 \in Int /\ n \in Int /\ \A j \in 1 .. n : process_list[j] \in S
    BY <1>2, <2>1, ElementOfSeq
  <2>3. SubSeq(process_list, 1, n) \in Seq(S)
        /\ Len(SubSeq(process_list, 1, n)) = (IF 1 <= n THEN n - 1 + 1 ELSE 0)
        /\ \A j \in 1 .. n - 1 + 1 : SubSeq(process_list, 1, n)[j] = process_list[1 + j - 1]
    BY <2>2, SubSeqProperties
  <2>4. new = SubSeq(process_list, 1, n)  BY DEF n
  <2> HIDE DEF new
  <2>5. new \in Seq(S) /\ Len(new) = n /\ \A j \in 1 .. n : new[j] = process_list[j]
    BY <1>2, <2>1, <2>3, <2>4
  <2>6. DOMAIN new = 1 .. n  BY <2>5, LenProperties
  <2>7. process_list' = new  BY <1>b DEF new
  <2> QED  BY <2>5, <2>6, <2>7 DEF S, n
<1>5. 1 .. Used \subseteq DOMAIN process_list  BY <1>2, <1>3
<1>6. Within(process_list', process_list)  BY <1>4, <1>5 DEF Within
<1>7. /\ Entries(process_list') \subseteq Entries(process_list)
      /\ ListSound(process_list', Born, expunged)
  BY <1>a, <1>4, <1>6, ListWithin
<1>8. \A k \in 1 .. Under : FrameSound(stack[k], process_list', Born', expunged', Dumb')
  <2> SUFFICES ASSUME NEW k \in 1 .. Under
               PROVE  FrameSound(stack[k], process_list', Born', expunged', Dumb')
    OBVIOUS
  <2>1. FrameSound(stack[k], process_list, Born, expunged, Dumb)  BY <1>1
  <2>2. Born \subseteq Born' /\ Dumb \subseteq Dumb'  BY <1>c
  <2>3. stack[k].p \in Born \ (Entries(process_list) \cup expunged)
            => stack[k].p \notin Entries(process_list') \cup expunged'
    BY <1>b, <1>7
  <2> QED  BY <2>1, <2>2, <2>3, FrameKept
<1>9. DoRuns(stack) => DoSound(stack[1], turn, process_list') /\ stack[1].p \notin Dumb'
  <2> SUFFICES ASSUME DoRuns(stack)
               PROVE  DoSound(stack[1], turn, process_list') /\ stack[1].p \notin Dumb'
    OBVIOUS
  <2>1. /\ DoSound(stack[1], turn, process_list)
        /\ stack[1].p # 0 /\ stack[1].p \notin Dumb
    BY <1>1
  <2>2. stack[1].i \in DOMAIN process_list /\ process_list[stack[1].i] = stack[1].p
    BY <2>1 DEF DoSound
  <2>3. stack[1].i \in 1 .. Used  BY <1>2, <1>3, <2>1, <2>2
  <2> QED  BY <1>c, <1>4, <2>1, <2>2, <2>3 DEF DoSound
<1>10. /\ Clean \in FrameRecord /\ Clean.f = "clean" /\ Clean.p = 0 /\ Clean.step = "load"
  BY FrameFacts
<1>11. FrameSound(Clean, process_list', Born', expunged', Dumb')
  BY <1>10 DEF FrameSound, CleanSound
<1>12. /\ FramesSound(stack', turn', process_list', Born', expunged', Dumb')
       /\ Awaited(turn', stack', process_list') \subseteq Awaited(turn, stack, process_list) \cup {}
  BY <1>b, <1>4, <1>6, <1>8, <1>9, <1>10, <1>11, CleanGoes
<1>13. ReadySound(Fd', rd', Awaited(turn', stack', process_list'), forgotten', Left', Holding')
  BY <1>a, <1>b, <1>c, <1>12 DEF ReadySound
<1>14. ExecTyped'  BY <1>a, <1>b DEF ExecTyped
<1> QED  BY <1>a, <1>b, <1>c, <1>7, <1>12, <1>13, <1>14 DEF ExecInv

LEMMA ExecInvNext ==
    ASSUME HooksClose = FALSE
    PROVE  ExecInv /\ [ExecNext]_execVars => ExecInv'
<1> SUFFICES ASSUME ExecInv, [ExecNext]_execVars PROVE ExecInv'  OBVIOUS
<1>1. CASE WorldSteps  BY <1>1, WorldKeeps
<1>2. CASE new_select \/ do_screens \/ do_processes \/ get_child_exit  BY <1>2, LoopKeeps
<1>3. CASE Load  BY <1>3, LoadKeeps
<1>4. CASE Limit  BY <1>4, LimitKeeps
<1>5. CASE \E s \in Streams : NotReady(s)  BY <1>5, NotReadyKeeps
<1>6. CASE \E x \in Outputs :
               HandleLine(x) \/ HandlePart(x) \/ HandleEnd(x) \/ GiveUpOutput(x)
  <2>1. PICK x \in Outputs : HandleLine(x) \/ HandlePart(x) \/ HandleEnd(x) \/ GiveUpOutput(x)
    BY <1>6
  <2>2. CASE HandleLine(x)  BY <2>2, HandleLineKeeps
  <2>3. CASE HandlePart(x)  BY <2>3, HandlePartKeeps
  <2>4. CASE HandleEnd(x) \/ GiveUpOutput(x)  BY <2>4, HandleEndKeeps
  <2> QED  BY <2>1, <2>2, <2>3, <2>4
<1>7. CASE Scan  BY <1>7, ScanKeeps
<1>8. CASE Expunge  BY <1>8, ExpungeKeeps
<1>9. CASE Shrink  BY <1>9, ShrinkKeeps
<1>10. CASE HookEnds \/ Redirect  BY <1>10, HookKeeps
<1>11. CASE \E p \in Procs : StartProcess(p) \/ CloseProcess(p)
  <2>1. PICK p \in Procs : StartProcess(p) \/ CloseProcess(p)  BY <1>11
  <2>2. CASE StartProcess(p)  BY <2>2, StartProcessKeeps
  <2>3. CASE CloseProcess(p)  BY <2>3, CloseProcessKeeps
  <2> QED  BY <2>1, <2>2, <2>3
<1>12. CASE UNCHANGED execVars
  <2>1. UNCHANGED <<process_list, proc, expunged, forgotten, world, unread, io, owed, rd,
                    turn, stack>>
    BY <1>12 DEF execVars, table, outside, buffers
  <2>2. /\ Fd' = Fd /\ Dumb' = Dumb /\ Born' = Born /\ Holding' = Holding
        /\ Left' = Left /\ Late' = Late /\ Even' = Even
    BY <2>1 DEF Fd, Dumb, Born, Left, Late, Even, Holding
  <2>3. ExecTyped'  BY <2>1 DEF ExecInv, ExecTyped
  <2>4. Awaited(turn', stack', process_list') = Awaited(turn, stack, process_list)  BY <2>1
  <2> QED  BY <2>1, <2>2, <2>3, <2>4 DEF ExecInv
<1> QED  BY <1>1, <1>2, <1>3, <1>4, <1>5, <1>6, <1>7, <1>8, <1>9, <1>10, <1>11, <1>12
         DEF ExecNext, TurnSteps, HookCommand

LEMMA ExecInvSound == ExecInv => ExecSound
<1> SUFFICES ASSUME ExecInv PROVE ExecSound  OBVIOUS
<1>a. /\ ListSound(process_list, Born, expunged)
      /\ FramesSound(stack, turn, process_list, Born, expunged, Dumb)
      /\ OutputSound(Fd, Born, forgotten, Late, Even, Holding)
  BY DEF ExecInv
<1>1. Entries(process_list) \cap expunged = {} /\ expunged \subseteq Procs
  BY <1>a DEF ListSound, Born
<1>2. 0 \notin expunged
  <2>1. 0 \notin Procs  BY ExecAssumption DEF Procs
  <2> QED  BY <1>1, <2>1
<1>3. ASSUME NEW k \in DOMAIN stack PROVE stack[k].p \notin expunged
  <2>1. FrameSound(stack[k], process_list, Born, expunged, Dumb)  BY <1>a DEF FramesSound
  <2>2. stack \in Seq(FrameRecord)  BY <1>a DEF FramesSound
  <2>3. stack[k] \in FrameRecord
    <3>1. DOMAIN stack = 1 .. Len(stack)  BY <2>2, LenProperties
    <3> QED  BY <2>2, <3>1, ElementOfSeq
  <2>4. CASE stack[k].p = 0  BY <1>2, <2>4
  <2>5. CASE stack[k].p # 0 /\ stack[k].f = "hook"  BY <2>1, <2>5 DEF FrameSound
  <2>6. CASE stack[k].p # 0 /\ stack[k].f = "clean"  BY <2>1, <2>6 DEF FrameSound, CleanSound
  <2>7. CASE stack[k].p # 0 /\ stack[k].f = "do"
    <3>1. k = 1  BY <1>a, <2>7 DEF FramesSound
    <3>2. stack # <<>>
      <4>1. DOMAIN stack = 1 .. Len(stack) /\ Len(stack) \in Nat  BY <2>2, LenProperties
      <4>2. Len(stack) # 0  BY <4>1
      <4> QED  BY <2>2, <4>2, EmptySeq
    <3>3. DoSound(stack[1], turn, process_list)
      BY <1>a, <2>7, <3>1, <3>2 DEF FramesSound, DoRuns
    <3>4. stack[k].p \in Entries(process_list)
      BY <2>7, <3>1, <3>3 DEF DoSound, Entries
    <3> QED  BY <1>1, <3>4
  <2> QED  BY <2>3, <2>4, <2>5, <2>6, <2>7 DEF FrameRecord
<1>4. \A p \in expunged : ~ HasSlot(p)
  BY <1>1, <1>2 DEF HasSlot, Entries
<1>5. PointersLive  BY <1>a, <1>3, <1>4 DEF PointersLive, ListSound
<1>6. OutputRead
  <2> SUFFICES ASSUME NEW x \in Outputs \ forgotten, Started(x[1]), proc[x[1]][x[2]] = 0
               PROVE  owed[x] = 0 /\ ~ world[x[1]].holds
    BY DEF OutputRead
  <2>1. x[1] \in Procs /\ Fd[x] = 0 /\ x[1] \in Born  BY DEF Outputs, Fd, Born, Started
  <2>2. x \notin Late /\ x[1] \notin Holding  BY <1>a, <2>1 DEF OutputSound
  <2> QED  BY <2>1, <2>2 DEF Late, Holding
<1> QED  BY <1>5, <1>6 DEF ExecSound

\* However many processes hooks start from within hooks, and wherever they give a command
\* of /exec: what do_processes() and cleanup_dead_processes() point to is not freed, no
\* process has two slots, and when an output is closed, every whole line it gave was
\* handed to a hook (exec.c, newio.c) - unless it was closed before its end, or its
\* descriptor was another's in that turn.  It holds if no hook that runs within
\* do_processes() uses /exec -close.
THEOREM ExecIsSound ==
    ASSUME HooksClose = FALSE
    PROVE  ExecSpec => []ExecSound
<1>1. ExecInit => ExecInv  BY ExecInvInit
<1>2. ExecInv /\ [ExecNext]_execVars => ExecInv'  BY ExecInvNext, ZenonT(60)
<1>3. ExecInv => ExecSound  BY ExecInvSound
<1>4. ExecInit /\ [][ExecNext]_execVars => []ExecSound  BY <1>1, <1>2, <1>3, PTL
<1> QED  BY <1>4, PTL DEF ExecSpec
====
