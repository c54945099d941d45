--------------------------- MODULE Recursion_proofs ---------------------------
(***************************************************************************)
(* Numbers, and functions defined by recursion on them.                    *)
(***************************************************************************)
EXTENDS Integers, FiniteSets, FiniteSetTheorems, WellFoundedInduction, TLAPS

\* A set of numbers has a least one: the intervals 0 .. n are finite sets, and these
\* are well-founded under inclusion.
LEMMA LeastNumber ==
    ASSUME NEW T \in SUBSET Nat, T # {}
    PROVE  \E m \in T : \A k \in T : m <= k
<1> DEFINE R == StrictSubsetOrdering(Nat)
           I == {0 .. n : n \in T}
<1>1. IsWellFoundedOn(R, FiniteSubsetsOf(Nat))
  BY FS_StrictSubsetOrderingWellFounded
<1>2. I \subseteq FiniteSubsetsOf(Nat)
  <2> SUFFICES ASSUME NEW n \in T PROVE 0 .. n \in FiniteSubsetsOf(Nat)  OBVIOUS
  <2>1. IsFiniteSet(0 .. n)  BY FS_Interval
  <2>2. 0 .. n \in SUBSET Nat  OBVIOUS
  <2> QED  BY <2>1, <2>2 DEF FiniteSubsetsOf
<1>3. I # {}
  OBVIOUS
<1>4. \E x \in I : \A y \in I : ~ (<<y, x>> \in R)
  <2> HIDE DEF I, R
  <2> QED  BY <1>1, <1>2, <1>3, WFMin
<1>5. PICK m \in T : \A k \in T : <<0 .. k, 0 .. m>> \notin R
  BY <1>4
<1>6. ASSUME NEW k \in T PROVE m <= k
  <2> SUFFICES ASSUME k < m PROVE FALSE  OBVIOUS
  <2>1. 0 .. k \in SUBSET Nat /\ 0 .. m \in SUBSET Nat /\ 0 .. k \subseteq 0 .. m
        /\ 0 .. k # 0 .. m
    <3>1. m \in 0 .. m /\ m \notin 0 .. k  OBVIOUS
    <3> QED  BY <3>1
  <2>2. <<0 .. k, 0 .. m>> \in R
    BY <2>1 DEF StrictSubsetOrdering
  <2> QED  BY <2>2, <1>5
<1> QED  BY <1>6

\* Induction, over a set in the place of a predicate.
LEMMA Induction ==
    ASSUME NEW S, 0 \in S, \A n \in Nat : n \in S => n + 1 \in S
    PROVE  Nat \subseteq S
<1> SUFFICES ASSUME Nat \ S # {} PROVE FALSE  OBVIOUS
<1>1. PICK m \in Nat \ S : \A k \in Nat \ S : m <= k
  <2> DEFINE T == Nat \ S
  <2>1. T \in SUBSET Nat /\ T # {}  OBVIOUS
  <2> HIDE DEF T
  <2>2. \E m \in T : \A k \in T : m <= k  BY <2>1, LeastNumber
  <2> QED  BY <2>2 DEF T
<1>2. m # 0 /\ m - 1 \in Nat  OBVIOUS
<1>3. m - 1 \in S  BY <1>1, <1>2
<1> QED  BY <1>2, <1>3

\* f is defined by recursion on 0 .. n.
Recursion(n, base, step, f) ==
    f = [i \in 0 .. n |-> IF i = 0 THEN base ELSE step[<<i, f[i - 1]>>]]

\* A function defined by recursion exists.
LEMMA RecursionOnInterval ==
    ASSUME NEW n \in Nat, NEW S, NEW base \in S, NEW step \in [(1 .. n) \X S -> S]
    PROVE  \E f \in [0 .. n -> S] : Recursion(n, base, step, f)
<1> DEFINE Reached == {m \in Nat : m <= n =>
                         \E f \in [0 .. m -> S] :
                            f[0] = base /\ \A i \in 1 .. m : f[i] = step[<<i, f[i - 1]>>]}
<1>1. 0 \in Reached
  <2>1. [i \in 0 .. 0 |-> base] \in [0 .. 0 -> S] /\ [i \in 0 .. 0 |-> base][0] = base
    OBVIOUS
  <2>2. 1 .. 0 = {}  OBVIOUS
  <2> DEFINE f == [i \in 0 .. 0 |-> base]
  <2>3. f \in [0 .. 0 -> S] /\ f[0] = base /\ \A i \in 1 .. 0 : f[i] = step[<<i, f[i - 1]>>]
    BY <2>1, <2>2
  <2> HIDE DEF f
  <2>4. \E h \in [0 .. 0 -> S] : h[0] = base /\ \A i \in 1 .. 0 : h[i] = step[<<i, h[i - 1]>>]
    BY <2>3
  <2> QED  BY <2>4
<1>2. ASSUME NEW m \in Nat, m \in Reached PROVE m + 1 \in Reached
  <2> SUFFICES ASSUME m + 1 <= n
               PROVE  \E f \in [0 .. m + 1 -> S] :
                         f[0] = base /\ \A i \in 1 .. m + 1 : f[i] = step[<<i, f[i - 1]>>]
    OBVIOUS
  <2>1. PICK f \in [0 .. m -> S] :
                 f[0] = base /\ \A i \in 1 .. m : f[i] = step[<<i, f[i - 1]>>]
    BY <1>2
  <2> DEFINE last == step[<<m + 1, f[m]>>]
             g == [i \in 0 .. m + 1 |-> IF i <= m THEN f[i] ELSE last]
  <2>2. last \in S
    <3>1. m + 1 \in 1 .. n /\ m \in 0 .. m  OBVIOUS
    <3>2. <<m + 1, f[m]>> \in (1 .. n) \X S  BY <2>1, <3>1
    <3> QED  BY <3>2
  <2> HIDE DEF last
  <2>3. g \in [0 .. m + 1 -> S]  BY <2>1, <2>2
  <2>4. g[0] = base  BY <2>1
  <2>5. \A i \in 1 .. m : g[i] = step[<<i, g[i - 1]>>]  BY <2>1
  <2>6. g[m + 1] = step[<<m + 1, g[m]>>]
    <3>1. g[m] = f[m] /\ g[m + 1] = last  OBVIOUS
    <3> QED  BY <3>1 DEF last
  <2>7. \A i \in 1 .. m + 1 : g[i] = step[<<i, g[i - 1]>>]
    <3> HIDE DEF g
    <3> SUFFICES ASSUME NEW i \in 1 .. m + 1 PROVE g[i] = step[<<i, g[i - 1]>>]
      OBVIOUS
    <3>1. CASE i = m + 1  BY <2>6, <3>1
    <3>2. CASE i # m + 1
      <4>1. i \in 1 .. m  BY <3>2
      <4> QED  BY <2>5, <4>1
    <3> QED  BY <3>1, <3>2
  <2> HIDE DEF g
  <2> QED  BY <2>3, <2>4, <2>7
<1>3. n \in Reached
  <2> HIDE DEF Reached
  <2> QED  BY <1>1, <1>2, Induction
<1>4. PICK f \in [0 .. n -> S] : f[0] = base /\ \A i \in 1 .. n : f[i] = step[<<i, f[i - 1]>>]
  BY <1>3
<1>5. \A i \in 0 .. n : f[i] = IF i = 0 THEN base ELSE step[<<i, f[i - 1]>>]
  <2> SUFFICES ASSUME NEW i \in 0 .. n
               PROVE  f[i] = IF i = 0 THEN base ELSE step[<<i, f[i - 1]>>]
    OBVIOUS
  <2>1. CASE i = 0  BY <1>4, <2>1
  <2>2. CASE i \in 1 .. n  BY <1>4, <2>2
  <2> QED  BY <2>1, <2>2
<1>6. f = [i \in 0 .. n |-> IF i = 0 THEN base ELSE step[<<i, f[i - 1]>>]]
  BY <1>4, <1>5, Zenon
<1> QED  BY <1>6 DEF Recursion


\* ... and what each step keeps holds of all its values.
LEMMA RecursionKept ==
    ASSUME NEW n \in Nat, NEW S, NEW base, NEW step, NEW good \in [0 .. n -> SUBSET S],
           base \in good[0],
           \A i \in 1 .. n : \A x \in good[i - 1] : step[<<i, x>>] \in good[i]
    PROVE  \E f \in [0 .. n -> S] : Recursion(n, base, step, f) /\ \A i \in 0 .. n : f[i] \in good[i]
<1> DEFINE D == (1 .. n) \X S
           safe == [p \in D |-> IF step[p] \in S THEN step[p] ELSE p[2]]
<1>1. safe \in [D -> S]
  <2>1. ASSUME NEW p \in D PROVE (IF step[p] \in S THEN step[p] ELSE p[2]) \in S  OBVIOUS
  <2> HIDE DEF D
  <2> QED  BY <2>1
<1>2. \A i \in 1 .. n : \A x \in good[i - 1] : x \in S /\ safe[<<i, x>>] = step[<<i, x>>]
  <2> SUFFICES ASSUME NEW i \in 1 .. n, NEW x \in good[i - 1]
               PROVE  x \in S /\ safe[<<i, x>>] = step[<<i, x>>]
    OBVIOUS
  <2>1. i - 1 \in 0 .. n /\ i \in 0 .. n  OBVIOUS
  <2>2. x \in S /\ step[<<i, x>>] \in S  BY <2>1
  <2>3. <<i, x>> \in D  BY <2>2
  <2> HIDE DEF D
  <2> QED  BY <2>2, <2>3
<1>3. base \in S  OBVIOUS
<1> HIDE DEF safe
<1>4. PICK f \in [0 .. n -> S] : Recursion(n, base, safe, f)
  BY <1>1, <1>3, RecursionOnInterval
<1>5. f = [i \in 0 .. n |-> IF i = 0 THEN base ELSE safe[<<i, f[i - 1]>>]]
  BY <1>4 DEF Recursion
<1> DEFINE Good == {i \in Nat : i <= n => f[i] \in good[i]}
<1>6. 0 \in Good  BY <1>5
<1>7. ASSUME NEW i \in Nat, i \in Good PROVE i + 1 \in Good
  <2> SUFFICES ASSUME i + 1 <= n PROVE f[i + 1] \in good[i + 1]
    OBVIOUS
  <2>1. i + 1 \in 1 .. n /\ i + 1 \in 0 .. n /\ (i + 1) - 1 = i /\ i <= n  OBVIOUS
  <2>2. f[i + 1] = safe[<<i + 1, f[i]>>]  BY <1>5, <2>1
  <2>3. f[i] \in good[i]  BY <1>7, <2>1
  <2> QED  BY <1>2, <2>1, <2>2, <2>3
<1>8. Nat \subseteq Good
  <2> HIDE DEF Good
  <2> QED  BY <1>6, <1>7, Induction
<1>9. \A i \in 0 .. n : f[i] \in good[i]  BY <1>8
<1>10. Recursion(n, base, step, f)
  <2>1. ASSUME NEW i \in 0 .. n, i # 0 PROVE safe[<<i, f[i - 1]>>] = step[<<i, f[i - 1]>>]
    <3>1. i \in 1 .. n /\ i - 1 \in 0 .. n  BY <2>1
    <3> QED  BY <1>2, <1>9, <3>1
  <2> QED  BY <1>5, <2>1, Zenon DEF Recursion
<1> QED  BY <1>9, <1>10
=============================================================================
