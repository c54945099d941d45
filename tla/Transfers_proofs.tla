--------------------------- MODULE Transfers_proofs ---------------------------
(***************************************************************************)
(* Proofs about Transfers, for any number of records, files, descriptors   *)
(* and requests.  The handlers follow pointers, so the proofs do too.      *)
(*                                                                         *)
(*   Chain, DoubleChain   the records S, and no others, hang from a head,  *)
(*                        and are linked both ways                         *)
(*   World                a memory in the middle of a handler: the records *)
(*                        T are on transfer_struct, Q in the queue, F on   *)
(*                        finished_struct, those of U \ T in the handler's *)
(*                        hands; sockets and records lead to each other    *)
(*   State                a world between two handlers (U = T), with what  *)
(*                        the answers awaited and the upload limit ask     *)
(*   Resting              a state for some T, Q and F: the invariant       *)
(*                                                                         *)
(* A function of Downloads gets a lemma that says which world it leaves    *)
(* (BreakWorld, FinishWorld, ...), a handler one that says that it leaves  *)
(* a state (GetFileKept, NapGetfileKept, ...), and NextKept has one step   *)
(* for each.  The loops of the sweeps walk along a list that they change;  *)
(* EndRuns and QueueRuns follow them record by record.                     *)
(*                                                                         *)
(* The theorems are about runs whose Happens is within Covered.  The rest  *)
(* of Behaviours breaks the lists: /request links its record one way only, *)
(* a push (501) puts one on the list a second time.                        *)
(***************************************************************************)
EXTENDS Transfers, SocketTable_proofs, Recursion_proofs

----------------------------------------------------------------------------
(* Walks *)

Nexts(gf) == \A c \in Cell : gf[c].next \in Cell \cup {Nil}

\* A walk goes from record to record.
LEMMA AtSteps ==
    ASSUME NEW w, NEW head \in Cell \cup {Nil}, Nexts(w.gf)
    PROVE  /\ At(w, head, 0) = head
           /\ \A n \in Nat :
                /\ At(w, head, n) \in Cell \cup {Nil}
                /\ At(w, head, n + 1) = IF At(w, head, n) = Nil THEN Nil
                                        ELSE w.gf[At(w, head, n)].next
<1> DEFINE C == Cell \cup {Nil}
           After(x) == IF x = Nil THEN Nil ELSE w.gf[x].next
           Walked(n, f) == f = [j \in 0 .. n |-> IF j = 0 THEN head ELSE After(f[j - 1])]
           at(n) == CHOOSE f : Walked(n, f)
<1>1. \A x \in C : After(x) \in C  BY DEF Nexts
<1>2. head \in C  OBVIOUS
<1>3. ASSUME NEW n \in Nat PROVE At(w, head, n) = at(n)[n]
  <2>1. at(n) = CHOOSE f : f = [j \in 0 .. n |-> IF j = 0 THEN head
                                   ELSE IF f[j - 1] = Nil THEN Nil ELSE w.gf[f[j - 1]].next]
    OBVIOUS
  <2> QED  BY <2>1, Zenon DEF At
<1> HIDE DEF C, After
<1>4. ASSUME NEW n \in Nat PROVE \E f \in [0 .. n -> C] : Walked(n, f)
  <2> DEFINE step == [p \in (1 .. n) \X C |-> After(p[2])]
  <2>1. step \in [(1 .. n) \X C -> C]
    <3>1. ASSUME NEW p \in (1 .. n) \X C PROVE After(p[2]) \in C  BY <1>1
    <3> QED  BY <3>1
  <2>2. \A p \in (1 .. n) \X C : step[p] = After(p[2])  OBVIOUS
  <2> HIDE DEF step
  <2>3. PICK f \in [0 .. n -> C] : Recursion(n, head, step, f)
    BY <1>2, <2>1, RecursionOnInterval, Zenon
  <2>4. f = [i \in 0 .. n |-> IF i = 0 THEN head ELSE step[<<i, f[i - 1]>>]]
    BY <2>3, Zenon DEF Recursion
  <2>5. ASSUME NEW i \in 0 .. n, i # 0 PROVE step[<<i, f[i - 1]>>] = After(f[i - 1])
    <3>1. i \in 1 .. n /\ f[i - 1] \in C  BY <2>3, <2>5
    <3>2. <<i, f[i - 1]>> \in (1 .. n) \X C  BY <3>1
    <3> QED  BY <2>2, <3>2
  <2>6. Walked(n, f)  BY <2>4, <2>5, Zenon
  <2> QED  BY <2>3, <2>6, Zenon
<1>5. ASSUME NEW n \in Nat, NEW m \in Nat, n <= m, NEW f, NEW g, Walked(n, f), Walked(m, g)
      PROVE  \A j \in 0 .. n : f[j] = g[j]
  <2> DEFINE Same == {j \in Nat : j <= n => f[j] = g[j]}
  <2>1. 0 \in Same
    <3>1. 0 \in 0 .. n /\ 0 \in 0 .. m  OBVIOUS
    <3>2. f[0] = head /\ g[0] = head  BY <1>5, <3>1, Zenon
    <3> QED  BY <3>2
  <2>2. ASSUME NEW j \in Nat, j \in Same PROVE j + 1 \in Same
    <3> SUFFICES ASSUME j + 1 <= n PROVE f[j + 1] = g[j + 1]  OBVIOUS
    <3>1. j + 1 \in 0 .. n /\ j + 1 \in 0 .. m /\ j + 1 # 0 /\ (j + 1) - 1 = j /\ j <= n
      BY <1>5
    <3>2. f[j + 1] = After(f[(j + 1) - 1]) /\ g[j + 1] = After(g[(j + 1) - 1])
      BY <1>5, <3>1, Zenon
    <3>3. f[j] = g[j]  BY <2>2, <3>1
    <3> QED  BY <3>1, <3>2, <3>3
  <2> HIDE DEF Same
  <2>3. Nat \subseteq Same  BY <2>1, <2>2, Induction
  <2> QED  BY <2>3 DEF Same
<1>6. ASSUME NEW n \in Nat PROVE Walked(n, at(n)) /\ at(n) \in [0 .. n -> C]
  <2>1. PICK f \in [0 .. n -> C] : Walked(n, f)  BY <1>4
  <2>2. Walked(n, at(n))  BY <2>1, Zenon
  <2>3. \A j \in 0 .. n : at(n)[j] = f[j]  
    <3> HIDE DEF at, Walked
    <3>1. n <= n OBVIOUS
    <3> QED  BY <1>5, <2>1, <2>2, <3>1
  <2>4. DOMAIN at(n) = 0 .. n /\ at(n) = [j \in 0 .. n |-> at(n)[j]]  BY <2>2
  <2> QED  BY <2>1, <2>2, <2>3, <2>4
<1>7. At(w, head, 0) = head
  <2>1. 0 \in Nat /\ 0 \in 0 .. 0  OBVIOUS
  <2>2. at(0)[0] = head  BY <1>6, <2>1, Zenon
  <2> QED  BY <1>3, <2>1, <2>2
<1>8. ASSUME NEW n \in Nat
      PROVE  At(w, head, n) \in C /\ At(w, head, n + 1) = After(At(w, head, n))
  <2>1. n + 1 \in Nat /\ n \in 0 .. n /\ n + 1 \in 0 .. n + 1 /\ n + 1 # 0 /\ (n + 1) - 1 = n /\ n <= n + 1
    OBVIOUS
  <2>2. at(n + 1)[n + 1] = After(at(n + 1)[(n + 1) - 1])
    BY <1>6, <2>1, ZenonT(60)
  <2>3. at(n + 1)[n] = at(n)[n]
    <3> HIDE DEF at, Walked
    <3> QED BY <1>5, <1>6, <2>1
  <2>4. at(n)[n] \in C  BY <1>6, <2>1
  <2> HIDE DEF at
  <2> QED  BY <1>3, <2>1, <2>2, <2>3, <2>4
<1> QED  BY <1>7, <1>8 DEF C, After

----------------------------------------------------------------------------
(* Lists *)

\* A number for each record that falls from one to the next.
Falls(gf, S, r) == \A c \in S : gf[c].next # Nil => r[gf[c].next] < r[c]

\* The records of S, and no others, are met from head on, each once.
Chain(gf, head, S) ==
    /\ S \subseteq Cell /\ head \in S \cup {Nil}
    /\ \A c \in S : gf[c].next \in S \cup {Nil}
    /\ \A c \in S : c # head => \E p \in S : gf[p].next = c
    /\ \E r \in [S -> Nat] : Falls(gf, S, r)

\* They are linked both ways.
DoubleChain(gf, head, S) ==
    /\ Chain(gf, head, S)
    /\ head # Nil => gf[head].prev = Nil
    /\ \A c \in S : gf[c].next # Nil => gf[gf[c].next].prev = c

\* NULL is no record, and the records are finitely many.
LEMMA NilNoCell == Nil \notin Cell /\ Cell \subseteq Cell \cup {Nil} /\ IsFiniteSet(Cell)
                   /\ Depth \in Nat
<1>1. Nil \notin Cell /\ IsFiniteSet(Cell)  BY CellAssumption
<1>2. Depth \in Nat  BY <1>1, FS_CardinalityType DEF Depth
<1> QED  BY <1>1, <1>2

\* A walk along a chain meets what is on it, each record once.
LEMMA WalkOfChain ==
    ASSUME NEW w, Nexts(w.gf), NEW head, NEW S, Chain(w.gf, head, S)
    PROVE  /\ \A n \in Nat : At(w, head, n) \in S \cup {Nil}
           /\ \A i, j \in Nat : i < j /\ At(w, head, j) # Nil
                => At(w, head, i) # Nil /\ At(w, head, i) # At(w, head, j)
           /\ At(w, head, Depth) = Nil
           /\ On(w, head) = S
<1> DEFINE at(n) == At(w, head, n)
<1>0. /\ S \subseteq Cell /\ head \in S \cup {Nil} /\ Nil \notin S /\ head \in Cell \cup {Nil}
      /\ \A c \in S : w.gf[c].next \in S \cup {Nil}
      /\ \A c \in S : c # head => \E p \in S : w.gf[p].next = c
  BY NilNoCell DEF Chain
<1>1. PICK r \in [S -> Nat] : Falls(w.gf, S, r)  BY DEF Chain
<1>2. /\ at(0) = head
      /\ \A n \in Nat : at(n) \in Cell \cup {Nil} /\ at(n + 1) = IF at(n) = Nil THEN Nil ELSE w.gf[at(n)].next
  BY <1>0, AtSteps
<1> HIDE DEF at
<1>3. \A n \in Nat : at(n) \in S \cup {Nil}
  <2> DEFINE Good == {n \in Nat : at(n) \in S \cup {Nil}}
  <2>1. 0 \in Good  BY <1>0, <1>2
  <2>2. ASSUME NEW n \in Nat, n \in Good PROVE n + 1 \in Good
    <3>1. at(n) \in S \cup {Nil} /\ n + 1 \in Nat  BY <2>2
    <3>2. at(n + 1) \in S \cup {Nil}  BY <1>0, <1>2, <3>1
    <3> QED  BY <3>1, <3>2
  <2> HIDE DEF Good
  <2>3. Nat \subseteq Good  BY <2>1, <2>2, Induction
  <2> QED  BY <2>3 DEF Good
<1>4. \A j \in Nat : \A i \in Nat : i < j /\ at(j) # Nil => at(i) # Nil /\ r[at(j)] < r[at(i)]
  <2> DEFINE Good == {j \in Nat : \A i \in Nat :
                         i < j /\ at(j) # Nil => at(i) # Nil /\ r[at(j)] < r[at(i)]}
  <2>1. 0 \in Good  OBVIOUS
  <2>2. ASSUME NEW j \in Nat, j \in Good PROVE j + 1 \in Good
    <3> SUFFICES ASSUME NEW i \in Nat, i < j + 1, at(j + 1) # Nil
                 PROVE  at(i) # Nil /\ r[at(j + 1)] < r[at(i)]
      OBVIOUS
    <3>1. at(j) \in S /\ at(j + 1) = w.gf[at(j)].next /\ at(j + 1) \in S /\ j + 1 \in Nat
      BY <1>2, <1>3
    <3>2. r[at(j + 1)] < r[at(j)]  BY <1>1, <3>1 DEF Falls
    <3>3. at(j) # Nil  BY <1>0, <3>1
    <3>4. CASE i = j  BY <3>2, <3>3, <3>4
    <3>5. CASE i < j
      <4>1. at(i) # Nil /\ r[at(j)] < r[at(i)]  BY <2>2, <3>3, <3>5
      <4>2. at(i) \in S  BY <1>3, <4>1
      <4>3. r[at(i)] \in Nat /\ r[at(j)] \in Nat /\ r[at(j + 1)] \in Nat  BY <1>1, <3>1, <4>2
      <4> QED  BY <3>2, <4>1, <4>3
    <3> QED  BY <3>4, <3>5
  <2> HIDE DEF Good
  <2>3. Nat \subseteq Good  BY <2>1, <2>2, Induction
  <2> QED  BY <2>3 DEF Good
<1>5. \A i, j \in Nat : i < j /\ at(j) # Nil => at(i) # Nil /\ at(i) # at(j)
  <2> SUFFICES ASSUME NEW i \in Nat, NEW j \in Nat, i < j, at(j) # Nil, at(i) = at(j) PROVE FALSE
    BY <1>4
  <2>1. at(j) \in S  BY <1>3
  <2>2. r[at(j)] \in Nat /\ r[at(j)] < r[at(j)]  BY <1>1, <1>4, <2>1
  <2> QED  BY <2>2
<1>6. at(Depth) = Nil
  <2> SUFFICES ASSUME at(Depth) # Nil PROVE FALSE  OBVIOUS
  <2>0. Depth \in Nat /\ IsFiniteSet(Cell)  BY NilNoCell
  <2> DEFINE f == [n \in 0 .. Depth |-> at(n)]
             I == 0 .. Depth
  <2>1. \A n \in 0 .. Depth : at(n) \in Cell
    <3> SUFFICES ASSUME NEW n \in 0 .. Depth PROVE at(n) \in Cell  OBVIOUS
    <3>1. at(n) # Nil
      <4>1. CASE n = Depth  BY <4>1
      <4>2. CASE n < Depth  BY <1>4, <2>0, <4>2
      <4> QED  BY <2>0, <4>1, <4>2
    <3> QED  BY <1>0, <1>3, <3>1
  <2>2. f \in [I -> Cell]  BY <2>1
  <2>3. IsFiniteSet(I) /\ Cardinality(I) = Depth + 1  BY <2>0, FS_Interval
  <2>4. Cardinality(Cell) < Cardinality(I)  BY <2>0, <2>3 DEF Depth
  <2> HIDE DEF f, I
  <2>5. \E x, y \in I : x # y /\ f[x] = f[y]
    BY <2>0, <2>2, <2>3, <2>4, FS_PigeonHole
  <2>6. PICK x \in 0 .. Depth, y \in 0 .. Depth : x # y /\ at(x) = at(y)  BY <2>5 DEF f, I
  <2>7. at(x) # Nil /\ at(y) # Nil  BY <1>0, <2>1, NilNoCell
  <2> QED  BY <1>5, <2>0, <2>6, <2>7
<1>7. On(w, head) \subseteq S  BY <1>3, NilNoCell DEF On, at
<1>8. S \subseteq On(w, head)
  <2> DEFINE Above(c) == {d \in S : r[d] > r[c]}
             X == S \ On(w, head)
             N == {Cardinality(Above(c)) : c \in X}
  <2> SUFFICES ASSUME X # {} PROVE FALSE  OBVIOUS
  <2>0. IsFiniteSet(S)  BY <1>0, NilNoCell, FS_Subset
  <2>1. ASSUME NEW c \in S PROVE IsFiniteSet(Above(c)) /\ Cardinality(Above(c)) \in Nat
    <3>1. Above(c) \subseteq S  OBVIOUS
    <3> QED  BY <2>0, <3>1, FS_Subset, FS_CardinalityType
  <2>2. N \in SUBSET Nat /\ N # {}  BY <2>1
  <2> HIDE DEF N
  <2>3. PICK m \in N : \A k \in N : m <= k  BY <2>2, LeastNumber
  <2> USE DEF N
  <2>4. PICK c \in X : m = Cardinality(Above(c))  OBVIOUS
  <2>5. at(0) \in {at(n) : n \in 0 .. Depth}  BY NilNoCell
  <2>6. c \in S /\ c # head
    <3>1. CASE c = head  BY <1>0, <1>2, <2>5, <3>1 DEF On, at
    <3> QED  BY <3>1
  <2>7. PICK p \in S : w.gf[p].next = c  BY <1>0, <2>6
  <2>8. p \notin On(w, head)
    <3> SUFFICES ASSUME p \in On(w, head) PROVE FALSE  OBVIOUS
    <3>1. PICK n \in 0 .. Depth : at(n) = p  BY DEF On, at
    <3>2. n # Depth /\ n + 1 \in 0 .. Depth /\ n \in Nat  BY <1>0, <1>6, <3>1, NilNoCell
    <3>3. at(n + 1) = c  BY <1>0, <1>2, <2>7, <3>1, <3>2
    <3> QED  BY <1>0, <2>4, <2>6, <3>2, <3>3 DEF On, at
  <2>9. r[c] < r[p] /\ r[c] \in Nat /\ r[p] \in Nat
    BY <1>0, <1>1, <2>6, <2>7 DEF Falls
  <2>10. Above(p) \subseteq Above(c) /\ p \in Above(c) /\ p \notin Above(p)
    <3>1. \A d \in S : r[d] \in Nat  BY <1>1
    <3> QED  BY <2>9, <3>1
  <2>11. Cardinality(Above(p)) < Cardinality(Above(c))
    <3> HIDE DEF Above
    <3>1. IsFiniteSet(Above(c)) /\ Cardinality(Above(c)) \in Nat /\ Cardinality(Above(p)) \in Nat
      BY <2>1, <2>6
    <3>2. Cardinality(Above(p)) <= Cardinality(Above(c))
          /\ (Cardinality(Above(c)) = Cardinality(Above(p)) => Above(c) = Above(p))
      BY <2>10, <3>1, FS_Subset
    <3> QED  BY <2>10, <3>1, <3>2
  <2>12. Cardinality(Above(p)) \in N  BY <2>8
  <2>13. Cardinality(Above(p)) \in Nat /\ m \in Nat  BY <2>1, <2>2, <2>3
  <2> HIDE DEF Above, N, X
  <2>14. m <= Cardinality(Above(p))  BY <2>3, <2>12
  <2> QED  BY <2>4, <2>11, <2>13, <2>14
<1> QED  BY <1>3, <1>5, <1>6, <1>7, <1>8 DEF at
\* What a record is of stays, whatever list it is on.
SameData(gf, h) ==
    \A d \in Cell :
        /\ h[d].key = gf[d].key /\ h[d].kind = gf[d].kind /\ h[d].socket = gf[d].socket
        /\ h[d].write = gf[d].write /\ h[d].started = gf[d].started
        /\ h[d].count = gf[d].count /\ h[d].deleted = gf[d].deleted
        /\ h[d].port = gf[d].port /\ h[d].realfile = gf[d].realfile

\* A change of one link of one record.
NextSet(gf, c, a, h) ==
    /\ h \in [Cell -> GetFile] /\ SameData(gf, h)
    /\ \A d \in Cell : /\ h[d].next = IF d = c THEN a ELSE gf[d].next
                       /\ h[d].prev = gf[d].prev

PrevSet(gf, c, a, h) ==
    /\ h \in [Cell -> GetFile] /\ SameData(gf, h)
    /\ \A d \in Cell : /\ h[d].prev = IF d = c THEN a ELSE gf[d].prev
                       /\ h[d].next = gf[d].next

\* Writing a link writes nothing else.
LEMMA LinkField ==
    ASSUME NEW gf \in [Cell -> GetFile], NEW c \in Cell, NEW a \in Cell \cup {Nil}
    PROVE  /\ NextSet(gf, c, a, [gf EXCEPT ![c].next = a])
           /\ PrevSet(gf, c, a, [gf EXCEPT ![c].prev = a])
<1>1. gf[c] \in GetFile /\ \A d \in Cell : gf[d] \in GetFile  OBVIOUS
<1> DEFINE x == [gf[c] EXCEPT !.next = a]
           y == [gf[c] EXCEPT !.prev = a]
           X == [gf EXCEPT ![c] = x]
           Y == [gf EXCEPT ![c] = y]
<1>2. X = [gf EXCEPT ![c].next = a] /\ Y = [gf EXCEPT ![c].prev = a]  OBVIOUS
<1>3. x \in GetFile /\ y \in GetFile  BY <1>1 DEF GetFile
<1>4. /\ x.next = a /\ x.prev = gf[c].prev /\ y.prev = a /\ y.next = gf[c].next
      /\ x.key = gf[c].key /\ x.kind = gf[c].kind /\ x.socket = gf[c].socket
      /\ x.write = gf[c].write /\ x.started = gf[c].started
      /\ x.count = gf[c].count /\ x.deleted = gf[c].deleted
      /\ x.port = gf[c].port /\ x.realfile = gf[c].realfile
      /\ y.key = gf[c].key /\ y.kind = gf[c].kind /\ y.socket = gf[c].socket
      /\ y.write = gf[c].write /\ y.started = gf[c].started
      /\ y.count = gf[c].count /\ y.deleted = gf[c].deleted
      /\ y.port = gf[c].port /\ y.realfile = gf[c].realfile
  BY <1>1 DEF GetFile
<1> HIDE DEF x, y
<1>5. X \in [Cell -> GetFile] /\ Y \in [Cell -> GetFile]  BY <1>3
<1>6. \A d \in Cell : X[d] = (IF d = c THEN x ELSE gf[d]) /\ Y[d] = (IF d = c THEN y ELSE gf[d])
  OBVIOUS
<1> HIDE DEF X, Y
<1>7. SameData(gf, X) /\ SameData(gf, Y)  BY <1>4, <1>6, Zenon DEF SameData
<1>8. \A d \in Cell : /\ X[d].next = (IF d = c THEN a ELSE gf[d].next)
                      /\ X[d].prev = gf[d].prev
                      /\ Y[d].prev = (IF d = c THEN a ELSE gf[d].prev)
                      /\ Y[d].next = gf[d].next
  BY <1>4, <1>6
<1>9. NextSet(gf, c, a, X) /\ PrevSet(gf, c, a, Y)  BY <1>5, <1>7, <1>8, Zenon DEF NextSet, PrevSet
<1> QED  BY <1>2, <1>9

\* What stays stays through two changes.
LEMMA SameDataTrans ==
    ASSUME NEW f, NEW g, NEW h, SameData(f, g), SameData(g, h)
    PROVE  SameData(f, h)
  BY ZenonT(60) DEF SameData

\* ... and through none.
LEMMA SameDataRefl == ASSUME NEW f PROVE SameData(f, f)
  BY Zenon DEF SameData

\* Taking a record out of a chain.
TakenOut(gf, h, S, c, p, n, first) ==
    \A d \in S : /\ h[d].next = IF d = c THEN Nil ELSE IF d = p THEN n ELSE gf[d].next
                 /\ h[d].prev = IF d = c \/ d = first THEN Nil
                                ELSE IF d = n THEN p ELSE gf[d].prev

\* What is left is a chain of the others.
LEMMA ChainWithout ==
    ASSUME NEW gf, NEW head, NEW S, DoubleChain(gf, head, S), NEW c \in S, NEW h,
           NEW p, p = gf[c].prev, NEW n, n = gf[c].next, NEW first,
           first = IF p # Nil THEN head ELSE n, TakenOut(gf, h, S, c, p, n, first)
    PROVE  DoubleChain(h, first, S \ {c})
<1>a. /\ \A d \in S : h[d].next = IF d = c THEN Nil ELSE IF d = p THEN n ELSE gf[d].next
      /\ \A d \in S : h[d].prev = IF d = c \/ d = first THEN Nil
                                   ELSE IF d = n THEN p ELSE gf[d].prev
  BY Zenon DEF TakenOut
<1>0. Nil \notin S  BY NilNoCell DEF DoubleChain, Chain
<1>1. /\ S \subseteq Cell /\ head \in S \cup {Nil}
      /\ \A d \in S : gf[d].next \in S \cup {Nil}
      /\ \A d \in S : d # head => \E q \in S : gf[q].next = d
      /\ head # Nil => gf[head].prev = Nil
      /\ \A d \in S : gf[d].next # Nil => gf[gf[d].next].prev = d
  BY DEF DoubleChain, Chain
<1>2. PICK r \in [S -> Nat] : Falls(gf, S, r)  BY DEF DoubleChain, Chain
<1>3. \A d \in S : gf[d].next # Nil => gf[d].next \in S /\ gf[d].next # d /\ r[gf[d].next] < r[d]
  <2> SUFFICES ASSUME NEW d \in S, gf[d].next # Nil
               PROVE  gf[d].next \in S /\ gf[d].next # d /\ r[gf[d].next] < r[d]
    OBVIOUS
  <2>1. gf[d].next \in S /\ r[gf[d].next] < r[d]  BY <1>1, <1>2 DEF Falls
  <2>2. r[d] \in Nat  BY <1>2
  <2> QED  BY <2>1, <2>2
<1>4. /\ p = Nil <=> c = head
      /\ p # Nil => p \in S /\ gf[p].next = c /\ p # c
  <2>1. CASE c = head  BY <1>0, <1>1, <2>1
  <2>2. CASE c # head
    <3>1. PICK q \in S : gf[q].next = c  BY <1>1, <2>2
    <3>2. p = q  BY <1>0, <1>1, <3>1
    <3> QED  BY <1>0, <1>3, <2>2, <3>1, <3>2
  <2> QED  BY <2>1, <2>2
<1>5. n # Nil => n \in S /\ n # c /\ gf[n].prev = c /\ n # head /\ n # p /\ r[n] < r[c]
  <2> SUFFICES ASSUME n # Nil PROVE n \in S /\ n # c /\ gf[n].prev = c /\ n # head /\ n # p /\ r[n] < r[c]
    OBVIOUS
  <2>1. n \in S /\ n # c /\ r[n] < r[c] /\ gf[n].prev = c  BY <1>1, <1>3
  <2>2. n # head  BY <1>0, <1>1, <2>1
  <2>3. n # p
    <3> SUFFICES ASSUME n = p PROVE FALSE  OBVIOUS
    <3>1. r[c] < r[p] /\ r[p] < r[c]  BY <1>0, <1>3, <1>4, <2>1
    <3>2. r[c] \in Nat /\ r[p] \in Nat  BY <1>2, <2>1
    <3> QED  BY <3>1, <3>2
  <2> QED  BY <2>1, <2>2, <2>3
<1>6. \A d \in S : gf[d].next = c => d = p  BY <1>0, <1>1
<1>7. first \in (S \ {c}) \cup {Nil}  BY <1>1, <1>4, <1>5
<1>8. \A d \in S \ {c} : h[d].next \in (S \ {c}) \cup {Nil}
  <2> SUFFICES ASSUME NEW d \in S \ {c} PROVE h[d].next \in (S \ {c}) \cup {Nil}  OBVIOUS
  <2>1. CASE d = p  BY <1>a, <1>5, <2>1
  <2>2. CASE d # p  BY <1>a, <1>1, <1>6, <2>2
  <2> QED  BY <2>1, <2>2
<1>9. ASSUME NEW d \in S \ {c}, d # first PROVE \E q \in S \ {c} : h[q].next = d
  <2>1. d # head
    BY <1>4, <1>9
  <2>2. PICK q \in S : gf[q].next = d  BY <1>1, <2>1
  <2>3. CASE q = c
    <3>1. p # Nil  BY <1>a, <1>9, <2>2, <2>3
    <3>2. h[p].next = d /\ p \in S \ {c}  BY <1>a, <1>4, <2>2, <2>3, <3>1
    <3> QED  BY <3>2
  <2>4. CASE q # c
    <3>1. q # p  BY <1>4, <1>0, <2>2, <2>4
    <3>2. h[q].next = d /\ q \in S \ {c}  BY <1>a, <2>2, <2>4, <3>1
    <3> QED  BY <3>2
  <2> QED  BY <2>3, <2>4
<1>10. \E f \in [S \ {c} -> Nat] : Falls(h, S \ {c}, f)
  <2> DEFINE f == [d \in S \ {c} |-> r[d]]
  <2>1. f \in [S \ {c} -> Nat]  BY <1>2
  <2>2. ASSUME NEW d \in S \ {c}, h[d].next # Nil PROVE f[h[d].next] < f[d]
    <3>1. h[d].next \in S \ {c}  BY <1>8, <2>2
    <3>2. r[h[d].next] < r[d]
      <4>1. CASE d = p
        <5>1. h[d].next = n /\ n # Nil  BY <1>a, <2>2, <4>1
        <5>2. r[n] < r[c] /\ r[c] < r[p] /\ n \in S /\ p \in S
          BY <1>0, <1>3, <1>4, <1>5, <4>1, <5>1
        <5>3. r[n] \in Nat /\ r[c] \in Nat /\ r[p] \in Nat  BY <1>2, <5>2
        <5> QED  BY <4>1, <5>1, <5>2, <5>3
      <4>2. CASE d # p
        <5>1. h[d].next = gf[d].next  BY <1>a, <2>2, <4>2
        <5> QED  BY <1>3, <2>2, <5>1
      <4> QED  BY <4>1, <4>2
    <3> QED  BY <3>1, <3>2
  <2> HIDE DEF f
  <2>3. Falls(h, S \ {c}, f)  BY <2>2 DEF Falls
  <2> QED  BY <2>1, <2>3
<1>11. first # Nil => h[first].prev = Nil  BY <1>a, <1>7
<1>12. ASSUME NEW d \in S \ {c}, h[d].next # Nil PROVE h[h[d].next].prev = d
  <2>1. CASE d = p
    <3>1. h[d].next = n /\ n # Nil /\ n \in S /\ n # c /\ n # head /\ p # Nil
      BY <1>a, <1>0, <1>5, <2>1, <1>12
    <3> QED  BY <1>a, <2>1, <3>1
  <2>2. CASE d # p
    <3> DEFINE e == gf[d].next
    <3>1. h[d].next = e /\ e # Nil /\ e \in S /\ gf[e].prev = d  BY <1>a, <1>12, <1>1, <2>2
    <3>2. e # c /\ e # n  BY <1>5, <1>6, <2>2, <3>1
    <3>3. e # head  BY <1>0, <1>1, <3>1
    <3>4. e # first  BY <3>2, <3>3
    <3> HIDE DEF e
    <3>5. h[e].prev = d  BY <1>a, <3>1, <3>2, <3>4
    <3> QED  BY <3>1, <3>5
  <2> QED  BY <2>1, <2>2
<1>13. S \ {c} \subseteq Cell  BY <1>1
<1>14. Chain(h, first, S \ {c})
  <2>1. \A d \in S \ {c} : d # first => \E q \in S \ {c} : h[q].next = d  BY <1>9
  <2> QED  BY <1>7, <1>8, <1>10, <1>13, <2>1, Zenon DEF Chain
<1>15. \A d \in S \ {c} : h[d].next # Nil => h[h[d].next].prev = d  BY <1>12
<1> QED  BY <1>11, <1>14, <1>15, Zenon DEF DoubleChain

\* A chain is what its own records link.
LEMMA ChainFrame ==
    ASSUME NEW gf, NEW h, NEW head, NEW S, \A d \in S : h[d].next = gf[d].next
    PROVE  /\ Chain(gf, head, S) => Chain(h, head, S)
           /\ DoubleChain(gf, head, S) /\ (\A d \in S : h[d].prev = gf[d].prev)
                => DoubleChain(h, head, S)
<1>1. ASSUME Chain(gf, head, S) PROVE Chain(h, head, S)
  <2>1. \A c \in S : c # head => \E p \in S : h[p].next = c  BY <1>1 DEF Chain
  <2>2. \A r \in [S -> Nat] : Falls(gf, S, r) => Falls(h, S, r)  BY DEF Falls
  <2>3. \E r \in [S -> Nat] : Falls(h, S, r)  BY <1>1, <2>2, Zenon DEF Chain
  <2>4. \A c \in S : h[c].next \in S \cup {Nil}  BY <1>1 DEF Chain
  <2>5. S \subseteq Cell /\ head \in S \cup {Nil}  BY <1>1 DEF Chain
  <2> QED  BY <2>1, <2>3, <2>4, <2>5, Zenon DEF Chain
<1>2. ASSUME DoubleChain(gf, head, S), \A d \in S : h[d].prev = gf[d].prev
      PROVE  DoubleChain(h, head, S)
  <2>1. Chain(gf, head, S) /\ Chain(h, head, S)  BY <1>1, <1>2 DEF DoubleChain
  <2>2. \A c \in S : h[c].next # Nil => h[h[c].next].prev = c
    <3> SUFFICES ASSUME NEW c \in S, gf[c].next # Nil PROVE h[gf[c].next].prev = c  OBVIOUS
    <3>1. gf[c].next \in S /\ gf[gf[c].next].prev = c  BY <1>2, <2>1 DEF DoubleChain, Chain
    <3> QED  BY <1>2, <3>1
  <2>3. head # Nil => h[head].prev = Nil
    BY <1>2, <2>1 DEF DoubleChain, Chain
  <2> QED  BY <2>1, <2>2, <2>3 DEF DoubleChain
<1> QED  BY <1>1, <1>2

\* break_from_list(), link by link.
LEMMA UnlinkFields ==
    ASSUME NEW gf \in [Cell -> GetFile], NEW head \in Cell \cup {Nil}, NEW c \in Cell,
           NEW p, p = gf[c].prev, NEW n, n = gf[c].next, NEW first,
           first = IF p # Nil THEN head ELSE n, NEW h, h = Unlink(gf, head, c).gf
    PROVE  /\ h \in [Cell -> GetFile] /\ SameData(gf, h)
           /\ Unlink(gf, head, c).head = first
           /\ \A d \in Cell : h[d].next = IF d = c THEN Nil ELSE IF d = p THEN n ELSE gf[d].next
           /\ \A d \in Cell : h[d].prev = IF d = c \/ d = first THEN Nil
                                          ELSE IF d = n THEN p ELSE gf[d].prev
<1> DEFINE G == [Cell -> GetFile]
           C == Cell \cup {Nil}
<1>0. gf \in G /\ p \in C /\ n \in C /\ first \in C /\ Nil \in C /\ Nil \notin Cell
  <2>1. gf[c] \in GetFile  OBVIOUS
  <2>2. gf[c].prev \in C /\ gf[c].next \in C  BY <2>1 DEF GetFile
  <2> QED  BY <2>2, NilNoCell
<1> DEFINE g1 == IF p # Nil THEN [gf EXCEPT ![p].next = n] ELSE gf
           g2 == IF n # Nil THEN [g1 EXCEPT ![n].prev = p] ELSE g1
           g3 == IF first # Nil THEN [g2 EXCEPT ![first].prev = Nil] ELSE g2
           g4 == [g3 EXCEPT ![c].prev = Nil]
           g5 == [g4 EXCEPT ![c].next = Nil]
<1>1. h = g5 /\ Unlink(gf, head, c).head = first
  <2>1. [g3 EXCEPT ![c].prev = Nil, ![c].next = Nil] = g5  OBVIOUS
  <2> QED  BY ZenonT(60), <2>1 DEF Unlink
<1>2. /\ g1 \in G /\ SameData(gf, g1)
      /\ \A d \in Cell : g1[d].prev = gf[d].prev /\ g1[d].next = IF d = p THEN n ELSE gf[d].next
  <2>1. CASE p = Nil  BY <1>0, <2>1, SameDataRefl
  <2>2. CASE p # Nil
    <3>1. p \in Cell  BY <1>0, <2>2
    <3>2. g1 = [gf EXCEPT ![p].next = n]  BY <2>2
    <3>3. NextSet(gf, p, n, g1)  BY <1>0, <3>1, <3>2, LinkField
    <3> QED  BY <3>3, Zenon DEF NextSet
  <2> QED  BY <2>1, <2>2
<1> HIDE DEF g1
<1>3. /\ g2 \in G /\ SameData(g1, g2)
      /\ \A d \in Cell : g2[d].next = g1[d].next /\ g2[d].prev = IF d = n THEN p ELSE g1[d].prev
  <2>1. CASE n = Nil  BY <1>0, <1>2, <2>1, SameDataRefl
  <2>2. CASE n # Nil
    <3>1. n \in Cell  BY <1>0, <2>2
    <3>2. g2 = [g1 EXCEPT ![n].prev = p]  BY <2>2
    <3>3. PrevSet(g1, n, p, g2)  BY <1>0, <1>2, <3>1, <3>2, LinkField
    <3> QED  BY <3>3, Zenon DEF PrevSet
  <2> QED  BY <2>1, <2>2
<1> HIDE DEF g2
<1>4. /\ g3 \in G /\ SameData(g2, g3)
      /\ \A d \in Cell : g3[d].next = g2[d].next
                         /\ g3[d].prev = IF d = first THEN Nil ELSE g2[d].prev
  <2>1. CASE first = Nil  BY <1>0, <1>3, <2>1, SameDataRefl
  <2>2. CASE first # Nil
    <3>1. first \in Cell  BY <1>0, <2>2
    <3>2. g3 = [g2 EXCEPT ![first].prev = Nil]  BY <2>2
    <3>3. PrevSet(g2, first, Nil, g3)  BY <1>0, <1>3, <3>1, <3>2, LinkField
    <3> QED  BY <3>3, Zenon DEF PrevSet
  <2> QED  BY <2>1, <2>2
<1> HIDE DEF g3
<1>5. /\ g4 \in G /\ SameData(g3, g4)
      /\ \A d \in Cell : g4[d].next = g3[d].next
                         /\ g4[d].prev = IF d = c THEN Nil ELSE g3[d].prev
  <2>1. PrevSet(g3, c, Nil, g4)  BY <1>0, <1>4, LinkField
  <2> QED  BY <2>1, Zenon DEF PrevSet
<1> HIDE DEF g4
<1>6. /\ g5 \in G /\ SameData(g4, g5)
      /\ \A d \in Cell : g5[d].prev = g4[d].prev
                         /\ g5[d].next = IF d = c THEN Nil ELSE g4[d].next
  <2>1. NextSet(g4, c, Nil, g5)  BY <1>0, <1>5, LinkField
  <2> QED  BY <2>1, Zenon DEF NextSet
<1> HIDE DEF g5
<1>7. SameData(gf, g5)  BY <1>2, <1>3, <1>4, <1>5, <1>6, SameDataTrans
<1>8. \A d \in Cell : g5[d].next = IF d = c THEN Nil ELSE IF d = p THEN n ELSE gf[d].next
  BY <1>2, <1>3, <1>4, <1>5, <1>6
<1>9. \A d \in Cell : g5[d].prev = IF d = c \/ d = first THEN Nil
                                   ELSE IF d = n THEN p ELSE gf[d].prev
  BY <1>2, <1>3, <1>4, <1>5, <1>6
<1> QED  BY <1>1, <1>6, <1>7, <1>8, <1>9

\* What an operation on the records leaves outside of S.
SameLinks(gf, h, S) ==
    \A d \in Cell \ S : h[d].next = gf[d].next /\ h[d].prev = gf[d].prev

\* break_from_list() on a chain.
LEMMA UnlinkChain ==
    ASSUME NEW gf \in [Cell -> GetFile], NEW head, NEW S, DoubleChain(gf, head, S), NEW c \in S,
           NEW h, NEW first, h = Unlink(gf, head, c).gf, first = Unlink(gf, head, c).head
    PROVE  /\ h \in [Cell -> GetFile] /\ SameData(gf, h) /\ SameLinks(gf, h, S)
           /\ DoubleChain(h, first, S \ {c})
<1> DEFINE p == gf[c].prev
           n == gf[c].next
           f == IF p # Nil THEN head ELSE n
<1>0. /\ S \subseteq Cell /\ head \in S \cup {Nil} /\ c \in Cell /\ Nil \notin Cell
      /\ n \in S \cup {Nil}
      /\ c # head => p \in S
      /\ c = head => p = Nil
  <2>1. /\ S \subseteq Cell /\ head \in S \cup {Nil} /\ n \in S \cup {Nil}
        /\ c # head => \E q \in S : gf[q].next = c
        /\ \A d \in S : gf[d].next # Nil => gf[gf[d].next].prev = d
        /\ head # Nil => gf[head].prev = Nil
    BY DEF DoubleChain, Chain
  <2>2. c # head => p \in S  BY <2>1, NilNoCell
  <2> QED  BY <2>1, <2>2, NilNoCell
<1> HIDE DEF p, n
<1>1. /\ h \in [Cell -> GetFile] /\ SameData(gf, h) /\ first = f
      /\ \A d \in Cell : h[d].next = IF d = c THEN Nil ELSE IF d = p THEN n ELSE gf[d].next
      /\ \A d \in Cell : h[d].prev = IF d = c \/ d = f THEN Nil
                                     ELSE IF d = n THEN p ELSE gf[d].prev
  <2>1. p = gf[c].prev /\ n = gf[c].next  BY DEF p, n
  <2> DEFINE ff == f
  <2>2. ff = IF p # Nil THEN head ELSE n  OBVIOUS
  <2>3. head \in Cell \cup {Nil}  BY <1>0
  <2> HIDE DEF f
  <2> QED  BY <1>0, <2>1, <2>2, <2>3, UnlinkFields
<1>2. f \in S \cup {Nil} /\ p \in S \cup {Nil}  BY <1>0
<1>3. SameLinks(gf, h, S)  BY <1>0, <1>1, <1>2, NilNoCell DEF SameLinks
<1>4. f = IF p # Nil THEN head ELSE n  OBVIOUS
<1> HIDE DEF f
<1>5. DoubleChain(h, f, S \ {c})
  <2>1. p = gf[c].prev /\ n = gf[c].next  BY DEF p, n
  <2>2. \A d \in S : h[d].next = IF d = c THEN Nil ELSE IF d = p THEN n ELSE gf[d].next
    BY <1>0, <1>1
  <2>3. \A d \in S : h[d].prev = IF d = c \/ d = f THEN Nil
                                 ELSE IF d = n THEN p ELSE gf[d].prev
    BY <1>0, <1>1
  <2>4. TakenOut(gf, h, S, c, p, n, f)  BY <2>2, <2>3, Zenon DEF TakenOut
  <2> QED  BY <1>4, <2>1, <2>4, ChainWithout
<1> QED  BY <1>1, <1>3, <1>5

\* Nothing is on a chain without a head.
LEMMA EmptyChain ==
    ASSUME NEW w, Nexts(w.gf), NEW S, Chain(w.gf, Nil, S)
    PROVE  S = {}
<1>1. On(w, Nil) = S /\ \A i, j \in Nat : i < j /\ At(w, Nil, j) # Nil => At(w, Nil, i) # Nil
  BY WalkOfChain
<1>2. At(w, Nil, 0) = Nil  BY AtSteps
<1>3. \A n \in 0 .. Depth : At(w, Nil, n) = Nil
  <2> SUFFICES ASSUME NEW n \in 0 .. Depth PROVE At(w, Nil, n) = Nil  OBVIOUS
  <2>1. CASE n = 0  BY <1>2, <2>1
  <2>2. CASE n # 0
    <3>1. n \in Nat /\ 0 \in Nat /\ 0 < n  BY <2>2, NilNoCell
    <3> QED  BY <1>1, <1>2, <3>1
  <2> QED  BY <2>1, <2>2
<1> QED  BY <1>1, <1>3 DEF On

\* The first of some records of a list is one of them.
LEMMA FirstOfIn ==
    ASSUME NEW w, NEW head, NEW S, S \subseteq On(w, head), S # {}
    PROVE  FirstOf(w, head, S) \in S
<1> DEFINE N == {n \in 0 .. Depth : At(w, head, n) \in S}
<1>1. N \in SUBSET Nat /\ N # {}  BY NilNoCell DEF On
<1> HIDE DEF N
<1>2. PICK m \in N : \A k \in N : m <= k  BY <1>1, LeastNumber
<1> USE DEF N
<1> DEFINE c == At(w, head, m)
<1>3. c \in S /\ m \in Places(w, head, c)  BY DEF Places
<1>4. \A d \in S : \A p \in Places(w, head, d) : m <= p  BY <1>2 DEF Places
<1> HIDE DEF c
<1>5. \E x \in S : \A d \in S : \E n \in Places(w, head, x) : \A p \in Places(w, head, d) : n <= p
  BY <1>3, <1>4
<1> QED  BY <1>5, Zenon DEF FirstOf

\* The last record of a chain.
LEMMA LastOfIn ==
    ASSUME NEW w, Nexts(w.gf), NEW head, NEW S, Chain(w.gf, head, S), S # {}
    PROVE  LastOf(w, head) \in S /\ w.gf[LastOf(w, head)].next = Nil
<1>1. On(w, head) = S  BY WalkOfChain
<1>2. PICK r \in [S -> Nat] : Falls(w.gf, S, r)  BY DEF Chain
<1> DEFINE N == {r[c] : c \in S}
<1>3. N \in SUBSET Nat /\ N # {}  BY <1>2
<1> HIDE DEF N
<1>4. PICK m \in N : \A k \in N : m <= k  BY <1>3, LeastNumber
<1> USE DEF N
<1>5. PICK c \in S : m = r[c]  OBVIOUS
<1>6. w.gf[c].next = Nil
  <2> SUFFICES ASSUME w.gf[c].next # Nil PROVE FALSE  OBVIOUS
  <2>1. w.gf[c].next \in S /\ r[w.gf[c].next] < r[c]  BY <1>2 DEF Chain, Falls
  <2>2. r[w.gf[c].next] \in Nat /\ r[c] \in Nat /\ m <= r[w.gf[c].next]  BY <1>2, <1>4, <2>1
  <2> QED  BY <1>5, <2>1, <2>2
<1>7. \E x \in On(w, head) : w.gf[x].next = Nil  BY <1>1, <1>6
<1>8. LastOf(w, head) \in On(w, head) /\ w.gf[LastOf(w, head)].next = Nil
  BY <1>7, Zenon DEF LastOf
<1> QED  BY <1>1, <1>8

\* A record put behind the last of a chain.
LEMMA ChainWith ==
    ASSUME NEW gf, NEW head, NEW S, DoubleChain(gf, head, S), NEW c \in Cell, c \notin S,
           NEW last \in S, gf[last].next = Nil, NEW h,
           \A d \in S : /\ h[d].next = IF d = last THEN c ELSE gf[d].next
                        /\ h[d].prev = gf[d].prev,
           h[c].next = Nil, h[c].prev = last
    PROVE  DoubleChain(h, head, S \cup {c})
<1>1. /\ S \subseteq Cell /\ head \in S \cup {Nil} /\ Nil \notin S /\ c # Nil
      /\ \A d \in S : gf[d].next \in S \cup {Nil}
      /\ \A d \in S : d # head => \E q \in S : gf[q].next = d
      /\ head # Nil => gf[head].prev = Nil
      /\ \A d \in S : gf[d].next # Nil => gf[gf[d].next].prev = d
  BY NilNoCell DEF DoubleChain, Chain
<1>2. PICK r \in [S -> Nat] : Falls(gf, S, r)  BY DEF DoubleChain, Chain
<1>3. \A d \in S \cup {c} : h[d].next \in S \cup {c} \cup {Nil}  BY <1>1
<1>4. ASSUME NEW d \in S \cup {c}, d # head PROVE \E q \in S \cup {c} : h[q].next = d
  <2>1. CASE d = c  BY <2>1
  <2>2. CASE d # c
    <3>1. PICK q \in S : gf[q].next = d  BY <1>1, <1>4, <2>2
    <3>2. q # last  BY <1>1, <1>4, <2>2, <3>1
    <3> QED  BY <3>1, <3>2
  <2> QED  BY <2>1, <2>2
<1>5. \E f \in [S \cup {c} -> Nat] : Falls(h, S \cup {c}, f)
  <2> DEFINE f == [d \in S \cup {c} |-> IF d = c THEN 0 ELSE r[d] + 1]
  <2>1. f \in [S \cup {c} -> Nat]  BY <1>2
  <2>2. ASSUME NEW d \in S \cup {c}, h[d].next # Nil PROVE f[h[d].next] < f[d]
    <3>1. d \in S /\ d # c  BY <2>2
    <3>2. CASE d = last  BY <1>2, <3>1, <3>2
    <3>3. CASE d # last
      <4>1. h[d].next = gf[d].next /\ gf[d].next \in S /\ gf[d].next # c  BY <1>1, <2>2, <3>1, <3>3
      <4>2. r[gf[d].next] < r[d] /\ r[d] \in Nat /\ r[gf[d].next] \in Nat
        BY <1>1, <1>2, <2>2, <3>1, <4>1 DEF Falls
      <4> QED  BY <3>1, <4>1, <4>2
    <3> QED  BY <3>2, <3>3
  <2> HIDE DEF f
  <2>3. Falls(h, S \cup {c}, f)  BY <2>2 DEF Falls
  <2> QED  BY <2>1, <2>3
<1>6. S \cup {c} \subseteq Cell /\ head \in S \cup {c} \cup {Nil}  BY <1>1
<1>7. Chain(h, head, S \cup {c})
  <2>1. \A d \in S \cup {c} : d # head => \E q \in S \cup {c} : h[q].next = d  BY <1>4
  <2> QED  BY <1>3, <1>5, <1>6, <2>1, Zenon DEF Chain
<1>8. head # Nil => h[head].prev = Nil  BY <1>1
<1>9. \A d \in S \cup {c} : h[d].next # Nil => h[h[d].next].prev = d
  <2> SUFFICES ASSUME NEW d \in S \cup {c}, h[d].next # Nil PROVE h[h[d].next].prev = d  OBVIOUS
  <2>1. d \in S  OBVIOUS
  <2>2. CASE d = last  BY <2>1, <2>2
  <2>3. CASE d # last
    <3>1. h[d].next = gf[d].next /\ gf[d].next \in S  BY <1>1, <2>1, <2>3
    <3> QED  BY <1>1, <2>1, <3>1
  <2> QED  BY <2>2, <2>3
<1> QED  BY <1>7, <1>8, <1>9, Zenon DEF DoubleChain

\* A record alone is a chain.
LEMMA SingleChain ==
    ASSUME NEW c \in Cell, NEW h, h[c].next = Nil, h[c].prev = Nil
    PROVE  DoubleChain(h, c, {c})
<1> DEFINE r == [d \in {c} |-> 0]
<1>1. r \in [{c} -> Nat] /\ Falls(h, {c}, r)  BY DEF Falls
<1> HIDE DEF r
<1> QED  BY <1>1 DEF DoubleChain, Chain

\* The links of records lead to records.
LEMMA NextsOf ==
    ASSUME NEW gf \in [Cell -> GetFile]
    PROVE  Nexts(gf) /\ \A c \in Cell : gf[c].prev \in Cell \cup {Nil}
<1> SUFFICES ASSUME NEW c \in Cell PROVE gf[c].next \in Cell \cup {Nil} /\ gf[c].prev \in Cell \cup {Nil}
  BY DEF Nexts
<1>1. gf[c] \in GetFile  OBVIOUS
<1> QED  BY <1>1 DEF GetFile

\* add_to_list(): c is behind the last, or alone.
LEMMA LinkLastChain ==
    ASSUME NEW w, "gf" \in DOMAIN w, w.gf \in [Cell -> GetFile], NEW head, NEW S,
           DoubleChain(w.gf, head, S), NEW c \in Cell, c \notin S,
           NEW h, NEW first, h = LinkLast(w, head, c).gf, first = LinkLast(w, head, c).head
    PROVE  /\ h \in [Cell -> GetFile] /\ SameData(w.gf, h) /\ SameLinks(w.gf, h, S \cup {c})
           /\ DoubleChain(h, first, S \cup {c})
<1> DEFINE gf == w.gf
           G == [Cell -> GetFile]
           g1 == [gf EXCEPT ![c].next = Nil]
<1>0. Nil \in Cell \cup {Nil} /\ gf \in G /\ Nexts(gf) /\ S \subseteq Cell  
  BY NextsOf DEF DoubleChain, Chain
<1>1. NextSet(gf, c, Nil, g1)  BY <1>0, LinkField
<1>2. /\ g1 \in G /\ SameData(gf, g1) /\ g1[c].next = Nil
      /\ \A d \in Cell : /\ g1[d].next = IF d = c THEN Nil ELSE gf[d].next
                         /\ g1[d].prev = gf[d].prev
  BY <1>1, Zenon DEF NextSet
<1>3. CASE head = Nil
  <2> DEFINE g2 == [g1 EXCEPT ![c].prev = Nil]
  <2>1. h = g2 /\ first = c
    <3>1. [gf EXCEPT ![c].next = Nil, ![c].prev = Nil] = g2  OBVIOUS
    <3> QED  BY <1>3, <3>1 DEF LinkLast
  <2> HIDE DEF g1
  <2>2. PrevSet(g1, c, Nil, g2)  BY <1>0, <1>2, LinkField
  <2> HIDE DEF g2
  <2>3. /\ g2 \in G /\ SameData(g1, g2)
        /\ \A d \in Cell : /\ g2[d].prev = IF d = c THEN Nil ELSE g1[d].prev
                           /\ g2[d].next = g1[d].next
    BY <2>2, Zenon DEF PrevSet
  <2>4. SameData(gf, g2)  BY <1>2, <2>3, SameDataTrans
  <2>5. S = {}
    <3>1. Chain(w.gf, Nil, S)  BY <1>3 DEF DoubleChain
    <3> QED  BY <1>0, <3>1, EmptyChain
  <2>6. DoubleChain(g2, c, {c})
    <3>1. g2[c].next = Nil /\ g2[c].prev = Nil  BY <1>2, <2>3
    <3> QED  BY <3>1, SingleChain
  <2>7. SameLinks(gf, g2, S \cup {c})  BY <1>2, <2>3 DEF SameLinks
  <2> HIDE DEF gf
  <2> QED  BY <2>1, <2>3, <2>4, <2>5, <2>6, <2>7 DEF gf
<1>4. CASE head # Nil
  <2> DEFINE v == [w EXCEPT !.gf[c].next = Nil]
             last == LastOf(v, head)
             g2 == [g1 EXCEPT ![last].next = c]
             g3 == [g2 EXCEPT ![c].prev = last]
  <2>1. v.gf = g1
    <3>1. v = [w EXCEPT !.gf = g1]  OBVIOUS
    <3> QED  BY <3>1
  <2>2. h = g3 /\ first = head
    <3>1. [gf EXCEPT ![c].next = Nil, ![last].next = c, ![c].prev = last] = g3  OBVIOUS
    <3> QED  BY <1>4, <3>1 DEF LinkLast
  <2> HIDE DEF g1, v, last
  <2>3. S # {} /\ head \in S  BY <1>4, NilNoCell DEF DoubleChain, Chain
  <2>4. DoubleChain(g1, head, S)
    <3>1. \A d \in S : g1[d].next = gf[d].next /\ g1[d].prev = gf[d].prev  BY <1>0, <1>2
    <3> QED  BY <3>1, ChainFrame
  <2>5. last \in S /\ g1[last].next = Nil /\ last \in Cell /\ last # c
    <3>1. Nexts(v.gf) /\ Chain(v.gf, head, S)  BY <1>2, <2>1, <2>4, NextsOf DEF DoubleChain
    <3>2. LastOf(v, head) \in S /\ v.gf[LastOf(v, head)].next = Nil
      BY <2>3, <3>1, LastOfIn
    <3> QED  BY <1>0, <2>1, <3>2 DEF last
  <2>6. NextSet(g1, last, c, g2)  BY <1>2, <2>5, LinkField
  <2>7. /\ g2 \in G /\ SameData(g1, g2)
        /\ \A d \in Cell : /\ g2[d].next = IF d = last THEN c ELSE g1[d].next
                           /\ g2[d].prev = g1[d].prev
    BY <2>6, Zenon DEF NextSet
  <2> HIDE DEF g2
  <2>8. PrevSet(g2, c, last, g3)  BY <2>5, <2>7, LinkField
  <2>9. /\ g3 \in G /\ SameData(g2, g3)
        /\ \A d \in Cell : /\ g3[d].prev = IF d = c THEN last ELSE g2[d].prev
                           /\ g3[d].next = g2[d].next
    BY <2>8, Zenon DEF PrevSet
  <2> HIDE DEF g3
  <2>10. SameData(gf, g3)  BY <1>2, <2>7, <2>9, SameDataTrans
  <2>11. DoubleChain(g3, head, S \cup {c})
    <3>1. \A d \in S : /\ g3[d].next = IF d = last THEN c ELSE g1[d].next
                       /\ g3[d].prev = g1[d].prev
      BY <1>0, <2>7, <2>9
    <3>2. g3[c].next = Nil /\ g3[c].prev = last  BY <1>2, <2>5, <2>7, <2>9
    <3> QED  BY <2>4, <2>5, <3>1, <3>2, ChainWith
  <2>12. SameLinks(gf, g3, S \cup {c})
    <3> SUFFICES ASSUME NEW d \in Cell \ (S \cup {c})
                 PROVE  g3[d].next = gf[d].next /\ g3[d].prev = gf[d].prev
      BY DEF SameLinks
    <3> QED  BY <1>2, <2>5, <2>7, <2>9
  <2> HIDE DEF gf
  <2> QED  BY <2>2, <2>9, <2>10, <2>11, <2>12 DEF gf
<1> QED  BY <1>3, <1>4

\* A record put before a chain.
LEMMA ChainPush ==
    ASSUME NEW gf, NEW head, NEW S, Chain(gf, head, S), NEW c \in Cell, c \notin S, NEW h,
           \A d \in S : h[d].next = gf[d].next, h[c].next = head
    PROVE  Chain(h, c, S \cup {c})
<1>1. /\ S \subseteq Cell /\ head \in S \cup {Nil} /\ Nil \notin S /\ c # Nil
      /\ \A d \in S : gf[d].next \in S \cup {Nil}
      /\ \A d \in S : d # head => \E q \in S : gf[q].next = d
  BY NilNoCell DEF Chain
<1>2. PICK r \in [S -> Nat] : Falls(gf, S, r)  BY DEF Chain
<1>3. \A d \in S \cup {c} : h[d].next \in S \cup {c} \cup {Nil}  BY <1>1
<1>4. \A d \in S \cup {c} : d # c => \E q \in S \cup {c} : h[q].next = d
  <2> SUFFICES ASSUME NEW d \in S PROVE \E q \in S \cup {c} : h[q].next = d  OBVIOUS
  <2>1. CASE d = head  BY <2>1
  <2>2. CASE d # head  BY <1>1, <2>2
  <2> QED  BY <2>1, <2>2
<1>5. \E f \in [S \cup {c} -> Nat] : Falls(h, S \cup {c}, f)
  <2> DEFINE high == IF head = Nil THEN 0 ELSE r[head] + 1
             f == [d \in S \cup {c} |-> IF d = c THEN high ELSE r[d]]
  <2>0. high \in Nat  BY <1>1, <1>2
  <2>1. f \in [S \cup {c} -> Nat]  BY <1>2, <2>0
  <2>2. ASSUME NEW d \in S \cup {c}, h[d].next # Nil PROVE f[h[d].next] < f[d]
    <3>1. CASE d = c
      <4>1. h[d].next = head /\ head \in S /\ head # c  BY <1>1, <2>2, <3>1
      <4>2. r[head] \in Nat /\ head # Nil  BY <1>1, <1>2, <4>1
      <4> QED  BY <3>1, <4>1, <4>2
    <3>2. CASE d # c
      <4>1. d \in S /\ h[d].next = gf[d].next /\ gf[d].next \in S /\ gf[d].next # c
        BY <1>1, <2>2, <3>2
      <4>2. r[gf[d].next] < r[d]  BY <1>1, <1>2, <4>1 DEF Falls
      <4> QED  BY <3>2, <4>1, <4>2
    <3> QED  BY <3>1, <3>2
  <2> HIDE DEF f
  <2>3. Falls(h, S \cup {c}, f)  BY <2>2 DEF Falls
  <2> QED  BY <2>1, <2>3
<1>6. S \cup {c} \subseteq Cell /\ c \in S \cup {c} \cup {Nil}  BY <1>1
<1> QED  BY <1>3, <1>4, <1>5, <1>6, Zenon DEF Chain

\* The first record of a chain taken off.
LEMMA ChainPop ==
    ASSUME NEW gf, Nexts(gf), NEW head, NEW S, Chain(gf, head, S), head # Nil
    PROVE  head \in S /\ Chain(gf, gf[head].next, S \ {head})
<1> DEFINE w == [gf |-> gf]
<1>1. /\ S \subseteq Cell /\ head \in S /\ Nil \notin S
      /\ \A d \in S : gf[d].next \in S \cup {Nil}
      /\ \A d \in S : d # head => \E q \in S : gf[q].next = d
  BY NilNoCell DEF Chain
<1>2. PICK r \in [S -> Nat] : Falls(gf, S, r)  BY DEF Chain
<1>3. \A p \in S : gf[p].next # head
  <2> SUFFICES ASSUME NEW p \in S, gf[p].next = head PROVE FALSE  OBVIOUS
  <2>0. w.gf = gf  OBVIOUS
  <2> HIDE DEF w
  <2>1. /\ On(w, head) = S
        /\ \A i, j \in Nat : i < j /\ At(w, head, j) # Nil
                => At(w, head, i) # Nil /\ At(w, head, i) # At(w, head, j)
    BY <2>0, WalkOfChain
  <2>2. /\ At(w, head, 0) = head
        /\ \A n \in Nat : At(w, head, n + 1) = IF At(w, head, n) = Nil THEN Nil
                                               ELSE w.gf[At(w, head, n)].next
    BY <1>1, <2>0, AtSteps
  <2>3. PICK n \in 0 .. Depth : At(w, head, n) = p  BY <2>1 DEF On
  <2>4. n \in Nat /\ n + 1 \in Nat /\ 0 < n + 1 /\ 0 \in Nat  BY NilNoCell
  <2>5. At(w, head, n + 1) = head  BY <1>1, <2>0, <2>2, <2>3, <2>4
  <2> QED  BY <1>1, <2>1, <2>2, <2>4, <2>5
<1>4. gf[head].next \in (S \ {head}) \cup {Nil}  BY <1>1, <1>3
<1>5. \A d \in S \ {head} : gf[d].next \in (S \ {head}) \cup {Nil}  BY <1>1, <1>3
<1>6. \A d \in S \ {head} : d # gf[head].next => \E q \in S \ {head} : gf[q].next = d
  BY <1>1
<1>7. \E f \in [S \ {head} -> Nat] : Falls(gf, S \ {head}, f)
  <2> DEFINE f == [d \in S \ {head} |-> r[d]]
  <2>1. f \in [S \ {head} -> Nat]  BY <1>2
  <2>2. Falls(gf, S \ {head}, f)  BY <1>2, <1>5 DEF Falls
  <2> QED  BY <2>1, <2>2
<1>8. S \ {head} \subseteq Cell  BY <1>1
<1> QED  BY <1>1, <1>4, <1>5, <1>6, <1>7, <1>8, Zenon DEF Chain

----------------------------------------------------------------------------
(* Worlds *)

Tables == {m \in [slot   : [Fd -> SlotType(Cell \cup {Nil}, Handlers \cup {Nil}, {0})],
                  count  : Int,
                  max_fd : Fd \cup {0, -1}] :
             SlotsSound(m) /\ CountSound(m) /\ MaxSound(m)}

Counts == -SentBound .. SentBound

Worlds == [gf : [Cell -> GetFile], live : SUBSET Cell, transfer_struct : Cell \cup {Nil},
           finished_struct : Cell \cup {Nil}, Queued : Cell \cup {Nil},
           sock_manager : Tables, kernel : SUBSET Fd, gets : Counts, sends : Counts]

\* The handlers of a connection that is of no transfer yet.
Early == {"nap_firewall_get", "naplink_handleconnect"}

\* No connection fails before it is registered.
Tight == Happens \cap {"refused", "ungreeted"} = {}

\* The sockets and the unfinished records U lead to each other.
Wired(m, gf, kernel, U) ==
    /\ Registered(m) \subseteq kernel
    /\ Tight => kernel = Registered(m)
    /\ \A s \in Fd : s \notin Registered(m) => m.slot[s].info = Nil
    /\ \A s \in Fd : m.slot[s].info # Nil =>
                        m.slot[s].info \in U /\ gf[m.slot[s].info].socket = s
    /\ \A c \in U : gf[c].socket # -1 =>
                        gf[c].socket \in Fd /\ m.slot[gf[c].socket].info = c
    /\ \A s \in Fd : m.slot[s].func_read \in Early => m.slot[s].info = Nil

Silent(gf, S) == \A c \in S : gf[c].socket = -1

Kept(gf, S) == \A c \in S : ~gf[c].deleted

\* The world with the records T on transfer_struct, Q in the queue and F on
\* finished_struct; those of U \ T are in the hands of a handler.
World(w, T, U, Q, F) ==
    /\ w \in Worlds
    /\ DoubleChain(w.gf, w.transfer_struct, T)
    /\ DoubleChain(w.gf, w.Queued, Q)
    /\ Chain(w.gf, w.finished_struct, F)
    /\ T \subseteq U /\ U \cap Q = {} /\ U \cap F = {} /\ Q \cap F = {}
    /\ U \cup Q \cup F \subseteq w.live
    /\ Wired(w.sock_manager, w.gf, w.kernel, U)
    /\ Silent(w.gf, Q \cup F)
    /\ Kept(w.gf, U \cup Q)

\* What the fields of a record may be.
LEMMA SocketsOf ==
    ASSUME NEW gf \in [Cell -> GetFile], NEW c \in Cell
    PROVE  /\ gf[c].socket \in Fd \cup {-1}
           /\ gf[c].deleted \in BOOLEAN /\ gf[c].write \in BOOLEAN /\ gf[c].realfile \in BOOLEAN
           /\ gf[c].key \in Key \cup {Nil} /\ gf[c].kind \in {"get", "send"}
<1>1. gf[c] \in GetFile  OBVIOUS
<1> QED  BY <1>1 DEF GetFile

\* The fields that stay.
LEMMA SameFields ==
    ASSUME NEW gf, NEW h, SameData(gf, h), NEW c \in Cell
    PROVE  h[c].socket = gf[c].socket /\ h[c].deleted = gf[c].deleted
           /\ h[c].key = gf[c].key /\ h[c].kind = gf[c].kind
           /\ h[c].write = gf[c].write /\ h[c].realfile = gf[c].realfile
  BY Zenon DEF SameData

\* Only the descriptors of the records of U matter to Wired.
LEMMA WiredFrame ==
    ASSUME NEW m, NEW gf, NEW h, NEW kernel, NEW U, \A c \in U : h[c].socket = gf[c].socket,
           Wired(m, gf, kernel, U)
    PROVE  Wired(m, h, kernel, U)
  BY DEF Wired

\* ... and only descriptors and marks to Silent and Kept.
LEMMA SilentFrame ==
    ASSUME NEW gf, NEW h, NEW S, NEW R, SameData(gf, h), S \subseteq Cell, R \subseteq S
    PROVE  /\ Silent(gf, S) => Silent(h, R)
           /\ Kept(gf, S) => Kept(h, R)
  BY Zenon DEF Silent, Kept, SameData

\* Only the links of the records change.
LEMMA WorldRelinked ==
    ASSUME NEW w, NEW T, NEW U, NEW Q, NEW F, World(w, T, U, Q, F), NEW v \in Worlds,
           NEW T1, NEW Q1, NEW F1, NEW U1,
           SameData(w.gf, v.gf), v.sock_manager = w.sock_manager, v.kernel = w.kernel,
           v.live = w.live,
           DoubleChain(v.gf, v.transfer_struct, T1), DoubleChain(v.gf, v.Queued, Q1),
           Chain(v.gf, v.finished_struct, F1), 
           T1 \subseteq U1, Q1 \subseteq Q, F1 \subseteq F, U1 = U
    PROVE  World(v, T1, U1, Q1, F1)
<1>1. /\ U \cap Q = {} /\ U \cap F = {} /\ Q \cap F = {} /\ U \cup Q \cup F \subseteq w.live
      /\ w \in Worlds /\ Wired(w.sock_manager, w.gf, w.kernel, U)
      /\ Silent(w.gf, Q \cup F) /\ Kept(w.gf, U \cup Q)
  BY DEF World
<1>2. w.live \subseteq Cell  BY <1>1 DEF Worlds
<1>3. \A c \in U : v.gf[c].socket = w.gf[c].socket  BY <1>1, <1>2, SameFields
<1>4. Wired(v.sock_manager, v.gf, v.kernel, U1)  BY <1>1, <1>3, WiredFrame
<1>5. Silent(v.gf, Q1 \cup F1) /\ Kept(v.gf, U1 \cup Q1)
  <2>1. Q \cup F \subseteq Cell /\ U \cup Q \subseteq Cell /\ Q1 \cup F1 \subseteq Q \cup F
        /\ U1 \cup Q1 \subseteq U \cup Q
    BY <1>1, <1>2
  <2> QED  BY <1>1, <2>1, SilentFrame
<1>6. /\ U1 \cap Q1 = {} /\ U1 \cap F1 = {} /\ Q1 \cap F1 = {} /\ U1 \cup Q1 \cup F1 \subseteq v.live
  BY <1>1
<1> QED  BY <1>4, <1>5, <1>6, Zenon DEF World

\* break_from_list() on transfer_struct.
LEMMA BreakWorld ==
    ASSUME NEW w, NEW T, NEW U, NEW Q, NEW F, World(w, T, U, Q, F), NEW c \in T,
           NEW v, v = Break(w, c)
    PROVE  /\ World(v, T \ {c}, U, Q, F)
           /\ SameData(w.gf, v.gf)
           /\ v.sock_manager = w.sock_manager /\ v.kernel = w.kernel
           /\ v.live = w.live /\ v.gets = w.gets /\ v.sends = w.sends
<1>1. /\ w \in Worlds /\ DoubleChain(w.gf, w.transfer_struct, T)
      /\ DoubleChain(w.gf, w.Queued, Q) /\ Chain(w.gf, w.finished_struct, F)
      /\ T \subseteq U /\ U \cap Q = {} /\ U \cap F = {}
  BY DEF World
<1> DEFINE h == Unlink(w.gf, w.transfer_struct, c).gf
           first == Unlink(w.gf, w.transfer_struct, c).head
<1>2. v = [w EXCEPT !.gf = h, !.transfer_struct = first]  BY DEF Break
<1>3. w.gf \in [Cell -> GetFile]  BY <1>1 DEF Worlds
<1> HIDE DEF h, first
<1>4. /\ h \in [Cell -> GetFile] /\ SameData(w.gf, h) /\ SameLinks(w.gf, h, T)
      /\ DoubleChain(h, first, T \ {c})
  BY <1>1, <1>3, UnlinkChain DEF h, first
<1>5. first \in Cell \cup {Nil}  BY <1>4 DEF DoubleChain, Chain
<1>6. /\ v \in Worlds /\ v.gf = h /\ v.transfer_struct = first /\ v.live = w.live
      /\ v.sock_manager = w.sock_manager /\ v.kernel = w.kernel /\ v.Queued = w.Queued
      /\ v.finished_struct = w.finished_struct /\ v.gets = w.gets /\ v.sends = w.sends
  BY <1>1, <1>2, <1>4, <1>5 DEF Worlds
<1>7. Q \subseteq Cell \ T /\ F \subseteq Cell \ T  BY <1>1 DEF DoubleChain, Chain
<1>8. DoubleChain(h, w.Queued, Q) /\ Chain(h, w.finished_struct, F)
  BY <1>1, <1>4, <1>7, ChainFrame DEF SameLinks
<1> QED  BY <1>1, <1>4, <1>6, <1>8, WorldRelinked

\* break_from_list() on the queue.
LEMMA BreakFromQueueWorld ==
    ASSUME NEW w, NEW T, NEW U, NEW Q, NEW F, World(w, T, U, Q, F), NEW c \in Q,
           NEW v, v = BreakFromQueue(w, c)
    PROVE  /\ World(v, T, U, Q \ {c}, F)
           /\ SameData(w.gf, v.gf)
           /\ v.sock_manager = w.sock_manager /\ v.kernel = w.kernel
           /\ v.live = w.live /\ v.gets = w.gets /\ v.sends = w.sends
<1>1. /\ w \in Worlds /\ DoubleChain(w.gf, w.transfer_struct, T)
      /\ DoubleChain(w.gf, w.Queued, Q) /\ Chain(w.gf, w.finished_struct, F)
      /\ T \subseteq U /\ U \cap Q = {} /\ Q \cap F = {}
  BY DEF World
<1> DEFINE h == Unlink(w.gf, w.Queued, c).gf
           first == Unlink(w.gf, w.Queued, c).head
<1>2. v = [w EXCEPT !.gf = h, !.Queued = first]  BY DEF BreakFromQueue
<1>3. w.gf \in [Cell -> GetFile]  BY <1>1 DEF Worlds
<1> HIDE DEF h, first
<1>4. /\ h \in [Cell -> GetFile] /\ SameData(w.gf, h) /\ SameLinks(w.gf, h, Q)
      /\ DoubleChain(h, first, Q \ {c})
  BY <1>1, <1>3, UnlinkChain DEF h, first
<1>5. first \in Cell \cup {Nil}  BY <1>4 DEF DoubleChain, Chain
<1>6. /\ v \in Worlds /\ v.gf = h /\ v.Queued = first /\ v.live = w.live
      /\ v.sock_manager = w.sock_manager /\ v.kernel = w.kernel
      /\ v.transfer_struct = w.transfer_struct
      /\ v.finished_struct = w.finished_struct /\ v.gets = w.gets /\ v.sends = w.sends
  BY <1>1, <1>2, <1>4, <1>5 DEF Worlds
<1>7. T \subseteq Cell \ Q /\ F \subseteq Cell \ Q  BY <1>1 DEF DoubleChain, Chain
<1>8. DoubleChain(h, w.transfer_struct, T) /\ Chain(h, w.finished_struct, F)
  BY <1>1, <1>4, <1>7, ChainFrame DEF SameLinks
<1> QED  BY <1>1, <1>4, <1>6, <1>8, WorldRelinked

\* add_to_transfer_list().
LEMMA AddWorld ==
    ASSUME NEW w, NEW T, NEW U, NEW Q, NEW F, World(w, T, U, Q, F), NEW c \in U \ T,
           NEW v, v = AddToTransferList(w, c)
    PROVE  /\ World(v, T \cup {c}, U, Q, F)
           /\ SameData(w.gf, v.gf)
           /\ v.sock_manager = w.sock_manager /\ v.kernel = w.kernel
           /\ v.live = w.live /\ v.gets = w.gets /\ v.sends = w.sends
<1>1. /\ w \in Worlds /\ DoubleChain(w.gf, w.transfer_struct, T)
      /\ DoubleChain(w.gf, w.Queued, Q) /\ Chain(w.gf, w.finished_struct, F)
      /\ T \subseteq U /\ U \cap Q = {} /\ U \cap F = {} /\ U \subseteq w.live
  BY DEF World
<1> DEFINE h == LinkLast(w, w.transfer_struct, c).gf
           first == LinkLast(w, w.transfer_struct, c).head
<1>2. v = [w EXCEPT !.gf = h, !.transfer_struct = first]  BY DEF AddToTransferList
<1>3. w.gf \in [Cell -> GetFile] /\ "gf" \in DOMAIN w /\ c \in Cell  BY <1>1 DEF Worlds
<1> HIDE DEF h, first
<1>4. /\ h \in [Cell -> GetFile] /\ SameData(w.gf, h) /\ SameLinks(w.gf, h, T \cup {c})
      /\ DoubleChain(h, first, T \cup {c})
  BY <1>1, <1>3, LinkLastChain DEF h, first
<1>5. first \in Cell \cup {Nil}  BY <1>4 DEF DoubleChain, Chain
<1>6. /\ v \in Worlds /\ v.gf = h /\ v.transfer_struct = first /\ v.live = w.live
      /\ v.sock_manager = w.sock_manager /\ v.kernel = w.kernel /\ v.Queued = w.Queued
      /\ v.finished_struct = w.finished_struct /\ v.gets = w.gets /\ v.sends = w.sends
  BY <1>1, <1>2, <1>4, <1>5 DEF Worlds
<1>7. Q \subseteq Cell \ (T \cup {c}) /\ F \subseteq Cell \ (T \cup {c})
  BY <1>1 DEF DoubleChain, Chain
<1>8. DoubleChain(h, w.Queued, Q) /\ Chain(h, w.finished_struct, F)
  BY <1>1, <1>4, <1>7, ChainFrame DEF SameLinks
<1>9. T \cup {c} \subseteq U  BY <1>1
<1> QED  BY <1>1, <1>4, <1>6, <1>8, <1>9, WorldRelinked

----------------------------------------------------------------------------
(* Records *)

SameLists(w, v) ==
    /\ v.live = w.live /\ v.transfer_struct = w.transfer_struct
    /\ v.Queued = w.Queued /\ v.finished_struct = w.finished_struct

SameCounts(w, v) == v.gets = w.gets /\ v.sends = w.sends

\* One record is written to.
Put(w, c, r) == [w EXCEPT !.gf = [w.gf EXCEPT ![c] = r]]

Writes(w, v, c, r) == v.gf[c] = r /\ \A d \in Cell : d # c => v.gf[d] = w.gf[d]

\* Nothing but the record changes.
LEMMA Rewritten ==
    ASSUME NEW w \in Worlds, NEW c \in Cell, NEW r \in GetFile, NEW v,
           v = Put(w, c, r)
    PROVE  /\ v \in Worlds /\ Writes(w, v, c, r)
           /\ v.live = w.live /\ v.transfer_struct = w.transfer_struct /\ v.Queued = w.Queued
           /\ v.finished_struct = w.finished_struct /\ v.sock_manager = w.sock_manager
           /\ v.kernel = w.kernel /\ v.gets = w.gets /\ v.sends = w.sends
<1>1. w.gf \in [Cell -> GetFile]  BY DEF Worlds
<1>2. [w.gf EXCEPT ![c] = r] \in [Cell -> GetFile]  BY <1>1
<1>3. v.gf = [w.gf EXCEPT ![c] = r] /\ v \in Worlds  BY <1>2 DEF Worlds, Put
<1>4. Writes(w, v, c, r)  BY <1>1, <1>3 DEF Writes
<1> QED  BY <1>3, <1>4 DEF Worlds, Put

\* A record that stays where it is, with the connection it has.
SamePlace(r, q) == q.next = r.next /\ q.prev = r.prev /\ q.socket = r.socket
                   /\ q.deleted = r.deleted

\* The lists and the sockets are what they were.
LEMMA WorldRewritten ==
    ASSUME NEW w, NEW T, NEW U, NEW Q, NEW F, World(w, T, U, Q, F), NEW v \in Worlds,
           \A d \in Cell : SamePlace(w.gf[d], v.gf[d]),
           v.live = w.live, v.transfer_struct = w.transfer_struct, v.Queued = w.Queued,
           v.finished_struct = w.finished_struct, v.sock_manager = w.sock_manager,
           v.kernel = w.kernel
    PROVE  World(v, T, U, Q, F)
<1>1. /\ w \in Worlds /\ DoubleChain(w.gf, w.transfer_struct, T)
      /\ DoubleChain(w.gf, w.Queued, Q) /\ Chain(w.gf, w.finished_struct, F)
      /\ T \subseteq U /\ U \cap Q = {} /\ U \cap F = {} /\ Q \cap F = {}
      /\ U \cup Q \cup F \subseteq w.live
      /\ Wired(w.sock_manager, w.gf, w.kernel, U)
      /\ Silent(w.gf, Q \cup F) /\ Kept(w.gf, U \cup Q)
  BY DEF World
<1>2. w.live \subseteq Cell  BY <1>1 DEF Worlds
<1>3. \A d \in Cell : /\ v.gf[d].next = w.gf[d].next /\ v.gf[d].prev = w.gf[d].prev
                      /\ v.gf[d].socket = w.gf[d].socket
  BY Zenon DEF SamePlace
<1>4. T \subseteq Cell /\ Q \subseteq Cell /\ F \subseteq Cell /\ U \subseteq Cell  BY <1>1, <1>2
<1>5. /\ DoubleChain(v.gf, v.transfer_struct, T) /\ DoubleChain(v.gf, v.Queued, Q)
      /\ Chain(v.gf, v.finished_struct, F)
  BY ZenonT(60), <1>1, <1>3, <1>4, ChainFrame
<1>6. Wired(v.sock_manager, v.gf, v.kernel, U)  BY <1>1, <1>3, <1>4, WiredFrame
<1>7. Silent(v.gf, Q \cup F)  BY <1>1, <1>3, <1>4 DEF Silent
<1>8. Kept(v.gf, U \cup Q)  BY <1>1, <1>4, Zenon DEF Kept, SamePlace
<1> QED  BY <1>1, <1>5, <1>6, <1>7, <1>8, Zenon DEF World

\* A handler takes a record up, or lets go of one no socket leads to.
LEMMA WorldTaken ==
    ASSUME NEW w, NEW T, NEW U, NEW Q, NEW F, World(w, T, U, Q, F), NEW c \in w.live,
           c \notin Q, c \notin F, w.gf[c].socket = -1, ~w.gf[c].deleted
    PROVE  World(w, T, U \cup {c}, Q, F)
<1>1. /\ w \in Worlds /\ DoubleChain(w.gf, w.transfer_struct, T)
      /\ DoubleChain(w.gf, w.Queued, Q) /\ Chain(w.gf, w.finished_struct, F)
      /\ T \subseteq U /\ U \cap Q = {} /\ U \cap F = {} /\ Q \cap F = {}
      /\ U \cup Q \cup F \subseteq w.live
      /\ Wired(w.sock_manager, w.gf, w.kernel, U)
      /\ Silent(w.gf, Q \cup F) /\ Kept(w.gf, U \cup Q)
  BY DEF World
<1>2. Wired(w.sock_manager, w.gf, w.kernel, U \cup {c})  BY <1>1 DEF Wired
<1>3. Kept(w.gf, (U \cup {c}) \cup Q)  BY <1>1, Zenon DEF Kept
<1>4. /\ T \subseteq U \cup {c} /\ (U \cup {c}) \cap Q = {} /\ (U \cup {c}) \cap F = {}
      /\ (U \cup {c}) \cup Q \cup F \subseteq w.live
  BY <1>1
<1> QED  BY <1>1, <1>2, <1>3, <1>4, Zenon DEF World

\* The record let go of is of no list and no socket.
LEMMA WorldDropped ==
    ASSUME NEW w, NEW T, NEW U, NEW Q, NEW F, World(w, T, U, Q, F), NEW c \in U \ T,
           \A s \in Fd : w.sock_manager.slot[s].info # c
    PROVE  World(w, T, U \ {c}, Q, F)
<1>1. /\ w \in Worlds /\ DoubleChain(w.gf, w.transfer_struct, T)
      /\ DoubleChain(w.gf, w.Queued, Q) /\ Chain(w.gf, w.finished_struct, F)
      /\ T \subseteq U /\ U \cap Q = {} /\ U \cap F = {} /\ Q \cap F = {}
      /\ U \cup Q \cup F \subseteq w.live
      /\ Wired(w.sock_manager, w.gf, w.kernel, U)
      /\ Silent(w.gf, Q \cup F) /\ Kept(w.gf, U \cup Q)
  BY DEF World
<1>2. Wired(w.sock_manager, w.gf, w.kernel, U \ {c})  BY <1>1 DEF Wired
<1>3. Kept(w.gf, (U \ {c}) \cup Q)  BY <1>1, Zenon DEF Kept
<1>4. /\ T \subseteq U \ {c} /\ (U \ {c}) \cap Q = {} /\ (U \ {c}) \cap F = {}
      /\ (U \ {c}) \cup Q \cup F \subseteq w.live
  BY <1>1
<1> QED  BY <1>1, <1>2, <1>3, <1>4, Zenon DEF World

\* A record without a connection is put on finished_struct.
LEMMA PutOnFinishedWorld ==
    ASSUME NEW w, NEW T, NEW U, NEW Q, NEW F, World(w, T, U, Q, F), NEW c \in U \ T,
           w.gf[c].socket = -1, NEW v, v = PutOnFinished(w, c)
    PROVE  /\ World(v, T, U \ {c}, Q, F \cup {c})
           /\ \A d \in Cell : d # c => v.gf[d] = w.gf[d]
           /\ v.sock_manager = w.sock_manager /\ v.kernel = w.kernel
           /\ v.live = w.live /\ v.gets = w.gets /\ v.sends = w.sends
<1>1. /\ w \in Worlds /\ DoubleChain(w.gf, w.transfer_struct, T)
      /\ DoubleChain(w.gf, w.Queued, Q) /\ Chain(w.gf, w.finished_struct, F)
      /\ T \subseteq U /\ U \cap Q = {} /\ U \cap F = {} /\ Q \cap F = {}
      /\ U \cup Q \cup F \subseteq w.live
      /\ Wired(w.sock_manager, w.gf, w.kernel, U)
      /\ Silent(w.gf, Q \cup F) /\ Kept(w.gf, U \cup Q)
  BY DEF World
<1>2. w.live \subseteq Cell /\ w.gf \in [Cell -> GetFile] /\ w.finished_struct \in Cell \cup {Nil}
  BY <1>1 DEF Worlds
<1>3. T \subseteq Cell /\ Q \subseteq Cell /\ F \subseteq Cell /\ U \subseteq Cell /\ c \in Cell
      /\ c \notin F /\ c \notin Q /\ c \notin T
  BY <1>1, <1>2
<1> DEFINE r == [w.gf[c] EXCEPT !.next = w.finished_struct]
           h == [w.gf EXCEPT ![c] = r]
           u == [w EXCEPT !.gf = h]
<1>4. v = [u EXCEPT !.finished_struct = c]
  <2>1. u = [w EXCEPT !.gf[c].next = w.finished_struct]  OBVIOUS
  <2> QED  BY <2>1 DEF PutOnFinished
<1>5. w.gf[c] \in GetFile  BY <1>2, <1>3
<1>6. r \in GetFile /\ r.next = w.finished_struct /\ r.socket = w.gf[c].socket
  BY <1>2, <1>5 DEF GetFile
<1>7. h \in [Cell -> GetFile] /\ h[c] = r /\ \A d \in Cell : d # c => h[d] = w.gf[d]
  BY <1>2, <1>3, <1>6
<1> HIDE DEF r, h
<1>8. /\ v \in Worlds /\ v.gf = h /\ v.finished_struct = c /\ v.live = w.live
      /\ v.sock_manager = w.sock_manager /\ v.kernel = w.kernel /\ v.Queued = w.Queued
      /\ v.transfer_struct = w.transfer_struct /\ v.gets = w.gets /\ v.sends = w.sends
  BY <1>1, <1>3, <1>4, <1>7 DEF Worlds
<1>9. DoubleChain(h, w.transfer_struct, T) /\ DoubleChain(h, w.Queued, Q)
  BY <1>1, <1>3, <1>7, ChainFrame
<1>10. Chain(h, c, F \cup {c})
  <2>1. \A d \in F : h[d].next = w.gf[d].next  BY <1>3, <1>7
  <2>2. h[c].next = w.finished_struct  BY <1>6, <1>7
  <2> QED  BY <1>1, <1>3, <2>1, <2>2, ChainPush
<1>11. Wired(w.sock_manager, h, w.kernel, U \ {c})
  <2>1. \A d \in U : h[d].socket = w.gf[d].socket  BY <1>3, <1>6, <1>7
  <2>2. Wired(w.sock_manager, h, w.kernel, U)  BY <1>1, <2>1, WiredFrame
  <2>3. h[c].socket = -1  BY <1>6, <1>7
  <2>4. \A s \in Fd : s # -1  BY FdFinite
  <2> QED  BY <2>2, <2>3, <2>4 DEF Wired
<1>12. Silent(h, Q \cup (F \cup {c}))  BY <1>1, <1>3, <1>6, <1>7 DEF Silent
<1>13. Kept(h, (U \ {c}) \cup Q)  BY <1>1, <1>3, <1>7, Zenon DEF Kept
<1>14. /\ T \subseteq U \ {c} /\ (U \ {c}) \cap Q = {} /\ (U \ {c}) \cap (F \cup {c}) = {}
       /\ Q \cap (F \cup {c}) = {} /\ (U \ {c}) \cup Q \cup (F \cup {c}) \subseteq w.live
  BY <1>1, <1>3
<1>15. World(v, T, U \ {c}, Q, F \cup {c})
  BY <1>8, <1>9, <1>10, <1>11, <1>12, <1>13, <1>14, Zenon DEF World
<1>16. \A d \in Cell : d # c => v.gf[d] = w.gf[d]  BY <1>7, <1>8
<1> QED  BY <1>8, <1>15, <1>16

\* The sockets and the records' fields for them change.
SameLink(r, q) == q.next = r.next /\ q.prev = r.prev /\ q.deleted = r.deleted

\* World holds again when Wired does.
LEMMA WorldWired ==
    ASSUME NEW w, NEW T, NEW U, NEW Q, NEW F, World(w, T, U, Q, F), NEW v \in Worlds,
           NEW V, T \subseteq V, V \subseteq U,
           \A d \in Cell : SameLink(w.gf[d], v.gf[d]),
           \A d \in Cell \ U : v.gf[d].socket = w.gf[d].socket,
           v.live = w.live, v.transfer_struct = w.transfer_struct, v.Queued = w.Queued,
           v.finished_struct = w.finished_struct,
           Wired(v.sock_manager, v.gf, v.kernel, V)
    PROVE  World(v, T, V, Q, F)
<1>1. /\ w \in Worlds /\ DoubleChain(w.gf, w.transfer_struct, T)
      /\ DoubleChain(w.gf, w.Queued, Q) /\ Chain(w.gf, w.finished_struct, F)
      /\ T \subseteq U /\ U \cap Q = {} /\ U \cap F = {} /\ Q \cap F = {}
      /\ U \cup Q \cup F \subseteq w.live
      /\ Silent(w.gf, Q \cup F) /\ Kept(w.gf, U \cup Q)
  BY DEF World
<1>2. w.live \subseteq Cell  BY <1>1 DEF Worlds
<1>3. \A d \in Cell : v.gf[d].next = w.gf[d].next /\ v.gf[d].prev = w.gf[d].prev
  BY Zenon DEF SameLink
<1>4. T \subseteq Cell /\ Q \subseteq Cell /\ F \subseteq Cell /\ U \subseteq Cell  BY <1>1, <1>2
<1>5. /\ DoubleChain(v.gf, v.transfer_struct, T) /\ DoubleChain(v.gf, v.Queued, Q)
      /\ Chain(v.gf, v.finished_struct, F)
  BY ZenonT(60), <1>1, <1>3, <1>4, ChainFrame
<1>6. Q \cup F \subseteq Cell \ U  BY <1>1, <1>4
<1>7. Silent(v.gf, Q \cup F)  BY <1>1, <1>6 DEF Silent
<1>8. V \cup Q \subseteq U \cup Q /\ V \cup Q \subseteq Cell  BY <1>4
<1>9. Kept(v.gf, V \cup Q)  BY <1>1, <1>8, Zenon DEF Kept, SameLink
<1>10. V \cap Q = {} /\ V \cap F = {} /\ V \cup Q \cup F \subseteq v.live  BY <1>1
<1> QED  BY <1>1, <1>5, <1>7, <1>9, <1>10, Zenon DEF World

----------------------------------------------------------------------------
(* The table of sockets *)

\* The tables are those SocketTable_proofs is about.
LEMMA TablesSound ==
    ASSUME NEW m
    PROVE  m \in Tables <=> Sound(m, Cell \cup {Nil}, Handlers \cup {Nil}, {0})
  BY DEF Tables, Sound, TableType

\* A registered socket's slot is in use.
LEMMA RegisteredSlot ==
    ASSUME NEW m \in Tables, NEW s \in Registered(m)
    PROVE  s \in Fd /\ CheckSocket(m, s) /\ Releases(m, s) /\ m.slot[s].is_read = s
<1>1. Sound(m, Cell \cup {Nil}, Handlers \cup {Nil}, {0})  BY TablesSound
<1>2. s \in Fd /\ m.slot[s].is_read > 0 /\ s \in Int /\ s > 0  BY FdFinite DEF Registered
<1>3. CheckSocket(m, s)  BY <1>1, <1>2, UncheckedIsFree DEF Sound
<1>4. m.slot[s].is_read \in {0, -1, s}  BY <1>1, <1>2 DEF Sound, SlotsSound
<1>5. m.slot[s].is_read = s  BY <1>2, <1>4
<1>6. m.slot[s].is_read > -1  BY <1>2, <1>5
<1> QED  BY <1>2, <1>3, <1>5, <1>6 DEF Releases

\* What a slot may hold.
LEMMA SlotOf ==
    ASSUME NEW m \in Tables, NEW s \in Fd
    PROVE  /\ m.slot[s] \in SlotType(Cell \cup {Nil}, Handlers \cup {Nil}, {0})
           /\ m.slot[s].info \in Cell \cup {Nil} /\ m.slot[s].func_read \in Handlers \cup {Nil}
           /\ s \notin Registered(m) => m.slot[s].func_read = Nil
<1>1. m.slot[s] \in SlotType(Cell \cup {Nil}, Handlers \cup {Nil}, {0})  BY DEF Tables
<1>2. m.slot[s].is_read # s => m.slot[s].func_read = Nil  BY DEF Tables, SlotsSound
<1>3. m.slot[s].is_read = s => s \in Registered(m)  BY FdFinite DEF Registered
<1> QED  BY <1>1, <1>2, <1>3 DEF SlotType

\* What a slot leads to; one that is not in use to nothing.
LEMMA InfoOf ==
    ASSUME NEW m \in Tables, NEW s \in Fd, s \notin Registered(m) => m.slot[s].info = Nil
    PROVE  GetSocketInfo(m, s) = m.slot[s].info
<1>1. Sound(m, Cell \cup {Nil}, Handlers \cup {Nil}, {0})  BY TablesSound
<1>2. CASE CheckSocket(m, s)  BY <1>2 DEF GetSocketInfo
<1>3. CASE ~CheckSocket(m, s)
  <2>1. s \notin Registered(m)  BY <1>1, <1>3, UncheckedIsFree DEF Sound
  <2> QED  BY <1>3, <2>1 DEF GetSocketInfo
<1> QED  BY <1>2, <1>3

\* The table n is m but for the slot of s.
OtherSlots(m, n, s) == \A t \in Fd : t # s => n.slot[t] = m.slot[t]

\* close_socketread().
LEMMA CloseTable ==
    ASSUME NEW m \in Tables, NEW s \in Fd \cup {-1}, NEW n, n = CloseSocketRead(m, s)
    PROVE  /\ n \in Tables /\ Registered(n) = Registered(m) \ {s} /\ OtherSlots(m, n, s)
           /\ Releases(m, s) <=> s \in Registered(m)
           /\ s \in Fd => \/ n.slot[s].info = Nil /\ n.slot[s].func_read = Nil
                          \/ n.slot[s] = m.slot[s] /\ s \notin Registered(m)
           /\ CheckSocket(m, s) => n.slot[s] = ClosedSlot
<1>0. Sound(m, Cell \cup {Nil}, Handlers \cup {Nil}, {0})  BY TablesSound
<1>1. CASE s = -1
  <2>1. ~CheckSocket(m, s)  BY <1>1 DEF CheckSocket
  <2>2. n = m  BY <2>1 DEF CloseSocketRead
  <2>3. s \notin Fd  BY <1>1, FdFinite
  <2> QED  BY <2>1, <2>2, <2>3 DEF Releases, Registered, OtherSlots
<1>2. CASE s \in Fd
  <2>1. /\ Sound(n, Cell \cup {Nil}, Handlers \cup {Nil}, {0})
        /\ Registered(n) = Registered(m) \ {s}
    <3>1. Nil \in Cell \cup {Nil} /\ Nil \in Handlers \cup {Nil} /\ 0 \in {0}  OBVIOUS
    <3> QED  BY <1>0, <1>2, <3>1, CloseSocketReadSound
  <2>2. n \in Tables  BY <2>1, TablesSound
  <2>3. m.slot = [t \in Fd |-> m.slot[t]]  BY DEF Tables
  <2>4. Releases(m, s) <=> s \in Registered(m)
    <3>1. s \in Registered(m) => Releases(m, s)  BY RegisteredSlot
    <3>2. ASSUME Releases(m, s) PROVE s \in Registered(m)
      <4>1. m.slot[s].is_read \in {0, -1, s} /\ m.slot[s].is_read # 0 /\ m.slot[s].is_read > -1
        BY <1>2, <3>2 DEF Tables, SlotsSound, Releases, CheckSocket
      <4>2. m.slot[s].is_read = s /\ s > 0  BY <1>2, <4>1, FdFinite
      <4> QED  BY <1>2, <4>2 DEF Registered
    <3> QED  BY <3>1, <3>2
  <2>5. CASE ~CheckSocket(m, s)
    <3>1. n = m  BY <2>5 DEF CloseSocketRead
    <3>2. s \notin Registered(m)  BY <2>5, RegisteredSlot
    <3> QED  BY <2>1, <2>2, <2>4, <2>5, <3>1, <3>2 DEF OtherSlots
  <2>6. CASE CheckSocket(m, s)
    <3>1. n.slot = [m.slot EXCEPT ![s] = ClosedSlot]  BY <2>6 DEF CloseSocketRead
    <3>2. n.slot[s] = ClosedSlot /\ OtherSlots(m, n, s)  BY <1>2, <2>3, <3>1 DEF OtherSlots
    <3>3. ClosedSlot.info = Nil /\ ClosedSlot.func_read = Nil  BY DEF ClosedSlot
    <3> QED  BY <2>1, <2>2, <2>4, <3>2, <3>3
  <2> QED  BY <2>5, <2>6
<1> QED  BY <1>1, <1>2

\* add_socketread().
LEMMA AddTable ==
    ASSUME NEW m \in Tables, NEW s \in Fd \ Registered(m), NEW f \in Handlers,
           NEW n, n = AddSocketRead(m, s, f, Nil)
    PROVE  /\ n \in Tables /\ Registered(n) = Registered(m) \cup {s} /\ OtherSlots(m, n, s)
           /\ n.slot[s].info = m.slot[s].info /\ n.slot[s].func_read = f
<1>0. Sound(m, Cell \cup {Nil}, Handlers \cup {Nil}, {0})  BY TablesSound
<1>1. /\ Sound(n, Cell \cup {Nil}, Handlers \cup {Nil}, {0})
      /\ Registered(n) = Registered(m) \cup {s}
  <2>1. f \in Handlers \cup {Nil} /\ Nil \in Handlers \cup {Nil} /\ s \in Fd /\ s \notin Registered(m)
    OBVIOUS
  <2> QED  BY <1>0, <2>1, AddSocketReadSound
<1>2. n \in Tables  BY <1>1, TablesSound
<1>3. m.slot = [t \in Fd |-> m.slot[t]] /\ m.slot[s] \in SlotType(Cell \cup {Nil}, Handlers \cup {Nil}, {0})
  BY DEF Tables
<1>4. n.slot = [m.slot EXCEPT ![s] = [m.slot[s] EXCEPT !.is_read = s, !.func_read = f, !.func_write = Nil]]
  <2>1. ~(s > FdSetSize)  BY FdFinite, FdSetSizeAssumption
  <2> DEFINE new == Register(m, s, f, Nil)
  <2>2. n.slot = new  BY <2>1 DEF AddSocketRead
  <2>3. new = [m.slot EXCEPT ![s] = [m.slot[s] EXCEPT !.is_read = s, !.func_read = f, !.func_write = Nil]]
    BY <1>3 DEF Register
  <2> QED  BY <2>2, <2>3
<1> DEFINE x == [m.slot[s] EXCEPT !.is_read = s, !.func_read = f, !.func_write = Nil]
<1>5. x.info = m.slot[s].info /\ x.func_read = f
  BY <1>3 DEF SlotType
<1> HIDE DEF x
<1>6. n.slot[s] = x /\ OtherSlots(m, n, s)  BY <1>3, <1>4 DEF OtherSlots, x
<1> QED  BY <1>1, <1>2, <1>5, <1>6

Slots == SlotType(Cell \cup {Nil}, Handlers \cup {Nil}, {0})

Idle(x) == x.is_write <= 0 /\ x.time = 0 /\ x.func_read = Nil /\ x.func_write = Nil

\* A slot is written to.
LEMMA SlotTable ==
    ASSUME NEW m \in Tables, NEW s \in Fd, NEW x \in Slots, s \in Registered(m) \/ Idle(x),
           x.is_read = m.slot[s].is_read, x.is_write \in {0, -1, s},
           NEW n, n = SetSlot(m, s, x)
    PROVE  /\ n \in Tables /\ Registered(n) = Registered(m) /\ OtherSlots(m, n, s)
           /\ n.slot[s] = x
<1>0. Sound(m, Cell \cup {Nil}, Handlers \cup {Nil}, {0}) /\ s \in Fd
  BY TablesSound
<1>1. /\ Sound(n, Cell \cup {Nil}, Handlers \cup {Nil}, {0}) /\ Registered(n) = Registered(m)
  BY <1>0, SetSlotSound DEF Slots, Idle
<1>2. n \in Tables  BY <1>1, TablesSound
<1>3. m.slot = [t \in Fd |-> m.slot[t]] /\ n.slot = [m.slot EXCEPT ![s] = x]
  BY DEF Tables, SetSlot
<1>4. OtherSlots(m, n, s) /\ n.slot[s] = x  BY <1>0, <1>3 DEF OtherSlots
<1> QED  BY <1>1, <1>2, <1>4

\* set_socketinfo().
LEMMA InfoTable ==
    ASSUME NEW m \in Tables, NEW s \in Registered(m), NEW c \in Cell \cup {Nil},
           NEW n, n = SetSocketInfo(m, s, c)
    PROVE  /\ n \in Tables /\ Registered(n) = Registered(m) /\ OtherSlots(m, n, s)
           /\ n.slot[s].info = c /\ n.slot[s].func_read = m.slot[s].func_read
<1> DEFINE x == [m.slot[s] EXCEPT !.info = c]
<1>1. s \in Fd /\ CheckSocket(m, s)  BY RegisteredSlot
<1>2. n = SetSlot(m, s, x)  BY <1>1 DEF SetSocketInfo
<1>3. m.slot[s] \in Slots  BY <1>1, SlotOf DEF Slots
<1>4. /\ x \in Slots /\ x.info = c
      /\ x.is_read = m.slot[s].is_read /\ x.is_write = m.slot[s].is_write
      /\ x.func_read = m.slot[s].func_read
  BY <1>3 DEF Slots, SlotType
<1> HIDE DEF x
<1>5. m.slot[s].is_write \in {0, -1, s}  BY <1>1 DEF Tables, SlotsSound
<1>6. x.is_write \in {0, -1, s}  BY <1>4, <1>5
<1>7. x.is_read = m.slot[s].is_read  BY <1>1, <1>4
<1>8. /\ n \in Tables /\ Registered(n) = Registered(m) /\ OtherSlots(m, n, s)
      /\ n.slot[s] = x
  BY <1>1, <1>2, <1>4, <1>6, <1>7, SlotTable
<1> QED  BY <1>4, <1>8

ReadBy(m, s, f) == [m EXCEPT !.slot[s].func_read = f]

\* s->func_read = f.
LEMMA ReadTable ==
    ASSUME NEW m \in Tables, NEW s \in Registered(m), NEW f \in Handlers,
           NEW n, n = ReadBy(m, s, f)
    PROVE  /\ n \in Tables /\ Registered(n) = Registered(m) /\ OtherSlots(m, n, s)
           /\ n.slot[s].info = m.slot[s].info /\ n.slot[s].func_read = f
<1> DEFINE x == [m.slot[s] EXCEPT !.func_read = f]
<1>1. s \in Fd  BY RegisteredSlot
<1>2. n = SetSlot(m, s, x)  BY DEF SetSlot, ReadBy
<1>3. m.slot[s] \in Slots  BY <1>1, SlotOf DEF Slots
<1>4. /\ x \in Slots /\ x.info = m.slot[s].info
      /\ x.is_read = m.slot[s].is_read /\ x.is_write = m.slot[s].is_write /\ x.func_read = f
  BY <1>3 DEF Slots, SlotType
<1> HIDE DEF x
<1>5. m.slot[s].is_write \in {0, -1, s}  BY <1>1 DEF Tables, SlotsSound
<1>6. x.is_write \in {0, -1, s}  BY <1>4, <1>5
<1>7. x.is_read = m.slot[s].is_read  BY <1>1, <1>4
<1>8. /\ n \in Tables /\ Registered(n) = Registered(m) /\ OtherSlots(m, n, s)
      /\ n.slot[s] = x
  BY <1>1, <1>2, <1>4, <1>6, <1>7, SlotTable
<1> QED  BY <1>4, <1>8

\* s->func_write = f.
LEMMA WriteTable ==
    ASSUME NEW m \in Tables, NEW s \in Registered(m), NEW f \in Handlers,
           NEW n, n = WantWrite(m, s, f)
    PROVE  /\ n \in Tables /\ Registered(n) = Registered(m) /\ OtherSlots(m, n, s)
           /\ n.slot[s].info = m.slot[s].info /\ n.slot[s].func_read = m.slot[s].func_read
<1> DEFINE x == [m.slot[s] EXCEPT !.is_write = m.slot[s].is_read, !.func_write = f]
<1>1. s \in Fd /\ m.slot[s].is_read = s  BY RegisteredSlot
<1>2. n = SetSlot(m, s, x)  BY DEF WantWrite
<1>3. m.slot[s] \in Slots  BY <1>1, SlotOf DEF Slots
<1>4. /\ x \in Slots /\ x.info = m.slot[s].info
      /\ x.is_read = m.slot[s].is_read /\ x.is_write = s
      /\ x.func_read = m.slot[s].func_read
  BY <1>1, <1>3 DEF Slots, SlotType
<1> HIDE DEF x
<1>6. x.is_write \in {0, -1, s}  BY <1>4
<1>7. x.is_read = m.slot[s].is_read  BY <1>1, <1>4
<1>8. /\ n \in Tables /\ Registered(n) = Registered(m) /\ OtherSlots(m, n, s)
      /\ n.slot[s] = x
  BY <1>1, <1>2, <1>4, <1>6, <1>7, SlotTable
<1> QED  BY <1>4, <1>8
----------------------------------------------------------------------------
(* Sockets and records *)

\* The descriptors open after close_socketread().
Shut(m, kernel, s) == IF Releases(m, s) THEN kernel \ {s} ELSE kernel

\* close_socketread() of a socket that is of no record.
LEMMA CloseWired ==
    ASSUME NEW m \in Tables, NEW gf, NEW kernel, NEW U, Wired(m, gf, kernel, U),
           NEW s \in Fd \cup {-1}, s \in Fd => m.slot[s].info = Nil,
           NEW n, n = CloseSocketRead(m, s), NEW K, K = Shut(m, kernel, s)
    PROVE  n \in Tables /\ Wired(n, gf, K, U)
<1>1. /\ n \in Tables /\ Registered(n) = Registered(m) \ {s} /\ OtherSlots(m, n, s)
      /\ Releases(m, s) <=> s \in Registered(m)
      /\ s \in Fd => \/ n.slot[s].info = Nil /\ n.slot[s].func_read = Nil
                     \/ n.slot[s] = m.slot[s] /\ s \notin Registered(m)
  BY CloseTable
<1>2. Registered(m) \subseteq Fd  BY DEF Registered
<1>3. K = IF s \in Registered(m) THEN kernel \ {s} ELSE kernel  BY <1>1 DEF Shut
<1>4. /\ Registered(n) \subseteq K
      /\ Tight => K = Registered(n)
  BY <1>1, <1>3 DEF Wired
<1>5. \A t \in Fd : n.slot[t].info = m.slot[t].info  BY <1>1, Zenon DEF OtherSlots
<1>6. \A t \in Fd : n.slot[t].func_read \in Early => n.slot[t].info = Nil
  <2> SUFFICES ASSUME NEW t \in Fd, n.slot[t].func_read \in Early PROVE n.slot[t].info = Nil
    OBVIOUS
  <2>1. CASE t = s  BY <1>5, <2>1
  <2>2. CASE t # s  BY <1>1, <2>2 DEF Wired, OtherSlots
  <2> QED  BY <2>1, <2>2
<1>7. \A t \in Fd : t \notin Registered(n) => n.slot[t].info = Nil
  BY <1>1, <1>5 DEF Wired
<1>8. \A t \in Fd : n.slot[t].info # Nil => n.slot[t].info \in U /\ gf[n.slot[t].info].socket = t
  BY <1>5 DEF Wired
<1>9. \A c \in U : gf[c].socket # -1 =>
                      gf[c].socket \in Fd /\ n.slot[gf[c].socket].info = c
  BY <1>5 DEF Wired
<1> QED  BY <1>1, <1>4, <1>6, <1>7, <1>8, <1>9 DEF Wired

\* A handler changes; the slot leads where it led.
LEMMA ReadWired ==
    ASSUME NEW m, NEW gf, NEW kernel, NEW U, Wired(m, gf, kernel, U), NEW s \in Fd,
           NEW n, Registered(n) = Registered(m), OtherSlots(m, n, s),
           n.slot[s].info = m.slot[s].info,
           n.slot[s].func_read \in Early => m.slot[s].info = Nil
    PROVE  Wired(n, gf, kernel, U)
<1>1. \A t \in Fd : n.slot[t].info = m.slot[t].info  BY Zenon DEF OtherSlots
<1>2. \A t \in Fd : n.slot[t].func_read \in Early => n.slot[t].info = Nil
  <2> SUFFICES ASSUME NEW t \in Fd, n.slot[t].func_read \in Early PROVE n.slot[t].info = Nil
    OBVIOUS
  <2>1. CASE t = s  BY <1>1, <2>1
  <2>2. CASE t # s  BY <1>1, <2>2 DEF Wired, OtherSlots
  <2> QED  BY <2>1, <2>2
<1> QED  BY <1>1, <1>2 DEF Wired

\* A connection is registered; it is of no record yet.
LEMMA AddWired ==
    ASSUME NEW m \in Tables, NEW gf, NEW kernel, NEW U, Wired(m, gf, kernel, U),
           NEW s \in Fd \ kernel, NEW f \in Handlers,
           NEW n, n = AddSocketRead(m, s, f, Nil), NEW K, K = kernel \cup {s}
    PROVE  /\ n \in Tables /\ Wired(n, gf, K, U)
           /\ s \in Registered(n) /\ n.slot[s].info = Nil /\ n.slot[s].func_read = f
<1>1. s \in Fd \ Registered(m)  BY DEF Wired
<1>2. /\ n \in Tables /\ Registered(n) = Registered(m) \cup {s} /\ OtherSlots(m, n, s)
      /\ n.slot[s].info = m.slot[s].info /\ n.slot[s].func_read = f
  BY <1>1, AddTable
<1>3. m.slot[s].info = Nil  BY <1>1 DEF Wired
<1>4. \A t \in Fd : n.slot[t].info = m.slot[t].info  BY <1>2, Zenon DEF OtherSlots
<1>5. \A t \in Fd : n.slot[t].func_read \in Early => n.slot[t].info = Nil
  <2> SUFFICES ASSUME NEW t \in Fd, n.slot[t].func_read \in Early PROVE n.slot[t].info = Nil
    OBVIOUS
  <2>1. CASE t = s  BY <1>3, <1>4, <2>1
  <2>2. CASE t # s  BY <1>2, <1>4, <2>2 DEF Wired, OtherSlots
  <2> QED  BY <2>1, <2>2
<1>6. /\ Registered(n) \subseteq K
      /\ Tight => K = Registered(n)
  BY <1>2 DEF Wired
<1>7. Wired(n, gf, K, U)  BY <1>2, <1>3, <1>4, <1>5, <1>6 DEF Wired
<1> QED  BY <1>2, <1>3, <1>7

\* A record without a connection gets the registered socket s.
LEMMA JoinWired ==
    ASSUME NEW m \in Tables, NEW gf, NEW kernel, NEW U, Wired(m, gf, kernel, U),
           NEW s \in Registered(m), m.slot[s].info = Nil, m.slot[s].func_read \notin Early,
           U \subseteq Cell, NEW c \in U, gf[c].socket = -1,
           NEW h, h[c].socket = s, \A d \in U : d # c => h[d].socket = gf[d].socket,
           NEW n, n = SetSocketInfo(m, s, c)
    PROVE  n \in Tables /\ Wired(n, h, kernel, U)
<1>1. s \in Fd  BY RegisteredSlot
<1>2. c # Nil  BY CellAssumption
<1>3. /\ n \in Tables /\ Registered(n) = Registered(m) /\ OtherSlots(m, n, s)
      /\ n.slot[s].info = c /\ n.slot[s].func_read = m.slot[s].func_read
  BY InfoTable
<1>4. \A t \in Fd : t # s => n.slot[t] = m.slot[t]  BY <1>3 DEF OtherSlots
<1>5. \A t \in Fd : n.slot[t].func_read \in Early => n.slot[t].info = Nil
  BY <1>3, <1>4 DEF Wired
<1>6. \A t \in Fd : t \notin Registered(n) => n.slot[t].info = Nil
  BY <1>3, <1>4 DEF Wired
<1>7. \A t \in Fd : n.slot[t].info # Nil => n.slot[t].info \in U /\ h[n.slot[t].info].socket = t
  <2> SUFFICES ASSUME NEW t \in Fd, n.slot[t].info # Nil
               PROVE  n.slot[t].info \in U /\ h[n.slot[t].info].socket = t
    OBVIOUS
  <2>1. CASE t = s  BY <1>3, <2>1
  <2>2. CASE t # s
    <3>1. n.slot[t].info = m.slot[t].info  BY <1>4, <2>2
    <3>2. n.slot[t].info \in U /\ gf[n.slot[t].info].socket = t  BY <3>1 DEF Wired
    <3>3. n.slot[t].info # c  BY <3>2, FdFinite
    <3> QED  BY <3>2, <3>3
  <2> QED  BY <2>1, <2>2
<1>8. \A d \in U : h[d].socket # -1 => h[d].socket \in Fd /\ n.slot[h[d].socket].info = d
  <2> SUFFICES ASSUME NEW d \in U, h[d].socket # -1
               PROVE  h[d].socket \in Fd /\ n.slot[h[d].socket].info = d
    OBVIOUS
  <2>1. CASE d = c  BY <1>1, <1>3, <2>1
  <2>2. CASE d # c
    <3>1. h[d].socket \in Fd /\ m.slot[h[d].socket].info = d  BY <2>2 DEF Wired
    <3>2. h[d].socket # s  BY <3>1, CellAssumption
    <3> QED  BY <1>4, <3>1, <3>2
  <2> QED  BY <2>1, <2>2
<1> QED  BY <1>3, <1>5, <1>6, <1>7, <1>8 DEF Wired

\* The connection of a record is closed, and the record taken out of hand.
LEMMA EndWired ==
    ASSUME NEW m \in Tables, NEW gf, NEW kernel, NEW U, Wired(m, gf, kernel, U),
           U \subseteq Cell, NEW s \in Fd, m.slot[s].info # Nil,
           NEW h, \A d \in U : d # m.slot[s].info => h[d].socket = gf[d].socket,
           NEW n, n = CloseSocketRead(m, s), NEW K, K = Shut(m, kernel, s)
    PROVE  n \in Tables /\ Wired(n, h, K, U \ {m.slot[s].info})
<1> DEFINE c == m.slot[s].info
<1>0. s \in Registered(m) /\ c \in U /\ gf[c].socket = s  BY DEF Wired
<1>1. /\ n \in Tables /\ Registered(n) = Registered(m) \ {s} /\ OtherSlots(m, n, s)
      /\ Releases(m, s) <=> s \in Registered(m)
      /\ s \in Fd => \/ n.slot[s].info = Nil /\ n.slot[s].func_read = Nil
                     \/ n.slot[s] = m.slot[s] /\ s \notin Registered(m)
  BY CloseTable
<1>2. K = kernel \ {s}  BY <1>0, <1>1 DEF Shut
<1>3. Registered(n) \subseteq K /\ (Tight => K = Registered(n))
  BY <1>1, <1>2 DEF Wired
<1>4. n.slot[s].info = Nil  BY <1>0, <1>1
<1>5. \A t \in Fd : t # s => n.slot[t] = m.slot[t]  BY <1>1 DEF OtherSlots
<1> HIDE DEF c
<1>6. \A t \in Fd : n.slot[t].func_read \in Early => n.slot[t].info = Nil
  BY <1>4, <1>5 DEF Wired
<1>7. \A t \in Fd : t \notin Registered(n) => n.slot[t].info = Nil
  BY <1>1, <1>4, <1>5 DEF Wired
<1>8. \A t \in Fd : n.slot[t].info # Nil =>
                       n.slot[t].info \in U \ {c} /\ h[n.slot[t].info].socket = t
  <2> SUFFICES ASSUME NEW t \in Fd, n.slot[t].info # Nil
               PROVE  n.slot[t].info \in U \ {c} /\ h[n.slot[t].info].socket = t
    OBVIOUS
  <2>1. t # s  BY <1>4
  <2>2. n.slot[t].info = m.slot[t].info  BY <1>5, <2>1
  <2>3. n.slot[t].info \in U /\ gf[n.slot[t].info].socket = t  BY <2>2 DEF Wired
  <2>4. n.slot[t].info # c  BY <1>0, <2>1, <2>3
  <2> QED  BY <2>3, <2>4 DEF c
<1>9. \A d \in U \ {c} : h[d].socket # -1 => h[d].socket \in Fd /\ n.slot[h[d].socket].info = d
  <2> SUFFICES ASSUME NEW d \in U \ {c}, h[d].socket # -1
               PROVE  h[d].socket \in Fd /\ n.slot[h[d].socket].info = d
    OBVIOUS
  <2>1. h[d].socket = gf[d].socket  BY DEF c
  <2>2. h[d].socket \in Fd /\ m.slot[h[d].socket].info = d  BY <2>1 DEF Wired
  <2>3. h[d].socket # s  BY <2>2 DEF c
  <2> QED  BY <1>5, <2>2, <2>3
<1> QED  BY <1>1, <1>3, <1>6, <1>7, <1>8, <1>9 DEF Wired, c

----------------------------------------------------------------------------
(* What the functions on worlds leave *)

\* The parts of a world, of which a record's field is seldom all.
LEMMA WorldParts ==
    ASSUME NEW w, NEW T, NEW U, NEW Q, NEW F, World(w, T, U, Q, F)
    PROVE  /\ w \in Worlds /\ w.gf \in [Cell -> GetFile] /\ w.sock_manager \in Tables
           /\ T \subseteq U /\ U \cap Q = {} /\ U \cap F = {} /\ Q \cap F = {}
           /\ U \cup Q \cup F \subseteq w.live /\ w.live \subseteq Cell
           /\ Wired(w.sock_manager, w.gf, w.kernel, U)
           /\ w.kernel \subseteq Fd
  BY DEF World, Worlds

\* A socket's info: none, or a record it is the connection of.
LEMMA InfoWorld ==
    ASSUME NEW w, NEW T, NEW U, NEW Q, NEW F, World(w, T, U, Q, F), NEW s \in Fd
    PROVE  /\ Info(w, s) = w.sock_manager.slot[s].info
           /\ Info(w, s) # Nil =>
                /\ Info(w, s) \in U /\ w.gf[Info(w, s)].socket = s
                /\ ~w.gf[Info(w, s)].deleted /\ s \in Registered(w.sock_manager)
<1>1. w.sock_manager \in Tables /\ Wired(w.sock_manager, w.gf, w.kernel, U)  BY WorldParts
<1>2. s \notin Registered(w.sock_manager) => w.sock_manager.slot[s].info = Nil
  BY <1>1 DEF Wired
<1>3. Info(w, s) = w.sock_manager.slot[s].info  BY <1>1, <1>2, InfoOf DEF Info
<1>4. Kept(w.gf, U \cup Q)  BY DEF World
<1>5. Info(w, s) # Nil => /\ Info(w, s) \in U /\ w.gf[Info(w, s)].socket = s
                          /\ s \in Registered(w.sock_manager)
  BY <1>1, <1>3 DEF Wired
<1>6. Info(w, s) \in U => ~w.gf[Info(w, s)].deleted  BY <1>4, Zenon DEF Kept
<1> QED  BY <1>3, <1>5, <1>6

\* close_socketread() of a socket that leads to no record.
LEMMA CloseSockWorld ==
    ASSUME NEW w, NEW T, NEW U, NEW Q, NEW F, World(w, T, U, Q, F),
           NEW s \in Fd \cup {-1}, s \in Fd => Info(w, s) = Nil,
           NEW v, v = CloseSock(w, s)
    PROVE  /\ World(v, T, U, Q, F) /\ v.gf = w.gf
           /\ v.live = w.live /\ v.gets = w.gets /\ v.sends = w.sends
<1>1. /\ w \in Worlds /\ w.sock_manager \in Tables /\ w.kernel \subseteq Fd
      /\ Wired(w.sock_manager, w.gf, w.kernel, U)
  BY WorldParts
<1> DEFINE n == CloseSocketRead(w.sock_manager, s)
           K == Shut(w.sock_manager, w.kernel, s)
<1>2. s \in Fd => w.sock_manager.slot[s].info = Nil  BY InfoWorld
<1>3. n \in Tables /\ Wired(n, w.gf, K, U)  BY <1>1, <1>2, CloseWired
<1>4. K \in SUBSET Fd  BY <1>1 DEF Shut
<1>5. v = [w EXCEPT !.sock_manager = n, !.kernel = K]  BY DEF CloseSock, Shut
<1> HIDE DEF n, K
<1>6. /\ v \in Worlds /\ v.gf = w.gf /\ v.sock_manager = n /\ v.kernel = K
      /\ v.live = w.live /\ v.transfer_struct = w.transfer_struct /\ v.Queued = w.Queued
      /\ v.finished_struct = w.finished_struct /\ v.gets = w.gets /\ v.sends = w.sends
  BY <1>1, <1>3, <1>4, <1>5 DEF Worlds
<1>7. \A d \in Cell : SameLink(w.gf[d], v.gf[d])  BY <1>6 DEF SameLink
<1>8. T \subseteq U  BY WorldParts
<1>9. World(v, T, U, Q, F)  BY <1>3, <1>6, <1>7, <1>8, WorldWired
<1> QED  BY <1>6, <1>9

\* What nap_finished_file() leaves of the record its socket leads to.
Ended(r, q, next) == /\ q.next = next /\ q.prev = r.prev /\ q.socket = -1 /\ q.deleted
                     /\ q.key = r.key /\ q.kind = r.kind

\* nap_finished_file(), field by field.
LEMMA FinishFields ==
    ASSUME NEW w \in Worlds, NEW s \in Fd, NEW c \in Cell, Info(w, s) = c,
           ~w.gf[c].deleted, NEW v, v = Finish(w, s)
    PROVE  \E r \in GetFile :
              /\ Ended(w.gf[c], r, w.finished_struct) /\ Writes(w, v, c, r) /\ v \in Worlds
              /\ v.live = w.live /\ v.transfer_struct = w.transfer_struct
              /\ v.Queued = w.Queued /\ v.finished_struct = c /\ SameCounts(w, v)
              /\ v.sock_manager = CloseSocketRead(w.sock_manager, s)
              /\ v.kernel = Shut(w.sock_manager, w.kernel, s)
<1>1. w \in Worlds  OBVIOUS
<1>2. /\ w.gf \in [Cell -> GetFile] /\ w.finished_struct \in Cell \cup {Nil}
      /\ w.sock_manager \in Tables /\ w.kernel \subseteq Fd
  BY DEF Worlds
<1>3. c \in Cell /\ c # Nil  BY CellAssumption
<1>4. ~w.gf[c].deleted  OBVIOUS
<1> DEFINE n == CloseSocketRead(w.sock_manager, s)
           K == Shut(w.sock_manager, w.kernel, s)
           w1 == [PutOnFinished(w, c) EXCEPT !.gf[c].deleted = TRUE]
           r1 == [w.gf[c] EXCEPT !.next = w.finished_struct]
           r2 == [r1 EXCEPT !.deleted = TRUE]
           r  == [r2 EXCEPT !.socket = -1]
           g1 == [w.gf EXCEPT ![c] = r1]
           g2 == [g1 EXCEPT ![c] = r2]
           h  == [g2 EXCEPT ![c] = r]
           u0 == [w EXCEPT !.gf = g1]
           u1 == [u0 EXCEPT !.finished_struct = c]
           u2 == [u1 EXCEPT !.gf = g2]
           u3 == [u2 EXCEPT !.sock_manager = n]
           u4 == [u3 EXCEPT !.kernel = K]
           u5 == [u4 EXCEPT !.gf = h]
<1>5. w.gf[c] \in GetFile  BY <1>2, <1>3
<1>6. r1 \in GetFile /\ r1.next = w.finished_struct  BY <1>2, <1>5 DEF GetFile
<1>7. r2 \in GetFile /\ r2.next = w.finished_struct /\ r2.deleted  BY <1>6 DEF GetFile
<1>8. r \in GetFile /\ r.next = w.finished_struct /\ r.socket = -1  BY ZenonT(60), <1>7 DEF GetFile
<1> HIDE DEF r1, r2, r
<1>9. g1 \in [Cell -> GetFile] /\ g1[c] = r1 /\ \A d \in Cell : d # c => g1[d] = w.gf[d]
  BY <1>2, <1>3, <1>6
<1>10. g2 \in [Cell -> GetFile] /\ g2[c] = r2 /\ \A d \in Cell : d # c => g2[d] = w.gf[d]
  BY <1>3, <1>7, <1>9
<1>11. h \in [Cell -> GetFile] /\ h[c] = r /\ \A d \in Cell : d # c => h[d] = w.gf[d]
  BY <1>3, <1>8, <1>10
<1>12. v = u5
  <2>1. PutOnFinished(w, c) = u1
    <3>1. u0 = [w EXCEPT !.gf[c].next = w.finished_struct]  BY DEF r1
    <3> QED  BY <3>1 DEF PutOnFinished
  <2>2. /\ u1.gf = g1 /\ u1.sock_manager = w.sock_manager /\ u1.kernel = w.kernel
    <3> HIDE DEF g1
    <3> QED  BY <1>1, <1>9 DEF Worlds
  <2>3. w1 = u2
    <3>1. w1 = [u1 EXCEPT !.gf[c].deleted = TRUE]  BY <2>1
    <3>2. [u1 EXCEPT !.gf[c].deleted = TRUE]
             = [u1 EXCEPT !.gf = [u1.gf EXCEPT ![c] = [u1.gf[c] EXCEPT !.deleted = TRUE]]]
      OBVIOUS
    <3>3. [u1.gf[c] EXCEPT !.deleted = TRUE] = r2  BY <1>9, <2>2 DEF r2
    <3>4. [u1 EXCEPT !.gf[c].deleted = TRUE] = [u1 EXCEPT !.gf = g2]
      BY <2>2, <3>2, <3>3, Zenon
    <3> QED  BY <3>1, <3>4
  <2>4. CloseSock(w1, s) = u4
    <3>1. w1.sock_manager = w.sock_manager /\ w1.kernel = w.kernel
      <4> HIDE DEF g1, g2
      <4> QED  BY <1>1, <2>3 DEF Worlds
    <3> QED  BY <2>3, <3>1 DEF CloseSock, Shut
  <2>5. u4.gf = g2
    <3> HIDE DEF g1, g2, n, K
    <3> QED  BY <1>1 DEF Worlds
  <2>6. [CloseSock(w1, s) EXCEPT !.gf[c].socket = -1] = u5
    <3>1. [u4 EXCEPT !.gf[c].socket = -1]
             = [u4 EXCEPT !.gf = [u4.gf EXCEPT ![c] = [u4.gf[c] EXCEPT !.socket = -1]]]
      OBVIOUS
    <3>2. [u4.gf[c] EXCEPT !.socket = -1] = r  BY <1>10, <2>5 DEF r
    <3> QED  BY <2>4, <2>5, <3>1, <3>2, Zenon
  <2> QED  BY <1>3, <1>4, <2>6 DEF Finish
<1>13. n \in Tables
  <2>1. s \in Fd \cup {-1}  OBVIOUS
  <2> QED  BY <1>2, <2>1, CloseTable
<1>14. K \in SUBSET Fd  BY <1>2 DEF Shut
<1> HIDE DEF n, K, g1, g2, h
<1>15. /\ v \in Worlds /\ v.gf = h /\ v.finished_struct = c /\ v.live = w.live
       /\ v.sock_manager = n /\ v.kernel = K /\ v.Queued = w.Queued
       /\ v.transfer_struct = w.transfer_struct /\ v.gets = w.gets /\ v.sends = w.sends
  BY ZenonT(60), <1>1, <1>3, <1>9, <1>10, <1>11, <1>12, <1>13, <1>14 DEF Worlds
<1>16. Ended(w.gf[c], r, w.finished_struct)
  <2>1. /\ r1.next = w.finished_struct /\ r1.prev = w.gf[c].prev /\ r1.key = w.gf[c].key
        /\ r1.kind = w.gf[c].kind
    BY <1>2, <1>5 DEF r1, GetFile
  <2>2. /\ r2.next = r1.next /\ r2.prev = r1.prev /\ r2.key = r1.key /\ r2.kind = r1.kind
        /\ r2.deleted = TRUE
    BY <1>6 DEF r2, GetFile
  <2>3. /\ r.next = r2.next /\ r.prev = r2.prev /\ r.key = r2.key /\ r.kind = r2.kind
        /\ r.deleted = r2.deleted /\ r.socket = -1
    BY <1>7 DEF r, GetFile
  <2> QED  BY <2>1, <2>2, <2>3, Zenon DEF Ended
<1>17. Writes(w, v, c, r)  BY <1>11, <1>15, Zenon DEF Writes
<1>18. SameCounts(w, v)  BY <1>15 DEF SameCounts
<1> QED  BY <1>8, <1>15, <1>16, <1>17, <1>18 DEF n, K

\* The record c, off transfer_struct, is on finished_struct.
LEMMA EndedWorld ==
    ASSUME NEW w, NEW T, NEW U, NEW Q, NEW F, World(w, T, U, Q, F), NEW c \in U \ T,
           NEW r, Ended(w.gf[c], r, w.finished_struct),
           NEW v \in Worlds, Writes(w, v, c, r),
           v.live = w.live, v.transfer_struct = w.transfer_struct, v.Queued = w.Queued,
           v.finished_struct = c, Wired(v.sock_manager, v.gf, v.kernel, U \ {c})
    PROVE  World(v, T, U \ {c}, Q, F \cup {c})
<1>1. /\ w \in Worlds /\ DoubleChain(w.gf, w.transfer_struct, T)
      /\ DoubleChain(w.gf, w.Queued, Q) /\ Chain(w.gf, w.finished_struct, F)
      /\ T \subseteq U /\ U \cap Q = {} /\ U \cap F = {} /\ Q \cap F = {}
      /\ U \cup Q \cup F \subseteq w.live
      /\ Silent(w.gf, Q \cup F) /\ Kept(w.gf, U \cup Q)
  BY DEF World
<1>2. w.live \subseteq Cell  BY <1>1 DEF Worlds
<1>3. T \subseteq Cell /\ Q \subseteq Cell /\ F \subseteq Cell /\ U \subseteq Cell /\ c \in Cell
      /\ c \notin F /\ c \notin Q /\ c \notin T /\ c # Nil
  BY <1>1, <1>2, CellAssumption
<1> DEFINE h == v.gf
<1>4. r.next = w.finished_struct /\ r.socket = -1  BY Zenon DEF Ended
<1>5. h[c] = r /\ \A d \in Cell : d # c => h[d] = w.gf[d]  BY Zenon DEF Writes
<1>6. Wired(v.sock_manager, h, v.kernel, U \ {c})  OBVIOUS
<1> HIDE DEF h
<1>7. DoubleChain(h, w.transfer_struct, T) /\ DoubleChain(h, w.Queued, Q)
  BY <1>1, <1>3, <1>5, ChainFrame
<1>8. Chain(h, c, F \cup {c})
  <2>1. \A d \in F : h[d].next = w.gf[d].next  BY <1>3, <1>5
  <2>2. h[c].next = w.finished_struct  BY <1>4, <1>5
  <2> QED  BY <1>1, <1>3, <2>1, <2>2, ChainPush
<1>9. Silent(h, Q \cup (F \cup {c}))  BY <1>1, <1>3, <1>4, <1>5 DEF Silent
<1>10. Kept(h, (U \ {c}) \cup Q)  BY <1>1, <1>3, <1>5, Zenon DEF Kept
<1>11. /\ T \subseteq U \ {c} /\ (U \ {c}) \cap Q = {} /\ (U \ {c}) \cap (F \cup {c}) = {}
       /\ Q \cap (F \cup {c}) = {} /\ (U \ {c}) \cup Q \cup (F \cup {c}) \subseteq v.live
  BY <1>1, <1>3
<1> QED  BY <1>6, <1>7, <1>8, <1>9, <1>10, <1>11, Zenon DEF World, h

\* nap_finished_file() of a record taken off transfer_struct before.
LEMMA FinishWorld ==
    ASSUME NEW w, NEW T, NEW U, NEW Q, NEW F, World(w, T, U, Q, F), NEW s \in Fd,
           NEW c \in U \ T, Info(w, s) = c, NEW v, v = Finish(w, s)
    PROVE  /\ World(v, T, U \ {c}, Q, F \cup {c})
           /\ \A d \in Cell : d # c => v.gf[d] = w.gf[d]
           /\ v.live = w.live /\ v.gets = w.gets /\ v.sends = w.sends
<1>1. /\ w \in Worlds /\ w.sock_manager \in Tables /\ U \subseteq Cell
      /\ Wired(w.sock_manager, w.gf, w.kernel, U)
  BY WorldParts
<1>2. c \in Cell /\ c # Nil  BY <1>1, CellAssumption
<1>3. w.sock_manager.slot[s].info = c /\ ~w.gf[c].deleted  BY <1>2, InfoWorld
<1>4. PICK r \in GetFile :
              /\ Ended(w.gf[c], r, w.finished_struct) /\ Writes(w, v, c, r) /\ v \in Worlds
              /\ v.live = w.live /\ v.transfer_struct = w.transfer_struct
              /\ v.Queued = w.Queued /\ v.finished_struct = c /\ SameCounts(w, v)
              /\ v.sock_manager = CloseSocketRead(w.sock_manager, s)
              /\ v.kernel = Shut(w.sock_manager, w.kernel, s)
  BY <1>1, <1>2, <1>3, FinishFields
<1> DEFINE h == v.gf
<1>5. \A d \in Cell : d # c => h[d] = w.gf[d]  BY <1>4, Zenon DEF Writes
<1>6. Wired(v.sock_manager, h, v.kernel, U \ {c})
  <2>1. \A d \in U : d # c => h[d].socket = w.gf[d].socket  BY <1>1, <1>5
  <2> HIDE DEF h
  <2> QED  BY <1>1, <1>2, <1>3, <1>4, <2>1, EndWired
<1>7. World(v, T, U \ {c}, Q, F \cup {c})  BY <1>4, <1>6, EndedWorld
<1> QED  BY <1>4, <1>5, <1>7 DEF SameCounts

\* ... and of a socket that leads to none.
LEMMA FinishNone ==
    ASSUME NEW w, NEW T, NEW U, NEW Q, NEW F, World(w, T, U, Q, F),
           NEW s \in Fd \cup {-1}, Info(w, s) = Nil, NEW v, v = Finish(w, s)
    PROVE  /\ World(v, T, U, Q, F) /\ v.gf = w.gf
           /\ v.live = w.live /\ v.gets = w.gets /\ v.sends = w.sends
<1>1. v = CloseSock(w, s)  BY DEF Finish
<1> QED  BY <1>1, CloseSockWorld

----------------------------------------------------------------------------
(* Messages, handlers and new connections *)

\* A report to the server is but a count.
LEMMA TellFields ==
    ASSUME NEW w \in Worlds, NEW kind, NEW d \in Int, NEW v, v = Tell(w, kind, d)
    PROVE  /\ v \in Worlds /\ v.gf = w.gf /\ SameLists(w, v)
           /\ v.sock_manager = w.sock_manager /\ v.kernel = w.kernel
<1>1. Clip(w.gets + d) \in Counts /\ Clip(w.sends + d) \in Counts
  <2>1. w.gets \in Int /\ w.sends \in Int  BY DEF Worlds, Counts
  <2> QED  BY <2>1, SentBoundAssumption DEF Clip, Counts
<1> DEFINE a == Clip(w.gets + d)
           b == Clip(w.sends + d)
<1> HIDE DEF a, b
<1>2. v = [w EXCEPT !.gets = a] \/ v = [w EXCEPT !.sends = b]  BY DEF Tell, a, b
<1> QED  BY <1>1, <1>2 DEF Worlds, SameLists, a, b

\* s->func_read = f.
LEMMA ReadFields ==
    ASSUME NEW w \in Worlds, NEW s \in Registered(w.sock_manager), NEW f \in Handlers,
           NEW v, v = SetRead(w, s, f)
    PROVE  /\ v \in Worlds /\ v.gf = w.gf /\ SameLists(w, v) /\ SameCounts(w, v)
           /\ v.sock_manager = ReadBy(w.sock_manager, s, f) /\ v.kernel = w.kernel
<1> DEFINE n == ReadBy(w.sock_manager, s, f)
<1>1. w.sock_manager \in Tables  BY DEF Worlds
<1>2. n \in Tables  BY <1>1, ReadTable
<1>3. v = [w EXCEPT !.sock_manager = n]
  <2>1. v = [w EXCEPT !.sock_manager = [w.sock_manager EXCEPT !.slot[s].func_read = f]]
    BY DEF SetRead
  <2> QED  BY <2>1 DEF ReadBy
<1> HIDE DEF n
<1>4. v \in Worlds /\ v.sock_manager = n  BY <1>2, <1>3 DEF Worlds
<1>5. /\ v.gf = w.gf /\ SameLists(w, v) /\ SameCounts(w, v) /\ v.kernel = w.kernel
  BY <1>3 DEF Worlds, SameLists, SameCounts
<1> QED  BY <1>4, <1>5 DEF n

\* set_socketinfo().
LEMMA InfoFields ==
    ASSUME NEW w \in Worlds, NEW s \in Registered(w.sock_manager), NEW c \in Cell \cup {Nil},
           NEW v, v = SetInfo(w, s, c)
    PROVE  /\ v \in Worlds /\ v.gf = w.gf /\ SameLists(w, v) /\ SameCounts(w, v)
           /\ v.sock_manager = SetSocketInfo(w.sock_manager, s, c) /\ v.kernel = w.kernel
<1> DEFINE n == SetSocketInfo(w.sock_manager, s, c)
<1>1. w.sock_manager \in Tables  BY DEF Worlds
<1>2. n \in Tables  BY <1>1, InfoTable
<1>3. v = [w EXCEPT !.sock_manager = n]  BY DEF SetInfo
<1> HIDE DEF n
<1>4. v \in Worlds /\ v.sock_manager = n  BY <1>2, <1>3 DEF Worlds
<1>5. /\ v.gf = w.gf /\ SameLists(w, v) /\ SameCounts(w, v) /\ v.kernel = w.kernel
  BY <1>3 DEF Worlds, SameLists, SameCounts
<1> QED  BY <1>4, <1>5 DEF n

\* s->func_write = s->func_read = f.
LEMMA BothFields ==
    ASSUME NEW w \in Worlds, NEW s \in Registered(w.sock_manager), NEW f \in Handlers,
           NEW v, v = SetBoth(w, s, f)
    PROVE  /\ v \in Worlds /\ v.gf = w.gf /\ SameLists(w, v) /\ SameCounts(w, v)
           /\ v.sock_manager = WantWrite(ReadBy(w.sock_manager, s, f), s, f)
           /\ v.kernel = w.kernel
<1> DEFINE u == SetRead(w, s, f)
           n == WantWrite(ReadBy(w.sock_manager, s, f), s, f)
<1>1. /\ u \in Worlds /\ u.gf = w.gf /\ SameLists(w, u) /\ SameCounts(w, u)
      /\ u.sock_manager = ReadBy(w.sock_manager, s, f) /\ u.kernel = w.kernel
  BY ReadFields
<1>2. n \in Tables
  <2>1. w.sock_manager \in Tables  BY DEF Worlds
  <2>2. /\ ReadBy(w.sock_manager, s, f) \in Tables
        /\ s \in Registered(ReadBy(w.sock_manager, s, f))
    BY <2>1, ReadTable
  <2> QED  BY <2>2, WriteTable
<1>3. v = [u EXCEPT !.sock_manager = n]
  <2>1. v = [u EXCEPT !.sock_manager = WantWrite(u.sock_manager, s, f)]  BY DEF SetBoth
  <2> QED  BY <1>1, <2>1
<1> HIDE DEF n, u
<1>4. v \in Worlds /\ v.sock_manager = n  BY <1>1, <1>2, <1>3 DEF Worlds
<1>5. /\ v.gf = w.gf /\ SameLists(w, v) /\ SameCounts(w, v) /\ v.kernel = w.kernel
  BY <1>1, <1>3 DEF Worlds, SameLists, SameCounts
<1> QED  BY <1>4, <1>5 DEF n

\* A connection accepted or made, and registered.
LEMMA NewFields ==
    ASSUME NEW w \in Worlds, NEW s \in Fd \ w.kernel, NEW f \in Handlers,
           Registered(w.sock_manager) \subseteq w.kernel,
           NEW v, v = AddRead(Opened(w, s), s, f)
    PROVE  /\ v \in Worlds /\ v.gf = w.gf /\ SameLists(w, v) /\ SameCounts(w, v)
           /\ v.sock_manager = AddSocketRead(w.sock_manager, s, f, Nil)
           /\ v.kernel = w.kernel \cup {s}
<1> DEFINE n == AddSocketRead(w.sock_manager, s, f, Nil)
           K == w.kernel \cup {s}
           u == [w EXCEPT !.kernel = K]
<1>1. w.sock_manager \in Tables /\ K \in SUBSET Fd  BY DEF Worlds
<1>2. n \in Tables  BY <1>1, AddTable
<1>3. u.sock_manager = w.sock_manager  BY DEF Worlds
<1>4. v = [u EXCEPT !.sock_manager = n]  BY <1>3 DEF AddRead, Opened
<1> HIDE DEF n, K
<1>5. v \in Worlds /\ v.sock_manager = n /\ v.kernel = K  BY <1>1, <1>2, <1>4 DEF Worlds
<1>6. /\ v.gf = w.gf /\ SameLists(w, v) /\ SameCounts(w, v)
  BY <1>4 DEF Worlds, SameLists, SameCounts
<1> QED  BY <1>5, <1>6 DEF n, K

\* The world changes, but no record and no list.
LEMMA WorldSameRecords ==
    ASSUME NEW w, NEW T, NEW U, NEW Q, NEW F, World(w, T, U, Q, F), NEW v \in Worlds,
           v.gf = w.gf, SameLists(w, v), Wired(v.sock_manager, v.gf, v.kernel, U)
    PROVE  World(v, T, U, Q, F)
<1>1. \A d \in Cell : SameLink(w.gf[d], v.gf[d])  BY DEF SameLink
<1>2. T \subseteq U /\ U \subseteq U  BY WorldParts
<1> QED  BY <1>1, <1>2, WorldWired DEF SameLists

\* The server is told.
LEMMA TellWorld ==
    ASSUME NEW w, NEW T, NEW U, NEW Q, NEW F, World(w, T, U, Q, F), NEW kind, NEW d \in Int,
           NEW v, v = Tell(w, kind, d)
    PROVE  /\ World(v, T, U, Q, F) /\ v.gf = w.gf /\ SameLists(w, v)
           /\ v.sock_manager = w.sock_manager /\ v.kernel = w.kernel
<1>1. w \in Worlds /\ Wired(w.sock_manager, w.gf, w.kernel, U)  BY WorldParts
<1>2. /\ v \in Worlds /\ v.gf = w.gf /\ SameLists(w, v)
      /\ v.sock_manager = w.sock_manager /\ v.kernel = w.kernel
  BY <1>1, TellFields
<1>3. World(v, T, U, Q, F)  BY <1>1, <1>2, WorldSameRecords
<1> QED  BY <1>2, <1>3

\* A handler is set, an early one for a socket of no record only.
LEMMA ReadWorld ==
    ASSUME NEW w, NEW T, NEW U, NEW Q, NEW F, World(w, T, U, Q, F),
           NEW s \in Registered(w.sock_manager), NEW f \in Handlers,
           f \in Early => Info(w, s) = Nil, NEW v, v = SetRead(w, s, f)
    PROVE  /\ World(v, T, U, Q, F) /\ v.gf = w.gf /\ SameLists(w, v) /\ SameCounts(w, v)
           /\ s \in Registered(v.sock_manager) /\ Info(v, s) = Info(w, s)
           /\ v.sock_manager.slot[s].func_read = f
<1>1. w \in Worlds /\ w.sock_manager \in Tables /\ Wired(w.sock_manager, w.gf, w.kernel, U)
  BY WorldParts
<1>2. s \in Fd  BY DEF Registered
<1>3. /\ v \in Worlds /\ v.gf = w.gf /\ SameLists(w, v) /\ SameCounts(w, v)
      /\ v.sock_manager = ReadBy(w.sock_manager, s, f) /\ v.kernel = w.kernel
  BY <1>1, ReadFields
<1> DEFINE n == v.sock_manager
<1>4. /\ n \in Tables /\ Registered(n) = Registered(w.sock_manager)
      /\ OtherSlots(w.sock_manager, n, s)
      /\ n.slot[s].info = w.sock_manager.slot[s].info /\ n.slot[s].func_read = f
  BY <1>1, <1>3, ReadTable
<1>5. Info(w, s) = w.sock_manager.slot[s].info  BY <1>2, InfoWorld
<1>6. Wired(n, v.gf, v.kernel, U)
  <2> HIDE DEF n
  <2>1. n.slot[s].func_read \in Early => w.sock_manager.slot[s].info = Nil  BY <1>4, <1>5
  <2>2. Wired(n, w.gf, w.kernel, U)  BY <1>1, <1>2, <1>4, <2>1, ReadWired
  <2> QED  BY <1>3, <2>2
<1>7. World(v, T, U, Q, F)  BY <1>3, <1>6, WorldSameRecords
<1>8. Info(v, s) = n.slot[s].info  BY <1>2, <1>7, InfoWorld
<1> QED  BY <1>3, <1>4, <1>5, <1>7, <1>8

\* Both handlers are set.
LEMMA BothWorld ==
    ASSUME NEW w, NEW T, NEW U, NEW Q, NEW F, World(w, T, U, Q, F),
           NEW s \in Registered(w.sock_manager), NEW f \in Handlers,
           f \notin Early, NEW v, v = SetBoth(w, s, f)
    PROVE  /\ World(v, T, U, Q, F) /\ v.gf = w.gf /\ SameLists(w, v) /\ SameCounts(w, v)
           /\ Info(v, s) = Info(w, s)
<1>1. w \in Worlds /\ w.sock_manager \in Tables /\ Wired(w.sock_manager, w.gf, w.kernel, U)
  BY WorldParts
<1>2. s \in Fd  BY DEF Registered
<1> DEFINE m == ReadBy(w.sock_manager, s, f)
           n == v.sock_manager
<1>3. /\ v \in Worlds /\ v.gf = w.gf /\ SameLists(w, v) /\ SameCounts(w, v)
      /\ n = WantWrite(m, s, f) /\ v.kernel = w.kernel
  BY <1>1, BothFields
<1>4. /\ m \in Tables /\ Registered(m) = Registered(w.sock_manager)
      /\ OtherSlots(w.sock_manager, m, s)
      /\ m.slot[s].info = w.sock_manager.slot[s].info /\ m.slot[s].func_read = f
  BY <1>1, ReadTable
<1> HIDE DEF m, n
<1>5. /\ n \in Tables /\ Registered(n) = Registered(m) /\ OtherSlots(m, n, s)
      /\ n.slot[s].info = m.slot[s].info /\ n.slot[s].func_read = m.slot[s].func_read
  <2>1. s \in Registered(m)  BY <1>4
  <2> QED  BY <1>3, <1>4, <2>1, WriteTable
<1>6. Wired(n, v.gf, v.kernel, U)
  <2>1. OtherSlots(w.sock_manager, n, s)  BY <1>4, <1>5, Zenon DEF OtherSlots
  <2>2. /\ Registered(n) = Registered(w.sock_manager)
        /\ n.slot[s].info = w.sock_manager.slot[s].info
        /\ n.slot[s].func_read \in Early => w.sock_manager.slot[s].info = Nil
    BY <1>4, <1>5
  <2>3. Wired(n, w.gf, w.kernel, U)  BY <1>1, <1>2, <2>1, <2>2, ReadWired
  <2> QED  BY <1>3, <2>3
<1>7. World(v, T, U, Q, F)  BY <1>3, <1>6, WorldSameRecords DEF n
<1>8. Info(v, s) = n.slot[s].info  BY <1>2, <1>7, InfoWorld DEF n
<1>9. Info(w, s) = w.sock_manager.slot[s].info  BY <1>2, InfoWorld
<1> QED  BY <1>3, <1>4, <1>5, <1>7, <1>8, <1>9

\* A connection more is known, of no record yet.
LEMMA NewWorld ==
    ASSUME NEW w, NEW T, NEW U, NEW Q, NEW F, World(w, T, U, Q, F),
           NEW s \in FreeFd(w), NEW f \in Handlers,
           NEW v, v = AddRead(Opened(w, s), s, f)
    PROVE  /\ World(v, T, U, Q, F) /\ v.gf = w.gf /\ SameLists(w, v) /\ SameCounts(w, v)
           /\ s \in Registered(v.sock_manager) /\ Info(v, s) = Nil
           /\ v.sock_manager.slot[s].func_read = f
<1>1. w \in Worlds /\ w.sock_manager \in Tables /\ Wired(w.sock_manager, w.gf, w.kernel, U)
  BY WorldParts
<1>2. s \in Fd \ w.kernel  BY DEF FreeFd
<1>3. Registered(w.sock_manager) \subseteq w.kernel  BY <1>1 DEF Wired
<1> DEFINE n == v.sock_manager
           K == v.kernel
<1>4. /\ v \in Worlds /\ v.gf = w.gf /\ SameLists(w, v) /\ SameCounts(w, v)
      /\ n = AddSocketRead(w.sock_manager, s, f, Nil)
      /\ K = w.kernel \cup {s}
  BY <1>1, <1>2, <1>3, NewFields
<1> HIDE DEF n, K
<1>5. /\ n \in Tables /\ Wired(n, w.gf, K, U)
      /\ s \in Registered(n) /\ n.slot[s].info = Nil /\ n.slot[s].func_read = f
  BY <1>1, <1>2, <1>4, AddWired
<1>6. World(v, T, U, Q, F)
  <2>1. Wired(n, v.gf, K, U)  BY <1>4, <1>5
  <2> QED  BY <1>4, <2>1, WorldSameRecords DEF n, K
<1>7. Info(v, s) = n.slot[s].info  BY <1>2, <1>6, InfoWorld DEF n
<1> QED  BY <1>4, <1>5, <1>6, <1>7 DEF n

\* A record gets the registered socket s, and s leads to it.
LEMMA JoinWorld ==
    ASSUME NEW w, NEW T, NEW U, NEW Q, NEW F, World(w, T, U, Q, F),
           NEW s \in Registered(w.sock_manager), Info(w, s) = Nil,
           w.sock_manager.slot[s].func_read \notin Early,
           NEW c \in U, w.gf[c].socket = -1,
           NEW r \in GetFile, SameLink(w.gf[c], r), r.socket = s,
           NEW v \in Worlds, Writes(w, v, c, r), SameLists(w, v),
           v.sock_manager = SetSocketInfo(w.sock_manager, s, c), v.kernel = w.kernel
    PROVE  World(v, T, U, Q, F)
<1>1. /\ w \in Worlds /\ w.gf \in [Cell -> GetFile] /\ w.sock_manager \in Tables
      /\ Wired(w.sock_manager, w.gf, w.kernel, U) /\ T \subseteq U /\ U \subseteq Cell
  BY WorldParts
<1>2. s \in Fd /\ c \in Cell  BY <1>1 DEF Registered
<1>3. w.sock_manager.slot[s].info = Nil  BY <1>2, InfoWorld
<1> DEFINE n == v.sock_manager
           h == v.gf
<1>4. h[c] = r /\ \A d \in Cell : d # c => h[d] = w.gf[d]  BY Zenon DEF Writes
<1> HIDE DEF n, h
<1>5. Wired(n, h, w.kernel, U)
  <2>1. n = SetSocketInfo(w.sock_manager, s, c)  BY DEF n
  <2>2. h[c].socket = s /\ \A d \in U : d # c => h[d].socket = w.gf[d].socket  BY <1>1, <1>4
  <2> QED  BY <1>1, <1>3, <2>1, <2>2, JoinWired
<1>6. Wired(v.sock_manager, v.gf, v.kernel, U)  BY <1>5 DEF n, h
<1>7. \A d \in Cell : SameLink(w.gf[d], h[d])  BY <1>4 DEF SameLink
<1>8. \A d \in Cell \ U : h[d].socket = w.gf[d].socket  BY <1>4
<1> QED  BY <1>1, <1>6, <1>7, <1>8, WorldWired DEF h, SameLists

\* A record is written to, and stays where it is.
LEMMA PutWorld ==
    ASSUME NEW w, NEW T, NEW U, NEW Q, NEW F, World(w, T, U, Q, F), NEW c \in Cell,
           NEW r \in GetFile, SamePlace(w.gf[c], r),
           NEW v, v = Put(w, c, r)
    PROVE  /\ World(v, T, U, Q, F) /\ Writes(w, v, c, r)
           /\ SameLists(w, v) /\ SameCounts(w, v)
           /\ v.sock_manager = w.sock_manager /\ v.kernel = w.kernel
<1>1. w \in Worlds  BY WorldParts
<1>2. /\ v \in Worlds /\ Writes(w, v, c, r)
      /\ SameLists(w, v) /\ SameCounts(w, v)
      /\ v.sock_manager = w.sock_manager /\ v.kernel = w.kernel
  BY <1>1, Rewritten DEF SameLists, SameCounts
<1>3. \A d \in Cell : SamePlace(w.gf[d], v.gf[d])  BY <1>2, Zenon DEF SamePlace, Writes
<1>4. World(v, T, U, Q, F)  BY <1>2, <1>3, WorldRewritten DEF SameLists
<1> QED  BY <1>2, <1>4

\* A record's file is closed.
LEMMA CloseFileWorld ==
    ASSUME NEW w, NEW T, NEW U, NEW Q, NEW F, World(w, T, U, Q, F), NEW c \in Cell,
           NEW v, v = CloseFile(w, c)
    PROVE  /\ World(v, T, U, Q, F) /\ Writes(w, v, c, [w.gf[c] EXCEPT !.write = FALSE])
           /\ SameLists(w, v) /\ SameCounts(w, v)
           /\ v.sock_manager = w.sock_manager /\ v.kernel = w.kernel
<1> DEFINE r == [w.gf[c] EXCEPT !.write = FALSE]
<1>1. w.gf \in [Cell -> GetFile]  BY WorldParts
<1>2. w.gf[c] \in GetFile  BY <1>1
<1>3. r \in GetFile /\ SamePlace(w.gf[c], r)  BY <1>2 DEF GetFile, SamePlace
<1>4. v = Put(w, c, r)  BY DEF CloseFile, Put
<1> HIDE DEF r
<1>5. /\ World(v, T, U, Q, F) /\ Writes(w, v, c, r)
      /\ SameLists(w, v) /\ SameCounts(w, v)
      /\ v.sock_manager = w.sock_manager /\ v.kernel = w.kernel
  BY <1>3, <1>4, PutWorld
<1> QED  BY <1>5 DEF r

\* connect() fails: the record ends, or is lost when the slot was never used.
LEMMA RefusedWorld ==
    ASSUME NEW w, NEW T, NEW U, NEW Q, NEW F, World(w, T, U, Q, F), NEW c \in U \ T,
           w.gf[c].socket = -1, "refused" \in Happens, NEW v \in Refused(w, c)
    PROVE  /\ World(v, T, U \ {c}, Q, F) \/ World(v, T, U \ {c}, Q, F \cup {c})
           /\ \A d \in Cell : d # c => v.gf[d] = w.gf[d]
           /\ v.live = w.live /\ v.gets = w.gets /\ v.sends = w.sends
<1>1. /\ w \in Worlds /\ w.gf \in [Cell -> GetFile] /\ w.sock_manager \in Tables
      /\ T \subseteq U /\ U \subseteq Cell /\ w.kernel \subseteq Fd
      /\ Wired(w.sock_manager, w.gf, w.kernel, U)
  BY WorldParts
<1>2. c \in Cell /\ c # Nil  BY <1>1, CellAssumption
<1> DEFINE Hung(s) == [Opened(w, s) EXCEPT !.gf[c].socket = s]
<1>3. PICK s \in FreeFd(w) : v = Finish(SetInfo(Hung(s), s, c), s)  BY DEF Refused
<1>4. s \in Fd /\ s \notin w.kernel /\ s \notin Registered(w.sock_manager)
  BY <1>1, <1>3 DEF FreeFd, Wired
<1> DEFINE m == w.sock_manager
           K == w.kernel \cup {s}
           q == [w.gf[c] EXCEPT !.socket = s]
           g == [w.gf EXCEPT ![c] = q]
           u0 == [w EXCEPT !.kernel = K]
           u == [u0 EXCEPT !.gf = g]
<1>5. w.gf[c] \in GetFile  BY <1>1, <1>2
<1>6. /\ q \in GetFile /\ SameLink(w.gf[c], q) /\ q.socket = s
      /\ q.key = w.gf[c].key /\ q.kind = w.gf[c].kind
  BY <1>4, <1>5 DEF GetFile, SameLink
<1>7. Hung(s) = u
  <2>1. u0.gf = w.gf  BY <1>1 DEF Worlds
  <2>2. Opened(w, s) = u0  BY DEF Opened
  <2>3. [u0 EXCEPT !.gf[c].socket = s]
           = [u0 EXCEPT !.gf = [u0.gf EXCEPT ![c] = [u0.gf[c] EXCEPT !.socket = s]]]
    OBVIOUS
  <2> QED  BY <2>1, <2>2, <2>3, Zenon
<1> HIDE DEF q
<1>8. g \in [Cell -> GetFile] /\ g[c] = q /\ \A d \in Cell : d # c => g[d] = w.gf[d]
  BY <1>1, <1>2, <1>6
<1>9. K \in SUBSET Fd  BY <1>1, <1>4
<1> HIDE DEF g, K
<1>10. /\ u \in Worlds /\ u.gf = g /\ SameLists(w, u) /\ SameCounts(w, u)
       /\ u.sock_manager = m /\ u.kernel = K
  BY <1>1, <1>8, <1>9 DEF Worlds, SameLists, SameCounts
<1> HIDE DEF u
<1>11. m.slot[s].info = Nil /\ ~(m.slot[s].is_read > 0)  BY <1>1, <1>4 DEF Wired, Registered
<1>12. ~w.gf[c].deleted
  <2>1. Kept(w.gf, U \cup Q)  BY DEF World
  <2> QED  BY <2>1, Zenon DEF Kept
<1>0. ~Tight  BY DEF Tight
<1>13. \A t \in Fd : m.slot[t].info # c
  <2>1. c # Nil => \A t \in Fd : m.slot[t].info = c => w.gf[c].socket = t  BY <1>1 DEF Wired
  <2> QED  BY <1>2, <2>1, FdFinite
<1>14. CASE ~CheckSocket(m, s)
  <2>1. SetInfo(u, s, c) = u
    <3>1. SetSocketInfo(u.sock_manager, s, c) = u.sock_manager  BY <1>10, <1>14 DEF SetSocketInfo
    <3>2. SetInfo(u, s, c) = [u EXCEPT !.sock_manager = u.sock_manager]  BY <3>1 DEF SetInfo
    <3> QED  BY <1>10, <3>2 DEF Worlds
  <2>2. Info(u, s) = Nil  BY <1>10, <1>14 DEF Info, GetSocketInfo
  <2>3. v = CloseSock(u, s)  BY <1>3, <1>7, <2>1, <2>2 DEF Finish
  <2>4. ~Releases(m, s)  BY <1>14 DEF Releases
  <2>5. CloseSocketRead(m, s) = m  BY <1>14 DEF CloseSocketRead
  <2>6. v = u
    <3>1. v = [u EXCEPT !.sock_manager = u.sock_manager, !.kernel = u.kernel]
      BY <1>10, <2>3, <2>4, <2>5 DEF CloseSock
    <3> QED  BY <1>10, <3>1 DEF Worlds
  <2>7. Wired(m, w.gf, K, U)  BY <1>0, <1>1 DEF Wired, K
  <2>8. Wired(m, g, K, U \ {c})
    <3>1. Wired(m, w.gf, K, U \ {c})  BY <1>13, <2>7 DEF Wired
    <3>2. \A d \in U \ {c} : g[d].socket = w.gf[d].socket  BY <1>1, <1>8
    <3> QED  BY <3>1, <3>2, WiredFrame
  <2>9. World(u, T, U \ {c}, Q, F)
    <3>1. \A d \in Cell : SameLink(w.gf[d], u.gf[d])  BY <1>6, <1>8, <1>10 DEF SameLink
    <3>2. \A d \in Cell \ U : u.gf[d].socket = w.gf[d].socket  BY <1>8, <1>10
    <3>3. T \subseteq U \ {c} /\ U \ {c} \subseteq U  BY <1>1
    <3> QED  BY <1>10, <2>8, <3>1, <3>2, <3>3, WorldWired DEF SameLists
  <2> QED  BY <1>8, <1>10, <2>6, <2>9 DEF SameLists, SameCounts
<1>15. CASE CheckSocket(m, s)
  <2> DEFINE x == SetInfo(u, s, c)
             y == [m.slot[s] EXCEPT !.info = c]
             n == SetSlot(m, s, y)
             K2 == Shut(n, K, s)
             h == v.gf
  <2>1. m.slot[s] \in Slots  BY <1>1, <1>4, SlotOf DEF Slots
  <2>2. /\ y \in Slots /\ y.is_read = m.slot[s].is_read /\ y.info = c
        /\ y.is_write = m.slot[s].is_write
    BY <1>2, <2>1 DEF Slots, SlotType
  <2> HIDE DEF y
  <2>3. /\ n \in Tables /\ Registered(n) = Registered(m) /\ OtherSlots(m, n, s)
        /\ n.slot[s] = y
    <3>2. m.slot[s].is_write \in {0, -1, s}  BY <1>1, <1>4 DEF Tables, SlotsSound
    <3>3. m.slot[s].is_read # s  BY <1>4, <1>11, FdFinite
    <3>4. Idle(y)
      <4>1. m.slot[s].is_write <= 0 /\ m.slot[s].time = 0 /\ m.slot[s].func_read = Nil
            /\ m.slot[s].func_write = Nil
        BY <1>1, <1>4, <3>3 DEF Tables, SlotsSound
      <4> QED  BY <2>1, <4>1 DEF y, Slots, SlotType, Idle
    <3>5. y.is_write \in {0, -1, s}  BY <2>2, <3>2
    <3> HIDE DEF n, m
    <3>6. m \in Tables /\ n = SetSlot(m, s, y)  BY <1>1 DEF n, m
    <3> QED  BY <1>4, <2>2, <3>4, <3>5, <3>6, SlotTable
  <2>4. /\ x \in Worlds /\ x.gf = g /\ SameLists(w, x) /\ SameCounts(w, x)
        /\ x.sock_manager = n /\ x.kernel = K
    <3>1. x = [u EXCEPT !.sock_manager = n]  BY <1>10, <1>15 DEF SetInfo, SetSocketInfo, y
    <3> HIDE DEF x, n
    <3> QED  BY <1>10, <2>3, <3>1 DEF Worlds, SameLists, SameCounts
  <2>5. CheckSocket(n, s)  BY <1>15, <2>2, <2>3 DEF CheckSocket, SetSlot
  <2>6. Info(x, s) = c  BY <2>2, <2>3, <2>4, <2>5 DEF Info, GetSocketInfo
  <2>7. ~x.gf[c].deleted  BY <1>6, <1>8, <1>12, <2>4 DEF SameLink
  <2>8. v = Finish(x, s)  BY <1>3, <1>7
  <2> HIDE DEF x
  <2>9. PICK r \in GetFile :
              /\ Ended(x.gf[c], r, x.finished_struct) /\ Writes(x, v, c, r) /\ v \in Worlds
              /\ v.live = x.live /\ v.transfer_struct = x.transfer_struct
              /\ v.Queued = x.Queued /\ v.finished_struct = c /\ SameCounts(x, v)
              /\ v.sock_manager = CloseSocketRead(x.sock_manager, s)
              /\ v.kernel = Shut(x.sock_manager, x.kernel, s)
    BY <1>2, <1>4, <2>4, <2>6, <2>7, <2>8, FinishFields
  <2> DEFINE o == v.sock_manager
  <2>10. /\ o \in Tables /\ Registered(o) = Registered(m) /\ v.kernel = K
         /\ OtherSlots(n, o, s) /\ o.slot[s] = ClosedSlot
    <3> HIDE DEF n
    <3>1. s \in Fd \cup {-1} /\ o = CloseSocketRead(n, s)  BY <1>4, <2>4, <2>9
    <3> HIDE DEF o
    <3>2. /\ o \in Tables /\ Registered(o) = Registered(n) \ {s} /\ OtherSlots(n, o, s)
          /\ Releases(n, s) <=> s \in Registered(n)
          /\ CheckSocket(n, s) => o.slot[s] = ClosedSlot
      BY <2>3, <3>1, CloseTable
    <3>3. ~Releases(n, s)  BY <1>4, <2>3, <3>2
    <3>4. v.kernel = K  BY <2>4, <2>9, <3>3 DEF Shut
    <3> QED  BY <1>4, <2>3, <2>5, <3>2, <3>4
  <2> HIDE DEF o
  <2>11. \A t \in Fd : t # s => o.slot[t] = m.slot[t]
    BY <2>3, <2>10, Zenon DEF OtherSlots
  <2>12. o.slot[s].info = Nil  BY <2>10 DEF ClosedSlot
  <2>13. \A t \in Fd : o.slot[t].info = m.slot[t].info  BY <1>11, <2>11, <2>12
  <2>14. \A t \in Fd : o.slot[t].func_read \in Early => o.slot[t].info = Nil
    BY <1>1, <2>11, <2>12 DEF Wired
  <2>15. Wired(o, w.gf, K, U \ {c})
    BY <1>0, <1>1, <1>13, <2>10, <2>13, <2>14 DEF Wired, K
  <2>16. \A d \in Cell : d # c => v.gf[d] = w.gf[d]
    BY <1>8, <2>4, <2>9, Zenon DEF Writes
  <2>17. Wired(o, v.gf, K, U \ {c})
    <3>1. \A d \in U \ {c} : v.gf[d].socket = w.gf[d].socket  BY <1>1, <2>16
    <3> QED  BY <2>15, <3>1, WiredFrame
  <2>18. Ended(w.gf[c], r, w.finished_struct)
    <3>1. x.finished_struct = w.finished_struct  BY <2>4 DEF SameLists
    <3>2. x.gf[c] = q  BY <1>8, <2>4
    <3> QED  BY <1>6, <2>9, <3>1, <3>2, Zenon DEF Ended, SameLink
  <2>19. Writes(w, v, c, r)
    <3>1. v.gf[c] = r  BY <2>9, Zenon DEF Writes
    <3> QED  BY <2>16, <3>1, Zenon DEF Writes
  <2>20. /\ v.live = w.live /\ v.transfer_struct = w.transfer_struct /\ v.Queued = w.Queued
         /\ SameCounts(w, v)
    BY <2>4, <2>9 DEF SameLists, SameCounts
  <2>21. Wired(v.sock_manager, v.gf, v.kernel, U \ {c})  BY <2>10, <2>17 DEF o
  <2>22. World(v, T, U \ {c}, Q, F \cup {c})
    BY <2>9, <2>18, <2>19, <2>20, <2>21, EndedWorld
  <2> QED  BY <2>16, <2>20, <2>22 DEF SameCounts
<1> QED  BY <1>14, <1>15

----------------------------------------------------------------------------
(* Records that come and go *)

\* What the properties of the lists ask of a record besides its links.
SameFile(r, q) == /\ q.key = r.key /\ q.kind = r.kind /\ q.socket = r.socket
                  /\ q.write = r.write /\ q.realfile = r.realfile

\* connect() succeeds or is under way: the record is on transfer_struct.
Reached(w, T, U, Q, F, c, v) ==
    /\ World(v, T \cup {c}, U, Q, F)
    /\ \A d \in Cell : d # c => SameFile(w.gf[d], v.gf[d])
    /\ v.gf[c].key = w.gf[c].key /\ v.gf[c].kind = "get"
    /\ v.gf[c].write = w.gf[c].write /\ v.gf[c].realfile = w.gf[c].realfile
    /\ v.live = w.live

\* ... and waits for the greeting and the size, the others as they were.
Connecting(w, c, v) ==
    /\ v.gf[c].socket \in Fd /\ v.gf[c].count
    /\ \A d \in Cell : d # c => v.gf[d].count = w.gf[d].count
    /\ SameCounts(w, v)
    /\ OtherSlots(w.sock_manager, v.sock_manager, v.gf[c].socket)
    /\ v.sock_manager.slot[v.gf[c].socket].info = c
    /\ v.sock_manager.slot[v.gf[c].socket].func_read = "nap_getfilestart"

\* create_and_get() that gets a connection.
LEMMA ConnectedWorld ==
    ASSUME NEW w, NEW T, NEW U, NEW Q, NEW F, World(w, T, U, Q, F), NEW c \in U \ T,
           w.gf[c].socket = -1, NEW v \in Connected(w, c)
    PROVE  Reached(w, T, U, Q, F, c, v) /\ Connecting(w, c, v)
<1> DEFINE New(s) == AddRead(Opened(w, s), s, "nap_getfilestart")
           Wait(s) == [SetInfo(New(s), s, c) EXCEPT !.gf[c].socket = s,
                                                    !.gf[c].count = TRUE, !.gf[c].kind = "get"]
<1>1. PICK s \in FreeFd(w) : v = AddToTransferList(Wait(s), c)  BY DEF Connected
<1>2. /\ w \in Worlds /\ w.gf \in [Cell -> GetFile] /\ T \subseteq U /\ U \subseteq Cell
  BY WorldParts
<1>3. c \in Cell /\ s \in Fd  BY <1>1, <1>2 DEF FreeFd
<1> DEFINE n == New(s)
           x == SetInfo(n, s, c)
           r1 == [w.gf[c] EXCEPT !.socket = s]
           r2 == [r1 EXCEPT !.count = TRUE]
           r == [r2 EXCEPT !.kind = "get"]
           g == [w.gf EXCEPT ![c] = r]
           y == [x EXCEPT !.gf = g]
<1>4. /\ World(n, T, U, Q, F) /\ n.gf = w.gf /\ SameLists(w, n) /\ SameCounts(w, n)
      /\ s \in Registered(n.sock_manager) /\ Info(n, s) = Nil
      /\ n.sock_manager.slot[s].func_read = "nap_getfilestart"
  BY <1>1, NewWorld DEF Handlers
<1>a. /\ n.sock_manager \in Tables /\ OtherSlots(w.sock_manager, n.sock_manager, s)
      /\ n.sock_manager.slot[s].func_read = "nap_getfilestart"
  <2>1. /\ w.sock_manager \in Tables
        /\ Wired(w.sock_manager, w.gf, w.kernel, U)
    BY WorldParts
  <2>2. /\ Registered(w.sock_manager) \subseteq w.kernel
        /\ s \in Fd \ w.kernel /\ s \in Fd \ Registered(w.sock_manager)
    BY <1>1, <2>1 DEF Wired, FreeFd
  <2>3. "nap_getfilestart" \in Handlers  BY DEF Handlers
  <2>4. n.sock_manager = AddSocketRead(w.sock_manager, s, "nap_getfilestart", Nil)
    BY <1>2, <2>2, <2>3, NewFields
  <2> HIDE DEF n
  <2> QED  BY <2>1, <2>2, <2>3, <2>4, AddTable
<1> HIDE DEF n
<1>5. /\ x \in Worlds /\ x.gf = w.gf /\ SameLists(n, x) /\ SameCounts(n, x)
      /\ x.sock_manager = SetSocketInfo(n.sock_manager, s, c) /\ x.kernel = n.kernel
  <2>1. n \in Worlds  BY <1>4, WorldParts
  <2>2. c \in Cell \cup {Nil}  BY <1>3
  <2> QED  BY <1>4, <2>1, <2>2, InfoFields
<1> HIDE DEF x
<1>6. w.gf[c] \in GetFile  BY <1>2, <1>3
<1>7. r1 \in GetFile /\ r1.socket = s /\ SameLink(w.gf[c], r1) /\ r1.key = w.gf[c].key
      /\ r1.write = w.gf[c].write /\ r1.realfile = w.gf[c].realfile
  BY <1>3, <1>6 DEF GetFile, SameLink
<1>8. r2 \in GetFile /\ r2.socket = s /\ SameLink(w.gf[c], r2) /\ r2.key = w.gf[c].key
      /\ r2.write = w.gf[c].write /\ r2.realfile = w.gf[c].realfile /\ r2.count
  BY <1>7 DEF GetFile, SameLink
<1>9. r \in GetFile /\ r.socket = s /\ SameLink(w.gf[c], r) /\ r.key = w.gf[c].key
      /\ r.write = w.gf[c].write /\ r.realfile = w.gf[c].realfile /\ r.kind = "get"
      /\ r.count = r2.count
  <2> HIDE DEF r1, r2
  <2>1. r \in GetFile  BY <1>8 DEF GetFile
  <2>2. /\ r.socket = r2.socket /\ r.key = r2.key /\ r.write = r2.write
        /\ r.realfile = r2.realfile /\ r.count = r2.count
        /\ r.next = r2.next /\ r.prev = r2.prev /\ r.deleted = r2.deleted /\ r.kind = "get"
    BY <1>8 DEF GetFile
  <2> HIDE DEF r
  <2> QED  BY <1>8, <2>1, <2>2 DEF SameLink
<1>10. Wait(s) = y
  <2>1. Wait(s) = [x EXCEPT !.gf[c].socket = s, !.gf[c].count = TRUE, !.gf[c].kind = "get"]
    BY DEF x, n
  <2> DEFINE g1 == [w.gf EXCEPT ![c] = r1]
             g2 == [g1 EXCEPT ![c] = r2]
             g3 == [g2 EXCEPT ![c] = r]
  <2>2. g1[c] = r1 /\ g2[c] = r2 /\ g3 = g  BY <1>2, <1>3
  <2>3. [x EXCEPT !.gf[c].socket = s, !.gf[c].count = TRUE, !.gf[c].kind = "get"]
          = [x EXCEPT !.gf = g3]
    BY <1>2, <1>3, <1>5 DEF Worlds
  <2> QED  BY <2>1, <2>2, <2>3
<1> HIDE DEF r, r1, r2
<1>11. g \in [Cell -> GetFile] /\ g[c] = r /\ \A d \in Cell : d # c => g[d] = w.gf[d]
  BY <1>2, <1>3, <1>9
<1> HIDE DEF g
<1>12. /\ y \in Worlds /\ y.gf = g /\ SameLists(n, y) /\ SameCounts(n, y)
       /\ y.sock_manager = SetSocketInfo(n.sock_manager, s, c) /\ y.kernel = n.kernel
  BY <1>5, <1>11 DEF Worlds, SameLists, SameCounts
<1> HIDE DEF y
<1>13. Writes(n, y, c, r)  BY <1>4, <1>11, <1>12, Zenon DEF Writes
<1>14. World(y, T, U, Q, F)
  <2>1. n.sock_manager.slot[s].func_read \notin Early  BY <1>4 DEF Early
  <2> QED  BY <1>4, <1>9, <1>12, <1>13, <2>1, JoinWorld
<1>15. /\ World(v, T \cup {c}, U, Q, F) /\ SameData(y.gf, v.gf)
       /\ v.live = y.live /\ v.gets = y.gets /\ v.sends = y.sends
      /\ v.sock_manager = y.sock_manager
  <2>1. v = AddToTransferList(y, c)  BY <1>1, <1>10
  <2>2. /\ World(v, T \cup {c}, U, Q, F)
        /\ SameData(y.gf, v.gf)
        /\ v.sock_manager = y.sock_manager /\ v.kernel = y.kernel
        /\ v.live = y.live /\ v.gets = y.gets /\ v.sends = y.sends
    BY <1>14, <2>1, AddWorld
  <2> QED  BY <2>2
<1>16. \A d \in Cell : d # c => SameFile(w.gf[d], v.gf[d])
  BY <1>11, <1>12, <1>15, SameFields DEF SameFile
<1>17. v.gf[c].key = r.key /\ v.gf[c].kind = r.kind /\ v.gf[c].write = r.write
       /\ v.gf[c].realfile = r.realfile
  BY <1>3, <1>11, <1>12, <1>15, SameFields
<1>18. v.live = w.live  BY <1>4, <1>12, <1>15 DEF SameLists
<1>19. v.gf[c].key = w.gf[c].key /\ v.gf[c].kind = "get"
       /\ v.gf[c].write = w.gf[c].write /\ v.gf[c].realfile = w.gf[c].realfile
  BY <1>9, <1>17
<1>20. Reached(w, T, U, Q, F, c, v)  BY <1>15, <1>16, <1>18, <1>19, Zenon DEF Reached
<1>21. v.gf[c].socket = s /\ v.gf[c].count = r.count /\ \A d \in Cell : d # c => v.gf[d].count = w.gf[d].count
  <2>1. \A d \in Cell : v.gf[d].count = y.gf[d].count /\ v.gf[d].socket = y.gf[d].socket
    BY <1>15, Zenon DEF SameData
  <2> QED  BY <1>3, <1>9, <1>11, <1>12, <2>1
<1>22. SameCounts(w, v)  BY <1>4, <1>12, <1>15 DEF SameCounts
<1>23. /\ OtherSlots(w.sock_manager, v.sock_manager, s)
       /\ v.sock_manager.slot[s].info = c
       /\ v.sock_manager.slot[s].func_read = "nap_getfilestart"
  <2>1. c \in Cell \cup {Nil}  BY <1>3
  <2>2. v.sock_manager = SetSocketInfo(n.sock_manager, s, c)  BY <1>12, <1>15
  <2>3. /\ OtherSlots(n.sock_manager, v.sock_manager, s) /\ v.sock_manager.slot[s].info = c
        /\ v.sock_manager.slot[s].func_read = n.sock_manager.slot[s].func_read
    BY <1>4, <1>a, <2>1, <2>2, InfoTable
  <2> QED  BY <1>a, <2>3 DEF OtherSlots
<1>24. Connecting(w, c, v)
  BY <1>3, <1>8, <1>9, <1>21, <1>22, <1>23, Zenon DEF Connecting
<1> QED  BY <1>20, <1>24

\* A record is allocated.
NewRecordType(r) == r \in GetFile /\ r.socket = -1 /\ ~r.deleted

Allocated(w, T, U, Q, F, c, r, v) ==
    /\ World(v, T, U \cup {c}, Q, F) /\ c \notin U
    /\ Writes(w, v, c, r) /\ v.live = w.live \cup {c} /\ SameCounts(w, v)

\* A new record is in the hands of the handler that allocated it.
LEMMA AllocateWorld ==
    ASSUME NEW w, NEW T, NEW U, NEW Q, NEW F, World(w, T, U, Q, F), NEW c \in Cell \ w.live,
           NEW r, NewRecordType(r), NEW v, v = Allocate(w, c, r)
    PROVE  Allocated(w, T, U, Q, F, c, r, v)
<1>0. r \in GetFile /\ r.socket = -1 /\ ~r.deleted  BY DEF NewRecordType
<1>1. /\ w \in Worlds /\ DoubleChain(w.gf, w.transfer_struct, T)
      /\ DoubleChain(w.gf, w.Queued, Q) /\ Chain(w.gf, w.finished_struct, F)
      /\ T \subseteq U /\ U \cap Q = {} /\ U \cap F = {} /\ Q \cap F = {}
      /\ U \cup Q \cup F \subseteq w.live
      /\ Wired(w.sock_manager, w.gf, w.kernel, U)
      /\ Silent(w.gf, Q \cup F) /\ Kept(w.gf, U \cup Q)
  BY DEF World
<1>2. w.live \subseteq Cell /\ w.gf \in [Cell -> GetFile]  BY <1>1 DEF Worlds
<1>3. T \subseteq Cell \ {c} /\ Q \subseteq Cell \ {c} /\ F \subseteq Cell \ {c}
      /\ U \subseteq Cell \ {c} /\ c \in Cell
  BY <1>1, <1>2
<1> DEFINE h == [w.gf EXCEPT ![c] = r]
           L == w.live \cup {c}
<1>4. h \in [Cell -> GetFile] /\ h[c] = r /\ \A d \in Cell : d # c => h[d] = w.gf[d]
  BY <1>0, <1>2, <1>3
<1>5. L \in SUBSET Cell  BY <1>2, <1>3
<1>6. v = [w EXCEPT !.gf = h, !.live = L]  BY DEF Allocate
<1> HIDE DEF h, L
<1>7. /\ v \in Worlds /\ v.gf = h /\ v.finished_struct = w.finished_struct /\ v.live = L
      /\ v.sock_manager = w.sock_manager /\ v.kernel = w.kernel /\ v.Queued = w.Queued
      /\ v.transfer_struct = w.transfer_struct /\ v.gets = w.gets /\ v.sends = w.sends
  BY <1>1, <1>4, <1>5, <1>6 DEF Worlds
<1>8. /\ DoubleChain(h, w.transfer_struct, T) /\ DoubleChain(h, w.Queued, Q)
      /\ Chain(h, w.finished_struct, F)
  BY <1>1, <1>3, <1>4, ChainFrame
<1>9. Wired(w.sock_manager, h, w.kernel, U \cup {c})
  <2>1. \A d \in U : h[d].socket = w.gf[d].socket  BY <1>3, <1>4
  <2>2. Wired(w.sock_manager, h, w.kernel, U)  BY <1>1, <2>1, WiredFrame
  <2>3. h[c].socket = -1  BY <1>0, <1>4
  <2> QED  BY <2>2, <2>3 DEF Wired
<1>10. Silent(h, Q \cup F)  BY <1>1, <1>3, <1>4 DEF Silent
<1>11. Kept(h, (U \cup {c}) \cup Q)  BY <1>0, <1>1, <1>3, <1>4, Zenon DEF Kept
<1>12. /\ T \subseteq U \cup {c} /\ (U \cup {c}) \cap Q = {} /\ (U \cup {c}) \cap F = {}
       /\ (U \cup {c}) \cup Q \cup F \subseteq L
  BY <1>1, <1>3 DEF L
<1>13. World(v, T, U \cup {c}, Q, F)
  BY <1>1, <1>7, <1>8, <1>9, <1>10, <1>11, <1>12, Zenon DEF World
<1>14. Writes(w, v, c, r)  BY <1>4, <1>7, Zenon DEF Writes
<1>15. v.live = w.live \cup {c} /\ c \notin U  BY <1>3, <1>7 DEF L
<1>16. SameCounts(w, v)  BY <1>7, Zenon DEF SameCounts
<1> QED  BY <1>13, <1>14, <1>15, <1>16, Zenon DEF Allocated

\* A record off transfer_struct and without a connection joins the queue.
Queueing(w, h, first) == [w EXCEPT !.gf = h, !.Queued = first]

\* add_to_list() on the queue.
LEMMA QueueWorld ==
    ASSUME NEW w, NEW T, NEW U, NEW Q, NEW F, World(w, T, U, Q, F), NEW c \in U \ T,
           w.gf[c].socket = -1,
           NEW h, NEW first, h = LinkLast(w, w.Queued, c).gf, first = LinkLast(w, w.Queued, c).head,
           NEW v, v = Queueing(w, h, first)
    PROVE  /\ World(v, T, U \ {c}, Q \cup {c}, F)
           /\ SameData(w.gf, v.gf)
           /\ v.sock_manager = w.sock_manager /\ v.kernel = w.kernel
           /\ v.live = w.live /\ v.gets = w.gets /\ v.sends = w.sends
<1>1. /\ w \in Worlds /\ DoubleChain(w.gf, w.transfer_struct, T)
      /\ DoubleChain(w.gf, w.Queued, Q) /\ Chain(w.gf, w.finished_struct, F)
      /\ T \subseteq U /\ U \cap Q = {} /\ U \cap F = {} /\ Q \cap F = {}
      /\ U \cup Q \cup F \subseteq w.live
      /\ Wired(w.sock_manager, w.gf, w.kernel, U)
      /\ Silent(w.gf, Q \cup F) /\ Kept(w.gf, U \cup Q)
  BY DEF World
<1>2. w.gf \in [Cell -> GetFile] /\ "gf" \in DOMAIN w /\ w.live \subseteq Cell
  BY <1>1 DEF Worlds
<1>3. T \subseteq Cell /\ Q \subseteq Cell /\ F \subseteq Cell /\ U \subseteq Cell /\ c \in Cell
      /\ c \notin F /\ c \notin Q /\ c \notin T
  BY <1>1, <1>2
<1>4. /\ h \in [Cell -> GetFile] /\ SameData(w.gf, h) /\ SameLinks(w.gf, h, Q \cup {c})
      /\ DoubleChain(h, first, Q \cup {c})
  BY <1>1, <1>2, <1>3, LinkLastChain
<1>5. first \in Cell \cup {Nil}  BY <1>4 DEF DoubleChain, Chain
<1>6. /\ v \in Worlds /\ v.gf = h /\ v.Queued = first /\ v.live = w.live
      /\ v.sock_manager = w.sock_manager /\ v.kernel = w.kernel
      /\ v.transfer_struct = w.transfer_struct
      /\ v.finished_struct = w.finished_struct /\ v.gets = w.gets /\ v.sends = w.sends
  BY <1>1, <1>4, <1>5 DEF Worlds, Queueing
<1>7. T \subseteq Cell \ (Q \cup {c}) /\ F \subseteq Cell \ (Q \cup {c})  BY <1>1, <1>3
<1>8. DoubleChain(h, w.transfer_struct, T) /\ Chain(h, w.finished_struct, F)
  <2>1. \A d \in Cell \ (Q \cup {c}) : h[d].next = w.gf[d].next /\ h[d].prev = w.gf[d].prev
    BY <1>4 DEF SameLinks
  <2>2. /\ \A d \in T : h[d].next = w.gf[d].next /\ h[d].prev = w.gf[d].prev
        /\ \A d \in F : h[d].next = w.gf[d].next
    BY <1>7, <2>1
  <2> QED  BY ZenonT(60), <1>1, <2>2, ChainFrame
<1>9. \A d \in Cell : h[d].socket = w.gf[d].socket /\ (h[d].deleted = w.gf[d].deleted)
  BY <1>4, Zenon DEF SameData
<1>10. Wired(w.sock_manager, h, w.kernel, U \ {c})
  <2>1. \A d \in U : h[d].socket = w.gf[d].socket  BY <1>3, <1>9
  <2>2. Wired(w.sock_manager, h, w.kernel, U)  BY <1>1, <2>1, WiredFrame
  <2>3. h[c].socket = -1  BY <1>3, <1>9
  <2>4. \A s \in Fd : w.sock_manager.slot[s].info # Nil =>
                       /\ w.sock_manager.slot[s].info \in U \ {c}
                       /\ h[w.sock_manager.slot[s].info].socket = s
    <3> SUFFICES ASSUME NEW s \in Fd, w.sock_manager.slot[s].info # Nil
                 PROVE  /\ w.sock_manager.slot[s].info \in U \ {c}
                        /\ h[w.sock_manager.slot[s].info].socket = s
      OBVIOUS
    <3>1. w.sock_manager.slot[s].info \in U /\ h[w.sock_manager.slot[s].info].socket = s
      BY <2>2, Zenon DEF Wired
    <3>2. s # -1  BY FdFinite
    <3> QED  BY <2>3, <3>1, <3>2, Zenon
  <2> QED  BY <2>2, <2>4, ZenonT(30) DEF Wired
<1>11. Silent(h, (Q \cup {c}) \cup F)  BY <1>1, <1>3, <1>9, Zenon DEF Silent
<1>12. Kept(h, (U \ {c}) \cup (Q \cup {c}))  BY <1>1, <1>3, <1>9, Zenon DEF Kept
<1>13. /\ T \subseteq U \ {c} /\ (U \ {c}) \cap (Q \cup {c}) = {} /\ (U \ {c}) \cap F = {}
       /\ (Q \cup {c}) \cap F = {} /\ (U \ {c}) \cup (Q \cup {c}) \cup F \subseteq w.live
  BY <1>1, <1>3
<1>14. World(v, T, U \ {c}, Q \cup {c}, F)
  BY <1>1, <1>4, <1>6, <1>8, <1>10, <1>11, <1>12, <1>13, Zenon DEF World
<1> QED  BY <1>4, <1>6, <1>14

\* cmd_nosuchnick(): the queue goes with the user.
NoQueue(w, L) == [w EXCEPT !.live = L, !.Queued = Nil]

\* No list leads to the records freed.
LEMMA GoneWorld ==
    ASSUME NEW w, NEW T, NEW U, NEW Q, NEW F, World(w, T, U, Q, F),
           NEW L, L = w.live \ Q, NEW v, v = NoQueue(w, L)
    PROVE  World(v, T, U, {}, F) /\ v.gf = w.gf /\ SameCounts(w, v) /\ v.live = w.live \ Q
<1>1. /\ w \in Worlds /\ DoubleChain(w.gf, w.transfer_struct, T)
      /\ DoubleChain(w.gf, w.Queued, Q) /\ Chain(w.gf, w.finished_struct, F)
      /\ T \subseteq U /\ U \cap Q = {} /\ U \cap F = {} /\ Q \cap F = {}
      /\ U \cup Q \cup F \subseteq w.live
      /\ Wired(w.sock_manager, w.gf, w.kernel, U)
      /\ Silent(w.gf, Q \cup F) /\ Kept(w.gf, U \cup Q)
  BY DEF World
<1>2. w.live \subseteq Cell  BY <1>1 DEF Worlds
<1>3. /\ v \in Worlds /\ v.gf = w.gf /\ v.Queued = Nil /\ v.live = L
      /\ v.sock_manager = w.sock_manager /\ v.kernel = w.kernel
      /\ v.transfer_struct = w.transfer_struct
      /\ v.finished_struct = w.finished_struct /\ v.gets = w.gets /\ v.sends = w.sends
  BY <1>1, <1>2 DEF Worlds, NoQueue
<1>4. DoubleChain(w.gf, Nil, {})
  <2>1. \A r : Falls(w.gf, {}, r)  BY DEF Falls
  <2>2. \E r \in [{} -> Nat] : Falls(w.gf, {}, r)
    <3>1. [x \in {} |-> 0] \in [{} -> Nat]  OBVIOUS
    <3> QED  BY <2>1, <3>1, Zenon
  <2>3. Chain(w.gf, Nil, {})  BY <2>2 DEF Chain
  <2> QED  BY <2>3 DEF DoubleChain
<1>5. U \cup {} \cup F \subseteq L /\ U \cap {} = {} /\ {} \cap F = {}  BY <1>1
<1>6. Silent(w.gf, {} \cup F) /\ Kept(w.gf, U \cup {})  BY <1>1, Zenon DEF Silent, Kept
<1>7. World(v, T, U, {}, F)  BY <1>1, <1>3, <1>4, <1>5, <1>6, Zenon DEF World
<1> QED  BY <1>3, <1>7 DEF SameCounts

\* clean_sockets() frees the first record of finished_struct.
LEMMA FreeHeadWorld ==
    ASSUME NEW w, NEW T, NEW U, NEW Q, NEW F, World(w, T, U, Q, F),
           w.finished_struct # Nil, NEW v, v = FreeHead(w), NEW c, c = w.finished_struct
    PROVE  /\ c \in F /\ World(v, T, U, Q, F \ {c})
           /\ \A d \in Cell : d # c => v.gf[d] = w.gf[d]
           /\ v.live = w.live \ {c} /\ SameCounts(w, v)
           /\ v.sock_manager = w.sock_manager
<1>1. /\ w \in Worlds /\ DoubleChain(w.gf, w.transfer_struct, T)
      /\ DoubleChain(w.gf, w.Queued, Q) /\ Chain(w.gf, w.finished_struct, F)
      /\ T \subseteq U /\ U \cap Q = {} /\ U \cap F = {} /\ Q \cap F = {}
      /\ U \cup Q \cup F \subseteq w.live
      /\ Wired(w.sock_manager, w.gf, w.kernel, U)
      /\ Silent(w.gf, Q \cup F) /\ Kept(w.gf, U \cup Q)
  BY DEF World
<1>2. w.live \subseteq Cell /\ w.gf \in [Cell -> GetFile]  BY <1>1 DEF Worlds
<1>3. c \in F /\ Chain(w.gf, w.gf[c].next, F \ {c})
  <2>1. Nexts(w.gf)  BY <1>2, NextsOf
  <2> QED  BY <1>1, <2>1, ChainPop
<1>4. T \subseteq Cell /\ Q \subseteq Cell /\ F \subseteq Cell /\ U \subseteq Cell /\ c \in Cell
      /\ c \notin U /\ c \notin Q /\ c \notin T
  BY <1>1, <1>2, <1>3
<1> DEFINE r1 == [w.gf[c] EXCEPT !.socket = -1]
           r == [r1 EXCEPT !.write = FALSE]
           h == [w.gf EXCEPT ![c] = r]
           L == w.live \ {c}
           x == CloseSock(w, w.gf[c].socket)
           next == w.gf[c].next
<1>5. w.gf[c] \in GetFile  BY <1>2, <1>4
<1>6. r1 \in GetFile /\ r1.socket = -1 /\ r1.next = w.gf[c].next  BY <1>5 DEF GetFile
<1>7. r \in GetFile /\ r.socket = -1 /\ r.next = w.gf[c].next  BY <1>6 DEF GetFile
<1>8. next \in Cell \cup {Nil}  BY <1>5 DEF GetFile
<1>9. w.gf[c].socket = -1  BY <1>1, <1>3 DEF Silent
<1>10. /\ World(x, T, U, Q, F) /\ x.gf = w.gf /\ x.live = w.live /\ x.gets = w.gets
       /\ x.sends = w.sends
  <2>1. -1 \in Fd \cup {-1} /\ (-1 \in Fd => Info(w, -1) = Nil)  BY FdFinite
  <2> QED  BY <1>9, <2>1, CloseSockWorld
<1>11. x.transfer_struct = w.transfer_struct /\ x.Queued = w.Queued  BY <1>1 DEF Worlds, CloseSock
<1>a. x.sock_manager = w.sock_manager
  BY <1>1, <1>9 DEF Worlds, CloseSock, CloseSocketRead, CheckSocket
<1> HIDE DEF x
<1>12. v = [x EXCEPT !.gf = h, !.live = L, !.finished_struct = next]
  <2> DEFINE y == [x EXCEPT !.gf[c].socket = -1, !.gf[c].write = FALSE]
  <2>1. y = [x EXCEPT !.gf = h]
    <3> DEFINE g1 == [w.gf EXCEPT ![c] = r1]
               g2 == [g1 EXCEPT ![c] = r]
    <3>1. g1[c] = r1 /\ g2 = h  BY <1>2, <1>4
    <3>2. "gf" \in DOMAIN x  BY <1>10, WorldParts DEF Worlds
    <3>3. y = [x EXCEPT !.gf = g2]  BY <1>2, <1>4, <1>10, <3>2
    <3> QED  BY <3>1, <3>3
  <2>2. v = [y EXCEPT !.live = L, !.finished_struct = next]  BY DEF FreeHead, x
  <2> QED  BY <2>1, <2>2
<1> HIDE DEF r, r1
<1>13. h \in [Cell -> GetFile] /\ h[c] = r /\ \A d \in Cell : d # c => h[d] = w.gf[d]
  BY <1>2, <1>4, <1>7
<1>14. L \in SUBSET Cell /\ U \cup Q \cup (F \ {c}) \subseteq L  BY <1>1, <1>2, <1>4 DEF L
<1> HIDE DEF h, L, next
<1>15. x \in Worlds /\ Wired(x.sock_manager, w.gf, x.kernel, U)  BY <1>10, WorldParts
<1>16. /\ v \in Worlds /\ v.gf = h /\ v.finished_struct = next /\ v.live = L
       /\ v.sock_manager = x.sock_manager /\ v.kernel = x.kernel /\ v.Queued = w.Queued
       /\ v.transfer_struct = w.transfer_struct /\ v.gets = w.gets /\ v.sends = w.sends
  BY ZenonT(60), <1>8, <1>10, <1>11, <1>12, <1>13, <1>14, <1>15 DEF Worlds
<1>17. DoubleChain(h, w.transfer_struct, T) /\ DoubleChain(h, w.Queued, Q)
  BY <1>1, <1>4, <1>13, ChainFrame
<1>18. Chain(h, next, F \ {c})
  <2>1. \A d \in F \ {c} : h[d].next = w.gf[d].next  BY <1>4, <1>13
  <2>2. Chain(w.gf, next, F \ {c})  BY <1>3 DEF next
  <2> QED  BY <2>1, <2>2, ChainFrame
<1>19. Wired(v.sock_manager, h, v.kernel, U)
  <2>1. \A d \in U : h[d].socket = w.gf[d].socket  BY <1>4, <1>13
  <2> QED  BY <1>15, <1>16, <2>1, WiredFrame
<1>20. Silent(h, Q \cup (F \ {c}))  BY <1>1, <1>4, <1>13 DEF Silent
<1>21. Kept(h, U \cup Q)  BY <1>1, <1>4, <1>13, Zenon DEF Kept
<1>22. U \cap (F \ {c}) = {} /\ Q \cap (F \ {c}) = {}  BY <1>1
<1>23. World(v, T, U, Q, F \ {c})
  BY <1>1, <1>14, <1>16, <1>17, <1>18, <1>19, <1>20, <1>21, <1>22, Zenon DEF World
<1>24. \A d \in Cell : d # c => v.gf[d] = w.gf[d]  BY <1>13, <1>16
<1> QED  BY <1>3, <1>a, <1>16, <1>23, <1>24 DEF L, SameCounts

----------------------------------------------------------------------------
(* The loops *)

\* clean_sockets() frees what it meets on finished_struct.
LEMMA CleanWorld ==
    ASSUME NEW w, NEW T, NEW U, NEW Q, NEW F, World(w, T, U, Q, F), NEW v, v = CleanSockets(w)
    PROVE  \E G \in SUBSET F :
              /\ World(v, T, U, Q, G) /\ v.live = w.live \ (F \ G) /\ SameCounts(w, v)
              /\ \A d \in Cell \ F : v.gf[d] = w.gf[d]
              /\ v.sock_manager = w.sock_manager
<1> DEFINE Turn(x) == IF x.finished_struct = Nil THEN x ELSE FreeHead(x)
           Run(f) == f = [n \in 0 .. Depth |-> IF n = 0 THEN w ELSE Turn(f[n - 1])]
           run == CHOOSE f : Run(f)
           Done(x, G) == /\ World(x, T, U, Q, G) /\ x.live = w.live \ (F \ G) /\ SameCounts(w, x)
                         /\ \A d \in Cell \ F : x.gf[d] = w.gf[d]
                         /\ x.sock_manager = w.sock_manager
           Good(x) == \E G \in SUBSET F : Done(x, G)
<1>1. v = run[Depth]
  <2>1. run = CHOOSE f : f = [n \in 0 .. Depth |->
                                IF n = 0 THEN w
                                ELSE IF f[n - 1].finished_struct = Nil THEN f[n - 1]
                                ELSE FreeHead(f[n - 1])]
    OBVIOUS
  <2> HIDE DEF run
  <2> QED  BY <2>1, Zenon DEF CleanSockets
<1>2. Depth \in Nat  BY NilNoCell
<1>3. Good(w)
  <2>1. w.live \ (F \ F) = w.live /\ F \in SUBSET F  OBVIOUS
  <2>2. Done(w, F)  BY <2>1 DEF SameCounts
  <2> QED  BY <2>1, <2>2
<1>4. ASSUME NEW x, Good(x) PROVE Good(Turn(x))
  <2>1. PICK G \in SUBSET F : Done(x, G)  BY <1>4
  <2>2. CASE x.finished_struct = Nil  BY <1>4, <2>2
  <2>3. CASE x.finished_struct # Nil
    <3> DEFINE c == x.finished_struct
               y == FreeHead(x)
    <3>1. /\ c \in G /\ World(y, T, U, Q, G \ {c})
          /\ \A d \in Cell : d # c => y.gf[d] = x.gf[d]
          /\ y.live = x.live \ {c} /\ SameCounts(x, y) /\ y.sock_manager = x.sock_manager
      <4> HIDE DEF c, y
      <4> QED  BY <2>1, <2>3, FreeHeadWorld DEF c, y
    <3> HIDE DEF c, y
    <3>2. G \ {c} \in SUBSET F /\ y.live = w.live \ (F \ (G \ {c}))
      <4>1. F \subseteq w.live  BY DEF World
      <4> QED  BY <2>1, <3>1, <4>1
    <3>3. \A d \in Cell \ F : y.gf[d] = w.gf[d]  BY <2>1, <3>1
    <3>4. SameCounts(w, y)  BY <2>1, <3>1 DEF SameCounts
    <3>5. Done(y, G \ {c})  BY <2>1, <3>1, <3>2, <3>3, <3>4
    <3>6. Good(y)  BY <3>2, <3>5
    <3> QED  BY <2>3, <3>6 DEF c, y
  <2> QED  BY <2>2, <2>3
<1> DEFINE W == {x \in Worlds : Good(x)}
<1>5. w \in W /\ \A x \in W : Turn(x) \in W
  <2>1. \A x : Good(x) => x \in W
    <3> SUFFICES ASSUME NEW x, Good(x) PROVE x \in Worlds
      OBVIOUS
    <3>1. PICK G \in SUBSET F : Done(x, G)  OBVIOUS
    <3> QED  BY <3>1, WorldParts
  <2>2. \A x \in W : Good(x)  OBVIOUS
  <2> HIDE DEF W, Good, Turn
  <2> QED  BY <1>3, <1>4, <2>1, <2>2
<1>6. \A x \in W : Good(x)  OBVIOUS
<1> HIDE DEF W, Good, Turn, Done
<1>7. \E f : Run(f)
  <2> DEFINE step == [p \in (1 .. Depth) \X W |-> Turn(p[2])]
  <2>1. step \in [(1 .. Depth) \X W -> W]  BY <1>5
  <2>2. \A i \in 1 .. Depth, x \in W : step[<<i, x>>] = Turn(x)  OBVIOUS
  <2> HIDE DEF step
  <2>3. PICK f \in [0 .. Depth -> W] : Recursion(Depth, w, step, f)
    BY <1>2, <1>5, <2>1, RecursionOnInterval
  <2>4. f = [i \in 0 .. Depth |-> IF i = 0 THEN w ELSE step[<<i, f[i - 1]>>]]
    BY <2>3 DEF Recursion
  <2>5. ASSUME NEW i \in 0 .. Depth, i # 0 PROVE step[<<i, f[i - 1]>>] = Turn(f[i - 1])
    <3>1. i \in 1 .. Depth /\ i - 1 \in 0 .. Depth  BY <1>2, <2>5
    <3> QED  BY <2>2, <2>3, <3>1
  <2> QED  BY <2>4, <2>5, Zenon
<1>8. run = [n \in 0 .. Depth |-> IF n = 0 THEN w ELSE Turn(run[n - 1])]  BY <1>7, Zenon
<1> HIDE DEF run
<1> DEFINE Held == {n \in Nat : n <= Depth => run[n] \in W}
<1>9. 0 \in Held  BY <1>2, <1>5, <1>8
<1>10. ASSUME NEW n \in Nat, n \in Held PROVE n + 1 \in Held
  <2> SUFFICES ASSUME n + 1 <= Depth PROVE run[n + 1] \in W
    OBVIOUS
  <2>1. n + 1 \in 0 .. Depth /\ n + 1 # 0 /\ (n + 1) - 1 = n /\ n <= Depth  BY <1>2
  <2>2. run[n + 1] = Turn(run[n])  BY <1>8, <2>1
  <2> QED  BY <1>5, <1>10, <2>1, <2>2
<1>11. run[Depth] \in W
  <2>1. Nat \subseteq Held
    <3> HIDE DEF Held
    <3> QED  BY <1>9, <1>10, Induction
  <2> QED  BY <1>2, <2>1
<1> QED  BY <1>1, <1>6, <1>11 DEF Good, Done

SameRecord(r, q) ==
    /\ q.key = r.key /\ q.kind = r.kind /\ q.socket = r.socket /\ q.write = r.write
    /\ q.started = r.started /\ q.realfile = r.realfile

\* The transfer c is over: its record is on finished_struct.
Over(w, T, Q, F, c, v) ==
    /\ World(v, T \ {c}, T \ {c}, Q, F \cup {c}) /\ v.live = w.live
    /\ \A d \in Cell : d # c => SameRecord(w.gf[d], v.gf[d])

\* clean_queue() for an entry that is too old.
Expired(w, c) ==
    IF w.gf[c].socket > 0
    THEN Finish(CloseFile(Tell(Break(w, c), w.gf[c].kind, -1), c), w.gf[c].socket)
    ELSE PutOnFinished(CloseFile(Break(w, c), c), c)

\* nap_del() and clean_queue() end a transfer alike.
LEMMA DropWorld ==
    ASSUME NEW w, NEW T, NEW Q, NEW F, World(w, T, T, Q, F), NEW c \in T, NEW v,
           v = Drop(w, c) \/ v = Expired(w, c)
    PROVE  Over(w, T, Q, F, c, v)
<1>1. /\ w \in Worlds /\ w.gf \in [Cell -> GetFile] /\ T \subseteq Cell
      /\ Wired(w.sock_manager, w.gf, w.kernel, T)
  BY WorldParts
<1>2. c \in Cell /\ w.gf[c].socket \in Fd \cup {-1}  BY <1>1, SocketsOf
<1> DEFINE s == w.gf[c].socket
           x == Break(w, c)
           y == Tell(x, w.gf[c].kind, -1)
<1>3. s > 0 <=> s \in Fd
  <2>1. s \in Fd \cup {-1}  BY <1>2
  <2> HIDE DEF s
  <2>2. CASE s = -1  BY <2>2, FdFinite
  <2>3. CASE s \in Fd  BY <2>3, FdFinite
  <2> QED  BY <2>1, <2>2, <2>3
<1>4. /\ World(x, T \ {c}, T, Q, F)
      /\ SameData(w.gf, x.gf)
      /\ x.sock_manager = w.sock_manager /\ x.kernel = w.kernel
      /\ x.live = w.live /\ x.gets = w.gets /\ x.sends = w.sends
  <2> HIDE DEF x
  <2> QED  BY BreakWorld DEF x
<1>5. /\ World(y, T \ {c}, T, Q, F) /\ y.gf = x.gf /\ SameLists(x, y)
      /\ y.sock_manager = x.sock_manager /\ y.kernel = x.kernel
  <2>1. -1 \in Int  OBVIOUS
  <2> HIDE DEF x
  <2> QED  BY <1>4, <2>1, TellWorld
<1>6. ASSUME NEW z, World(z, T \ {c}, T, Q, F), z.live = w.live,
             z.sock_manager = w.sock_manager, z.gf[c].socket = s,
             \A d \in Cell : d # c => SameRecord(w.gf[d], z.gf[d])
      PROVE  /\ s > 0 => Over(w, T, Q, F, c, Finish(z, s))
             /\ ~(s > 0) => Over(w, T, Q, F, c, PutOnFinished(z, c))
  <2>1. c \in T \ (T \ {c})  OBVIOUS
  <2>2. ASSUME s > 0 PROVE Over(w, T, Q, F, c, Finish(z, s))
    <3> DEFINE u == Finish(z, s)
    <3>1. s \in Fd /\ s # -1  BY <1>3, <2>2, FdFinite
    <3>2. w.sock_manager.slot[s].info = c  BY <1>1, <3>1 DEF Wired
    <3>3. Info(z, s) = c  BY <1>6, <3>1, <3>2, InfoWorld
    <3> HIDE DEF s
    <3>4. /\ World(u, T \ {c}, T \ {c}, Q, F \cup {c})
          /\ \A d \in Cell : d # c => u.gf[d] = z.gf[d]
          /\ u.live = z.live /\ u.gets = z.gets /\ u.sends = z.sends
      <4> DEFINE U == T \ {c}
      <4>1. World(z, U, T, Q, F) /\ c \in T \ U  BY <1>6, <2>1
      <4> HIDE DEF u, U
      <4>2. /\ World(u, U, T \ {c}, Q, F \cup {c})
            /\ \A d \in Cell : d # c => u.gf[d] = z.gf[d]
            /\ u.live = z.live /\ u.gets = z.gets /\ u.sends = z.sends
        BY <3>1, <3>3, <4>1, FinishWorld DEF u
      <4> QED  BY <4>2 DEF U
    <3>5. \A d \in Cell : d # c => SameRecord(w.gf[d], u.gf[d])
      <4> HIDE DEF u
      <4> QED  BY <1>6, <3>4, Zenon
    <3> QED  BY <1>6, <3>4, <3>5 DEF Over
  <2>3. ASSUME ~(s > 0) PROVE Over(w, T, Q, F, c, PutOnFinished(z, c))
    <3> DEFINE u == PutOnFinished(z, c)
    <3>1. z.gf[c].socket = -1  BY <1>2, <1>3, <1>6, <2>3
    <3>2. /\ World(u, T \ {c}, T \ {c}, Q, F \cup {c})
          /\ \A d \in Cell : d # c => u.gf[d] = z.gf[d]
          /\ u.sock_manager = z.sock_manager /\ u.kernel = z.kernel
          /\ u.live = z.live /\ u.gets = z.gets /\ u.sends = z.sends
      <4> HIDE DEF u
      <4> QED  BY SMTT(30), <1>6, <2>1, <3>1, PutOnFinishedWorld DEF u
    <3>3. \A d \in Cell : d # c => SameRecord(w.gf[d], u.gf[d])
      <4> HIDE DEF u
      <4> QED  BY <1>6, <3>2, Zenon
    <3> QED  BY <1>6, <3>2, <3>3 DEF Over
  <2> QED  BY <2>2, <2>3
<1>7. /\ x.gf[c].socket = s /\ y.gf[c].socket = s
      /\ \A d \in Cell : SameRecord(w.gf[d], x.gf[d]) /\ SameRecord(w.gf[d], y.gf[d])
  <2>1. x.gf[c].socket = s  BY <1>2, <1>4, Zenon DEF SameData
  <2>2. \A d \in Cell : SameRecord(w.gf[d], x.gf[d])  BY <1>4, Zenon DEF SameData, SameRecord
  <2> QED  BY <1>5, <2>1, <2>2
<1>8. y.live = w.live  BY <1>4, <1>5 DEF SameLists
<1>9. ASSUME NEW z, World(z, T \ {c}, T, Q, F), z.live = w.live,
             z.sock_manager = w.sock_manager, z.gf[c].socket = s,
             \A d \in Cell : SameRecord(w.gf[d], z.gf[d]), NEW u, u = CloseFile(z, c)
      PROVE  /\ World(u, T \ {c}, T, Q, F) /\ u.live = w.live
             /\ u.sock_manager = w.sock_manager /\ u.gf[c].socket = s
             /\ \A d \in Cell : d # c => SameRecord(w.gf[d], u.gf[d])
  <2> DEFINE r == [z.gf[c] EXCEPT !.write = FALSE]
  <2>1. /\ World(u, T \ {c}, T, Q, F) /\ Writes(z, u, c, r)
        /\ SameLists(z, u) /\ SameCounts(z, u)
        /\ u.sock_manager = z.sock_manager /\ u.kernel = z.kernel
    BY <1>2, <1>9, CloseFileWorld
  <2>2. z.gf[c] \in GetFile
    <3>1. z.gf \in [Cell -> GetFile]  BY <1>9, WorldParts
    <3> QED  BY <1>2, <3>1
  <2>3. r.socket = z.gf[c].socket  BY <2>2 DEF GetFile
  <2> HIDE DEF r
  <2>4. u.gf[c].socket = s  BY <1>9, <2>1, <2>3 DEF Writes
  <2>5. \A d \in Cell : d # c => SameRecord(w.gf[d], u.gf[d])
    BY <1>9, <2>1, Zenon DEF Writes
  <2> QED  BY <1>9, <2>1, <2>4, <2>5 DEF SameLists
<1>10. CASE v = Drop(w, c)
  <2>1. v = IF s > 0 THEN Finish(y, s) ELSE PutOnFinished(y, c)  BY <1>10 DEF Drop
  <2> HIDE DEF x, y, s
  <2>2. /\ s > 0 => Over(w, T, Q, F, c, Finish(y, s))
        /\ ~(s > 0) => Over(w, T, Q, F, c, PutOnFinished(y, c))
    BY <1>4, <1>5, <1>6, <1>7, <1>8
  <2> QED  BY <2>1, <2>2
<1>11. CASE v = Expired(w, c)
  <2> DEFINE x2 == CloseFile(x, c)
             y2 == CloseFile(y, c)
  <2>1. v = IF s > 0 THEN Finish(y2, s) ELSE PutOnFinished(x2, c)  BY <1>11 DEF Expired
  <2> HIDE DEF x, y, s
  <2>2. /\ World(x2, T \ {c}, T, Q, F) /\ x2.live = w.live
        /\ x2.sock_manager = w.sock_manager /\ x2.gf[c].socket = s
        /\ \A d \in Cell : d # c => SameRecord(w.gf[d], x2.gf[d])
    BY <1>4, <1>7, <1>9
  <2>3. /\ World(y2, T \ {c}, T, Q, F) /\ y2.live = w.live
        /\ y2.sock_manager = w.sock_manager /\ y2.gf[c].socket = s
        /\ \A d \in Cell : d # c => SameRecord(w.gf[d], y2.gf[d])
    BY <1>4, <1>5, <1>7, <1>8, <1>9
  <2> HIDE DEF x2, y2
  <2>4. s > 0 => Over(w, T, Q, F, c, Finish(y2, s))  BY <1>6, <2>3
  <2>5. ~(s > 0) => Over(w, T, Q, F, c, PutOnFinished(x2, c))  BY <1>6, <2>2
  <2> QED  BY <2>1, <2>4, <2>5
<1> QED  BY <1>10, <1>11

\* The records a walk meets before its step n.
Before(w, head, n) == {At(w, head, i) : i \in 0 .. n - 1}

\* The worlds in which those of Hit among them are over.
EndedBy(w, T, Q, F, Hit, D) ==
    {x \in Worlds : /\ World(x, T \ (Hit \cap D), T \ (Hit \cap D), Q, F \cup (Hit \cap D))
                    /\ x.live = w.live
                    /\ \A d \in Cell \ (Hit \cap D) : SameRecord(w.gf[d], x.gf[d])}

\* A walk comes to each record of T once.
Visits(w, head, T) ==
    /\ Before(w, head, 0) = {}
    /\ \A n \in Nat :
         /\ Before(w, head, n + 1) = Before(w, head, n) \cup {At(w, head, n)}
         /\ At(w, head, n) \in T \cup {Nil}
         /\ At(w, head, n) # Nil => At(w, head, n) \notin Before(w, head, n)
    /\ T \subseteq Before(w, head, Depth)

\* A walk along a chain does.
LEMMA BeforeSteps ==
    ASSUME NEW w, NEW T, Nexts(w.gf), NEW head, Chain(w.gf, head, T)
    PROVE  Visits(w, head, T)
<1>1. /\ \A n \in Nat : At(w, head, n) \in T \cup {Nil}
      /\ \A i, j \in Nat : i < j /\ At(w, head, j) # Nil
           => At(w, head, i) # Nil /\ At(w, head, i) # At(w, head, j)
      /\ At(w, head, Depth) = Nil
      /\ On(w, head) = T
  BY WalkOfChain
<1>2. Before(w, head, 0) = {}  BY DEF Before
<1>3. ASSUME NEW n \in Nat
      PROVE  /\ Before(w, head, n + 1) = Before(w, head, n) \cup {At(w, head, n)}
             /\ At(w, head, n) # Nil => At(w, head, n) \notin Before(w, head, n)
  <2>1. 0 .. (n + 1) - 1 = (0 .. n - 1) \cup {n}  OBVIOUS
  <2>2. Before(w, head, n + 1) = Before(w, head, n) \cup {At(w, head, n)}
    BY <2>1, Zenon DEF Before
  <2>3. \A i \in 0 .. n - 1 : i \in Nat /\ i < n  OBVIOUS
  <2>4. At(w, head, n) # Nil => At(w, head, n) \notin Before(w, head, n)
    BY <1>1, <2>3 DEF Before
  <2> QED  BY <2>2, <2>4
<1>4. T \subseteq Before(w, head, Depth)
  <2>1. Depth \in Nat /\ Nil \notin Cell /\ T \subseteq Cell  BY NilNoCell DEF Chain
  <2> SUFFICES ASSUME NEW c \in T PROVE c \in Before(w, head, Depth)
    OBVIOUS
  <2>2. PICK n \in 0 .. Depth : c = At(w, head, n)  BY <1>1 DEF On
  <2>3. n # Depth  BY <1>1, <2>1, <2>2
  <2>4. n \in 0 .. Depth - 1  BY <2>1, <2>3
  <2> QED  BY <2>2, <2>4, Zenon DEF Before
<1> QED  BY <1>1, <1>2, <1>3, <1>4, Zenon DEF Visits

\* One step of a loop that ends the records of Hit.
LEMMA EndStep ==
    ASSUME NEW w, NEW T, NEW Q, NEW F, NEW Hit, Hit \subseteq T, T \subseteq Cell,
           NEW D, NEW c \in T \cup {Nil}, c # Nil => c \notin D,
           NEW x \in EndedBy(w, T, Q, F, Hit, D)
    PROVE  /\ c \notin Hit => x \in EndedBy(w, T, Q, F, Hit, D \cup {c})
           /\ c # Nil => SameRecord(w.gf[c], x.gf[c])
           /\ \A y : c \in Hit /\ (y = Drop(x, c) \/ y = Expired(x, c)) =>
                        y \in EndedBy(w, T, Q, F, Hit, D \cup {c})
<1> DEFINE E == Hit \cap D
<1>1. /\ x \in Worlds /\ World(x, T \ E, T \ E, Q, F \cup E) /\ x.live = w.live
      /\ \A d \in Cell \ E : SameRecord(w.gf[d], x.gf[d])
  BY DEF EndedBy
<1>2. ASSUME c \notin Hit PROVE x \in EndedBy(w, T, Q, F, Hit, D \cup {c})
  <2>1. Hit \cap (D \cup {c}) = Hit \cap D  BY <1>2
  <2> QED  BY <2>1, Zenon DEF EndedBy
<1>3. c # Nil => SameRecord(w.gf[c], x.gf[c])  BY <1>1
<1>4. ASSUME NEW y, c \in Hit, y = Drop(x, c) \/ y = Expired(x, c)
      PROVE  y \in EndedBy(w, T, Q, F, Hit, D \cup {c})
  <2>1. c \in T \ E /\ c # Nil /\ c \in Cell
    <3>1. c # Nil  BY <1>4, CellAssumption
    <3> QED  BY <1>4, <3>1
  <2> DEFINE T1 == T \ E
             F1 == F \cup E
             E2 == Hit \cap (D \cup {c})
  <2>2. E2 = E \cup {c}  BY <1>4
  <2>3. T1 \ {c} = T \ E2 /\ F1 \cup {c} = F \cup E2  BY <2>2
  <2>4. Over(x, T1, Q, F1, c, y)
    <3>1. World(x, T1, T1, Q, F1) /\ c \in T1  BY <1>1, <2>1
    <3> HIDE DEF T1, F1
    <3> QED  BY <1>4, <3>1, DropWorld
  <2>5. /\ World(y, T \ E2, T \ E2, Q, F \cup E2) /\ y.live = w.live
        /\ \A d \in Cell : d # c => SameRecord(x.gf[d], y.gf[d])
    <3> HIDE DEF T1, F1, E2, E
    <3> QED  BY <1>1, <2>3, <2>4 DEF Over
  <2>6. \A d \in Cell \ E2 : SameRecord(w.gf[d], y.gf[d])
    <3> SUFFICES ASSUME NEW d \in Cell \ E2 PROVE SameRecord(w.gf[d], y.gf[d])
      OBVIOUS
    <3>1. d # c /\ d \in Cell \ E  BY <2>2
    <3>2. SameRecord(w.gf[d], x.gf[d]) /\ SameRecord(x.gf[d], y.gf[d])  BY <1>1, <2>5, <3>1
    <3> QED  BY <3>2, Zenon DEF SameRecord
  <2>7. y \in Worlds  BY <2>5, WorldParts
  <2> QED  BY <2>5, <2>6, <2>7, Zenon DEF EndedBy
<1> QED  BY <1>2, <1>3, <1>4

\* What nap_del() does to c, told to take S off, and clean_queue(), to which S is old.
Do(how, S, c, x) ==
    IF how = "drop" THEN (IF c \in S THEN Drop(x, c) ELSE x) ELSE Expire(x, c, S)

Hits(gf, how, T, S) == {c \in T : c \in S /\ (how = "drop" \/ ~gf[c].started)}

EndRun(w, head, how, S, f) ==
    f = [n \in 0 .. Depth |-> IF n = 0 THEN w
                              ELSE IF At(w, head, n - 1) = Nil THEN f[n - 1]
                              ELSE Do(how, S, At(w, head, n - 1), f[n - 1])]

\* One step of either sweep.
LEMMA DoStep ==
    ASSUME NEW w, NEW T, NEW Q, NEW F, T \subseteq Cell, NEW how, NEW S,
           NEW D, NEW c \in T, c \notin D,
           NEW x \in EndedBy(w, T, Q, F, Hits(w.gf, how, T, S), D)
    PROVE  Do(how, S, c, x) \in EndedBy(w, T, Q, F, Hits(w.gf, how, T, S), D \cup {c})
<1> DEFINE Hit == Hits(w.gf, how, T, S)
           y == Do(how, S, c, x)
<1>1. Hit \subseteq T /\ c # Nil  BY CellAssumption DEF Hits
<1>2. c \in Hit <=> c \in S /\ (how = "drop" \/ ~w.gf[c].started)  BY Zenon DEF Hits
<1> HIDE DEF Hit
<1>3. /\ c \notin Hit => x \in EndedBy(w, T, Q, F, Hit, D \cup {c})
      /\ c # Nil => SameRecord(w.gf[c], x.gf[c])
      /\ \A z : c \in Hit /\ (z = Drop(x, c) \/ z = Expired(x, c)) =>
                   z \in EndedBy(w, T, Q, F, Hit, D \cup {c})
  <2>1. x \in EndedBy(w, T, Q, F, Hit, D)  BY DEF Hit
  <2> QED  BY <1>1, <2>1, EndStep
<1>4. x.gf[c].started = w.gf[c].started  BY <1>1, <1>3, Zenon DEF SameRecord
<1>5. CASE c \notin Hit
  <2>1. y = x
    <3>1. CASE how = "drop"
      <4>1. c \notin S  BY <1>2, <1>5, <3>1
      <4> QED  BY <3>1, <4>1 DEF Do
    <3>2. CASE how # "drop"
      <4>1. c \notin S \/ x.gf[c].started  BY <1>2, <1>4, <1>5, <3>2, Zenon
      <4>2. y = Expire(x, c, S)  BY <3>2 DEF Do
      <4> QED  BY <4>1, <4>2, Zenon DEF Expire
    <3> QED  BY <3>1, <3>2
  <2> QED  BY <1>3, <1>5, <2>1 DEF Hit
<1>6. CASE c \in Hit
  <2>1. y = Drop(x, c) \/ y = Expired(x, c)
    <3>1. CASE how = "drop"
      <4>1. c \in S  BY <1>2, <1>6
      <4> QED  BY <3>1, <4>1 DEF Do
    <3>2. CASE how # "drop"
      <4>1. c \in S /\ ~x.gf[c].started  BY <1>2, <1>4, <1>6, <3>2, Zenon
      <4>2. y = Expire(x, c, S)  BY <3>2 DEF Do
      <4>3. Expire(x, c, S) =
              (IF x.gf[c].socket > 0
               THEN Finish(CloseFile(Tell(Break(x, c), x.gf[c].kind, -1), c), x.gf[c].socket)
               ELSE PutOnFinished(CloseFile(Break(x, c), c), c))
        BY <4>1, Zenon DEF Expire
      <4> QED  BY <4>2, <4>3, Zenon DEF Expired
    <3> QED  BY <3>1, <3>2
  <2> HIDE DEF y
  <2>2. y \in EndedBy(w, T, Q, F, Hit, D \cup {c})  BY <1>3, <1>6, <2>1
  <2> QED  BY <2>2 DEF y, Hit
<1> QED  BY <1>5, <1>6

\* What a sweep leaves when it ends the records of Hit.
AfterSweep(w, T, Q, F, Hit, v) ==
    /\ World(v, T \ Hit, T \ Hit, Q, F \cup Hit)
    /\ v.live = w.live
    /\ \A d \in Cell \ Hit : SameRecord(w.gf[d], v.gf[d])

\* A sweep runs, and ends those it is to end.
LEMMA EndRuns ==
    ASSUME NEW w, NEW T, NEW Q, NEW F, World(w, T, T, Q, F), NEW how, NEW S,
           NEW head, head = w.transfer_struct, NEW Hit, Hit = Hits(w.gf, how, T, S)
    PROVE  /\ \E f : EndRun(w, head, how, S, f)
           /\ \A f : EndRun(w, head, how, S, f) => AfterSweep(w, T, Q, F, Hit, f[Depth])
<1>0. w \in Worlds /\ w.gf \in [Cell -> GetFile] /\ T \subseteq Cell  BY WorldParts
<1>c. Chain(w.gf, head, T)  BY DEF World, DoubleChain
<1>1. /\ w \in Worlds /\ w.gf \in [Cell -> GetFile] /\ T \subseteq Cell
      /\ Chain(w.gf, head, T)
  BY <1>0, <1>c
<1>2. Nexts(w.gf) /\ Depth \in Nat  BY <1>1, NextsOf, NilNoCell
<1>b. /\ Before(w, head, 0) = {}
      /\ \A n \in Nat :
           /\ Before(w, head, n + 1) = Before(w, head, n) \cup {At(w, head, n)}
           /\ At(w, head, n) \in T \cup {Nil}
           /\ At(w, head, n) # Nil => At(w, head, n) \notin Before(w, head, n)
      /\ T \subseteq Before(w, head, Depth)
  <2>1. Nexts(w.gf)  BY <1>2
  <2>2. Visits(w, head, T)  BY <1>c, <2>1, BeforeSteps
  <2> QED  BY <2>2, Zenon DEF Visits
<1> DEFINE at(n) == At(w, head, n)
           good(n) == EndedBy(w, T, Q, F, Hit, Before(w, head, n))
<1>3. /\ Before(w, head, 0) = {}
      /\ \A n \in Nat :
           /\ Before(w, head, n + 1) = Before(w, head, n) \cup {at(n)}
           /\ at(n) \in T \cup {Nil}
           /\ at(n) # Nil => at(n) \notin Before(w, head, n)
      /\ T \subseteq Before(w, head, Depth)
  BY <1>b DEF at
<1>4. Hit \subseteq T  BY DEF Hits
<1>5. w \in good(0)
  <2>1. Hit \cap {} = {} /\ T \ {} = T /\ F \cup {} = F  OBVIOUS
  <2>2. \A d \in Cell : SameRecord(w.gf[d], w.gf[d])  BY DEF SameRecord
  <2> QED  BY <1>1, <1>3, <2>1, <2>2 DEF EndedBy
<1>6. \A n \in Nat : \A x \in good(n) :
         (IF at(n) = Nil THEN x ELSE Do(how, S, at(n), x)) \in good(n + 1)
  <2> SUFFICES ASSUME NEW n \in Nat, NEW x \in good(n)
               PROVE  (IF at(n) = Nil THEN x ELSE Do(how, S, at(n), x)) \in good(n + 1)
    OBVIOUS
  <2> DEFINE D == Before(w, head, n)
             c == at(n)
  <2>1. good(n + 1) = EndedBy(w, T, Q, F, Hit, D \cup {c})  BY <1>3
  <2>2. c \in T \cup {Nil} /\ (c # Nil => c \notin D)  BY <1>3
  <2>3. x \in EndedBy(w, T, Q, F, Hit, D)  OBVIOUS
  <2> HIDE DEF c, D, good
  <2>4. CASE c = Nil
    <3>1. c \notin Hit  BY <1>1, <1>4, <2>4, CellAssumption
    <3>2. x \in EndedBy(w, T, Q, F, Hit, D \cup {c})  BY <1>1, <1>4, <2>2, <2>3, <3>1, EndStep
    <3> QED  BY <2>1, <2>4, <3>2 DEF c
  <2>5. CASE c # Nil
    <3>1. c \in T /\ c \notin D  BY <2>2, <2>5
    <3>2. Do(how, S, c, x) \in EndedBy(w, T, Q, F, Hit, D \cup {c})
      BY <1>1, <2>3, <3>1, DoStep
    <3> QED  BY <2>1, <2>5, <3>2 DEF c
  <2> QED  BY <2>4, <2>5
<1> HIDE DEF good, at
<1>7. \A f : EndRun(w, head, how, S, f) <=>
               f = [n \in 0 .. Depth |-> IF n = 0 THEN w
                                         ELSE IF at(n - 1) = Nil THEN f[n - 1]
                                         ELSE Do(how, S, at(n - 1), f[n - 1])]
  BY DEF EndRun, at
<1>8. \E f : EndRun(w, head, how, S, f)
  <2> DEFINE P == (1 .. Depth) \X Worlds
             step == [p \in P |-> IF at(p[1] - 1) = Nil THEN p[2] ELSE Do(how, S, at(p[1] - 1), p[2])]
             best == [n \in 0 .. Depth |-> good(n)]
  <2>1. \A n : good(n) \subseteq Worlds  BY DEF good, EndedBy
  <2>2. best \in [0 .. Depth -> SUBSET Worlds] /\ \A n \in 0 .. Depth : best[n] = good(n)
    BY <2>1
  <2>3. \A i \in 1 .. Depth, x \in Worlds :
           step[<<i, x>>] = IF at(i - 1) = Nil THEN x ELSE Do(how, S, at(i - 1), x)
    OBVIOUS
  <2> HIDE DEF step, best
  <2>4. \A i \in 1 .. Depth : \A x \in best[i - 1] : step[<<i, x>>] \in best[i]
    <3> SUFFICES ASSUME NEW i \in 1 .. Depth, NEW x \in best[i - 1]
                 PROVE  step[<<i, x>>] \in best[i]
      OBVIOUS
    <3>1. i - 1 \in Nat /\ i - 1 \in 0 .. Depth /\ i \in 0 .. Depth /\ (i - 1) + 1 = i
      BY <1>2
    <3>2. x \in good(i - 1) /\ x \in Worlds  BY <2>1, <2>2, <3>1
    <3>3. step[<<i, x>>] = IF at(i - 1) = Nil THEN x ELSE Do(how, S, at(i - 1), x)
      BY <2>3, <3>2
    <3>4. (IF at(i - 1) = Nil THEN x ELSE Do(how, S, at(i - 1), x)) \in good((i - 1) + 1)
      BY <1>6, <3>1, <3>2
    <3> QED  BY <2>2, <3>1, <3>3, <3>4
  <2>5. w \in best[0]  BY <1>2, <1>5, <2>2
  <2>6. PICK f \in [0 .. Depth -> Worlds] :
           Recursion(Depth, w, step, f) /\ \A i \in 0 .. Depth : f[i] \in best[i]
    BY <1>2, <2>2, <2>4, <2>5, RecursionKept
  <2>7. f = [i \in 0 .. Depth |-> IF i = 0 THEN w ELSE step[<<i, f[i - 1]>>]]
    BY <2>6 DEF Recursion
  <2>8. ASSUME NEW i \in 0 .. Depth, i # 0
        PROVE  step[<<i, f[i - 1]>>] =
                 IF at(i - 1) = Nil THEN f[i - 1] ELSE Do(how, S, at(i - 1), f[i - 1])
    <3>1. i \in 1 .. Depth /\ f[i - 1] \in Worlds  BY <1>2, <2>6, <2>8
    <3> QED  BY <2>3, <3>1
  <2>9. f = [n \in 0 .. Depth |-> IF n = 0 THEN w
                                  ELSE IF at(n - 1) = Nil THEN f[n - 1]
                                  ELSE Do(how, S, at(n - 1), f[n - 1])]
    BY <2>7, <2>8, Zenon
  <2> QED  BY <1>7, <2>9, Zenon
<1>9. ASSUME NEW f, EndRun(w, head, how, S, f) PROVE f[Depth] \in good(Depth)
  <2> DEFINE Held == {n \in Nat : n <= Depth => f[n] \in good(n)}
  <2>0. f = [n \in 0 .. Depth |-> IF n = 0 THEN w
                                  ELSE IF at(n - 1) = Nil THEN f[n - 1]
                                  ELSE Do(how, S, at(n - 1), f[n - 1])]
    BY <1>7, <1>9
  <2>1. 0 \in Held  BY <1>2, <1>5, <2>0
  <2>2. ASSUME NEW n \in Nat, n \in Held PROVE n + 1 \in Held
    <3> SUFFICES ASSUME n + 1 <= Depth PROVE f[n + 1] \in good(n + 1)
      OBVIOUS
    <3>1. n + 1 \in 0 .. Depth /\ n + 1 # 0 /\ (n + 1) - 1 = n /\ n <= Depth  BY <1>2
    <3>2. f[n + 1] = IF at(n) = Nil THEN f[n] ELSE Do(how, S, at(n), f[n])  BY <2>0, <3>1
    <3>3. f[n] \in good(n)  BY <2>2, <3>1
    <3> QED  BY <1>6, <3>2, <3>3
  <2>3. Nat \subseteq Held
    <3> HIDE DEF Held
    <3> QED  BY <2>1, <2>2, Induction
  <2> QED  BY <1>2, <2>3
<1>10. ASSUME NEW x \in good(Depth)
       PROVE  AfterSweep(w, T, Q, F, Hit, x)
  <2>1. Hit \cap Before(w, head, Depth) = Hit  BY <1>3, <1>4
  <2> QED  BY <1>10, <2>1, Zenon DEF good, EndedBy, AfterSweep
<1> QED  BY <1>8, <1>9, <1>10

----------------------------------------------------------------------------
(* The sweeps *)

\* The loop a sweep is, by whatever name its step goes.
LEMMA EndRunChosen ==
    ASSUME NEW w, NEW T, NEW Q, NEW F, World(w, T, T, Q, F), NEW how, NEW S,
           NEW head, head = w.transfer_struct, NEW Hit, Hit = Hits(w.gf, how, T, S)
    PROVE  \A f : f = (CHOOSE g : EndRun(w, head, how, S, g))
                    => AfterSweep(w, T, Q, F, Hit, f[Depth])
<1>1. /\ \E f : EndRun(w, head, how, S, f)
      /\ \A f : EndRun(w, head, how, S, f) => AfterSweep(w, T, Q, F, Hit, f[Depth])
  BY EndRuns
<1>2. EndRun(w, head, how, S, CHOOSE g : EndRun(w, head, how, S, g))  BY <1>1, Zenon
<1> QED  BY <1>1, <1>2, Zenon

\* nap_del() for the records of S.
LEMMA DropSome ==
    ASSUME NEW w, NEW T, NEW Q, NEW F, World(w, T, T, Q, F), NEW S,
           NEW v, v = DropThose(w, S)
    PROVE  AfterSweep(w, T, Q, F, Hits(w.gf, "drop", T, S), v)
<1> DEFINE head == w.transfer_struct
           Made(f) == f = [n \in 0 .. Depth |->
                             IF n = 0 THEN w
                             ELSE IF At(w, head, n - 1) = Nil THEN f[n - 1]
                             ELSE IF At(w, head, n - 1) \in S
                             THEN Drop(f[n - 1], At(w, head, n - 1)) ELSE f[n - 1]]
<1>1. v = (CHOOSE f : Made(f))[Depth]  BY DEF Walk, DropThose
<1>2. \A f : Made(f) <=> EndRun(w, head, "drop", S, f)  BY DEF EndRun, Do
<1> HIDE DEF Made, head
<1>3. (CHOOSE f : Made(f)) = (CHOOSE f : EndRun(w, head, "drop", S, f))  BY <1>2
<1> DEFINE g == CHOOSE f : EndRun(w, head, "drop", S, f)
           Hit == Hits(w.gf, "drop", T, S)
           how == "drop"
<1>4. \A f : f = (CHOOSE h : EndRun(w, head, how, S, h)) => AfterSweep(w, T, Q, F, Hit, f[Depth])
  <2>1. head = w.transfer_struct /\ Hit = Hits(w.gf, how, T, S)  BY DEF head
  <2> HIDE DEF how, Hit
  <2> QED  BY <2>1, EndRunChosen
<1> QED  BY <1>1, <1>3, <1>4

\* ... and for all there are.
LEMMA DropAll ==
    ASSUME NEW w, NEW T, NEW Q, NEW F, World(w, T, T, Q, F),
           NEW v, v = Walk(w, w.transfer_struct, Drop)
    PROVE  AfterSweep(w, T, Q, F, Hits(w.gf, "drop", T, T), v)
<1> DEFINE head == w.transfer_struct
           Made(f) == f = [n \in 0 .. Depth |->
                             IF n = 0 THEN w
                             ELSE IF At(w, head, n - 1) = Nil THEN f[n - 1]
                             ELSE Drop(f[n - 1], At(w, head, n - 1))]
<1>1. v = (CHOOSE f : Made(f))[Depth]  BY DEF Walk
<1> HIDE DEF head
<1>2. \A n \in Nat : At(w, head, n) \in T \cup {Nil}
  <2>1. w.gf \in [Cell -> GetFile]  BY WorldParts
  <2>2. Nexts(w.gf)  BY <2>1, NextsOf
  <2>3. Chain(w.gf, head, T)  BY DEF World, DoubleChain, head
  <2> QED  BY <2>2, <2>3, WalkOfChain
<1>3. \A f : Made(f) <=> EndRun(w, head, "drop", T, f)
  <2>1. \A n \in 0 .. Depth : n # 0 => n - 1 \in Nat  BY NilNoCell
  <2>2. \A f : \A n \in 0 .. Depth :
           (IF n = 0 THEN w
            ELSE IF At(w, head, n - 1) = Nil THEN f[n - 1]
            ELSE Drop(f[n - 1], At(w, head, n - 1)))
         = (IF n = 0 THEN w
            ELSE IF At(w, head, n - 1) = Nil THEN f[n - 1]
            ELSE Do("drop", T, At(w, head, n - 1), f[n - 1]))
    BY <1>2, <2>1 DEF Do
  <2> QED  BY <2>2, Zenon DEF EndRun
<1> HIDE DEF Made
<1>4. (CHOOSE f : Made(f)) = (CHOOSE f : EndRun(w, head, "drop", T, f))  BY <1>3
<1> DEFINE Hit == Hits(w.gf, "drop", T, T)
           how == "drop"
<1>5. \A f : f = (CHOOSE h : EndRun(w, head, how, T, h)) => AfterSweep(w, T, Q, F, Hit, f[Depth])
  <2>1. head = w.transfer_struct /\ Hit = Hits(w.gf, how, T, T)  BY DEF head
  <2> HIDE DEF how, Hit
  <2> QED  BY <2>1, EndRunChosen
<1> QED  BY <1>1, <1>4, <1>5

\* clean_queue() for the records of old.
LEMMA ExpireSome ==
    ASSUME NEW w, NEW T, NEW Q, NEW F, World(w, T, T, Q, F), NEW old,
           NEW v, v = ExpireThose(w, old)
    PROVE  AfterSweep(w, T, Q, F, Hits(w.gf, "expire", T, old), v)
<1> DEFINE head == w.transfer_struct
           Made(f) == f = [n \in 0 .. Depth |->
                             IF n = 0 THEN w
                             ELSE IF At(w, head, n - 1) = Nil THEN f[n - 1]
                             ELSE Expire(f[n - 1], At(w, head, n - 1), old)]
<1>1. v = (CHOOSE f : Made(f))[Depth]  BY DEF Walk, ExpireThose
<1> HIDE DEF head
<1>2. \A f : Made(f) <=> EndRun(w, head, "expire", old, f)  BY DEF EndRun, Do
<1> HIDE DEF Made
<1>3. (CHOOSE f : Made(f)) = (CHOOSE f : EndRun(w, head, "expire", old, f))  BY <1>2
<1> DEFINE Hit == Hits(w.gf, "expire", T, old)
           how == "expire"
<1>4. \A f : f = (CHOOSE h : EndRun(w, head, how, old, h)) => AfterSweep(w, T, Q, F, Hit, f[Depth])
  <2>1. head = w.transfer_struct /\ Hit = Hits(w.gf, how, T, old)  BY DEF head
  <2> HIDE DEF how, Hit
  <2> QED  BY <2>1, EndRunChosen
<1> QED  BY <1>1, <1>3, <1>4

\* /queue -remove: the records of S leave the queue, and are on no list then.
LEMMA DequeueStep ==
    ASSUME NEW w, NEW T, NEW Q, NEW F, World(w, T, T, Q, F), NEW c \in Q,
           NEW v, v = Dequeue(w, c)
    PROVE  /\ World(v, T, T, Q \ {c}, F) /\ v.live = w.live
           /\ \A d \in Cell : SameRecord(w.gf[d], v.gf[d])
<1> DEFINE u == BreakFromQueue(w, c)
           s == w.gf[c].socket
<1>1. v = Finish(u, s)  BY DEF Dequeue
<1>2. s = -1
  <2>1. c \in Q \cup F  OBVIOUS
  <2> QED  BY <2>1, Zenon DEF World, Silent
<1>3. s \in Fd \cup {-1}  BY <1>2
<1> HIDE DEF u, s
<1>4. /\ World(u, T, T, Q \ {c}, F)
      /\ SameData(w.gf, u.gf)
      /\ u.sock_manager = w.sock_manager /\ u.kernel = w.kernel
      /\ u.live = w.live /\ u.gets = w.gets /\ u.sends = w.sends
  BY BreakFromQueueWorld DEF u
<1>5. Info(u, s) = Nil  BY <1>2 DEF Info, GetSocketInfo, CheckSocket
<1> DEFINE Q1 == Q \ {c}
<1>6. World(u, T, T, Q1, F)  BY <1>4
<1> HIDE DEF Q1
<1>7. /\ World(v, T, T, Q1, F) /\ v.gf = u.gf
      /\ v.live = u.live /\ v.gets = u.gets /\ v.sends = u.sends
  BY <1>1, <1>3, <1>5, <1>6, FinishNone
<1>8. \A d \in Cell : SameRecord(w.gf[d], v.gf[d])  BY <1>4, <1>7, ZenonT(40) DEF SameData, SameRecord
<1> QED  BY <1>4, <1>7, <1>8 DEF Q1

\* The worlds in which those of S among D have left the queue.
LeftQueue(w, T, Q, F, S, D) ==
    {x \in Worlds : /\ World(x, T, T, Q \ (S \cap D), F) /\ x.live = w.live
                    /\ \A d \in Cell : SameRecord(w.gf[d], x.gf[d])}

QueueRun(w, head, S, f) ==
    f = [n \in 0 .. Depth |-> IF n = 0 THEN w
                              ELSE IF At(w, head, n - 1) = Nil THEN f[n - 1]
                              ELSE IF At(w, head, n - 1) \in S
                              THEN Dequeue(f[n - 1], At(w, head, n - 1)) ELSE f[n - 1]]

AfterRemove(w, T, Q, F, S, v) ==
    /\ World(v, T, T, Q \ S, F) /\ v.live = w.live
    /\ \A d \in Cell : SameRecord(w.gf[d], v.gf[d])

\* What stays stays through two steps.
LEMMA SameRecordTrans ==
    ASSUME NEW p, NEW q, NEW r, SameRecord(p, q), SameRecord(q, r)
    PROVE  SameRecord(p, r)
  BY Zenon DEF SameRecord

\* One step of /queue -remove.
LEMMA LeaveStep ==
    ASSUME NEW w, NEW T, NEW Q, NEW F, NEW S, Q \subseteq Cell, NEW D,
           NEW c \in Q \cup {Nil}, c # Nil => c \notin D, NEW x \in LeftQueue(w, T, Q, F, S, D),
           NEW y, y = IF c = Nil THEN x ELSE IF c \in S THEN Dequeue(x, c) ELSE x,
           Nil \notin S
    PROVE  y \in LeftQueue(w, T, Q, F, S, D \cup {c})
<1>1. /\ x \in Worlds /\ World(x, T, T, Q \ (S \cap D), F) /\ x.live = w.live
      /\ \A d \in Cell : SameRecord(w.gf[d], x.gf[d])
  BY DEF LeftQueue
<1>2. CASE c \notin S
  <2>1. S \cap (D \cup {c}) = S \cap D /\ y = x  BY <1>2
  <2> QED  BY <1>1, <2>1 DEF LeftQueue
<1>3. CASE c \in S
  <2> DEFINE Q1 == Q \ (S \cap D)
  <2>1. c # Nil /\ c \in Q1 /\ Q \ (S \cap (D \cup {c})) = Q1 \ {c} /\ y = Dequeue(x, c)
    BY <1>3
  <2> HIDE DEF Q1
  <2>2. World(x, T, T, Q1, F)  BY <1>1 DEF Q1
  <2>3. /\ World(y, T, T, Q1 \ {c}, F) /\ y.live = x.live
        /\ \A d \in Cell : SameRecord(x.gf[d], y.gf[d])
    BY <2>1, <2>2, DequeueStep
  <2>4. y \in Worlds  BY <2>3, Zenon DEF World
  <2>5. \A d \in Cell : SameRecord(w.gf[d], y.gf[d])  BY <1>1, <2>3, SameRecordTrans
  <2> QED  BY <1>1, <2>1, <2>3, <2>4, <2>5 DEF LeftQueue
<1> QED  BY <1>2, <1>3

\* /queue -remove runs, and takes off those it is told.
LEMMA QueueRuns ==
    ASSUME NEW w, NEW T, NEW Q, NEW F, World(w, T, T, Q, F), NEW S, Nil \notin S,
           NEW head, head = w.Queued
    PROVE  /\ \E f : QueueRun(w, head, S, f)
           /\ \A f : QueueRun(w, head, S, f) => AfterRemove(w, T, Q, F, S, f[Depth])
<1>0. w \in Worlds /\ w.gf \in [Cell -> GetFile]  BY WorldParts
<1>c. Chain(w.gf, head, Q)  BY DEF World, DoubleChain
<1>1. /\ w \in Worlds /\ w.gf \in [Cell -> GetFile] /\ Q \subseteq Cell
      /\ Chain(w.gf, head, Q)
  BY <1>0, <1>c DEF Chain
<1>2. Nexts(w.gf) /\ Depth \in Nat  BY <1>1, NextsOf, NilNoCell
<1>b. /\ Before(w, head, 0) = {}
      /\ \A n \in Nat :
           /\ Before(w, head, n + 1) = Before(w, head, n) \cup {At(w, head, n)}
           /\ At(w, head, n) \in Q \cup {Nil}
           /\ At(w, head, n) # Nil => At(w, head, n) \notin Before(w, head, n)
      /\ Q \subseteq Before(w, head, Depth)
  <2>1. Nexts(w.gf)  BY <1>2
  <2>2. Visits(w, head, Q)  BY <1>c, <2>1, BeforeSteps
  <2> QED  BY <2>2, Zenon DEF Visits
<1> DEFINE at(n) == At(w, head, n)
           good(n) == LeftQueue(w, T, Q, F, S, Before(w, head, n))
           do(n, x) == IF at(n) = Nil THEN x ELSE IF at(n) \in S THEN Dequeue(x, at(n)) ELSE x
<1>3. /\ Before(w, head, 0) = {}
      /\ \A n \in Nat :
           /\ Before(w, head, n + 1) = Before(w, head, n) \cup {at(n)}
           /\ at(n) \in Q \cup {Nil}
           /\ at(n) # Nil => at(n) \notin Before(w, head, n)
      /\ Q \subseteq Before(w, head, Depth)
  BY <1>b DEF at
<1>5. w \in good(0)
  <2>1. S \cap {} = {} /\ Q \ {} = Q  OBVIOUS
  <2>2. \A d \in Cell : SameRecord(w.gf[d], w.gf[d])  BY DEF SameRecord
  <2> QED  BY <1>1, <1>3, <2>1, <2>2 DEF LeftQueue
<1>6. \A n \in Nat : \A x \in good(n) : do(n, x) \in good(n + 1)
  <2> SUFFICES ASSUME NEW n \in Nat, NEW x \in good(n) PROVE do(n, x) \in good(n + 1)
    OBVIOUS
  <2> DEFINE D == Before(w, head, n)
             c == at(n)
             y == do(n, x)
  <2>1. good(n + 1) = LeftQueue(w, T, Q, F, S, D \cup {c})  BY <1>3
  <2>2. c \in Q \cup {Nil} /\ (c # Nil => c \notin D)  BY <1>3
  <2>3. x \in LeftQueue(w, T, Q, F, S, D)  OBVIOUS
  <2>4. y = IF c = Nil THEN x ELSE IF c \in S THEN Dequeue(x, c) ELSE x  OBVIOUS
  <2> HIDE DEF c, D, good, y
  <2>5. y \in LeftQueue(w, T, Q, F, S, D \cup {c})
    BY <1>1, <2>2, <2>3, <2>4, LeaveStep
  <2> QED  BY <2>1, <2>5 DEF y
<1> HIDE DEF good
<1>7. \A f : QueueRun(w, head, S, f) <=>
               f = [n \in 0 .. Depth |-> IF n = 0 THEN w ELSE do(n - 1, f[n - 1])]
  BY DEF QueueRun
<1> HIDE DEF do, at
<1>8. \E f : QueueRun(w, head, S, f)
  <2> DEFINE P == (1 .. Depth) \X Worlds
             step == [p \in P |-> do(p[1] - 1, p[2])]
             best == [n \in 0 .. Depth |-> good(n)]
  <2>1. \A n : good(n) \subseteq Worlds  BY DEF good, LeftQueue
  <2>2. best \in [0 .. Depth -> SUBSET Worlds] /\ \A n \in 0 .. Depth : best[n] = good(n)
    BY <2>1
  <2>3. \A i \in 1 .. Depth, x \in Worlds : step[<<i, x>>] = do(i - 1, x)
    OBVIOUS
  <2> HIDE DEF step, best
  <2>4. \A i \in 1 .. Depth : \A x \in best[i - 1] : step[<<i, x>>] \in best[i]
    <3> SUFFICES ASSUME NEW i \in 1 .. Depth, NEW x \in best[i - 1]
                 PROVE  step[<<i, x>>] \in best[i]
      OBVIOUS
    <3>1. i - 1 \in Nat /\ i - 1 \in 0 .. Depth /\ i \in 0 .. Depth /\ (i - 1) + 1 = i
      BY <1>2
    <3>2. x \in good(i - 1) /\ x \in Worlds  BY <2>1, <2>2, <3>1
    <3>3. step[<<i, x>>] = do(i - 1, x)  BY <2>3, <3>2
    <3>4. do(i - 1, x) \in good((i - 1) + 1)  BY <1>6, <3>1, <3>2
    <3> QED  BY <2>2, <3>1, <3>3, <3>4
  <2>5. w \in best[0]  BY <1>2, <1>5, <2>2
  <2>6. PICK f \in [0 .. Depth -> Worlds] :
           Recursion(Depth, w, step, f) /\ \A i \in 0 .. Depth : f[i] \in best[i]
    BY <1>2, <2>2, <2>4, <2>5, RecursionKept
  <2>7. f = [i \in 0 .. Depth |-> IF i = 0 THEN w ELSE step[<<i, f[i - 1]>>]]
    BY <2>6 DEF Recursion
  <2>8. ASSUME NEW i \in 0 .. Depth, i # 0 PROVE step[<<i, f[i - 1]>>] = do(i - 1, f[i - 1])
    <3>1. i \in 1 .. Depth /\ f[i - 1] \in Worlds  BY <1>2, <2>6, <2>8
    <3> QED  BY <2>3, <3>1
  <2>9. f = [n \in 0 .. Depth |-> IF n = 0 THEN w ELSE do(n - 1, f[n - 1])]
    BY <2>7, <2>8, Zenon
  <2> QED  BY <1>7, <2>9, Zenon
<1>9. ASSUME NEW f, QueueRun(w, head, S, f) PROVE f[Depth] \in good(Depth)
  <2> DEFINE Held == {n \in Nat : n <= Depth => f[n] \in good(n)}
  <2>0. f = [n \in 0 .. Depth |-> IF n = 0 THEN w ELSE do(n - 1, f[n - 1])]
    BY <1>7, <1>9
  <2>1. 0 \in Held  BY <1>2, <1>5, <2>0
  <2>2. ASSUME NEW n \in Nat, n \in Held PROVE n + 1 \in Held
    <3> SUFFICES ASSUME n + 1 <= Depth PROVE f[n + 1] \in good(n + 1)
      OBVIOUS
    <3>1. n + 1 \in 0 .. Depth /\ n + 1 # 0 /\ (n + 1) - 1 = n /\ n <= Depth  BY <1>2
    <3>2. f[n + 1] = do(n, f[n])  BY <2>0, <3>1
    <3>3. f[n] \in good(n)  BY <2>2, <3>1
    <3> QED  BY <1>6, <3>2, <3>3
  <2>3. Nat \subseteq Held
    <3> HIDE DEF Held
    <3> QED  BY <2>1, <2>2, Induction
  <2> QED  BY <1>2, <2>3
<1>10. ASSUME NEW x \in good(Depth) PROVE AfterRemove(w, T, Q, F, S, x)
  <2>1. Q \ (S \cap Before(w, head, Depth)) = Q \ S  BY <1>3
  <2> QED  BY <1>10, <2>1, Zenon DEF good, LeftQueue, AfterRemove
<1> QED  BY <1>8, <1>9, <1>10

\* DequeueThose is such a run.
LEMMA DequeueSome ==
    ASSUME NEW w, NEW T, NEW Q, NEW F, World(w, T, T, Q, F), NEW S, Nil \notin S,
           NEW v, v = DequeueThose(w, S)
    PROVE  AfterRemove(w, T, Q, F, S, v)
<1> DEFINE head == w.Queued
           Made(f) == f = [n \in 0 .. Depth |->
                             IF n = 0 THEN w
                             ELSE IF At(w, head, n - 1) = Nil THEN f[n - 1]
                             ELSE IF At(w, head, n - 1) \in S
                             THEN Dequeue(f[n - 1], At(w, head, n - 1)) ELSE f[n - 1]]
<1>1. v = (CHOOSE f : Made(f))[Depth]  BY DEF Walk, DequeueThose
<1>2. \A f : Made(f) <=> QueueRun(w, head, S, f)  BY DEF QueueRun
<1>3. head = w.Queued  OBVIOUS
<1> HIDE DEF Made, head
<1>4. (CHOOSE f : Made(f)) = (CHOOSE f : QueueRun(w, head, S, f))  BY <1>2
<1>5. /\ \E f : QueueRun(w, head, S, f)
      /\ \A f : QueueRun(w, head, S, f) => AfterRemove(w, T, Q, F, S, f[Depth])
  BY <1>3, QueueRuns
<1>6. QueueRun(w, head, S, CHOOSE f : QueueRun(w, head, S, f))  BY <1>5, Zenon
<1>7. AfterRemove(w, T, Q, F, S, (CHOOSE f : QueueRun(w, head, S, f))[Depth])
  BY <1>5, <1>6, Zenon
<1> QED  BY <1>1, <1>4, <1>7

----------------------------------------------------------------------------
(* The state between two handlers *)

\* The downloads: one for a file, and none of them connected while the server
\* has yet to answer for it; the address comes with the name to write to.
GetsKept(gf, T, Q, q) ==
    /\ q \in [Key -> {0, 1} \cap (0 .. AskBound)]
    /\ \A c \in T \cup Q : gf[c].key \in Key
    /\ \A c, d \in T \cup Q :
         gf[c].kind = "get" /\ gf[d].kind = "get" /\ gf[c].key = gf[d].key => c = d
    /\ \A c \in T \cup Q :
         gf[c].kind = "get" /\ q[gf[c].key] > 0 => c \in T /\ ~gf[c].realfile
    /\ \A c \in T : gf[c].kind = "get" /\ ~gf[c].realfile => gf[c].socket = -1
    /\ \A c \in Q : gf[c].kind = "get" /\ ~gf[c].realfile

Sends(gf, T) == {c \in T : gf[c].kind = "send"}

SendsKept(gf, T) == SendLimit # 0 => Cardinality(Sends(gf, T)) <= SendLimit

\* What a run may include for no record to be lost from sight.
Ordinary == /\ Happens \subseteq {"queue", "gone", "timeout", "command"}
            /\ ~({"queue", "command"} \subseteq Happens)

\* No record is lost, and uploads on the list have an open file.
AllSeen(w, T, Q, F) ==
    /\ w.live \subseteq T \cup Q \cup F
    /\ \A c \in T : w.gf[c].kind = "send" => w.gf[c].write

State(w, T, Q, F, q) ==
    /\ World(w, T, T, Q, F)
    /\ GetsKept(w.gf, T, Q, q)
    /\ SendsKept(w.gf, T)
    /\ Ordinary => AllSeen(w, T, Q, F)

Resting(w, q) == \E T, Q, F : State(w, T, Q, F, q)

\* What a handler may do to a record that stays where it is.
Follows(r, q) ==
    /\ q.key = r.key /\ q.kind = r.kind /\ q.realfile = r.realfile
    /\ q.socket = r.socket \/ r.realfile \/ r.kind = "send"
    /\ r.kind = "send" /\ r.write => q.write

\* What stays the same may stay.
LEMMA FollowsOf ==
    ASSUME NEW r, NEW q
    PROVE  /\ SameRecord(r, q) => Follows(r, q)
           /\ SameFile(r, q) => Follows(r, q)
           /\ q = r => Follows(r, q)
  BY Zenon DEF SameRecord, SameFile, Follows

\* Fewer uploads keep within the limit.
LEMMA SendsFrame ==
    ASSUME NEW gf, NEW h, NEW T, NEW T1, T \subseteq Cell, SendsKept(gf, T),
           Sends(h, T1) \subseteq Sends(gf, T)
    PROVE  SendsKept(h, T1)
<1>1. IsFiniteSet(Sends(gf, T))
  <2>1. Sends(gf, T) \subseteq Cell  BY DEF Sends
  <2> QED  BY <2>1, CellAssumption, FS_Subset
<1>2. /\ Cardinality(Sends(h, T1)) \in Nat /\ Cardinality(Sends(gf, T)) \in Nat
      /\ Cardinality(Sends(h, T1)) <= Cardinality(Sends(gf, T))
  BY <1>1, FS_Subset, FS_CardinalityType
<1> QED  BY <1>2, SendLimitAssumption DEF SendsKept

\* Downloads that stay where they are, or go, keep the promise.
LEMMA GetsFrame ==
    ASSUME NEW gf, NEW h, NEW T, NEW Q, NEW T1, NEW Q1, NEW q, GetsKept(gf, T, Q, q),
           T1 \subseteq T, Q1 \subseteq Q, T \cap Q = {},
           \A c \in T1 \cup Q1 : Follows(gf[c], h[c])
    PROVE  GetsKept(h, T1, Q1, q)
<1>1. \A c \in T1 \cup Q1 : /\ h[c].key = gf[c].key /\ h[c].kind = gf[c].kind
                            /\ h[c].realfile = gf[c].realfile /\ c \in T \cup Q
  BY Zenon DEF Follows
<1>2. \A c \in T1 \cup Q1 : h[c].socket = gf[c].socket \/ gf[c].realfile \/ gf[c].kind = "send"
  BY Zenon DEF Follows
<1>3. /\ q \in [Key -> {0, 1} \cap (0 .. AskBound)]
      /\ \A c \in T \cup Q : gf[c].key \in Key
      /\ \A c, d \in T \cup Q :
           gf[c].kind = "get" /\ gf[d].kind = "get" /\ gf[c].key = gf[d].key => c = d
      /\ \A c \in T \cup Q :
           gf[c].kind = "get" /\ q[gf[c].key] > 0 => c \in T /\ ~gf[c].realfile
      /\ \A c \in T : gf[c].kind = "get" /\ ~gf[c].realfile => gf[c].socket = -1
      /\ \A c \in Q : gf[c].kind = "get" /\ ~gf[c].realfile
  BY Zenon DEF GetsKept
<1>4. \A c \in T1 : h[c].kind = "get" /\ ~h[c].realfile => h[c].socket = -1
  <2> SUFFICES ASSUME NEW c \in T1, h[c].kind = "get", ~h[c].realfile PROVE h[c].socket = -1
    BY Zenon
  <2>1. c \in T1 \cup Q1 /\ c \in T  BY Zenon
  <2>2. gf[c].kind = "get" /\ ~gf[c].realfile  BY <1>1, <2>1, Zenon
  <2>3. gf[c].kind # "send"  BY <2>2
  <2> QED  BY <1>2, <1>3, <2>1, <2>2, <2>3, Zenon
<1>5. \A c \in Q1 : h[c].kind = "get" /\ ~h[c].realfile  BY <1>1, <1>3, Zenon
<1>6. \A c \in T1 \cup Q1 :
         h[c].kind = "get" /\ q[h[c].key] > 0 => c \in T1 /\ ~h[c].realfile
  <2> SUFFICES ASSUME NEW c \in T1 \cup Q1, h[c].kind = "get", q[h[c].key] > 0
               PROVE  c \in T1 /\ ~h[c].realfile
    BY Zenon
  <2>1. c \in T /\ ~gf[c].realfile  BY <1>1, <1>3, Zenon
  <2>2. c \in T1  BY <2>1
  <2> QED  BY <1>1, <2>1, <2>2, Zenon
<1>7. \A c \in T1 \cup Q1 : h[c].key \in Key  BY <1>1, <1>3, Zenon
<1>8. \A c, d \in T1 \cup Q1 :
         h[c].kind = "get" /\ h[d].kind = "get" /\ h[c].key = h[d].key => c = d
  BY <1>1, <1>3, Zenon
<1> QED  BY <1>3, <1>4, <1>5, <1>6, <1>7, <1>8, Zenon DEF GetsKept

\* Handlers that put nothing new on a list.
LEMMA StateFrame ==
    ASSUME NEW w, NEW T, NEW Q, NEW F, NEW q, State(w, T, Q, F, q),
           NEW v, NEW T1, NEW Q1, NEW F1, World(v, T1, T1, Q1, F1),
           T1 \subseteq T, Q1 \subseteq Q,
           \A c \in T1 \cup Q1 : Follows(w.gf[c], v.gf[c]),
           Ordinary => v.live \subseteq T1 \cup Q1 \cup F1
    PROVE  State(v, T1, Q1, F1, q) /\ Resting(v, q)
<1>1. /\ World(w, T, T, Q, F) /\ GetsKept(w.gf, T, Q, q) /\ SendsKept(w.gf, T)
      /\ Ordinary => AllSeen(w, T, Q, F)
  BY DEF State
<1>2. T \cap Q = {} /\ T \subseteq Cell
  <2>1. T \cap Q = {} /\ T \cup Q \cup F \subseteq w.live /\ w.live \subseteq Cell
    BY <1>1, WorldParts
  <2> QED  BY <2>1
<1>3. GetsKept(v.gf, T1, Q1, q)
  <2> DEFINE gf == w.gf
             h == v.gf
  <2>1. \A c \in T1 \cup Q1 : Follows(gf[c], h[c])  OBVIOUS
  <2>2. GetsKept(gf, T, Q, q)  BY <1>1
  <2> HIDE DEF gf, h
  <2>3. GetsKept(h, T1, Q1, q)  BY <1>2, <2>1, <2>2, GetsFrame
  <2> QED  BY <2>3 DEF h
<1>4. SendsKept(v.gf, T1)
  <2> DEFINE gf == w.gf
             h == v.gf
  <2>1. Sends(h, T1) \subseteq Sends(gf, T)  BY Zenon DEF Sends, Follows
  <2>2. SendsKept(gf, T)  BY <1>1
  <2> HIDE DEF gf, h
  <2>3. SendsKept(h, T1)  BY <1>2, <2>1, <2>2, SendsFrame
  <2> QED  BY <2>3 DEF h
<1>5. Ordinary => AllSeen(v, T1, Q1, F1)
  <2> SUFFICES ASSUME Ordinary, NEW c \in T1, v.gf[c].kind = "send" PROVE v.gf[c].write
    BY Zenon DEF AllSeen
  <2>1. w.gf[c].kind = "send" /\ w.gf[c].write  BY <1>1, Zenon DEF AllSeen, Follows
  <2>2. w.gf[c].kind # "get"  BY <2>1
  <2> QED  BY <2>1, <2>2, Zenon DEF Follows
<1>6. State(v, T1, Q1, F1, q)  BY <1>3, <1>4, <1>5, Zenon DEF State
<1> QED  BY <1>6, Zenon DEF Resting

\* The runs the proofs cover.
Covered == {"queue", "gone", "timeout", "command", "refused", "ungreeted", "unopened",
            "offset", "accept"}

\* What the proofs about handlers take from a state.
LEMMA StateParts ==
    ASSUME NEW w, NEW T, NEW Q, NEW F, NEW q, State(w, T, Q, F, q)
    PROVE  /\ World(w, T, T, Q, F) /\ w.gf \in [Cell -> GetFile] /\ w \in Worlds
           /\ T \cap Q = {} /\ T \cap F = {} /\ Q \cap F = {} /\ w.live \subseteq Cell
           /\ T \cup Q \cup F \subseteq w.live
           /\ Ordinary => w.live \subseteq T \cup Q \cup F
<1>1. World(w, T, T, Q, F) /\ (Ordinary => AllSeen(w, T, Q, F))  BY DEF State
<1>2. /\ w.gf \in [Cell -> GetFile] /\ w \in Worlds
      /\ T \cap Q = {} /\ T \cap F = {} /\ Q \cap F = {} /\ w.live \subseteq Cell
      /\ T \cup Q \cup F \subseteq w.live
  BY <1>1, WorldParts
<1>3. Ordinary => w.live \subseteq T \cup Q \cup F  BY <1>1, Zenon DEF AllSeen
<1> QED  BY <1>1, <1>2, <1>3

\* A sweep leaves a state.
LEMMA SweptState ==
    ASSUME NEW w, NEW T, NEW Q, NEW F, NEW q, State(w, T, Q, F, q), NEW Hit \in SUBSET T,
           NEW v, AfterSweep(w, T, Q, F, Hit, v)
    PROVE  State(v, T \ Hit, Q, F \cup Hit, q) /\ Resting(v, q)
<1>1. /\ World(v, T \ Hit, T \ Hit, Q, F \cup Hit) /\ v.live = w.live
      /\ \A d \in Cell \ Hit : SameRecord(w.gf[d], v.gf[d])
  BY DEF AfterSweep
<1>2. /\ T \cup Q \cup F \subseteq w.live /\ w.live \subseteq Cell /\ T \cap Q = {}
      /\ Ordinary => w.live \subseteq T \cup Q \cup F
  BY StateParts
<1> DEFINE T1 == T \ Hit
           F1 == F \cup Hit
<1>3. T1 \cup Q \subseteq Cell \ Hit  BY <1>2
<1>4. \A c \in T1 \cup Q : Follows(w.gf[c], v.gf[c])
  <2> SUFFICES ASSUME NEW c \in T1 \cup Q PROVE Follows(w.gf[c], v.gf[c])
    OBVIOUS
  <2>1. SameRecord(w.gf[c], v.gf[c])  BY <1>1, <1>3
  <2> QED  BY <2>1, FollowsOf
<1>5. Ordinary => v.live \subseteq T1 \cup Q \cup F1  BY <1>1, <1>2
<1>6. T1 \subseteq T /\ World(v, T1, T1, Q, F1)  BY <1>1
<1> HIDE DEF T1, F1
<1>7. State(v, T1, Q, F1, q) /\ Resting(v, q)  BY <1>4, <1>5, <1>6, StateFrame
<1> QED  BY <1>7 DEF T1, F1

\* nap_del().
LEMMA NapDelKept ==
    ASSUME NEW T, NEW Q, NEW F, State(mem, T, Q, F, asked), NapDel
    PROVE  Resting(mem', asked')
<1>a. asked' = asked  BY DEF NapDel
<1>1. asked' = asked /\ World(mem, T, T, Q, F)  BY <1>a, StateParts
<1>2. CASE \E S \in SUBSET On(mem, mem.transfer_struct) \ {{}} : mem' = DropThose(mem, S)
  <2>1. PICK S : mem' = DropThose(mem, S)
    BY <1>2
  <2> DEFINE Hit == Hits(mem.gf, "drop", T, S)
  <2>2. AfterSweep(mem, T, Q, F, Hits(mem.gf, "drop", T, S), mem')
    BY <1>1, <2>1, DropSome
  <2>3. Hit \in SUBSET T  BY DEF Hits
  <2> HIDE DEF Hit
  <2>4. AfterSweep(mem, T, Q, F, Hit, mem')  BY <2>2 DEF Hit
  <2>5. Resting(mem', asked)  BY <2>3, <2>4, SweptState
  <2> QED  BY <1>1, <2>5
<1>3. CASE mem' = DropEach(mem)
  <2> DEFINE v == Walk(mem, mem.transfer_struct, Drop)
             Hit == Hits(mem.gf, "drop", T, T)
  <2>1. AfterSweep(mem, T, Q, F, Hits(mem.gf, "drop", T, T), v)  BY <1>1, DropAll
  <2>2. Hit = T  BY DEF Hits
  <2>e. T \ T = {}  OBVIOUS
  <2>3. mem' = [v EXCEPT !.transfer_struct = Nil]  BY <1>3 DEF DropEach
  <2> HIDE DEF v, Hit
  <2>4. AfterSweep(mem, T, Q, F, T, v)  BY <2>1, <2>2 DEF Hit
  <2>5. Resting(v, asked)  BY <2>4, SweptState
  <2>6. World(v, {}, {}, Q, F \cup T)  BY <2>4, <2>e, Zenon DEF AfterSweep
  <2>7. v.transfer_struct \in {} \cup {Nil} /\ v \in Worlds
    BY <2>6, Zenon DEF World, DoubleChain, Chain
  <2>8. mem' = v  BY <2>3, <2>7 DEF Worlds
  <2> QED  BY <1>1, <2>5, <2>8
<1> QED  BY <1>2, <1>3 DEF NapDel

\* clean_sockets().
LEMMA RunCleanSocketsKept ==
    ASSUME NEW T, NEW Q, NEW F, State(mem, T, Q, F, asked), RunCleanSockets
    PROVE  Resting(mem', asked')
<1> DEFINE v == mem'
           w == mem
<1>1. asked' = asked /\ v = CleanSockets(w)  BY DEF RunCleanSockets
<1>2. /\ World(w, T, T, Q, F) /\ T \cap F = {} /\ Q \cap F = {}
      /\ T \cup Q \cup F \subseteq w.live /\ w.live \subseteq Cell
      /\ Ordinary => w.live \subseteq T \cup Q \cup F
  BY StateParts
<1>3. State(w, T, Q, F, asked)  OBVIOUS
<1> HIDE DEF v, w
<1>4. PICK G \in SUBSET F :
              /\ World(v, T, T, Q, G) /\ v.live = w.live \ (F \ G) /\ SameCounts(w, v)
              /\ \A d \in Cell \ F : v.gf[d] = w.gf[d]
  BY <1>1, <1>2, CleanWorld
<1>5. \A c \in T \cup Q : Follows(w.gf[c], v.gf[c])
  <2> SUFFICES ASSUME NEW c \in T \cup Q PROVE Follows(w.gf[c], v.gf[c])
    OBVIOUS
  <2>1. c \in Cell \ F  BY <1>2
  <2> QED  BY <1>4, <2>1, FollowsOf
<1>6. Ordinary => v.live \subseteq T \cup Q \cup G  BY <1>2, <1>4
<1>7. Resting(v, asked)  BY <1>3, <1>4, <1>5, <1>6, StateFrame
<1> QED  BY <1>1, <1>7 DEF v

\* /queue -remove.
LEMMA QueueRemoveKept ==
    ASSUME NEW T, NEW Q, NEW F, State(mem, T, Q, F, asked), QueueRemove
    PROVE  Resting(mem', asked')
<1> DEFINE v == mem'
           w == mem
<1>1. PICK S : S \subseteq On(w, w.Queued)
             /\ v = DequeueThose(w, S)
  BY DEF QueueRemove
<1>2. /\ World(w, T, T, Q, F) /\ T \cup Q \cup F \subseteq w.live /\ w.live \subseteq Cell
  BY StateParts
<1>3. asked' = asked /\ ~Ordinary /\ State(w, T, Q, F, asked)  BY DEF QueueRemove, Ordinary
<1>4. Nil \notin S  BY <1>1 DEF On
<1>5. AfterRemove(w, T, Q, F, S, v)
  <2> HIDE DEF v, w
  <2> QED  BY <1>1, <1>2, <1>4, DequeueSome
<1> HIDE DEF v, w
<1>6. World(v, T, T, Q \ S, F) /\ \A d \in Cell : SameRecord(w.gf[d], v.gf[d])
  BY <1>5 DEF AfterRemove
<1> DEFINE Q1 == Q \ S
<1>7. \A c \in T \cup Q1 : Follows(w.gf[c], v.gf[c])
  <2> SUFFICES ASSUME NEW c \in T \cup Q1 PROVE Follows(w.gf[c], v.gf[c])
    OBVIOUS
  <2>1. c \in Cell  BY <1>2
  <2> QED  BY <1>6, <2>1, FollowsOf
<1>8. Q1 \subseteq Q /\ World(v, T, T, Q1, F)  BY <1>6
<1> HIDE DEF Q1
<1>9. Resting(v, asked)  BY <1>3, <1>7, <1>8, StateFrame
<1> QED  BY <1>3, <1>9 DEF v

\* cmd_nosuchnick().
LEMMA CmdNosuchnickKept ==
    ASSUME NEW T, NEW Q, NEW F, State(mem, T, Q, F, asked), CmdNosuchnick
    PROVE  Resting(mem', asked')
<1> DEFINE v == mem'
           w == mem
           L == w.live \ Q
<1>1. /\ World(w, T, T, Q, F) /\ w.gf \in [Cell -> GetFile]
      /\ T \cap Q = {} /\ Q \cap F = {} /\ T \cup Q \cup F \subseteq w.live
      /\ Ordinary => w.live \subseteq T \cup Q \cup F
  BY StateParts
<1>2. On(w, w.Queued) = Q
  <2>1. Nexts(w.gf)  BY <1>1, NextsOf
  <2>2. Chain(w.gf, w.Queued, Q)  BY <1>1 DEF World, DoubleChain
  <2> QED  BY <2>1, <2>2, WalkOfChain
<1>3. asked' = asked /\ State(w, T, Q, F, asked) /\ v = NoQueue(w, L)
  BY <1>2 DEF CmdNosuchnick, NoQueue
<1>4. L = w.live \ Q  OBVIOUS
<1> HIDE DEF v, w, L
<1>5. World(v, T, T, {}, F) /\ v.gf = w.gf /\ SameCounts(w, v) /\ v.live = w.live \ Q
  BY <1>1, <1>3, <1>4, GoneWorld
<1> DEFINE Q1 == {}
<1>6. Q1 \subseteq Q /\ World(v, T, T, Q1, F)  BY <1>5
<1>7. \A c \in T \cup Q1 : Follows(w.gf[c], v.gf[c])  BY <1>5, FollowsOf
<1>8. Ordinary => v.live \subseteq T \cup Q1 \cup F  BY <1>1, <1>5
<1> HIDE DEF Q1
<1>9. Resting(v, asked)  BY <1>3, <1>6, <1>7, <1>8, StateFrame
<1> QED  BY <1>3, <1>9 DEF v

\* A record of the queue comes back to transfer_struct, and is asked for.
Asking(q, k) == [q EXCEPT ![k] = q[k] + 1]

\* It was not connected, and no other is of its file.
LEMMA GetsMoved ==
    ASSUME NEW gf, NEW h, NEW T, NEW Q, NEW q, GetsKept(gf, T, Q, q), T \cap Q = {},
           SendsKept(gf, T), SameData(gf, h), T \cup Q \subseteq Cell,
           NEW c \in Q, gf[c].socket = -1, NEW k, k = gf[c].key, q[k] < AskBound,
           NEW p, p = Asking(q, k),
           NEW T1, T1 = T \cup {c}, NEW Q1, Q1 = Q \ {c}
    PROVE  GetsKept(h, T1, Q1, p) /\ k \in Key /\ SendsKept(h, T1)
<1>1. \A d \in T \cup Q : /\ h[d].key = gf[d].key /\ h[d].kind = gf[d].kind
                          /\ h[d].realfile = gf[d].realfile /\ h[d].socket = gf[d].socket
  BY Zenon DEF SameData
<1>2. /\ q \in [Key -> {0, 1} \cap (0 .. AskBound)]
      /\ \A d \in T \cup Q : gf[d].key \in Key
      /\ \A d, e \in T \cup Q :
           gf[d].kind = "get" /\ gf[e].kind = "get" /\ gf[d].key = gf[e].key => d = e
      /\ \A d \in T \cup Q :
           gf[d].kind = "get" /\ q[gf[d].key] > 0 => d \in T /\ ~gf[d].realfile
      /\ \A d \in T : gf[d].kind = "get" /\ ~gf[d].realfile => gf[d].socket = -1
      /\ \A d \in Q : gf[d].kind = "get" /\ ~gf[d].realfile
  BY Zenon DEF GetsKept
<1>3. c \in T \cup Q /\ c \notin T /\ T1 \cup Q1 = T \cup Q  OBVIOUS
<1>4. k \in Key /\ gf[c].kind = "get" /\ ~gf[c].realfile  BY <1>2, <1>3, Zenon
<1>5. ~(q[k] > 0)  BY <1>2, <1>3, <1>4, Zenon
<1>6. q[k] = 0 /\ AskBound >= 1
  <2>1. q \in [Key -> {0, 1} \cap (0 .. AskBound)]  BY <1>2
  <2>2. k \in Key  BY <1>4
  <2>3. q[k] \in {0, 1} /\ q[k] < AskBound  BY <2>1, <2>2
  <2> QED  BY <1>5, <2>3, AskBoundAssumption
<1>7. p \in [Key -> {0, 1} \cap (0 .. AskBound)] /\ \A j \in Key : j # k => p[j] = q[j]
  <2>1. q \in [Key -> {0, 1} \cap (0 .. AskBound)]  BY <1>2
  <2>2. q[k] + 1 \in {0, 1} \cap (0 .. AskBound)  BY <1>6, AskBoundAssumption
  <2> QED  BY <2>1, <2>2 DEF Asking
<1>8. \A d \in T1 \cup Q1 :
         h[d].kind = "get" /\ p[h[d].key] > 0 => d \in T1 /\ ~h[d].realfile
  <2> SUFFICES ASSUME NEW d \in T1 \cup Q1, h[d].kind = "get", p[h[d].key] > 0
               PROVE  d \in T1 /\ ~h[d].realfile
    BY Zenon
  <2>1. d \in T \cup Q /\ gf[d].kind = "get" /\ p[gf[d].key] > 0 /\ gf[d].key \in Key
    BY <1>1, <1>2, <1>3, Zenon
  <2>2. CASE gf[d].key = k
    <3>1. d = c  BY <1>2, <1>3, <1>4, <2>1, <2>2, Zenon
    <3>2. c \in T1  OBVIOUS
    <3>3. ~h[c].realfile  BY <1>1, <1>3, <1>4, Zenon
    <3> QED  BY <3>1, <3>2, <3>3, Zenon
  <2>3. CASE gf[d].key # k
    <3>1. q[gf[d].key] > 0  BY <1>7, <2>1, <2>3, Zenon
    <3>2. d \in T /\ ~gf[d].realfile  BY <1>2, <2>1, <3>1, Zenon
    <3>3. d \in T1  BY <3>2
    <3> QED  BY <1>1, <2>1, <3>2, <3>3, Zenon
  <2> QED  BY <2>2, <2>3
<1>9. \A d \in T1 : h[d].kind = "get" /\ ~h[d].realfile => h[d].socket = -1
  <2> SUFFICES ASSUME NEW d \in T1, h[d].kind = "get", ~h[d].realfile PROVE h[d].socket = -1
    BY Zenon
  <2>1. d \in T \/ d = c  OBVIOUS
  <2>2. d \in T \cup Q  BY <1>3, <2>1
  <2>3. CASE d \in T
    <3>1. gf[d].socket = -1  BY <1>1, <1>2, <2>2, <2>3, Zenon
    <3> QED  BY <1>1, <2>2, <3>1, Zenon
  <2>4. CASE d = c
    <3> QED  BY <1>1, <1>3, <2>4, Zenon
  <2> QED  BY <2>1, <2>3, <2>4
<1>10. \A d \in Q1 : h[d].kind = "get" /\ ~h[d].realfile
  <2>1. \A d \in Q1 : d \in Q /\ d \in T \cup Q  OBVIOUS
  <2> QED  BY <1>1, <1>2, <2>1, Zenon
<1>11. \A d \in T1 \cup Q1 : h[d].key \in Key  BY <1>1, <1>2, <1>3, Zenon
<1>12. \A d, e \in T1 \cup Q1 :
          h[d].kind = "get" /\ h[e].kind = "get" /\ h[d].key = h[e].key => d = e
  <2> SUFFICES ASSUME NEW d \in T1 \cup Q1, NEW e \in T1 \cup Q1,
                      h[d].kind = "get", h[e].kind = "get", h[d].key = h[e].key
               PROVE  d = e
    BY Zenon
  <2>1. d \in T \cup Q /\ e \in T \cup Q  BY <1>3
  <2>2. gf[d].kind = "get" /\ gf[e].kind = "get" /\ gf[d].key = gf[e].key
    BY <1>1, <2>1, Zenon
  <2> QED  BY <1>2, <2>1, <2>2, Zenon
<1>13. GetsKept(h, T1, Q1, p)
  BY <1>7, <1>8, <1>9, <1>10, <1>11, <1>12, Zenon DEF GetsKept
<1>14. Sends(h, T1) \subseteq Sends(gf, T)
  <2> SUFFICES ASSUME NEW d \in T1, h[d].kind = "send" PROVE d \in T /\ gf[d].kind = "send"
    BY Zenon DEF Sends
  <2>1. gf[d].kind = "send"  BY <1>1, <1>3, Zenon
  <2>2. d # c  BY <1>4, <2>1
  <2> QED  BY <2>1, <2>2
<1>15. SendsKept(h, T1)
  <2>1. T \subseteq Cell  OBVIOUS
  <2> QED  BY <1>14, <2>1, SendsFrame
<1> QED  BY <1>4, <1>13, <1>15

\* The end of clean_queue(): nothing, or the next of the queue is asked for.
LEMMA AskNextKept ==
    ASSUME NEW w, NEW T, NEW Q, NEW F, NEW q, State(w, T, Q, F, q), NEW n, n = AskNext(w)
    PROVE  \/ n.c = Nil /\ n.w = w
           \/ /\ n.c \in Q
              /\ \A k : k = w.gf[n.c].key /\ q[k] < AskBound
                          => k \in Key /\ Resting(n.w, Asking(q, k))
<1>1. /\ World(w, T, T, Q, F) /\ w.gf \in [Cell -> GetFile] /\ w \in Worlds
      /\ T \cap Q = {} /\ T \cap F = {} /\ Q \cap F = {} /\ w.live \subseteq Cell
      /\ T \cup Q \cup F \subseteq w.live
      /\ Ordinary => w.live \subseteq T \cup Q \cup F
  BY StateParts
<1>2. CASE ~(w.Queued # Nil /\ limit # 0 /\ FilesInProgress(w, "get") < limit)
  <2>1. n = [c |-> Nil, w |-> w]  BY <1>2 DEF AskNext
  <2> QED  BY <2>1
<1>3. CASE w.Queued # Nil /\ limit # 0 /\ FilesInProgress(w, "get") < limit
  <2> DEFINE c == LastOf(w, w.Queued)
             u == BreakFromQueue(w, c)
             v == AddToTransferList(u, c)
             T1 == T \cup {c}
             Q1 == Q \ {c}
  <2>1. n = [c |-> c, w |-> v]  BY <1>3 DEF AskNext
  <2>2. n.c = c /\ n.w = v  BY <2>1
  <2>3. c \in Q
    <3>1. Nexts(w.gf)  BY <1>1, NextsOf
    <3>2. Chain(w.gf, w.Queued, Q)  BY <1>1 DEF World, DoubleChain
    <3>3. Q # {}  BY <1>3, <3>2 DEF Chain
    <3> QED  BY <3>1, <3>2, <3>3, LastOfIn
  <2>4. w.gf[c].socket = -1 /\ ~w.gf[c].deleted
    <3>1. c \in Q \cup F /\ c \in T \cup Q  BY <2>3
    <3> QED  BY <1>1, <3>1, Zenon DEF World, Silent, Kept
  <2> HIDE DEF c, u, v
  <2>5. /\ World(u, T, T, Q \ {c}, F)
        /\ SameData(w.gf, u.gf)
        /\ u.sock_manager = w.sock_manager /\ u.kernel = w.kernel
        /\ u.live = w.live /\ u.gets = w.gets /\ u.sends = w.sends
    BY <1>1, <2>3, BreakFromQueueWorld DEF u
  <2>6. World(u, T, T, Q1, F) /\ c \in Cell /\ c \in u.live /\ c \notin Q1 /\ c \notin F
    BY <1>1, <2>3, <2>5
  <2> HIDE DEF Q1
  <2>7. u.gf[c].socket = -1 /\ ~u.gf[c].deleted
    BY <2>4, <2>5, <2>6, Zenon DEF SameData
  <2>8. World(u, T, T \cup {c}, Q1, F)  BY <2>6, <2>7, WorldTaken
  <2>9. World(u, T, T1, Q1, F) /\ c \in T1 \ T  BY <1>1, <2>3, <2>8
  <2> HIDE DEF T1
  <2>10. /\ World(v, T \cup {c}, T1, Q1, F)
         /\ SameData(u.gf, v.gf)
         /\ v.sock_manager = u.sock_manager /\ v.kernel = u.kernel
         /\ v.live = u.live /\ v.gets = u.gets /\ v.sends = u.sends
    BY <2>9, AddWorld DEF v
  <2>11. World(v, T1, T1, Q1, F)  BY <2>10 DEF T1
  <2> DEFINE gf == w.gf
             h == v.gf
  <2>12. SameData(gf, h)  BY <2>5, <2>10, SameDataTrans
  <2>13. GetsKept(gf, T, Q, q) /\ SendsKept(gf, T) /\ T \cup Q \subseteq Cell
    BY <1>1 DEF State
  <2>14. T1 = T \cup {c} /\ Q1 = Q \ {c}  BY DEF T1, Q1
  <2>15. gf[c].socket = -1  BY <2>4
  <2>16. Ordinary => AllSeen(v, T1, Q1, F)
    <3> SUFFICES ASSUME Ordinary PROVE AllSeen(v, T1, Q1, F)
      OBVIOUS
    <3>1. AllSeen(w, T, Q, F)  BY DEF State
    <3>2. v.live = w.live /\ v.live \subseteq T1 \cup Q1 \cup F
      BY <1>1, <2>5, <2>10, <2>14
    <3>3. \A d \in T1 : h[d].kind = "send" => h[d].write
      <4> SUFFICES ASSUME NEW d \in T1, h[d].kind = "send" PROVE h[d].write
        OBVIOUS
      <4>1. d \in T \cup Q /\ d \in Cell  BY <1>1, <2>3, <2>14
      <4>2. gf[d].kind = "send" /\ h[d].write = gf[d].write
        BY <2>12, <4>1, Zenon DEF SameData
      <4>3. gf[c].kind = "get"  BY <2>3, <2>13, Zenon DEF GetsKept
      <4>4. d \in T  BY <2>14, <4>2, <4>3
      <4>5. gf[d].write  BY <3>1, <4>2, <4>4, Zenon DEF AllSeen
      <4> QED  BY <4>2, <4>5, Zenon
    <3> QED  BY <3>2, <3>3, Zenon DEF AllSeen
  <2> HIDE DEF gf, h
  <2>17. ASSUME NEW k, k = gf[c].key, q[k] < AskBound
         PROVE  k \in Key /\ Resting(v, Asking(q, k))
    <3> DEFINE p == Asking(q, k)
    <3>1. p = Asking(q, k)  OBVIOUS
    <3> HIDE DEF p
    <3>a. T \cap Q = {}  BY <1>1
    <3>2. GetsKept(h, T1, Q1, p) /\ k \in Key /\ SendsKept(h, T1)
      BY <2>3, <2>12, <2>13, <2>14, <2>15, <2>17, <3>a, <3>1, GetsMoved
    <3>3. State(v, T1, Q1, F, p)
      BY <2>11, <2>13, <2>16, <3>2, Zenon DEF State, h
    <3>4. Resting(v, p)  BY <3>3, Zenon DEF Resting
    <3> QED  BY <3>2, <3>4 DEF p
  <2> QED  BY <2>2, <2>3, <2>17 DEF gf
<1> QED  BY <1>2, <1>3

\* clean_queue().
LEMMA CleanQueueKept ==
    ASSUME NEW T, NEW Q, NEW F, State(mem, T, Q, F, asked), NEW old, CleanQueueOf(old)
    PROVE  Resting(mem', asked')
<1> DEFINE w == mem
           u == ExpireThose(w, old)
           n == AskNext(u)
           Hit == Hits(w.gf, "expire", T, old)
           T1 == T \ Hit
           F1 == F \cup Hit
<1>1. /\ Askable(n.c) /\ mem' = n.w
      /\ asked' = IF n.c = Nil THEN asked ELSE [asked EXCEPT ![w.gf[n.c].key] = @ + 1]
  BY DEF CleanQueueOf, Swept
<1>2. World(w, T, T, Q, F) /\ T \cap Q = {} /\ w.live \subseteq Cell /\ T \cup Q \cup F \subseteq w.live
  BY StateParts
<1>3. AfterSweep(w, T, Q, F, Hit, u)
  <2>1. u = ExpireThose(w, old)  OBVIOUS
  <2> HIDE DEF u, w
  <2> QED  BY <1>2, <2>1, ExpireSome
<1>4. Hit \in SUBSET T /\ State(w, T, Q, F, asked)  BY DEF Hits
<1> HIDE DEF w, u, Hit
<1>5. State(u, T \ Hit, Q, F \cup Hit, asked) /\ Resting(u, asked)
  BY <1>3, <1>4, SweptState
<1>6. State(u, T1, Q, F1, asked) /\ n = AskNext(u)  BY <1>5
<1> HIDE DEF n, T1, F1
<1>7. \/ n.c = Nil /\ n.w = u
      \/ /\ n.c \in Q
         /\ \A k : k = u.gf[n.c].key /\ asked[k] < AskBound
                     => k \in Key /\ Resting(n.w, Asking(asked, k))
  BY <1>6, AskNextKept
<1>8. CASE n.c = Nil /\ n.w = u  BY <1>1, <1>5, <1>8
<1>9. CASE /\ n.c \in Q
           /\ \A k : k = u.gf[n.c].key /\ asked[k] < AskBound
                       => k \in Key /\ Resting(n.w, Asking(asked, k))
  <2>1. n.c \in Cell /\ n.c \notin Hit  BY <1>2, <1>4, <1>9
  <2>2. SameRecord(w.gf[n.c], u.gf[n.c])  BY <1>3, <2>1 DEF AfterSweep
  <2> DEFINE k == w.gf[n.c].key
  <2>3. u.gf[n.c].key = k  BY <2>2, Zenon DEF SameRecord
  <2>4. n.c # Nil  BY <2>1, CellAssumption
  <2>5. asked[k] < AskBound  BY <1>1, <2>4 DEF Askable, w
  <2> HIDE DEF k
  <2>6. k \in Key /\ Resting(n.w, Asking(asked, k))  BY <1>9, <2>3, <2>5
  <2>7. asked' = Asking(asked, k)
    <3>1. asked' = [asked EXCEPT ![k] = @ + 1]  BY <1>1, <2>4 DEF k
    <3>2. GetsKept(w.gf, T, Q, asked)  BY <1>4 DEF State
    <3>3. asked \in [Key -> {0, 1} \cap (0 .. AskBound)]  BY <3>2 DEF GetsKept
    <3> QED  BY <2>6, <3>1, <3>3 DEF Asking
  <2> QED  BY <1>1, <2>6, <2>7
<1> QED  BY <1>7, <1>8, <1>9

\* The server answers for k: of what it was asked once, nothing is left to answer.
Answered(q, k) == [q EXCEPT ![k] = q[k] - 1]

Asks == [Key -> {0, 1} \cap (0 .. AskBound)]

\* One request less awaits an answer.
LEMMA AnsweredOf ==
    ASSUME NEW q \in Asks, NEW k \in Key, q[k] > 0, NEW p, p = Answered(q, k)
    PROVE  p \in Asks /\ ~(p[k] > 0) /\ \A j \in Key : j # k => p[j] = q[j]
<1>1. q[k] = 1  BY DEF Asks
<1>2. 0 \in {0, 1} \cap (0 .. AskBound)  BY AskBoundAssumption
<1> QED  BY <1>1, <1>2 DEF Asks, Answered

\* One request more awaits an answer.
LEMMA AskingOf ==
    ASSUME NEW q \in Asks, NEW k \in Key, q[k] = 0, q[k] < AskBound, NEW p, p = Asking(q, k)
    PROVE  p \in Asks /\ \A j \in Key : j # k => p[j] = q[j]
<1>1. 1 \in {0, 1} \cap (0 .. AskBound)  BY AskBoundAssumption
<1> QED  BY <1>1 DEF Asks, Asking

\* The parts of the promise.
LEMMA GetsParts ==
    ASSUME NEW gf, NEW T, NEW Q, NEW q, GetsKept(gf, T, Q, q)
    PROVE  /\ q \in Asks
           /\ \A d \in T \cup Q : gf[d].key \in Key
           /\ \A d, e \in T \cup Q :
                gf[d].kind = "get" /\ gf[e].kind = "get" /\ gf[d].key = gf[e].key => d = e
           /\ \A d \in T \cup Q :
                gf[d].kind = "get" /\ q[gf[d].key] > 0 => d \in T /\ ~gf[d].realfile
           /\ \A d \in T : gf[d].kind = "get" /\ ~gf[d].realfile => gf[d].socket = -1
           /\ \A d \in Q : gf[d].kind = "get" /\ ~gf[d].realfile
  BY Zenon DEF GetsKept, Asks

\* What the server answers for is of no concern to the other files.
LEMMA GetsAnswered ==
    ASSUME NEW gf, NEW T, NEW Q, NEW q, GetsKept(gf, T, Q, q),
           NEW k \in Key, q[k] > 0, NEW p, p = Answered(q, k)
    PROVE  GetsKept(gf, T, Q, p) /\ q \in Asks
<1>1. /\ q \in Asks
      /\ \A d \in T \cup Q : gf[d].key \in Key
      /\ \A d \in T \cup Q :
           gf[d].kind = "get" /\ q[gf[d].key] > 0 => d \in T /\ ~gf[d].realfile
  BY GetsParts
<1>2. p \in Asks /\ ~(p[k] > 0) /\ \A j \in Key : j # k => p[j] = q[j]
  BY <1>1, AnsweredOf
<1>3. \A d \in T \cup Q :
         gf[d].kind = "get" /\ p[gf[d].key] > 0 => d \in T /\ ~gf[d].realfile
  <2> SUFFICES ASSUME NEW d \in T \cup Q, gf[d].kind = "get", p[gf[d].key] > 0
               PROVE  d \in T /\ ~gf[d].realfile
    BY Zenon
  <2>1. gf[d].key \in Key /\ gf[d].key # k  BY <1>1, <1>2, Zenon
  <2>2. q[gf[d].key] > 0  BY <1>2, <2>1, Zenon
  <2> QED  BY <1>1, <2>2, Zenon
<1>4. p \in [Key -> {0, 1} \cap (0 .. AskBound)]  BY <1>2 DEF Asks
<1> QED  BY <1>1, <1>3, <1>4, Zenon DEF GetsKept

\* The record asked for comes to T1 with its address, and leaves the queue.
Addressed(gf, h, c, T1, Q1) ==
    /\ \A d \in T1 \cup Q1 : d # c => Follows(gf[d], h[d])
    /\ c \in T1 => h[c].key = gf[c].key /\ h[c].kind = "get" /\ h[c].realfile

\* It may connect: nothing is awaited for its file any more.
LEMMA GetsAddressed ==
    ASSUME NEW gf, NEW h, NEW T, NEW Q, NEW q, GetsKept(gf, T, Q, q), T \cap Q = {},
           SendsKept(gf, T), T \cup Q \subseteq Cell,
           NEW c \in T \cup Q, gf[c].kind = "get", NEW k \in Key, k = gf[c].key, q[k] > 0,
           NEW T1, T1 \subseteq T \cup {c}, NEW Q1, Q1 \subseteq Q \ {c},
           Addressed(gf, h, c, T1, Q1), NEW p, p = Answered(q, k)
    PROVE  GetsKept(h, T1, Q1, p) /\ SendsKept(h, T1)
<1>1. /\ q \in Asks
      /\ \A d \in T \cup Q : gf[d].key \in Key
      /\ \A d, e \in T \cup Q :
           gf[d].kind = "get" /\ gf[e].kind = "get" /\ gf[d].key = gf[e].key => d = e
      /\ \A d \in T \cup Q :
           gf[d].kind = "get" /\ q[gf[d].key] > 0 => d \in T /\ ~gf[d].realfile
      /\ \A d \in T : gf[d].kind = "get" /\ ~gf[d].realfile => gf[d].socket = -1
      /\ \A d \in Q : gf[d].kind = "get" /\ ~gf[d].realfile
  BY GetsParts
<1>2. p \in Asks /\ ~(p[k] > 0) /\ \A j \in Key : j # k => p[j] = q[j]
  BY <1>1, AnsweredOf
<1>3. /\ \A d \in T1 \cup Q1 : d \in T \cup Q
      /\ \A d \in T1 : d = c \/ d \in T
      /\ \A d \in Q1 : d \in Q /\ d # c
  OBVIOUS
<1>4. \A d \in T1 \cup Q1 : d # c => /\ h[d].key = gf[d].key /\ h[d].kind = gf[d].kind
                                     /\ h[d].realfile = gf[d].realfile
  BY Zenon DEF Addressed, Follows
<1>5. c \in T1 => h[c].key = gf[c].key /\ h[c].kind = "get" /\ h[c].realfile
  BY Zenon DEF Addressed
<1>6. \A d \in T1 \cup Q1 : h[d].key = gf[d].key /\ h[d].kind = gf[d].kind
  <2> SUFFICES ASSUME NEW d \in T1 \cup Q1
               PROVE  h[d].key = gf[d].key /\ h[d].kind = gf[d].kind
    OBVIOUS
  <2>1. CASE d # c  BY <1>4, <2>1, Zenon
  <2>2. CASE d = c
    <3>1. c \in T1  BY <1>3, <2>2
    <3> QED  BY <1>5, <2>2, <3>1, Zenon
  <2> QED  BY <2>1, <2>2
<1>7. \A d \in T1 \cup Q1 :
         h[d].kind = "get" /\ p[h[d].key] > 0 => d \in T1 /\ ~h[d].realfile
  <2> SUFFICES ASSUME NEW d \in T1 \cup Q1, h[d].kind = "get", p[h[d].key] > 0
               PROVE  d \in T1 /\ ~h[d].realfile
    BY Zenon
  <2>1. d \in T \cup Q /\ gf[d].kind = "get" /\ gf[d].key \in Key /\ p[gf[d].key] > 0
    BY <1>1, <1>3, <1>6, Zenon
  <2>2. gf[d].key # k /\ d # c  BY <1>2, <2>1, Zenon
  <2>3. q[gf[d].key] > 0  BY <1>2, <2>1, <2>2, Zenon
  <2>4. d \in T /\ ~gf[d].realfile  BY <1>1, <2>1, <2>3, Zenon
  <2>5. d \in T1
    <3>1. d \notin Q1  BY <1>3, <2>4
    <3> QED  BY <3>1
  <2> QED  BY <1>4, <2>2, <2>4, <2>5, Zenon
<1>8. \A d \in T1 : h[d].kind = "get" /\ ~h[d].realfile => h[d].socket = -1
  <2> SUFFICES ASSUME NEW d \in T1, h[d].kind = "get", ~h[d].realfile PROVE h[d].socket = -1
    BY Zenon
  <2>1. d # c  BY <1>5, Zenon
  <2>2. d \in T /\ d \in T1 \cup Q1  BY <1>3, <2>1
  <2>3. gf[d].kind = "get" /\ ~gf[d].realfile /\ Follows(gf[d], h[d])
    BY <1>4, <2>1, <2>2, Zenon DEF Addressed
  <2>4. gf[d].socket = -1 /\ gf[d].kind # "send"
    <3>1. gf[d].socket = -1  BY <1>1, <2>2, <2>3, Zenon
    <3>2. gf[d].kind # "send"  BY <2>3
    <3> QED  BY <3>1, <3>2
  <2> QED  BY <2>3, <2>4, Zenon DEF Follows
<1>9. \A d \in Q1 : h[d].kind = "get" /\ ~h[d].realfile
  <2> SUFFICES ASSUME NEW d \in Q1 PROVE h[d].kind = "get" /\ ~h[d].realfile
    BY Zenon
  <2>1. d \in Q /\ d # c /\ d \in T1 \cup Q1  BY <1>3
  <2> QED  BY <1>1, <1>4, <2>1, Zenon
<1>10. \A d \in T1 \cup Q1 : h[d].key \in Key  BY <1>1, <1>3, <1>6, Zenon
<1>11. \A d, e \in T1 \cup Q1 :
          h[d].kind = "get" /\ h[e].kind = "get" /\ h[d].key = h[e].key => d = e
  <2> SUFFICES ASSUME NEW d \in T1 \cup Q1, NEW e \in T1 \cup Q1,
                      h[d].kind = "get", h[e].kind = "get", h[d].key = h[e].key
               PROVE  d = e
    BY Zenon
  <2>1. d \in T \cup Q /\ e \in T \cup Q  BY <1>3
  <2>2. gf[d].kind = "get" /\ gf[e].kind = "get" /\ gf[d].key = gf[e].key  BY <1>6, Zenon
  <2> QED  BY <1>1, <2>1, <2>2, Zenon
<1>12. p \in [Key -> {0, 1} \cap (0 .. AskBound)]  BY <1>2 DEF Asks
<1>13. GetsKept(h, T1, Q1, p)
  BY <1>7, <1>8, <1>9, <1>10, <1>11, <1>12, Zenon DEF GetsKept
<1>14. Sends(h, T1) \subseteq Sends(gf, T)
  <2> SUFFICES ASSUME NEW d \in T1, h[d].kind = "send" PROVE d \in T /\ gf[d].kind = "send"
    BY Zenon DEF Sends
  <2>1. gf[d].kind = "send"  BY <1>6, Zenon
  <2>2. d # c  BY <2>1
  <2> QED  BY <1>3, <2>1, <2>2
<1>15. SendsKept(h, T1)
  <2>1. T \subseteq Cell  OBVIOUS
  <2> QED  BY <1>14, <2>1, SendsFrame
<1> QED  BY <1>13, <1>15

\* The other user's limit: the download asked for goes to the queue.
LEMMA GetsPutOff ==
    ASSUME NEW gf, NEW h, NEW T, NEW Q, NEW q, GetsKept(gf, T, Q, q), T \cap Q = {},
           SendsKept(gf, T), SameData(gf, h), T \cup Q \subseteq Cell,
           NEW c \in T, gf[c].kind = "get", NEW k \in Key, k = gf[c].key, q[k] > 0,
           NEW T1, T1 = T \ {c}, NEW Q1, Q1 = Q \cup {c}, NEW p, p = Answered(q, k)
    PROVE  GetsKept(h, T1, Q1, p) /\ SendsKept(h, T1)
<1>1. /\ q \in Asks
      /\ \A d \in T \cup Q : gf[d].key \in Key
      /\ \A d, e \in T \cup Q :
           gf[d].kind = "get" /\ gf[e].kind = "get" /\ gf[d].key = gf[e].key => d = e
      /\ \A d \in T \cup Q :
           gf[d].kind = "get" /\ q[gf[d].key] > 0 => d \in T /\ ~gf[d].realfile
      /\ \A d \in T : gf[d].kind = "get" /\ ~gf[d].realfile => gf[d].socket = -1
      /\ \A d \in Q : gf[d].kind = "get" /\ ~gf[d].realfile
  BY GetsParts
<1>2. p \in Asks /\ ~(p[k] > 0) /\ \A j \in Key : j # k => p[j] = q[j]
  BY <1>1, AnsweredOf
<1>3. T1 \cup Q1 = T \cup Q /\ c \in T \cup Q /\ T1 \subseteq T  OBVIOUS
<1>4. \A d \in T \cup Q : /\ h[d].key = gf[d].key /\ h[d].kind = gf[d].kind
                          /\ h[d].realfile = gf[d].realfile /\ h[d].socket = gf[d].socket
  BY Zenon DEF SameData
<1>5. \A d \in T1 \cup Q1 :
         h[d].kind = "get" /\ p[h[d].key] > 0 => d \in T1 /\ ~h[d].realfile
  <2> SUFFICES ASSUME NEW d \in T1 \cup Q1, h[d].kind = "get", p[h[d].key] > 0
               PROVE  d \in T1 /\ ~h[d].realfile
    BY Zenon
  <2>1. d \in T \cup Q /\ gf[d].kind = "get" /\ gf[d].key \in Key /\ p[gf[d].key] > 0
    BY <1>1, <1>3, <1>4, Zenon
  <2>2. gf[d].key # k /\ d # c  BY <1>2, <2>1, Zenon
  <2>3. q[gf[d].key] > 0  BY <1>2, <2>1, <2>2, Zenon
  <2>4. d \in T /\ ~gf[d].realfile  BY <1>1, <2>1, <2>3, Zenon
  <2>5. d \in T1  BY <2>2, <2>4
  <2> QED  BY <1>4, <2>1, <2>4, <2>5, Zenon
<1>6. \A d \in T1 : h[d].kind = "get" /\ ~h[d].realfile => h[d].socket = -1
  <2>1. \A d \in T1 : d \in T /\ d \in T \cup Q  BY <1>3
  <2> QED  BY <1>1, <1>4, <2>1, Zenon
<1>7. \A d \in Q1 : h[d].kind = "get" /\ ~h[d].realfile
  <2>1. ~gf[c].realfile  BY <1>1, <1>3, Zenon
  <2>2. \A d \in Q1 : (d \in Q \/ d = c) /\ d \in T \cup Q  BY <1>3
  <2> QED  BY <1>1, <1>4, <2>1, <2>2, Zenon
<1>8. \A d \in T1 \cup Q1 : h[d].key \in Key  BY <1>1, <1>3, <1>4, Zenon
<1>9. \A d, e \in T1 \cup Q1 :
          h[d].kind = "get" /\ h[e].kind = "get" /\ h[d].key = h[e].key => d = e
  <2> SUFFICES ASSUME NEW d \in T1 \cup Q1, NEW e \in T1 \cup Q1,
                      h[d].kind = "get", h[e].kind = "get", h[d].key = h[e].key
               PROVE  d = e
    BY Zenon
  <2>1. d \in T \cup Q /\ e \in T \cup Q  BY <1>3
  <2>2. gf[d].kind = "get" /\ gf[e].kind = "get" /\ gf[d].key = gf[e].key
    BY <1>4, <2>1, Zenon
  <2> QED  BY <1>1, <2>1, <2>2, Zenon
<1>10. p \in [Key -> {0, 1} \cap (0 .. AskBound)]  BY <1>2 DEF Asks
<1>11. GetsKept(h, T1, Q1, p)
  BY <1>5, <1>6, <1>7, <1>8, <1>9, <1>10, Zenon DEF GetsKept
<1>12. Sends(h, T1) \subseteq Sends(gf, T)
  <2> SUFFICES ASSUME NEW d \in T1, h[d].kind = "send" PROVE d \in T /\ gf[d].kind = "send"
    BY Zenon DEF Sends
  <2>1. d \in T /\ d \in T \cup Q  BY <1>3
  <2> QED  BY <1>4, <2>1, Zenon
<1>13. SendsKept(h, T1)
  <2>1. T \subseteq Cell  OBVIOUS
  <2> QED  BY <1>12, <2>1, SendsFrame
<1> QED  BY <1>11, <1>13

\* A record comes new to transfer_struct.
Joined(gf, h, c, r, S) == SameFile(r, h[c]) /\ \A d \in S : d # c => Follows(gf[d], h[d])

\* The file k has not been asked for, nor is it there.
Missing(gf, T, Q, q, k) ==
    q[k] = 0 /\ \A d \in T \cup Q : gf[d].kind = "get" => gf[d].key # k

\* A download comes to a list that had none of the file.
LEMMA GetsNew ==
    ASSUME NEW gf, NEW h, NEW T, NEW Q, NEW q, GetsKept(gf, T, Q, q), SendsKept(gf, T),
           T \cup Q \subseteq Cell, T \cap Q = {}, NEW c, c \notin T, c \notin Q,
           NEW k \in Key, NEW T1, T1 = T \cup {c}, Joined(gf, h, c, NewFile(k, "get"), T \cup Q),
           Missing(gf, T, Q, q, k), q[k] < AskBound, NEW p, p = Asking(q, k)
    PROVE  GetsKept(h, T1, Q, p) /\ SendsKept(h, T1)
<1>1. /\ q \in Asks
      /\ \A d \in T \cup Q : gf[d].key \in Key
      /\ \A d, e \in T \cup Q :
           gf[d].kind = "get" /\ gf[e].kind = "get" /\ gf[d].key = gf[e].key => d = e
      /\ \A d \in T \cup Q :
           gf[d].kind = "get" /\ q[gf[d].key] > 0 => d \in T /\ ~gf[d].realfile
      /\ \A d \in T : gf[d].kind = "get" /\ ~gf[d].realfile => gf[d].socket = -1
      /\ \A d \in Q : gf[d].kind = "get" /\ ~gf[d].realfile
  BY GetsParts
<1>2. q[k] = 0 /\ \A d \in T \cup Q : gf[d].kind = "get" => gf[d].key # k
  BY Zenon DEF Missing
<1>3. p \in Asks /\ \A j \in Key : j # k => p[j] = q[j]  BY <1>1, <1>2, AskingOf
<1>4. h[c].key = k /\ h[c].kind = "get" /\ h[c].socket = -1 /\ ~h[c].realfile
  <2> DEFINE r == NewFile(k, "get")
  <2>1. r.key = k /\ r.kind = "get" /\ r.socket = -1 /\ r.realfile = FALSE  BY DEF NewFile
  <2>2. SameFile(r, h[c])  BY Zenon DEF Joined
  <2> HIDE DEF r
  <2> QED  BY <2>1, <2>2, Zenon DEF SameFile
<1>5. \A d \in T \cup Q : /\ h[d].key = gf[d].key /\ h[d].kind = gf[d].kind
                          /\ h[d].realfile = gf[d].realfile /\ Follows(gf[d], h[d])
  <2>1. \A d \in T \cup Q : d # c  OBVIOUS
  <2> QED  BY <2>1, Zenon DEF Joined, Follows
<1>6. \A d \in T1 \cup Q : d \in T \cup Q \/ d = c  OBVIOUS
<1>7. \A d \in T1 \cup Q :
         h[d].kind = "get" /\ p[h[d].key] > 0 => d \in T1 /\ ~h[d].realfile
  <2> SUFFICES ASSUME NEW d \in T1 \cup Q, h[d].kind = "get", p[h[d].key] > 0
               PROVE  d \in T1 /\ ~h[d].realfile
    BY Zenon
  <2>1. CASE d = c
    <3>1. d \in T1  BY <2>1
    <3> QED  BY <1>4, <2>1, <3>1, Zenon
  <2>2. CASE d \in T \cup Q
    <3>1. gf[d].kind = "get" /\ gf[d].key \in Key /\ p[gf[d].key] > 0 /\ gf[d].key # k
      BY <1>1, <1>2, <1>5, <2>2, Zenon
    <3>2. q[gf[d].key] > 0  BY <1>3, <3>1, Zenon
    <3>3. d \in T /\ ~gf[d].realfile  BY <1>1, <2>2, <3>1, <3>2, Zenon
    <3>4. d \in T1  BY <3>3
    <3> QED  BY <1>5, <2>2, <3>3, <3>4, Zenon
  <2> QED  BY <1>6, <2>1, <2>2
<1>8. \A d \in T1 : h[d].kind = "get" /\ ~h[d].realfile => h[d].socket = -1
  <2> SUFFICES ASSUME NEW d \in T1, h[d].kind = "get", ~h[d].realfile PROVE h[d].socket = -1
    BY Zenon
  <2>1. CASE d = c  BY <1>4, <2>1, Zenon
  <2>2. CASE d \in T
    <3>1. d \in T \cup Q  BY <2>2
    <3>2. gf[d].kind = "get" /\ ~gf[d].realfile /\ Follows(gf[d], h[d])
      BY <1>5, <3>1, Zenon
    <3>3. gf[d].socket = -1  BY <1>1, <2>2, <3>2, Zenon
    <3>4. gf[d].kind # "send"  BY <3>2
    <3> QED  BY <3>2, <3>3, <3>4, Zenon DEF Follows
  <2> QED  BY <2>1, <2>2
<1>9. \A d \in Q : h[d].kind = "get" /\ ~h[d].realfile
  <2>1. \A d \in Q : d \in T \cup Q  OBVIOUS
  <2> QED  BY <1>1, <1>5, <2>1, Zenon
<1>10. \A d \in T1 \cup Q : h[d].key \in Key  BY <1>1, <1>4, <1>5, <1>6, Zenon
<1>11. \A d, e \in T1 \cup Q :
          h[d].kind = "get" /\ h[e].kind = "get" /\ h[d].key = h[e].key => d = e
  <2> SUFFICES ASSUME NEW d \in T1 \cup Q, NEW e \in T1 \cup Q,
                      h[d].kind = "get", h[e].kind = "get", h[d].key = h[e].key
               PROVE  d = e
    BY Zenon
  <2>1. CASE d \in T \cup Q /\ e \in T \cup Q
    <3>1. gf[d].kind = "get" /\ gf[e].kind = "get" /\ gf[d].key = gf[e].key
      BY <1>5, <2>1, Zenon
    <3> QED  BY <1>1, <2>1, <3>1, Zenon
  <2>2. CASE d = c /\ e \in T \cup Q
    <3>1. gf[e].kind = "get" /\ gf[e].key = k  BY <1>4, <1>5, <2>2, Zenon
    <3> QED  BY <1>2, <2>2, <3>1, Zenon
  <2>3. CASE d \in T \cup Q /\ e = c
    <3>1. gf[d].kind = "get" /\ gf[d].key = k  BY <1>4, <1>5, <2>3, Zenon
    <3> QED  BY <1>2, <2>3, <3>1, Zenon
  <2> QED  BY <1>6, <2>1, <2>2, <2>3, Zenon
<1>12. p \in [Key -> {0, 1} \cap (0 .. AskBound)]  BY <1>3 DEF Asks
<1>13. GetsKept(h, T1, Q, p)
  BY <1>7, <1>8, <1>9, <1>10, <1>11, <1>12, Zenon DEF GetsKept
<1>14. Sends(h, T1) \subseteq Sends(gf, T)
  <2> SUFFICES ASSUME NEW d \in T1, h[d].kind = "send" PROVE d \in T /\ gf[d].kind = "send"
    BY Zenon DEF Sends
  <2>1. d # c  BY <1>4
  <2>2. d \in T /\ d \in T \cup Q  BY <2>1
  <2> QED  BY <1>5, <2>2, Zenon
<1>15. SendsKept(h, T1)
  <2>1. T \subseteq Cell  OBVIOUS
  <2> QED  BY <1>14, <2>1, SendsFrame
<1> QED  BY <1>13, <1>15

\* An upload comes when the limit leaves room.
LEMMA SendsNew ==
    ASSUME NEW gf, NEW h, NEW T, NEW Q, NEW q, GetsKept(gf, T, Q, q),
           T \cup Q \subseteq Cell, T \cap Q = {}, NEW c, c \notin T, c \notin Q,
           NEW k \in Key, NEW T1, T1 = T \cup {c},
           NEW r, r.key = k, r.kind = "send", Joined(gf, h, c, r, T \cup Q),
           SendLimit = 0 \/ Cardinality(Sends(gf, T)) < SendLimit
    PROVE  GetsKept(h, T1, Q, q) /\ SendsKept(h, T1)
<1>1. /\ q \in Asks
      /\ \A d \in T \cup Q : gf[d].key \in Key
      /\ \A d, e \in T \cup Q :
           gf[d].kind = "get" /\ gf[e].kind = "get" /\ gf[d].key = gf[e].key => d = e
      /\ \A d \in T \cup Q :
           gf[d].kind = "get" /\ q[gf[d].key] > 0 => d \in T /\ ~gf[d].realfile
      /\ \A d \in T : gf[d].kind = "get" /\ ~gf[d].realfile => gf[d].socket = -1
      /\ \A d \in Q : gf[d].kind = "get" /\ ~gf[d].realfile
  BY GetsParts
<1>2. h[c].key = k /\ h[c].kind # "get" /\ h[c].kind = "send"
  <2>1. h[c].key = k /\ h[c].kind = "send"  BY Zenon DEF Joined, SameFile
  <2> QED  BY <2>1
<1>3. \A d \in T \cup Q : /\ h[d].key = gf[d].key /\ h[d].kind = gf[d].kind
                          /\ h[d].realfile = gf[d].realfile /\ Follows(gf[d], h[d])
  <2>1. \A d \in T \cup Q : d # c  OBVIOUS
  <2> QED  BY <2>1, Zenon DEF Joined, Follows
<1>4. \A d \in T1 \cup Q : d \in T \cup Q \/ d = c  OBVIOUS
<1>5. \A d \in T1 \cup Q :
         h[d].kind = "get" /\ q[h[d].key] > 0 => d \in T1 /\ ~h[d].realfile
  <2> SUFFICES ASSUME NEW d \in T1 \cup Q, h[d].kind = "get", q[h[d].key] > 0
               PROVE  d \in T1 /\ ~h[d].realfile
    BY Zenon
  <2>1. d \in T \cup Q  BY <1>2, <1>4, Zenon
  <2>2. d \in T /\ ~gf[d].realfile  BY <1>1, <1>3, <2>1, Zenon
  <2>3. d \in T1  BY <2>2
  <2> QED  BY <1>3, <2>1, <2>2, <2>3, Zenon
<1>6. \A d \in T1 : h[d].kind = "get" /\ ~h[d].realfile => h[d].socket = -1
  <2> SUFFICES ASSUME NEW d \in T1, h[d].kind = "get", ~h[d].realfile PROVE h[d].socket = -1
    BY Zenon
  <2>1. d # c  BY <1>2
  <2>2. d \in T /\ d \in T \cup Q  BY <2>1
  <2>3. gf[d].kind = "get" /\ ~gf[d].realfile /\ Follows(gf[d], h[d])
    BY <1>3, <2>2, Zenon
  <2>4. gf[d].socket = -1  BY <1>1, <2>2, <2>3, Zenon
  <2>5. gf[d].kind # "send"  BY <2>3
  <2> QED  BY <2>3, <2>4, <2>5, Zenon DEF Follows
<1>7. \A d \in Q : h[d].kind = "get" /\ ~h[d].realfile
  <2>1. \A d \in Q : d \in T \cup Q  OBVIOUS
  <2> QED  BY <1>1, <1>3, <2>1, Zenon
<1>8. \A d \in T1 \cup Q : h[d].key \in Key  BY <1>1, <1>2, <1>3, <1>4, Zenon
<1>9. \A d, e \in T1 \cup Q :
          h[d].kind = "get" /\ h[e].kind = "get" /\ h[d].key = h[e].key => d = e
  <2> SUFFICES ASSUME NEW d \in T1 \cup Q, NEW e \in T1 \cup Q,
                      h[d].kind = "get", h[e].kind = "get", h[d].key = h[e].key
               PROVE  d = e
    BY Zenon
  <2>1. d \in T \cup Q /\ e \in T \cup Q  BY <1>2, <1>4, Zenon
  <2>2. gf[d].kind = "get" /\ gf[e].kind = "get" /\ gf[d].key = gf[e].key
    BY <1>3, <2>1, Zenon
  <2> QED  BY <1>1, <2>1, <2>2, Zenon
<1>10. q \in [Key -> {0, 1} \cap (0 .. AskBound)]  BY <1>1 DEF Asks
<1>11. GetsKept(h, T1, Q, q)
  BY <1>5, <1>6, <1>7, <1>8, <1>9, <1>10, Zenon DEF GetsKept
<1>12. SendsKept(h, T1)
  <2>1. Sends(h, T1) = Sends(gf, T) \cup {c}
    <3>1. \A d : d \in Sends(h, T1) <=> d \in T1 /\ h[d].kind = "send"  BY Zenon DEF Sends
    <3>2. \A d : d \in Sends(gf, T) <=> d \in T /\ gf[d].kind = "send"  BY Zenon DEF Sends
    <3>3. \A d \in T : h[d].kind = gf[d].kind  BY <1>3
    <3> QED  BY <1>2, <3>1, <3>2, <3>3
  <2>2. Sends(gf, T) \subseteq Cell /\ c \notin Sends(gf, T)  BY DEF Sends
  <2>3. IsFiniteSet(Sends(gf, T))  BY <2>2, CellAssumption, FS_Subset
  <2>4. Cardinality(Sends(gf, T) \cup {c}) = Cardinality(Sends(gf, T)) + 1
        /\ Cardinality(Sends(gf, T)) \in Nat
    BY <2>2, <2>3, FS_AddElement, FS_CardinalityType
  <2> QED  BY <2>1, <2>4, SendLimitAssumption DEF SendsKept
<1> QED  BY <1>11, <1>12

----------------------------------------------------------------------------
(* The handlers *)

\* create_and_do_get() and cmd_filerequest() allocate a record and link it.
NewlyOn(w, T, Q, F, c, r, v) ==
    /\ World(v, T \cup {c}, T \cup {c}, Q, F) /\ Joined(w.gf, v.gf, c, r, T \cup Q)
    /\ c \notin T /\ c \notin Q /\ v.live = w.live \cup {c}

\* The record is on the list when the handler is done.
LEMMA NewRecord ==
    ASSUME NEW w, NEW T, NEW Q, NEW F, NEW q, State(w, T, Q, F, q),
           NEW c \in Cell \ w.live, NEW r, NewRecordType(r),
           NEW u, u = Allocate(w, c, r), NEW v, v = AddToTransferList(u, c)
    PROVE  NewlyOn(w, T, Q, F, c, r, v)
<1> DEFINE T1 == T \cup {c}
<1>1. /\ World(w, T, T, Q, F) /\ w.gf \in [Cell -> GetFile] /\ w.live \subseteq Cell
      /\ T \cup Q \cup F \subseteq w.live
  BY StateParts
<1>2. v = AddToTransferList(u, c) /\ u = Allocate(w, c, r)  OBVIOUS
<1>3. /\ World(u, T, T \cup {c}, Q, F) /\ c \notin T
      /\ Writes(w, u, c, r) /\ u.live = w.live \cup {c} /\ SameCounts(w, u)
  <2>1. Allocated(w, T, T, Q, F, c, r, u)  BY <1>1, <1>2, AllocateWorld
  <2> QED  BY <2>1, Zenon DEF Allocated
<1>4. World(u, T, T1, Q, F) /\ c \in T1 \ T  BY <1>3
<1> HIDE DEF T1
<1>5. /\ World(v, T \cup {c}, T1, Q, F)
      /\ SameData(u.gf, v.gf)
      /\ v.sock_manager = u.sock_manager /\ v.kernel = u.kernel
      /\ v.live = u.live /\ v.gets = u.gets /\ v.sends = u.sends
  BY <1>2, <1>4, AddWorld
<1>6. Joined(w.gf, v.gf, c, r, T \cup Q)
  <2>1. u.gf[c] = r /\ \A d \in Cell : d # c => u.gf[d] = w.gf[d]  BY <1>3, Zenon DEF Writes
  <2>2. \A d \in Cell : SameFile(u.gf[d], v.gf[d])  BY <1>5, Zenon DEF SameData, SameFile
  <2>3. SameFile(r, v.gf[c])  BY <2>1, <2>2, Zenon
  <2>4. ASSUME NEW d \in T \cup Q, d # c PROVE Follows(w.gf[d], v.gf[d])
    <3>1. d \in Cell  BY <1>1
    <3>2. SameFile(w.gf[d], v.gf[d])  BY <2>1, <2>2, <2>4, <3>1, Zenon
    <3> QED  BY <3>2, FollowsOf
  <2> QED  BY <2>3, <2>4, Zenon DEF Joined
<1>7. c \notin Q /\ v.live = w.live \cup {c}  BY <1>1, <1>3, <1>5
<1>8. World(v, T1, T1, Q, F)  BY <1>5 DEF T1
<1> QED  BY <1>3, <1>6, <1>7, <1>8, Zenon DEF T1, NewlyOn

\* A new record is of no connection.
LEMMA NewFileType ==
    ASSUME NEW k \in Key, NEW kind \in {"get", "send"}, NEW r, r = NewFile(k, kind)
    PROVE  /\ r \in GetFile /\ r.socket = -1 /\ ~r.deleted /\ r.key = k /\ r.kind = kind
           /\ NewRecordType(r)
  BY DEF NewFile, GetFile, NewRecordType

\* /get.
LEMMA GetFileKept ==
    ASSUME NEW T, NEW Q, NEW F, State(mem, T, Q, F, asked), Happens \subseteq Covered,
           NEW k \in Key, GetFile_(k)
    PROVE  Resting(mem', asked')
<1> DEFINE w == mem
           v == mem'
           q == asked
           p == asked'
           r == NewFile(k, "get")
           kind == "get"
<1>1. /\ World(w, T, T, Q, F) /\ w.gf \in [Cell -> GetFile] /\ w.live \subseteq Cell
      /\ T \cup Q \cup F \subseteq w.live /\ T \cap Q = {}
      /\ Ordinary => w.live \subseteq T \cup Q \cup F
  BY StateParts
<1>2. "again" \notin Happens  BY DEF Covered
<1>3. Fresh(k) /\ asked[k] < AskBound /\ p = Asking(q, k)
  BY <1>2 DEF GetFile_, Ask, Asking
<1>4. PICK c \in Cell \ w.live : v = AddToTransferList(Allocate(w, c, r), c)
  BY DEF GetFile_
<1>5. Missing(w.gf, T, Q, q, k)  BY <1>1, <1>3 DEF Fresh, Live, Missing
<1>6. /\ State(w, T, Q, F, q) /\ r = NewFile(k, kind) /\ kind \in {"get", "send"}
      /\ q[k] < AskBound
  BY <1>3
<1> HIDE DEF w, v, q, p, r, kind
<1>7. /\ r \in GetFile /\ r.socket = -1 /\ ~r.deleted /\ r.key = k /\ r.kind = kind
      /\ NewRecordType(r)
  BY <1>6, NewFileType
<1> DEFINE T1 == T \cup {c}
<1>8. /\ World(v, T \cup {c}, T \cup {c}, Q, F) /\ Joined(w.gf, v.gf, c, r, T \cup Q)
      /\ c \notin T /\ c \notin Q /\ v.live = w.live \cup {c}
  <2> DEFINE u == Allocate(w, c, r)
  <2>1. u = Allocate(w, c, r) /\ v = AddToTransferList(u, c)  BY <1>4
  <2> HIDE DEF u
  <2>2. NewlyOn(w, T, Q, F, c, r, v)  BY <1>6, <1>7, <2>1, NewRecord
  <2> QED  BY <2>2, Zenon DEF NewlyOn
<1>9. World(v, T1, T1, Q, F) /\ T1 = T \cup {c}  BY <1>8
<1>10. GetsKept(w.gf, T, Q, q) /\ SendsKept(w.gf, T) /\ T \cup Q \subseteq Cell
  BY <1>1, <1>6 DEF State
<1> DEFINE gf == w.gf
           h == v.gf
<1>11. Joined(gf, h, c, NewFile(k, "get"), T \cup Q)  BY <1>8 DEF r
<1>12. Missing(gf, T, Q, q, k) /\ GetsKept(gf, T, Q, q) /\ SendsKept(gf, T)  BY <1>5, <1>10
<1>13. Ordinary => AllSeen(v, T1, Q, F)
  <2> SUFFICES ASSUME Ordinary PROVE AllSeen(v, T1, Q, F)
    OBVIOUS
  <2>1. AllSeen(w, T, Q, F)  BY <1>6 DEF State
  <2>2. v.live \subseteq T1 \cup Q \cup F  BY <1>1, <1>8
  <2>3. ASSUME NEW d \in T1, h[d].kind = "send" PROVE h[d].write
    <3>1. h[c].kind = "get"  BY <1>7, <1>8, Zenon DEF Joined, SameFile, kind
    <3>2. d \in T /\ d \in T \cup Q /\ d # c  BY <1>8, <1>9, <2>3, <3>1
    <3>3. Follows(gf[d], h[d])  BY <1>8, <3>2, Zenon DEF Joined
    <3>4. gf[d].kind = "send"  BY <2>3, <3>3, Zenon DEF Follows
    <3>6. gf[d].write  BY <2>1, <3>2, <3>4, Zenon DEF AllSeen
    <3> QED  BY <3>3, <3>4, <3>6, Zenon DEF Follows
  <2> QED  BY <2>2, <2>3, Zenon DEF AllSeen
<1> HIDE DEF T1, gf, h
<1>14. GetsKept(h, T1, Q, p) /\ SendsKept(h, T1)
  BY <1>1, <1>3, <1>6, <1>8, <1>9, <1>10, <1>11, <1>12, GetsNew
<1>15. State(v, T1, Q, F, p)  BY <1>9, <1>13, <1>14, Zenon DEF State, h
<1> QED  BY <1>15, Zenon DEF Resting, v, p

\* The walks the program takes meet the records of T, Q and F.
LEMMA InProgressIs ==
    ASSUME NEW w, NEW T, NEW Q, NEW F, World(w, T, T, Q, F)
    PROVE  /\ On(w, w.transfer_struct) = T /\ On(w, w.Queued) = Q
           /\ On(w, w.finished_struct) = F
           /\ FilesInProgress(w, "send") = Cardinality(Sends(w.gf, T))
<1>1. Nexts(w.gf)
  <2>1. w.gf \in [Cell -> GetFile]  BY WorldParts
  <2> QED  BY <2>1, NextsOf
<1>2. On(w, w.transfer_struct) = T
  <2>1. Chain(w.gf, w.transfer_struct, T)  BY DEF World, DoubleChain
  <2> QED  BY <1>1, <2>1, WalkOfChain
<1>3. On(w, w.Queued) = Q
  <2>1. Chain(w.gf, w.Queued, Q)  BY DEF World, DoubleChain
  <2> QED  BY <1>1, <2>1, WalkOfChain
<1>4. On(w, w.finished_struct) = F
  <2>1. Chain(w.gf, w.finished_struct, F)  BY DEF World
  <2> QED  BY <1>1, <2>1, WalkOfChain
<1>5. FilesInProgress(w, "send") = Cardinality(Sends(w.gf, T))
  BY <1>2 DEF FilesInProgress, Sends
<1> QED  BY <1>2, <1>3, <1>4, <1>5

\* cmd_filerequest(): a wish relayed by the server.
LEMMA CmdFilerequestKept ==
    ASSUME NEW T, NEW Q, NEW F, State(mem, T, Q, F, asked), NEW k \in Key, CmdFilerequest(k)
    PROVE  Resting(mem', asked')
<1> DEFINE w == mem
           v == mem'
           q == asked
           kind == "send"
<1>1. /\ World(w, T, T, Q, F) /\ w.gf \in [Cell -> GetFile] /\ w.live \subseteq Cell
      /\ T \cup Q \cup F \subseteq w.live /\ T \cap Q = {}
      /\ Ordinary => w.live \subseteq T \cup Q \cup F
  BY StateParts
<1>2. asked' = q  BY DEF CmdFilerequest
<1>3. PICK c \in Cell \ w.live, opened \in BOOLEAN :
         /\ opened \/ "unopened" \in Happens
         /\ v = AddToTransferList(
                    Allocate(w, c, [NewFile(k, "send") EXCEPT !.write = opened]), c)
  BY DEF CmdFilerequest
<1>4. SendLimit = 0 \/ FilesInProgress(w, "send") < SendLimit  BY DEF CmdFilerequest
<1> DEFINE r0 == NewFile(k, kind)
           r == [r0 EXCEPT !.write = opened]
<1>5. State(w, T, Q, F, q) /\ v = AddToTransferList(Allocate(w, c, r), c)  BY <1>3
<1>6. /\ r0 \in GetFile /\ r0.socket = -1 /\ ~r0.deleted /\ r0.key = k /\ r0.kind = kind
      /\ NewRecordType(r0)
  <2> HIDE DEF r0, kind
  <2>1. kind \in {"get", "send"} /\ r0 = NewFile(k, kind)  BY DEF kind, r0
  <2> QED  BY <2>1, NewFileType
<1> HIDE DEF w, v, q, r0
<1>7. r \in GetFile /\ r.socket = -1 /\ r.key = k /\ r.kind = "send"  BY <1>6 DEF GetFile
<1>8. NewRecordType(r) /\ r.write = opened
  <2>1. r.deleted = r0.deleted /\ r.write = opened  BY <1>6 DEF GetFile
  <2> QED  BY <1>6, <1>7, <2>1, Zenon DEF NewRecordType
<1> HIDE DEF r
<1> DEFINE T1 == T \cup {c}
<1>9. /\ World(v, T \cup {c}, T \cup {c}, Q, F) /\ Joined(w.gf, v.gf, c, r, T \cup Q)
      /\ c \notin T /\ c \notin Q /\ v.live = w.live \cup {c}
  <2> DEFINE u == Allocate(w, c, r)
  <2>1. u = Allocate(w, c, r) /\ v = AddToTransferList(u, c)  BY <1>5
  <2> HIDE DEF u
  <2>2. NewlyOn(w, T, Q, F, c, r, v)  BY <1>3, <1>5, <1>7, <1>8, <2>1, NewRecord
  <2> QED  BY <2>2, Zenon DEF NewlyOn
<1>10. World(v, T1, T1, Q, F) /\ T1 = T \cup {c}  BY <1>9
<1> DEFINE gf == w.gf
           h == v.gf
<1>11. GetsKept(gf, T, Q, q) /\ SendsKept(gf, T) /\ T \cup Q \subseteq Cell
       /\ Joined(gf, h, c, r, T \cup Q)
  BY <1>1, <1>5, <1>9 DEF State
<1>12. SendLimit = 0 \/ Cardinality(Sends(gf, T)) < SendLimit
  <2>1. FilesInProgress(w, "send") = Cardinality(Sends(w.gf, T))  BY <1>1, InProgressIs
  <2> QED  BY <1>4, <2>1 DEF w
<1>13. Ordinary => AllSeen(v, T1, Q, F)
  <2> SUFFICES ASSUME Ordinary PROVE AllSeen(v, T1, Q, F)
    OBVIOUS
  <2>1. AllSeen(w, T, Q, F)  BY <1>5 DEF State
  <2>2. v.live \subseteq T1 \cup Q \cup F  BY <1>1, <1>9
  <2>3. opened
    <3>1. "unopened" \notin Happens  BY DEF Ordinary
    <3> QED  BY <1>3, <3>1, Zenon
  <2>4. h[c].write
    <3>1. h[c].write = r.write  BY <1>11, Zenon DEF Joined, SameFile
    <3> QED  BY <1>8, <2>3, <3>1, Zenon
  <2>5. ASSUME NEW d \in T1, h[d].kind = "send" PROVE h[d].write
    <3>1. CASE d = c  BY <2>4, <3>1, Zenon
    <3>2. CASE d # c
      <4>1. d \in T /\ d \in T \cup Q  BY <3>2
      <4>2. Follows(gf[d], h[d])  BY <1>11, <3>2, <4>1, Zenon DEF Joined
      <4>3. gf[d].kind = "send"  BY <2>5, <4>2, Zenon DEF Follows
      <4>5. gf[d].write  BY <2>1, <4>1, <4>3, Zenon DEF AllSeen
      <4> QED  BY <4>2, <4>3, <4>5, Zenon DEF Follows
    <3> QED  BY <3>1, <3>2
  <2> QED  BY <2>2, <2>5, Zenon DEF AllSeen
<1> HIDE DEF T1, gf, h
<1>14. GetsKept(h, T1, Q, q) /\ SendsKept(h, T1)
  BY <1>1, <1>7, <1>9, <1>10, <1>11, <1>12, SendsNew
<1>15. State(v, T1, Q, F, q)  BY <1>10, <1>13, <1>14, Zenon DEF State, h
<1>16. Resting(v, q)  BY <1>15, Zenon DEF Resting
<1> QED  BY <1>2, <1>16 DEF v

\* find_in_getfile(): none, or one of those on transfer_struct.
LEMMA FindIn ==
    ASSUME NEW w, NEW T, NEW Q, NEW F, World(w, T, T, Q, F), NEW k, NEW kind,
           NEW c, c = Find(w, k, kind)
    PROVE  c # Nil => c \in T /\ w.gf[c].key = k /\ w.gf[c].kind = kind
<1>1. On(w, w.transfer_struct) = T  BY InProgressIs
<1> DEFINE S == Matches(w, k, kind)
<1>2. S \subseteq On(w, w.transfer_struct)  BY DEF Matches
<1>3. CASE S = {}  BY <1>3 DEF Find, FirstOf
<1>4. CASE S # {}
  <2>1. c = FirstOf(w, w.transfer_struct, S)  BY DEF Find
  <2> HIDE DEF S
  <2>2. c \in S  BY <1>2, <1>4, <2>1, FirstOfIn
  <2> QED  BY <1>1, <2>2 DEF S, Matches
<1> QED  BY <1>3, <1>4

\* A count the server is told changes nothing else.
LEMMA TellState ==
    ASSUME NEW w, NEW T, NEW Q, NEW F, NEW q, State(w, T, Q, F, q), NEW kind, NEW d \in Int,
           NEW v, v = Tell(w, kind, d)
    PROVE  State(v, T, Q, F, q) /\ Resting(v, q)
<1>1. World(w, T, T, Q, F) /\ (Ordinary => w.live \subseteq T \cup Q \cup F)  BY StateParts
<1>2. /\ World(v, T, T, Q, F) /\ v.gf = w.gf /\ SameLists(w, v)
      /\ v.sock_manager = w.sock_manager /\ v.kernel = w.kernel
  BY <1>1, TellWorld
<1>3. \A c \in T \cup Q : Follows(w.gf[c], v.gf[c])  BY <1>2, FollowsOf
<1>4. Ordinary => v.live \subseteq T \cup Q \cup F  BY <1>1, <1>2 DEF SameLists
<1> QED  BY <1>2, <1>3, <1>4, StateFrame

\* A handler has the record c in hand, and ends it with its connection.
InHand(w, T, Q, F, c, u) ==
    /\ World(u, T \ {c}, T, Q, F) /\ u.live = w.live
    /\ \A d \in Cell : d # c => Follows(w.gf[d], u.gf[d])

\* nap_finished_file() of it.
LEMMA EndInHand ==
    ASSUME NEW w, NEW T, NEW Q, NEW F, NEW q, State(w, T, Q, F, q),
           NEW c \in T, NEW u, InHand(w, T, Q, F, c, u), NEW s \in Fd, Info(u, s) = c,
           NEW v, v = Finish(u, s)
    PROVE  State(v, T \ {c}, Q, F \cup {c}, q) /\ Resting(v, q)
<1>1. World(u, T \ {c}, T, Q, F) /\ u.live = w.live
      /\ \A d \in Cell : d # c => Follows(w.gf[d], u.gf[d])
  BY Zenon DEF InHand
<1>2. /\ T \cup Q \cup F \subseteq w.live /\ w.live \subseteq Cell /\ T \cap Q = {}
      /\ Ordinary => w.live \subseteq T \cup Q \cup F
  BY StateParts
<1> DEFINE T1 == T \ {c}
           F1 == F \cup {c}
<1>3. World(u, T1, T, Q, F) /\ c \in T \ T1 /\ T \ {c} = T1  BY <1>1
<1> HIDE DEF T1
<1>4. /\ World(v, T1, T \ {c}, Q, F \cup {c})
      /\ \A d \in Cell : d # c => v.gf[d] = u.gf[d]
      /\ v.live = u.live /\ v.gets = u.gets /\ v.sends = u.sends
  BY <1>3, FinishWorld
<1>5. World(v, T1, T1, Q, F1)  BY <1>3, <1>4
<1>6. T1 \subseteq T /\ Q \subseteq Q  BY <1>3
<1>7. ASSUME NEW d \in T1 \cup Q PROVE Follows(w.gf[d], v.gf[d])
  <2>1. d \in Cell /\ d # c  BY <1>2, <1>3
  <2>2. v.gf[d] = u.gf[d] /\ Follows(w.gf[d], u.gf[d])  BY <1>1, <1>4, <2>1
  <2> QED  BY <2>2
<1>8. Ordinary => v.live \subseteq T1 \cup Q \cup F1  BY <1>1, <1>2, <1>3, <1>4
<1> HIDE DEF F1
<1>9. State(v, T1, Q, F1, q) /\ Resting(v, q)  BY <1>5, <1>6, <1>7, <1>8, StateFrame
<1> QED  BY <1>9 DEF T1, F1

\* An answer without an address.
LEMMA NotAnsweredKept ==
    ASSUME NEW T, NEW Q, NEW F, State(mem, T, Q, F, asked), NEW k \in Key, NotAnswered(k)
    PROVE  Resting(mem', asked')
<1> DEFINE w == mem
           q == asked
           p == asked'
           gf == w.gf
<1>1. mem' = w /\ q[k] > 0 /\ p = Answered(q, k)  BY DEF NotAnswered, Answered
<1>2. World(w, T, T, Q, F) /\ SendsKept(gf, T) /\ GetsKept(gf, T, Q, q)
      /\ (Ordinary => AllSeen(w, T, Q, F))
  BY DEF State
<1> HIDE DEF w, q, p, gf
<1>3. GetsKept(gf, T, Q, p) /\ q \in Asks  BY <1>1, <1>2, GetsAnswered
<1>4. State(w, T, Q, F, p)  BY <1>2, <1>3, Zenon DEF State, gf
<1>5. Resting(w, p)  BY <1>4, Zenon DEF Resting
<1> QED  BY <1>1, <1>5 DEF p

\* The socket a handler runs for, and the record it leads to.
LEMMA ReadingIs ==
    ASSUME NEW T, NEW Q, NEW F, World(mem, T, T, Q, F), NEW f, NEW s \in Reading(f)
    PROVE  /\ s \in Registered(mem.sock_manager) /\ s \in Fd
           /\ Info(mem, s) = mem.sock_manager.slot[s].info
           /\ mem.sock_manager.slot[s].func_read = f
           /\ f \in Early => Info(mem, s) = Nil
           /\ Info(mem, s) # Nil =>
                /\ Info(mem, s) \in T /\ mem.gf[Info(mem, s)].socket = s
                /\ ~mem.gf[Info(mem, s)].deleted
<1> DEFINE w == mem
<1>1. w.sock_manager \in Tables /\ Wired(w.sock_manager, w.gf, w.kernel, T)  BY WorldParts
<1>2. s \in Registered(w.sock_manager) /\ w.sock_manager.slot[s].func_read = f  BY DEF Reading
<1>3. s \in Fd  BY <1>2 DEF Registered
<1> HIDE DEF w
<1>4. World(w, T, T, Q, F)  BY DEF w
<1>5. /\ Info(w, s) = w.sock_manager.slot[s].info
      /\ Info(w, s) # Nil =>
           /\ Info(w, s) \in T /\ w.gf[Info(w, s)].socket = s
           /\ ~w.gf[Info(w, s)].deleted /\ s \in Registered(w.sock_manager)
  BY <1>3, <1>4, InfoWorld
<1>6. w.sock_manager.slot[s].func_read \in Early => w.sock_manager.slot[s].info = Nil
  BY <1>1, <1>3, Zenon DEF Wired
<1> QED  BY <1>2, <1>3, <1>5, <1>6, Zenon DEF w

\* Handlers that change a socket of no record, or the handler of one.
LEMMA SameRecordsKept ==
    ASSUME NEW w, NEW T, NEW Q, NEW F, NEW q, State(w, T, Q, F, q),
           NEW v, World(v, T, T, Q, F), v.gf = w.gf, v.live = w.live
    PROVE  State(v, T, Q, F, q) /\ Resting(v, q)
<1>1. Ordinary => v.live \subseteq T \cup Q \cup F  BY StateParts
<1>2. \A c \in T \cup Q : Follows(w.gf[c], v.gf[c])  BY FollowsOf
<1> QED  BY <1>1, <1>2, StateFrame

\* nap_getfilestart().
LEMMA NapGetfilestartKept ==
    ASSUME NEW T, NEW Q, NEW F, State(mem, T, Q, F, asked), NEW s \in Fd, NapGetfilestart(s)
    PROVE  Resting(mem', asked')
<1> DEFINE w == mem
           v == mem'
           q == asked
           f == "nap_getfile"
<1>1. World(w, T, T, Q, F)  BY StateParts
<1>2. s \in Reading("nap_getfilestart") /\ asked' = q  BY DEF NapGetfilestart
<1>3. s \in Registered(w.sock_manager)  BY <1>1, <1>2, ReadingIs
<1>4. State(w, T, Q, F, q) /\ f \in Handlers /\ f \notin Early  BY DEF Handlers, Early
<1>5. \/ Info(w, s) # Nil /\ v = SetRead(w, s, f)
      \/ Info(w, s) = Nil /\ v = CloseSock(w, s)
  BY DEF NapGetfilestart
<1> HIDE DEF w, v, q, f
<1>6. CASE v = SetRead(w, s, f)
  <2>1. /\ World(v, T, T, Q, F) /\ v.gf = w.gf /\ SameLists(w, v) /\ SameCounts(w, v)
        /\ s \in Registered(v.sock_manager) /\ Info(v, s) = Info(w, s)
        /\ v.sock_manager.slot[s].func_read = f
    BY <1>1, <1>3, <1>4, <1>6, ReadWorld
  <2>2. Resting(v, q)  BY <1>4, <2>1, SameRecordsKept DEF SameLists
  <2> QED  BY <1>2, <2>2 DEF v
<1>7. CASE Info(w, s) = Nil /\ v = CloseSock(w, s)
  <2>1. /\ World(v, T, T, Q, F) /\ v.gf = w.gf
        /\ v.live = w.live /\ v.gets = w.gets /\ v.sends = w.sends
    BY <1>1, <1>7, CloseSockWorld
  <2>2. Resting(v, q)  BY <1>4, <2>1, SameRecordsKept
  <2> QED  BY <1>2, <2>2 DEF v
<1> QED  BY <1>5, <1>6, <1>7

\* A record without a change to what the lists and sockets ask of it.
LEMMA PutState ==
    ASSUME NEW w, NEW T, NEW Q, NEW F, NEW q, State(w, T, Q, F, q), NEW c \in Cell,
           NEW r \in GetFile, SamePlace(w.gf[c], r), Follows(w.gf[c], r),
           NEW v, v = Put(w, c, r)
    PROVE  State(v, T, Q, F, q) /\ Resting(v, q)
<1>1. World(w, T, T, Q, F) /\ (Ordinary => w.live \subseteq T \cup Q \cup F)
      /\ T \cup Q \cup F \subseteq w.live /\ w.live \subseteq Cell
  BY StateParts
<1>2. /\ World(v, T, T, Q, F) /\ Writes(w, v, c, r)
      /\ SameLists(w, v) /\ SameCounts(w, v)
      /\ v.sock_manager = w.sock_manager /\ v.kernel = w.kernel
  BY <1>1, PutWorld
<1>3. ASSUME NEW d \in T \cup Q PROVE Follows(w.gf[d], v.gf[d])
  <2>1. d \in Cell  BY <1>1
  <2>2. v.gf[c] = r /\ \A e \in Cell : e # c => v.gf[e] = w.gf[e]  BY <1>2, Zenon DEF Writes
  <2>3. CASE d = c  BY <2>2, <2>3
  <2>4. CASE d # c
    <3>1. v.gf[d] = w.gf[d]  BY <2>1, <2>2, <2>4
    <3> QED  BY <3>1, FollowsOf
  <2> QED  BY <2>3, <2>4
<1>4. Ordinary => v.live \subseteq T \cup Q \cup F  BY <1>1, <1>2 DEF SameLists
<1> QED  BY <1>2, <1>3, <1>4, StateFrame

\* A record taken off the list, and in hand from then on.
LEMMA BreakInHand ==
    ASSUME NEW w, NEW T, NEW Q, NEW F, World(w, T, T, Q, F), NEW c \in T,
           NEW v, v = Break(w, c)
    PROVE  InHand(w, T, Q, F, c, v) /\ v.sock_manager = w.sock_manager
           /\ SameData(w.gf, v.gf)
<1>1. /\ World(v, T \ {c}, T, Q, F)
      /\ SameData(w.gf, v.gf)
      /\ v.sock_manager = w.sock_manager /\ v.kernel = w.kernel
      /\ v.live = w.live /\ v.gets = w.gets /\ v.sends = w.sends
  BY BreakWorld
<1>2. ASSUME NEW d \in Cell PROVE Follows(w.gf[d], v.gf[d])
  <2>1. SameRecord(w.gf[d], v.gf[d])  BY <1>1, Zenon DEF SameData, SameRecord
  <2> QED  BY <2>1, FollowsOf
<1>3. InHand(w, T, Q, F, c, v)  BY <1>1, <1>2, Zenon DEF InHand
<1> QED  BY <1>1, <1>3

\* The server is told meanwhile.
LEMMA TellInHand ==
    ASSUME NEW w, NEW T, NEW Q, NEW F, NEW c, NEW u, InHand(w, T, Q, F, c, u),
           NEW kind, NEW d \in Int, NEW v, v = Tell(u, kind, d)
    PROVE  InHand(w, T, Q, F, c, v) /\ v.sock_manager = u.sock_manager /\ v.gf = u.gf
<1>1. World(u, T \ {c}, T, Q, F) /\ u.live = w.live
      /\ \A e \in Cell : e # c => Follows(w.gf[e], u.gf[e])
  BY Zenon DEF InHand
<1> DEFINE T1 == T \ {c}
<1>2. World(u, T1, T, Q, F)  BY <1>1
<1> HIDE DEF T1
<1>3. /\ World(v, T1, T, Q, F) /\ v.gf = u.gf /\ SameLists(u, v)
      /\ v.sock_manager = u.sock_manager /\ v.kernel = u.kernel
  BY <1>2, TellWorld
<1>4. v.live = w.live  BY <1>1, <1>3 DEF SameLists
<1>5. InHand(w, T, Q, F, c, v)  BY <1>1, <1>3, <1>4, Zenon DEF InHand, T1
<1> QED  BY <1>3, <1>5

\* The record in hand is written to; it keeps its links and its connection.
LEMMA PutInHand ==
    ASSUME NEW w, NEW T, NEW Q, NEW F, NEW c \in Cell, NEW u, InHand(w, T, Q, F, c, u),
           NEW r \in GetFile, SamePlace(u.gf[c], r), NEW v, v = Put(u, c, r)
    PROVE  InHand(w, T, Q, F, c, v) /\ v.sock_manager = u.sock_manager /\ v.gf[c] = r
<1>1. World(u, T \ {c}, T, Q, F) /\ u.live = w.live
      /\ \A e \in Cell : e # c => Follows(w.gf[e], u.gf[e])
  BY Zenon DEF InHand
<1> DEFINE T1 == T \ {c}
<1>2. World(u, T1, T, Q, F)  BY <1>1
<1> HIDE DEF T1
<1>3. /\ World(v, T1, T, Q, F) /\ Writes(u, v, c, r)
      /\ SameLists(u, v) /\ SameCounts(u, v)
      /\ v.sock_manager = u.sock_manager /\ v.kernel = u.kernel
  BY <1>2, PutWorld
<1>4. v.gf[c] = r /\ \A d \in Cell : d # c => v.gf[d] = u.gf[d]  BY <1>3, Zenon DEF Writes
<1>5. v.live = w.live  BY <1>1, <1>3 DEF SameLists
<1>6. ASSUME NEW e \in Cell, e # c PROVE Follows(w.gf[e], v.gf[e])
  BY <1>1, <1>4, <1>6
<1>7. InHand(w, T, Q, F, c, v)  BY <1>3, <1>5, <1>6, Zenon DEF InHand, T1
<1> QED  BY <1>3, <1>4, <1>7

\* Its file is closed.
LEMMA CloseFileInHand ==
    ASSUME NEW w, NEW T, NEW Q, NEW F, NEW c \in Cell, NEW u, InHand(w, T, Q, F, c, u),
           NEW v, v = CloseFile(u, c)
    PROVE  /\ InHand(w, T, Q, F, c, v) /\ v.sock_manager = u.sock_manager
           /\ v.gf[c].socket = u.gf[c].socket
<1>1. World(u, T \ {c}, T, Q, F)  BY Zenon DEF InHand
<1> DEFINE r == [u.gf[c] EXCEPT !.write = FALSE]
<1>2. u.gf \in [Cell -> GetFile] /\ u \in Worlds  BY <1>1, WorldParts
<1>3. u.gf[c] \in GetFile  BY <1>2
<1>4. r \in GetFile  BY <1>3 DEF GetFile
<1>5. SamePlace(u.gf[c], r)  BY <1>3 DEF GetFile, SamePlace
<1>6. v = Put(u, c, r)
  <2>1. v = [u EXCEPT !.gf[c].write = FALSE]  BY DEF CloseFile
  <2>2. [u EXCEPT !.gf[c].write = FALSE]
          = [u EXCEPT !.gf = [u.gf EXCEPT ![c] = [u.gf[c] EXCEPT !.write = FALSE]]]
    OBVIOUS
  <2> QED  BY <2>1, <2>2, Zenon DEF Put
<1>7. r.socket = u.gf[c].socket  BY <1>5 DEF SamePlace
<1> HIDE DEF r
<1>8. InHand(w, T, Q, F, c, v) /\ v.sock_manager = u.sock_manager /\ v.gf[c] = r
  BY <1>4, <1>5, <1>6, PutInHand
<1> QED  BY <1>7, <1>8

\* nap_finished_file() of a record just taken off the list.
LEMMA BrokenOff ==
    ASSUME NEW w, NEW T, NEW Q, NEW F, NEW q, State(w, T, Q, F, q),
           NEW s \in Fd, NEW c \in T, Info(w, s) = c,
           NEW u, u = Break(w, c), NEW x, x = u \/ x = Tell(u, "get", -1) \/ x = CloseFile(u, c),
           NEW v, v = Finish(x, s)
    PROVE  State(v, T \ {c}, Q, F \cup {c}, q) /\ Resting(v, q)
<1>1. World(w, T, T, Q, F)  BY StateParts
<1>2. c \in Cell  BY StateParts
<1>3. InHand(w, T, Q, F, c, u) /\ u.sock_manager = w.sock_manager
      /\ SameData(w.gf, u.gf)
  BY <1>1, BreakInHand
<1> DEFINE kind == "get"
<1>4. x = u \/ x = Tell(u, kind, -1) \/ x = CloseFile(u, c)  OBVIOUS
<1> HIDE DEF kind
<1>5. InHand(w, T, Q, F, c, x) /\ x.sock_manager = u.sock_manager
  <2>1. CASE x = u  BY <1>3, <2>1
  <2>2. CASE x = Tell(u, kind, -1)
    <3>1. -1 \in Int  OBVIOUS
    <3>2. InHand(w, T, Q, F, c, x) /\ x.sock_manager = u.sock_manager /\ x.gf = u.gf
      BY <1>3, <2>2, <3>1, TellInHand
    <3> QED  BY <3>2
  <2>3. CASE x = CloseFile(u, c)
    <3>1. InHand(w, T, Q, F, c, x) /\ x.sock_manager = u.sock_manager
          /\ x.gf[c].socket = u.gf[c].socket
      BY <1>2, <1>3, <2>3, CloseFileInHand
    <3> QED  BY <3>1
  <2> QED  BY <1>4, <2>1, <2>2, <2>3
<1>6. Info(x, s) = c  BY <1>3, <1>5 DEF Info
<1> QED  BY <1>5, <1>6, EndInHand

\* nap_getfile() while it waits for the size.
LEMMA ReadHeaderKept ==
    ASSUME NEW T, NEW Q, NEW F, State(mem, T, Q, F, asked), NEW s \in Fd,
           NEW c \in T, Info(mem, s) = c, ReadHeader(s, c)
    PROVE  Resting(mem', asked)
<1> DEFINE w == mem
           v == mem'
           q == asked
           r0 == [w.gf[c] EXCEPT !.count = FALSE, !.started = TRUE]
           r1 == [r0 EXCEPT !.write = TRUE]
           u0 == Put(w, c, r0)
           u1 == Put(w, c, r1)
           kind == "get"
<1>1. /\ World(w, T, T, Q, F) /\ w.gf \in [Cell -> GetFile]
      /\ T \cup Q \cup F \subseteq w.live /\ w.live \subseteq Cell
  BY StateParts
<1>2. w.gf[c] \in GetFile /\ c \in Cell  BY <1>1
<1>3. /\ r0 \in GetFile /\ r1 \in GetFile
      /\ SamePlace(w.gf[c], r0) /\ SamePlace(w.gf[c], r1)
  BY <1>2 DEF GetFile, SamePlace
<1>4. Follows(w.gf[c], r0) /\ Follows(w.gf[c], r1)
  <2>1. /\ r0.key = w.gf[c].key /\ r0.kind = w.gf[c].kind /\ r0.realfile = w.gf[c].realfile
        /\ r0.socket = w.gf[c].socket /\ r0.write = w.gf[c].write
        /\ r1.key = w.gf[c].key /\ r1.kind = w.gf[c].kind /\ r1.realfile = w.gf[c].realfile
        /\ r1.socket = w.gf[c].socket /\ r1.write = TRUE
    BY <1>2 DEF GetFile
  <2> QED  BY <2>1, Zenon DEF Follows
<1>5. u0 = [w EXCEPT !.gf[c].count = FALSE, !.gf[c].started = TRUE]
  <2>1. [w EXCEPT !.gf[c].count = FALSE, !.gf[c].started = TRUE]
         = [w EXCEPT !.gf = [w.gf EXCEPT ![c] = [w.gf[c] EXCEPT !.count = FALSE,
                                                                !.started = TRUE]]]
    BY <1>1, <1>2 DEF World, Worlds
  <2> QED  BY <2>1, Zenon DEF Put
<1>6. u1 = [w EXCEPT !.gf[c].count = FALSE, !.gf[c].started = TRUE, !.gf[c].write = TRUE]
  <2>1. [w EXCEPT !.gf[c].count = FALSE, !.gf[c].started = TRUE, !.gf[c].write = TRUE]
         = [w EXCEPT !.gf = [w.gf EXCEPT ![c] =
              [[w.gf[c] EXCEPT !.count = FALSE, !.started = TRUE] EXCEPT !.write = TRUE]]]
    BY <1>1, <1>2 DEF World, Worlds
  <2> QED  BY <2>1, Zenon DEF Put
<1>7. \/ v = Tell(u1, kind, 1)
      \/ v = Finish(Break(u0, c), s)
      \/ v = Finish(Break(w, c), s)
  BY <1>5, <1>6, Zenon DEF ReadHeader
<1>8. State(w, T, Q, F, q) /\ u0 = Put(w, c, r0) /\ u1 = Put(w, c, r1) /\ Info(w, s) = c
      /\ kind = "get"
  OBVIOUS
<1> HIDE DEF w, v, q, r0, r1, u0, u1, kind
<1>9. CASE v = Tell(u1, kind, 1)
  <2>1. State(u1, T, Q, F, q) /\ Resting(u1, q)  BY <1>2, <1>3, <1>4, <1>8, PutState
  <2>2. 1 \in Int  OBVIOUS
  <2>3. State(v, T, Q, F, q) /\ Resting(v, q)  BY <1>9, <2>1, <2>2, TellState
  <2> QED  BY <2>3 DEF v, q
<1>10. CASE v = Finish(Break(u0, c), s)
  <2>1. State(u0, T, Q, F, q) /\ Resting(u0, q)  BY <1>2, <1>3, <1>4, <1>8, PutState
  <2>2. /\ World(u0, T, T, Q, F) /\ Writes(w, u0, c, r0)
        /\ SameLists(w, u0) /\ SameCounts(w, u0)
        /\ u0.sock_manager = w.sock_manager /\ u0.kernel = w.kernel
    BY <1>1, <1>2, <1>3, <1>8, PutWorld
  <2>3. Info(u0, s) = c  BY <1>8, <2>2 DEF Info
  <2> DEFINE u == Break(u0, c)
  <2>4. u = Break(u0, c) /\ v = Finish(u, s)  BY <1>10
  <2> HIDE DEF u
  <2>5. u = u \/ u = Tell(u, "get", -1) \/ u = CloseFile(u, c)  OBVIOUS
  <2>6. State(v, T \ {c}, Q, F \cup {c}, q) /\ Resting(v, q)
    BY <2>1, <2>3, <2>4, <2>5, BrokenOff
  <2> QED  BY <2>6 DEF v, q
<1>11. CASE v = Finish(Break(w, c), s)
  <2> DEFINE u == Break(w, c)
  <2>4. u = Break(w, c) /\ v = Finish(u, s)  BY <1>11
  <2> HIDE DEF u
  <2>5. u = u \/ u = Tell(u, "get", -1) \/ u = CloseFile(u, c)  OBVIOUS
  <2>6. State(v, T \ {c}, Q, F \cup {c}, q) /\ Resting(v, q)
    BY <1>8, <2>4, <2>5, BrokenOff
  <2> QED  BY <2>6 DEF v, q
<1> QED  BY <1>7, <1>9, <1>10, <1>11

\* nap_getfile().
LEMMA NapGetfileKept ==
    ASSUME NEW T, NEW Q, NEW F, State(mem, T, Q, F, asked), NEW s \in Fd, NapGetfile(s)
    PROVE  Resting(mem', asked')
<1> DEFINE w == mem
           v == mem'
           q == asked
           c == Info(w, s)
           kind == "get"
<1>1. World(w, T, T, Q, F)  BY StateParts
<1>2. s \in Reading("nap_getfile") /\ asked' = q  BY DEF NapGetfile
<1>3. s \in Registered(w.sock_manager) /\ (c # Nil => c \in T)  BY <1>1, <1>2, ReadingIs
<1>4. State(w, T, Q, F, q)  OBVIOUS
<1>5. \/ c = Nil /\ v = Tell(CloseSock(w, s), "get", -1)
      \/ c # Nil /\ ReadHeader(s, c)
      \/ c # Nil /\ LastOfData(s, c)
  BY DEF NapGetfile
<1>6. CASE c = Nil /\ v = Tell(CloseSock(w, s), "get", -1)
  <2> DEFINE u == CloseSock(w, s)
  <2>1. Info(w, s) = Nil /\ u = CloseSock(w, s) /\ v = Tell(u, kind, -1) /\ s \in Fd \cup {-1}
    BY <1>6
  <2> HIDE DEF w, v, q, u, c, kind
  <2>2. /\ World(u, T, T, Q, F) /\ u.gf = w.gf
        /\ u.live = w.live /\ u.gets = w.gets /\ u.sends = w.sends
    BY <1>1, <2>1, CloseSockWorld
  <2>3. State(u, T, Q, F, q) /\ Resting(u, q)  BY <1>4, <2>2, SameRecordsKept
  <2>4. -1 \in Int  OBVIOUS
  <2>5. State(v, T, Q, F, q) /\ Resting(v, q)  BY <2>1, <2>3, <2>4, TellState
  <2> QED  BY <1>2, <2>5 DEF v, q
<1>7. CASE c # Nil /\ ReadHeader(s, c)
  <2>1. c \in T /\ Info(mem, s) = c  BY <1>3, <1>7
  <2> HIDE DEF c
  <2> QED  BY <1>2, <1>7, <2>1, ReadHeaderKept DEF q
<1>8. CASE c # Nil /\ LastOfData(s, c)
  <2> DEFINE u == Break(w, c)
             x == Tell(u, "get", -1)
  <2>1. v = Finish(x, s) /\ c \in T /\ Info(w, s) = c  BY <1>3, <1>8 DEF LastOfData
  <2>2. u = Break(w, c) /\ (x = u \/ x = Tell(u, "get", -1) \/ x = CloseFile(u, c))  OBVIOUS
  <2> HIDE DEF w, v, q, u, x, c
  <2>3. State(v, T \ {c}, Q, F \cup {c}, q) /\ Resting(v, q)
    BY <1>4, <2>1, <2>2, BrokenOff
  <2> QED  BY <1>2, <2>3 DEF v, q
<1> QED  BY <1>5, <1>6, <1>7, <1>8

\* A handler drops the record in hand, which has no connection: it is on no list.
LEMMA LetGo ==
    ASSUME NEW w, NEW T, NEW Q, NEW F, NEW q, State(w, T, Q, F, q), ~Ordinary,
           NEW c \in T, NEW u, InHand(w, T, Q, F, c, u), u.gf[c].socket = -1,
           NEW s \in Fd \cup {-1}, Info(u, s) = Nil, NEW v, v = Finish(u, s)
    PROVE  State(v, T \ {c}, Q, F, q) /\ Resting(v, q)
<1> DEFINE T1 == T \ {c}
<1>1. World(u, T1, T, Q, F) /\ u.live = w.live
      /\ \A d \in Cell : d # c => Follows(w.gf[d], u.gf[d])
  BY Zenon DEF InHand
<1>2. /\ World(w, T, T, Q, F) /\ T \cap Q = {} /\ w.live \subseteq Cell
      /\ T \cup Q \cup F \subseteq w.live
  BY StateParts
<1>3. c \in T \ T1 /\ T1 \subseteq T /\ T \ {c} = T1 /\ Q \subseteq Q /\ c # Nil
  BY <1>2, CellAssumption
<1> HIDE DEF T1
<1>4. World(v, T1, T, Q, F) /\ v.gf = u.gf
      /\ v.live = u.live /\ v.gets = u.gets /\ v.sends = u.sends
  BY <1>1, FinishNone
<1>5. \A t \in Fd : v.sock_manager.slot[t].info # c
  <2>1. Wired(v.sock_manager, v.gf, v.kernel, T)  BY <1>4, WorldParts
  <2>2. v.gf[c].socket = -1  BY <1>4
  <2>3. \A t \in Fd : v.sock_manager.slot[t].info = c => v.gf[c].socket = t
    BY <1>3, <2>1, Zenon DEF Wired
  <2> QED  BY <2>2, <2>3, FdFinite
<1>6. World(v, T1, T \ {c}, Q, F)  BY <1>3, <1>4, <1>5, WorldDropped
<1>7. World(v, T1, T1, Q, F)  BY <1>3, <1>6
<1>8. ASSUME NEW d \in T1 \cup Q PROVE Follows(w.gf[d], v.gf[d])
  <2>1. d \in Cell /\ d # c  BY <1>2, <1>3
  <2> QED  BY <1>1, <1>4, <2>1
<1>9. State(v, T1, Q, F, q) /\ Resting(v, q)
  <2>1. Ordinary => v.live \subseteq T1 \cup Q \cup F  OBVIOUS
  <2> QED  BY <1>3, <1>7, <1>8, <2>1, StateFrame
<1> QED  BY <1>9 DEF T1

\* ... after closing its file.
LEMMA ClosedAndLetGo ==
    ASSUME NEW w, NEW T, NEW Q, NEW F, NEW q, State(w, T, Q, F, q), ~Ordinary,
           NEW c \in T, w.gf[c].socket = -1, NEW s \in Fd \cup {-1}, Info(w, s) = Nil,
           NEW v, v = Finish(CloseFile(Break(w, c), c), s)
    PROVE  State(v, T \ {c}, Q, F, q) /\ Resting(v, q)
<1> DEFINE b == Break(w, c)
           u == CloseFile(b, c)
<1>1. b = Break(w, c) /\ u = CloseFile(b, c) /\ v = Finish(u, s)  OBVIOUS
<1> HIDE DEF b, u
<1>2. World(w, T, T, Q, F) /\ c \in Cell  BY StateParts
<1>3. InHand(w, T, Q, F, c, b) /\ b.sock_manager = w.sock_manager
      /\ SameData(w.gf, b.gf)
  BY <1>1, <1>2, BreakInHand
<1>4. /\ InHand(w, T, Q, F, c, u) /\ u.sock_manager = b.sock_manager
      /\ u.gf[c].socket = b.gf[c].socket
  BY <1>1, <1>2, <1>3, CloseFileInHand
<1>5. u.gf[c].socket = -1  BY <1>2, <1>3, <1>4, Zenon DEF SameData
<1>6. Info(u, s) = Nil  BY <1>3, <1>4 DEF Info
<1> QED  BY <1>1, <1>4, <1>5, <1>6, LetGo

\* No descriptor is no socket.
LEMMA InfoOfNone ==
    ASSUME NEW w
    PROVE  Info(w, -1) = Nil
<1>1. ~CheckSocket(w.sock_manager, -1)  BY FdFinite DEF CheckSocket
<1> QED  BY <1>1 DEF Info, GetSocketInfo

\* A record of transfer_struct and its descriptor.
LEMMA SocketIs ==
    ASSUME NEW w, NEW T, NEW Q, NEW F, World(w, T, T, Q, F), NEW c \in T,
           NEW s, s = w.gf[c].socket
    PROVE  s = -1 \/ (s \in Fd /\ Info(w, s) = c)
<1>1. Wired(w.sock_manager, w.gf, w.kernel, T)  BY WorldParts
<1>2. s # -1 => s \in Fd /\ w.sock_manager.slot[s].info = c
  BY <1>1, Zenon DEF Wired
<1>3. ASSUME s # -1 PROVE Info(w, s) = c
  <2>1. s \in Fd  BY <1>2, <1>3
  <2>2. Info(w, s) = w.sock_manager.slot[s].info  BY <2>1, InfoWorld
  <2> QED  BY <1>2, <1>3, <2>2
<1> QED  BY <1>2, <1>3

\* cmd_accepterror().
LEMMA CmdAccepterrorKept ==
    ASSUME NEW T, NEW Q, NEW F, State(mem, T, Q, F, asked), NEW k \in Key, CmdAccepterror(k)
    PROVE  Resting(mem', asked')
<1> DEFINE w == mem
           v == mem'
           q == asked
           kind == "send"
           c == Find(w, k, kind)
           b == Break(w, c)
           u == CloseFile(b, c)
           s == w.gf[c].socket
<1>1. World(w, T, T, Q, F)  BY StateParts
<1>2. asked' = q /\ "accept" \in Happens /\ c # Nil /\ v = Finish(u, s)
  BY DEF CmdAccepterror
<1>3. State(w, T, Q, F, q) /\ b = Break(w, c) /\ u = CloseFile(b, c) /\ s = w.gf[c].socket
  OBVIOUS
<1> HIDE DEF w, v, q, b, u, s, kind
<1>4. c \in T
  <2>1. c = Find(w, k, kind)  OBVIOUS
  <2> HIDE DEF c
  <2>2. c # Nil => c \in T /\ w.gf[c].key = k /\ w.gf[c].kind = kind  BY <1>1, <2>1, FindIn
  <2> QED  BY <1>2, <2>2
<1> HIDE DEF c
<1>5. s = -1 \/ (s \in Fd /\ Info(w, s) = c)  BY <1>1, <1>3, <1>4, SocketIs
<1>6. CASE s # -1
  <2>1. s \in Fd /\ Info(w, s) = c  BY <1>5, <1>6
  <2>2. u = b \/ u = Tell(b, "get", -1) \/ u = CloseFile(b, c)  BY <1>3
  <2>3. State(v, T \ {c}, Q, F \cup {c}, q) /\ Resting(v, q)
    BY <1>2, <1>3, <1>4, <2>1, <2>2, BrokenOff
  <2> QED  BY <1>2, <2>3 DEF v, q
<1>7. CASE s = -1
  <2>1. Info(w, s) = Nil /\ s \in Fd \cup {-1}  BY <1>7, InfoOfNone
  <2>2. ~Ordinary  BY <1>2 DEF Ordinary
  <2>3. v = Finish(CloseFile(Break(w, c), c), s) /\ w.gf[c].socket = -1  BY <1>2, <1>3, <1>7
  <2>4. State(v, T \ {c}, Q, F, q) /\ Resting(v, q)
    BY <1>3, <1>4, <2>1, <2>2, <2>3, ClosedAndLetGo
  <2> QED  BY <1>2, <2>4 DEF v, q
<1> QED  BY <1>6, <1>7

\* A record on no list and of no socket may be written to.
LEMMA WorldOutside ==
    ASSUME NEW w, NEW T, NEW U, NEW Q, NEW F, World(w, T, U, Q, F), NEW c \in Cell,
           c \notin U, c \notin Q, c \notin F, NEW r \in GetFile, NEW v, v = Put(w, c, r)
    PROVE  /\ World(v, T, U, Q, F) /\ Writes(w, v, c, r)
           /\ v.live = w.live /\ v.sock_manager = w.sock_manager
<1>1. /\ w \in Worlds /\ DoubleChain(w.gf, w.transfer_struct, T)
      /\ DoubleChain(w.gf, w.Queued, Q) /\ Chain(w.gf, w.finished_struct, F)
      /\ T \subseteq U /\ U \cap Q = {} /\ U \cap F = {} /\ Q \cap F = {}
      /\ U \cup Q \cup F \subseteq w.live
      /\ Wired(w.sock_manager, w.gf, w.kernel, U)
      /\ Silent(w.gf, Q \cup F) /\ Kept(w.gf, U \cup Q)
  BY DEF World
<1>2. w.live \subseteq Cell  BY <1>1 DEF Worlds
<1>3. /\ v \in Worlds /\ Writes(w, v, c, r)
      /\ v.live = w.live /\ v.transfer_struct = w.transfer_struct /\ v.Queued = w.Queued
      /\ v.finished_struct = w.finished_struct /\ v.sock_manager = w.sock_manager
      /\ v.kernel = w.kernel /\ v.gets = w.gets /\ v.sends = w.sends
  BY <1>1, Rewritten
<1>4. \A d \in Cell : d # c => v.gf[d] = w.gf[d]  BY <1>3, Zenon DEF Writes
<1>5. \A d \in U \cup Q \cup F : d \in Cell /\ v.gf[d] = w.gf[d]  BY <1>1, <1>2, <1>4
<1>6. T \subseteq Cell /\ Q \subseteq Cell /\ F \subseteq Cell
      /\ \A d \in T \cup Q \cup F : v.gf[d].next = w.gf[d].next /\ v.gf[d].prev = w.gf[d].prev
  BY <1>1, <1>2, <1>5
<1>7. /\ DoubleChain(v.gf, v.transfer_struct, T) /\ DoubleChain(v.gf, v.Queued, Q)
      /\ Chain(v.gf, v.finished_struct, F)
  <2>1. /\ \A d \in T : v.gf[d].next = w.gf[d].next /\ v.gf[d].prev = w.gf[d].prev
        /\ \A d \in Q : v.gf[d].next = w.gf[d].next /\ v.gf[d].prev = w.gf[d].prev
        /\ \A d \in F : v.gf[d].next = w.gf[d].next
    BY <1>6
  <2>2. DoubleChain(v.gf, w.transfer_struct, T)  BY <1>1, <2>1, ChainFrame
  <2>3. DoubleChain(v.gf, w.Queued, Q)  BY ZenonT(60), <1>1, <2>1, ChainFrame
  <2>4. Chain(v.gf, w.finished_struct, F)  BY <1>1, <2>1, ChainFrame
  <2> QED  BY <1>3, <2>2, <2>3, <2>4
<1>8. Wired(v.sock_manager, v.gf, v.kernel, U)
  <2>1. \A d \in U : v.gf[d].socket = w.gf[d].socket  BY <1>5
  <2> QED  BY <1>1, <1>3, <2>1, WiredFrame
<1>9. Silent(v.gf, Q \cup F)  BY <1>1, <1>5 DEF Silent
<1>10. Kept(v.gf, U \cup Q)  BY <1>1, <1>5, Zenon DEF Kept
<1> QED  BY <1>1, <1>3, <1>7, <1>8, <1>9, <1>10, Zenon DEF World

\* A record without a connection is given a descriptor no slot leads back from,
\* and taken off the list.
Shed(w, T, Q, F, c, v) ==
    /\ World(v, T \ {c}, T \ {c}, Q, F) /\ v.live = w.live
    /\ v.sock_manager = w.sock_manager
    /\ \A d \in Cell : d # c => Follows(w.gf[d], v.gf[d])

\* The list is as if it had never been there.
LEMMA WrittenAndBroken ==
    ASSUME NEW w, NEW T, NEW Q, NEW F, World(w, T, T, Q, F), NEW c \in T,
           w.gf[c].socket = -1, NEW r \in GetFile, SameLink(w.gf[c], r),
           NEW x, x = Put(w, c, r), NEW v, v = Break(x, c)
    PROVE  Shed(w, T, Q, F, c, v)
<1>1. /\ w \in Worlds /\ DoubleChain(w.gf, w.transfer_struct, T)
      /\ DoubleChain(w.gf, w.Queued, Q) /\ Chain(w.gf, w.finished_struct, F)
      /\ T \cap Q = {} /\ T \cap F = {} /\ Q \cap F = {}
      /\ T \cup Q \cup F \subseteq w.live
      /\ Wired(w.sock_manager, w.gf, w.kernel, T)
      /\ Silent(w.gf, Q \cup F) /\ Kept(w.gf, T \cup Q)
  BY DEF World
<1>2. w.live \subseteq Cell /\ w.gf \in [Cell -> GetFile]  BY <1>1 DEF Worlds
<1>3. T \subseteq Cell /\ Q \subseteq Cell /\ F \subseteq Cell /\ c \in Cell  BY <1>1, <1>2
<1>4. /\ x \in Worlds /\ Writes(w, x, c, r)
      /\ x.live = w.live /\ x.transfer_struct = w.transfer_struct /\ x.Queued = w.Queued
      /\ x.finished_struct = w.finished_struct /\ x.sock_manager = w.sock_manager
      /\ x.kernel = w.kernel /\ x.gets = w.gets /\ x.sends = w.sends
  BY <1>1, <1>3, Rewritten
<1>5. x.gf[c] = r /\ \A d \in Cell : d # c => x.gf[d] = w.gf[d]  BY <1>4, Zenon DEF Writes
<1>6. \A d \in Cell : x.gf[d].next = w.gf[d].next /\ x.gf[d].prev = w.gf[d].prev
  BY <1>5 DEF SameLink
<1>7. /\ DoubleChain(x.gf, x.transfer_struct, T) /\ DoubleChain(x.gf, x.Queued, Q)
      /\ Chain(x.gf, x.finished_struct, F)
  <2>1. \A d \in T : x.gf[d].next = w.gf[d].next /\ x.gf[d].prev = w.gf[d].prev
    BY <1>3, <1>6
  <2>2. \A d \in Q : x.gf[d].next = w.gf[d].next /\ x.gf[d].prev = w.gf[d].prev
    BY <1>3, <1>6
  <2>3. \A d \in F : x.gf[d].next = w.gf[d].next  BY <1>3, <1>6
  <2> DEFINE g == w.gf
             h == x.gf
             first == w.transfer_struct
             second == w.Queued
             third == w.finished_struct
  <2>4. DoubleChain(g, first, T) /\ DoubleChain(g, second, Q) /\ Chain(g, third, F)
    BY <1>1
  <2> HIDE DEF g, h, first, second, third
  <2>5. DoubleChain(h, first, T)
    <3>1. \A d \in T : h[d].next = g[d].next /\ h[d].prev = g[d].prev  BY <2>1 DEF g, h
    <3> QED  BY <2>4, <3>1, ChainFrame
  <2>6. DoubleChain(h, second, Q)
    <3>1. \A d \in Q : h[d].next = g[d].next /\ h[d].prev = g[d].prev  BY <2>2 DEF g, h
    <3> QED  BY <2>4, <3>1, ChainFrame
  <2>7. Chain(h, third, F)
    <3>1. \A d \in F : h[d].next = g[d].next  BY <2>3 DEF g, h
    <3> QED  BY <2>4, <3>1, ChainFrame
  <2> QED  BY <1>4, <2>5, <2>6, <2>7 DEF h, first, second, third
<1> DEFINE h == Unlink(x.gf, x.transfer_struct, c).gf
           first == Unlink(x.gf, x.transfer_struct, c).head
<1>8. v = [x EXCEPT !.gf = h, !.transfer_struct = first]  BY DEF Break
<1>9. x.gf \in [Cell -> GetFile]  BY <1>4 DEF Worlds
<1> HIDE DEF h, first
<1>10. /\ h \in [Cell -> GetFile] /\ SameData(x.gf, h) /\ SameLinks(x.gf, h, T)
       /\ DoubleChain(h, first, T \ {c})
  BY <1>7, <1>9, UnlinkChain DEF h, first
<1>11. first \in Cell \cup {Nil}  BY <1>10 DEF DoubleChain, Chain
<1>12. /\ v \in Worlds /\ v.gf = h /\ v.transfer_struct = first /\ v.live = w.live
       /\ v.sock_manager = w.sock_manager /\ v.kernel = w.kernel /\ v.Queued = x.Queued
       /\ v.finished_struct = x.finished_struct
  BY <1>4, <1>8, <1>10, <1>11 DEF Worlds
<1>13. Q \subseteq Cell \ T /\ F \subseteq Cell \ T  BY <1>1, <1>3
<1>14. DoubleChain(h, x.Queued, Q) /\ Chain(h, x.finished_struct, F)
  BY <1>7, <1>9, <1>10, <1>13, ChainFrame DEF SameLinks
<1>15. ASSUME NEW d \in Cell, d # c PROVE SameRecord(w.gf[d], h[d])
                                           /\ h[d].deleted = w.gf[d].deleted
  <2>1. x.gf[d] = w.gf[d]  BY <1>5, <1>15
  <2> QED  BY <1>10, <2>1, ZenonT(40) DEF SameData, SameRecord
<1>16. \A d \in Cell : d # c => h[d].socket = w.gf[d].socket
                               /\ h[d].deleted = w.gf[d].deleted
                               /\ Follows(w.gf[d], h[d])
  BY <1>15, FollowsOf, Zenon DEF SameRecord
<1> DEFINE T1 == T \ {c}
<1>17. T1 \subseteq Cell \ {c} /\ Q \subseteq Cell \ {c} /\ F \subseteq Cell \ {c}
  BY <1>1, <1>3
<1>18. Wired(w.sock_manager, h, w.kernel, T1)
  <2>1. c # Nil  BY <1>3, CellAssumption
  <2>2. \A t \in Fd : w.sock_manager.slot[t].info = c => w.gf[c].socket = t
    BY <1>1, <2>1, Zenon DEF Wired
  <2>3. \A t \in Fd : w.sock_manager.slot[t].info # c  BY <2>2, FdFinite
  <2>4. Wired(w.sock_manager, w.gf, w.kernel, T1)  BY <1>1, <2>3 DEF Wired
  <2>5. \A d \in T1 : h[d].socket = w.gf[d].socket  BY <1>16, <1>17
  <2> QED  BY <2>4, <2>5, WiredFrame
<1>19. Silent(h, Q \cup F)  BY <1>1, <1>16, <1>17 DEF Silent
<1>20. Kept(h, T1 \cup Q)
  <2>1. \A d \in T1 \cup Q : d \in T \cup Q /\ d \in Cell /\ d # c  BY <1>17
  <2>2. \A d \in T \cup Q : ~w.gf[d].deleted  BY <1>1, Zenon DEF Kept
  <2> QED  BY <1>16, <2>1, <2>2, Zenon DEF Kept
<1>21. /\ T1 \subseteq T1 /\ T1 \cap Q = {} /\ T1 \cap F = {}
       /\ T1 \cup Q \cup F \subseteq v.live
  BY <1>1, <1>12
<1>22. World(v, T1, T1, Q, F)
  BY <1>1, <1>10, <1>12, <1>14, <1>18, <1>19, <1>20, <1>21, Zenon DEF World
<1> QED  BY <1>12, <1>16, <1>22, Zenon DEF Shed

\* What is left when a handler shed the record c and closes the socket s.
LEMMA ShedKept ==
    ASSUME NEW w, NEW T, NEW Q, NEW F, NEW q, State(w, T, Q, F, q), ~Ordinary,
           NEW c \in T, NEW u, Shed(w, T, Q, F, c, u), NEW s \in Fd, Info(w, s) = Nil,
           NEW v, v = Finish(u, s)
    PROVE  State(v, T \ {c}, Q, F, q) /\ Resting(v, q)
<1> DEFINE T1 == T \ {c}
<1>1. World(u, T1, T1, Q, F) /\ u.live = w.live /\ u.sock_manager = w.sock_manager
      /\ \A d \in Cell : d # c => Follows(w.gf[d], u.gf[d])
  BY Zenon DEF Shed
<1>2. T \cap Q = {} /\ w.live \subseteq Cell /\ T \cup Q \cup F \subseteq w.live
  BY StateParts
<1>3. T1 \subseteq T /\ Q \subseteq Q /\ \A d \in T1 \cup Q : d \in Cell /\ d # c  BY <1>2
<1>4. Info(u, s) = Nil  BY <1>1 DEF Info
<1> HIDE DEF T1
<1>5. World(v, T1, T1, Q, F) /\ v.gf = u.gf
      /\ v.live = u.live /\ v.gets = u.gets /\ v.sends = u.sends
  BY <1>1, <1>4, FinishNone
<1>6. \A d \in T1 \cup Q : Follows(w.gf[d], v.gf[d])  BY <1>1, <1>3, <1>5
<1>7. State(v, T1, Q, F, q) /\ Resting(v, q)
  <2>1. Ordinary => v.live \subseteq T1 \cup Q \cup F  OBVIOUS
  <2> QED  BY <1>3, <1>5, <1>6, <2>1, StateFrame
<1> QED  BY <1>7 DEF T1

\* close_socketread() by a handler whose socket is of no record.
LEMMA ClosedKept ==
    ASSUME NEW w, NEW T, NEW Q, NEW F, NEW q, State(w, T, Q, F, q),
           NEW s \in Fd, Info(w, s) = Nil, NEW v, v = CloseSock(w, s) \/ v = Finish(w, s)
    PROVE  State(v, T, Q, F, q) /\ Resting(v, q)
<1>1. World(w, T, T, Q, F) /\ s \in Fd \cup {-1}  BY StateParts
<1>2. CASE v = CloseSock(w, s)
  <2>1. /\ World(v, T, T, Q, F) /\ v.gf = w.gf
        /\ v.live = w.live /\ v.gets = w.gets /\ v.sends = w.sends
    BY <1>1, <1>2, CloseSockWorld
  <2> QED  BY <2>1, SameRecordsKept
<1>3. CASE v = Finish(w, s)
  <2>1. World(v, T, T, Q, F) /\ v.gf = w.gf
        /\ v.live = w.live /\ v.gets = w.gets /\ v.sends = w.sends
    BY <1>1, <1>3, FinishNone
  <2> QED  BY <2>1, SameRecordsKept
<1> QED  BY <1>2, <1>3

\* The next read of a socket goes to f.
LEMMA ReadKept ==
    ASSUME NEW w, NEW T, NEW Q, NEW F, NEW q, State(w, T, Q, F, q),
           NEW s \in Registered(w.sock_manager), Info(w, s) = Nil, NEW f \in Handlers,
           NEW v, v = SetRead(w, s, f)
    PROVE  State(v, T, Q, F, q) /\ Resting(v, q) /\ Info(v, s) = Nil
<1>1. World(w, T, T, Q, F)  BY StateParts
<1>2. /\ World(v, T, T, Q, F) /\ v.gf = w.gf /\ SameLists(w, v) /\ SameCounts(w, v)
      /\ s \in Registered(v.sock_manager) /\ Info(v, s) = Info(w, s)
      /\ v.sock_manager.slot[s].func_read = f
  BY <1>1, ReadWorld
<1>3. v.live = w.live  BY <1>2 DEF SameLists
<1>4. State(v, T, Q, F, q) /\ Resting(v, q)  BY <1>2, <1>3, SameRecordsKept
<1> QED  BY <1>2, <1>4

\* A descriptor is open before it is registered.
LEMMA OpenedWorld ==
    ASSUME NEW w, NEW T, NEW U, NEW Q, NEW F, World(w, T, U, Q, F), NEW s \in FreeFd(w),
           ~Tight, NEW v, v = Opened(w, s)
    PROVE  /\ World(v, T, U, Q, F) /\ v.gf = w.gf /\ v.live = w.live
           /\ s \in Fd /\ Info(v, s) = Nil
<1>1. w \in Worlds /\ w.kernel \subseteq Fd /\ Wired(w.sock_manager, w.gf, w.kernel, U)
  BY WorldParts
<1>2. s \in Fd /\ s \notin w.kernel  BY DEF FreeFd
<1> DEFINE K == w.kernel \cup {s}
<1>3. K \in SUBSET Fd  BY <1>1, <1>2
<1>4. v = [w EXCEPT !.kernel = K]  BY DEF Opened
<1>5. Wired(w.sock_manager, w.gf, K, U)  BY <1>1 DEF Wired
<1> HIDE DEF K
<1>6. /\ v \in Worlds /\ v.gf = w.gf /\ SameLists(w, v) /\ v.live = w.live
      /\ v.sock_manager = w.sock_manager /\ v.kernel = K
  BY <1>1, <1>3, <1>4 DEF Worlds, SameLists
<1>7. World(v, T, U, Q, F)  BY <1>5, <1>6, WorldSameRecords
<1>8. w.sock_manager.slot[s].info = Nil  BY <1>1, <1>2 DEF Wired
<1>9. Info(v, s) = Nil  BY <1>2, <1>6, <1>7, <1>8, InfoWorld
<1> QED  BY <1>2, <1>6, <1>7, <1>9

\* naplink_handlelink().
LEMMA NaplinkHandlelinkKept ==
    ASSUME NEW T, NEW Q, NEW F, State(mem, T, Q, F, asked), NaplinkHandlelink
    PROVE  Resting(mem', asked')
<1> DEFINE w == mem
           v == mem'
           q == asked
           f == "naplink_handleconnect"
           Failed(s) == ~Tight /\ v = CloseSock(Opened(w, s), s)
<1>1. World(w, T, T, Q, F)  BY StateParts
<1>2. PICK s \in FreeFd(w) : v = AddRead(Opened(w, s), s, f) \/ Failed(s)
  BY DEF NaplinkHandlelink, Ungreeted, Tight
<1>3. asked' = q  BY DEF NaplinkHandlelink
<1>4. State(w, T, Q, F, q) /\ f \in Handlers  BY DEF Handlers
<1> HIDE DEF w, v, q, f
<1>5. ASSUME v = AddRead(Opened(w, s), s, f) PROVE Resting(v, q)
  <2>1. /\ World(v, T, T, Q, F) /\ v.gf = w.gf /\ SameLists(w, v) /\ SameCounts(w, v)
        /\ s \in Registered(v.sock_manager) /\ Info(v, s) = Nil
        /\ v.sock_manager.slot[s].func_read = f
    BY <1>1, <1>4, <1>5, NewWorld
  <2>2. v.live = w.live  BY <2>1 DEF SameLists
  <2> QED  BY <1>4, <2>1, <2>2, SameRecordsKept
<1>6. ASSUME Failed(s) PROVE Resting(v, q)
  <2> DEFINE u == Opened(w, s)
  <2>1. /\ World(u, T, T, Q, F) /\ u.gf = w.gf /\ u.live = w.live
        /\ s \in Fd /\ Info(u, s) = Nil
    BY <1>1, <1>6, OpenedWorld
  <2>2. v = CloseSock(u, s)  BY <1>6
  <2> HIDE DEF u
  <2>3. State(u, T, Q, F, q)  BY <1>4, <2>1, SameRecordsKept
  <2> QED  BY <2>1, <2>2, <2>3, ClosedKept
<1>7. Resting(v, q)  BY <1>2, <1>5, <1>6
<1> QED  BY <1>3, <1>7 DEF v, q

\* naplink_handleconnect().
LEMMA NaplinkHandleconnectKept ==
    ASSUME NEW T, NEW Q, NEW F, State(mem, T, Q, F, asked), Happens \subseteq Covered,
           NEW s \in Fd, NaplinkHandleconnect(s)
    PROVE  Resting(mem', asked')
<1> DEFINE w == mem
           v == mem'
           q == asked
           f == "nap_firewall_start"
           f1 == "napfile_read"
           f2 == "nap_firewall_get"
           u == SetRead(w, s, f)
<1>1. World(w, T, T, Q, F)  BY StateParts
<1>2. s \in Reading("naplink_handleconnect") /\ asked' = q  BY DEF NaplinkHandleconnect
<1>3. s \in Registered(w.sock_manager) /\ Info(w, s) = Nil
  <2>1. "naplink_handleconnect" \in Early  BY DEF Early
  <2> QED  BY <1>1, <1>2, <2>1, ReadingIs
<1>4. State(w, T, Q, F, q) /\ u = SetRead(w, s, f)
      /\ f \in Handlers /\ f1 \in Handlers /\ f2 \in Handlers
  BY DEF Handlers
<1>5. \/ Info(u, s) = Nil /\ v = CloseSock(u, s)
      \/ Info(u, s) # Nil
      \/ v = SetRead(w, s, f1)
      \/ v = SetRead(w, s, f2)
      \/ v = CloseSock(w, s)
  BY DEF NaplinkHandleconnect, FirewallStart
<1> HIDE DEF w, v, q, f, f1, f2, u
<1>6. State(u, T, Q, F, q) /\ Resting(u, q) /\ Info(u, s) = Nil  BY <1>3, <1>4, ReadKept
<1>7. CASE v = CloseSock(u, s)
  <2>1. State(v, T, Q, F, q) /\ Resting(v, q)  BY <1>6, <1>7, ClosedKept
  <2> QED  BY <1>2, <2>1 DEF v, q
<1>8. CASE v = SetRead(w, s, f1)
  <2>1. State(v, T, Q, F, q) /\ Resting(v, q) /\ Info(v, s) = Nil
    BY <1>3, <1>4, <1>8, ReadKept
  <2> QED  BY <1>2, <2>1 DEF v, q
<1>9. CASE v = SetRead(w, s, f2)
  <2>1. State(v, T, Q, F, q) /\ Resting(v, q) /\ Info(v, s) = Nil
    BY <1>3, <1>4, <1>9, ReadKept
  <2> QED  BY <1>2, <2>1 DEF v, q
<1>10. CASE v = CloseSock(w, s)
  <2>1. State(v, T, Q, F, q) /\ Resting(v, q)  BY <1>3, <1>4, <1>10, ClosedKept
  <2> QED  BY <1>2, <2>1 DEF v, q
<1> QED  BY <1>5, <1>6, <1>7, <1>8, <1>9, <1>10

\* napfile_sendfile(), called by itself and by the handlers that come before it.
LEMMA SendFileKept ==
    ASSUME NEW w, NEW T, NEW Q, NEW F, NEW q, State(w, T, Q, F, q), NEW s \in Fd,
           NEW v \in SendFile(w, s)
    PROVE  Resting(v, q)
<1> DEFINE c == Info(w, s)
           b == Break(w, c)
           x == CloseFile(b, c)
           y == Finish(x, s)
           kind == "send"
<1>1. World(w, T, T, Q, F)  BY StateParts
<1>2. c # Nil => c \in T /\ ~w.gf[c].deleted  BY <1>1, InfoWorld
<1>3. \/ c = Nil /\ v = Finish(w, s)
      \/ c # Nil /\ v = w
      \/ c # Nil /\ v = Tell(y, kind, -1)
  BY <1>2 DEF SendFile, EndOfFile
<1>4. b = Break(w, c) /\ x = CloseFile(b, c) /\ y = Finish(x, s) /\ Info(w, s) = c  OBVIOUS
<1> HIDE DEF c, b, x, y, kind
<1>5. CASE c = Nil /\ v = Finish(w, s)
  <2>1. State(v, T, Q, F, q) /\ Resting(v, q)  BY <1>4, <1>5, ClosedKept
  <2> QED  BY <2>1
<1>6. CASE v = w
  BY <1>6, Zenon DEF Resting
<1>7. CASE c # Nil /\ v = Tell(y, kind, -1)
  <2>1. x = b \/ x = Tell(b, "get", -1) \/ x = CloseFile(b, c)  BY <1>4
  <2>2. State(y, T \ {c}, Q, F \cup {c}, q) /\ Resting(y, q)
    BY <1>2, <1>4, <1>7, <2>1, BrokenOff
  <2> DEFINE T1 == T \ {c}
             F1 == F \cup {c}
  <2>3. State(y, T1, Q, F1, q)  BY <2>2
  <2> HIDE DEF T1, F1
  <2>4. -1 \in Int  OBVIOUS
  <2>5. State(v, T1, Q, F1, q) /\ Resting(v, q)  BY <1>7, <2>3, <2>4, TellState
  <2> QED  BY <2>5
<1> QED  BY <1>3, <1>5, <1>6, <1>7

\* napfile_sendfile().
LEMMA NapfileSendfileKept ==
    ASSUME NEW T, NEW Q, NEW F, State(mem, T, Q, F, asked), NEW s \in Fd, NapfileSendfile(s)
    PROVE  Resting(mem', asked')
<1> DEFINE w == mem
           v == mem'
           q == asked
<1>1. v \in SendFile(w, s) /\ State(w, T, Q, F, q) /\ asked' = q  BY DEF NapfileSendfile
<1> HIDE DEF w, v, q
<1>2. Resting(v, q)  BY <1>1, SendFileKept
<1> QED  BY <1>1, <1>2 DEF v, q

\* A record begins to be sent: the handlers before napfile_sendfile() end in it.
Begun(w, c) == [w EXCEPT !.gf[c].started = TRUE]

\* What is sent, or ended at once, leaves a state.
LEMMA BeginSending ==
    ASSUME NEW w, NEW T, NEW Q, NEW F, NEW q, State(w, T, Q, F, q),
           NEW s \in Registered(w.sock_manager), s \in Fd, NEW c, c = Info(w, s), c # Nil,
           NEW f \in Handlers, f \notin Early,
           NEW v \in SendFile(SetBoth(Begun(w, c), s, f), s)
    PROVE  Resting(v, q)
<1>1. World(w, T, T, Q, F) /\ w.gf \in [Cell -> GetFile] /\ w \in Worlds
      /\ T \cup Q \cup F \subseteq w.live /\ w.live \subseteq Cell
  BY StateParts
<1>2. c \in T  BY <1>1, InfoWorld
<1>3. c \in Cell /\ w.gf[c] \in GetFile  BY <1>1, <1>2
<1> DEFINE r == [w.gf[c] EXCEPT !.started = TRUE]
           x == Begun(w, c)
           y == SetBoth(x, s, f)
<1>4. r \in GetFile /\ SamePlace(w.gf[c], r)  BY <1>3 DEF GetFile, SamePlace
<1>5. Follows(w.gf[c], r)
  <2>1. /\ r.key = w.gf[c].key /\ r.kind = w.gf[c].kind /\ r.realfile = w.gf[c].realfile
        /\ r.socket = w.gf[c].socket /\ r.write = w.gf[c].write
    BY <1>3 DEF GetFile
  <2> QED  BY <2>1, Zenon DEF Follows
<1>6. x = Put(w, c, r)
  <2>1. [w EXCEPT !.gf[c].started = TRUE]
          = [w EXCEPT !.gf = [w.gf EXCEPT ![c] = [w.gf[c] EXCEPT !.started = TRUE]]]
    OBVIOUS
  <2> QED  BY <2>1, Zenon DEF Put, Begun
<1>7. v \in SendFile(y, s) /\ y = SetBoth(x, s, f)  OBVIOUS
<1> HIDE DEF r, x, y
<1>8. State(x, T, Q, F, q) /\ Resting(x, q)  BY <1>3, <1>4, <1>5, <1>6, PutState
<1>9. /\ World(x, T, T, Q, F) /\ Writes(w, x, c, r)
      /\ SameLists(w, x) /\ SameCounts(w, x)
      /\ x.sock_manager = w.sock_manager /\ x.kernel = w.kernel
  BY <1>1, <1>3, <1>4, <1>6, PutWorld
<1>10. s \in Registered(x.sock_manager)  BY <1>9
<1>11. /\ World(y, T, T, Q, F) /\ y.gf = x.gf /\ SameLists(x, y) /\ SameCounts(x, y)
       /\ Info(y, s) = Info(x, s)
  BY <1>7, <1>9, <1>10, BothWorld
<1>12. y.live = x.live  BY <1>11 DEF SameLists
<1>13. State(y, T, Q, F, q) /\ Resting(y, q)  BY <1>8, <1>11, <1>12, SameRecordsKept
<1> QED  BY <1>7, <1>13, SendFileKept

\* nap_firewall_start1().
LEMMA NapFirewallStart1Kept ==
    ASSUME NEW T, NEW Q, NEW F, State(mem, T, Q, F, asked), NEW s \in Fd, NapFirewallStart1(s)
    PROVE  Resting(mem', asked')
<1> DEFINE w == mem
           v == mem'
           q == asked
           c == Info(w, s)
           f == "napfile_sendfile"
           b == Break(w, c)
           x == CloseFile(b, c)
<1>1. World(w, T, T, Q, F)  BY StateParts
<1>2. s \in Reading("nap_firewall_start1") /\ asked' = q  BY DEF NapFirewallStart1
<1>3. s \in Registered(w.sock_manager) /\ (c # Nil => c \in T)  BY <1>1, <1>2, ReadingIs
<1>4. State(w, T, Q, F, q) /\ f \in Handlers /\ f \notin Early /\ c = Info(w, s)
      /\ b = Break(w, c) /\ x = CloseFile(b, c)
  BY DEF Handlers, Early
<1>5. \/ c = Nil /\ v = CloseSock(w, s)
      \/ c # Nil /\ v = Finish(x, s)
      \/ c # Nil /\ v \in SendFile(SetBoth(Begun(w, c), s, f), s)
  BY DEF NapFirewallStart1, Begun
<1> HIDE DEF w, v, q, c, f, b, x
<1>6. CASE c = Nil /\ v = CloseSock(w, s)
  <2>1. State(v, T, Q, F, q) /\ Resting(v, q)  BY <1>4, <1>6, ClosedKept
  <2> QED  BY <1>2, <2>1 DEF v, q
<1>7. CASE c # Nil /\ v = Finish(x, s)
  <2>1. c \in T /\ Info(w, s) = c  BY <1>3, <1>4, <1>7
  <2>2. x = b \/ x = Tell(b, "get", -1) \/ x = CloseFile(b, c)  BY <1>4
  <2>3. State(v, T \ {c}, Q, F \cup {c}, q) /\ Resting(v, q)
    BY <1>4, <1>7, <2>1, <2>2, BrokenOff
  <2> QED  BY <1>2, <2>3 DEF v, q
<1>8. CASE c # Nil /\ v \in SendFile(SetBoth(Begun(w, c), s, f), s)
  <2>1. Resting(v, q)  BY <1>3, <1>4, <1>8, BeginSending
  <2> QED  BY <1>2, <2>1 DEF v, q
<1> QED  BY <1>5, <1>6, <1>7, <1>8

\* A record without a connection joins the socket s, which the other side opened:
\* in u the record is written to, and the server told.
LEMMA JoinKept ==
    ASSUME NEW w, NEW T, NEW Q, NEW F, NEW q, State(w, T, Q, F, q),
           NEW s \in Registered(w.sock_manager), Info(w, s) = Nil,
           w.sock_manager.slot[s].func_read \notin Early,
           NEW c \in T, w.gf[c].socket = -1,
           NEW r \in GetFile, SameLink(w.gf[c], r), r.socket = s, Follows(w.gf[c], r),
           NEW u \in Worlds, Writes(w, u, c, r), SameLists(w, u),
           u.sock_manager = w.sock_manager, u.kernel = w.kernel,
           NEW v, v = SetInfo(u, s, c)
    PROVE  State(v, T, Q, F, q) /\ Resting(v, q) /\ s \in Registered(v.sock_manager)
<1>1. /\ World(w, T, T, Q, F) /\ w.sock_manager \in Tables
      /\ T \cup Q \cup F \subseteq w.live /\ w.live \subseteq Cell
      /\ Ordinary => w.live \subseteq T \cup Q \cup F
  BY StateParts, WorldParts
<1>2. c \in Cell /\ c \in Cell \cup {Nil} /\ s \in Registered(u.sock_manager)  BY <1>1
<1>3. /\ v \in Worlds /\ v.gf = u.gf /\ SameLists(u, v) /\ SameCounts(u, v)
      /\ v.sock_manager = SetSocketInfo(u.sock_manager, s, c) /\ v.kernel = u.kernel
  BY <1>2, InfoFields
<1>4. Writes(w, v, c, r)  BY <1>3, Zenon DEF Writes
<1>5. SameLists(w, v)  BY <1>3, Zenon DEF SameLists
<1>6. v.sock_manager = SetSocketInfo(w.sock_manager, s, c) /\ v.kernel = w.kernel  BY <1>3
<1>7. World(v, T, T, Q, F)  BY <1>1, <1>3, <1>4, <1>5, <1>6, JoinWorld
<1>8. v.gf[c] = r /\ \A d \in Cell : d # c => v.gf[d] = w.gf[d]  BY <1>4, Zenon DEF Writes
<1>9. ASSUME NEW d \in T \cup Q PROVE Follows(w.gf[d], v.gf[d])
  <2>1. CASE d = c  BY <1>8, <2>1
  <2>2. CASE d # c
    <3>1. d \in Cell  BY <1>1
    <3>2. v.gf[d] = w.gf[d]  BY <1>8, <2>2, <3>1
    <3> QED  BY <3>2, FollowsOf
  <2> QED  BY <2>1, <2>2
<1>10. Ordinary => v.live \subseteq T \cup Q \cup F  BY <1>1, <1>5 DEF SameLists
<1>11. State(v, T, Q, F, q) /\ Resting(v, q)
  <2>1. T \subseteq T /\ Q \subseteq Q  OBVIOUS
  <2> QED  BY <1>7, <1>9, <1>10, <2>1, StateFrame
<1>12. s \in Registered(v.sock_manager)
  <2> DEFINE m == w.sock_manager
             n == v.sock_manager
  <2>1. m \in Tables /\ n = SetSocketInfo(m, s, c) /\ s \in Registered(m)  BY <1>1, <1>6
  <2> HIDE DEF m, n
  <2>2. /\ n \in Tables /\ Registered(n) = Registered(m) /\ OtherSlots(m, n, s)
        /\ n.slot[s].info = c /\ n.slot[s].func_read = m.slot[s].func_read
    BY <1>2, <2>1, InfoTable
  <2> QED  BY <2>1, <2>2 DEF n
<1> QED  BY <1>11, <1>12

\* napfile_read() for the record found.
LEMMA ServeKept ==
    ASSUME NEW T, NEW Q, NEW F, State(mem, T, Q, F, asked), NEW s \in Fd,
           s \in Reading("napfile_read"), Info(mem, s) = Nil,
           NEW c \in T, mem.gf[c].kind = "send", mem.gf[c].socket = -1, Serve(s, c)
    PROVE  Resting(mem', asked)
<1> DEFINE w == mem
           v == mem'
           q == asked
           f == "napfile_read"
           kind == "send"
           b == Break(w, c)
           r == [w.gf[c] EXCEPT !.socket = s]
           r2 == [b.gf[c] EXCEPT !.socket = s]
           x == Put(w, c, r)
           u == Tell(x, kind, 1)
           y == SetInfo(u, s, c)
           z == Put(b, c, r2)
<1>1. /\ World(w, T, T, Q, F) /\ w.gf \in [Cell -> GetFile] /\ w \in Worlds
      /\ T \cup Q \cup F \subseteq w.live /\ w.live \subseteq Cell
      /\ T \cap Q = {} /\ T \cap F = {}
  BY StateParts
<1>2. c \in Cell /\ w.gf[c] \in GetFile /\ c \notin Q /\ c \notin F  BY <1>1
<1>3. s \in Registered(w.sock_manager) /\ w.sock_manager.slot[s].func_read = f
  BY <1>1, ReadingIs
<1>4. w.sock_manager.slot[s].func_read \notin Early /\ f \notin Early /\ f \in Handlers
  BY <1>3 DEF Early, Handlers
<1>5. x = [w EXCEPT !.gf[c].socket = s]
  <2>1. [w EXCEPT !.gf[c].socket = s]
          = [w EXCEPT !.gf = [w.gf EXCEPT ![c] = [w.gf[c] EXCEPT !.socket = s]]]
    OBVIOUS
  <2> QED  BY <2>1, Zenon DEF Put
<1>6. z = [b EXCEPT !.gf[c].socket = s]
  <2>1. [b EXCEPT !.gf[c].socket = s]
          = [b EXCEPT !.gf = [b.gf EXCEPT ![c] = [b.gf[c] EXCEPT !.socket = s]]]
    OBVIOUS
  <2> QED  BY <2>1, Zenon DEF Put
<1>7. \/ ~w.gf[c].write /\ v = Finish(z, s)
      \/ "offset" \in Happens /\ v = Finish(CloseFile(Break(w, c), c), s)
      \/ v = SetBoth(y, s, f)
  BY <1>5, <1>6, Zenon DEF Serve
<1>8. /\ r \in GetFile /\ SameLink(w.gf[c], r) /\ r.socket = s
      /\ r.key = w.gf[c].key /\ r.kind = w.gf[c].kind /\ r.realfile = w.gf[c].realfile
      /\ r.write = w.gf[c].write
  BY <1>2 DEF GetFile, SameLink
<1>9. Follows(w.gf[c], r)  BY <1>8, Zenon DEF Follows
<1>10. State(w, T, Q, F, q) /\ Info(w, s) = Nil /\ w.gf[c].socket = -1 /\ s \in Fd \cup {-1}
       /\ b = Break(w, c) /\ x = Put(w, c, r) /\ u = Tell(x, kind, 1) /\ y = SetInfo(u, s, c)
       /\ z = Put(b, c, r2) /\ w.gf[c].kind = "send"
  OBVIOUS
<1>a. r2 = [b.gf[c] EXCEPT !.socket = s]  OBVIOUS
<1> HIDE DEF w, v, q, f, kind, b, r, r2, x, u, y, z
<1>11. CASE v = SetBoth(y, s, f)
  <2>1. /\ x \in Worlds /\ Writes(w, x, c, r)
        /\ x.live = w.live /\ x.transfer_struct = w.transfer_struct /\ x.Queued = w.Queued
        /\ x.finished_struct = w.finished_struct /\ x.sock_manager = w.sock_manager
        /\ x.kernel = w.kernel /\ x.gets = w.gets /\ x.sends = w.sends
    BY <1>1, <1>2, <1>8, <1>10, Rewritten
  <2>2. 1 \in Int  OBVIOUS
  <2>3. /\ u \in Worlds /\ u.gf = x.gf /\ SameLists(x, u)
        /\ u.sock_manager = x.sock_manager /\ u.kernel = x.kernel
    BY <1>10, <2>1, <2>2, TellFields
  <2>4. Writes(w, u, c, r)  BY <2>1, <2>3, Zenon DEF Writes
  <2>5. SameLists(w, u)  BY <2>1, <2>3, Zenon DEF SameLists
  <2>6. u.sock_manager = w.sock_manager /\ u.kernel = w.kernel  BY <2>1, <2>3
  <2>7. State(y, T, Q, F, q) /\ Resting(y, q) /\ s \in Registered(y.sock_manager)
    BY <1>3, <1>4, <1>8, <1>9, <1>10, <2>3, <2>4, <2>5, <2>6, JoinKept
  <2>8. World(y, T, T, Q, F)  BY <2>7, StateParts
  <2>9. /\ World(v, T, T, Q, F) /\ v.gf = y.gf /\ SameLists(y, v) /\ SameCounts(y, v)
        /\ Info(v, s) = Info(y, s)
    BY <1>4, <1>11, <2>7, <2>8, BothWorld
  <2>10. v.live = y.live  BY <2>9 DEF SameLists
  <2>11. State(v, T, Q, F, q) /\ Resting(v, q)  BY <2>7, <2>9, <2>10, SameRecordsKept
  <2> QED  BY <2>11 DEF v, q
<1>12. CASE "offset" \in Happens /\ v = Finish(CloseFile(Break(w, c), c), s)
  <2>1. ~Ordinary  BY <1>12 DEF Ordinary
  <2>2. State(v, T \ {c}, Q, F, q) /\ Resting(v, q)  BY <1>10, <1>12, <2>1, ClosedAndLetGo
  <2> QED  BY <2>2 DEF v, q
<1>13. CASE ~w.gf[c].write /\ v = Finish(z, s)
  <2>1. ~Ordinary
    <3> SUFFICES ASSUME Ordinary PROVE FALSE
      OBVIOUS
    <3>1. AllSeen(w, T, Q, F)  BY <1>10 DEF State
    <3>2. w.gf[c].write  BY <1>10, <3>1, Zenon DEF AllSeen
    <3> QED  BY <1>13, <3>2
  <2>2. InHand(w, T, Q, F, c, b) /\ b.sock_manager = w.sock_manager
        /\ SameData(w.gf, b.gf)
    BY <1>1, <1>10, BreakInHand
  <2> DEFINE T1 == T \ {c}
  <2>3. World(b, T1, T, Q, F) /\ b.live = w.live
        /\ \A d \in Cell : d # c => Follows(w.gf[d], b.gf[d])
    BY <2>2, Zenon DEF InHand
  <2>4. c \in T \ T1 /\ T \ {c} = T1 /\ c \notin T1 /\ c # Nil  BY <1>2, CellAssumption
  <2> HIDE DEF T1
  <2>5. \A t \in Fd : b.sock_manager.slot[t].info # c
    <3>1. Wired(w.sock_manager, w.gf, w.kernel, T)  BY <1>1, WorldParts
    <3>2. \A t \in Fd : w.sock_manager.slot[t].info = c => w.gf[c].socket = t
      BY <2>4, <3>1, Zenon DEF Wired
    <3> QED  BY <1>10, <2>2, <3>2, FdFinite
  <2>6. World(b, T1, T \ {c}, Q, F)  BY <2>3, <2>4, <2>5, WorldDropped
  <2>7. World(b, T1, T1, Q, F)  BY <2>4, <2>6
  <2>8. r2 \in GetFile
    <3>1. b.gf \in [Cell -> GetFile]  BY <2>3, WorldParts
    <3>2. b.gf[c] \in GetFile  BY <1>2, <3>1
    <3> QED  BY <1>a, <3>2 DEF GetFile
  <2>9. /\ World(z, T1, T1, Q, F) /\ Writes(b, z, c, r2)
        /\ z.live = b.live /\ z.sock_manager = b.sock_manager
    BY <1>2, <1>10, <2>4, <2>7, <2>8, WorldOutside
  <2>10. \A d \in Cell : d # c => z.gf[d] = b.gf[d]  BY <2>9, Zenon DEF Writes
  <2>11. \A d \in Cell : d # c => Follows(w.gf[d], z.gf[d])  BY <2>3, <2>10
  <2>12. Shed(w, T, Q, F, c, z)
    <3>1. z.live = w.live /\ z.sock_manager = w.sock_manager  BY <2>2, <2>3, <2>9
    <3> QED  BY <2>4, <2>9, <2>11, <3>1, Zenon DEF Shed
  <2>13. State(v, T \ {c}, Q, F, q) /\ Resting(v, q)
    BY <1>10, <1>13, <2>1, <2>12, ShedKept
  <2> QED  BY <2>13 DEF v, q
<1> QED  BY <1>7, <1>11, <1>12, <1>13

\* napfile_read().
LEMMA NapfileReadKept ==
    ASSUME NEW T, NEW Q, NEW F, State(mem, T, Q, F, asked), Happens \subseteq Covered,
           NEW s \in Fd, NapfileRead(s)
    PROVE  Resting(mem', asked')
<1> DEFINE w == mem
           v == mem'
           q == asked
           c == Info(w, s)
           f == "napfile_sendfile"
           kind == "send"
<1>1. World(w, T, T, Q, F)  BY StateParts
<1>2. s \in Reading("napfile_read") /\ asked' = q  BY DEF NapfileRead
<1>3. s \in Registered(w.sock_manager)  BY <1>1, <1>2, ReadingIs
<1>4. State(w, T, Q, F, q) /\ f \in Handlers /\ f \notin Early /\ c = Info(w, s)
  BY DEF Handlers, Early
<1>5. "again" \notin Happens  BY DEF Covered
<1>6. \/ c = Nil /\ v = Finish(w, s)
      \/ /\ c = Nil
         /\ \E k \in Key : /\ Find(w, k, kind) # Nil
                           /\ w.gf[Find(w, k, kind)].socket = -1
                           /\ Serve(s, Find(w, k, kind))
      \/ c # Nil /\ v \in SendFile(SetBoth(Begun(w, c), s, f), s)
  BY <1>5 DEF NapfileRead, Begun
<1>7. CASE c = Nil /\ v = Finish(w, s)
  <2> HIDE DEF w, v, q, c
  <2>1. State(v, T, Q, F, q) /\ Resting(v, q)  BY <1>4, <1>7, ClosedKept
  <2> QED  BY <1>2, <2>1 DEF v, q
<1>8. CASE /\ c = Nil
           /\ \E k \in Key : /\ Find(w, k, kind) # Nil
                             /\ w.gf[Find(w, k, kind)].socket = -1
                             /\ Serve(s, Find(w, k, kind))
  <2>1. PICK k \in Key : /\ Find(w, k, kind) # Nil
                         /\ w.gf[Find(w, k, kind)].socket = -1
                         /\ Serve(s, Find(w, k, kind))
    BY <1>8
  <2> DEFINE d == Find(w, k, kind)
  <2>2. d = Find(w, k, kind)  OBVIOUS
  <2>3. Info(mem, s) = Nil /\ mem.gf[d].socket = -1 /\ Serve(s, d) /\ d # Nil  BY <1>8, <2>1
  <2> HIDE DEF d, c
  <2>4. d \in T /\ w.gf[d].key = k /\ w.gf[d].kind = kind
    <3> HIDE DEF w, kind
    <3>1. d # Nil => d \in T /\ w.gf[d].key = k /\ w.gf[d].kind = kind  BY <1>1, <2>2, FindIn
    <3> QED  BY <2>3, <3>1
  <2>5. Resting(mem', asked)  BY <1>2, <2>3, <2>4, ServeKept
  <2> QED  BY <1>2, <2>5
<1>9. CASE c # Nil /\ v \in SendFile(SetBoth(Begun(w, c), s, f), s)
  <2> HIDE DEF w, v, q, c, f
  <2>1. Resting(v, q)  BY <1>3, <1>4, <1>9, BeginSending
  <2> QED  BY <1>2, <2>1 DEF v, q
<1> QED  BY <1>6, <1>7, <1>8, <1>9

\* nap_firewall_get() for the record found.
LEMMA PushKept ==
    ASSUME NEW T, NEW Q, NEW F, State(mem, T, Q, F, asked), NEW s \in Fd,
           s \in Reading("nap_firewall_get"), NEW c \in T, mem.gf[c].kind = "get",
           Expected(c), Push(s, c)
    PROVE  Resting(mem', asked)
<1> DEFINE w == mem
           v == mem'
           q == asked
           f == "nap_getfile"
           kind == "get"
           r0 == [w.gf[c] EXCEPT !.count = FALSE, !.started = TRUE, !.socket = s]
           r == [r0 EXCEPT !.write = TRUE]
           p0 == Put(w, c, r0)
           p == Put(w, c, r)
           t == Tell(p, kind, 1)
           u == SetRead(t, s, f)
           e == SetRead(w, s, f)
           b == Break(p0, c)
<1>1. /\ World(w, T, T, Q, F) /\ w.gf \in [Cell -> GetFile] /\ w \in Worlds
      /\ T \cup Q \cup F \subseteq w.live /\ w.live \subseteq Cell
  BY StateParts
<1>2. c \in Cell /\ w.gf[c] \in GetFile  BY <1>1
<1>3. s \in Registered(w.sock_manager) /\ Info(w, s) = Nil
  <2>1. "nap_firewall_get" \in Early  BY DEF Early
  <2> QED  BY <1>1, <2>1, ReadingIs
<1>4. f \notin Early /\ f \in Handlers  BY DEF Early, Handlers
<1>5. w.gf[c].realfile /\ w.gf[c].socket = -1  BY DEF Expected
<1>6. p0 = [w EXCEPT !.gf[c].count = FALSE, !.gf[c].started = TRUE, !.gf[c].socket = s]
  <2>1. [w EXCEPT !.gf[c].count = FALSE, !.gf[c].started = TRUE, !.gf[c].socket = s]
          = [w EXCEPT !.gf = [w.gf EXCEPT ![c] =
               [w.gf[c] EXCEPT !.count = FALSE, !.started = TRUE, !.socket = s]]]
    BY <1>1, <1>2 DEF Worlds
  <2> QED  BY <2>1, Zenon DEF Put
<1>7. p = [p0 EXCEPT !.gf[c].write = TRUE]
  <2>1. p0.gf = [w.gf EXCEPT ![c] = r0]  BY <1>1 DEF Put, Worlds
  <2>2. p0.gf[c] = r0  BY <1>1, <1>2, <2>1
  <2>3. [p0 EXCEPT !.gf[c].write = TRUE]
          = [p0 EXCEPT !.gf = [p0.gf EXCEPT ![c] = [p0.gf[c] EXCEPT !.write = TRUE]]]
    OBVIOUS
  <2>4. [p0.gf EXCEPT ![c] = r] = [w.gf EXCEPT ![c] = r]
    <3> HIDE DEF r, r0, p0
    <3> QED  BY <1>1, <1>2, <2>1
  <2>5. [p0 EXCEPT !.gf[c].write = TRUE] = [p0 EXCEPT !.gf = [w.gf EXCEPT ![c] = r]]
    BY <2>2, <2>3, <2>4
  <2> DEFINE g == [w.gf EXCEPT ![c] = r]
             g0 == [w.gf EXCEPT ![c] = r0]
  <2>6. p0 = [w EXCEPT !.gf = g0]  BY DEF Put
  <2> HIDE DEF g, g0
  <2>7. [p0 EXCEPT !.gf = g] = [w EXCEPT !.gf = g]  BY <1>1, <2>6 DEF Worlds
  <2> QED  BY <2>5, <2>7 DEF Put, g
<1>8. \/ v = SetInfo(u, s, c)
      \/ "unopened" \in Happens /\ v = Finish(b, s)
  BY <1>5, <1>6, <1>7, Zenon DEF Push
<1>9. /\ r0 \in GetFile /\ SameLink(w.gf[c], r0)
      /\ r \in GetFile /\ SameLink(w.gf[c], r) /\ r.socket = s
      /\ r.key = w.gf[c].key /\ r.kind = w.gf[c].kind /\ r.realfile = w.gf[c].realfile
      /\ r.write = TRUE
  BY <1>2 DEF GetFile, SameLink
<1>10. Follows(w.gf[c], r)  BY <1>5, <1>9, Zenon DEF Follows
<1>11. State(w, T, Q, F, q) /\ p0 = Put(w, c, r0) /\ p = Put(w, c, r) /\ t = Tell(p, kind, 1)
       /\ u = SetRead(t, s, f) /\ e = SetRead(w, s, f) /\ b = Break(p0, c)
  OBVIOUS
<1> HIDE DEF w, v, q, f, kind, r0, r, p0, p, t, u, e, b
<1>12. CASE v = SetInfo(u, s, c)
  <2>1. State(e, T, Q, F, q) /\ Resting(e, q) /\ Info(e, s) = Nil
    BY <1>3, <1>4, <1>11, ReadKept
  <2>2. /\ World(e, T, T, Q, F) /\ e.gf = w.gf /\ SameLists(w, e) /\ SameCounts(w, e)
        /\ s \in Registered(e.sock_manager) /\ Info(e, s) = Info(w, s)
        /\ e.sock_manager.slot[s].func_read = f
    BY <1>1, <1>3, <1>4, <1>11, ReadWorld
  <2>3. /\ e \in Worlds /\ e.gf = w.gf /\ SameLists(w, e) /\ SameCounts(w, e)
        /\ e.sock_manager = ReadBy(w.sock_manager, s, f) /\ e.kernel = w.kernel
    BY <1>1, <1>3, <1>4, <1>11, ReadFields
  <2>4. /\ p \in Worlds /\ Writes(w, p, c, r)
        /\ p.live = w.live /\ p.transfer_struct = w.transfer_struct /\ p.Queued = w.Queued
        /\ p.finished_struct = w.finished_struct /\ p.sock_manager = w.sock_manager
        /\ p.kernel = w.kernel /\ p.gets = w.gets /\ p.sends = w.sends
    BY <1>1, <1>2, <1>9, <1>11, Rewritten
  <2>5. 1 \in Int  OBVIOUS
  <2>6. /\ t \in Worlds /\ t.gf = p.gf /\ SameLists(p, t)
        /\ t.sock_manager = p.sock_manager /\ t.kernel = p.kernel
    BY <1>11, <2>4, <2>5, TellFields
  <2>7. s \in Registered(t.sock_manager)  BY <1>3, <2>4, <2>6
  <2>8. /\ u \in Worlds /\ u.gf = t.gf /\ SameLists(t, u) /\ SameCounts(t, u)
        /\ u.sock_manager = ReadBy(t.sock_manager, s, f) /\ u.kernel = t.kernel
    BY <1>4, <1>11, <2>6, <2>7, ReadFields
  <2>9. Writes(e, u, c, r)  BY <2>3, <2>4, <2>6, <2>8, Zenon DEF Writes
  <2>10. SameLists(e, u)  BY <2>3, <2>4, <2>6, <2>8, Zenon DEF SameLists
  <2>11. u.sock_manager = e.sock_manager /\ u.kernel = e.kernel
    BY <2>3, <2>4, <2>6, <2>8
  <2>12. e.sock_manager.slot[s].func_read \notin Early  BY <1>4, <2>2
  <2>13. e.gf[c].socket = -1 /\ SameLink(e.gf[c], r) /\ Follows(e.gf[c], r)
    BY <1>5, <1>9, <1>10, <2>3
  <2>14. State(v, T, Q, F, q) /\ Resting(v, q) /\ s \in Registered(v.sock_manager)
    BY <1>9, <1>12, <2>1, <2>2, <2>8, <2>9, <2>10, <2>11, <2>12, <2>13, JoinKept
  <2> QED  BY <2>14 DEF v, q
<1>13. CASE "unopened" \in Happens /\ v = Finish(b, s)
  <2>1. ~Ordinary  BY <1>13 DEF Ordinary
  <2>2. Shed(w, T, Q, F, c, b)  BY <1>1, <1>5, <1>9, <1>11, WrittenAndBroken
  <2>3. State(v, T \ {c}, Q, F, q) /\ Resting(v, q)
    BY <1>3, <1>11, <1>13, <2>1, <2>2, ShedKept
  <2> QED  BY <2>3 DEF v, q
<1> QED  BY <1>8, <1>12, <1>13

\* nap_firewall_get().
LEMMA NapFirewallGetKept ==
    ASSUME NEW T, NEW Q, NEW F, State(mem, T, Q, F, asked), Happens \subseteq Covered,
           NEW s \in Fd, NapFirewallGet(s)
    PROVE  Resting(mem', asked')
<1> DEFINE w == mem
           v == mem'
           q == asked
           kind == "get"
<1>1. World(w, T, T, Q, F)  BY StateParts
<1>2. s \in Reading("nap_firewall_get") /\ asked' = q  BY DEF NapFirewallGet
<1>3. s \in Registered(w.sock_manager) /\ Info(w, s) = Nil
  <2>1. "nap_firewall_get" \in Early  BY DEF Early
  <2> QED  BY <1>1, <1>2, <2>1, ReadingIs
<1>4. State(w, T, Q, F, q)  OBVIOUS
<1>5. "again" \notin Happens  BY DEF Covered
<1>6. \/ v = Finish(w, s)
      \/ v = CloseSock(w, s)
      \/ \E k \in Key : /\ Find(w, k, kind) # Nil
                        /\ Expected(Find(w, k, kind))
                        /\ Push(s, Find(w, k, kind))
  BY <1>5 DEF NapFirewallGet
<1>7. CASE v = Finish(w, s) \/ v = CloseSock(w, s)
  <2> HIDE DEF w, v, q
  <2>1. State(v, T, Q, F, q) /\ Resting(v, q)  BY <1>3, <1>4, <1>7, ClosedKept
  <2> QED  BY <1>2, <2>1 DEF v, q
<1>8. CASE \E k \in Key : /\ Find(w, k, kind) # Nil
                          /\ Expected(Find(w, k, kind))
                          /\ Push(s, Find(w, k, kind))
  <2>1. PICK k \in Key : /\ Find(w, k, kind) # Nil
                         /\ Expected(Find(w, k, kind))
                         /\ Push(s, Find(w, k, kind))
    BY <1>8
  <2> DEFINE d == Find(w, k, kind)
  <2>2. d = Find(w, k, kind)  OBVIOUS
  <2>3. Expected(d) /\ Push(s, d) /\ d # Nil  BY <2>1
  <2> HIDE DEF d
  <2>4. d \in T /\ w.gf[d].key = k /\ w.gf[d].kind = kind
    <3> HIDE DEF w, kind
    <3>1. d # Nil => d \in T /\ w.gf[d].key = k /\ w.gf[d].kind = kind  BY <1>1, <2>2, FindIn
    <3> QED  BY <2>3, <3>1
  <2>5. Resting(mem', asked)  BY <1>2, <2>3, <2>4, PushKept
  <2> QED  BY <1>2, <2>5
<1> QED  BY <1>6, <1>7, <1>8

\* What the server's answer for k leaves, when the record c of k is addressed.
LEMMA AnswerKept ==
    ASSUME NEW w, NEW T, NEW Q, NEW F, NEW q, State(w, T, Q, F, q),
           NEW k \in Key, q[k] > 0, NEW c \in T, w.gf[c].kind = "get", w.gf[c].key = k,
           NEW v, NEW T1, T1 \subseteq T, NEW F1, World(v, T1, T1, Q, F1),
           Addressed(w.gf, v.gf, c, T1, Q), Ordinary => v.live \subseteq T1 \cup Q \cup F1,
           NEW p, p = Answered(q, k)
    PROVE  Resting(v, p)
<1>1. /\ World(w, T, T, Q, F) /\ T \cap Q = {} /\ T \cup Q \cup F \subseteq w.live
      /\ w.live \subseteq Cell
  BY StateParts
<1>2. GetsKept(w.gf, T, Q, q) /\ SendsKept(w.gf, T) /\ (Ordinary => AllSeen(w, T, Q, F))
  BY DEF State
<1> DEFINE gf == w.gf
           h == v.gf
<1>3. /\ GetsKept(gf, T, Q, q) /\ SendsKept(gf, T) /\ T \cup Q \subseteq Cell
      /\ c \in T \cup Q /\ gf[c].kind = "get" /\ k = gf[c].key
      /\ T1 \subseteq T \cup {c} /\ Q \subseteq Q \ {c} /\ Addressed(gf, h, c, T1, Q)
  BY <1>1, <1>2
<1>4. Ordinary => AllSeen(v, T1, Q, F1)
  <2> SUFFICES ASSUME Ordinary PROVE AllSeen(v, T1, Q, F1)
    OBVIOUS
  <2>1. AllSeen(w, T, Q, F)  BY <1>2
  <2>2. ASSUME NEW d \in T1, h[d].kind = "send" PROVE h[d].write
    <3>1. c \in T1 => h[c].kind = "get"  BY <1>3, Zenon DEF Addressed
    <3>2. d # c  BY <2>2, <3>1
    <3>3. d \in T /\ d \in T1 \cup Q  BY <2>2
    <3>4. Follows(gf[d], h[d])  BY <1>3, <3>2, <3>3, Zenon DEF Addressed
    <3>5. gf[d].kind = "send"  BY <2>2, <3>4, Zenon DEF Follows
    <3>6. gf[d].write  BY <2>1, <3>3, <3>5, Zenon DEF AllSeen
    <3> QED  BY <3>4, <3>5, <3>6, Zenon DEF Follows
  <2>3. v.live \subseteq T1 \cup Q \cup F1  OBVIOUS
  <2> QED  BY <2>2, <2>3, Zenon DEF AllSeen
<1> HIDE DEF gf, h
<1>5. GetsKept(h, T1, Q, p) /\ SendsKept(h, T1)  BY <1>1, <1>3, GetsAddressed
<1>6. State(v, T1, Q, F1, p)  BY <1>4, <1>5, Zenon DEF State, h
<1> QED  BY <1>6, Zenon DEF Resting

\* cmd_toomanyfiles().
LEMMA CmdToomanyfilesKept ==
    ASSUME NEW T, NEW Q, NEW F, State(mem, T, Q, F, asked), NEW k \in Key,
           CmdToomanyfiles(k)
    PROVE  Resting(mem', asked')
<1> DEFINE w == mem
           v == mem'
           q == asked
           p == asked'
           kind == "get"
           c == Find(w, k, kind)
           u == Break(w, c)
           g == LinkLast(u, u.Queued, c).gf
           first == LinkLast(u, u.Queued, c).head
<1>1. /\ World(w, T, T, Q, F) /\ T \cap Q = {} /\ T \cup Q \cup F \subseteq w.live
      /\ w.live \subseteq Cell /\ (Ordinary => w.live \subseteq T \cup Q \cup F)
  BY StateParts
<1>2. q[k] > 0 /\ p = Answered(q, k)  BY DEF CmdToomanyfiles, Answered
<1>3. GetsKept(w.gf, T, Q, q) /\ SendsKept(w.gf, T) /\ (Ordinary => AllSeen(w, T, Q, F))
  BY DEF State
<1>4. \/ c = Nil /\ v = w
      \/ c # Nil /\ v = Queueing(u, g, first)
  BY DEF CmdToomanyfiles, Queueing
<1>5. CASE c = Nil /\ v = w
  <2> DEFINE gf == w.gf
  <2>1. GetsKept(gf, T, Q, q) /\ SendsKept(gf, T)  BY <1>3
  <2> HIDE DEF w, v, q, p, gf, c
  <2>2. GetsKept(gf, T, Q, p) /\ q \in Asks  BY <1>2, <2>1, GetsAnswered
  <2>3. State(w, T, Q, F, p)  BY <1>1, <1>3, <2>1, <2>2, Zenon DEF State, gf
  <2>4. Resting(w, p)  BY <2>3, Zenon DEF Resting
  <2> QED  BY <1>5, <2>4 DEF v, p
<1>6. CASE c # Nil /\ v = Queueing(u, g, first)
  <2>1. c = Find(w, k, kind)  OBVIOUS
  <2>2. u = Break(w, c) /\ g = LinkLast(u, u.Queued, c).gf
        /\ first = LinkLast(u, u.Queued, c).head /\ kind = "get"
    OBVIOUS
  <2> HIDE DEF w, v, q, p, kind, c, u, g, first
  <2>3. c \in T /\ w.gf[c].key = k /\ w.gf[c].kind = "get"
    <3>1. c # Nil => c \in T /\ w.gf[c].key = k /\ w.gf[c].kind = kind  BY <1>1, <2>1, FindIn
    <3> QED  BY <1>6, <2>2, <3>1
  <2>4. w.gf[c].socket = -1
    <3> DEFINE gf == w.gf
    <3>1. GetsKept(gf, T, Q, q) /\ gf[c].key = k /\ gf[c].kind = "get" /\ c \in T \cup Q
      BY <1>3, <2>3
    <3> HIDE DEF gf
    <3>2. /\ \A d \in T \cup Q :
               gf[d].kind = "get" /\ q[gf[d].key] > 0 => d \in T /\ ~gf[d].realfile
          /\ \A d \in T : gf[d].kind = "get" /\ ~gf[d].realfile => gf[d].socket = -1
      BY <3>1, Zenon DEF GetsKept
    <3>3. ~gf[c].realfile  BY <1>2, <3>1, <3>2, Zenon
    <3>4. gf[c].socket = -1  BY <2>3, <3>1, <3>2, <3>3, Zenon
    <3> QED  BY <3>4 DEF gf
  <2>5. /\ World(u, T \ {c}, T, Q, F)
        /\ SameData(w.gf, u.gf)
        /\ u.sock_manager = w.sock_manager /\ u.kernel = w.kernel
        /\ u.live = w.live /\ u.gets = w.gets /\ u.sends = w.sends
    BY <1>1, <2>2, <2>3, BreakWorld
  <2> DEFINE T1 == T \ {c}
             Q1 == Q \cup {c}
  <2>6. World(u, T1, T, Q, F) /\ c \in T \ T1 /\ T \ {c} = T1  BY <2>3, <2>5
  <2>7. T1 = T \ {c} /\ Q1 = Q \cup {c}  OBVIOUS
  <2> HIDE DEF T1, Q1
  <2>8. u.gf[c].socket = -1
    <3>1. c \in Cell  BY <1>1, <2>3
    <3> QED  BY <2>4, <2>5, <3>1, Zenon DEF SameData
  <2>9. v = Queueing(u, g, first)  BY <1>6
  <2>10. /\ World(v, T1, T \ {c}, Q \cup {c}, F)
         /\ SameData(u.gf, v.gf)
         /\ v.sock_manager = u.sock_manager /\ v.kernel = u.kernel
         /\ v.live = u.live /\ v.gets = u.gets /\ v.sends = u.sends
    BY SMTT(30), <2>2, <2>6, <2>8, <2>9, QueueWorld
  <2>11. World(v, T1, T1, Q1, F)  BY <2>6, <2>7, <2>10
  <2> DEFINE gf == w.gf
             h == v.gf
  <2>12. SameData(gf, h)  BY <2>5, <2>10, SameDataTrans
  <2>13. /\ GetsKept(gf, T, Q, q) /\ SendsKept(gf, T) /\ T \cup Q \subseteq Cell
         /\ gf[c].kind = "get" /\ k = gf[c].key
    BY <1>1, <1>3, <2>3
  <2>14. Ordinary => AllSeen(v, T1, Q1, F)
    <3> SUFFICES ASSUME Ordinary PROVE AllSeen(v, T1, Q1, F)
      OBVIOUS
    <3>1. AllSeen(w, T, Q, F)  BY <1>3
    <3>2. v.live \subseteq T1 \cup Q1 \cup F  BY <1>1, <2>5, <2>7, <2>10
    <3>3. ASSUME NEW d \in T1, h[d].kind = "send" PROVE h[d].write
      <4>1. d \in T /\ d \in Cell  BY <2>7, <2>13, <3>3
      <4>2. gf[d].kind = "send" /\ h[d].write = gf[d].write
        BY <2>12, <3>3, <4>1, Zenon DEF SameData
      <4>3. gf[d].write  BY <3>1, <4>1, <4>2, Zenon DEF AllSeen
      <4> QED  BY <4>2, <4>3, Zenon
    <3> QED  BY <3>2, <3>3, Zenon DEF AllSeen
  <2> HIDE DEF gf, h
  <2>15. GetsKept(h, T1, Q1, p) /\ SendsKept(h, T1)
    BY <1>1, <1>2, <2>3, <2>7, <2>12, <2>13, GetsPutOff
  <2>16. State(v, T1, Q1, F, p)  BY <2>11, <2>14, <2>15, Zenon DEF State, h
  <2>17. Resting(v, p)  BY <2>16, Zenon DEF Resting
  <2> QED  BY <2>17 DEF v, p
<1> QED  BY <1>4, <1>5, <1>6

\* The record in hand has the address it waited for.
Told(w, T, Q, F, c, u) ==
    /\ InHand(w, T, Q, F, c, u)
    /\ u.gf[c].key = w.gf[c].key /\ u.gf[c].kind = "get" /\ u.gf[c].realfile
    /\ u.gf[c].socket = -1

\* What follows and then stays, follows.
LEMMA FollowsSame ==
    ASSUME NEW r, NEW q, NEW s, Follows(r, q), SameFile(q, s) \/ s = q
    PROVE  Follows(r, s)
<1>1. CASE s = q  BY <1>1, Zenon
<1>2. CASE SameFile(q, s)
  <2>1. /\ s.key = q.key /\ s.kind = q.kind /\ s.socket = q.socket
        /\ s.write = q.write /\ s.realfile = q.realfile
    BY <1>2, Zenon DEF SameFile
  <2>2. /\ q.key = r.key /\ q.kind = r.kind /\ q.realfile = r.realfile
        /\ (q.socket = r.socket \/ r.realfile \/ r.kind = "send")
        /\ (r.kind = "send" /\ r.write => q.write)
    BY Zenon DEF Follows
  <2> QED  BY <2>1, <2>2, Zenon DEF Follows
<1> QED  BY <1>1, <1>2

\* create_and_get() for it, connected at once or not.
LEMMA ToldConnected ==
    ASSUME NEW w, NEW T, NEW Q, NEW F, NEW q, State(w, T, Q, F, q),
           NEW k \in Key, q[k] > 0, NEW c \in T, w.gf[c].kind = "get", w.gf[c].key = k,
           NEW u, Told(w, T, Q, F, c, u), NEW v \in Connected(u, c),
           NEW p, p = Answered(q, k)
    PROVE  Resting(v, p)
<1> DEFINE T1 == T \ {c}
<1>1. /\ World(u, T1, T, Q, F) /\ c \in T \ T1 /\ u.gf[c].socket = -1 /\ u.live = w.live
  BY Zenon DEF Told, InHand
<1>2. T1 \cup {c} = T  OBVIOUS
<1>3. T \cup Q \cup F \subseteq w.live /\ w.live \subseteq Cell
      /\ (Ordinary => w.live \subseteq T \cup Q \cup F)
  BY StateParts
<1> HIDE DEF T1
<1>4. /\ World(v, T1 \cup {c}, T, Q, F)
      /\ \A d \in Cell : d # c => SameFile(u.gf[d], v.gf[d])
      /\ v.gf[c].key = u.gf[c].key /\ v.gf[c].kind = "get"
      /\ v.gf[c].write = u.gf[c].write /\ v.gf[c].realfile = u.gf[c].realfile
      /\ v.live = u.live
  <2>1. Reached(u, T1, T, Q, F, c, v)  BY <1>1, ConnectedWorld
  <2> QED  BY <2>1, Zenon DEF Reached
<1>5. World(v, T, T, Q, F)  BY <1>2, <1>4
<1>6. Addressed(w.gf, v.gf, c, T, Q)
  <2>1. ASSUME NEW d \in T \cup Q, d # c PROVE Follows(w.gf[d], v.gf[d])
    <3>1. d \in Cell  BY <1>3, <2>1
    <3>2. Follows(w.gf[d], u.gf[d])  BY <2>1, <3>1, Zenon DEF Told, InHand
    <3>3. SameFile(u.gf[d], v.gf[d])  BY <1>4, <2>1, <3>1, Zenon
    <3> QED  BY <3>2, <3>3, FollowsSame
  <2>2. v.gf[c].key = w.gf[c].key /\ v.gf[c].kind = "get" /\ v.gf[c].realfile
    BY <1>4, Zenon DEF Told
  <2> QED  BY <2>1, <2>2, Zenon DEF Addressed
<1>7. Ordinary => v.live \subseteq T \cup Q \cup F
  <2>1. v.live = w.live  BY <1>1, <1>4, Zenon
  <2> QED  BY <1>3, <2>1
<1>8. T \subseteq T  OBVIOUS
<1> QED  BY <1>5, <1>6, <1>7, <1>8, AnswerKept

\* ... or refused.
LEMMA ToldRefused ==
    ASSUME NEW w, NEW T, NEW Q, NEW F, NEW q, State(w, T, Q, F, q),
           NEW k \in Key, q[k] > 0, NEW c \in T, w.gf[c].kind = "get", w.gf[c].key = k,
           NEW u, Told(w, T, Q, F, c, u), "refused" \in Happens, NEW v \in Refused(u, c),
           NEW p, p = Answered(q, k)
    PROVE  Resting(v, p)
<1> DEFINE T1 == T \ {c}
<1>1. /\ World(u, T1, T, Q, F) /\ c \in T \ T1 /\ u.gf[c].socket = -1 /\ u.live = w.live
  BY Zenon DEF Told, InHand
<1>2. T \ {c} = T1 /\ T1 \subseteq T /\ c \notin T1  OBVIOUS
<1>3. T \cup Q \cup F \subseteq w.live /\ w.live \subseteq Cell
  BY StateParts
<1> HIDE DEF T1
<1>4. /\ World(v, T1, T \ {c}, Q, F) \/ World(v, T1, T \ {c}, Q, F \cup {c})
      /\ \A d \in Cell : d # c => v.gf[d] = u.gf[d]
      /\ v.live = u.live /\ v.gets = u.gets /\ v.sends = u.sends
  BY <1>1, RefusedWorld
<1>5. World(v, T1, T1, Q, F) \/ World(v, T1, T1, Q, F \cup {c})  BY <1>2, <1>4
<1>6. Addressed(w.gf, v.gf, c, T1, Q)
  <2>1. ASSUME NEW d \in T1 \cup Q, d # c PROVE Follows(w.gf[d], v.gf[d])
    <3>1. d \in Cell  BY <1>2, <1>3, <2>1
    <3>2. Follows(w.gf[d], u.gf[d])  BY <2>1, <3>1, Zenon DEF Told, InHand
    <3>3. v.gf[d] = u.gf[d]  BY <1>4, <2>1, <3>1, Zenon
    <3> QED  BY <3>2, <3>3, Zenon
  <2> QED  BY <1>2, <2>1, Zenon DEF Addressed
<1>7. ~Ordinary  BY DEF Ordinary
<1>8. ASSUME NEW F1, World(v, T1, T1, Q, F1) PROVE Resting(v, p)
  <2>1. Ordinary => v.live \subseteq T1 \cup Q \cup F1  BY <1>7
  <2> QED  BY <1>2, <1>6, <1>8, <2>1, AnswerKept
<1> QED  BY <1>5, <1>8

\* No port at the address: the record waits on transfer_struct for a push.
LEMMA ToldAdded ==
    ASSUME NEW w, NEW T, NEW Q, NEW F, NEW q, State(w, T, Q, F, q),
           NEW k \in Key, q[k] > 0, NEW c \in T, w.gf[c].kind = "get", w.gf[c].key = k,
           NEW u, Told(w, T, Q, F, c, u), NEW v, v = AddToTransferList(u, c),
           NEW p, p = Answered(q, k)
    PROVE  Resting(v, p)
<1> DEFINE T1 == T \ {c}
<1>1. /\ World(u, T1, T, Q, F) /\ c \in T \ T1 /\ u.gf[c].socket = -1 /\ u.live = w.live
  BY Zenon DEF Told, InHand
<1>2. T1 \cup {c} = T  OBVIOUS
<1>3. T \cup Q \cup F \subseteq w.live /\ w.live \subseteq Cell
      /\ (Ordinary => w.live \subseteq T \cup Q \cup F)
  BY StateParts
<1> HIDE DEF T1
<1>4. /\ World(v, T1 \cup {c}, T, Q, F)
      /\ SameData(u.gf, v.gf)
      /\ v.sock_manager = u.sock_manager /\ v.kernel = u.kernel
      /\ v.live = u.live /\ v.gets = u.gets /\ v.sends = u.sends
  BY <1>1, AddWorld
<1>5. World(v, T, T, Q, F)  BY <1>2, <1>4
<1>6. Addressed(w.gf, v.gf, c, T, Q)
  <2>1. \A d \in Cell : SameFile(u.gf[d], v.gf[d])
    BY <1>4, Zenon DEF SameData, SameFile
  <2>2. ASSUME NEW d \in T \cup Q, d # c PROVE Follows(w.gf[d], v.gf[d])
    <3>1. d \in Cell  BY <1>3, <2>2
    <3>2. Follows(w.gf[d], u.gf[d])  BY <2>2, <3>1, Zenon DEF Told, InHand
    <3>3. SameFile(u.gf[d], v.gf[d])  BY <2>1, <3>1, Zenon
    <3> QED  BY <3>2, <3>3, FollowsSame
  <2>3. c \in Cell  BY <1>3
  <2>4. v.gf[c].key = w.gf[c].key /\ v.gf[c].kind = "get" /\ v.gf[c].realfile
    BY <2>1, <2>3, Zenon DEF Told, SameFile
  <2> QED  BY <2>2, <2>4, Zenon DEF Addressed
<1>7. Ordinary => v.live \subseteq T \cup Q \cup F
  <2>1. v.live = w.live  BY <1>1, <1>4, Zenon
  <2> QED  BY <1>3, <2>1
<1>8. T \subseteq T  OBVIOUS
<1> QED  BY <1>5, <1>6, <1>7, <1>8, AnswerKept

\* The fields cmd_getfile() fills in, one by one and in the end together.
TwoFields(u, c, r, s) == Put(Put(u, c, r), c, s)

\* Two writes leave it in hand.
LEMMA PutTwice ==
    ASSUME NEW w, NEW T, NEW Q, NEW F, NEW c \in Cell, NEW u, InHand(w, T, Q, F, c, u),
           NEW r \in GetFile, SamePlace(u.gf[c], r), NEW s \in GetFile, SamePlace(r, s),
           NEW v, v = TwoFields(u, c, r, s)
    PROVE  InHand(w, T, Q, F, c, v) /\ v.gf[c] = s
<1> DEFINE x == Put(u, c, r)
<1>1. x = Put(u, c, r) /\ v = Put(x, c, s)  BY DEF TwoFields
<1> HIDE DEF x
<1>2. InHand(w, T, Q, F, c, x) /\ x.sock_manager = u.sock_manager /\ x.gf[c] = r
  BY <1>1, PutInHand
<1>3. SamePlace(x.gf[c], s)  BY <1>2
<1>4. InHand(w, T, Q, F, c, v) /\ v.sock_manager = x.sock_manager /\ v.gf[c] = s
  BY <1>1, <1>2, <1>3, PutInHand
<1> QED  BY <1>4

WithAddress(u, c) == [u EXCEPT !.gf[c].write = FALSE, !.gf[c].realfile = TRUE]
WithPort(x, c) == [x EXCEPT !.gf[c].port = TRUE]
WithoutPort(x, c) == [x EXCEPT !.gf[c].socket = -1, !.gf[c].port = FALSE]

\* b becomes r and that s, closed and with the name of its file.
Named(b, r, s) ==
    /\ SamePlace(b, r) /\ SamePlace(r, s)
    /\ s.key = b.key /\ s.kind = b.kind /\ s.realfile /\ s.socket = -1 /\ ~s.write

\* The write to and the name of the file.
LEMMA AddressFields ==
    ASSUME NEW u \in Worlds, NEW c \in Cell, u.gf[c].socket = -1,
           NEW v, v = WithAddress(u, c)
    PROVE  \E r \in GetFile, s \in GetFile :
              Named(u.gf[c], r, s) /\ v = TwoFields(u, c, r, s)
<1> DEFINE b == u.gf[c]
           r == [b EXCEPT !.write = FALSE]
           s == [r EXCEPT !.realfile = TRUE]
           g1 == [u.gf EXCEPT ![c] = r]
           g2 == [g1 EXCEPT ![c] = s]
           x == [u EXCEPT !.gf = g1]
<1>1. u.gf \in [Cell -> GetFile]  BY DEF Worlds
<1>2. b \in GetFile  BY <1>1
<1>3. r \in GetFile /\ SamePlace(b, r) /\ r.key = b.key /\ r.kind = b.kind /\ r.socket = b.socket
      /\ r.write = FALSE
  BY <1>2 DEF GetFile, SamePlace
<1>4. s \in GetFile /\ SamePlace(r, s) /\ s.key = r.key /\ s.kind = r.kind
      /\ s.socket = r.socket /\ s.realfile /\ s.write = FALSE
  BY <1>3 DEF GetFile, SamePlace
<1>5. g1[c] = r /\ x = Put(u, c, r) /\ x.gf = g1  BY <1>1 DEF Put, Worlds
<1>6. v = [u EXCEPT !.gf = g2]
  BY <1>1 DEF WithAddress, Worlds
<1>7. [u EXCEPT !.gf = g2] = [x EXCEPT !.gf = g2]  BY DEF Worlds
<1> HIDE DEF r, s
<1>8. v = Put(x, c, s)  BY <1>5, <1>6, <1>7 DEF Put
<1>9. v = TwoFields(u, c, r, s)  BY <1>5, <1>8 DEF TwoFields
<1>10. Named(b, r, s)  BY <1>3, <1>4 DEF Named
<1> QED  BY <1>3, <1>4, <1>9, <1>10

\* An address without a port.
LEMMA WithoutPortFields ==
    ASSUME NEW u \in Worlds, NEW c \in Cell, u.gf[c].socket = -1,
           NEW v, v = WithoutPort(u, c)
    PROVE  \E r \in GetFile, s \in GetFile :
              /\ SamePlace(u.gf[c], r) /\ SamePlace(r, s) /\ v = TwoFields(u, c, r, s)
              /\ s.key = u.gf[c].key /\ s.kind = u.gf[c].kind
              /\ s.realfile = u.gf[c].realfile /\ s.socket = -1
<1> DEFINE b == u.gf[c]
           r == [b EXCEPT !.socket = -1]
           s == [r EXCEPT !.port = FALSE]
           g1 == [u.gf EXCEPT ![c] = r]
           g2 == [g1 EXCEPT ![c] = s]
           x == [u EXCEPT !.gf = g1]
<1>1. u.gf \in [Cell -> GetFile]  BY DEF Worlds
<1>2. b \in GetFile  BY <1>1
<1>3. r \in GetFile /\ SamePlace(b, r) /\ r.key = b.key /\ r.kind = b.kind /\ r.socket = -1
      /\ r.realfile = b.realfile
  BY <1>2 DEF GetFile, SamePlace
<1>4. s \in GetFile /\ SamePlace(r, s) /\ s.key = r.key /\ s.kind = r.kind
      /\ s.socket = r.socket /\ s.realfile = r.realfile
  BY <1>3 DEF GetFile, SamePlace
<1>5. g1[c] = r /\ x = Put(u, c, r) /\ x.gf = g1  BY <1>1 DEF Put, Worlds
<1>6. v = [u EXCEPT !.gf = g2]
  BY <1>1 DEF WithoutPort, Worlds
<1>7. [u EXCEPT !.gf = g2] = [x EXCEPT !.gf = g2]  BY DEF Worlds
<1> HIDE DEF r, s
<1>8. v = Put(x, c, s)  BY <1>5, <1>6, <1>7 DEF Put
<1>9. v = TwoFields(u, c, r, s)  BY <1>5, <1>8 DEF TwoFields
<1> QED  BY <1>3, <1>4, <1>9

\* An address with one.
LEMMA PortField ==
    ASSUME NEW u \in Worlds, NEW c \in Cell, NEW v, v = WithPort(u, c)
    PROVE  \E r \in GetFile :
              /\ SamePlace(u.gf[c], r) /\ v = Put(u, c, r)
              /\ r.key = u.gf[c].key /\ r.kind = u.gf[c].kind
              /\ r.realfile = u.gf[c].realfile /\ r.socket = u.gf[c].socket
              /\ r.write = u.gf[c].write
<1> DEFINE b == u.gf[c]
           r == [b EXCEPT !.port = TRUE]
<1>1. u.gf \in [Cell -> GetFile]  BY DEF Worlds
<1>2. b \in GetFile  BY <1>1
<1>3. r \in GetFile /\ SamePlace(b, r) /\ r.key = b.key /\ r.kind = b.kind
      /\ r.socket = b.socket /\ r.realfile = b.realfile /\ r.write = b.write
  BY <1>2 DEF GetFile, SamePlace
<1>4. v = Put(u, c, r)  BY DEF WithPort, Put
<1> QED  BY <1>3, <1>4

\* The record looked for is in hand, and has what cmd_getfile() fills in.
LEMMA ToldBy ==
    ASSUME NEW w, NEW T, NEW Q, NEW F, World(w, T, T, Q, F), NEW c \in T,
           w.gf[c].kind = "get", w.gf[c].socket = -1,
           NEW u, u = Break(w, c), NEW x, x = WithAddress(u, c),
           NEW v, v = WithPort(x, c) \/ v = WithoutPort(x, c)
    PROVE  Told(w, T, Q, F, c, v)
<1>1. InHand(w, T, Q, F, c, u) /\ u.sock_manager = w.sock_manager /\ SameData(w.gf, u.gf)
  BY BreakInHand
<1>2. c \in Cell  BY WorldParts
<1>3. u.gf[c].socket = -1 /\ u.gf[c].key = w.gf[c].key /\ u.gf[c].kind = "get"
  BY <1>1, <1>2, Zenon DEF SameData
<1>4. u \in Worlds
  <2>1. World(u, T \ {c}, T, Q, F)  BY <1>1, Zenon DEF InHand
  <2> QED  BY <2>1, Zenon DEF World
<1>5. PICK r \in GetFile, s \in GetFile :
              Named(u.gf[c], r, s) /\ x = TwoFields(u, c, r, s)
  BY <1>2, <1>3, <1>4, AddressFields
<1>n. /\ SamePlace(u.gf[c], r) /\ SamePlace(r, s)
      /\ s.key = u.gf[c].key /\ s.kind = u.gf[c].kind /\ s.realfile /\ s.socket = -1
  BY <1>5, Zenon DEF Named
<1>6. InHand(w, T, Q, F, c, x) /\ x.gf[c] = s  BY <1>1, <1>2, <1>5, <1>n, PutTwice
<1>7. x.gf[c].socket = -1 /\ x.gf[c].key = w.gf[c].key /\ x.gf[c].kind = "get"
      /\ x.gf[c].realfile
  BY <1>3, <1>n, <1>6, Zenon
<1>8. x \in Worlds
  <2>1. World(x, T \ {c}, T, Q, F)  BY <1>6, Zenon DEF InHand
  <2> QED  BY <2>1, Zenon DEF World
<1>9. CASE v = WithPort(x, c)
  <2>1. PICK t \in GetFile :
              /\ SamePlace(x.gf[c], t) /\ v = Put(x, c, t)
              /\ t.key = x.gf[c].key /\ t.kind = x.gf[c].kind
              /\ t.realfile = x.gf[c].realfile /\ t.socket = x.gf[c].socket
    BY <1>2, <1>8, <1>9, PortField
  <2>2. InHand(w, T, Q, F, c, v) /\ v.sock_manager = x.sock_manager /\ v.gf[c] = t
    BY <1>2, <1>6, <2>1, PutInHand
  <2> QED  BY <1>7, <2>1, <2>2, Zenon DEF Told
<1>10. CASE v = WithoutPort(x, c)
  <2>1. PICK t \in GetFile, y \in GetFile :
              /\ SamePlace(x.gf[c], t) /\ SamePlace(t, y) /\ v = TwoFields(x, c, t, y)
              /\ y.key = x.gf[c].key /\ y.kind = x.gf[c].kind
              /\ y.realfile = x.gf[c].realfile /\ y.socket = -1
    BY ZenonT(60), <1>2, <1>7, <1>8, <1>10, WithoutPortFields
  <2>2. InHand(w, T, Q, F, c, v) /\ v.gf[c] = y  BY <1>2, <1>6, <2>1, PutTwice
  <2> QED  BY <1>7, <2>1, <2>2, Zenon DEF Told
<1> QED  BY <1>9, <1>10

\* No record of the queue waits for an address: the queue is looked at in vain.
LEMMA WaitingIs ==
    ASSUME NEW T, NEW Q, NEW F, State(mem, T, Q, F, asked), NEW k \in Key, asked[k] > 0
    PROVE  \/ Waiting(k).c = Nil
           \/ /\ Waiting(k).c \in T /\ Waiting(k).w = Break(mem, Waiting(k).c)
              /\ mem.gf[Waiting(k).c].kind = "get" /\ mem.gf[Waiting(k).c].key = k
              /\ mem.gf[Waiting(k).c].socket = -1
<1> DEFINE w == mem
           q == asked
           kind == "get"
           c == Find(w, k, kind)
           S == {d \in On(w, w.Queued) : w.gf[d].key = k}
           gf == w.gf
<1>1. World(w, T, T, Q, F) /\ T \cap Q = {} /\ GetsKept(gf, T, Q, q)
  <2>1. World(mem, T, T, Q, F) /\ GetsKept(mem.gf, T, Q, asked)  BY Zenon DEF State
  <2>2. T \cap Q = {}  BY <2>1, Zenon DEF World
  <2> QED  BY <2>1, <2>2
<1>2. On(w, w.Queued) = Q  BY <1>1, InProgressIs
<1>3. /\ \A d \in T \cup Q : gf[d].kind = "get" /\ q[gf[d].key] > 0 => d \in T /\ ~gf[d].realfile
      /\ \A d \in T : gf[d].kind = "get" /\ ~gf[d].realfile => gf[d].socket = -1
      /\ \A d \in Q : gf[d].kind = "get" /\ ~gf[d].realfile
  BY <1>1, Zenon DEF GetsKept
<1>4. S = {}
  <2> SUFFICES ASSUME NEW d \in Q, gf[d].key = k PROVE FALSE
    BY <1>2
  <2>1. gf[d].kind = "get"  BY <1>3
  <2>2. q[gf[d].key] > 0  OBVIOUS
  <2>3. d \in T \cup Q  OBVIOUS
  <2>4. d \in T  BY <1>3, <2>1, <2>2, <2>3, Zenon
  <2> QED  BY <1>1, <2>4
<1>5. \/ c # Nil /\ Waiting(k).c = c /\ Waiting(k).w = Break(w, c)
      \/ c = Nil /\ Waiting(k).c = Nil
  <2>1. FirstOf(w, w.Queued, S) = Nil  BY <1>4 DEF FirstOf
  <2> QED  BY <2>1 DEF Waiting
<1>6. CASE c # Nil /\ Waiting(k).c = c /\ Waiting(k).w = Break(w, c)
  <2>1. c = Find(w, k, kind) /\ kind = "get"  OBVIOUS
  <2>2. q[k] > 0  OBVIOUS
  <2> HIDE DEF c, kind, gf, w, q
  <2>3. c # Nil => c \in T /\ w.gf[c].key = k /\ w.gf[c].kind = kind  BY <1>1, <2>1, FindIn
  <2>4. c \in T /\ gf[c].key = k /\ gf[c].kind = "get"  BY <1>6, <2>1, <2>3 DEF gf
  <2>5. q[gf[c].key] > 0 /\ c \in T \cup Q  BY <2>2, <2>4
  <2>6. ~gf[c].realfile  BY <1>3, <2>4, <2>5, Zenon
  <2>7. gf[c].socket = -1  BY <1>3, <2>4, <2>6, Zenon
  <2> QED  BY <1>6, <2>4, <2>7, Zenon DEF gf, w
<1>7. CASE c = Nil /\ Waiting(k).c = Nil
  BY <1>7
<1> QED  BY <1>5, <1>6, <1>7

\* cmd_getfile(): the server's answer to the request for k, with an address.
LEMMA CmdGetFileKept ==
    ASSUME NEW T, NEW Q, NEW F, State(mem, T, Q, F, asked), NEW k \in Key, CmdGetFile(k)
    PROVE  Resting(mem', asked')
<1> DEFINE w == mem
           v == mem'
           q == asked
           p == asked'
           c == Waiting(k).c
           u == Waiting(k).w
           x == WithAddress(u, c)
           y == WithPort(x, c)
           z == WithoutPort(x, c)
<1>1. q[k] > 0 /\ p = Answered(q, k)  BY DEF CmdGetFile, Answered
<1>2. World(w, T, T, Q, F) /\ State(w, T, Q, F, q)  BY StateParts
<1>3. \/ c = Nil
      \/ /\ c \in T /\ u = Break(w, c)
         /\ w.gf[c].kind = "get" /\ w.gf[c].key = k /\ w.gf[c].socket = -1
  BY <1>1, WaitingIs
<1>4. \/ c = Nil /\ v = w
      \/ /\ c # Nil
         /\ \/ v \in CreateAndGet(y, c)
            \/ v = AddToTransferList(z, c)
  BY DEF CmdGetFile, WithAddress, WithPort, WithoutPort
<1>5. x = WithAddress(u, c) /\ y = WithPort(x, c) /\ z = WithoutPort(x, c)  OBVIOUS
<1>6. Nil \notin T
  <2>1. w.live \subseteq Cell /\ T \subseteq w.live  BY <1>2, WorldParts
  <2> QED  BY <2>1, CellAssumption
<1>7. CASE c = Nil /\ v = w
  <2> DEFINE gf == w.gf
  <2>1. GetsKept(gf, T, Q, q) /\ SendsKept(gf, T) /\ (Ordinary => AllSeen(w, T, Q, F))
    BY DEF State
  <2> HIDE DEF w, v, q, p, gf, c, u, x, y, z
  <2>2. GetsKept(gf, T, Q, p) /\ q \in Asks  BY <1>1, <2>1, GetsAnswered
  <2>3. State(w, T, Q, F, p)  BY <1>2, <2>1, <2>2, Zenon DEF State, gf
  <2>4. Resting(w, p)  BY <2>3, Zenon DEF Resting
  <2> QED  BY <1>7, <2>4 DEF v, p
<1>8. CASE /\ c # Nil
           /\ \/ v \in CreateAndGet(y, c)
              \/ v = AddToTransferList(z, c)
  <2> HIDE DEF w, v, q, p, c, u, x, y, z
  <2>1. /\ c \in T /\ u = Break(w, c)
        /\ w.gf[c].kind = "get" /\ w.gf[c].key = k /\ w.gf[c].socket = -1
    BY <1>3, <1>8
  <2>2. Told(w, T, Q, F, c, y) /\ Told(w, T, Q, F, c, z)  BY <1>2, <1>5, <2>1, ToldBy
  <2>3. CASE v \in Connected(y, c)
    <3>1. Resting(v, p)  BY <1>1, <1>2, <2>1, <2>2, <2>3, ToldConnected
    <3> QED  BY <3>1 DEF v, p
  <2>4. CASE "refused" \in Happens /\ v \in Refused(y, c)
    <3>1. Resting(v, p)  BY <1>1, <1>2, <2>1, <2>2, <2>4, ToldRefused
    <3> QED  BY <3>1 DEF v, p
  <2>5. CASE v = AddToTransferList(z, c)
    <3>1. Resting(v, p)  BY <1>1, <1>2, <2>1, <2>2, <2>5, ToldAdded
    <3> QED  BY <3>1 DEF v, p
  <2> QED  BY <1>8, <2>3, <2>4, <2>5 DEF CreateAndGet
<1> QED  BY <1>4, <1>7, <1>8

----------------------------------------------------------------------------
(* The specification *)

\* Nothing is on the lists in the beginning.
LEMMA NoTransfersWorld ==
    ASSUME NEW w, w = NoTransfers
    PROVE  World(w, {}, {}, {}, {}) /\ w.live = {} /\ w.kernel = {}
<1> DEFINE r == NewFile(Nil, "get")
           gf == [c \in Cell |-> r]
<1>1. /\ w.gf = gf /\ w.live = {} /\ w.transfer_struct = Nil
      /\ w.finished_struct = Nil /\ w.Queued = Nil /\ w.sock_manager = NoSockets
      /\ w.kernel = {} /\ w.gets = 0 /\ w.sends = 0
  BY DEF NoTransfers
<1>2. r \in GetFile  BY DEF NewFile, GetFile
<1>3. gf \in [Cell -> GetFile]  BY <1>2
<1> DEFINE S == NoSockets
<1>4. S \in Tables /\ Registered(S) = {} /\ \A s \in Fd : S.slot[s].info = Nil
  <2>1. Sound(NoSockets, Cell \cup {Nil}, Handlers \cup {Nil}, {0})
        /\ Registered(NoSockets) = {} /\ Writing(NoSockets) = {}
    BY NoSocketsSound
  <2>2. NoSockets \in Tables  BY <2>1, TablesSound
  <2>3. \A s \in Fd : NoSockets.slot[s].info = Nil  BY DEF NoSockets, ZeroSlot
  <2> QED  BY <2>1, <2>2, <2>3
<1> HIDE DEF gf, S, r
<1>5. 0 \in Counts  BY SentBoundAssumption DEF Counts
<1>6. w \in Worlds
  <2>1. w = [gf |-> gf, live |-> {}, transfer_struct |-> Nil, finished_struct |-> Nil,
             Queued |-> Nil, sock_manager |-> S, kernel |-> {}, gets |-> 0, sends |-> 0]
    BY DEF NoTransfers, gf, S, r
  <2> QED  BY <1>3, <1>4, <1>5, <2>1 DEF Worlds
<1>7. DoubleChain(w.gf, Nil, {}) /\ Chain(w.gf, Nil, {})
  <2>1. [x \in {} |-> 0] \in [{} -> Nat]  OBVIOUS
  <2>2. Falls(w.gf, {}, [x \in {} |-> 0])  BY DEF Falls
  <2>3. \E g \in [{} -> Nat] : Falls(w.gf, {}, g)  BY <2>1, <2>2
  <2>4. Chain(w.gf, Nil, {})  BY <2>3 DEF Chain
  <2> QED  BY <2>4 DEF DoubleChain
<1>8. Wired(S, w.gf, {}, {})  BY <1>4 DEF Wired
<1>9. Silent(w.gf, {}) /\ Kept(w.gf, {})  BY DEF Silent, Kept
<1>10. {} \cup {} = {} /\ {} \cap {} = {} /\ {} \subseteq {}  OBVIOUS
<1> QED  BY <1>1, <1>6, <1>7, <1>8, <1>9, <1>10, Zenon DEF World, S

\* The listening socket is all there is in the beginning.
LEMMA InitKept ==
    ASSUME Init
    PROVE  Resting(mem, asked)
<1> DEFINE w == NoTransfers
           v == mem
           q == asked
           f == "naplink_handlelink"
           s == Listener
           E == {}
<1>1. World(w, {}, {}, {}, {}) /\ w.live = {} /\ w.kernel = {}  BY NoTransfersWorld
<1>2. s \in Fd  BY FdSetSizeAssumption DEF Listener, Fd
<1>3. s \in FreeFd(w) /\ f \in Handlers  BY <1>1, <1>2 DEF FreeFd, Handlers
<1>4. v = AddRead(Opened(w, s), s, f)  BY DEF Init
<1>5. q = [k \in Key |-> 0]  BY DEF Init
<1>6. E = {} /\ World(w, E, E, E, E)  BY <1>1
<1> HIDE DEF w, v, q, f, s, E
<1>7. /\ World(v, E, E, E, E) /\ v.gf = w.gf /\ SameLists(w, v) /\ SameCounts(w, v)
      /\ s \in Registered(v.sock_manager) /\ Info(v, s) = Nil
      /\ v.sock_manager.slot[s].func_read = f
  BY <1>3, <1>4, <1>6, NewWorld
<1> DEFINE gf == v.gf
<1>8. GetsKept(gf, E, E, q)
  <2>1. q \in Asks  BY <1>5, AskBoundAssumption DEF Asks
  <2> QED  BY <1>6, <2>1 DEF GetsKept, Asks
<1>9. SendsKept(gf, E)
  <2> SUFFICES ASSUME SendLimit # 0 PROVE Cardinality(Sends(gf, E)) <= SendLimit
    BY DEF SendsKept
  <2>1. Sends(gf, E) = {}  BY <1>6 DEF Sends
  <2>2. Cardinality(Sends(gf, E)) = 0  BY <2>1, FS_EmptySet
  <2> QED  BY <2>2, SendLimitAssumption
<1>10. AllSeen(v, E, E, E)
  <2>1. v.live = {}  BY <1>1, <1>7 DEF SameLists
  <2> QED  BY <1>6, <2>1 DEF AllSeen
<1> HIDE DEF gf
<1>11. State(v, E, E, E, q)  BY <1>7, <1>8, <1>9, <1>10, Zenon DEF State, gf
<1>12. Resting(v, q)  BY <1>11, Zenon DEF Resting
<1> QED  BY <1>12 DEF v, q

\* Every handler, command and sweep leaves the lists and sockets in order.
LEMMA NextKept ==
    ASSUME Happens \subseteq Covered, Resting(mem, asked), Next
    PROVE  Resting(mem', asked')
<1>1. PICK T, Q, F : State(mem, T, Q, F, asked)  BY Zenon DEF Resting
<1>2. "request" \notin Happens /\ "offer" \notin Happens /\ "push" \notin Happens
  BY DEF Covered
<1>3. CASE Download
  <2>1. ASSUME NEW k \in Key, GetFile_(k) PROVE Resting(mem', asked')
    BY <1>1, <2>1, GetFileKept
  <2>2. ASSUME NEW k \in Key, Request(k) PROVE FALSE
    BY <1>2, <2>2, Zenon DEF Request
  <2>3. ASSUME NEW k \in Key, CmdGetFile(k) PROVE Resting(mem', asked')
    BY <1>1, <2>3, CmdGetFileKept
  <2>4. ASSUME NEW k \in Key, NotAnswered(k) PROVE Resting(mem', asked')
    BY <1>1, <2>4, NotAnsweredKept
  <2>5. ASSUME NEW k \in Key, DccOffer(k) PROVE FALSE
    BY <1>2, <2>5, Zenon DEF DccOffer
  <2>6. ASSUME NEW k \in Key, CmdToomanyfiles(k) PROVE Resting(mem', asked')
    BY <1>1, <2>6, CmdToomanyfilesKept
  <2>7. ~DccGet  BY <1>2, Zenon DEF DccGet
  <2>8. ASSUME NEW s \in Fd, NapGetfilestart(s) PROVE Resting(mem', asked')
    BY <1>1, <2>8, NapGetfilestartKept
  <2>9. ASSUME NEW s \in Fd, NapGetfile(s) PROVE Resting(mem', asked')
    BY <1>1, <2>9, NapGetfileKept
  <2>10. ASSUME NEW s \in Fd, NapFirewallGet(s) PROVE Resting(mem', asked')
    BY <1>1, <2>10, NapFirewallGetKept
  <2> QED
    BY <1>3, <2>1, <2>2, <2>3, <2>4, <2>5, <2>6, <2>7, <2>8, <2>9, <2>10, Zenon DEF Download
<1>4. CASE Upload
  <2>1. ASSUME NEW k \in Key, CmdFilerequest(k) PROVE Resting(mem', asked')
    BY <1>1, <2>1, CmdFilerequestKept
  <2>2. ASSUME NEW k \in Key, CmdAccepterror(k) PROVE Resting(mem', asked')
    BY <1>1, <2>2, CmdAccepterrorKept
  <2>3. ASSUME NEW k \in Key, CmdFirewallRequest(k) PROVE FALSE
    BY <1>2, <2>3, Zenon DEF CmdFirewallRequest
  <2>4. ASSUME NEW s \in Fd, NapfileRead(s) PROVE Resting(mem', asked')
    BY <1>1, <2>4, NapfileReadKept
  <2>5. ASSUME NEW s \in Fd, NapfileSendfile(s) PROVE Resting(mem', asked')
    BY <1>1, <2>5, NapfileSendfileKept
  <2>6. ASSUME NEW s \in Fd, NapFirewallStart1(s) PROVE Resting(mem', asked')
    BY <1>1, <2>6, NapFirewallStart1Kept
  <2> QED  BY <1>4, <2>1, <2>2, <2>3, <2>4, <2>5, <2>6, Zenon DEF Upload
<1>5. CASE Link
  <2>1. ASSUME NEW s \in Fd, NaplinkHandleconnect(s) PROVE Resting(mem', asked')
    BY <1>1, <2>1, NaplinkHandleconnectKept
  <2>2. CASE NaplinkHandlelink
    BY <1>1, <2>2, NaplinkHandlelinkKept
  <2> QED  BY <1>5, <2>1, <2>2, Zenon DEF Link
<1>6. CASE Sweep
  <2>1. CASE NapDel  BY <1>1, <2>1, NapDelKept
  <2>2. CASE CleanQueue
    <3>1. PICK old \in OldEnough : CleanQueueOf(old)  BY <2>2, Zenon DEF CleanQueue
    <3> QED  BY <1>1, <3>1, CleanQueueKept
  <2>3. CASE RunCleanSockets  BY <1>1, <2>3, RunCleanSocketsKept
  <2>4. CASE QueueRemove  BY <1>1, <2>4, QueueRemoveKept
  <2>5. CASE CmdNosuchnick  BY <1>1, <2>5, CmdNosuchnickKept
  <2> QED  BY <1>6, <2>1, <2>2, <2>3, <2>4, <2>5, Zenon DEF Sweep
<1> QED  BY <1>3, <1>4, <1>5, <1>6, Zenon DEF Next

\* The other user's limit is one that was told.
LEMMA LimitKept ==
    ASSUME limit \in Limits \cup {0}, Next
    PROVE  limit' \in Limits \cup {0}
<1>1. CASE Download
  <2>1. ASSUME NEW k \in Key, GetFile_(k) \/ Request(k) \/ CmdGetFile(k) \/ NotAnswered(k)
                              \/ DccOffer(k)
        PROVE  limit' = limit
    BY <2>1, Zenon DEF GetFile_, Request, CmdGetFile, NotAnswered, DccOffer
  <2>2. ASSUME NEW k \in Key, CmdToomanyfiles(k) PROVE limit' \in Limits
    BY <2>2, Zenon DEF CmdToomanyfiles
  <2>3. DccGet => limit' = limit  BY Zenon DEF DccGet
  <2>4. ASSUME NEW s \in Fd, NapGetfilestart(s) \/ NapGetfile(s) \/ NapFirewallGet(s)
        PROVE  limit' = limit
    BY <2>4, Zenon DEF NapGetfilestart, NapGetfile, NapFirewallGet
  <2> QED  BY <1>1, <2>1, <2>2, <2>3, <2>4, Zenon DEF Download
<1>2. Upload => limit' = limit
  BY Zenon DEF Upload, CmdFilerequest, CmdAccepterror, CmdFirewallRequest, NapfileRead,
               NapfileSendfile, NapFirewallStart1
<1>3. Link => limit' = limit  BY Zenon DEF Link, NaplinkHandlelink, NaplinkHandleconnect
<1>4. Sweep => limit' = limit \/ limit' = 0
  BY Zenon DEF Sweep, NapDel, CleanQueue, CleanQueueOf, RunCleanSockets, QueueRemove,
               CmdNosuchnick
<1> QED  BY <1>1, <1>2, <1>3, <1>4 DEF Next

\* The inductive invariant: behind the heads are chains of different records,
\* linked both ways, whose connections lead back to them.
IInv == Resting(mem, asked) /\ limit \in Limits \cup {0}

\* It holds of every state of the runs with ordinary behaviours and faults.
THEOREM TransfersInvariant ==
    ASSUME Happens \subseteq Covered
    PROVE  Spec => []IInv
<1>1. Init => IInv
  <2> SUFFICES ASSUME Init PROVE IInv
    OBVIOUS
  <2>1. Resting(mem, asked)  BY InitKept
  <2>2. limit = 0  BY DEF Init
  <2> QED  BY <2>1, <2>2, Zenon DEF IInv
<1>2. IInv /\ [Next]_dvars => IInv'
  <2> SUFFICES ASSUME IInv, [Next]_dvars PROVE IInv'
    OBVIOUS
  <2>1. Resting(mem, asked) /\ limit \in Limits \cup {0}  BY Zenon DEF IInv
  <2>2. CASE Next
    <3>1. Resting(mem', asked')  BY <2>1, <2>2, NextKept
    <3>2. limit' \in Limits \cup {0}  BY <2>1, <2>2, LimitKept
    <3> QED  BY <3>1, <3>2, Zenon DEF IInv
  <2>3. CASE UNCHANGED dvars
    <3>1. mem' = mem /\ asked' = asked /\ limit' = limit  BY <2>3, Zenon DEF dvars
    <3> QED  BY <2>1, <3>1, Zenon DEF IInv
  <2> QED  BY <2>2, <2>3
<1> QED  BY <1>1, <1>2, PTL DEF Spec

\* What is on the lists is what the invariant speaks of.
LEMMA ListsAre ==
    ASSUME NEW T, NEW Q, NEW F, State(mem, T, Q, F, asked)
    PROVE  /\ Transferring = T /\ InQueue = Q /\ Finished = F
           /\ mem \in Worlds /\ DoubleChain(mem.gf, mem.transfer_struct, T)
           /\ DoubleChain(mem.gf, mem.Queued, Q) /\ T \cup Q \cup F \subseteq mem.live
           /\ T \cap Q = {} /\ T \cap F = {} /\ Q \cap F = {}
           /\ Wired(mem.sock_manager, mem.gf, mem.kernel, T)
<1> DEFINE w == mem
<1>1. World(w, T, T, Q, F) /\ T \cap Q = {} /\ T \cap F = {} /\ Q \cap F = {}
      /\ T \cup Q \cup F \subseteq w.live /\ w \in Worlds
  BY StateParts
<1>2. On(w, w.transfer_struct) = T /\ On(w, w.Queued) = Q /\ On(w, w.finished_struct) = F
  BY <1>1, InProgressIs
<1>3. /\ DoubleChain(w.gf, w.transfer_struct, T) /\ DoubleChain(w.gf, w.Queued, Q)
      /\ Wired(w.sock_manager, w.gf, w.kernel, T)
  BY <1>1, Zenon DEF World
<1> QED  BY <1>1, <1>2, <1>3 DEF Transferring, InQueue, Finished

\* What the invariant says of the lists.
LEMMA MemoryIsSound ==
    ASSUME IInv
    PROVE  MemorySound
<1>1. PICK T, Q, F : State(mem, T, Q, F, asked)  BY Zenon DEF IInv, Resting
<1>2. /\ Transferring = T /\ InQueue = Q /\ Finished = F
      /\ mem \in Worlds /\ DoubleChain(mem.gf, mem.transfer_struct, T)
      /\ DoubleChain(mem.gf, mem.Queued, Q) /\ T \cup Q \cup F \subseteq mem.live
      /\ T \cap Q = {} /\ T \cap F = {} /\ Q \cap F = {}
      /\ Wired(mem.sock_manager, mem.gf, mem.kernel, T)
  BY <1>1, ListsAre
<1>3. ASSUME NEW head, NEW S, On(mem, head) = S, DoubleChain(mem.gf, head, S)
      PROVE  Linked(head)
  BY <1>3, Zenon DEF Linked, DoubleChain
<1>4. ListsSound
  BY <1>2, <1>3, Zenon DEF ListsSound, Transferring, InQueue
<1>5. OneList  BY <1>2 DEF OneList
<1>6. Infos \subseteq mem.live
  <2> SUFFICES ASSUME NEW s \in Registered(mem.sock_manager), Info(mem, s) # Nil
               PROVE  Info(mem, s) \in T
    BY <1>2 DEF Infos
  <2> DEFINE w == mem
  <2>1. World(w, T, T, Q, F)  BY <1>1, StateParts
  <2>2. s \in Fd  BY DEF Registered
  <2>3. /\ Info(w, s) = w.sock_manager.slot[s].info
        /\ Info(w, s) # Nil =>
             /\ Info(w, s) \in T /\ w.gf[Info(w, s)].socket = s
             /\ ~w.gf[Info(w, s)].deleted /\ s \in Registered(w.sock_manager)
    BY <2>1, <2>2, InfoWorld
  <2> QED  BY <2>3
<1>7. NoDangling  BY <1>2, <1>6 DEF NoDangling
<1> QED  BY <1>4, <1>5, <1>7, Zenon DEF MemorySound

\* The lists stay linked both ways and have no record in common, and neither
\* they nor the sockets lead to a freed record (list.c 251, files.c 399-421),
\* whatever the number of records, files and descriptors.
THEOREM TransfersMemorySound ==
    ASSUME Happens \subseteq Covered
    PROVE  Spec => []MemorySound
<1>1. IInv => MemorySound  BY MemoryIsSound
<1>2. Spec => []IInv  BY TransfersInvariant
<1> QED  BY <1>1, <1>2, PTL

\* What the invariant says of types.
LEMMA TypesAre ==
    ASSUME IInv
    PROVE  TypeOK
<1>1. PICK T, Q, F : State(mem, T, Q, F, asked)  BY Zenon DEF IInv, Resting
<1> DEFINE w == mem
           q == asked
           gf == w.gf
<1>2. w \in Worlds  BY <1>1, StateParts
<1>3. GetsKept(gf, T, Q, q)  BY <1>1, Zenon DEF State
<1> HIDE DEF gf
<1>4. q \in Asks  BY <1>3, GetsParts
<1>5. q \in [Key -> 0 .. AskBound]  BY <1>4, AskBoundAssumption DEF Asks
<1>6. TableType(w.sock_manager, Cell \cup {Nil}, Handlers \cup {Nil}, {0})
  <2> DEFINE m == w.sock_manager
  <2>1. m \in Tables  BY <1>2 DEF Worlds
  <2> HIDE DEF m
  <2>2. Sound(m, Cell \cup {Nil}, Handlers \cup {Nil}, {0})  BY <2>1, TablesSound
  <2>3. TableType(m, Cell \cup {Nil}, Handlers \cup {Nil}, {0})  BY <2>2, Zenon DEF Sound
  <2> QED  BY <2>3 DEF m
<1>7. /\ w.gf \in [Cell -> GetFile] /\ w.live \subseteq Cell
      /\ w.transfer_struct \in Cell \cup {Nil} /\ w.finished_struct \in Cell \cup {Nil}
      /\ w.Queued \in Cell \cup {Nil} /\ w.kernel \subseteq Fd
      /\ w.gets \in -SentBound .. SentBound /\ w.sends \in -SentBound .. SentBound
  BY <1>2 DEF Worlds, Counts
<1>8. {w.transfer_struct, w.finished_struct, w.Queued} \subseteq Cell \cup {Nil}
  BY <1>7
<1>9. limit \in Limits \cup {0}  BY Zenon DEF IInv
<1> QED  BY <1>5, <1>6, <1>7, <1>8, <1>9, Zenon DEF TypeOK

\* The pointers lead to records or are NULL, the table of sockets holds what a
\* slot may hold, and the counts of requests and reports are in range.
THEOREM TransfersTyped ==
    ASSUME Happens \subseteq Covered
    PROVE  Spec => []TypeOK
<1>1. IInv => TypeOK  BY TypesAre
<1>2. Spec => []IInv  BY TransfersInvariant
<1> QED  BY <1>1, <1>2, PTL

\* What the invariant says of the sockets.
LEMMA SocketsAre ==
    ASSUME IInv
    PROVE  SocketsMatch
<1>1. PICK T, Q, F : State(mem, T, Q, F, asked)  BY Zenon DEF IInv, Resting
<1>2. Transferring = T /\ Wired(mem.sock_manager, mem.gf, mem.kernel, T)  BY <1>1, ListsAre
<1> DEFINE w == mem
<1>3. World(w, T, T, Q, F)  BY <1>1, StateParts
<1>4. ASSUME NEW c \in T, w.gf[c].socket # -1
      PROVE  w.gf[c].socket \in Registered(w.sock_manager) /\ Info(w, w.gf[c].socket) = c
  <2> DEFINE s == w.gf[c].socket
  <2>1. s \in Fd /\ w.sock_manager.slot[s].info = c  BY <1>2, <1>4, Zenon DEF Wired
  <2>2. c # Nil
    <3>1. w.live \subseteq Cell /\ T \cup Q \cup F \subseteq w.live  BY <1>1, StateParts
    <3> QED  BY <3>1, CellAssumption
  <2> HIDE DEF s, w
  <2>3. /\ Info(w, s) = w.sock_manager.slot[s].info
        /\ Info(w, s) # Nil =>
             /\ Info(w, s) \in T /\ w.gf[Info(w, s)].socket = s
             /\ ~w.gf[Info(w, s)].deleted /\ s \in Registered(w.sock_manager)
    BY <1>3, <2>1, InfoWorld
  <2> QED  BY <2>1, <2>2, <2>3 DEF s
<1>5. ASSUME NEW s \in Registered(w.sock_manager), Info(w, s) # Nil
      PROVE  w.gf[Info(w, s)].socket = s
  <2>1. s \in Fd  BY DEF Registered
  <2> HIDE DEF w
  <2>2. /\ Info(w, s) = w.sock_manager.slot[s].info
        /\ Info(w, s) # Nil =>
             /\ Info(w, s) \in T /\ w.gf[Info(w, s)].socket = s
             /\ ~w.gf[Info(w, s)].deleted /\ s \in Registered(w.sock_manager)
    BY <1>3, <2>1, InfoWorld
  <2> QED  BY <1>5, <2>2
<1>6. ASSUME NEW s \in Registered(w.sock_manager), NEW t \in Registered(w.sock_manager),
             Info(w, s) # Nil, s # t
      PROVE  Info(w, s) # Info(w, t)
  <2> SUFFICES ASSUME Info(w, s) = Info(w, t) PROVE FALSE
    OBVIOUS
  <2>1. w.gf[Info(w, s)].socket = s /\ w.gf[Info(w, t)].socket = t  BY <1>5, <1>6
  <2> QED  BY <1>6, <2>1
<1> QED  BY <1>2, <1>4, <1>6, Zenon DEF SocketsMatch, w

\* A transfer's descriptor is registered and its slot leads back to the
\* transfer, and to no other: the sweeps close the right connection.
THEOREM TransfersMatchSockets ==
    ASSUME Happens \subseteq Covered
    PROVE  Spec => []SocketsMatch
<1>1. IInv => SocketsMatch  BY SocketsAre
<1>2. Spec => []IInv  BY TransfersInvariant
<1> QED  BY <1>1, <1>2, PTL

\* Every open descriptor is known to the socket manager, unless a connection may
\* fail before it is registered: connect(), or the greeting of one accepted.
THEOREM TransfersLeakNoSocket ==
    ASSUME Happens \subseteq Covered \ {"refused", "ungreeted"}
    PROVE  Spec => []NoLeakedSocket
<1>1. Happens \subseteq Covered /\ Tight  BY DEF Tight
<1>2. ASSUME IInv PROVE NoLeakedSocket
  <2>1. PICK T, Q, F : State(mem, T, Q, F, asked)  BY <1>2, Zenon DEF IInv, Resting
  <2>2. Wired(mem.sock_manager, mem.gf, mem.kernel, T)  BY <2>1, ListsAre
  <2> QED  BY <1>1, <2>2, Zenon DEF Wired, NoLeakedSocket
<1>3. IInv => NoLeakedSocket  BY <1>2
<1>4. Spec => []IInv  BY <1>1, TransfersInvariant
<1> QED  BY <1>3, <1>4, PTL

\* In the ordinary course every record allocated is on a list.
THEOREM TransfersLoseNone ==
    ASSUME Ordinary
    PROVE  Spec => []NoneLost
<1>1. Happens \subseteq Covered  BY DEF Ordinary, Covered
<1>2. ASSUME IInv PROVE NoneLost
  <2>1. PICK T, Q, F : State(mem, T, Q, F, asked)  BY <1>2, Zenon DEF IInv, Resting
  <2>2. Transferring = T /\ InQueue = Q /\ Finished = F  BY <2>1, ListsAre
  <2>3. mem.live \subseteq T \cup Q \cup F  BY <2>1, StateParts
  <2> QED  BY <2>2, <2>3 DEF NoneLost
<1>3. IInv => NoneLost  BY <1>2
<1>4. Spec => []IInv  BY <1>1, TransfersInvariant
<1> QED  BY <1>3, <1>4, PTL

\* No more uploads than SEND_LIMIT are accepted (send.c 191-202).
THEOREM TransfersLimitSends ==
    ASSUME Happens \subseteq Covered
    PROVE  Spec => []SendsLimited
<1>1. ASSUME IInv PROVE SendsLimited
  <2>1. PICK T, Q, F : State(mem, T, Q, F, asked)  BY <1>1, Zenon DEF IInv, Resting
  <2>2. Transferring = T /\ T \cup Q \cup F \subseteq mem.live  BY <2>1, ListsAre
  <2> DEFINE gf == mem.gf
  <2>3. SendsKept(gf, T)  BY <2>1, Zenon DEF State
  <2>4. Live("send") \cap Transferring = Sends(gf, T)  BY <2>2 DEF Live, Sends
  <2> QED  BY <2>3, <2>4, Zenon DEF SendsKept, SendsLimited
<1>2. IInv => SendsLimited  BY <1>1
<1>3. Spec => []IInv  BY TransfersInvariant
<1> QED  BY <1>2, <1>3, PTL
=============================================================================
