-------------------------- MODULE TransferLife_proofs --------------------------
(***************************************************************************)
(* That Transfers implements TransferLife, and that the server is told     *)
(* right, for any number of records, files and descriptors.  The proofs go *)
(* along the handlers once more, with the worlds of Transfers_proofs, in   *)
(* the ordinary course (Plain).                                            *)
(*                                                                         *)
(*   Orderly     the counts are those of the transfers that move data, and *)
(*               no handler reads a connection that is another kind's      *)
(*   Ready       a world in order between two handlers                     *)
(*   Lives       a handler moved one transfer on, as TransferLife allows   *)
(*               (Moves), or freed what is over or put off (Forgets)       *)
(*   Settled     a state in order: the inductive invariant                 *)
(*   Stepped     a step between two such states                            *)
(*   LifeStep    what TransferLife sees of it: phases and connections      *)
(*                                                                         *)
(* A handler gets a lemma that says that it Lives (GetFileLives, ...), and *)
(* NextLives has one step for each.                                        *)
(***************************************************************************)
EXTENDS Transfers_proofs

----------------------------------------------------------------------------
(* The life of a transfer *)

\* What may happen for the server to be told right.
Plain == Happens \subseteq {"queue", "gone"}

\* What the phase of a record depends on, and the counts.
Same(r, q) ==
    /\ q.kind = r.kind /\ q.socket = r.socket
    /\ r.socket # -1 => q.write = r.write /\ q.count = r.count

\* The file of a connected download is open once its size is known.
OpenAt(r) == r.kind = "get" /\ r.socket # -1 => (r.write <=> ~r.count)

Opens(gf, T) == \A c \in T : OpenAt(gf[c])

Unnamed == Handlers \ {"nap_getfilestart", "nap_getfile", "napfile_sendfile",
                        "nap_firewall_start", "nap_firewall_start1"}
Getting == {"nap_getfilestart", "nap_getfile"}
Sending == {"napfile_read", "napfile_sendfile"}

\* The handler f suits a socket that leads to c.
Suits(f, c, gf) ==
    f \in IF c = Nil THEN Unnamed ELSE IF gf[c].kind = "get" THEN Getting ELSE Sending

Suited(m, gf) == \A s \in Registered(m) : Suits(m.slot[s].func_read, m.slot[s].info, gf)

\* The transfers that move data.
MovesAt(r, kind) == r.kind = kind /\ r.socket # -1 /\ (r.kind = "get" => ~r.count)

Moving(gf, T, kind) == {c \in T : MovesAt(gf[c], kind)}

Counted(w, T) == /\ w.gets = Cardinality(Moving(w.gf, T, "get"))
                 /\ w.sends = Cardinality(Moving(w.gf, T, "send"))

\* The server has been told of the transfers that move data, and no handler is
\* that of another kind of transfer.
Orderly(w, T) == Opens(w.gf, T) /\ Suited(w.sock_manager, w.gf) /\ Counted(w, T)

\* The phase of a record and the connection it has.
PhaseIn(gf, T, Q, F, c) ==
    IF c \in Q THEN "put_off" ELSE IF c \in F THEN "ended" ELSE IF c \notin T THEN "none"
    ELSE IF gf[c].socket = -1 THEN "wanted"
    ELSE IF gf[c].kind = "get" /\ gf[c].count THEN "connected" ELSE "moving"

OverIn(gf, T, c) == IF c \in T THEN gf[c].socket ELSE -1

\* What may become of one transfer in a step.
Allowed(p, r, o, s) ==
    \/ p \in {"none", "put_off"} /\ r = "wanted" /\ s = o
    \/ p = "wanted" /\ r = "put_off" /\ s = o
    \/ p = "wanted" /\ r = "connected" /\ s \in Fd
    \/ p = "wanted" /\ r = "moving" /\ s \in Fd
    \/ p = "connected" /\ r = "moving" /\ s = o
    \/ p \in {"connected", "moving"} /\ r = "ended" /\ s = -1

\* All but c stay as they are.
OthersStay(w, T, Q, F, v, T1, Q1, F1, c) ==
    \A d \in Cell : d # c =>
        /\ d \in T1 <=> d \in T
        /\ d \in Q1 <=> d \in Q
        /\ d \in F1 <=> d \in F
        /\ d \in T => Same(w.gf[d], v.gf[d])

\* One transfer takes a step of its life.
Moves(w, T, Q, F, v, T1, Q1, F1, c) ==
    /\ OthersStay(w, T, Q, F, v, T1, Q1, F1, c)
    /\ Allowed(PhaseIn(w.gf, T, Q, F, c), PhaseIn(v.gf, T1, Q1, F1, c),
               OverIn(w.gf, T, c), OverIn(v.gf, T1, c))

\* Records that are over, or wait, are freed; or nothing happens.
Forgets(w, T, Q, F, v, T1, Q1, F1) ==
    /\ T1 = T /\ Q1 \subseteq Q /\ F1 \subseteq F
    /\ \A d \in T : Same(w.gf[d], v.gf[d])

\* A handler that leaves v has taken a step of TransferLife, or none.
Lives(w, T, Q, F, v) ==
    \E T1, Q1, F1 :
        /\ World(v, T1, T1, Q1, F1) /\ Orderly(v, T1)
        /\ \/ \E c \in Cell : Moves(w, T, Q, F, v, T1, Q1, F1, c)
           \/ Forgets(w, T, Q, F, v, T1, Q1, F1)

\* The counts after a report.
Told1(w, v, kind, d) ==
    /\ v.gets = IF kind = "get" THEN Clip(w.gets + d) ELSE w.gets
    /\ v.sends = IF kind = "send" THEN Clip(w.sends + d) ELSE w.sends

LEMMA SameTrans ==
    ASSUME NEW r, NEW q, NEW s, Same(r, q), Same(q, s)
    PROVE  Same(r, s)
  BY Zenon DEF Same

LEMMA SameOf ==
    ASSUME NEW gf, NEW h
    PROVE  /\ SameData(gf, h) => \A d \in Cell : Same(gf[d], h[d])
           /\ \A d \in Cell : h[d] = gf[d] => Same(gf[d], h[d])
  BY Zenon DEF Same, SameData

\* What is the same has the same part in all this.
LEMMA SameParts ==
    ASSUME NEW r, NEW q, Same(r, q)
    PROVE  /\ OpenAt(r) => OpenAt(q)
           /\ \A kind : MovesAt(q, kind) <=> MovesAt(r, kind)
<1>1. /\ q.kind = r.kind /\ q.socket = r.socket
      /\ r.socket # -1 => q.write = r.write /\ q.count = r.count
  BY Zenon DEF Same
<1> QED  BY <1>1, Zenon DEF OpenAt, MovesAt

\* The sets counted change by c alone.
LEMMA MovingOthers ==
    ASSUME NEW w, NEW T, NEW Q, NEW F, NEW v, NEW T1, NEW Q1, NEW F1, NEW c,
           T \subseteq Cell, T1 \subseteq Cell,
           OthersStay(w, T, Q, F, v, T1, Q1, F1, c), NEW kind
    PROVE  Moving(v.gf, T1, kind) \ {c} = Moving(w.gf, T, kind) \ {c}
<1>1. ASSUME NEW d, d # c
      PROVE  d \in Moving(v.gf, T1, kind) <=> d \in Moving(w.gf, T, kind)
  <2>1. CASE d \notin Cell  BY <2>1 DEF Moving
  <2>2. CASE d \in Cell
    <3>1. (d \in T1 <=> d \in T) /\ (d \in T => Same(w.gf[d], v.gf[d]))
      BY <1>1, <2>2, Zenon DEF OthersStay
    <3>2. d \in T => (MovesAt(v.gf[d], kind) <=> MovesAt(w.gf[d], kind))
      BY <3>1, SameParts, Zenon
    <3> QED  BY <3>1, <3>2, Zenon DEF Moving
  <2> QED  BY <2>1, <2>2
<1> QED  BY <1>1

\* One more, one less, or as many.
LEMMA CountedOne ==
    ASSUME NEW S, NEW R, NEW c, S \subseteq Cell, R \subseteq Cell, R \ {c} = S \ {c}
    PROVE  /\ Cardinality(S) \in 0 .. Depth /\ Cardinality(R) \in 0 .. Depth
           /\ (c \in R <=> c \in S) => Cardinality(R) = Cardinality(S)
           /\ c \in R /\ c \notin S => Cardinality(R) = Cardinality(S) + 1
           /\ c \notin R /\ c \in S => Cardinality(R) = Cardinality(S) - 1
<1>1. IsFiniteSet(Cell) /\ IsFiniteSet(S) /\ IsFiniteSet(R)
  BY CellAssumption, FS_Subset
<1>2. /\ Cardinality(S) \in Nat /\ Cardinality(R) \in Nat /\ Depth \in Nat
      /\ Cardinality(S) <= Depth /\ Cardinality(R) <= Depth
  <2>1. Cardinality(S) <= Cardinality(Cell) /\ Cardinality(R) <= Cardinality(Cell)
    BY <1>1, FS_Subset
  <2>2. /\ Cardinality(S) \in Nat /\ Cardinality(R) \in Nat /\ Cardinality(Cell) \in Nat
    BY <1>1, FS_CardinalityType
  <2> QED  BY <2>1, <2>2 DEF Depth
<1>3. ASSUME c \in R <=> c \in S PROVE Cardinality(R) = Cardinality(S)
  <2>1. R = S  BY <1>3
  <2> QED  BY <2>1
<1>4. ASSUME c \in R, c \notin S PROVE Cardinality(R) = Cardinality(S) + 1
  <2>1. R = S \cup {c}  BY <1>4
  <2> QED  BY <1>1, <1>4, <2>1, FS_AddElement
<1>5. ASSUME c \notin R, c \in S PROVE Cardinality(R) = Cardinality(S) - 1
  <2>1. S = R \cup {c}  BY <1>5
  <2>2. Cardinality(S) = Cardinality(R) + 1  BY <1>1, <1>5, <2>1, FS_AddElement
  <2> QED  BY <1>2, <2>2
<1> QED  BY <1>2, <1>3, <1>4, <1>5

\* A record is among those that move data of a kind.
Among(gf, T, c, kind) == c \in T /\ MovesAt(gf[c], kind)

\* A count n becomes m as the record that did, or did not, count does or does not.
Tally(n, m, a, b) ==
    \/ (a <=> b) /\ m = n
    \/ ~a /\ b /\ m = Clip(n + 1)
    \/ a /\ ~b /\ m = Clip(n - 1)

\* A world in order: what a handler finds.
Ready(w, T, Q, F) == World(w, T, T, Q, F) /\ Orderly(w, T) /\ Depth <= SentBound

\* All records but c are as they were.
Others(w, v, c) == \A d \in Cell : d # c => Same(w.gf[d], v.gf[d])

\* The count is the number of those that move data.
LEMMA TallyCounts ==
    ASSUME NEW S, NEW R, NEW c, S \subseteq Cell, R \subseteq Cell, R \ {c} = S \ {c},
           Depth <= SentBound, NEW n, n = Cardinality(S), NEW m,
           Tally(n, m, c \in S, c \in R)
    PROVE  m = Cardinality(R)
<1>1. /\ Cardinality(S) \in 0 .. Depth /\ Cardinality(R) \in 0 .. Depth
      /\ (c \in R <=> c \in S) => Cardinality(R) = Cardinality(S)
      /\ c \in R /\ c \notin S => Cardinality(R) = Cardinality(S) + 1
      /\ c \notin R /\ c \in S => Cardinality(R) = Cardinality(S) - 1
  BY CountedOne
<1>2. Depth \in Nat /\ SentBound \in Nat  BY NilNoCell, SentBoundAssumption
<1>3. \A i \in 0 .. Depth : Clip(i) = i  BY <1>2 DEF Clip
<1>4. CASE (c \in S <=> c \in R) /\ m = n  BY <1>1, <1>4
<1>5. CASE c \notin S /\ c \in R /\ m = Clip(n + 1)  BY <1>1, <1>3, <1>5
<1>6. CASE c \in S /\ c \notin R /\ m = Clip(n - 1)  BY <1>1, <1>3, <1>6
<1> QED  BY <1>4, <1>5, <1>6, Zenon DEF Tally

\* A handler that moves one transfer on.
LEMMA OneLives ==
    ASSUME NEW w, NEW T, NEW Q, NEW F, Ready(w, T, Q, F),
           NEW v, NEW T1, NEW Q1, NEW F1, World(v, T1, T1, Q1, F1),
           NEW c \in Cell, OthersStay(w, T, Q, F, v, T1, Q1, F1, c),
           c \in T1 => OpenAt(v.gf[c]), Suited(v.sock_manager, v.gf),
           Tally(w.gets, v.gets, Among(w.gf, T, c, "get"), Among(v.gf, T1, c, "get")),
           Tally(w.sends, v.sends, Among(w.gf, T, c, "send"), Among(v.gf, T1, c, "send")),
           Allowed(PhaseIn(w.gf, T, Q, F, c), PhaseIn(v.gf, T1, Q1, F1, c),
                   OverIn(w.gf, T, c), OverIn(v.gf, T1, c))
    PROVE  Lives(w, T, Q, F, v)
<1>1. T \subseteq Cell /\ T1 \subseteq Cell  BY WorldParts DEF Ready
<1>2. Opens(v.gf, T1)
  <2> SUFFICES ASSUME NEW d \in T1, d # c PROVE OpenAt(v.gf[d])
    BY Zenon DEF Opens
  <2>1. d \in T /\ Same(w.gf[d], v.gf[d])  BY <1>1, Zenon DEF OthersStay
  <2>2. OpenAt(w.gf[d])  BY <2>1, Zenon DEF Ready, Orderly, Opens
  <2> QED  BY <2>1, <2>2, SameParts, Zenon
<1>3. /\ w.gets = Cardinality(Moving(w.gf, T, "get"))
      /\ w.sends = Cardinality(Moving(w.gf, T, "send"))
  BY Zenon DEF Ready, Orderly, Counted
<1>4. ASSUME NEW kind, NEW n, n = Cardinality(Moving(w.gf, T, kind)), NEW m,
             Tally(n, m, Among(w.gf, T, c, kind), Among(v.gf, T1, c, kind))
      PROVE  m = Cardinality(Moving(v.gf, T1, kind))
  <2> DEFINE S == Moving(w.gf, T, kind)
             R == Moving(v.gf, T1, kind)
  <2>1. R \ {c} = S \ {c}  BY <1>1, MovingOthers
  <2>2. S \subseteq Cell /\ R \subseteq Cell  BY <1>1 DEF Moving
  <2>3. (c \in S <=> Among(w.gf, T, c, kind)) /\ (c \in R <=> Among(v.gf, T1, c, kind))
    BY DEF Moving, Among
  <2>4. n = Cardinality(S)  BY <1>4
  <2> HIDE DEF S, R
  <2>5. Tally(n, m, c \in S, c \in R)  BY <1>4, <2>3, Zenon DEF Tally
  <2>6. Depth <= SentBound  BY DEF Ready
  <2> QED  BY <2>1, <2>2, <2>4, <2>5, <2>6, TallyCounts DEF R
<1>5. Counted(v, T1)  BY <1>3, <1>4, Zenon DEF Counted
<1>6. Orderly(v, T1)  BY <1>2, <1>5, Zenon DEF Orderly
<1>7. Moves(w, T, Q, F, v, T1, Q1, F1, c)  BY Zenon DEF Moves
<1> QED  BY <1>6, <1>7, Zenon DEF Lives

\* The sets of a world, and what an entry of them is.
LEMMA ReadyParts ==
    ASSUME NEW w, NEW T, NEW Q, NEW F, Ready(w, T, Q, F)
    PROVE  /\ World(w, T, T, Q, F) /\ w \in Worlds /\ w.gf \in [Cell -> GetFile]
           /\ w.sock_manager \in Tables
           /\ T \subseteq Cell /\ Q \subseteq Cell /\ F \subseteq Cell
           /\ T \cap Q = {} /\ T \cap F = {} /\ Q \cap F = {} /\ T \cup Q \cup F \subseteq w.live
           /\ \A d \in T : ~w.gf[d].deleted
           /\ \A d \in Q : w.gf[d].socket = -1
           /\ \A d \in Cell : w.gf[d].kind \in {"get", "send"}
                              /\ w.gf[d].socket \in Fd \cup {-1}
           /\ Suited(w.sock_manager, w.gf) /\ Opens(w.gf, T)
<1>1. World(w, T, T, Q, F) /\ Orderly(w, T)  BY DEF Ready
<1>2. /\ w \in Worlds /\ w.gf \in [Cell -> GetFile] /\ w.sock_manager \in Tables
      /\ T \cap Q = {} /\ T \cap F = {} /\ Q \cap F = {}
      /\ T \cup Q \cup F \subseteq w.live /\ w.live \subseteq Cell
  BY <1>1, WorldParts
<1>3. (\A d \in T : ~w.gf[d].deleted) /\ \A d \in Q : w.gf[d].socket = -1
  BY <1>1 DEF World, Kept, Silent
<1>4. \A d \in Cell : w.gf[d].kind \in {"get", "send"} /\ w.gf[d].socket \in Fd \cup {-1}
  BY <1>2, SocketsOf
<1> QED  BY <1>1, <1>2, <1>3, <1>4, Zenon DEF Orderly

\* The others stay on their lists, and as they are.
LEMMA OthersStayOf ==
    ASSUME NEW w, NEW T, NEW Q, NEW F, NEW v, NEW T1, NEW Q1, NEW F1, NEW c,
           Others(w, v, c), T1 \ {c} = T \ {c}, Q1 \ {c} = Q \ {c}, F1 \ {c} = F \ {c}
    PROVE  OthersStay(w, T, Q, F, v, T1, Q1, F1, c)
<1> SUFFICES ASSUME NEW d \in Cell, d # c
             PROVE  /\ d \in T1 <=> d \in T
                    /\ d \in Q1 <=> d \in Q
                    /\ d \in F1 <=> d \in F
                    /\ Same(w.gf[d], v.gf[d])
  BY Zenon DEF OthersStay
<1>1. Same(w.gf[d], v.gf[d])  BY Zenon DEF Others
<1>2. (d \in T1 <=> d \in T) /\ (d \in Q1 <=> d \in Q) /\ (d \in F1 <=> d \in F)  OBVIOUS
<1> QED  BY <1>1, <1>2

\* A record without a connection does not move data.
LEMMA IdleRecord ==
    ASSUME NEW gf, NEW T, NEW c, c \in T => gf[c].socket = -1
    PROVE  /\ \A kind : ~Among(gf, T, c, kind)
           /\ c \in T => OpenAt(gf[c])
           /\ OverIn(gf, T, c) = -1
  BY Zenon DEF Among, MovesAt, OpenAt, OverIn

\* A record that is new, or comes from the queue, is on transfer_struct.
LEMMA ComesLives ==
    ASSUME NEW w, NEW T, NEW Q, NEW F, Ready(w, T, Q, F),
           NEW c \in Cell, c \notin T, c \notin F,
           NEW v, NEW T1, T1 = T \cup {c}, NEW Q1, Q1 = Q \ {c}, World(v, T1, T1, Q1, F),
           Others(w, v, c), v.gf[c].socket = -1, Suited(v.sock_manager, v.gf), SameCounts(w, v)
    PROVE  Lives(w, T, Q, F, v)
<1>1. OthersStay(w, T, Q, F, v, T1, Q1, F, c)
  <2>1. T1 \ {c} = T \ {c} /\ Q1 \ {c} = Q \ {c}  OBVIOUS
  <2> QED  BY <2>1, OthersStayOf
<1>2. PhaseIn(w.gf, T, Q, F, c) \in {"none", "put_off"}  BY Zenon DEF PhaseIn
<1>3. PhaseIn(v.gf, T1, Q1, F, c) = "wanted"
  <2>1. c \in T1 /\ c \notin Q1  OBVIOUS
  <2> QED  BY <2>1, Zenon DEF PhaseIn
<1>4. Allowed(PhaseIn(w.gf, T, Q, F, c), PhaseIn(v.gf, T1, Q1, F, c),
              OverIn(w.gf, T, c), OverIn(v.gf, T1, c))
  BY <1>2, <1>3, IdleRecord, Zenon DEF Allowed
<1>5. /\ Tally(w.gets, v.gets, Among(w.gf, T, c, "get"), Among(v.gf, T1, c, "get"))
      /\ Tally(w.sends, v.sends, Among(w.gf, T, c, "send"), Among(v.gf, T1, c, "send"))
      /\ c \in T1 => OpenAt(v.gf[c])
  BY IdleRecord, Zenon DEF Tally, SameCounts
<1> QED  BY <1>1, <1>4, <1>5, OneLives

\* A download goes to the queue.
LEMMA PutOffLives ==
    ASSUME NEW w, NEW T, NEW Q, NEW F, Ready(w, T, Q, F),
           NEW c \in T, w.gf[c].socket = -1,
           NEW v, NEW T1, T1 = T \ {c}, NEW Q1, Q1 = Q \cup {c}, World(v, T1, T1, Q1, F),
           Others(w, v, c), Suited(v.sock_manager, v.gf), SameCounts(w, v)
    PROVE  Lives(w, T, Q, F, v)
<1>0. c \in Cell /\ c \notin Q /\ c \notin F  BY ReadyParts
<1>1. OthersStay(w, T, Q, F, v, T1, Q1, F, c)
  <2>1. T1 \ {c} = T \ {c} /\ Q1 \ {c} = Q \ {c}  OBVIOUS
  <2> QED  BY <2>1, OthersStayOf
<1>2. PhaseIn(w.gf, T, Q, F, c) = "wanted"  BY <1>0, Zenon DEF PhaseIn
<1>3. PhaseIn(v.gf, T1, Q1, F, c) = "put_off" /\ c \notin T1
  <2>1. c \in Q1 /\ c \notin T1  OBVIOUS
  <2> QED  BY <2>1, Zenon DEF PhaseIn
<1>4. Allowed(PhaseIn(w.gf, T, Q, F, c), PhaseIn(v.gf, T1, Q1, F, c),
              OverIn(w.gf, T, c), OverIn(v.gf, T1, c))
  BY <1>2, <1>3, IdleRecord, Zenon DEF Allowed
<1>5. /\ Tally(w.gets, v.gets, Among(w.gf, T, c, "get"), Among(v.gf, T1, c, "get"))
      /\ Tally(w.sends, v.sends, Among(w.gf, T, c, "send"), Among(v.gf, T1, c, "send"))
      /\ c \in T1 => OpenAt(v.gf[c])
  BY <1>3, IdleRecord, Zenon DEF Tally, SameCounts
<1> QED  BY <1>0, <1>1, <1>4, <1>5, OneLives

\* A download is connected.
LEMMA ConnectLives ==
    ASSUME NEW w, NEW T, NEW Q, NEW F, Ready(w, T, Q, F),
           NEW c \in T, w.gf[c].socket = -1,
           NEW v, World(v, T, T, Q, F), Others(w, v, c),
           v.gf[c].kind = "get", v.gf[c].socket \in Fd, v.gf[c].count, ~v.gf[c].write,
           Suited(v.sock_manager, v.gf), SameCounts(w, v)
    PROVE  Lives(w, T, Q, F, v)
<1>0. c \in Cell /\ c \notin Q /\ c \notin F  BY ReadyParts
<1>1. OthersStay(w, T, Q, F, v, T, Q, F, c)  BY OthersStayOf
<1>2. PhaseIn(w.gf, T, Q, F, c) = "wanted"  BY <1>0, Zenon DEF PhaseIn
<1>6. v.gf[c].socket # -1  BY FdFinite
<1>3. PhaseIn(v.gf, T, Q, F, c) = "connected" /\ OverIn(v.gf, T, c) = v.gf[c].socket
  BY <1>0, <1>6, Zenon DEF PhaseIn, OverIn
<1>4. Allowed(PhaseIn(w.gf, T, Q, F, c), PhaseIn(v.gf, T, Q, F, c),
              OverIn(w.gf, T, c), OverIn(v.gf, T, c))
  BY <1>2, <1>3, Zenon DEF Allowed
<1>7. \A kind : ~Among(v.gf, T, c, kind)  BY Zenon DEF Among, MovesAt
<1>5. /\ Tally(w.gets, v.gets, Among(w.gf, T, c, "get"), Among(v.gf, T, c, "get"))
      /\ Tally(w.sends, v.sends, Among(w.gf, T, c, "send"), Among(v.gf, T, c, "send"))
  BY <1>7, IdleRecord, Zenon DEF Tally, SameCounts
<1>8. OpenAt(v.gf[c])  BY Zenon DEF OpenAt
<1> QED  BY <1>0, <1>1, <1>4, <1>5, <1>8, OneLives

\* A transfer begins to move data, over the connection it has or one it gets, and
\* the server is told.
LEMMA BeginLives ==
    ASSUME NEW w, NEW T, NEW Q, NEW F, Ready(w, T, Q, F),
           NEW c \in T, NEW kind, w.gf[c].kind = kind,
           NEW v, World(v, T, T, Q, F), Others(w, v, c),
           v.gf[c].kind = kind, v.gf[c].socket \in Fd,
           kind = "get" => ~v.gf[c].count /\ v.gf[c].write,
           \/ w.gf[c].socket = -1
           \/ w.gf[c].socket = v.gf[c].socket /\ kind = "get" /\ w.gf[c].count,
           Suited(v.sock_manager, v.gf), Told1(w, v, kind, 1)
    PROVE  Lives(w, T, Q, F, v)
<1>0. c \in Cell /\ c \notin Q /\ c \notin F /\ kind \in {"get", "send"}  BY ReadyParts
<1>1. OthersStay(w, T, Q, F, v, T, Q, F, c)  BY OthersStayOf
<1>2. v.gf[c].socket # -1  BY FdFinite
<1>3. PhaseIn(v.gf, T, Q, F, c) = "moving" /\ OverIn(v.gf, T, c) = v.gf[c].socket
  BY <1>0, <1>2, Zenon DEF PhaseIn, OverIn
<1>4. Allowed(PhaseIn(w.gf, T, Q, F, c), PhaseIn(v.gf, T, Q, F, c),
              OverIn(w.gf, T, c), OverIn(v.gf, T, c))
  <2>1. CASE w.gf[c].socket = -1
    <3>1. PhaseIn(w.gf, T, Q, F, c) = "wanted"  BY <1>0, <2>1, Zenon DEF PhaseIn
    <3> QED  BY <1>3, <3>1, Zenon DEF Allowed
  <2>2. CASE w.gf[c].socket = v.gf[c].socket /\ kind = "get" /\ w.gf[c].count
    <3>1. PhaseIn(w.gf, T, Q, F, c) = "connected" /\ OverIn(w.gf, T, c) = v.gf[c].socket
      BY <1>0, <1>2, <2>2, Zenon DEF PhaseIn, OverIn
    <3> QED  BY <1>3, <3>1, Zenon DEF Allowed
  <2> QED  BY <2>1, <2>2
<1>5. \A k : ~Among(w.gf, T, c, k)
  BY <1>2, Zenon DEF Among, MovesAt
<1>6. \A k : Among(v.gf, T, c, k) <=> k = kind
  BY <1>2, Zenon DEF Among, MovesAt
<1>7. /\ Tally(w.gets, v.gets, Among(w.gf, T, c, "get"), Among(v.gf, T, c, "get"))
      /\ Tally(w.sends, v.sends, Among(w.gf, T, c, "send"), Among(v.gf, T, c, "send"))
  <2>1. CASE kind = "get"
    <3>1. v.gets = Clip(w.gets + 1) /\ v.sends = w.sends  BY <2>1, Zenon DEF Told1
    <3>2. Among(v.gf, T, c, "get") /\ ~Among(v.gf, T, c, "send")  BY <1>6, <2>1
    <3> QED  BY <1>5, <3>1, <3>2, Zenon DEF Tally
  <2>2. CASE kind = "send"
    <3>1. v.sends = Clip(w.sends + 1) /\ v.gets = w.gets  BY <2>2, Zenon DEF Told1
    <3>2. Among(v.gf, T, c, "send") /\ ~Among(v.gf, T, c, "get")  BY <1>6, <2>2
    <3> QED  BY <1>5, <3>1, <3>2, Zenon DEF Tally
  <2> QED  BY <1>0, <2>1, <2>2
<1>8. OpenAt(v.gf[c])  BY Zenon DEF OpenAt
<1> QED  BY <1>0, <1>1, <1>4, <1>7, <1>8, OneLives

\* What the server is told at the end of the record r.
Reported(w, v, r) ==
    \/ r.kind = "get" /\ r.count /\ SameCounts(w, v)
    \/ (r.kind = "get" => ~r.count) /\ Told1(w, v, r.kind, -1)

\* A transfer ends, its connection closed.
LEMMA EndLives ==
    ASSUME NEW w, NEW T, NEW Q, NEW F, Ready(w, T, Q, F),
           NEW c \in T, w.gf[c].socket # -1,
           NEW v, NEW T1, T1 = T \ {c}, NEW F1, F1 = F \cup {c}, World(v, T1, T1, Q, F1),
           Others(w, v, c), Suited(v.sock_manager, v.gf), Reported(w, v, w.gf[c])
    PROVE  Lives(w, T, Q, F, v)
<1>0. c \in Cell /\ c \notin Q /\ c \notin F /\ w.gf[c].kind \in {"get", "send"}
  BY ReadyParts
<1>1. OthersStay(w, T, Q, F, v, T1, Q, F1, c)
  <2>1. T1 \ {c} = T \ {c} /\ F1 \ {c} = F \ {c}  OBVIOUS
  <2> QED  BY <2>1, OthersStayOf
<1>2. c \in F1 /\ c \notin T1  OBVIOUS
<1>3. PhaseIn(v.gf, T1, Q, F1, c) = "ended" /\ OverIn(v.gf, T1, c) = -1
  BY <1>0, <1>2, Zenon DEF PhaseIn, OverIn
<1>4. Allowed(PhaseIn(w.gf, T, Q, F, c), PhaseIn(v.gf, T1, Q, F1, c),
              OverIn(w.gf, T, c), OverIn(v.gf, T1, c))
  <2>1. PhaseIn(w.gf, T, Q, F, c) \in {"connected", "moving"}
    BY <1>0, Zenon DEF PhaseIn
  <2> QED  BY <1>3, <2>1, Zenon DEF Allowed
<1>5. \A k : ~Among(v.gf, T1, c, k)  BY <1>2, Zenon DEF Among
<1>6. /\ Tally(w.gets, v.gets, Among(w.gf, T, c, "get"), Among(v.gf, T1, c, "get"))
      /\ Tally(w.sends, v.sends, Among(w.gf, T, c, "send"), Among(v.gf, T1, c, "send"))
  <2>1. CASE w.gf[c].kind = "get" /\ w.gf[c].count /\ SameCounts(w, v)
    <3>1. \A k : ~Among(w.gf, T, c, k)  BY <2>1, Zenon DEF Among, MovesAt
    <3> QED  BY <1>5, <2>1, <3>1, Zenon DEF Tally, SameCounts
  <2>2. CASE (w.gf[c].kind = "get" => ~w.gf[c].count) /\ Told1(w, v, w.gf[c].kind, -1)
    <3>1. \A k : Among(w.gf, T, c, k) <=> k = w.gf[c].kind
      BY <2>2, Zenon DEF Among, MovesAt
    <3>2. CASE w.gf[c].kind = "get"
      <4>1. v.gets = Clip(w.gets + -1) /\ v.sends = w.sends  BY <2>2, <3>2, Zenon DEF Told1
      <4>2. w.gets + -1 = w.gets - 1
        <5>1. w.gets \in Int  BY ReadyParts, SentBoundAssumption DEF Worlds, Counts
        <5> QED  BY <5>1
      <4>3. Among(w.gf, T, c, "get") /\ ~Among(w.gf, T, c, "send")  BY <3>1, <3>2
      <4> QED  BY <1>5, <4>1, <4>2, <4>3, Zenon DEF Tally
    <3>3. CASE w.gf[c].kind = "send"
      <4>1. v.sends = Clip(w.sends + -1) /\ v.gets = w.gets  BY <2>2, <3>3, Zenon DEF Told1
      <4>2. w.sends + -1 = w.sends - 1
        <5>1. w.sends \in Int  BY ReadyParts, SentBoundAssumption DEF Worlds, Counts
        <5> QED  BY <5>1
      <4>3. Among(w.gf, T, c, "send") /\ ~Among(w.gf, T, c, "get")  BY <3>1, <3>3
      <4> QED  BY <1>5, <4>1, <4>2, <4>3, Zenon DEF Tally
    <3> QED  BY <1>0, <3>2, <3>3
  <2> QED  BY <2>1, <2>2, Zenon DEF Reported
<1> QED  BY <1>0, <1>1, <1>2, <1>4, <1>6, OneLives

\* Nothing happens to what is on transfer_struct; the rest may be freed.
LEMMA ForgetLives ==
    ASSUME NEW w, NEW T, NEW Q, NEW F, Ready(w, T, Q, F),
           NEW v, NEW Q1, Q1 \subseteq Q, NEW F1, F1 \subseteq F, World(v, T, T, Q1, F1),
           \A d \in T : Same(w.gf[d], v.gf[d]), Suited(v.sock_manager, v.gf), SameCounts(w, v)
    PROVE  Lives(w, T, Q, F, v) /\ Orderly(v, T)
<1>1. Opens(v.gf, T)  BY SameParts, Zenon DEF Opens, Ready, Orderly
<1>2. ASSUME NEW kind PROVE Moving(v.gf, T, kind) = Moving(w.gf, T, kind)
  <2>1. \A d \in T : MovesAt(v.gf[d], kind) <=> MovesAt(w.gf[d], kind)
    BY SameParts, Zenon
  <2> QED  BY <2>1, Zenon DEF Moving
<1>3. Counted(v, T)  BY <1>2, Zenon DEF Counted, Ready, Orderly, SameCounts
<1>4. Orderly(v, T)  BY <1>1, <1>3, Zenon DEF Orderly
<1>5. Forgets(w, T, Q, F, v, T, Q1, F1)  BY Zenon DEF Forgets
<1> QED  BY <1>4, <1>5, Zenon DEF Lives

\* The handlers still suit what the sockets lead to.
LEMMA SuitedFrame ==
    ASSUME NEW w, NEW T, NEW Q, NEW F, World(w, T, T, Q, F), Suited(w.sock_manager, w.gf),
           NEW h, \A d \in T : h[d].kind = w.gf[d].kind,
           NEW n, \/ n = w.sock_manager
                  \/ \E s \in Fd : /\ OtherSlots(w.sock_manager, n, s)
                                   /\ s \in Registered(n) =>
                                        Suits(n.slot[s].func_read, n.slot[s].info, h)
    PROVE  Suited(n, h)
<1>1. ASSUME NEW s \in Registered(w.sock_manager), n.slot[s] = w.sock_manager.slot[s]
      PROVE  Suits(n.slot[s].func_read, n.slot[s].info, h)
  <2>1. Suits(n.slot[s].func_read, n.slot[s].info, w.gf)  BY <1>1, Zenon DEF Suited
  <2>2. n.slot[s].info # Nil => n.slot[s].info \in T
    <3>1. Wired(w.sock_manager, w.gf, w.kernel, T) /\ s \in Fd
      BY WorldParts DEF Registered
    <3> QED  BY <1>1, <3>1, Zenon DEF Wired
  <2> QED  BY <2>1, <2>2, Zenon DEF Suits
<1>2. CASE n = w.sock_manager  BY <1>1, <1>2, Zenon DEF Suited
<1>3. ASSUME NEW s \in Fd, OtherSlots(w.sock_manager, n, s),
             s \in Registered(n) => Suits(n.slot[s].func_read, n.slot[s].info, h)
      PROVE  Suited(n, h)
  <2> SUFFICES ASSUME NEW t \in Registered(n), t # s
               PROVE  Suits(n.slot[t].func_read, n.slot[t].info, h)
    BY <1>3, Zenon DEF Suited
  <2>1. n.slot[t] = w.sock_manager.slot[t] /\ t \in Registered(w.sock_manager)
    BY <1>3 DEF OtherSlots, Registered
  <2> QED  BY <1>1, <2>1
<1> QED  BY <1>2, <1>3

\* What leaves all other records as they were.
LEMMA OthersBy ==
    ASSUME NEW w, NEW u, NEW v, NEW c
    PROVE  /\ \A r : Writes(w, v, c, r) => Others(w, v, c)
           /\ (\A d \in Cell : d # c => v.gf[d] = w.gf[d]) => Others(w, v, c)
           /\ SameData(w.gf, v.gf) => Others(w, v, c)
           /\ v.gf = w.gf => Others(w, v, c)
           /\ Others(w, u, c) /\ Others(u, v, c) => Others(w, v, c)
<1>1. \A d \in Cell : v.gf[d] = w.gf[d] => Same(w.gf[d], v.gf[d])  BY Zenon DEF Same
<1>2. SameData(w.gf, v.gf) => \A d \in Cell : Same(w.gf[d], v.gf[d])  BY SameOf
<1>3. Others(w, u, c) /\ Others(u, v, c) => Others(w, v, c)  BY SameTrans, Zenon DEF Others
<1> QED  BY <1>1, <1>2, <1>3, Zenon DEF Others, Writes

\* The kinds of the records, too.
LEMMA KindsKept ==
    ASSUME NEW w, NEW v, NEW c, Others(w, v, c), NEW T, T \subseteq Cell,
           c \in T => v.gf[c].kind = w.gf[c].kind
    PROVE  \A d \in T : v.gf[d].kind = w.gf[d].kind
<1> SUFFICES ASSUME NEW d \in T, d # c PROVE v.gf[d].kind = w.gf[d].kind
  BY Zenon
<1>1. Same(w.gf[d], v.gf[d])  BY Zenon DEF Others
<1> QED  BY <1>1, Zenon DEF Same

\* A report changes the count of its kind.
LEMMA TellTold ==
    ASSUME NEW w \in Worlds, NEW kind \in {"get", "send"}, NEW d \in Int,
           NEW v, v = Tell(w, kind, d)
    PROVE  Told1(w, v, kind, d)
  BY DEF Tell, Told1, Worlds

\* The descriptor of a record on transfer_struct leads back to it.
LEMMA SocketLeads ==
    ASSUME NEW w, NEW T, NEW U, NEW Q, NEW F, World(w, T, U, Q, F), NEW c \in U,
           w.gf[c].socket # -1, NEW s, s = w.gf[c].socket
    PROVE  s \in Fd /\ Info(w, s) = c /\ s \in Registered(w.sock_manager) /\ c # Nil
<1>1. Wired(w.sock_manager, w.gf, w.kernel, U) /\ U \subseteq Cell  BY WorldParts
<1>2. s \in Fd /\ w.sock_manager.slot[s].info = c  BY <1>1, Zenon DEF Wired
<1>3. c # Nil  BY <1>1, NilNoCell
<1> QED  BY <1>2, <1>3, InfoWorld

\* create_and_do_get() and cmd_filerequest(): a record is wanted.
LEMMA NewLives ==
    ASSUME NEW w, NEW T, NEW Q, NEW F, Ready(w, T, Q, F),
           NEW c \in Cell \ w.live, NEW r, NewRecordType(r),
           NEW u, u = Allocate(w, c, r), NEW v, v = AddToTransferList(u, c)
    PROVE  Lives(w, T, Q, F, v)
<1>1. /\ World(w, T, T, Q, F) /\ w \in Worlds /\ T \subseteq Cell
      /\ Suited(w.sock_manager, w.gf) /\ T \cup Q \cup F \subseteq w.live
  BY ReadyParts
<1>2. c \notin T /\ c \notin Q /\ c \notin F  BY <1>1
<1>3. Allocated(w, T, T, Q, F, c, r, u)  BY <1>1, AllocateWorld
<1>4. World(u, T, T \cup {c}, Q, F) /\ Writes(w, u, c, r) /\ SameCounts(w, u)
  BY <1>3, Zenon DEF Allocated
<1>5. u.sock_manager = w.sock_manager  BY <1>1 DEF Allocate, Worlds
<1> DEFINE T1 == T \cup {c}
           Q1 == Q \ {c}
<1>6. /\ World(v, T1, T1, Q, F) /\ SameData(u.gf, v.gf)
      /\ v.sock_manager = u.sock_manager /\ v.gets = u.gets /\ v.sends = u.sends
  <2>1. c \in T1 \ T /\ T \cup {c} = T1  BY <1>2
  <2> QED  BY <1>4, <2>1, AddWorld
<1>7. Q1 = Q  BY <1>2
<1> HIDE DEF T1, Q1
<1>8. Others(w, v, c)
  <2>1. Others(w, u, c)  BY <1>4, OthersBy, Zenon
  <2>2. Others(u, v, c)  BY <1>6, OthersBy
  <2> QED  BY <2>1, <2>2, OthersBy, Zenon
<1>9. v.gf[c].socket = -1
  <2>1. u.gf[c] = r /\ r.socket = -1  BY <1>4, Zenon DEF Writes, NewRecordType
  <2>2. v.gf[c].socket = u.gf[c].socket  BY <1>6, Zenon DEF SameData
  <2> QED  BY <2>1, <2>2
<1>10. Suited(v.sock_manager, v.gf)
  <2>1. \A d \in T : v.gf[d].kind = w.gf[d].kind  BY <1>1, <1>2, <1>8, KindsKept
  <2> QED  BY <1>1, <1>5, <1>6, <2>1, SuitedFrame
<1>11. SameCounts(w, v)  BY <1>4, <1>6 DEF SameCounts
<1>12. World(v, T1, T1, Q1, F)  BY <1>6, <1>7
<1> QED  BY <1>2, <1>8, <1>9, <1>10, <1>11, <1>12, ComesLives DEF T1, Q1

\* /get.
LEMMA GetFileLives ==
    ASSUME NEW T, NEW Q, NEW F, Ready(mem, T, Q, F), NEW k \in Key, GetFile_(k)
    PROVE  Lives(mem, T, Q, F, mem')
<1>1. PICK c \in Cell \ mem.live :
         mem' = AddToTransferList(Allocate(mem, c, NewFile(k, "get")), c)
  BY DEF GetFile_
<1>2. NewRecordType(NewFile(k, "get"))  BY NewFileType
<1> QED  BY <1>1, <1>2, NewLives

\* cmd_filerequest().
LEMMA CmdFilerequestLives ==
    ASSUME NEW T, NEW Q, NEW F, Ready(mem, T, Q, F), NEW k \in Key, CmdFilerequest(k)
    PROVE  Lives(mem, T, Q, F, mem')
<1> DEFINE r(opened) == [NewFile(k, "send") EXCEPT !.write = opened]
<1>1. PICK c \in Cell \ mem.live, opened \in BOOLEAN :
         mem' = AddToTransferList(Allocate(mem, c, r(opened)), c)
  BY DEF CmdFilerequest
<1>2. NewRecordType(r(opened))
  <2>1. NewFile(k, "send") \in GetFile /\ NewFile(k, "send").socket = -1
        /\ ~NewFile(k, "send").deleted
    BY NewFileType
  <2>2. r(opened) \in GetFile /\ r(opened).socket = NewFile(k, "send").socket
        /\ r(opened).deleted = NewFile(k, "send").deleted
    BY <2>1 DEF GetFile
  <2> HIDE DEF r
  <2> QED  BY <2>1, <2>2, Zenon DEF NewRecordType
<1> HIDE DEF r
<1> QED  BY <1>1, <1>2, NewLives

\* nap_finished_file() of a record in hand, all else being as it was.
LEMMA FinishIn ==
    ASSUME NEW w, NEW T, NEW Q, NEW F, Ready(w, T, Q, F),
           NEW c \in T, w.gf[c].socket # -1, NEW s, s = w.gf[c].socket,
           NEW u, World(u, T \ {c}, T, Q, F), Others(w, u, c),
           u.sock_manager = w.sock_manager, u.gf[c].kind = w.gf[c].kind,
           NEW v, v = Finish(u, s)
    PROVE  /\ World(v, T \ {c}, T \ {c}, Q, F \cup {c}) /\ Others(w, v, c)
           /\ Suited(v.sock_manager, v.gf) /\ SameCounts(u, v)
<1>1. /\ World(w, T, T, Q, F) /\ w \in Worlds /\ T \subseteq Cell
      /\ Suited(w.sock_manager, w.gf) /\ w.sock_manager \in Tables
  BY ReadyParts
<1>2. s \in Fd /\ Info(w, s) = c /\ c # Nil  BY <1>1, SocketLeads
<1>3. Info(u, s) = c  BY <1>1, <1>2 DEF Info
<1>4. /\ World(v, T \ {c}, T \ {c}, Q, F \cup {c})
      /\ \A d \in Cell : d # c => v.gf[d] = u.gf[d]
      /\ v.live = u.live /\ v.gets = u.gets /\ v.sends = u.sends
  <2>1. c \in T \ (T \ {c})  OBVIOUS
  <2> QED  BY <1>2, <1>3, <2>1, FinishWorld
<1>5. Others(w, v, c)  BY <1>4, OthersBy, Zenon
<1>6. v.sock_manager = CloseSocketRead(w.sock_manager, s) /\ v.gf[c].kind = w.gf[c].kind
  <2>1. u \in Worlds /\ c \in Cell  BY <1>1, WorldParts
  <2>2. ~u.gf[c].deleted  BY <1>2, <1>3, InfoWorld
  <2>3. PICK r \in GetFile :
           /\ Ended(u.gf[c], r, u.finished_struct) /\ Writes(u, v, c, r) /\ v \in Worlds
           /\ v.live = u.live /\ v.transfer_struct = u.transfer_struct
           /\ v.Queued = u.Queued /\ v.finished_struct = c /\ SameCounts(u, v)
           /\ v.sock_manager = CloseSocketRead(u.sock_manager, s)
           /\ v.kernel = Shut(u.sock_manager, u.kernel, s)
    BY <1>2, <1>3, <2>1, <2>2, FinishFields
  <2> QED  BY <2>3 DEF Ended, Writes
<1>7. Suited(v.sock_manager, v.gf)
  <2>1. \A d \in T : v.gf[d].kind = w.gf[d].kind  BY <1>1, <1>5, <1>6, KindsKept
  <2>2. /\ OtherSlots(w.sock_manager, v.sock_manager, s)
        /\ Registered(v.sock_manager) = Registered(w.sock_manager) \ {s}
    <3>1. s \in Fd \cup {-1}  BY <1>2
    <3> QED  BY <1>1, <1>6, <3>1, CloseTable
  <2>3. s \notin Registered(v.sock_manager)  BY <2>2
  <2> QED  BY <1>1, <1>2, <2>1, <2>2, <2>3, SuitedFrame
<1> QED  BY <1>4, <1>5, <1>7 DEF SameCounts

\* The handler that runs for a socket is that of what the socket leads to.
LEMMA ReadingSuits ==
    ASSUME NEW T, NEW Q, NEW F, Ready(mem, T, Q, F), NEW f, NEW s \in Reading(f)
    PROVE  /\ s \in Registered(mem.sock_manager) /\ s \in Fd
           /\ f \in Early => Info(mem, s) = Nil
           /\ Info(mem, s) = Nil => f \in Unnamed
           /\ Info(mem, s) # Nil =>
                /\ Info(mem, s) \in T /\ mem.gf[Info(mem, s)].socket = s
                /\ ~mem.gf[Info(mem, s)].deleted
                /\ f \in IF mem.gf[Info(mem, s)].kind = "get" THEN Getting ELSE Sending
<1>1. World(mem, T, T, Q, F) /\ Suited(mem.sock_manager, mem.gf)  BY ReadyParts
<1>2. /\ s \in Registered(mem.sock_manager) /\ s \in Fd
      /\ Info(mem, s) = mem.sock_manager.slot[s].info
      /\ mem.sock_manager.slot[s].func_read = f
      /\ f \in Early => Info(mem, s) = Nil
      /\ Info(mem, s) # Nil =>
           /\ Info(mem, s) \in T /\ mem.gf[Info(mem, s)].socket = s
           /\ ~mem.gf[Info(mem, s)].deleted
  BY <1>1, ReadingIs
<1>3. Suits(f, Info(mem, s), mem.gf)  BY <1>1, <1>2, Zenon DEF Suited
<1>4. /\ Info(mem, s) = Nil => f \in Unnamed
      /\ Info(mem, s) # Nil =>
           f \in IF mem.gf[Info(mem, s)].kind = "get" THEN Getting ELSE Sending
  BY <1>3, Zenon DEF Suits
<1> QED  BY <1>2, <1>4

\* The next read of a socket goes to f.
LEMMA ReadLives ==
    ASSUME NEW w, NEW T, NEW Q, NEW F, Ready(w, T, Q, F),
           NEW s \in Registered(w.sock_manager), NEW f \in Handlers,
           f \in Early => Info(w, s) = Nil, Suits(f, Info(w, s), w.gf),
           NEW v, v = SetRead(w, s, f)
    PROVE  Lives(w, T, Q, F, v)
<1>1. /\ World(w, T, T, Q, F) /\ w \in Worlds /\ w.sock_manager \in Tables
      /\ Suited(w.sock_manager, w.gf)
  BY ReadyParts
<1>2. /\ World(v, T, T, Q, F) /\ v.gf = w.gf /\ SameLists(w, v) /\ SameCounts(w, v)
      /\ s \in Registered(v.sock_manager) /\ Info(v, s) = Info(w, s)
      /\ v.sock_manager.slot[s].func_read = f
  BY <1>1, ReadWorld
<1>3. s \in Fd  BY DEF Registered
<1>4. v.sock_manager.slot[s].info = Info(w, s)
  <2>1. Info(v, s) = v.sock_manager.slot[s].info  BY <1>2, <1>3, InfoWorld
  <2> QED  BY <1>2, <2>1
<1>5. OtherSlots(w.sock_manager, v.sock_manager, s)
  <2>1. v.sock_manager = ReadBy(w.sock_manager, s, f)  BY <1>1, ReadFields
  <2> QED  BY <1>1, <2>1, ReadTable
<1>6. Suited(v.sock_manager, v.gf)
  <2>1. Suits(v.sock_manager.slot[s].func_read, v.sock_manager.slot[s].info, v.gf)
    BY <1>2, <1>4, Zenon
  <2>2. \A d \in T : v.gf[d].kind = w.gf[d].kind  BY <1>2
  <2> QED  BY <1>1, <1>3, <1>5, <2>1, <2>2, SuitedFrame
<1>7. \A d \in T : Same(w.gf[d], v.gf[d])  BY <1>2, Zenon DEF Same
<1> QED  BY <1>2, <1>6, <1>7, ForgetLives

\* A socket that leads to no record is closed; its handler may have changed before.
LEMMA CloseLives ==
    ASSUME NEW w, NEW T, NEW Q, NEW F, Ready(w, T, Q, F), NEW s \in Fd,
           NEW u, World(u, T, T, Q, F), u.gf = w.gf, SameCounts(w, u),
           OtherSlots(w.sock_manager, u.sock_manager, s), Info(u, s) = Nil,
           NEW v, v = CloseSock(u, s) \/ v = Finish(u, s)
    PROVE  Lives(w, T, Q, F, v)
<1>1. World(w, T, T, Q, F) /\ Suited(w.sock_manager, w.gf)  BY ReadyParts
<1>2. v = CloseSock(u, s)  BY DEF Finish
<1>3. /\ World(v, T, T, Q, F) /\ v.gf = u.gf
      /\ v.live = u.live /\ v.gets = u.gets /\ v.sends = u.sends
  BY <1>2, CloseSockWorld
<1>4. u \in Worlds /\ u.sock_manager \in Tables  BY WorldParts
<1>5. v.sock_manager = CloseSocketRead(u.sock_manager, s)  BY <1>2, <1>4 DEF CloseSock, Worlds
<1>6. /\ OtherSlots(u.sock_manager, v.sock_manager, s)
      /\ Registered(v.sock_manager) = Registered(u.sock_manager) \ {s}
  BY <1>4, <1>5, CloseTable
<1>7. /\ OtherSlots(w.sock_manager, v.sock_manager, s)
      /\ s \notin Registered(v.sock_manager)
  BY <1>6 DEF OtherSlots
<1>8. Suited(v.sock_manager, v.gf)
  <2>1. \A d \in T : v.gf[d].kind = w.gf[d].kind  BY <1>3
  <2> QED  BY <1>1, <1>7, <2>1, SuitedFrame
<1>9. \A d \in T : Same(w.gf[d], v.gf[d])  BY <1>3, Zenon DEF Same
<1>10. SameCounts(w, v)  BY <1>3 DEF SameCounts
<1> QED  BY <1>3, <1>8, <1>9, <1>10, ForgetLives

\* ... at once.
LEMMA CloseNow ==
    ASSUME NEW w, NEW T, NEW Q, NEW F, Ready(w, T, Q, F), NEW s \in Fd, Info(w, s) = Nil,
           NEW v, v = CloseSock(w, s) \/ v = Finish(w, s)
    PROVE  Lives(w, T, Q, F, v)
<1>1. World(w, T, T, Q, F) /\ SameCounts(w, w)  BY ReadyParts DEF SameCounts
<1>2. OtherSlots(w.sock_manager, w.sock_manager, s)  BY DEF OtherSlots
<1> QED  BY <1>1, <1>2, CloseLives

\* Nothing changes.
LEMMA StillLives ==
    ASSUME NEW w, NEW T, NEW Q, NEW F, Ready(w, T, Q, F)
    PROVE  Lives(w, T, Q, F, w)
<1>1. World(w, T, T, Q, F) /\ SameCounts(w, w) /\ Suited(w.sock_manager, w.gf)
  BY ReadyParts DEF SameCounts
<1>2. \A d \in T : Same(w.gf[d], w.gf[d])  BY Zenon DEF Same
<1> QED  BY <1>1, <1>2, ForgetLives

\* nap_getfilestart().
LEMMA NapGetfilestartLives ==
    ASSUME NEW T, NEW Q, NEW F, Ready(mem, T, Q, F), NEW s \in Fd, NapGetfilestart(s)
    PROVE  Lives(mem, T, Q, F, mem')
<1> DEFINE w == mem
           v == mem'
           f == "nap_getfile"
           c == Info(w, s)
           f0 == "nap_getfilestart"
<1>1. s \in Reading(f0)  BY DEF NapGetfilestart
<1>2. /\ s \in Registered(w.sock_manager)
      /\ c = Nil => f0 \in Unnamed
      /\ c # Nil => f0 \in IF w.gf[c].kind = "get" THEN Getting ELSE Sending
  BY <1>1, ReadingSuits
<1>3. c # Nil  BY <1>2 DEF Unnamed
<1>4. w.gf[c].kind = "get"  BY <1>2, <1>3 DEF Sending
<1>5. f \in Handlers /\ f \notin Early /\ f \in Getting  BY DEF Handlers, Early, Getting
<1>6. v = SetRead(w, s, f)  BY <1>3 DEF NapGetfilestart
<1>7. Ready(w, T, Q, F) /\ c = Info(w, s)  OBVIOUS
<1> HIDE DEF w, v, f, c
<1>8. Suits(f, c, w.gf)  BY <1>3, <1>4, <1>5 DEF Suits
<1>9. Lives(w, T, Q, F, v)  BY <1>2, <1>5, <1>6, <1>7, <1>8, ReadLives
<1> QED  BY <1>9 DEF w, v

\* naplink_handlelink().
LEMMA NaplinkHandlelinkLives ==
    ASSUME Plain, NEW T, NEW Q, NEW F, Ready(mem, T, Q, F), NaplinkHandlelink
    PROVE  Lives(mem, T, Q, F, mem')
<1> DEFINE w == mem
           v == mem'
           f == "naplink_handleconnect"
<1>1. /\ World(w, T, T, Q, F) /\ w \in Worlds /\ w.sock_manager \in Tables
      /\ Suited(w.sock_manager, w.gf)
  BY ReadyParts
<1>2. PICK s \in FreeFd(w) : v = AddRead(Opened(w, s), s, f)
  <2>1. "ungreeted" \notin Happens  BY DEF Plain
  <2> QED  BY <2>1 DEF NaplinkHandlelink, Ungreeted
<1>3. f \in Handlers /\ f \in Unnamed  BY DEF Handlers, Unnamed
<1>4. Ready(w, T, Q, F)  OBVIOUS
<1> HIDE DEF w, v, f
<1>5. /\ World(v, T, T, Q, F) /\ v.gf = w.gf /\ SameLists(w, v) /\ SameCounts(w, v)
      /\ s \in Registered(v.sock_manager) /\ Info(v, s) = Nil
      /\ v.sock_manager.slot[s].func_read = f
  BY <1>1, <1>2, <1>3, NewWorld
<1>6. s \in Fd \ w.kernel /\ Registered(w.sock_manager) \subseteq w.kernel
  <2>1. Wired(w.sock_manager, w.gf, w.kernel, T)  BY <1>1, WorldParts
  <2> QED  BY <2>1 DEF FreeFd, Wired
<1>7. v.sock_manager = AddSocketRead(w.sock_manager, s, f, Nil)
  BY <1>1, <1>2, <1>3, <1>6, NewFields
<1>8. OtherSlots(w.sock_manager, v.sock_manager, s)
  <2>1. s \in Fd \ Registered(w.sock_manager)  BY <1>6
  <2> QED  BY <1>1, <1>3, <1>7, <2>1, AddTable
<1>9. v.sock_manager.slot[s].info = Nil  BY <1>5, <1>6, InfoWorld
<1>10. Suited(v.sock_manager, v.gf)
  <2>1. Suits(v.sock_manager.slot[s].func_read, v.sock_manager.slot[s].info, v.gf)
    BY <1>3, <1>5, <1>9, Zenon DEF Suits
  <2>2. \A d \in T : v.gf[d].kind = w.gf[d].kind  BY <1>5
  <2> QED  BY <1>1, <1>6, <1>8, <2>1, <2>2, SuitedFrame
<1>11. \A d \in T : Same(w.gf[d], v.gf[d])  BY <1>5, Zenon DEF Same
<1>12. Lives(w, T, Q, F, v)  BY <1>4, <1>5, <1>10, <1>11, ForgetLives
<1> QED  BY <1>12 DEF w, v

\* naplink_handleconnect().
LEMMA NaplinkHandleconnectLives ==
    ASSUME NEW T, NEW Q, NEW F, Ready(mem, T, Q, F), NEW s \in Fd, NaplinkHandleconnect(s)
    PROVE  Lives(mem, T, Q, F, mem')
<1> DEFINE w == mem
           v == mem'
           f == "nap_firewall_start"
           f1 == "napfile_read"
           f2 == "nap_firewall_get"
           u == SetRead(w, s, f)
<1>1. World(w, T, T, Q, F) /\ w \in Worlds /\ w.sock_manager \in Tables  BY ReadyParts
<1>2. s \in Reading("naplink_handleconnect")  BY DEF NaplinkHandleconnect
<1>3. s \in Registered(w.sock_manager) /\ Info(w, s) = Nil
  <2>1. "naplink_handleconnect" \in Early  BY DEF Early
  <2> QED  BY <1>2, <2>1, ReadingSuits
<1>4. Ready(w, T, Q, F) /\ u = SetRead(w, s, f)
      /\ f \in Handlers /\ f1 \in Handlers /\ f2 \in Handlers
      /\ f1 \in Unnamed /\ f2 \in Unnamed
  BY DEF Handlers, Unnamed
<1>5. \/ Info(u, s) = Nil /\ v = CloseSock(u, s)
      \/ Info(u, s) # Nil
      \/ v = SetRead(w, s, f1)
      \/ v = SetRead(w, s, f2)
      \/ v = CloseSock(w, s)
  BY DEF NaplinkHandleconnect, FirewallStart
<1> HIDE DEF w, v, f, f1, f2, u
<1>6. /\ World(u, T, T, Q, F) /\ u.gf = w.gf /\ SameLists(w, u) /\ SameCounts(w, u)
      /\ s \in Registered(u.sock_manager) /\ Info(u, s) = Info(w, s)
      /\ u.sock_manager.slot[s].func_read = f
  BY <1>1, <1>3, <1>4, ReadWorld
<1>7. OtherSlots(w.sock_manager, u.sock_manager, s)
  <2>1. u.sock_manager = ReadBy(w.sock_manager, s, f)  BY <1>1, <1>3, <1>4, ReadFields
  <2> QED  BY <1>1, <1>3, <1>4, <2>1, ReadTable
<1>8. CASE v = CloseSock(u, s)
  <2>1. Lives(w, T, Q, F, v)  BY <1>3, <1>4, <1>6, <1>7, <1>8, CloseLives
  <2> QED  BY <2>1 DEF w, v
<1>9. CASE v = SetRead(w, s, f1)
  <2>1. Suits(f1, Info(w, s), w.gf)  BY <1>3, <1>4, Zenon DEF Suits
  <2>2. Lives(w, T, Q, F, v)  BY <1>3, <1>4, <1>9, <2>1, ReadLives
  <2> QED  BY <2>2 DEF w, v
<1>10. CASE v = SetRead(w, s, f2)
  <2>1. Suits(f2, Info(w, s), w.gf)  BY <1>3, <1>4, Zenon DEF Suits
  <2>2. Lives(w, T, Q, F, v)  BY <1>3, <1>4, <1>10, <2>1, ReadLives
  <2> QED  BY <2>2 DEF w, v
<1>11. CASE v = CloseSock(w, s)
  <2>1. Lives(w, T, Q, F, v)  BY <1>3, <1>4, <1>11, CloseNow
  <2> QED  BY <2>1 DEF w, v
<1> QED  BY <1>3, <1>5, <1>6, <1>8, <1>9, <1>10, <1>11

\* The server is told before or after.
Ending(w, u, v, c, kind, x) ==
    \/ x = v /\ Reported(w, u, w.gf[c])
    \/ x = Tell(v, kind, -1) /\ SameCounts(w, u) /\ (kind = "get" => ~w.gf[c].count)

\* ... and then it is over.
LEMMA FinishLives ==
    ASSUME NEW w, NEW T, NEW Q, NEW F, Ready(w, T, Q, F),
           NEW c \in T, w.gf[c].socket # -1, NEW s, s = w.gf[c].socket,
           NEW u, World(u, T \ {c}, T, Q, F), Others(w, u, c),
           u.sock_manager = w.sock_manager, u.gf[c].kind = w.gf[c].kind,
           NEW v, v = Finish(u, s), NEW kind, kind = w.gf[c].kind,
           NEW x, Ending(w, u, v, c, kind, x)
    PROVE  Lives(w, T, Q, F, x)
<1> DEFINE T1 == T \ {c}
           F1 == F \cup {c}
<1>1. /\ World(v, T1, T1, Q, F1) /\ Others(w, v, c)
      /\ Suited(v.sock_manager, v.gf) /\ SameCounts(u, v)
  BY FinishIn
<1>2. T1 = T \ {c} /\ F1 = F \cup {c} /\ kind \in {"get", "send"}
  BY ReadyParts
<1> HIDE DEF T1, F1
<1>3. CASE x = v /\ Reported(w, u, w.gf[c])
  <2>1. Reported(w, v, w.gf[c])
    BY <1>1, <1>3, Zenon DEF Reported, SameCounts, Told1
  <2>2. Lives(w, T, Q, F, v)  BY <1>1, <1>2, <2>1, EndLives
  <2> QED  BY <1>3, <2>2
<1>4. CASE x = Tell(v, kind, -1) /\ SameCounts(w, u) /\ (kind = "get" => ~w.gf[c].count)
  <2>1. v \in Worlds /\ -1 \in Int  BY <1>1, WorldParts
  <2>2. /\ World(x, T1, T1, Q, F1) /\ x.gf = v.gf /\ SameLists(v, x)
        /\ x.sock_manager = v.sock_manager /\ x.kernel = v.kernel
    BY <1>1, <1>4, <2>1, TellWorld
  <2>3. Told1(v, x, kind, -1)  BY <1>2, <1>4, <2>1, TellTold
  <2>4. Told1(w, x, kind, -1)  BY <1>1, <1>4, <2>3, Zenon DEF Told1, SameCounts
  <2>5. Reported(w, x, w.gf[c])  BY <1>4, <2>4, Zenon DEF Reported
  <2>6. Others(w, x, c) /\ Suited(x.sock_manager, x.gf)
    BY <1>1, <2>2, Zenon DEF Others
  <2> QED  BY <1>2, <2>2, <2>5, <2>6, EndLives
<1> QED  BY <1>3, <1>4, Zenon DEF Ending

\* A record is taken off the list and finished, whatever was told of it.
LEMMA BreakLives ==
    ASSUME NEW w, NEW T, NEW Q, NEW F, Ready(w, T, Q, F),
           NEW c \in T, w.gf[c].socket # -1, NEW s, s = w.gf[c].socket,
           NEW b, b = Break(w, c), NEW v,
           \/ w.gf[c].kind = "get" /\ w.gf[c].count /\ v = Finish(b, s)
           \/ w.gf[c].kind = "get" /\ ~w.gf[c].count /\ v = Finish(Tell(b, "get", -1), s)
           \/ w.gf[c].kind = "send" /\ v = Tell(Finish(CloseFile(b, c), s), "send", -1)
    PROVE  Lives(w, T, Q, F, v)
<1> DEFINE T1 == T \ {c}
<1>1. World(w, T, T, Q, F) /\ T \subseteq Cell  BY ReadyParts
<1>2. /\ World(b, T1, T, Q, F) /\ SameData(w.gf, b.gf)
      /\ b.sock_manager = w.sock_manager /\ b.kernel = w.kernel
      /\ b.live = w.live /\ b.gets = w.gets /\ b.sends = w.sends
  BY <1>1, BreakWorld
<1>3. Others(w, b, c) /\ SameCounts(w, b) /\ b \in Worlds /\ c \in Cell
  BY <1>1, <1>2, OthersBy, WorldParts DEF SameCounts
<1>4. b.gf[c].kind = w.gf[c].kind  BY <1>2, <1>3, Zenon DEF SameData
<1>5. T1 = T \ {c}  OBVIOUS
<1> HIDE DEF T1
<1>6. CASE w.gf[c].kind = "get" /\ w.gf[c].count /\ v = Finish(b, s)
  <2>1. Reported(w, b, w.gf[c])  BY <1>3, <1>6, Zenon DEF Reported
  <2>2. Ending(w, b, v, c, w.gf[c].kind, v)  BY <2>1, Zenon DEF Ending
  <2> QED  BY <1>2, <1>3, <1>4, <1>5, <1>6, <2>2, FinishLives
<1>7. CASE w.gf[c].kind = "get" /\ ~w.gf[c].count /\ v = Finish(Tell(b, "get", -1), s)
  <2> DEFINE kind == "get"
             t == Tell(b, kind, -1)
  <2>0. t = Tell(b, kind, -1) /\ v = Finish(t, s) /\ kind = w.gf[c].kind
        /\ kind \in {"get", "send"} /\ -1 \in Int /\ ~w.gf[c].count
    BY <1>7
  <2> HIDE DEF t, kind
  <2>1. /\ World(t, T1, T, Q, F) /\ t.gf = b.gf /\ SameLists(b, t)
        /\ t.sock_manager = b.sock_manager /\ t.kernel = b.kernel
    BY <1>2, <2>0, TellWorld
  <2>2. Told1(b, t, kind, -1)  BY <1>3, <2>0, TellTold
  <2>3. Told1(w, t, kind, -1)  BY <1>3, <2>2, Zenon DEF Told1, SameCounts
  <2>4. Ending(w, t, v, c, kind, v)  BY <2>0, <2>3, Zenon DEF Ending, Reported
  <2>5. Others(w, t, c) /\ t.sock_manager = w.sock_manager /\ t.gf[c].kind = w.gf[c].kind
    BY <1>2, <1>3, <1>4, <2>1, Zenon DEF Others
  <2> QED  BY <1>5, <2>0, <2>1, <2>4, <2>5, FinishLives
<1>8. CASE w.gf[c].kind = "send" /\ v = Tell(Finish(CloseFile(b, c), s), "send", -1)
  <2> DEFINE kind == "send"
             x == CloseFile(b, c)
             y == Finish(x, s)
  <2>0. /\ x = CloseFile(b, c) /\ y = Finish(x, s) /\ v = Tell(y, kind, -1)
        /\ kind = w.gf[c].kind /\ kind # "get"
    BY <1>8
  <2> DEFINE r == [b.gf[c] EXCEPT !.write = FALSE]
  <2> HIDE DEF x, y, kind
  <2>1. /\ World(x, T1, T, Q, F) /\ Writes(b, x, c, r)
        /\ SameLists(b, x) /\ SameCounts(b, x)
        /\ x.sock_manager = b.sock_manager /\ x.kernel = b.kernel
    BY <1>2, <1>3, <2>0, CloseFileWorld
  <2>2. r.kind = b.gf[c].kind
    <3>1. b.gf \in [Cell -> GetFile]  BY <1>2, WorldParts
    <3>2. b.gf[c] \in GetFile  BY <1>3, <3>1
    <3> QED  BY <3>2 DEF GetFile
  <2> HIDE DEF r
  <2>3. Others(b, x, c) /\ x.gf[c].kind = w.gf[c].kind
    <3>1. Others(b, x, c)  BY <2>1, OthersBy
    <3>2. x.gf[c] = r  BY <2>1, Zenon DEF Writes
    <3> QED  BY <1>4, <2>2, <3>1, <3>2
  <2>4. Others(w, x, c)  BY <1>3, <2>3, OthersBy, Zenon
  <2>5. SameCounts(w, x) /\ x.sock_manager = w.sock_manager
    BY <1>2, <1>3, <2>1 DEF SameCounts
  <2>6. Ending(w, x, y, c, kind, v)  BY <2>0, <2>5, Zenon DEF Ending
  <2> QED  BY <1>5, <2>0, <2>1, <2>3, <2>4, <2>5, <2>6, FinishLives
<1> QED  BY <1>6, <1>7, <1>8

\* nap_getfile() while it waits for the size.
LEMMA ReadHeaderLives ==
    ASSUME Plain, NEW T, NEW Q, NEW F, Ready(mem, T, Q, F),
           NEW c \in T, mem.gf[c].kind = "get", mem.gf[c].count, mem.gf[c].socket # -1,
           NEW s, s = mem.gf[c].socket, ReadHeader(s, c)
    PROVE  Lives(mem, T, Q, F, mem')
<1> DEFINE w == mem
           v == mem'
           r == [[w.gf[c] EXCEPT !.count = FALSE, !.started = TRUE] EXCEPT !.write = TRUE]
           u == Put(w, c, r)
           kind == "get"
<1>1. /\ World(w, T, T, Q, F) /\ w.gf \in [Cell -> GetFile] /\ T \subseteq Cell
      /\ Suited(w.sock_manager, w.gf) /\ w \in Worlds
      /\ \A d \in Cell : w.gf[d].socket \in Fd \cup {-1}
  BY ReadyParts
<1>2. w.gf[c] \in GetFile /\ c \in Cell  BY <1>1
<1>3. /\ r \in GetFile /\ SamePlace(w.gf[c], r) /\ r.kind = w.gf[c].kind
      /\ r.socket = w.gf[c].socket /\ ~r.count /\ r.write
  BY <1>2 DEF GetFile, SamePlace
<1>4. u = [w EXCEPT !.gf[c].count = FALSE, !.gf[c].started = TRUE, !.gf[c].write = TRUE]
  <2>1. [w EXCEPT !.gf[c].count = FALSE, !.gf[c].started = TRUE, !.gf[c].write = TRUE]
         = [w EXCEPT !.gf = [w.gf EXCEPT ![c] =
              [[w.gf[c] EXCEPT !.count = FALSE, !.started = TRUE] EXCEPT !.write = TRUE]]]
    BY <1>1, <1>2 DEF World, Worlds
  <2> QED  BY <2>1, Zenon DEF Put
<1>5. \/ v = Tell(u, kind, 1)
      \/ "unopened" \in Happens
      \/ v = Finish(Break(w, c), s)
  BY <1>4, Zenon DEF ReadHeader
<1>6. Ready(w, T, Q, F) /\ u = Put(w, c, r) /\ kind = "get" /\ w.gf[c].kind = kind
      /\ w.gf[c].count /\ s = w.gf[c].socket /\ s \in Fd /\ w.gf[c].socket # -1
      /\ kind \in {"get", "send"} /\ 1 \in Int
  BY <1>1, <1>2
<1>7. "unopened" \notin Happens  BY DEF Plain
<1> HIDE DEF w, v, r, u, kind
<1>8. CASE v = Tell(u, kind, 1)
  <2>1. /\ World(u, T, T, Q, F) /\ Writes(w, u, c, r)
        /\ SameLists(w, u) /\ SameCounts(w, u)
        /\ u.sock_manager = w.sock_manager /\ u.kernel = w.kernel
    BY <1>1, <1>2, <1>3, <1>6, PutWorld
  <2>2. u \in Worlds  BY <2>1, WorldParts
  <2>3. /\ World(v, T, T, Q, F) /\ v.gf = u.gf /\ SameLists(u, v)
        /\ v.sock_manager = u.sock_manager /\ v.kernel = u.kernel
    BY <1>6, <1>8, <2>1, TellWorld
  <2>4. Told1(u, v, kind, 1)  BY <1>6, <1>8, <2>2, TellTold
  <2>5. Told1(w, v, kind, 1)  BY <2>1, <2>4, Zenon DEF Told1, SameCounts
  <2>6. Others(w, v, c) /\ v.gf[c] = r
    <3>1. Others(w, u, c) /\ u.gf[c] = r  BY <2>1, OthersBy, Zenon DEF Writes
    <3> QED  BY <2>3, <3>1, Zenon DEF Others
  <2>7. Suited(v.sock_manager, v.gf)
    <3>1. \A d \in T : v.gf[d].kind = w.gf[d].kind
      BY <1>1, <1>3, <2>6, KindsKept
    <3>2. v.sock_manager = w.sock_manager  BY <2>1, <2>3
    <3> QED  BY <1>1, <3>1, <3>2, SuitedFrame
  <2>8. v.gf[c].kind = kind /\ v.gf[c].socket \in Fd /\ ~v.gf[c].count /\ v.gf[c].write
        /\ w.gf[c].socket = v.gf[c].socket
    BY <1>3, <1>6, <2>6, Zenon
  <2>9. Lives(w, T, Q, F, v)  BY <1>6, <2>3, <2>5, <2>6, <2>7, <2>8, BeginLives
  <2> QED  BY <2>9 DEF w, v
<1>9. CASE v = Finish(Break(w, c), s)
  <2> DEFINE b == Break(w, c)
  <2>1. b = Break(w, c) /\ v = Finish(b, s)  BY <1>9
  <2> HIDE DEF b
  <2>2. Lives(w, T, Q, F, v)  BY <1>6, <2>1, BreakLives
  <2> QED  BY <2>2 DEF w, v
<1> QED  BY <1>5, <1>7, <1>8, <1>9

\* nap_getfile().
LEMMA NapGetfileLives ==
    ASSUME Plain, NEW T, NEW Q, NEW F, Ready(mem, T, Q, F), NEW s \in Fd, NapGetfile(s)
    PROVE  Lives(mem, T, Q, F, mem')
<1> DEFINE w == mem
           v == mem'
           f == "nap_getfile"
           c == Info(w, s)
<1>1. s \in Reading(f)  BY DEF NapGetfile
<1>2. /\ c = Nil => f \in Unnamed
      /\ c # Nil =>
           /\ c \in T /\ w.gf[c].socket = s
           /\ f \in IF w.gf[c].kind = "get" THEN Getting ELSE Sending
  BY <1>1, ReadingSuits
<1>3. c # Nil  BY <1>2 DEF Unnamed
<1>4. w.gf[c].kind = "get"  BY <1>2, <1>3 DEF Sending
<1>5. s # -1  BY FdFinite
<1>6. CASE w.gf[c].count
  <2>1. ReadHeader(s, c)  BY <1>3, <1>6 DEF NapGetfile
  <2>2. mem.gf[c].kind = "get" /\ mem.gf[c].count /\ mem.gf[c].socket = s
    BY <1>2, <1>3, <1>4, <1>6
  <2>3. c \in T  BY <1>2, <1>3
  <2> HIDE DEF c
  <2> QED  BY <1>5, <2>1, <2>2, <2>3, ReadHeaderLives
<1>7. CASE ~w.gf[c].count
  <2>1. LastOfData(s, c)  BY <1>3, <1>7 DEF NapGetfile
  <2> DEFINE b == Break(w, c)
  <2>2. b = Break(w, c) /\ v = Finish(Tell(b, "get", -1), s) /\ Ready(w, T, Q, F)
    BY <2>1 DEF LastOfData
  <2> HIDE DEF w, v, c, b
  <2>3. Lives(w, T, Q, F, v)  BY <1>2, <1>3, <1>4, <1>5, <1>7, <2>2, BreakLives
  <2> QED  BY <2>3 DEF w, v
<1> QED  BY <1>6, <1>7

\* What is the same is in the same phase.
LEMMA SamePhase ==
    ASSUME NEW gf, NEW h, NEW T, NEW Q, NEW F, NEW c, c \in T => Same(gf[c], h[c])
    PROVE  /\ PhaseIn(h, T, Q, F, c) = PhaseIn(gf, T, Q, F, c)
           /\ OverIn(h, T, c) = OverIn(gf, T, c)
<1>1. CASE c \notin T  BY <1>1, Zenon DEF PhaseIn, OverIn
<1>2. CASE c \in T
  <2>1. /\ h[c].kind = gf[c].kind /\ h[c].socket = gf[c].socket
        /\ gf[c].socket # -1 => h[c].write = gf[c].write /\ h[c].count = gf[c].count
    BY <1>2, Zenon DEF Same
  <2>2. OverIn(h, T, c) = OverIn(gf, T, c)  BY <2>1, Zenon DEF OverIn
  <2>3. CASE gf[c].socket = -1  BY <2>1, <2>2, <2>3, Zenon DEF PhaseIn
  <2>4. CASE gf[c].socket # -1
    <3>1. h[c].kind = gf[c].kind /\ h[c].socket = gf[c].socket /\ h[c].count = gf[c].count
      BY <2>1, <2>4
    <3> QED  BY <2>2, <3>1, Zenon DEF PhaseIn
  <2> QED  BY <2>2, <2>3, <2>4
<1> QED  BY <1>1, <1>2

\* What the rest of a handler does, when the beginning changes nothing of this.
LEMMA LivesAfter ==
    ASSUME NEW w, NEW T, NEW Q, NEW F, T \subseteq Cell, NEW u,
           \A d \in T : Same(w.gf[d], u.gf[d]), NEW v, Lives(u, T, Q, F, v)
    PROVE  Lives(w, T, Q, F, v)
<1>1. PICK T1, Q1, F1 :
         /\ World(v, T1, T1, Q1, F1) /\ Orderly(v, T1)
         /\ \/ \E c \in Cell : Moves(u, T, Q, F, v, T1, Q1, F1, c)
            \/ Forgets(u, T, Q, F, v, T1, Q1, F1)
  BY Zenon DEF Lives
<1>2. \A d \in T : Same(u.gf[d], v.gf[d]) => Same(w.gf[d], v.gf[d])  BY SameTrans, Zenon
<1>3. ASSUME NEW c \in Cell, Moves(u, T, Q, F, v, T1, Q1, F1, c)
      PROVE  Moves(w, T, Q, F, v, T1, Q1, F1, c)
  <2>1. OthersStay(w, T, Q, F, v, T1, Q1, F1, c)
    BY <1>2, <1>3, Zenon DEF OthersStay, Moves
  <2>2. /\ PhaseIn(u.gf, T, Q, F, c) = PhaseIn(w.gf, T, Q, F, c)
        /\ OverIn(u.gf, T, c) = OverIn(w.gf, T, c)
    <3> DEFINE gf == w.gf
               h == u.gf
    <3>1. c \in T => Same(gf[c], h[c])  OBVIOUS
    <3> HIDE DEF gf, h
    <3>2. /\ PhaseIn(h, T, Q, F, c) = PhaseIn(gf, T, Q, F, c)
          /\ OverIn(h, T, c) = OverIn(gf, T, c)
      BY <3>1, SamePhase
    <3> QED  BY <3>2 DEF gf, h
  <2> QED  BY <1>3, <2>1, <2>2, Zenon DEF Moves
<1>4. ASSUME Forgets(u, T, Q, F, v, T1, Q1, F1) PROVE Forgets(w, T, Q, F, v, T1, Q1, F1)
  BY <1>2, <1>4, Zenon DEF Forgets
<1> QED  BY <1>1, <1>3, <1>4, Zenon DEF Lives

\* napfile_sendfile(), called by itself and by the handlers that come before it.
LEMMA SendFileLives ==
    ASSUME NEW w, NEW T, NEW Q, NEW F, Ready(w, T, Q, F), NEW s \in Fd,
           NEW c, c = Info(w, s), c # Nil, w.gf[c].kind = "send", NEW v \in SendFile(w, s)
    PROVE  Lives(w, T, Q, F, v)
<1> DEFINE b == Break(w, c)
<1>1. World(w, T, T, Q, F)  BY ReadyParts
<1>2. c \in T /\ ~w.gf[c].deleted /\ w.gf[c].socket = s  BY <1>1, InfoWorld
<1>3. v = w \/ v = Tell(Finish(CloseFile(b, c), s), "send", -1)
  BY <1>2 DEF SendFile, EndOfFile
<1>4. b = Break(w, c) /\ s # -1  BY FdFinite
<1> HIDE DEF b
<1>5. CASE v = w  BY <1>5, StillLives
<1>6. CASE v = Tell(Finish(CloseFile(b, c), s), "send", -1)
  BY <1>2, <1>4, <1>6, BreakLives
<1> QED  BY <1>3, <1>5, <1>6

\* napfile_sendfile().
LEMMA NapfileSendfileLives ==
    ASSUME NEW T, NEW Q, NEW F, Ready(mem, T, Q, F), NEW s \in Fd, NapfileSendfile(s)
    PROVE  Lives(mem, T, Q, F, mem')
<1> DEFINE w == mem
           v == mem'
           f == "napfile_sendfile"
           c == Info(w, s)
<1>1. s \in Reading(f) /\ v \in SendFile(w, s)  BY DEF NapfileSendfile
<1>2. /\ c = Nil => f \in Unnamed
      /\ c # Nil => c \in T /\ f \in IF w.gf[c].kind = "get" THEN Getting ELSE Sending
  BY <1>1, ReadingSuits
<1>3. c # Nil  BY <1>2 DEF Unnamed
<1>4. w.gf[c].kind # "get"  BY <1>2, <1>3 DEF Getting
<1>5. w.gf[c].kind = "send"
  <2>1. w.gf[c].kind \in {"get", "send"}  BY <1>2, <1>3, ReadyParts
  <2> QED  BY <1>4, <2>1
<1>6. Ready(w, T, Q, F) /\ c = Info(w, s)  OBVIOUS
<1> HIDE DEF w, v, c
<1>7. Lives(w, T, Q, F, v)  BY <1>1, <1>3, <1>5, <1>6, SendFileLives
<1> QED  BY <1>7 DEF w, v

\* An upload begins to be sent.
LEMMA BeginSendingLives ==
    ASSUME NEW w, NEW T, NEW Q, NEW F, Ready(w, T, Q, F),
           NEW s \in Registered(w.sock_manager), s \in Fd, NEW c, c = Info(w, s), c # Nil,
           w.gf[c].kind = "send", NEW f, f = "napfile_sendfile",
           NEW v \in SendFile(SetBoth(Begun(w, c), s, f), s)
    PROVE  Lives(w, T, Q, F, v)
<1>1. /\ World(w, T, T, Q, F) /\ w.gf \in [Cell -> GetFile] /\ w \in Worlds
      /\ T \subseteq Cell /\ w.sock_manager \in Tables /\ Suited(w.sock_manager, w.gf)
      /\ Depth <= SentBound
  BY ReadyParts DEF Ready
<1>2. c \in T  BY <1>1, InfoWorld
<1>3. c \in Cell /\ w.gf[c] \in GetFile  BY <1>1, <1>2
<1>f. f \in Handlers /\ f \notin Early /\ f \in Sending  BY DEF Handlers, Early, Sending
<1> DEFINE r == [w.gf[c] EXCEPT !.started = TRUE]
           x == Begun(w, c)
           y == SetBoth(x, s, f)
<1>4. r \in GetFile /\ SamePlace(w.gf[c], r)  BY <1>3 DEF GetFile, SamePlace
<1>5. Same(w.gf[c], r) /\ r.kind = w.gf[c].kind
  <2>1. r.kind = w.gf[c].kind /\ r.socket = w.gf[c].socket
        /\ r.write = w.gf[c].write /\ r.count = w.gf[c].count
    BY <1>3 DEF GetFile
  <2> QED  BY <2>1, Zenon DEF Same
<1>6. x = Put(w, c, r)
  <2>1. [w EXCEPT !.gf[c].started = TRUE]
          = [w EXCEPT !.gf = [w.gf EXCEPT ![c] = [w.gf[c] EXCEPT !.started = TRUE]]]
    OBVIOUS
  <2> QED  BY <2>1, Zenon DEF Put, Begun
<1>7. v \in SendFile(y, s) /\ y = SetBoth(x, s, f)  OBVIOUS
<1> HIDE DEF r, x, y
<1>8. /\ World(x, T, T, Q, F) /\ Writes(w, x, c, r)
      /\ SameLists(w, x) /\ SameCounts(w, x)
      /\ x.sock_manager = w.sock_manager /\ x.kernel = w.kernel
  BY <1>1, <1>3, <1>4, <1>6, PutWorld
<1>9. s \in Registered(x.sock_manager) /\ x \in Worlds /\ x.sock_manager \in Tables
  BY <1>1, <1>8, WorldParts
<1>10. /\ World(y, T, T, Q, F) /\ y.gf = x.gf /\ SameLists(x, y) /\ SameCounts(x, y)
       /\ Info(y, s) = Info(x, s)
  BY <1>f, <1>7, <1>8, <1>9, BothWorld
<1>11. \A d \in T : Same(w.gf[d], y.gf[d])
  <2>1. y.gf[c] = r /\ \A d \in Cell : d # c => y.gf[d] = w.gf[d]
    BY <1>8, <1>10, Zenon DEF Writes
  <2> SUFFICES ASSUME NEW d \in T PROVE Same(w.gf[d], y.gf[d])
    OBVIOUS
  <2>2. CASE d = c  BY <1>5, <2>1, <2>2
  <2>3. CASE d # c
    <3>1. y.gf[d] = w.gf[d]  BY <1>1, <2>1, <2>3
    <3> QED  BY <3>1, Zenon DEF Same
  <2> QED  BY <2>2, <2>3
<1>12. /\ OtherSlots(w.sock_manager, y.sock_manager, s)
       /\ y.sock_manager.slot[s].func_read = f /\ y.sock_manager.slot[s].info = c
  <2> DEFINE m == x.sock_manager
             n == ReadBy(m, s, f)
             o == WantWrite(n, s, f)
  <2>1. y.sock_manager = o  BY <1>f, <1>7, <1>9, BothFields
  <2>2. n = ReadBy(m, s, f) /\ o = WantWrite(n, s, f) /\ m \in Tables /\ s \in Registered(m)
    BY <1>9
  <2>3. m.slot[s].info = c
    <3>1. Info(w, s) = w.sock_manager.slot[s].info  BY <1>1, InfoWorld
    <3> QED  BY <1>8, <3>1
  <2>4. m = w.sock_manager  BY <1>8
  <2> HIDE DEF m, n, o
  <2>5. /\ n \in Tables /\ Registered(n) = Registered(m) /\ OtherSlots(m, n, s)
        /\ n.slot[s].info = m.slot[s].info /\ n.slot[s].func_read = f
    BY <1>f, <2>2, ReadTable
  <2>6. /\ o \in Tables /\ Registered(o) = Registered(n) /\ OtherSlots(n, o, s)
        /\ o.slot[s].info = n.slot[s].info /\ o.slot[s].func_read = n.slot[s].func_read
    <3>1. s \in Registered(n)  BY <2>2, <2>5
    <3> QED  BY <1>f, <2>2, <2>5, <3>1, WriteTable
  <2>7. OtherSlots(m, o, s)  BY <2>5, <2>6 DEF OtherSlots
  <2> QED  BY <2>1, <2>3, <2>4, <2>5, <2>6, <2>7
<1>13. y.gf[c].kind = "send"  BY <1>2, <1>11, Zenon DEF Same
<1>14. Suited(y.sock_manager, y.gf)
  <2>1. Suits(f, c, y.gf)
    <3>1. y.gf[c].kind # "get"  BY <1>13
    <3> QED  BY <1>f, <3>1, Zenon DEF Suits
  <2>2. \A d \in T : y.gf[d].kind = w.gf[d].kind  BY <1>11, Zenon DEF Same
  <2>3. Suits(y.sock_manager.slot[s].func_read, y.sock_manager.slot[s].info, y.gf)
    BY <1>12, <2>1
  <2> QED  BY <1>1, <1>12, <2>2, <2>3, SuitedFrame
<1>15. SameCounts(w, y)  BY <1>8, <1>10 DEF SameCounts
<1>16. Orderly(y, T)  BY <1>10, <1>11, <1>14, <1>15, ForgetLives
<1>17. Ready(y, T, Q, F)  BY <1>1, <1>10, <1>16 DEF Ready
<1>18. Info(y, s) = c  BY <1>8, <1>10 DEF Info
<1>19. Lives(y, T, Q, F, v)  BY <1>7, <1>13, <1>17, <1>18, SendFileLives
<1> QED  BY <1>1, <1>11, <1>19, LivesAfter

\* A record without a connection joins the socket s.
JoinedBy(w, v, s, c, r) ==
    /\ Writes(w, v, c, r) /\ OtherSlots(w.sock_manager, v.sock_manager, s)
    /\ s \in Registered(v.sock_manager) /\ v.sock_manager.slot[s].info = c
    /\ v.sock_manager.slot[s].func_read = w.sock_manager.slot[s].func_read

\* The record is written to, and the server told, before.
LEMMA JoinedWorld ==
    ASSUME NEW w, NEW T, NEW Q, NEW F, World(w, T, T, Q, F),
           NEW s \in Registered(w.sock_manager), Info(w, s) = Nil,
           w.sock_manager.slot[s].func_read \notin Early,
           NEW c \in T, w.gf[c].socket = -1,
           NEW r \in GetFile, SameLink(w.gf[c], r), r.socket = s,
           NEW u \in Worlds, Writes(w, u, c, r), SameLists(w, u),
           u.sock_manager = w.sock_manager, u.kernel = w.kernel,
           NEW v, v = SetInfo(u, s, c)
    PROVE  World(v, T, T, Q, F) /\ JoinedBy(w, v, s, c, r) /\ SameCounts(u, v)
<1>1. w.sock_manager \in Tables /\ T \cup Q \cup F \subseteq w.live /\ w.live \subseteq Cell
  BY WorldParts
<1>2. c \in Cell \cup {Nil} /\ s \in Registered(u.sock_manager)  BY <1>1
<1>3. /\ v \in Worlds /\ v.gf = u.gf /\ SameLists(u, v) /\ SameCounts(u, v)
      /\ v.sock_manager = SetSocketInfo(u.sock_manager, s, c) /\ v.kernel = u.kernel
  BY <1>2, InfoFields
<1>4. Writes(w, v, c, r)  BY <1>3, Zenon DEF Writes
<1>5. SameLists(w, v)  BY <1>3, Zenon DEF SameLists
<1>6. v.sock_manager = SetSocketInfo(w.sock_manager, s, c) /\ v.kernel = w.kernel  BY <1>3
<1>7. World(v, T, T, Q, F)  BY <1>1, <1>3, <1>4, <1>5, <1>6, JoinWorld
<1> DEFINE m == w.sock_manager
           n == v.sock_manager
<1>8. m \in Tables /\ n = SetSocketInfo(m, s, c) /\ s \in Registered(m)  BY <1>1, <1>6
<1>9. m = w.sock_manager /\ n = v.sock_manager  OBVIOUS
<1> HIDE DEF m, n
<1>10. /\ n \in Tables /\ Registered(n) = Registered(m) /\ OtherSlots(m, n, s)
       /\ n.slot[s].info = c /\ n.slot[s].func_read = m.slot[s].func_read
  BY <1>2, <1>8, InfoTable
<1>11. s \in Registered(n)  BY <1>8, <1>10
<1>12. JoinedBy(w, v, s, c, r)  BY <1>4, <1>9, <1>10, <1>11, Zenon DEF JoinedBy
<1> QED  BY <1>3, <1>7, <1>12

\* ... and begins to move data.
LEMMA JoinLives ==
    ASSUME NEW w, NEW T, NEW Q, NEW F, Ready(w, T, Q, F), NEW s \in Fd,
           NEW c \in T, w.gf[c].socket = -1, NEW kind, kind = w.gf[c].kind,
           NEW r, r.kind = kind, r.socket = s, kind = "get" => ~r.count /\ r.write,
           NEW v, World(v, T, T, Q, F), Writes(w, v, c, r),
           OtherSlots(w.sock_manager, v.sock_manager, s),
           v.sock_manager.slot[s].info = c,
           v.sock_manager.slot[s].func_read \in IF kind = "get" THEN Getting ELSE Sending,
           Told1(w, v, kind, 1)
    PROVE  Lives(w, T, Q, F, v)
<1>1. World(w, T, T, Q, F) /\ T \subseteq Cell /\ Suited(w.sock_manager, w.gf)
  BY ReadyParts
<1>2. c \in Cell /\ c # Nil  BY <1>1, NilNoCell
<1>3. v.gf[c] = r /\ Others(w, v, c)  BY OthersBy, Zenon DEF Writes
<1>4. Suited(v.sock_manager, v.gf)
  <2>1. v.gf[c].kind = w.gf[c].kind  BY <1>3
  <2>2. \A d \in T : v.gf[d].kind = w.gf[d].kind  BY <1>1, <1>3, <2>1, KindsKept
  <2>3. Suits(v.sock_manager.slot[s].func_read, v.sock_manager.slot[s].info, v.gf)
    BY <1>2, <2>1, Zenon DEF Suits
  <2> QED  BY <1>1, <2>2, <2>3, SuitedFrame
<1>5. v.gf[c].kind = kind /\ v.gf[c].socket \in Fd
      /\ (kind = "get" => ~v.gf[c].count /\ v.gf[c].write)
  BY <1>3, Zenon
<1> QED  BY <1>3, <1>4, <1>5, BeginLives

\* napfile_read() for the record found.
LEMMA ServeLives ==
    ASSUME Plain, NEW T, NEW Q, NEW F, Ready(mem, T, Q, F), AllSeen(mem, T, Q, F),
           NEW s \in Fd, s \in Reading("napfile_read"), Info(mem, s) = Nil,
           NEW c \in T, mem.gf[c].kind = "send", mem.gf[c].socket = -1, Serve(s, c)
    PROVE  Lives(mem, T, Q, F, mem')
<1> DEFINE w == mem
           v == mem'
           f == "napfile_read"
           kind == "send"
           r == [w.gf[c] EXCEPT !.socket = s]
           x == Put(w, c, r)
           u == Tell(x, kind, 1)
           y == SetInfo(u, s, c)
<1>1. /\ World(w, T, T, Q, F) /\ w.gf \in [Cell -> GetFile] /\ w \in Worlds
      /\ T \subseteq Cell
  BY ReadyParts
<1>2. c \in Cell /\ w.gf[c] \in GetFile  BY <1>1
<1>3. s \in Registered(w.sock_manager) /\ w.sock_manager.slot[s].func_read = f
  BY <1>1, ReadingIs
<1>4. w.sock_manager.slot[s].func_read \notin Early /\ f \notin Early /\ f \in Handlers
      /\ f \in Sending
  BY <1>3 DEF Early, Handlers, Sending
<1>5. x = [w EXCEPT !.gf[c].socket = s]
  <2>1. [w EXCEPT !.gf[c].socket = s]
          = [w EXCEPT !.gf = [w.gf EXCEPT ![c] = [w.gf[c] EXCEPT !.socket = s]]]
    OBVIOUS
  <2> QED  BY <2>1, Zenon DEF Put
<1>6. w.gf[c].write  BY Zenon DEF AllSeen
<1>7. v = SetBoth(y, s, f)
  <2>1. "offset" \notin Happens  BY DEF Plain
  <2> QED  BY <1>5, <1>6, <2>1, Zenon DEF Serve
<1>8. /\ r \in GetFile /\ SameLink(w.gf[c], r) /\ r.socket = s /\ r.kind = w.gf[c].kind
  BY <1>2 DEF GetFile, SameLink
<1>9. Ready(w, T, Q, F) /\ Info(w, s) = Nil /\ w.gf[c].socket = -1
      /\ x = Put(w, c, r) /\ u = Tell(x, kind, 1) /\ y = SetInfo(u, s, c)
      /\ w.gf[c].kind = kind /\ kind # "get" /\ kind \in {"get", "send"} /\ 1 \in Int
  OBVIOUS
<1> HIDE DEF w, v, f, kind, r, x, u, y
<1>10. /\ x \in Worlds /\ Writes(w, x, c, r)
       /\ x.live = w.live /\ x.transfer_struct = w.transfer_struct /\ x.Queued = w.Queued
       /\ x.finished_struct = w.finished_struct /\ x.sock_manager = w.sock_manager
       /\ x.kernel = w.kernel /\ x.gets = w.gets /\ x.sends = w.sends
  BY <1>1, <1>2, <1>8, <1>9, Rewritten
<1>11. /\ u \in Worlds /\ u.gf = x.gf /\ SameLists(x, u)
       /\ u.sock_manager = x.sock_manager /\ u.kernel = x.kernel
  BY <1>9, <1>10, TellFields
<1>12. Told1(w, u, kind, 1)
  <2>1. Told1(x, u, kind, 1)  BY <1>9, <1>10, TellTold
  <2> QED  BY <1>10, <2>1, Zenon DEF Told1
<1>13. Writes(w, u, c, r) /\ SameLists(w, u)
  BY <1>10, <1>11, Zenon DEF Writes, SameLists
<1>14. u.sock_manager = w.sock_manager /\ u.kernel = w.kernel  BY <1>10, <1>11
<1>15. World(y, T, T, Q, F) /\ JoinedBy(w, y, s, c, r) /\ SameCounts(u, y)
  BY <1>1, <1>3, <1>4, <1>8, <1>9, <1>11, <1>13, <1>14, JoinedWorld
<1>16. /\ Writes(w, y, c, r) /\ OtherSlots(w.sock_manager, y.sock_manager, s)
       /\ s \in Registered(y.sock_manager) /\ y.sock_manager.slot[s].info = c
  BY <1>15, Zenon DEF JoinedBy
<1>17. /\ World(v, T, T, Q, F) /\ v.gf = y.gf /\ SameLists(y, v) /\ SameCounts(y, v)
       /\ Info(v, s) = Info(y, s)
  BY <1>4, <1>7, <1>15, <1>16, BothWorld
<1>18. /\ OtherSlots(w.sock_manager, v.sock_manager, s)
       /\ v.sock_manager.slot[s].info = c /\ v.sock_manager.slot[s].func_read = f
  <2>1. y \in Worlds /\ y.sock_manager \in Tables  BY <1>15, WorldParts
  <2> DEFINE m == y.sock_manager
             n == ReadBy(m, s, f)
             o == WantWrite(n, s, f)
  <2>2. v.sock_manager = o  BY <1>4, <1>7, <1>16, <2>1, BothFields
  <2>3. n = ReadBy(m, s, f) /\ o = WantWrite(n, s, f) /\ m \in Tables /\ s \in Registered(m)
        /\ m.slot[s].info = c /\ OtherSlots(w.sock_manager, m, s)
    BY <1>16, <2>1
  <2> HIDE DEF m, n, o
  <2>4. /\ n \in Tables /\ Registered(n) = Registered(m) /\ OtherSlots(m, n, s)
        /\ n.slot[s].info = m.slot[s].info /\ n.slot[s].func_read = f
    BY <1>4, <2>3, ReadTable
  <2>5. /\ o \in Tables /\ Registered(o) = Registered(n) /\ OtherSlots(n, o, s)
        /\ o.slot[s].info = n.slot[s].info /\ o.slot[s].func_read = n.slot[s].func_read
    <3>1. s \in Registered(n)  BY <2>3, <2>4
    <3> QED  BY <1>4, <2>3, <2>4, <3>1, WriteTable
  <2>6. OtherSlots(w.sock_manager, o, s)  BY <2>3, <2>4, <2>5 DEF OtherSlots
  <2> QED  BY <2>2, <2>3, <2>4, <2>5, <2>6
<1>19. Writes(w, v, c, r)  BY <1>16, <1>17, Zenon DEF Writes
<1>20. Told1(w, v, kind, 1)  BY <1>12, <1>15, <1>17, Zenon DEF Told1, SameCounts
<1>21. v.sock_manager.slot[s].func_read \in IF kind = "get" THEN Getting ELSE Sending
  BY <1>4, <1>9, <1>18
<1>22. Lives(w, T, Q, F, v)
  BY <1>8, <1>9, <1>17, <1>18, <1>19, <1>20, <1>21, JoinLives
<1> QED  BY <1>22 DEF w, v

\* napfile_read().
LEMMA NapfileReadLives ==
    ASSUME Plain, NEW T, NEW Q, NEW F, Ready(mem, T, Q, F), AllSeen(mem, T, Q, F),
           NEW s \in Fd, NapfileRead(s)
    PROVE  Lives(mem, T, Q, F, mem')
<1> DEFINE w == mem
           v == mem'
           c == Info(w, s)
           f == "napfile_sendfile"
           f0 == "napfile_read"
           kind == "send"
<1>1. World(w, T, T, Q, F)  BY ReadyParts
<1>2. s \in Reading(f0)  BY DEF NapfileRead
<1>3. /\ s \in Registered(w.sock_manager)
      /\ c # Nil => c \in T /\ f0 \in IF w.gf[c].kind = "get" THEN Getting ELSE Sending
  BY <1>2, ReadingSuits
<1>4. Ready(w, T, Q, F) /\ c = Info(w, s) /\ f = "napfile_sendfile"  OBVIOUS
<1>5. "again" \notin Happens  BY DEF Plain
<1>6. \/ c = Nil /\ v = Finish(w, s)
      \/ /\ c = Nil
         /\ \E k \in Key : /\ Find(w, k, kind) # Nil
                           /\ w.gf[Find(w, k, kind)].socket = -1
                           /\ Serve(s, Find(w, k, kind))
      \/ c # Nil /\ v \in SendFile(SetBoth(Begun(w, c), s, f), s)
  BY <1>5 DEF NapfileRead, Begun
<1>7. CASE c = Nil /\ v = Finish(w, s)
  <2> HIDE DEF w, v, c
  <2>1. Lives(w, T, Q, F, v)  BY <1>4, <1>7, CloseNow
  <2> QED  BY <2>1 DEF w, v
<1>8. CASE /\ c = Nil
           /\ \E k \in Key : /\ Find(w, k, kind) # Nil
                             /\ w.gf[Find(w, k, kind)].socket = -1
                             /\ Serve(s, Find(w, k, kind))
  <2>1. PICK k \in Key : /\ Find(w, k, kind) # Nil
                         /\ w.gf[Find(w, k, kind)].socket = -1
                         /\ Serve(s, Find(w, k, kind))
    BY <1>8
  <2> DEFINE d == Find(w, k, kind)
  <2>2. d = Find(w, k, kind)  OBVIOUS
  <2>3. Info(mem, s) = Nil /\ mem.gf[d].socket = -1 /\ Serve(s, d) /\ d # Nil  BY <1>8, <2>1
  <2> HIDE DEF d, c
  <2>4. d \in T /\ w.gf[d].key = k /\ w.gf[d].kind = kind
    <3> HIDE DEF w, kind
    <3>1. d # Nil => d \in T /\ w.gf[d].key = k /\ w.gf[d].kind = kind  BY <1>1, <2>2, FindIn
    <3> QED  BY <2>3, <3>1
  <2> QED  BY <1>2, <2>3, <2>4, ServeLives
<1>9. CASE c # Nil /\ v \in SendFile(SetBoth(Begun(w, c), s, f), s)
  <2>1. c \in T /\ w.gf[c].kind = "send"
    <3>1. c \in T /\ w.gf[c].kind # "get"  BY <1>3, <1>9 DEF Getting
    <3>2. w.gf[c].kind \in {"get", "send"}  BY <3>1, ReadyParts
    <3> QED  BY <3>1, <3>2
  <2> HIDE DEF w, v, c, f
  <2>2. Lives(w, T, Q, F, v)  BY <1>3, <1>4, <1>9, <2>1, BeginSendingLives
  <2> QED  BY <2>2 DEF w, v
<1> QED  BY <1>6, <1>7, <1>8, <1>9

\* nap_firewall_get() for the record found.
LEMMA PushLives ==
    ASSUME Plain, NEW T, NEW Q, NEW F, Ready(mem, T, Q, F),
           NEW s \in Fd, s \in Reading("nap_firewall_get"), Info(mem, s) = Nil,
           NEW c \in T, mem.gf[c].kind = "get", Expected(c), Push(s, c)
    PROVE  Lives(mem, T, Q, F, mem')
<1> DEFINE w == mem
           v == mem'
           f == "nap_getfile"
           kind == "get"
           r0 == [w.gf[c] EXCEPT !.count = FALSE, !.started = TRUE, !.socket = s]
           r == [r0 EXCEPT !.write = TRUE]
           p0 == Put(w, c, r0)
           p == Put(w, c, r)
           t == Tell(p, kind, 1)
           u == SetRead(t, s, f)
           e == SetRead(w, s, f)
<1>1. /\ World(w, T, T, Q, F) /\ w.gf \in [Cell -> GetFile] /\ w \in Worlds
      /\ w.sock_manager \in Tables /\ T \subseteq Cell
  BY ReadyParts
<1>2. c \in Cell /\ w.gf[c] \in GetFile  BY <1>1
<1>3. s \in Registered(w.sock_manager)  BY <1>1, ReadingIs
<1>4. f \notin Early /\ f \in Handlers /\ f \in Getting  BY DEF Early, Handlers, Getting
<1>5. w.gf[c].realfile /\ w.gf[c].socket = -1  BY DEF Expected
<1>6. p0 = [w EXCEPT !.gf[c].count = FALSE, !.gf[c].started = TRUE, !.gf[c].socket = s]
  <2>1. [w EXCEPT !.gf[c].count = FALSE, !.gf[c].started = TRUE, !.gf[c].socket = s]
          = [w EXCEPT !.gf = [w.gf EXCEPT ![c] =
               [w.gf[c] EXCEPT !.count = FALSE, !.started = TRUE, !.socket = s]]]
    BY <1>1, <1>2 DEF Worlds
  <2> QED  BY <2>1, Zenon DEF Put
<1>7. p = [p0 EXCEPT !.gf[c].write = TRUE]
  <2>1. p0.gf = [w.gf EXCEPT ![c] = r0]  BY <1>1 DEF Put, Worlds
  <2>2. p0.gf[c] = r0  BY <1>1, <1>2, <2>1
  <2>3. [p0 EXCEPT !.gf[c].write = TRUE]
          = [p0 EXCEPT !.gf = [p0.gf EXCEPT ![c] = [p0.gf[c] EXCEPT !.write = TRUE]]]
    OBVIOUS
  <2>4. [p0.gf EXCEPT ![c] = r] = [w.gf EXCEPT ![c] = r]
    <3> HIDE DEF r, r0, p0
    <3> QED  BY <1>1, <1>2, <2>1
  <2>5. [p0 EXCEPT !.gf[c].write = TRUE] = [p0 EXCEPT !.gf = [w.gf EXCEPT ![c] = r]]
    BY <2>2, <2>3, <2>4
  <2> DEFINE g == [w.gf EXCEPT ![c] = r]
             g0 == [w.gf EXCEPT ![c] = r0]
  <2>6. p0 = [w EXCEPT !.gf = g0]  BY DEF Put
  <2> HIDE DEF g, g0
  <2>7. [p0 EXCEPT !.gf = g] = [w EXCEPT !.gf = g]  BY <1>1, <2>6 DEF Worlds
  <2> QED  BY <2>5, <2>7 DEF Put, g
<1>8. v = SetInfo(u, s, c)
  <2>1. "unopened" \notin Happens  BY DEF Plain
  <2> QED  BY <1>5, <1>6, <1>7, <2>1, Zenon DEF Push
<1>9. /\ r \in GetFile /\ SameLink(w.gf[c], r) /\ r.socket = s
      /\ r.kind = w.gf[c].kind /\ ~r.count /\ r.write
  BY <1>2 DEF GetFile, SameLink
<1>10. /\ Ready(w, T, Q, F) /\ p = Put(w, c, r) /\ t = Tell(p, kind, 1)
       /\ u = SetRead(t, s, f) /\ e = SetRead(w, s, f) /\ kind = "get"
       /\ w.gf[c].kind = kind /\ Info(w, s) = Nil /\ kind \in {"get", "send"} /\ 1 \in Int
  OBVIOUS
<1> HIDE DEF w, v, f, kind, r0, r, p0, p, t, u, e
<1>11. /\ World(e, T, T, Q, F) /\ e.gf = w.gf /\ SameLists(w, e) /\ SameCounts(w, e)
       /\ s \in Registered(e.sock_manager) /\ Info(e, s) = Info(w, s)
       /\ e.sock_manager.slot[s].func_read = f
  BY <1>1, <1>3, <1>4, <1>10, ReadWorld
<1>12. /\ e \in Worlds /\ e.gf = w.gf /\ SameLists(w, e) /\ SameCounts(w, e)
       /\ e.sock_manager = ReadBy(w.sock_manager, s, f) /\ e.kernel = w.kernel
  BY <1>1, <1>3, <1>4, <1>10, ReadFields
<1>13. /\ p \in Worlds /\ Writes(w, p, c, r)
       /\ p.live = w.live /\ p.transfer_struct = w.transfer_struct /\ p.Queued = w.Queued
       /\ p.finished_struct = w.finished_struct /\ p.sock_manager = w.sock_manager
       /\ p.kernel = w.kernel /\ p.gets = w.gets /\ p.sends = w.sends
  BY <1>1, <1>2, <1>9, <1>10, Rewritten
<1>14. /\ t \in Worlds /\ t.gf = p.gf /\ SameLists(p, t)
       /\ t.sock_manager = p.sock_manager /\ t.kernel = p.kernel
  BY <1>10, <1>13, TellFields
<1>15. Told1(w, t, kind, 1)
  <2>1. Told1(p, t, kind, 1)  BY <1>10, <1>13, TellTold
  <2> QED  BY <1>13, <2>1, Zenon DEF Told1
<1>16. /\ u \in Worlds /\ u.gf = t.gf /\ SameLists(t, u) /\ SameCounts(t, u)
       /\ u.sock_manager = ReadBy(t.sock_manager, s, f) /\ u.kernel = t.kernel
  <2>1. s \in Registered(t.sock_manager)  BY <1>3, <1>13, <1>14
  <2> QED  BY <1>4, <1>10, <1>14, <2>1, ReadFields
<1>17. Writes(e, u, c, r)  BY <1>12, <1>13, <1>14, <1>16, Zenon DEF Writes
<1>18. SameLists(e, u)  BY <1>12, <1>13, <1>14, <1>16, Zenon DEF SameLists
<1>19. u.sock_manager = e.sock_manager /\ u.kernel = e.kernel
  BY <1>12, <1>13, <1>14, <1>16
<1>20. e.sock_manager.slot[s].func_read \notin Early  BY <1>4, <1>11
<1>21. e.gf[c].socket = -1 /\ SameLink(e.gf[c], r) /\ Info(e, s) = Nil
  BY <1>5, <1>9, <1>10, <1>11
<1>22. World(v, T, T, Q, F) /\ JoinedBy(e, v, s, c, r) /\ SameCounts(u, v)
  BY <1>8, <1>9, <1>11, <1>16, <1>17, <1>18, <1>19, <1>20, <1>21, JoinedWorld
<1>23. /\ Writes(e, v, c, r) /\ OtherSlots(e.sock_manager, v.sock_manager, s)
       /\ v.sock_manager.slot[s].info = c /\ v.sock_manager.slot[s].func_read = f
  BY <1>11, <1>22, Zenon DEF JoinedBy
<1>24. OtherSlots(w.sock_manager, v.sock_manager, s)
  <2>1. OtherSlots(w.sock_manager, e.sock_manager, s)
    BY <1>1, <1>3, <1>4, <1>12, ReadTable
  <2> QED  BY <1>23, <2>1 DEF OtherSlots
<1>25. Writes(w, v, c, r)  BY <1>11, <1>23, Zenon DEF Writes
<1>26. Told1(w, v, kind, 1)  BY <1>15, <1>16, <1>22, Zenon DEF Told1, SameCounts
<1>27. v.sock_manager.slot[s].func_read \in IF kind = "get" THEN Getting ELSE Sending
  BY <1>4, <1>10, <1>23
<1>28. Lives(w, T, Q, F, v)
  BY <1>5, <1>9, <1>10, <1>22, <1>23, <1>24, <1>25, <1>26, <1>27, JoinLives
<1> QED  BY <1>28 DEF w, v

\* nap_firewall_get().
LEMMA NapFirewallGetLives ==
    ASSUME Plain, NEW T, NEW Q, NEW F, Ready(mem, T, Q, F), NEW s \in Fd, NapFirewallGet(s)
    PROVE  Lives(mem, T, Q, F, mem')
<1> DEFINE w == mem
           v == mem'
           kind == "get"
<1>1. World(w, T, T, Q, F) /\ Ready(w, T, Q, F)  BY ReadyParts
<1>2. s \in Reading("nap_firewall_get")  BY DEF NapFirewallGet
<1>3. s \in Registered(w.sock_manager) /\ Info(w, s) = Nil
  <2>1. "nap_firewall_get" \in Early  BY DEF Early
  <2> QED  BY <1>1, <1>2, <2>1, ReadingIs
<1>4. "again" \notin Happens  BY DEF Plain
<1>5. \/ v = Finish(w, s)
      \/ v = CloseSock(w, s)
      \/ \E k \in Key : /\ Find(w, k, kind) # Nil
                        /\ Expected(Find(w, k, kind))
                        /\ Push(s, Find(w, k, kind))
  BY <1>4 DEF NapFirewallGet
<1>6. CASE v = Finish(w, s) \/ v = CloseSock(w, s)
  <2> HIDE DEF w, v
  <2>1. Lives(w, T, Q, F, v)  BY <1>1, <1>3, <1>6, CloseNow
  <2> QED  BY <2>1 DEF v, w
<1>7. CASE \E k \in Key : /\ Find(w, k, kind) # Nil
                          /\ Expected(Find(w, k, kind))
                          /\ Push(s, Find(w, k, kind))
  <2>1. PICK k \in Key : /\ Find(w, k, kind) # Nil
                         /\ Expected(Find(w, k, kind))
                         /\ Push(s, Find(w, k, kind))
    BY <1>7
  <2> DEFINE d == Find(w, k, kind)
  <2>2. d = Find(w, k, kind)  OBVIOUS
  <2>3. Expected(d) /\ Push(s, d) /\ d # Nil  BY <2>1
  <2> HIDE DEF d
  <2>4. d \in T /\ w.gf[d].key = k /\ w.gf[d].kind = kind
    <3> HIDE DEF w, kind
    <3>1. d # Nil => d \in T /\ w.gf[d].key = k /\ w.gf[d].kind = kind  BY <1>1, <2>2, FindIn
    <3> QED  BY <2>3, <3>1
  <2> QED  BY <1>2, <1>3, <2>3, <2>4, PushLives
<1> QED  BY <1>5, <1>6, <1>7

\* nap_firewall_start1() is no handler of a plain run.
LEMMA NapFirewallStart1Lives ==
    ASSUME NEW T, NEW Q, NEW F, Ready(mem, T, Q, F), NEW s \in Fd, NapFirewallStart1(s)
    PROVE  Lives(mem, T, Q, F, mem')
<1> DEFINE f == "nap_firewall_start1"
           c == Info(mem, s)
<1>1. s \in Reading(f)  BY DEF NapFirewallStart1
<1>2. /\ c = Nil => f \in Unnamed
      /\ c # Nil => f \in IF mem.gf[c].kind = "get" THEN Getting ELSE Sending
  BY <1>1, ReadingSuits
<1>3. f \notin Unnamed /\ f \notin Getting /\ f \notin Sending
  BY DEF Unnamed, Getting, Sending
<1> QED  BY <1>2, <1>3

\* A handler has the record c in hand, its connection still to come.
Held(w, T, Q, F, c, u) ==
    /\ World(u, T \ {c}, T, Q, F) /\ Others(w, u, c) /\ SameCounts(w, u)
    /\ u.sock_manager = w.sock_manager /\ u.gf[c].socket = -1

\* It is taken off transfer_struct.
LEMMA BreakHeld ==
    ASSUME NEW w, NEW T, NEW Q, NEW F, World(w, T, T, Q, F), NEW c \in T,
           w.gf[c].socket = -1, NEW u, u = Break(w, c)
    PROVE  Held(w, T, Q, F, c, u) /\ u.gf[c].kind = w.gf[c].kind
<1>1. /\ World(u, T \ {c}, T, Q, F)
      /\ SameData(w.gf, u.gf)
      /\ u.sock_manager = w.sock_manager /\ u.kernel = w.kernel
      /\ u.live = w.live /\ u.gets = w.gets /\ u.sends = w.sends
  BY BreakWorld
<1>2. c \in Cell  BY WorldParts
<1>3. Others(w, u, c)  BY <1>1, OthersBy
<1>4. u.gf[c].kind = w.gf[c].kind /\ u.gf[c].socket = -1
  BY <1>1, <1>2, Zenon DEF SameData
<1>5. SameCounts(w, u)  BY <1>1 DEF SameCounts
<1> QED  BY <1>1, <1>3, <1>4, <1>5, Zenon DEF Held

\* It is written to.
LEMMA PutHeld ==
    ASSUME NEW w, NEW T, NEW Q, NEW F, NEW c \in Cell, NEW u, Held(w, T, Q, F, c, u),
           NEW r \in GetFile, SamePlace(u.gf[c], r), NEW v, v = Put(u, c, r)
    PROVE  Held(w, T, Q, F, c, v) /\ v.gf[c] = r
<1> DEFINE T1 == T \ {c}
<1>1. /\ World(u, T1, T, Q, F) /\ Others(w, u, c) /\ SameCounts(w, u)
      /\ u.sock_manager = w.sock_manager /\ u.gf[c].socket = -1
  BY Zenon DEF Held
<1> HIDE DEF T1
<1>2. /\ World(v, T1, T, Q, F) /\ Writes(u, v, c, r)
      /\ SameLists(u, v) /\ SameCounts(u, v)
      /\ v.sock_manager = u.sock_manager /\ v.kernel = u.kernel
  BY <1>1, PutWorld
<1>3. v.gf[c] = r  BY <1>2, Zenon DEF Writes
<1>4. Others(w, v, c)
  <2>1. Others(u, v, c)  BY <1>2, OthersBy
  <2> QED  BY <1>1, <2>1, OthersBy, Zenon
<1>5. SameCounts(w, v)  BY <1>1, <1>2 DEF SameCounts
<1>6. v.sock_manager = w.sock_manager  BY <1>1, <1>2
<1>7. v.gf[c].socket = -1  BY <1>1, <1>3 DEF SamePlace
<1> QED  BY <1>2, <1>3, <1>4, <1>5, <1>6, <1>7, Zenon DEF Held, T1

LEMMA PutHeldTwice ==
    ASSUME NEW w, NEW T, NEW Q, NEW F, NEW c \in Cell, NEW u, Held(w, T, Q, F, c, u),
           NEW r \in GetFile, SamePlace(u.gf[c], r), NEW s \in GetFile, SamePlace(r, s),
           NEW v, v = TwoFields(u, c, r, s)
    PROVE  Held(w, T, Q, F, c, v) /\ v.gf[c] = s
<1> DEFINE x == Put(u, c, r)
<1>1. x = Put(u, c, r) /\ v = Put(x, c, s)  BY DEF TwoFields
<1> HIDE DEF x
<1>2. Held(w, T, Q, F, c, x) /\ x.gf[c] = r  BY <1>1, PutHeld
<1>3. SamePlace(x.gf[c], s)  BY <1>2
<1> QED  BY <1>1, <1>2, <1>3, PutHeld

\* cmd_getfile() fills it in.
LEMMA AddressHeld ==
    ASSUME NEW w, NEW T, NEW Q, NEW F, World(w, T, T, Q, F), NEW c \in T,
           w.gf[c].socket = -1, NEW u, u = Break(w, c), NEW x, x = WithAddress(u, c)
    PROVE  Held(w, T, Q, F, c, x) /\ ~x.gf[c].write /\ x.gf[c].kind = w.gf[c].kind
<1>1. Held(w, T, Q, F, c, u) /\ u.gf[c].kind = w.gf[c].kind  BY BreakHeld
<1>2. c \in Cell  BY WorldParts
<1>3. u.gf[c].socket = -1  BY <1>1, Zenon DEF Held
<1>4. u \in Worlds
  <2>1. World(u, T \ {c}, T, Q, F)  BY <1>1, Zenon DEF Held
  <2> QED  BY <2>1, Zenon DEF World
<1>5. PICK r \in GetFile, s \in GetFile :
              Named(u.gf[c], r, s) /\ x = TwoFields(u, c, r, s)
  BY <1>2, <1>3, <1>4, AddressFields
<1>6. SamePlace(u.gf[c], r) /\ SamePlace(r, s) /\ s.kind = u.gf[c].kind /\ ~s.write
  BY <1>5, Zenon DEF Named
<1>7. Held(w, T, Q, F, c, x) /\ x.gf[c] = s  BY <1>1, <1>2, <1>5, <1>6, PutHeldTwice
<1> QED  BY <1>1, <1>6, <1>7, Zenon

\* The address has a port,
LEMMA PortHeld ==
    ASSUME NEW w, NEW T, NEW Q, NEW F, NEW c \in Cell, NEW x, Held(w, T, Q, F, c, x),
           ~x.gf[c].write, NEW v, v = WithPort(x, c)
    PROVE  Held(w, T, Q, F, c, v) /\ ~v.gf[c].write
<1>1. x \in Worlds
  <2>1. World(x, T \ {c}, T, Q, F)  BY Zenon DEF Held
  <2> QED  BY <2>1, Zenon DEF World
<1>2. PICK t \in GetFile :
              /\ SamePlace(x.gf[c], t) /\ v = Put(x, c, t)
              /\ t.key = x.gf[c].key /\ t.kind = x.gf[c].kind
              /\ t.realfile = x.gf[c].realfile /\ t.socket = x.gf[c].socket
              /\ t.write = x.gf[c].write
  BY <1>1, PortField
<1>3. Held(w, T, Q, F, c, v) /\ v.gf[c] = t  BY <1>2, PutHeld
<1> QED  BY <1>2, <1>3, Zenon

\* ... or none.
LEMMA NoPortHeld ==
    ASSUME NEW w, NEW T, NEW Q, NEW F, NEW c \in Cell, NEW x, Held(w, T, Q, F, c, x),
           NEW v, v = WithoutPort(x, c)
    PROVE  Held(w, T, Q, F, c, v) /\ v.gf[c].kind = x.gf[c].kind
<1>1. x.gf[c].socket = -1  BY Zenon DEF Held
<1>2. x \in Worlds
  <2>1. World(x, T \ {c}, T, Q, F)  BY Zenon DEF Held
  <2> QED  BY <2>1, Zenon DEF World
<1>3. PICK t \in GetFile, y \in GetFile :
              /\ SamePlace(x.gf[c], t) /\ SamePlace(t, y) /\ v = TwoFields(x, c, t, y)
              /\ y.kind = x.gf[c].kind
  BY <1>1, <1>2, WithoutPortFields
<1>4. Held(w, T, Q, F, c, v) /\ v.gf[c] = y  BY <1>3, PutHeldTwice
<1> QED  BY <1>3, <1>4, Zenon

\* It is connected, or about to be.
LEMMA HeldConnected ==
    ASSUME NEW w, NEW T, NEW Q, NEW F, Ready(w, T, Q, F),
           NEW c \in T, w.gf[c].kind = "get", w.gf[c].socket = -1,
           NEW u, Held(w, T, Q, F, c, u), ~u.gf[c].write, NEW v \in Connected(u, c)
    PROVE  Lives(w, T, Q, F, v)
<1> DEFINE T1 == T \ {c}
           s == v.gf[c].socket
           f == "nap_getfilestart"
<1>1. /\ World(u, T1, T, Q, F) /\ Others(w, u, c) /\ SameCounts(w, u)
      /\ u.sock_manager = w.sock_manager /\ u.gf[c].socket = -1
  BY Zenon DEF Held
<1>2. /\ World(w, T, T, Q, F) /\ T \subseteq Cell /\ Suited(w.sock_manager, w.gf)
  BY ReadyParts
<1>3. c \in T \ T1 /\ T1 \cup {c} = T /\ c \in Cell /\ c # Nil
  BY <1>2, NilNoCell
<1> HIDE DEF T1
<1>4. Reached(u, T1, T, Q, F, c, v) /\ Connecting(u, c, v)
  BY <1>1, <1>3, ConnectedWorld
<1>5. /\ World(v, T1 \cup {c}, T, Q, F) /\ \A d \in Cell : d # c => SameFile(u.gf[d], v.gf[d])
      /\ v.gf[c].kind = "get" /\ v.gf[c].write = u.gf[c].write
  BY <1>4, Zenon DEF Reached
<1>6. World(v, T, T, Q, F)  BY <1>3, <1>5
<1>7. /\ s \in Fd /\ v.gf[c].count
      /\ \A d \in Cell : d # c => v.gf[d].count = u.gf[d].count
      /\ SameCounts(u, v)
      /\ OtherSlots(u.sock_manager, v.sock_manager, s)
      /\ v.sock_manager.slot[s].info = c /\ v.sock_manager.slot[s].func_read = f
  BY <1>4, Zenon DEF Connecting
<1>8. Others(w, v, c)
  <2>1. ASSUME NEW d \in Cell, d # c PROVE Same(u.gf[d], v.gf[d])
    <3>1. SameFile(u.gf[d], v.gf[d])  BY <1>5, <2>1
    <3>2. v.gf[d].count = u.gf[d].count  BY <1>7, <2>1
    <3> QED  BY <3>1, <3>2, Zenon DEF SameFile, Same
  <2>2. Others(u, v, c)  BY <2>1, Zenon DEF Others
  <2> QED  BY <1>1, <2>2, OthersBy, Zenon
<1>9. Suited(v.sock_manager, v.gf)
  <2>1. v.gf[c].kind = w.gf[c].kind  BY <1>5
  <2>2. \A d \in T : v.gf[d].kind = w.gf[d].kind  BY <1>2, <1>8, <2>1, KindsKept
  <2>3. f \in Getting  BY DEF Getting
  <2>4. Suits(v.sock_manager.slot[s].func_read, v.sock_manager.slot[s].info, v.gf)
    BY <1>3, <1>5, <1>7, <2>3, Zenon DEF Suits
  <2>5. OtherSlots(w.sock_manager, v.sock_manager, s)  BY <1>1, <1>7
  <2> HIDE DEF s
  <2> QED  BY <1>2, <1>7, <2>2, <2>4, <2>5, SuitedFrame
<1>10. SameCounts(w, v)  BY <1>1, <1>7 DEF SameCounts
<1>11. ~v.gf[c].write  BY <1>5, Zenon
<1> QED  BY <1>5, <1>6, <1>7, <1>8, <1>9, <1>10, <1>11, ConnectLives

\* It waits for a push.
LEMMA HeldAdded ==
    ASSUME NEW w, NEW T, NEW Q, NEW F, Ready(w, T, Q, F), NEW c \in T, w.gf[c].socket = -1,
           NEW u, Held(w, T, Q, F, c, u), u.gf[c].kind = w.gf[c].kind,
           NEW v, v = AddToTransferList(u, c)
    PROVE  Lives(w, T, Q, F, v)
<1> DEFINE T1 == T \ {c}
<1>1. /\ World(u, T1, T, Q, F) /\ Others(w, u, c) /\ SameCounts(w, u)
      /\ u.sock_manager = w.sock_manager /\ u.gf[c].socket = -1
  BY Zenon DEF Held
<1>2. T \subseteq Cell /\ Suited(w.sock_manager, w.gf) /\ World(w, T, T, Q, F)
  BY ReadyParts
<1>3. c \in T \ T1 /\ T1 \cup {c} = T /\ c \in Cell  BY <1>2
<1> HIDE DEF T1
<1>4. /\ World(v, T1 \cup {c}, T, Q, F)
      /\ SameData(u.gf, v.gf)
      /\ v.sock_manager = u.sock_manager /\ v.kernel = u.kernel
      /\ v.live = u.live /\ v.gets = u.gets /\ v.sends = u.sends
  BY <1>1, <1>3, AddWorld
<1>5. World(v, T, T, Q, F)  BY <1>3, <1>4
<1>6. v.gf[c].kind = w.gf[c].kind /\ v.gf[c].socket = -1
  BY <1>1, <1>3, <1>4, Zenon DEF SameData
<1>7. Others(w, v, c)
  <2>1. Others(u, v, c)  BY <1>4, OthersBy
  <2> QED  BY <1>1, <2>1, OthersBy, Zenon
<1>8. ASSUME NEW d \in T PROVE Same(w.gf[d], v.gf[d])
  <2>1. CASE d = c  BY <1>6, <2>1, Zenon DEF Same
  <2>2. CASE d # c  BY <1>2, <1>7, <2>2, Zenon DEF Others
  <2> QED  BY <2>1, <2>2
<1>9. Suited(v.sock_manager, v.gf)
  <2>1. \A d \in T : v.gf[d].kind = w.gf[d].kind  BY <1>2, <1>6, <1>7, KindsKept
  <2> QED  BY <1>1, <1>2, <1>4, <2>1, SuitedFrame
<1>10. SameCounts(w, v)  BY <1>1, <1>4 DEF SameCounts
<1> QED  BY <1>5, <1>8, <1>9, <1>10, ForgetLives

\* cmd_getfile().
LEMMA CmdGetFileLives ==
    ASSUME Plain, NEW T, NEW Q, NEW F, State(mem, T, Q, F, asked), Ready(mem, T, Q, F),
           NEW k \in Key, CmdGetFile(k)
    PROVE  Lives(mem, T, Q, F, mem')
<1> DEFINE w == mem
           v == mem'
           c == Waiting(k).c
           u == Waiting(k).w
           x == WithAddress(u, c)
           y == WithPort(x, c)
           z == WithoutPort(x, c)
<1>1. World(w, T, T, Q, F) /\ Ready(w, T, Q, F) /\ T \subseteq Cell  BY ReadyParts
<1>2. \/ c = Nil
      \/ /\ c \in T /\ u = Break(w, c)
         /\ w.gf[c].kind = "get" /\ w.gf[c].key = k /\ w.gf[c].socket = -1
  <2>1. asked[k] > 0  BY DEF CmdGetFile
  <2> QED  BY <2>1, WaitingIs
<1>3. \/ c = Nil /\ v = w
      \/ /\ c # Nil
         /\ \/ v \in CreateAndGet(y, c)
            \/ v = AddToTransferList(z, c)
  BY DEF CmdGetFile, WithAddress, WithPort, WithoutPort
<1>4. x = WithAddress(u, c) /\ y = WithPort(x, c) /\ z = WithoutPort(x, c)  OBVIOUS
<1>5. "refused" \notin Happens  BY DEF Plain
<1> HIDE DEF w, v, c, u, x, y, z
<1>6. CASE c = Nil /\ v = w
  <2>1. Lives(w, T, Q, F, v)  BY <1>1, <1>6, StillLives
  <2> QED  BY <2>1 DEF w, v
<1>7. CASE /\ c # Nil
           /\ \/ v \in CreateAndGet(y, c)
              \/ v = AddToTransferList(z, c)
  <2>1. /\ c \in T /\ u = Break(w, c) /\ c \in Cell
        /\ w.gf[c].kind = "get" /\ w.gf[c].socket = -1
    BY <1>1, <1>2, <1>7
  <2>2. Held(w, T, Q, F, c, x) /\ ~x.gf[c].write /\ x.gf[c].kind = w.gf[c].kind
    BY <1>1, <1>4, <2>1, AddressHeld
  <2>3. CASE v \in Connected(y, c)
    <3>1. Held(w, T, Q, F, c, y) /\ ~y.gf[c].write  BY <1>4, <2>1, <2>2, PortHeld
    <3>2. Lives(w, T, Q, F, v)  BY <1>1, <2>1, <2>3, <3>1, HeldConnected
    <3> QED  BY <3>2 DEF w, v
  <2>4. CASE v = AddToTransferList(z, c)
    <3>1. Held(w, T, Q, F, c, z) /\ z.gf[c].kind = x.gf[c].kind
      BY <1>4, <2>1, <2>2, NoPortHeld
    <3>2. Lives(w, T, Q, F, v)  BY <1>1, <2>1, <2>2, <2>4, <3>1, HeldAdded
    <3> QED  BY <3>2 DEF w, v
  <2> QED  BY <1>5, <1>7, <2>3, <2>4 DEF CreateAndGet
<1> QED  BY <1>3, <1>6, <1>7

\* An answer without an address.
LEMMA NotAnsweredLives ==
    ASSUME NEW T, NEW Q, NEW F, Ready(mem, T, Q, F), NEW k \in Key, NotAnswered(k)
    PROVE  Lives(mem, T, Q, F, mem')
<1>1. mem' = mem  BY DEF NotAnswered
<1> QED  BY <1>1, StillLives

\* cmd_toomanyfiles().
LEMMA CmdToomanyfilesLives ==
    ASSUME NEW T, NEW Q, NEW F, State(mem, T, Q, F, asked), Ready(mem, T, Q, F),
           NEW k \in Key, CmdToomanyfiles(k)
    PROVE  Lives(mem, T, Q, F, mem')
<1> DEFINE w == mem
           v == mem'
           q == asked
           kind == "get"
           c == Find(w, k, kind)
           u == Break(w, c)
           g == LinkLast(u, u.Queued, c).gf
           first == LinkLast(u, u.Queued, c).head
<1>1. World(w, T, T, Q, F) /\ Ready(w, T, Q, F) /\ T \subseteq Cell
      /\ Suited(w.sock_manager, w.gf)
  BY ReadyParts
<1>2. q[k] > 0  BY DEF CmdToomanyfiles
<1>3. GetsKept(w.gf, T, Q, q)  BY DEF State
<1>4. \/ c = Nil /\ v = w
      \/ c # Nil /\ v = Queueing(u, g, first)
  BY DEF CmdToomanyfiles, Queueing
<1>5. CASE c = Nil /\ v = w
  <2>1. mem' = mem  BY <1>5
  <2> QED  BY <2>1, StillLives
<1>6. CASE c # Nil /\ v = Queueing(u, g, first)
  <2>1. c = Find(w, k, kind)  OBVIOUS
  <2>2. u = Break(w, c) /\ g = LinkLast(u, u.Queued, c).gf
        /\ first = LinkLast(u, u.Queued, c).head /\ kind = "get"
    OBVIOUS
  <2> HIDE DEF w, v, q, kind, c, u, g, first
  <2>3. c \in T /\ w.gf[c].key = k /\ w.gf[c].kind = "get"
    <3>1. c # Nil => c \in T /\ w.gf[c].key = k /\ w.gf[c].kind = kind  BY <1>1, <2>1, FindIn
    <3> QED  BY <1>6, <2>2, <3>1
  <2>4. w.gf[c].socket = -1
    <3> DEFINE gf == w.gf
    <3>1. GetsKept(gf, T, Q, q) /\ gf[c].key = k /\ gf[c].kind = "get" /\ c \in T \cup Q
      BY <1>3, <2>3
    <3> HIDE DEF gf
    <3>2. /\ \A d \in T \cup Q :
               gf[d].kind = "get" /\ q[gf[d].key] > 0 => d \in T /\ ~gf[d].realfile
          /\ \A d \in T : gf[d].kind = "get" /\ ~gf[d].realfile => gf[d].socket = -1
      BY <3>1, Zenon DEF GetsKept
    <3>3. ~gf[c].realfile  BY <1>2, <3>1, <3>2, Zenon
    <3>4. gf[c].socket = -1  BY <2>3, <3>1, <3>2, <3>3, Zenon
    <3> QED  BY <3>4 DEF gf
  <2>5. Held(w, T, Q, F, c, u)  BY <1>1, <2>2, <2>3, <2>4, BreakHeld
  <2> DEFINE T1 == T \ {c}
             Q1 == Q \cup {c}
  <2>6. T1 = T \ {c} /\ Q1 = Q \cup {c} /\ c \in T \ T1 /\ c \in Cell  BY <1>1, <2>3
  <2>7. /\ World(u, T1, T, Q, F) /\ Others(w, u, c) /\ SameCounts(w, u)
        /\ u.sock_manager = w.sock_manager /\ u.gf[c].socket = -1
    BY <2>5, Zenon DEF Held
  <2> HIDE DEF T1, Q1
  <2>8. v = Queueing(u, g, first)  BY <1>6
  <2>9. /\ World(v, T1, T \ {c}, Q \cup {c}, F)
        /\ SameData(u.gf, v.gf)
        /\ v.sock_manager = u.sock_manager /\ v.kernel = u.kernel
        /\ v.live = u.live /\ v.gets = u.gets /\ v.sends = u.sends
    BY SMTT(30), <2>2, <2>6, <2>7, <2>8, QueueWorld
  <2>10. World(v, T1, T1, Q1, F)  BY <2>6, <2>9
  <2>11. Others(w, v, c)
    <3>1. Others(u, v, c)  BY <2>9, OthersBy
    <3> QED  BY <2>7, <3>1, OthersBy, Zenon
  <2>12. Suited(v.sock_manager, v.gf)
    <3>1. v.gf[c].kind = u.gf[c].kind  BY <2>6, <2>9, Zenon DEF SameData
    <3>2. u.gf[c].kind = w.gf[c].kind  BY <1>1, <2>2, <2>3, <2>4, BreakHeld
    <3>3. \A d \in T : v.gf[d].kind = w.gf[d].kind
      BY <1>1, <2>11, <3>1, <3>2, KindsKept
    <3> QED  BY <1>1, <2>7, <2>9, <3>3, SuitedFrame
  <2>13. SameCounts(w, v)  BY <2>7, <2>9 DEF SameCounts
  <2>14. Lives(w, T, Q, F, v)
    BY <1>1, <2>3, <2>4, <2>6, <2>10, <2>11, <2>12, <2>13, PutOffLives
  <2> QED  BY <2>14 DEF w, v
<1> QED  BY <1>4, <1>5, <1>6

\* A sweep that finds no record old enough.
LEMMA ExpireNone ==
    ASSUME NEW w, NEW S, S = {}
    PROVE  ExpireThose(w, S) = w
<1> DEFINE head == w.transfer_struct
           Made(f) == f = [n \in 0 .. Depth |->
                             IF n = 0 THEN w
                             ELSE IF At(w, head, n - 1) = Nil THEN f[n - 1]
                             ELSE Expire(f[n - 1], At(w, head, n - 1), S)]
           Still(f) == f = [n \in 0 .. Depth |-> IF n = 0 THEN w ELSE f[n - 1]]
           g == [n \in 0 .. Depth |-> w]
<1>1. ExpireThose(w, S) = (CHOOSE f : Made(f))[Depth]  BY DEF Walk, ExpireThose
<1>2. \A x, c : Expire(x, c, S) = x  BY DEF Expire
<1>3. \A f : Made(f) <=> Still(f)  BY <1>2
<1>4. Depth \in Nat  BY NilNoCell
<1>5. Still(g)
  <2>1. \A n \in 0 .. Depth : n # 0 => n - 1 \in 0 .. Depth  BY <1>4
  <2>2. \A n \in 0 .. Depth : w = IF n = 0 THEN w ELSE g[n - 1]  BY <2>1
  <2> QED  BY <2>2, Zenon
<1> HIDE DEF Made
<1>6. Made(CHOOSE f : Made(f))  BY <1>3, <1>5, Zenon
<1>7. ASSUME NEW f, Still(f) PROVE f[Depth] = w
  <2> DEFINE Same0 == {n \in Nat : n <= Depth => f[n] = w}
  <2>1. 0 \in Same0  BY <1>4, <1>7
  <2>2. ASSUME NEW n \in Nat, n \in Same0 PROVE n + 1 \in Same0
    <3> SUFFICES ASSUME n + 1 <= Depth PROVE f[n + 1] = w
      OBVIOUS
    <3>1. n + 1 \in 0 .. Depth /\ n + 1 # 0 /\ (n + 1) - 1 = n /\ n <= Depth  BY <1>4
    <3>2. f[n + 1] = f[n]  BY <1>7, <3>1
    <3> QED  BY <2>2, <3>1, <3>2
  <2>3. Nat \subseteq Same0
    <3> HIDE DEF Same0
    <3> QED  BY <2>1, <2>2, Induction
  <2> QED  BY <1>4, <2>3
<1>8. Still(CHOOSE f : Made(f))  BY <1>3, <1>6, Zenon
<1> HIDE DEF Still
<1> QED  BY <1>1, <1>7, <1>8, Zenon

\* A download is asked for again.
LEMMA AskNextLives ==
    ASSUME NEW w, NEW T, NEW Q, NEW F, Ready(w, T, Q, F), NEW n, n = AskNext(w)
    PROVE  Lives(w, T, Q, F, n.w)
<1>1. /\ World(w, T, T, Q, F) /\ w.gf \in [Cell -> GetFile]
      /\ T \subseteq Cell /\ Q \subseteq Cell
      /\ T \cap Q = {} /\ Q \cap F = {} /\ T \cup Q \cup F \subseteq w.live
      /\ Suited(w.sock_manager, w.gf)
  BY ReadyParts
<1>2. CASE ~(w.Queued # Nil /\ limit # 0 /\ FilesInProgress(w, "get") < limit)
  <2>1. n = [c |-> Nil, w |-> w]  BY <1>2 DEF AskNext
  <2>2. n.w = w  BY <2>1
  <2> QED  BY <2>2, StillLives
<1>3. CASE w.Queued # Nil /\ limit # 0 /\ FilesInProgress(w, "get") < limit
  <2> DEFINE c == LastOf(w, w.Queued)
             u == BreakFromQueue(w, c)
             v == AddToTransferList(u, c)
             T1 == T \cup {c}
             Q1 == Q \ {c}
  <2>1. n = [c |-> c, w |-> v]  BY <1>3 DEF AskNext
  <2>2. n.w = v  BY <2>1
  <2>3. c \in Q
    <3>1. Nexts(w.gf)  BY <1>1, NextsOf
    <3>2. Chain(w.gf, w.Queued, Q)  BY <1>1 DEF World, DoubleChain
    <3>3. Q # {}  BY <1>3, <3>2 DEF Chain
    <3> QED  BY <3>1, <3>2, <3>3, LastOfIn
  <2>4. w.gf[c].socket = -1 /\ ~w.gf[c].deleted
    <3>1. c \in Q \cup F /\ c \in T \cup Q  BY <2>3
    <3> QED  BY <1>1, <3>1, Zenon DEF World, Silent, Kept
  <2> HIDE DEF c, u, v
  <2>5. /\ World(u, T, T, Q \ {c}, F)
        /\ SameData(w.gf, u.gf)
        /\ u.sock_manager = w.sock_manager /\ u.kernel = w.kernel
        /\ u.live = w.live /\ u.gets = w.gets /\ u.sends = w.sends
    BY <1>1, <2>3, BreakFromQueueWorld DEF u
  <2>6. World(u, T, T, Q1, F) /\ c \in Cell /\ c \in u.live /\ c \notin Q1 /\ c \notin F
        /\ c \notin T
    BY <1>1, <2>3, <2>5
  <2>7. T1 = T \cup {c} /\ Q1 = Q \ {c}  OBVIOUS
  <2> HIDE DEF Q1
  <2>8. u.gf[c].socket = -1 /\ ~u.gf[c].deleted
    BY <2>4, <2>5, <2>6, Zenon DEF SameData
  <2>9. World(u, T, T \cup {c}, Q1, F)  BY <2>6, <2>8, WorldTaken
  <2>10. World(u, T, T1, Q1, F) /\ c \in T1 \ T  BY <2>6, <2>9
  <2> HIDE DEF T1
  <2>11. /\ World(v, T \cup {c}, T1, Q1, F)
         /\ SameData(u.gf, v.gf)
         /\ v.sock_manager = u.sock_manager /\ v.kernel = u.kernel
         /\ v.live = u.live /\ v.gets = u.gets /\ v.sends = u.sends
    BY <2>10, AddWorld DEF v
  <2>12. World(v, T1, T1, Q1, F)  BY <2>7, <2>11
  <2>13. Others(w, v, c)
    <3>1. Others(w, u, c) /\ Others(u, v, c)  BY <2>5, <2>11, OthersBy
    <3> QED  BY <3>1, OthersBy, Zenon
  <2>14. v.gf[c].socket = -1  BY <2>6, <2>8, <2>11, Zenon DEF SameData
  <2>15. Suited(v.sock_manager, v.gf)
    <3>1. \A d \in T : v.gf[d].kind = w.gf[d].kind  BY <1>1, <2>6, <2>13, KindsKept
    <3>2. v.sock_manager = w.sock_manager  BY <2>5, <2>11
    <3> QED  BY <1>1, <3>1, <3>2, SuitedFrame
  <2>16. SameCounts(w, v)  BY <2>5, <2>11 DEF SameCounts
  <2>17. c \in Cell /\ c \notin T /\ c \notin F  BY <2>6
  <2>18. Lives(w, T, Q, F, v)
    BY <2>7, <2>12, <2>13, <2>14, <2>15, <2>16, <2>17, ComesLives
  <2> QED  BY <2>2, <2>18
<1> QED  BY <1>2, <1>3

\* clean_queue().
LEMMA CleanQueueLives ==
    ASSUME Plain, NEW T, NEW Q, NEW F, Ready(mem, T, Q, F), CleanQueue
    PROVE  Lives(mem, T, Q, F, mem')
<1>1. OldEnough = {{}}  BY DEF Plain, OldEnough
<1>2. CleanQueueOf({})  BY <1>1 DEF CleanQueue
<1>3. ExpireThose(mem, {}) = mem  BY ExpireNone
<1> DEFINE n == AskNext(mem)
<1>4. mem' = n.w  BY <1>2, <1>3, Zenon DEF CleanQueueOf, Swept
<1>5. n = AskNext(mem)  OBVIOUS
<1> HIDE DEF n
<1>6. Lives(mem, T, Q, F, n.w)  BY <1>5, AskNextLives
<1> QED  BY <1>4, <1>6

\* clean_sockets().
LEMMA RunCleanSocketsLives ==
    ASSUME NEW T, NEW Q, NEW F, Ready(mem, T, Q, F), RunCleanSockets
    PROVE  Lives(mem, T, Q, F, mem')
<1> DEFINE w == mem
           v == mem'
<1>1. v = CleanSockets(w)  BY DEF RunCleanSockets
<1>2. /\ World(w, T, T, Q, F) /\ Ready(w, T, Q, F) /\ T \subseteq Cell /\ T \cap F = {}
      /\ Suited(w.sock_manager, w.gf)
  BY ReadyParts
<1> HIDE DEF w, v
<1>3. PICK G \in SUBSET F :
              /\ World(v, T, T, Q, G) /\ v.live = w.live \ (F \ G) /\ SameCounts(w, v)
              /\ \A d \in Cell \ F : v.gf[d] = w.gf[d]
              /\ v.sock_manager = w.sock_manager
  BY <1>1, <1>2, CleanWorld
<1>4. \A d \in T : v.gf[d] = w.gf[d]  BY <1>2, <1>3
<1>5. \A d \in T : Same(w.gf[d], v.gf[d]) /\ v.gf[d].kind = w.gf[d].kind
  BY <1>4, Zenon DEF Same
<1>6. Suited(v.sock_manager, v.gf)  BY <1>2, <1>3, <1>5, SuitedFrame
<1>7. Lives(w, T, Q, F, v)
  <2>1. Q \subseteq Q /\ G \subseteq F  BY <1>3
  <2> QED  BY <1>2, <1>3, <1>5, <1>6, <2>1, ForgetLives
<1> QED  BY <1>7 DEF w, v

\* cmd_nosuchnick().
LEMMA CmdNosuchnickLives ==
    ASSUME NEW T, NEW Q, NEW F, Ready(mem, T, Q, F), CmdNosuchnick
    PROVE  Lives(mem, T, Q, F, mem')
<1> DEFINE w == mem
           v == mem'
           L == w.live \ Q
<1>1. World(w, T, T, Q, F) /\ Ready(w, T, Q, F) /\ Suited(w.sock_manager, w.gf)
  BY ReadyParts
<1>2. On(w, w.Queued) = Q  BY <1>1, InProgressIs
<1>3. v = NoQueue(w, L) /\ L = w.live \ Q  BY <1>2 DEF CmdNosuchnick, NoQueue
<1>4. v.sock_manager = w.sock_manager
  <2>1. w \in Worlds  BY <1>1, WorldParts
  <2> QED  BY <1>3, <2>1 DEF NoQueue, Worlds
<1> HIDE DEF w, v, L
<1>5. World(v, T, T, {}, F) /\ v.gf = w.gf /\ SameCounts(w, v)  BY <1>1, <1>3, GoneWorld
<1>6. \A d \in T : Same(w.gf[d], v.gf[d]) /\ v.gf[d].kind = w.gf[d].kind
  BY <1>5, Zenon DEF Same
<1>7. Suited(v.sock_manager, v.gf)  BY <1>1, <1>4, <1>6, SuitedFrame
<1>8. Lives(w, T, Q, F, v)
  <2>1. {} \subseteq Q /\ F \subseteq F  OBVIOUS
  <2> QED  BY <1>1, <1>5, <1>6, <1>7, <2>1, ForgetLives
<1> QED  BY <1>8 DEF w, v

\* Every handler, command and sweep moves one transfer on, or none.
LEMMA NextLives ==
    ASSUME Plain, NEW T, NEW Q, NEW F, State(mem, T, Q, F, asked), Ready(mem, T, Q, F), Next
    PROVE  Lives(mem, T, Q, F, mem')
<1>1. /\ "request" \notin Happens /\ "offer" \notin Happens /\ "push" \notin Happens
      /\ "accept" \notin Happens /\ "command" \notin Happens
  BY DEF Plain
<1>2. AllSeen(mem, T, Q, F)
  <2>1. Ordinary  BY DEF Plain, Ordinary
  <2> QED  BY <2>1, Zenon DEF State
<1>3. CASE Download
  <2>1. ASSUME NEW k \in Key, GetFile_(k) PROVE Lives(mem, T, Q, F, mem')
    BY <2>1, GetFileLives
  <2>2. ASSUME NEW k \in Key, Request(k) PROVE FALSE
    BY <1>1, <2>2, Zenon DEF Request
  <2>3. ASSUME NEW k \in Key, CmdGetFile(k) PROVE Lives(mem, T, Q, F, mem')
    BY <2>3, CmdGetFileLives
  <2>4. ASSUME NEW k \in Key, NotAnswered(k) PROVE Lives(mem, T, Q, F, mem')
    BY <2>4, NotAnsweredLives
  <2>5. ASSUME NEW k \in Key, DccOffer(k) PROVE FALSE
    BY <1>1, <2>5, Zenon DEF DccOffer
  <2>6. ASSUME NEW k \in Key, CmdToomanyfiles(k) PROVE Lives(mem, T, Q, F, mem')
    BY <2>6, CmdToomanyfilesLives
  <2>7. ~DccGet  BY <1>1, Zenon DEF DccGet
  <2>8. ASSUME NEW s \in Fd, NapGetfilestart(s) PROVE Lives(mem, T, Q, F, mem')
    BY <2>8, NapGetfilestartLives
  <2>9. ASSUME NEW s \in Fd, NapGetfile(s) PROVE Lives(mem, T, Q, F, mem')
    BY <2>9, NapGetfileLives
  <2>10. ASSUME NEW s \in Fd, NapFirewallGet(s) PROVE Lives(mem, T, Q, F, mem')
    BY <2>10, NapFirewallGetLives
  <2> QED
    BY <1>3, <2>1, <2>2, <2>3, <2>4, <2>5, <2>6, <2>7, <2>8, <2>9, <2>10, Zenon DEF Download
<1>4. CASE Upload
  <2>1. ASSUME NEW k \in Key, CmdFilerequest(k) PROVE Lives(mem, T, Q, F, mem')
    BY <2>1, CmdFilerequestLives
  <2>2. ASSUME NEW k \in Key, CmdAccepterror(k) PROVE FALSE
    BY <1>1, <2>2, Zenon DEF CmdAccepterror
  <2>3. ASSUME NEW k \in Key, CmdFirewallRequest(k) PROVE FALSE
    BY <1>1, <2>3, Zenon DEF CmdFirewallRequest
  <2>4. ASSUME NEW s \in Fd, NapfileRead(s) PROVE Lives(mem, T, Q, F, mem')
    BY <1>2, <2>4, NapfileReadLives
  <2>5. ASSUME NEW s \in Fd, NapfileSendfile(s) PROVE Lives(mem, T, Q, F, mem')
    BY <2>5, NapfileSendfileLives
  <2>6. ASSUME NEW s \in Fd, NapFirewallStart1(s) PROVE Lives(mem, T, Q, F, mem')
    BY <2>6, NapFirewallStart1Lives
  <2> QED  BY <1>4, <2>1, <2>2, <2>3, <2>4, <2>5, <2>6, Zenon DEF Upload
<1>5. CASE Link
  <2>1. ASSUME NEW s \in Fd, NaplinkHandleconnect(s) PROVE Lives(mem, T, Q, F, mem')
    BY <2>1, NaplinkHandleconnectLives
  <2>2. CASE NaplinkHandlelink
    BY <2>2, NaplinkHandlelinkLives
  <2> QED  BY <1>5, <2>1, <2>2, Zenon DEF Link
<1>6. CASE Sweep
  <2>1. ~NapDel  BY <1>1, Zenon DEF NapDel
  <2>2. CASE CleanQueue  BY <2>2, CleanQueueLives
  <2>3. CASE RunCleanSockets  BY <2>3, RunCleanSocketsLives
  <2>4. ~QueueRemove
    <3>1. ~({"queue", "command"} \subseteq Happens)  BY <1>1
    <3> QED  BY <3>1, Zenon DEF QueueRemove
  <2>5. CASE CmdNosuchnick  BY <2>5, CmdNosuchnickLives
  <2> QED  BY <1>6, <2>1, <2>2, <2>3, <2>4, <2>5, Zenon DEF Sweep
<1> QED  BY <1>3, <1>4, <1>5, <1>6, Zenon DEF Next

\* The listening socket suits no transfer, and nothing has been told.
LEMMA InitOrderly ==
    ASSUME Init
    PROVE  Orderly(mem, {})
<1> DEFINE w == NoTransfers
           v == mem
           f == "naplink_handlelink"
           s == Listener
           E == {}
<1>1. World(w, {}, {}, {}, {}) /\ w.live = {} /\ w.kernel = {}  BY NoTransfersWorld
<1>2. s \in Fd  BY FdSetSizeAssumption DEF Listener, Fd
<1>3. s \in FreeFd(w) /\ f \in Handlers /\ f \in Unnamed
  BY <1>1, <1>2 DEF FreeFd, Handlers, Unnamed
<1>4. v = AddRead(Opened(w, s), s, f)  BY DEF Init
<1>5. E = {} /\ World(w, E, E, E, E)  BY <1>1
<1>6. w.gets = 0 /\ w.sends = 0 /\ Registered(w.sock_manager) = {}
  <2>1. w.gets = 0 /\ w.sends = 0 /\ w.sock_manager = NoSockets  BY DEF NoTransfers
  <2>2. Sound(NoSockets, {Nil}, {Nil}, {0}) /\ Registered(NoSockets) = {}
    BY NoSocketsSound
  <2> QED  BY <2>1, <2>2
<1> HIDE DEF w, v, f, s, E
<1>7. /\ World(v, E, E, E, E) /\ v.gf = w.gf /\ SameLists(w, v) /\ SameCounts(w, v)
      /\ s \in Registered(v.sock_manager) /\ Info(v, s) = Nil
      /\ v.sock_manager.slot[s].func_read = f
  BY <1>3, <1>4, <1>5, NewWorld
<1>8. w \in Worlds /\ w.sock_manager \in Tables  BY <1>5, WorldParts
<1>9. v.sock_manager = AddSocketRead(w.sock_manager, s, f, Nil)
  <2>1. s \in Fd \ w.kernel /\ Registered(w.sock_manager) \subseteq w.kernel
    BY <1>1, <1>2, <1>6
  <2> QED  BY <1>3, <1>4, <1>8, <2>1, NewFields
<1>10. OtherSlots(w.sock_manager, v.sock_manager, s)
  <2>1. s \in Fd \ Registered(w.sock_manager)  BY <1>2, <1>6
  <2> QED  BY <1>3, <1>8, <1>9, <2>1, AddTable
<1>11. Suited(v.sock_manager, v.gf)
  <2>1. v.sock_manager.slot[s].info = Nil  BY <1>2, <1>7, InfoWorld
  <2>2. Suits(v.sock_manager.slot[s].func_read, v.sock_manager.slot[s].info, v.gf)
    BY <1>3, <1>7, <2>1, Zenon DEF Suits
  <2>3. \A d \in E : v.gf[d].kind = w.gf[d].kind  BY <1>7
  <2>4. Suited(w.sock_manager, w.gf)  BY <1>6 DEF Suited
  <2> QED  BY <1>2, <1>5, <1>10, <2>2, <2>3, <2>4, SuitedFrame
<1>12. Opens(v.gf, E)  BY <1>5 DEF Opens
<1>13. Counted(v, E)
  <2>1. \A kind : Moving(v.gf, E, kind) = {}  BY <1>5 DEF Moving
  <2>2. Cardinality({}) = 0  BY FS_EmptySet
  <2>3. v.gets = 0 /\ v.sends = 0  BY <1>6, <1>7 DEF SameCounts
  <2> QED  BY <2>1, <2>2, <2>3 DEF Counted
<1>14. Orderly(v, E)  BY <1>11, <1>12, <1>13, Zenon DEF Orderly
<1> QED  BY <1>14 DEF v, E

\* The lists, and what the server has been told of them.
Settled(w, q) == \E T, Q, F : State(w, T, Q, F, q) /\ Orderly(w, T)

\* What Depth is for.
LEMMA ReadyOf ==
    ASSUME Cardinality(Cell) <= SentBound,
           NEW w, NEW T, NEW Q, NEW F, NEW q, State(w, T, Q, F, q), Orderly(w, T)
    PROVE  Ready(w, T, Q, F)
<1>1. World(w, T, T, Q, F)  BY Zenon DEF State
<1>2. Depth <= SentBound  BY DEF Depth
<1> QED  BY <1>1, <1>2, Zenon DEF Ready

\* The sets of a world are those of its lists.
LEMMA SetsAre ==
    ASSUME NEW w, NEW T, NEW Q, NEW F, NEW T1, NEW Q1, NEW F1,
           World(w, T, T, Q, F), World(w, T1, T1, Q1, F1)
    PROVE  T1 = T /\ Q1 = Q /\ F1 = F
<1>1. On(w, w.transfer_struct) = T /\ On(w, w.Queued) = Q /\ On(w, w.finished_struct) = F
  BY InProgressIs
<1>2. /\ On(w, w.transfer_struct) = T1 /\ On(w, w.Queued) = Q1
      /\ On(w, w.finished_struct) = F1
  BY InProgressIs
<1> QED  BY <1>1, <1>2, Zenon

\* A step from what is in order to what is in order.
Stepped(w, q, v, p) ==
    \E T, Q, F, T1, Q1, F1 :
        /\ State(w, T, Q, F, q) /\ Orderly(w, T)
        /\ State(v, T1, Q1, F1, p) /\ Orderly(v, T1)
        /\ \/ \E c \in Cell : Moves(w, T, Q, F, v, T1, Q1, F1, c)
           \/ Forgets(w, T, Q, F, v, T1, Q1, F1)

\* The next state is in order, and each transfer has moved on or stayed.
LEMMA NextStepped ==
    ASSUME Plain, Cardinality(Cell) <= SentBound, Settled(mem, asked), Next
    PROVE  Stepped(mem, asked, mem', asked')
<1>1. PICK T, Q, F : State(mem, T, Q, F, asked) /\ Orderly(mem, T)  BY Zenon DEF Settled
<1>2. Ready(mem, T, Q, F)  BY <1>1, ReadyOf
<1>3. Lives(mem, T, Q, F, mem')  BY <1>1, <1>2, NextLives
<1>4. Resting(mem', asked')
  <2>1. Happens \subseteq Covered  BY DEF Plain, Covered
  <2>2. Resting(mem, asked)  BY <1>1, Zenon DEF Resting
  <2> QED  BY <2>1, <2>2, NextKept
<1> DEFINE w == mem
           v == mem'
           q == asked
           p == asked'
<1>5. State(w, T, Q, F, q) /\ Orderly(w, T) /\ Lives(w, T, Q, F, v) /\ Resting(v, p)
  BY <1>1, <1>3, <1>4
<1> HIDE DEF w, v, q, p
<1>6. PICK T1, Q1, F1 :
         /\ World(v, T1, T1, Q1, F1) /\ Orderly(v, T1)
         /\ \/ \E c \in Cell : Moves(w, T, Q, F, v, T1, Q1, F1, c)
            \/ Forgets(w, T, Q, F, v, T1, Q1, F1)
  BY <1>5, Zenon DEF Lives
<1>7. PICK T2, Q2, F2 : State(v, T2, Q2, F2, p)  BY <1>5, Zenon DEF Resting
<1>8. World(v, T2, T2, Q2, F2)  BY <1>7, Zenon DEF State
<1>9. T2 = T1 /\ Q2 = Q1 /\ F2 = F1  BY <1>6, <1>8, SetsAre
<1>10. State(v, T1, Q1, F1, p)  BY <1>7, <1>9
<1>11. Stepped(w, q, v, p)  BY <1>5, <1>6, <1>10, Zenon DEF Stepped
<1> QED  BY <1>11 DEF w, v, q, p

LEMMA InitSettled ==
    ASSUME Init
    PROVE  Settled(mem, asked)
<1>1. Orderly(mem, {})  BY InitOrderly
<1>2. PICK T, Q, F : State(mem, T, Q, F, asked)  BY InitKept, Zenon DEF Resting
<1>3. T = {}
  <2>1. T \subseteq mem.live  BY <1>2, StateParts
  <2>2. mem.live = {}
    <3>1. mem = AddRead(Opened(NoTransfers, Listener), Listener, "naplink_handlelink")
      BY DEF Init
    <3> QED  BY <3>1 DEF AddRead, Opened, NoTransfers
  <2> QED  BY <2>1, <2>2
<1> QED  BY <1>1, <1>2, <1>3, Zenon DEF Settled

\* What is in order stays in order.
LEMMA OrderStays ==
    ASSUME Plain, Cardinality(Cell) <= SentBound
    PROVE  Spec => []Settled(mem, asked)
<1>1. Init => Settled(mem, asked)  BY InitSettled
<1>2. Settled(mem, asked) /\ [Next]_dvars => Settled(mem, asked)'
  <2> SUFFICES ASSUME Settled(mem, asked), [Next]_dvars PROVE Settled(mem', asked')
    OBVIOUS
  <2>1. CASE Next
    <3>1. Stepped(mem, asked, mem', asked')  BY <2>1, NextStepped
    <3> QED  BY <3>1, Zenon DEF Stepped, Settled
  <2>2. CASE UNCHANGED dvars
    <3>1. mem' = mem /\ asked' = asked  BY <2>2, Zenon DEF dvars
    <3> QED  BY <3>1, Zenon
  <2> QED  BY <2>1, <2>2
<1> QED  BY <1>1, <1>2, PTL DEF Spec

\* The server's counts are what is under way.
LEMMA CountsAre ==
    ASSUME Plain, Settled(mem, asked)
    PROVE  ServerCounts
<1>1. PICK T, Q, F : State(mem, T, Q, F, asked) /\ Orderly(mem, T)
  BY Zenon DEF Settled
<1>2. Transferring = T  BY <1>1, ListsAre
<1>3. AllSeen(mem, T, Q, F)
  <2>1. Ordinary  BY DEF Plain, Ordinary
  <2> QED  BY <1>1, <2>1, Zenon DEF State
<1>4. Active("get") = Moving(mem.gf, T, "get")
  <2> SUFFICES ASSUME NEW c \in T
               PROVE  /\ mem.gf[c].kind = "get" /\ mem.gf[c].write /\ mem.gf[c].socket # -1
                         <=> MovesAt(mem.gf[c], "get")
    BY <1>2, Zenon DEF Active, Moving
  <2>1. OpenAt(mem.gf[c])  BY <1>1, Zenon DEF Orderly, Opens
  <2> QED  BY <2>1, Zenon DEF OpenAt, MovesAt
<1>5. Active("send") = Moving(mem.gf, T, "send")
  <2> SUFFICES ASSUME NEW c \in T
               PROVE  /\ mem.gf[c].kind = "send" /\ mem.gf[c].write /\ mem.gf[c].socket # -1
                         <=> MovesAt(mem.gf[c], "send")
    BY <1>2, Zenon DEF Active, Moving
  <2>1. mem.gf[c].kind = "send" => mem.gf[c].write  BY <1>3, Zenon DEF AllSeen
  <2>2. mem.gf[c].kind = "send" => mem.gf[c].kind # "get"  OBVIOUS
  <2> QED  BY <2>1, <2>2, Zenon DEF MovesAt
<1>6. Counted(mem, T)  BY <1>1, Zenon DEF Orderly
<1> QED  BY <1>4, <1>5, <1>6, Zenon DEF Counted, ServerCounts

\* The server is told once of every beginning and once of every end (218 to 221),
\* whatever the order of handlers, answers and sweeps.
THEOREM TransfersCounted ==
    ASSUME Plain, Cardinality(Cell) <= SentBound
    PROVE  Spec => []ServerCounts
<1>1. Settled(mem, asked) => ServerCounts  BY CountsAre
<1>2. Spec => []Settled(mem, asked)  BY OrderStays
<1> QED  BY <1>1, <1>2, PTL

\* The phases of all records, and their connections.
PhaseMap(gf, T, Q, F) == [c \in Cell |-> PhaseIn(gf, T, Q, F, c)]

OverMap(gf, T) == [c \in Cell |-> OverIn(gf, T, c)]

Overs(w) == [c \in Cell |-> IF c \in w.live THEN w.gf[c].socket ELSE -1]

PhasesOf(w) ==
    [c \in Cell |->
        IF c \notin w.live THEN "none"
        ELSE IF c \in On(w, w.Queued) THEN "put_off"
        ELSE IF c \in On(w, w.finished_struct) THEN "ended"
        ELSE IF w.gf[c].socket = -1 THEN "wanted"
        ELSE IF w.gf[c].kind = "get" /\ w.gf[c].count THEN "connected"
        ELSE "moving"]

\* What a memory is to TransferLife.
LEMMA PhasesAre ==
    ASSUME Plain, NEW w, NEW T, NEW Q, NEW F, NEW q, State(w, T, Q, F, q)
    PROVE  PhasesOf(w) = PhaseMap(w.gf, T, Q, F) /\ Overs(w) = OverMap(w.gf, T)
<1>1. World(w, T, T, Q, F) /\ T \cup Q \cup F \subseteq w.live  BY StateParts
<1>2. On(w, w.Queued) = Q /\ On(w, w.finished_struct) = F  BY <1>1, InProgressIs
<1>3. w.live \subseteq T \cup Q \cup F
  <2>1. Ordinary  BY DEF Plain, Ordinary
  <2> QED  BY <2>1, StateParts
<1>4. ASSUME NEW c \in Cell PROVE PhasesOf(w)[c] = PhaseIn(w.gf, T, Q, F, c)
  <2>1. c \notin w.live <=> c \notin T /\ c \notin Q /\ c \notin F  BY <1>1, <1>3
  <2> QED  BY <1>2, <2>1, Zenon DEF PhasesOf, PhaseIn
<1>5. ASSUME NEW c \in Cell PROVE Overs(w)[c] = OverIn(w.gf, T, c)
  <2>1. c \notin w.live <=> c \notin T /\ c \notin Q /\ c \notin F  BY <1>1, <1>3
  <2>2. c \in Q \cup F => w.gf[c].socket = -1  BY <1>1 DEF World, Silent
  <2>3. CASE c \in T
    <3>1. c \in w.live  BY <2>1, <2>3
    <3> QED  BY <2>3, <3>1, Zenon DEF Overs, OverIn
  <2>4. CASE c \notin T /\ c \in Q \cup F
    <3>1. w.gf[c].socket = -1  BY <2>2, <2>4
    <3>2. c \notin T  BY <2>4
    <3> QED  BY <3>1, <3>2, Zenon DEF Overs, OverIn
  <2>5. CASE c \notin T /\ c \notin Q \cup F
    <3>1. c \notin w.live /\ c \notin T  BY <2>1, <2>5
    <3> QED  BY <3>1, Zenon DEF Overs, OverIn
  <2> QED  BY <2>3, <2>4, <2>5
<1> QED  BY <1>4, <1>5, Zenon DEF PhaseMap, OverMap, PhasesOf, Overs

\* No connection serves two transfers.
Apart(p, o) ==
    /\ \A t \in Cell : o[t] # -1 <=> p[t] \in {"connected", "moving"}
    /\ \A t, u \in Cell : t # u /\ o[t] # -1 => o[t] # o[u]

LEMMA WorldApart ==
    ASSUME NEW w, NEW T, NEW Q, NEW F, World(w, T, T, Q, F)
    PROVE  Apart(PhaseMap(w.gf, T, Q, F), OverMap(w.gf, T))
<1> DEFINE p == PhaseMap(w.gf, T, Q, F)
           o == OverMap(w.gf, T)
<1>1. \A t \in Cell : p[t] = PhaseIn(w.gf, T, Q, F, t) /\ o[t] = OverIn(w.gf, T, t)
  BY Zenon DEF PhaseMap, OverMap
<1>2. T \cap Q = {} /\ T \cap F = {} /\ Wired(w.sock_manager, w.gf, w.kernel, T)
  BY WorldParts
<1> HIDE DEF p, o
<1>3. ASSUME NEW t \in Cell PROVE o[t] # -1 <=> p[t] \in {"connected", "moving"}
  <2>1. CASE t \in T
    <3>1. t \notin Q /\ t \notin F  BY <1>2, <2>1
    <3>2. o[t] = w.gf[t].socket  BY <1>1, <2>1, Zenon DEF OverIn
    <3>3. p[t] = IF w.gf[t].socket = -1 THEN "wanted"
                 ELSE IF w.gf[t].kind = "get" /\ w.gf[t].count THEN "connected" ELSE "moving"
      BY <1>1, <2>1, <3>1, Zenon DEF PhaseIn
    <3>4. CASE w.gf[t].socket = -1
      <4>1. p[t] = "wanted"  BY <3>3, <3>4, Zenon
      <4> QED  BY <3>2, <3>4, <4>1
    <3>5. CASE w.gf[t].socket # -1
      <4>1. p[t] = "connected" \/ p[t] = "moving"  BY <3>3, <3>5, Zenon
      <4> QED  BY <3>2, <3>5, <4>1
    <3> QED  BY <3>4, <3>5
  <2>2. CASE t \notin T
    <3>1. o[t] = -1  BY <1>1, <2>2, Zenon DEF OverIn
    <3>2. p[t] = "put_off" \/ p[t] = "ended" \/ p[t] = "none"
      BY <1>1, <2>2, Zenon DEF PhaseIn
    <3> QED  BY <3>1, <3>2
  <2> QED  BY <2>1, <2>2
<1>4. ASSUME NEW t \in Cell, NEW u \in Cell, o[t] # -1, o[t] = o[u] PROVE t = u
  <2>1. t \in T /\ u \in T  BY <1>1, <1>4, Zenon DEF OverIn
  <2>2. o[t] = w.gf[t].socket /\ o[u] = w.gf[u].socket  BY <1>1, <2>1, Zenon DEF OverIn
  <2>3. /\ w.sock_manager.slot[w.gf[t].socket].info = t
        /\ w.sock_manager.slot[w.gf[u].socket].info = u
    BY <1>2, <1>4, <2>1, <2>2, Zenon DEF Wired
  <2> QED  BY <1>4, <2>2, <2>3
<1>5. Apart(p, o)  BY <1>3, <1>4, Zenon DEF Apart
<1> QED  BY <1>5 DEF p, o

PhaseNames == {"none", "wanted", "put_off", "connected", "moving", "ended"}

\* A step of TransferLife, and the transfer that takes it.
OneSteps(p, o, p1, o1, c) ==
    \/ p[c] \in {"none", "put_off"} /\ p1 = [p EXCEPT ![c] = "wanted"] /\ o1 = o
    \/ p[c] = "wanted" /\ p1 = [p EXCEPT ![c] = "put_off"] /\ o1 = o
    \/ /\ p[c] = "wanted" /\ p1 = [p EXCEPT ![c] = "connected"]
       /\ \E s \in Fd : o1 = [o EXCEPT ![c] = s]
    \/ p[c] = "connected" /\ p1 = [p EXCEPT ![c] = "moving"] /\ o1 = o
    \/ /\ p[c] = "wanted" /\ p1 = [p EXCEPT ![c] = "moving"]
       /\ \E s \in Fd : o1 = [o EXCEPT ![c] = s]

EndedNow(p, o, p1, o1) ==
    /\ p1 \in [Cell -> PhaseNames]
    /\ \A t \in Cell :
         \/ p1[t] = p[t]
         \/ p[t] \notin {"none", "ended"} /\ p1[t] = "ended"
         \/ p[t] = "put_off" /\ p1[t] = "wanted"
    /\ o1 = [t \in Cell |-> IF p1[t] = "ended" THEN -1 ELSE o[t]]

Forgotten(p, o, p1, o1) ==
    /\ p1 \in [Cell -> PhaseNames]
    /\ \A t \in Cell :
         \/ p1[t] = p[t]
         \/ p[t] \in {"ended", "put_off"} /\ p1[t] = "none"
    /\ o1 = o

LifeStep(p, o, p1, o1) ==
    \/ \E c \in Cell : OneSteps(p, o, p1, o1, c)
    \/ EndedNow(p, o, p1, o1)
    \/ Forgotten(p, o, p1, o1)

\* The maps are functions on the records.
LEMMA MapsAre ==
    ASSUME NEW gf, NEW T, NEW Q, NEW F,
           NEW p, p = PhaseMap(gf, T, Q, F), NEW o, o = OverMap(gf, T)
    PROVE  /\ p \in [Cell -> PhaseNames] /\ o = [t \in Cell |-> o[t]]
           /\ \A t \in Cell : p[t] = PhaseIn(gf, T, Q, F, t) /\ o[t] = OverIn(gf, T, t)
<1>1. ASSUME NEW t \in Cell PROVE PhaseIn(gf, T, Q, F, t) \in PhaseNames
  <2>1. \/ PhaseIn(gf, T, Q, F, t) = "put_off"
        \/ PhaseIn(gf, T, Q, F, t) = "ended"
        \/ PhaseIn(gf, T, Q, F, t) = "none"
        \/ PhaseIn(gf, T, Q, F, t) = "wanted"
        \/ PhaseIn(gf, T, Q, F, t) = "connected"
        \/ PhaseIn(gf, T, Q, F, t) = "moving"
    BY Zenon DEF PhaseIn
  <2> QED  BY <2>1, Zenon DEF PhaseNames
<1>2. p = [t \in Cell |-> PhaseIn(gf, T, Q, F, t)]  BY Zenon DEF PhaseMap
<1>3. o = [t \in Cell |-> OverIn(gf, T, t)]  BY Zenon DEF OverMap
<1> QED  BY <1>1, <1>2, <1>3

\* All but c are in the phases they were in.
LEMMA OthersPhase ==
    ASSUME NEW w, NEW T, NEW Q, NEW F, NEW v, NEW T1, NEW Q1, NEW F1, NEW c,
           OthersStay(w, T, Q, F, v, T1, Q1, F1, c), NEW d \in Cell, d # c
    PROVE  /\ PhaseIn(v.gf, T1, Q1, F1, d) = PhaseIn(w.gf, T, Q, F, d)
           /\ OverIn(v.gf, T1, d) = OverIn(w.gf, T, d)
<1>1. /\ d \in T1 <=> d \in T
      /\ d \in Q1 <=> d \in Q
      /\ d \in F1 <=> d \in F
      /\ d \in T => Same(w.gf[d], v.gf[d])
  BY Zenon DEF OthersStay
<1> DEFINE gf == w.gf
           h == v.gf
<1>2. d \in T => Same(gf[d], h[d])  BY <1>1
<1> HIDE DEF gf, h
<1>3. /\ PhaseIn(h, T, Q, F, d) = PhaseIn(gf, T, Q, F, d)
      /\ OverIn(h, T, d) = OverIn(gf, T, d)
  BY <1>2, SamePhase
<1>4. PhaseIn(h, T1, Q1, F1, d) = PhaseIn(h, T, Q, F, d)  BY <1>1, Zenon DEF PhaseIn
<1>5. OverIn(h, T1, d) = OverIn(h, T, d)  BY <1>1, Zenon DEF OverIn
<1> QED  BY <1>3, <1>4, <1>5 DEF gf, h

\* A function that has changed at c alone.
LEMMA ChangedAt ==
    ASSUME NEW f, f = [t \in Cell |-> f[t]], NEW g, g = [t \in Cell |-> g[t]],
           NEW c \in Cell, \A d \in Cell : d # c => g[d] = f[d]
    PROVE  g = [f EXCEPT ![c] = g[c]] /\ (g[c] = f[c] => g = f)
<1>1. [f EXCEPT ![c] = g[c]] = [t \in Cell |-> IF t = c THEN g[c] ELSE f[t]]  OBVIOUS
<1>2. ASSUME NEW t \in Cell PROVE g[t] = IF t = c THEN g[c] ELSE f[t]  OBVIOUS
<1>3. g = [t \in Cell |-> IF t = c THEN g[c] ELSE f[t]]  BY <1>2
<1>4. g[c] = f[c] => \A t \in Cell : g[t] = f[t]  OBVIOUS
<1> QED  BY <1>1, <1>3, <1>4

\* A transfer that moves on takes a step of TransferLife.
LEMMA AllowedStep ==
    ASSUME NEW p \in [Cell -> PhaseNames], NEW p1 \in [Cell -> PhaseNames],
           NEW o, o = [t \in Cell |-> o[t]], NEW o1, o1 = [t \in Cell |-> o1[t]],
           NEW c \in Cell, \A d \in Cell : d # c => p1[d] = p[d] /\ o1[d] = o[d],
           \A t \in Cell : p[t] = "ended" => o[t] = -1,
           Allowed(p[c], p1[c], o[c], o1[c])
    PROVE  LifeStep(p, o, p1, o1)
<1>1. p = [t \in Cell |-> p[t]] /\ p1 = [t \in Cell |-> p1[t]]  OBVIOUS
<1>2. p1 = [p EXCEPT ![c] = p1[c]]
  <2>1. \A d \in Cell : d # c => p1[d] = p[d]  OBVIOUS
  <2> QED  BY <1>1, <2>1, ChangedAt
<1>3. o1 = [o EXCEPT ![c] = o1[c]] /\ (o1[c] = o[c] => o1 = o)
  <2>1. \A d \in Cell : d # c => o1[d] = o[d]  OBVIOUS
  <2> QED  BY <2>1, ChangedAt
<1>4. OneSteps(p, o, p1, o1, c) => LifeStep(p, o, p1, o1)  BY Zenon DEF LifeStep
<1>5. CASE p[c] \in {"none", "put_off"} /\ p1[c] = "wanted" /\ o1[c] = o[c]
  <2>1. p1 = [p EXCEPT ![c] = "wanted"] /\ o1 = o  BY <1>2, <1>3, <1>5
  <2>2. OneSteps(p, o, p1, o1, c)  BY <1>5, <2>1, Zenon DEF OneSteps
  <2> QED  BY <1>4, <2>2
<1>6. CASE p[c] = "wanted" /\ p1[c] = "put_off" /\ o1[c] = o[c]
  <2>1. p1 = [p EXCEPT ![c] = "put_off"] /\ o1 = o  BY <1>2, <1>3, <1>6
  <2>2. OneSteps(p, o, p1, o1, c)  BY <1>6, <2>1, Zenon DEF OneSteps
  <2> QED  BY <1>4, <2>2
<1>7. CASE p[c] = "wanted" /\ p1[c] = "connected" /\ o1[c] \in Fd
  <2>1. p1 = [p EXCEPT ![c] = "connected"] /\ \E s \in Fd : o1 = [o EXCEPT ![c] = s]
    BY <1>2, <1>3, <1>7
  <2>2. OneSteps(p, o, p1, o1, c)  BY <1>7, <2>1, Zenon DEF OneSteps
  <2> QED  BY <1>4, <2>2
<1>8. CASE p[c] = "wanted" /\ p1[c] = "moving" /\ o1[c] \in Fd
  <2>1. p1 = [p EXCEPT ![c] = "moving"] /\ \E s \in Fd : o1 = [o EXCEPT ![c] = s]
    BY <1>2, <1>3, <1>8
  <2>2. OneSteps(p, o, p1, o1, c)  BY <1>8, <2>1, Zenon DEF OneSteps
  <2> QED  BY <1>4, <2>2
<1>9. CASE p[c] = "connected" /\ p1[c] = "moving" /\ o1[c] = o[c]
  <2>1. p1 = [p EXCEPT ![c] = "moving"] /\ o1 = o  BY <1>2, <1>3, <1>9
  <2>2. OneSteps(p, o, p1, o1, c)  BY <1>9, <2>1, Zenon DEF OneSteps
  <2> QED  BY <1>4, <2>2
<1>10. CASE p[c] \in {"connected", "moving"} /\ p1[c] = "ended" /\ o1[c] = -1
  <2>1. ASSUME NEW t \in Cell
        PROVE  \/ p1[t] = p[t]
               \/ p[t] \notin {"none", "ended"} /\ p1[t] = "ended"
    <3>1. CASE t = c
      <4>1. p[c] \notin {"none", "ended"}  BY <1>10
      <4> QED  BY <1>10, <3>1, <4>1
    <3>2. CASE t # c  BY <3>2
    <3> QED  BY <3>1, <3>2
  <2>2. ASSUME NEW t \in Cell PROVE o1[t] = IF p1[t] = "ended" THEN -1 ELSE o[t]
    <3>1. CASE t = c  BY <1>10, <3>1
    <3>2. CASE t # c /\ p1[t] = "ended"
      <4>1. p[t] = "ended" /\ o1[t] = o[t]  BY <3>2
      <4> QED  BY <3>2, <4>1
    <3>3. CASE t # c /\ p1[t] # "ended"  BY <3>3
    <3> QED  BY <3>1, <3>2, <3>3
  <2>3. o1 = [t \in Cell |-> IF p1[t] = "ended" THEN -1 ELSE o[t]]  BY <2>2
  <2>4. EndedNow(p, o, p1, o1)  BY <2>1, <2>3, Zenon DEF EndedNow
  <2> QED  BY <2>4, Zenon DEF LifeStep
<1> QED  BY <1>5, <1>6, <1>7, <1>8, <1>9, <1>10, Zenon DEF Allowed

LEMMA MovesStep ==
    ASSUME NEW w, NEW T, NEW Q, NEW F, T \cap F = {},
           NEW v, NEW T1, NEW Q1, NEW F1,
           NEW c \in Cell, Moves(w, T, Q, F, v, T1, Q1, F1, c)
    PROVE  LifeStep(PhaseMap(w.gf, T, Q, F), OverMap(w.gf, T),
                    PhaseMap(v.gf, T1, Q1, F1), OverMap(v.gf, T1))
<1> DEFINE p == PhaseMap(w.gf, T, Q, F)
           o == OverMap(w.gf, T)
           p1 == PhaseMap(v.gf, T1, Q1, F1)
           o1 == OverMap(v.gf, T1)
<1>1. /\ p \in [Cell -> PhaseNames] /\ p1 \in [Cell -> PhaseNames]
      /\ o = [t \in Cell |-> o[t]] /\ o1 = [t \in Cell |-> o1[t]]
      /\ \A t \in Cell : p[t] = PhaseIn(w.gf, T, Q, F, t) /\ o[t] = OverIn(w.gf, T, t)
      /\ \A t \in Cell : p1[t] = PhaseIn(v.gf, T1, Q1, F1, t) /\ o1[t] = OverIn(v.gf, T1, t)
  <2>0. /\ p = PhaseMap(w.gf, T, Q, F) /\ o = OverMap(w.gf, T)
        /\ p1 = PhaseMap(v.gf, T1, Q1, F1) /\ o1 = OverMap(v.gf, T1)
    OBVIOUS
  <2> HIDE DEF p, o, p1, o1
  <2>1. /\ p \in [Cell -> PhaseNames] /\ o = [t \in Cell |-> o[t]]
        /\ \A t \in Cell : p[t] = PhaseIn(w.gf, T, Q, F, t) /\ o[t] = OverIn(w.gf, T, t)
    BY <2>0, MapsAre
  <2>2. /\ p1 \in [Cell -> PhaseNames] /\ o1 = [t \in Cell |-> o1[t]]
        /\ \A t \in Cell : /\ p1[t] = PhaseIn(v.gf, T1, Q1, F1, t)
                           /\ o1[t] = OverIn(v.gf, T1, t)
    BY <2>0, MapsAre
  <2> QED  BY <2>1, <2>2, Zenon
<1>2. OthersStay(w, T, Q, F, v, T1, Q1, F1, c)  BY Zenon DEF Moves
<1> HIDE DEF p, o, p1, o1
<1>3. ASSUME NEW d \in Cell, d # c PROVE p1[d] = p[d] /\ o1[d] = o[d]
  <2>1. /\ PhaseIn(v.gf, T1, Q1, F1, d) = PhaseIn(w.gf, T, Q, F, d)
        /\ OverIn(v.gf, T1, d) = OverIn(w.gf, T, d)
    BY <1>2, <1>3, OthersPhase
  <2> QED  BY <1>1, <2>1
<1>4. Allowed(p[c], p1[c], o[c], o1[c])  BY <1>1, Zenon DEF Moves
<1>5. \A t \in Cell : p[t] = "ended" => o[t] = -1
  <2> SUFFICES ASSUME NEW t \in Cell, PhaseIn(w.gf, T, Q, F, t) = "ended"
               PROVE  OverIn(w.gf, T, t) = -1
    BY <1>1, Zenon
  <2>1. CASE t \in T
    <3>1. t \notin F  BY <2>1
    <3>2. \/ PhaseIn(w.gf, T, Q, F, t) = "put_off"
          \/ PhaseIn(w.gf, T, Q, F, t) = "wanted"
          \/ PhaseIn(w.gf, T, Q, F, t) = "connected"
          \/ PhaseIn(w.gf, T, Q, F, t) = "moving"
      BY <2>1, <3>1, Zenon DEF PhaseIn
    <3> QED  BY <3>2
  <2>2. CASE t \notin T  BY <2>2, Zenon DEF OverIn
  <2> QED  BY <2>1, <2>2
<1>6. LifeStep(p, o, p1, o1)  BY <1>1, <1>3, <1>4, <1>5, AllowedStep
<1> QED  BY <1>6 DEF p, o, p1, o1

\* So do records that are freed.
LEMMA ForgetsStep ==
    ASSUME NEW w, NEW T, NEW Q, NEW F,
           NEW v, NEW T1, NEW Q1, NEW F1, World(v, T1, T1, Q1, F1),
           T \subseteq Cell, T \cap Q = {}, T \cap F = {}, Q \cap F = {},
           Forgets(w, T, Q, F, v, T1, Q1, F1)
    PROVE  LifeStep(PhaseMap(w.gf, T, Q, F), OverMap(w.gf, T),
                    PhaseMap(v.gf, T1, Q1, F1), OverMap(v.gf, T1))
<1> DEFINE gf == w.gf
           h == v.gf
           p == PhaseMap(gf, T, Q, F)
           o == OverMap(gf, T)
           p1 == PhaseMap(h, T1, Q1, F1)
           o1 == OverMap(h, T1)
<1>1. T1 = T /\ Q1 \subseteq Q /\ F1 \subseteq F /\ \A d \in T : Same(gf[d], h[d])
  BY Zenon DEF Forgets
<1> HIDE DEF gf, h
<1>2. /\ p \in [Cell -> PhaseNames] /\ p1 \in [Cell -> PhaseNames]
      /\ o = [t \in Cell |-> o[t]] /\ o1 = [t \in Cell |-> o1[t]]
      /\ \A t \in Cell : p[t] = PhaseIn(gf, T, Q, F, t) /\ o[t] = OverIn(gf, T, t)
      /\ \A t \in Cell : p1[t] = PhaseIn(h, T1, Q1, F1, t) /\ o1[t] = OverIn(h, T1, t)
  <2>0. /\ p = PhaseMap(gf, T, Q, F) /\ o = OverMap(gf, T)
        /\ p1 = PhaseMap(h, T1, Q1, F1) /\ o1 = OverMap(h, T1)
    OBVIOUS
  <2> HIDE DEF p, o, p1, o1
  <2>1. /\ p \in [Cell -> PhaseNames] /\ o = [t \in Cell |-> o[t]]
        /\ \A t \in Cell : p[t] = PhaseIn(gf, T, Q, F, t) /\ o[t] = OverIn(gf, T, t)
    BY <2>0, MapsAre
  <2>2. /\ p1 \in [Cell -> PhaseNames] /\ o1 = [t \in Cell |-> o1[t]]
        /\ \A t \in Cell : p1[t] = PhaseIn(h, T1, Q1, F1, t) /\ o1[t] = OverIn(h, T1, t)
    BY <2>0, MapsAre
  <2> QED  BY <2>1, <2>2, Zenon
<1>3. ASSUME NEW t \in Cell
      PROVE  /\ PhaseIn(h, T, Q, F, t) = PhaseIn(gf, T, Q, F, t)
             /\ OverIn(h, T, t) = OverIn(gf, T, t)
  BY <1>1, SamePhase
<1> HIDE DEF p, o, p1, o1
<1>4. ASSUME NEW t \in Cell PROVE o1[t] = o[t]  BY <1>1, <1>2, <1>3, Zenon
<1>5. o1 = o  BY <1>2, <1>4
<1>6. ASSUME NEW t \in Cell
      PROVE  \/ p1[t] = p[t]
             \/ p[t] \in {"ended", "put_off"} /\ p1[t] = "none"
  <2>1. p1[t] = PhaseIn(h, T, Q1, F1, t) /\ p[t] = PhaseIn(h, T, Q, F, t)
    BY <1>1, <1>2, <1>3, Zenon
  <2>2. CASE t \in Q /\ t \notin Q1
    <3>1. t \notin T /\ t \notin F1  BY <1>1, <2>2
    <3>2. p1[t] = "none" /\ p[t] = "put_off"  BY <2>1, <2>2, <3>1, Zenon DEF PhaseIn
    <3> QED  BY <3>2
  <2>3. CASE t \in F /\ t \notin F1
    <3>1. t \notin T /\ t \notin Q /\ t \notin Q1  BY <1>1, <2>3
    <3>2. p1[t] = "none" /\ p[t] = "ended"  BY <2>1, <2>3, <3>1, Zenon DEF PhaseIn
    <3> QED  BY <3>2
  <2>4. CASE (t \in Q <=> t \in Q1) /\ (t \in F <=> t \in F1)
    <3>1. PhaseIn(h, T, Q1, F1, t) = PhaseIn(h, T, Q, F, t)  BY <2>4, Zenon DEF PhaseIn
    <3> QED  BY <2>1, <3>1
  <2> QED  BY <1>1, <2>2, <2>3, <2>4
<1>7. Forgotten(p, o, p1, o1)  BY <1>2, <1>5, <1>6, Zenon DEF Forgotten
<1>8. LifeStep(p, o, p1, o1)  BY <1>7, Zenon DEF LifeStep
<1> QED  BY <1>8 DEF p, o, p1, o1, gf, h

\* What a step does to the phases.
LEMMA SteppedLife ==
    ASSUME Plain, NEW w, NEW q, NEW v, NEW p, Stepped(w, q, v, p)
    PROVE  /\ LifeStep(PhasesOf(w), Overs(w), PhasesOf(v), Overs(v))
           /\ Apart(PhasesOf(v), Overs(v))
<1>1. PICK T, Q, F, T1, Q1, F1 :
        /\ State(w, T, Q, F, q) /\ Orderly(w, T)
        /\ State(v, T1, Q1, F1, p) /\ Orderly(v, T1)
        /\ \/ \E c \in Cell : Moves(w, T, Q, F, v, T1, Q1, F1, c)
           \/ Forgets(w, T, Q, F, v, T1, Q1, F1)
  BY Zenon DEF Stepped
<1>2. /\ PhasesOf(w) = PhaseMap(w.gf, T, Q, F) /\ Overs(w) = OverMap(w.gf, T)
      /\ PhasesOf(v) = PhaseMap(v.gf, T1, Q1, F1) /\ Overs(v) = OverMap(v.gf, T1)
  BY <1>1, PhasesAre
<1>3. /\ World(w, T, T, Q, F) /\ World(v, T1, T1, Q1, F1)
      /\ T \cap Q = {} /\ T \cap F = {} /\ Q \cap F = {} /\ T \subseteq Cell
  <2>1. /\ World(w, T, T, Q, F) /\ T \cap Q = {} /\ T \cap F = {} /\ Q \cap F = {}
        /\ T \cup Q \cup F \subseteq w.live /\ w.live \subseteq Cell
    BY <1>1, StateParts
  <2>2. World(v, T1, T1, Q1, F1)  BY <1>1, Zenon DEF State
  <2> QED  BY <2>1, <2>2
<1>4. LifeStep(PhaseMap(w.gf, T, Q, F), OverMap(w.gf, T),
               PhaseMap(v.gf, T1, Q1, F1), OverMap(v.gf, T1))
  <2>1. ASSUME NEW c \in Cell, Moves(w, T, Q, F, v, T1, Q1, F1, c)
        PROVE  LifeStep(PhaseMap(w.gf, T, Q, F), OverMap(w.gf, T),
                        PhaseMap(v.gf, T1, Q1, F1), OverMap(v.gf, T1))
    BY <1>3, <2>1, MovesStep
  <2>2. ASSUME Forgets(w, T, Q, F, v, T1, Q1, F1)
        PROVE  LifeStep(PhaseMap(w.gf, T, Q, F), OverMap(w.gf, T),
                        PhaseMap(v.gf, T1, Q1, F1), OverMap(v.gf, T1))
    BY <1>3, <2>2, ForgetsStep
  <2> QED  BY <1>1, <2>1, <2>2, Zenon
<1>5. Apart(PhaseMap(v.gf, T1, Q1, F1), OverMap(v.gf, T1))  BY <1>3, WorldApart
<1> QED  BY <1>2, <1>4, <1>5, Zenon

\* What TransferLife speaks of.
LEMMA PhasesMem ==
    /\ Phases = PhasesOf(mem)
    /\ Phases' = PhasesOf(mem')
  BY Zenon DEF Phases, PhasesOf, InQueue, Finished

\* Nothing is wanted in the beginning.
LEMMA LifeBegins ==
    ASSUME Plain, Init
    PROVE  Life!Init
<1>1. PICK T, Q, F : State(mem, T, Q, F, asked)  BY InitKept, Zenon DEF Resting
<1>2. mem.live = {}
  <2>1. mem = AddRead(Opened(NoTransfers, Listener), Listener, "naplink_handlelink")
    BY DEF Init
  <2> QED  BY <2>1 DEF AddRead, Opened, NoTransfers
<1>3. \A c \in Cell : c \notin mem.live  BY <1>2
<1>4. Phases = [c \in Cell |-> "none"]  BY <1>3, PhasesMem, Zenon DEF PhasesOf
<1>5. [c \in Cell |-> IF c \in mem.live THEN mem.gf[c].socket ELSE -1] = [c \in Cell |-> -1]
  BY <1>3, Zenon
<1> QED  BY <1>4, <1>5, Zenon DEF Life!Init

\* A step of the handlers is one of TransferLife.
LEMMA LifeGoesOn ==
    ASSUME Plain, Stepped(mem, asked, mem', asked')
    PROVE  Life!Next /\ Life!Exclusive'
<1> DEFINE p == Phases
           p1 == Phases'
           o == [c \in Cell |-> IF c \in mem.live THEN mem.gf[c].socket ELSE -1]
           o1 == [c \in Cell |-> IF c \in mem'.live THEN mem'.gf[c].socket ELSE -1]
<1>1. LifeStep(p, o, p1, o1) /\ Apart(p1, o1)
  <2>1. o = Overs(mem) /\ o1 = Overs(mem')  BY Zenon DEF Overs
  <2>2. p = PhasesOf(mem) /\ p1 = PhasesOf(mem')  BY PhasesMem
  <2>3. /\ LifeStep(PhasesOf(mem), Overs(mem), PhasesOf(mem'), Overs(mem'))
        /\ Apart(PhasesOf(mem'), Overs(mem'))
    BY SteppedLife
  <2> HIDE DEF p, p1, o, o1
  <2> QED  BY <2>1, <2>2, <2>3
<1>2. Life!Exclusive'  BY <1>1, Zenon DEF Life!Exclusive, Apart
<1>3. CASE \E c \in Cell : OneSteps(p, o, p1, o1, c)
  <2>1. PICK c \in Cell : OneSteps(p, o, p1, o1, c)  BY <1>3, Zenon
  <2>2. Life!Want(c) \/ Life!PutOff(c) \/ Life!Connect(c) \/ Life!Start(c)
    <3>1. CASE p[c] \in {"none", "put_off"} /\ p1 = [p EXCEPT ![c] = "wanted"] /\ o1 = o
      BY <3>1, Zenon DEF Life!Want, Life!Become
    <3>2. CASE p[c] = "wanted" /\ p1 = [p EXCEPT ![c] = "put_off"] /\ o1 = o
      BY <3>2, Zenon DEF Life!PutOff, Life!Become
    <3>3. CASE /\ p[c] = "wanted" /\ p1 = [p EXCEPT ![c] = "connected"]
               /\ \E s \in Fd : o1 = [o EXCEPT ![c] = s]
      BY <3>3, Zenon DEF Life!Connect, Life!Become
    <3>4. CASE p[c] = "connected" /\ p1 = [p EXCEPT ![c] = "moving"] /\ o1 = o
      BY <3>4, Zenon DEF Life!Start, Life!Become
    <3>5. CASE /\ p[c] = "wanted" /\ p1 = [p EXCEPT ![c] = "moving"]
               /\ \E s \in Fd : o1 = [o EXCEPT ![c] = s]
      BY <3>5, Zenon DEF Life!Start, Life!Become
    <3> HIDE DEF p, p1, o, o1
    <3> QED  BY <2>1, <3>1, <3>2, <3>3, <3>4, <3>5, Zenon DEF OneSteps
  <2> QED  BY <1>2, <2>2, Zenon DEF Life!Next
<1>4. CASE EndedNow(p, o, p1, o1)
  <2>1. Life!End  BY <1>4, Zenon DEF EndedNow, Life!End, Life!Phase, PhaseNames
  <2> QED  BY <1>2, <2>1, Zenon DEF Life!Next
<1>5. CASE Forgotten(p, o, p1, o1)
  <2>1. Life!Forget  BY <1>5, Zenon DEF Forgotten, Life!Forget, Life!Phase, PhaseNames
  <2> QED  BY <1>2, <2>1, Zenon DEF Life!Next
<1> HIDE DEF p, p1, o, o1
<1> QED  BY <1>1, <1>3, <1>4, <1>5, Zenon DEF LifeStep

\* Behind the lists and pointers every transfer lives the life of TransferLife:
\* the handlers of files.c, send.c and list.c implement it.
THEOREM TransfersLiveOneLife ==
    ASSUME Plain, Cardinality(Cell) <= SentBound
    PROVE  Spec => LifeKept
<1>1. Init => Life!Init  BY LifeBegins
<1>2. Settled(mem, asked) /\ [Next]_dvars =>
        [Life!Next /\ Life!Exclusive']_<<Phases,
            [c \in Cell |-> IF c \in mem.live THEN mem.gf[c].socket ELSE -1]>>
  <2> SUFFICES ASSUME Settled(mem, asked), [Next]_dvars
               PROVE  \/ Life!Next /\ Life!Exclusive'
                      \/ UNCHANGED <<Phases,
                           [c \in Cell |-> IF c \in mem.live THEN mem.gf[c].socket ELSE -1]>>
    OBVIOUS
  <2>1. CASE Next
    <3>1. Stepped(mem, asked, mem', asked')  BY <2>1, NextStepped
    <3> QED  BY <3>1, LifeGoesOn
  <2>2. CASE UNCHANGED dvars
    <3>1. mem' = mem  BY <2>2, Zenon DEF dvars
    <3>2. Phases' = Phases  BY <3>1, PhasesMem
    <3> QED  BY <3>1, <3>2
  <2> QED  BY <2>1, <2>2
<1>3. Spec => []Settled(mem, asked)  BY OrderStays
<1> QED  BY <1>1, <1>2, <1>3, PTL DEF Spec, LifeKept, Life!Spec
=============================================================================
