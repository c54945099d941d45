-------------------------- MODULE SocketTable_proofs --------------------------
(***************************************************************************)
(* What the functions of the socket table do to a sound table.  The facts  *)
(* are stated about any table, so that the proofs about a component that   *)
(* uses the table cite them and never open its definitions.                *)
(***************************************************************************)
EXTENDS SocketTable, FiniteSetTheorems, TLAPS

Sound(m, Infos, Handlers, Times) ==
    /\ TableType(m, Infos, Handlers, Times)
    /\ SlotsSound(m)
    /\ CountSound(m)
    /\ MaxSound(m)

LEMMA FdFinite ==
    /\ Fd \subseteq Int
    /\ \A s \in Fd : s \in Int /\ s > 0 /\ s <= FdSetSize
    /\ IsFiniteSet(Fd)
<1>1. IsFiniteSet(1 .. FdSetSize - 1)
  BY FS_Interval, FdSetSizeAssumption
<1>. QED  BY <1>1, FdSetSizeAssumption, SMT DEF Fd

LEMMA RegisteredFinite ==
    ASSUME NEW m
    PROVE  /\ IsFiniteSet(Registered(m))
           /\ Cardinality(Registered(m)) \in Nat
           /\ Registered(m) \subseteq Fd
<1>1. Registered(m) \subseteq Fd
  BY DEF Registered
<1>2. IsFiniteSet(Registered(m))
  BY <1>1, FdFinite, FS_Subset
<1>. QED  BY <1>1, <1>2, FS_CardinalityType

\* An empty table is sound.
LEMMA NoSocketsSound ==
    ASSUME NEW Infos, NEW Handlers, NEW Times,
           Nil \in Infos, Nil \in Handlers, 0 \in Times
    PROVE  /\ Sound(NoSockets, Infos, Handlers, Times)
           /\ Registered(NoSockets) = {}
           /\ Writing(NoSockets) = {}
<1>1. Registered(NoSockets) = {} /\ Writing(NoSockets) = {}
  BY DEF Registered, Writing, NoSockets, ZeroSlot
<1>2. CountSound(NoSockets)
  BY <1>1, FS_EmptySet DEF CountSound, NoSockets
<1>3. MaxSound(NoSockets)
  BY <1>1 DEF MaxSound
<1>4. TableType(NoSockets, Infos, Handlers, Times)
  BY SMT DEF TableType, SlotType, NoSockets, ZeroSlot
<1>5. SlotsSound(NoSockets)
  BY SMT DEF SlotsSound, NoSockets, ZeroSlot
<1>. QED  BY <1>1, <1>2, <1>3, <1>4, <1>5 DEF Sound

\* A descriptor that is not registered becomes registered, and the table
\* stays sound.
LEMMA AddSocketReadSound ==
    ASSUME NEW Infos, NEW Handlers, NEW Times, NEW m,
           Sound(m, Infos, Handlers, Times),
           NEW s \in Fd, s \notin Registered(m),
           NEW r \in Handlers, NEW w \in Handlers
    PROVE  LET n == AddSocketRead(m, s, r, w)
           IN  /\ Sound(n, Infos, Handlers, Times)
               /\ Registered(n) = Registered(m) \cup {s}
               /\ Writing(n) = Writing(m)
<1>. DEFINE n == AddSocketRead(m, s, r, w)
<1>0. s \in Int /\ s > 0 /\ s <= FdSetSize /\ FdSetSize \in Nat
  BY FdFinite, FdSetSizeAssumption
<1>1. n = [slot |-> Register(m, s, r, w), count |-> m.count + 1,
           max_fd |-> IF s > m.max_fd THEN s ELSE m.max_fd]
  BY <1>0, SMT DEF AddSocketRead
<1>2. /\ \A d \in Fd \ {s} : n.slot[d] = m.slot[d]
      /\ n.slot[s].is_read = s
      /\ n.slot[s].is_write = m.slot[s].is_write
  BY <1>1, SMT DEF Register, Sound, TableType
<1>3. Registered(n) = Registered(m) \cup {s}
  <2>1. \A d \in Fd \ {s} : d \in Registered(n) <=> d \in Registered(m)
    BY <1>2, Zenon DEF Registered
  <2>2. s \in Registered(n)
    BY <1>0, <1>2 DEF Registered
  <2>. QED  BY <2>1, <2>2, RegisteredFinite
<1>4. Writing(n) = Writing(m)
  BY <1>2, SMT DEF Writing
<1>5. TableType(n, Infos, Handlers, Times)
  BY <1>0, <1>1, SMT DEF Sound, TableType, SlotType, Register
<1>6. SlotsSound(n)
  BY <1>0, <1>2, SMT DEF Sound, SlotsSound
<1>7. CountSound(n)
  BY <1>1, <1>3, RegisteredFinite, FS_AddElement, SMT DEF Sound, CountSound
<1>8. MaxSound(n)
  <2>0. m.max_fd \in Int
    <3>1. m.max_fd \in Fd \cup {0, -1}
      BY Zenon DEF Sound, TableType
    <3>2. 0 \in Int /\ -1 \in Int
      OBVIOUS
    <3>. QED  BY <3>1, <3>2, FdFinite, Zenon
  <2>a. n.max_fd = IF s > m.max_fd THEN s ELSE m.max_fd
    BY <1>1
  <2>1. n.max_fd \in Int /\ m.max_fd \in Int /\ s <= n.max_fd /\ m.max_fd <= n.max_fd
    <3>. HIDE DEF n
    <3>. QED  BY <1>0, <2>0, <2>a, SMT
  <2>2. ASSUME NEW d \in Registered(m) \cup Writing(m)
        PROVE  d <= n.max_fd
    <3>1. d \in Int /\ d <= m.max_fd
      BY FdFinite DEF Sound, MaxSound, Registered, Writing
    <3>. QED  BY <2>1, <3>1, SMT
  <2>. QED  BY <1>3, <1>4, <2>1, <2>2 DEF MaxSound
<1>. QED  BY <1>3, <1>4, <1>5, <1>6, <1>7, <1>8 DEF Sound, n

\* A slot that fails check_socket is not registered: the count is that of the
\* registered slots, so it is not 0 while one is.
LEMMA UncheckedIsFree ==
    ASSUME NEW m, CountSound(m), NEW s \in Fd, ~CheckSocket(m, s)
    PROVE  s \notin Registered(m)
<1>. SUFFICES ASSUME s \in Registered(m) PROVE FALSE
  OBVIOUS
<1>1. m.slot[s].is_read > 0 /\ s \in Int /\ s > 0
  BY FdFinite DEF Registered
<1>2. m.slot[s].is_read # 0
  BY <1>1, SMT
<1>3. m.count # 0
  BY FS_EmptySet, RegisteredFinite DEF CountSound
<1>. QED  BY <1>1, <1>2, <1>3, SMT DEF CheckSocket

\* Closing leaves the slot free and every other slot as it was, and the table
\* stays sound, whatever the slot was before.
LEMMA CloseSocketReadSound ==
    ASSUME NEW Infos, NEW Handlers, NEW Times, NEW m,
           Sound(m, Infos, Handlers, Times),
           Nil \in Infos, Nil \in Handlers, 0 \in Times,
           NEW s \in Fd
    PROVE  LET n == CloseSocketRead(m, s)
           IN  /\ Sound(n, Infos, Handlers, Times)
               /\ Registered(n) = Registered(m) \ {s}
               /\ Writing(n) = Writing(m) \ {s}
<1>. DEFINE n == CloseSocketRead(m, s)
<1>0. s \in Int /\ s > 0 /\ FdSetSize \in Nat
  BY FdFinite, FdSetSizeAssumption
<1>1. CASE ~CheckSocket(m, s)
  <2>1. n = m
    BY <1>1 DEF CloseSocketRead
  <2>2. s \notin Registered(m)
    BY <1>1, UncheckedIsFree DEF Sound
  <2>3. s \notin Writing(m)
    BY <2>2, <1>0, SMT DEF Writing, Registered, Sound, SlotsSound
  <2>. QED  BY <2>1, <2>2, <2>3
<1>2. CASE CheckSocket(m, s)
  <2>1. n = [slot   |-> [m.slot EXCEPT ![s] = ClosedSlot],
             count  |-> IF Releases(m, s) THEN m.count - 1 ELSE m.count,
             max_fd |-> NewMaxFd(m, s)]
    BY <1>2 DEF CloseSocketRead
  <2>2. Releases(m, s) <=> s \in Registered(m)
    BY <1>0, <1>2, SMT DEF Releases, Registered, CheckSocket, Sound, SlotsSound
  <2>3. /\ \A d \in Fd \ {s} : n.slot[d] = m.slot[d]
        /\ n.slot[s] = ClosedSlot
    BY <2>1, SMT DEF Sound, TableType
  <2>4. n.slot[s].is_read = -1 /\ n.slot[s].is_write = -1
    BY <2>3 DEF ClosedSlot
  <2>5. Registered(n) = Registered(m) \ {s}
    <3>1. \A d \in Fd \ {s} : d \in Registered(n) <=> d \in Registered(m)
      BY <2>3, Zenon DEF Registered
    <3>2. s \notin Registered(n)
      BY <2>4, SMT DEF Registered
    <3>. QED  BY <3>1, <3>2, RegisteredFinite
  <2>6. Writing(n) = Writing(m) \ {s}
    <3>1. \A d \in Fd \ {s} : d \in Writing(n) <=> d \in Writing(m)
      BY <2>3, Zenon DEF Writing
    <3>2. s \notin Writing(n)
      BY <2>4, SMT DEF Writing
    <3>3. Writing(n) \subseteq Fd /\ Writing(m) \subseteq Fd
      BY DEF Writing
    <3>. QED  BY <3>1, <3>2, <3>3
  <2>7. NewMaxFd(m, s) = m.max_fd
    <3>. SUFFICES ASSUME s \in Registered(m), s = m.max_fd
                  PROVE  HighestBusy(m) = s
      BY <2>2 DEF NewMaxFd
    <3>. DEFINE busy == Registered(m) \cup Writing(m)
    <3>1. \A j \in busy : j <= s /\ j \in Int
      BY FdFinite DEF Sound, MaxSound, Registered, Writing
    <3>2. s \in busy
      OBVIOUS
    <3>3. \A i \in busy : (\A j \in busy : j <= i) => i = s
      <4>. TAKE i \in busy
      <4>. HAVE \A j \in busy : j <= i
      <4>1. s <= i /\ i <= s /\ i \in Int
        BY <3>1, <3>2
      <4>. QED  BY <4>1, <1>0, SMT
    <3>4. (CHOOSE i \in busy : \A j \in busy : j <= i) = s
      BY <3>1, <3>2, <3>3
    <3>. QED  BY <3>2, <3>4 DEF HighestBusy
  <2>8. TableType(n, Infos, Handlers, Times)
    <3>1. ClosedSlot \in SlotType(Infos, Handlers, Times)
      BY SMT DEF ClosedSlot, SlotType
    <3>2. /\ n = [slot |-> n.slot, count |-> n.count, max_fd |-> n.max_fd]
          /\ n.slot = [m.slot EXCEPT ![s] = ClosedSlot]
          /\ n.count \in Int
          /\ n.max_fd = m.max_fd
      BY <2>1, <2>7, SMT DEF Sound, TableType
    <3>. HIDE DEF n
    <3>. QED  BY <3>1, <3>2, SMT DEF Sound, TableType
  <2>9. SlotsSound(n)
    <3>1. \A d \in Fd \ {s} :
            /\ n.slot[d].is_read \in {0, -1, d}
            /\ n.slot[d].is_write \in {0, -1, d}
            /\ n.slot[d].is_read # d =>
                 /\ n.slot[d].is_write <= 0
                 /\ n.slot[d].time = 0
                 /\ n.slot[d].func_read = Nil /\ n.slot[d].func_write = Nil
      BY <2>3, Zenon DEF Sound, SlotsSound
    <3>2. /\ n.slot[s].is_read = -1 /\ n.slot[s].is_write = -1
          /\ n.slot[s].time = 0
          /\ n.slot[s].func_read = Nil /\ n.slot[s].func_write = Nil
      BY <2>3 DEF ClosedSlot
    <3>. HIDE DEF n
    <3>. QED  BY <3>1, <3>2, SMT DEF SlotsSound
  <2>10. CountSound(n)
    BY <2>1, <2>2, <2>5, RegisteredFinite, FS_RemoveElement, SMT DEF Sound, CountSound
  <2>11. MaxSound(n)
    BY <2>1, <2>5, <2>6, <2>7 DEF Sound, MaxSound
  <2>. QED  BY <2>5, <2>6, <2>8, <2>9, <2>10, <2>11 DEF Sound
<1>. QED  BY <1>1, <1>2

\* Writing a slot keeps the table sound when the slot stays registered, or
\* stays free of anything the walk would act on.
LEMMA SetSlotSound ==
    ASSUME NEW Infos, NEW Handlers, NEW Times, NEW m,
           Sound(m, Infos, Handlers, Times),
           NEW s \in Fd, NEW new \in SlotType(Infos, Handlers, Times),
           new.is_read = m.slot[s].is_read,
           new.is_write \in {0, -1, s},
           s \notin Registered(m) => /\ new.is_write <= 0
                                     /\ new.time = 0
                                     /\ new.func_read = Nil /\ new.func_write = Nil
    PROVE  LET n == SetSlot(m, s, new)
           IN  /\ Sound(n, Infos, Handlers, Times)
               /\ Registered(n) = Registered(m)
               /\ Writing(n) \subseteq Writing(m) \cup Registered(m)
<1>. DEFINE n == SetSlot(m, s, new)
<1>0. s \in Int /\ s > 0 /\ FdSetSize \in Nat
  BY FdFinite, FdSetSizeAssumption
<1>1. /\ TableType(n, Infos, Handlers, Times)
      /\ n.slot = [m.slot EXCEPT ![s] = new]
      /\ n.count = m.count /\ n.max_fd = m.max_fd
  BY SMT DEF SetSlot, Sound, TableType
<1>2. /\ \A d \in Fd \ {s} : n.slot[d] = m.slot[d]
      /\ n.slot[s] = new
  BY <1>1, SMT DEF Sound, TableType
<1>. HIDE DEF n
<1>3. Registered(n) = Registered(m)
  <2>1. \A d \in Fd : n.slot[d].is_read = m.slot[d].is_read
    BY <1>2
  <2>. QED  BY <2>1, Zenon DEF Registered
<1>4. Writing(n) \subseteq Writing(m) \cup Registered(m)
  <2>1. \A d \in Fd \ {s} : d \in Writing(n) <=> d \in Writing(m)
    BY <1>2, Zenon DEF Writing
  <2>2. s \in Writing(n) => s \in Registered(m)
    BY <1>0, <1>2, SMT DEF Writing
  <2>3. Writing(n) \subseteq Fd
    BY DEF Writing
  <2>. QED  BY <2>1, <2>2, <2>3
<1>5. CountSound(n)
  BY <1>1, <1>3 DEF Sound, CountSound
<1>6. MaxSound(n)
  BY <1>1, <1>3, <1>4 DEF Sound, MaxSound
<1>7. SlotsSound(n)
  <2>1. \A d \in Fd \ {s} :
          /\ n.slot[d].is_read \in {0, -1, d}
          /\ n.slot[d].is_write \in {0, -1, d}
          /\ n.slot[d].is_read # d =>
               /\ n.slot[d].is_write <= 0
               /\ n.slot[d].time = 0
               /\ n.slot[d].func_read = Nil /\ n.slot[d].func_write = Nil
    BY <1>2, Zenon DEF Sound, SlotsSound
  <2>2. new.is_read \in {0, -1, s}
    BY <1>2 DEF Sound, SlotsSound
  <2>3. new.is_read # s => s \notin Registered(m)
    BY <1>0, <2>2, SMT DEF Registered
  <2>. QED  BY <1>2, <2>1, <2>2, <2>3 DEF SlotsSound
<1>. QED  BY <1>1, <1>3, <1>4, <1>5, <1>6, <1>7 DEF Sound, n

LEMMA SlotUpdate ==
    ASSUME NEW Infos, NEW Handlers, NEW Times,
           NEW slot \in SlotType(Infos, Handlers, Times),
           NEW w \in Fd \cup {0, -1}, NEW f \in Handlers
    PROVE  [slot EXCEPT !.is_write = w, !.func_write = f]
               \in SlotType(Infos, Handlers, Times)
<1>. DEFINE one == [slot EXCEPT !.is_write = w]
<1>1. [slot EXCEPT !.is_write = w, !.func_write = f] = [one EXCEPT !.func_write = f]
  OBVIOUS
<1>2. one \in SlotType(Infos, Handlers, Times)
  BY SMT DEF SlotType
<1>. HIDE DEF one
<1>3. [one EXCEPT !.func_write = f] \in SlotType(Infos, Handlers, Times)
  BY <1>2, SMT DEF SlotType
<1>. QED  BY <1>1, <1>3

\* s->is_write = s->is_read, on a registered socket.
LEMMA WantWriteSound ==
    ASSUME NEW Infos, NEW Handlers, NEW Times, NEW m,
           Sound(m, Infos, Handlers, Times),
           NEW s \in Registered(m), NEW f \in Handlers
    PROVE  LET n == WantWrite(m, s, f)
           IN  /\ Sound(n, Infos, Handlers, Times)
               /\ Registered(n) = Registered(m)
               /\ Writing(n) \subseteq Writing(m) \cup Registered(m)
<1>. DEFINE new == [m.slot[s] EXCEPT !.is_write = m.slot[s].is_read, !.func_write = f]
<1>1. s \in Fd /\ m.slot[s] \in SlotType(Infos, Handlers, Times)
  BY SMT DEF Registered, Sound, TableType
<1>a. m.slot[s].is_read \in Fd \cup {0, -1}
  BY <1>1, SMT DEF SlotType
<1>2. new \in SlotType(Infos, Handlers, Times)
  BY <1>1, <1>a, SlotUpdate
<1>3. new.is_read = m.slot[s].is_read /\ new.is_write = m.slot[s].is_read
  BY <1>1, SMT DEF SlotType
<1>4. m.slot[s].is_read \in {0, -1, s}
  BY <1>1 DEF Sound, SlotsSound
<1>. HIDE DEF new
<1>5. LET n == SetSlot(m, s, new)
      IN  /\ Sound(n, Infos, Handlers, Times)
          /\ Registered(n) = Registered(m)
          /\ Writing(n) \subseteq Writing(m) \cup Registered(m)
  BY <1>1, <1>2, <1>3, <1>4, SetSlotSound
<1>. QED  BY <1>5 DEF WantWrite, new

\* A timeout, on a registered socket.
LEMMA AddSocketTimeoutSound ==
    ASSUME NEW Infos, NEW Handlers, NEW Times, NEW m,
           Sound(m, Infos, Handlers, Times),
           NEW s \in Registered(m), NEW at \in Times
    PROVE  LET n == AddSocketTimeout(m, s, at)
           IN  /\ Sound(n, Infos, Handlers, Times)
               /\ Registered(n) = Registered(m)
               /\ Writing(n) \subseteq Writing(m) \cup Registered(m)
<1>. DEFINE new == [m.slot[s] EXCEPT !.time = at]
<1>1. s \in Fd /\ m.slot[s] \in SlotType(Infos, Handlers, Times)
  BY SMT DEF Registered, Sound, TableType
<1>2. new \in SlotType(Infos, Handlers, Times)
  BY <1>1, SMT DEF SlotType
<1>3. new.is_read = m.slot[s].is_read /\ new.is_write = m.slot[s].is_write
  BY <1>1, SMT DEF SlotType
<1>4. m.slot[s].is_write \in {0, -1, s}
  BY <1>1 DEF Sound, SlotsSound
<1>. HIDE DEF new
<1>5. LET n == SetSlot(m, s, new)
      IN  /\ Sound(n, Infos, Handlers, Times)
          /\ Registered(n) = Registered(m)
          /\ Writing(n) \subseteq Writing(m) \cup Registered(m)
  BY <1>1, <1>2, <1>3, <1>4, SetSlotSound
<1>6. Writing(m) \subseteq Writing(m) \cup Registered(m)
  OBVIOUS
<1>. QED  BY <1>5, <1>6 DEF AddSocketTimeout, new

=============================================================================
