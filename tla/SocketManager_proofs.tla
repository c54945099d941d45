------------------------- MODULE SocketManager_proofs -------------------------
(***************************************************************************)
(* The socket manager keeps its promises for every size of the table and   *)
(* every bound on the clock.  One inductive invariant carries all of them: *)
(* Table (the table is sound), Bounds (what the table polls, newio.c waits *)
(* on and the kernel has open are nested), Walk (what the pass over the    *)
(* ready descriptors still owes lies ahead of it).                         *)
(***************************************************************************)
EXTENDS SocketManager, SocketTable_proofs, WellFoundedInduction

Table == Sound(sock_manager, {Nil}, {Nil, Handler}, 0 .. MaxTime + 1)

Bounds ==
    /\ Registered(sock_manager) \cup Writing(sock_manager) \subseteq readables
    /\ readables \subseteq kernel
    /\ kernel \subseteq Fd
    /\ global_max_fd \in Fd \cup {-1}
    /\ \A s \in readables : s <= global_max_fd

Served == {"read_handler", "write", "write_handler", "timeout", "cleanup_handler"}

Walk ==
    /\ now \in 0 .. MaxTime
    /\ pc \in PC
    /\ i \in 1 .. FdSetSize
    /\ rd \subseteq Fd /\ wr \subseteq Fd
    /\ owed \subseteq Registered(sock_manager)
    /\ pc \in Served \cup {"dispatch", "read"} => owed \subseteq rd
    /\ pc \in Served \cup {"read"} => \A s \in owed : s >= i
    /\ pc \in Served => i \in Fd /\ i \notin owed
    /\ pc = "idle" => owed = {}
    /\ pc = "closing" => \A s \in Registered(sock_manager) : s >= i
    /\ pc = "exit" => Registered(sock_manager) = {}

IInv == Table /\ Bounds /\ Walk

----------------------------------------------------------------------------
(* The largest element of a set of descriptors *)

LEMMA Smallest ==
    ASSUME NEW T, T \subseteq Nat, T # {}
    PROVE  \E x \in T : \A y \in T : x <= y
<1>. DEFINE R == OpToRel(<, Nat)
<1>1. IsWellFoundedOn(R, Nat)
  BY NatLessThanWellFounded
<1>2. \A x, y \in Nat : x < y => <<x, y>> \in R
  BY Zenon DEF OpToRel
<1>. HIDE DEF R
<1>3. PICK x \in T : \A y \in T : ~(<<y, x>> \in R)
  BY <1>1, WFMin, Zenon
<1>4. \A y \in T : ~(y < x)
  BY <1>2, <1>3
<1>. QED  BY <1>3, <1>4, SMT

LEMMA Largest ==
    ASSUME NEW T, T \subseteq Fd, T # {}
    PROVE  \E x \in T : \A y \in T : y <= x
<1>. DEFINE Mirror == {FdSetSize - t : t \in T}
<1>1. \A t \in T : t \in Int /\ FdSetSize - t \in Nat
  BY FdFinite, FdSetSizeAssumption, SMT
<1>2. Mirror \subseteq Nat /\ Mirror # {}
  BY <1>1
<1>3. PICK x \in Mirror : \A y \in Mirror : x <= y
  BY <1>2, Smallest
<1>4. PICK t \in T : x = FdSetSize - t
  BY <1>3
<1>5. \A u \in T : FdSetSize - t <= FdSetSize - u
  BY <1>3, <1>4
<1>. QED  BY <1>1, <1>5, FdSetSizeAssumption, SMT

----------------------------------------------------------------------------
(* What opening and closing a descriptor do to the bounds *)

LEMMA NewCloseBounds ==
    ASSUME Bounds, NEW s \in Fd, NewClose(s)
    PROVE  /\ readables' = readables \ {s}
           /\ kernel' = kernel \ {s}
           /\ global_max_fd' \in Fd \cup {-1}
           /\ \A d \in readables' : d <= global_max_fd'
<1>1. /\ readables' = readables \ {s}
      /\ kernel' = kernel \ {s}
      /\ global_max_fd' = NextHighest(s)
  BY DEF NewClose
<1>2. readables \subseteq Fd
  BY DEF Bounds
<1>3. NextHighest(s) \in Fd \cup {-1} /\ \A d \in readables \ {s} : d <= NextHighest(s)
  <2>1. CASE s # global_max_fd
    BY <2>1 DEF NextHighest, Bounds
  <2>2. CASE s = global_max_fd
    <3>. DEFINE Below == StillOpenBelow(s)
    <3>1. Below \subseteq Fd
      BY <1>2 DEF StillOpenBelow
    <3>2. \A d \in readables \ {s} : d \in Below
      <4>. TAKE d \in readables \ {s}
      <4>1. d \in Int /\ s \in Int /\ d <= s /\ d # s
        BY <1>2, <2>2, FdFinite DEF Bounds
      <4>2. d < s
        BY <4>1, SMT
      <4>. QED  BY <4>2 DEF StillOpenBelow
    <3>3. CASE Below = {}
      BY <2>2, <3>2, <3>3 DEF NextHighest
    <3>4. CASE Below # {}
      <4>1. \E d \in Below : \A e \in Below : e <= d
        BY <3>1, <3>4, Largest
      <4>. DEFINE top == CHOOSE d \in Below : \A e \in Below : e <= d
      <4>2. top \in Below /\ \A e \in Below : e <= top
        BY <4>1
      <4>3. NextHighest(s) = top
        BY <2>2, <3>4 DEF NextHighest
      <4>. QED  BY <3>1, <3>2, <4>2, <4>3
    <3>. QED  BY <3>3, <3>4
  <2>. QED  BY <2>1, <2>2
<1>. QED  BY <1>1, <1>3

LEMMA NewOpenBounds ==
    ASSUME Bounds, NEW s \in Fd, NewOpen(s)
    PROVE  /\ readables' = readables \cup {s}
           /\ global_max_fd' \in Fd \cup {-1}
           /\ \A d \in readables' : d <= global_max_fd'
<1>1. /\ readables' = readables \cup {s}
      /\ global_max_fd' = IF s > global_max_fd THEN s ELSE global_max_fd
  BY DEF NewOpen
<1>2. /\ s \in Int
      /\ global_max_fd \in Int
      /\ \A d \in readables : d \in Int /\ d <= global_max_fd
  BY FdFinite DEF Bounds
<1>3. \A d \in readables' : d <= global_max_fd'
  BY <1>1, <1>2, SMT
<1>. QED  BY <1>1, <1>3 DEF Bounds

\* close_socketread() keeps table and bounds, and takes out one descriptor.
LEMMA DoCloseEffect ==
    ASSUME Table, Bounds, NEW s \in Fd, DoClose(s)
    PROVE  /\ Table' /\ Bounds'
           /\ Registered(sock_manager)' = Registered(sock_manager) \ {s}
           /\ owed' = owed \ {s}
<1>. DEFINE m == sock_manager
            n == CloseSocketRead(m, s)
<1>1. sock_manager' = n /\ owed' = owed \ {s}
  BY DEF DoClose
<1>2. /\ Sound(n, {Nil}, {Nil, Handler}, 0 .. MaxTime + 1)
      /\ Registered(n) = Registered(m) \ {s}
      /\ Writing(n) = Writing(m) \ {s}
  <2>1. 0 \in 0 .. MaxTime + 1
    BY MaxTimeAssumption, SMT
  <2>. DEFINE Times == 0 .. MaxTime + 1
  <2>2. Sound(m, {Nil}, {Nil, Handler}, Times)
    BY DEF Table
  <2>. HIDE DEF Times, m
  <2>3. Nil \in {Nil} /\ Nil \in {Nil, Handler} /\ 0 \in Times
    BY <2>1 DEF Times
  <2>4. /\ Sound(n, {Nil}, {Nil, Handler}, Times)
        /\ Registered(n) = Registered(m) \ {s}
        /\ Writing(n) = Writing(m) \ {s}
    BY <2>2, <2>3, CloseSocketReadSound
  <2>. QED  BY <2>4 DEF Times
<1>. HIDE DEF n
<1>3. Table' /\ Registered(sock_manager)' = Registered(sock_manager) \ {s}
  BY <1>1, <1>2 DEF Table
<1>4. Bounds'
  <2>1. CASE Releases(sock_manager, s)
    <3>1. NewClose(s)
      BY <2>1 DEF DoClose
    <3>. QED  BY <1>1, <1>2, <3>1, NewCloseBounds DEF Bounds
  <2>2. CASE ~Releases(sock_manager, s)
    <3>1. UNCHANGED <<readables, global_max_fd, kernel>>
      BY <2>2 DEF DoClose, io
    <3>. QED  BY <1>1, <1>2, <3>1 DEF Bounds
  <2>. QED  BY <2>1, <2>2
<1>. QED  BY <1>1, <1>3, <1>4

\* A table that differs in what the slots hold, not in which are registered.
LEMMA SameRegistered ==
    ASSUME Bounds, Table', UNCHANGED <<kernel, io>>,
           Registered(sock_manager)' = Registered(sock_manager),
           Writing(sock_manager)' \subseteq Writing(sock_manager) \cup Registered(sock_manager)
    PROVE  Bounds'
BY DEF Bounds, io

----------------------------------------------------------------------------
(* The invariant *)

LEMMA InitIInv == Init => IInv
<1>. SUFFICES ASSUME Init PROVE IInv
  OBVIOUS
<1>. DEFINE Times == 0 .. MaxTime + 1
<1>1. Nil \in {Nil} /\ Nil \in {Nil, Handler} /\ 0 \in Times
  BY MaxTimeAssumption, SMT
<1>. HIDE DEF Times
<1>2. /\ Sound(NoSockets, {Nil}, {Nil, Handler}, Times)
      /\ Registered(NoSockets) = {} /\ Writing(NoSockets) = {}
  BY <1>1, NoSocketsSound
<1>3. Table
  BY <1>2 DEF Init, Table, Times
<1>4. Bounds
  BY <1>2 DEF Init, Bounds
<1>5. Walk
  BY <1>2, MaxTimeAssumption, FdSetSizeAssumption, SMT
     DEF Init, Walk, Served, PC, Running, First
<1>. QED  BY <1>3, <1>4, <1>5 DEF IInv

\* A handler runs with the walk standing still.  It may register descriptors
\* and may close them, and what it closes is owed no more.
LEMMA HandlerWalk ==
    ASSUME Walk, pc \in Running, UNCHANGED <<now, pc, walk>>,
           owed' \subseteq owed,
           owed' \subseteq Registered(sock_manager)'
    PROVE  Walk'
<1>1. /\ now' = now /\ pc' = pc /\ i' = i /\ rd' = rd /\ wr' = wr
      /\ pc \notin {"idle", "closing", "exit"}
  BY DEF walk, Running
<1>. QED  BY <1>1 DEF Walk

LEMMA HandlerStepIInv == IInv /\ HandlerStep => IInv'
<1>. SUFFICES ASSUME IInv, HandlerStep PROVE IInv'
  OBVIOUS
<1>. USE DEF IInv
<1>. DEFINE m == sock_manager
            Times == 0 .. MaxTime + 1
<1>0. /\ Sound(m, {Nil}, {Nil, Handler}, Times)
      /\ Nil \in {Nil, Handler} /\ Handler \in {Nil, Handler}
      /\ owed \subseteq Registered(m)
  BY DEF Table, Walk
<1>1. CASE Open
  <2>1. PICK s \in Fd \ kernel :
          /\ kernel' = kernel \cup {s}
          /\ m' = AddSocketRead(m, s, Handler, Nil)
          /\ NewOpen(s)
    BY <1>1 DEF Open
  <2>2. pc \in Running /\ UNCHANGED <<now, pc, walk, owed>>
    BY <1>1 DEF Open
  <2>3. s \notin Registered(m)
    BY <2>1 DEF Bounds
  <2>. DEFINE n == AddSocketRead(m, s, Handler, Nil)
  <2>4. /\ Sound(n, {Nil}, {Nil, Handler}, Times)
        /\ Registered(n) = Registered(m) \cup {s}
        /\ Writing(n) = Writing(m)
    <3>. HIDE DEF m, Times
    <3>. QED  BY <1>0, <2>3, AddSocketReadSound
  <2>. HIDE DEF n
  <2>5. m' = n
    BY <2>1 DEF n
  <2>6. Table'
    BY <2>4, <2>5 DEF Table
  <2>7. Bounds'
    BY <2>1, <2>4, <2>5, NewOpenBounds DEF Bounds
  <2>8. Walk'
    BY <1>0, <2>2, <2>4, <2>5, HandlerWalk
  <2>. QED  BY <2>6, <2>7, <2>8
<1>2. CASE OpenUnregistered
  <2>1. PICK s \in Fd \ kernel :
          /\ kernel' = kernel \cup {s}
          /\ NewOpen(s) \/ UNCHANGED io
    BY <1>2 DEF OpenUnregistered
  <2>2. pc \in Running /\ UNCHANGED <<sock_manager, now, pc, walk, owed>>
    BY <1>2 DEF OpenUnregistered
  <2>3. Table'
    BY <2>2 DEF Table
  <2>4. Bounds'
    BY <2>1, <2>2, NewOpenBounds DEF Bounds, io
  <2>5. Walk'
    BY <1>0, <2>2, HandlerWalk
  <2>. QED  BY <2>3, <2>4, <2>5
<1>3. CASE CloseUnregistered
  <2>1. PICK s \in kernel \ Registered(sock_manager) :
          IF s \in readables THEN NewClose(s)
          ELSE kernel' = kernel \ {s} /\ UNCHANGED io
    BY <1>3 DEF CloseUnregistered
  <2>2. pc \in Running /\ UNCHANGED <<sock_manager, now, pc, walk, owed>>
    BY <1>3 DEF CloseUnregistered
  <2>3. Table'
    BY <2>2 DEF Table
  <2>4. s \notin Writing(m)
    <3>1. s \in Fd /\ s \in Int /\ s > 0
      BY <2>1, FdFinite DEF Bounds
    <3>. QED  BY <1>0, <2>1, <3>1, SMT DEF Writing, Registered, Sound, SlotsSound
  <2>5. Bounds'
    BY <2>1, <2>2, <2>4, NewCloseBounds DEF Bounds, io
  <2>6. Walk'
    BY <1>0, <2>2, HandlerWalk
  <2>. QED  BY <2>3, <2>5, <2>6
<1>4. CASE Close
  <2>1. PICK s \in Fd : DoClose(s)
    BY <1>4 DEF Close
  <2>2. pc \in Running /\ UNCHANGED <<now, pc, walk>>
    BY <1>4 DEF Close
  <2>3. /\ Table' /\ Bounds'
        /\ Registered(sock_manager)' = Registered(sock_manager) \ {s}
        /\ owed' = owed \ {s}
    BY <2>1, DoCloseEffect
  <2>4. Walk'
    BY <1>0, <2>2, <2>3, HandlerWalk
  <2>. QED  BY <2>3, <2>4
<1>5. CASE StartWriting
  <2>1. PICK s \in Registered(m) : m' = WantWrite(m, s, Handler)
    BY <1>5 DEF StartWriting
  <2>2. pc \in Running /\ UNCHANGED <<kernel, io, now, pc, walk, owed>>
    BY <1>5 DEF StartWriting
  <2>. DEFINE n == WantWrite(m, s, Handler)
  <2>3. /\ Sound(n, {Nil}, {Nil, Handler}, Times)
        /\ Registered(n) = Registered(m)
        /\ Writing(n) \subseteq Writing(m) \cup Registered(m)
    <3>. HIDE DEF m, Times
    <3>. QED  BY <1>0, WantWriteSound
  <2>. HIDE DEF n
  <2>4. m' = n
    BY <2>1 DEF n
  <2>5. Table'
    BY <2>3, <2>4 DEF Table
  <2>6. Bounds'
    BY <2>2, <2>3, <2>4, <2>5, SameRegistered
  <2>7. Walk'
    BY <1>0, <2>2, <2>3, <2>4, HandlerWalk
  <2>. QED  BY <2>5, <2>6, <2>7
<1>6. CASE SetTimeout
  <2>1. PICK s \in Registered(m), at \in {0, now + 1} : m' = AddSocketTimeout(m, s, at)
    BY <1>6 DEF SetTimeout
  <2>2. pc \in Running /\ UNCHANGED <<kernel, io, now, pc, walk, owed>>
    BY <1>6 DEF SetTimeout
  <2>. DEFINE n == AddSocketTimeout(m, s, at)
  <2>a. at \in Times
    BY MaxTimeAssumption, SMT DEF Walk
  <2>3. /\ Sound(n, {Nil}, {Nil, Handler}, Times)
        /\ Registered(n) = Registered(m)
        /\ Writing(n) \subseteq Writing(m) \cup Registered(m)
    <3>. HIDE DEF m, Times
    <3>. QED  BY <1>0, <2>a, AddSocketTimeoutSound
  <2>. HIDE DEF n
  <2>4. m' = n
    BY <2>1 DEF n
  <2>5. Table'
    BY <2>3, <2>4 DEF Table
  <2>6. Bounds'
    BY <2>2, <2>3, <2>4, <2>5, SameRegistered
  <2>7. Walk'
    BY <1>0, <2>2, <2>3, <2>4, HandlerWalk
  <2>. QED  BY <2>5, <2>6, <2>7
<1>. QED  BY <1>1, <1>2, <1>3, <1>4, <1>5, <1>6 DEF HandlerStep

\* The steps of the turn itself leave the table and the bounds alone, except
\* where they close an expired or a remaining socket.
LEMMA Untouched ==
    ASSUME Table, Bounds, UNCHANGED <<sock_manager, kernel, io>>
    PROVE  /\ Table' /\ Bounds'
           /\ Registered(sock_manager)' = Registered(sock_manager)
BY DEF Table, Bounds, io

LEMMA SelectIInv == IInv /\ Select => IInv'
<1>. SUFFICES ASSUME IInv, Select PROVE IInv'
  OBVIOUS
<1>1. /\ UNCHANGED <<sock_manager, kernel, io, i>>
      /\ pc' = "dispatch" /\ owed' = rd'
      /\ rd' \subseteq Registered(sock_manager)
      /\ wr' \subseteq Writing(sock_manager)
      /\ now' \in {t \in {now, now + 1} : t <= MaxTime}
  BY DEF Select, Polled, PolledWrite
<1>2. /\ Table' /\ Bounds'
      /\ Registered(sock_manager)' = Registered(sock_manager)
  BY <1>1, Untouched DEF IInv
<1>3. rd' \subseteq Fd /\ wr' \subseteq Fd
  BY <1>1 DEF Registered, Writing
<1>4. now' \in 0 .. MaxTime
  BY <1>1, MaxTimeAssumption, SMT DEF IInv, Walk
<1>5. Walk'
  BY <1>1, <1>2, <1>3, <1>4 DEF IInv, Walk, PC, Running, Served
<1>. QED  BY <1>2, <1>5 DEF IInv

LEMMA ScanStepIInv == IInv /\ ScanStep => IInv'
<1>. SUFFICES ASSUME IInv, ScanStep PROVE IInv'
  OBVIOUS
<1>. USE DEF IInv
<1>0. /\ i \in Int /\ FdSetSize \in Nat
      /\ i \in Fd => i + 1 \in 1 .. FdSetSize
      /\ \A s \in Fd : s \in Int
  BY FdFinite, FdSetSizeAssumption, SMT DEF Walk, Fd
<1>1. CASE StartScan
  <2>1. UNCHANGED <<sock_manager, kernel, io, now>> /\ pc = "dispatch" /\ i' = First
    BY <1>1 DEF StartScan
  <2>2. /\ Table' /\ Bounds'
        /\ Registered(sock_manager)' = Registered(sock_manager)
    BY <2>1, Untouched
  <2>3. i' \in 1 .. FdSetSize /\ \A s \in Fd : s >= i'
    BY <2>1, FdSetSizeAssumption, SMT DEF First, Fd
  <2>4. owed \subseteq Fd
    BY DEF Walk, Registered
  <2>5. Walk'
    <3>1. CASE sock_manager.count = 0
      <4>1. pc' = "idle" /\ rd' = {} /\ wr' = {} /\ owed' = {}
        BY <1>1, <3>1 DEF StartScan
      <4>. QED  BY <2>1, <2>2, <2>3, <4>1 DEF Walk, PC, Running, Served
    <3>2. CASE sock_manager.count # 0
      <4>1. pc' = "read" /\ UNCHANGED <<rd, wr, owed>>
        BY <1>1, <3>2 DEF StartScan
      <4>. QED  BY <2>1, <2>2, <2>3, <2>4, <4>1 DEF Walk, PC, Running, Served
    <3>. QED  BY <3>1, <3>2
  <2>. QED  BY <2>2, <2>5
<1>2. CASE ScanRead
  <2>1. /\ UNCHANGED <<sock_manager, kernel, io, now, walk>>
        /\ pc = "read" /\ i <= sock_manager.max_fd
    BY <1>2 DEF ScanRead, InTable
  <2>2. /\ Table' /\ Bounds'
        /\ Registered(sock_manager)' = Registered(sock_manager)
    BY <2>1, Untouched
  <2>3. i \in Fd
    <3>1. sock_manager.max_fd \in Fd \cup {0, -1}
      BY Zenon DEF Table, Sound, TableType
    <3>. QED  BY <2>1, <3>1, <1>0, FdSetSizeAssumption, SMT DEF Walk, Fd
  <2>4. pc' \in {"read_handler", "write"} /\ owed' \subseteq owed /\ i \notin owed'
    <3>1. CASE i \in rd /\ Slot.is_read > 0
      BY <1>2, <3>1 DEF ScanRead
    <3>2. CASE ~(i \in rd /\ Slot.is_read > 0)
      <4>1. pc' = "write" /\ owed' = owed
        BY <1>2, <3>2 DEF ScanRead
      <4>2. i \in owed => i \in rd /\ Slot.is_read > 0
        BY <2>1 DEF Walk, Registered, Slot
      <4>. QED  BY <3>2, <4>1, <4>2
    <3>. QED  BY <3>1, <3>2
  <2>5. Walk'
    BY <2>1, <2>2, <2>3, <2>4 DEF Walk, walk, PC, Running, Served
  <2>. QED  BY <2>2, <2>5
<1>3. CASE ScanWrite
  <2>1. /\ UNCHANGED <<sock_manager, kernel, io, now, walk, owed>>
        /\ pc = "write" /\ pc' \in {"write_handler", "timeout"}
    BY <1>3 DEF ScanWrite
  <2>2. /\ Table' /\ Bounds'
        /\ Registered(sock_manager)' = Registered(sock_manager)
    BY <2>1, Untouched
  <2>3. Walk'
    BY <2>1, <2>2 DEF Walk, walk, PC, Running, Served
  <2>. QED  BY <2>2, <2>3
<1>4. CASE HandlerReturns
  <2>1. /\ UNCHANGED <<sock_manager, kernel, io, now, rd, wr, owed>>
        /\ \/ pc = "read_handler"  /\ pc' = "write"   /\ i' = i
           \/ pc = "write_handler" /\ pc' = "timeout" /\ i' = i
           \/ pc = "cleanup_handler" /\ pc' = "read"  /\ i' = i + 1
    BY <1>4 DEF HandlerReturns
  <2>2. /\ Table' /\ Bounds'
        /\ Registered(sock_manager)' = Registered(sock_manager)
    BY <2>1, Untouched
  <2>3. \A s \in owed : s \in Int /\ (s >= i /\ s # i => s >= i + 1)
    BY <1>0, SMT DEF Walk, Registered
  <2>4. Walk'
    <3>1. CASE pc = "cleanup_handler"
      BY <1>0, <2>1, <2>2, <2>3, <3>1 DEF Walk, PC, Running, Served
    <3>2. CASE pc # "cleanup_handler"
      BY <2>1, <2>2, <3>2 DEF Walk, PC, Running, Served
    <3>. QED  BY <3>1, <3>2
  <2>. QED  BY <2>2, <2>4
<1>5. CASE ScanTimeout
  <2>1. /\ pc = "timeout" /\ UNCHANGED <<now, rd, wr>>
        /\ i \in Fd /\ i \notin owed
        /\ \A s \in owed : s >= i + 1
    <3>1. \A s \in owed : s \in Int /\ (s >= i /\ s # i => s >= i + 1)
      BY <1>0, SMT DEF Walk, Registered
    <3>. QED  BY <1>5, <3>1 DEF ScanTimeout, Walk, Served
  <2>2. /\ Table' /\ Bounds' /\ owed' \subseteq owed
        /\ owed' \subseteq Registered(sock_manager)'
        /\ pc' \in {"read", "cleanup_handler"}
        /\ i' = IF pc' = "read" THEN i + 1 ELSE i
    <3>1. CASE UNCHANGED <<sock_manager, kernel, io, owed>>
      <4>1. /\ Table' /\ Bounds'
            /\ Registered(sock_manager)' = Registered(sock_manager)
        BY <3>1, Untouched
      <4>2. \/ pc' = "read" /\ i' = i + 1
            \/ pc' = "cleanup_handler" /\ i' = i
        BY <1>5 DEF ScanTimeout
      <4>. QED  BY <3>1, <4>1, <4>2 DEF Walk
    <3>2. CASE DoClose(i) /\ pc' = "read" /\ i' = i + 1
      <4>1. /\ Table' /\ Bounds'
            /\ Registered(sock_manager)' = Registered(sock_manager) \ {i}
            /\ owed' = owed \ {i}
        BY <2>1, <3>2, DoCloseEffect
      <4>. QED  BY <3>2, <4>1 DEF Walk
    <3>. QED  BY <1>5, <3>1, <3>2 DEF ScanTimeout
  <2>3. Walk'
    BY <1>0, <2>1, <2>2 DEF Walk, PC, Running, Served
  <2>. QED  BY <2>2, <2>3
<1>6. CASE ScanEnds
  <2>1. /\ UNCHANGED <<sock_manager, kernel, io, now, owed>>
        /\ pc = "read" /\ ~(i <= sock_manager.max_fd)
        /\ pc' = "idle" /\ i' = First /\ rd' = {} /\ wr' = {}
    BY <1>6 DEF ScanEnds, InTable
  <2>2. /\ Table' /\ Bounds'
        /\ Registered(sock_manager)' = Registered(sock_manager)
    BY <2>1, Untouched
  <2>3. owed = {}
    <3>. SUFFICES ASSUME NEW s \in owed PROVE FALSE
      OBVIOUS
    <3>1. s \in Registered(sock_manager) /\ s >= i
      BY <2>1 DEF Walk
    <3>2. s <= sock_manager.max_fd /\ s \in Int
      BY <1>0, <3>1 DEF Table, Sound, MaxSound, Registered
    <3>3. sock_manager.max_fd \in Int
      <4>1. sock_manager.max_fd \in Fd \cup {0, -1}
        BY Zenon DEF Table, Sound, TableType
      <4>2. 0 \in Int /\ -1 \in Int
        OBVIOUS
      <4>. QED  BY <4>1, <4>2, <1>0, Zenon
    <3>. QED  BY <1>0, <2>1, <3>1, <3>2, <3>3, SMT
  <2>4. i' \in 1 .. FdSetSize
    BY <2>1, FdSetSizeAssumption, SMT DEF First
  <2>5. Walk'
    BY <2>1, <2>2, <2>3, <2>4 DEF Walk, PC, Running, Served
  <2>. QED  BY <2>2, <2>5
<1>. QED  BY <1>1, <1>2, <1>3, <1>4, <1>5, <1>6 DEF ScanStep

LEMMA ExitIInv == IInv /\ (Quit \/ CloseAllStep) => IInv'
<1>. SUFFICES ASSUME IInv, Quit \/ CloseAllStep PROVE IInv'
  OBVIOUS
<1>. USE DEF IInv
<1>1. CASE Quit
  <2>1. /\ UNCHANGED <<sock_manager, kernel, io, now, rd, wr, owed>>
        /\ i' = First
        /\ pc' = IF sock_manager.count = 0 THEN "exit" ELSE "closing"
    BY <1>1 DEF Quit
  <2>2. /\ Table' /\ Bounds'
        /\ Registered(sock_manager)' = Registered(sock_manager)
    BY <2>1, Untouched
  <2>3. i' \in 1 .. FdSetSize /\ \A s \in Fd : s >= i'
    BY <2>1, FdSetSizeAssumption, SMT DEF First, Fd
  <2>4. sock_manager.count = 0 => Registered(sock_manager) = {}
    BY RegisteredFinite, FS_EmptySet DEF Table, Sound, CountSound
  <2>5. Registered(sock_manager) \subseteq Fd
    BY DEF Registered
  <2>6. Walk'
    BY <2>1, <2>2, <2>3, <2>4, <2>5 DEF Walk, PC, Running, Served
  <2>. QED  BY <2>2, <2>6
<1>2. CASE CloseAllStep
  <2>0. /\ i \in Int /\ FdSetSize \in Nat /\ \A s \in Fd : s \in Int
        /\ sock_manager.max_fd \in Fd \cup {0, -1}
        /\ sock_manager.max_fd \in Int
    <3>1. sock_manager.max_fd \in Fd \cup {0, -1}
      BY Zenon DEF Table, Sound, TableType
    <3>2. 0 \in Int /\ -1 \in Int
      OBVIOUS
    <3>3. i \in Int /\ FdSetSize \in Nat /\ \A s \in Fd : s \in Int
      BY FdFinite, FdSetSizeAssumption, SMT DEF Walk
    <3>. QED  BY <3>1, <3>2, <3>3, Zenon
  <2>1. pc = "closing" /\ UNCHANGED <<now, rd, wr>>
    BY <1>2 DEF CloseAllStep
  <2>2. CASE ~InTable
    <3>1. pc' = "exit" /\ UNCHANGED <<sock_manager, kernel, io, owed, i>>
      BY <1>2, <2>2 DEF CloseAllStep
    <3>2. /\ Table' /\ Bounds'
          /\ Registered(sock_manager)' = Registered(sock_manager)
      BY <3>1, Untouched
    <3>3. Registered(sock_manager) = {}
      <4>. SUFFICES ASSUME NEW s \in Registered(sock_manager) PROVE FALSE
        OBVIOUS
      <4>1. s >= i /\ s <= sock_manager.max_fd /\ s \in Int
        BY <2>0, <2>1 DEF Walk, Table, Sound, MaxSound, Registered
      <4>. QED  BY <2>0, <2>2, <4>1, SMT DEF InTable
    <3>4. Walk'
      BY <2>1, <3>1, <3>2, <3>3 DEF Walk, PC, Running, Served
    <3>. QED  BY <3>2, <3>4
  <2>3. CASE InTable
    <3>1. /\ i' = i + 1 /\ pc' = pc
          /\ IF i \in Registered(sock_manager) THEN DoClose(i)
             ELSE UNCHANGED <<sock_manager, kernel, io, owed>>
      BY <1>2, <2>3 DEF CloseAllStep
    <3>2. i \in Fd /\ i + 1 \in 1 .. FdSetSize
      BY <2>0, <2>3, FdSetSizeAssumption, SMT DEF InTable, Walk, Fd
    <3>3. /\ Table' /\ Bounds'
          /\ Registered(sock_manager)' = Registered(sock_manager) \ {i}
          /\ owed' \subseteq Registered(sock_manager)'
      <4>1. CASE i \in Registered(sock_manager)
        BY <3>1, <3>2, <4>1, DoCloseEffect DEF Walk
      <4>2. CASE i \notin Registered(sock_manager)
        BY <3>1, <4>2, Untouched DEF Walk
      <4>. QED  BY <4>1, <4>2
    <3>4. \A s \in Registered(sock_manager) : s >= i /\ s # i => s >= i + 1
      BY <2>0, SMT DEF Registered
    <3>5. Walk'
      BY <2>1, <3>1, <3>2, <3>3, <3>4 DEF Walk, PC, Running, Served
    <3>. QED  BY <3>3, <3>5
  <2>. QED  BY <2>2, <2>3
<1>. QED  BY <1>1, <1>2

LEMMA NextIInv == IInv /\ [Next]_vars => IInv'
<1>1. IInv /\ UNCHANGED vars => IInv'
  BY Untouched DEF IInv, Table, Bounds, Walk, vars, io, walk
<1>. QED  BY <1>1, HandlerStepIInv, SelectIInv, ScanStepIInv, ExitIInv DEF Next

THEOREM Invariant == Spec => []IInv
BY InitIInv, NextIInv, PTL DEF Spec

----------------------------------------------------------------------------
(* What follows from it *)

\* The table, the sets of newio.c, the clock and the walk keep their types:
\* no fd outside the table is ever used as an index (server.c 297, 390).
THEOREM TypeCorrect == Spec => []TypeOK
<1>1. IInv => TypeOK
  BY DEF IInv, Table, Bounds, Walk, TypeOK, Sound, Registered
<1>. QED  BY <1>1, Invariant, PTL

\* The count every accessor tests is the number of registered sockets, for
\* any order of registrations and closes, repeated and stale ones included.
THEOREM CountIsExact == Spec => []CountExact
<1>1. IInv => CountExact
  BY DEF IInv, Table, Sound, CountExact
<1>. QED  BY <1>1, Invariant, PTL

\* max_fd and global_max_fd cover every socket that must be polled.
THEOREM BoundsHold == Spec => []WithinBounds
<1>1. IInv => WithinBounds
  BY DEF IInv, Table, Bounds, Sound, WithinBounds
<1>. QED  BY <1>1, Invariant, PTL

\* A registered descriptor is open in the kernel.
THEOREM RegisteredAreOpen == Spec => []RegisteredIsOpen
<1>1. IInv => RegisteredIsOpen
  BY DEF IInv, Bounds, RegisteredIsOpen
<1>. QED  BY <1>1, Invariant, PTL

\* A slot that is not registered cannot act.
THEOREM ClosedAreInert == Spec => []ClosedIsInert
<1>1. IInv => ClosedIsInert
  BY DEF IInv, Table, Sound, ClosedIsInert
<1>. QED  BY <1>1, Invariant, PTL

\* The pass over the table serves every socket reported ready that no handler
\* closed before its turn, however the handlers change the table meanwhile.
THEOREM PassIsFair == Spec => []NothingSkipped
<1>1. IInv => NothingSkipped
  BY DEF IInv, Table, Walk, Sound, MaxSound, Served, NothingSkipped
<1>. QED  BY <1>1, Invariant, PTL

\* nap_exit leaves no registered socket open.
THEOREM ExitClosesAll == Spec => []AllClosedAtExit
<1>1. IInv => AllClosedAtExit
  BY DEF IInv, Walk, AllClosedAtExit
<1>. QED  BY <1>1, Invariant, PTL

=============================================================================
