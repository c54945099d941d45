----------------------------- MODULE SocketTable -----------------------------
(***************************************************************************)
(* The table of sockets of source/server.c (struct _sock_manager) and the  *)
(* functions every other part of TekNap reaches it through.  The table is  *)
(* a value                                                                 *)
(*     [slot |-> ..., count |-> ..., max_fd |-> ...]                       *)
(* and each C function is an operator from a table to a table, so that the *)
(* same definitions serve the table's own specification (SocketManager)    *)
(* and the modules of the components whose handlers call them (Transfers). *)
(*                                                                         *)
(* A slot keeps the three values `is_read' takes in C: 0 in a slot never   *)
(* used (the array is zero-initialised), the descriptor while registered,  *)
(* -1 after a close.  check_socket() tests it for truth only, so a closed  *)
(* slot still passes as a socket and a slot never used does not.           *)
(***************************************************************************)
EXTENDS Integers, FiniteSets

CONSTANTS
    FdSetSize,   \* FD_SETSIZE: the length of a set of descriptors
    Nil          \* a NULL pointer: no info, no handler

ASSUME FdSetSizeAssumption == FdSetSize \in Nat /\ FdSetSize > 1

\* The descriptors the kernel hands to the program: the limit on open files
\* is at most FD_SETSIZE, and 0 is the terminal.
Fd == 1 .. FdSetSize - 1

ZeroSlot == [is_read |-> 0, is_write |-> 0, info |-> Nil, func_read |-> Nil,
             func_write |-> Nil, time |-> 0]

ClosedSlot == [is_read |-> -1, is_write |-> -1, info |-> Nil, func_read |-> Nil,
               func_write |-> Nil, time |-> 0]

\* As the memset of the first set_socket_read() leaves it.
NoSockets == [slot |-> [s \in Fd |-> ZeroSlot], count |-> 0, max_fd |-> 0]

Registered(m) == {s \in Fd : m.slot[s].is_read > 0}

Writing(m) == {s \in Fd : m.slot[s].is_write > 0}

CheckSocket(m, s) == /\ s # -1
                     /\ m.count # 0
                     /\ m.slot[s].is_read # 0

GetSocketInfo(m, s) == IF CheckSocket(m, s) THEN m.slot[s].info ELSE Nil

SetSlot(m, s, new) == [m EXCEPT !.slot = [m.slot EXCEPT ![s] = new]]

\* Silently does nothing on a slot that was never used.
SetSocketInfo(m, s, info) ==
    IF CheckSocket(m, s) THEN SetSlot(m, s, [m.slot[s] EXCEPT !.info = info]) ELSE m

\* s->func_write = f; s->is_write = s->is_read: call f when s can take more.
WantWrite(m, s, f) ==
    SetSlot(m, s, [m.slot[s] EXCEPT !.is_write = m.slot[s].is_read, !.func_write = f])

\* A new registration counts and may raise max_fd.  The slot keeps whatever
\* info, is_write and time it held.
Register(m, s, read, write) ==
    [m.slot EXCEPT ![s].is_read = s, ![s].func_read = read, ![s].func_write = write]

\* Mutants: max_fd follows the last descriptor; max_fd is one too high.
AddSocketReadLast(m, s, read, write) ==
    [slot |-> Register(m, s, read, write), count |-> m.count + 1, max_fd |-> s]

AddSocketReadAbove(m, s, read, write) ==
    [slot |-> Register(m, s, read, write), count |-> m.count + 1,
     max_fd |-> IF s > m.max_fd THEN s + 1 ELSE m.max_fd]

AddSocketRead(m, s, read, write) ==
    IF s > FdSetSize THEN m
    ELSE [slot   |-> Register(m, s, read, write),
          count  |-> m.count + 1,
          max_fd |-> IF s > m.max_fd THEN s ELSE m.max_fd]

AddSocketTimeout(m, s, at) ==
    IF CheckSocket(m, s) THEN SetSlot(m, s, [m.slot[s] EXCEPT !.time = at]) ELSE m

\* close_socketread() closes the descriptor of a registered slot only.
Releases(m, s) == CheckSocket(m, s) /\ m.slot[s].is_read > -1

\* The loop that looks for the next max_fd runs before the slot being closed
\* is wiped, so it still finds that slot.
HighestBusy(m) ==
    LET busy == Registered(m) \cup Writing(m)
    IN  IF busy = {} THEN -1
        ELSE CHOOSE i \in busy : \A j \in busy : j <= i

NewMaxFd(m, s) ==
    IF Releases(m, s) /\ s = m.max_fd THEN HighestBusy(m) ELSE m.max_fd

\* Mutants: the count drops for a slot that is already closed; the slot is
\* marked closed and not wiped.
CloseSocketReadCounts(m, s) ==
    IF ~CheckSocket(m, s) THEN m
    ELSE [slot |-> [m.slot EXCEPT ![s] = ClosedSlot], count |-> m.count - 1,
          max_fd |-> NewMaxFd(m, s)]

CloseSocketReadNoWipe(m, s) ==
    IF ~CheckSocket(m, s) THEN m
    ELSE [slot |-> [m.slot EXCEPT ![s].is_read = -1, ![s].is_write = -1],
          count |-> IF Releases(m, s) THEN m.count - 1 ELSE m.count,
          max_fd |-> NewMaxFd(m, s)]

\* Every slot that passes check_socket() is wiped, a closed one again.
CloseSocketRead(m, s) ==
    IF ~CheckSocket(m, s) THEN m
    ELSE [slot   |-> [m.slot EXCEPT ![s] = ClosedSlot],
          count  |-> IF Releases(m, s) THEN m.count - 1 ELSE m.count,
          max_fd |-> NewMaxFd(m, s)]

----------------------------------------------------------------------------
(* What a table looks like *)

SlotType(Infos, Handlers, Times) ==
    [is_read : Fd \cup {0, -1}, is_write : Fd \cup {0, -1}, info : Infos,
     func_read : Handlers, func_write : Handlers, time : Times]

TableType(m, Infos, Handlers, Times) ==
    m \in [slot   : [Fd -> SlotType(Infos, Handlers, Times)],
           count  : Int,
           max_fd : Fd \cup {0, -1}]

\* A slot in use holds its own number; one not in use has nothing that
\* scan_sockets would act on.
SlotsSound(m) ==
    \A s \in Fd :
        /\ m.slot[s].is_read \in {0, -1, s}
        /\ m.slot[s].is_write \in {0, -1, s}
        /\ m.slot[s].is_read # s =>
             /\ m.slot[s].is_write <= 0
             /\ m.slot[s].time = 0
             /\ m.slot[s].func_read = Nil /\ m.slot[s].func_write = Nil

CountSound(m) == m.count = Cardinality(Registered(m))

MaxSound(m) == \A s \in Registered(m) \cup Writing(m) : s <= m.max_fd

=============================================================================
