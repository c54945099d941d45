---------------------------- MODULE SocketManager ----------------------------
(***************************************************************************)
(* The socket manager as the main loop drives it: source/server.c 54-411,  *)
(* the descriptor bookkeeping of source/newio.c 600-671 below it and the   *)
(* pass over the ready descriptors of io() in source/main.c 780-968.       *)
(*                                                                         *)
(* One turn of io() selects, runs the handlers of the terminal and of the  *)
(* server (pc = "dispatch"), then walks the table once (scan_sockets): for *)
(* each descriptor the read handler, the write handler and the timeout.    *)
(* Any handler may register, close, time out or start writing on any       *)
(* descriptor, which changes the table under the walk.                     *)
(***************************************************************************)
EXTENDS SocketTable

CONSTANT
    MaxTime      \* bound: the clock stops there

ASSUME MaxTimeAssumption == MaxTime \in Nat

VARIABLES
    sock_manager,   \* the table
    kernel,         \* the descriptors open in the kernel
    readables,      \* newio.c: the descriptors a select waits on
    global_max_fd,  \* newio.c: the highest of them
    now,            \* the program's clock, read once per turn
    pc,             \* where the turn is
    i,              \* the loop variable of scan_sockets / close_all_sockets
    rd, wr,         \* what select reported, as the walk reads it
    owed            \* history: reported ready, not served, still registered

io == <<readables, global_max_fd>>
walk == <<i, rd, wr>>
vars == <<sock_manager, kernel, io, now, pc, walk, owed>>

Running == {"dispatch", "read_handler", "write_handler", "cleanup_handler"}
PC == Running \cup {"idle", "read", "write", "timeout", "closing", "exit"}

\* Slot 0 is the terminal's descriptor, which is never registered: a walk
\* over the table starts, for its purposes, at 1.
First == 1

\* Handlers are told apart only by whether there is one.
Handler == "handler"

TypeOK ==
    /\ TableType(sock_manager, {Nil}, {Nil, Handler}, 0 .. MaxTime + 1)
    /\ kernel \subseteq Fd
    /\ readables \subseteq Fd
    /\ global_max_fd \in Fd \cup {-1}
    /\ now \in 0 .. MaxTime
    /\ pc \in PC
    /\ i \in 1 .. FdSetSize
    /\ rd \subseteq Fd /\ wr \subseteq Fd /\ owed \subseteq Fd

Init ==
    /\ sock_manager = NoSockets
    /\ kernel = {}
    /\ readables = {}
    /\ global_max_fd = -1
    /\ now = 0
    /\ pc = "idle"
    /\ i = First
    /\ rd = {} /\ wr = {} /\ owed = {}

----------------------------------------------------------------------------
(* newio.c *)

NewOpen(s) ==
    /\ readables' = readables \cup {s}
    /\ global_max_fd' = IF s > global_max_fd THEN s ELSE global_max_fd

\* The descriptors at or below s that are still waited on.
StillOpenBelow(s) == {d \in readables \ {s} : d < s}

NextHighest(s) ==
    IF s # global_max_fd THEN global_max_fd
    ELSE IF StillOpenBelow(s) = {} THEN -1
    ELSE CHOOSE d \in StillOpenBelow(s) : \A e \in StillOpenBelow(s) : e <= d

\* Mutant: the descriptor stays in the set select waits on.
NewCloseNoClear(s) ==
    /\ readables' = readables
    /\ global_max_fd' = NextHighest(s)
    /\ kernel' = kernel \ {s}

NewClose(s) ==
    /\ readables' = readables \ {s}
    /\ global_max_fd' = NextHighest(s)
    /\ kernel' = kernel \ {s}

----------------------------------------------------------------------------
(* What a handler may do *)

\* socket()/accept() returns the lowest descriptor that is not open, which
\* the handler registers.
Open ==
    /\ pc \in Running
    /\ \E s \in Fd \ kernel :
         /\ \A d \in Fd \ kernel : s <= d
         /\ kernel' = kernel \cup {s}
         /\ sock_manager' = AddSocketRead(sock_manager, s, Handler, Nil)
         /\ NewOpen(s)
    /\ UNCHANGED <<now, pc, walk, owed>>

\* A file, or a descriptor another part of the program waits on by itself
\* (a server's connection, the pipe of a worker thread): new_open() only.
OpenUnregistered ==
    /\ pc \in Running
    /\ \E s \in Fd \ kernel :
         /\ \A d \in Fd \ kernel : s <= d
         /\ kernel' = kernel \cup {s}
         /\ \/ NewOpen(s)
            \/ UNCHANGED io
    /\ UNCHANGED <<sock_manager, now, pc, walk, owed>>

CloseUnregistered ==
    /\ pc \in Running
    /\ \E s \in kernel \ Registered(sock_manager) :
         IF s \in readables THEN NewClose(s)
         ELSE kernel' = kernel \ {s} /\ UNCHANGED io
    /\ UNCHANGED <<sock_manager, now, pc, walk, owed>>

DoClose(s) ==
    /\ sock_manager' = CloseSocketRead(sock_manager, s)
    /\ IF Releases(sock_manager, s) THEN NewClose(s) ELSE UNCHANGED <<io, kernel>>
    /\ owed' = owed \ {s}

\* close_socketread() is called with stale descriptors too.
Close ==
    /\ pc \in Running
    /\ \E s \in Fd : DoClose(s)
    /\ UNCHANGED <<now, pc, walk>>

\* An upload or a browse asks to be called when its socket can take more.
StartWriting ==
    /\ pc \in Running
    /\ \E s \in Registered(sock_manager) :
         sock_manager' = WantWrite(sock_manager, s, Handler)
    /\ UNCHANGED <<kernel, io, now, pc, walk, owed>>

\* Only a browse sets a limit, right after it registered the descriptor (browse.c:87,
\* browse.c:351): add_sockettimeout() itself asks only that s is a possible descriptor.
SetTimeout ==
    /\ pc \in Running
    /\ \E s \in Registered(sock_manager), at \in {0, now + 1} :
         sock_manager' = AddSocketTimeout(sock_manager, s, at)
    /\ UNCHANGED <<kernel, io, now, pc, walk, owed>>

----------------------------------------------------------------------------
(* One turn of io() *)

\* set_socket_read() and set_socketread's counterpart for writing.
Polled == IF sock_manager.count = 0 THEN {}
          ELSE {s \in Registered(sock_manager) : s <= sock_manager.max_fd}
PolledWrite == IF sock_manager.count = 0 THEN {}
               ELSE {s \in Writing(sock_manager) : s <= sock_manager.max_fd}

\* The kernel reports some of the descriptors up to global_max_fd.
Select ==
    /\ pc = "idle"
    /\ rd' \in SUBSET {s \in Polled : s <= global_max_fd}
    /\ wr' \in SUBSET {s \in PolledWrite : s <= global_max_fd}
    /\ owed' = rd'
    /\ now' \in {t \in {now, now + 1} : t <= MaxTime}
    /\ pc' = "dispatch"
    /\ UNCHANGED <<sock_manager, kernel, io, i>>

StartScan ==
    /\ pc = "dispatch"
    /\ i' = First
    /\ IF sock_manager.count = 0
       THEN pc' = "idle" /\ rd' = {} /\ wr' = {} /\ owed' = {}
       ELSE pc' = "read" /\ UNCHANGED <<rd, wr, owed>>
    /\ UNCHANGED <<sock_manager, kernel, io, now>>

\* The loops test the bound afresh for each slot: i < max_fd + 1.
\* Mutant: the highest descriptor is left out.
InTableShort == i < sock_manager.max_fd

InTable == i <= sock_manager.max_fd

Slot == sock_manager.slot[i]

ScanRead ==
    /\ pc = "read" /\ InTable
    /\ IF i \in rd /\ Slot.is_read > 0
       THEN pc' = "read_handler" /\ owed' = owed \ {i}
       ELSE pc' = "write" /\ UNCHANGED owed
    /\ UNCHANGED <<sock_manager, kernel, io, now, walk>>

ScanWrite ==
    /\ pc = "write"
    /\ pc' = IF i \in wr /\ Slot.is_write > 0 /\ Slot.func_write # Nil
             THEN "write_handler" ELSE "timeout"
    /\ UNCHANGED <<sock_manager, kernel, io, now, walk, owed>>

HandlerReturns ==
    /\ \/ pc = "read_handler"  /\ pc' = "write"   /\ i' = i
       \/ pc = "write_handler" /\ pc' = "timeout" /\ i' = i
       \/ pc = "cleanup_handler" /\ pc' = "read"  /\ i' = i + 1
    /\ UNCHANGED <<sock_manager, kernel, io, now, rd, wr, owed>>

Expired == i \in Fd /\ Slot.time # 0 /\ now >= Slot.time

\* A slot whose time has come is closed, or handed to its cleanup function.
ScanTimeout ==
    /\ pc = "timeout"
    /\ \/ ~Expired /\ pc' = "read" /\ i' = i + 1
          /\ UNCHANGED <<sock_manager, kernel, io, owed>>
       \/ Expired /\ DoClose(i) /\ pc' = "read" /\ i' = i + 1
       \/ Expired /\ pc' = "cleanup_handler" /\ i' = i
          /\ UNCHANGED <<sock_manager, kernel, io, owed>>
    /\ UNCHANGED <<now, rd, wr>>

ScanEnds ==
    /\ pc = "read" /\ ~InTable
    /\ pc' = "idle"
    /\ i' = First /\ rd' = {} /\ wr' = {}
    /\ UNCHANGED <<sock_manager, kernel, io, now, owed>>

----------------------------------------------------------------------------
(* nap_exit() *)

Quit ==
    /\ pc \in Running \cup {"idle"}
    /\ i' = First /\ pc' = IF sock_manager.count = 0 THEN "exit" ELSE "closing"
    /\ UNCHANGED <<sock_manager, kernel, io, now, rd, wr, owed>>

\* Mutant: the loop gives up at the first slot that is not registered.
CloseAllStepGivesUp ==
    /\ pc = "closing"
    /\ IF InTable /\ i \in Registered(sock_manager)
       THEN i' = i + 1 /\ pc' = pc /\ DoClose(i)
       ELSE pc' = "exit" /\ UNCHANGED <<sock_manager, kernel, io, owed, i>>
    /\ UNCHANGED <<now, rd, wr>>

CloseAllStep ==
    /\ pc = "closing"
    /\ IF InTable
       THEN /\ i' = i + 1
            /\ pc' = pc
            /\ IF i \in Registered(sock_manager) THEN DoClose(i)
               ELSE UNCHANGED <<sock_manager, kernel, io, owed>>
       ELSE pc' = "exit" /\ UNCHANGED <<sock_manager, kernel, io, owed, i>>
    /\ UNCHANGED <<now, rd, wr>>

HandlerStep == \/ Open \/ OpenUnregistered \/ CloseUnregistered \/ Close
               \/ StartWriting \/ SetTimeout

ScanStep == \/ StartScan \/ ScanRead \/ ScanWrite \/ HandlerReturns
            \/ ScanTimeout \/ ScanEnds

Next == HandlerStep \/ Select \/ ScanStep \/ Quit \/ CloseAllStep

Spec == Init /\ [][Next]_vars

----------------------------------------------------------------------------
(* Properties *)

\* sock_manager.count, which every accessor tests before it looks at a slot,
\* is the number of registered slots (server.c 303, 350).
CountExact == CountSound(sock_manager)

\* No registered descriptor is beyond the bounds the loops run to: max_fd
\* for the polling and the walk (server.c 280, 390), global_max_fd for the
\* select itself (newio.c 594).
WithinBounds ==
    /\ MaxSound(sock_manager)
    /\ \A s \in Registered(sock_manager) \cup Writing(sock_manager) :
         s \in readables
    /\ \A s \in readables : s <= global_max_fd

\* The table never holds a descriptor the kernel has closed, so a number
\* handed out again cannot be mistaken for the connection it used to be.
RegisteredIsOpen ==
    /\ Registered(sock_manager) \subseteq kernel
    /\ readables \subseteq kernel

\* What is left of a connection in the table cannot act: a slot that is not
\* registered has no write interest, no timeout and no handler (server.c
\* 362: the memset of close_socketread).
ClosedIsInert == SlotsSound(sock_manager)

\* A pass serves every connection select reported ready, unless a handler
\* closed it first: closing and opening descriptors in the middle of the
\* walk (and so moving max_fd) never makes it skip one.
NothingSkipped ==
    /\ pc = "idle" => owed = {}
    /\ pc \in {"read", "read_handler", "write", "write_handler", "timeout",
               "cleanup_handler"} =>
         \A s \in owed : s >= i /\ s <= sock_manager.max_fd

\* nap_exit closes every registered socket (server.c 366-375).
AllClosedAtExit == pc = "exit" => Registered(sock_manager) = {}
=============================================================================
