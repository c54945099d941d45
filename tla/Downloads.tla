------------------------------ MODULE Downloads ------------------------------
(***************************************************************************)
(* The transfers of TekNap as they lie in memory, and the downloads from   *)
(* one other user.                                                         *)
(*                                                                         *)
(* The first half holds the GetFile records, the doubly linked lists they  *)
(* are on (transfer_struct, finished_struct, the download queue of a user) *)
(* and the functions of source/files.c and source/list.c that move them    *)
(* about.  Pointers are modelled as pointers: a record holds `next' and    *)
(* `prev', a freed record keeps its contents until the cell is allocated   *)
(* again, and a function follows whatever the pointers say.                *)
(*                                                                         *)
(* A world w is a record of the memory and of the descriptors:             *)
(*   gf, live                the cells and which of them are allocated     *)
(*   transfer_struct,        the heads of the three lists                  *)
(*   finished_struct, Queued                                               *)
(*   sock_manager, kernel    the table of SocketTable, the open descriptors*)
(*   gets, sends             218s less 219s, 220s less 221s sent so far    *)
(* and a C function is an operator from a world to a world.                *)
(*                                                                         *)
(* The second half is source/files.c from the command that asks for a file *)
(* to the last byte.  A file is asked for (203), the server answers with   *)
(* an address (204), and the client connects there, or asks for a push     *)
(* (500) and waits when the address has no port.  Each action is one run   *)
(* of a handler.  What the user types, what the server and the other       *)
(* client send and which of its requests the operating system turns down   *)
(* is chosen at each step; the set Happens names the choices outside the   *)
(* ordinary course that a run includes.                                    *)
(***************************************************************************)
EXTENDS SocketTable

CONSTANTS
    Cell,       \* the GetFile records memory has room for
    Key,        \* what a transfer is of: a file of the other user
    SentBound,  \* bound: the counts of updates sent stop there
    Happens,    \* see Behaviours
    AskBound    \* bound: requests for one file the server has yet to answer

ASSUME CellAssumption == IsFiniteSet(Cell) /\ Nil \notin Cell \cup Key
ASSUME SentBoundAssumption == SentBound \in Nat

(* In the field write, TRUE stands for an open file; in count, for a download
   that waits for the size the uploader sends first; in started, for a
   starttime other than 0; in port, for a port to connect to; in realfile, for
   the name of the file to write, which comes with the address. *)
GetFile == [key : Key \cup {Nil}, kind : {"get", "send"}, socket : Fd \cup {-1},
            write : BOOLEAN, started : BOOLEAN, count : BOOLEAN,
            deleted : BOOLEAN, port : BOOLEAN, realfile : BOOLEAN,
            next : Cell \cup {Nil}, prev : Cell \cup {Nil}]

NewFile(k, kind) ==
    [key |-> k, kind |-> kind, socket |-> -1, write |-> FALSE, started |-> FALSE,
     count |-> FALSE, deleted |-> FALSE, port |-> FALSE, realfile |-> FALSE,
     next |-> Nil, prev |-> Nil]

\* The n-th record from head on, following next.
At(w, head, n) ==
    LET at[j \in 0 .. n] ==
            IF j = 0 THEN head
            ELSE IF at[j - 1] = Nil THEN Nil ELSE w.gf[at[j - 1]].next
    IN  at[n]

Depth == Cardinality(Cell)

\* The records a walk from head meets, and the places where it meets them.
On(w, head) == {At(w, head, n) : n \in 0 .. Depth} \ {Nil}

Places(w, head, c) == {n \in 0 .. Depth : At(w, head, n) = c}

Acyclic(w, head) == At(w, head, Depth) = Nil

Matches(w, k, kind) ==
    {c \in On(w, w.transfer_struct) : w.gf[c].key = k /\ w.gf[c].kind = kind}

\* find_in_getfile() without remove: the first record that matches, or NULL.
FirstOf(w, head, S) ==
    IF S = {} THEN Nil
    ELSE CHOOSE c \in S : \A d \in S : \E n \in Places(w, head, c) :
             \A p \in Places(w, head, d) : n <= p

Find(w, k, kind) == FirstOf(w, w.transfer_struct, Matches(w, k, kind))

FilesInProgress(w, kind) ==
    Cardinality({c \in On(w, w.transfer_struct) : w.gf[c].kind = kind})

LastOf(w, head) == CHOOSE c \in On(w, head) : w.gf[c].next = Nil

\* Appends c to the list at head: the new cells and the new head.
LinkLast(w, head, c) ==
    IF head = Nil
    THEN [gf |-> [w.gf EXCEPT ![c].next = Nil, ![c].prev = Nil], head |-> c]
    ELSE LET last == LastOf([w EXCEPT !.gf[c].next = Nil], head)
         IN  [gf |-> [w.gf EXCEPT ![c].next = Nil, ![last].next = c, ![c].prev = last],
              head |-> head]

AddToTransferList(w, c) ==
    LET new == LinkLast(w, w.transfer_struct, c)
    IN  [w EXCEPT !.gf = new.gf, !.transfer_struct = new.head]

\* break_from_list(): follows the record's own pointers, and trusts them.
Unlink(gf, head, c) ==
    LET p  == gf[c].prev
        n  == gf[c].next
        h  == IF p # Nil THEN head ELSE n
        g1 == IF p # Nil THEN [gf EXCEPT ![p].next = n] ELSE gf
        g2 == IF n # Nil THEN [g1 EXCEPT ![n].prev = p] ELSE g1
        g3 == IF h # Nil THEN [g2 EXCEPT ![h].prev = Nil] ELSE g2
    IN  [gf |-> [g3 EXCEPT ![c].prev = Nil, ![c].next = Nil], head |-> h]

\* Mutant: the neighbour behind keeps pointing at the record taken out.
BreakNoBack(w, c) ==
    LET p == w.gf[c].prev
        n == w.gf[c].next
    IN  [w EXCEPT !.gf = IF p # Nil THEN [w.gf EXCEPT ![p].next = n] ELSE w.gf,
                  !.transfer_struct = IF p # Nil THEN w.transfer_struct ELSE n]

Break(w, c) ==
    LET new == Unlink(w.gf, w.transfer_struct, c)
    IN  [w EXCEPT !.gf = new.gf, !.transfer_struct = new.head]

BreakFromQueue(w, c) ==
    LET new == Unlink(w.gf, w.Queued, c)
    IN  [w EXCEPT !.gf = new.gf, !.Queued = new.head]

----------------------------------------------------------------------------
(* Descriptors and messages *)

FreeFd(w) == Fd \ w.kernel

\* Mutant: the slot is wiped and the descriptor stays open.
CloseSockWipes(w, s) ==
    [w EXCEPT !.sock_manager = CloseSocketRead(w.sock_manager, s)]

CloseSock(w, s) ==
    [w EXCEPT !.sock_manager = CloseSocketRead(w.sock_manager, s),
              !.kernel = IF Releases(w.sock_manager, s) THEN w.kernel \ {s} ELSE w.kernel]

Info(w, s) == GetSocketInfo(w.sock_manager, s)

SetInfo(w, s, c) == [w EXCEPT !.sock_manager = SetSocketInfo(w.sock_manager, s, c)]

\* A descriptor the kernel has just handed out, registered or not.
Opened(w, s) == [w EXCEPT !.kernel = w.kernel \cup {s}]

AddRead(w, s, read) ==
    [w EXCEPT !.sock_manager = AddSocketRead(w.sock_manager, s, read, Nil)]

SetRead(w, s, read) == [w EXCEPT !.sock_manager.slot[s].func_read = read]

Clip(n) == IF n > SentBound THEN SentBound ELSE IF n < -SentBound THEN -SentBound ELSE n

\* CMDS_UPDATE_GET1 / CMDS_UPDATE_GET, CMDS_UPDATE_SEND1 / CMDS_UPDATE_SEND.
Tell(w, kind, d) ==
    IF kind = "get" THEN [w EXCEPT !.gets = Clip(w.gets + d)]
                    ELSE [w EXCEPT !.sends = Clip(w.sends + d)]

----------------------------------------------------------------------------
(* The end of a transfer *)

PutOnFinished(w, c) ==
    [w EXCEPT !.gf[c].next = w.finished_struct, !.finished_struct = c]

\* nap_finished_file(): acts on whatever transfer the descriptor's slot holds
\* now.  The caller is to have taken it off transfer_struct.
Finish(w, s) ==
    LET c  == Info(w, s)
        w1 == [PutOnFinished(w, c) EXCEPT !.gf[c].deleted = TRUE]
    IN  IF c = Nil THEN CloseSock(w, s)
        ELSE IF w.gf[c].deleted THEN w
        ELSE [CloseSock(w1, s) EXCEPT !.gf[c].socket = -1]

CloseFile(w, c) == [w EXCEPT !.gf[c].write = FALSE]

\* clean_sockets(): frees what is on finished_struct, one record a turn of
\* its loop.  Memory freed keeps its contents.
FreeHead(w) ==
    LET c == w.finished_struct
    IN  [CloseSock(w, w.gf[c].socket) EXCEPT
            !.gf[c].socket = -1, !.gf[c].write = FALSE,
            !.live = w.live \ {c}, !.finished_struct = w.gf[c].next]

CleanSockets(w) ==
    LET run[n \in 0 .. Depth] ==
            IF n = 0 THEN w
            ELSE IF run[n - 1].finished_struct = Nil THEN run[n - 1]
            ELSE FreeHead(run[n - 1])
    IN  run[Depth]

----------------------------------------------------------------------------
(* Allocation *)

Allocate(w, c, new) == [w EXCEPT !.gf[c] = new, !.live = w.live \cup {c}]

\* Memory before the first allocation is of no interest: any record will do.
NoTransfers ==
    [gf |-> [c \in Cell |-> NewFile(Nil, "get")], live |-> {},
     transfer_struct |-> Nil, finished_struct |-> Nil, Queued |-> Nil,
     sock_manager |-> NoSockets, kernel |-> {}, gets |-> 0, sends |-> 0]

----------------------------------------------------------------------------
(* Asking for a file *)

Behaviours ==
    {"request",   \* /request, which puts its record at the head of the list
     "again",     \* a file is asked for twice, by the user or by the other client
     "refused",   \* connect() fails
     "ungreeted", \* the greeting of a connection accepted cannot be written
     "unopened",  \* a file cannot be opened
     "lost",      \* a connection made for a push ends, or does not begin with "1"
     "push",      \* the server relays the other client's wish for a push (501)
     "offset",    \* a download is to start beyond the end of the file
     "accept",    \* the server reports an accept error (626)
     "offer",     \* the other user offers a file by a message, /dccget
     "queue",     \* the other user's limit on uploads is reached (620)
     "gone",      \* the server does not know the other user any more (404)
     "timeout",   \* clean_queue times entries out
     "command"}   \* /delete, /queue -remove

ASSUME HappensAssumption == Happens \subseteq Behaviours
ASSUME AskBoundAssumption == AskBound \in Nat

VARIABLES
    mem,     \* the world: memory and descriptors
    asked,   \* for each file, the 203s the server has yet to answer
    limit    \* the NickStruct's limit; 0 until the server tells one

dvars == <<mem, asked, limit>>

Live(kind) == {c \in mem.live : mem.gf[c].kind = kind}

\* The sockets whose next read goes to the function f.
Reading(f) == {s \in Registered(mem.sock_manager) : mem.sock_manager.slot[s].func_read = f}

\* A file not being fetched, nor asked for.
Fresh(k) == /\ asked[k] = 0
            /\ \A c \in Live("get") : mem.gf[c].key # k

Ask(k) == /\ asked[k] < AskBound
          /\ Fresh(k) \/ "again" \in Happens
          /\ asked' = [asked EXCEPT ![k] = asked[k] + 1]

\* create_and_do_get(), for /get; and the record /request makes, whose
\* successor does not learn of it.
GetFile_(k) ==
    /\ Ask(k)
    /\ \E c \in Cell \ mem.live :
         mem' = AddToTransferList(Allocate(mem, c, NewFile(k, "get")), c)
    /\ UNCHANGED limit

Request(k) ==
    /\ "request" \in Happens
    /\ Ask(k)
    /\ \E c \in Cell \ mem.live :
         mem' = [Allocate(mem, c, [NewFile(k, "get") EXCEPT !.next = mem.transfer_struct])
                    EXCEPT !.transfer_struct = c]
    /\ UNCHANGED limit

----------------------------------------------------------------------------
(* Connecting *)

\* The worlds create_and_get() may return: connected, or not.  A descriptor
\* that was never registered is not closed (close_socketread), and a slot
\* never used does not take the info set before.
Refused(w, c) ==
    {Finish(SetInfo([Opened(w, s) EXCEPT !.gf[c].socket = s], s, c), s) : s \in FreeFd(w)}

\* Mutant: the info is set before the slot is taken.
ConnectedEarly(w, c) ==
    {AddToTransferList(
        [AddRead(SetInfo(Opened(w, s), s, c), s, "nap_getfilestart")
            EXCEPT !.gf[c].socket = s, !.gf[c].count = TRUE, !.gf[c].kind = "get"], c)
     : s \in FreeFd(w)}

Connected(w, c) ==
    {AddToTransferList(
        [SetInfo(AddRead(Opened(w, s), s, "nap_getfilestart"), s, c)
            EXCEPT !.gf[c].socket = s, !.gf[c].count = TRUE, !.gf[c].kind = "get"], c)
     : s \in FreeFd(w)}

CreateAndGet(w, c) ==
    Connected(w, c) \cup (IF "refused" \in Happens THEN Refused(w, c) ELSE {})

\* cmd_getfile(): the address, from the server.  The record is looked for on
\* transfer_struct, then in the queue, and taken off.
Waiting(k) ==
    LET c == Find(mem, k, "get")
        q == {d \in On(mem, mem.Queued) : mem.gf[d].key = k}
    IN  IF c # Nil THEN [c |-> c, w |-> Break(mem, c)]
        ELSE LET d == FirstOf(mem, mem.Queued, q)
             IN  [c |-> d, w |-> IF d = Nil THEN mem ELSE BreakFromQueue(mem, d)]

CmdGetFile(k) ==
    /\ asked[k] > 0
    /\ asked' = [asked EXCEPT ![k] = asked[k] - 1]
    /\ LET c == Waiting(k).c
           w == [Waiting(k).w EXCEPT !.gf[c].write = FALSE, !.gf[c].realfile = TRUE]
       IN  IF c = Nil THEN mem' = mem
           ELSE \/ mem' \in CreateAndGet([w EXCEPT !.gf[c].port = TRUE], c)
                \/ mem' = AddToTransferList([w EXCEPT !.gf[c].socket = -1,
                                                      !.gf[c].port = FALSE], c)
    /\ UNCHANGED limit

\* An answer that names no address: the user is away, or has no such file.
NotAnswered(k) ==
    /\ asked[k] > 0
    /\ asked' = [asked EXCEPT ![k] = asked[k] - 1]
    /\ UNCHANGED <<mem, limit>>

\* check_dcc_msg(): a file offered is fetched at once when ALLOW_DCC is on and
\* ALLOW_DCC_OVERWRITE off; else it is put on the list, with its port.  /dccget
\* takes the user's first download, offered or not, off the list again.
DccOffer(k) ==
    /\ "offer" \in Happens
    /\ \E c \in Cell \ mem.live :
         LET w == Allocate(mem, c, [NewFile(k, "get") EXCEPT !.port = TRUE,
                                                             !.realfile = TRUE])
         IN  mem' = AddToTransferList(w, c) \/ mem' \in CreateAndGet(w, c)
    /\ UNCHANGED <<asked, limit>>

DccGet ==
    /\ "offer" \in Happens
    /\ LET gets == {c \in On(mem, mem.transfer_struct) : mem.gf[c].kind = "get"}
           c == FirstOf(mem, mem.transfer_struct, gets)
       IN  /\ c # Nil
           /\ IF mem.gf[c].port THEN mem' \in CreateAndGet(Break(mem, c), c)
              ELSE mem' = Break(mem, c)
    /\ UNCHANGED <<asked, limit>>

----------------------------------------------------------------------------
(* Reading *)

\* nap_getfilestart(): the one byte the other client greets with.
NapGetfilestart(s) ==
    /\ s \in Reading("nap_getfilestart")
    /\ mem' = IF Info(mem, s) # Nil THEN SetRead(mem, s, "nap_getfile")
              ELSE CloseSock(mem, s)
    /\ UNCHANGED <<asked, limit>>

\* nap_getfile(), while it waits for the size: a size, with the output file
\* opened or not; or something that is no size.
ReadHeader(s, c) ==
    \/ mem' = Tell([mem EXCEPT !.gf[c].count = FALSE, !.gf[c].started = TRUE,
                               !.gf[c].write = TRUE], "get", 1)
    \/ /\ "unopened" \in Happens
       /\ mem' = Finish(Break([mem EXCEPT !.gf[c].count = FALSE,
                                          !.gf[c].started = TRUE], c), s)
    \/ mem' = Finish(Break(mem, c), s)

\* The last of the data, the end of the connection or an error: each ends the
\* transfer.  Any other data leave everything here as it is.
\* Mutants: the record is not taken off the list first; it is taken off and
\* only its connection closed; the server is not told.
LastOfDataKept(s, c) == mem' = Finish(Tell(mem, "get", -1), s)

LastOfDataDropped(s, c) == mem' = CloseSock(Tell(Break(mem, c), "get", -1), s)

LastOfDataUntold(s, c) == mem' = Finish(Break(mem, c), s)

LastOfData(s, c) == mem' = Finish(Tell(Break(mem, c), "get", -1), s)

NapGetfile(s) ==
    /\ s \in Reading("nap_getfile")
    /\ LET c == Info(mem, s)
       IN  IF c = Nil THEN mem' = Tell(CloseSock(mem, s), "get", -1)
           ELSE /\ ~mem.gf[c].deleted
                /\ IF mem.gf[c].count THEN ReadHeader(s, c) ELSE LastOfData(s, c)
    /\ UNCHANGED <<asked, limit>>

\* A download the other client was asked to push, and has not begun to.
Expected(c) == mem.gf[c].realfile /\ ~mem.gf[c].port /\ mem.gf[c].socket = -1

\* nap_firewall_get(): the other client pushes; it names the file, then waits
\* for the offset.  The record found need not be one that waits for a push.
Push(s, c) ==
    LET w == [mem EXCEPT !.gf[c].count = FALSE, !.gf[c].started = TRUE,
                         !.gf[c].socket = s]
    IN  \/ /\ mem.gf[c].realfile
           /\ mem' = SetInfo(SetRead(Tell([w EXCEPT !.gf[c].write = TRUE], "get", 1),
                                     s, "nap_getfile"), s, c)
        \/ /\ "unopened" \in Happens \/ ~mem.gf[c].realfile
           /\ mem' = Finish(Break(w, c), s)

NapFirewallGet(s) ==
    /\ s \in Reading("nap_firewall_get")
    /\ \/ mem' = Finish(mem, s)
       \/ mem' = CloseSock(mem, s)
       \/ \E k \in Key :
            LET c == Find(mem, k, "get")
            IN  /\ c # Nil
                /\ Expected(c) \/ "again" \in Happens
                /\ Push(s, c)
    /\ UNCHANGED <<asked, limit>>

=============================================================================
