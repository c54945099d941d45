------------------------------ MODULE Transfers ------------------------------
(***************************************************************************)
(* All that happens to the transfers with one other user: the handlers of  *)
(* Downloads and Uploads, the user's commands, the queue of downloads the  *)
(* other user's limit puts off, and the two sweeps of the main loop,       *)
(* clean_queue and clean_sockets.  A handler runs to its end before the    *)
(* next one starts (the program is one thread here); in which order the    *)
(* handlers of a turn run, and how many turns pass before a sweep, is open.*)
(***************************************************************************)
EXTENDS Uploads

CONSTANT
    Limits    \* the limits the other user may have on uploads to one user

ASSUME LimitsAssumption == Limits \subseteq Nat

\* The data port is listened on before any transfer (server.c 902).
Listener == 1

Init ==
    /\ mem = AddRead(Opened(NoTransfers, Listener), Listener, "naplink_handlelink")
    /\ asked = [k \in Key |-> 0]
    /\ limit = 0

----------------------------------------------------------------------------
(* What the user and the sweeps take off the list *)

\* nap_del() for one entry.  The server is told of the end of a transfer
\* whether or not it had been told of a beginning.
Drop(w, c) ==
    LET w1 == Tell(Break(w, c), w.gf[c].kind, -1)
    IN  IF w.gf[c].socket > 0 THEN Finish(w1, w.gf[c].socket)
        ELSE PutOnFinished(w1, c)

\* What step leaves of the world w after each record of the list at head, as it
\* was when the walk began.
Walk(w, head, Step(_, _)) ==
    LET run[n \in 0 .. Depth] ==
            IF n = 0 THEN w
            ELSE IF At(w, head, n - 1) = Nil THEN run[n - 1]
            ELSE Step(run[n - 1], At(w, head, n - 1))
    IN  run[Depth]

\* ... for the entries S, and for all.
DropThose(w, S) ==
    Walk(w, w.transfer_struct, LAMBDA v, c : IF c \in S THEN Drop(v, c) ELSE v)

DropEach(w) == [Walk(w, w.transfer_struct, Drop) EXCEPT !.transfer_struct = Nil]

NapDel ==
    /\ "command" \in Happens
    /\ \/ \E S \in SUBSET On(mem, mem.transfer_struct) \ {{}} : mem' = DropThose(mem, S)
       \/ mem' = DropEach(mem)
    /\ UNCHANGED <<asked, limit>>

\* clean_queue(): an entry that has not begun within TRANSFER_TIMEOUT.
\* Mutants: an entry with a connection is left alone; a finished one stays on
\* the list.
ExpireUnconnected(w, c, old) ==
    IF c \notin old \/ w.gf[c].started \/ w.gf[c].socket > 0 THEN w
    ELSE PutOnFinished(CloseFile(Break(w, c), c), c)

ExpireKept(w, c, old) ==
    IF c \notin old \/ w.gf[c].started THEN w
    ELSE IF w.gf[c].socket > 0
    THEN Finish(CloseFile(Tell(w, w.gf[c].kind, -1), c), w.gf[c].socket)
    ELSE PutOnFinished(CloseFile(Break(w, c), c), c)

Expire(w, c, old) ==
    IF c \notin old \/ w.gf[c].started THEN w
    ELSE IF w.gf[c].socket > 0
    THEN Finish(CloseFile(Tell(Break(w, c), w.gf[c].kind, -1), c), w.gf[c].socket)
    ELSE PutOnFinished(CloseFile(Break(w, c), c), c)

\* ... and then a queued download, the last of the list, when the user has
\* room for one more.
\* Mutant: one place is kept free.
AskNextWary(w) ==
    IF w.Queued # Nil /\ limit # 0 /\ FilesInProgress(w, "get") + 1 < limit
    THEN [c |-> LastOf(w, w.Queued),
          w |-> AddToTransferList(BreakFromQueue(w, LastOf(w, w.Queued)),
                                  LastOf(w, w.Queued))]
    ELSE [c |-> Nil, w |-> w]

AskNext(w) ==
    IF w.Queued # Nil /\ limit # 0 /\ FilesInProgress(w, "get") < limit
    THEN [c |-> LastOf(w, w.Queued),
          w |-> AddToTransferList(BreakFromQueue(w, LastOf(w, w.Queued)),
                                  LastOf(w, w.Queued))]
    ELSE [c |-> Nil, w |-> w]

ExpireThose(w, old) == Walk(w, w.transfer_struct, LAMBDA v, c : Expire(v, c, old))

Swept(old) == AskNext(ExpireThose(mem, old))

Askable(c) == c # Nil => asked[mem.gf[c].key] < AskBound

CleanQueueOf(old) ==
    LET n == Swept(old)
    IN  /\ Askable(n.c)
        /\ mem' = n.w
        /\ asked' = IF n.c = Nil THEN asked ELSE [asked EXCEPT ![mem.gf[n.c].key] = @ + 1]
        /\ UNCHANGED limit

\* The sets of entries a sweep may find old enough; TRANSFER_TIMEOUT 0 is off.
OldEnough == IF "timeout" \in Happens THEN SUBSET On(mem, mem.transfer_struct) ELSE {{}}

CleanQueue == \E old \in OldEnough : CleanQueueOf(old)

CleanQueueWith(c) == \E old \in OldEnough : c \in old /\ CleanQueueOf(old)

\* At the end of a turn in which a descriptor was ready.
RunCleanSockets ==
    /\ mem.finished_struct # Nil
    /\ mem' = CleanSockets(mem)
    /\ UNCHANGED <<asked, limit>>

----------------------------------------------------------------------------
(* The queue *)

\* cmd_toomanyfiles(): the answer to a 203 when the user sends no more.
\* Mutant: the refusals are counted and the limit told is not looked at.
CmdToomanyfilesCounts(k) ==
    /\ "queue" \in Happens
    /\ asked[k] > 0
    /\ asked' = [asked EXCEPT ![k] = asked[k] - 1]
    /\ limit' = limit + 1
    /\ UNCHANGED mem

CmdToomanyfiles(k) ==
    /\ "queue" \in Happens
    /\ asked[k] > 0
    /\ asked' = [asked EXCEPT ![k] = asked[k] - 1]
    /\ limit' \in Limits
    /\ LET c == Find(mem, k, "get")
           w == Break(mem, c)
           new == LinkLast(w, w.Queued, c)
       IN  mem' = IF c = Nil THEN mem
                  ELSE [w EXCEPT !.gf = new.gf, !.Queued = new.head]

\* /queue -remove and -clear: the descriptor of a queued record is -1.
Dequeue(w, c) == Finish(BreakFromQueue(w, c), w.gf[c].socket)

DequeueThose(w, S) ==
    Walk(w, w.Queued, LAMBDA v, c : IF c \in S THEN Dequeue(v, c) ELSE v)

QueueRemove ==
    /\ {"queue", "command"} \subseteq Happens
    /\ \E S \in SUBSET On(mem, mem.Queued) \ {{}} : mem' = DequeueThose(mem, S)
    /\ UNCHANGED <<asked, limit>>

\* cmd_nosuchnick(): the user's NickStruct goes, and its queue with it.
CmdNosuchnick ==
    /\ "gone" \in Happens
    /\ mem.Queued # Nil
    /\ mem' = [mem EXCEPT !.live = mem.live \ On(mem, mem.Queued), !.Queued = Nil]
    /\ limit' = 0
    /\ UNCHANGED asked

----------------------------------------------------------------------------

Download == \/ \E k \in Key : GetFile_(k) \/ Request(k) \/ CmdGetFile(k)
                              \/ NotAnswered(k) \/ DccOffer(k) \/ CmdToomanyfiles(k)
            \/ DccGet
            \/ \E s \in Fd : NapGetfilestart(s) \/ NapGetfile(s) \/ NapFirewallGet(s)

Upload == \/ \E k \in Key : CmdFilerequest(k) \/ CmdAccepterror(k) \/ CmdFirewallRequest(k)
          \/ \E s \in Fd : NapfileRead(s) \/ NapfileSendfile(s) \/ NapFirewallStart1(s)

Link == NaplinkHandlelink \/ \E s \in Fd : NaplinkHandleconnect(s)

Sweep == NapDel \/ CleanQueue \/ RunCleanSockets \/ QueueRemove \/ CmdNosuchnick

Next == Download \/ Upload \/ Link \/ Sweep

Spec == Init /\ [][Next]_dvars

(* The main loop comes round: both sweeps run again and again, and an entry
   that does not begin is in time older than TRANSFER_TIMEOUT.  For clean_queue
   these are WF_dvars(CleanQueue) and WF_dvars(CleanQueueWith(c)) for each c
   with ENABLED written out as Due, which TLC evaluates far faster.  Nothing
   is assumed of the user, the server and the other client. *)
Due(old) == Swept(old).w # mem /\ Askable(Swept(old).c)

FairSpec ==
    /\ Spec
    /\ []<>(\A old \in OldEnough : ~Due(old)) \/ []<><<CleanQueue>>_dvars
    /\ \A c \in Cell : \/ []<>(\A old \in OldEnough : c \in old => ~Due(old))
                       \/ []<><<CleanQueueWith(c)>>_dvars
    /\ WF_dvars(RunCleanSockets)

----------------------------------------------------------------------------
(* Properties *)

Handlers == {"naplink_handlelink", "naplink_handleconnect", "nap_getfilestart",
             "nap_getfile", "nap_firewall_get", "napfile_read", "napfile_sendfile",
             "nap_firewall_start", "nap_firewall_start1"}

TypeOK ==
    /\ mem.gf \in [Cell -> GetFile]
    /\ mem.live \subseteq Cell
    /\ {mem.transfer_struct, mem.finished_struct, mem.Queued} \subseteq Cell \cup {Nil}
    /\ TableType(mem.sock_manager, Cell \cup {Nil}, Handlers \cup {Nil}, {0})
    /\ mem.kernel \subseteq Fd
    /\ mem.gets \in -SentBound .. SentBound /\ mem.sends \in -SentBound .. SentBound
    /\ asked \in [Key -> 0 .. AskBound]
    /\ limit \in Limits \cup {0}

Transferring == On(mem, mem.transfer_struct)
Finished == On(mem, mem.finished_struct)
InQueue == On(mem, mem.Queued)

\* What the list links as neighbours are neighbours both ways.
Linked(head) ==
    /\ head # Nil => mem.gf[head].prev = Nil
    /\ \A c \in On(mem, head) :
         mem.gf[c].next # Nil => mem.gf[mem.gf[c].next].prev = c

\* transfer_struct and the queue stay doubly linked lists, which
\* break_from_list (list.c 251) relies on to take the right record out.
ListsSound == Linked(mem.transfer_struct) /\ Linked(mem.Queued)

\* A record is on one list only: what is on finished_struct will be freed.
OneList ==
    /\ Transferring \cap Finished = {}
    /\ Transferring \cap InQueue = {}
    /\ Finished \cap InQueue = {}

Infos == {Info(mem, s) : s \in Registered(mem.sock_manager)} \ {Nil}

\* No list and no socket in use leads to a record that has been freed
\* (clean_sockets, files.c 399-421).
NoDangling ==
    /\ Transferring \cup Finished \cup InQueue \subseteq mem.live
    /\ Infos \subseteq mem.live

\* What the handlers may follow: the lists are linked both ways, have no record
\* in common, and neither they nor the sockets lead to a freed record.
MemorySound == ListsSound /\ OneList /\ NoDangling

\* Every record allocated can still be reached from a list: /glist shows it
\* or a sweep will free it.
NoneLost == mem.live \subseteq Transferring \cup Finished \cup InQueue

\* A transfer's descriptor is a registered one whose slot leads back to the
\* transfer, so the sweeps close the right connection.
SocketsMatch ==
    /\ \A c \in Transferring :
         mem.gf[c].socket # -1 =>
             /\ mem.gf[c].socket \in Registered(mem.sock_manager)
             /\ Info(mem, mem.gf[c].socket) = c
    /\ \A s, t \in Registered(mem.sock_manager) :
         Info(mem, s) # Nil /\ s # t => Info(mem, s) # Info(mem, t)

\* A connection made to push a file leads to the file when the other client
\* greets, so that nap_firewall_start has something to send (send.c 457-464;
\* doc/napster.txt 1434-1437).
PushReady ==
    \A s \in Reading("naplink_handleconnect"), c \in Transferring :
        mem.gf[c].socket = s => Info(mem, s) = c

\* Every open descriptor is known to the socket manager.
NoLeakedSocket == mem.kernel = Registered(mem.sock_manager)

\* When connections break as well, one handler alone leaves a descriptor open
\* that the socket manager does not know: the one whose greeting of a connection
\* accepted cannot be written (files.c 1003-1007).  No other path does, whatever
\* ends, fails to open, is offered or asked for twice.
Unknown == mem.kernel \ Registered(mem.sock_manager)

OnlyGreetingLeaks == [][Unknown' \subseteq Unknown \/ \E s \in Fd : Ungreeted(s)]_mem

\* The server's idea of how many transfers are under way is right.
Active(kind) == {c \in Transferring :
                    /\ mem.gf[c].kind = kind
                    /\ mem.gf[c].write /\ mem.gf[c].socket # -1}

ServerCounts ==
    /\ mem.gets = Cardinality(Active("get"))
    /\ mem.sends = Cardinality(Active("send"))

\* No more uploads than the limit are accepted.
SendsLimited == SendLimit # 0 => Cardinality(Live("send") \cap Transferring) <= SendLimit

\* A transfer that never begins does not stay: it ends, is put off or begins
\* (clean_queue, files.c 1012-1058).
NoneStuck ==
    \A c \in Cell :
        (c \in Transferring /\ ~mem.gf[c].started) ~>
            (c \notin Transferring \/ mem.gf[c].started)

\* While downloads are put off and none is under way, one is asked for again
\* (files.c 1059-1083; teknap-help/2_Napster/queue 10-11).
QueueMoves ==
    (InQueue # {} /\ Transferring \cap Live("get") = {}) ~>
        (InQueue = {} \/ Transferring \cap Live("get") # {})

----------------------------------------------------------------------------
(* The promise kept *)

Phases ==
    LET queued == InQueue
        ended  == Finished
        Phase(c) ==
            IF c \notin mem.live THEN "none"
            ELSE IF c \in queued THEN "put_off"
            ELSE IF c \in ended THEN "ended"
            ELSE IF mem.gf[c].socket = -1 THEN "wanted"
            ELSE IF mem.gf[c].kind = "get" /\ mem.gf[c].count THEN "connected"
            ELSE "moving"
    IN  [c \in Cell |-> Phase(c)]

Life == INSTANCE TransferLife WITH
            Transfer <- Cell, Connection <- Fd, None <- -1, phase <- Phases,
            over <- [c \in Cell |-> IF c \in mem.live THEN mem.gf[c].socket ELSE -1]

\* Behind the lists and pointers, every transfer lives the life of
\* TransferLife: one connection of its own, one end, no way back.
LifeKept == Life!Spec

=============================================================================
