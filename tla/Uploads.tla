------------------------------- MODULE Uploads -------------------------------
(***************************************************************************)
(* Uploads to the other user: source/send.c, and the listening socket of   *)
(* source/files.c 918-1010 through which the other client comes in.  The   *)
(* server relays the wish for a file (607), the file is opened and waits   *)
(* on transfer_struct until the other client connects and names it, or,    *)
(* when this client cannot be reached, until the server asks it to connect *)
(* and push (501).                                                         *)
(***************************************************************************)
EXTENDS Downloads

CONSTANT
    SendLimit    \* the less of the variables SEND_LIMIT and MAX_SENDS_NICK, which
                 \* count the same with one other user; 0 for no limit

ASSUME SendLimitAssumption == SendLimit \in Nat

\* cmd_filerequest(): a file that is shared, of which no upload to this user
\* is on the list already.
\* Mutant: the limit counts downloads.
FileRequestCounts(k) ==
    /\ Find(mem, k, "send") = Nil
    /\ SendLimit = 0 \/ FilesInProgress(mem, "get") < SendLimit
    /\ \E c \in Cell \ mem.live, opened \in BOOLEAN :
         /\ opened \/ "unopened" \in Happens
         /\ mem' = AddToTransferList(
                       Allocate(mem, c, [NewFile(k, "send") EXCEPT !.write = opened]), c)
    /\ UNCHANGED <<asked, limit>>

CmdFilerequest(k) ==
    /\ Find(mem, k, "send") = Nil
    /\ SendLimit = 0 \/ FilesInProgress(mem, "send") < SendLimit
    /\ \E c \in Cell \ mem.live, opened \in BOOLEAN :
         /\ opened \/ "unopened" \in Happens
         /\ mem' = AddToTransferList(
                       Allocate(mem, c, [NewFile(k, "send") EXCEPT !.write = opened]), c)
    /\ UNCHANGED <<asked, limit>>

\* cmd_accepterror(): the other client could not connect to this one.
CmdAccepterror(k) ==
    /\ "accept" \in Happens
    /\ LET c == Find(mem, k, "send")
           w == CloseFile(Break(mem, c), c)
       IN  /\ c # Nil
           /\ mem' = Finish(w, mem.gf[c].socket)
    /\ UNCHANGED <<asked, limit>>

----------------------------------------------------------------------------
(* The other client connects *)

\* naplink_handlelink()
\* Mutant: the connection accepted is not registered.
NaplinkHandlelinkUnread ==
    /\ Reading("naplink_handlelink") # {}
    /\ \E s \in FreeFd(mem) : mem' = Opened(mem, s)
    /\ UNCHANGED <<asked, limit>>

\* The greeting cannot be written: what is closed was never registered, so
\* close_socketread does nothing and the descriptor stays open.
Ungreeted(s) == "ungreeted" \in Happens /\ mem' = CloseSock(Opened(mem, s), s)

NaplinkHandlelink ==
    /\ Reading("naplink_handlelink") # {}
    /\ \E s \in FreeFd(mem) :
         \/ mem' = AddRead(Opened(mem, s), s, "naplink_handleconnect")
         \/ Ungreeted(s)
    /\ UNCHANGED <<asked, limit>>

\* nap_firewall_start(): greeted over a connection made for a push.
FirewallStart(s) ==
    LET w == SetRead(mem, s, "nap_firewall_start")
    IN  IF Info(w, s) = Nil THEN mem' = CloseSock(w, s)
        ELSE \/ mem' = SetRead(w, s, "nap_firewall_start1")
             \/ "lost" \in Happens /\ mem' = Finish(w, s)

\* naplink_handleconnect(): the other side's first bytes choose the handler.
NaplinkHandleconnect(s) ==
    /\ s \in Reading("naplink_handleconnect")
    /\ \/ FirewallStart(s)
       \/ /\ Info(mem, s) = Nil \/ "lost" \in Happens
          /\ \/ mem' = SetRead(mem, s, "napfile_read")
             \/ mem' = SetRead(mem, s, "nap_firewall_get")
             \/ mem' = CloseSock(mem, s)
    /\ UNCHANGED <<asked, limit>>

----------------------------------------------------------------------------
(* Sending *)

\* napfile_sendfile() with nothing left to send, or an error.  As long as
\* there is more to send it leaves everything here as it is.
EndOfFile(w, s, c) == Tell(Finish(CloseFile(Break(w, c), c), s), "send", -1)

\* What napfile_sendfile() may leave of the world w.
SendFile(w, s) ==
    LET c == Info(w, s)
    IN  IF c = Nil THEN {Finish(w, s)}
        ELSE IF w.gf[c].deleted
        THEN {CloseFile(w, c), CloseSock(CloseFile(w, c), s)}
        ELSE IF w.gf[c].write THEN {w, EndOfFile(w, s, c)}
        ELSE {EndOfFile(w, s, c)}

NapfileSendfile(s) ==
    /\ s \in Reading("napfile_sendfile")
    /\ mem' \in SendFile(mem, s)
    /\ UNCHANGED <<asked, limit>>

\* s->func_write = s->func_read = f
SetBoth(w, s, f) ==
    [SetRead(w, s, f) EXCEPT !.sock_manager = WantWrite(@, s, f)]

\* napfile_read(), the first time: the name of the file and an offset.
Serve(s, c) ==
    LET drop == Finish(CloseFile(Break(mem, c), c), s)
    IN  \/ /\ ~mem.gf[c].write
           /\ mem' = Finish([Break(mem, c) EXCEPT !.gf[c].socket = s], s)
       \/ /\ mem.gf[c].write
          /\ \/ "offset" \in Happens /\ mem' = drop
             \/ mem.gf[c].socket # -1 /\ mem' = drop
             \/ /\ mem.gf[c].socket = -1
                /\ mem' = SetBoth(SetInfo(Tell([mem EXCEPT !.gf[c].socket = s],
                                               "send", 1), s, c),
                                  s, "napfile_read")

NapfileRead(s) ==
    /\ s \in Reading("napfile_read")
    /\ LET c == Info(mem, s)
       IN  IF c = Nil
           THEN \/ mem' = Finish(mem, s)
                \/ \E k \in Key :
                     LET d == Find(mem, k, "send")
                     IN  /\ d # Nil
                         /\ mem.gf[d].socket = -1 \/ "again" \in Happens
                         /\ Serve(s, d)
           ELSE mem' \in SendFile(SetBoth([mem EXCEPT !.gf[c].started = TRUE],
                                          s, "napfile_sendfile"), s)
    /\ UNCHANGED <<asked, limit>>

----------------------------------------------------------------------------
(* Pushing *)

\* cmd_firewall_request(): the info is set before the socket is registered.
PushConnected(w, s, c) ==
    LET old == w.transfer_struct
        w1  == [SetInfo([Opened(w, s) EXCEPT !.gf[c].socket = s], s, c)
                   EXCEPT !.gf[c].next = old, !.transfer_struct = c]
    IN  AddRead(IF old = Nil THEN w1 ELSE [w1 EXCEPT !.gf[old].prev = c],
                s, "naplink_handleconnect")

CmdFirewallRequest(k) ==
    /\ "push" \in Happens
    /\ LET c == Find(mem, k, "send")
           w == Break(mem, c)
       IN  /\ c # Nil
           /\ mem.gf[c].socket = -1 \/ "again" \in Happens
           /\ \E s \in FreeFd(mem) :
                \/ mem' = PushConnected(w, s, c)
                \/ /\ "refused" \in Happens
                   /\ mem' = Finish(SetInfo([Opened(CloseFile(w, c), s)
                                                EXCEPT !.gf[c].socket = s], s, c), s)
    /\ UNCHANGED <<asked, limit>>

\* nap_firewall_start1(): the offset the other client wants.
NapFirewallStart1(s) ==
    /\ s \in Reading("nap_firewall_start1")
    /\ LET c == Info(mem, s)
       IN  IF c = Nil THEN mem' = CloseSock(mem, s)
           ELSE \/ mem' = Finish(CloseFile(Break(mem, c), c), s)
                \/ mem' \in SendFile(SetBoth([mem EXCEPT !.gf[c].started = TRUE],
                                             s, "napfile_sendfile"), s)
    /\ UNCHANGED <<asked, limit>>

=============================================================================
