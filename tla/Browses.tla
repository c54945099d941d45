-------------------------------- MODULE Browses --------------------------------
(***************************************************************************)
(* /browse of another user, straight from his client or from the server    *)
(* (browse.c, files.c, napster.c): the two clients, the server between     *)
(* them and the connection they make.  Both clients run this program; what  *)
(* the server does is taken from what the program expects of it.            *)
(*                                                                         *)
(* A line on the connection is an item: a file is its number, 0 the empty    *)
(* line, and Word a line of one word.  One browse is made at a time, and one *)
(* connection.                                                              *)
(***************************************************************************)
EXTENDS Naturals, Sequences

CONSTANTS
    NShared,     \* the files the other user shares are 1 .. NShared
    PerTurn,     \* files that fill the 2 * BIG_BUFFER_SIZE bytes of one turn
    SendBuffer,  \* lines the connection holds
    MaxBrowses,  \* bound: browses begun
    Crowded,     \* whether the other client may write while the connection is full
    Rescans,     \* whether he may scan his files again while he is browsed
    Forgets      \* whether a user may be forgotten while a browse of him goes on

ASSUME BrowsesAssumption ==
    /\ {NShared, PerTurn, SendBuffer, MaxBrowses} \subseteq Nat \ {0}
    /\ {Crowded, Rescans, Forgets} \subseteq BOOLEAN

Shared == 1 .. NShared
Blank == 0
Word == NShared + 1
NoUser == [id |-> 0, files |-> [f \in Shared |-> 0], progress |-> FALSE, ended |-> FALSE]
NoConn == [func |-> "none", info |-> 0, cleanup |-> "none", toB |-> <<>>, toS |-> <<>>,
           serves |-> "none", location |-> 0, gen |-> 0, buffer |-> <<>>]

VARIABLES
    user,      \* the browsed user's NickStruct on server_list[].users
    timers,    \* timers of direct_browse_timeout
    inbox,     \* messages of the server to the user who browses ...
    asks,      \* ... and to the one who is browsed
    conn,      \* the connection, at both ends
    shares,    \* the other client: whether he runs, is firewalled and lets himself be browsed,
               \* and the generation of fserv_files
    made,      \* bound and history: browses begun, sources asked for the last one, and whether
               \* one was cut short
    forgotten      \* history: NickStructs forgotten

browseVars == <<user, timers, inbox, asks, conn, shares, made, forgotten>>

BrowsesInit ==
    /\ user = NoUser /\ timers = 0 /\ inbox = <<>> /\ asks = <<>> /\ conn = NoConn
    /\ shares \in [runs : {TRUE}, dataport : BOOLEAN, willing : BOOLEAN, gen : {0}]
    /\ made = [n |-> 0, sources |-> 0, cut |-> FALSE] /\ forgotten = {}

Open == conn.func \notin {"none", "closed"}
Served == conn.serves \notin {"none", "closed"}
Space == SendBuffer - Len(conn.toB)

----------------------------------------------------------------------------
(* The server *)

\* What it answers a CMDS_BROWSE: the files and the end, or that there is no such user.
Answer == IF shares.runs THEN [f \in 1 .. NShared + 1 |-> IF f \in Shared THEN <<"file", f>> ELSE <<"end">>]
          ELSE <<<<"nosuchnick">>>>

AskServer(box) ==
    /\ inbox' = box \o Answer
    /\ made' = [made EXCEPT !.sources = @ + 1]

----------------------------------------------------------------------------
(* The commands of the user who browses *)

\* A request for a direct browse is passed on, with an address if the other is firewalled.
browse(direct) ==
    /\ user = NoUser /\ ~ Open /\ made.n < MaxBrowses
    /\ user' = [NoUser EXCEPT !.id = made.n + 1, !.progress = TRUE]
    /\ IF direct
         THEN /\ timers' = timers + 1
              /\ inbox' = IF shares.runs THEN inbox ELSE Append(inbox, <<"nosuchnick">>)
              /\ asks' = IF shares.runs THEN Append(asks, "request") ELSE asks
              /\ made' = [n |-> made.n + 1, sources |-> 0, cut |-> FALSE]
         ELSE /\ inbox' = inbox \o Answer
              /\ made' = [n |-> made.n + 1, sources |-> 1, cut |-> FALSE]
              /\ UNCHANGED <<timers, asks>>
    /\ UNCHANGED <<conn, shares, forgotten>>

Forget == user' = NoUser /\ forgotten' = forgotten \cup {user.id}
MayForget == Forgets \/ (~ Open /\ timers = 0 /\ inbox = <<>> /\ asks = <<>>)

browse_clear ==
    /\ user # NoUser /\ MayForget
    /\ Forget
    /\ UNCHANGED <<timers, inbox, asks, conn, shares, made>>

\* 20 seconds after a direct request, if no file has come
direct_browse_timeout ==
    /\ timers > 0
    /\ timers' = timers - 1
    /\ IF user # NoUser /\ \A f \in Shared : user.files[f] = 0
         THEN AskServer(inbox) ELSE UNCHANGED <<inbox, made>>
    /\ UNCHANGED <<user, asks, conn, shares, forgotten>>

----------------------------------------------------------------------------
(* Messages of the server *)

add_to_browse_list(f) == user' = [user EXCEPT !.files[f] = @ + 1]

cmd_browse ==
    /\ Head(inbox)[1] = "file"
    /\ IF user = NoUser THEN UNCHANGED user ELSE add_to_browse_list(Head(inbox)[2])
    /\ inbox' = Tail(inbox) /\ UNCHANGED <<conn, made, forgotten>>

Ended(u) == IF u = NoUser THEN u ELSE [u EXCEPT !.progress = FALSE, !.ended = TRUE]
cmd_endbrowse == user' = Ended(user)

BrowseEnds ==
    /\ Head(inbox)[1] = "end"
    /\ cmd_endbrowse /\ inbox' = Tail(inbox) /\ UNCHANGED <<conn, made, forgotten>>

cmd_nosuchnick ==
    /\ Head(inbox)[1] = "nosuchnick" /\ (Open => Forgets)
    /\ IF user = NoUser THEN UNCHANGED <<user, forgotten>> ELSE Forget
    /\ inbox' = Tail(inbox) /\ UNCHANGED <<conn, made>>

\* The address of the other client: his data port is connected to, or refuses.
cmd_newbrowse ==
    /\ Head(inbox)[1] = "accept"
    /\ IF Head(inbox)[2] \* a port is given
         THEN /\ ~ Open /\ ~ Served
              /\ \/ UNCHANGED <<conn, made>>
                 \/ /\ shares.runs
                    /\ conn' = [NoConn EXCEPT !.func = "naplink_handlebrowse", !.info = user.id,
                                              !.cleanup = "browse_timeout", !.serves = "backlog"]
                    /\ made' = [made EXCEPT !.sources = @ + 1]
         ELSE UNCHANGED <<conn, made>>
    /\ inbox' = Tail(inbox) /\ UNCHANGED <<user, forgotten>>

cmd_newbrowse_error ==
    /\ Head(inbox)[1] = "error"
    /\ AskServer(Tail(inbox)) /\ UNCHANGED <<user, conn, forgotten>>

Message ==
    /\ inbox # <<>>
    /\ cmd_browse \/ BrowseEnds \/ cmd_nosuchnick \/ cmd_newbrowse \/ cmd_newbrowse_error
    /\ UNCHANGED <<timers, asks, shares>>

----------------------------------------------------------------------------
(* The connection at the end of the user who browses *)

CloseBrowse == conn' = [conn EXCEPT !.func = "closed", !.info = 0, !.cleanup = "none", !.toB = <<>>]
Took == [conn EXCEPT !.toB = Tail(@)]
AtEof == conn.toB = <<>> /\ conn.serves = "closed"

naplink_handlebrowse ==
    /\ conn.func = "naplink_handlebrowse"
    /\ \/ /\ conn.info = 0 \/ AtEof \* the third time it finds the end
          /\ CloseBrowse
       \/ /\ conn.info # 0 /\ conn.toB # <<>>
          /\ conn' = [Took EXCEPT !.func = "nap_browse_read", !.toS = Append(@, "GETLIST")]
    /\ UNCHANGED user

nap_browse_read ==
    /\ conn.func = "nap_browse_read"
    /\ \/ /\ AtEof
          /\ cmd_endbrowse /\ CloseBrowse
       \/ /\ conn.toB # <<>> /\ Head(conn.toB) = Blank
          /\ cmd_endbrowse /\ CloseBrowse
       \/ /\ conn.toB # <<>> /\ Head(conn.toB) = Word
          /\ conn' = [Took EXCEPT !.cleanup = "browse_timeout_error"] /\ UNCHANGED user
       \/ /\ conn.toB # <<>> /\ Head(conn.toB) \in Shared
          /\ IF conn.info = user.id THEN add_to_browse_list(Head(conn.toB)) ELSE UNCHANGED user
          /\ conn' = Took

\* A firewalled client pushes his list: the end of naplink_handleconnect that it meets
NaplinkHandleconnectPush ==
    /\ conn.func = "naplink_handleconnect" /\ conn.toB # <<>>
    /\ CloseBrowse /\ UNCHANGED user

\* 20 seconds without an answer
browse_timeout ==
    /\ conn.cleanup = "browse_timeout"
    /\ IF conn.info # 0 THEN AskServer(inbox) ELSE UNCHANGED <<inbox, made>>
    /\ CloseBrowse /\ UNCHANGED user

\* 180 seconds after the greeting
browse_timeout_error ==
    /\ conn.cleanup = "browse_timeout_error"
    /\ IF conn.info # 0 THEN cmd_endbrowse ELSE UNCHANGED user
    /\ made' = [made EXCEPT !.cut = TRUE]
    /\ CloseBrowse /\ UNCHANGED inbox

BrowserReads ==
    /\ \/ (naplink_handlebrowse \/ nap_browse_read \/ NaplinkHandleconnectPush)
            /\ UNCHANGED <<inbox, made>>
       \/ browse_timeout \/ browse_timeout_error
    /\ UNCHANGED <<timers, asks, shares, forgotten>>

----------------------------------------------------------------------------
(* The other client *)

\* Writes go nowhere when the browser has closed.
SentLines(c, items) == IF c.func = "closed" THEN c ELSE [c EXCEPT !.toB = @ \o items]
CloseServed(c) ==
    [c EXCEPT !.serves = "closed", !.location = 0, !.buffer = <<>>, !.toS = <<>>]

\* A write that fails, on a closed connection or a full one, ends it.
write_buffer(c) ==
    LET room == SendBuffer - Len(c.toB)
        n == IF Len(c.buffer) < room THEN Len(c.buffer) ELSE room
    IN  IF c.func = "closed" \/ room = 0 THEN CloseServed(c)
        ELSE [SentLines(c, SubSeq(c.buffer, 1, n)) EXCEPT !.buffer = SubSeq(@, n + 1, Len(@))]

\* The files of one turn; fb->location goes on to the next
Batch(c) ==
    LET last == IF c.location + PerTurn - 1 < NShared THEN c.location + PerTurn - 1 ELSE NShared
    IN  [c EXCEPT !.buffer = [k \in 1 .. last - c.location + 1 |-> c.location + k - 1],
                  !.location = last + 1]

direct_browse_handler(c) ==
    IF c.buffer # <<>> THEN write_buffer(c)
    ELSE IF c.location <= NShared THEN write_buffer(Batch(c))
    ELSE CloseServed(IF Len(c.toB) < SendBuffer THEN SentLines(c, <<Blank>>) ELSE c)

\* The FileBrowse with which the list is begun
ListBegun(c, lines) ==
    direct_browse_handler([SentLines(c, lines) EXCEPT !.serves = "direct_browse_handler",
                                                 !.location = 1, !.gen = shares.gen])

send_direct_browse(c) ==
    IF c.func = "closed" THEN CloseServed(c) ELSE ListBegun(c, <<Word, Word>>)

\* naplink_handlelink() greets; naplink_handleconnect() reads the request, or closes after
\* it has found the end ten times.
naplink_handlelink ==
    /\ conn.serves = "backlog"
    /\ conn' = SentLines([conn EXCEPT !.serves = "naplink_handleconnect"], <<Word>>)

naplink_handleconnect ==
    /\ conn.serves = "naplink_handleconnect"
    /\ \/ conn.toS # <<>> /\ conn' = send_direct_browse([conn EXCEPT !.toS = Tail(@)])
       \/ conn.toS = <<>> /\ conn.func = "closed" /\ conn' = CloseServed(conn)

BrowseServed ==
    /\ conn.serves = "direct_browse_handler"
    /\ Space > 0 \/ conn.func = "closed" \/ Crowded
    /\ conn' = direct_browse_handler(conn)

\* A request: the server answers for two clients that are both firewalled; a firewalled one
\* connects by himself, another one tells his address.
cmd_direct_browse ==
    /\ asks # <<>>
    /\ asks' = Tail(asks)
    /\ \/ shares.willing /\ shares.dataport
          /\ inbox' = Append(inbox, <<"accept", TRUE>>) /\ UNCHANGED conn
       \/ shares.willing /\ ~ shares.dataport /\ ~ Open /\ ~ Served
          /\ inbox' = Append(inbox, <<"accept", FALSE>>)
          /\ conn' = ListBegun([NoConn EXCEPT !.func = "naplink_handleconnect"], <<Word, Word>>)
       \/ ~ shares.dataport
          /\ inbox' = Append(inbox, <<"error">>) /\ UNCHANGED conn
       \/ ~ shares.willing /\ UNCHANGED <<inbox, conn>>

\* /share -reload and the like make a new list.
Rescan ==
    /\ shares.runs /\ shares.gen = 0
    /\ Rescans \/ conn.serves # "direct_browse_handler"
    /\ shares' = [shares EXCEPT !.gen = 1]
    /\ UNCHANGED <<asks, inbox, conn, made>>

Quits ==
    /\ shares.runs
    /\ shares' = [shares EXCEPT !.runs = FALSE]
    /\ conn' = IF conn.serves = "none" THEN conn ELSE CloseServed(conn)
    /\ asks' = <<>> /\ made' = [made EXCEPT !.cut = TRUE] /\ UNCHANGED inbox

OtherClient ==
    /\ \/ /\ shares.runs
          /\ \/ (naplink_handlelink \/ naplink_handleconnect \/ BrowseServed)
                  /\ UNCHANGED <<asks, inbox>>
             \/ cmd_direct_browse
          /\ UNCHANGED <<shares, made>>
       \/ Rescan \/ Quits
    /\ UNCHANGED <<user, timers, forgotten>>

BrowsesNext ==
    \/ \E direct \in BOOLEAN : browse(direct)
    \/ browse_clear \/ direct_browse_timeout \/ Message \/ BrowserReads \/ OtherClient

BrowsesSpec == BrowsesInit /\ [][BrowsesNext]_browseVars

----------------------------------------------------------------------------
(* Properties *)

BrowsesTypeOK ==
    /\ user \in [id : 0 .. MaxBrowses, files : [Shared -> Nat], progress : BOOLEAN, ended : BOOLEAN]
    /\ timers \in 0 .. MaxBrowses /\ forgotten \subseteq 1 .. MaxBrowses
    /\ conn.func \in {"none", "closed", "naplink_handlebrowse", "nap_browse_read",
                      "naplink_handleconnect"}
    /\ conn.serves \in {"none", "closed", "backlog", "naplink_handleconnect",
                        "direct_browse_handler"}
    /\ Len(conn.toB) <= SendBuffer + 2

BrowseIdle == inbox = <<>> /\ asks = <<>> /\ timers = 0 /\ ~ Open

\* A browse ends, and what the user sees then is what the other shares, each file
\* once, when it was asked for once and not cut short; the connection leads to no
\* user and no list that is gone.
BrowsesSound ==
    /\ BrowseIdle => ~ user.progress
    /\ user.ended /\ made.sources = 1 /\ ~ made.cut => \A f \in Shared : user.files[f] = 1
    /\ conn.info \notin forgotten
    /\ conn.serves = "direct_browse_handler" /\ conn.location <= NShared => conn.gen = shares.gen
=============================================================================
