------------------------------ MODULE ServerLink ------------------------------
(***************************************************************************)
(* Connections to servers, and the channels of the windows they belong to: *)
(* connecting and logging in, losing and closing a connection, the timer   *)
(* that connects again, /server, /disconnect, /join and /part (server.c,   *)
(* napster.c, window.c, commands.c).                                       *)
(*                                                                         *)
(* A window keeps its channels on three lists: nchannels, those it is in;  *)
(* waiting_channels, asked for; oldchannels, to be asked for at the next   *)
(* login.  Lists are sets here.  Windows are numbered in the order in      *)
(* which they are gone through.                                            *)
(***************************************************************************)
EXTENDS Naturals, Sequences, FiniteSets, FiniteSetsExt, SequencesExt

CONSTANTS
    NWindows,    \* the number of windows
    Servers,     \* server_list
    Channels,    \* names of channels
    None,        \* -1, where a server is expected
    LossAnytime, \* whether connections end while joins are unanswered
    ConnectsTwice, \* whether the user asks for a server connected to already
    MaxCommands, \* bound: commands of the user
    MaxLosses    \* bound: connections lost

ASSUME ServerLinkAssumption ==
    /\ NWindows \in Nat \ {0} /\ None \notin Servers /\ IsFiniteSet(Channels)
    /\ LossAnytime \in BOOLEAN /\ ConnectsTwice \in BOOLEAN
    /\ MaxCommands \in Nat /\ MaxLosses \in Nat

Windows == 1 .. NWindows

VARIABLES
    wins,     \* server, last_server and the lists of each window
    cur,      \* current_window
    up,       \* servers connected to
    accepting, \* servers that accept a connection now
    timer,    \* pending auto_reconnect timers of each server
    requests, \* joins and parts on their way to each server
    replies,  \* messages on their way back
    member,   \* what each server thinks we are in
    wanted,   \* history: channels joined that the user has not left
    lost,     \* history: windows whose connection was lost and not made again
    commands, losses

linkVars == <<wins, cur, up, accepting, timer, requests, replies, member, wanted, lost,
              commands, losses>>

Messages == {"join", "part"} \X Channels

LinkTypeOK ==
    /\ wins \in [Windows -> [server : Servers \cup {None}, last : Servers \cup {None},
                             nchannels : SUBSET Channels, waiting : SUBSET Channels,
                             old : SUBSET Channels]]
    /\ cur \in Windows /\ up \subseteq Servers
    /\ timer \in [Servers -> 0 .. MaxLosses]
    /\ requests \in [Servers -> Seq(Messages)] /\ replies \in [Servers -> Seq(Messages)]
    /\ member \in [Servers -> SUBSET Channels] /\ wanted \subseteq Channels
    /\ commands \in 0 .. MaxCommands /\ losses \in 0 .. MaxLosses

ServerLinkTypeOK == LinkTypeOK /\ accepting \subseteq Servers /\ lost \subseteq Windows

ServerLinkInit ==
    /\ wins = [w \in Windows |-> [server |-> None, last |-> None, nchannels |-> {},
                                  waiting |-> {}, old |-> {}]]
    /\ cur = 1 /\ up = {} /\ accepting = Servers /\ timer = [s \in Servers |-> 0]
    /\ requests = [s \in Servers |-> <<>>] /\ replies = requests
    /\ member = [s \in Servers |-> {}] /\ wanted = {} /\ lost = {}
    /\ commands = 0 /\ losses = 0

----------------------------------------------------------------------------
(* Windows: operators on wins *)

\* Mutant: the channels of a window that loses its server are not kept.
ForgetChannels(ws, s) ==
    [w \in Windows |->
        IF ws[w].server = s
          THEN [ws[w] EXCEPT !.server = None, !.last = s, !.nchannels = {}]
          ELSE ws[w]]

\* The loop over windows in close_server(): the channels are for the next login.
CloseServer(ws, s) ==
    [w \in Windows |->
        IF ws[w].server = s
          THEN [ws[w] EXCEPT !.server = None, !.last = s, !.old = ws[w].nchannels,
                             !.nchannels = {}]
          ELSE ws[w]]

\* send_hotlist() asks for the channels of this server's windows and of those
\* without a server.
Asking(ws, s) == {w \in Windows : ws[w].server \in {None, s}}

SendHotlist(ws, s) ==
    [w \in Windows |->
        IF w \in Asking(ws, s) THEN [ws[w] EXCEPT !.waiting = ws[w].old, !.old = {}] ELSE ws[w]]

Joins(ws, s) == {<<"join", c>> : c \in UNION {ws[w].old : w \in Asking(ws, s)}}

\* set_window_server(-1, s, 1): -1 is no window, so the current one is meant, and
\* all windows of its server come along.
SetWindowServer(ws, s) ==
    [w \in Windows |->
        IF ws[w].server = ws[cur].server THEN [ws[w] EXCEPT !.server = s] ELSE ws[w]]

\* login_to_server()
Login(ws, s) == SetWindowServer(SendHotlist(ws, s), s)

Taken(ws, w, s) == [ws EXCEPT ![w].server = s, ![w].last = None]

\* The last loop of auto_reconnect()
TakeThoseOf(ws, s) ==
    [w \in Windows |-> IF ws[w].last = s THEN [ws[w] EXCEPT !.server = s, !.last = None]
                                         ELSE ws[w]]

----------------------------------------------------------------------------
(* Connections *)

\* The connections of these servers are gone, and what was on its way.
Cut(ss) ==
    /\ requests' = [s \in Servers |-> IF s \in ss THEN <<>> ELSE requests[s]]
    /\ replies' = [s \in Servers |-> IF s \in ss THEN <<>> ELSE replies[s]]
    /\ member' = [s \in Servers |-> IF s \in ss THEN {} ELSE member[s]]

\* A new connection, on which the joins go out, after a cut of ss.
Open(ws, s, ss) ==
    /\ requests' = [t \in Servers |-> IF t = s THEN SetToSeq(Joins(ws, s))
                                      ELSE IF t \in ss THEN <<>> ELSE requests[t]]
    /\ replies' = [t \in Servers |-> IF t \in ss \cup {s} THEN <<>> ELSE replies[t]]
    /\ member' = [t \in Servers |-> IF t \in ss \cup {s} THEN {} ELSE member[t]]

\* Joins are answered before a connection ends, unless the run says otherwise.
MayEnd(s) ==
    LossAnytime \/ \A w \in Windows : wins[w].server = s => wins[w].waiting = {}

Command == commands < MaxCommands /\ commands' = commands + 1

\* A server goes out of reach, or comes back.
ChangeReach(s) ==
    /\ accepting' = IF s \in accepting THEN accepting \ {s} ELSE accepting \cup {s}
    /\ UNCHANGED <<wins, cur, up, timer, requests, replies, member, wanted, lost,
                   commands, losses>>

OnServer(s) == {w \in Windows : wins[w].server = s}

\* do_server() finds the connection ended: close_server(), start_autoconnect().
Lost(s) ==
    /\ s \in up /\ MayEnd(s) /\ losses < MaxLosses
    /\ losses' = losses + 1
    /\ up' = up \ {s}
    /\ wins' = CloseServer(wins, s)
    /\ lost' = lost \cup OnServer(s)
    /\ timer' = [timer EXCEPT ![s] = @ + 1]
    /\ Cut({s})
    /\ UNCHANGED <<cur, accepting, wanted, commands>>

Lacking(s) == {w \in Windows : wins[w].server = None /\ wins[w].last = s}

\* The windows that have a server now are lost no more.
Found == lost' = {w \in lost : wins'[w].server = None}

\* auto_reconnect(), when it finds a window and a connection
AutoReconnect(s) ==
    /\ timer[s] > 0 /\ Lacking(s) # {} /\ s \in accepting
    /\ timer' = [timer EXCEPT ![s] = @ - 1]
    /\ up' = up \cup {s}
    /\ wins' = TakeThoseOf(Taken(Login(wins, s), Min(Lacking(s)), s), s)
    /\ Found
    /\ Open(wins, s, {})
    /\ UNCHANGED <<cur, accepting, wanted, commands, losses>>

\* Otherwise the timer is added again; mutant: it is not.
GiveUpTimer(s) == timer' = [timer EXCEPT ![s] = @ - 1]
AddTimerAgain(s) == UNCHANGED timer

RetryLater(s) ==
    /\ timer[s] > 0
    /\ Lacking(s) = {} \/ s \notin accepting
    /\ AddTimerAgain(s)
    /\ UNCHANGED <<wins, cur, up, accepting, requests, replies, member, wanted, lost,
                   commands, losses>>

\* /server s in the current window, whose own connection is closed if no other
\* window is on it.  A second connection to s takes the place of the first.
Left ==
    LET s == wins[cur].server
        alone == \A w \in Windows \ {cur} : wins[w].server # s
    IN IF s = None THEN [ws |-> wins, closed |-> {}]
       ELSE IF alone
         THEN [ws |-> [CloseServer(wins, s) EXCEPT ![cur].last = None], closed |-> {s}]
       ELSE [ws |-> [wins EXCEPT ![cur].last = s, ![cur].server = None], closed |-> {}]

WindowServer(s) ==
    /\ Command
    /\ wins[cur].server = None \/ MayEnd(wins[cur].server)
    /\ s \in up \ Left.closed => ConnectsTwice
    /\ \/ /\ s \in accepting
          /\ wins' = Taken(Login(Left.ws, s), cur, s)
          /\ up' = (up \ Left.closed) \cup {s}
          /\ Open(Left.ws, s, Left.closed)
       \/ /\ s \notin accepting
          /\ wins' = Left.ws
          /\ up' = up \ Left.closed
          /\ Cut(Left.closed)
    /\ Found
    /\ UNCHANGED <<cur, accepting, timer, wanted, losses>>

\* /disconnect, server_disconnect()
Disconnect_ ==
    /\ Command
    /\ wins[cur].server # None /\ MayEnd(wins[cur].server)
    /\ wins' = CloseServer(wins, wins[cur].server)
    /\ up' = up \ {wins[cur].server}
    /\ Cut({wins[cur].server})
    /\ UNCHANGED <<cur, accepting, timer, wanted, lost, losses>>

\* Another window becomes the current one.
SwitchWindow ==
    /\ Command
    /\ cur' \in Windows \ {cur}
    /\ UNCHANGED <<wins, up, accepting, timer, requests, replies, member, wanted, lost, losses>>

----------------------------------------------------------------------------
(* Channels.  A command works for the server of the current window. *)

\* send_ncommand(); without a server nothing is sent.
SendNcommand(s, m) ==
    requests' = IF s = None THEN requests ELSE [requests EXCEPT ![s] = Append(@, m)]

\* joincmd(): a channel that a window of the server is in moves to this window;
\* otherwise it is asked for, add_waiting_channel().
Joincmd(c) ==
    LET s == wins[cur].server
        In == {w \in OnServer(s) : c \in wins[w].nchannels}
    IN /\ Command
       /\ IF In # {}
            THEN /\ wins' = [w \in Windows |->
                      [wins[w] EXCEPT !.nchannels =
                          IF w = cur THEN @ \cup {c} ELSE IF w = Min(In) THEN @ \ {c} ELSE @]]
                 /\ UNCHANGED requests
            ELSE /\ wins' = IF s = None THEN [wins EXCEPT ![cur].old = @ \cup {c}]
                                        ELSE [wins EXCEPT ![cur].waiting = @ \cup {c}]
                 /\ SendNcommand(s, <<"join", c>>)
       /\ UNCHANGED <<cur, up, accepting, timer, replies, member, wanted, lost, losses>>

\* partcmd() of a channel that is listed in this window, or else in one of the
\* server's.
Partcmd(c) ==
    LET s == wins[cur].server
        In == {w \in OnServer(s) : c \in wins[w].nchannels}
        w == IF c \in wins[cur].nchannels THEN cur ELSE Min(In)
    IN /\ Command
       /\ c \in wins[cur].nchannels \/ In # {}
       /\ wins' = [wins EXCEPT ![w].nchannels = @ \ {c}]
       /\ SendNcommand(s, <<"part", c>>)
       /\ wanted' = wanted \ {c}
       /\ UNCHANGED <<cur, up, accepting, timer, replies, member, lost, losses>>

Received(s, kind, c) == replies[s] # <<>> /\ Head(replies[s]) = <<kind, c>>

\* Mutant: the acknowledged channel goes to the current window and stays on the
\* list it waited on.
JoinedHere(s, c) ==
    wins' = [wins EXCEPT ![cur].nchannels = @ \cup {c}]

\* The first window of the server that is in the channel or waits for it decides
\* where it goes; when there is none it goes to the current one.
AddJoined(s, c) ==
    LET Knows == {w \in OnServer(s) : c \in wins[w].nchannels \cup wins[w].waiting}
        w == IF Knows = {} THEN cur ELSE Min(Knows)
    IN wins' = IF Knows # {} /\ c \in wins[w].nchannels THEN wins
               ELSE [wins EXCEPT ![w].waiting = IF Knows = {} THEN @ ELSE @ \ {c},
                                 ![w].nchannels = @ \cup {c}]

\* 405
CmdJoined(s, c) ==
    /\ Received(s, "join", c)
    /\ AddJoined(s, c)
    /\ wanted' = wanted \cup {c}
    /\ replies' = [replies EXCEPT ![s] = Tail(@)]
    /\ UNCHANGED <<cur, up, accepting, timer, requests, member, lost, commands, losses>>

\* 401
CmdPartchannel(s, c) ==
    LET In == {w \in OnServer(s) : c \in wins[w].nchannels}
    IN /\ Received(s, "part", c)
       /\ wins' = IF In = {} THEN wins ELSE [wins EXCEPT ![Min(In)].nchannels = @ \ {c}]
       /\ wanted' = IF In = {} THEN wanted ELSE wanted \ {c}
       /\ replies' = [replies EXCEPT ![s] = Tail(@)]
       /\ UNCHANGED <<cur, up, accepting, timer, requests, member, lost, commands, losses>>

\* The server: a join is acknowledged or refused, a part acknowledged; a user may
\* be parted unasked.
ServerAnswers(s) ==
    /\ requests[s] # <<>>
    /\ requests' = [requests EXCEPT ![s] = Tail(@)]
    /\ LET c == Head(requests[s])[2] IN
       \/ /\ Head(requests[s])[1] = "join"
          /\ member' = [member EXCEPT ![s] = @ \cup {c}]
          /\ replies' = [replies EXCEPT ![s] = Append(@, <<"join", c>>)]
       \/ /\ Head(requests[s])[1] = "join" /\ c \notin member[s]
          /\ UNCHANGED <<member, replies>>
       \/ /\ Head(requests[s])[1] = "part"
          /\ member' = [member EXCEPT ![s] = @ \ {c}]
          /\ replies' = [replies EXCEPT ![s] = Append(@, <<"part", c>>)]
    /\ UNCHANGED <<wins, cur, up, accepting, timer, wanted, lost, commands, losses>>

----------------------------------------------------------------------------

ServerLinkNext ==
    \/ \E s \in Servers : \/ Lost(s) \/ AutoReconnect(s) \/ RetryLater(s) \/ WindowServer(s)
                          \/ ServerAnswers(s) \/ ChangeReach(s)
                          \/ \E c \in Channels : CmdJoined(s, c) \/ CmdPartchannel(s, c)
    \/ \E c \in Channels : Joincmd(c) \/ Partcmd(c)
    \/ Disconnect_ \/ SwitchWindow

\* A pending timer runs in the end; whether a server accepts is up to the server.
ServerLinkFairness == \A s \in Servers : WF_linkVars(AutoReconnect(s))

ServerLinkSpec == ServerLinkInit /\ [][ServerLinkNext]_linkVars /\ ServerLinkFairness

----------------------------------------------------------------------------
(* Properties *)

\* A channel the user has joined and not left is in a window, asked for, or to be
\* asked for at the next login: no loss of a connection makes it be forgotten.
ChannelsKept ==
    wanted \subseteq
        UNION {wins[w].nchannels \cup wins[w].waiting \cup wins[w].old : w \in Windows}

\* When nothing is under way, the windows of a server are in the channels the
\* server thinks we are in.
ChannelsAgree ==
    \A s \in up : requests[s] = <<>> /\ replies[s] = <<>> =>
        member[s] = UNION {wins[w].nchannels : w \in OnServer(s)}

\* No channel is lost, and windows and server agree on them.
ChannelsSound == ChannelsKept /\ ChannelsAgree

\* A window whose connection was lost gets a connection again if the server comes
\* back for good, however often it refused before, and whatever the user did to
\* this and other windows meanwhile (auto_reconnect, server.c 86-123).
Reconnects ==
    \A s \in Servers : <>[](s \in accepting) =>
        \A w \in Windows : w \in lost /\ wins[w].last = s ~> wins[w].server # None
=============================================================================
