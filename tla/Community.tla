------------------------------- MODULE Community -------------------------------
(***************************************************************************)
(* The other users, as napster.c, flood.c and commands.c keep them: who is   *)
(* in the channels and what the user has been told of it, who floods, and    *)
(* the hotlist.  The server and the lines between are external.  There is    *)
(* one server and one window; ServerLink has several, with lost connections. *)
(*                                                                         *)
(* The first step chooses which of the three a behaviour is about: they      *)
(* share nothing but the lines to and from the server.                      *)
(***************************************************************************)
EXTENDS Integers, Sequences, FiniteSets

LOCAL INSTANCE SequencesExt
LOCAL INSTANCE FiniteSetsExt

CONSTANTS
    People,       \* other users
    NRooms,       \* channels are 1 .. NRooms, as the lists sort them
    Visits,       \* who may be in which channel, <<channel, nick>>
    Themes,       \* channels whose topic may be set
    MaxWire,      \* bound: lines under way from the server ...
    MaxAsked,     \* ... and to it
    PartsEarly,   \* whether the user parts a channel whose names are still arriving
    FloodSources, \* who says what where, <<nick, type, channel>>, channel 0 for a message
    FloodSizes,   \* what /set FLOOD_USERS may be
    FloodAfter, FloodRate,   \* /set FLOOD_AFTER and FLOOD_RATE
    LastSecond,   \* bound: seconds
    MaxHeard,     \* bound: lines heard
    Friends, Registered   \* users for the hotlist, and those that the server knows

ASSUME CommunityAssumption ==
    /\ {NRooms, MaxWire, MaxAsked, FloodAfter, FloodRate} \subseteq Nat \ {0}
    /\ FloodSizes \subseteq Nat /\ FloodSizes # {} /\ FloodAfter > 1
    /\ {LastSecond, MaxHeard} \subseteq Nat
    /\ Visits \subseteq (1 .. NRooms) \X People /\ Themes \subseteq 1 .. NRooms
    /\ Registered \subseteq Friends /\ PartsEarly \in BOOLEAN

Rooms == 1 .. NRooms
Myself == "me"
Users == People \cup {Myself}
Concerns == {"channels", "flooding", "hotlist"}

VARIABLES
    concern,
    from_server, to_server,     \* lines from and to the server
    present, topics, \* the server's: who is in each channel, the channels' topics
    nchannels,       \* the window's channels: nicks, topic and injoin of each
    current_channel, \* 0 for none
    ignores,
    told,            \* history: whom the user takes to be in each channel
    spared,          \* history: users that have been ignored
    flood,           \* the slots of those who are watched
    flood_pos,             \* the slot taken last
    second,
    heard,           \* history: when each source said what it said
    burst,           \* history: the source, and how often it spoke within this second
                     \* with nobody else in between
    hot,             \* history: sources warned of in this second
    warned,          \* history: whether the last line was called flooding
    nap_hotlist,     \* the hotlist: the speed shown, -1 for off
    listed, online   \* the server's: the hotlist it watches, who is there

roomVars == <<present, topics, nchannels, current_channel, ignores, told, spared>>
floodVars == <<flood, flood_pos, second, heard, burst, hot, warned>>
hotVars == <<nap_hotlist, listed, online>>
communityVars == <<concern, from_server, to_server, roomVars, floodVars, hotVars>>

NoOne == <<>>
EmptySlot == [source |-> NoOne, cnt |-> 0, start |-> 0, floods |-> 0]
EmptySlots(n) == [i \in 1 .. n |-> EmptySlot]

CommunityInit ==
    /\ concern = "" /\ from_server = <<>> /\ to_server = <<>>
    /\ present = [r \in Rooms |-> {}] /\ topics = [r \in Rooms |-> 0]
    /\ nchannels = <<>> /\ current_channel = 0 /\ ignores = {}
    /\ told = [r \in Rooms |-> {}] /\ spared = {}
    /\ flood = EmptySlots(Max(FloodSizes)) /\ flood_pos = 1 /\ second = 0
    /\ heard = [s \in FloodSources |-> <<>>] /\ burst = <<NoOne, 0>> /\ hot = {}
    /\ warned = FALSE
    /\ nap_hotlist = <<>> /\ listed = {} /\ online = {}

Concerning(c) ==
    /\ concern = "" /\ concern' = c
    /\ UNCHANGED <<from_server, to_server, roomVars, floodVars, hotVars>>

----------------------------------------------------------------------------
(* The channels: the server *)

\* External: what the server tells each member of a channel.
ServerLine(cmd, r, n) == [cmd |-> cmd, room |-> r, nick |-> n]
TellsMe(r, line) == from_server' = IF Myself \in present[r] THEN Append(from_server, line) ELSE from_server
Room4(n) == Len(from_server) + n <= MaxWire

ServerJoins(r, n) ==
    /\ <<r, n>> \in Visits /\ n \notin present[r] /\ Room4(1)
    /\ present' = [present EXCEPT ![r] = @ \cup {n}]
    /\ TellsMe(r, ServerLine("JOINNEW", r, n))
    /\ UNCHANGED <<to_server, topics, nchannels, current_channel, ignores, told, spared>>

ServerParts(r, n) ==
    /\ n \in present[r] /\ Room4(1)
    /\ present' = [present EXCEPT ![r] = @ \ {n}]
    /\ TellsMe(r, IF n = Myself THEN ServerLine("PART", r, Myself) ELSE ServerLine("PARTED", r, n))
    /\ UNCHANGED <<to_server, topics, nchannels, current_channel, ignores, told, spared>>

ServerTopic(r) ==
    /\ Room4(1) /\ r \in Themes /\ topics[r] = 0
    /\ topics' = [topics EXCEPT ![r] = 1]
    /\ TellsMe(r, ServerLine("TOPIC", r, Myself))
    /\ UNCHANGED <<to_server, present, nchannels, current_channel, ignores, told, spared>>

\* A join is answered with the names of all who are there, the user's among them.
ServerAsked(r) ==
    /\ to_server # <<>> /\ Head(to_server).room = r /\ to_server' = Tail(to_server)
    /\ \/ /\ Head(to_server).cmd = "JOIN" /\ Myself \notin present[r]
          /\ Room4(3 + Cardinality(present[r]) + topics[r])
          /\ present' = [present EXCEPT ![r] = @ \cup {Myself}]
          /\ from_server' = from_server \o <<ServerLine("JOIN", r, Myself)>>
                       \o (IF topics[r] = 0 THEN <<>> ELSE <<ServerLine("TOPIC", r, Myself)>>)
                       \o SetToSeq({ServerLine("NAMES", r, n) : n \in present'[r]})
                       \o <<ServerLine("ENDNAMES", r, Myself)>>
       \/ /\ Head(to_server).cmd = "PART" /\ Myself \in present[r] /\ Room4(1)
          /\ present' = [present EXCEPT ![r] = @ \ {Myself}]
          /\ from_server' = Append(from_server, ServerLine("PART", r, Myself))
       \/ /\ (Head(to_server).cmd = "JOIN") <=> (Myself \in present[r])
          /\ UNCHANGED <<from_server, present>>
    /\ UNCHANGED <<topics, nchannels, current_channel, ignores, told, spared>>

----------------------------------------------------------------------------
(* The channels: the user *)

InRoom(r) == r \in DOMAIN nchannels
WithoutRoom(r) == [q \in DOMAIN nchannels \ {r} |-> nchannels[q]]
FirstOf(chans) == IF DOMAIN chans = {} THEN 0 ELSE Min(DOMAIN chans)
\* The channel behind r in the list, the first behind the last.
NextOf(chans, r) ==
    LET Behind == {q \in DOMAIN chans : q > r}
    IN IF Behind # {} THEN Min(Behind) ELSE FirstOf(chans)

\* /join: a channel the window is in becomes its current one.
JoinRoom(r) ==
    /\ Len(to_server) < MaxAsked
    /\ to_server' = IF InRoom(r) THEN to_server ELSE Append(to_server, [cmd |-> "JOIN", room |-> r])
    /\ current_channel' = IF InRoom(r) THEN r ELSE current_channel
    /\ UNCHANGED <<from_server, present, topics, nchannels, ignores, told, spared>>

\* /part: of a channel that is not in the list nothing is to_server.
PartRoom(r) ==
    /\ InRoom(r) /\ Len(to_server) < MaxAsked
    /\ PartsEarly \/ ~nchannels[r].injoin
    /\ to_server' = Append(to_server, [cmd |-> "PART", room |-> r])
    /\ nchannels' = WithoutRoom(r)
    /\ current_channel' = IF current_channel = r THEN NextOf(WithoutRoom(r), r) ELSE current_channel
    /\ told' = [told EXCEPT ![r] = {}]
    /\ UNCHANGED <<from_server, present, topics, ignores, spared>>

switch_channels ==
    /\ current_channel \in DOMAIN nchannels
    /\ current_channel' = NextOf(nchannels, current_channel)
    /\ UNCHANGED <<from_server, to_server, present, topics, nchannels, ignores, told, spared>>

\* /ignore n, and with -remove
ignore_user(n) ==
    /\ ignores' = IF n \in ignores THEN ignores \ {n} ELSE ignores \cup {n}
    /\ spared' = spared \cup {n}
    /\ UNCHANGED <<from_server, to_server, present, topics, nchannels, current_channel, told>>

----------------------------------------------------------------------------
(* The channels: lines from the server *)

Received(cmd, r, n) == from_server # <<>> /\ Head(from_server) = ServerLine(cmd, r, n) /\ from_server' = Tail(from_server)

NewChannel == [nicks |-> {}, topic |-> 0, injoin |-> TRUE]

\* 405: a channel that is in the list already stays as it is.
cmd_joined(r) ==
    /\ Received("JOIN", r, Myself)
    /\ nchannels' = IF InRoom(r) THEN nchannels
                    ELSE [q \in DOMAIN nchannels \cup {r} |-> IF q = r THEN NewChannel ELSE nchannels[q]]
    /\ current_channel' = IF InRoom(r) THEN current_channel ELSE r
    /\ UNCHANGED <<to_server, present, topics, ignores, told, spared>>

SaysJoined(r, n) == ~nchannels[r].injoin /\ n \notin ignores

\* 406, a user who joins, and 408, one of those who are there
cmd_names(r, n) ==
    /\ Received("JOINNEW", r, n) \/ Received("NAMES", r, n)
    /\ nchannels' = IF InRoom(r) THEN [nchannels EXCEPT ![r].nicks = @ \cup {n}] ELSE nchannels
    /\ told' = IF InRoom(r) /\ SaysJoined(r, n) THEN [told EXCEPT ![r] = @ \cup {n}] ELSE told
    /\ UNCHANGED <<to_server, present, topics, current_channel, ignores, spared>>

\* The list of a channel without a user
WithoutNick(r, n) == IF InRoom(r) THEN [nchannels EXCEPT ![r].nicks = @ \ {n}] ELSE nchannels

\* 407
cmd_parted(r, n) ==
    /\ Received("PARTED", r, n)
    /\ nchannels' = WithoutNick(r, n)
    /\ told' = IF InRoom(r) /\ n \in nchannels[r].nicks /\ n \notin ignores
               THEN [told EXCEPT ![r] = @ \ {n}] ELSE told
    /\ UNCHANGED <<to_server, present, topics, current_channel, ignores, spared>>

\* The names shown, those of ignored users among them.
name_print(r) == nchannels[r].nicks

\* 409: the names are shown; the window goes to the channel, in its list or not.
cmd_endnames(r) ==
    /\ Received("ENDNAMES", r, Myself)
    /\ nchannels' = IF InRoom(r) THEN [nchannels EXCEPT ![r].injoin = FALSE] ELSE nchannels
    /\ told' = IF InRoom(r) THEN [told EXCEPT ![r] = name_print(r)] ELSE told
    /\ current_channel' = r
    /\ UNCHANGED <<to_server, present, topics, ignores, spared>>

\* 401: the user was parted, or his /part answered.
cmd_partchannel(r) ==
    /\ Received("PART", r, Myself)
    /\ nchannels' = IF InRoom(r) THEN WithoutRoom(r) ELSE nchannels
    /\ current_channel' = IF InRoom(r) /\ r = current_channel THEN FirstOf(nchannels') ELSE current_channel
    /\ told' = IF InRoom(r) THEN [told EXCEPT ![r] = {}] ELSE told
    /\ UNCHANGED <<to_server, present, topics, ignores, spared>>

\* 410
cmd_topic(r) ==
    /\ Received("TOPIC", r, Myself)
    /\ nchannels' = IF InRoom(r) THEN [nchannels EXCEPT ![r].topic = 1] ELSE nchannels
    /\ UNCHANGED <<to_server, present, topics, current_channel, ignores, told, spared>>

ChannelSteps ==
    /\ concern = "channels" /\ UNCHANGED <<concern, floodVars, hotVars>>
    /\ \/ \E r \in Rooms :
            \/ ServerTopic(r) \/ ServerAsked(r) \/ JoinRoom(r) \/ PartRoom(r)
            \/ cmd_joined(r) \/ cmd_endnames(r) \/ cmd_partchannel(r)
            \/ cmd_topic(r)
            \/ \E n \in People : ServerJoins(r, n)
            \/ \E n \in Users : ServerParts(r, n) \/ cmd_names(r, n) \/ cmd_parted(r, n)
       \/ \E n \in People : ignore_user(n)
       \/ switch_channels

----------------------------------------------------------------------------
(* Flooding *)

Slots == DOMAIN flood
Watched(s) == {i \in Slots : flood[i].source = s}

\* The slot for somebody new: the next that is not a flooder's, or the one taken last
\* when all are.
AfterSlot(k) == ((flood_pos - 1 + k) % Len(flood)) + 1
FreeSlot ==
    LET Ks == {k \in 1 .. Len(flood) : flood[AfterSlot(k)].floods = 0 \/ AfterSlot(k) = flood_pos}
    IN AfterSlot(Min(Ks))

\* Whether cnt lines since `start` are too many.
TooMany(cnt, start) ==
    second = start \/ cnt \div (second - start) >= FloodRate

\* check_flooding(): the slots, and whether the line is called flooding.  The slot that a
\* newcomer takes keeps its number of floods.
Noticed(s) ==
    LET i == FreeSlot
    IN [flood EXCEPT ![i].source = s, ![i].cnt = 1, ![i].start = second]
Recounted(i) ==
    LET c == flood[i].cnt + 1
    IN IF c < FloodAfter THEN [flood EXCEPT ![i].cnt = c]
       ELSE IF TooMany(c, flood[i].start)
       THEN [flood EXCEPT ![i].cnt = c, ![i].floods = 1]
       ELSE [flood EXCEPT ![i].cnt = 1, ![i].start = second, ![i].floods = 0]
IsFlood(i) == flood[i].cnt + 1 >= FloodAfter /\ TooMany(flood[i].cnt + 1, flood[i].start)

Remembered(s) ==
    /\ heard' = [heard EXCEPT ![s] = Append(@, second)]
    /\ burst' = IF burst[1] = s THEN <<s, burst[2] + 1>> ELSE <<s, 1>>
AllFlood(slots) == \A i \in DOMAIN slots : slots[i].floods > 0

\* What a user says to a channel or in a message.  With FLOOD_USERS 0 nobody is watched.
cmd_public(s) ==
    /\ FoldSet(LAMBDA t, n : n + Len(heard[t]), 0, FloodSources) < MaxHeard
    /\ Remembered(s)
    /\ IF Len(flood) = 0
       THEN warned' = FALSE /\ UNCHANGED <<flood, flood_pos, hot>>
       ELSE LET i == Min(Watched(s)) IN
            IF Watched(s) = {}
            THEN /\ flood' = Noticed(s) /\ flood_pos' = FreeSlot
                 /\ warned' = FALSE /\ hot' = hot
            ELSE /\ flood' = Recounted(i) /\ flood_pos' = flood_pos /\ warned' = IsFlood(i)
                 /\ hot' = IF AllFlood(flood') THEN {} ELSE IF IsFlood(i) THEN hot \cup {s} ELSE hot
    /\ UNCHANGED second

\* /set FLOOD_USERS, as the next line finds it: all slots are emptied.
SetFloodUsers(n) ==
    /\ n # Len(flood)
    /\ flood' = EmptySlots(n) /\ flood_pos' = IF flood_pos <= n THEN flood_pos ELSE 1
    /\ burst' = <<NoOne, 0>> /\ hot' = {} /\ warned' = FALSE
    /\ UNCHANGED <<second, heard>>

SecondPasses ==
    /\ second < LastSecond
    /\ second' = second + 1 /\ burst' = <<NoOne, 0>> /\ hot' = {} /\ warned' = FALSE
    /\ UNCHANGED <<flood, flood_pos, heard>>

FloodSteps ==
    /\ concern = "flooding" /\ UNCHANGED <<concern, from_server, to_server, roomVars, hotVars>>
    /\ \/ \E s \in FloodSources : cmd_public(s)
       \/ \E n \in FloodSizes : SetFloodUsers(n)
       \/ SecondPasses

----------------------------------------------------------------------------
(* The hotlist *)

Ask(cmd, n) == to_server' = Append(to_server, [cmd |-> cmd, room |-> n])
OnHotlist(n) == n \in DOMAIN nap_hotlist
HotWith(n, speed) ==
    [m \in DOMAIN nap_hotlist \cup {n} |-> IF m = n THEN speed ELSE nap_hotlist[m]]
HotWithout(n) == [m \in DOMAIN nap_hotlist \ {n} |-> nap_hotlist[m]]

\* /hotlist n: the server is told even of a user who is on the list.
HotlistAdd(n) ==
    /\ Len(to_server) < MaxAsked /\ Ask("ADDHOTLIST", n)
    /\ nap_hotlist' = IF OnHotlist(n) THEN nap_hotlist ELSE HotWith(n, -1)
    /\ UNCHANGED <<from_server, listed, online>>

\* /hotlist -n
HotlistRemove(n) ==
    /\ OnHotlist(n) /\ Len(to_server) < MaxAsked
    /\ Ask("HOTLISTREMOVE", n) /\ nap_hotlist' = HotWithout(n)
    /\ UNCHANGED <<from_server, listed, online>>

\* 209, 210, 301 and 302: who has signed off keeps the speed he had.
cmd_hotlist(n) ==
    /\ Received("HOTLISTONLINE", n, 1)
    /\ nap_hotlist' = IF OnHotlist(n) THEN HotWith(n, 1) ELSE nap_hotlist
    /\ UNCHANGED <<to_server, listed, online>>
cmd_offline(n) ==
    /\ Received("USEROFFLINE", n, 0)
    /\ UNCHANGED <<to_server, nap_hotlist, listed, online>>
cmd_hotlistsuccess(n) ==
    /\ Received("HOTLISTSUCCESS", n, 0)
    /\ UNCHANGED <<to_server, nap_hotlist, listed, online>>
cmd_hotlisterror(n) ==
    /\ Received("HOTLISTERROR", n, 0)
    /\ nap_hotlist' = IF OnHotlist(n) THEN HotWithout(n) ELSE nap_hotlist
    /\ UNCHANGED <<to_server, listed, online>>

\* A new login: the whole list is sent, and all are shown with speed 0.
send_hotlist ==
    /\ nap_hotlist # <<>>
    /\ from_server' = <<>> /\ listed' = {} /\ online' = online
    /\ to_server' = SetToSeq({[cmd |-> "ADDHOTLIST", room |-> n] : n \in DOMAIN nap_hotlist})
    /\ nap_hotlist' = [n \in DOMAIN nap_hotlist |-> 0]

\* External: the server and the users it watches.
HotlistAsked(n) ==
    /\ to_server # <<>> /\ Head(to_server).room = n /\ to_server' = Tail(to_server) /\ Room4(2)
    /\ IF Head(to_server).cmd = "HOTLISTREMOVE"
       THEN listed' = listed \ {n} /\ from_server' = from_server
       ELSE IF n \in Registered
       THEN /\ listed' = listed \cup {n}
            /\ from_server' = from_server \o <<ServerLine("HOTLISTSUCCESS", n, 0)>>
                         \o (IF n \in online THEN <<ServerLine("HOTLISTONLINE", n, 1)>> ELSE <<>>)
       ELSE listed' = listed /\ from_server' = Append(from_server, ServerLine("HOTLISTERROR", n, 0))
    /\ UNCHANGED <<nap_hotlist, online>>
SignsOnOrOff(n) ==
    /\ n \in Registered /\ Room4(1)
    /\ online' = IF n \in online THEN online \ {n} ELSE online \cup {n}
    /\ from_server' = IF n \notin listed THEN from_server
               ELSE Append(from_server, IF n \in online THEN ServerLine("USEROFFLINE", n, 0)
                                 ELSE ServerLine("HOTLISTONLINE", n, 1))
    /\ UNCHANGED <<to_server, nap_hotlist, listed>>

HotlistSteps ==
    /\ concern = "hotlist" /\ UNCHANGED <<concern, roomVars, floodVars>>
    /\ \/ \E n \in Friends :
            \/ HotlistAdd(n) \/ HotlistRemove(n) \/ cmd_hotlist(n) \/ cmd_offline(n)
            \/ cmd_hotlistsuccess(n) \/ cmd_hotlisterror(n) \/ HotlistAsked(n) \/ SignsOnOrOff(n)
       \/ send_hotlist

----------------------------------------------------------------------------

CommunityNext ==
    \/ \E c \in Concerns : Concerning(c)
    \/ ChannelSteps \/ FloodSteps \/ HotlistSteps

CommunitySpec == CommunityInit /\ [][CommunityNext]_communityVars

----------------------------------------------------------------------------
(* Properties *)

CommunityTypeOK ==
    /\ concern \in Concerns \cup {""}
    /\ present \in [Rooms -> SUBSET Users] /\ topics \in [Rooms -> {0, 1}]
    /\ DOMAIN nchannels \subseteq Rooms
    /\ \A r \in DOMAIN nchannels : nchannels[r] \in [nicks : SUBSET Users, topic : {0, 1}, injoin : BOOLEAN]
    /\ current_channel \in Rooms \cup {0} /\ told \in [Rooms -> SUBSET Users]
    /\ ignores \subseteq spared /\ spared \subseteq People
    /\ \A i \in Slots : flood[i].source \in FloodSources \cup {NoOne}
    /\ second \in 0 .. LastSecond /\ hot \subseteq FloodSources /\ warned \in BOOLEAN
    /\ DOMAIN nap_hotlist \subseteq Friends /\ {listed, online} \subseteq SUBSET Friends

Quiet == from_server = <<>> /\ to_server = <<>>

\* Once nothing is under way the channels are those the user is in, with the names and
\* the topic that the server has, however joins, parts, listings and removals crossed.
SameAsServer ==
    Quiet => /\ DOMAIN nchannels = {r \in Rooms : Myself \in present[r]}
             /\ \A r \in DOMAIN nchannels :
                  /\ nchannels[r].nicks = present[r]
                  /\ nchannels[r].topic = topics[r] /\ ~nchannels[r].injoin

\* What the user has been told, the names and then who joined and parted, is what the
\* list says, but for users who were ignored.
ToldAll ==
    \A r \in DOMAIN nchannels :
        ~nchannels[r].injoin => told[r] \ spared = nchannels[r].nicks \ spared

\* The window is at a channel it is in, and at one when it is in any: what is typed goes there.
AtAChannel ==
    current_channel \in DOMAIN nchannels \/ (current_channel = 0 /\ nchannels = <<>>)

\* Lines are called flooding that came too fast: FLOOD_AFTER of them or more, up to
\* the last, came at FLOOD_RATE a second.
NotWronged ==
    warned => LET s == burst[1]  n == Len(heard[s])
              IN \E k \in FloodAfter .. n :
                    LET t == heard[s][n - k + 1] IN second = t \/ k >= FloodRate * (second - t)

\* And those that do: whoever speaks 2 FLOOD_AFTER - 2 times within a second, others
\* silent, and whoever was called flooding in this second and goes on, as long as not every
\* slot is a flooder's.
NotMissed ==
    flood # <<>> => /\ burst[2] >= 2 * FloodAfter - 2 => warned
                    /\ burst[1] \in hot => warned

\* Nobody is watched in two slots.
WatchedOnce == \A s \in FloodSources : Cardinality(Watched(s)) <= 1

\* Once nothing is under way, the hotlist has the users the server watches, and none
\* who is there is shown as off.
HotlistAsServer ==
    Quiet => /\ DOMAIN nap_hotlist = listed
             /\ \A n \in listed \cap online : nap_hotlist[n] # -1

CommunitySound ==
    /\ SameAsServer /\ ToldAll /\ AtAChannel
    /\ NotWronged /\ NotMissed /\ WatchedOnce
    /\ HotlistAsServer
================================================================================
