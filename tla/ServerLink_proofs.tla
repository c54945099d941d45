-------------------------- MODULE ServerLink_proofs --------------------------
(***************************************************************************)
(* Proofs about ServerLink: for any number of windows, channels, commands  *)
(* and losses no channel is forgotten (LinkInv), and with at most two      *)
(* windows the windows and the server agree on the channels (AgreeInv).    *)
(*                                                                         *)
(* With three windows they may not: a channel asked for in all three and   *)
(* left while the joins are under way can be acknowledged into two of      *)
(* them, and the acknowledged part removes it from one only.               *)
(***************************************************************************)
EXTENDS ServerLink, SequenceTheorems, FiniteSetTheorems, WellFoundedInduction, TLAPS

----------------------------------------------------------------------------
(* The library's operators *)

\* A set of numbers has a least one.
LEMMA LeastNumber ==
    ASSUME NEW T \in SUBSET Nat, T # {}
    PROVE  \E m \in T : \A k \in T : m <= k
<1> DEFINE R == StrictSubsetOrdering(Nat)
           I == {0 .. n : n \in T}
<1>1. IsWellFoundedOn(R, FiniteSubsetsOf(Nat))
  BY FS_StrictSubsetOrderingWellFounded
<1>2. I \subseteq FiniteSubsetsOf(Nat)
  <2> SUFFICES ASSUME NEW n \in T PROVE 0 .. n \in FiniteSubsetsOf(Nat)  OBVIOUS
  <2>1. IsFiniteSet(0 .. n)  BY FS_Interval
  <2>2. 0 .. n \in SUBSET Nat  OBVIOUS
  <2> QED  BY <2>1, <2>2 DEF FiniteSubsetsOf
<1>3. I # {}
  OBVIOUS
<1>4. \E x \in I : \A y \in I : ~ (<<y, x>> \in R)
  <2> HIDE DEF I, R
  <2> QED  BY <1>1, <1>2, <1>3, WFMin
<1>5. PICK m \in T : \A k \in T : <<0 .. k, 0 .. m>> \notin R
  BY <1>4
<1>6. ASSUME NEW k \in T PROVE m <= k
  <2> SUFFICES ASSUME k < m PROVE FALSE  OBVIOUS
  <2>1. 0 .. k \in SUBSET Nat /\ 0 .. m \in SUBSET Nat /\ 0 .. k \subseteq 0 .. m
        /\ 0 .. k # 0 .. m
    <3>1. m \in 0 .. m /\ m \notin 0 .. k  OBVIOUS
    <3> QED  BY <3>1
  <2>2. <<0 .. k, 0 .. m>> \in R
    BY <2>1 DEF StrictSubsetOrdering
  <2> QED  BY <2>2, <1>5
<1> QED  BY <1>6

\* The least of a set of numbers is one of them.
LEMMA MinProperties ==
    ASSUME NEW T \in SUBSET Nat, T # {}
    PROVE  Min(T) \in T /\ \A k \in T : Min(T) <= k
<1>1. \E x \in T : \A y \in T : x <= y  BY LeastNumber
<1> QED  BY <1>1, Zenon DEF Min

\* A finite set written down as a sequence has each of its elements, and no other.
LEMMA SetToSeqProperties ==
    ASSUME NEW T, IsFiniteSet(T)
    PROVE  SetToSeq(T) \in Seq(T)
<1> DEFINE n == Cardinality(T)
<1>1. n \in Nat /\ ExistsBijection(1 .. n, T)  BY FS_CardinalityType
<1>2. PICK f \in Bijection(1 .. n, T) : TRUE  BY <1>1 DEF ExistsBijection
<1>3. f \in [1 .. n -> T] /\ IsInjective(f)
  BY <1>2, Zenon DEF Bijection, Injection
<1>4. SetToSeq(T) \in [1 .. n -> T]  BY <1>3, Zenon DEF SetToSeq
<1> HIDE DEF n
<1> QED  BY <1>1, <1>4

----------------------------------------------------------------------------
(* The invariants *)

\* The only server there is.
TheServer == CHOOSE s \in Servers : Servers = {s}

WindowStates ==
    [server : Servers \cup {None}, last : Servers \cup {None}, nchannels : SUBSET Channels,
     waiting : SUBSET Channels, old : SUBSET Channels]

Held(w) == wins[w].nchannels \cup wins[w].waiting \cup wins[w].old

\* All windows are on the server while there is a connection to it; then nothing is
\* left to be asked for at a login, and otherwise nothing is asked for or joined.
LinkInv ==
    /\ LinkTypeOK
    /\ \A w \in Windows : wins[w].server = IF TheServer \in up THEN TheServer ELSE None
    /\ TheServer \in up => \A w \in Windows : wins[w].old = {}
    /\ TheServer \notin up =>
           /\ \A w \in Windows : wins[w].waiting = {} /\ wins[w].nchannels = {}
           /\ requests[TheServer] = <<>> /\ replies[TheServer] = <<>>
    /\ timer[TheServer] <= losses
    /\ ChannelsKept

\* A connection on which nothing has been answered yet.
Begun ==
    /\ \A w \in Windows : wins[w].nchannels = {}
    /\ member[TheServer] = {} /\ replies[TheServer] = <<>>

\* No message about the same channel comes after place i.
LastOn(q, i) == \A j \in DOMAIN q : j > i => q[j][2] # q[i][2]

Mentions(q, c) == \E i \in DOMAIN q : q[i][2] = c

\* The last message about a channel says what the server thinks.
RepliesTrue(q, m) == \A i \in DOMAIN q : LastOn(q, i) => (q[i][1] = "join" <=> q[i][2] \in m)

\* Of a channel of which nothing is under way windows and server agree.
Settled ==
    \A c \in Channels :
        \/ Mentions(replies[TheServer], c)
        \/ \E i \in DOMAIN requests[TheServer] : requests[TheServer][i] = <<"part", c>>
        \/ c \in member[TheServer] <=> \E w \in Windows : c \in wins[w].nchannels

\* No channel is in two windows, and the first window waits for none that one is in.
Apart ==
    /\ \A v, w \in Windows : v # w => wins[v].nchannels \cap wins[w].nchannels = {}
    /\ \A w \in Windows : wins[1].waiting \cap wins[w].nchannels = {}

AgreeInv ==
    /\ LinkInv
    /\ Apart
    /\ TheServer \in up => RepliesTrue(replies[TheServer], member[TheServer]) /\ Settled

----------------------------------------------------------------------------
(* Windows that get or lose the server *)

\* Windows are numbers from 1.
LEMMA WindowsNat ==
    /\ Windows \subseteq Nat /\ 1 \in Windows
    /\ NWindows \in {1, 2} => Windows \subseteq {1, 2}
BY ServerLinkAssumption DEF Windows

\* The only server is none of the marks for no server.
LEMMA OneServer ==
    ASSUME \E s : Servers = {s}
    PROVE  Servers = {TheServer} /\ TheServer # None
BY ServerLinkAssumption DEF TheServer

\* What LinkInv says of the types.
LEMMA LinkTypes ==
    ASSUME LinkTypeOK
    PROVE  /\ wins \in [Windows -> WindowStates]
           /\ \A w \in Windows :
                /\ wins[w] \in WindowStates
                /\ wins[w].server \in Servers \cup {None} /\ wins[w].last \in Servers \cup {None}
                /\ wins[w].nchannels \subseteq Channels /\ wins[w].waiting \subseteq Channels
                /\ wins[w].old \subseteq Channels
BY DEF LinkTypeOK, WindowStates

\* close_server() of all windows' server.
LEMMA Closed ==
    ASSUME \E s : Servers = {s}, NEW ws \in [Windows -> WindowStates],
           \A w \in Windows : ws[w].server = TheServer
    PROVE  /\ CloseServer(ws, TheServer) \in [Windows -> WindowStates]
           /\ \A w \in Windows :
                LET new == CloseServer(ws, TheServer)[w]
                IN  /\ new.server = None /\ new.last = TheServer /\ new.old = ws[w].nchannels
                    /\ new.nchannels = {} /\ new.waiting = ws[w].waiting
<1> DEFINE made(w) == [[[[ws[w] EXCEPT !.server = None] EXCEPT !.last = TheServer]
                           EXCEPT !.old = ws[w].nchannels] EXCEPT !.nchannels = {}]
<1>1. Servers = {TheServer}  BY OneServer
<1>2. ASSUME NEW w \in Windows
      PROVE  /\ CloseServer(ws, TheServer)[w] = made(w) /\ made(w) \in WindowStates
             /\ made(w).server = None /\ made(w).last = TheServer /\ made(w).old = ws[w].nchannels
             /\ made(w).nchannels = {} /\ made(w).waiting = ws[w].waiting
  <2>1. ws[w] \in WindowStates /\ ws[w].server = TheServer  OBVIOUS
  <2>2. CloseServer(ws, TheServer)[w] = made(w)  BY <2>1 DEF CloseServer
  <2>3. made(w) \in WindowStates  BY <1>1, <2>1 DEF WindowStates
  <2>4. /\ made(w).server = None /\ made(w).last = TheServer /\ made(w).old = ws[w].nchannels
        /\ made(w).nchannels = {} /\ made(w).waiting = ws[w].waiting
    BY <2>1 DEF WindowStates
  <2> QED  BY <2>2, <2>3, <2>4
<1> HIDE DEF made
<1>3. CloseServer(ws, TheServer) = [w \in Windows |-> CloseServer(ws, TheServer)[w]]
  BY DEF CloseServer
<1>4. \A w \in Windows : CloseServer(ws, TheServer)[w] \in WindowStates  BY <1>2
<1>5. CloseServer(ws, TheServer) \in [Windows -> WindowStates]  BY <1>3, <1>4, Zenon
<1> QED  BY <1>2, <1>5

\* login_to_server() when no window has a server.
LEMMA LoggedIn ==
    ASSUME \E s : Servers = {s}, cur \in Windows, NEW ws \in [Windows -> WindowStates],
           \A w \in Windows : ws[w].server = None
    PROVE  /\ Login(ws, TheServer) \in [Windows -> WindowStates]
           /\ \A w \in Windows :
                LET new == Login(ws, TheServer)[w]
                IN  /\ new.server = TheServer /\ new.waiting = ws[w].old
                    /\ new.old = {} /\ new.nchannels = ws[w].nchannels
<1> DEFINE asked(w) == [[ws[w] EXCEPT !.waiting = ws[w].old] EXCEPT !.old = {}]
           made(w) == [asked(w) EXCEPT !.server = TheServer]
           hot == SendHotlist(ws, TheServer)
<1>1. Servers = {TheServer}  BY OneServer
<1>2. ASSUME NEW w \in Windows
      PROVE  /\ hot[w] = asked(w) /\ asked(w).server = None
             /\ made(w) \in WindowStates /\ made(w).server = TheServer
             /\ made(w).waiting = ws[w].old /\ made(w).old = {}
             /\ made(w).nchannels = ws[w].nchannels
  <2>1. ws[w] \in WindowStates /\ ws[w].server = None  OBVIOUS
  <2>2. w \in Asking(ws, TheServer)  BY <2>1 DEF Asking
  <2>3. hot[w] = asked(w)  BY <2>1, <2>2 DEF SendHotlist
  <2>4. asked(w) \in WindowStates /\ asked(w).server = None  BY <2>1 DEF WindowStates
  <2>5. made(w) \in WindowStates  BY <1>1, <2>1 DEF WindowStates
  <2>6. /\ made(w).server = TheServer /\ made(w).waiting = ws[w].old /\ made(w).old = {}
        /\ made(w).nchannels = ws[w].nchannels
    BY <2>1 DEF WindowStates
  <2> QED  BY <2>3, <2>4, <2>5, <2>6
<1>3. ASSUME NEW w \in Windows PROVE Login(ws, TheServer)[w] = made(w)
  <2>1. hot[w] = asked(w) /\ hot[w].server = hot[cur].server
    BY <1>2
  <2> HIDE DEF hot, asked
  <2> QED  BY <2>1 DEF Login, SetWindowServer, hot
<1> HIDE DEF made, asked, hot
<1>4. Login(ws, TheServer) = [w \in Windows |-> Login(ws, TheServer)[w]]
  BY DEF Login, SetWindowServer
<1>5. \A w \in Windows : Login(ws, TheServer)[w] \in WindowStates  BY <1>2, <1>3
<1>6. Login(ws, TheServer) \in [Windows -> WindowStates]  BY <1>4, <1>5, Zenon
<1> QED  BY <1>2, <1>3, <1>6

\* A window that has taken the connection.
LEMMA TakenKeeps ==
    ASSUME \E s : Servers = {s}, NEW ws \in [Windows -> WindowStates], NEW v \in Windows,
           \A w \in Windows : ws[w].server = TheServer
    PROVE  /\ Taken(ws, v, TheServer) \in [Windows -> WindowStates]
           /\ \A w \in Windows :
                LET new == Taken(ws, v, TheServer)[w]
                IN  /\ new.server = TheServer /\ new.waiting = ws[w].waiting
                    /\ new.old = ws[w].old /\ new.nchannels = ws[w].nchannels
<1> DEFINE made(w) == IF w = v THEN [[ws[w] EXCEPT !.server = TheServer] EXCEPT !.last = None]
                               ELSE ws[w]
           all == [w \in Windows |-> made(w)]
<1>1. Servers = {TheServer}  BY OneServer
<1>2. ASSUME NEW w \in Windows
      PROVE  /\ made(w) \in WindowStates /\ made(w).server = TheServer
             /\ made(w).waiting = ws[w].waiting /\ made(w).old = ws[w].old
             /\ made(w).nchannels = ws[w].nchannels
  <2>1. ws[w] \in WindowStates /\ ws[w].server = TheServer  OBVIOUS
  <2> QED  BY <1>1, <2>1 DEF WindowStates
<1>3. Taken(ws, v, TheServer) = all
  <2>1. /\ DOMAIN Taken(ws, v, TheServer) = Windows
        /\ \A w \in Windows : Taken(ws, v, TheServer)[w] = made(w)
    BY DEF Taken
  <2>2. Taken(ws, v, TheServer) = [w \in Windows |-> Taken(ws, v, TheServer)[w]]
    BY DEF Taken
  <2> HIDE DEF made
  <2> QED  BY <2>1, <2>2
<1> HIDE DEF made
<1> QED  BY <1>2, <1>3

\* The windows that had lost the server get it, and keep their channels.
LEMMA TakeThoseKeeps ==
    ASSUME \E s : Servers = {s}, NEW ws \in [Windows -> WindowStates],
           \A w \in Windows : ws[w].server = TheServer
    PROVE  /\ TakeThoseOf(ws, TheServer) \in [Windows -> WindowStates]
           /\ \A w \in Windows :
                LET new == TakeThoseOf(ws, TheServer)[w]
                IN  /\ new.server = TheServer /\ new.waiting = ws[w].waiting
                    /\ new.old = ws[w].old /\ new.nchannels = ws[w].nchannels
<1> DEFINE made(w) == IF ws[w].last = TheServer
                        THEN [[ws[w] EXCEPT !.server = TheServer] EXCEPT !.last = None]
                        ELSE ws[w]
<1>1. Servers = {TheServer}  BY OneServer
<1>2. ASSUME NEW w \in Windows
      PROVE  /\ made(w) \in WindowStates /\ made(w).server = TheServer
             /\ made(w).waiting = ws[w].waiting /\ made(w).old = ws[w].old
             /\ made(w).nchannels = ws[w].nchannels
  <2>1. ws[w] \in WindowStates /\ ws[w].server = TheServer  OBVIOUS
  <2> QED  BY <1>1, <2>1 DEF WindowStates
<1>3. TakeThoseOf(ws, TheServer) = [w \in Windows |-> made(w)]
  BY DEF TakeThoseOf
<1> HIDE DEF made
<1> QED  BY <1>2, <1>3

----------------------------------------------------------------------------
(* What the connection does to the messages *)

\* A closed connection takes the messages with it.
LEMMA CutEnds ==
    ASSUME \E s : Servers = {s}, Cut({TheServer})
    PROVE  /\ requests' \in [Servers -> Seq(Messages)] /\ replies' \in [Servers -> Seq(Messages)]
           /\ member' \in [Servers -> SUBSET Channels]
           /\ requests'[TheServer] = <<>> /\ replies'[TheServer] = <<>>
           /\ member'[TheServer] = {}
<1>1. Servers = {TheServer}  BY OneServer
<1>2. <<>> \in Seq(Messages)  BY EmptySeq
<1>3. /\ requests' = [s \in Servers |-> <<>>] /\ replies' = [s \in Servers |-> <<>>]
      /\ member' = [s \in Servers |-> {}]
  BY <1>1 DEF Cut
<1> QED  BY <1>1, <1>2, <1>3

\* On a new connection there are only the joins sent at the login.
LEMMA OpenBegins ==
    ASSUME \E s : Servers = {s}, NEW ws \in [Windows -> WindowStates], NEW ss,
           Open(ws, TheServer, ss)
    PROVE  /\ requests' \in [Servers -> Seq(Messages)] /\ replies' \in [Servers -> Seq(Messages)]
           /\ member' \in [Servers -> SUBSET Channels]
           /\ requests'[TheServer] \in Seq({"join"} \X Channels)
           /\ replies'[TheServer] = <<>> /\ member'[TheServer] = {}
<1> DEFINE asked == Joins(ws, TheServer)
<1>1. Servers = {TheServer}  BY OneServer
<1>2. asked \subseteq {"join"} \X Channels
  <2> SUFFICES ASSUME NEW c, NEW w \in Windows, c \in ws[w].old
               PROVE  <<"join", c>> \in {"join"} \X Channels
    BY DEF Joins, Asking
  <2>1. ws[w] \in WindowStates  OBVIOUS
  <2>2. ws[w].old \subseteq Channels  BY <2>1 DEF WindowStates
  <2> QED  BY <2>2
<1>3. IsFiniteSet({"join"} \X Channels)
  <2>1. IsFiniteSet({"join"})  BY FS_Singleton
  <2> QED  BY <2>1, FS_Product, ServerLinkAssumption
<1>4. IsFiniteSet(asked)  BY <1>2, <1>3, FS_Subset
<1> HIDE DEF asked
<1>5. SetToSeq(asked) \in Seq(asked)  BY <1>4, SetToSeqProperties
<1>6. SetToSeq(asked) \in Seq({"join"} \X Channels)
  BY <1>2, <1>5, SeqMonotonic
<1>7. {"join"} \X Channels \subseteq Messages  BY DEF Messages
<1>8. SetToSeq(asked) \in Seq(Messages)
  BY <1>6, <1>7, SeqMonotonic
<1>9. <<>> \in Seq(Messages)  BY EmptySeq
<1>10. /\ requests' = [t \in Servers |-> SetToSeq(asked)]
       /\ replies' = [s \in Servers |-> <<>>] /\ member' = [s \in Servers |-> {}]
  BY <1>1 DEF Open, asked
<1> QED  BY <1>1, <1>6, <1>8, <1>9, <1>10

\* What is wanted is in some window.
LEMMA KeptMeans ==
    ASSUME NEW ws, NEW want
    PROVE  want \subseteq UNION {ws[w].nchannels \cup ws[w].waiting \cup ws[w].old : w \in Windows}
           <=> \A c \in want : \E w \in Windows :
                 c \in ws[w].nchannels \/ c \in ws[w].waiting \/ c \in ws[w].old
OBVIOUS

\* The variables that LinkInv types, written with what the actions set.
LEMMA TypesStay ==
    ASSUME LinkTypeOK, wins' \in [Windows -> WindowStates], cur' \in Windows,
           up' \subseteq Servers, timer' \in [Servers -> 0 .. MaxLosses],
           requests' \in [Servers -> Seq(Messages)], replies' \in [Servers -> Seq(Messages)],
           member' \in [Servers -> SUBSET Channels], wanted' \subseteq Channels,
           commands' \in 0 .. MaxCommands, losses' \in 0 .. MaxLosses
    PROVE  LinkTypeOK'
BY DEF LinkTypeOK, WindowStates

\* Commands stay within their bound.
LEMMA CommandCounts ==
    ASSUME LinkTypeOK, Command
    PROVE  commands' \in 0 .. MaxCommands
BY ServerLinkAssumption DEF LinkTypeOK, Command

----------------------------------------------------------------------------
(* Every step keeps LinkInv *)

\* The windows when the only connection has gone, whether it was lost or closed,
\* when nothing asked for was unanswered.
LEMMA GoneKeeps ==
    ASSUME \E s : Servers = {s}, LinkInv, TheServer \in up,
           \A w \in Windows : wins[w].waiting = {},
           NEW new \in [Windows -> WindowStates],
           \A w \in Windows : /\ new[w].server = None /\ new[w].old = wins[w].nchannels
                              /\ new[w].nchannels = {} /\ new[w].waiting = {},
           wins' = new, up' = {}, Cut({TheServer}), UNCHANGED wanted,
           cur' \in Windows, timer' \in [Servers -> 0 .. MaxLosses],
           timer'[TheServer] <= losses',
           commands' \in 0 .. MaxCommands, losses' \in 0 .. MaxLosses
    PROVE  LinkInv'
<1>1. /\ requests' \in [Servers -> Seq(Messages)] /\ replies' \in [Servers -> Seq(Messages)]
      /\ member' \in [Servers -> SUBSET Channels]
      /\ requests'[TheServer] = <<>> /\ replies'[TheServer] = <<>>
  BY CutEnds
<1>2. LinkTypeOK /\ wanted \subseteq Channels  BY DEF LinkInv, LinkTypeOK
<1>3. LinkTypeOK'  BY <1>1, <1>2, TypesStay
<1>4. ASSUME NEW c \in wanted
      PROVE  \E w \in Windows : c \in new[w].nchannels \/ c \in new[w].waiting \/ c \in new[w].old
  <2>1. \E w \in Windows : c \in wins[w].nchannels \/ c \in wins[w].waiting \/ c \in wins[w].old
    BY KeptMeans DEF LinkInv, ChannelsKept
  <2>2. \A w \in Windows : wins[w].old = {}  BY DEF LinkInv
  <2> QED  BY <2>1, <2>2
<1>5. ChannelsKept'
  <2>1. wanted \subseteq UNION {new[w].nchannels \cup new[w].waiting \cup new[w].old : w \in Windows}
    BY <1>4, KeptMeans
  <2> QED  BY <2>1 DEF ChannelsKept
<1> QED  BY <1>1, <1>3, <1>5 DEF LinkInv

\* The windows when a connection has been opened.
LEMMA OpenKeeps ==
    ASSUME \E s : Servers = {s}, LinkTypeOK,
           NEW ws \in [Windows -> WindowStates], NEW new \in [Windows -> WindowStates], NEW ss,
           \A c \in wanted : \E w \in Windows : c \in ws[w].old,
           \A w \in Windows : /\ new[w].server = TheServer /\ new[w].old = {}
                              /\ new[w].nchannels = {} /\ new[w].waiting = ws[w].old,
           wins' = new, up' = {TheServer}, Open(ws, TheServer, ss), UNCHANGED wanted,
           cur' \in Windows, timer' \in [Servers -> 0 .. MaxLosses],
           timer'[TheServer] <= losses',
           commands' \in 0 .. MaxCommands, losses' \in 0 .. MaxLosses
    PROVE  LinkInv' /\ Begun'
<1>1. /\ requests' \in [Servers -> Seq(Messages)] /\ replies' \in [Servers -> Seq(Messages)]
      /\ member' \in [Servers -> SUBSET Channels]
      /\ replies'[TheServer] = <<>> /\ member'[TheServer] = {}
  BY OpenBegins
<1>2. LinkTypeOK'
  <2>1. Servers = {TheServer}  BY OneServer
  <2>2. wanted \subseteq Channels  BY DEF LinkTypeOK
  <2> QED  BY <1>1, <2>1, <2>2, TypesStay
<1>3. \A c \in wanted : \E w \in Windows :
         c \in new[w].nchannels \/ c \in new[w].waiting \/ c \in new[w].old
  OBVIOUS
<1>4. ChannelsKept'
  <2>1. wanted \subseteq UNION {new[w].nchannels \cup new[w].waiting \cup new[w].old : w \in Windows}
    BY <1>3, KeptMeans
  <2> QED  BY <2>1 DEF ChannelsKept
<1>5. LinkInv'  BY <1>2, <1>4 DEF LinkInv
<1>6. Begun'  BY <1>1 DEF Begun
<1> QED  BY <1>5, <1>6

\* do_server() that finds the connection ended.
LEMMA LostKeeps ==
    ASSUME \E s : Servers = {s}, LossAnytime = FALSE, LinkInv, NEW s \in Servers, Lost(s)
    PROVE  LinkInv'
<1> DEFINE new == CloseServer(wins, TheServer)
<1>1. Servers = {TheServer} /\ TheServer # None  BY OneServer
<1>2. s = TheServer  BY <1>1
<1>3. LinkTypeOK /\ TheServer \in up /\ MayEnd(TheServer)
  BY <1>2 DEF LinkInv, Lost
<1>4. \A w \in Windows : wins[w].server = TheServer
  BY <1>3 DEF LinkInv
<1>5. \A w \in Windows : wins[w].waiting = {}
  BY <1>3, <1>4, Zenon DEF MayEnd
<1>6. wins \in [Windows -> WindowStates]  BY <1>3, LinkTypes
<1>7. /\ new \in [Windows -> WindowStates]
      /\ \A w \in Windows : /\ new[w].server = None /\ new[w].old = wins[w].nchannels
                            /\ new[w].nchannels = {} /\ new[w].waiting = {}
  <2>1. /\ new \in [Windows -> WindowStates]
        /\ \A w \in Windows : /\ new[w].server = None /\ new[w].old = wins[w].nchannels
                              /\ new[w].nchannels = {} /\ new[w].waiting = wins[w].waiting
    BY <1>4, <1>6, Closed, Zenon
  <2> HIDE DEF new
  <2> QED  BY <1>5, <2>1
<1>8. /\ wins' = new /\ up' = {} /\ Cut({TheServer})
      /\ UNCHANGED <<wanted, cur, commands>>
  BY <1>1, <1>2, <1>3 DEF Lost, LinkTypeOK
<1>9. cur' \in Windows /\ commands' \in 0 .. MaxCommands
  BY <1>3, <1>8 DEF LinkTypeOK
<1>10. /\ timer' \in [Servers -> 0 .. MaxLosses] /\ losses' \in 0 .. MaxLosses
       /\ timer'[TheServer] <= losses'
  <2>1. /\ timer \in [Servers -> 0 .. MaxLosses] /\ losses \in 0 .. MaxLosses
        /\ timer[TheServer] <= losses /\ MaxLosses \in Nat
    BY <1>3, ServerLinkAssumption DEF LinkInv, LinkTypeOK
  <2>2. /\ losses' = losses + 1 /\ losses < MaxLosses
        /\ timer' = [timer EXCEPT ![TheServer] = @ + 1]
    BY <1>2 DEF Lost
  <2> QED  BY <1>1, <2>1, <2>2
<1> HIDE DEF new
<1> QED  BY <1>3, <1>5, <1>7, <1>8, <1>9, <1>10, GoneKeeps

\* /disconnect.
LEMMA DisconnectKeeps ==
    ASSUME \E s : Servers = {s}, LossAnytime = FALSE, LinkInv, Disconnect_
    PROVE  LinkInv'
<1> DEFINE new == CloseServer(wins, TheServer)
<1>1. Servers = {TheServer} /\ TheServer # None  BY OneServer
<1>2. LinkTypeOK /\ cur \in Windows  BY DEF LinkInv, LinkTypeOK
<1>3. wins[cur].server = TheServer /\ TheServer \in up
  BY <1>1, <1>2 DEF LinkInv, Disconnect_
<1>4. \A w \in Windows : wins[w].server = TheServer
  BY <1>3 DEF LinkInv
<1>5. \A w \in Windows : wins[w].waiting = {}
  BY <1>3, <1>4, Zenon DEF MayEnd, Disconnect_
<1>6. wins \in [Windows -> WindowStates]  BY <1>2, LinkTypes
<1>7. /\ new \in [Windows -> WindowStates]
      /\ \A w \in Windows : /\ new[w].server = None /\ new[w].old = wins[w].nchannels
                            /\ new[w].nchannels = {} /\ new[w].waiting = {}
  BY <1>4, <1>5, <1>6, Closed
<1>8. /\ wins' = new /\ up' = {} /\ Cut({TheServer})
      /\ UNCHANGED <<wanted, cur, timer, losses>>
  BY <1>1, <1>2, <1>3 DEF Disconnect_, LinkTypeOK
<1>9. commands' \in 0 .. MaxCommands
  BY <1>2, CommandCounts DEF Disconnect_
<1>10. /\ cur' \in Windows /\ timer' \in [Servers -> 0 .. MaxLosses]
       /\ losses' \in 0 .. MaxLosses /\ timer'[TheServer] <= losses'
  BY <1>2, <1>8 DEF LinkTypeOK, LinkInv
<1> HIDE DEF new
<1> QED  BY <1>3, <1>5, <1>7, <1>8, <1>9, <1>10, GoneKeeps

\* What is wanted when no connection is open, and where the windows stand then.
LEMMA WhileDown ==
    ASSUME LinkInv, TheServer \notin up
    PROVE  /\ wins \in [Windows -> WindowStates]
           /\ \A w \in Windows : /\ wins[w].server = None /\ wins[w].nchannels = {}
                                 /\ wins[w].waiting = {}
           /\ \A c \in wanted : \E w \in Windows : c \in wins[w].old
<1>1. \A w \in Windows : wins[w].server = None /\ wins[w].nchannels = {} /\ wins[w].waiting = {}
  BY DEF LinkInv
<1>2. wins \in [Windows -> WindowStates]  BY LinkTypes DEF LinkInv
<1>3. \A c \in wanted : \E w \in Windows :
         c \in wins[w].nchannels \/ c \in wins[w].waiting \/ c \in wins[w].old
  BY KeptMeans DEF LinkInv, ChannelsKept
<1> QED  BY <1>1, <1>2, <1>3

\* auto_reconnect() that connects.
LEMMA AutoReconnectKeeps ==
    ASSUME \E s : Servers = {s}, LinkInv, NEW s \in Servers, AutoReconnect(s)
    PROVE  LinkInv' /\ Begun'
<1> DEFINE v == Min(Lacking(TheServer))
           in == Login(wins, TheServer)
           took == Taken(in, v, TheServer)
           new == TakeThoseOf(took, TheServer)
<1>1. Servers = {TheServer} /\ TheServer # None  BY OneServer
<1>2. s = TheServer  BY <1>1
<1>3. LinkTypeOK /\ cur \in Windows /\ TheServer \notin up
  <2>1. PICK w \in Windows : wins[w].server = None  BY DEF AutoReconnect, Lacking
  <2> QED  BY <1>1, <2>1 DEF LinkInv, LinkTypeOK
<1>4. /\ wins \in [Windows -> WindowStates]
      /\ \A w \in Windows : /\ wins[w].server = None /\ wins[w].nchannels = {}
                            /\ wins[w].waiting = {}
      /\ \A c \in wanted : \E w \in Windows : c \in wins[w].old
  BY <1>3, WhileDown
<1>5. v \in Windows
  <2>1. Lacking(TheServer) # {} /\ Lacking(TheServer) \subseteq Windows
    BY <1>2 DEF AutoReconnect, Lacking
  <2>2. Min(Lacking(TheServer)) \in Lacking(TheServer)
    BY <2>1, WindowsNat, MinProperties
  <2> QED  BY <2>1, <2>2
<1>6. /\ in \in [Windows -> WindowStates]
      /\ \A w \in Windows : /\ in[w].server = TheServer /\ in[w].waiting = wins[w].old
                            /\ in[w].old = {} /\ in[w].nchannels = wins[w].nchannels
  BY <1>3, <1>4, LoggedIn
<1>7. wins' = new /\ Open(wins, TheServer, {}) /\ up' = {TheServer}
      /\ UNCHANGED <<cur, wanted, commands, losses>>
  BY <1>1, <1>2, <1>3 DEF AutoReconnect, LinkTypeOK
<1>8. /\ cur' \in Windows /\ commands' \in 0 .. MaxCommands /\ losses' \in 0 .. MaxLosses
      /\ timer' \in [Servers -> 0 .. MaxLosses] /\ timer'[TheServer] <= losses'
  <2>1. /\ timer \in [Servers -> 0 .. MaxLosses] /\ losses \in 0 .. MaxLosses
        /\ timer[TheServer] <= losses /\ MaxLosses \in Nat
        /\ cur \in Windows /\ commands \in 0 .. MaxCommands
    BY <1>3, ServerLinkAssumption DEF LinkInv, LinkTypeOK
  <2>2. timer' = [timer EXCEPT ![TheServer] = @ - 1] /\ timer[TheServer] > 0
    BY <1>2 DEF AutoReconnect
  <2> QED  BY <1>1, <1>7, <2>1, <2>2
<1> HIDE DEF v, in
<1>9. /\ took \in [Windows -> WindowStates]
      /\ \A w \in Windows : /\ took[w].server = TheServer /\ took[w].waiting = in[w].waiting
                            /\ took[w].old = in[w].old /\ took[w].nchannels = in[w].nchannels
  BY <1>5, <1>6, TakenKeeps
<1> HIDE DEF took
<1>10. /\ new \in [Windows -> WindowStates]
       /\ \A w \in Windows : /\ new[w].server = TheServer /\ new[w].waiting = took[w].waiting
                             /\ new[w].old = took[w].old /\ new[w].nchannels = took[w].nchannels
  BY <1>9, TakeThoseKeeps
<1> HIDE DEF new
<1>11. \A w \in Windows : /\ new[w].server = TheServer /\ new[w].old = {}
                          /\ new[w].nchannels = {} /\ new[w].waiting = wins[w].old
  BY <1>4, <1>6, <1>9, <1>10
<1> QED  BY ZenonT(30), <1>3, <1>4, <1>7, <1>8, <1>10, <1>11, OpenKeeps

\* What /server leaves of the connections: nothing, when it may connect again.
LEMMA LeftAlone ==
    ASSUME \E s : Servers = {s}, LossAnytime = FALSE, ConnectsTwice = FALSE, LinkInv,
           NEW s \in Servers, WindowServer(s)
    PROVE  /\ Left.ws \in [Windows -> WindowStates] /\ up \ Left.closed = {}
           /\ \A w \in Windows : /\ Left.ws[w].server = None /\ Left.ws[w].nchannels = {}
                                 /\ Left.ws[w].waiting = {}
           /\ \A c \in wanted : \E w \in Windows : c \in Left.ws[w].old
           /\ IF TheServer \in up
                THEN Left.closed = {TheServer} /\ \A w \in Windows : /\ wins[w].waiting = {}
                                                                  /\ Left.ws[w].old = wins[w].nchannels
                ELSE Left.closed = {} /\ Left.ws = wins
<1> DEFINE gone == CloseServer(wins, TheServer)
           made(w) == IF w = cur THEN [gone[w] EXCEPT !.last = None] ELSE gone[w]
<1>1. Servers = {TheServer} /\ TheServer # None  BY OneServer
<1>2. s = TheServer  BY <1>1
<1>3. LinkTypeOK /\ cur \in Windows /\ up \subseteq Servers
      /\ wins \in [Windows -> WindowStates]
  BY LinkTypes DEF LinkInv, LinkTypeOK
<1>4. CASE TheServer \notin up
  <2>1. /\ \A w \in Windows : /\ wins[w].server = None /\ wins[w].nchannels = {}
                              /\ wins[w].waiting = {}
        /\ \A c \in wanted : \E w \in Windows : c \in wins[w].old
    BY <1>4, WhileDown
  <2>2. wins[cur].server = None  BY <1>3, <2>1
  <2>3. Left = [ws |-> wins, closed |-> {}]  BY <2>2 DEF Left
  <2>4. Left.ws = wins /\ Left.closed = {} /\ up = {}  BY <1>1, <1>3, <1>4, <2>3
  <2> QED  BY <1>3, <1>4, <2>1, <2>4
<1>5. CASE TheServer \in up
  <2>1. \A w \in Windows : wins[w].server = TheServer /\ wins[w].old = {}
    BY <1>5 DEF LinkInv
  <2>2. wins[cur].server = TheServer  BY <1>3, <2>1
  <2>3. TheServer \notin up \ Left.closed  BY <1>2 DEF WindowServer
  <2>4. TheServer \in Left.closed  BY <1>5, <2>3
  <2>5. Left = [ws |-> [gone EXCEPT ![cur].last = None], closed |-> {TheServer}]
    <3>1. \/ Left = [ws |-> [gone EXCEPT ![cur].last = None], closed |-> {TheServer}]
          \/ Left = [ws |-> [wins EXCEPT ![cur].last = TheServer, ![cur].server = None],
                     closed |-> {}]
      BY <1>1, <2>2, Zenon DEF Left
    <3>2. Left # [ws |-> [wins EXCEPT ![cur].last = TheServer, ![cur].server = None],
                  closed |-> {}]
      BY <2>4
    <3> QED  BY <3>1, <3>2
  <2>6. MayEnd(TheServer)
    <3>1. wins[cur].server = None \/ MayEnd(wins[cur].server)  BY DEF WindowServer
    <3> QED  BY <1>1, <2>2, <3>1
  <2>7. \A w \in Windows : wins[w].waiting = {}
    BY <2>1, <2>6, Zenon DEF MayEnd
  <2>8. /\ gone \in [Windows -> WindowStates]
        /\ \A w \in Windows : /\ gone[w].server = None /\ gone[w].old = wins[w].nchannels
                              /\ gone[w].nchannels = {} /\ gone[w].waiting = wins[w].waiting
    BY <1>3, <2>1, Closed, Zenon
  <2> HIDE DEF gone
  <2>9. /\ Left.ws = [gone EXCEPT ![cur].last = None] /\ Left.closed = {TheServer}
        /\ up \ Left.closed = {}
    BY <1>1, <1>3, <2>5
  <2>10. Left.ws = [w \in Windows |-> made(w)]
    <3>1. \A w \in Windows : [gone EXCEPT ![cur].last = None][w] = made(w)
      BY <1>3, <2>8
    <3>2. [gone EXCEPT ![cur].last = None]
          = [w \in Windows |-> [gone EXCEPT ![cur].last = None][w]]
      BY <2>8
    <3> QED  BY <2>9, <3>1, <3>2
  <2>11. ASSUME NEW w \in Windows
         PROVE  /\ made(w) \in WindowStates /\ made(w).server = None
                /\ made(w).old = wins[w].nchannels /\ made(w).nchannels = {}
                /\ made(w).waiting = {}
    <3>1. gone[w] \in WindowStates  BY <2>8
    <3> QED  BY <2>7, <2>8, <3>1 DEF WindowStates
  <2> HIDE DEF made
  <2>12. /\ Left.ws \in [Windows -> WindowStates]
         /\ \A w \in Windows : /\ Left.ws[w].server = None /\ Left.ws[w].old = wins[w].nchannels
                               /\ Left.ws[w].nchannels = {} /\ Left.ws[w].waiting = {}
    BY <2>10, <2>11
  <2>13. \A c \in wanted : \E w \in Windows :
            c \in wins[w].nchannels \/ c \in wins[w].waiting \/ c \in wins[w].old
    BY KeptMeans DEF LinkInv, ChannelsKept
  <2>14. \A c \in wanted : \E w \in Windows : c \in Left.ws[w].old
    BY <2>1, <2>7, <2>12, <2>13
  <2> QED  BY <1>5, <2>7, <2>9, <2>12, <2>14
<1> QED  BY <1>4, <1>5

\* /server, whether the connection is accepted or refused.
LEMMA WindowServerKeeps ==
    ASSUME \E s : Servers = {s}, LossAnytime = FALSE, ConnectsTwice = FALSE, LinkInv,
           NEW s \in Servers, WindowServer(s)
    PROVE  LinkInv' /\ (TheServer \in up' => Begun')
<1> DEFINE in == Login(Left.ws, TheServer)
           new == Taken(in, cur, TheServer)
<1>1. Servers = {TheServer} /\ TheServer # None  BY OneServer
<1>2. s = TheServer  BY <1>1
<1>3. LinkTypeOK /\ cur \in Windows  BY DEF LinkInv, LinkTypeOK
<1>4. /\ Left.ws \in [Windows -> WindowStates] /\ up \ Left.closed = {}
      /\ \A w \in Windows : /\ Left.ws[w].server = None /\ Left.ws[w].nchannels = {}
                            /\ Left.ws[w].waiting = {}
      /\ \A c \in wanted : \E w \in Windows : c \in Left.ws[w].old
      /\ IF TheServer \in up
           THEN Left.closed = {TheServer} /\ \A w \in Windows : /\ wins[w].waiting = {}
                                                             /\ Left.ws[w].old = wins[w].nchannels
           ELSE Left.closed = {} /\ Left.ws = wins
  BY LeftAlone
<1>5. UNCHANGED <<cur, timer, wanted, losses>>  BY DEF WindowServer
<1>6. commands' \in 0 .. MaxCommands  BY <1>3, CommandCounts DEF WindowServer
<1>7. /\ cur' \in Windows /\ timer' \in [Servers -> 0 .. MaxLosses] /\ losses' \in 0 .. MaxLosses
      /\ timer'[TheServer] <= losses'
  BY <1>3, <1>5 DEF LinkInv, LinkTypeOK
<1>8. CASE /\ wins' = Taken(Login(Left.ws, s), cur, s)
           /\ up' = (up \ Left.closed) \cup {s}
           /\ Open(Left.ws, s, Left.closed)
  <2>1. /\ in \in [Windows -> WindowStates]
        /\ \A w \in Windows : /\ in[w].server = TheServer /\ in[w].waiting = Left.ws[w].old
                              /\ in[w].old = {} /\ in[w].nchannels = Left.ws[w].nchannels
    BY <1>3, <1>4, LoggedIn, Zenon
  <2>2. wins' = new /\ up' = {TheServer} /\ Open(Left.ws, TheServer, Left.closed)
    BY <1>2, <1>4, <1>8
  <2> HIDE DEF in
  <2>3. /\ new \in [Windows -> WindowStates]
        /\ \A w \in Windows : /\ new[w].server = TheServer /\ new[w].waiting = in[w].waiting
                              /\ new[w].old = in[w].old /\ new[w].nchannels = in[w].nchannels
    BY <1>3, <2>1, TakenKeeps, Zenon
  <2> HIDE DEF new
  <2>4. \A w \in Windows : /\ new[w].server = TheServer /\ new[w].old = {}
                           /\ new[w].nchannels = {} /\ new[w].waiting = Left.ws[w].old
    BY <1>4, <2>1, <2>3
  <2>5. UNCHANGED wanted  BY <1>5
  <2> HIDE <1>8
  <2>6. LinkInv' /\ Begun'
    BY ZenonT(60), <1>3, <1>4, <1>6, <1>7, <2>2, <2>3, <2>4, <2>5, OpenKeeps
  <2> QED  BY <2>6
<1>9. CASE wins' = Left.ws /\ up' = up \ Left.closed /\ Cut(Left.closed)
  <2>1. CASE TheServer \in up
    <3>1. /\ Left.closed = {TheServer}
          /\ \A w \in Windows : wins[w].waiting = {} /\ Left.ws[w].old = wins[w].nchannels
      BY <1>4, <2>1
    <3>2. wins' = Left.ws /\ up' = {} /\ Cut({TheServer}) /\ UNCHANGED wanted
      BY <1>4, <1>5, <1>9, <3>1
    <3>3. \A w \in Windows : /\ Left.ws[w].server = None /\ Left.ws[w].old = wins[w].nchannels
                             /\ Left.ws[w].nchannels = {} /\ Left.ws[w].waiting = {}
      BY <1>4, <3>1
    <3>4. \A w \in Windows : wins[w].waiting = {}  BY <3>1
    <3>5. Left.ws \in [Windows -> WindowStates]  BY <1>4
    <3> DEFINE left == Left.ws
    <3> HIDE DEF left
    <3>6. /\ left \in [Windows -> WindowStates] /\ wins' = left
          /\ \A w \in Windows : /\ left[w].server = None /\ left[w].old = wins[w].nchannels
                                /\ left[w].nchannels = {} /\ left[w].waiting = {}
      BY <3>2, <3>3, <3>5 DEF left
    <3>7. TheServer \notin up'  BY <3>2
    <3>8. LinkInv'  BY <1>6, <1>7, <2>1, <3>2, <3>4, <3>6, GoneKeeps
    <3> QED  BY <3>7, <3>8
  <2>2. CASE TheServer \notin up
    <3>1. /\ wins' = wins /\ up' = up /\ TheServer \notin up' /\ Cut({})
      BY <1>4, <1>9, <2>2
    <3>2. /\ requests \in [Servers -> Seq(Messages)] /\ replies \in [Servers -> Seq(Messages)]
          /\ member \in [Servers -> SUBSET Channels]
      BY <1>3 DEF LinkTypeOK
    <3>3. requests' = requests /\ replies' = replies /\ member' = member
      BY <3>1, <3>2 DEF Cut
    <3>4. LinkTypeOK'
      BY <1>3, <1>5, <1>6, <3>1, <3>3 DEF LinkTypeOK
    <3>5. ChannelsKept'
      BY <1>5, <3>1 DEF LinkInv, ChannelsKept
    <3>6. LinkInv'  BY <1>5, <2>2, <3>1, <3>3, <3>4, <3>5 DEF LinkInv
    <3> QED  BY <3>1, <3>6
  <2> QED  BY <2>1, <2>2
<1> QED  BY <1>8, <1>9 DEF WindowServer

\* One list of one window is replaced.
SetNchannels(ws, v, X) == [ws EXCEPT ![v].nchannels = X]
SetWaiting(ws, v, X) == [ws EXCEPT ![v].waiting = X]
SetOld(ws, v, X) == [ws EXCEPT ![v].old = X]

\* The channels a window is in are replaced.
LEMMA NchannelsReplaced ==
    ASSUME NEW ws \in [Windows -> WindowStates], NEW v \in Windows, NEW X \in SUBSET Channels
    PROVE  /\ SetNchannels(ws, v, X) \in [Windows -> WindowStates]
           /\ \A w \in Windows :
                /\ SetNchannels(ws, v, X)[w].server = ws[w].server
                /\ SetNchannels(ws, v, X)[w].waiting = ws[w].waiting
                /\ SetNchannels(ws, v, X)[w].old = ws[w].old
                /\ SetNchannels(ws, v, X)[w].nchannels = IF w = v THEN X ELSE ws[w].nchannels
<1> DEFINE new == SetNchannels(ws, v, X)
<1>1. ASSUME NEW w \in Windows
      PROVE  ws[w] \in WindowStates /\ [ws[w] EXCEPT !.nchannels = X] \in WindowStates
  BY DEF WindowStates
<1>2. new \in [Windows -> WindowStates]  BY <1>1 DEF SetNchannels
<1>3. ASSUME NEW w \in Windows
      PROVE  /\ new[w].server = ws[w].server /\ new[w].waiting = ws[w].waiting
             /\ new[w].old = ws[w].old
             /\ new[w].nchannels = IF w = v THEN X ELSE ws[w].nchannels
  BY <1>1 DEF WindowStates, SetNchannels
<1> QED  BY <1>2, <1>3

\* The channels a window waits for are replaced.
LEMMA WaitingReplaced ==
    ASSUME NEW ws \in [Windows -> WindowStates], NEW v \in Windows, NEW X \in SUBSET Channels
    PROVE  /\ SetWaiting(ws, v, X) \in [Windows -> WindowStates]
           /\ \A w \in Windows :
                /\ SetWaiting(ws, v, X)[w].server = ws[w].server
                /\ SetWaiting(ws, v, X)[w].nchannels = ws[w].nchannels
                /\ SetWaiting(ws, v, X)[w].old = ws[w].old
                /\ SetWaiting(ws, v, X)[w].waiting = IF w = v THEN X ELSE ws[w].waiting
<1> DEFINE new == SetWaiting(ws, v, X)
<1>1. ASSUME NEW w \in Windows
      PROVE  ws[w] \in WindowStates /\ [ws[w] EXCEPT !.waiting = X] \in WindowStates
  BY DEF WindowStates
<1>2. new \in [Windows -> WindowStates]  BY <1>1 DEF SetWaiting
<1>3. ASSUME NEW w \in Windows
      PROVE  /\ new[w].server = ws[w].server /\ new[w].nchannels = ws[w].nchannels
             /\ new[w].old = ws[w].old
             /\ new[w].waiting = IF w = v THEN X ELSE ws[w].waiting
  BY <1>1 DEF WindowStates, SetWaiting
<1> QED  BY <1>2, <1>3

\* The channels a window asks for at the next login are replaced.
LEMMA OldReplaced ==
    ASSUME NEW ws \in [Windows -> WindowStates], NEW v \in Windows, NEW X \in SUBSET Channels
    PROVE  /\ SetOld(ws, v, X) \in [Windows -> WindowStates]
           /\ \A w \in Windows :
                /\ SetOld(ws, v, X)[w].server = ws[w].server
                /\ SetOld(ws, v, X)[w].nchannels = ws[w].nchannels
                /\ SetOld(ws, v, X)[w].waiting = ws[w].waiting
                /\ SetOld(ws, v, X)[w].old = IF w = v THEN X ELSE ws[w].old
<1> DEFINE new == SetOld(ws, v, X)
<1>1. ASSUME NEW w \in Windows
      PROVE  ws[w] \in WindowStates /\ [ws[w] EXCEPT !.old = X] \in WindowStates
  BY DEF WindowStates
<1>2. new \in [Windows -> WindowStates]  BY <1>1 DEF SetOld
<1>3. ASSUME NEW w \in Windows
      PROVE  /\ new[w].server = ws[w].server /\ new[w].nchannels = ws[w].nchannels
             /\ new[w].waiting = ws[w].waiting
             /\ new[w].old = IF w = v THEN X ELSE ws[w].old
  BY <1>1 DEF WindowStates, SetOld
<1> QED  BY <1>2, <1>3

\* A step in which channels are joined, left or asked for while the connection is up.
LEMMA ChannelStep ==
    ASSUME LinkInv, TheServer \in up,
           NEW new \in [Windows -> WindowStates], wins' = new,
           \A w \in Windows : new[w].server = TheServer /\ new[w].old = {},
           requests' \in [Servers -> Seq(Messages)], replies' \in [Servers -> Seq(Messages)],
           member' \in [Servers -> SUBSET Channels], wanted' \subseteq Channels,
           commands' \in 0 .. MaxCommands, UNCHANGED <<cur, up, timer, losses>>,
           \A c \in wanted' : \E w \in Windows : c \in new[w].nchannels \/ c \in new[w].waiting
    PROVE  LinkInv'
<1>1. LinkTypeOK'
  BY TypesStay DEF LinkInv, LinkTypeOK
<1>2. wanted' \subseteq UNION {new[w].nchannels \cup new[w].waiting \cup new[w].old : w \in Windows}
  BY KeptMeans
<1>3. ChannelsKept'  BY <1>2 DEF ChannelsKept
<1> QED  BY <1>1, <1>3 DEF LinkInv

\* Where things stand while the connection is up.
LEMMA WhileUp ==
    ASSUME LinkInv, TheServer \in up
    PROVE  /\ LinkTypeOK /\ wins \in [Windows -> WindowStates] /\ cur \in Windows
           /\ \A w \in Windows : /\ wins[w].server = TheServer /\ wins[w].old = {}
                                 /\ wins[w].nchannels \subseteq Channels
                                 /\ wins[w].waiting \subseteq Channels
           /\ \A c \in wanted : \E w \in Windows : c \in wins[w].nchannels \/ c \in wins[w].waiting
           /\ OnServer(TheServer) = Windows
<1>1. LinkTypeOK /\ cur \in Windows  BY DEF LinkInv, LinkTypeOK
<1>2. \A w \in Windows : wins[w].server = TheServer /\ wins[w].old = {}
  BY DEF LinkInv
<1>3. \A c \in wanted : \E w \in Windows :
        c \in wins[w].nchannels \/ c \in wins[w].waiting \/ c \in wins[w].old
  BY KeptMeans DEF LinkInv, ChannelsKept
<1>4. OnServer(TheServer) = Windows  BY <1>2 DEF OnServer
<1> QED  BY <1>1, <1>2, <1>3, <1>4, LinkTypes

\* A message is added to those of the only server.
LEMMA MessageSent ==
    ASSUME \E s : Servers = {s}, NEW q \in [Servers -> Seq(Messages)], NEW m \in Messages
    PROVE  LET new == [q EXCEPT ![TheServer] = Append(@, m)]
           IN  /\ new \in [Servers -> Seq(Messages)]
               /\ new[TheServer] = Append(q[TheServer], m)
<1>1. TheServer \in Servers  BY OneServer
<1>2. q[TheServer] \in Seq(Messages)  BY <1>1
<1>3. Append(q[TheServer], m) \in Seq(Messages)  BY <1>2, AppendProperties
<1> QED  BY <1>1, <1>3

\* A message is taken from those of the only server.
LEMMA MessageTaken ==
    ASSUME \E s : Servers = {s}, NEW q \in [Servers -> Seq(Messages)], q[TheServer] # <<>>
    PROVE  LET new == [q EXCEPT ![TheServer] = Tail(@)]
           IN  /\ new \in [Servers -> Seq(Messages)]
               /\ new[TheServer] = Tail(q[TheServer])
               /\ Head(q[TheServer]) \in Messages
<1>1. TheServer \in Servers  BY OneServer
<1>2. q[TheServer] \in Seq(Messages)  BY <1>1
<1>3. Tail(q[TheServer]) \in Seq(Messages) /\ Head(q[TheServer]) \in Messages
  BY <1>2, HeadTailProperties
<1> QED  BY <1>1, <1>3

----------------------------------------------------------------------------
(* What the steps about channels do *)

\* /join while the connection is up: the channel moves here, or is asked for.
LEMMA JoincmdDoes ==
    ASSUME \E s : Servers = {s}, LinkInv, TheServer \in up, NEW c \in Channels, Joincmd(c)
    PROVE  /\ UNCHANGED <<cur, up, timer, replies, member, wanted, losses>>
           /\ wins' \in [Windows -> WindowStates]
           /\ \A w \in Windows : wins'[w].server = TheServer /\ wins'[w].old = {}
           /\ \/ /\ requests' = requests
                 /\ \A w \in Windows : wins'[w].waiting = wins[w].waiting
                 /\ \E v \in Windows :
                      /\ c \in wins[v].nchannels
                      /\ \A w \in Windows :
                           wins'[w].nchannels = IF w = cur THEN wins[w].nchannels \cup {c}
                                                ELSE IF w = v THEN wins[w].nchannels \ {c}
                                                ELSE wins[w].nchannels
              \/ /\ requests' = [requests EXCEPT ![TheServer] = Append(@, <<"join", c>>)]
                 /\ \A w \in Windows :
                      /\ c \notin wins[w].nchannels /\ wins'[w].nchannels = wins[w].nchannels
                      /\ wins'[w].waiting = IF w = cur THEN wins[w].waiting \cup {c}
                                                        ELSE wins[w].waiting
<1> DEFINE In == {w \in Windows : c \in wins[w].nchannels}
           lists(w) == IF w = cur THEN wins[w].nchannels \cup {c}
                       ELSE IF w = Min(In) THEN wins[w].nchannels \ {c} ELSE wins[w].nchannels
           made(w) == [wins[w] EXCEPT !.nchannels = lists(w)]
           asked == [wins EXCEPT ![cur].waiting = wins[cur].waiting \cup {c}]
<1>1. TheServer # None /\ TheServer \in Servers  BY OneServer
<1>2. /\ wins \in [Windows -> WindowStates] /\ cur \in Windows
      /\ \A w \in Windows : /\ wins[w].server = TheServer /\ wins[w].old = {}
                            /\ wins[w].nchannels \subseteq Channels
                            /\ wins[w].waiting \subseteq Channels
      /\ OnServer(TheServer) = Windows
  BY WhileUp
<1>3. UNCHANGED <<cur, up, timer, replies, member, wanted, losses>>  BY DEF Joincmd
<1>4. wins[cur].server = TheServer /\ OnServer(wins[cur].server) = Windows  BY <1>2
<1>5. IF In # {}
        THEN wins' = [w \in Windows |-> made(w)] /\ requests' = requests
        ELSE wins' = asked /\ requests' = [requests EXCEPT ![TheServer] = Append(@, <<"join", c>>)]
  <2>1. IF In # {}
          THEN wins' = [w \in Windows |-> made(w)] /\ requests' = requests
          ELSE /\ wins' = IF TheServer = None THEN [wins EXCEPT ![cur].old = @ \cup {c}]
                                              ELSE [wins EXCEPT ![cur].waiting = @ \cup {c}]
               /\ SendNcommand(TheServer, <<"join", c>>)
    BY <1>4 DEF Joincmd
  <2> HIDE DEF In, made
  <2> QED  BY <1>1, <2>1 DEF SendNcommand
<1>6. CASE In # {}
  <2>1. Min(In) \in In  BY <1>6, WindowsNat, MinProperties
  <2>2. Min(In) \in Windows /\ c \in wins[Min(In)].nchannels  BY <2>1
  <2>3. ASSUME NEW w \in Windows
        PROVE  /\ made(w) \in WindowStates /\ made(w).server = TheServer /\ made(w).old = {}
               /\ made(w).waiting = wins[w].waiting /\ made(w).nchannels = lists(w)
    <3>1. wins[w] \in WindowStates /\ lists(w) \subseteq Channels  BY <1>2
    <3> HIDE DEF lists, In
    <3> QED  BY <1>2, <3>1 DEF WindowStates
  <2> HIDE DEF made, In
  <2>4. wins' = [w \in Windows |-> made(w)] /\ requests' = requests  BY <1>5, <1>6
  <2>5. wins' \in [Windows -> WindowStates]  BY <2>3, <2>4
  <2>6. \A w \in Windows : /\ wins'[w].server = TheServer /\ wins'[w].old = {}
                           /\ wins'[w].waiting = wins[w].waiting /\ wins'[w].nchannels = lists(w)
    BY <2>3, <2>4
  <2> QED  BY ZenonT(60), <1>3, <2>2, <2>4, <2>5, <2>6
<1>7. CASE In = {}
  <2>1. wins' = asked /\ requests' = [requests EXCEPT ![TheServer] = Append(@, <<"join", c>>)]
    BY <1>5, <1>7
  <2>2. wins[cur].waiting \cup {c} \in SUBSET Channels  BY <1>2
  <2>3. /\ asked \in [Windows -> WindowStates]
        /\ \A w \in Windows :
             /\ asked[w].server = wins[w].server /\ asked[w].nchannels = wins[w].nchannels
             /\ asked[w].old = wins[w].old
             /\ asked[w].waiting = IF w = cur THEN wins[cur].waiting \cup {c} ELSE wins[w].waiting
    <3> DEFINE X == wins[cur].waiting \cup {c}
    <3>1. asked = SetWaiting(wins, cur, X) /\ X \in SUBSET Channels  BY <2>2 DEF SetWaiting
    <3> HIDE DEF X, asked
    <3>2. /\ asked \in [Windows -> WindowStates]
          /\ \A w \in Windows :
               /\ asked[w].server = wins[w].server /\ asked[w].nchannels = wins[w].nchannels
               /\ asked[w].old = wins[w].old
               /\ asked[w].waiting = IF w = cur THEN X ELSE wins[w].waiting
      BY <1>2, <3>1, WaitingReplaced
    <3> QED  BY <3>2 DEF X
  <2> HIDE DEF asked
  <2>4. \A w \in Windows : c \notin wins[w].nchannels  BY <1>7
  <2> QED  BY <1>2, <1>3, <2>1, <2>3, <2>4
<1> QED  BY <1>6, <1>7

\* /part: only what a window of the server is in can be left.
LEMMA PartcmdDoes ==
    ASSUME \E s : Servers = {s}, LinkInv, NEW c \in Channels, Partcmd(c)
    PROVE  /\ TheServer \in up /\ UNCHANGED <<cur, up, timer, replies, member, losses>>
           /\ wins' \in [Windows -> WindowStates] /\ wanted' = wanted \ {c}
           /\ requests' = [requests EXCEPT ![TheServer] = Append(@, <<"part", c>>)]
           /\ \E v \in Windows : \A w \in Windows :
                /\ wins'[w].server = TheServer /\ wins'[w].old = {}
                /\ wins'[w].waiting = wins[w].waiting
                /\ wins'[w].nchannels = IF w = v THEN wins[w].nchannels \ {c}
                                                 ELSE wins[w].nchannels
<1> DEFINE In == {w \in OnServer(wins[cur].server) : c \in wins[w].nchannels}
           v == IF c \in wins[cur].nchannels THEN cur ELSE Min(In)
           new == [wins EXCEPT ![v].nchannels = wins[v].nchannels \ {c}]
<1>1. TheServer # None  BY OneServer
<1>2. cur \in Windows  BY DEF LinkInv, LinkTypeOK
<1>3. /\ c \in wins[cur].nchannels \/ In # {}
      /\ wins' = new /\ SendNcommand(wins[cur].server, <<"part", c>>)
      /\ wanted' = wanted \ {c} /\ UNCHANGED <<cur, up, timer, replies, member, losses>>
  BY DEF Partcmd
<1>4. In \subseteq Windows  BY DEF OnServer
<1>5. v \in Windows /\ c \in wins[v].nchannels
  <2>1. CASE c \in wins[cur].nchannels  BY <1>2, <2>1
  <2>2. CASE c \notin wins[cur].nchannels
    <3>1. Min(In) \in In  BY <1>3, <1>4, <2>2, WindowsNat, MinProperties
    <3>2. v = Min(In)  BY <2>2
    <3> QED  BY <1>4, <3>1, <3>2
  <2> QED  BY <2>1, <2>2
<1> HIDE DEF v, In
<1>6. TheServer \in up  BY <1>5 DEF LinkInv
<1>7. /\ wins \in [Windows -> WindowStates]
      /\ \A w \in Windows : /\ wins[w].server = TheServer /\ wins[w].old = {}
                            /\ wins[w].nchannels \subseteq Channels
  BY <1>6, WhileUp
<1>8. wins[v].nchannels \ {c} \in SUBSET Channels  BY <1>5, <1>7
<1>9. /\ new \in [Windows -> WindowStates]
      /\ \A w \in Windows :
           /\ new[w].server = wins[w].server /\ new[w].waiting = wins[w].waiting
           /\ new[w].old = wins[w].old
           /\ new[w].nchannels = IF w = v THEN wins[v].nchannels \ {c} ELSE wins[w].nchannels
  <2> DEFINE X == wins[v].nchannels \ {c}
  <2>1. new = SetNchannels(wins, v, X) /\ X \in SUBSET Channels  BY <1>8 DEF SetNchannels
  <2> HIDE DEF X, new
  <2>2. /\ new \in [Windows -> WindowStates]
        /\ \A w \in Windows :
             /\ new[w].server = wins[w].server /\ new[w].waiting = wins[w].waiting
             /\ new[w].old = wins[w].old
             /\ new[w].nchannels = IF w = v THEN X ELSE wins[w].nchannels
    BY <1>5, <1>7, <2>1, NchannelsReplaced
  <2> QED  BY <2>2 DEF X
<1> HIDE DEF new
<1>10. requests' = [requests EXCEPT ![TheServer] = Append(@, <<"part", c>>)]
  BY <1>1, <1>2, <1>3, <1>7 DEF SendNcommand
<1> QED  BY ZenonT(60), <1>3, <1>5, <1>6, <1>7, <1>9, <1>10

\* 405: the first window that knows of the channel is in it from now on.
LEMMA CmdJoinedDoes ==
    ASSUME \E s : Servers = {s}, LinkInv, NEW s \in Servers, NEW c \in Channels, CmdJoined(s, c)
    PROVE  /\ TheServer \in up /\ UNCHANGED <<cur, up, timer, requests, member, commands, losses>>
           /\ replies[TheServer] # <<>> /\ Head(replies[TheServer]) = <<"join", c>>
           /\ replies' = [replies EXCEPT ![TheServer] = Tail(@)]
           /\ wanted' = wanted \cup {c} /\ wins' \in [Windows -> WindowStates]
           /\ \E v \in Windows : \A w \in Windows :
                /\ c \in wins[w].nchannels \cup wins[w].waiting =>
                     v <= w /\ c \in wins[v].nchannels \cup wins[v].waiting
                /\ wins'[w].server = TheServer /\ wins'[w].old = {}
                /\ wins'[w].nchannels = IF w = v THEN wins[w].nchannels \cup {c}
                                                 ELSE wins[w].nchannels
                /\ wins'[w].waiting = IF w = v /\ c \notin wins[v].nchannels
                                        THEN wins[w].waiting \ {c} ELSE wins[w].waiting
<1> DEFINE Knows == {w \in Windows : c \in wins[w].nchannels \cup wins[w].waiting}
           v == IF Knows = {} THEN cur ELSE Min(Knows)
           X == wins[v].waiting \ {c}
           Y == wins[v].nchannels \cup {c}
           mid == SetWaiting(wins, v, X)
           new == SetNchannels(mid, v, Y)
<1>1. s = TheServer  BY OneServer
<1>2. /\ replies[TheServer] # <<>> /\ Head(replies[TheServer]) = <<"join", c>>
      /\ replies' = [replies EXCEPT ![TheServer] = Tail(@)] /\ wanted' = wanted \cup {c}
      /\ UNCHANGED <<cur, up, timer, requests, member, commands, losses>>
      /\ AddJoined(TheServer, c)
  BY <1>1 DEF CmdJoined, Received
<1>3. TheServer \in up  BY <1>2 DEF LinkInv
<1>4. /\ wins \in [Windows -> WindowStates] /\ cur \in Windows
      /\ \A w \in Windows : /\ wins[w].server = TheServer /\ wins[w].old = {}
                            /\ wins[w].nchannels \subseteq Channels
                            /\ wins[w].waiting \subseteq Channels
      /\ OnServer(TheServer) = Windows
  BY <1>3, WhileUp
<1>5. v \in Windows /\ (Knows # {} => v \in Knows) /\ \A w \in Knows : v <= w
  <2>1. CASE Knows = {}  BY <1>4, <2>1
  <2>2. CASE Knows # {}
    <3>1. Knows \in SUBSET Nat  BY WindowsNat
    <3> HIDE DEF Knows
    <3>2. Min(Knows) \in Knows /\ \A w \in Knows : Min(Knows) <= w
      BY <2>2, <3>1, MinProperties
    <3>3. v = Min(Knows)  BY <2>2
    <3>4. Knows \subseteq Windows  BY DEF Knows
    <3> QED  BY <3>2, <3>3, <3>4
  <2> QED  BY <2>1, <2>2
<1>6. ASSUME NEW w \in Windows, c \in wins[w].nchannels \cup wins[w].waiting
      PROVE  v <= w /\ c \in wins[v].nchannels \cup wins[v].waiting
  <2>1. w \in Knows  BY <1>6
  <2> HIDE DEF v
  <2> QED  BY <1>5, <2>1
<1>7. X \in SUBSET Channels /\ Y \in SUBSET Channels
  <2> HIDE DEF v
  <2> QED  BY <1>4, <1>5
<1>8. Knows = {} => c \notin wins[v].waiting /\ c \notin wins[v].nchannels
  <2> HIDE DEF v
  <2> QED  BY <1>5
<1>9. wins' = IF Knows # {} /\ c \in wins[v].nchannels THEN wins
              ELSE [wins EXCEPT ![v].waiting = IF Knows = {} THEN @ ELSE @ \ {c},
                                ![v].nchannels = @ \cup {c}]
  BY <1>2, <1>4, Zenon DEF AddJoined
<1> HIDE DEF v, Knows
<1>10. CASE c \in wins[v].nchannels
  <2>1. wins' = wins
    BY <1>8, <1>9, <1>10
  <2>2. \A w \in Windows :
           wins[w].nchannels = IF w = v THEN wins[w].nchannels \cup {c} ELSE wins[w].nchannels
    BY <1>10
  <2> QED  BY <1>2, <1>3, <1>4, <1>5, <1>6, <1>10, <2>1, <2>2
<1>11. CASE c \notin wins[v].nchannels
  <2>1. wins' = [wins EXCEPT ![v].waiting = IF Knows = {} THEN @ ELSE @ \ {c},
                             ![v].nchannels = @ \cup {c}]
    BY <1>9, <1>11, Zenon
  <2>2. (IF Knows = {} THEN wins[v].waiting ELSE wins[v].waiting \ {c}) = X
    BY <1>8
  <2>3. wins' = [wins EXCEPT ![v].waiting = X, ![v].nchannels = Y]
    BY <2>1, <2>2
  <2>4. [wins EXCEPT ![v].waiting = X, ![v].nchannels = Y]
        = [[wins EXCEPT ![v].waiting = X] EXCEPT ![v].nchannels = Y]
    <3> HIDE DEF X, Y
    <3> QED  BY <1>4, <1>5
  <2> HIDE DEF X, Y
  <2>5. wins' = new  BY <2>3, <2>4 DEF SetWaiting, SetNchannels
  <2>6. /\ mid \in [Windows -> WindowStates]
        /\ \A w \in Windows :
             /\ mid[w].server = wins[w].server /\ mid[w].nchannels = wins[w].nchannels
             /\ mid[w].old = wins[w].old
             /\ mid[w].waiting = IF w = v THEN X ELSE wins[w].waiting
    BY <1>4, <1>5, <1>7, WaitingReplaced
  <2> HIDE DEF mid
  <2>7. /\ new \in [Windows -> WindowStates]
        /\ \A w \in Windows :
             /\ new[w].server = mid[w].server /\ new[w].waiting = mid[w].waiting
             /\ new[w].old = mid[w].old
             /\ new[w].nchannels = IF w = v THEN Y ELSE mid[w].nchannels
    BY <1>5, <1>7, <2>6, NchannelsReplaced
  <2> HIDE DEF new
  <2>8. /\ wins' \in [Windows -> WindowStates]
        /\ \A w \in Windows :
             /\ wins'[w].server = TheServer /\ wins'[w].old = {}
             /\ wins'[w].nchannels = IF w = v THEN Y ELSE wins[w].nchannels
             /\ wins'[w].waiting = IF w = v THEN X ELSE wins[w].waiting
    BY <1>4, <2>5, <2>6, <2>7
  <2>9. \A w \in Windows :
             /\ wins'[w].nchannels = IF w = v THEN wins[w].nchannels \cup {c} ELSE wins[w].nchannels
             /\ wins'[w].waiting = IF w = v /\ c \notin wins[v].nchannels
                                     THEN wins[w].waiting \ {c} ELSE wins[w].waiting
    BY <1>11, <2>8 DEF X, Y
  <2> QED  BY <1>2, <1>3, <1>5, <1>6, <2>8, <2>9
<1> QED  BY <1>10, <1>11

\* 401: the first window that is in the channel leaves it.
LEMMA CmdPartchannelDoes ==
    ASSUME \E s : Servers = {s}, LinkInv, NEW s \in Servers, NEW c \in Channels,
           CmdPartchannel(s, c)
    PROVE  /\ TheServer \in up /\ UNCHANGED <<cur, up, timer, requests, member, commands, losses>>
           /\ replies[TheServer] # <<>> /\ Head(replies[TheServer]) = <<"part", c>>
           /\ replies' = [replies EXCEPT ![TheServer] = Tail(@)]
           /\ wins' \in [Windows -> WindowStates]
           /\ \A w \in Windows : /\ wins'[w].server = TheServer /\ wins'[w].old = {}
                                 /\ wins'[w].waiting = wins[w].waiting
           /\ \/ /\ wins' = wins /\ wanted' = wanted
                 /\ \A w \in Windows : c \notin wins[w].nchannels
              \/ /\ wanted' = wanted \ {c}
                 /\ \E v \in Windows :
                      /\ c \in wins[v].nchannels
                      /\ \A w \in Windows :
                           wins'[w].nchannels = IF w = v THEN wins[w].nchannels \ {c}
                                                         ELSE wins[w].nchannels
<1> DEFINE In == {w \in Windows : c \in wins[w].nchannels}
           v == Min(In)
           X == wins[v].nchannels \ {c}
           new == SetNchannels(wins, v, X)
<1>1. s = TheServer  BY OneServer
<1>2. /\ replies[TheServer] # <<>> /\ Head(replies[TheServer]) = <<"part", c>>
      /\ replies' = [replies EXCEPT ![TheServer] = Tail(@)]
      /\ UNCHANGED <<cur, up, timer, requests, member, commands, losses>>
  BY <1>1 DEF CmdPartchannel, Received
<1>3. TheServer \in up  BY <1>2 DEF LinkInv
<1>4. /\ wins \in [Windows -> WindowStates]
      /\ \A w \in Windows : /\ wins[w].server = TheServer /\ wins[w].old = {}
                            /\ wins[w].nchannels \subseteq Channels
      /\ OnServer(TheServer) = Windows
  BY <1>3, WhileUp
<1>5. /\ wins' = IF In = {} THEN wins ELSE [wins EXCEPT ![Min(In)].nchannels = @ \ {c}]
      /\ wanted' = IF In = {} THEN wanted ELSE wanted \ {c}
  BY <1>1, <1>4, Zenon DEF CmdPartchannel
<1>6. CASE In = {}
  <2>1. wins' = wins /\ wanted' = wanted  BY <1>5, <1>6
  <2>2. \A w \in Windows : c \notin wins[w].nchannels  BY <1>6
  <2> QED  BY <1>2, <1>3, <1>4, <2>1, <2>2
<1>7. CASE In # {}
  <2>1. v \in In  BY <1>7, WindowsNat, MinProperties
  <2>2. v \in Windows /\ c \in wins[v].nchannels  BY <2>1
  <2>3. wins' = new /\ wanted' = wanted \ {c}
    <3>1. wins' = [wins EXCEPT ![v].nchannels = X] /\ wanted' = wanted \ {c}
      BY <1>5, <1>7
    <3> QED  BY <3>1 DEF SetNchannels
  <2> HIDE DEF v, In
  <2>4. X \in SUBSET Channels  BY <1>4, <2>2
  <2> HIDE DEF X
  <2>5. /\ new \in [Windows -> WindowStates]
        /\ \A w \in Windows :
             /\ new[w].server = wins[w].server /\ new[w].waiting = wins[w].waiting
             /\ new[w].old = wins[w].old
             /\ new[w].nchannels = IF w = v THEN X ELSE wins[w].nchannels
    BY <1>4, <2>2, <2>4, NchannelsReplaced
  <2> HIDE DEF new
  <2>6. \A w \in Windows :
           wins'[w].nchannels = IF w = v THEN wins[w].nchannels \ {c} ELSE wins[w].nchannels
    BY <2>3, <2>5 DEF X
  <2>7. /\ wins' \in [Windows -> WindowStates]
        /\ \A w \in Windows : /\ wins'[w].server = TheServer /\ wins'[w].old = {}
                              /\ wins'[w].waiting = wins[w].waiting
    BY <1>4, <2>3, <2>5
  <2> QED  BY <1>2, <1>3, <2>2, <2>3, <2>6, <2>7
<1> QED  BY <1>6, <1>7

----------------------------------------------------------------------------
(* The steps about channels keep LinkInv *)

\* /join.
LEMMA JoincmdKeeps ==
    ASSUME \E s : Servers = {s}, LinkInv, NEW c \in Channels, Joincmd(c)
    PROVE  LinkInv'
<1>1. LinkTypeOK /\ cur \in Windows /\ wins \in [Windows -> WindowStates]
  BY LinkTypes DEF LinkInv, LinkTypeOK
<1>2. commands' \in 0 .. MaxCommands  BY <1>1, CommandCounts DEF Joincmd
<1>3. <<"join", c>> \in Messages  BY DEF Messages
<1>4. /\ requests \in [Servers -> Seq(Messages)] /\ replies \in [Servers -> Seq(Messages)]
      /\ member \in [Servers -> SUBSET Channels] /\ wanted \subseteq Channels
  BY <1>1 DEF LinkTypeOK
<1>5. CASE TheServer \in up
  <2>1. /\ UNCHANGED <<cur, up, timer, replies, member, wanted, losses>>
        /\ wins' \in [Windows -> WindowStates]
        /\ \A w \in Windows : wins'[w].server = TheServer /\ wins'[w].old = {}
        /\ \/ /\ requests' = requests
              /\ \A w \in Windows : wins'[w].waiting = wins[w].waiting
              /\ \E v \in Windows :
                   /\ c \in wins[v].nchannels
                   /\ \A w \in Windows :
                        wins'[w].nchannels = IF w = cur THEN wins[w].nchannels \cup {c}
                                             ELSE IF w = v THEN wins[w].nchannels \ {c}
                                             ELSE wins[w].nchannels
           \/ /\ requests' = [requests EXCEPT ![TheServer] = Append(@, <<"join", c>>)]
              /\ \A w \in Windows :
                   /\ c \notin wins[w].nchannels /\ wins'[w].nchannels = wins[w].nchannels
                   /\ wins'[w].waiting = IF w = cur THEN wins[w].waiting \cup {c}
                                                     ELSE wins[w].waiting
    BY <1>5, JoincmdDoes
  <2>2. requests' \in [Servers -> Seq(Messages)]
    <3>1. [requests EXCEPT ![TheServer] = Append(@, <<"join", c>>)] \in [Servers -> Seq(Messages)]
      BY <1>3, <1>4, MessageSent
    <3> QED  BY <1>4, <2>1, <3>1
  <2>3. \A d \in wanted : \E w \in Windows : d \in wins[w].nchannels \/ d \in wins[w].waiting
    BY <1>5, WhileUp
  <2>4. ASSUME NEW d \in wanted
        PROVE  \E w \in Windows : d \in wins'[w].nchannels \/ d \in wins'[w].waiting
    <3>1. PICK w \in Windows : d \in wins[w].nchannels \/ d \in wins[w].waiting  BY <2>3
    <3>2. CASE d = c /\ requests' = requests
      <4>1. c \in wins'[cur].nchannels \/ c \in wins'[cur].waiting
        BY <1>1, <2>1
      <4> QED  BY <1>1, <3>2, <4>1
    <3>3. CASE d # c
      <4>1. d \in wins'[w].nchannels \/ d \in wins'[w].waiting
        BY <2>1, <3>1, <3>3
      <4> QED  BY <4>1
    <3>4. CASE \A u \in Windows : /\ wins'[u].nchannels = wins[u].nchannels
                                 /\ wins[u].waiting \subseteq wins'[u].waiting
      BY <3>1, <3>4
    <3> QED  BY <2>1, <3>2, <3>3, <3>4
  <2>5. UNCHANGED <<cur, up, timer, losses>> /\ wanted' = wanted /\ replies' = replies
        /\ member' = member
    BY <2>1
  <2> DEFINE new == wins'
  <2>6. /\ new \in [Windows -> WindowStates] /\ wins' = new
        /\ \A w \in Windows : new[w].server = TheServer /\ new[w].old = {}
        /\ \A d \in wanted' : \E w \in Windows : d \in new[w].nchannels \/ d \in new[w].waiting
    BY <2>1, <2>4, <2>5
  <2> HIDE DEF new
  <2> QED  BY <1>2, <1>4, <1>5, <2>2, <2>5, <2>6, ChannelStep
<1>6. CASE TheServer \notin up
  <2> DEFINE X == wins[cur].old \cup {c}
             new == SetOld(wins, cur, X)
  <2>1. /\ wins \in [Windows -> WindowStates]
        /\ \A w \in Windows : /\ wins[w].server = None /\ wins[w].nchannels = {}
                              /\ wins[w].waiting = {}
        /\ \A d \in wanted : \E w \in Windows : d \in wins[w].old
    BY <1>6, WhileDown
  <2>2. wins[cur].server = None /\ {w \in OnServer(None) : c \in wins[w].nchannels} = {}
    BY <1>1, <2>1 DEF OnServer
  <2>3. wins' = new /\ requests' = requests
        /\ UNCHANGED <<cur, up, timer, replies, member, wanted, losses>>
    BY <2>2 DEF Joincmd, SendNcommand, SetOld
  <2>4. X \in SUBSET Channels  BY <1>1, LinkTypes
  <2> HIDE DEF X
  <2>5. /\ new \in [Windows -> WindowStates]
        /\ \A w \in Windows :
             /\ new[w].server = wins[w].server /\ new[w].nchannels = wins[w].nchannels
             /\ new[w].waiting = wins[w].waiting
             /\ new[w].old = IF w = cur THEN X ELSE wins[w].old
    BY <1>1, <2>1, <2>4, OldReplaced
  <2> HIDE DEF new
  <2>6. LinkTypeOK'
    BY <1>1, <1>2, <2>3, <2>5, TypesStay DEF LinkTypeOK
  <2>7. \A d \in wanted : \E w \in Windows :
           d \in new[w].nchannels \/ d \in new[w].waiting \/ d \in new[w].old
    BY <2>1, <2>5 DEF X
  <2>8. ChannelsKept'
    <3>1. wanted \subseteq UNION {new[w].nchannels \cup new[w].waiting \cup new[w].old : w \in Windows}
      BY <2>7, KeptMeans
    <3> QED  BY <2>3, <3>1 DEF ChannelsKept
  <2>9. \A w \in Windows : /\ wins'[w].server = None /\ wins'[w].nchannels = {}
                           /\ wins'[w].waiting = {}
    BY <2>1, <2>3, <2>5
  <2> QED  BY <1>6, <2>3, <2>6, <2>8, <2>9 DEF LinkInv
<1> QED  BY <1>5, <1>6

\* /part.
LEMMA PartcmdKeeps ==
    ASSUME \E s : Servers = {s}, LinkInv, NEW c \in Channels, Partcmd(c)
    PROVE  LinkInv'
<1>1. LinkTypeOK  BY DEF LinkInv
<1>2. commands' \in 0 .. MaxCommands  BY <1>1, CommandCounts DEF Partcmd
<1>3. <<"part", c>> \in Messages  BY DEF Messages
<1>4. /\ requests \in [Servers -> Seq(Messages)] /\ replies \in [Servers -> Seq(Messages)]
      /\ member \in [Servers -> SUBSET Channels] /\ wanted \subseteq Channels
  BY <1>1 DEF LinkTypeOK
<1>5. /\ TheServer \in up /\ UNCHANGED <<cur, up, timer, replies, member, losses>>
      /\ wins' \in [Windows -> WindowStates] /\ wanted' = wanted \ {c}
      /\ requests' = [requests EXCEPT ![TheServer] = Append(@, <<"part", c>>)]
      /\ \E v \in Windows : \A w \in Windows :
           /\ wins'[w].server = TheServer /\ wins'[w].old = {}
           /\ wins'[w].waiting = wins[w].waiting
           /\ wins'[w].nchannels = IF w = v THEN wins[w].nchannels \ {c} ELSE wins[w].nchannels
  BY PartcmdDoes
<1>6. requests' \in [Servers -> Seq(Messages)]  BY <1>3, <1>4, <1>5, MessageSent
<1>7. \A d \in wanted : \E w \in Windows : d \in wins[w].nchannels \/ d \in wins[w].waiting
  BY <1>5, WhileUp
<1>8. ASSUME NEW d \in wanted \ {c}
      PROVE  \E w \in Windows : d \in wins'[w].nchannels \/ d \in wins'[w].waiting
  <2>1. PICK w \in Windows : d \in wins[w].nchannels \/ d \in wins[w].waiting  BY <1>7
  <2>2. d \in wins'[w].nchannels \/ d \in wins'[w].waiting  BY <1>5, <2>1
  <2> QED  BY <2>2
<1> DEFINE new == wins'
<1>9. /\ new \in [Windows -> WindowStates] /\ wins' = new
      /\ \A w \in Windows : new[w].server = TheServer /\ new[w].old = {}
      /\ \A d \in wanted' : \E w \in Windows : d \in new[w].nchannels \/ d \in new[w].waiting
  BY <1>5, <1>8
<1> HIDE DEF new
<1>10. UNCHANGED <<cur, up, timer, losses>> /\ wanted' \subseteq Channels /\ replies' = replies
       /\ member' = member
  BY <1>4, <1>5
<1>11. TheServer \in up  BY <1>5
<1> QED  BY <1>2, <1>4, <1>6, <1>9, <1>10, <1>11, ChannelStep

\* A join that is acknowledged.
LEMMA CmdJoinedKeeps ==
    ASSUME \E s : Servers = {s}, LinkInv, NEW s \in Servers, NEW c \in Channels, CmdJoined(s, c)
    PROVE  LinkInv'
<1>1. LinkTypeOK  BY DEF LinkInv
<1>2. /\ requests \in [Servers -> Seq(Messages)] /\ replies \in [Servers -> Seq(Messages)]
      /\ member \in [Servers -> SUBSET Channels] /\ wanted \subseteq Channels
      /\ commands \in 0 .. MaxCommands
  BY <1>1 DEF LinkTypeOK
<1>3. /\ TheServer \in up /\ UNCHANGED <<cur, up, timer, requests, member, commands, losses>>
      /\ replies[TheServer] # <<>>
      /\ replies' = [replies EXCEPT ![TheServer] = Tail(@)]
      /\ wanted' = wanted \cup {c} /\ wins' \in [Windows -> WindowStates]
  BY CmdJoinedDoes
<1>4. PICK v \in Windows : \A w \in Windows :
        /\ c \in wins[w].nchannels \cup wins[w].waiting =>
             v <= w /\ c \in wins[v].nchannels \cup wins[v].waiting
        /\ wins'[w].server = TheServer /\ wins'[w].old = {}
        /\ wins'[w].nchannels = IF w = v THEN wins[w].nchannels \cup {c} ELSE wins[w].nchannels
        /\ wins'[w].waiting = IF w = v /\ c \notin wins[v].nchannels
                                THEN wins[w].waiting \ {c} ELSE wins[w].waiting
  BY CmdJoinedDoes
<1>5. replies' \in [Servers -> Seq(Messages)]  BY <1>2, <1>3, MessageTaken
<1>6. \A d \in wanted : \E w \in Windows : d \in wins[w].nchannels \/ d \in wins[w].waiting
  BY <1>3, WhileUp
<1>7. ASSUME NEW d \in wanted \cup {c}
      PROVE  \E w \in Windows : d \in wins'[w].nchannels \/ d \in wins'[w].waiting
  <2>1. CASE d = c
    <3>1. c \in wins'[v].nchannels  BY <1>4
    <3> QED  BY <2>1, <3>1
  <2>2. CASE d # c
    <3>1. PICK w \in Windows : d \in wins[w].nchannels \/ d \in wins[w].waiting
      BY <1>6, <2>2
    <3>2. d \in wins'[w].nchannels \/ d \in wins'[w].waiting  BY <1>4, <2>2, <3>1
    <3> QED  BY <3>2
  <2> QED  BY <2>1, <2>2
<1> DEFINE new == wins'
<1>8. /\ new \in [Windows -> WindowStates] /\ wins' = new
      /\ \A w \in Windows : new[w].server = TheServer /\ new[w].old = {}
      /\ \A d \in wanted' : \E w \in Windows : d \in new[w].nchannels \/ d \in new[w].waiting
  BY <1>3, <1>4, <1>7
<1> HIDE DEF new
<1>9. UNCHANGED <<cur, up, timer, losses>> /\ wanted' \subseteq Channels
      /\ requests' = requests /\ member' = member /\ commands' = commands /\ TheServer \in up
  BY <1>2, <1>3
<1> HIDE <1>4
<1> QED  BY <1>2, <1>5, <1>8, <1>9, ChannelStep

\* A part that is acknowledged.
LEMMA CmdPartchannelKeeps ==
    ASSUME \E s : Servers = {s}, LinkInv, NEW s \in Servers, NEW c \in Channels,
           CmdPartchannel(s, c)
    PROVE  LinkInv'
<1>1. LinkTypeOK  BY DEF LinkInv
<1>2. /\ requests \in [Servers -> Seq(Messages)] /\ replies \in [Servers -> Seq(Messages)]
      /\ member \in [Servers -> SUBSET Channels] /\ wanted \subseteq Channels
      /\ commands \in 0 .. MaxCommands
  BY <1>1 DEF LinkTypeOK
<1>3. /\ TheServer \in up /\ UNCHANGED <<cur, up, timer, requests, member, commands, losses>>
      /\ replies[TheServer] # <<>>
      /\ replies' = [replies EXCEPT ![TheServer] = Tail(@)]
      /\ wins' \in [Windows -> WindowStates]
      /\ \A w \in Windows : /\ wins'[w].server = TheServer /\ wins'[w].old = {}
                            /\ wins'[w].waiting = wins[w].waiting
      /\ \/ /\ wins' = wins /\ wanted' = wanted
            /\ \A w \in Windows : c \notin wins[w].nchannels
         \/ /\ wanted' = wanted \ {c}
            /\ \E v \in Windows :
                 /\ c \in wins[v].nchannels
                 /\ \A w \in Windows :
                      wins'[w].nchannels = IF w = v THEN wins[w].nchannels \ {c}
                                                    ELSE wins[w].nchannels
  BY CmdPartchannelDoes
<1>4. replies' \in [Servers -> Seq(Messages)]  BY <1>2, <1>3, MessageTaken
<1>5. \A d \in wanted : \E w \in Windows : d \in wins[w].nchannels \/ d \in wins[w].waiting
  BY <1>3, WhileUp
<1>6. wanted' \subseteq wanted  BY <1>3
<1>7. ASSUME NEW d \in wanted'
      PROVE  \E w \in Windows : d \in wins'[w].nchannels \/ d \in wins'[w].waiting
  <2>1. PICK w \in Windows : d \in wins[w].nchannels \/ d \in wins[w].waiting
    BY <1>5, <1>6
  <2>2. d \in wins'[w].nchannels \/ d \in wins'[w].waiting  BY <1>3, <2>1
  <2> QED  BY <2>2
<1> DEFINE new == wins'
<1>8. /\ new \in [Windows -> WindowStates] /\ wins' = new
      /\ \A w \in Windows : new[w].server = TheServer /\ new[w].old = {}
      /\ \A d \in wanted' : \E w \in Windows : d \in new[w].nchannels \/ d \in new[w].waiting
  BY <1>3, <1>7
<1> HIDE DEF new
<1>9. UNCHANGED <<cur, up, timer, losses>> /\ wanted' \subseteq Channels
      /\ requests' = requests /\ member' = member /\ commands' = commands /\ TheServer \in up
  BY <1>2, <1>3, <1>6
<1> QED  BY <1>2, <1>4, <1>8, <1>9, ChannelStep

\* The server's answer.
LEMMA ServerAnswersKeeps ==
    ASSUME \E s : Servers = {s}, LinkInv, NEW s \in Servers, ServerAnswers(s)
    PROVE  LinkInv'
<1>1. s = TheServer /\ TheServer \in Servers  BY OneServer
<1>2. LinkTypeOK  BY DEF LinkInv
<1>3. /\ requests \in [Servers -> Seq(Messages)] /\ replies \in [Servers -> Seq(Messages)]
      /\ member \in [Servers -> SUBSET Channels]
  BY <1>2 DEF LinkTypeOK
<1> DEFINE c == Head(requests[TheServer])[2]
<1>4. /\ requests[TheServer] # <<>> /\ requests' = [requests EXCEPT ![TheServer] = Tail(@)]
      /\ UNCHANGED <<wins, cur, up, timer, wanted, commands, losses>>
      /\ \/ member' = [member EXCEPT ![TheServer] = @ \cup {c}]
         \/ member' = member
         \/ member' = [member EXCEPT ![TheServer] = @ \ {c}]
      /\ \/ replies' = [replies EXCEPT ![TheServer] = Append(@, <<"join", c>>)]
         \/ replies' = replies
         \/ replies' = [replies EXCEPT ![TheServer] = Append(@, <<"part", c>>)]
  BY <1>1 DEF ServerAnswers
<1>5. TheServer \in up  BY <1>4 DEF LinkInv
<1>6. requests' \in [Servers -> Seq(Messages)] /\ Head(requests[TheServer]) \in Messages
  BY <1>3, <1>4, MessageTaken
<1>7. c \in Channels /\ <<"join", c>> \in Messages /\ <<"part", c>> \in Messages
  BY <1>6 DEF Messages
<1> HIDE DEF c
<1>8. replies' \in [Servers -> Seq(Messages)]
  <2>1. /\ [replies EXCEPT ![TheServer] = Append(@, <<"join", c>>)] \in [Servers -> Seq(Messages)]
        /\ [replies EXCEPT ![TheServer] = Append(@, <<"part", c>>)] \in [Servers -> Seq(Messages)]
    BY <1>3, <1>7, MessageSent
  <2> QED  BY <1>3, <1>4, <2>1
<1>9. member' \in [Servers -> SUBSET Channels]  BY <1>1, <1>3, <1>4, <1>7
<1>10. LinkTypeOK'  BY <1>2, <1>4, <1>6, <1>8, <1>9 DEF LinkTypeOK
<1>11. ChannelsKept'  BY <1>4 DEF LinkInv, ChannelsKept
<1> QED  BY <1>4, <1>5, <1>10, <1>11 DEF LinkInv

\* Nothing is joined at the beginning.
LEMMA LinkInvInit ==
    ASSUME \E s : Servers = {s}, ServerLinkInit
    PROVE  LinkInv /\ TheServer \notin up
<1>1. TheServer \in Servers  BY OneServer
<1>2. <<>> \in Seq(Messages)  BY EmptySeq
<1>3. LinkTypeOK
  BY <1>2, WindowsNat, ServerLinkAssumption DEF ServerLinkInit, LinkTypeOK
<1>4. /\ \A w \in Windows : wins[w].server = None /\ wins[w].nchannels = {} /\ wins[w].waiting = {}
      /\ TheServer \notin up /\ requests[TheServer] = <<>> /\ replies[TheServer] = <<>>
      /\ timer[TheServer] <= losses
  BY <1>1 DEF ServerLinkInit
<1>5. ChannelsKept  BY DEF ServerLinkInit, ChannelsKept
<1> QED  BY <1>3, <1>4, <1>5 DEF LinkInv

\* Every step keeps LinkInv.
LEMMA LinkInvNext ==
    ASSUME \E s : Servers = {s}, LossAnytime = FALSE, ConnectsTwice = FALSE, LinkInv,
           [ServerLinkNext]_linkVars
    PROVE  LinkInv'
<1>1. ASSUME NEW s \in Servers, RetryLater(s)
      PROVE  LinkInv'
  <2>1. UNCHANGED linkVars  BY <1>1, Zenon DEF RetryLater, AddTimerAgain, linkVars
  <2> QED  BY <2>1 DEF LinkInv, linkVars, LinkTypeOK, ChannelsKept
<1>2. ASSUME SwitchWindow
      PROVE  LinkInv'
  <2>1. LinkTypeOK  BY DEF LinkInv
  <2>2. commands' \in 0 .. MaxCommands  BY <1>2, <2>1, CommandCounts DEF SwitchWindow
  <2>3. /\ cur' \in Windows
        /\ UNCHANGED <<wins, up, timer, requests, replies, member, wanted, losses>>
    BY <1>2 DEF SwitchWindow
  <2>4. LinkTypeOK'  BY <2>1, <2>2, <2>3 DEF LinkTypeOK
  <2>5. ChannelsKept'  BY <2>3 DEF LinkInv, ChannelsKept
  <2> QED  BY <2>3, <2>4, <2>5 DEF LinkInv
<1>3. ASSUME UNCHANGED linkVars
      PROVE  LinkInv'
  BY <1>3 DEF LinkInv, linkVars, LinkTypeOK, ChannelsKept
<1>4. CASE ServerLinkNext
  <2>1. ASSUME NEW s \in Servers, Lost(s) PROVE LinkInv'  BY <2>1, LostKeeps
  <2>2. ASSUME NEW s \in Servers, AutoReconnect(s) PROVE LinkInv'  BY <2>2, AutoReconnectKeeps
  <2>3. ASSUME NEW s \in Servers, WindowServer(s) PROVE LinkInv'  BY <2>3, WindowServerKeeps
  <2>4. ASSUME NEW s \in Servers, ServerAnswers(s) PROVE LinkInv'  BY <2>4, ServerAnswersKeeps
  <2>5. ASSUME NEW s \in Servers, NEW c \in Channels, CmdJoined(s, c) PROVE LinkInv'
    BY <2>5, CmdJoinedKeeps
  <2>6. ASSUME NEW s \in Servers, NEW c \in Channels, CmdPartchannel(s, c) PROVE LinkInv'
    BY <2>6, CmdPartchannelKeeps
  <2>7. ASSUME NEW c \in Channels, Joincmd(c) PROVE LinkInv'  BY <2>7, JoincmdKeeps
  <2>8. ASSUME NEW c \in Channels, Partcmd(c) PROVE LinkInv'  BY <2>8, PartcmdKeeps
  <2>9. ASSUME Disconnect_ PROVE LinkInv'  BY <2>9, DisconnectKeeps
  <2>10. ASSUME NEW s \in Servers, ChangeReach(s) PROVE LinkInv'
    BY <2>10 DEF ChangeReach, LinkInv, LinkTypeOK, ChannelsKept
  <2> QED
    BY <1>1, <1>2, <1>4, <2>1, <2>2, <2>3, <2>4, <2>5, <2>6, <2>7, <2>8, <2>9, <2>10, Zenon
       DEF ServerLinkNext
<1> QED  BY <1>3, <1>4

\* With one server that is not connected to twice, and while no connection ends over an
\* unanswered join, a channel the user has joined and not left stays in some window, asked
\* for, or on the list for the next login, whatever is lost, closed, moved or opened again.
THEOREM ChannelsAreKept ==
    ASSUME \E s : Servers = {s}, LossAnytime = FALSE, ConnectsTwice = FALSE
    PROVE  ServerLinkSpec => []ChannelsKept
<1>1. ServerLinkInit => LinkInv  BY LinkInvInit
<1>2. LinkInv /\ [ServerLinkNext]_linkVars => LinkInv'  BY LinkInvNext
<1>3. LinkInv => ChannelsKept  BY DEF LinkInv
<1> QED  BY <1>1, <1>2, <1>3, PTL DEF ServerLinkSpec

----------------------------------------------------------------------------
(* Windows and server agree *)

\* The first of a list of messages taken away: the rest is mentioned as before.
LEMMA TailMentions ==
    ASSUME NEW q \in Seq(Messages), q # <<>>
    PROVE  /\ Tail(q) \in Seq(Messages) /\ Head(q) = q[1] /\ 1 \in DOMAIN q
           /\ \A i \in DOMAIN Tail(q) : i + 1 \in DOMAIN q /\ Tail(q)[i] = q[i + 1]
           /\ \A i \in DOMAIN q : i = 1 \/ (i - 1 \in DOMAIN Tail(q) /\ Tail(q)[i - 1] = q[i])
           /\ \A i \in DOMAIN q : i \in Nat
           /\ \A i \in DOMAIN Tail(q) : i \in Nat
<1>1. /\ Tail(q) \in Seq(Messages) /\ Len(Tail(q)) = Len(q) - 1 /\ Len(q) \in Nat \ {0}
  BY HeadTailProperties, EmptySeq
<1>2. DOMAIN q = 1 .. Len(q) /\ DOMAIN Tail(q) = 1 .. Len(q) - 1
  BY <1>1, LenProperties
<1>3. Head(q) = q[1] /\ \A i \in 1 .. Len(q) - 1 : Tail(q)[i] = q[i + 1]
  BY <1>1
<1> QED  BY <1>1, <1>2, <1>3

\* What the last message about each channel says, when the first is taken away.
LEMMA TailTrue ==
    ASSUME NEW q \in Seq(Messages), q # <<>>, NEW m, RepliesTrue(q, m)
    PROVE  /\ RepliesTrue(Tail(q), m)
           /\ \A c : Mentions(q, c) /\ c # q[1][2] => Mentions(Tail(q), c)
           /\ ~ Mentions(Tail(q), q[1][2]) => (q[1][1] = "join" <=> q[1][2] \in m)
<1> DEFINE t == Tail(q)
<1>1. /\ t \in Seq(Messages) /\ Head(q) = q[1] /\ 1 \in DOMAIN q
      /\ \A i \in DOMAIN t : i + 1 \in DOMAIN q /\ t[i] = q[i + 1]
      /\ \A i \in DOMAIN q : i = 1 \/ (i - 1 \in DOMAIN t /\ t[i - 1] = q[i])
      /\ \A i \in DOMAIN q : i \in Nat
      /\ \A i \in DOMAIN t : i \in Nat
  BY TailMentions
<1> HIDE DEF t
<1>2. ASSUME NEW i \in DOMAIN t, LastOn(t, i)
      PROVE  t[i][1] = "join" <=> t[i][2] \in m
  <2>1. i + 1 \in DOMAIN q /\ t[i] = q[i + 1] /\ i \in Nat  BY <1>1
  <2>2. ASSUME NEW j \in DOMAIN q, j > i + 1 PROVE q[j][2] # q[i + 1][2]
    <3>1. j \in Nat /\ j # 1  BY <1>1, <2>1, <2>2
    <3>2. j - 1 \in DOMAIN t /\ t[j - 1] = q[j] /\ j - 1 > i  BY <1>1, <2>1, <2>2, <3>1
    <3> QED  BY <1>2, <2>1, <3>2 DEF LastOn
  <2>3. LastOn(q, i + 1)  BY <2>2 DEF LastOn
  <2> QED  BY <2>1, <2>3 DEF RepliesTrue
<1>3. RepliesTrue(t, m)  BY <1>2 DEF RepliesTrue
<1>4. ASSUME NEW c, Mentions(q, c), c # q[1][2] PROVE Mentions(t, c)
  BY <1>1, <1>4 DEF Mentions
<1>5. ASSUME ~ Mentions(t, q[1][2]) PROVE q[1][1] = "join" <=> q[1][2] \in m
  <2>1. ASSUME NEW j \in DOMAIN q, j > 1 PROVE q[j][2] # q[1][2]
    <3>1. j - 1 \in DOMAIN t /\ t[j - 1] = q[j]  BY <1>1, <2>1
    <3> QED  BY <1>5, <3>1 DEF Mentions
  <2>2. LastOn(q, 1)  BY <2>1 DEF LastOn
  <2> QED  BY <1>1, <2>2 DEF RepliesTrue
<1> QED  BY <1>3, <1>4, <1>5 DEF t

\* The server thinks the same of all other channels.
SameBut(n, m, c) == \A d : d # c => (d \in n <=> d \in m)

\* A message is added that says what the server now thinks.
LEMMA AppendTrue ==
    ASSUME NEW q \in Seq(Messages), NEW m, RepliesTrue(q, m), NEW c \in Channels,
           NEW kind \in {"join", "part"}, NEW n,
           kind = "join" <=> c \in n,
           SameBut(n, m, c)
    PROVE  /\ RepliesTrue(Append(q, <<kind, c>>), n)
           /\ Mentions(Append(q, <<kind, c>>), c)
           /\ \A d : Mentions(q, d) => Mentions(Append(q, <<kind, c>>), d)
<1> DEFINE a == Append(q, <<kind, c>>)
<1>1. <<kind, c>> \in Messages  BY DEF Messages
<1>2. Len(q) \in Nat /\ DOMAIN q = 1 .. Len(q)  BY LenProperties
<1>3. /\ DOMAIN a = 1 .. Len(q) + 1 /\ a[Len(q) + 1] = <<kind, c>>
      /\ \A i \in 1 .. Len(q) : a[i] = q[i]
  BY <1>1, <1>2, AppendProperties, LenProperties
<1> HIDE DEF a
<1>4. Len(q) + 1 \in DOMAIN a /\ a[Len(q) + 1][2] = c /\ a[Len(q) + 1][1] = kind
  BY <1>2, <1>3
<1>5. \A i \in DOMAIN q : i \in DOMAIN a /\ a[i] = q[i]
  BY <1>2, <1>3
<1>6. ASSUME NEW i \in DOMAIN a, LastOn(a, i) PROVE a[i][1] = "join" <=> a[i][2] \in n
  <2>1. CASE i = Len(q) + 1  BY <1>4, <2>1
  <2>2. CASE i \in DOMAIN q
    <3>1. i < Len(q) + 1  BY <1>2, <2>2
    <3>2. a[i] = q[i] /\ a[i][2] # c  BY <1>4, <1>5, <1>6, <2>2, <3>1 DEF LastOn
    <3>3. LastOn(q, i)  BY <1>5, <1>6, <2>2 DEF LastOn
    <3>4. q[i][1] = "join" <=> q[i][2] \in m  BY <2>2, <3>3 DEF RepliesTrue
    <3>5. q[i][2] \in n <=> q[i][2] \in m  BY <3>2 DEF SameBut
    <3> QED  BY <3>2, <3>4, <3>5
  <2> QED  BY <1>2, <1>3, <2>1, <2>2
<1>7. RepliesTrue(a, n)  BY <1>6 DEF RepliesTrue
<1>8. Mentions(a, c)  BY <1>4 DEF Mentions
<1>9. \A d : Mentions(q, d) => Mentions(a, d)  BY <1>5 DEF Mentions
<1> QED  BY <1>7, <1>8, <1>9 DEF a

\* Without a connection there is nothing to agree on.
LEMMA DownAgrees ==
    ASSUME LinkInv', TheServer \notin up'
    PROVE  AgreeInv'
<1>1. \A w \in Windows : wins'[w].nchannels = {} /\ wins'[w].waiting = {}  BY DEF LinkInv
<1>2. Apart'  BY <1>1, WindowsNat DEF Apart
<1> QED  BY <1>2 DEF AgreeInv

\* On a new connection windows and server begin with no channel.
LEMMA BegunAgrees ==
    ASSUME LinkInv', Begun'
    PROVE  AgreeInv'
<1>1. /\ \A w \in Windows : wins'[w].nchannels = {}
      /\ member'[TheServer] = {} /\ replies'[TheServer] = <<>>
  BY DEF Begun
<1>2. Apart'  BY <1>1, WindowsNat DEF Apart
<1>3. RepliesTrue(replies[TheServer], member[TheServer])'
  BY <1>1 DEF RepliesTrue
<1>4. Settled'  BY <1>1 DEF Settled
<1> QED  BY <1>2, <1>3, <1>4 DEF AgreeInv

\* Where the messages stand while the connection is up.
LEMMA MessagesUp ==
    ASSUME \E s : Servers = {s}, AgreeInv, TheServer \in up
    PROVE  /\ requests \in [Servers -> Seq(Messages)] /\ replies \in [Servers -> Seq(Messages)]
           /\ member \in [Servers -> SUBSET Channels] /\ TheServer \in Servers
           /\ requests[TheServer] \in Seq(Messages) /\ replies[TheServer] \in Seq(Messages)
           /\ RepliesTrue(replies[TheServer], member[TheServer]) /\ Settled /\ Apart /\ LinkInv
<1>1. LinkTypeOK /\ LinkInv  BY DEF AgreeInv, LinkInv
<1>2. TheServer \in Servers  BY OneServer
<1> QED  BY <1>1, <1>2 DEF AgreeInv, LinkTypeOK

\* /join moves a channel, or asks for one that no window is in.
LEMMA JoincmdAgrees ==
    ASSUME \E s : Servers = {s}, AgreeInv, NEW c \in Channels, Joincmd(c)
    PROVE  AgreeInv'
<1>1. LinkInv /\ LinkInv' /\ cur \in Windows /\ UNCHANGED up
  BY JoincmdKeeps DEF AgreeInv, LinkInv, LinkTypeOK, Joincmd
<1>2. CASE TheServer \notin up  BY <1>1, <1>2, DownAgrees
<1>3. CASE TheServer \in up
  <2>1. /\ requests \in [Servers -> Seq(Messages)] /\ TheServer \in Servers
        /\ requests[TheServer] \in Seq(Messages)
        /\ RepliesTrue(replies[TheServer], member[TheServer]) /\ Settled /\ Apart
    BY <1>3, MessagesUp
  <2>2. /\ replies' = replies /\ member' = member
        /\ \/ /\ requests' = requests
              /\ \A w \in Windows : wins'[w].waiting = wins[w].waiting
              /\ \E v \in Windows :
                   /\ c \in wins[v].nchannels
                   /\ \A w \in Windows :
                        wins'[w].nchannels = IF w = cur THEN wins[w].nchannels \cup {c}
                                             ELSE IF w = v THEN wins[w].nchannels \ {c}
                                             ELSE wins[w].nchannels
           \/ /\ requests' = [requests EXCEPT ![TheServer] = Append(@, <<"join", c>>)]
              /\ \A w \in Windows :
                   /\ c \notin wins[w].nchannels /\ wins'[w].nchannels = wins[w].nchannels
                   /\ wins'[w].waiting = IF w = cur THEN wins[w].waiting \cup {c}
                                                     ELSE wins[w].waiting
    BY <1>1, <1>3, JoincmdDoes
  <2>3. /\ \A v, w \in Windows : v # w => wins[v].nchannels \cap wins[w].nchannels = {}
        /\ \A w \in Windows : wins[1].waiting \cap wins[w].nchannels = {}
        /\ 1 \in Windows
    BY <2>1, WindowsNat DEF Apart
  <2>4. \A d \in Channels :
          (\E w \in Windows : d \in wins[w].nchannels) <=> \E w \in Windows : d \in wins'[w].nchannels
    BY <1>1, <2>2
  <2>5. \A i \in DOMAIN requests[TheServer] :
           i \in DOMAIN requests'[TheServer] /\ requests'[TheServer][i] = requests[TheServer][i]
    <3>1. <<"join", c>> \in Messages  BY DEF Messages
    <3> DEFINE q == requests[TheServer]
    <3>2. q \in Seq(Messages)  BY <2>1
    <3>3. requests'[TheServer] = q \/ requests'[TheServer] = Append(q, <<"join", c>>)
      BY <2>1, <2>2
    <3> HIDE DEF q
    <3>4. \A i \in DOMAIN q : i \in DOMAIN Append(q, <<"join", c>>) /\ Append(q, <<"join", c>>)[i] = q[i]
      BY <3>1, <3>2, AppendProperties, LenProperties
    <3> QED  BY <3>3, <3>4 DEF q
  <2>6. Apart'
    <3>1. CASE \A w \in Windows :
                 /\ c \notin wins[w].nchannels /\ wins'[w].nchannels = wins[w].nchannels
                 /\ wins'[w].waiting \subseteq wins[w].waiting \cup {c}
      <4>1. \A w \in Windows : wins'[1].waiting \cap wins'[w].nchannels = {}
        BY <2>3, <3>1
      <4> QED  BY <2>3, <3>1, <4>1 DEF Apart
    <3>2. CASE /\ \A w \in Windows : wins'[w].waiting = wins[w].waiting
               /\ \E v \in Windows :
                   /\ c \in wins[v].nchannels
                   /\ \A w \in Windows :
                        wins'[w].nchannels = IF w = cur THEN wins[w].nchannels \cup {c}
                                             ELSE IF w = v THEN wins[w].nchannels \ {c}
                                             ELSE wins[w].nchannels
      <4>1. PICK v \in Windows :
                   /\ c \in wins[v].nchannels
                   /\ \A w \in Windows :
                        wins'[w].nchannels = IF w = cur THEN wins[w].nchannels \cup {c}
                                             ELSE IF w = v THEN wins[w].nchannels \ {c}
                                             ELSE wins[w].nchannels
        BY <3>2
      <4>2. \A w \in Windows : w # v => c \notin wins[w].nchannels  BY <2>3, <4>1
      <4>3. ASSUME NEW x \in Windows, NEW y \in Windows, x # y, NEW d,
                   d \in wins'[x].nchannels, d \in wins'[y].nchannels
            PROVE  FALSE
        <5>1. CASE d = c  BY <4>1, <4>2, <4>3, <5>1
        <5>2. CASE d # c
          <6>1. d \in wins[x].nchannels /\ d \in wins[y].nchannels  BY <4>1, <4>3, <5>2
          <6> QED  BY <2>3, <4>3, <6>1
        <5> QED  BY <5>1, <5>2
      <4>4. ASSUME NEW w \in Windows, NEW d, d \in wins'[1].waiting, d \in wins'[w].nchannels
            PROVE  FALSE
        <5>1. d \in wins[1].waiting  BY <2>3, <3>2, <4>4
        <5>2. d = c \/ d \in wins[w].nchannels  BY <4>1, <4>4
        <5> QED  BY <2>3, <4>1, <5>1, <5>2
      <4> QED  BY <4>3, <4>4 DEF Apart
    <3> QED  BY <2>2, <3>1, <3>2
  <2>7. Settled'
    <3> SUFFICES ASSUME NEW d \in Channels
                 PROVE  \/ Mentions(replies'[TheServer], d)
                        \/ \E i \in DOMAIN requests'[TheServer] : requests'[TheServer][i] = <<"part", d>>
                        \/ d \in member'[TheServer] <=> \E w \in Windows : d \in wins'[w].nchannels
      BY DEF Settled
    <3>1. \/ Mentions(replies[TheServer], d)
          \/ \E i \in DOMAIN requests[TheServer] : requests[TheServer][i] = <<"part", d>>
          \/ d \in member[TheServer] <=> \E w \in Windows : d \in wins[w].nchannels
      BY <2>1 DEF Settled
    <3> QED  BY <2>2, <2>4, <2>5, <3>1
  <2> QED  BY <1>1, <2>1, <2>2, <2>6, <2>7 DEF AgreeInv
<1> QED  BY <1>2, <1>3

\* /part: the server will be told.
LEMMA PartcmdAgrees ==
    ASSUME \E s : Servers = {s}, AgreeInv, NEW c \in Channels, Partcmd(c)
    PROVE  AgreeInv'
<1>1. LinkInv /\ LinkInv'  BY PartcmdKeeps DEF AgreeInv
<1>2. /\ TheServer \in up /\ UNCHANGED <<cur, up, timer, replies, member, losses>>
      /\ requests' = [requests EXCEPT ![TheServer] = Append(@, <<"part", c>>)]
      /\ \E v \in Windows : \A w \in Windows :
           /\ wins'[w].server = TheServer /\ wins'[w].old = {}
           /\ wins'[w].waiting = wins[w].waiting
           /\ wins'[w].nchannels = IF w = v THEN wins[w].nchannels \ {c} ELSE wins[w].nchannels
  BY <1>1, PartcmdDoes
<1>3. /\ requests \in [Servers -> Seq(Messages)] /\ TheServer \in Servers
      /\ requests[TheServer] \in Seq(Messages)
      /\ RepliesTrue(replies[TheServer], member[TheServer]) /\ Settled /\ Apart
  BY <1>2, MessagesUp
<1>4. \A w \in Windows : /\ wins'[w].waiting = wins[w].waiting
                         /\ wins'[w].nchannels \subseteq wins[w].nchannels
                         /\ wins[w].nchannels \subseteq wins'[w].nchannels \cup {c}
  BY <1>2
<1>5. /\ \A i \in DOMAIN requests[TheServer] :
           i \in DOMAIN requests'[TheServer] /\ requests'[TheServer][i] = requests[TheServer][i]
      /\ \E i \in DOMAIN requests'[TheServer] : requests'[TheServer][i] = <<"part", c>>
  <2> DEFINE q == requests[TheServer]
  <2>1. <<"part", c>> \in Messages  BY DEF Messages
  <2>2. q \in Seq(Messages)  BY <1>3
  <2>3. requests'[TheServer] = Append(q, <<"part", c>>)  BY <1>2, <1>3
  <2> HIDE DEF q
  <2>4. /\ \A i \in DOMAIN q : /\ i \in DOMAIN Append(q, <<"part", c>>)
                              /\ Append(q, <<"part", c>>)[i] = q[i]
        /\ Len(q) + 1 \in DOMAIN Append(q, <<"part", c>>)
        /\ Append(q, <<"part", c>>)[Len(q) + 1] = <<"part", c>>
    BY <2>1, <2>2, AppendProperties, LenProperties
  <2> QED  BY <2>3, <2>4 DEF q
<1>6. Apart'
  <2>1. /\ \A v, w \in Windows : v # w => wins[v].nchannels \cap wins[w].nchannels = {}
        /\ \A w \in Windows : wins[1].waiting \cap wins[w].nchannels = {}
        /\ 1 \in Windows
    BY <1>3, WindowsNat DEF Apart
  <2>2. \A v, w \in Windows : v # w => wins'[v].nchannels \cap wins'[w].nchannels = {}
    BY <1>4, <2>1
  <2>3. \A w \in Windows : wins'[1].waiting \cap wins'[w].nchannels = {}
    BY <1>4, <2>1
  <2> QED  BY <2>2, <2>3 DEF Apart
<1>7. Settled'
  <2> SUFFICES ASSUME NEW d \in Channels
               PROVE  \/ Mentions(replies'[TheServer], d)
                      \/ \E i \in DOMAIN requests'[TheServer] : requests'[TheServer][i] = <<"part", d>>
                      \/ d \in member'[TheServer] <=> \E w \in Windows : d \in wins'[w].nchannels
    BY DEF Settled
  <2>1. CASE d = c  BY <1>5, <2>1
  <2>2. CASE d # c
    <3>1. \/ Mentions(replies[TheServer], d)
          \/ \E i \in DOMAIN requests[TheServer] : requests[TheServer][i] = <<"part", d>>
          \/ d \in member[TheServer] <=> \E w \in Windows : d \in wins[w].nchannels
      BY <1>3 DEF Settled
    <3>2. (\E w \in Windows : d \in wins[w].nchannels) <=> \E w \in Windows : d \in wins'[w].nchannels
      BY <1>4, <2>2
    <3>3. replies' = replies /\ member' = member  BY <1>2
    <3> QED  BY <1>5, <3>1, <3>2, <3>3
  <2> QED  BY <2>1, <2>2
<1> QED  BY <1>1, <1>2, <1>3, <1>6, <1>7 DEF AgreeInv

\* A join that is acknowledged: no other window is in the channel.
LEMMA CmdJoinedAgrees ==
    ASSUME \E s : Servers = {s}, NWindows \in {1, 2}, AgreeInv,
           NEW s \in Servers, NEW c \in Channels, CmdJoined(s, c)
    PROVE  AgreeInv'
<1>1. LinkInv /\ LinkInv'  BY CmdJoinedKeeps DEF AgreeInv
<1>2. /\ TheServer \in up /\ UNCHANGED <<cur, up, timer, requests, member, commands, losses>>
      /\ replies[TheServer] # <<>> /\ Head(replies[TheServer]) = <<"join", c>>
      /\ replies' = [replies EXCEPT ![TheServer] = Tail(@)]
  BY <1>1, CmdJoinedDoes
<1>3. PICK v \in Windows : \A w \in Windows :
        /\ c \in wins[w].nchannels \cup wins[w].waiting =>
             v <= w /\ c \in wins[v].nchannels \cup wins[v].waiting
        /\ wins'[w].server = TheServer /\ wins'[w].old = {}
        /\ wins'[w].nchannels = IF w = v THEN wins[w].nchannels \cup {c} ELSE wins[w].nchannels
        /\ wins'[w].waiting = IF w = v /\ c \notin wins[v].nchannels
                                THEN wins[w].waiting \ {c} ELSE wins[w].waiting
  BY <1>1, CmdJoinedDoes
<1>4. /\ replies \in [Servers -> Seq(Messages)] /\ TheServer \in Servers
      /\ replies[TheServer] \in Seq(Messages)
      /\ RepliesTrue(replies[TheServer], member[TheServer]) /\ Settled /\ Apart
  BY <1>2, MessagesUp
<1> DEFINE r == replies[TheServer]
           m == member[TheServer]
<1>5. replies'[TheServer] = Tail(r) /\ member'[TheServer] = m
  BY <1>2, <1>4
<1>6. r[1] = <<"join", c>>
  BY <1>2, <1>4, TailMentions
<1>7. /\ RepliesTrue(Tail(r), m)
      /\ \A d : Mentions(r, d) /\ d # c => Mentions(Tail(r), d)
      /\ ~ Mentions(Tail(r), c) => c \in m
  <2>1. r \in Seq(Messages) /\ r # <<>> /\ RepliesTrue(r, m)  BY <1>2, <1>4
  <2> HIDE DEF r, m
  <2>2. /\ RepliesTrue(Tail(r), m)
        /\ \A d : Mentions(r, d) /\ d # r[1][2] => Mentions(Tail(r), d)
        /\ ~ Mentions(Tail(r), r[1][2]) => (r[1][1] = "join" <=> r[1][2] \in m)
    BY <2>1, TailTrue
  <2> QED  BY <1>6, <2>2
<1>8. Windows \subseteq {1, 2} /\ 1 \in Windows  BY WindowsNat
<1>9. /\ \A x, w \in Windows : x # w => wins[x].nchannels \cap wins[w].nchannels = {}
      /\ \A w \in Windows : wins[1].waiting \cap wins[w].nchannels = {}
  BY <1>4 DEF Apart
<1>10. \A w \in Windows : w # v => c \notin wins[w].nchannels
  <2>1. CASE c \in wins[v].nchannels  BY <1>9, <2>1
  <2>2. CASE c \notin wins[v].nchannels
    <3> SUFFICES ASSUME NEW w \in Windows, w # v, c \in wins[w].nchannels PROVE FALSE  OBVIOUS
    <3>1. v <= w /\ c \in wins[v].waiting  BY <1>3, <2>2
    <3>2. v = 1  BY <1>8, <3>1
    <3> QED  BY <1>9, <3>1, <3>2
  <2> QED  BY <2>1, <2>2
<1>11. c \notin wins'[1].waiting
  <2>1. CASE c \in wins[v].nchannels
    <3>1. c \notin wins[1].waiting  BY <1>9, <2>1
    <3> QED  BY <1>3, <1>8, <2>1, <3>1
  <2>2. CASE c \notin wins[v].nchannels
    <3>1. CASE v = 1  BY <1>3, <1>8, <2>2, <3>1
    <3>2. CASE v # 1
      <4>1. ~ (v <= 1)  BY <1>8, <3>2
      <4>2. c \notin wins[1].waiting  BY <1>3, <1>8, <4>1
      <4> QED  BY <1>3, <1>8, <3>2, <4>2
    <3> QED  BY <3>1, <3>2
  <2> QED  BY <2>1, <2>2
<1>12. Apart'
  <2>1. ASSUME NEW x \in Windows, NEW y \in Windows, x # y, NEW d,
               d \in wins'[x].nchannels, d \in wins'[y].nchannels
        PROVE  FALSE
    <3>1. CASE d = c  BY <1>3, <1>10, <2>1, <3>1
    <3>2. CASE d # c
      <4>1. d \in wins[x].nchannels /\ d \in wins[y].nchannels  BY <1>3, <2>1, <3>2
      <4> QED  BY <1>9, <2>1, <4>1
    <3> QED  BY <3>1, <3>2
  <2>2. ASSUME NEW w \in Windows, NEW d, d \in wins'[1].waiting, d \in wins'[w].nchannels
        PROVE  FALSE
    <3>1. d # c  BY <1>11, <2>2
    <3>2. d \in wins[w].nchannels  BY <1>3, <2>2, <3>1
    <3>3. d \in wins[1].waiting  BY <1>3, <1>8, <2>2
    <3> QED  BY <1>9, <3>2, <3>3
  <2> QED  BY <2>1, <2>2 DEF Apart
<1>13. Settled'
  <2> SUFFICES ASSUME NEW d \in Channels
               PROVE  \/ Mentions(replies'[TheServer], d)
                      \/ \E i \in DOMAIN requests'[TheServer] : requests'[TheServer][i] = <<"part", d>>
                      \/ d \in member'[TheServer] <=> \E w \in Windows : d \in wins'[w].nchannels
    BY DEF Settled
  <2>1. CASE d = c
    <3>1. c \in wins'[v].nchannels  BY <1>3
    <3>2. Mentions(Tail(r), c) \/ c \in m  BY <1>7
    <3> QED  BY <1>5, <2>1, <3>1, <3>2
  <2>2. CASE d # c
    <3>1. \/ Mentions(r, d)
          \/ \E i \in DOMAIN requests[TheServer] : requests[TheServer][i] = <<"part", d>>
          \/ d \in m <=> \E w \in Windows : d \in wins[w].nchannels
      BY <1>4 DEF Settled
    <3>2. (\E w \in Windows : d \in wins[w].nchannels) <=> \E w \in Windows : d \in wins'[w].nchannels
      BY ZenonT(30), <1>3, <2>2
    <3>3. requests' = requests  BY <1>2
    <3> HIDE DEF r, m
    <3> QED  BY <1>5, <1>7, <2>2, <3>1, <3>2, <3>3
  <2> QED  BY <2>1, <2>2
<1>14. TheServer \in up' => (RepliesTrue(replies[TheServer], member[TheServer]))'
  BY <1>5, <1>7
<1> QED  BY <1>1, <1>12, <1>13, <1>14 DEF AgreeInv

\* A part that is acknowledged: no window stays in the channel.
LEMMA CmdPartchannelAgrees ==
    ASSUME \E s : Servers = {s}, AgreeInv,
           NEW s \in Servers, NEW c \in Channels, CmdPartchannel(s, c)
    PROVE  AgreeInv'
<1>1. LinkInv /\ LinkInv'  BY CmdPartchannelKeeps DEF AgreeInv
<1>2. /\ TheServer \in up /\ UNCHANGED <<cur, up, timer, requests, member, commands, losses>>
      /\ replies[TheServer] # <<>> /\ Head(replies[TheServer]) = <<"part", c>>
      /\ replies' = [replies EXCEPT ![TheServer] = Tail(@)]
      /\ \A w \in Windows : wins'[w].waiting = wins[w].waiting
      /\ \/ /\ wins' = wins
            /\ \A w \in Windows : c \notin wins[w].nchannels
         \/ \E v \in Windows :
              /\ c \in wins[v].nchannels
              /\ \A w \in Windows :
                   wins'[w].nchannels = IF w = v THEN wins[w].nchannels \ {c}
                                                 ELSE wins[w].nchannels
  BY <1>1, CmdPartchannelDoes
<1>3. /\ replies \in [Servers -> Seq(Messages)] /\ TheServer \in Servers
      /\ replies[TheServer] \in Seq(Messages)
      /\ RepliesTrue(replies[TheServer], member[TheServer]) /\ Settled /\ Apart
  BY <1>2, MessagesUp
<1> DEFINE r == replies[TheServer]
           m == member[TheServer]
<1>4. replies'[TheServer] = Tail(r) /\ member'[TheServer] = m
  BY <1>2, <1>3
<1>5. r[1] = <<"part", c>>
  BY <1>2, <1>3, TailMentions
<1>6. /\ RepliesTrue(Tail(r), m)
      /\ \A d : Mentions(r, d) /\ d # c => Mentions(Tail(r), d)
      /\ ~ Mentions(Tail(r), c) => c \notin m
  <2>1. r \in Seq(Messages) /\ r # <<>> /\ RepliesTrue(r, m)  BY <1>2, <1>3
  <2> HIDE DEF r, m
  <2>2. /\ RepliesTrue(Tail(r), m)
        /\ \A d : Mentions(r, d) /\ d # r[1][2] => Mentions(Tail(r), d)
        /\ ~ Mentions(Tail(r), r[1][2]) => (r[1][1] = "join" <=> r[1][2] \in m)
    BY <2>1, TailTrue
  <2> QED  BY <1>5, <2>2
<1>7. /\ \A x, w \in Windows : x # w => wins[x].nchannels \cap wins[w].nchannels = {}
      /\ \A w \in Windows : wins[1].waiting \cap wins[w].nchannels = {}
      /\ 1 \in Windows
  BY <1>3, WindowsNat DEF Apart
<1>8. \A w \in Windows : wins'[w].nchannels = wins[w].nchannels \ {c}
  <2>1. CASE wins' = wins /\ \A w \in Windows : c \notin wins[w].nchannels  BY <2>1
  <2>2. CASE \E v \in Windows :
              /\ c \in wins[v].nchannels
              /\ \A w \in Windows :
                   wins'[w].nchannels = IF w = v THEN wins[w].nchannels \ {c}
                                                 ELSE wins[w].nchannels
    <3>1. PICK v \in Windows :
              /\ c \in wins[v].nchannels
              /\ \A w \in Windows :
                   wins'[w].nchannels = IF w = v THEN wins[w].nchannels \ {c}
                                                 ELSE wins[w].nchannels
      BY <2>2
    <3>2. \A w \in Windows : w # v => c \notin wins[w].nchannels  BY <1>7, <3>1
    <3> QED  BY <3>1, <3>2
  <2> QED  BY <1>2, <2>1, <2>2
<1>9. Apart'
  <2>1. \A v, w \in Windows : v # w => wins'[v].nchannels \cap wins'[w].nchannels = {}
    BY <1>7, <1>8
  <2>2. \A w \in Windows : wins'[1].waiting \cap wins'[w].nchannels = {}
    BY <1>2, <1>7, <1>8
  <2> QED  BY <2>1, <2>2 DEF Apart
<1>10. Settled'
  <2> SUFFICES ASSUME NEW d \in Channels
               PROVE  \/ Mentions(replies'[TheServer], d)
                      \/ \E i \in DOMAIN requests'[TheServer] : requests'[TheServer][i] = <<"part", d>>
                      \/ d \in member'[TheServer] <=> \E w \in Windows : d \in wins'[w].nchannels
    BY DEF Settled
  <2>1. CASE d = c
    <3>1. \A w \in Windows : c \notin wins'[w].nchannels  BY <1>8
    <3>2. Mentions(Tail(r), c) \/ c \notin m  BY <1>6
    <3> QED  BY <1>4, <2>1, <3>1, <3>2
  <2>2. CASE d # c
    <3>1. \/ Mentions(r, d)
          \/ \E i \in DOMAIN requests[TheServer] : requests[TheServer][i] = <<"part", d>>
          \/ d \in m <=> \E w \in Windows : d \in wins[w].nchannels
      BY <1>3 DEF Settled
    <3>2. (\E w \in Windows : d \in wins[w].nchannels) <=> \E w \in Windows : d \in wins'[w].nchannels
      BY <1>8, <2>2
    <3>3. requests' = requests  BY <1>2
    <3> HIDE DEF r, m
    <3> QED  BY <1>4, <1>6, <2>2, <3>1, <3>2, <3>3
  <2> QED  BY <2>1, <2>2
<1>11. TheServer \in up' => (RepliesTrue(replies[TheServer], member[TheServer]))'
  BY <1>4, <1>6
<1> QED  BY <1>1, <1>9, <1>10, <1>11 DEF AgreeInv

\* The server's answer is on its way when it thinks otherwise.
LEMMA ServerAnswersAgrees ==
    ASSUME \E s : Servers = {s}, AgreeInv, NEW s \in Servers, ServerAnswers(s)
    PROVE  AgreeInv'
<1> DEFINE q == requests[TheServer]
           r == replies[TheServer]
           m == member[TheServer]
           c == Head(q)[2]
           Asked(l, d) == \E i \in DOMAIN l : l[i] = <<"part", d>>
<1>1. LinkInv /\ LinkInv' /\ s = TheServer  BY OneServer, ServerAnswersKeeps DEF AgreeInv
<1>2. /\ q # <<>> /\ requests' = [requests EXCEPT ![TheServer] = Tail(@)]
      /\ UNCHANGED <<wins, cur, up, timer, wanted, commands, losses>>
      /\ \/ /\ Head(q)[1] = "join"
            /\ member' = [member EXCEPT ![TheServer] = @ \cup {c}]
            /\ replies' = [replies EXCEPT ![TheServer] = Append(@, <<"join", c>>)]
         \/ /\ Head(q)[1] = "join" /\ c \notin m
            /\ UNCHANGED <<member, replies>>
         \/ /\ Head(q)[1] = "part"
            /\ member' = [member EXCEPT ![TheServer] = @ \ {c}]
            /\ replies' = [replies EXCEPT ![TheServer] = Append(@, <<"part", c>>)]
  BY <1>1 DEF ServerAnswers
<1>3. TheServer \in up  BY <1>1, <1>2 DEF LinkInv
<1>4. /\ requests \in [Servers -> Seq(Messages)] /\ replies \in [Servers -> Seq(Messages)]
      /\ member \in [Servers -> SUBSET Channels] /\ TheServer \in Servers
      /\ q \in Seq(Messages) /\ r \in Seq(Messages)
      /\ RepliesTrue(r, m) /\ Settled /\ Apart
  BY <1>3, MessagesUp
<1>5. /\ Head(q) = q[1] /\ 1 \in DOMAIN q /\ q[1] \in Messages
      /\ \A i \in DOMAIN q : i = 1 \/ (i - 1 \in DOMAIN Tail(q) /\ Tail(q)[i - 1] = q[i])
  <2>1. Head(q) \in Messages  BY <1>2, <1>4, HeadTailProperties
  <2> HIDE DEF q
  <2> QED  BY <1>2, <1>4, <2>1, TailMentions
<1>6. c \in Channels /\ c = q[1][2] /\ q[1] = <<q[1][1], c>>
  <2> HIDE DEF q
  <2> QED  BY <1>5 DEF Messages
<1>7. requests'[TheServer] = Tail(q)  BY <1>2, <1>4
<1>8. \A d \in Channels : d # c /\ Asked(q, d) => Asked(Tail(q), d)
  <2> SUFFICES ASSUME NEW d \in Channels, d # c, NEW i \in DOMAIN q, q[i] = <<"part", d>>
               PROVE  Asked(Tail(q), d)
    OBVIOUS
  <2> HIDE DEF q, c
  <2>1. q[i][2] = d  OBVIOUS
  <2>2. i # 1  BY <1>6, <2>1
  <2> QED  BY <1>5, <2>2
<1>9. q[1][1] = "join" /\ Asked(q, c) => Asked(Tail(q), c)
  <2> SUFFICES ASSUME q[1][1] = "join", NEW i \in DOMAIN q, q[i] = <<"part", c>>
               PROVE  Asked(Tail(q), c)
    OBVIOUS
  <2> HIDE DEF q, c
  <2>1. q[i][1] = "part"  OBVIOUS
  <2>2. i # 1  BY <2>1
  <2> QED  BY <1>5, <2>2
<1>10. \/ /\ q[1][1] = "join"
          /\ member'[TheServer] = m \cup {c} /\ replies'[TheServer] = Append(r, <<"join", c>>)
       \/ /\ q[1][1] = "join" /\ member'[TheServer] = m /\ replies'[TheServer] = r
       \/ /\ member'[TheServer] = m \ {c} /\ replies'[TheServer] = Append(r, <<"part", c>>)
  BY <1>2, <1>4, <1>5
<1>11. \A d \in Channels :
          \/ Mentions(r, d) \/ Asked(q, d)
          \/ d \in m <=> \E w \in Windows : d \in wins[w].nchannels
  BY <1>4 DEF Settled
<1>12. wins' = wins  BY <1>2
<1> DEFINE Agreed == \A d \in Channels :
              \/ Mentions(replies'[TheServer], d) \/ Asked(Tail(q), d)
              \/ d \in member'[TheServer] <=> \E w \in Windows : d \in wins[w].nchannels
<1> HIDE DEF q, r, m, c, Asked
<1>13. RepliesTrue(replies'[TheServer], member'[TheServer]) /\ Agreed
  <2>1. CASE q[1][1] = "join" /\ member'[TheServer] = m /\ replies'[TheServer] = r
    BY <1>4, <1>8, <1>9, <1>11, <2>1
  <2>2. CASE member'[TheServer] = m \cup {c} /\ replies'[TheServer] = Append(r, <<"join", c>>)
    <3> DEFINE n == m \cup {c}
    <3>1. c \in n /\ SameBut(n, m, c)  BY DEF SameBut
    <3> HIDE DEF n
    <3>2. /\ RepliesTrue(Append(r, <<"join", c>>), n)
          /\ Mentions(Append(r, <<"join", c>>), c)
          /\ \A d : Mentions(r, d) => Mentions(Append(r, <<"join", c>>), d)
      <4> DEFINE kind == "join"
      <4>1. kind \in {"join", "part"} /\ (kind = "join" <=> c \in n)  BY <3>1
      <4>2. r \in Seq(Messages) /\ RepliesTrue(r, m) /\ c \in Channels /\ SameBut(n, m, c)
        BY <1>4, <1>6, <3>1
      <4> HIDE DEF kind
      <4>3. /\ RepliesTrue(Append(r, <<kind, c>>), n)
            /\ Mentions(Append(r, <<kind, c>>), c)
            /\ \A d : Mentions(r, d) => Mentions(Append(r, <<kind, c>>), d)
        BY <4>1, <4>2, AppendTrue
      <4> QED  BY <4>3 DEF kind
    <3>3. replies'[TheServer] = Append(r, <<"join", c>>) /\ member'[TheServer] = n
      BY <2>2 DEF n
    <3>4. ASSUME NEW d \in Channels
          PROVE  \/ Mentions(replies'[TheServer], d) \/ Asked(Tail(q), d)
                 \/ d \in member'[TheServer] <=> \E w \in Windows : d \in wins[w].nchannels
      <4>1. d # c => (d \in n <=> d \in m)  BY <3>1 DEF SameBut
      <4> QED  BY <1>8, <1>11, <3>2, <3>3, <4>1
    <3> QED  BY <3>2, <3>3, <3>4
  <2>3. CASE member'[TheServer] = m \ {c} /\ replies'[TheServer] = Append(r, <<"part", c>>)
    <3> DEFINE n == m \ {c}
    <3>1. c \notin n /\ SameBut(n, m, c)  BY DEF SameBut
    <3> HIDE DEF n
    <3>2. /\ RepliesTrue(Append(r, <<"part", c>>), n)
          /\ Mentions(Append(r, <<"part", c>>), c)
          /\ \A d : Mentions(r, d) => Mentions(Append(r, <<"part", c>>), d)
      <4> DEFINE kind == "part"
      <4>1. kind \in {"join", "part"} /\ (kind = "join" <=> c \in n)  BY <3>1
      <4>2. r \in Seq(Messages) /\ RepliesTrue(r, m) /\ c \in Channels /\ SameBut(n, m, c)
        BY <1>4, <1>6, <3>1
      <4> HIDE DEF kind
      <4>3. /\ RepliesTrue(Append(r, <<kind, c>>), n)
            /\ Mentions(Append(r, <<kind, c>>), c)
            /\ \A d : Mentions(r, d) => Mentions(Append(r, <<kind, c>>), d)
        BY <4>1, <4>2, AppendTrue
      <4> QED  BY <4>3 DEF kind
    <3>3. replies'[TheServer] = Append(r, <<"part", c>>) /\ member'[TheServer] = n
      BY <2>3 DEF n
    <3>4. ASSUME NEW d \in Channels
          PROVE  \/ Mentions(replies'[TheServer], d) \/ Asked(Tail(q), d)
                 \/ d \in member'[TheServer] <=> \E w \in Windows : d \in wins[w].nchannels
      <4>1. d # c => (d \in n <=> d \in m)  BY <3>1 DEF SameBut
      <4> QED  BY <1>8, <1>11, <3>2, <3>3, <4>1
    <3> QED  BY <3>2, <3>3, <3>4
  <2> QED  BY <1>10, <2>1, <2>2, <2>3
<1>14. Settled'
  BY <1>7, <1>12, <1>13 DEF Settled, Agreed, Asked
<1>15. Apart'  BY <1>4, <1>12 DEF Apart
<1> QED  BY <1>1, <1>13, <1>14, <1>15 DEF AgreeInv

\* Every step keeps AgreeInv.
LEMMA AgreeInvNext ==
    ASSUME \E s : Servers = {s}, LossAnytime = FALSE, ConnectsTwice = FALSE,
           NWindows \in {1, 2}, AgreeInv, [ServerLinkNext]_linkVars
    PROVE  AgreeInv'
<1>1. LinkInv /\ LinkInv'  BY LinkInvNext DEF AgreeInv
<1>2. ASSUME UNCHANGED <<wins, up, requests, replies, member>>
      PROVE  AgreeInv'
  BY <1>1, <1>2 DEF AgreeInv, Apart, Settled
<1>3. ASSUME NEW s \in Servers, Lost(s)
      PROVE  AgreeInv'
  <2>1. s = TheServer  BY OneServer
  <2>2. TheServer \notin up'  BY <1>3, <2>1 DEF Lost
  <2> QED  BY <1>1, <2>2, DownAgrees
<1>4. ASSUME Disconnect_
      PROVE  AgreeInv'
  <2>1. LinkTypeOK /\ cur \in Windows /\ Servers = {TheServer}
    BY <1>1, OneServer DEF LinkInv, LinkTypeOK
  <2>2. wins[cur].server = TheServer  BY <1>4, <2>1, LinkTypes DEF Disconnect_
  <2>3. TheServer \notin up'  BY <1>4, <2>2 DEF Disconnect_
  <2> QED  BY <1>1, <2>3, DownAgrees
<1>5. ASSUME NEW s \in Servers, AutoReconnect(s)
      PROVE  AgreeInv'
  BY <1>1, <1>5, AutoReconnectKeeps, BegunAgrees
<1>6. ASSUME NEW s \in Servers, WindowServer(s)
      PROVE  AgreeInv'
  BY <1>1, <1>6, WindowServerKeeps, BegunAgrees, DownAgrees
<1>7. ASSUME NEW s \in Servers, RetryLater(s)
      PROVE  AgreeInv'
  BY <1>2, <1>7, Zenon DEF RetryLater
<1>8. ASSUME SwitchWindow
      PROVE  AgreeInv'
  BY <1>2, <1>8, Zenon DEF SwitchWindow
<1>9. ASSUME NEW s \in Servers, ServerAnswers(s) PROVE AgreeInv'
  BY <1>9, ServerAnswersAgrees
<1>10. ASSUME NEW s \in Servers, NEW c \in Channels, CmdJoined(s, c) PROVE AgreeInv'
  BY <1>10, CmdJoinedAgrees
<1>11. ASSUME NEW s \in Servers, NEW c \in Channels, CmdPartchannel(s, c) PROVE AgreeInv'
  BY <1>11, CmdPartchannelAgrees
<1>12. ASSUME NEW c \in Channels, Joincmd(c) PROVE AgreeInv'  BY <1>12, JoincmdAgrees
<1>13. ASSUME NEW c \in Channels, Partcmd(c) PROVE AgreeInv'  BY <1>13, PartcmdAgrees
<1>14. ASSUME NEW s \in Servers, ChangeReach(s) PROVE AgreeInv'
  BY <1>2, <1>14, Zenon DEF ChangeReach
<1>15. CASE ServerLinkNext
  BY <1>3, <1>4, <1>5, <1>6, <1>7, <1>8, <1>9, <1>10, <1>11, <1>12, <1>13, <1>14, <1>15, Zenon
     DEF ServerLinkNext
<1>16. CASE UNCHANGED linkVars
  BY <1>2, <1>16, Zenon DEF linkVars
<1> QED  BY <1>15, <1>16

\* With one server, not connected to twice, and at most two windows no channel is
\* forgotten, and whenever nothing is under way the windows are in exactly the channels
\* the server has us in.
THEOREM ChannelsAreSound ==
    ASSUME \E s : Servers = {s}, LossAnytime = FALSE, ConnectsTwice = FALSE,
           NWindows \in {1, 2}
    PROVE  ServerLinkSpec => []ChannelsSound
<1>1. ASSUME ServerLinkInit PROVE AgreeInv
  <2>1. LinkInv /\ TheServer \notin up  BY <1>1, LinkInvInit
  <2>2. \A w \in Windows : wins[w].nchannels = {}  BY <1>1 DEF ServerLinkInit
  <2>3. Apart  BY <2>2, WindowsNat DEF Apart
  <2> QED  BY <2>1, <2>3 DEF AgreeInv
<1>2. AgreeInv /\ [ServerLinkNext]_linkVars => AgreeInv'  BY AgreeInvNext
<1>3. ASSUME AgreeInv PROVE ChannelsSound
  <2>1. LinkInv /\ ChannelsKept /\ Servers = {TheServer} /\ up \subseteq Servers
    BY <1>3, OneServer DEF AgreeInv, LinkInv, LinkTypeOK
  <2>2. ASSUME NEW s \in up, requests[s] = <<>>, replies[s] = <<>>
        PROVE  member[s] = UNION {wins[w].nchannels : w \in OnServer(s)}
    <3>1. s = TheServer /\ TheServer \in up  BY <2>1, <2>2
    <3>2. OnServer(TheServer) = Windows  BY <2>1, <3>1, WhileUp
    <3>3. /\ \A w \in Windows : wins[w].nchannels \subseteq Channels
          /\ member[TheServer] \subseteq Channels
      BY <2>1, <3>1, WhileUp DEF LinkInv, LinkTypeOK
    <3>4. \A c \in Channels : c \in member[TheServer] <=> \E w \in Windows : c \in wins[w].nchannels
      BY <1>3, <2>2, <3>1 DEF AgreeInv, Settled, Mentions
    <3> QED  BY <3>1, <3>2, <3>3, <3>4
  <2>3. ChannelsAgree  BY <2>2 DEF ChannelsAgree
  <2> QED  BY <2>1, <2>3 DEF ChannelsSound
<1> QED  BY <1>1, <1>2, <1>3, PTL DEF ServerLinkSpec
====
