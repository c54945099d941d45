------------------------------ MODULE Completion ------------------------------
(***************************************************************************)
(* The key that completes what is typed (tab_completion, input.c; the      *)
(* names of commands, commands.c), and the ring of those who wrote         *)
(* (addtabkey and gettabkey, server.c), which the key goes through.        *)
(*                                                                         *)
(* A text is a sequence of symbols: "_" is a blank, and "A" is the capital *)
(* of "a".  A command that is completed by itself is known by its first    *)
(* letter.  Of the words of a text only the last may be in quotes.         *)
(***************************************************************************)
EXTENDS Integers, Sequences, FiniteSets, SequencesExt

CONSTANTS
    Worlds,          \* what there is to complete with: [rooms, channels, at, files, homes,
                     \* servers, commands, aliases]
    TypedTexts,      \* what the user may have typed when the key is pressed
    Correspondents,  \* the nicks of those who write
    MaxRelm,         \* MAX_RELM: how many of their messages are kept
    MaxMsgs,         \* bound: messages
    MaxTabs          \* bound: the key pressed, one time after the other

\* With a MAX_RELM of 1 as many are kept as there are, and with 0 a list is freed that is
\* still used.  Of two nicks that begin alike the key never leaves the shorter again.
ASSUME CompletionAssumption ==
    /\ MaxRelm \in Nat \ {0, 1} /\ MaxMsgs \in Nat /\ MaxTabs \in Nat
    /\ \A m, n \in Correspondents : IsPrefix(m, n) => m = n

VARIABLES
    world,    \* what there is to complete with, <<>> before it is chosen
    typing,   \* the input line
    ring,     \* msgs of the server: who wrote, the last one first
    msgs,     \* how many wrote
    tabs,     \* how often the key has been pressed since anything else was
    asTyped,  \* history: the line and the ring when the key was pressed last
    offered   \* history: to whom the line has been, as a message, since tabs was 0

tabVars == <<world, typing, ring, msgs, tabs, asTyped, offered>>

----------------------------------------------------------------------------
(* Words *)

BlankSign == "_"
QuoteMark == "\""
GotSpace(t) == t # <<>> /\ t[Len(t)] = BlankSign
InQuotes(t, i) == Cardinality({j \in 1 .. i - 1 : t[j] = QuoteMark}) % 2 = 1
WordStarts(t) ==
    {i \in DOMAIN t : t[i] # BlankSign /\ (IF i = 1 THEN TRUE ELSE t[i - 1] = BlankSign)}

\* word_count() heeds quotes, extract() does not.
WordCount(t) == Cardinality({i \in WordStarts(t) : ~InQuotes(t, i)})
LastStart(t) ==
    CHOOSE i \in WordStarts(t) : Cardinality({j \in WordStarts(t) : j <= i}) = WordCount(t)
Trimmed(t) == SubSeq(t, 1, Max({i \in DOMAIN t : t[i] # BlankSign} \cup {0}))
LastWord(t) == SubSeq(t, LastStart(t), Len(Trimmed(t)))
BeforeLast(t) == IF WordCount(t) < 2 THEN <<>> ELSE Trimmed(SubSeq(t, 1, LastStart(t) - 1))

NoMarks(x) == IF x # <<>> /\ x[1] = QuoteMark THEN SubSeq(x, 2, Len(x) - 1) ELSE x
WithMarks(x) == IF BlankSign \in Range(x) THEN <<QuoteMark>> \o x \o <<QuoteMark>> ELSE x
NoHash(x) == IF x # <<>> /\ x[1] = "#" THEN Tail(x) ELSE x

CaseFold(x) == [i \in DOMAIN x |-> IF x[i] = "A" THEN "a" ELSE x[i]]
Matching(names, x) == SelectSeq(names, LAMBDA n : IsPrefix(CaseFold(x), CaseFold(n)))

\* What the first word says is to be completed.
NameType == [m |-> "tabkey", x |-> "exec", f |-> "file", l |-> "load", s |-> "server", d |-> "send"]
FirstLetter(t) == IF t[1] # "/" THEN t[1] ELSE IF Len(t) > 1 THEN t[2] ELSE "/"
NamedType(t) == IF FirstLetter(t) \in DOMAIN NameType THEN NameType[FirstLetter(t)] ELSE "chan"

CompletionType(t) ==
    CASE WordCount(t) = 0 -> "tabkey"
      [] WordCount(t) = 1 /\ t[1] # "/" -> "chan"
      [] WordCount(t) = 1 /\ t[1] = "/" /\ ~GotSpace(t) -> "command"
      [] OTHER -> IF NamedType(t) = "send" /\ WordCount(t) \notin {1, 3} THEN "chan"
                  ELSE NamedType(t)

\* What a completion has to begin with, <<>> for NULL.
Possible(t) ==
    CASE WordCount(t) = 0 -> <<>>
      [] WordCount(t) = 1 -> IF t[1] = "/" THEN <<>> ELSE t
      [] OTHER -> NoMarks(LastWord(t))

----------------------------------------------------------------------------
(* get_completions(): nicks *)

\* Those of the window's channel, of all channels when none of these fits.
ChannelNicks(w, x) ==
    LET here == IF w.at = 0 THEN <<>> ELSE Matching(w.rooms[w.at], NoHash(x))
    IN  IF here # <<>> THEN here ELSE Matching(FlattenSeq(w.rooms), NoHash(x))

\* gettabkey(): the first that fits goes to the end of the ring.
Fitted(r, x) == {i \in DOMAIN r : IsPrefix(CaseFold(x), CaseFold(r[i]))}
FirstFit(r, x) == IF Fitted(r, x) = {} THEN 0 ELSE Min(Fitted(r, x))
Rotated(r, i) == IF i = 0 THEN r ELSE Append(RemoveAt(r, i), r[i])
OnceEach(r) == FoldLeft(LAMBDA l, n : IF n \in Range(l) THEN l ELSE <<n>> \o l, <<>>, r)

\* A nick that is whole already stands for anyone: the next of the ring.
Hashed(x) == Len(x) > 1 /\ x[1] = "#"
Fitting(w, r, x) ==
    CASE Hashed(x) -> Matching(w.channels, Tail(x))
      [] x = <<>> -> <<>>
      [] OTHER -> Matching(OnceEach(r), x)
Sought(w, r, x) ==
    CASE Hashed(x) -> Tail(x)
      [] ~Hashed(x) /\ Fitting(w, r, x) = <<x>> -> <<>>
      [] OTHER -> x
TabkeyNames(w, r, x) ==
    LET names == IF ~Hashed(x) /\ Fitting(w, r, x) = <<x>> THEN <<>> ELSE Fitting(w, r, x)
        i == FirstFit(r, Sought(w, r, x))
    IN  [names |-> IF names = <<>> /\ i # 0 THEN <<r[i]>> ELSE names,
         ring |-> IF Len(names) <= 1 THEN Rotated(r, i) ELSE r]

----------------------------------------------------------------------------
(* get_completions(): files *)

HomePath == <<"~", "/">>
TildeName(x) == x # <<>> /\ x[1] = "~" /\ (Len(x) > 1 => x[2] # "/")
HomeDirs(w, x) == SelectSeq(w.homes, LAMBDA q : IsPrefix(x, q))

\* What bsd_glob() gets: a path, and whether anything may follow it.
PathOf(kind, x) ==
    CASE x = <<>> /\ kind = "load" -> [path |-> HomePath \o <<"t", "/">>, open |-> FALSE]
      [] x = <<>> /\ kind = "exec" -> [path |-> <<"/", "u", "/">>, open |-> TRUE]
      [] x = <<>> /\ kind = "send" -> [path |-> HomePath \o <<"d">>, open |-> TRUE]
      [] x = <<>> /\ kind = "file" -> [path |-> HomePath, open |-> TRUE]
      [] x # <<>> /\ TildeName(x) /\ kind = "file" -> [path |-> x, open |-> FALSE]
      [] OTHER -> [path |-> IF x[1] \in {"/", "~", "."} THEN x ELSE HomePath \o x, open |-> TRUE]

\* expand_twiddle(), for a home that is /h
AtHome(x) == IF IsPrefix(HomePath, x) THEN <<"/", "h">> \o Tail(x) ELSE x

\* bsd_glob(): a star stands for anything but a slash, and a directory gets one at its end.
InOneDir(p, f) == IsPrefix(p, f) /\ \A i \in Len(p) + 1 .. Len(f) - 1 : f[i] # "/"
GlobOf(w, p) ==
    SelectSeq(w.files, LAMBDA f : IF p.open THEN f # p.path /\ InOneDir(p.path, f) ELSE f = p.path)
Globbed(w, p) == GlobOf(w, [p EXCEPT !.path = AtHome(p.path)])

FileNames(w, kind, x) ==
    IF TildeName(x) /\ kind # "load" /\ HomeDirs(w, x) # <<>> THEN HomeDirs(w, x)
    ELSE Globbed(w, PathOf(kind, x))

Completions(w, kind, x, r) ==
    CASE kind = "tabkey" -> TabkeyNames(w, r, x)
      [] kind = "chan" -> [names |-> ChannelNicks(w, x), ring |-> r]
      [] kind = "server" -> [names |-> Matching(w.servers, x), ring |-> r]
      [] OTHER -> [names |-> FileNames(w, kind, x), ring |-> r]

----------------------------------------------------------------------------
(* The line that is left *)

\* set_input_best(): two names are compared from their beginning, more from the last
\* character typed on, which need not be where they begin to differ.
Alike(kind, a, b) ==
    IF kind \in {"chan", "tabkey"} THEN CaseFold(<<a>>) = CaseFold(<<b>>) ELSE a = b
AgreeAt(kind, names, i) ==
    \A n \in Range(names) : i <= Len(n) /\ i <= Len(names[1]) /\ Alike(kind, n[i], names[1][i])
CommonLength(kind, names, from) ==
    Min({i \in from .. Len(names[1]) + 1 : ~AgreeAt(kind, names, i)}) - 1
BestName(kind, old, names) ==
    LET n == CommonLength(kind, names, IF Len(names) = 2 THEN 1 ELSE Len(old))
    IN  IF n = 0 THEN old ELSE SubSeq(names[1], 1, n)
SetInputBest(kind, inp, old, names) == inp \o <<BlankSign>> \o WithMarks(BestName(kind, old, names))

\* The only completion takes the place of the last word.
AfterName(kind, name) ==
    IF kind \in {"send", "load", "file"} \/ (kind = "exec" /\ Last(WithMarks(name)) = "/")
    THEN <<>> ELSE <<BlankSign>>
MessageLine(p, name) ==
    LET command == p # <<>> /\ p[1] = "/"
    IN  (IF command THEN p ELSE <<"/", "m">>) \o <<BlankSign>> \o name
            \o (IF command \/ p = <<>> THEN <<>> ELSE <<BlankSign>> \o p) \o <<BlankSign>>
OnlyOne(kind, t, name) ==
    CASE kind = "tabkey" -> MessageLine(BeforeLast(t), name)
      [] kind # "tabkey" /\ WordCount(t) = 1 /\ GotSpace(t) ->
            t \o <<BlankSign>> \o WithMarks(name) \o AfterName(kind, name)
      [] OTHER -> (IF WordCount(t) > 1 THEN BeforeLast(t) \o <<BlankSign>> ELSE <<>>)
                      \o WithMarks(name) \o AfterName(kind, name)

\* Of several, what they have in common; with a blank behind the word they are only shown.
Several(kind, t, names) ==
    IF WordCount(t) > 1 /\ ~GotSpace(t)
    THEN SetInputBest(kind, BeforeLast(t), NoMarks(LastWord(t)), names) ELSE t

Completed(kind, t, names) ==
    IF Len(names) = 1 THEN OnlyOne(kind, t, names[1]) ELSE Several(kind, t, names)

\* command_completion(): // leaves aliases and functions out, /$ aliases.
CommandWord(t) ==
    LET once == Tail(Trimmed(t))
    IN  IF once # <<>> /\ once[1] \in {"/", "$"} THEN Tail(once) ELSE once
GlobAliases(w, t) ==
    {a \in w.aliases : CommandWord(t) = Tail(Trimmed(t)) /\ IsPrefix(CommandWord(t), a)}
FindCommands(w, t) == {c \in w.commands : IsPrefix(CommandWord(t), c)}
CommandCompletion(w, t) ==
    LET a == GlobAliases(w, t)
        c == FindCommands(w, t)
    IN  IF \/ Cardinality(a) = 1 /\ c = {}
           \/ Cardinality(c) = 1 /\ a \subseteq c
        THEN <<"/">> \o (CHOOSE n \in a \cup c : TRUE) \o <<BlankSign>> ELSE t

\* tab_completion(): the line and the ring it leaves.
NickCompletion(w, t, r) ==
    [text |-> IF w.at # 0 /\ ChannelNicks(w, Possible(t)) # <<>>
              THEN Completed("chan", t, ChannelNicks(w, Possible(t))) ELSE t,
     ring |-> r]
NameCompletion(w, t, r, kind, c) ==
    CASE c.names # <<>> -> [text |-> Completed(kind, t, c.names), ring |-> c.ring]
      [] c.names = <<>> /\ kind = "tabkey" -> NickCompletion(w, t, r)
      [] OTHER -> [text |-> t, ring |-> r]
TabCompletion(w, t, r) ==
    IF CompletionType(t) = "command" THEN [text |-> CommandCompletion(w, t), ring |-> r]
    ELSE NameCompletion(w, t, r, CompletionType(t),
                        Completions(w, CompletionType(t), Possible(t), r))

----------------------------------------------------------------------------
(* The machine *)

CompletionInit ==
    /\ world = <<>> /\ typing = <<>> /\ ring = <<>> /\ msgs = 0
    /\ tabs = 0 /\ asTyped = <<<<>>, <<>>>> /\ offered = {}

SomethingElse == tabs' = 0 /\ asTyped' = <<<<>>, <<>>>> /\ offered' = {}

StartTyping ==
    /\ world = <<>>
    /\ world' \in Worlds /\ typing' \in TypedTexts
    /\ UNCHANGED <<ring, msgs, tabs, asTyped, offered>>

\* addtabkey(): the oldest go, the newest comes first.
Kept(r) == IF Len(r) >= MaxRelm THEN SubSeq(r, 1, MaxRelm - 1) ELSE r
AddTabkey(n) ==
    /\ world # <<>> /\ msgs < MaxMsgs
    /\ msgs' = msgs + 1
    /\ ring' = <<n>> \o Kept(ring)
    /\ SomethingElse
    /\ UNCHANGED <<world, typing>>

\* clear_servermsg()
ClearServermsg ==
    /\ ring # <<>>
    /\ ring' = <<>>
    /\ SomethingElse
    /\ UNCHANGED <<world, typing, msgs>>

MessageTo(n) == <<"/", "m", BlankSign>> \o n \o <<BlankSign>>

TabKey ==
    /\ world # <<>> /\ tabs < MaxTabs
    /\ tabs' = tabs + 1
    /\ LET c == TabCompletion(world, typing, ring)
       IN  /\ typing' = c.text /\ ring' = c.ring
           /\ offered' = offered \cup {n \in Range(ring) : c.text = MessageTo(n)}
    /\ asTyped' = <<typing, ring>>
    /\ UNCHANGED <<world, msgs>>

NewLine ==
    /\ world # <<>>
    /\ typing' \in TypedTexts
    /\ SomethingElse
    /\ UNCHANGED <<world, ring, msgs>>

CompletionNext ==
    \/ StartTyping
    \/ \E n \in Correspondents : AddTabkey(n)
    \/ ClearServermsg
    \/ TabKey
    \/ NewLine

CompletionSpec == CompletionInit /\ [][CompletionNext]_tabVars

----------------------------------------------------------------------------
(* What the user may rely on *)

\* The state has its type.
CompletionTypeOK ==
    /\ world \in Worlds \cup {<<>>}
    /\ ring \in Seq(Correspondents) /\ offered \subseteq Correspondents
    /\ msgs \in 0 .. MaxMsgs /\ tabs \in 0 .. MaxTabs

\* The names there are, those the word typed begins, and those it may stand for.
Known(kind, x) ==
    CASE kind = "tabkey" -> IF Hashed(x) THEN Range(world.channels) ELSE Range(asTyped[2])
      [] kind = "chan" -> Range(FlattenSeq(world.rooms))
      [] kind = "server" -> Range(world.servers)
      [] kind \in {"exec", "send", "file"} /\ TildeName(x) -> Range(world.homes)
      [] OTHER -> Range(world.files)
Begins(kind, x, n) ==
    CASE kind \in {"tabkey", "chan"} -> IsPrefix(CaseFold(NoHash(x)), CaseFold(n))
      [] kind = "server" -> IsPrefix(CaseFold(x), CaseFold(n))
      [] kind \notin {"tabkey", "chan", "server"} /\ TildeName(x) -> IsPrefix(x, n)
      [] OTHER -> InOneDir(AtHome(PathOf(kind, x).path), n)
MeantIn(names, kind, x) == {n \in names : Begins(kind, x, n)}
HereOf(kind) == IF kind = "chan" /\ world.at # 0 THEN Range(world.rooms[world.at]) ELSE {}
Meant(kind, x) ==
    IF MeantIn(HereOf(kind), kind, x) # {} THEN MeantIn(HereOf(kind), kind, x)
    ELSE MeantIn(Known(kind, x), kind, x)

CommonTo(kind, names, p) ==
    \A n \in names : IF kind \in {"tabkey", "chan"} THEN IsPrefix(CaseFold(p), CaseFold(n))
                     ELSE IsPrefix(p, n)

\* The words before the one completed stay; a word that stands for one name becomes that
\* name, one that stands for several becomes the longest beginning they have in common.
Lead(t) == IF WordCount(t) = 1 /\ GotSpace(t) THEN Trimmed(t) ELSE BeforeLast(t)
TypedWord == NoMarks(LastWord(typing))
Longest(kind, names) ==
    /\ CommonTo(kind, names, TypedWord)
    /\ \A n \in names : Len(n) > Len(TypedWord) =>
           ~CommonTo(kind, names, SubSeq(n, 1, Len(TypedWord) + 1))
WordCompleted(kind, t, x) ==
    CASE Meant(kind, x) = {} -> typing = t
      [] Cardinality(Meant(kind, x)) = 1 ->
            BeforeLast(typing) = Lead(t) /\ Meant(kind, x) = {TypedWord}
      [] OTHER -> \/ (WordCount(t) = 1 \/ GotSpace(t)) /\ typing = t
                  \/ /\ WordCount(t) > 1 /\ ~GotSpace(t)
                     /\ BeforeLast(typing) = Lead(t)
                     /\ Begins(kind, x, TypedWord) /\ Longest(kind, Meant(kind, x))

\* A command is completed when only one command or alias begins so.
CommandCompleted(t) ==
    LET fit == GlobAliases(world, t) \cup FindCommands(world, t)
    IN  IF Cardinality(fit) = 1 THEN typing \in {<<"/">> \o n \o <<BlankSign>> : n \in fit}
        ELSE typing = t

WellCompleted(t, kind, x) ==
    CASE kind = "command" -> CommandCompleted(t)
      [] kind = "tabkey" -> x # <<>> /\ Meant(kind, x) \notin {{}, {x}} => WordCompleted(kind, t, x)
      [] OTHER -> WordCompleted(kind, t, x)

\* Pressed as often as there are messages kept, the key has offered everyone who wrote.
EveryoneOffered ==
    tabs >= Len(ring) /\ typing \in {MessageTo(n) : n \in Range(ring)}
        => Range(ring) \subseteq offered

\* What the key leaves on the line is what the user meant, and everyone who wrote comes up.
CompletionSound ==
    /\ tabs > 0 => WellCompleted(asTyped[1], CompletionType(asTyped[1]), Possible(asTyped[1]))
    /\ EveryoneOffered
    /\ Len(ring) <= MaxRelm
=============================================================================
