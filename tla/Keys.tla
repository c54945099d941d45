--------------------------------- MODULE Keys ---------------------------------
(***************************************************************************)
(* The bindings of keys, keys.c: a map of characters for each of the meta   *)
(* states, /bind of a sequence of keys, which makes the states it needs on  *)
(* the way, and what a key that is typed runs (edit_char, input.c).         *)
(*                                                                         *)
(* A binding is a number, as key_index is: 0 nothing, 1 SELF_INSERT, more a  *)
(* function, and less the meta state that the key leads to.                 *)
(***************************************************************************)
EXTENDS Integers, Sequences, FiniteSets

LOCAL INSTANCE SequencesExt
LOCAL INSTANCE FiniteSetsExt

CONSTANTS
    NKeys,         \* characters are 1 .. NKeys
    FirstStates,   \* meta states that init_keys() makes, 40 in the program
    LowStates,     \* those below are for the user: 5 in the program
    MostStates,    \* bound: meta states
    ViState,       \* the state that stays, 4 in the program
    Defaults,      \* the bindings init_keys() makes besides SELF_INSERT: <<state, key>> to a number
    KeySequences,  \* what the user binds ...
    KeyFunctions   \* ... to these: 0 is NOTHING, and leaves the states as /bind does
                   \* that only shows a sequence nothing is bound to

ASSUME KeysAssumption ==
    /\ {NKeys, FirstStates, LowStates, MostStates, ViState} \subseteq Nat \ {0}
    /\ LowStates < FirstStates /\ FirstStates <= MostStates
    /\ KeySequences \subseteq Seq(1 .. NKeys) \ {<<>>}
    /\ KeyFunctions \subseteq Nat

KeyChars == 1 .. NKeys
SelfInsert == 1
EmptyMap == [c \in KeyChars |-> 0]

VARIABLES
    keys,       \* the maps: what each key does in each state
    meta_hit,   \* the state that the keys typed so far lead to
    quote_hit,  \* whether the next key is quoted
    ran,        \* what the last key ran, 0 for nothing
    bound       \* history: the sequences bound by the user that nothing has taken back

keyVars == <<keys, meta_hit, quote_hit, ran, bound>>

States(k) == DOMAIN k
Leads(k, m, c) == m \in States(k) /\ k[m][c] < 0

init_keys ==
    [m \in 0 .. FirstStates - 1 |->
        [c \in KeyChars |-> IF <<m, c>> \in DOMAIN Defaults THEN Defaults[<<m, c>>]
                            ELSE IF m = 0 THEN SelfInsert ELSE 0]]

NothingBound == [s \in KeySequences |-> 0]

KeysInit ==
    /\ keys = init_keys /\ meta_hit = 0 /\ quote_hit = FALSE /\ ran = 0 /\ bound = NothingBound

----------------------------------------------------------------------------
(* Making room for a sequence *)

FreeFor(k, c) == {m \in States(k) : m >= LowStates /\ k[m][c] = 0}
resize_metamap(k) == [m \in 0 .. Cardinality(States(k)) |-> IF m \in States(k) THEN k[m] ELSE EmptyMap]

\* A state taken without looking whether the key is free there
LastState(k, c) == Cardinality(States(k)) - 1

\* The last of the states where the key does nothing, or a new one
find_meta_map(k, c) == IF FreeFor(k, c) = {} THEN Cardinality(States(k)) ELSE Max(FreeFor(k, c))
WithRoom(k, c) == IF FreeFor(k, c) = {} THEN resize_metamap(k) ELSE k

new_key(k, m, c, type) == [k EXCEPT ![m][c] = type]

\* The keys of a sequence that already lead on
Follow(k, s) ==
    LET walk[n \in 1 .. Len(s)] ==
            IF n = 1 THEN [meta |-> 0, at |-> 1]
            ELSE LET w == walk[n - 1]
                 IN  IF w.at = n - 1 /\ Leads(k, w.meta, s[n - 1])
                     THEN [meta |-> - k[w.meta][s[n - 1]], at |-> n] ELSE w
    IN  walk[Len(s)]

\* One link of the chain, to the state that the keys after it begin in
LinkBack(a, c) ==
    [k |-> new_key(WithRoom(a.k, c), find_meta_map(a.k, c), c, - a.last),
     last |-> find_meta_map(a.k, c)]

\* The chain is made from its end; the last key's own binding comes after.
Chain(k, meta, rest) ==
    LET final == Last(rest)
        first == [k |-> WithRoom(k, final), last |-> find_meta_map(k, final)]
        links == FoldRight(LAMBDA c, a : LinkBack(a, c), SubSeq(rest, 2, Len(rest) - 1), first)
    IN  [k |-> new_key(links.k, meta, Head(rest), - links.last), meta |-> first.last]

parse_key(k, s) ==
    LET w == Follow(k, s)
    IN  IF w.at = Len(s) THEN [k |-> k, meta |-> w.meta]
        ELSE Chain(k, w.meta, SubSeq(s, w.at, Len(s)))

----------------------------------------------------------------------------
(* Commands *)

Related(s, t) == IsPrefix(s, t) \/ IsPrefix(t, s)

\* What the user has bound after he binds s: sequences of which one begins the
\* other do not go together.
Rebound(s, f) ==
    [t \in KeySequences |-> IF t = s THEN f ELSE IF Related(s, t) THEN 0 ELSE bound[t]]

BoundTo(p, s, f) == new_key(p.k, IF p.meta \in States(p.k) THEN p.meta ELSE 0, Last(s), f)

bindcmd(s, f) ==
    LET p == parse_key(keys, s)
    IN  /\ Cardinality(States(p.k)) <= MostStates
        /\ keys' = BoundTo(p, s, f) /\ bound' = Rebound(s, f)
        /\ UNCHANGED <<meta_hit, quote_hit, ran>>

\* /bind -defaults, and /dump: remove_bindings(), and the maps of init_keys() again
BindDefaults ==
    /\ keys' = init_keys /\ bound' = NothingBound
    /\ UNCHANGED <<meta_hit, quote_hit, ran>>

----------------------------------------------------------------------------
(* Keys that are typed *)

get_binding(k, m, c) == IF m \in States(k) THEN k[m][c] ELSE 0

\* The state after a key, and what it runs
Typed_(k, m, c) ==
    LET i == get_binding(k, m, c)
    IN  [meta |-> IF i < 0 THEN (IF m = ViState /\ i = - ViState THEN 0 ELSE - i)
                  ELSE IF m # ViState THEN 0 ELSE m,
         ran |-> IF i > 0 THEN i ELSE 0]

edit_char(c) ==
    LET t == Typed_(keys, meta_hit, c)
    IN  /\ IF quote_hit THEN ran' = SelfInsert /\ quote_hit' = FALSE /\ UNCHANGED meta_hit
           ELSE meta_hit' = t.meta /\ ran' = t.ran /\ UNCHANGED quote_hit
        /\ UNCHANGED <<keys, bound>>

\* QUOTE_CHARACTER
quote_char == quote_hit' = TRUE /\ ~ quote_hit /\ UNCHANGED <<keys, meta_hit, ran, bound>>

KeysNext ==
    \/ \E s \in KeySequences, f \in KeyFunctions : bindcmd(s, f)
    \/ BindDefaults
    \/ \E c \in KeyChars : edit_char(c)
    \/ quote_char

KeysSpec == KeysInit /\ [][KeysNext]_keyVars

----------------------------------------------------------------------------
(* Properties *)

\* What the keys of a sequence run, typed one after the other
Runs(k, s) ==
    LET run[n \in 0 .. Len(s)] ==
            IF n = 0 THEN [meta |-> 0, all |-> <<>>]
            ELSE LET r == run[n - 1]
                     t == Typed_(k, r.meta, s[n])
                 IN  [meta |-> t.meta, all |-> IF t.ran = 0 THEN r.all ELSE Append(r.all, t.ran)]
    IN  run[Len(s)]

KeysTypeOK ==
    /\ keys \in [0 .. Cardinality(States(keys)) - 1 -> [KeyChars -> Int]]
    /\ Cardinality(States(keys)) \in FirstStates .. MostStates
    /\ meta_hit \in Nat /\ quote_hit \in BOOLEAN /\ ran \in Nat /\ bound \in [KeySequences -> Nat]

\* A sequence runs what the user bound it to, once, after its last key, whatever
\* else he bound; no key leads to a state that is not there.
KeysSound ==
    /\ \A s \in KeySequences : bound[s] # 0 =>
          Runs(keys, s).all = <<bound[s]>> /\ Runs(keys, s).meta \in {0, ViState}
    /\ \A m \in States(keys), c \in KeyChars : - keys[m][c] \in States(keys) \/ keys[m][c] >= 0
=============================================================================
