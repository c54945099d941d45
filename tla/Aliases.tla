------------------------------- MODULE Aliases -------------------------------
(***************************************************************************)
(* Command aliases and variables of the user (source/alias.c): the arrays  *)
(* they are in, the caches of those last looked up, stubs, which stand for *)
(* a file that defines them when it is loaded, and the stacks of /stack.   *)
(* How an array is searched is in Alist.                                   *)
(***************************************************************************)
EXTENDS Naturals, Sequences, FiniteSets

LOCAL INSTANCE SequencesExt
LOCAL INSTANCE TLC

CONSTANTS
    AliasNames,   \* names
    Abbreviates,  \* Abbreviates[n]: the names that n begins
    CacheSize,    \* ALIAS_CACHE_SIZE
    CmdFiles,     \* what the file of a stub does with its command alias:
    VarFiles,     \* and with its variable: defines, deletes, replaces, nothing
    MaxAliases,   \* bound: aliases and variables
    MaxStacked,   \* bound: entries on the stacks of /stack
    PushExisting, \* is /stack push told the name of something that exists?
    PurgeEarly    \* may /purge come before the first variable is looked up?

AliasKinds == {"cmd", "var"}
Other(kind) == CHOOSE k \in AliasKinds : k # kind
Effects(kind) == IF kind = "cmd" THEN CmdFiles ELSE VarFiles

ASSUME AliasesAssumption ==
    /\ Abbreviates \in [AliasNames -> SUBSET AliasNames] /\ CacheSize \in Nat \ {0}
    /\ CmdFiles \cup VarFiles \subseteq {"defines", "deletes", "replaces", "nothing"}
    /\ MaxAliases \in Nat /\ MaxStacked \in Nat
    /\ PushExisting \in BOOLEAN /\ PurgeEarly \in BOOLEAN

\* An alias is known by its kind, its name and which one of that name it is.
Ids == AliasKinds \X AliasNames \X {1, 2}
NoAlias == <<>>
NameOf(id) == id[2]

VARIABLES
    heap,      \* heap[id]: has stuff, has a stub; only of what is allocated
    sets,      \* sets[kind]: the array of aliases of that kind
    cache,     \* cache[kind]: aliases, or NoAlias; empty before the first search
    stacks,    \* stacks[kind]: alias_stack, assign_stack; the last pushed first
    freedUsed  \* was something used after it was freed?

aliasVars == <<heap, sets, cache, stacks, freedUsed>>

AliasesTypeOK ==
    /\ DOMAIN heap \subseteq Ids
    /\ \A id \in DOMAIN heap : heap[id] \in [stuff : BOOLEAN, stub : BOOLEAN]
    /\ sets \in [AliasKinds -> SUBSET Ids] /\ freedUsed \in BOOLEAN
    /\ \A kind \in AliasKinds :
        /\ cache[kind] \in Seq(Ids \cup {NoAlias}) /\ Len(cache[kind]) \in {0, CacheSize}
        /\ stacks[kind] \in Seq([name : AliasNames, list : Ids \cup {NoAlias}])

AliasesInit ==
    /\ heap = <<>> /\ sets = [kind \in AliasKinds |-> {}]
    /\ cache = [kind \in AliasKinds |-> <<>>] /\ stacks = [kind \in AliasKinds |-> <<>>]
    /\ freedUsed = FALSE

----------------------------------------------------------------------------
(* All that an operation reads and changes but the stacks is a record m    *)

Memory == [heap |-> heap, sets |-> sets, cache |-> cache, used |-> freedUsed]

Turns(m) ==
    heap' = m.heap /\ sets' = m.sets /\ cache' = m.cache /\ freedUsed' = m.used

OneOf(ids) == IF ids = {} THEN NoAlias ELSE CHOOSE id \in ids : TRUE

\* The alias with just that name
Exact(m, kind, name) == OneOf({id \in m.sets[kind] : NameOf(id) = name})

\* Those that begin so
Begun(m, kind, name) == {id \in m.sets[kind] : NameOf(id) \in Abbreviates[name]}

NewAlias(m, kind, name) ==
    <<kind, name, IF <<kind, name, 1>> \in DOMAIN m.heap THEN 2 ELSE 1>>

\* add_to_array(): an alias with the same name leaves the array.
AddToArray(m, kind, id) ==
    [m EXCEPT !.sets[kind] = (@ \ {Exact(m, kind, NameOf(id))}) \cup {id}]

\* make_new_Alias(), and into the array
AddNew(m, kind, name) ==
    LET made == NewAlias(m, kind, name)
        empty == [stuff |-> FALSE, stub |-> FALSE]
    IN AddToArray([m EXCEPT !.heap = (made :> empty) @@ @], kind, made)

Fill(m, id, stuff) == [m EXCEPT !.heap[id].stuff = stuff, !.heap[id].stub = ~ stuff]

\* add_cmd_alias(), the global part of add_var_alias(), add_var_stub_alias()
FillNamed(m, kind, name, stuff) == Fill(m, Exact(m, kind, name), stuff)

AddAlias(m, kind, name, stuff) ==
    FillNamed(IF Exact(m, kind, name) # NoAlias THEN m ELSE AddNew(m, kind, name),
              kind, name, stuff)

FreeAlias(m, ids) == [m EXCEPT !.heap = [id \in DOMAIN @ \ ids |-> @[id]]]

Uncached(entries, ids) ==
    [i \in DOMAIN entries |-> IF entries[i] \in ids THEN NoAlias ELSE entries[i]]

\* A mistake: an alias is in the cache once.
UncachedFirst(entries, ids) ==
    [i \in DOMAIN entries |->
        IF entries[i] \in ids /\ \A j \in 1 .. i - 1 : entries[j] # entries[i]
          THEN NoAlias ELSE entries[i]]

\* delete_cmd_alias(), delete_var_alias(), delete_all_var_alias(), destroy_aliases()
Delete(m, kind, ids) ==
    LET gone == ids \ {NoAlias}
        kept == [m EXCEPT !.sets[kind] = @ \ gone, !.cache[kind] = Uncached(@, gone)]
    IN FreeAlias(kept, gone)

----------------------------------------------------------------------------
(* Looking up *)

\* resize_cache()
WithCache(m, kind) ==
    IF m.cache[kind] # <<>> THEN m
    ELSE [m EXCEPT !.cache[kind] = [i \in 1 .. CacheSize |-> NoAlias]]

\* The place in the cache that has the name, CacheSize if none has
CachePlace(m, kind, name) ==
    LET hit == SelectInSeq(m.cache[kind], LAMBDA id : id # NoAlias /\ NameOf(id) = name)
    IN [hit |-> hit # 0, at |-> IF hit = 0 THEN CacheSize ELSE hit]

\* What the search finds; a command alias may be abbreviated.
Lookup(m, kind, name) ==
    LET place == CachePlace(m, kind, name)
        begun == Begun(m, kind, name)
    IN IF place.hit THEN m.cache[kind][place.at]
       ELSE IF Exact(m, kind, name) # NoAlias THEN Exact(m, kind, name)
       ELSE IF kind = "cmd" /\ Cardinality(begun) = 1 THEN OneOf(begun) ELSE NoAlias

\* It comes first in the cache.
Cached(m, kind, name, item) ==
    IF item = NoAlias THEN m
    ELSE [m EXCEPT !.cache[kind] = <<item>> \o RemoveAt(@, CachePlace(m, kind, name).at)]

\* unstub_alias(): the stub goes, and the file is loaded.
Loaded(m, kind, item, effect) ==
    CASE effect = "nothing" -> m
      [] effect = "defines" -> AddAlias(m, kind, NameOf(item), TRUE)
      [] effect = "deletes" -> Delete(m, kind, {item})
      [] effect = "replaces" -> AddAlias(Delete(m, kind, {item}), kind, NameOf(item), TRUE)

Unstubbed(m, kind, item, effect) ==
    Loaded([m EXCEPT !.heap[item].stub = FALSE], kind, item, effect)

Found(m, item) == [m |-> m, item |-> item]

\* An alias without stuff that is no longer a stub is deleted.
FoundFilled(m, kind, item) ==
    IF m.heap[item].stuff THEN Found(m, item) ELSE Found(Delete(m, kind, {item}), NoAlias)

\* After a file was loaded: find_var_alias() takes what there is now, and
\* deletes it if it was not defined; find_cmd_alias() goes on with the alias
\* it had found before.
FoundAgain(m, kind, now, item, gone) ==
    IF now = NoAlias THEN Found(m, NoAlias)
    ELSE IF kind = "var" THEN FoundFilled(m, kind, now)
    ELSE IF ~ m.heap[now].stuff THEN Found(m, NoAlias)
    ELSE IF gone THEN Found([m EXCEPT !.used = TRUE], NoAlias)
    ELSE FoundFilled(m, kind, item)

SearchAgain(m, kind, name, item, gone) ==
    FoundAgain(Cached(m, kind, name, Lookup(m, kind, name)), kind, Lookup(m, kind, name), item, gone)

TakeFound(m, kind, name, item, effect) ==
    IF item = NoAlias THEN Found(m, NoAlias)
    ELSE IF m.heap[item].stub
      THEN SearchAgain(Unstubbed(m, kind, item, effect), kind, name, item,
                       effect \in {"deletes", "replaces"})
    ELSE Found(m, IF kind = "cmd" /\ ~ m.heap[item].stuff THEN NoAlias ELSE item)

\* find_var_alias(), find_cmd_alias()
SearchAlias(m, kind, name, item, effect) ==
    TakeFound(Cached(m, kind, name, item), kind, name, item, effect)

FindIn(m, kind, name, effect) == SearchAlias(m, kind, name, Lookup(m, kind, name), effect)

Find(m, kind, name, effect) == FindIn(WithCache(m, kind), kind, name, effect)

Effect(kind, name) == \* what a stub's file does matters only where there is one
    LET m == WithCache(Memory, kind)
        item == Lookup(m, kind, name)
    IN IF item # NoAlias /\ heap[item].stub THEN Effects(kind) ELSE {"nothing"}

----------------------------------------------------------------------------
(* What the user does *)

RoomFor(kind, name) ==
    Cardinality(DOMAIN heap) < MaxAliases \/ Exact(Memory, kind, name) # NoAlias

\* A command is typed, or a variable is expanded.
Use(kind, name) ==
    /\ \E effect \in Effect(kind, name) : Turns(Find(Memory, kind, name, effect).m)
    /\ UNCHANGED stacks

\* /alias, /assign; /stub assign
Define(kind, name, stuff) ==
    /\ stuff \/ kind = "var"
    /\ RoomFor(kind, name)
    /\ Turns(AddAlias(Memory, kind, name, stuff)) /\ UNCHANGED stacks

FillStub(f, name) ==
    FillNamed(IF f.item # NoAlias /\ NameOf(f.item) = name THEN f.m ELSE AddNew(f.m, "cmd", name),
              "cmd", name, FALSE)

\* add_cmd_stub_alias(): looks for the alias as if it were called.
add_cmd_stub_alias(name) ==
    /\ RoomFor("cmd", name)
    /\ \E effect \in Effect("cmd", name) :
        Turns(FillStub(Find(Memory, "cmd", name, effect), name))
    /\ UNCHANGED stacks

\* /alias -name, /assign -name
Unset(kind, name) ==
    /\ Turns(Delete(Memory, kind, {Exact(Memory, kind, name)})) /\ UNCHANGED stacks

\* /purge: all variables that begin so
delete_all_var_alias(name) ==
    /\ cache["var"] # <<>> \/ PurgeEarly
    /\ LET gone == Begun(Memory, "var", name)
       IN Turns([Delete(Memory, "var", gone) EXCEPT !.used = @ \/ (gone # {} /\ cache["var"] = <<>>)])
    /\ UNCHANGED stacks

\* /dump
destroy_aliases(kind) == Turns(Delete(Memory, kind, sets[kind])) /\ UNCHANGED stacks

\* do_stack_alias(STACK_PUSH): looks in the wrong array, and keeps what it deletes.
Pushed(f, kind, name) ==
    /\ f.item # NoAlias => PushExisting
    /\ Turns(IF f.item = NoAlias THEN f.m
             ELSE Delete(f.m, Other(kind), {Exact(f.m, Other(kind), name)}))
    /\ stacks' = [stacks EXCEPT ![kind] = <<[name |-> name, list |-> f.item]>> \o @]

PushAlias(kind, name) ==
    /\ Len(stacks["cmd"]) + Len(stacks["var"]) < MaxStacked
    /\ \E effect \in Effect(Other(kind), name) :
        Pushed(Find(Memory, Other(kind), name, effect), kind, name)

PutBack(m, kind, id) ==
    IF id = NoAlias THEN m
    ELSE IF id \in DOMAIN m.heap THEN AddToArray(m, kind, id)
    ELSE [m EXCEPT !.used = TRUE]

\* do_stack_alias(STACK_POP): the command alias goes, whatever is taken from the stack.
PopAlias(kind, name) ==
    LET at == SelectInSeq(stacks[kind], LAMBDA e : e.name = name) IN
    /\ at # 0
    /\ Turns(PutBack(Delete(Memory, "cmd", {Exact(Memory, "cmd", name)}), kind,
                     stacks[kind][at].list))
    /\ stacks' = [stacks EXCEPT ![kind] = RemoveAt(@, at)]

AliasesNext ==
    \/ \E name \in AliasNames : add_cmd_stub_alias(name) \/ delete_all_var_alias(name)
    \/ \E kind \in AliasKinds :
        \/ destroy_aliases(kind)
        \/ \E name \in AliasNames :
            \/ Use(kind, name) \/ Unset(kind, name)
            \/ \E stuff \in BOOLEAN : Define(kind, name, stuff)
            \/ PushAlias(kind, name) \/ PopAlias(kind, name)

AliasesSpec == AliasesInit /\ [][AliasesNext]_aliasVars

----------------------------------------------------------------------------
(* Properties *)

\* A name is one alias's; the cache leads only to aliases that are there to be
\* found, so that a lookup by way of it gives what a search would; and nothing
\* is lost, or used after it was freed.
AliasesSound ==
    /\ ~ freedUsed
    /\ DOMAIN heap = sets["cmd"] \cup sets["var"]
    /\ \A kind \in AliasKinds :
        /\ \A i, j \in sets[kind] : NameOf(i) = NameOf(j) => i = j
        /\ ToSet(cache[kind]) \subseteq sets[kind] \cup {NoAlias}
=============================================================================
