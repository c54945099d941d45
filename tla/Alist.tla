-------------------------------- MODULE Alist --------------------------------
(***************************************************************************)
(* The resizeable sorted arrays of source/alist.c, which hold aliases and  *)
(* variables: the search by a hash of the first letters and then by name,  *)
(* insertion, removal, and the memory the array has.                       *)
(***************************************************************************)
EXTENDS Integers, Sequences, FiniteSets

LOCAL INSTANCE SequencesExt
LOCAL INSTANCE FiniteSetsExt

CONSTANTS
    Names,       \* names of items: sequences of letters, which are numbers
    HashLength,  \* letters that go into the hash (4)
    LetterBase,  \* a letter is below it (256)
    RefillSmall  \* may an array with memory for three be emptied and added to?

ASSUME AlistAssumption ==
    /\ \A s \in Names : s # <<>> /\ \A k \in DOMAIN s : s[k] \in 1 .. LetterBase - 1
    /\ HashLength \in Nat \ {0} /\ RefillSmall \in BOOLEAN

VARIABLES
    items,      \* items[0 .. max - 1]: names in their order
    total_max  \* items there is memory for

alistVars == <<items, total_max>>

AlistTypeOK == items \in Seq(Names) /\ total_max \in Nat

AlistInit == items = <<>> /\ total_max = 0

----------------------------------------------------------------------------
(* Comparisons *)

\* cs_alist_hash() & mask: the first n letters as a number, 0 after the last one
HashOf(s, n) ==
    LET h[k \in 0 .. n] == IF k = 0 THEN 0
                           ELSE h[k - 1] * LetterBase + (IF k <= Len(s) THEN s[k] ELSE 0)
    IN h[n]

\* The difference of two hashes, unsigned, taken for a signed one
HashCompare(s, t) ==
    LET n == Min({Len(s), HashLength})
        limit == LetterBase ^ n
        d == (HashOf(s, n) - HashOf(t, n)) % limit
    IN IF 2 * d >= limit THEN d - limit ELSE d

\* strncmp(s, t, strlen(s))
NameCompare(s, t) ==
    LET differ == {k \in 1 .. Len(s) : k > Len(t) \/ s[k] # t[k]}
        k == Min(differ)
    IN IF differ = {} THEN 0 ELSE IF k > Len(t) THEN 1 ELSE s[k] - t[k]

----------------------------------------------------------------------------
(* Searching; places are counted from 0 *)

MaxPlace(a) == Len(a) - 1
ItemAt(a, pos) == a[pos + 1]

\* Halve [min, max] until c = 0 or nothing is left.
Bisect(compare, min, max) ==
    LET look[lo \in Nat, hi \in Int] ==
            LET pos == (hi - lo) \div 2 + lo
                c == compare[pos]
            IN IF c < 0 /\ pos - 1 >= lo THEN look[lo, pos - 1]
               ELSE IF c > 0 /\ hi >= pos + 1 THEN look[pos + 1, hi]
               ELSE [pos |-> pos, c |-> c]
    IN look[min, max]

Missed(r) == [cnt |-> 0, loc |-> IF r.c > 0 THEN r.pos + 1 ELSE r.pos]

\* The places from pos to both sides at which compare gives 0, and the first
\* at which it does not, unless the array ends before
Around(compare, pos, first, last) ==
    <<Max({first} \cup {k \in first .. pos : compare[k] # 0}),
      Min({last} \cup {k \in pos .. last : compare[k] # 0})>>

\* cnt is how many begin with the name, negative if the first of them is it.
Matches(a, name, compare, pos) ==
    LET same == {k \in 0 .. MaxPlace(a) :
                    \A j \in Min({k, pos}) .. Max({k, pos}) : compare[j] = 0}
        n == Cardinality(same)
    IN [cnt |-> IF Len(ItemAt(a, Min(same))) = Len(name) THEN - n ELSE n, loc |-> Min(same)]

find_array_item(a, name) ==
    LET byHash == [pos \in 0 .. MaxPlace(a) |-> HashCompare(name, ItemAt(a, pos))]
        byName == [pos \in 0 .. MaxPlace(a) |-> NameCompare(name, ItemAt(a, pos))]
        hashed == Bisect(byHash, 0, MaxPlace(a))
        range == Around(byHash, hashed.pos, 0, MaxPlace(a))
        named == Bisect(byName, range[1], range[2])
    IN IF a = <<>> THEN [cnt |-> 0, loc |-> 0]
       ELSE IF hashed.c # 0 THEN Missed(hashed)
       ELSE IF named.c # 0 THEN Missed(named)
       ELSE Matches(a, name, byName, named.pos)

\* For the tables of commands and settings, which do not change
find_fixed_array_item(a, name) ==
    LET byName == [pos \in 0 .. MaxPlace(a) |-> NameCompare(name, ItemAt(a, pos))]
        look[lo \in Nat, hi \in Nat, old \in Int] ==
            LET pos == (hi + lo) \div 2
            IN IF pos = old THEN [cnt |-> 0, loc |-> pos]
               ELSE IF byName[pos] = 0 THEN Matches(a, name, byName, pos)
               ELSE IF byName[pos] > 0 THEN look[pos, hi, pos] ELSE look[lo, pos, pos]
    IN look[0, Len(a), -1]

----------------------------------------------------------------------------
(* Changing *)

check_array_size ==
    total_max' = IF total_max = 0 THEN 6
                 ELSE IF Len(items) = total_max - 1 THEN total_max * 2
                 ELSE IF Len(items) * 3 < total_max THEN total_max \div 2
                 ELSE total_max

\* A mistake: the item goes behind those that begin with its name.
InsertBehind(a, name) ==
    LET f == find_array_item(a, name)
    IN IF f.cnt < 0 THEN ReplaceAt(a, f.loc + 1, name)
       ELSE InsertAt(a, f.loc + f.cnt + 1, name)

Insert(a, name) ==
    LET f == find_array_item(a, name)
    IN IF f.cnt < 0 THEN ReplaceAt(a, f.loc + 1, name) ELSE InsertAt(a, f.loc + 1, name)

add_to_array(name) ==
    /\ check_array_size
    /\ items' = Insert(items, name)

array_pop(which) == items' = RemoveAt(items, which + 1) /\ UNCHANGED total_max

remove_from_array(name) ==
    LET f == find_array_item(items, name)
    IN f.cnt < 0 /\ array_pop(f.loc)

remove_all_from_array(name) ==
    LET f == find_array_item(items, name)
    IN f.cnt # 0 /\ array_pop(f.loc)

AlistNext ==
    \E name \in Names :
        \/ (items = <<>> /\ total_max = 3 => RefillSmall) /\ add_to_array(name)
        \/ remove_from_array(name) \/ remove_all_from_array(name)

AlistSpec == AlistInit /\ [][AlistNext]_alistVars

----------------------------------------------------------------------------
(* Properties *)

\* The items a name begins stand together and are found by it: their number,
\* the first of them, and whether that one has the very name; an item has its
\* name to itself. The same search in a table that does not change agrees.
Finds(f, a, name) ==
    LET begun == {k \in 0 .. MaxPlace(a) : IsPrefix(name, ItemAt(a, k))}
    IN /\ f.cnt \in {Cardinality(begun), - Cardinality(begun)}
       /\ f.cnt < 0 <=> \E k \in begun : ItemAt(a, k) = name
       /\ begun # {} => f.loc = Min(begun)

ItemsFound ==
    /\ \A i, j \in DOMAIN items : i < j => items[i] # items[j]
    /\ \A name \in Names :
        /\ Finds(find_array_item(items, name), items, name)
        /\ items # <<>> => Finds(find_fixed_array_item(items, name), items, name)

\* array_pop() reads the place behind the last item and an insertion writes
\* it: there is always memory for one item more.
RoomBehind == items # <<>> => Len(items) < total_max

AlistSound == ItemsFound /\ RoomBehind
=============================================================================
