-------------------------------- MODULE Arrays --------------------------------
(***************************************************************************)
(* The arrays of scripts, array.c: $setitem(), $delitem(), $finditem() and  *)
(* the others.  Each array keeps its items in the order of their numbers and *)
(* an index of them in the order of their text, and the arrays themselves    *)
(* are kept like the items of one.  What the functions answer is compared    *)
(* with what the description at the head of array.c says of them.            *)
(*                                                                         *)
(* ItemNumbers of items and positions in an index start at 1 here, at 0 there.  *)
(***************************************************************************)
EXTENDS Integers, Sequences, FiniteSets

LOCAL INSTANCE SequencesExt
LOCAL INSTANCE FiniteSetsExt

CONSTANTS
    NTitles,        \* the names of arrays are 1 .. NTitles, in their order
    NData,          \* what is stored is 1 .. NData, in its order; 1 is the pattern *
    MaxItems,       \* bound: items of an array
    ArrayThreshold  \* ARRAY_THRESHOLD

ASSUME ArraysAssumption == {NTitles, NData, MaxItems, ArrayThreshold} \subseteq Nat \ {0}

Titles == 1 .. NTitles
Data == 1 .. NData

\* wild_match(): the pattern * matches everything, another one itself.
WildMatch(pattern, text) == IF pattern = 1 THEN 1 ELSE IF pattern = text THEN 2 ELSE 0

VARIABLES
    array_info,   \* the names of the arrays, with their index
    array_array,  \* the arrays, in the order of array_info.item
    answer,       \* what the last function answered
    stored,       \* history: what each array should hold
    due           \* history: what the last function should have answered

arrayVars == <<array_info, array_array, answer, stored, due>>

NoArray == [item |-> <<>>, index |-> <<>>]

----------------------------------------------------------------------------
(* The index *)

ItemNumbers(a) == 1 .. Len(a.item)
Ranked(a, k) == a.item[a.index[k]]

\* Where the text is in the index, or where it belongs
find_item(a, text) ==
    LET n == Len(a.item)
        search[b \in 1 .. n + 1, t \in 0 .. n] ==
            LET key == (t - b) \div 2 + b
            IN IF t < b THEN [found |-> FALSE, at |-> b]
               ELSE IF Ranked(a, key) = text THEN [found |-> TRUE, at |-> key]
               ELSE IF text < Ranked(a, key) THEN search[b, key - 1] ELSE search[key + 1, t]
    IN search[1, n]

insert_index(index, new) == InsertAt(index, IF index = <<>> THEN 1 ELSE new, Len(index) + 1)

move_index(index, old, new) ==
    InsertAt(RemoveAt(index, old), IF new > old THEN new - 1 ELSE new, index[old])

\* The first of the equal ones that end at position k
FirstEqual(a, k, text) == 1 + Max({0} \cup {j \in 1 .. k : Ranked(a, j) # text})

FromWhere(a, n) ==
    IF Len(a.item) < ArrayThreshold THEN 1
    ELSE FirstEqual(a, find_item(a, a.item[n]).at, a.item[n])

find_index(a, n) == Min({k \in FromWhere(a, n) .. Len(a.item) : a.index[k] = n})

----------------------------------------------------------------------------
(* Finding an array, and taking one off *)

Exists(title) == find_item(array_info, title).found
ArraySlot(title) == array_info.index[find_item(array_info, title).at]
get_array(title) == array_array[ArraySlot(title)]

\* ItemNumbers above n go down by one.
Lowered(index, n) == [k \in DOMAIN index |-> IF index[k] > n THEN index[k] - 1 ELSE index[k]]

TakenOff(a, position) ==
    LET n == a.index[position]
    IN [item |-> RemoveAt(a.item, n), index |-> RemoveAt(Lowered(a.index, n), position)]

delete_array(title) ==
    /\ array_info' = TakenOff(array_info, find_item(array_info, title).at)
    /\ array_array' = RemoveAt(array_array, ArraySlot(title))

----------------------------------------------------------------------------
(* The functions that change arrays *)

ArraysInit ==
    /\ array_info = NoArray /\ array_array = <<>> /\ answer = 0
    /\ stored = [t \in Titles |-> <<>>] /\ due = 0

Replaced(a, n, text) ==
    [item |-> [a.item EXCEPT ![n] = text],
     index |-> move_index(a.index, find_index(a, n), find_item(a, text).at)]
ItemAdded(a, text) ==
    [item |-> Append(a.item, text), index |-> insert_index(a.index, find_item(a, text).at)]

SetOld(title, n, text) ==
    /\ n <= Len(get_array(title).item)
    /\ array_array' = [array_array EXCEPT ![ArraySlot(title)] = Replaced(@, n, text)]
    /\ answer' = 0 /\ UNCHANGED array_info

SetNext(title, n, text) ==
    /\ n = Len(get_array(title).item) + 1
    /\ array_array' = [array_array EXCEPT ![ArraySlot(title)] = ItemAdded(@, text)]
    /\ answer' = 2 /\ UNCHANGED array_info

SetBeyond(title, n) ==
    /\ n > Len(get_array(title).item) + 1
    /\ answer' = -2 /\ UNCHANGED <<array_info, array_array>>

SetFirst(title, n, text) ==
    /\ ~ Exists(title)
    /\ IF n = 1
         THEN /\ array_array' = Append(array_array, ItemAdded(NoArray, text))
              /\ array_info' = ItemAdded(array_info, title)
              /\ answer' = 1
         ELSE answer' = -1 /\ UNCHANGED <<array_info, array_array>>

\* What the description says of the result
PutIn(s, n, text) ==
    IF n > Len(s) + 1 THEN s ELSE IF n = Len(s) + 1 THEN Append(s, text) ELSE [s EXCEPT ![n] = text]
DueOfSet(s, n) ==
    IF n <= Len(s) THEN 0 ELSE IF n = Len(s) + 1 THEN (IF s = <<>> THEN 1 ELSE 2)
    ELSE IF s = <<>> THEN -1 ELSE -2

function_setitem(title, n, text) ==
    /\ \/ SetFirst(title, n, text)
       \/ Exists(title) /\ (SetOld(title, n, text) \/ SetNext(title, n, text) \/ SetBeyond(title, n))
    /\ stored' = [stored EXCEPT ![title] = PutIn(@, n, text)]
    /\ due' = DueOfSet(stored[title], n)

DeleteItem(title, n) ==
    IF Len(get_array(title).item) = 1 THEN delete_array(title)
    ELSE /\ array_array' = [array_array EXCEPT ![ArraySlot(title)] = TakenOff(@, find_index(@, n))]
         /\ UNCHANGED array_info

function_delitem(title, n) ==
    /\ IF Exists(title) /\ n \in ItemNumbers(get_array(title))
         THEN DeleteItem(title, n) /\ answer' = 0
         ELSE /\ answer' = IF Exists(title) THEN -2 ELSE -1
              /\ UNCHANGED <<array_info, array_array>>
    /\ stored' = [stored EXCEPT ![title] = IF n \in DOMAIN @ THEN RemoveAt(@, n) ELSE @]
    /\ due' = IF n \in DOMAIN stored[title] THEN 0 ELSE IF stored[title] = <<>> THEN -1 ELSE -2

function_delarray(title) ==
    /\ IF Exists(title) THEN delete_array(title) /\ answer' = 0
       ELSE answer' = -1 /\ UNCHANGED <<array_info, array_array>>
    /\ stored' = [stored EXCEPT ![title] = <<>>]
    /\ due' = IF stored[title] = <<>> THEN -1 ELSE 0

delete_all_arrays ==
    /\ array_info' = NoArray /\ array_array' = <<>> /\ answer' = 0
    /\ stored' = [t \in Titles |-> <<>>] /\ due' = 0

ArraysNext ==
    \/ \E t \in Titles, n \in 1 .. MaxItems, d \in Data : function_setitem(t, n, d)
    \/ \E t \in Titles, n \in 1 .. MaxItems : function_delitem(t, n)
    \/ \E t \in Titles : function_delarray(t)
    \/ delete_all_arrays

ArraysSpec == ArraysInit /\ [][ArraysNext]_arrayVars

----------------------------------------------------------------------------
(* The functions that only look *)

function_numitems(title) == IF Exists(title) THEN Len(get_array(title).item) ELSE 0
function_numarrays == Len(array_info.item)
function_getarrays == [k \in ItemNumbers(array_info) |-> Ranked(array_info, k)]
function_listarray(title) == IF Exists(title) THEN get_array(title).item ELSE <<>>

\* Asked of an array; none says what is answered without one
function_finditem(a, text) ==
    IF find_item(a, text).found THEN a.index[find_item(a, text).at] ELSE -2
function_ifinditem(a, text) == IF find_item(a, text).found THEN find_item(a, text).at ELSE -2
function_ifindfirst(a, text) ==
    IF find_item(a, text).found THEN FirstEqual(a, find_item(a, text).at, text) ELSE -2
function_getitem(a, n) == IF n \in ItemNumbers(a) THEN a.item[n] ELSE 0
function_igetitem(a, k) == IF k \in ItemNumbers(a) THEN Ranked(a, k) ELSE 0
function_indextoitem(a, k) == IF k \in ItemNumbers(a) THEN a.index[k] ELSE -2
function_itemtoindex(a, n) == IF n \in ItemNumbers(a) THEN find_index(a, n) ELSE -2

\* The item that matches best: the loop keeps the first of those with the most.
BestOf(a, scores) ==
    LET best[n \in 0 .. Len(a.item)] ==
            IF n = 0 THEN [at |-> -2, most |-> 0]
            ELSE IF scores[n] > best[n - 1].most THEN [at |-> n, most |-> scores[n]]
            ELSE best[n - 1]
    IN best[Len(a.item)].at

Scores(a, pattern) == [n \in ItemNumbers(a) |-> WildMatch(pattern, a.item[n])]
ReverseScores(a, text) == [n \in ItemNumbers(a) |-> WildMatch(a.item[n], text)]

function_matchitem(a, pattern) == BestOf(a, Scores(a, pattern))
function_rmatchitem(a, text) == BestOf(a, ReverseScores(a, text))
function_gettmatch(a, pattern) == function_getitem(a, function_matchitem(a, pattern))
Scored(a, scores) == {n \in ItemNumbers(a) : scores[n] > 0}
function_getmatches(a, pattern) == Scored(a, Scores(a, pattern))
function_getrmatches(a, text) == Scored(a, ReverseScores(a, text))
function_igetmatches(a, pattern) == {find_index(a, n) : n \in function_getmatches(a, pattern)}
function_igetrmatches(a, text) == {find_index(a, n) : n \in function_getrmatches(a, text)}

----------------------------------------------------------------------------
(* Properties *)

ArraysTypeOK ==
    /\ array_info \in [item : Seq(Titles), index : Seq(1 .. NTitles)]
    /\ \A k \in DOMAIN array_array :
          array_array[k] \in [item : Seq(Data), index : Seq(1 .. MaxItems)]
    /\ answer \in -2 .. 2 /\ due \in -2 .. 2

\* An index holds every number once, in the order of the text.
Indexed(a) ==
    /\ Len(a.index) = Len(a.item) /\ ToSet(a.index) = ItemNumbers(a)
    /\ \A k \in 1 .. Len(a.index) - 1 : Ranked(a, k) <= Ranked(a, k + 1)

\* What the searches find is there, and the first where that is asked.
Searched(a, text) ==
    LET with == {n \in ItemNumbers(a) : a.item[n] = text}
    IN /\ function_finditem(a, text) \in IF with = {} THEN {-2} ELSE with
       /\ with # {} =>
             /\ a.index[function_ifinditem(a, text)] \in with
             /\ function_ifindfirst(a, text) = Min({k \in ItemNumbers(a) : a.index[k] \in with})

Matched(a, pattern) ==
    /\ LET best == function_matchitem(a, pattern)
       IN \A n \in ItemNumbers(a) : WildMatch(pattern, a.item[n]) > 0 =>
             /\ best \in ItemNumbers(a)
             /\ WildMatch(pattern, a.item[best]) >= WildMatch(pattern, a.item[n])
             /\ function_gettmatch(a, pattern) = a.item[best]
    /\ {a.index[k] : k \in function_igetmatches(a, pattern)} = function_getmatches(a, pattern)
    /\ {a.index[k] : k \in function_igetrmatches(a, pattern)} = function_getrmatches(a, pattern)

Converted(a) ==
    /\ \A n \in ItemNumbers(a) : function_indextoitem(a, function_itemtoindex(a, n)) = n
    /\ \A k \in ItemNumbers(a) : function_igetitem(a, k) = function_getitem(a, function_indextoitem(a, k))

\* Every array holds what was put into it, in its order, is found by its name, and
\* its index leads to its items in the order of their text; each function answers
\* what the head of array.c says.
ArraysSound ==
    /\ answer = due
    /\ Indexed(array_info)
    /\ function_getarrays = SetToSortSeq({t \in Titles : stored[t] # <<>>}, <)
    /\ function_numarrays = Len(array_array)
    /\ \A t \in Titles :
          /\ function_listarray(t) = stored[t] /\ function_numitems(t) = Len(stored[t])
          /\ Exists(t) =>
                /\ Indexed(get_array(t)) /\ Converted(get_array(t))
                /\ \A d \in Data : Searched(get_array(t), d) /\ Matched(get_array(t), d)
=============================================================================
