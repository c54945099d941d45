--------------------------------- MODULE Texts ---------------------------------
(***************************************************************************)
(* The functions of scripts on texts: words.c, and of functions.c those on   *)
(* words and on characters with what they use of ircaux.c.                   *)
(*                                                                         *)
(* The first half is about lists of words.  A list is a text: words, one     *)
(* space apart, and a word that holds spaces stands in quotes; the end of    *)
(* the text is the position behind its last character.  The second half is   *)
(* about characters: each is its code, signed as it is in C.  Positions      *)
(* count from 1 in both.                                                     *)
(***************************************************************************)
EXTENDS Integers, Sequences

LOCAL INSTANCE SequencesExt
LOCAL INSTANCE FiniteSetsExt
LOCAL INSTANCE Functions

CONSTANTS
    Vocabulary,   \* the words of scripts: texts without space, or in quotes
    Absent,       \* a word that is in no list
    MostWords,    \* bound: words of a list
    MixesQuotes,  \* word functions are used on quoted words although they do not know them
    KeepsFirst,   \* $rightw() is asked for a first word of one character
    Doubles       \* a list that another is taken from holds a word twice

SpaceChar == "_"
Quote == "q"
ASSUME WordsAssumption ==
    /\ MostWords \in Nat \ {0} /\ Absent \notin Vocabulary
    /\ \A w \in Vocabulary : w # <<>> /\ (SpaceChar \in Range(w) => w[1] = Quote /\ Last(w) = Quote)

VARIABLES
    text,   \* the text in the script's variable
    words   \* history: the list that the script made

wordVars == <<text, words>>

EOS == 32767
SOS == -32767

CharAt(s, p) == IF p \in DOMAIN s THEN s[p] ELSE "end"
Between(s, p, q) == SubSeq(s, p, q - 1)
Quoted(w) == w # <<>> /\ w[1] = Quote
Bare(w) == IF Quoted(w) THEN SubSeq(w, 2, Len(w) - 1) ELSE w
Join(l) == FoldLeft(LAMBDA a, w : IF a = <<>> THEN w ELSE a \o <<SpaceChar>> \o w, <<>>, l)

----------------------------------------------------------------------------
(* Moving over words *)

SkipSpaces(s, p) == Min({q \in p .. Len(s) + 1 : CharAt(s, q) # SpaceChar})
SkipWord(s, p) == Min({q \in p .. Len(s) + 1 : CharAt(s, q) \in {SpaceChar, "end"}})
BackOverSpaces(s, p) == Max({q \in 1 .. p : q = 1 \/ s[q - 1] # SpaceChar})

\* A quote that the end or a space follows
Closing(s, q) == CharAt(s, q) = Quote /\ CharAt(s, q + 1) \in {SpaceChar, "end"}
find_forward_quote(s, p) == Min({q \in p + 1 .. Len(s) : Closing(s, q)} \cup {Len(s) + 1})

\* Backwards it also looks for a quote that a space follows, and so for the end
\* of the quoted word before; when there is none it takes a normal word.
find_backward_quote(s, p) ==
    LET found == {q \in 2 .. p - 1 : Closing(s, q)}
    IN  IF found # {} THEN Max(found)
        ELSE Max({q \in 1 .. p : q = 1 \/ s[q - 1] = SpaceChar})

PastWord(s, p, extended) ==
    IF extended /\ CharAt(s, p) = Quote THEN Min({find_forward_quote(s, p) + 1, Len(s) + 1})
    ELSE SkipWord(s, p)

real_move_to_abs_word(s, word, extended) ==
    LET at[n \in 0 .. word] ==
            IF n = 0 THEN SkipSpaces(s, 1) ELSE SkipSpaces(s, PastWord(s, at[n - 1], extended))
    IN  at[word]

\* One word back: to the last character of the word before, 0 before the start
BackOne(s, p, extended) ==
    LET before ==
            IF extended /\ CharAt(s, p) = Quote
            THEN Max({find_backward_quote(s, p) - 1, 1})
            ELSE Max({q \in 1 .. p : CharAt(s, q) = SpaceChar} \cup {0})
    IN  Max({q \in 0 .. before : q <= 1 \/ s[q] # SpaceChar} \cap
            (IF before = 0 THEN {0} ELSE 1 .. before))

\* Back from the end of the text
move_word_rel(s, count, extended) ==
    LET at[n \in 0 .. count] ==
            IF n = 0 THEN Len(s) + 1
            ELSE IF at[n - 1] > 1 THEN BackOne(s, at[n - 1], extended) ELSE at[n - 1]
    IN  IF s = <<>> THEN 1 ELSE at[count] + 1

----------------------------------------------------------------------------
(* Taking words out *)

\* $n, $n-m, $-m, $n-, $~ and $rightw(): words count from the end below 0
FirstMark(s, first, extended) ==
    IF first = SOS THEN 1
    ELSE IF first >= 0 THEN real_move_to_abs_word(s, first, extended)
    ELSE move_word_rel(s, - first, extended)
LeadingSpaces(s, p) == LET back == BackOverSpaces(s, p) IN IF back > 1 THEN back + 1 ELSE back
EndMark(s, last, extended) ==
    IF last = EOS THEN Len(s) + 1
    ELSE BackOverSpaces(s, IF last >= 0 THEN real_move_to_abs_word(s, last + 1, extended)
                           ELSE move_word_rel(s, - last, extended))

real_extract2(s, first, last, extended) ==
    LET mark == FirstMark(s, first, extended)
    IN  IF first = EOS THEN Between(s, move_word_rel(s, 1, extended), Len(s) + 1)
        ELSE IF first >= 0 /\ mark > Len(s) THEN <<>>
        ELSE Between(s, IF last > first THEN LeadingSpaces(s, mark) ELSE mark,
                     EndMark(s, last, extended))

Stripped(s) ==
    IF \A i \in DOMAIN s : s[i] = SpaceChar THEN <<>>
    ELSE Between(s, SkipSpaces(s, 1), BackOverSpaces(s, Len(s) + 1))

real_extract(s, first, last, extended) ==
    LET t == Stripped(s)
    IN  IF last < 0 \/ first > last THEN <<>>
        ELSE Between(t, IF first >= 0 THEN real_move_to_abs_word(t, first, extended) ELSE 1,
                     EndMark(t, last, extended))

leftw(n, s) == IF n < 1 THEN <<>> ELSE real_extract(s, 0, n - 1, TRUE)
rightw(n, s) == IF n < 1 THEN <<>> ELSE real_extract2(s, - n, EOS, TRUE)
midw(start, n, s) == IF n < 1 THEN <<>> ELSE real_extract(s, start, start + n - 1, TRUE)
restw(n, s) == IF n < 0 THEN <<>> ELSE real_extract(s, n, EOS, FALSE)

----------------------------------------------------------------------------
(* Words one by one *)

\* The next word without its quotes, and what is left of the text: a quoted
\* word ends at the next quote, whatever follows it.
new_next_arg(s) ==
    LET p == SkipSpaces(s, 1)
        end == IF CharAt(s, p) = Quote
               THEN Min({q \in p + 1 .. Len(s) : s[q] = Quote} \cup {Len(s) + 1})
               ELSE SkipWord(s, p)
        start == IF CharAt(s, p) = Quote THEN p + 1 ELSE p
        past == IF CharAt(s, p) = Quote /\ CharAt(s, end + 1) = SpaceChar THEN end + 2 ELSE end + 1
    IN  [word |-> Between(s, start, end), rest |-> Between(s, past, Len(s) + 1)]

\* Every step takes a character at least.
splitw(s) ==
    LET take[n \in 0 .. Len(s)] ==
            IF n = 0 THEN [all |-> <<>>, rest |-> s]
            ELSE LET t == take[n - 1]
                 IN  IF Stripped(t.rest) = <<>> THEN t
                     ELSE [all |-> Append(t.all, new_next_arg(t.rest).word),
                           rest |-> new_next_arg(t.rest).rest]
    IN  take[Len(s)].all

word_count(s) == Len(splitw(s))
word(n, s) == IF n \in 0 .. word_count(s) - 1 THEN splitw(s)[n + 1] ELSE <<>>
findw(w, s) == Min({n \in 1 .. word_count(s) : splitw(s)[n] = w} \cup {word_count(s) + 1}) - 1

\* Where the last word begins, with its quotes
LastBegin(s) ==
    LET opens == {q \in 1 .. Len(s) - 1 : s[q] = Quote /\ (q = 1 \/ s[q - 1] = SpaceChar)}
        after == {q \in 1 .. Len(s) : q = 1 \/ s[q - 1] = SpaceChar}
    IN  IF Last(s) = Quote THEN Max(opens \cup {1}) ELSE Max(after)
last_arg(s) ==
    LET t == Stripped(s)
    IN  [word |-> Between(t, LastBegin(t), Len(t) + 1), rest |-> Stripped(Between(t, 1, LastBegin(t)))]

revw(s) ==
    LET take[n \in 0 .. Len(s)] ==
            IF n = 0 THEN [all |-> <<>>, rest |-> Stripped(s)]
            ELSE LET t == take[n - 1]
                 IN  IF t.rest = <<>> THEN t
                     ELSE [all |-> Append(t.all, last_arg(t.rest).word),
                           rest |-> last_arg(t.rest).rest]
    IN  Join(take[Len(s)].all)

\* $rmatch(): the number of the first word of the list that matches, from 1.
\* The words here are patterns without wildcards.
rmatch(w, s) == LET n == findw(w, s) IN IF n = word_count(s) THEN 0 ELSE n + 1

WhenFound(w, s, taken) == IF rmatch(w, s) < 1 THEN <<>> ELSE taken
Lame(w, s) == Join(<<w, s>>)
beforew(w, s) == WhenFound(w, s, real_extract(Lame(w, s), 1, rmatch(w, s) - 1, TRUE))
tow(w, s) == WhenFound(w, s, real_extract(Lame(w, s), 1, rmatch(w, s), TRUE))
afterw(w, s) == WhenFound(w, s, real_extract(Lame(w, s), rmatch(w, s) + 1, EOS, TRUE))
fromw(w, s) == WhenFound(w, s, real_extract(Lame(w, s), rmatch(w, s), EOS, TRUE))

pattern(P, s) == Join(SelectSeq(splitw(s), LAMBDA w : w \in P))
filter(P, s) == Join(SelectSeq(splitw(s), LAMBDA w : w \notin P))

----------------------------------------------------------------------------
(* Two lists *)

\* Each word of the left takes every equal word of the right with it, and is
\* there once for each.
Pairs(l, r, f) == FoldLeft(LAMBDA a, w :
        [all |-> IF f THEN a.all \o SelectSeq(a.right, LAMBDA v : v = w)
                 ELSE IF w \in Range(a.right) THEN a.all ELSE Append(a.all, w),
         right |-> SelectSeq(a.right, LAMBDA v : v # w)],
     [all |-> <<>>, right |-> r], l)
common(l, r) == Join(Pairs(splitw(l), splitw(r), TRUE).all)
diff(l, r) == LET p == Pairs(splitw(l), splitw(r), FALSE) IN Join(p.all \o p.right)
remws(l, r) == Join(SelectSeq(splitw(r), LAMBDA w : w \notin Range(splitw(l))))

----------------------------------------------------------------------------
(* Changing a list *)

Occurs(w, s, p) ==
    /\ Between(s, p, p + Len(w)) = w
    /\ p = 1 \/ s[p - 1] = SpaceChar
    /\ CharAt(s, p + Len(w)) \in {SpaceChar, "end"}
remw(w, s) ==
    LET all == {p \in 1 .. Len(s) - Len(w) + 1 : Occurs(w, s, p)}
        p == Min(all)
        after == p + Len(w)
    IN  IF all = {} THEN s
        ELSE IF after > Len(s) THEN Between(s, 1, Max({p - 1, 1}))
        ELSE IF p > 1 THEN Between(s, 1, p - 1) \o Between(s, after, Len(s) + 1)
        ELSE Between(s, after + 1, Len(s) + 1)

PutBetween(s, before, w, after) ==
    LET left == real_extract(s, 0, before, FALSE)
        right == real_extract(s, after, EOS, FALSE)
    IN  (IF left = <<>> THEN w ELSE left \o <<SpaceChar>> \o w)
        \o (IF right = <<>> THEN <<>> ELSE <<SpaceChar>> \o right)
insertw(n, w, s) == IF n < 1 THEN Join(<<w, s>>) ELSE PutBetween(s, n - 1, w, n)
chngw(n, w, s) == IF n < 0 THEN s ELSE PutBetween(s, n - 1, w, n + 1)

WordsInit == text = <<>> /\ words = <<>>

\* What a script makes of its list.  Only $push(), $unshift() and $shift() know
\* quotes: with MixesQuotes the others too are used on lists with quoted words.
Unquoted(l) == \A i \in DOMAIN l : ~ Quoted(l[i])
ListBecomes(t, l, known) ==
    /\ known \/ MixesQuotes
    /\ Len(l) <= MostWords
    /\ text' = t /\ words' = l

push(w) == ListBecomes(Join(<<text, w>>), Append(words, w), TRUE)
unshift(w) == ListBecomes(IF text = <<>> THEN w ELSE Join(<<w, text>>), <<w>> \o words, TRUE)
shift == words # <<>> /\ ListBecomes(new_next_arg(text).rest, Tail(words), TRUE)
pop ==
    LET spaces == {p \in 1 .. Len(text) : text[p] = SpaceChar}
    IN  /\ words # <<>>
        /\ ListBecomes(IF spaces = {} THEN <<>> ELSE Between(text, 1, Max(spaces)),
                   Front(words), ~ Quoted(Last(words)))
\* With an empty list behind it the word would keep a space at its end.
InsertWord(n, w) ==
    words # <<>> /\
    ListBecomes(insertw(n, w, text), InsertAt(words, Max({1, Min({n + 1, Len(words) + 1})}), w),
            Unquoted(words))
ChangeWord(n, w) ==
    ListBecomes(chngw(n, w, text),
            IF n < 0 THEN words ELSE IF n < Len(words) THEN ReplaceAt(words, n + 1, w)
            ELSE Append(words, w), Unquoted(words))
RemoveWord(w) ==
    ListBecomes(remw(w, text),
            IF w \in Range(words) THEN RemoveAt(words, Min({i \in DOMAIN words : words[i] = w}))
            ELSE words, TRUE)

WordsNext ==
    \/ \E w \in Vocabulary : push(w) \/ unshift(w)
    \/ shift \/ pop
    \/ \E w \in Vocabulary : RemoveWord(w)
    \/ \E w \in Vocabulary, n \in -1 .. MostWords : InsertWord(n, w) \/ ChangeWord(n, w)

WordsSpec == WordsInit /\ [][WordsNext]_wordVars

----------------------------------------------------------------------------
(* Properties *)

WordsTypeOK == words \in Seq(Vocabulary) /\ Len(words) <= MostWords

FirstWords(n) == Join(SubSeq(words, 1, Min({n, Len(words)})))
LastWords(n) == Join(SubSeq(words, Max({Len(words) - n + 1, 1}), Len(words)))
FromWord(n) == Join(SubSeq(words, n, Len(words)))
Place(w) == Min({i \in DOMAIN words : words[i] = w})
WithoutWords(l, r) == SelectSeq(l, LAMBDA w : w \notin Range(r))

\* $rightw() loses a first word of one character when it is asked for it.
LosesFirst(n) == ~ KeepsFirst /\ n >= Len(words) /\ words # <<>> /\ Len(words[1]) = 1

\* What a list is asked for in pieces
PiecesRight ==
    /\ text = Join(words)
    /\ splitw(text) = [i \in DOMAIN words |-> Bare(words[i])]
    /\ \A n \in 0 .. MostWords + 1 :
        /\ leftw(n, text) = FirstWords(n)
        /\ word(n, text) = IF n < Len(words) THEN Bare(words[n + 1]) ELSE <<>>
        /\ \A m \in 1 .. MostWords : midw(n, m, text) = Join(SubSeq(words, n + 1, Min({n + m, Len(words)})))
        /\ Unquoted(words) =>
            /\ restw(n, text) = FromWord(n + 1)
            /\ LosesFirst(n) \/ rightw(n, text) = LastWords(n)
            /\ real_extract2(text, n, n, FALSE) = word(n, text)
            /\ real_extract2(text, n, EOS, FALSE) = FromWord(n + 1)
            /\ real_extract2(text, SOS, n, FALSE) = FirstWords(n + 1)
    /\ Unquoted(words) /\ words # <<>> => Stripped(real_extract2(text, EOS, EOS, FALSE)) = Last(words)

\* What is found in it
SearchRight ==
    \A w \in Vocabulary \cup {Absent} : ~ Quoted(w) =>
        /\ findw(w, text) = (IF w \in Range(words) THEN Place(w) - 1 ELSE Len(words))
        /\ w \in Range(words) =>
            /\ beforew(w, text) = FirstWords(Place(w) - 1) /\ tow(w, text) = FirstWords(Place(w))
            /\ fromw(w, text) = FromWord(Place(w)) /\ afterw(w, text) = FromWord(Place(w) + 1)
        /\ w \notin Range(words) => beforew(w, text) = <<>> /\ fromw(w, text) = <<>>

\* Two lists: $common() is what both hold, $diff() what one of them holds,
\* and $remws() what the right one holds alone.
SetsRight ==
    \A i \in 0 .. Len(words) : Unquoted(words) /\ (IsInjective(words) \/ Doubles) =>
        LET l == SubSeq(words, 1, i)
            r == SubSeq(words, i + 1, Len(words)) \o <<words[1]>>
        IN  words # <<>> =>
            /\ Range(splitw(common(Join(l), Join(r)))) = Range(l) \cap Range(r)
            /\ Range(splitw(diff(Join(l), Join(r)))) = (Range(l) \cup Range(r)) \ (Range(l) \cap Range(r))
            /\ splitw(remws(Join(l), Join(r))) = WithoutWords(r, l)

\* What a script put into a list is in it, in its order, whichever way it is asked.
WordsSound ==
    /\ PiecesRight /\ SearchRight /\ SetsRight
    /\ revw(text) = Join(Reverse(words))
    /\ \A w \in Vocabulary : Unquoted(words) =>
        /\ pattern({w}, text) = Join(SelectSeq(words, LAMBDA v : v = w))
        /\ filter({w}, text) = Join(WithoutWords(words, <<w>>))

----------------------------------------------------------------------------
(* Characters *)

CONSTANTS
    TextChars,    \* the characters of texts
    DataSize,     \* bound: characters of a text
    EmptySearch   \* $sar() is asked to search for nothing

Bracket == 91
ClosingBracket == 93
Escape == 92
Comma == 44
Dot == 46
BlankChar == 32
ASSUME TextsAssumption == TextChars \subseteq -128 .. 127 \ {0} /\ DataSize \in Nat

VARIABLE data   \* the text that a script works on

textVars == data

Piece(t, i, j) == SubSeq(t, Max({i, 1}), Min({j, Len(t)}))

----------------------------------------------------------------------------
(* Searching *)

\* The positions that sindex() and rsindex() stop at: the characters of a set,
\* or those outside of it
Stops(t, chars, outside) == {i \in DOMAIN t : (t[i] \in chars) # outside}

\* The number-th from the front, or from the back below 0; 0 is NULL
search(t, chars, outside, number) ==
    LET stops == Stops(t, chars, outside)
        found == {i \in stops : Cardinality({j \in stops : IF number > 0 THEN j <= i ELSE j >= i})
                                    = (IF number > 0 THEN number ELSE - number)}
    IN  IF found = {} THEN 0 ELSE CHOOSE i \in found : TRUE

index(t, chars) == search(t, chars, FALSE, 1) - 1
rindex(t, chars) == search(t, chars, FALSE, -1) - 1

\* A number of 0 is taken for the characters, and the first of them is found.
Number(n) == IF n = 0 THEN 1 ELSE n
beforeText(n, chars, t) ==
    LET p == search(t, chars, FALSE, Number(n)) IN IF p = 0 THEN <<>> ELSE Piece(t, 1, p - 1)
afterText(n, chars, t) ==
    LET p == search(t, chars, FALSE, Number(n)) IN IF p = 0 THEN <<>> ELSE Piece(t, p + 1, Len(t))

\* Where a text is found in another, from a position on; 0 is NULL
stristr(t, s, from) ==
    LET at == {i \in from .. Len(t) - Len(s) + 1 : Piece(t, i, i + Len(s) - 1) = s}
    IN  IF at = {} THEN 0 ELSE Min(at)
rstristr(t, s) ==
    LET at == {i \in 1 .. Len(t) - Len(s) + 1 : Piece(t, i, i + Len(s) - 1) = s}
    IN  IF at = {} \/ s = <<>> THEN 0 ELSE Max(at)

----------------------------------------------------------------------------
(* Pieces.  A position that is compared with strlen() is unsigned there. *)

left(n, t) == IF n < 0 THEN <<>> ELSE Piece(t, 1, n)
right(n, t) == IF n < 0 THEN <<>> ELSE Piece(t, Len(t) - n + 1, Len(t))
mid(start, n, t) == IF start < 0 \/ start >= Len(t) \/ n < 0 THEN <<>> ELSE Piece(t, start + 1, start + n)

\* A number of 0 is taken for part of the text, of which one character goes.
rest(start, t) ==
    IF start = 0 THEN <<BlankChar>> \o t
    ELSE IF start < 0 THEN t ELSE Piece(t, start + 1, Len(t))

reverse(t) == [i \in DOMAIN t |-> t[Len(t) - i + 1]]

next_in_comma_list(t) ==
    LET comma == search(t, {Comma}, FALSE, 1)
    IN  IF comma = 0 THEN [first |-> t, after |-> <<>>]
        ELSE [first |-> Piece(t, 1, comma - 1), after |-> Piece(t, comma + 1, Len(t))]

----------------------------------------------------------------------------
(* Changing characters *)

strip(chars, t) == SelectSeq(t, LAMBDA c : c \notin chars)

\* A character of the old ones becomes the new one at its place or the last new one.
PlaceOf(c, old) == Min({i \in DOMAIN old : old[i] = c})
translate(old, new, t) ==
    IF old = <<>> THEN <<>>
    ELSE IF new = <<>> THEN strip(Range(old), t)
    ELSE [i \in DOMAIN t |-> IF t[i] \in Range(old) THEN new[Min({PlaceOf(t[i], old), Len(new)})] ELSE t[i]]

\* Two letters from "A" on for a character; the shift of a negative one stays below 0.
Signed(c) == ((c + 128) % 256) - 128
encode(t) == FlattenSeq([i \in DOMAIN t |-> <<(t[i] \div 16) + 65, (t[i] % 16) + 65>>])
decode(t) == [i \in 1 .. Len(t) \div 2 |-> Signed((t[2 * i - 1] - 65) * 16 + (t[2 * i] - 65))]

----------------------------------------------------------------------------
(* Search and replace *)

\* searchlen is one less than the length of what is searched, and at least 0:
\* a search for nothing takes a character away each time.
Taken(s) == Max({Len(s), 1})

\* value is what is not copied yet, booya what is
Replace(a, s, r) ==
    LET at == stristr(a.value, s, 1)
    IN  IF at = 0 \/ (a.value = <<>> /\ a.booya # <<>>) THEN a
        ELSE [booya |-> a.booya \o Piece(a.value, 1, at - 1) \o r,
              value |-> Piece(a.value, at + Taken(s), Len(a.value))]

sar(s, r, t, global) ==
    LET turns[n \in 0 .. Len(t)] ==
            IF n = 0 THEN [booya |-> <<>>, value |-> t] ELSE Replace(turns[n - 1], s, r)
        a == turns[IF global THEN Len(t) ELSE Min({1, Len(t)})]
    IN  a.booya \o a.value

\* Pair after pair, each on what the one before made
msar(pairs, t, global) ==
    FoldLeft(LAMBDA a, p : IF a = <<>> THEN a ELSE sar(p[1], p[2], a, global), t, pairs)

----------------------------------------------------------------------------
(* Brackets *)

\* The bracket that closes, counted from the opening one; \ takes a character
\* out of the count.
Escaped(t) ==
    LET e[i \in 0 .. Len(t)] == i > 0 /\ i > 1 /\ t[i - 1] = Escape /\ ~ e[i - 1]
    IN  {i \in DOMAIN t : e[i]}
Depth(t, i) ==
    1 + Cardinality({j \in 1 .. i : t[j] = Bracket /\ j \notin Escaped(t)})
      - Cardinality({j \in 1 .. i : t[j] = ClosingBracket /\ j \notin Escaped(t)})
ClosingOf(t) ==
    LET closes == {i \in DOMAIN t \ Escaped(t) : t[i] = ClosingBracket /\ Depth(t, i) = 0}
    IN  IF closes = {} THEN 0 ELSE Min(closes)

\* foo[one][two] becomes foo.one.two, bracket by bracket
OneBracket(t) ==
    LET open == search(t, {Bracket}, FALSE, 1)
        inside == Piece(t, open + 1, Len(t))
        close == ClosingOf(inside)
    IN  IF open = 0 THEN t
        ELSE Piece(t, 1, open - 1) \o <<Dot>> \o
             (IF close = 0 THEN inside ELSE Piece(inside, 1, close - 1) \o Piece(inside, close + 1, Len(inside)))
remove_brackets(t) ==
    LET turns[n \in 0 .. Len(t)] == IF n = 0 THEN t ELSE OneBracket(turns[n - 1])
    IN  turns[Len(t)]

----------------------------------------------------------------------------
TextsInit == data = <<>>

Some == {<<>>} \cup {<<c>> : c \in TextChars} \cup {<<c, d>> : c \in TextChars, d \in TextChars}

\* What a script does with its text
TextBecomes(t) == Len(t) <= DataSize /\ data' = t
TextsNext ==
    \/ \E c \in TextChars : TextBecomes(Append(data, c))
    \/ TextBecomes(reverse(data)) \/ TextBecomes(remove_brackets(data))
    \/ TextBecomes(next_in_comma_list(data).after)
    \/ \E s \in Some \ {<<>>}, r \in Some : TextBecomes(sar(s, r, data, TRUE))
    \/ \E c \in TextChars : TextBecomes(strip({c}, data)) \/ TextBecomes(afterText(1, {c}, data))

TextsSpec == TextsInit /\ [][TextsNext]_textVars

----------------------------------------------------------------------------
(* Properties *)

TextsTypeOK == data \in Seq(-128 .. 127) /\ Len(data) <= DataSize

\* Pieces put together are the text again.
PiecesWhole ==
    /\ \A n \in 0 .. DataSize :
        /\ left(n, data) \o mid(n, DataSize, data) = data
        /\ n < Len(data) => mid(0, n, data) \o right(Len(data) - n, data) = data
        /\ n > 0 => left(n, data) \o rest(n, data) = data
    /\ reverse(reverse(data)) = data
    /\ data # <<>> =>
        LET n == next_in_comma_list(data)
        IN  data \in {n.first, n.first \o <<Comma>> \o n.after}
    /\ \A c \in TextChars, n \in (-2 .. 2) \ {0} :
        LET p == search(data, {c}, FALSE, n)
        IN  IF p = 0 THEN Cardinality({i \in DOMAIN data : data[i] = c}) < (IF n > 0 THEN n ELSE - n)
            ELSE beforeText(n, {c}, data) \o <<c>> \o afterText(n, {c}, data) = data

\* Whatever can be undone is: a character or two replaced by one that is not
\* there, and back; one letter for another; the code of a text.
UndoneWhole ==
    /\ decode(encode(data)) = data
    /\ \A c \in TextChars : strip({c}, data) = translate(<<c>>, <<>>, data)
    /\ \A s \in Some : (s # <<>> \/ EmptySearch) =>
        /\ sar(<<0>>, s, sar(s, <<0>>, data, TRUE), TRUE) = data
        /\ sar(<<0>>, s, sar(s, <<0>>, data, FALSE), FALSE) = data
        /\ s # <<>> => stristr(sar(s, <<0>>, data, TRUE), s, 1) = 0
        /\ \A c \in TextChars : msar(<< <<s, <<0>> >>, << <<0>>, <<c>> >> >>, data, TRUE)
                                    = sar(s, <<c>>, data, TRUE)
        /\ s # <<>> /\ stristr(data, s, 1) # 0 =>
            stristr(data, s, 1) = Len(data) + 2 - Len(s) - rstristr(reverse(data), reverse(s))

\* No opening bracket is left; brackets that close leave as many dots as pairs.
BracketsGone ==
    /\ search(remove_brackets(data), {Bracket}, FALSE, 1) = 0
    /\ Len(SelectSeq(remove_brackets(data), LAMBDA c : c = Dot))
           = Len(SelectSeq(data, LAMBDA c : c \in {Dot, Bracket}))

TextsSound == PiecesWhole /\ UndoneWhole /\ BracketsGone
=============================================================================
