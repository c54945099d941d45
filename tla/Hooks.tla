--------------------------------- MODULE Hooks ---------------------------------
(***************************************************************************)
(* The hooks of one type of event (source/hook.c): /on adds and removes    *)
(* them, /stack on puts the list aside and brings it back, and do_hook()   *)
(* runs for an event the best match of every serial number.  It collects   *)
(* pointers to them first; then their code runs, which may use /on and     *)
(* cause the event again, so the calls of do_hook() are on a stack.        *)
(*                                                                         *)
(* A pattern is a number, in alphabetical order; one text is asserted.     *)
(***************************************************************************)
EXTENDS Integers, Sequences, FiniteSets, FiniteSetsExt

CONSTANTS
    Serials,    \* serial numbers in use
    Patterns,   \* patterns in use
    MatchValue, \* what wild_match() says of each pattern, 0 when it does not match
    NHooks,     \* bound: hooks ever allocated
    NEvents,    \* bound: events
    MaxPushes,  \* bound: lists on the stack at a time
    Recursive,  \* does the event take place within its own hooks? (HF_NORECURSE)
    NextTwice,  \* does code say "next" before a hook that was collected too?
    CodeDrops   \* what a hook's code removes: "itself", or "any" hook

ASSUME HooksAssumption ==
    /\ Serials \subseteq Int /\ Patterns \subseteq Nat
    /\ \A n \in Patterns : MatchValue[n] \in Nat
    /\ NHooks \in Nat /\ NEvents \in Nat /\ MaxPushes \in Nat
    /\ Recursive \in BOOLEAN /\ NextTwice \in BOOLEAN /\ CodeDrops \in {"itself", "any"}

HookIds == 1 .. NHooks

VARIABLES
    list,      \* hook_functions[which].list
    mark,      \* hook_functions[which].mark
    on_stack,  \* the lists put aside, the last one first
    hook,      \* the Hook structures
    freed,     \* those freed
    calls,     \* do_hook() at work: what is left of hook_array, the hook whose
               \* code runs, and the one after it on the list
    events     \* events so far

hookVars == <<list, mark, on_stack, hook, freed, calls, events>>

Unused == [sernum |-> 0, nick |-> 0]

HooksTypeOK ==
    /\ list \in Seq(HookIds) /\ on_stack \in Seq(Seq(HookIds)) /\ Len(on_stack) <= MaxPushes
    /\ mark \in 0 .. NEvents /\ events \in 0 .. NEvents
    /\ hook \in [HookIds -> [sernum : Serials, nick : Patterns] \cup {Unused}]
    /\ freed \subseteq HookIds
    /\ calls \in Seq([array : Seq(HookIds), runs : 0 .. NHooks, next : 0 .. NHooks])

HooksInit ==
    /\ list = <<>> /\ on_stack = <<>> /\ mark = 0
    /\ hook = [h \in HookIds |-> Unused] /\ freed = {}
    /\ calls = <<>> /\ events = 0

On(l) == {l[i] : i \in DOMAIN l}
Allocated == {h \in HookIds : hook[h] # Unused}

----------------------------------------------------------------------------
(* The list, sorted by serial number and then by pattern *)

\* Mutant: only the pattern decides.
ByNick(g, h) == g.nick < h.nick

Precedes(g, h) == \/ g.sernum < h.sernum
                  \/ g.sernum = h.sernum /\ g.nick < h.nick

\* add_to_list(): behind those that precede it.
AddToList(l, h, rec) ==
    LET n == Cardinality({k \in DOMAIN l : \A i \in 1 .. k : Precedes(hook[l[i]], rec)})
    IN SubSeq(l, 1, n) \o <<h>> \o SubSeq(l, n + 1, Len(l))

\* remove_from_list(): the hook of that serial number and pattern, if there is one.
Same(l, rec) == {h \in On(l) : hook[h] = rec}

Unlinked(l, hs) == SelectSeq(l, LAMBDA h : h \notin hs)

\* add_hook(): a hook that is there already is taken off the list and used again.
AddHook(rec) ==
    /\ IF Same(list, rec) # {}
         THEN /\ \E h \in Same(list, rec) : list' = AddToList(Unlinked(list, {h}), h, rec)
              /\ UNCHANGED hook
         ELSE /\ Allocated # HookIds
              /\ LET h == Min(HookIds \ Allocated) IN
                   list' = AddToList(list, h, rec) /\ hook' = [hook EXCEPT ![h] = rec]
    /\ UNCHANGED freed

Drop(hs) ==
    /\ list' = Unlinked(list, hs) /\ freed' = freed \cup hs
    /\ UNCHANGED hook

----------------------------------------------------------------------------
(* The calls of do_hook() *)

Call1 == calls[Len(calls)]
Outer == SubSeq(calls, 1, Len(calls) - 1)
AtRest == calls = <<>>
CodeRuns == calls # <<>> /\ Call1.runs # 0

\* Commands are given by the user, or by the code of a hook.
MayCommand == AtRest \/ CodeRuns

\* The hooks of one serial number that match; the first of the best is taken.
Best(s) ==
    LET value(i) == MatchValue[hook[list[i]].nick]
        same == {i \in DOMAIN list : hook[list[i]].sernum = s /\ value(i) > 0}
    IN {i \in same : \A j \in same : value(j) < value(i) \/ (value(j) = value(i) /\ i <= j)}

\* Mutant: every hook that matches is collected.
AllMatching == SelectSeq(list, LAMBDA h : MatchValue[hook[h].nick] > 0)

\* hook_array, in the order of the list
HookArray == SelectSeq(list, LAMBDA h : \E s \in Serials : \E i \in Best(s) : list[i] = h)

\* do_hook() collects.  A type of event that must not recur is not looked at
\* while it is marked.
AssertEvent ==
    /\ MayCommand /\ events < NEvents /\ (Recursive \/ mark = 0)
    /\ events' = events + 1 /\ mark' = mark + 1
    /\ calls' = Append(calls, [array |-> HookArray, runs |-> 0, next |-> 0])
    /\ UNCHANGED <<list, on_stack, hook, freed>>

Successor(h) == LET i == {k \in DOMAIN list : list[k] = h} IN
                IF i = {} \/ Max(i) = Len(list) THEN 0 ELSE list[Max(i) + 1]

Enter(h, rest) ==
    calls' = Append(Outer, [array |-> rest, runs |-> h, next |-> Successor(h)])

\* The code of the next hook begins.
RunHook ==
    /\ calls # <<>> /\ Call1.runs = 0 /\ Call1.array # <<>>
    /\ Enter(Head(Call1.array), Tail(Call1.array))
    /\ UNCHANGED <<list, mark, on_stack, hook, freed, events>>

\* It ends.
CodeEnds ==
    /\ CodeRuns
    /\ calls' = Append(Outer, [Call1 EXCEPT !.runs = 0, !.next = 0])
    /\ UNCHANGED <<list, mark, on_stack, hook, freed, events>>

\* It ends with "next": the hook that followed it is run too, if there is one.
CodeSaysNext ==
    /\ CodeRuns /\ Call1.next # 0
    /\ NextTwice \/ Call1.next \notin On(Call1.array)
    /\ Enter(Call1.next, Call1.array)
    /\ UNCHANGED <<list, mark, on_stack, hook, freed, events>>

\* All are done; the type is not marked any more.
HookReturns ==
    /\ calls # <<>> /\ Call1.runs = 0 /\ Call1.array = <<>>
    /\ mark' = mark - 1 /\ calls' = Outer
    /\ UNCHANGED <<list, on_stack, hook, freed, events>>

----------------------------------------------------------------------------
(* The commands *)

\* /on: in the code of a hook it schedules that hook again, or another.
OnAdds(rec) ==
    /\ MayCommand
    /\ AddHook(rec)
    /\ UNCHANGED <<mark, on_stack, calls, events>>

MayDrop(h) == CodeDrops = "any" \/ (CodeRuns => h = Call1.runs)

\* /on with - and a pattern
OnRemoves(rec) ==
    /\ MayCommand
    /\ \E h \in Same(list, rec) : MayDrop(h) /\ Drop({h})
    /\ UNCHANGED <<mark, on_stack, calls, events>>

\* /on with - and no pattern: a serial number other than 0 spares the others.
OnRemovesAll(s) ==
    /\ MayCommand /\ list # <<>>
    /\ LET hs == {h \in On(list) : s = 0 \/ hook[h].sernum = s} IN
         (\A h \in hs : MayDrop(h)) /\ Drop(hs)
    /\ UNCHANGED <<mark, on_stack, calls, events>>

\* /stack push on
StackPush ==
    /\ MayCommand /\ Len(on_stack) < MaxPushes
    /\ on_stack' = <<list>> \o on_stack /\ list' = <<>>
    /\ UNCHANGED <<mark, hook, freed, calls, events>>

\* Mutant: the list that is there is not freed, and lost.
PopOver ==
    /\ MayCommand /\ on_stack # <<>>
    /\ \A h \in On(list) : MayDrop(h)
    /\ list' = Head(on_stack) /\ on_stack' = Tail(on_stack)
    /\ UNCHANGED <<freed, mark, hook, calls, events>>

\* /stack pop on frees the list that is there.
StackPop ==
    /\ MayCommand /\ on_stack # <<>>
    /\ \A h \in On(list) : MayDrop(h)
    /\ list' = Head(on_stack) /\ on_stack' = Tail(on_stack)
    /\ freed' = freed \cup On(list)
    /\ UNCHANGED <<mark, hook, calls, events>>

----------------------------------------------------------------------------

HooksNext ==
    \/ AssertEvent \/ RunHook \/ CodeEnds \/ CodeSaysNext \/ HookReturns
    \/ StackPush \/ StackPop \/ \E s \in Serials : OnRemovesAll(s)
    \/ \E rec \in [sernum : Serials, nick : Patterns] : OnAdds(rec) \/ OnRemoves(rec)

HooksSpec == HooksInit /\ [][HooksNext]_hookVars

----------------------------------------------------------------------------
(* Properties *)

\* do_hook() panics on a list out of order; and two hooks alike could not be
\* told apart by /on.
ListInOrder ==
    \A i, j \in DOMAIN list : i < j =>
        \/ hook[list[i]].sernum < hook[list[j]].sernum
        \/ /\ hook[list[i]].sernum = hook[list[j]].sernum
           /\ hook[list[i]].nick < hook[list[j]].nick

\* What do_hook() will yet look at is not freed, though code has run since it
\* was collected.
CollectedLive ==
    \A k \in DOMAIN calls : On(calls[k].array) \cap freed = {} /\ calls[k].next \notin freed

\* Every hook is on the list, on one of those put aside, or freed.
HooksKept ==
    LET places == <<list>> \o on_stack IN
    \A h \in Allocated : Cardinality({k \in DOMAIN places : h \in On(places[k])})
                           = IF h \in freed THEN 0 ELSE 1

\* At most one hook of each serial number is collected for an event.
OnePerSerial ==
    \A k \in DOMAIN calls : \A g, h \in On(calls[k].array) :
        g # h => hook[g].sernum # hook[h].sernum

\* The list of hooks stands what their own code does to it.
HooksSound == ListInOrder /\ CollectedLive /\ HooksKept /\ OnePerSerial
=============================================================================
