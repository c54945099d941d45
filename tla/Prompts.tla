------------------------------- MODULE Prompts -------------------------------
(***************************************************************************)
(* What is on the input line as a whole (source/input.c, screen.c,         *)
(* history.c): a line the user is typing, put aside while questions are    *)
(* asked of him, and the history he may look through meanwhile.            *)
(*                                                                         *)
(* A text is one of Typed, typed for the program, or the number of the     *)
(* question it was typed for; 0 is an empty line.                          *)
(***************************************************************************)
EXTENDS Naturals, Sequences

CONSTANTS
    Typed,          \* what the user types for the program
    NPrompts,       \* bound: questions asked
    Kinds,          \* types of WaitPrompt: "line", "key" or "dummy"
    AsksNext,       \* may the function of a question ask the next one?
    BrowseAnswers,  \* may the history be looked through while a question is open?
    HistorySizes,   \* values of /set HISTORY
    ShrinkAnywhere  \* may it be lowered while the history is looked through?

ASSUME PromptsAssumption ==
    /\ NPrompts \in Nat /\ Kinds \subseteq {"line", "key", "dummy"}
    /\ Typed \cap (0 .. NPrompts) = {} /\ HistorySizes \subseteq Nat \ {0}
    /\ AsksNext \in BOOLEAN /\ BrowseAnswers \in BOOLEAN /\ ShrinkAnywhere \in BOOLEAN

Texts == Typed \cup 0 .. NPrompts

VARIABLES
    input,               \* input_buffer
    saved_input,         \* saved_input_buffer
    promptlist,          \* the questions that wait, the first one asked first
    entries,             \* the command history, newest first
    history_pos,         \* command_history_pos, 0 when it is NULL
    history_var,         \* /set HISTORY
    circleq,             \* /set HISTORY_CIRCLEQ
    questions,           \* questions so far
    draft,               \* history variable: what was on the line when no question was open
    typed                \* history variable: what was typed last, not over a line of the history,
                         \* until it or the place in the history is cleared, or
                         \* something is sent or shoved

promptVars == <<input, saved_input, promptlist, entries, history_pos, history_var, circleq,
                questions, draft, typed>>

PromptsTypeOK ==
    /\ {input, saved_input, draft, typed} \subseteq Texts
    /\ promptlist \in Seq([kind : Kinds, id : 1 .. NPrompts]) /\ questions \in 0 .. NPrompts
    /\ entries \in Seq(Texts \ {0}) /\ history_var \in HistorySizes /\ history_pos \in Nat
    /\ circleq \in BOOLEAN

PromptsInit ==
    /\ input = 0 /\ saved_input = 0 /\ promptlist = <<>> /\ questions = 0
    /\ entries = <<>> /\ history_pos = 0 /\ history_var \in HistorySizes
    /\ circleq \in BOOLEAN /\ draft = 0 /\ typed = 0

Waiting(l, kind) == l # <<>> /\ Head(l).kind = kind
Editing == ~ Waiting(promptlist, "key") /\ ~ Waiting(promptlist, "dummy")

----------------------------------------------------------------------------
(* The line and the questions *)

Line == [input |-> input, saved |-> saved_input, list |-> promptlist]

SetLine(y) ==
    /\ input' = y.input /\ saved_input' = y.saved /\ promptlist' = y.list
    /\ draft' = IF promptlist = <<>> /\ y.list = <<>> THEN y.input ELSE draft

\* Mutant: every question puts the line aside, not the first alone.
SaveEachTime(y, kind) ==
    [y EXCEPT !.list = Append(@, [kind |-> kind, id |-> questions + 1]),
              !.saved = y.input, !.input = 0]

\* add_wait_prompt(): the first one puts the line aside (change_input_prompt(1)).
add_wait_prompt(y, kind) ==
    LET z == [y EXCEPT !.list = Append(@, [kind |-> kind, id |-> questions + 1])]
    IN IF y.list = <<>> THEN [z EXCEPT !.saved = y.input, !.input = 0] ELSE z

\* change_input_prompt(-1): after the last one it is taken back.
PromptDone(y) == IF y.list = <<>> THEN [y EXCEPT !.input = y.saved, !.saved = 0] ELSE y

\* The first question is off the list before its function runs, which may ask
\* another; then the line is emptied.
Answered(y, again) ==
    LET popped == [y EXCEPT !.list = Tail(@)]
        called == IF again = "no" THEN popped ELSE add_wait_prompt(popped, again)
    IN PromptDone([called EXCEPT !.input = 0])

Again(again) == again # "no" => AsksNext /\ questions < NPrompts

\* A question waiting for nothing is done with whatever key comes.
DropDummy(y) == IF Waiting(y.list, "dummy") THEN [y EXCEPT !.list = Tail(@)] ELSE y

Asks(kind) ==
    /\ questions < NPrompts
    /\ SetLine(add_wait_prompt(Line, kind)) /\ questions' = questions + 1
    /\ UNCHANGED <<entries, history_pos, history_var, circleq, typed>>

\* edit_char(): a key for a question that waits for one
KeyAnswers(again) ==
    /\ Waiting(promptlist, "key") /\ Again(again)
    /\ SetLine(DropDummy(Answered(Line, again)))
    /\ questions' = IF again = "no" THEN questions ELSE questions + 1
    /\ UNCHANGED <<entries, history_pos, history_var, circleq, typed>>

\* Any other key; what the user types is for the question that is asked, if one is.
Types(t) ==
    LET y == DropDummy(Line) IN
    /\ ~ Waiting(promptlist, "key") /\ ~ Waiting(y.list, "key")
    /\ t \in IF y.list = <<>> THEN Typed ELSE {Head(y.list).id}
    /\ SetLine([y EXCEPT !.input = t])
    /\ typed' = IF y.list # <<>> THEN typed ELSE IF history_pos = 0 THEN t ELSE 0
    /\ UNCHANGED <<entries, history_pos, history_var, circleq, questions>>

----------------------------------------------------------------------------
(* The history *)

Newest(h, n) == SubSeq(h, 1, IF n < Len(h) THEN n ELSE Len(h))

\* add_to_history(): the list is cut to its size, and looked through from its
\* start again; a list of one has its entry overwritten.
Added(t) == IF t = 0 THEN entries ELSE Newest(<<t>> \o entries, history_var)

\* The position after a line is added
Reset(t) == IF t = 0 \/ (Len(entries) = 1 /\ history_var = 1) THEN history_pos ELSE 0

\* send_line(): to a question that waits for a line, or to the program.
send_line(again) ==
    /\ Editing /\ Again(again)
    /\ IF promptlist # <<>>
         THEN /\ SetLine(Answered([Line EXCEPT !.input = 0], again))
              /\ questions' = IF again = "no" THEN questions ELSE questions + 1
              /\ UNCHANGED <<entries, history_pos, typed>>
         ELSE /\ again = "no" /\ SetLine([Line EXCEPT !.input = 0])
              /\ entries' = Added(input) /\ history_pos' = Reset(input)
              /\ typed' = 0 /\ UNCHANGED questions
    /\ UNCHANGED <<history_var, circleq>>

Shows(pos, h) == IF pos = 0 THEN UNCHANGED <<input, saved_input, promptlist, draft>>
                 ELSE SetLine([Line EXCEPT !.input = h[pos]])

\* get_history(PREV): what is on the line is added first.
backward_history ==
    LET h == IF history_pos = 0 THEN Added(input) ELSE entries
        pos == IF history_pos # 0
                 THEN IF history_pos < Len(h) THEN history_pos + 1
                      ELSE IF circleq THEN 1 ELSE history_pos
                 ELSE IF input # 0 /\ Len(h) > 1 THEN 2 ELSE 1
    IN
    /\ Editing /\ (promptlist # <<>> => BrowseAnswers)
    /\ entries # <<>>
    /\ entries' = h /\ history_pos' = pos /\ Shows(pos, h)
    /\ UNCHANGED <<history_var, circleq, questions, typed>>

\* get_history(NEXT): the oldest follows the newest, if the history is a circle.
forward_history ==
    LET h == IF history_pos = 0 /\ circleq THEN Added(input) ELSE entries
        pos == IF history_pos > 1 THEN history_pos - 1
               ELSE IF circleq THEN Len(h) ELSE 0
    IN
    /\ Editing /\ (promptlist # <<>> => BrowseAnswers)
    /\ entries # <<>>
    /\ entries' = h /\ history_pos' = pos /\ Shows(pos, h)
    /\ UNCHANGED <<history_var, circleq, questions, typed>>

\* input_clear_line()
input_clear_all ==
    /\ Editing
    /\ SetLine([Line EXCEPT !.input = 0])
    /\ history_pos' = IF circleq THEN 0 ELSE history_pos
    /\ typed' = IF promptlist = <<>> \/ history_pos # 0 THEN 0 ELSE typed
    /\ UNCHANGED <<entries, history_var, circleq, questions>>

shove_to_history ==
    /\ Editing
    /\ SetLine([Line EXCEPT !.input = 0])
    /\ entries' = Added(input)
    /\ history_pos' = IF circleq THEN 0 ELSE Reset(input)
    /\ typed' = IF typed = input THEN typed ELSE 0
    /\ UNCHANGED <<history_var, circleq, questions>>

\* /history with an argument clears it.
ClearHistory ==
    /\ promptlist = <<>> /\ typed = 0 /\ entries # <<>>
    /\ entries' = <<>> /\ history_pos' = 0
    /\ UNCHANGED <<input, saved_input, promptlist, history_var, circleq, questions, draft, typed>>

\* set_history_size(): the oldest go, whatever points to them.
set_history_size(n) ==
    /\ n # history_var
    /\ ShrinkAnywhere \/ (history_pos <= n /\ typed = 0)
    /\ history_var' = n /\ entries' = Newest(entries, n)
    /\ UNCHANGED <<input, saved_input, promptlist, history_pos, circleq, questions, draft, typed>>

PromptsNext ==
    \/ \E kind \in Kinds : Asks(kind)
    \/ \E again \in Kinds \cup {"no"} : KeyAnswers(again) \/ send_line(again)
    \/ \E t \in Texts : Types(t)
    \/ backward_history \/ forward_history \/ input_clear_all \/ shove_to_history
    \/ ClearHistory \/ \E n \in HistorySizes : set_history_size(n)

PromptsSpec == PromptsInit /\ [][PromptsNext]_promptVars

----------------------------------------------------------------------------
(* Properties *)

\* The line the user was at when a question interrupted him is there again when
\* the last one is answered.
DraftKept == IF promptlist = <<>> THEN input = draft ELSE saved_input = draft

\* No part of it is taken for an answer: only what was typed for the question
\* asked is on its line, or came from the history.
AnswersOwn ==
    promptlist # <<>> /\ input # 0 =>
        input = Head(promptlist).id \/ \E k \in DOMAIN entries : entries[k] = input

\* What was typed and neither sent nor cleared is still to be had.
NothingTypedLost ==
    \/ typed \in {0, input, saved_input}
    \/ \E k \in DOMAIN entries : entries[k] = typed

\* The position in the history is one that exists.
PositionLive == history_pos <= Len(entries)

\* The line the user is typing survives questions and the history.
LineKept == DraftKept /\ AnswersOwn /\ NothingTypedLost /\ PositionLive
=============================================================================
