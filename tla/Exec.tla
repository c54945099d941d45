--------------------------------- MODULE Exec ---------------------------------
(***************************************************************************)
(* The processes of /exec (source/exec.c) within the turn of the main loop *)
(* (io() of source/main.c).  What a process prints is given to hooks, and  *)
(* these run commands, /exec among them, while do_processes() and          *)
(* cleanup_dead_processes() are at work on the list: so the calls are kept *)
(* on a stack, whose last frame is the one that runs.                      *)
(*                                                                         *)
(* What is printed comes through new_dgets() of source/newio.c, which reads*)
(* all there is into a buffer of the descriptor and hands out one line of  *)
(* it a call; a part of a line stays in the buffer.                        *)
(*                                                                         *)
(* A process leaves the list when it has exited and both its outputs are   *)
(* at their end.  That it exited is learnt from waitpid(), which is asked  *)
(* only when the counter of SIGCHLD is not 0.                              *)
(***************************************************************************)
EXTENDS Integers, Sequences, FiniteSets, FiniteSetsExt

CONSTANTS
    NProcs,       \* bound: processes ever started
    Talks,        \* bound: the outputs that print
    NPieces,      \* bound: lines, and parts of one, of an output: on the way or counted
    MaxSegments,  \* MAX_SEGMENTS: reads without the end of a line, after which one gives up
    ShellLimit,   \* SHELL_LIMIT: lines after which a process is ignored; 0: none
    HookCommands, \* how many commands one hook runs
    HooksClose,   \* do hooks that run within do_processes() use /exec -close?
    Merged        \* may two children die before the signal of the first comes?

ASSUME ExecAssumption ==
    /\ NProcs \in Nat /\ NPieces \in Nat /\ ShellLimit \in Nat /\ HookCommands \in Nat
    /\ MaxSegments \in Nat \ {0} /\ HooksClose \in BOOLEAN /\ Merged \in BOOLEAN

Procs == 1 .. NProcs
Streams == {"stdout", "stderr"}
Outputs == Procs \X Streams
Fds == 1 .. 2 * NProcs

VARIABLES
    process_list,            \* the slots: a process, or 0 for NULL
    proc,                    \* the Process structures
    expunged,                \* those freed
    forgotten,               \* history: outputs that are closed before their end
    dead_children_processes, \* the counter of SIGCHLD
    world,                   \* the processes themselves
    unread,                  \* what is in their pipes
    io,                      \* io_rec of new_dgets(): what is read and not handed out
    owed,                    \* history: the lines printed that no hook was run for
    rd,                      \* the descriptors select() found ready
    turn,                    \* where the main loop is
    stack

table == <<process_list, proc, expunged, forgotten>>
outside == <<world, unread>>
buffers == <<io, owed>>
execVars == <<table, dead_children_processes, outside, buffers, rd, turn, stack>>

Unstarted == [exited |-> FALSE, dumb |-> FALSE, stdout |-> 0, stderr |-> 0, counter |-> 0]

\* What is in a pipe, and in the buffer of a descriptor: whole lines, and whether a
\* line is begun after them; and in how many reads that beginning came.
Nothing == [lines |-> 0, part |-> FALSE]
NoBuffer == [lines |-> 0, part |-> FALSE, segments |-> 0]

Frames == [f : {"do", "clean", "hook"}, i : 1 .. NProcs + 1, p : 0 .. NProcs,
           step : {"load", "stdout", "stderr", "limit", "ends", "run"},
           left : 0 .. HookCommands + 1]

ExecTypeOK ==
    /\ process_list \in Seq(0 .. NProcs) /\ Len(process_list) <= NProcs
    /\ \A p \in Procs :
          /\ DOMAIN proc[p] = DOMAIN Unstarted
          /\ proc[p].stdout \in Fds \cup {0} /\ proc[p].stderr \in Fds \cup {0}
          /\ proc[p].exited \in BOOLEAN /\ proc[p].dumb \in BOOLEAN
          /\ proc[p].counter \in Nat
    /\ expunged \subseteq Procs /\ forgotten \subseteq Outputs /\ rd \subseteq Fds
    /\ dead_children_processes \in Int
    /\ world \in [Procs -> [is : {"unborn", "alive", "zombie", "gone"}, holds : BOOLEAN]]
    /\ unread \in [Outputs -> [lines : 0 .. NPieces, part : BOOLEAN]]
    /\ io \in [Outputs -> [lines : 0 .. NPieces, part : BOOLEAN,
                           segments : 0 .. MaxSegments]]
    /\ owed \in [Outputs -> 0 .. NPieces]
    /\ turn \in {"select", "input", "processes", "reap"}
    /\ stack \in Seq(Frames)

ExecInit ==
    /\ process_list = <<>> /\ proc = [p \in Procs |-> Unstarted]
    /\ expunged = {} /\ forgotten = {}
    /\ dead_children_processes = 0
    /\ world = [p \in Procs |-> [is |-> "unborn", holds |-> FALSE]]
    /\ unread = [x \in Outputs |-> Nothing] /\ io = [x \in Outputs |-> NoBuffer]
    /\ owed = [x \in Outputs |-> 0]
    /\ rd = {} /\ turn = "select" /\ stack = <<>>

HasSlot(p) == \E i \in DOMAIN process_list : process_list[i] = p
Started(p) == world[p].is # "unborn"
Descriptors == {proc[p][s] : p \in Procs, s \in Streams} \ {0}

----------------------------------------------------------------------------
(* The stack *)

Top == stack[Len(stack)]
Below == SubSeq(stack, 1, Len(stack) - 1)
Runs(f) == stack # <<>> /\ Top.f = f
AtStep(f, s) == Runs(f) /\ Top.step = s

Frame(f, s) == [f |-> f, i |-> 1, p |-> 0, step |-> s, left |-> 0]
Clean == Frame("clean", "load")
Hook == [Frame("hook", "run") EXCEPT !.left = HookCommands]

Continue(frame) == stack' = Append(Below, frame)
Call(frame, then) == stack' = Below \o <<then, frame>>
Returned == stack' = Below

----------------------------------------------------------------------------
(* The processes themselves, and the signal SIGCHLD *)

\* They go on all the time.  What they do in a turn of the main loop, after
\* select() has looked, is as good as done before the next.
Elsewhere == turn = "select" /\ stack = <<>>

Pieces(x) == unread[x].lines + io[x].lines + io[x].segments + proc[x[1]].counter

\* Once an output is closed it prints to nobody.
Prints(x) ==
    /\ Elsewhere /\ world[x[1]].holds /\ proc[x[1]][x[2]] # 0
    /\ x \in Talks /\ Pieces(x) < NPieces
    /\ \/ /\ unread' = [unread EXCEPT ![x] = [lines |-> @.lines + 1, part |-> FALSE]]
          /\ owed' = [owed EXCEPT ![x] = @ + 1]
       \/ /\ unread' = [unread EXCEPT ![x].part = TRUE]
          /\ UNCHANGED owed
    /\ UNCHANGED <<table, dead_children_processes, world, io, rd, turn, stack>>

\* Its outputs are closed: by it, at its end, or by a child that outlives it.
LetGo(p) ==
    /\ Elsewhere /\ world[p].holds
    /\ world' = [world EXCEPT ![p].holds = FALSE]
    /\ UNCHANGED <<table, dead_children_processes, unread, buffers, rd, turn, stack>>

\* Processes die, and child_reap() counts the signal, which is one for as many
\* as die while it is pending.
Die(dying) ==
    /\ Elsewhere
    /\ world' = [p \in Procs |-> IF p \in dying THEN [world[p] EXCEPT !.is = "zombie"]
                                 ELSE world[p]]
    /\ dead_children_processes' = dead_children_processes + 1
    /\ UNCHANGED <<table, unread, buffers, rd, turn, stack>>

DieApart == \E p \in Procs : world[p].is = "alive" /\ Die({p})
DieTogether == \E p, q \in Procs : /\ Merged /\ p < q
                                   /\ world[p].is = "alive" /\ world[q].is = "alive"
                                   /\ Die({p, q})

----------------------------------------------------------------------------
(* The turn of the main loop *)

\* set_process_bits() and new_select(): a descriptor with a whole line in its buffer
\* is ready, and then only such ones are; or else those where something is in the
\* pipe or nobody can write to it.
Watched(x) == HasSlot(x[1]) /\ proc[x[1]][x[2]] # 0
Buffered == {x \in Outputs : Watched(x) /\ io[x].lines > 0}
Readable == {x \in Outputs : Watched(x) /\ (unread[x] # Nothing \/ ~ world[x[1]].holds)}
Ready == {proc[x[1]][x[2]] : x \in IF Buffered # {} THEN Buffered ELSE Readable}

new_select ==
    /\ turn = "select" /\ stack = <<>>
    /\ rd' = Ready
    /\ turn' \in IF Ready = {} THEN {"input", "reap"} ELSE {"input"}
    /\ UNCHANGED <<table, dead_children_processes, outside, buffers, stack>>

\* do_screens(): the user may give a command.
do_screens ==
    /\ turn = "input" /\ stack = <<>>
    /\ stack' \in {<<>>, <<[Hook EXCEPT !.left = 1]>>}
    /\ turn' = "processes"
    /\ UNCHANGED <<table, dead_children_processes, outside, buffers, rd>>

do_processes ==
    /\ turn = "processes" /\ stack = <<>>
    /\ stack' = IF process_list = <<>> THEN <<>> ELSE <<Frame("do", "load")>>
    /\ turn' = "reap"
    /\ UNCHANGED <<table, dead_children_processes, outside, buffers, rd>>

Zombies == {p \in Procs : world[p].is = "zombie"}

Reap == IF dead_children_processes = 0
          THEN UNCHANGED <<dead_children_processes, world, proc>>
          ELSE /\ dead_children_processes' = dead_children_processes - Cardinality(Zombies)
               /\ world' = [p \in Procs |-> [world[p] EXCEPT
                                !.is = IF p \in Zombies THEN "gone" ELSE @]]
               /\ proc' = [p \in Procs |-> IF p \in Zombies /\ HasSlot(p)
                                             THEN [proc[p] EXCEPT !.exited = TRUE]
                                             ELSE proc[p]]

\* Mutant: what died is noted, and cleaned up by do_processes() only.
ReapOnly ==
    /\ turn = "reap" /\ stack = <<>>
    /\ Reap
    /\ turn' = "select" /\ rd' = {} /\ UNCHANGED stack
    /\ UNCHANGED <<process_list, expunged, forgotten, unread, buffers>>

\* get_child_exit(-1)
get_child_exit ==
    /\ turn = "reap" /\ stack = <<>>
    /\ Reap
    /\ stack' = <<Clean>>
    /\ turn' = "select" /\ rd' = {}
    /\ UNCHANGED <<process_list, expunged, forgotten, unread, buffers>>

----------------------------------------------------------------------------
(* do_processes(): the frame keeps the slot and the process it points to *)

\* The next slot from i on with one of the processes, or one past the end.
NextSlot(i, ps) ==
    Min({Len(process_list) + 1} \cup
        {k \in i .. Len(process_list) : process_list[k] \in ps})

OnList == {process_list[i] : i \in DOMAIN process_list} \ {0}

Load ==
    /\ AtStep("do", "load")
    /\ LET i == NextSlot(Top.i, OnList) IN
       Continue(IF i > Len(process_list) THEN Clean
                ELSE [Top EXCEPT !.step = "stdout", !.i = i, !.p = process_list[i]])
    /\ UNCHANGED <<table, dead_children_processes, outside, buffers, rd, turn>>

After(s) == [Top EXCEPT !.step = IF s = "stdout" THEN "stderr" ELSE "limit"]

NotReady(s) ==
    /\ AtStep("do", s) /\ proc[Top.p][s] \notin rd
    /\ Continue(After(s))
    /\ UNCHANGED <<table, dead_children_processes, outside, buffers, rd, turn>>

\* handle_filedesc() gets a line from new_dgets(), out of the buffer or else of what
\* it reads, and runs a hook.  A read takes all there is in the pipe (a bound).
AfterLine(had) == [lines |-> had.lines - 1, part |-> had.part,
                   segments |-> IF had.lines = 1 /\ had.part THEN 1 ELSE 0]

Handles(x) == AtStep("do", x[2]) /\ Top.p = x[1] /\ proc[x[1]][x[2]] \in rd

HandleLine(x) ==
    /\ Handles(x)
    /\ \/ /\ io[x].lines > 0
          /\ io' = [io EXCEPT ![x] = AfterLine(@)] /\ UNCHANGED unread
       \/ /\ io[x].lines = 0 /\ unread[x].lines > 0
          /\ io' = [io EXCEPT ![x] = AfterLine(unread[x])]
          /\ unread' = [unread EXCEPT ![x] = Nothing]
    /\ owed' = [owed EXCEPT ![x] = @ - 1]
    /\ proc' = [proc EXCEPT ![x[1]].counter = @ + 1]
    /\ Call(Hook, After(x[2]))
    /\ UNCHANGED <<process_list, expunged, forgotten, dead_children_processes, world,
                   rd, turn>>

\* No line is in what was read: new_dgets() returns 0 and leaves `str` as it was, and
\* the hook runs with whatever is in exec_buffer, which counts as a line if that
\* happens to begin with the end of one.
PartRead(x) == io[x].lines = 0 /\ unread[x] = [lines |-> 0, part |-> TRUE]

HandlePart(x) ==
    /\ Handles(x) /\ PartRead(x) /\ io[x].segments < MaxSegments
    /\ io' = [io EXCEPT ![x] = [lines |-> 0, part |-> TRUE, segments |-> @.segments + 1]]
    /\ unread' = [unread EXCEPT ![x] = Nothing]
    /\ \E n \in {0, 1} : proc' = [proc EXCEPT ![x[1]].counter = @ + n]
    /\ Call(Hook, After(x[2]))
    /\ UNCHANGED <<process_list, expunged, forgotten, dead_children_processes, world,
                   owed, rd, turn>>

Other(s) == IF s = "stdout" THEN "stderr" ELSE "stdout"
Without(r, s) == [r EXCEPT ![s] = 0, !.dumb = r.dumb \/ r[Other(s)] = 0]

\* new_dgets() returns -1: the output is closed with what is in its buffer, and the
\* process is dumb when both are.
Close(x) ==
    /\ proc' = [proc EXCEPT ![x[1]] = Without(@, x[2])]
    /\ io' = [io EXCEPT ![x] = NoBuffer]
    /\ Continue(After(x[2]))
    /\ UNCHANGED <<process_list, expunged, dead_children_processes, outside, owed, rd,
                   turn>>

\* Nothing to read where select() found something means the end; a part of a line
\* in the buffer goes with it.
HandleEnd(x) ==
    /\ Handles(x) /\ io[x].lines = 0 /\ unread[x] = Nothing
    /\ Close(x) /\ UNCHANGED forgotten

\* The part of a line that is held fills the buffer, so that no byte can be read; or
\* it came in more reads than are allowed.
GiveUpOutput(x) ==
    /\ Handles(x) /\ io[x].lines = 0 /\ unread[x] # Nothing
    /\ io[x].part \/ (PartRead(x) /\ io[x].segments >= MaxSegments)
    /\ Close(x) /\ forgotten' = forgotten \cup {x}

\* ignore_process()
Ignore(p) ==
    /\ proc' = [proc EXCEPT ![p].stdout = 0, ![p].stderr = 0, ![p].dumb = TRUE]
    /\ io' = [x \in Outputs |-> IF x[1] = p THEN NoBuffer ELSE io[x]]
    /\ forgotten' = forgotten \cup ({p} \X Streams)

Limit ==
    /\ AtStep("do", "limit")
    /\ IF ShellLimit > 0 /\ proc[Top.p].counter >= ShellLimit /\ HasSlot(Top.p)
         THEN Ignore(Top.p) ELSE UNCHANGED <<proc, io, forgotten>>
    /\ Continue([Top EXCEPT !.i = @ + 1, !.p = 0, !.step = "load"])
    /\ UNCHANGED <<process_list, expunged, dead_children_processes, outside, owed, rd,
                   turn>>

----------------------------------------------------------------------------
(* cleanup_dead_processes() *)

\* Mutants: a process goes when it has exited, or when its output has ended.
ExitedOnly(p) == proc[p].exited

Dead(p) == proc[p].exited /\ proc[p].dumb
DeadOnes == {p \in OnList : Dead(p)}

\* One that is dead is taken off the list; then the commands of /wait and the
\* hook EXEC_EXIT are run.
Scan ==
    /\ AtStep("clean", "load")
    /\ LET i == NextSlot(Top.i, DeadOnes) IN
       /\ i <= Len(process_list)
       /\ process_list' = [process_list EXCEPT ![i] = 0]
       /\ Call(Hook, [Top EXCEPT !.step = "ends", !.i = i, !.p = process_list[i]])
    /\ UNCHANGED <<proc, expunged, forgotten, dead_children_processes, outside, buffers, rd,
                   turn>>

Expunge ==
    /\ AtStep("clean", "ends")
    /\ expunged' = expunged \cup {Top.p}
    /\ proc' = [proc EXCEPT ![Top.p].stdout = 0, ![Top.p].stderr = 0]
    /\ io' = [x \in Outputs |-> IF x[1] = Top.p THEN NoBuffer ELSE io[x]]
    /\ Continue([Top EXCEPT !.i = @ + 1, !.p = 0, !.step = "load"])
    /\ UNCHANGED <<process_list, forgotten, dead_children_processes, outside, owed, rd,
                   turn>>

\* The empty slots at the end are given back; without any, the list is NULL.
Used == Max({0} \cup {i \in DOMAIN process_list : process_list[i] # 0})

Shrink ==
    /\ AtStep("clean", "load") /\ NextSlot(Top.i, DeadOnes) > Len(process_list)
    /\ process_list' = SubSeq(process_list, 1, Used)
    /\ Returned
    /\ UNCHANGED <<proc, expunged, forgotten, dead_children_processes, outside, buffers, rd,
                   turn>>

----------------------------------------------------------------------------
(* The commands of a hook, or of the user *)

HookEnds ==
    /\ Runs("hook")
    /\ Returned
    /\ UNCHANGED <<table, dead_children_processes, outside, buffers, rd, turn>>

\* What remains to be run once a command is done.
Rest == IF Top.left = 1 THEN Below ELSE Append(Below, [Top EXCEPT !.left = @ - 1])

\* The first empty slot, or a new one.
Empty == {i \in DOMAIN process_list : process_list[i] = 0}

Place(p) == IF Empty = {} THEN Append(process_list, p)
            ELSE [process_list EXCEPT ![Min(Empty)] = p]

\* pipe() gives the lowest descriptors that are free.
Free == Fds \ Descriptors
Lowest == Min(Free)
Next2 == Min(Free \ {Lowest})

\* /exec with a command to start; it ends in cleanup_dead_processes().  A descriptor
\* that was closed in this turn is still in rd, and do_processes() takes it for ready
\* when it comes to the new process: nothing is in the pipe yet, which means the end.
StartProcess(p) ==
    /\ Runs("hook") /\ Top.left > 0
    /\ ~ Started(p) /\ \A q \in 1 .. p - 1 : Started(q)
    /\ process_list' = Place(p)
    /\ proc' = [proc EXCEPT ![p].stdout = Lowest, ![p].stderr = Next2]
    /\ world' = [world EXCEPT ![p] = [is |-> "alive", holds |-> TRUE]]
    /\ forgotten' = forgotten \cup {x \in {p} \X Streams : proc'[p][x[2]] \in rd}
    /\ stack' = Append(Rest, Clean)
    /\ UNCHANGED <<expunged, dead_children_processes, unread, buffers, rd, turn>>

\* /exec -close returns before the clean-up.
CloseProcess(p) ==
    /\ Runs("hook") /\ Top.left > 0 /\ HasSlot(p)
    /\ HooksClose \/ \A k \in DOMAIN stack : stack[k].f # "do"
    /\ Ignore(p)
    /\ stack' = Rest
    /\ UNCHANGED <<process_list, expunged, dead_children_processes, outside, owed, rd,
                   turn>>

\* /exec with options for a process: where its output goes, and its name.
Redirect ==
    /\ Runs("hook") /\ Top.left > 0 /\ process_list # <<>>
    /\ stack' = Append(Rest, Clean)
    /\ UNCHANGED <<table, dead_children_processes, outside, buffers, rd, turn>>

----------------------------------------------------------------------------

TurnSteps ==
    \/ new_select \/ do_screens \/ do_processes \/ get_child_exit
    \/ Load \/ Limit \/ \E s \in Streams : NotReady(s)
    \/ \E x \in Outputs : HandleLine(x) \/ HandlePart(x) \/ HandleEnd(x) \/ GiveUpOutput(x)
    \/ Scan \/ Expunge \/ Shrink \/ HookEnds

HookCommand == Redirect \/ \E p \in Procs : StartProcess(p) \/ CloseProcess(p)

WorldSteps == \/ DieApart \/ DieTogether
              \/ \E p \in Procs : LetGo(p)
              \/ \E x \in Outputs : Prints(x)

ExecNext == TurnSteps \/ HookCommand \/ WorldSteps

ExecFairness == WF_execVars(TurnSteps)

ExecSpec == ExecInit /\ [][ExecNext]_execVars /\ ExecFairness

----------------------------------------------------------------------------
(* Properties *)

\* What do_processes() points to while hooks run commands, and what the list
\* leads to, is not freed; and no process has two slots.
PointersLive ==
    /\ \A k \in DOMAIN stack : stack[k].p \notin expunged
    /\ \A p \in expunged : ~ HasSlot(p)
    /\ \A i, j \in DOMAIN process_list :
          process_list[i] = process_list[j] /\ process_list[i] # 0 => i = j

\* Every whole line that was printed before an output is closed has been handed to a
\* hook, and nobody can print more; unless it was closed before its end, by /exec
\* -close or SHELL_LIMIT (ignore_process()), by a part of a line that is too long or
\* comes in too many reads, or since its descriptor was another's in the same turn.
OutputRead ==
    \A x \in Outputs \ forgotten :
        Started(x[1]) /\ proc[x[1]][x[2]] = 0 => owed[x] = 0 /\ ~ world[x[1]].holds

\* The list of processes stands the commands of its own hooks, and no line is lost,
\* in the pipe or in the buffer, whichever comes first, the death of a process or the
\* end of its output.
ExecSound == PointersLive /\ OutputRead

\* A process that is dead and has let go of its outputs leaves the list in the end.
ProcessesGo ==
    \A p \in Procs :
        world[p].is \in {"zombie", "gone"} /\ ~ world[p].holds ~> p \in expunged
=============================================================================
