------------------------------- MODULE Workers -------------------------------
(***************************************************************************)
(* The two worker threads: that of cdns.c looks names up, that of ptest.c  *)
(* tries whether a port answers.  They are one design written twice.  The  *)
(* main loop puts requests on a queue and signals a condition; the thread  *)
(* takes one, blocks on it, puts the answer on a second queue and writes a *)
(* byte to a pipe; the main loop, woken by the byte, drains the answers.   *)
(* A mutex the main loop holds as long as the thread shall live, the flag  *)
(* thread_dead, cancellation and a signal are the ways to stop it.         *)
(*                                                                         *)
(* A step is what a thread does between two points where the other can     *)
(* come in: taking and releasing a mutex around a dequeue is one step, and *)
(* the moments the thread stays with the answers' mutex are a state, since *)
(* the main loop only tries that mutex.                                    *)
(***************************************************************************)
EXTENDS Naturals, Sequences, FiniteSets

CONSTANTS
    MaxRequests,  \* bound: requests made
    MaxStarts     \* bound: lives of a port-test thread

ASSUME WorkersAssumption == MaxRequests \in Nat /\ MaxStarts \in Nat \ {0}

VARIABLES
    kind,       \* which of the two: lookups are urgent and the thread starts once
    thread,     \* where the thread is
    hand,       \* the request it works on, 0 for none
    cancelled,  \* pthread_cancel was called and has not acted
    pending,    \* PendingQueue, the next one first
    finished,   \* FinishedQueue
    quit,       \* quit_mutex: held by "main", "free", taken by the "thread", or "none"
    dead,       \* thread_dead
    pipe,       \* bytes in the pipe
    main,       \* where the main loop is
    within,     \* an answer is being called back
    starts,     \* how often the thread was created
    asked,      \* history: requests are numbered as they are made
    answered,   \* history: those called back, in that order
    dropped     \* history: those thrown away when the thread was stopped

whole == <<kind, starts>>
threads == <<thread, hand, cancelled>>
queues == <<pending, finished>>
ends == <<quit, dead>>
mains == <<main, within>>
history == <<asked, answered, dropped>>
workerVars == <<whole, threads, queues, ends, pipe, mains, history>>

Requests == 1 .. MaxRequests
ThreadPoints == {"none", "try", "take", "wait", "work", "lock", "store", "write", "ended"}
MainPoints == {"idle", "drain", "callback", "unlocked", "cancelling", "join", "gone"}

WorkersTypeOK ==
    /\ kind \in {"lookup", "port test"}
    /\ thread \in ThreadPoints /\ main \in MainPoints
    /\ hand \in 0 .. MaxRequests
    /\ cancelled \in BOOLEAN /\ dead \in BOOLEAN /\ within \in BOOLEAN
    /\ pending \in Seq(Requests) /\ finished \in Seq(Requests) /\ answered \in Seq(Requests)
    /\ quit \in {"main", "free", "thread", "none"}
    /\ pipe \in Nat /\ starts \in 0 .. MaxStarts /\ asked \in 0 .. MaxRequests
    /\ dropped \subseteq Requests

WorkersInit ==
    /\ kind \in {"lookup", "port test"}
    /\ thread = "none" /\ hand = 0 /\ cancelled = FALSE
    /\ pending = <<>> /\ finished = <<>>
    /\ quit = "none" /\ dead = FALSE /\ pipe = 0
    /\ main = "idle" /\ within = FALSE /\ starts = 0
    /\ asked = 0 /\ answered = <<>> /\ dropped = {}

Running == thread # "none"       \* the test on dns_thread
Stopping == main \in {"unlocked", "cancelling", "join"}

\* Commands run from the main loop, or from what an answer calls.
AtEase == main \in {"idle", "callback"}

Elements(q) == {q[i] : i \in DOMAIN q}

\* pthread_cond_signal(): the thread, if it waits, goes on.
Signal == thread' = IF thread = "wait" THEN "try" ELSE thread

----------------------------------------------------------------------------
(* The main loop *)

\* start_dns(), start_ptest(): at startup, or by /set PTEST ON.  The flag
\* thread_dead is left as it was.
Start ==
    /\ AtEase /\ ~ Running
    /\ starts < (IF kind = "lookup" THEN 1 ELSE MaxStarts)
    /\ starts' = starts + 1
    /\ thread' = "try" /\ quit' = "main" /\ pipe' = 0
    /\ pending' = <<>> /\ finished' = <<>>
    /\ UNCHANGED <<mains, history, kind, hand, cancelled, dead>>

\* Mutants: the signal is forgotten; a request goes where there is room.
EnqueueSilent(r) ==
    pending' = Append(pending, r) /\ UNCHANGED thread

EnqueueFront(r) == pending' = <<r>> \o pending /\ Signal

\* dns_enqueue_urgent() or dns_enqueue(), and the signal, with the mutex held.
\* All lookups are asked for urgently, no port test is.
Enqueue(r) ==
    /\ pending' = IF kind = "lookup" THEN <<r>> \o pending ELSE Append(pending, r)
    /\ Signal

\* add_to_dns_queue(), add_to_ptest_queue()
AddToQueue ==
    /\ AtEase /\ Running
    /\ asked < MaxRequests
    /\ asked' = asked + 1
    /\ Enqueue(asked + 1)
    /\ UNCHANGED <<whole, mains, ends, hand, cancelled, finished, pipe, answered, dropped>>

\* dns_check(): one byte is read, then the answers are looked at.
Check ==
    /\ main = "idle" /\ Running /\ pipe > 0
    /\ pipe' = pipe - 1
    /\ main' = "drain"
    /\ UNCHANGED <<whole, threads, queues, ends, history, within>>

\* check_dns_queue(): the loop ends when the mutex is taken or the queue is
\* empty.  With the thread stopped by what an answer called the mutex is
\* destroyed, and trying it fails.
DrainEnds ==
    /\ main = "drain"
    /\ thread \in {"store", "none"} \/ finished = <<>>
    /\ main' = "idle"
    /\ UNCHANGED <<whole, threads, queues, ends, history, pipe, within>>

\* Mutant: the answer stays on the queue.
TakeAnswerKept == answered' = Append(answered, Head(finished)) /\ UNCHANGED finished

TakeAnswer ==
    /\ answered' = Append(answered, Head(finished))
    /\ finished' = Tail(finished)

Drain ==
    /\ main = "drain"
    /\ thread \notin {"store", "none"} /\ finished # <<>>
    /\ TakeAnswer
    /\ main' = "callback" /\ within' = TRUE
    /\ UNCHANGED <<whole, threads, ends, pending, pipe, asked, dropped>>

CallbackReturns ==
    /\ main = "callback"
    /\ main' = "drain" /\ within' = FALSE
    /\ UNCHANGED <<whole, threads, queues, ends, history, pipe>>

\* do_dns_stopkill(): the quit mutex is let go, the thread signalled, and then
\* the main loop sleeps for a while.  Names are looked up until the program
\* ends; port tests are stopped with /set PTEST OFF too.
StopKill ==
    /\ AtEase /\ Running
    /\ quit' = "free" /\ Signal
    /\ main' = "unlocked"
    /\ UNCHANGED <<whole, queues, history, hand, cancelled, dead, pipe, within>>

\* Mutant: a thread that did not see the mutex is waited for, not cancelled.
CancelNever == main = "unlocked" /\ main' = "join" /\ UNCHANGED cancelled

\* When the flag is not up after the sleep the thread is cancelled.
CancelUnlessDead ==
    /\ main = "unlocked"
    /\ cancelled' = ~ dead
    /\ main' = IF dead THEN "join" ELSE "cancelling"

Cancel ==
    /\ CancelUnlessDead
    /\ UNCHANGED <<whole, queues, ends, history, thread, hand, pipe, within>>

\* The second sleep, after which both kinds of stop come to wait for the end of
\* the thread.  SIGQUIT, sent when the program ends, does no more than to set
\* the flag.
GiveUp ==
    /\ main = "cancelling"
    /\ main' = "join"
    /\ dead' \in {dead, TRUE}
    /\ UNCHANGED <<whole, threads, queues, history, quit, pipe, within>>

\* pthread_join() and cleanup_dns(): what is on the queues is thrown away.  After
\* a stop the main loop goes on, after a kill the program is gone.
Join ==
    /\ main = "join" /\ thread = "ended"
    /\ thread' = "none" /\ hand' = 0 /\ cancelled' = FALSE
    /\ dropped' = dropped \cup Elements(pending) \cup Elements(finished)
                          \cup ({hand} \ {0})
    /\ pending' = <<>> /\ finished' = <<>> /\ pipe' = 0 /\ quit' = "none"
    /\ \/ main' = "gone"
       \/ kind = "port test" /\ main' = IF within THEN "callback" ELSE "idle"
    /\ UNCHANGED <<whole, dead, within, asked, answered>>

----------------------------------------------------------------------------
(* The thread *)

\* The quit mutex is tried; a thread that gets it says so and ends.
TryQuit ==
    /\ thread = "try"
    /\ IF quit = "free"
         THEN quit' = "thread" /\ dead' = TRUE /\ thread' = "ended"
         ELSE thread' = "take" /\ UNCHANGED <<ends>>
    /\ UNCHANGED <<whole, mains, queues, history, hand, cancelled, pipe>>

\* A request is taken, or the condition waited for; the mutex of the requests
\* is released no sooner than the thread waits.
Take ==
    /\ thread = "take"
    /\ IF pending = <<>>
         THEN thread' = "wait" /\ UNCHANGED <<pending, hand>>
         ELSE /\ hand' = Head(pending) /\ pending' = Tail(pending)
              /\ thread' = "work"
    /\ UNCHANGED <<whole, mains, ends, history, cancelled, finished, pipe>>

\* A thread that waits may be woken for no reason.
Wakes ==
    /\ thread = "wait" /\ ~ cancelled
    /\ thread' = "try"
    /\ UNCHANGED <<whole, mains, queues, ends, history, hand, cancelled, pipe>>

\* The points at which cancellation acts: the wait, the work (a system call or
\* pthread_testcancel) and the write.
Dies ==
    /\ cancelled /\ thread \in {"wait", "work", "write"}
    /\ thread' = "ended"
    /\ UNCHANGED <<whole, mains, queues, ends, history, hand, cancelled, pipe>>

\* do_dns_lookup(), do_ptest_lookup()
Work ==
    /\ thread = "work" /\ ~ cancelled
    /\ thread' = "lock"
    /\ UNCHANGED <<whole, mains, queues, ends, history, hand, cancelled, pipe>>

LockFinished ==
    /\ thread = "lock"
    /\ thread' = "store"
    /\ UNCHANGED <<whole, mains, queues, ends, history, hand, cancelled, pipe>>

Store ==
    /\ thread = "store"
    /\ finished' = Append(finished, hand) /\ hand' = 0
    /\ thread' = "write"
    /\ UNCHANGED <<whole, mains, ends, history, cancelled, pending, pipe>>

Write ==
    /\ thread = "write" /\ ~ cancelled
    /\ pipe' = pipe + 1
    /\ thread' = "try"
    /\ UNCHANGED <<whole, mains, queues, ends, history, hand, cancelled>>

ThreadSteps == TryQuit \/ Take \/ Dies \/ Work \/ LockFinished \/ Store \/ Write

MainSteps == Check \/ DrainEnds \/ Drain \/ CallbackReturns \/ Cancel \/ GiveUp \/ Join

Commands == Start \/ AddToQueue \/ StopKill

WorkersNext == ThreadSteps \/ Wakes \/ MainSteps \/ Commands

\* The thread is scheduled, a lookup comes back, and the main loop comes round.
\* Nobody need ask for or stop anything.
WorkersFairness == WF_workerVars(ThreadSteps) /\ WF_workerVars(MainSteps)

WorkersSpec == WorkersInit /\ [][WorkersNext]_workerVars /\ WorkersFairness

----------------------------------------------------------------------------
(* Properties *)

\* Where a request is, as often as it is there.
Holdings(r) ==
    Cardinality({i \in DOMAIN pending : pending[i] = r})
      + Cardinality({i \in DOMAIN finished : finished[i] = r})
      + Cardinality({i \in DOMAIN answered : answered[i] = r})
      + Cardinality({x \in {hand} : x = r})
      + Cardinality({x \in dropped : x = r})

\* Every request made is waiting, being worked on, finished, answered or thrown
\* away, and only one of these; and port tests are answered in the order in
\* which they were asked for.
AnsweredOnce ==
    /\ \A r \in Requests : Holdings(r) = IF r <= asked THEN 1 ELSE 0
    /\ kind = "port test" =>
           \A i, j \in DOMAIN answered : i < j => answered[i] < answered[j]

\* The thread does not sleep on a request, and the main loop is told of every
\* answer: there is a byte in the pipe, or the thread is about to write one, or
\* the answers are being drained, or the thread is being stopped.
NothingForgotten ==
    /\ thread = "wait" => pending = <<>>
    /\ finished # <<>> =>
           pipe > 0 \/ thread \in {"store", "write"} \/ main \in {"drain", "callback"}
             \/ Stopping

\* No request is lost, doubled or slept on.
RequestsSound == AnsweredOnce /\ NothingForgotten

\* In the first life of the thread a request does not stay: it is answered or
\* thrown away.
AnsweredInTheEnd ==
    \A r \in Requests :
        starts = 1 /\ r \in Elements(pending) \cup {hand} \cup Elements(finished)
          ~> r \in Elements(answered) \cup dropped
=============================================================================
