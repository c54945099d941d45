------------------------------- MODULE MCLive -------------------------------
(* The components that go on by themselves, side by side: timers, threads,   *)
(* child processes, reconnection.  Each is a machine of its own, and a       *)
(* behaviour is one of the machine that `part` names.                        *)
EXTENDS Timers, Workers, Sharing, ServerLink, Exec

VARIABLE part

MCEvents == {1, 2, -1}

\* What one /share may ask for: directories, or a saved list.
MCRequested == {[dirs |-> <<"scan">>, loads |-> 0], [dirs |-> <<"reload">>, loads |-> 0],
                [dirs |-> <<>>, loads |-> 1]}
\* /share -update.
MCUpdate == {[dirs |-> <<"update">>, loads |-> 0]}
MCFolder == [f \in Shareable |-> IF f <= 2 THEN "a" ELSE "b"]

\* The process started first prints on one output, the other one as good as nothing.
MCTalks == {<<1, "stderr">>}

LiveInit ==
    /\ part \in {"timers", "workers", "sharing", "server link", "processes"}
    /\ Init
    /\ WorkersInit /\ (part # "workers" => kind = "lookup")
    /\ SharingInit
    /\ ServerLinkInit
    /\ ExecInit

liveVars == <<part, vars, workerVars, sharingVars, linkVars, execVars>>

LiveNext ==
    \/ /\ part = "timers" /\ Next
       /\ UNCHANGED <<part, workerVars, sharingVars, linkVars, execVars>>
    \/ /\ part = "workers" /\ WorkersNext
       /\ UNCHANGED <<part, vars, sharingVars, linkVars, execVars>>
    \/ /\ part = "sharing" /\ SharingNext
       /\ UNCHANGED <<part, vars, workerVars, linkVars, execVars>>
    \/ /\ part = "server link" /\ ServerLinkNext
       /\ UNCHANGED <<part, vars, workerVars, sharingVars, execVars>>
    \/ /\ part = "processes" /\ ExecNext
       /\ UNCHANGED <<part, vars, workerVars, sharingVars, linkVars>>

\* The fairness of each machine, of its steps while it runs: FairSpec of Timers,
\* WorkersFairness, ...
LiveFairness ==
    /\ WF_vars(part = "timers" /\ BeginPass)
    /\ WF_vars(part = "timers" /\ (RunNext \/ Return \/ EndPass))
    /\ WF_workerVars(part = "workers" /\ ThreadSteps)
    /\ WF_workerVars(part = "workers" /\ MainSteps)
    /\ WF_sharingVars(part = "sharing" /\ ScanSteps)
    /\ WF_sharingVars(part = "sharing" /\ LoadSteps)
    /\ WF_sharingVars(part = "sharing" /\ ShareSteps)
    /\ \A s \in Servers : WF_linkVars(part = "server link" /\ AutoReconnect(s))
    /\ WF_execVars(part = "processes" /\ TurnSteps)

LiveSpec ==
    /\ LiveInit /\ [][LiveNext]_liveVars
    /\ LiveFairness

LiveTypeOK ==
    /\ part = "timers" => TypeOK
    /\ part = "workers" => WorkersTypeOK
    /\ part = "sharing" => SharingTypeOK
    /\ part = "server link" => ServerLinkTypeOK
    /\ part = "processes" => ExecTypeOK
=============================================================================
