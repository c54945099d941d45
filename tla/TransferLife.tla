----------------------------- MODULE TransferLife -----------------------------
(***************************************************************************)
(* What TekNap promises of a transfer, with no list and no pointer in it.  *)
(* A transfer is wanted (asked for, or promised to the other user), may be *)
(* put off, gets a connection of its own, moves data over it and only over *)
(* it, and ends once: whatever ends it gives the connection back, and the  *)
(* record goes to another transfer only after that.  Any number of         *)
(* transfers may end or go in one step (/delete, the sweeps); everything   *)
(* else happens to one transfer at a time.                                 *)
(***************************************************************************)
CONSTANTS
    Transfer,    \* identities; they are used again
    Connection,
    None         \* no connection

VARIABLES
    phase,       \* where each transfer is
    over         \* the connection it has

Phase == {"none", "wanted", "put_off", "connected", "moving", "ended"}

Init == /\ phase = [t \in Transfer |-> "none"]
        /\ over = [t \in Transfer |-> None]

\* Whatever the phases, no connection serves two transfers, and a transfer
\* has one exactly when it is connected or moving data.
Exclusive ==
    /\ \A t \in Transfer : over[t] # None <=> phase[t] \in {"connected", "moving"}
    /\ \A t, u \in Transfer : t # u /\ over[t] # None => over[t] # over[u]

Become(t, from, to) ==
    /\ phase[t] \in from
    /\ phase' = [phase EXCEPT ![t] = to]

Want(t)   == Become(t, {"none", "put_off"}, "wanted") /\ UNCHANGED over
PutOff(t) == Become(t, {"wanted"}, "put_off") /\ UNCHANGED over

Connect(t) ==
    /\ Become(t, {"wanted", "put_off"}, "connected")
    /\ \E s \in Connection : over' = [over EXCEPT ![t] = s]

\* The other side may name the file over the connection it made itself.
Start(t) ==
    \/ Become(t, {"connected"}, "moving") /\ UNCHANGED over
    \/ /\ Become(t, {"wanted"}, "moving")
       /\ \E s \in Connection : over' = [over EXCEPT ![t] = s]

\* What ends makes room: the same sweep may want again what was put off.
End ==
    /\ phase' \in [Transfer -> Phase]
    /\ \A t \in Transfer :
         \/ phase'[t] = phase[t]
         \/ phase[t] \notin {"none", "ended"} /\ phase'[t] = "ended"
         \/ phase[t] = "put_off" /\ phase'[t] = "wanted"
    /\ over' = [t \in Transfer |-> IF phase'[t] = "ended" THEN None ELSE over[t]]

Forget ==
    /\ phase' \in [Transfer -> Phase]
    /\ \A t \in Transfer :
         \/ phase'[t] = phase[t]
         \/ phase[t] \in {"ended", "put_off"} /\ phase'[t] = "none"
    /\ UNCHANGED over

Next == \/ \E t \in Transfer : Want(t) \/ PutOff(t) \/ Connect(t) \/ Start(t)
        \/ End \/ Forget

Spec == Init /\ [][Next /\ Exclusive']_<<phase, over>>

=============================================================================
