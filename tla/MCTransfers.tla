------------------------------ MODULE MCTransfers ------------------------------
(* The instances TLC checks: the .cfg files give the records, the files, the *)
(* descriptors (1 listens) and the behaviours that happen.                   *)
EXTENDS Transfers, TLC

\* No record and no file is special; used by the runs that check invariants.
Alike == Permutations(Cell) \cup Permutations(Key)

\* A list that has become a ring is walked for ever, so no handler that
\* appends to it returns: the runs with a ring in them stop there.
NoRing == Acyclic(mem, mem.transfer_struct)
=============================================================================
