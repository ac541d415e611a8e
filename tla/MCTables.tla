----------------------------- MODULE MCTables -----------------------------
(* Tables on small instances *)
EXTENDS Tables, TLC

CONSTANTS OpeningDeposit, MaxDrift

MCOpening == [u \in Users |-> OpeningDeposit]
Symmetry == Permutations(Users) \cup Permutations(TableIds)

(* Refunds of payouts that were sent could go on for ever.                 *)
DriftBounded == drift \in -MaxDrift .. MaxDrift
=============================================================================
