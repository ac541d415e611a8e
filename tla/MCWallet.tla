------------------------------ MODULE MCWallet ------------------------------
(* Wallet on a small instance: every user starts with a deposit of 2 cents *)
EXTENDS Wallet, TLC

CONSTANTS MaxBalance, MaxDrift

MCOpening == [u \in Users |-> 2]
Symmetry == Permutations(Users) \cup Permutations(Refs)

(* Second credits and refunds of payouts that were sent could go on for    *)
(* ever.                                                                   *)
Bounded ==
  /\ \A u \in Users : balance[u] <= MaxBalance
  /\ drift \in -MaxDrift .. MaxDrift
=============================================================================
