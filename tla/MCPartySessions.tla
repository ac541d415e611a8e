-------------------------- MODULE MCPartySessions --------------------------
(* PartySessions on a small instance *)
EXTENDS PartySessions, TLC

CONSTANTS s1, s2, s3, u1, u2, Rich

MCOrder == <<u1, u2>>
SessionSymmetry == Permutations(Sessions)

(* Updates could be lost for ever: no run goes on from a lost one, or from *)
(* where the party's users have more than at first.                        *)
Followed == (\A r \in Rows : lost[r] = 0) /\ custody <= Rich
=============================================================================
