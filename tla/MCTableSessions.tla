-------------------------- MODULE MCTableSessions --------------------------
(* TableSessions on small instances *)
EXTENDS TableSessions, TLC

CONSTANTS s1, s2, s3, u1, u2, u3, u4

Duel == {{u1}, {u2}, {u3}}
Duos == {{u1}, {u2}, {u3, u4}}
SessionSymmetry == Permutations(Sessions)
=============================================================================
