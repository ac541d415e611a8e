----------------------------- MODULE MCDemoSim -----------------------------
(* DemoSim on a small instance: a standing 2v2 table and a 1v1 to open     *)
EXTENDS DemoSim

CONSTANTS t1, t2

MCTeamSize == [t \in TableIds |-> IF t = t1 THEN 2 ELSE 1]
=============================================================================
