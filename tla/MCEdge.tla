------------------------------- MODULE MCEdge -------------------------------
(* Edge on a small instance *)
EXTENDS Edge

CONSTANTS public, i1, i2

Set(redisEnabled, geoFailOpen, blockVpn) ==
  [redisEnabled |-> redisEnabled, geoFailOpen |-> geoFailOpen, blockVpn |-> blockVpn]

(* The instances differ in name alone.                                     *)
FirstOnI1 == request[1] # None => request[1].on = i1

(* Two lookups overlap, not three.                                         *)
LookingUp == {r \in Requests :
  request[r] # None /\ request[r].at \in {"looking", "asking", "caching", "stamping"}}
TwoLookups == Cardinality(LookingUp) <= 2

(* A run has to do with codes or with counters, which share no key.        *)
OfCode(r) == request[r] # None /\ request[r].kind = "login"
OfCounter(r) ==
  request[r] # None /\ (request[r].kind = "demo" \/ request[r].key # None)
CodesOrCounters == \A r, o \in Requests : ~(OfCode(r) /\ OfCounter(o))

MCConfigs == {Set(TRUE, FALSE, TRUE), Set(FALSE, TRUE, FALSE)}
=============================================================================
