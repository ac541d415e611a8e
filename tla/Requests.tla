------------------------------ MODULE Requests ------------------------------
(***************************************************************************)
(* HTTP requests on their way through the server's instances, and what     *)
(* they have in common: the settings, Redis keys with a time to live, and  *)
(* Redis commands that may raise, before Redis carried them out or after   *)
(* (redis-py does not repeat them).                                        *)
(***************************************************************************)
EXTENDS Integers, FiniteSets

CONSTANTS
  Instances,     \* processes of the application
  Addresses,     \* clients
  MaxRequests,   \* bound on the requests there ever are
  MaxFaults,     \* bound on failed commands and instances that die
  Configs,       \* the settings the server may run with
  None

Requests == 1 .. MaxRequests
Kinds == {"demo", "login", "exchange"}
Stages == {"looking", "asking", "caching", "stamping",   \* GeofencingMiddleware
           "limiting", "opening",                        \* rate_limit
           "storing",                                    \* faceit_start, faceit_callback
           "consuming", "popping"}                       \* exchange_auth_code
Over == {"served", "failed"}

GeoKey(ip) == <<"geo", ip>>
LimitKey(ip) == <<"ratelimit", ip>>
Counters == {LimitKey(ip) : ip \in Addresses}
Keys == {GeoKey(ip) : ip \in Addresses} \cup Counters

(* A login issues one code, named after the request; an exchange names a   *)
(* code or a counter.                                                      *)
RequestType == [kind : Kinds, ip : Addresses, on : Instances, code : Requests,
                key : Counters \cup {None}, at : Stages \cup Over]

ASSUME RequestsAssumption ==
  /\ MaxRequests \in Nat /\ MaxFaults \in Nat
  /\ Configs \subseteq [redisEnabled : BOOLEAN, geoFailOpen : BOOLEAN, blockVpn : BOOLEAN]
  /\ None \notin RequestType

VARIABLES
  config,    \* settings; never change
  request,   \* each request so far, or None
  ttl,       \* Redis keys that have a time to live
  hurt,      \* Redis keys that a failure touched since they last expired
  faults

RequestsTypeOK ==
  /\ config \in Configs
  /\ request \in [Requests -> RequestType \cup {None}]
  /\ ttl \subseteq Keys /\ hurt \subseteq Keys
  /\ faults \in 0 .. MaxFaults

RequestsInit ==
  /\ config \in Configs
  /\ request = [r \in Requests |-> None]
  /\ ttl = {} /\ hurt = {}
  /\ faults = 0

At(r, stage) == request[r] # None /\ request[r].at = stage
Become(r, stage) == request' = [request EXCEPT ![r].at = stage]

(* The handler behind the middleware.                                      *)
Handler(kind) ==
  CASE kind = "demo"     -> "limiting"
    [] kind = "login"    -> "storing"
    [] kind = "exchange" -> "consuming"
LetThrough(r) == Become(r, Handler(request[r].kind))

----------------------------------------------------------------------------
(* Redis                                                                   *)

Answers == UNCHANGED <<hurt, faults>>
Raises(keys) ==
  /\ faults < MaxFaults
  /\ faults' = faults + 1
  /\ hurt' = hurt \cup keys

(* EXPIRE of a key that is gone does nothing.                              *)
SetExpiry(key, present) == ttl' = IF present THEN ttl \cup {key} ELSE ttl

(* The key's time is up.                                                   *)
Expires(key) ==
  /\ key \in ttl
  /\ ttl' = ttl \ {key}
  /\ hurt' = hurt \ {key}
  /\ UNCHANGED <<config, request, faults>>
=============================================================================
