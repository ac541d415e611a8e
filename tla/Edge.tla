-------------------------------- MODULE Edge --------------------------------
(***************************************************************************)
(* What a request meets before and beside the money: the geofence, the     *)
(* rate limit of the guest log-in, and the one-time codes, on several      *)
(* instances of the server that share a Redis which may fail at any        *)
(* command.                                                                *)
(***************************************************************************)
EXTENDS Geofence, RateLimit, AuthCodes

vars == <<config, request, ttl, hurt, faults, geoVars, limitVars, codeVars>>

TypeOK == RequestsTypeOK /\ GeoTypeOK /\ LimitTypeOK /\ CodesTypeOK

Init == RequestsInit /\ GeoInit /\ LimitInit /\ CodesInit

(* A page exchanges the code that its log-in was redirected with; but the  *)
(* code is whatever string the client sends, and so may be the key of a    *)
(* counter.  Of the other keys, GETDEL refuses those that hold a hash, and *)
(* nothing here reads the markers of webhooks.                             *)
Issued == {c \in Requests : At(c, "served") /\ request[c].kind = "login"}
Names(r, kind) ==
  IF kind = "exchange"
    THEN {[code |-> c, key |-> None] : c \in Issued} \cup {[code |-> r, key |-> k] : k \in Counters}
    ELSE {[code |-> r, key |-> None]}

Arrive(r) ==
  /\ request[r] = None
  /\ \A earlier \in 1 .. r - 1 : request[earlier] # None
  /\ \E kind \in Kinds, ip \in Addresses, i \in Instances :
       \E name \in Names(r, kind) :
         request' = [request EXCEPT ![r] =
           [kind |-> kind, ip |-> ip, on |-> i, code |-> name.code, key |-> name.key,
            at |-> IF ip \in Local THEN Handler(kind) ELSE "looking"]]
  /\ UNCHANGED <<config, ttl, hurt, faults, geoVars, limitVars, codeVars>>

Handle(r) ==
  \/ Geofencing(r) /\ UNCHANGED <<limitVars, codeVars>>
  \/ Limiting(r)   /\ UNCHANGED <<geoVars, codeVars>>
  \/ Coding(r)     /\ UNCHANGED <<geoVars, limitVars>>

(* Keys a request has written and not yet given a time to live.            *)
Unstamped(r) ==
  CASE At(r, "stamping") -> {GeoKey(request[r].ip)}
    [] At(r, "opening")  -> {LimitKey(request[r].ip)}
    [] OTHER             -> {}

(* An instance ends, with its memory and the requests in its hands.        *)
Die(i) ==
  LET cut == {r \in Requests :
                request[r] # None /\ request[r].on = i /\ request[r].at \in Stages}
  IN  /\ Raises(UNION {Unstamped(r) : r \in cut})
      /\ request' = [r \in Requests |->
                       IF r \in cut THEN [request[r] EXCEPT !.at = "failed"] ELSE request[r]]
      /\ memory' = [memory EXCEPT ![i] = {}]
      /\ UNCHANGED <<config, ttl, geoVars, limitVars, stored, strayed>>

Elapse ==
  \/ \E ip \in Addresses :
       \/ CacheExpires(ip) /\ UNCHANGED <<limitVars, codeVars>>
       \/ WindowCloses(ip) /\ UNCHANGED <<geoVars, codeVars>>
  \/ \E code \in Requests : CodeExpires(code) /\ UNCHANGED <<geoVars, limitVars>>

Next ==
  \/ \E r \in Requests : Arrive(r) \/ Handle(r)
  \/ \E i \in Instances : Die(i)
  \/ Elapse

Spec == Init /\ [][Next]_vars

----------------------------------------------------------------------------
(* With geo_fail_open off a request gets past the geofence only if one     *)
(* lookup of its address, its own or an earlier request's, heard from      *)
(* every provider it had to ask and nothing against it: whichever lookups  *)
(* overlap, fail, or find what another has cached.                         *)
Past(r) ==
  request[r] # None /\ request[r].at \in
    {"limiting", "opening", "storing", "consuming", "popping", "served"}
GeoVerified ==
  ~config.geoFailOpen =>
    \A r \in Requests : Past(r) => request[r].ip \in Local \cup cleared

(* "Allows `limit` requests per window": between two expiries of an        *)
(* address's counter no more than that are let in, on whatever instances,  *)
(* but for as many again each time an exchange has removed the counter;    *)
(* and nobody is turned away before that many were let in, unless a        *)
(* command on the counter failed.                                          *)
Opening(ip) == {r \in Requests : At(r, "opening") /\ request[r].ip = ip}
LimitHolds ==
  \A ip \in Addresses :
    /\ Cardinality(allowed[ip]) <= Limit * (1 + taken[ip])
    /\ excess[ip] # {} /\ LimitKey(ip) \notin hurt =>
         Cardinality(allowed[ip] \cup Opening(ip)) >= Limit

(* "Exchange a one-time code for a JWT token (single-use)": a code is in   *)
(* one place at most, in Redis, in an instance's memory or in the answer   *)
(* to one exchange, so that no two exchanges get its token; in two, and no *)
(* more, only if Redis had carried out the SET that raised.                *)
Places(code) ==
  (IF code \in stored THEN {<<"redis">>} ELSE {})
    \cup {<<"memory", i>> : i \in {i \in Instances : code \in memory[i]}}
    \cup {<<"answer", r>> : r \in {r \in Requests :
            At(r, "served") /\ request[r].kind = "exchange" /\ request[r].code = code}}
OneUse ==
  \A code \in Requests : Cardinality(Places(code)) <= IF code \in strayed THEN 2 ELSE 1

(* "Rather than lock everyone out": a cached verdict and a used-up limit   *)
(* have a time to live, or a request is about to give them one, however    *)
(* requests overlap, unless a command on the key failed or the instance    *)
(* that had to set its expiry died.                                        *)
Present ==
  {GeoKey(ip) : ip \in {ip \in Addresses : cache[ip] # None}}
    \cup {LimitKey(ip) : ip \in {ip \in Addresses : counter[ip] > 0}}
KeysExpire == Present \subseteq ttl \cup hurt \cup UNION {Unstamped(r) : r \in Requests}
=============================================================================
