------------------------------ MODULE Geofence ------------------------------
(***************************************************************************)
(* GeofencingMiddleware and geo.lookup: where a request comes from, by a   *)
(* cache in Redis or by asking two providers, and whether it may pass.     *)
(* The providers (ipinfo, IPQualityScore; external) may answer differently *)
(* each time, or fail.                                                     *)
(***************************************************************************)
EXTENDS Requests

CONSTANT Local   \* private and loopback addresses

VARIABLES
  cache,     \* the hash geo:ip, or None
  found,     \* what a request's lookup has learnt, or None
  cleared    \* addresses that one lookup learnt all about, and nothing bad

geoVars == <<cache, found, cleared>>

(* Blocked: in a blocked region, or a VPN, which only a server that blocks  *)
(* VPNs asks for.                                                          *)
GeoResult == [blocked : BOOLEAN, lookup_ok : BOOLEAN]

ASSUME GeofenceAssumption == Local \subseteq Addresses /\ None \notin GeoResult

GeoTypeOK ==
  /\ cache \in [Addresses -> GeoResult \cup {None}]
  /\ found \in [Requests -> GeoResult \cup {None}]
  /\ cleared \subseteq Addresses

GeoInit ==
  /\ cache = [ip \in Addresses |-> None]
  /\ found = [r \in Requests |-> None]
  /\ cleared = {}

(* dispatch, for what lookup returned                                      *)
Passes(g) == (g.lookup_ok \/ config.geoFailOpen) /\ ~g.blocked
Dispatch(r, g) == IF Passes(g) THEN LetThrough(r) ELSE Become(r, "failed")

(* "provider failure must not 500 blindly": lookup raised, for Redis or    *)
(* the reading of a provider's answer did.                                 *)
Crash(r) == IF config.geoFailOpen THEN LetThrough(r) ELSE Become(r, "failed")

FindCached(r) ==
  LET ip == request[r].ip
  IN  /\ At(r, "looking")
      /\ \/ /\ Answers
            /\ IF cache[ip] # None THEN Dispatch(r, cache[ip]) ELSE Become(r, "asking")
         \/ Raises({}) /\ Crash(r)
      /\ UNCHANGED <<config, ttl, geoVars>>

(* Whether ipinfo puts it in a blocked region, and IPQualityScore calls it *)
(* a VPN; None: it failed, or was not asked.                               *)
AskIpinfo == {None, TRUE, FALSE}
AskIpqs == IF config.blockVpn THEN {None, TRUE, FALSE} ELSE {None}

LookupOk_AsAnswered(ipinfo, ipqs) == IF ipinfo = None THEN None ELSE ipqs
LookupOk_ByIpinfo(ipinfo, ipqs) == ipinfo # None
LookupOk(ipinfo, ipqs) == ipinfo # None /\ (ipqs # None \/ ~config.blockVpn)

Result(ipinfo, ipqs) ==
  [blocked |-> TRUE \in {ipinfo, ipqs}, lookup_ok |-> LookupOk(ipinfo, ipqs)]

Clears(ipinfo, ipqs) == ipinfo = FALSE /\ (config.blockVpn => ipqs = FALSE)

(* Both calls: nothing shared is read or written between them.  An answer  *)
(* that is not JSON escapes lookup.                                        *)
AskProviders(r) ==
  LET ip == request[r].ip
  IN  /\ At(r, "asking")
      /\ \/ /\ \E ipinfo \in AskIpinfo, ipqs \in AskIpqs :
                /\ found' = [found EXCEPT ![r] = Result(ipinfo, ipqs)]
                /\ cleared' = IF Clears(ipinfo, ipqs) THEN cleared \cup {ip} ELSE cleared
            /\ Become(r, "caching")
         \/ Crash(r) /\ UNCHANGED <<found, cleared>>
      /\ UNCHANGED <<config, ttl, hurt, faults, cache>>

Forget(r) == found' = [found EXCEPT ![r] = None]

(* Good or bad, the result replaces what another lookup has cached.        *)
CacheResult(r) ==
  LET ip == request[r].ip
      cached == cache' = [cache EXCEPT ![ip] = found[r]]
  IN  /\ At(r, "caching")
      /\ \/ Answers /\ cached /\ Become(r, "stamping") /\ UNCHANGED found
         \/ Raises({GeoKey(ip)}) /\ (cached \/ UNCHANGED cache) /\ Crash(r) /\ Forget(r)
      /\ UNCHANGED <<config, ttl, cleared>>

ExpireResult(r) ==
  LET ip == request[r].ip
      stamped == SetExpiry(GeoKey(ip), cache[ip] # None)
  IN  /\ At(r, "stamping")
      /\ \/ Answers /\ stamped /\ Dispatch(r, found[r])
         \/ Raises({GeoKey(ip)}) /\ (stamped \/ UNCHANGED ttl) /\ Crash(r)
      /\ Forget(r)
      /\ UNCHANGED <<config, cache, cleared>>

CacheExpires(ip) ==
  /\ Expires(GeoKey(ip))
  /\ cache' = [cache EXCEPT ![ip] = None]
  /\ UNCHANGED <<found, cleared>>

Geofencing(r) == FindCached(r) \/ AskProviders(r) \/ CacheResult(r) \/ ExpireResult(r)
=============================================================================
