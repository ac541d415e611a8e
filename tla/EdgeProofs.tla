----------------------------- MODULE EdgeProofs -----------------------------
(***************************************************************************)
(* Theorems about Edge, for any instances, addresses, settings and limit,  *)
(* and any number of requests and faults.                                  *)
(***************************************************************************)
EXTENDS Edge, FiniteSetTheorems, TLAPS

USE DEF Stages, Over, Kinds

(* What GeofencingMiddleware lets through goes on to its handler.          *)
LEMMA HandlerIs ==
  Handler("demo") = "limiting" /\ Handler("login") = "storing" /\ Handler("exchange") = "consuming"
BY DEF Handler

(* Each handler begins at a stage past the geofence.                       *)
LEMMA HandlerStages == \A kind \in Kinds : Handler(kind) \in {"limiting", "storing", "consuming"}
BY HandlerIs

(* Becoming a stage keeps the type of the requests, and all but one of     *)
(* them as they are.                                                       *)
LEMMA BecomeTyped ==
  ASSUME NEW r \in Requests, NEW stage \in Stages \cup Over,
         request \in [Requests -> RequestType \cup {None}], request[r] # None,
         Become(r, stage)
  PROVE  /\ request' \in [Requests -> RequestType \cup {None}]
         /\ request'[r] = [request[r] EXCEPT !.at = stage]
         /\ request'[r] \in RequestType
         /\ \A o \in Requests \ {r} : request'[o] = request[o]
BY DEF Become, RequestType

(* Whatever a request's step does, the request goes from stage to stage.   *)
LEMMA HandleBecomes ==
  ASSUME NEW r \in Requests, request \in [Requests -> RequestType \cup {None}], Handle(r)
  PROVE  /\ request[r] \in RequestType /\ request[r] # None
         /\ \E stage \in Stages \cup Over : Become(r, stage)
<1> DEFINE Goal == \E stage \in Stages \cup Over : Become(r, stage)
<1>1. request[r] # None
  BY DEF Handle, Geofencing, FindCached, AskProviders, CacheResult, ExpireResult, Limiting,
         Hit, OpenWindow, TakeCounter, Coding, StoreCode, FaceitRefuses, ConsumeCode, PopCode, At
<1>2. request[r] \in RequestType
  BY <1>1
<1>3. LetThrough(r) => Goal
  BY <1>2, HandlerStages DEF LetThrough, RequestType
<1>4. \A g : Dispatch(r, g) => Goal
  BY <1>3 DEF Dispatch
<1>5. Crash(r) => Goal
  BY <1>3 DEF Crash
<1>6. \A count : Decide(r, count) => Goal
  BY DEF Decide, Serve
<1>7. Geofencing(r) => Goal
  BY <1>4, <1>5 DEF Geofencing, FindCached, AskProviders, CacheResult, ExpireResult
<1>8. Limiting(r) => Goal
  BY <1>6 DEF Limiting, Hit, OpenWindow, TakeCounter, Serve
<1>9. Coding(r) => Goal
  BY DEF Coding, StoreCode, FaceitRefuses, ConsumeCode, PopCode
<1> QED BY <1>1, <1>2, <1>7, <1>8, <1>9 DEF Handle

(* A Redis command that raises keeps the count and the marks it leaves.    *)
LEMMA RaisesTyped ==
  ASSUME NEW keys \in SUBSET Keys, faults \in 0 .. MaxFaults, hurt \subseteq Keys,
         Raises(keys)
  PROVE  faults' \in 0 .. MaxFaults /\ hurt' \subseteq Keys
BY RequestsAssumption DEF Raises

(* The first state has the type.                                           *)
LEMMA TypeInit == Init => TypeOK
BY RequestsAssumption
DEF Init, TypeOK, RequestsInit, GeoInit, LimitInit, CodesInit,
    RequestsTypeOK, GeoTypeOK, LimitTypeOK, CodesTypeOK

(* Every step keeps the type.                                              *)
LEMMA TypeStep == TypeOK /\ [Next]_vars => TypeOK'
<1> USE DEF RequestsTypeOK, GeoTypeOK, LimitTypeOK, CodesTypeOK
<1> SUFFICES ASSUME TypeOK, [Next]_vars PROVE TypeOK'
  OBVIOUS
<1> USE DEF TypeOK
<1>1. ASSUME NEW r \in Requests, Arrive(r) PROVE TypeOK'
  <2>1. PICK kind \in Kinds, ip \in Addresses, i \in Instances :
          \E name \in Names(r, kind) :
            request' = [request EXCEPT ![r] =
              [kind |-> kind, ip |-> ip, on |-> i, code |-> name.code, key |-> name.key,
               at |-> IF ip \in Local THEN Handler(kind) ELSE "looking"]]
    BY <1>1 DEF Arrive
  <2>2. \A name \in Names(r, kind) : name.code \in Requests /\ name.key \in Counters \cup {None}
    BY DEF Names, Issued
  <2>3. request' \in [Requests -> RequestType \cup {None}]
    BY <2>1, <2>2, HandlerStages DEF RequestType
  <2> QED BY <1>1, <2>3 DEF Arrive, geoVars, limitVars, codeVars
<1>2. ASSUME NEW r \in Requests, Handle(r) PROVE TypeOK'
  <2> DEFINE ip == request[r].ip
  <2>1. request[r] \in RequestType /\ ip \in Addresses /\ request[r].on \in Instances
    BY <1>2, HandleBecomes DEF RequestType
  <2>2. request' \in [Requests -> RequestType \cup {None}]
    BY <1>2, HandleBecomes, BecomeTyped
  <2>3. {} \subseteq Keys /\ {GeoKey(ip)} \subseteq Keys /\ {LimitKey(ip)} \subseteq Keys
    BY <2>1 DEF Keys, Counters
  <2>4. CASE Geofencing(r) /\ UNCHANGED <<limitVars, codeVars>>
    <3>1. \A ipinfo \in AskIpinfo, ipqs \in AskIpqs : Result(ipinfo, ipqs) \in GeoResult
      BY DEF Result, GeoResult, LookupOk
    <3>2. config' \in Configs /\ ttl' \subseteq Keys
      BY <2>3, <2>4 DEF Geofencing, FindCached, AskProviders, CacheResult, ExpireResult, SetExpiry
    <3>3. faults' \in 0 .. MaxFaults /\ hurt' \subseteq Keys
      BY <2>3, <2>4, RaisesTyped
      DEF Geofencing, FindCached, AskProviders, CacheResult, ExpireResult, Answers
    <3>4. GeoTypeOK'
      BY <2>1, <2>4, <3>1
      DEF Geofencing, FindCached, AskProviders, CacheResult, ExpireResult, Forget, geoVars
    <3> QED BY <2>2, <2>4, <3>2, <3>3, <3>4 DEF limitVars, codeVars
  <2>5. CASE Limiting(r) /\ UNCHANGED <<geoVars, codeVars>>
    <3>2. config' \in Configs /\ ttl' \subseteq Keys
      BY <2>3, <2>5 DEF Limiting, Hit, OpenWindow, TakeCounter, SetExpiry
    <3>3. faults' \in 0 .. MaxFaults /\ hurt' \subseteq Keys
      BY <2>3, <2>5, RaisesTyped DEF Limiting, Hit, OpenWindow, TakeCounter, Answers
    <3>4. LimitTypeOK'
      <4>1. CASE Hit(r) \/ OpenWindow(r)
        BY <2>1, <4>1 DEF Hit, OpenWindow, Decide, limitVars
      <4>2. CASE TakeCounter(r)
        BY <4>2 DEF TakeCounter
      <4> QED BY <2>5, <4>1, <4>2 DEF Limiting
    <3> QED BY <2>2, <2>5, <3>2, <3>3, <3>4 DEF geoVars, codeVars
  <2>6. CASE Coding(r) /\ UNCHANGED <<geoVars, limitVars>>
    <3>2. config' \in Configs /\ ttl' \subseteq Keys
      BY <2>6 DEF Coding, StoreCode, FaceitRefuses, ConsumeCode, PopCode
    <3>3. faults' \in 0 .. MaxFaults /\ hurt' \subseteq Keys
      BY <2>3, <2>6, RaisesTyped
      DEF Coding, StoreCode, FaceitRefuses, ConsumeCode, PopCode, Answers
    <3>4. CodesTypeOK'
      BY <2>1, <2>6
      DEF Coding, StoreCode, FaceitRefuses, ConsumeCode, PopCode, Remember, Taken, codeVars
    <3> QED BY <2>2, <2>6, <3>2, <3>3, <3>4 DEF geoVars, limitVars
  <2> QED BY <1>2, <2>4, <2>5, <2>6 DEF Handle
<1>3. ASSUME NEW i \in Instances, Die(i) PROVE TypeOK'
  <2>1. \A r \in Requests : Unstamped(r) \subseteq Keys
    BY DEF Unstamped, At, RequestType, Keys, Counters
  <2>2. faults' \in 0 .. MaxFaults /\ hurt' \subseteq Keys
    BY <1>3, <2>1, RequestsAssumption DEF Die, Raises
  <2>3. request' \in [Requests -> RequestType \cup {None}]
    BY <1>3 DEF Die, RequestType
  <2> QED BY <1>3, <2>2, <2>3 DEF Die, geoVars, limitVars
<1>4. ASSUME Elapse PROVE TypeOK'
  BY <1>4
  DEF Elapse, CacheExpires, WindowCloses, CodeExpires, Expires, geoVars, limitVars, codeVars
<1>5. CASE UNCHANGED vars
  BY <1>5 DEF vars, geoVars, limitVars, codeVars
<1> QED BY <1>1, <1>2, <1>3, <1>4, <1>5 DEF Next

(* Type correctness: every variable keeps its type.                        *)
THEOREM TypeCorrect == Spec => []TypeOK
BY TypeInit, TypeStep, PTL DEF Spec

----------------------------------------------------------------------------
(* The geofence: a result that would let a request through when failing    *)
(* closed stands for a cleared address, in the cache as in a request's     *)
(* hands, and a request that has still to cache its result has one.        *)
Clean(g, ip) == g.lookup_ok /\ ~g.blocked => ip \in cleared
GeoInv ==
  /\ \A ip \in Addresses : cache[ip] # None => Clean(cache[ip], ip)
  /\ \A r \in Requests :
       /\ At(r, "caching") \/ At(r, "stamping") => found[r] # None
       /\ found[r] # None => request[r] # None /\ Clean(found[r], request[r].ip)

(* What a request's step leaves as it was: who asks, and everybody else.   *)
LEMMA BecomesStage ==
  ASSUME NEW r \in Requests, NEW stage \in Stages \cup Over,
         request \in [Requests -> RequestType \cup {None}], request[r] # None,
         Become(r, stage)
  PROVE  request'[r].at = stage
<1>1. request[r] \in RequestType
  OBVIOUS
<1>2. request'[r] = [request[r] EXCEPT !.at = stage]
  BY DEF Become
<1> QED BY <1>1, <1>2 DEF RequestType

(* Handling a request touches no other, nor who asks and for what.         *)
LEMMA HandleKeeps ==
  ASSUME NEW r \in Requests, request \in [Requests -> RequestType \cup {None}], Handle(r)
  PROVE  /\ request'[r] # None /\ request'[r].ip = request[r].ip
         /\ request'[r].kind = request[r].kind /\ request'[r].code = request[r].code
         /\ \A o \in Requests \ {r} : request'[o] = request[o]
<1>1. PICK stage \in Stages \cup Over : Become(r, stage)
  BY HandleBecomes
<1>2. /\ request[r] \in RequestType /\ request[r] # None
      /\ request'[r] = [request[r] EXCEPT !.at = stage] /\ request'[r] \in RequestType
      /\ \A o \in Requests \ {r} : request'[o] = request[o]
  BY <1>1, HandleBecomes, BecomeTyped
<1>3. request'[r] # None
  BY <1>2, RequestsAssumption
<1> QED BY <1>2, <1>3 DEF RequestType

(* An instance that dies leaves a request alone or ends it.                *)
LEMMA DieKeeps ==
  ASSUME NEW i \in Instances, request \in [Requests -> RequestType \cup {None}], Die(i)
  PROVE  \A r \in Requests :
           \/ request'[r] = request[r]
           \/ /\ request[r] # None /\ request'[r] # None
              /\ request[r].at \in Stages /\ request'[r].at = "failed"
              /\ request'[r].ip = request[r].ip /\ request'[r].kind = request[r].kind
              /\ request'[r].code = request[r].code
<1> TAKE r \in Requests
<1>1. \/ request'[r] = request[r]
      \/ /\ request[r] # None /\ request[r].at \in Stages
         /\ request'[r] = [request[r] EXCEPT !.at = "failed"]
  BY DEF Die
<1>2. CASE request'[r] = request[r]
  BY <1>2
<1>3. CASE /\ request[r] # None /\ request[r].at \in Stages
           /\ request'[r] = [request[r] EXCEPT !.at = "failed"]
  <2>1. request[r] \in RequestType
    BY <1>3
  <2>2. /\ request'[r] \in RequestType
        /\ request'[r].at = "failed" /\ request'[r].ip = request[r].ip
        /\ request'[r].kind = request[r].kind /\ request'[r].code = request[r].code
    BY <1>3, <2>1 DEF RequestType
  <2> QED BY <1>3, <2>2, RequestsAssumption
<1> QED BY <1>1, <1>2, <1>3

(* Every step keeps GeoInv.                                                *)
LEMMA GeoStep ==
  ASSUME TypeOK, GeoInv, GeoVerified, [Next]_vars
  PROVE  GeoInv' /\ GeoVerified'
<1> USE DEF TypeOK, RequestsTypeOK, GeoTypeOK
<1>1. ASSUME NEW r \in Requests, Arrive(r) PROVE GeoInv' /\ GeoVerified'
  <2>1. /\ request[r] = None /\ UNCHANGED <<cache, found, cleared, config>>
        /\ \A o \in Requests \ {r} : request'[o] = request[o]
        /\ request'[r] \in RequestType
        /\ request'[r].at \notin {"caching", "stamping"}
        /\ Past(r)' => request'[r].ip \in Local
    BY <1>1, HandlerStages DEF Arrive, geoVars, RequestType, Past, Names, Issued
  <2>2. found[r] = None
    BY <2>1 DEF GeoInv
  <2> QED BY <2>1, <2>2 DEF GeoInv, GeoVerified, Clean, At, Past
<1>2. ASSUME NEW r \in Requests, Handle(r) PROVE GeoInv' /\ GeoVerified'
  <2> DEFINE ip == request[r].ip
  <2>1. /\ request'[r] # None /\ request'[r].ip = ip
        /\ \A o \in Requests \ {r} : request'[o] = request[o]
        /\ request[r] # None /\ ip \in Addresses
    BY <1>2, HandleKeeps, HandleBecomes DEF RequestType
  <2>2. config' = config /\ cleared \subseteq cleared'
    BY <1>2
    DEF Handle, Geofencing, FindCached, AskProviders, CacheResult, ExpireResult, Limiting, Hit,
        OpenWindow, TakeCounter, Coding, StoreCode, FaceitRefuses, ConsumeCode, PopCode, geoVars
  <2>3. \A stage \in Stages \cup Over : Become(r, stage) => request'[r].at = stage
    BY <2>1, BecomesStage
  <2>4. LetThrough(r) => request'[r].at \in {"limiting", "storing", "consuming"}
    BY <2>1, <2>3, HandlerStages DEF LetThrough, RequestType
  <2>5. ASSUME NEW g, Dispatch(r, g)
        PROVE  /\ request'[r].at \in {"limiting", "storing", "consuming", "failed"}
               /\ Past(r)' /\ ~config.geoFailOpen => g.lookup_ok /\ ~g.blocked
    BY <2>3, <2>4, <2>5 DEF Dispatch, Passes, Past
  <2>6. ASSUME Crash(r)
        PROVE  /\ request'[r].at \in {"limiting", "storing", "consuming", "failed"}
               /\ Past(r)' => config.geoFailOpen
    BY <2>3, <2>4, <2>6 DEF Crash, Past
  <2>7. ASSUME /\ UNCHANGED <<cache, found, cleared>>
               /\ ~(At(r, "caching")' \/ At(r, "stamping")')
        PROVE  GeoInv'
    BY <2>1, <2>7 DEF GeoInv, Clean, At
  <2>8. ASSUME Past(r)' /\ ~config.geoFailOpen => ip \in Local \cup cleared'
        PROVE  GeoVerified'
    BY <2>1, <2>2, <2>8 DEF GeoVerified, Past
  <2>9. CASE FindCached(r)
    <3>1. /\ UNCHANGED <<cache, found, cleared>>
          /\ \/ Crash(r)
             \/ Become(r, "asking")
             \/ cache[ip] # None /\ Dispatch(r, cache[ip])
      BY <2>9 DEF FindCached, geoVars
    <3>2. GeoInv'
      BY <2>3, <2>5, <2>6, <2>7, <3>1 DEF At
    <3>3. Past(r)' /\ ~config.geoFailOpen => ip \in cleared'
      BY <2>1, <2>3, <2>5, <2>6, <3>1 DEF GeoInv, Clean, Past
    <3> QED BY <2>8, <3>2, <3>3
  <2>10. CASE AskProviders(r)
    <3> DEFINE Learns(ipinfo, ipqs) ==
          /\ found' = [found EXCEPT ![r] = Result(ipinfo, ipqs)]
          /\ cleared' = IF Clears(ipinfo, ipqs) THEN cleared \cup {ip} ELSE cleared
    <3>1. CASE Crash(r) /\ UNCHANGED <<cache, found, cleared>>
      <4>1. GeoInv'
        BY <2>6, <2>7, <3>1 DEF At
      <4> QED BY <2>6, <2>8, <3>1, <4>1
    <3>2. ASSUME NEW ipinfo \in AskIpinfo, NEW ipqs \in AskIpqs, Learns(ipinfo, ipqs),
                 cache' = cache, request'[r].at = "caching"
          PROVE  GeoInv' /\ GeoVerified'
      <4>1. found'[r] = Result(ipinfo, ipqs) /\ Result(ipinfo, ipqs) # None
        <5>1. Result(ipinfo, ipqs) \in GeoResult
          BY DEF Result, GeoResult, LookupOk
        <5> QED BY <3>2, <5>1, GeofenceAssumption
      <4>2. Result(ipinfo, ipqs).lookup_ok /\ ~Result(ipinfo, ipqs).blocked
              => Clears(ipinfo, ipqs)
        BY DEF Result, LookupOk, Clears, AskIpinfo, AskIpqs
      <4>3. GeoInv'
        BY <2>1, <2>2, <3>2, <4>1, <4>2 DEF GeoInv, Clean, At
      <4> QED BY <2>8, <3>2, <4>3 DEF Past
    <3>3. \/ Crash(r) /\ UNCHANGED <<cache, found, cleared>>
          \/ /\ \E ipinfo \in AskIpinfo, ipqs \in AskIpqs : Learns(ipinfo, ipqs)
             /\ cache' = cache /\ request'[r].at = "caching"
      BY <2>3, <2>10 DEF AskProviders
    <3> QED BY <3>1, <3>2, <3>3
  <2>11. CASE CacheResult(r)
    <3>1. found[r] # None /\ Clean(found[r], ip)
      BY <2>11 DEF CacheResult, GeoInv
    <3>2. /\ cache' \in {cache, [cache EXCEPT ![ip] = found[r]]}
          /\ cleared' = cleared
          /\ \/ found' = found /\ Become(r, "stamping")
             \/ found' = [found EXCEPT ![r] = None] /\ Crash(r)
      BY <2>11 DEF CacheResult, Forget
    <3>3. \A a \in Addresses : (cache[a] # None)' => Clean(cache[a], a)'
      BY <3>1, <3>2 DEF GeoInv, Clean
    <3>4. GeoInv'
      BY <2>1, <2>3, <2>6, <3>1, <3>2, <3>3 DEF GeoInv, Clean, At
    <3> QED BY <2>3, <2>6, <2>8, <3>2, <3>4 DEF Past
  <2>12. CASE ExpireResult(r)
    <3>1. found[r] # None /\ Clean(found[r], ip)
      BY <2>12 DEF ExpireResult, GeoInv
    <3>2. /\ UNCHANGED <<cache, cleared>> /\ found' = [found EXCEPT ![r] = None]
          /\ Dispatch(r, found[r]) \/ Crash(r)
      BY <2>12 DEF ExpireResult, Forget
    <3>3. GeoInv'
      BY <2>1, <2>5, <2>6, <3>2 DEF GeoInv, Clean, At
    <3>4. Past(r)' /\ ~config.geoFailOpen => ip \in cleared'
      BY <2>5, <2>6, <3>1, <3>2 DEF Clean
    <3> QED BY <2>8, <3>3, <3>4
  <2>13. CASE (Limiting(r) \/ Coding(r)) /\ UNCHANGED geoVars
    <3>1. Past(r)
      BY <2>1, <2>13
      DEF Limiting, Hit, OpenWindow, TakeCounter, Coding, StoreCode, FaceitRefuses,
          ConsumeCode, PopCode, At, Past
    <3>2. request'[r].at \in {"served", "failed", "opening", "popping"}
      BY <2>3, <2>13
      DEF Limiting, Hit, OpenWindow, TakeCounter, Serve, Decide, Coding, StoreCode,
          FaceitRefuses, ConsumeCode, PopCode
    <3>3. ip \in Local \cup cleared' \/ config.geoFailOpen
      BY <2>2, <3>1 DEF GeoVerified
    <3> QED BY <2>7, <2>8, <2>13, <3>2, <3>3 DEF At, geoVars
  <2> QED BY <1>2, <2>9, <2>10, <2>11, <2>12, <2>13 DEF Handle, Geofencing
<1>3. ASSUME NEW i \in Instances, Die(i) PROVE GeoInv' /\ GeoVerified'
  <2>1. UNCHANGED <<cache, found, cleared, config>>
    BY <1>3 DEF Die, geoVars
  <2> QED BY <1>3, <2>1, DieKeeps DEF GeoInv, GeoVerified, Clean, At, Past
<1>4. ASSUME Elapse PROVE GeoInv' /\ GeoVerified'
  BY <1>4
  DEF Elapse, CacheExpires, WindowCloses, CodeExpires, Expires, GeoInv, GeoVerified, Clean, At,
      Past, geoVars
<1>5. CASE UNCHANGED vars
  BY <1>5 DEF vars, geoVars, GeoInv, GeoVerified, Clean, At, Past
<1> QED BY <1>1, <1>2, <1>3, <1>4, <1>5 DEF Next

(* Failing closed, nobody gets past the geofence unverified.               *)
THEOREM PassedIsVerified == Spec => []GeoVerified
<1>1. Init => GeoInv /\ GeoVerified
  BY DEF Init, RequestsInit, GeoInit, GeoInv, GeoVerified, Past, At
<1>2. TypeOK /\ GeoInv /\ GeoVerified /\ [Next]_vars => GeoInv' /\ GeoVerified'
  BY GeoStep
<1> QED BY <1>1, <1>2, TypeCorrect, PTL DEF Spec

----------------------------------------------------------------------------
(* One-time codes.  A code that waits or is exchanged has been issued, and *)
(* is in as many places as it may; a request is at stages of its own kind. *)
Answer(r, c) == At(r, "served") /\ request[r].kind = "exchange" /\ request[r].code = c
Allowance(c) == IF c \in strayed THEN 2 ELSE 1
OwnStage(q) ==
  /\ q.at \in {"limiting", "opening"} => q.kind = "demo"
  /\ q.at = "storing" => q.kind = "login"
  /\ q.at \in {"consuming", "popping"} => q.kind = "exchange"
CodeInv ==
  /\ stored \subseteq Issued
  /\ \A i \in Instances : memory[i] \subseteq Issued
  /\ \A r \in Requests : request[r] # None =>
       /\ OwnStage(request[r])
       /\ request[r].kind = "exchange" => request[r].code \in Issued \cup {r}
  /\ \A c \in Requests :
       IsFiniteSet(Places(c)) /\ Cardinality(Places(c)) <= Allowance(c)

(* Where a code is.                                                        *)
LEMMA PlacesAre ==
  ASSUME NEW c
  PROVE  /\ c \in stored <=> <<"redis">> \in Places(c)
         /\ \A i \in Instances : c \in memory[i] <=> <<"memory", i>> \in Places(c)
         /\ \A r \in Requests : Answer(r, c) <=> <<"answer", r>> \in Places(c)
BY DEF Places, Answer

(* A set that loses members, or one for another, is no larger.             *)
LEMMA MovedOne ==
  ASSUME NEW S, NEW T, IsFiniteSet(S),
         T \subseteq S \/ \E p \in S : \E a : T \subseteq (S \ {p}) \cup {a}
  PROVE  IsFiniteSet(T) /\ Cardinality(T) <= Cardinality(S)
<1>1. CASE T \subseteq S
  BY <1>1, FS_Subset
<1>2. ASSUME NEW p \in S, NEW a, T \subseteq (S \ {p}) \cup {a}
      PROVE  IsFiniteSet(T) /\ Cardinality(T) <= Cardinality(S)
  <2>1. IsFiniteSet(S \ {p}) /\ Cardinality(S \ {p}) = Cardinality(S) - 1
    BY FS_RemoveElement
  <2>2. /\ IsFiniteSet((S \ {p}) \cup {a})
        /\ \/ Cardinality((S \ {p}) \cup {a}) = Cardinality(S \ {p})
           \/ Cardinality((S \ {p}) \cup {a}) = Cardinality(S \ {p}) + 1
    BY <2>1, FS_AddElement
  <2>3. IsFiniteSet(T) /\ Cardinality(T) <= Cardinality((S \ {p}) \cup {a})
    BY <1>2, <2>2, FS_Subset
  <2>4. Cardinality(S) \in Nat /\ Cardinality(T) \in Nat
    BY <2>3, FS_CardinalityType
  <2> QED BY <2>1, <2>2, <2>3, <2>4
<1> QED BY <1>1, <1>2

(* Two things make a set of two at most.                                   *)
LEMMA PairSize ==
  ASSUME NEW a, NEW b
  PROVE  IsFiniteSet({a, b}) /\ Cardinality({a, b}) \in {1, 2}
<1>1. IsFiniteSet({a}) /\ Cardinality({a}) = 1
  BY FS_Singleton
<1>2. {a, b} = {a} \cup {b}
  OBVIOUS
<1>3. CASE b \in {a}
  BY <1>1, <1>2, <1>3, FS_AddElement
<1>4. CASE b \notin {a}
  BY <1>1, <1>2, <1>4, FS_AddElement
<1> QED BY <1>3, <1>4

(* A step that moves a code, or drops it, keeps what is said of its places.*)
LEMMA PlacesMove ==
  ASSUME TypeOK, CodeInv, NEW c \in Requests, strayed' = strayed,
         Places(c)' \subseteq Places(c)
           \/ \E p \in Places(c) : \E a : Places(c)' \subseteq (Places(c) \ {p}) \cup {a}
  PROVE  (IsFiniteSet(Places(c)) /\ Cardinality(Places(c)) <= Allowance(c))'
<1>1. IsFiniteSet(Places(c)) /\ Cardinality(Places(c)) <= Allowance(c)
  BY DEF CodeInv
<1>2. IsFiniteSet(Places(c)') /\ Cardinality(Places(c)') <= Cardinality(Places(c))
  BY <1>1, MovedOne
<1>3. Cardinality(Places(c)) \in Nat /\ Cardinality(Places(c)') \in Nat /\ Allowance(c)' = Allowance(c)
  BY <1>1, <1>2, FS_CardinalityType DEF Allowance
<1>4. Allowance(c) \in Nat
  BY DEF Allowance
<1> QED BY <1>1, <1>2, <1>3, <1>4

(* Nothing but answers and stored codes make a place.                      *)
LEMMA PlacesShrink ==
  ASSUME TypeOK, CodeInv, strayed' = strayed, stored' \subseteq stored,
         \A i \in Instances : memory'[i] \subseteq memory[i],
         \A o, c \in Requests : Answer(o, c)' => Answer(o, c)
  PROVE  \A c \in Requests : (IsFiniteSet(Places(c)) /\ Cardinality(Places(c)) <= Allowance(c))'
<1> TAKE c \in Requests
<1>1. Places(c)' \subseteq Places(c)
  BY DEF Places, Answer
<1> QED BY <1>1, PlacesMove

(* A code in as many places as it may be is used as often as it may.       *)
LEMMA PlacesOneUse == CodeInv => OneUse
BY DEF CodeInv, OneUse, Allowance

(* Every step keeps CodeInv.                                               *)
LEMMA CodeStep ==
  ASSUME TypeOK, CodeInv, [Next]_vars
  PROVE  CodeInv'
<1> USE DEF TypeOK, RequestsTypeOK, CodesTypeOK
<1> DEFINE PlacesKept == \A c \in Requests :
             (IsFiniteSet(Places(c)) /\ Cardinality(Places(c)) <= Allowance(c))'
<1>1. ASSUME NEW r \in Requests, Arrive(r) PROVE CodeInv'
  <2>1. /\ request[r] = None /\ UNCHANGED <<stored, memory, strayed>>
        /\ \A o \in Requests \ {r} : request'[o] = request[o]
        /\ request'[r] \in RequestType
        /\ request'[r].at \in {"looking", Handler(request'[r].kind)}
        /\ request'[r].kind = "exchange" => request'[r].code \in Issued \cup {r}
    <3>1. PICK kind \in Kinds, ip \in Addresses, i \in Instances :
            \E name \in Names(r, kind) :
              request' = [request EXCEPT ![r] =
                [kind |-> kind, ip |-> ip, on |-> i, code |-> name.code, key |-> name.key,
                 at |-> IF ip \in Local THEN Handler(kind) ELSE "looking"]]
      BY <1>1 DEF Arrive
    <3>2. PICK name \in Names(r, kind) :
            request' = [request EXCEPT ![r] =
              [kind |-> kind, ip |-> ip, on |-> i, code |-> name.code, key |-> name.key,
               at |-> IF ip \in Local THEN Handler(kind) ELSE "looking"]]
      BY <3>1
    <3>3. /\ name.code \in Issued \cup {r} /\ name.code \in Requests
          /\ name.key \in Counters \cup {None} /\ Handler(kind) \in Stages
      BY HandlerStages DEF Names, Issued
    <3>4. request'[r] = [kind |-> kind, ip |-> ip, on |-> i, code |-> name.code,
                         key |-> name.key,
                         at |-> IF ip \in Local THEN Handler(kind) ELSE "looking"]
      BY <3>2
    <3> QED BY <1>1, <3>2, <3>3, <3>4 DEF Arrive, codeVars, RequestType
  <2>2. OwnStage(request'[r]) /\ request'[r].at # "served"
    <3>1. request'[r].kind \in Kinds
      BY <2>1 DEF RequestType
    <3> QED BY <2>1, <3>1, HandlerIs DEF OwnStage
  <2>3. Issued' = Issued
    BY <2>1, <2>2 DEF Issued, At
  <2>4. \A o \in Requests, c \in Requests : Answer(o, c)' <=> Answer(o, c)
    BY <2>1, <2>2 DEF Answer, At
  <2>5. PlacesKept
    BY <2>1, <2>4, PlacesShrink
  <2> QED BY <2>1, <2>2, <2>3, <2>5 DEF CodeInv
<1>2. ASSUME NEW r \in Requests, Handle(r) PROVE CodeInv'
  <2> DEFINE q  == request[r]
             q1 == request'[r]
  <2>1. /\ q # None /\ q1 # None /\ q1.kind = q.kind /\ q1.code = q.code
        /\ \A o \in Requests \ {r} : request'[o] = request[o]
        /\ q.kind \in Kinds
    BY <1>2, HandleKeeps, HandleBecomes DEF RequestType
  <2>2. \A stage \in Stages \cup Over : Become(r, stage) => q1.at = stage
    BY <2>1, BecomesStage
  <2>3. OwnStage(q) /\ (q.kind = "exchange" => q.code \in Issued \cup {r})
    BY <2>1 DEF CodeInv
  <2>4. ASSUME q.at # "served", q1.at = "served" => q.kind # "login" PROVE Issued' = Issued
    BY <2>1, <2>4 DEF Issued, At
  <2>5. ASSUME q.at # "served", q1.at = "served" => q.kind # "exchange"
        PROVE  \A o, c \in Requests : Answer(o, c)' <=> Answer(o, c)
    BY <2>1, <2>5 DEF Answer, At
  <2>11. ASSUME UNCHANGED codeVars, q.at # "served", OwnStage(q1),
                q1.at = "served" => q.kind = "demo"
         PROVE  CodeInv'
    <3>1. PlacesKept
      BY <2>5, <2>11, PlacesShrink DEF codeVars
    <3> QED BY <2>1, <2>3, <2>4, <2>11, <3>1 DEF CodeInv, codeVars
  <2>6. CASE Geofencing(r) /\ UNCHANGED codeVars
    <3>1. q.at # "served"
      BY <2>6 DEF Geofencing, FindCached, AskProviders, CacheResult, ExpireResult, At
    <3>2. q1.at \in {"asking", "caching", "stamping", "failed", Handler(q.kind)}
      <4>1. LetThrough(r) => q1.at = Handler(q.kind)
        BY <2>1, <2>2, HandlerStages DEF LetThrough
      <4> QED BY <2>2, <2>6, <4>1
            DEF Geofencing, FindCached, AskProviders, CacheResult, ExpireResult, Dispatch, Crash
    <3>3. OwnStage(q1) /\ q1.at # "served"
      BY <2>1, <3>2, HandlerIs DEF OwnStage
    <3> QED BY <2>6, <2>11, <3>1, <3>3
  <2>7. CASE Limiting(r) /\ UNCHANGED codeVars
    <3>1. CASE Hit(r) \/ OpenWindow(r)
      <4>1. q.at \in {"limiting", "opening"} /\ q.kind = "demo"
        BY <2>3, <3>1 DEF Hit, OpenWindow, At, OwnStage
      <4>2. q1.at \in {"opening", "served", "failed"}
        BY <2>2, <3>1 DEF Hit, OpenWindow, Serve, Decide
      <4>3. OwnStage(q1)
        BY <2>1, <4>1, <4>2 DEF OwnStage
      <4> QED BY <2>7, <2>11, <4>1, <4>3
    <3>2. CASE TakeCounter(r)
      <4>1. q.at = "consuming" /\ q1.at \in {"popping", "failed"}
        BY <2>2, <3>2 DEF TakeCounter, At
      <4>2. OwnStage(q1)
        BY <2>1, <2>3, <4>1 DEF OwnStage
      <4> QED BY <2>7, <2>11, <4>1, <4>2
    <3> QED BY <2>7, <3>1, <3>2 DEF Limiting
  <2>8. CASE StoreCode(r)
    <3>1. q.at = "storing" /\ q.kind = "login" /\ q1.at = "served" /\ r \notin Issued
      BY <2>2, <2>3, <2>8 DEF StoreCode, At, OwnStage, Issued
    <3>2. /\ r \notin stored /\ \A i \in Instances : r \notin memory[i]
          /\ \A o \in Requests : ~Answer(o, r)
      BY <2>1, <3>1 DEF CodeInv, Answer, At
    <3>3. q.on \in Instances
      BY <2>1 DEF RequestType
    <3>4. /\ stored' \in {stored, stored \cup {r}}
          /\ memory' \in {memory, [memory EXCEPT ![q.on] = @ \cup {r}]}
          /\ strayed' \in {strayed, strayed \cup {r}}
          /\ stored' = stored \/ memory' = memory \/ r \in strayed'
      BY <2>8 DEF StoreCode, Remember
    <3>5. Issued' = Issued \cup {r}
      BY <2>1, <3>1 DEF Issued, At
    <3>6. \A o, c \in Requests : Answer(o, c)' <=> Answer(o, c)
      BY <2>5, <3>1
    <3>7. ASSUME NEW c \in Requests \ {r}
          PROVE  (IsFiniteSet(Places(c)) /\ Cardinality(Places(c)) <= Allowance(c))'
      <4>1. Places(c)' = Places(c)
        BY <3>3, <3>4, <3>6 DEF Places, Answer
      <4>2. Allowance(c)' = Allowance(c)
        BY <3>4 DEF Allowance
      <4> QED BY <4>1, <4>2 DEF CodeInv
    <3>8. (IsFiniteSet(Places(r)) /\ Cardinality(Places(r)) <= Allowance(r))'
      <4>1. Places(r)' \subseteq {<<"redis">>, <<"memory", q.on>>}
        BY <3>2, <3>3, <3>4, <3>6 DEF Places, Answer
      <4>2. \/ Places(r)' \subseteq {<<"redis">>} \/ Places(r)' \subseteq {<<"memory", q.on>>}
            \/ r \in strayed'
        BY <3>2, <3>3, <3>4, <3>6 DEF Places, Answer
      <4>3. /\ IsFiniteSet({<<"redis">>}) /\ Cardinality({<<"redis">>}) = 1
            /\ IsFiniteSet({<<"memory", q.on>>}) /\ Cardinality({<<"memory", q.on>>}) = 1
        BY FS_Singleton
      <4>4. /\ IsFiniteSet({<<"redis">>, <<"memory", q.on>>})
            /\ Cardinality({<<"redis">>, <<"memory", q.on>>}) \in {1, 2}
        BY PairSize
      <4>5. /\ IsFiniteSet(Places(r)')
            /\ Cardinality(Places(r)') <= Cardinality({<<"redis">>, <<"memory", q.on>>})
        BY <4>1, <4>4, FS_Subset
      <4>6. IsFiniteSet(Places(r)') /\ Cardinality(Places(r)') \in Nat /\ Cardinality(Places(r)') <= 2
        <5>1. Cardinality(Places(r)') \in Nat
          BY <4>5, FS_CardinalityType
        <5> QED BY <4>4, <4>5, <5>1
      <4>7. r \notin strayed' => Cardinality(Places(r)') <= 1
        BY <4>2, <4>3, FS_Subset
      <4> QED BY <4>6, <4>7 DEF Allowance
    <3>9. OwnStage(q1)
      BY <2>1, <3>1 DEF OwnStage
    <3> QED BY <2>1, <3>1, <3>3, <3>4, <3>5, <3>7, <3>8, <3>9 DEF CodeInv
  <2>9. CASE FaceitRefuses(r)
    <3>1. q.at = "storing" /\ q1.at = "failed"
      BY <2>2, <2>9 DEF FaceitRefuses, At
    <3>2. OwnStage(q1)
      BY <3>1 DEF OwnStage
    <3> QED BY <2>9, <2>11, <3>1, <3>2 DEF FaceitRefuses
  <2>10. CASE ConsumeCode(r) \/ PopCode(r)
    <3>1. /\ q.at \in {"consuming", "popping"} /\ q.kind = "exchange"
          /\ q1.at \in {"popping", "served", "failed"}
      BY <2>2, <2>3, <2>10 DEF ConsumeCode, PopCode, At, OwnStage
    <3>2. /\ stored' \subseteq stored /\ \A i \in Instances : memory'[i] \subseteq memory[i]
          /\ strayed' = strayed
          /\ q1.at = "served" =>
               \/ q.code \in stored /\ q.code \notin stored'
               \/ \E i \in Instances : q.code \in memory[i] /\ q.code \notin memory'[i]
      BY <2>2, <2>10, <1>2, HandleBecomes DEF ConsumeCode, PopCode, Taken, RequestType
    <3>3. OwnStage(q1)
      BY <2>1, <3>1 DEF OwnStage
    <3>4. Issued' = Issued
      BY <2>4, <3>1
    <3>5. \A o, c \in Requests :
            Answer(o, c)' <=> Answer(o, c) \/ (o = r /\ c = q.code /\ q1.at = "served")
      BY <2>1, <3>1 DEF Answer, At
    <3>6. ASSUME NEW c \in Requests
          PROVE  (IsFiniteSet(Places(c)) /\ Cardinality(Places(c)) <= Allowance(c))'
      <4>1. Places(c)' \subseteq Places(c) \cup {<<"answer", r>>}
        BY <3>2, <3>5 DEF Places, Answer
      <4>2. CASE q1.at # "served" \/ c # q.code
        <5>1. Places(c)' \subseteq Places(c)
          BY <3>2, <3>5, <4>2 DEF Places, Answer
        <5> QED BY <3>2, <5>1, PlacesMove
      <4>3. CASE q1.at = "served" /\ c = q.code
        <5>1. \E p \in Places(c) : p \notin Places(c)'
          <6>1. \/ <<"redis">> \in Places(c) /\ <<"redis">> \notin Places(c)'
                \/ \E i \in Instances :
                     <<"memory", i>> \in Places(c) /\ <<"memory", i>> \notin Places(c)'
            BY <3>2, <4>3, PlacesAre DEF Places
          <6> QED BY <6>1
        <5> QED BY <3>2, <4>1, <5>1, PlacesMove
      <4> QED BY <4>2, <4>3
    <3> QED BY <2>1, <2>3, <3>2, <3>3, <3>4, <3>6 DEF CodeInv
  <2> QED BY <1>2, <2>6, <2>7, <2>8, <2>9, <2>10 DEF Handle, Coding
<1>3. ASSUME NEW i \in Instances, Die(i) PROVE CodeInv'
  <2>1. /\ stored' = stored /\ strayed' = strayed
        /\ \A j \in Instances : memory'[j] \subseteq memory[j]
    BY <1>3 DEF Die
  <2>2. Issued' = Issued
    BY <1>3, DieKeeps DEF Issued, At
  <2>3. \A o \in Requests, c \in Requests : Answer(o, c)' <=> Answer(o, c)
    BY <1>3, DieKeeps DEF Answer, At
  <2>4. \A o \in Requests : request'[o] # None =>
          /\ request[o] # None /\ OwnStage(request'[o])
          /\ request'[o].kind = request[o].kind /\ request'[o].code = request[o].code
    BY <1>3, DieKeeps DEF CodeInv, OwnStage
  <2>5. PlacesKept
    BY <2>1, <2>3, PlacesShrink
  <2> QED BY <2>1, <2>2, <2>4, <2>5 DEF CodeInv
<1>4. ASSUME Elapse PROVE CodeInv'
  <2>1. /\ request' = request /\ stored' \subseteq stored /\ strayed' = strayed
        /\ \A j \in Instances : memory'[j] \subseteq memory[j]
    BY <1>4 DEF Elapse, CacheExpires, WindowCloses, CodeExpires, Expires, codeVars
  <2>2. \A o, c \in Requests : Answer(o, c)' <=> Answer(o, c)
    BY <2>1 DEF Answer, At
  <2>3. PlacesKept
    BY <2>1, <2>2, PlacesShrink
  <2> QED BY <2>1, <2>3 DEF CodeInv, Issued, At
<1>5. CASE UNCHANGED vars
  <2>1. /\ request' = request /\ stored' = stored /\ strayed' = strayed /\ memory' = memory
    BY <1>5 DEF vars, codeVars
  <2>2. \A o, c \in Requests : Answer(o, c)' <=> Answer(o, c)
    BY <2>1 DEF Answer, At
  <2>3. PlacesKept
    BY <2>1, <2>2, PlacesShrink
  <2> QED BY <2>1, <2>3 DEF CodeInv, Issued, At
<1> QED BY <1>1, <1>2, <1>3, <1>4, <1>5 DEF Next

(* However exchanges meet on any instances, Redis failing or not, a code's *)
(* token is given once, or twice if Redis had carried out the SET that     *)
(* raised.                                                                 *)
THEOREM CodesUsedOnce == Spec => []OneUse
<1>1. Init => CodeInv
  <2> SUFFICES ASSUME Init PROVE CodeInv
    OBVIOUS
  <2>1. \A c \in Requests : Places(c) = {}
    BY DEF Init, RequestsInit, CodesInit, Places, At
  <2>2. IsFiniteSet({}) /\ Cardinality({}) = 0
    BY FS_EmptySet
  <2> QED BY <2>1, <2>2 DEF Init, RequestsInit, CodesInit, CodeInv, Allowance
<1>2. TypeOK /\ CodeInv /\ [Next]_vars => CodeInv'
  BY CodeStep
<1> QED BY <1>1, <1>2, TypeCorrect, PlacesOneUse, PTL DEF Spec

----------------------------------------------------------------------------
(* Keys that expire.  Some request at the stage that stamps a key.         *)
Owed(ip, stage) == \E r \in Requests : At(r, stage) /\ request[r].ip = ip
KeysInv ==
  \A ip \in Addresses :
    /\ cache[ip] # None => GeoKey(ip) \in ttl \cup hurt \/ Owed(ip, "stamping")
    /\ counter[ip] > 0 => LimitKey(ip) \in ttl \cup hurt \/ Owed(ip, "opening")

(* No two keys are the same.                                               *)
LEMMA KeysDiffer ==
  \A ip, o : /\ GeoKey(ip) # LimitKey(o)
             /\ GeoKey(ip) = GeoKey(o) => ip = o
             /\ LimitKey(ip) = LimitKey(o) => ip = o
BY DEF GeoKey, LimitKey

(* The keys a request owes a time to live are those it is stamping.        *)
LEMMA UnstampedIs ==
  ASSUME NEW r
  PROVE  /\ At(r, "stamping") => Unstamped(r) = {GeoKey(request[r].ip)}
         /\ At(r, "opening") => Unstamped(r) = {LimitKey(request[r].ip)}
BY DEF Unstamped, At

(* What KeysInv calls owed is what KeysExpire allows.                      *)
LEMMA KeysInvSuffices == KeysInv => KeysExpire
<1> SUFFICES ASSUME KeysInv PROVE KeysExpire
  OBVIOUS
<1>1. ASSUME NEW ip, Owed(ip, "stamping") PROVE GeoKey(ip) \in UNION {Unstamped(r) : r \in Requests}
  BY <1>1, UnstampedIs DEF Owed
<1>2. ASSUME NEW ip, Owed(ip, "opening") PROVE LimitKey(ip) \in UNION {Unstamped(r) : r \in Requests}
  BY <1>2, UnstampedIs DEF Owed
<1> QED BY <1>1, <1>2 DEF KeysInv, KeysExpire, Present

(* A stage that no request enters or leaves owes what it did.              *)
LEMMA OwedStays ==
  ASSUME NEW r \in Requests, NEW stage,
         request'[r] # None, request[r] # None, request'[r].ip = request[r].ip,
         \A o \in Requests \ {r} : request'[o] = request[o],
         At(r, stage) => request'[r].at = stage
  PROVE  \A ip : Owed(ip, stage) => Owed(ip, stage)'
BY DEF Owed, At

(* Every step keeps KeysInv.                                               *)
LEMMA KeysStep ==
  ASSUME TypeOK, KeysInv, [Next]_vars
  PROVE  KeysInv'
<1> USE DEF TypeOK, RequestsTypeOK, GeoTypeOK, LimitTypeOK
<1>1. ASSUME NEW r \in Requests, Arrive(r) PROVE KeysInv'
  <2>1. /\ request[r] = None /\ \A o \in Requests \ {r} : request'[o] = request[o]
        /\ ttl' = ttl /\ hurt' = hurt /\ cache' = cache /\ counter' = counter
    BY <1>1 DEF Arrive, geoVars, limitVars
  <2>2. \A ip, stage : Owed(ip, stage) => Owed(ip, stage)'
    BY <2>1 DEF Owed, At
  <2> QED BY <2>1, <2>2 DEF KeysInv
<1>2. ASSUME NEW r \in Requests, Handle(r) PROVE KeysInv'
  <2> DEFINE q  == request[r]
             ip == q.ip
  <2>1. /\ q # None /\ request'[r] # None /\ request'[r].ip = ip /\ ip \in Addresses
        /\ \A o \in Requests \ {r} : request'[o] = request[o]
    BY <1>2, HandleKeeps, HandleBecomes DEF RequestType
  <2>2. \A stage \in Stages \cup Over : Become(r, stage) => request'[r].at = stage
    BY <2>1, BecomesStage
  <2>3. \A stage : (q.at = stage => request'[r].at = stage) =>
          \A o : Owed(o, stage) => Owed(o, stage)'
    BY <2>1, OwedStays DEF At
  <2>4. \A o, stage : o # ip /\ Owed(o, stage) => Owed(o, stage)'
    BY <2>1 DEF Owed, At
  <2>10. CASE TakeCounter(r) /\ UNCHANGED geoVars
    <3>1. PICK o \in Addresses :
            \/ ttl' = ttl /\ counter' = counter
            \/ counter' = [counter EXCEPT ![o] = 0] /\ ttl' = ttl \ {LimitKey(o)}
      BY <2>10 DEF TakeCounter
    <3>2. hurt \subseteq hurt' /\ cache' = cache /\ q.at = "consuming"
      BY <2>1, <2>10 DEF TakeCounter, Answers, Raises, At, geoVars
    <3>3. \A a, stage : stage # "consuming" /\ Owed(a, stage) => Owed(a, stage)'
      BY <2>3, <3>2
    <3> QED BY <3>1, <3>2, <3>3, KeysDiffer DEF KeysInv
  <2>5. CASE /\ q.at \notin {"caching", "stamping", "limiting", "opening"}
             /\ ~(TakeCounter(r) /\ UNCHANGED geoVars)
    <3>1. ttl' = ttl /\ hurt \subseteq hurt' /\ cache' = cache /\ counter' = counter
      BY <1>2, <2>5 DEF Handle, Geofencing, FindCached, AskProviders, CacheResult, ExpireResult,
        Limiting, Hit, OpenWindow, Coding, StoreCode, FaceitRefuses, ConsumeCode, PopCode,
        At, Answers, Raises, geoVars, limitVars
    <3> QED BY <2>3, <2>5, <3>1 DEF KeysInv
  <2>6. CASE q.at = "caching"
    <3>1. CacheResult(r) /\ UNCHANGED limitVars
      BY <1>2, <2>6 DEF Handle, Geofencing, FindCached, AskProviders, CacheResult, ExpireResult,
        Limiting, Hit, OpenWindow, TakeCounter, Coding, StoreCode, FaceitRefuses, ConsumeCode,
        PopCode, At
    <3>2. /\ ttl' = ttl /\ hurt \subseteq hurt' /\ counter' = counter
          /\ \A o \in Addresses \ {ip} : cache'[o] = cache[o]
          /\ GeoKey(ip) \in hurt' \/ request'[r].at = "stamping"
      BY <2>2, <3>1 DEF CacheResult, Answers, Raises, limitVars
    <3>3. request'[r].at = "stamping" => Owed(ip, "stamping")'
      BY <2>1 DEF Owed, At
    <3> QED BY <2>1, <2>3, <2>6, <3>2, <3>3 DEF KeysInv
  <2>7. CASE q.at = "stamping"
    <3>1. ExpireResult(r) /\ UNCHANGED limitVars
      BY <1>2, <2>7 DEF Handle, Geofencing, FindCached, AskProviders, CacheResult, ExpireResult,
        Limiting, Hit, OpenWindow, TakeCounter, Coding, StoreCode, FaceitRefuses, ConsumeCode,
        PopCode, At
    <3>2. /\ ttl \subseteq ttl' /\ hurt \subseteq hurt' /\ counter' = counter /\ cache' = cache
          /\ cache[ip] # None => GeoKey(ip) \in ttl' \cup hurt'
      BY <3>1 DEF ExpireResult, Answers, Raises, SetExpiry, limitVars
    <3> QED BY <2>3, <2>4, <2>7, <3>2 DEF KeysInv
  <2>8. CASE q.at = "limiting"
    <3>1. Hit(r) /\ UNCHANGED geoVars
      BY <1>2, <2>8 DEF Handle, Geofencing, FindCached, AskProviders, CacheResult, ExpireResult,
        Limiting, Hit, OpenWindow, TakeCounter, Coding, StoreCode, FaceitRefuses, ConsumeCode,
        PopCode, At
    <3>2. /\ ttl' = ttl /\ hurt \subseteq hurt' /\ cache' = cache
          /\ \A o \in Addresses \ {ip} : counter'[o] = counter[o]
      BY <3>1 DEF Hit, Answers, Raises, geoVars, limitVars
    <3>3. \/ counter'[ip] = counter[ip] \/ counter[ip] > 0
          \/ LimitKey(ip) \in hurt' \/ request'[r].at = "opening"
      <4>1. counter[ip] \in Nat
        BY <2>1
      <4> QED BY <2>1, <2>2, <3>1, <4>1 DEF Hit, Answers, Raises, FirstHit, limitVars
    <3>4. request'[r].at = "opening" => Owed(ip, "opening")'
      BY <2>1 DEF Owed, At
    <3> QED BY <2>1, <2>3, <2>8, <3>2, <3>3, <3>4 DEF KeysInv
  <2>9. CASE q.at = "opening"
    <3>1. OpenWindow(r) /\ UNCHANGED geoVars
      BY <1>2, <2>9 DEF Handle, Geofencing, FindCached, AskProviders, CacheResult, ExpireResult,
        Limiting, Hit, OpenWindow, TakeCounter, Coding, StoreCode, FaceitRefuses, ConsumeCode,
        PopCode, At
    <3>2. /\ ttl \subseteq ttl' /\ hurt \subseteq hurt' /\ counter' = counter /\ cache' = cache
          /\ counter[ip] > 0 => LimitKey(ip) \in ttl' \cup hurt'
      BY <3>1 DEF OpenWindow, Answers, Raises, SetExpiry, geoVars
    <3> QED BY <2>3, <2>4, <2>9, <3>2 DEF KeysInv
  <2> QED BY <2>5, <2>6, <2>7, <2>8, <2>9, <2>10
<1>3. ASSUME NEW i \in Instances, Die(i) PROVE KeysInv'
  <2> DEFINE cut == {r \in Requests :
                request[r] # None /\ request[r].on = i /\ request[r].at \in Stages}
  <2>1. /\ ttl' = ttl /\ hurt' = hurt \cup UNION {Unstamped(r) : r \in cut}
        /\ cache' = cache /\ counter' = counter
        /\ \A r \in Requests \ cut : request'[r] = request[r]
    BY <1>3 DEF Die, Raises, geoVars, limitVars
  <2>2. \A ip : Owed(ip, "stamping") => Owed(ip, "stamping")' \/ GeoKey(ip) \in hurt'
    BY <2>1, UnstampedIs DEF Owed, At
  <2>3. \A ip : Owed(ip, "opening") => Owed(ip, "opening")' \/ LimitKey(ip) \in hurt'
    BY <2>1, UnstampedIs DEF Owed, At
  <2> QED BY <2>1, <2>2, <2>3 DEF KeysInv
<1>4. ASSUME Elapse PROVE KeysInv'
  <2>1. request' = request
    BY <1>4 DEF Elapse, CacheExpires, WindowCloses, CodeExpires, Expires
  <2>2. \A o, stage : Owed(o, stage)' <=> Owed(o, stage)
    BY <2>1 DEF Owed, At
  <2>3. ASSUME NEW ip \in Addresses, CacheExpires(ip), UNCHANGED limitVars PROVE KeysInv'
    <3>1. /\ cache' = [cache EXCEPT ![ip] = None] /\ counter' = counter
          /\ ttl' = ttl \ {GeoKey(ip)} /\ hurt' = hurt \ {GeoKey(ip)}
      BY <2>3 DEF CacheExpires, Expires, limitVars
    <3> QED BY <2>2, <3>1, KeysDiffer DEF KeysInv
  <2>4. ASSUME NEW ip \in Addresses, WindowCloses(ip), UNCHANGED geoVars PROVE KeysInv'
    <3>1. /\ counter' = [counter EXCEPT ![ip] = 0] /\ cache' = cache
          /\ ttl' = ttl \ {LimitKey(ip)} /\ hurt' = hurt \ {LimitKey(ip)}
      BY <2>4 DEF WindowCloses, Expires, geoVars
    <3> QED BY <2>2, <3>1, KeysDiffer DEF KeysInv
  <2>5. CASE \E code \in Requests : CodeExpires(code) /\ UNCHANGED <<geoVars, limitVars>>
    BY <2>2, <2>5 DEF CodeExpires, KeysInv, geoVars, limitVars
  <2> QED BY <1>4, <2>3, <2>4, <2>5 DEF Elapse
<1>5. CASE UNCHANGED vars
  BY <1>5 DEF vars, geoVars, limitVars, KeysInv, Owed, At
<1> QED BY <1>1, <1>2, <1>3, <1>4, <1>5 DEF Next

(* Every cached verdict and used-up limit has a time to live, or is about  *)
(* to, unless a failure touched it.                                        *)
THEOREM KeysGetExpiry == Spec => []KeysExpire
<1>1. Init => KeysInv
  BY DEF Init, GeoInit, LimitInit, KeysInv
<1>2. TypeOK /\ KeysInv /\ [Next]_vars => KeysInv'
  BY KeysStep
<1> QED BY <1>1, <1>2, TypeCorrect, KeysInvSuffices, PTL DEF Spec
----------------------------------------------------------------------------
(* The rate limit.  The requests the window has let in, or is about to     *)
(* when it is opened, are as many as the counter says up to the limit, or  *)
(* fewer if a command failed, or up to as many more as exchanges have      *)
(* removed the counter; one request at most opens a window, which has no   *)
(* time to live until it has, but for those whose counter was removed.     *)
Entered(ip) == allowed[ip] \cup Opening(ip)
Within(ip) == IF counter[ip] <= Limit THEN counter[ip] ELSE Limit
Extra(ip) == Limit * taken[ip]
Stamped(ip) == IF LimitKey(ip) \in ttl THEN 1 ELSE 0
Counting(ip) == IF counter[ip] > 0 THEN 1 ELSE 0
WindowInv(ip) ==
  /\ \A r \in allowed[ip] : At(r, "served")
  /\ Cardinality(Entered(ip)) <= Extra(ip) + Within(ip)
  /\ LimitKey(ip) \notin hurt =>
       /\ Cardinality(Entered(ip)) >= Within(ip)
       /\ excess[ip] # {} => Cardinality(Entered(ip)) >= Limit
  /\ Cardinality(Opening(ip)) + Stamped(ip) <= taken[ip] + Counting(ip)
LimitInv == \A ip \in Addresses : WindowInv(ip)

(* There are finitely many requests.                                       *)
LEMMA RequestsFinite == \A S \in SUBSET Requests : IsFiniteSet(S) /\ Cardinality(S) \in Nat
<1>1. IsFiniteSet(Requests)
  BY FS_Interval, RequestsAssumption DEF Requests
<1> QED BY <1>1, FS_Subset, FS_CardinalityType

(* Who has entered is a set of requests.                                   *)
LEMMA EnteredFinite ==
  ASSUME TypeOK, NEW ip \in Addresses
  PROVE  /\ allowed[ip] \subseteq Requests /\ Opening(ip) \subseteq Requests
         /\ Entered(ip) \subseteq Requests
         /\ IsFiniteSet(Entered(ip)) /\ Cardinality(Entered(ip)) \in Nat
         /\ IsFiniteSet(Opening(ip)) /\ Cardinality(Opening(ip)) \in Nat
         /\ counter[ip] \in Nat /\ taken[ip] \in Nat
BY RequestsFinite DEF TypeOK, LimitTypeOK, Entered, Opening

(* What each removal of the counter allows.                                *)
LEMMA ExtraIs ==
  ASSUME TypeOK, NEW ip \in Addresses
  PROVE  /\ Extra(ip) \in Nat /\ taken[ip] <= Extra(ip)
         /\ Limit * (1 + taken[ip]) = Extra(ip) + Limit
         /\ Within(ip) \in Nat /\ Within(ip) <= Limit /\ Limit \in Nat \ {0}
<1>1. taken[ip] \in Nat /\ counter[ip] \in Nat /\ Limit \in Nat \ {0}
  BY EnteredFinite, LimitAssumption
<1>2. \A n \in Nat, k \in Nat \ {0} : k * n \in Nat /\ n <= k * n /\ k * (1 + n) = k * n + k
  OBVIOUS
<1> QED BY <1>1, <1>2 DEF Extra, Within

(* LimitInv says what LimitHolds does.                                     *)
LEMMA LimitInvSuffices == TypeOK /\ LimitInv => LimitHolds
<1> SUFFICES ASSUME TypeOK, LimitInv, NEW ip \in Addresses
             PROVE  /\ Cardinality(allowed[ip]) <= Limit * (1 + taken[ip])
                    /\ excess[ip] # {} /\ LimitKey(ip) \notin hurt =>
                         Cardinality(allowed[ip] \cup Opening(ip)) >= Limit
  BY DEF LimitHolds
<1>1. IsFiniteSet(Entered(ip)) /\ Cardinality(Entered(ip)) \in Nat
  BY EnteredFinite
<1>2. allowed[ip] \subseteq Entered(ip)
  BY DEF Entered
<1>3. Cardinality(allowed[ip]) \in Nat /\ Cardinality(allowed[ip]) <= Cardinality(Entered(ip))
  BY <1>1, <1>2, FS_Subset, FS_CardinalityType
<1>4. WindowInv(ip)
  BY DEF LimitInv
<1> QED BY <1>1, <1>3, <1>4, ExtraIs DEF WindowInv, Entered

(* No request opens a window, and none has been let in, at the beginning.  *)
LEMMA LimitStart == Init => LimitInv
<1> SUFFICES ASSUME Init, NEW ip \in Addresses PROVE WindowInv(ip)
  BY DEF LimitInv
<1>1. /\ allowed[ip] = {} /\ Opening(ip) = {} /\ counter[ip] = 0 /\ excess[ip] = {}
      /\ ttl = {} /\ taken[ip] = 0
  BY DEF Init, LimitInit, RequestsInit, Opening, At
<1>2. Entered(ip) = {} /\ Cardinality(Entered(ip)) = 0
  BY <1>1, FS_EmptySet DEF Entered
<1>3. Cardinality(Opening(ip)) = 0 /\ Within(ip) = 0 /\ Extra(ip) = 0
  BY <1>1, FS_EmptySet, LimitAssumption DEF Within, Extra
<1> QED BY <1>1, <1>2, <1>3 DEF WindowInv, Stamped, Counting

(* A window that a step leaves alone, but for marks of failure.            *)
LEMMA WindowStays ==
  ASSUME NEW ip \in Addresses, WindowInv(ip),
         allowed'[ip] = allowed[ip], excess'[ip] = excess[ip], counter'[ip] = counter[ip],
         taken'[ip] = taken[ip], Opening(ip)' = Opening(ip),
         LimitKey(ip) \in ttl' <=> LimitKey(ip) \in ttl,
         LimitKey(ip) \in hurt => LimitKey(ip) \in hurt',
         \A r \in allowed[ip] : At(r, "served")'
  PROVE  WindowInv(ip)'
<1>1. Entered(ip)' = Entered(ip)
  BY DEF Entered
<1>2. /\ Within(ip)' = Within(ip) /\ Extra(ip)' = Extra(ip)
      /\ Stamped(ip)' = Stamped(ip) /\ Counting(ip)' = Counting(ip)
  BY DEF Within, Extra, Stamped, Counting
<1> QED BY <1>1, <1>2 DEF WindowInv

(* A request's step changes who opens its own address's window alone, and  *)
(* by that request; those already let in stay so.                          *)
LEMMA OpeningMoves ==
  ASSUME TypeOK, LimitInv, NEW r \in Requests, Handle(r), NEW ip \in Addresses
  PROVE  /\ ip # request[r].ip => Opening(ip)' = Opening(ip)
         /\ request[r].at # "opening" /\ request'[r].at # "opening" => Opening(ip)' = Opening(ip)
         /\ ip = request[r].ip =>
              Opening(ip)' = (Opening(ip) \ {r})
                               \cup (IF request'[r].at = "opening" THEN {r} ELSE {})
         /\ r \notin allowed[ip]
         /\ \A o \in allowed[ip] : At(o, "served")'
<1>1. /\ request[r] # None /\ request'[r] # None /\ request'[r].ip = request[r].ip
      /\ \A o \in Requests \ {r} : request'[o] = request[o]
  BY HandleKeeps, HandleBecomes DEF TypeOK, RequestsTypeOK
<1>2. request[r].at # "served"
  BY DEF Handle, Geofencing, FindCached, AskProviders, CacheResult, ExpireResult, Limiting,
         Hit, OpenWindow, TakeCounter, Coding, StoreCode, FaceitRefuses, ConsumeCode, PopCode, At
<1>3. r \notin allowed[ip]
  BY <1>2 DEF LimitInv, WindowInv, At
<1>4. \A o \in allowed[ip] : At(o, "served")'
  BY <1>1, <1>3, EnteredFinite DEF LimitInv, WindowInv, At
<1> QED BY <1>1, <1>3, <1>4 DEF Opening, At

(* A hit by a request that is not let in before leaves its window true.    *)
LEMMA HitStep ==
  ASSUME TypeOK, LimitInv, NEW r \in Requests, Handle(r), Hit(r),
         NEW ip \in Addresses, ip = request[r].ip
  PROVE  WindowInv(ip)'
<1> DEFINE n == counter[ip]
<1>1. request[r] # None /\ ip \in Addresses /\ request[r].at = "limiting"
  BY HandleBecomes DEF TypeOK, RequestsTypeOK, RequestType, Hit, At
<1>2. /\ counter \in [Addresses -> Nat] /\ allowed \in [Addresses -> SUBSET Requests]
      /\ excess \in [Addresses -> SUBSET Requests]
      /\ n \in Nat /\ Limit \in Nat \ {0}
  BY <1>1, LimitAssumption DEF TypeOK, LimitTypeOK
<1>3. /\ IsFiniteSet(Entered(ip)) /\ Cardinality(Entered(ip)) \in Nat
      /\ allowed[ip] \subseteq Requests
  BY <1>1, EnteredFinite
<1>4. WindowInv(ip)
  BY <1>1 DEF LimitInv
<1>5. \A stage \in Stages \cup Over : Become(r, stage) => request'[r].at = stage
  BY <1>1, BecomesStage DEF TypeOK, RequestsTypeOK
<1>6. /\ Opening(ip)' = Opening(ip) \cup (IF request'[r].at = "opening" THEN {r} ELSE {})
      /\ r \notin Opening(ip) /\ r \notin allowed[ip]
      /\ \A o \in allowed[ip] : At(o, "served")'
  BY <1>1, OpeningMoves DEF Opening, At
<1>7. r \notin Entered(ip)
  BY <1>6 DEF Entered
<1>8. Cardinality(Entered(ip) \cup {r}) = Cardinality(Entered(ip)) + 1
  BY <1>3, <1>7, FS_AddElement
<1>9. At(r, "served")' <=> request'[r].at = "served"
  <2>1. request'[r] # None
    BY HandleKeeps DEF TypeOK, RequestsTypeOK
  <2> QED BY <2>1 DEF At
<1>10. ttl' = ttl /\ hurt \subseteq hurt'
  BY DEF Hit, Answers, Raises
<1>11. CASE /\ request'[r].at # "opening" /\ UNCHANGED limitVars
  <2>1. Opening(ip)' = Opening(ip)
    BY <1>6, <1>11
  <2> QED BY <1>1, <1>4, <1>6, <1>10, <1>11, <2>1, WindowStays DEF limitVars
<1>15. ASSUME taken' = taken
       PROVE  /\ Extra(ip)' = Extra(ip) /\ Stamped(ip)' = Stamped(ip)
              /\ taken'[ip] = taken[ip] /\ taken[ip] \in Nat /\ Extra(ip) \in Nat
              /\ Within(ip) \in Nat /\ Within(ip) <= Limit
              /\ Stamped(ip) \in {0, 1} /\ Counting(ip) \in {0, 1}
  BY <1>1, <1>10, <1>15, EnteredFinite, ExtraIs DEF Extra, Stamped, Counting
<1>16. Cardinality(Opening(ip)) \in Nat
  BY <1>1, EnteredFinite
<1>12. CASE /\ counter' = [counter EXCEPT ![ip] = n + 1] /\ hurt' = hurt /\ taken' = taken
            /\ FirstHit(n + 1) /\ request'[r].at = "opening" /\ UNCHANGED <<allowed, excess>>
  <2>1. n = 0 /\ counter'[ip] = 1
    BY <1>1, <1>2, <1>12 DEF FirstHit
  <2>2. /\ Within(ip) = 0 /\ Within(ip)' = 1 /\ Counting(ip) = 0 /\ Counting(ip)' = 1
    BY <1>2, <2>1 DEF Within, Counting
  <2>3. Opening(ip)' = Opening(ip) \cup {r} /\ Entered(ip)' = Entered(ip) \cup {r}
    BY <1>6, <1>12 DEF Entered
  <2>4. Cardinality(Entered(ip))' = Cardinality(Entered(ip)) + 1
    BY <1>8, <2>3
  <2>5. Cardinality(Opening(ip))' = Cardinality(Opening(ip)) + 1
    <3>1. IsFiniteSet(Opening(ip))
      BY <1>1, EnteredFinite
    <3> QED BY <1>6, <2>3, <3>1, FS_AddElement
  <2>6. /\ Cardinality(Entered(ip))' <= Extra(ip)' + Within(ip)'
        /\ Cardinality(Opening(ip))' + Stamped(ip)' <= taken'[ip] + Counting(ip)'
    BY <1>3, <1>4, <1>12, <1>15, <1>16, <2>2, <2>4, <2>5 DEF WindowInv
  <2>7. LimitKey(ip) \notin hurt' =>
          /\ Cardinality(Entered(ip))' >= Within(ip)'
          /\ excess'[ip] # {} => Cardinality(Entered(ip))' >= Limit
    BY <1>2, <1>3, <1>4, <1>12, <1>15, <2>2, <2>4 DEF WindowInv
  <2> QED BY <1>6, <1>12, <2>6, <2>7 DEF WindowInv
<1>13. CASE /\ counter' = [counter EXCEPT ![ip] = n + 1] /\ hurt' = hurt /\ taken' = taken
            /\ ~FirstHit(n + 1) /\ Decide(r, n + 1)
  <2>1. n > 0 /\ counter'[ip] = n + 1
    BY <1>1, <1>2, <1>13 DEF FirstHit
  <2>2. Counting(ip)' = Counting(ip)
    BY <1>2, <2>1 DEF Counting
  <2>3. CASE n + 1 <= Limit
    <3>1. /\ request'[r].at = "served" /\ allowed' = [allowed EXCEPT ![ip] = @ \cup {r}]
          /\ excess' = excess
      BY <1>5, <1>13, <2>3 DEF Decide, WithinLimit, Serve
    <3>2. allowed'[ip] = allowed[ip] \cup {r} /\ Opening(ip)' = Opening(ip)
      BY <1>1, <1>2, <1>6, <3>1
    <3>3. Entered(ip)' = Entered(ip) \cup {r}
      BY <3>2 DEF Entered
    <3>4. Cardinality(Entered(ip))' = Cardinality(Entered(ip)) + 1
      BY <1>8, <3>3
    <3>5. Within(ip)' = Within(ip) + 1
      BY <1>2, <2>1, <2>3 DEF Within
    <3>6. /\ Cardinality(Entered(ip))' <= Extra(ip)' + Within(ip)'
          /\ LimitKey(ip) \notin hurt' =>
               /\ Cardinality(Entered(ip))' >= Within(ip)'
               /\ excess'[ip] # {} => Cardinality(Entered(ip))' >= Limit
      BY <1>2, <1>3, <1>4, <1>13, <1>15, <3>1, <3>4, <3>5 DEF WindowInv
    <3>7. Cardinality(Opening(ip))' + Stamped(ip)' <= taken'[ip] + Counting(ip)'
      BY <1>4, <1>13, <1>15, <2>2, <3>2 DEF WindowInv
    <3> QED BY <1>6, <1>9, <3>1, <3>2, <3>6, <3>7 DEF WindowInv
  <2>4. CASE n + 1 > Limit
    <3>1. /\ request'[r].at = "failed" /\ excess' = [excess EXCEPT ![ip] = @ \cup {r}]
          /\ allowed' = allowed
      BY <1>2, <1>5, <1>13, <2>4 DEF Decide, WithinLimit
    <3>2. Opening(ip)' = Opening(ip) /\ Entered(ip)' = Entered(ip)
      BY <1>6, <3>1 DEF Entered
    <3>3. Within(ip)' = Within(ip) /\ Within(ip) = Limit
      BY <1>2, <2>1, <2>4 DEF Within
    <3> QED BY <1>3, <1>4, <1>6, <1>13, <1>15, <2>2, <3>1, <3>2, <3>3 DEF WindowInv
  <2> QED BY <1>2, <2>3, <2>4
<1>14. CASE /\ counter' \in {counter, [counter EXCEPT ![ip] = n + 1]} /\ taken' = taken
            /\ LimitKey(ip) \in hurt' /\ request'[r].at = "served"
            /\ UNCHANGED <<allowed, excess>>
  <2>1. counter'[ip] \in Nat /\ counter'[ip] >= n
    BY <1>1, <1>2, <1>14
  <2>2. Opening(ip)' = Opening(ip) /\ Entered(ip)' = Entered(ip)
    BY <1>6, <1>14 DEF Entered
  <2>3. /\ Within(ip)' >= Within(ip) /\ Counting(ip)' >= Counting(ip)
        /\ Within(ip)' \in Nat /\ Counting(ip)' \in {0, 1}
    BY <1>2, <2>1 DEF Within, Counting
  <2> QED BY <1>3, <1>4, <1>6, <1>14, <1>15, <1>16, <2>2, <2>3 DEF WindowInv
<1> QED BY <1>5, <1>11, <1>12, <1>13, <1>14 DEF Hit, Answers, Raises, Serve

(* Opening a window keeps it true: its opener is let in, or has failed.    *)
LEMMA OpenStep ==
  ASSUME TypeOK, LimitInv, NEW r \in Requests, Handle(r), OpenWindow(r),
         NEW ip \in Addresses, ip = request[r].ip
  PROVE  WindowInv(ip)'
<1>1. request[r] # None /\ ip \in Addresses /\ request[r].at = "opening"
  BY HandleBecomes DEF TypeOK, RequestsTypeOK, RequestType, OpenWindow, At
<1>2. /\ allowed \in [Addresses -> SUBSET Requests] /\ counter[ip] \in Nat
      /\ Limit \in Nat \ {0}
  BY <1>1, LimitAssumption DEF TypeOK, LimitTypeOK
<1>3. /\ IsFiniteSet(Entered(ip)) /\ Cardinality(Entered(ip)) \in Nat
      /\ allowed[ip] \subseteq Requests
  BY <1>1, EnteredFinite
<1>4. WindowInv(ip)
  BY <1>1 DEF LimitInv
<1>5. \A stage \in Stages \cup Over : Become(r, stage) => request'[r].at = stage
  BY <1>1, BecomesStage DEF TypeOK, RequestsTypeOK
<1>6. r \in Opening(ip)
  BY <1>1 DEF Opening, At
<1>7. Decide(r, 1) => /\ allowed' = [allowed EXCEPT ![ip] = @ \cup {r}] /\ excess' = excess
                      /\ request'[r].at = "served"
  BY <1>2, <1>5 DEF Decide, WithinLimit, Serve
<1>8. /\ request'[r].at = "served" /\ counter' = counter /\ excess' = excess /\ taken' = taken
      /\ ttl' \in {ttl, IF counter[ip] > 0 THEN ttl \cup {LimitKey(ip)} ELSE ttl}
  BY <1>1, <1>5, <1>7 DEF OpenWindow, Serve, SetExpiry
<1>9. /\ Opening(ip)' = Opening(ip) \ {r} /\ r \notin allowed[ip]
      /\ \A o \in allowed[ip] : At(o, "served")'
  BY <1>1, <1>8, OpeningMoves
<1>10. At(r, "served")'
  <2>1. request'[r] # None
    BY HandleKeeps DEF TypeOK, RequestsTypeOK
  <2> QED BY <1>8, <2>1 DEF At
<1>11. /\ Within(ip)' = Within(ip) /\ Extra(ip)' = Extra(ip) /\ Counting(ip)' = Counting(ip)
       /\ Extra(ip) \in Nat /\ Within(ip) \in Nat
  BY <1>1, <1>8, ExtraIs DEF Within, Extra, Counting
<1>12. Cardinality(Opening(ip))' + Stamped(ip)' <= taken'[ip] + Counting(ip)'
  <2>1. Cardinality(Opening(ip))' = Cardinality(Opening(ip)) - 1 /\ Cardinality(Opening(ip)) \in Nat
    BY <1>1, <1>6, <1>9, EnteredFinite, FS_RemoveElement
  <2>2. Stamped(ip)' <= Stamped(ip) + 1 /\ Stamped(ip) \in {0, 1} /\ Stamped(ip)' \in {0, 1}
    BY DEF Stamped
  <2>3. taken[ip] \in Nat /\ Counting(ip) \in {0, 1}
    BY <1>1, EnteredFinite DEF Counting
  <2> QED BY <1>4, <1>8, <1>11, <2>1, <2>2, <2>3 DEF WindowInv
<1>13. CASE Answers /\ Decide(r, 1)
  <2>1. allowed'[ip] = allowed[ip] \cup {r}
    BY <1>1, <1>2, <1>7, <1>13
  <2>2. Entered(ip)' = Entered(ip)
    BY <1>6, <1>9, <2>1 DEF Entered
  <2> QED BY <1>4, <1>8, <1>9, <1>10, <1>11, <1>12, <1>13, <2>1, <2>2 DEF WindowInv, Answers
<1>14. CASE Raises({LimitKey(ip)}) /\ UNCHANGED <<allowed, excess>>
  <2>1. LimitKey(ip) \in hurt' /\ allowed'[ip] = allowed[ip]
    BY <1>14 DEF Raises
  <2>2. Entered(ip)' \subseteq Entered(ip)
    BY <1>9, <2>1 DEF Entered
  <2>3. /\ Cardinality(Entered(ip))' \in Nat
        /\ Cardinality(Entered(ip))' <= Cardinality(Entered(ip))
    BY <1>3, <2>2, FS_Subset, FS_CardinalityType
  <2> QED BY <1>3, <1>4, <1>8, <1>9, <1>11, <1>12, <2>1, <2>3 DEF WindowInv
<1> QED BY <1>13, <1>14 DEF OpenWindow

(* Removing the counter makes room for as many again.                      *)
LEMMA TakeStep ==
  ASSUME TypeOK, LimitInv, NEW r \in Requests, Handle(r), TakeCounter(r),
         NEW ip \in Addresses
  PROVE  WindowInv(ip)'
<1>1. request[r] # None /\ request[r].at = "consuming"
  BY HandleBecomes DEF TypeOK, RequestsTypeOK, TakeCounter, At
<1>2. \A stage \in Stages \cup Over : Become(r, stage) => request'[r].at = stage
  BY <1>1, BecomesStage DEF TypeOK, RequestsTypeOK
<1>3. /\ Opening(ip)' = Opening(ip) /\ \A o \in allowed[ip] : At(o, "served")'
  BY <1>1, <1>2, OpeningMoves DEF TakeCounter
<1>4. WindowInv(ip)
  BY DEF LimitInv
<1>5. hurt \subseteq hurt' /\ UNCHANGED <<allowed, excess>>
  BY DEF TakeCounter, Answers, Raises
<1>6. CASE UNCHANGED <<counter, taken, ttl>>
  BY <1>3, <1>4, <1>5, <1>6, WindowStays
<1>7. ASSUME NEW o \in Addresses, counter[o] > 0, counter' = [counter EXCEPT ![o] = 0],
             taken' = [taken EXCEPT ![o] = @ + 1], ttl' = ttl \ {LimitKey(o)}
      PROVE  WindowInv(ip)'
  <2>1. CASE o # ip
    <3>1. /\ counter'[ip] = counter[ip] /\ taken'[ip] = taken[ip]
          /\ LimitKey(ip) \in ttl' <=> LimitKey(ip) \in ttl
      BY <1>7, <2>1, KeysDiffer
    <3> QED BY <1>3, <1>4, <1>5, <3>1, WindowStays
  <2>2. CASE o = ip
    <3>1. /\ counter'[ip] = 0 /\ taken'[ip] = taken[ip] + 1 /\ LimitKey(ip) \notin ttl'
      BY <1>7, <2>2 DEF TypeOK, LimitTypeOK
    <3>2. /\ Within(ip)' = 0 /\ Counting(ip)' = 0 /\ Counting(ip) = 1 /\ Stamped(ip)' = 0
          /\ Stamped(ip) \in {0, 1} /\ Within(ip) \in Nat /\ Within(ip) <= Limit
      BY <1>7, <2>2, <3>1, ExtraIs DEF Within, Counting, Stamped
    <3>3. Extra(ip)' = Extra(ip) + Limit /\ Extra(ip) \in Nat /\ Limit \in Nat
      BY <3>1, ExtraIs, EnteredFinite DEF Extra
    <3>4. Entered(ip)' = Entered(ip) /\ Cardinality(Entered(ip)) \in Nat
          /\ Cardinality(Opening(ip)) \in Nat /\ taken[ip] \in Nat
      BY <1>3, <1>5, EnteredFinite DEF Entered
    <3>5. /\ Cardinality(Entered(ip))' <= Extra(ip)' + Within(ip)'
          /\ Cardinality(Opening(ip))' + Stamped(ip)' <= taken'[ip] + Counting(ip)'
      BY <1>3, <1>4, <3>1, <3>2, <3>3, <3>4 DEF WindowInv
    <3> QED BY <1>3, <1>4, <1>5, <3>2, <3>4, <3>5 DEF WindowInv
  <2> QED BY <2>1, <2>2
<1> QED BY <1>6, <1>7 DEF TakeCounter

(* Every step keeps LimitInv.                                              *)
LEMMA LimitStep ==
  ASSUME TypeOK, LimitInv, [Next]_vars
  PROVE  LimitInv'
<1> USE DEF TypeOK, RequestsTypeOK, LimitTypeOK
<1> SUFFICES ASSUME NEW ip \in Addresses PROVE WindowInv(ip)'
  BY DEF LimitInv
<1>0. WindowInv(ip) /\ allowed[ip] \subseteq Requests
  BY DEF LimitInv
<1>1. ASSUME NEW r \in Requests, Arrive(r) PROVE WindowInv(ip)'
  <2>1. /\ request[r] = None /\ \A o \in Requests \ {r} : request'[o] = request[o]
        /\ ttl' = ttl /\ hurt' = hurt /\ UNCHANGED limitVars
        /\ request'[r].at # "opening"
    BY <1>1, HandlerStages DEF Arrive
  <2>2. Opening(ip)' = Opening(ip)
    BY <2>1 DEF Opening, At
  <2>3. \A o \in allowed[ip] : At(o, "served")'
    BY <1>0, <2>1 DEF WindowInv, At
  <2> QED BY <1>0, <2>1, <2>2, <2>3, WindowStays DEF limitVars
<1>2. ASSUME NEW r \in Requests, Handle(r) PROVE WindowInv(ip)'
  <2> DEFINE q == request[r]
  <2>1. /\ q # None /\ q.ip \in Addresses
        /\ \A o \in allowed[ip] : At(o, "served")'
    BY <1>2, HandleBecomes, OpeningMoves DEF RequestType
  <2>2. \A stage \in Stages \cup Over : Become(r, stage) => request'[r].at = stage
    BY <2>1, BecomesStage
  <2>3. CASE Geofencing(r) /\ UNCHANGED <<limitVars, codeVars>>
    <3>1. q.at # "opening" /\ request'[r].at # "opening"
      <4>1. LetThrough(r) => request'[r].at # "opening"
        BY <2>1, <2>2, HandlerStages DEF LetThrough, RequestType
      <4>2. \A g : Dispatch(r, g) => request'[r].at # "opening"
        BY <2>2, <4>1 DEF Dispatch
      <4>3. Crash(r) => request'[r].at # "opening"
        BY <2>2, <4>1 DEF Crash
      <4> QED BY <2>2, <2>3, <4>2, <4>3
              DEF Geofencing, FindCached, AskProviders, CacheResult, ExpireResult, At
    <3>2. /\ hurt \subseteq hurt'
          /\ LimitKey(ip) \in ttl' <=> LimitKey(ip) \in ttl
      BY <2>3, KeysDiffer
      DEF Geofencing, FindCached, AskProviders, CacheResult, ExpireResult, SetExpiry,
          Answers, Raises
    <3>3. Opening(ip)' = Opening(ip)
      BY <1>2, <3>1, OpeningMoves
    <3> QED BY <1>0, <2>1, <2>3, <3>2, <3>3, WindowStays DEF limitVars
  <2>4. CASE Coding(r) /\ UNCHANGED <<geoVars, limitVars>>
    <3>1. q.at # "opening" /\ request'[r].at # "opening"
      BY <2>2, <2>4 DEF Coding, StoreCode, FaceitRefuses, ConsumeCode, PopCode, At
    <3>2. hurt \subseteq hurt' /\ ttl' = ttl
      BY <2>4 DEF Coding, StoreCode, FaceitRefuses, ConsumeCode, PopCode, Answers, Raises
    <3>3. Opening(ip)' = Opening(ip)
      BY <1>2, <3>1, OpeningMoves
    <3> QED BY <1>0, <2>1, <2>4, <3>2, <3>3, WindowStays DEF limitVars
  <2>5. CASE (Hit(r) \/ OpenWindow(r)) /\ ip # q.ip
    <3>1. /\ allowed'[ip] = allowed[ip] /\ excess'[ip] = excess[ip]
          /\ counter'[ip] = counter[ip] /\ taken'[ip] = taken[ip] /\ hurt \subseteq hurt'
          /\ LimitKey(ip) \in ttl' <=> LimitKey(ip) \in ttl
      BY <2>5, KeysDiffer
      DEF Hit, OpenWindow, Decide, SetExpiry, Answers, Raises, limitVars
    <3>2. Opening(ip)' = Opening(ip)
      BY <1>2, <2>5, OpeningMoves
    <3> QED BY <1>0, <2>1, <3>1, <3>2, WindowStays
  <2>6. CASE (Hit(r) \/ OpenWindow(r)) /\ ip = q.ip
    BY <1>2, <2>6, HitStep, OpenStep
  <2>7. CASE TakeCounter(r)
    BY <1>2, <2>7, TakeStep
  <2> QED BY <1>2, <2>3, <2>4, <2>5, <2>6, <2>7 DEF Handle, Limiting
<1>3. ASSUME NEW i \in Instances, Die(i) PROVE WindowInv(ip)'
  <2>1. /\ ttl' = ttl /\ hurt \subseteq hurt' /\ UNCHANGED limitVars
    BY <1>3 DEF Die, Raises
  <2>2. Opening(ip)' \subseteq Opening(ip)
    BY <1>3, DieKeeps DEF Opening, At
  <2>3. \A o \in allowed[ip] : At(o, "served")'
    BY <1>0, <1>3, DieKeeps DEF WindowInv, At
  <2>4. CASE Opening(ip)' = Opening(ip)
    BY <1>0, <2>1, <2>3, <2>4, WindowStays DEF limitVars
  <2>5. CASE Opening(ip)' # Opening(ip)
    <3>1. PICK o \in Opening(ip) : o \notin Opening(ip)'
      BY <2>2, <2>5
    <3>2. /\ At(o, "opening") /\ request[o].ip = ip /\ o \in Requests
          /\ request'[o] # request[o]
      BY <3>1 DEF Opening, At
    <3>3. LimitKey(ip) \in hurt'
      BY <1>3, <3>2, UnstampedIs DEF Die, Raises
    <3>4. Entered(ip)' \subseteq Entered(ip)
      BY <2>1, <2>2 DEF Entered, limitVars
    <3>5. /\ Cardinality(Entered(ip)) \in Nat /\ Cardinality(Entered(ip))' \in Nat
          /\ Cardinality(Entered(ip))' <= Cardinality(Entered(ip)) /\ counter[ip] \in Nat
      BY <3>4, EnteredFinite, FS_Subset, FS_CardinalityType
    <3>6. /\ Within(ip)' = Within(ip) /\ Extra(ip)' = Extra(ip) /\ taken' = taken
          /\ Stamped(ip)' = Stamped(ip) /\ Counting(ip)' = Counting(ip)
          /\ Within(ip) \in Nat /\ Extra(ip) \in Nat /\ taken[ip] \in Nat
          /\ Stamped(ip) \in {0, 1} /\ Counting(ip) \in {0, 1}
      BY <2>1, ExtraIs, EnteredFinite DEF limitVars, Within, Extra, Stamped, Counting
    <3>7. /\ Cardinality(Opening(ip)) \in Nat /\ Cardinality(Opening(ip))' \in Nat
          /\ Cardinality(Opening(ip))' <= Cardinality(Opening(ip))
      BY <2>2, EnteredFinite, FS_Subset, FS_CardinalityType
    <3>8. /\ Cardinality(Entered(ip))' <= Extra(ip)' + Within(ip)'
          /\ Cardinality(Opening(ip))' + Stamped(ip)' <= taken'[ip] + Counting(ip)'
      BY <1>0, <3>5, <3>6, <3>7 DEF WindowInv
    <3> QED BY <2>1, <2>3, <3>3, <3>8 DEF WindowInv, limitVars
  <2> QED BY <2>4, <2>5
<1>4. ASSUME Elapse PROVE WindowInv(ip)'
  <2>1. request' = request
    BY <1>4 DEF Elapse, CacheExpires, WindowCloses, CodeExpires, Expires
  <2>2. Opening(ip)' = Opening(ip) /\ \A o : At(o, "served")' <=> At(o, "served")
    BY <2>1 DEF Opening, At
  <2>3. ASSUME /\ UNCHANGED limitVars
               /\ LimitKey(ip) \in ttl' <=> LimitKey(ip) \in ttl
               /\ LimitKey(ip) \in hurt' <=> LimitKey(ip) \in hurt
        PROVE  WindowInv(ip)'
    BY <1>0, <2>2, <2>3, WindowStays DEF WindowInv, limitVars
  <2>4. ASSUME NEW o \in Addresses, CacheExpires(o), UNCHANGED limitVars PROVE WindowInv(ip)'
    BY <2>3, <2>4, KeysDiffer DEF CacheExpires, Expires
  <2>5. ASSUME NEW o \in Addresses, WindowCloses(o) PROVE WindowInv(ip)'
    <3>1. CASE o = ip
      <4>1. /\ counter'[ip] = 0 /\ allowed'[ip] = {} /\ excess'[ip] = {} /\ taken' = taken
            /\ LimitKey(ip) \in ttl /\ LimitKey(ip) \notin ttl'
        BY <2>5, <3>1 DEF WindowCloses, Expires
      <4>2. /\ Entered(ip)' = Opening(ip) /\ Cardinality(Opening(ip)) \in Nat
            /\ taken[ip] \in Nat /\ taken[ip] <= Extra(ip) /\ Extra(ip) \in Nat
        BY <2>2, <4>1, ExtraIs, EnteredFinite DEF Entered
      <4>3. /\ Within(ip)' = 0 /\ Extra(ip)' = Extra(ip) /\ Stamped(ip) = 1 /\ Stamped(ip)' = 0
            /\ Counting(ip)' = 0 /\ Counting(ip) \in {0, 1}
        BY <4>1, ExtraIs DEF Within, Extra, Stamped, Counting
      <4>4. Cardinality(Opening(ip)) <= taken[ip]
        BY <1>0, <4>2, <4>3 DEF WindowInv
      <4> QED BY <2>2, <4>1, <4>2, <4>3, <4>4 DEF WindowInv
    <3>2. CASE o # ip
      <4>1. /\ counter'[ip] = counter[ip] /\ allowed'[ip] = allowed[ip]
            /\ excess'[ip] = excess[ip] /\ taken'[ip] = taken[ip]
            /\ LimitKey(ip) \in ttl' <=> LimitKey(ip) \in ttl
            /\ LimitKey(ip) \in hurt' <=> LimitKey(ip) \in hurt
        BY <2>5, <3>2, KeysDiffer DEF WindowCloses, Expires
      <4> QED BY <1>0, <2>2, <4>1, WindowStays DEF WindowInv
    <3> QED BY <3>1, <3>2
  <2>6. CASE \E code \in Requests : CodeExpires(code) /\ UNCHANGED <<geoVars, limitVars>>
    BY <2>3, <2>6 DEF CodeExpires
  <2> QED BY <1>4, <2>4, <2>5, <2>6 DEF Elapse
<1>5. CASE UNCHANGED vars
  <2>1. Opening(ip)' = Opening(ip) /\ \A o : At(o, "served")' <=> At(o, "served")
    BY <1>5 DEF vars, Opening, At
  <2> QED BY <1>0, <1>5, <2>1, WindowStays DEF vars, limitVars, WindowInv
<1> QED BY <1>1, <1>2, <1>3, <1>4, <1>5 DEF Next

(* The counter lets no more than the limit of a window's requests in, on   *)
(* whatever instances, but for as many again whenever an exchange removed  *)
(* it, and turns none away before that, unless a command on it failed.     *)
THEOREM LimitIsKept == Spec => []LimitHolds
<1>1. TypeOK /\ LimitInv /\ [Next]_vars => LimitInv'
  BY LimitStep
<1> QED BY <1>1, LimitStart, LimitInvSuffices, TypeCorrect, PTL DEF Spec
=============================================================================
