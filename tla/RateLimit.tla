----------------------------- MODULE RateLimit -----------------------------
(***************************************************************************)
(* rate_limit_ok: a counter per address in Redis, shared by all instances, *)
(* whose first hit gives it a time to live.  Redis off or failing lets the *)
(* request in.                                                             *)
(***************************************************************************)
EXTENDS Requests

CONSTANT Limit

ASSUME LimitAssumption == Limit \in Nat \ {0}

VARIABLES
  counter,     \* ratelimit:auth-demo:ip; 0 when absent
  allowed,     \* requests of the window that the counter let in
  excess,      \* requests of the window that it turned away
  taken        \* history: how often an exchange has removed the counter

limitVars == <<counter, allowed, excess, taken>>

LimitTypeOK ==
  /\ counter \in [Addresses -> Nat]
  /\ allowed \in [Addresses -> SUBSET Requests]
  /\ excess \in [Addresses -> SUBSET Requests]
  /\ taken \in [Addresses -> Nat]

LimitInit ==
  /\ counter = [ip \in Addresses |-> 0]
  /\ allowed = [ip \in Addresses |-> {}]
  /\ excess = [ip \in Addresses |-> {}]
  /\ taken = [ip \in Addresses |-> 0]

FirstHit_Second(count) == count = 2
FirstHit(count) == count = 1

WithinLimit_OneMore(count) == count <= Limit + 1
WithinLimit(count) == count <= Limit

(* The guest is created and its token returned.                            *)
Serve(r) == Become(r, "served")

Decide(r, count) ==
  LET ip == request[r].ip
  IN  IF WithinLimit(count)
        THEN /\ Serve(r)
             /\ allowed' = [allowed EXCEPT ![ip] = @ \cup {r}]
             /\ UNCHANGED excess
        ELSE /\ Become(r, "failed")
             /\ excess' = [excess EXCEPT ![ip] = @ \cup {r}]
             /\ UNCHANGED allowed

Hit(r) ==
  LET ip == request[r].ip
      count == counter[ip] + 1
      counted == counter' = [counter EXCEPT ![ip] = count]
  IN  /\ At(r, "limiting")
      /\ \/ /\ ~config.redisEnabled
            /\ Serve(r) /\ Answers /\ UNCHANGED limitVars
         \/ /\ config.redisEnabled
            /\ Answers /\ counted
            /\ IF FirstHit(count)
                 THEN Become(r, "opening") /\ UNCHANGED <<allowed, excess>>
                 ELSE Decide(r, count)
         \/ /\ config.redisEnabled
            /\ Raises({LimitKey(ip)}) /\ (counted \/ UNCHANGED counter)
            /\ Serve(r) /\ UNCHANGED <<allowed, excess>>
      /\ UNCHANGED <<config, ttl, taken>>

(* The count of the first hit is 1, whatever has been counted since.       *)
OpenWindow(r) ==
  LET ip == request[r].ip
      stamped == SetExpiry(LimitKey(ip), counter[ip] > 0)
  IN  /\ At(r, "opening")
      /\ \/ Answers /\ stamped /\ Decide(r, 1)
         \/ /\ Raises({LimitKey(ip)}) /\ (stamped \/ UNCHANGED ttl)
            /\ Serve(r) /\ UNCHANGED <<allowed, excess>>
      /\ UNCHANGED <<config, counter, taken>>

WindowCloses(ip) ==
  /\ Expires(LimitKey(ip))
  /\ counter' = [counter EXCEPT ![ip] = 0]
  /\ allowed' = [allowed EXCEPT ![ip] = {}]
  /\ excess' = [excess EXCEPT ![ip] = {}]
  /\ UNCHANGED taken

(* The codes of log-ins share Redis's keys with the counters, and GETDEL   *)
(* takes the key it is given; a count is no token, and the exchange fails. *)
TakeCounter(r) ==
  \E ip \in Addresses :
    LET removed == /\ counter[ip] > 0
                   /\ counter' = [counter EXCEPT ![ip] = 0]
                   /\ taken' = [taken EXCEPT ![ip] = @ + 1]
                   /\ ttl' = ttl \ {LimitKey(ip)}
        kept == UNCHANGED <<counter, taken, ttl>>
    IN  /\ At(r, "consuming") /\ request[r].key = LimitKey(ip)
        /\ config.redisEnabled
        /\ \/ Answers /\ removed /\ Become(r, "failed")
           \/ Answers /\ counter[ip] = 0 /\ kept /\ Become(r, "popping")
           \/ Raises({}) /\ (removed \/ kept) /\ Become(r, "popping")
        /\ UNCHANGED <<config, allowed, excess>>

Limiting(r) == Hit(r) \/ OpenWindow(r) \/ TakeCounter(r)
=============================================================================
