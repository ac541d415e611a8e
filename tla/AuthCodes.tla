----------------------------- MODULE AuthCodes -----------------------------
(***************************************************************************)
(* A login's token waits under a one-time code for the page that exchanges *)
(* it: in Redis, or in the memory of one instance when Redis is off or     *)
(* fails.  Either way it waits for a minute at most.                       *)
(***************************************************************************)
EXTENDS Requests

VARIABLES
  stored,    \* codes in Redis
  memory,    \* per instance: the live codes of its _CODE_STORE
  strayed    \* history: codes whose SET raised, though Redis carried it out

codeVars == <<stored, memory, strayed>>

CodesTypeOK ==
  /\ stored \subseteq Requests
  /\ memory \in [Instances -> SUBSET Requests]
  /\ strayed \subseteq Requests

CodesInit ==
  /\ stored = {}
  /\ memory = [i \in Instances |-> {}]
  /\ strayed = {}

Remember(r) == memory' = [memory EXCEPT ![request[r].on] = @ \cup {r}]

(* A guest is created, or FACEIT has said who logs in.                     *)
StoreCode(r) ==
  /\ At(r, "storing")
  /\ \/ /\ config.redisEnabled
        /\ Answers /\ stored' = stored \cup {r} /\ UNCHANGED <<memory, strayed>>
     \/ /\ config.redisEnabled
        /\ Raises({}) /\ Remember(r)
        /\ \/ UNCHANGED <<stored, strayed>>
           \/ stored' = stored \cup {r} /\ strayed' = strayed \cup {r}
     \/ /\ ~config.redisEnabled
        /\ Answers /\ Remember(r) /\ UNCHANGED <<stored, strayed>>
  /\ Become(r, "served")
  /\ UNCHANGED <<config, ttl>>

(* FaceitError: no user, no code.                                          *)
FaceitRefuses(r) ==
  /\ At(r, "storing")
  /\ Become(r, "failed")
  /\ UNCHANGED <<config, ttl, hurt, faults, codeVars>>

Taken_ButKept(code) == stored
Taken(code) == stored \ {code}

(* GETDEL; whatever it does not find is looked up in memory.  For the key  *)
(* of a counter see TakeCounter.                                           *)
ConsumeCode(r) ==
  LET code == request[r].code
  IN  /\ At(r, "consuming")
      /\ request[r].key # None => ~config.redisEnabled
      /\ \/ /\ config.redisEnabled
            /\ Answers /\ stored' = Taken(code)
            /\ Become(r, IF code \in stored THEN "served" ELSE "popping")
         \/ /\ config.redisEnabled
            /\ Raises({}) /\ stored' \in {stored, Taken(code)}
            /\ Become(r, "popping")
         \/ /\ ~config.redisEnabled
            /\ Answers /\ Become(r, "popping") /\ UNCHANGED stored
      /\ UNCHANGED <<config, ttl, memory, strayed>>

PopCode(r) ==
  LET i == request[r].on
      code == request[r].code
  IN  /\ At(r, "popping")
      /\ Become(r, IF code \in memory[i] THEN "served" ELSE "failed")
      /\ memory' = [memory EXCEPT ![i] = @ \ {code}]
      /\ UNCHANGED <<config, ttl, hurt, faults, stored, strayed>>

(* A minute is over: Redis drops the code, an instance no longer gives it. *)
CodeExpires(code) ==
  /\ \/ /\ code \in stored
        /\ stored' = stored \ {code} /\ UNCHANGED memory
     \/ /\ \E i \in Instances :
             code \in memory[i] /\ memory' = [memory EXCEPT ![i] = @ \ {code}]
        /\ UNCHANGED stored
  /\ UNCHANGED <<config, request, ttl, hurt, faults, strayed>>

Coding(r) == StoreCode(r) \/ FaceitRefuses(r) \/ ConsumeCode(r) \/ PopCode(r)
=============================================================================
