------------------------------ MODULE Parties ------------------------------
(***************************************************************************)
(* Parties and their pooled balance: services/party_service.py, one action *)
(* per handler of routers/party.py.  A party pays for seats in Tables,     *)
(* which extends this module.                                              *)
(***************************************************************************)
EXTENDS Wallet

CONSTANTS
  MaxParties,     \* bound: party ids are 1 .. MaxParties
  MaxPartySize,   \* max_party_size(): the largest allowed format
  Sqlite          \* database: SQLite (the local demo), or else Postgres

PartyIds == 1 .. MaxParties
Splits == {"PROPORTIONAL", "LEADER"}

ASSUME PartyAssumption ==
  /\ MaxParties \in Nat /\ MaxPartySize \in Nat \ {0}
  /\ Sqlite \in BOOLEAN
  /\ None \notin PartyIds /\ None \notin Splits

VARIABLES
  leader,       \* leader_id of the parties row; None: no row with this id
  split,        \* its split_mode
  pool,         \* its pool_balance
  logged,       \* parties that a party_logs row refers to
  lastParty,    \* the last id Postgres' sequence handed out
  party,        \* per user: the party_id of their party_members row, or None
  entitlement   \* per user: the entitlement on that row

partyVars == <<leader, split, pool, logged, lastParty, party, entitlement>>

PartyTypeOK ==
  /\ leader \in [PartyIds -> Users \cup {None}]
  /\ split \in [PartyIds -> Splits]
  /\ pool \in [PartyIds -> Nat]
  /\ logged \subseteq PartyIds
  /\ lastParty \in 0 .. MaxParties
  /\ party \in [Users -> PartyIds \cup {None}]
  /\ entitlement \in [Users -> Nat]

PartyInit ==
  /\ leader = [p \in PartyIds |-> None]
  /\ split = [p \in PartyIds |-> "PROPORTIONAL"]
  /\ pool = [p \in PartyIds |-> 0]
  /\ logged = {}
  /\ lastParty = 0
  /\ party = [u \in Users |-> None]
  /\ entitlement = [u \in Users |-> 0]

Exists(p) == leader[p] # None
Members(p) == {u \in Users : party[u] = p}
Leads(u) == party[u] # None /\ leader[party[u]] = u

(* Postgres never hands an id out twice; SQLite's rowid is one more than   *)
(* the largest in the table, so the id of a deleted party can come back.   *)
NewPartyId ==
  IF Sqlite
    THEN LET ids == {p \in PartyIds : Exists(p)}
         IN  CHOOSE n \in 1 .. MaxParties + 1 :
               /\ \A p \in ids : p < n
               /\ n = 1 \/ n - 1 \in ids
    ELSE lastParty + 1

----------------------------------------------------------------------------
CreateParty(u) ==
  /\ party[u] = None
  /\ NewPartyId \in PartyIds
  /\ leader' = [leader EXCEPT ![NewPartyId] = u]
  /\ split' = [split EXCEPT ![NewPartyId] = "PROPORTIONAL"]
  /\ pool' = [pool EXCEPT ![NewPartyId] = 0]
  /\ lastParty' = NewPartyId
  /\ party' = [party EXCEPT ![u] = NewPartyId]
  /\ UNCHANGED <<logged, entitlement>>
  /\ UNCHANGED walletVars

JoinParty(u, p) ==
  /\ Exists(p)
  /\ party[u] = None
  /\ Cardinality(Members(p)) < MaxPartySize
  /\ party' = [party EXCEPT ![u] = p]
  /\ UNCHANGED <<leader, split, pool, logged, lastParty, entitlement>>
  /\ UNCHANGED walletVars

(* _reclaim_member for each of `gone`, and their rows deleted: everybody   *)
(* who goes takes their whole entitlement to their personal balance.       *)
Release_FromPoolEvenly(p, gone) ==
  /\ balance' = [u \in Users |->
                   IF u \in gone THEN balance[u] + pool[p] \div Cardinality(Members(p))
                                 ELSE balance[u]]
  /\ pool' = [pool EXCEPT ![p] =
                @ - Cardinality(gone) * (pool[p] \div Cardinality(Members(p)))]
  /\ logged' = IF \E u \in gone : entitlement[u] > 0 THEN logged \cup {p} ELSE logged
  /\ entitlement' = [u \in Users |-> IF u \in gone THEN 0 ELSE entitlement[u]]
  /\ party' = [u \in Users |-> IF u \in gone THEN None ELSE party[u]]
Release(p, gone) ==
  /\ balance' = [u \in Users |->
                   IF u \in gone THEN balance[u] + entitlement[u] ELSE balance[u]]
  /\ pool' = [pool EXCEPT ![p] = @ - SumOver(entitlement, gone)]
  /\ logged' = IF \E u \in gone : entitlement[u] > 0 THEN logged \cup {p} ELSE logged
  /\ entitlement' = [u \in Users |-> IF u \in gone THEN 0 ELSE entitlement[u]]
  /\ party' = [u \in Users |-> IF u \in gone THEN None ELSE party[u]]

(* The leader leaving disbands.  Postgres refuses to delete a party that a *)
(* log row (or a seat, which always comes with one) still refers to: the   *)
(* request fails and everything it did is rolled back.  Disbanding while   *)
(* some entitlement is left writes such a row itself.                      *)
Disband_LeaderOnly(u, p) ==
  /\ Release(p, {u})
  /\ Sqlite \/ p \notin logged'
  /\ leader' = [leader EXCEPT ![p] = None]
  /\ UNCHANGED <<split, lastParty>>
Disband(u, p) ==
  /\ Release(p, Members(p))
  /\ Sqlite \/ p \notin logged'
  /\ leader' = [leader EXCEPT ![p] = None]
  /\ UNCHANGED <<split, lastParty>>

LeaveParty(u) ==
  /\ party[u] # None
  /\ IF Leads(u)
       THEN Disband(u, party[u])
       ELSE /\ Release(party[u], {u})
            /\ UNCHANGED <<leader, split, lastParty>>
  /\ UNCHANGED <<principal, rollover, fees, custody, providerVars>>

Kick(u, target) ==
  /\ Leads(u)
  /\ target # u
  /\ party[target] = party[u]
  /\ Release(party[u], {target})
  /\ UNCHANGED <<leader, split, lastParty>>
  /\ UNCHANGED <<principal, rollover, fees, custody, providerVars>>

SetSplitMode(u, mode) ==
  /\ Leads(u)
  /\ split' = [split EXCEPT ![party[u]] = mode]
  /\ UNCHANGED <<leader, pool, logged, lastParty, party, entitlement>>
  /\ UNCHANGED walletVars

Contribute(u, a) ==
  /\ party[u] # None
  /\ balance[u] >= a
  /\ balance' = [balance EXCEPT ![u] = @ - a]
  /\ pool' = [pool EXCEPT ![party[u]] = @ + a]
  /\ entitlement' = [entitlement EXCEPT ![u] = @ + a]
  /\ logged' = logged \cup {party[u]}
  /\ UNCHANGED <<leader, split, lastParty, party>>
  /\ UNCHANGED <<principal, rollover, fees, custody, providerVars>>

MayReclaim_PoolCovers(u, a) == party[u] # None /\ a <= pool[party[u]]
MayReclaim(u, a) == party[u] # None /\ a <= entitlement[u]

Reclaim(u, a) ==
  /\ MayReclaim(u, a)
  /\ balance' = [balance EXCEPT ![u] = @ + a]
  /\ pool' = [pool EXCEPT ![party[u]] = @ - a]
  /\ entitlement' = [entitlement EXCEPT ![u] = @ - a]
  /\ logged' = logged \cup {party[u]}
  /\ UNCHANGED <<leader, split, lastParty, party>>
  /\ UNCHANGED <<principal, rollover, fees, custody, providerVars>>

(* What of `a` is the recipient's own; the rest is the leader's gift.      *)
OwnShare(u, a) == Lesser(entitlement[u], a)

GiftDebt_Forgiven(gift) == 0
GiftDebt(gift) == gift

Distribute(u, target, a) ==
  LET gift == a - OwnShare(target, a)
  IN  /\ Leads(u)
      /\ party[target] = party[u]
      /\ target = u => gift = 0
      /\ gift <= entitlement[u]
      /\ balance' = [balance EXCEPT ![target] = @ + a]
      /\ rollover' = [rollover EXCEPT ![target] = @ + GiftDebt(gift)]
      /\ entitlement' = [v \in Users |->
           entitlement[v] - (IF v = target THEN OwnShare(target, a) ELSE 0)
                          - (IF v = u THEN gift ELSE 0)]
      /\ pool' = [pool EXCEPT ![party[u]] = @ - a]
      /\ logged' = logged \cup {party[u]}
      /\ UNCHANGED <<leader, split, lastParty, party>>
      /\ UNCHANGED <<principal, fees, custody, providerVars>>

PartyNext ==
  \/ \E u \in Users :
       \/ CreateParty(u)
       \/ \E p \in PartyIds : JoinParty(u, p)
       \/ LeaveParty(u)
       \/ \E target \in Users : Kick(u, target)
       \/ \E mode \in Splits : SetSplitMode(u, mode)
       \/ \E a \in Amounts :
            \/ Contribute(u, a)
            \/ Reclaim(u, a)
            \/ \E target \in Users : Distribute(u, target, a)

----------------------------------------------------------------------------
(* "pool_balance == sum(entitlements) always", for every party, and a user *)
(* outside any party has no claim on a pool.                               *)
PoolIsEntitlements ==
  /\ \A p \in PartyIds : pool[p] = SumOver(entitlement, Members(p))
  /\ \A u \in Users : party[u] = None => entitlement[u] = 0

(* A party's leader is one of its members, nobody is a member of a party   *)
(* that is gone, and a party fits one side of some table.                  *)
PartiesAreWhole ==
  /\ \A p \in PartyIds : Exists(p) => party[leader[p]] = p
  /\ \A u \in Users : party[u] # None => Exists(party[u])
  /\ \A p \in PartyIds : Cardinality(Members(p)) <= MaxPartySize

=============================================================================
