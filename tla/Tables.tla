------------------------------ MODULE Tables ------------------------------
(***************************************************************************)
(* The whole platform: users' wallets, parties and the tables they wager   *)
(* at.  This module adds services/match_service.py, one action per handler *)
(* between two commits: filling a table commits it LOCKED before FACEIT is *)
(* asked for the match, and the answer is committed later.                 *)
(***************************************************************************)
EXTENDS Parties

CONSTANTS
  TableIds,
  TeamSizes,         \* settings.allowed_team_sizes
  Wagers,            \* wagers users ask for, in cents
  MinWager, MaxWager

ASSUME TableAssumption ==
  /\ IsFiniteSet(TableIds) /\ TeamSizes \subseteq Nat \ {0} /\ Wagers \subseteq Nat
  /\ MinWager \in Nat \ {0} /\ MaxWager \in Nat

Teams == {"A", "B"}
Undecided == {"PENDING", "LOCKED", "LIVE"}
Statuses == {"NONE", "FINISHED", "CANCELLED"} \cup Undecided

VARIABLES
  status, size, wager, pot, rake, creator, winning,  \* columns of matches
  faceit,   \* its faceit_match_id: "none", being "asked" for, or "linked"
  seat      \* match_participants: seat[t][u] is u's row at t, or None

tableVars == <<status, size, wager, pot, rake, creator, winning, faceit, seat>>
vars == <<walletVars, partyVars, tableVars>>

Seats == [team : Teams, paid : Nat, party : PartyIds \cup {None}, split : Splits \cup {None}]

ASSUME SeatAssumption == None \notin Seats

TableTypeOK ==
  /\ status \in [TableIds -> Statuses]
  /\ size \in [TableIds -> TeamSizes \cup {0}]
  /\ wager \in [TableIds -> Nat]
  /\ pot \in [TableIds -> Nat]
  /\ rake \in [TableIds -> Nat]
  /\ creator \in [TableIds -> Users \cup {None}]
  /\ winning \in [TableIds -> Teams \cup {None}]
  /\ faceit \in [TableIds -> {"none", "asked", "linked"}]
  /\ seat \in [TableIds -> [Users -> Seats \cup {None}]]

TypeOK == WalletTypeOK /\ PartyTypeOK /\ TableTypeOK

Init ==
  /\ WalletInit
  /\ PartyInit
  /\ status = [t \in TableIds |-> "NONE"]
  /\ size = [t \in TableIds |-> 0]
  /\ wager = [t \in TableIds |-> 0]
  /\ pot = [t \in TableIds |-> 0]
  /\ rake = [t \in TableIds |-> 0]
  /\ creator = [t \in TableIds |-> None]
  /\ winning = [t \in TableIds |-> None]
  /\ faceit = [t \in TableIds |-> "none"]
  /\ seat = [t \in TableIds |-> [u \in Users |-> None]]

Seated(t) == {u \in Users : seat[t][u] # None}
Side(t, team) == {u \in Seated(t) : seat[t][u].team = team}
Room(t, team) == size[t] - Cardinality(Side(t, team))
Paid(t, u) == IF seat[t][u] = None THEN 0 ELSE seat[t][u].paid

----------------------------------------------------------------------------
(* Taking seats                                                            *)

(* A party of one plays from its member's own balance.                     *)
QueuesAsParty(u) == party[u] # None /\ Cardinality(Members(party[u])) >= 2
MayQueue(u) == QueuesAsParty(u) => Leads(u)
Group(u) == IF QueuesAsParty(u) THEN Members(party[u]) ELSE {u}

Sit(t, group, team, paidBy, p) ==
  seat' = [seat EXCEPT ![t] = [v \in Users |->
             IF v \in group
               THEN [team |-> team, paid |-> paidBy[v], party |-> p,
                     split |-> IF p = None THEN None ELSE split[p]]
               ELSE seat[t][v]]]

SeatSolo(t, u, team, w) ==
  /\ ~QueuesAsParty(u)
  /\ balance[u] >= w
  /\ balance' = [balance EXCEPT ![u] = @ - w]
  /\ Sit(t, {u}, team, [v \in {u} |-> w], None)
  /\ UNCHANGED <<pool, entitlement, logged>>

(* The pool pays for every seat, and each member's slice of that comes off *)
(* their entitlement and is what their seat counts as having funded.       *)
SeatParty_PerHead(t, u, team, w) ==
  LET p == party[u]
      group == Members(p)
      total == w * Cardinality(group)
  IN  /\ QueuesAsParty(u)
      /\ pool[p] >= total
      /\ \E share \in Allocations(total, [v \in group |-> entitlement[v]]) :
           /\ entitlement' = [v \in Users |->
                IF v \in group THEN entitlement[v] - share[v] ELSE entitlement[v]]
           /\ Sit(t, group, team, [v \in group |-> w], p)
      /\ pool' = [pool EXCEPT ![p] = @ - total]
      /\ logged' = logged \cup {p}
      /\ UNCHANGED balance
SeatParty(t, u, team, w) ==
  LET p == party[u]
      group == Members(p)
      total == w * Cardinality(group)
  IN  /\ QueuesAsParty(u)
      /\ pool[p] >= total
      /\ \E share \in Allocations(total, [v \in group |-> entitlement[v]]) :
           /\ entitlement' = [v \in Users |->
                IF v \in group THEN entitlement[v] - share[v] ELSE entitlement[v]]
           /\ Sit(t, group, team, share, p)
      /\ pool' = [pool EXCEPT ![p] = @ - total]
      /\ logged' = logged \cup {p}
      /\ UNCHANGED balance

OpenTable(t, u, w, n) ==
  /\ status[t] = "NONE"
  /\ n \in TeamSizes
  /\ MinWager <= w /\ w <= MaxWager
  /\ MayQueue(u)
  /\ Cardinality(Group(u)) <= n
  /\ SeatSolo(t, u, "A", w) \/ SeatParty(t, u, "A", w)
  /\ status' = [status EXCEPT ![t] = "PENDING"]
  /\ size' = [size EXCEPT ![t] = n]
  /\ wager' = [wager EXCEPT ![t] = w]
  /\ creator' = [creator EXCEPT ![t] = u]
  /\ UNCHANGED <<pot, rake, winning, faceit>>
  /\ UNCHANGED <<leader, split, lastParty, party>>
  /\ UNCHANGED <<principal, rollover, fees, custody, providerVars>>

(* Without a choice: the emptier side of those the group fits on, B first. *)
DefaultTeam(t, need) ==
  IF /\ Room(t, "B") >= need
     /\ Room(t, "B") >= Room(t, "A") \/ Room(t, "A") < need
    THEN "B" ELSE "A"

Fits_AnySide(t, team, need) == Room(t, "A") + Room(t, "B") >= need
Fits(t, team, need) == Room(t, team) >= need

Filled(t, team, need) ==
  \A x \in Teams : Room(t, x) = IF x = team THEN need ELSE 0

JoinTable(t, u, choice) ==
  LET need == Cardinality(Group(u))
      team == IF choice = None THEN DefaultTeam(t, need) ELSE choice
      full == 2 * size[t] * wager[t]
  IN  /\ status[t] = "PENDING"
      /\ MayQueue(u)
      /\ Group(u) \cap Seated(t) = {}
      /\ Fits(t, team, need)
      /\ SeatSolo(t, u, team, wager[t]) \/ SeatParty(t, u, team, wager[t])
      /\ IF Filled(t, team, need)
           THEN /\ status' = [status EXCEPT ![t] = "LOCKED"]
                /\ pot' = [pot EXCEPT ![t] = full]
                /\ rake' = [rake EXCEPT ![t] = Rake(full)]
                /\ faceit' = [faceit EXCEPT ![t] = "asked"]
           ELSE UNCHANGED <<status, pot, rake, faceit>>
      /\ UNCHANGED <<size, wager, creator, winning>>
      /\ UNCHANGED <<leader, split, lastParty, party>>
      /\ UNCHANGED <<principal, rollover, fees, custody, providerVars>>

(* The match id arrives, whatever has become of the table meanwhile; in    *)
(* demo mode it is made up on the spot.  When FACEIT refuses, or the call  *)
(* is never answered, the table stays as it is, without an id.             *)
FaceitCreated(t) ==
  /\ faceit[t] = "asked"
  /\ faceit' = [faceit EXCEPT ![t] = "linked"]
  /\ UNCHANGED <<status, size, wager, pot, rake, creator, winning, seat>>
  /\ UNCHANGED <<walletVars, partyVars>>

FaceitFailed(t) ==
  /\ ~DemoMode
  /\ faceit[t] = "asked"
  /\ faceit' = [faceit EXCEPT ![t] = "none"]
  /\ UNCHANGED <<status, size, wager, pot, rake, creator, winning, seat>>
  /\ UNCHANGED <<walletVars, partyVars>>

----------------------------------------------------------------------------
(* Giving seats up                                                         *)

(* A seat the pool funded goes back to the pool while the party and the    *)
(* player's place in it are still there, and to the player otherwise.      *)
ToPool(t, u) ==
  /\ seat[t][u].party # None
  /\ Exists(seat[t][u].party)
  /\ party[u] = seat[t][u].party

Pay(t, group, amount) ==
  LET pooled == {v \in group : ToPool(t, v)}
  IN  /\ balance' = [v \in Users |->
           IF v \in group \ pooled THEN balance[v] + amount[v] ELSE balance[v]]
      /\ entitlement' = [v \in Users |->
           IF v \in pooled THEN entitlement[v] + amount[v] ELSE entitlement[v]]
      /\ pool' = [p \in PartyIds |->
           pool[p] + SumOver(amount, {v \in pooled : seat[t][v].party = p})]
      /\ logged' = logged \cup {seat[t][v].party : v \in {x \in pooled : amount[x] > 0}}

(* _refund_seat, for each seat of the group *)
Refund(t, group) == Pay(t, group, [v \in group |-> Paid(t, v)])

(* cancel_and_refund: the seats stay on a cancelled table.                 *)
Cancel_NotMarked(t) ==
  /\ status[t] \in Undecided
  /\ Refund(t, Seated(t))
  /\ UNCHANGED <<status, size, wager, pot, rake, creator, winning, faceit, seat>>
  /\ UNCHANGED <<leader, split, lastParty, party>>
  /\ UNCHANGED <<principal, rollover, fees, custody, providerVars>>
Cancel(t) ==
  /\ status[t] \in Undecided
  /\ Refund(t, Seated(t))
  /\ status' = [status EXCEPT ![t] = "CANCELLED"]
  /\ UNCHANGED <<size, wager, pot, rake, creator, winning, faceit, seat>>
  /\ UNCHANGED <<leader, split, lastParty, party>>
  /\ UNCHANGED <<principal, rollover, fees, custody, providerVars>>

(* Who leaves with u: alone from a solo seat, and with every seat of the   *)
(* party from a party's.                                                   *)
Leaving_Self(t, u) == {u}
Leaving(t, u) ==
  IF seat[t][u].party = None THEN {u}
  ELSE {v \in Seated(t) : seat[t][v].party = seat[t][u].party}

GiveUpSeats(t, u) ==
  LET p == seat[t][u].party
  IN  /\ u \in Seated(t)
      /\ p # None /\ Exists(p) => leader[p] = u
      /\ Refund(t, Leaving(t, u))
      /\ seat' = [seat EXCEPT ![t] = [v \in Users |->
                    IF v \in Leaving(t, u) THEN None ELSE seat[t][v]]]
      /\ UNCHANGED <<status, size, wager, pot, rake, creator, winning, faceit>>
      /\ UNCHANGED <<leader, split, lastParty, party>>
      /\ UNCHANGED <<principal, rollover, fees, custody, providerVars>>

LeaveTable_CreatorToo(t, u) ==
  /\ status[t] = "PENDING"
  /\ GiveUpSeats(t, u)
LeaveTable(t, u) ==
  /\ status[t] = "PENDING"
  /\ IF creator[t] = u THEN Cancel(t) ELSE GiveUpSeats(t, u)

CancelTable(t, u) ==
  /\ u \in Seated(t)
  /\ Cancel(t)

----------------------------------------------------------------------------
(* The match, as FACEIT's webhook (or the demo's simulation) reports it    *)

MarkLive(t) ==
  /\ faceit[t] = "linked"
  /\ status[t] = "LOCKED"
  /\ status' = [status EXCEPT ![t] = "LIVE"]
  /\ UNCHANGED <<size, wager, pot, rake, creator, winning, faceit, seat>>
  /\ UNCHANGED <<walletVars, partyVars>>

FaceitCancels(t) ==
  /\ faceit[t] = "linked"
  /\ Cancel(t)

(* LEADER winnings go to the pool under the same terms as a refund, the    *)
(* others to the players; then every seat, losers' too, counts as wagered. *)
PayWinners(t, share) ==
  LET banked == {v \in DOMAIN share : seat[t][v].split = "LEADER" /\ ToPool(t, v)}
  IN  /\ balance' = [v \in Users |->
           IF v \in DOMAIN share \ banked THEN balance[v] + share[v] ELSE balance[v]]
      /\ entitlement' = [v \in Users |->
           IF v \in banked THEN entitlement[v] + share[v] ELSE entitlement[v]]
      /\ pool' = [p \in PartyIds |->
           pool[p] + SumOver(share, {v \in banked : seat[t][v].party = p})]
      /\ logged' = logged \cup {seat[t][v].party : v \in banked}

SettleFinished(t, winner) ==
  LET team == seat[t][winner].team
  IN  /\ faceit[t] = "linked"
      /\ status[t] \in {"LOCKED", "LIVE"}
      /\ winner \in Seated(t)
      /\ \E share \in Allocations(pot[t] - rake[t],
                                  [v \in Side(t, team) |-> seat[t][v].paid]) :
           PayWinners(t, share)
      /\ rollover' = [u \in Users |-> Burn(rollover[u], Paid(t, u))]
      /\ winning' = [winning EXCEPT ![t] = team]
      /\ status' = [status EXCEPT ![t] = "FINISHED"]
      /\ UNCHANGED <<size, wager, pot, rake, creator, faceit, seat>>
      /\ UNCHANGED <<leader, split, lastParty, party>>
      /\ UNCHANGED <<principal, fees, custody, providerVars>>

----------------------------------------------------------------------------
TableNext ==
  \E t \in TableIds :
    \/ \E u \in Users :
         \/ \E w \in Wagers, n \in TeamSizes : OpenTable(t, u, w, n)
         \/ \E choice \in Teams \cup {None} : JoinTable(t, u, choice)
         \/ LeaveTable(t, u)
         \/ CancelTable(t, u)
         \/ SettleFinished(t, u)
    \/ FaceitCreated(t)
    \/ FaceitFailed(t)
    \/ MarkLive(t)
    \/ FaceitCancels(t)

Next ==
  \/ TableNext
  \/ PartyNext /\ UNCHANGED tableVars
  \/ WalletNext /\ UNCHANGED <<partyVars, tableVars>>

Spec == Init /\ [][Next]_vars

----------------------------------------------------------------------------
AtStake(t, u) == IF status[t] \in Undecided THEN Paid(t, u) ELSE 0

Stakes == [t \in TableIds |-> [u \in Users |-> AtStake(t, u)]]
AllAtStake == SumOver([t \in TableIds |-> SumOver(Stakes[t], Users)], TableIds)

(* Not a cent appears or disappears: what the provider holds is the users' *)
(* balances and payouts on their way, the pools, the stakes on undecided   *)
(* tables, the fees and rakes the house has earned, and the payments that  *)
(* are not credited yet.  Every handler writes two or more of these.  The  *)
(* drift, which is nothing in demo mode, is what the wallet's handlers     *)
(* give away or keep (BooksBalance).                                       *)
MoneyConserved ==
  Claims + Uncredited + SumOver(pool, PartyIds) + AllAtStake
    + SumOver(rake, {t \in TableIds : status[t] = "FINISHED"}) = custody + drift

(* Each side of an undecided table has put up exactly one wager per seat,  *)
(* however unevenly a party funded it: "a table can never hold a seat      *)
(* whose stake was not taken", and a full table has its whole pot.         *)
SidesAreFunded ==
  \A t \in TableIds, team \in Teams :
    status[t] \in Undecided =>
      SumOver([u \in Users |-> Paid(t, u)], Side(t, team))
        = wager[t] * Cardinality(Side(t, team))

(* A table is locked exactly while every seat is taken, with the pot that  *)
(* those seats make; no seat is ever added to or lost from a locked table. *)
LockedMeansFull ==
  \A t \in TableIds :
    LET full == \A team \in Teams : Room(t, team) = 0
    IN  /\ \A team \in Teams : Room(t, team) >= 0
        /\ status[t] \in {"LOCKED", "LIVE", "FINISHED"} =>
             full /\ pot[t] = 2 * size[t] * wager[t]
        /\ status[t] = "PENDING" => ~full /\ pot[t] = 0

(* "Party seats move together": from the moment a party sits down at a     *)
(* table, its seats there stay the same ones, on the same side, until all  *)
(* of them are given up at once, whoever joins, leaves or is kicked from   *)
(* the party meanwhile.                                                    *)
PartySeats(t, p) == {<<u, seat[t][u].team>> : u \in {v \in Seated(t) : seat[t][v].party = p}}

PartySeatsMoveTogether ==
  [][\A t \in TableIds, p \in PartyIds :
       PartySeats(t, p) # {} => PartySeats(t, p)' \in {PartySeats(t, p), {}}]_vars

(* "Who opened the table. Always seated on team A": an open table always   *)
(* has somebody who can call it off.                                       *)
CreatorIsSeated ==
  \A t \in TableIds : status[t] = "PENDING" => creator[t] \in Side(t, "A")

(* "The leader leaving disbands": a leader can always get out of a party.  *)
LeaderCanDisband ==
  \A u \in Users : Leads(u) => ENABLED LeaveParty(u)

----------------------------------------------------------------------------
(* What each user owns, in whichever pocket it is.                         *)
HeldBy(u) ==
  balance[u] + entitlement[u] + SumOver([t \in TableIds |-> AtStake(t, u)], TableIds)

H == INSTANCE Holdings WITH
       holdings <- [u \in Users |-> HeldBy(u)],
       owed     <- rollover,
       leaving  <- [u \in Users |-> IF payout[u] = None THEN 0 ELSE payout[u].amount],
       since    <- [u \in Users |-> WrittenSince(u)],
       stake    <- Stakes

(* The platform implements Holdings: whatever parties, pools, seats and    *)
(* cancellations a user's money goes through, their holdings change only   *)
(* by their own deposits and withdrawals, by a leader's gift and by the    *)
(* result of a match, and what a deposit or a gift brought is not          *)
(* withdrawn before it has been wagered on tables that were decided.  What *)
(* a withdrawal's refund undoes is its own user's, and no more than was    *)
(* written to that balance in the meantime.                                *)
HoldingsKept == H!HSpec

=============================================================================
