--------------------------- MODULE PartySessions ---------------------------
(***************************************************************************)
(* The handlers of one party's money as the database sees them: sessions   *)
(* that run at once on the user rows, the member rows, the party row and   *)
(* the row of the table the party is seated at.  A session loads a row     *)
(* once, when a select first returns it; later selects, FOR UPDATE ones    *)
(* included, lock the row and leave the loaded copy as it is.  Whatever it *)
(* then writes is computed from that copy, column by column.               *)
(*                                                                         *)
(* A request is a plan, the selects its handler makes in their order, and  *)
(* a decision, which writes and commits.  Who is in the party is fixed     *)
(* here; Parties and Tables have it change.                                *)
(*                                                                         *)
(* Some selects come before their row's lock, and their copy may be        *)
(* overtaken: what a commit then overwrites is kept in a history variable, *)
(* and the properties say that nothing else is ever lost.                  *)
(***************************************************************************)
EXTENDS Money, Sequences

CONSTANTS
  Order,      \* the party's members, in the order of their rows and seats
  Leader,
  Sessions,   \* requests being served at once
  Amounts,    \* amounts users ask for, in cents
  Wager,      \* the stake of one seat
  MaxMoney,   \* bound: no deposit takes the party's users beyond this
  None

Users == Range(Order)

ASSUME PartySessionAssumption ==
  /\ Order \in Seq(Users) /\ IsFiniteSet(Users)
  /\ Leader \in Users
  /\ Amounts \subseteq Nat \ {0}
  /\ Wager \in Nat \ {0} /\ MaxMoney \in Nat
  /\ None \notin Users \cup Sessions \cup Int

(* The rows, each with the one amount that the handlers here compute: a    *)
(* balance, an entitlement, the pool; the match row has none.              *)
User(u) == <<"user", u>>
Member(u) == <<"member", u>>
Party == <<"party", None>>
Match == <<"match", None>>
UserRows == {User(u) : u \in Users}
MemberRows == {Member(u) : u \in Users}
Rows == UserRows \cup MemberRows \cup {Party, Match}

VARIABLES
  row,      \* what is committed
  seats,    \* what each member's seat was funded with, and the split mode; or None
  custody,  \* the money the party's users have brought in and won, less lost
  locked,   \* per row: the session that holds its lock, or None
  req,      \* per session: the request it serves, or None
  todo,     \* the selects still before its decision
  copy,     \* the amounts it has loaded, None where it has not
  lost      \* history: per row, what commits from early copies overwrote

money == <<row, seats, custody, lost>>
vars == <<row, seats, custody, locked, req, todo, copy, lost>>

Splits == {"PROPORTIONAL", "LEADER"}
Requests ==
  [op : {"contribute", "reclaim", "deposit", "credited"}, who : Users, amount : Amounts]
    \cup [op : {"distribute"}, who : Users, amount : Amounts]
    \cup [op : {"queue", "pull out", "aborted"}, who : {Leader}, amount : {Wager}]
    \cup [op : {"settle"}, who : {Leader}, amount : {Wager}, banked : BOOLEAN]

Seats == [share : [Users -> Nat], split : Splits]

ASSUME NoneAssumption == None \notin Requests \cup Seats

TypeOK ==
  /\ row \in [Rows -> Int] /\ lost \in [Rows -> Int]
  /\ \A r \in UserRows : row[r] >= 0
  /\ seats = None \/ seats \in Seats
  /\ custody \in Int
  /\ locked \in [Rows -> Sessions \cup {None}]
  /\ req \in [Sessions -> Requests \cup {None}]
  /\ copy \in [Sessions -> [Rows -> Int \cup {None}]]

NothingLoaded == [r \in Rows |-> None]

Init ==
  /\ row = [r \in Rows |-> IF r \in UserRows THEN Wager ELSE 0]
  /\ seats = None
  /\ custody = Wager * Cardinality(Users)
  /\ locked = [r \in Rows |-> None]
  /\ req = [s \in Sessions |-> None]
  /\ todo = [s \in Sessions |-> <<>>]
  /\ copy = [s \in Sessions |-> NothingLoaded]
  /\ lost = [r \in Rows |-> 0]

----------------------------------------------------------------------------
(* The plans: the selects of a handler, each of which loads rows and may   *)
(* lock them.  membership() and members_of() load member rows unlocked.    *)

Load(rows) == [rows |-> rows, lock |-> FALSE]
Lock(r) == [rows |-> {r}, lock |-> TRUE]

(* contribute, reclaim *)
OwnSharePlan_UserFirst(u) == <<Load({Member(u)}), Lock(User(u)), Lock(Party)>>
OwnSharePlan(u) == <<Load({Member(u)}), Lock(Party), Lock(User(u))>>

DistributePlan(target) ==
  <<Load({Member(Leader)}), Lock(Party), Load({Member(target)}), Lock(User(target))>>

(* join_table: the table first; _party_for_queue reads all members before  *)
(* it locks the party.                                                     *)
QueuePlan == <<Lock(Match), Load(MemberRows), Lock(Party)>>

(* _refund_seat locks the party, then reads the seat's member; with the    *)
(* lock held, all seats' members are the same at once or one by one.       *)
RefundPlan == <<Lock(Party), Load(MemberRows)>>
AbortPlan == <<Lock(Match)>> \o RefundPlan

(* leave_table has loaded the party, to see who leads it, before that.     *)
PullOutPlan == <<Lock(Match), Load({Party})>> \o RefundPlan

(* settle_finished: a pool that winnings are banked in is locked first; in *)
(* the end every player's row is, in seat order, to burn their rollover.   *)
SettlePlan(banked) ==
  <<Lock(Match)>>
    \o (IF banked THEN RefundPlan ELSE <<>>)
    \o [i \in 1 .. Len(Order) |-> Lock(User(Order[i]))]

(* a demo deposit, and payed_webhook *)
DepositPlan(u) == <<Lock(User(u))>>

Plan(r) ==
  CASE r.op \in {"contribute", "reclaim"} -> OwnSharePlan(r.who)
    [] r.op = "distribute" -> DistributePlan(r.who)
    [] r.op = "queue"      -> QueuePlan
    [] r.op = "pull out"   -> PullOutPlan
    [] r.op = "aborted"    -> AbortPlan
    [] r.op = "settle"     -> SettlePlan(r.banked)
    [] r.op \in {"deposit", "credited"} -> DepositPlan(r.who)

(* get_current_user loads the caller's row, unlocked, before any handler   *)
(* that somebody has to be logged in for.                                  *)
Webhooks == {"credited", "aborted", "settle"}
Caller(r) == IF r.op = "distribute" THEN Leader ELSE r.who
Preloaded(r) == IF r.op \in Webhooks THEN {} ELSE {User(Caller(r))}

(* The lock under which handlers write a row.                              *)
Guard(r) == IF r \in MemberRows THEN Party ELSE r

(* The rows a request loads before it has their lock.                      *)
Early(r) ==
  LET plan == Plan(r)
  IN  Preloaded(r) \cup
        {x \in Rows : \E j \in 1 .. Len(plan) :
           /\ x \in plan[j].rows
           /\ \A k \in 1 .. j : plan[k] # Lock(Guard(x))}

----------------------------------------------------------------------------
Begin(s, r) ==
  /\ req[s] = None
  /\ r.op \in {"deposit", "credited"} => custody + r.amount <= MaxMoney
  /\ r.op = "settle" => custody + Wager * Len(Order) <= MaxMoney
  /\ req' = [req EXCEPT ![s] = r]
  /\ todo' = [todo EXCEPT ![s] = Plan(r)]
  /\ copy' = [copy EXCEPT ![s] =
               [x \in Rows |-> IF x \in Preloaded(r) THEN row[x] ELSE None]]
  /\ UNCHANGED <<money, locked>>

(* A lock is waited for while another session holds it.                    *)
Free_Always(s, r) == TRUE
Free(s, r) == locked[r] \in {s, None}

CanSelect(s) ==
  /\ todo[s] # <<>>
  /\ Head(todo[s]).lock => \A r \in Head(todo[s]).rows : Free(s, r)

Select(s) ==
  LET got == Head(todo[s]).rows
  IN  /\ CanSelect(s)
      /\ locked' = IF Head(todo[s]).lock
                     THEN [r \in Rows |-> IF r \in got THEN s ELSE locked[r]]
                     ELSE locked
      /\ copy' = [copy EXCEPT ![s] = [r \in Rows |->
                   IF r \in got /\ @[r] = None THEN row[r] ELSE @[r]]]
      /\ todo' = [todo EXCEPT ![s] = Tail(@)]
      /\ UNCHANGED <<money, req>>

(* The session ends, with a commit or without.                             *)
Close(s) ==
  /\ locked' = [r \in Rows |-> IF locked[r] = s THEN None ELSE locked[r]]
  /\ req' = [req EXCEPT ![s] = None]
  /\ todo' = [todo EXCEPT ![s] = <<>>]
  /\ copy' = [copy EXCEPT ![s] = NothingLoaded]

Decides(s, op) == req[s] # None /\ req[s].op = op /\ todo[s] = <<>>

(* An UPDATE sets the columns that changed, to the copy's new value.       *)
Add(s, balances, entitlements, pool) ==
  LET change(r) == CASE r[1] = "user"   -> balances[r[2]]
                     [] r[1] = "member" -> entitlements[r[2]]
                     [] r[1] = "party"  -> pool
                     [] r[1] = "match"  -> 0
  IN  /\ row' = [r \in Rows |-> IF change(r) = 0 THEN row[r] ELSE copy[s][r] + change(r)]
      /\ lost' = [r \in Rows |-> IF change(r) # 0 /\ r \in Early(req[s])
                                   THEN lost[r] + row[r] - copy[s][r] ELSE lost[r]]

Only(u, a) == [v \in Users |-> IF v = u THEN a ELSE 0]
Nobody == [v \in Users |-> 0]

----------------------------------------------------------------------------
(* The decisions                                                           *)

HasOnHand_Unchecked(s, u, a) == TRUE
HasOnHand(s, u, a) == copy[s][User(u)] >= a

Contribute(s) ==
  LET u == req[s].who
      a == req[s].amount
  IN  /\ Decides(s, "contribute")
      /\ HasOnHand(s, u, a)
      /\ Add(s, Only(u, 0 - a), Only(u, a), a)
      /\ UNCHANGED <<seats, custody>>
      /\ Close(s)

Reclaim(s) ==
  LET u == req[s].who
      a == req[s].amount
  IN  /\ Decides(s, "reclaim")
      /\ copy[s][Member(u)] >= a
      /\ Add(s, Only(u, a), Only(u, 0 - a), 0 - a)
      /\ UNCHANGED <<seats, custody>>
      /\ Close(s)

Distribute(s) ==
  LET u    == req[s].who
      a    == req[s].amount
      own  == Lesser(copy[s][Member(u)], a)
      gift == a - own
  IN  /\ Decides(s, "distribute")
      /\ u = Leader => gift = 0
      /\ gift <= copy[s][Member(Leader)]
      /\ Add(s, Only(u, a),
                [v \in Users |-> (IF v = u THEN 0 - own ELSE 0)
                                   - (IF v = Leader THEN gift ELSE 0)],
                0 - a)
      /\ UNCHANGED <<seats, custody>>
      /\ Close(s)

(* The party's seats are the only ones here; whether the others are taken  *)
(* is the other players' business.  Bound: lost updates can take an        *)
(* entitlement below zero, and nobody takes part in a buy-in then.         *)
Queue(s) ==
  LET total == Wager * Len(Order)
  IN  /\ Decides(s, "queue")
      /\ seats = None
      /\ copy[s][Party] >= total
      /\ \A u \in Users : copy[s][Member(u)] >= 0
      /\ \E share \in Allocations(total, [u \in Users |-> copy[s][Member(u)]]),
            split \in Splits :
           /\ Add(s, Nobody, [u \in Users |-> 0 - share[u]], 0 - total)
           /\ seats' = [share |-> share, split |-> split]
      /\ UNCHANGED custody
      /\ Close(s)

(* The leader leaves the open table, or FACEIT aborts the match.           *)
Refund_KeepSeats(s) ==
  /\ Decides(s, "pull out") \/ Decides(s, "aborted")
  /\ seats # None
  /\ Add(s, Nobody, seats.share, SumOver(seats.share, Users))
  /\ UNCHANGED <<seats, custody>>
  /\ Close(s)
Refund(s) ==
  /\ Decides(s, "pull out") \/ Decides(s, "aborted")
  /\ seats # None
  /\ Add(s, Nobody, seats.share, SumOver(seats.share, Users))
  /\ seats' = None
  /\ UNCHANGED custody
  /\ Close(s)

(* Won, each seat brings back twice what it was funded with (at no rake),  *)
(* to the pool under LEADER; lost, nothing.                                *)
Settle(s) ==
  LET won == [u \in Users |-> 2 * seats.share[u]]
      pot == SumOver(seats.share, Users)
      banked == req[s].banked
  IN  /\ Decides(s, "settle")
      /\ seats # None
      /\ \/ /\ banked <=> seats.split = "LEADER"
            /\ Add(s, IF banked THEN Nobody ELSE won, IF banked THEN won ELSE Nobody,
                      IF banked THEN 2 * pot ELSE 0)
            /\ custody' = custody + pot
         \/ /\ ~banked
            /\ UNCHANGED <<row, lost>>
            /\ custody' = custody - pot
      /\ seats' = None
      /\ Close(s)

Deposit(s) ==
  /\ Decides(s, "deposit") \/ Decides(s, "credited")
  /\ Add(s, Only(req[s].who, req[s].amount), Nobody, 0)
  /\ custody' = custody + req[s].amount
  /\ UNCHANGED seats
  /\ Close(s)

(* The request is refused or fails, or the database ends it.               *)
Rollback(s) ==
  /\ req[s] # None
  /\ Close(s)
  /\ UNCHANGED money

Next ==
  \E s \in Sessions :
    \/ \E r \in Requests : Begin(s, r)
    \/ Select(s)
    \/ Contribute(s) \/ Reclaim(s) \/ Distribute(s)
    \/ Queue(s) \/ Refund(s) \/ Settle(s)
    \/ Deposit(s)
    \/ Rollback(s)

Spec == Init /\ [][Next]_vars

----------------------------------------------------------------------------
(* "pool_balance == sum(entitlements) always", at every commit.            *)
PoolIsEntitlements == row[Party] = SumOver(row, MemberRows)

(* What the rows would hold, had nothing been overwritten.                 *)
Owed == [r \in Rows |-> row[r] + lost[r]]

(* What the code keeps of that: pool and entitlements differ by what early *)
(* copies have overwritten and by nothing else.  Every other copy that a   *)
(* handler writes from is current, since it was loaded under the lock.     *)
PoolAddsUp == Owed[Party] = SumOver(Owed, MemberRows)

(* FOR UPDATE, "so concurrent balance ops serialize": but for the same     *)
(* early copies, no commit loses what another has paid in, paid out or put *)
(* at stake.                                                               *)
Stake == IF seats = None THEN 0 ELSE SumOver(seats.share, Users)
MoneyAddsUp == SumOver(Owed, UserRows) + Owed[Party] + Stake = custody

(* "Every mutation locks the party row first, then user rows": sessions    *)
(* never all wait for one another.                                         *)
NoStandstill ==
  (\E s \in Sessions : req[s] # None) =>
    \E s \in Sessions : req[s] # None /\ (todo[s] = <<>> \/ CanSelect(s))

=============================================================================
