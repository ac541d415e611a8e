------------------------ MODULE PartySessionsProofs ------------------------
(***************************************************************************)
(* Theorems about PartySessions, for any party, amounts and number of      *)
(* sessions: its handlers never all wait for one another, and but for what *)
(* a commit overwrites from a copy loaded before the row's lock, which is  *)
(* counted, no update is lost.                                             *)
(***************************************************************************)
EXTENDS PartySessions, MoneyProofs, SequenceTheorems

(* The rows that are ever locked, and the order they are locked in.        *)
Lockable == {Match, Party} \cup UserRows
Selects == [rows : SUBSET Rows, lock : BOOLEAN]

(* No two rows are the same.                                               *)
LEMMA RowsDiffer ==
  /\ \A u : /\ User(u) # Party /\ User(u) # Match /\ Member(u) # Party /\ Member(u) # Match
            /\ \A v : User(u) # Member(v)
            /\ \A v : User(u) = User(v) => u = v
            /\ \A v : Member(u) = Member(v) => u = v
  /\ Party # Match
BY DEF User, Member, Party, Match

(* Rows there are, and no others.                                          *)
LEMMA RowsAre ==
  /\ Match \in Rows /\ Party \in Rows /\ UserRows \subseteq Rows /\ MemberRows \subseteq Rows
  /\ \A u \in Users : User(u) \in UserRows /\ Member(u) \in MemberRows
  /\ Lockable \subseteq Rows
BY DEF Rows, UserRows, MemberRows, Lockable

(* What each request has: its operation decides its other fields.          *)
LEMMA RequestsAre ==
  ASSUME NEW r \in Requests
  PROVE  /\ r # None /\ r.who \in Users /\ r.amount \in Nat
         /\ r.op \in {"contribute", "reclaim", "deposit", "credited", "distribute",
                      "queue", "pull out", "aborted", "settle"}
         /\ r.op \in {"contribute", "reclaim", "deposit", "credited", "distribute"} =>
              r.amount \in Nat \ {0}
         /\ r.op = "settle" => r.banked \in BOOLEAN
BY NoneAssumption, PartySessionAssumption DEF Requests

(* The members' order lists users.                                         *)
LEMMA OrderIs ==
  /\ Len(Order) \in Nat /\ \A i \in 1 .. Len(Order) : Order[i] \in Users
  /\ \A u \in Users : \E i \in 1 .. Len(Order) : Order[i] = u
  /\ IsFiniteSet(Users)
<1>1. Order \in Seq(Users) /\ IsFiniteSet(Users)
  BY PartySessionAssumption
<1>2. Len(Order) \in Nat /\ DOMAIN Order = 1 .. Len(Order)
  BY <1>1, LenProperties
<1> QED BY <1>1, <1>2, ElementOfSeq DEF Users, Range

(* The selects that lock are of one row.                                   *)
LEMMA SelectsTyped ==
  /\ \A x \in Lockable : Lock(x) \in Selects
  /\ \A x : Lock(x).lock /\ Lock(x).rows = {x}
  /\ \A x, y : Lock(x) = Lock(y) => x = y
  /\ \A rows \in SUBSET Rows : Load(rows) \in Selects
  /\ \A rows : Load(rows).rows = rows /\ ~Load(rows).lock
  /\ \A rows, x : Load(rows) # Lock(x)
BY RowsAre DEF Selects, Lock, Load

(* The plans, select by select: of one's own money, of a share that is     *)
(* handed out, of a buy-in, of leaving the table, of a match that is       *)
(* aborted, of its result, and of a deposit.                               *)
OwnPlan(p, u) ==
  /\ Len(p) = 3 /\ p[1] = Load({Member(u)}) /\ p[2] = Lock(Party) /\ p[3] = Lock(User(u))
GiftPlan(p, u) ==
  /\ Len(p) = 4 /\ p[1] = Load({Member(Leader)}) /\ p[2] = Lock(Party)
  /\ p[3] = Load({Member(u)}) /\ p[4] = Lock(User(u))
BuyInPlan(p) ==
  /\ Len(p) = 3 /\ p[1] = Lock(Match) /\ p[2] = Load(MemberRows) /\ p[3] = Lock(Party)
LeavePlan(p) ==
  /\ Len(p) = 4 /\ p[1] = Lock(Match) /\ p[2] = Load({Party})
  /\ p[3] = Lock(Party) /\ p[4] = Load(MemberRows)
EndPlan(p) ==
  /\ Len(p) = 3 /\ p[1] = Lock(Match) /\ p[2] = Lock(Party) /\ p[3] = Load(MemberRows)
ResultPlan(p, banked) ==
  LET n == IF banked THEN 3 ELSE 1
  IN  /\ Len(p) = n + Len(Order) /\ p[1] = Lock(Match)
      /\ banked => p[2] = Lock(Party) /\ p[3] = Load(MemberRows)
      /\ \A i \in 1 .. Len(Order) : p[n + i] = Lock(User(Order[i]))
PaidInPlan(p, u) ==
  Len(p) = 1 /\ p[1] = Lock(User(u))

(* Tuples of selects.                                                      *)
LEMMA Tuples ==
  /\ \A a \in Selects : <<a>> \in Seq(Selects) /\ Len(<<a>>) = 1 /\ <<a>>[1] = a
  /\ \A a, b \in Selects : /\ <<a, b>> \in Seq(Selects) /\ Len(<<a, b>>) = 2
                           /\ <<a, b>>[1] = a /\ <<a, b>>[2] = b
  /\ \A a, b, c \in Selects :
       /\ <<a, b, c>> \in Seq(Selects) /\ Len(<<a, b, c>>) = 3
       /\ <<a, b, c>>[1] = a /\ <<a, b, c>>[2] = b /\ <<a, b, c>>[3] = c
  /\ \A a, b, c, d \in Selects :
       /\ <<a, b, c, d>> \in Seq(Selects) /\ Len(<<a, b, c, d>>) = 4
       /\ <<a, b, c, d>>[1] = a /\ <<a, b, c, d>>[2] = b
       /\ <<a, b, c, d>>[3] = c /\ <<a, b, c, d>>[4] = d
OBVIOUS

(* One plan after another, and what that is, select by select.             *)
Then(a, b) == a \o b
Joins(a, b, c) ==
  /\ c \in Seq(Selects) /\ Len(c) = Len(a) + Len(b)
  /\ \A i \in 1 .. Len(a) : c[i] = a[i]
  /\ \A i \in 1 .. Len(b) : c[Len(a) + i] = b[i]

(* To put plans one after another joins them.                              *)
LEMMA Joined ==
  ASSUME NEW a \in Seq(Selects), NEW b \in Seq(Selects)
  PROVE  Joins(a, b, Then(a, b))
<1> DEFINE c == a \o b
<1>1. Len(a) \in Nat /\ Len(b) \in Nat
  BY LenProperties
<1>2. /\ c \in Seq(Selects) /\ Len(c) = Len(a) + Len(b)
      /\ \A i \in 1 .. Len(a) + Len(b) : c[i] = IF i <= Len(a) THEN a[i] ELSE b[i - Len(a)]
  BY ConcatProperties
<1> HIDE DEF c
<1>3. ASSUME NEW i \in 1 .. Len(b) PROVE c[Len(a) + i] = b[i]
  <2>1. Len(a) + i \in 1 .. Len(a) + Len(b) /\ ~(Len(a) + i <= Len(a))
    BY <1>1
  <2>2. (Len(a) + i) - Len(a) = i
    BY <1>1
  <2> QED BY <1>2, <2>1, <2>2
<1>4. Then(a, b) = c
  BY DEF Then, c
<1> QED BY <1>1, <1>2, <1>3, <1>4 DEF Joins

(* The plan of settle_finished.                                            *)
LEMMA SettlePlanIs ==
  ASSUME NEW banked \in BOOLEAN
  PROVE  SettlePlan(banked) \in Seq(Selects) /\ ResultPlan(SettlePlan(banked), banked)
<1> DEFINE front == <<Lock(Match)>>
           pool  == IF banked THEN RefundPlan ELSE <<>>
           last  == [i \in 1 .. Len(Order) |-> Lock(User(Order[i]))]
<1>1. Lock(Match) \in Selects /\ Lock(Party) \in Selects /\ Load(MemberRows) \in Selects
  BY SelectsTyped, RowsAre DEF Lockable
<1>2. front \in Seq(Selects) /\ Len(front) = 1 /\ front[1] = Lock(Match)
  BY <1>1, Tuples
<1>3. /\ pool \in Seq(Selects) /\ Len(pool) = IF banked THEN 2 ELSE 0
      /\ banked => pool[1] = Lock(Party) /\ pool[2] = Load(MemberRows)
  BY <1>1, Tuples, EmptySeq DEF RefundPlan
<1>4. /\ last \in Seq(Selects) /\ Len(last) = Len(Order)
      /\ \A i \in 1 .. Len(Order) : last[i] = Lock(User(Order[i]))
  <2>1. \A i \in 1 .. Len(Order) : Lock(User(Order[i])) \in Selects
    BY OrderIs, SelectsTyped, RowsAre DEF Lockable
  <2> QED BY <2>1, OrderIs
<1> DEFINE n == IF banked THEN 3 ELSE 1
<1>5. PICK a : a = Then(front, pool)
  OBVIOUS
<1>6. SettlePlan(banked) = Then(a, last)
  BY <1>5 DEF SettlePlan, Then
<1> HIDE DEF front, pool, last
<1>7. /\ a \in Seq(Selects) /\ Len(a) = n /\ a[1] = Lock(Match)
      /\ banked => a[2] = Lock(Party) /\ a[3] = Load(MemberRows)
  <2>0. Joins(front, pool, a)
    BY <1>2, <1>3, <1>5, Joined
  <2>1. /\ a \in Seq(Selects) /\ Len(a) = 1 + Len(pool)
        /\ \A i \in 1 .. 1 : a[i] = front[i]
        /\ \A i \in 1 .. Len(pool) : a[1 + i] = pool[i]
    BY <1>2, <2>0 DEF Joins
  <2>2. banked => a[1 + 1] = pool[1] /\ a[1 + 2] = pool[2]
    BY <1>3, <2>1
  <2> QED BY <1>2, <1>3, <2>1, <2>2
<1>10. Joins(a, last, SettlePlan(banked))
  BY <1>4, <1>6, <1>7, Joined
<1>8. /\ SettlePlan(banked) \in Seq(Selects)
      /\ Len(SettlePlan(banked)) = n + Len(Order)
      /\ \A i \in 1 .. n : SettlePlan(banked)[i] = a[i]
      /\ \A i \in 1 .. Len(Order) : SettlePlan(banked)[n + i] = last[i]
  BY <1>4, <1>7, <1>10 DEF Joins
<1>9. SettlePlan(banked)[1] = a[1] /\ (banked => SettlePlan(banked)[2] = a[2]
                                              /\ SettlePlan(banked)[3] = a[3])
  BY <1>8
<1> QED BY <1>4, <1>7, <1>8, <1>9 DEF ResultPlan

(* The plan of every request.                                              *)
LEMMA PlanIs ==
  ASSUME NEW r \in Requests
  PROVE  /\ Plan(r) \in Seq(Selects) /\ Len(Plan(r)) \in Nat
         /\ r.op \in {"contribute", "reclaim"} => OwnPlan(Plan(r), r.who)
         /\ r.op = "distribute" => GiftPlan(Plan(r), r.who)
         /\ r.op = "queue" => BuyInPlan(Plan(r))
         /\ r.op = "pull out" => LeavePlan(Plan(r))
         /\ r.op = "aborted" => EndPlan(Plan(r))
         /\ r.op = "settle" => ResultPlan(Plan(r), r.banked)
         /\ r.op \in {"deposit", "credited"} => PaidInPlan(Plan(r), r.who)
<1> DEFINE u == r.who
<1>1. /\ Lock(Match) \in Selects /\ Lock(Party) \in Selects /\ Lock(User(u)) \in Selects
      /\ Load(MemberRows) \in Selects /\ Load({Party}) \in Selects
      /\ Load({Member(u)}) \in Selects /\ Load({Member(Leader)}) \in Selects
  BY RequestsAre, SelectsTyped, RowsAre, PartySessionAssumption DEF Lockable
<1>2. CASE r.op \in {"contribute", "reclaim"}
  BY <1>1, <1>2, Tuples DEF Plan, OwnSharePlan, OwnPlan
<1>3. CASE r.op = "distribute"
  BY <1>1, <1>3, Tuples DEF Plan, DistributePlan, GiftPlan
<1>4. CASE r.op = "queue"
  BY <1>1, <1>4, Tuples DEF Plan, QueuePlan, BuyInPlan
<1>5. CASE r.op = "pull out"
  <2>1. Plan(r) = <<Lock(Match), Load({Party})>> \o <<Lock(Party), Load(MemberRows)>>
    BY <1>5 DEF Plan, PullOutPlan, RefundPlan
  <2> DEFINE a == <<Lock(Match), Load({Party})>>
             b == <<Lock(Party), Load(MemberRows)>>
  <2>2. /\ a \in Seq(Selects) /\ Len(a) = 2 /\ a[1] = Lock(Match) /\ a[2] = Load({Party})
        /\ b \in Seq(Selects) /\ Len(b) = 2 /\ b[1] = Lock(Party) /\ b[2] = Load(MemberRows)
    BY <1>1, Tuples
  <2>3. Plan(r) = Then(a, b)
    BY <2>1 DEF Then
  <2> HIDE DEF a, b
  <2>6. Joins(a, b, Plan(r))
    BY <2>2, <2>3, Joined
  <2>4. /\ Plan(r) \in Seq(Selects) /\ Len(Plan(r)) = 4
        /\ \A i \in 1 .. 2 : Plan(r)[i] = a[i]
        /\ \A i \in 1 .. 2 : Plan(r)[2 + i] = b[i]
    BY <2>2, <2>6 DEF Joins
  <2>5. /\ Plan(r)[1] = a[1] /\ Plan(r)[2] = a[2]
        /\ Plan(r)[2 + 1] = b[1] /\ Plan(r)[2 + 2] = b[2]
    BY <2>4
  <2>7. LeavePlan(Plan(r))
    BY <2>2, <2>4, <2>5 DEF LeavePlan
  <2>8. Plan(r) \in Seq(Selects) /\ Len(Plan(r)) \in Nat
    BY <2>4
  <2> QED BY <1>5, <2>7, <2>8
<1>6. CASE r.op = "aborted"
  <2>1. Plan(r) = <<Lock(Match)>> \o <<Lock(Party), Load(MemberRows)>>
    BY <1>6 DEF Plan, AbortPlan, RefundPlan
  <2> DEFINE a == <<Lock(Match)>>
             b == <<Lock(Party), Load(MemberRows)>>
  <2>2. /\ a \in Seq(Selects) /\ Len(a) = 1 /\ a[1] = Lock(Match)
        /\ b \in Seq(Selects) /\ Len(b) = 2 /\ b[1] = Lock(Party) /\ b[2] = Load(MemberRows)
    BY <1>1, Tuples
  <2>3. Plan(r) = Then(a, b)
    BY <2>1 DEF Then
  <2> HIDE DEF a, b
  <2>6. Joins(a, b, Plan(r))
    BY <2>2, <2>3, Joined
  <2>4. /\ Plan(r) \in Seq(Selects) /\ Len(Plan(r)) = 3
        /\ \A i \in 1 .. 1 : Plan(r)[i] = a[i]
        /\ \A i \in 1 .. 2 : Plan(r)[1 + i] = b[i]
    BY <2>2, <2>6 DEF Joins
  <2>5. Plan(r)[1 + 1] = b[1] /\ Plan(r)[1 + 2] = b[2]
    BY <2>4
  <2> QED BY <1>6, <2>2, <2>4, <2>5 DEF EndPlan
<1>7. CASE r.op = "settle"
  <2>1. Plan(r) = SettlePlan(r.banked) /\ r.banked \in BOOLEAN
    BY <1>7, RequestsAre DEF Plan
  <2> QED BY <1>7, <2>1, SettlePlanIs, LenProperties
<1>8. CASE r.op \in {"deposit", "credited"}
  BY <1>1, <1>8, Tuples DEF Plan, DepositPlan, PaidInPlan
<1> QED BY <1>2, <1>3, <1>4, <1>5, <1>6, <1>7, <1>8, RequestsAre

(* Every select that locks is of one row, in the order of the rows; only   *)
(* settle_finished locks more users than one, and that with the table's    *)
(* row in its hands.                                                       *)
LEMMA PlanLocks ==
  ASSUME NEW r \in Requests, NEW j \in 1 .. Len(Plan(r))
  PROVE  /\ Plan(r)[j] \in Selects
         /\ Plan(r)[j].lock => \E x \in Lockable : Plan(r)[j] = Lock(x)
         /\ r.op = "settle" => Plan(r)[1] = Lock(Match)
<1>1. Plan(r) \in Seq(Selects) /\ Len(Plan(r)) \in Nat /\ Plan(r)[j] \in Selects
  BY PlanIs, ElementOfSeq
<1>2. Match \in Lockable /\ Party \in Lockable /\ \A u \in Users : User(u) \in Lockable
  BY RowsAre DEF Lockable
<1>3. CASE r.op = "settle"
  <2> DEFINE n == IF r.banked THEN 3 ELSE 1
  <2>1. ResultPlan(Plan(r), r.banked) /\ r.banked \in BOOLEAN /\ Len(Order) \in Nat
    BY <1>3, PlanIs, RequestsAre, OrderIs
  <2>2. CASE j <= n
    BY <1>1, <1>2, <2>1, <2>2, SelectsTyped DEF ResultPlan
  <2>3. CASE j > n
    <3>1. j - n \in 1 .. Len(Order) /\ n + (j - n) = j
      BY <2>1, <2>3 DEF ResultPlan
    <3>2. Plan(r)[j] = Lock(User(Order[j - n])) /\ Plan(r)[1] = Lock(Match)
      BY <2>1, <3>1 DEF ResultPlan
    <3> QED BY <1>1, <1>2, <3>1, <3>2, OrderIs
  <2> QED BY <2>1, <2>2, <2>3
<1>4. CASE r.op # "settle"
  <2>1. /\ r.op \in {"contribute", "reclaim"} => OwnPlan(Plan(r), r.who)
        /\ r.op = "distribute" => GiftPlan(Plan(r), r.who)
        /\ r.op = "queue" => BuyInPlan(Plan(r))
        /\ r.op = "pull out" => LeavePlan(Plan(r))
        /\ r.op = "aborted" => EndPlan(Plan(r))
        /\ r.op \in {"deposit", "credited"} => PaidInPlan(Plan(r), r.who)
    BY PlanIs
  <2>0. PICK u : u = r.who
    OBVIOUS
  <2>8. User(u) \in UserRows /\ User(u) \in Lockable
    BY <2>0, RequestsAre, RowsAre DEF Lockable
  <2>2. CASE OwnPlan(Plan(r), u)
    BY <1>1, <1>2, <1>4, <2>2, <2>8, SelectsTyped DEF OwnPlan
  <2>3. CASE GiftPlan(Plan(r), u)
    BY <1>1, <1>2, <1>4, <2>3, <2>8, SelectsTyped DEF GiftPlan
  <2>4. CASE BuyInPlan(Plan(r))
    BY <1>1, <1>2, <1>4, <2>4, SelectsTyped DEF BuyInPlan
  <2>5. CASE LeavePlan(Plan(r))
    BY <1>1, <1>2, <1>4, <2>5, SelectsTyped DEF LeavePlan
  <2>6. CASE EndPlan(Plan(r))
    BY <1>1, <1>2, <1>4, <2>6, SelectsTyped DEF EndPlan
  <2>7. CASE PaidInPlan(Plan(r), u)
    BY <1>1, <1>2, <1>4, <2>7, <2>8, SelectsTyped DEF PaidInPlan
  <2> QED BY <1>4, <2>0, <2>1, <2>2, <2>3, <2>4, <2>5, <2>6, <2>7, RequestsAre
<1> QED BY <1>3, <1>4

(* What a plan locks after a row comes later in the order of the rows.     *)
LEMMA PlanRises ==
  ASSUME NEW r \in Requests, NEW i \in 1 .. Len(Plan(r)), NEW j \in 1 .. Len(Plan(r)), j < i,
         NEW x \in Lockable, NEW y \in Lockable, Plan(r)[j] = Lock(x), Plan(r)[i] = Lock(y)
  PROVE  /\ x = Match => y # Match
         /\ x = Party => y \in UserRows
         /\ x \in UserRows => y \in UserRows /\ r.op = "settle"
<1>1. Len(Plan(r)) \in Nat
  BY PlanIs
<1>2. /\ \A u \in Users : User(u) \in UserRows /\ User(u) # Party /\ User(u) # Match
      /\ Party # Match /\ Party \notin UserRows /\ Match \notin UserRows
  BY RowsDiffer DEF UserRows
<1>3. CASE r.op = "settle"
  <2> DEFINE n == IF r.banked THEN 3 ELSE 1
  <2>1. ResultPlan(Plan(r), r.banked) /\ r.banked \in BOOLEAN /\ Len(Order) \in Nat
    BY <1>3, PlanIs, RequestsAre, OrderIs
  <2>2. ASSUME NEW k \in 1 .. Len(Plan(r)), k > n
        PROVE  \E v \in Users : Plan(r)[k] = Lock(User(v))
    <3>1. k - n \in 1 .. Len(Order) /\ n + (k - n) = k
      BY <2>1, <2>2 DEF ResultPlan
    <3> QED BY <2>1, <3>1, OrderIs DEF ResultPlan
  <2>3. i > n => y \in UserRows
    BY <1>2, <2>2, SelectsTyped
  <2>4. j > n => x \in UserRows
    BY <1>2, <2>2, SelectsTyped
  <2>5. CASE i <= n
    BY <1>1, <1>2, <2>1, <2>5, SelectsTyped DEF ResultPlan
  <2>6. CASE i > n
    BY <1>2, <1>3, <2>3, <2>6
  <2> QED BY <2>1, <2>5, <2>6
<1>4. CASE r.op # "settle"
  <2>1. /\ r.op \in {"contribute", "reclaim"} => OwnPlan(Plan(r), r.who)
        /\ r.op = "distribute" => GiftPlan(Plan(r), r.who)
        /\ r.op = "queue" => BuyInPlan(Plan(r))
        /\ r.op = "pull out" => LeavePlan(Plan(r))
        /\ r.op = "aborted" => EndPlan(Plan(r))
        /\ r.op \in {"deposit", "credited"} => PaidInPlan(Plan(r), r.who)
    BY PlanIs
  <2>0. PICK u : u = r.who
    OBVIOUS
  <2>8. User(u) \in UserRows /\ User(u) \in Lockable
    BY <2>0, RequestsAre, RowsAre DEF Lockable
  <2>2. CASE OwnPlan(Plan(r), u)
    BY <1>1, <1>2, <1>4, <2>2, <2>8, SelectsTyped DEF OwnPlan
  <2>3. CASE GiftPlan(Plan(r), u)
    BY <1>1, <1>2, <1>4, <2>3, <2>8, SelectsTyped DEF GiftPlan
  <2>4. CASE BuyInPlan(Plan(r))
    BY <1>1, <1>2, <1>4, <2>4, SelectsTyped DEF BuyInPlan
  <2>5. CASE LeavePlan(Plan(r))
    BY <1>1, <1>2, <1>4, <2>5, SelectsTyped DEF LeavePlan
  <2>6. CASE EndPlan(Plan(r))
    BY <1>1, <1>2, <1>4, <2>6, SelectsTyped DEF EndPlan
  <2>7. CASE PaidInPlan(Plan(r), u)
    BY <1>1, <1>2, <1>4, <2>7, <2>8, SelectsTyped DEF PaidInPlan
  <2> QED BY <1>4, <2>0, <2>1, <2>2, <2>3, <2>4, <2>5, <2>6, <2>7, RequestsAre
<1> QED BY <1>3, <1>4

(* The rows a request may write.                                           *)
Writes(r) ==
  CASE r.op \in {"contribute", "reclaim"} -> {Member(r.who), Party, User(r.who)}
    [] r.op = "distribute" -> {Member(Leader), Member(r.who), Party, User(r.who)}
    [] r.op \in {"queue", "pull out", "aborted"} -> MemberRows \cup {Party}
    [] r.op = "settle" -> UserRows \cup (IF r.banked THEN MemberRows \cup {Party} ELSE {})
    [] r.op \in {"deposit", "credited"} -> {User(r.who)}

(* A plan loads what its request may write, and locks what guards it.      *)
LEMMA PlanCovers ==
  ASSUME NEW r \in Requests, NEW x \in Writes(r)
  PROVE  /\ x \in Rows /\ Guard(x) \in Lockable
         /\ \E j \in 1 .. Len(Plan(r)) : x \in Plan(r)[j].rows
         /\ \E k \in 1 .. Len(Plan(r)) : Plan(r)[k] = Lock(Guard(x))
<1> DEFINE p == Plan(r)
           u == r.who
<1>1. /\ \A v : Member(v) \in {Member(v)} /\ Guard(Party) = Party
      /\ \A v \in Users : Guard(Member(v)) = Party /\ Guard(User(v)) = User(v)
      /\ u \in Users /\ Leader \in Users
  BY RowsDiffer, RequestsAre, PartySessionAssumption DEF Guard, MemberRows
<1>2. /\ \A y : Lock(y).rows = {y} /\ \A rows : Load(rows).rows = rows
      /\ \A y \in MemberRows : Guard(y) = Party
  BY SelectsTyped DEF Guard
<1>3. x \in Rows /\ Guard(x) \in Lockable
  <2>1. x \in MemberRows \/ x = Party \/ \E v \in Users : x = User(v)
    BY <1>1, RowsAre, RequestsAre DEF Writes, UserRows
  <2>2. x \in Rows
    BY <2>1, RowsAre
  <2>3. Guard(x) = Party \/ \E v \in Users : Guard(x) = User(v)
    BY <1>1, <1>2, <2>1
  <2> QED BY <2>2, <2>3, RowsAre DEF Lockable
<1>4. CASE r.op \in {"contribute", "reclaim"}
  <2>1. OwnPlan(p, u) /\ x \in {Member(u), Party, User(u)}
    BY <1>4, PlanIs DEF Writes
  <2>2. \E j \in 1 .. 3 : x \in p[j].rows
    BY <1>2, <2>1 DEF OwnPlan
  <2>3. \E k \in 1 .. 3 : p[k] = Lock(Guard(x))
    BY <1>1, <2>1 DEF OwnPlan
  <2> QED BY <1>3, <2>1, <2>2, <2>3 DEF OwnPlan
<1>5. CASE r.op = "distribute"
  <2>1. GiftPlan(p, u) /\ x \in {Member(Leader), Member(u), Party, User(u)}
    BY <1>5, PlanIs DEF Writes
  <2>2. \E j \in 1 .. 4 : x \in p[j].rows
    BY <1>2, <2>1 DEF GiftPlan
  <2>3. \E k \in 1 .. 4 : p[k] = Lock(Guard(x))
    BY <1>1, <2>1 DEF GiftPlan
  <2> QED BY <1>3, <2>1, <2>2, <2>3 DEF GiftPlan
<1>6. CASE r.op \in {"queue", "pull out", "aborted"}
  <2>1. /\ x \in MemberRows \/ x = Party
        /\ BuyInPlan(p) \/ LeavePlan(p) \/ EndPlan(p)
    BY <1>6, PlanIs DEF Writes
  <2>2. Guard(x) = Party
    BY <1>1, <1>2, <2>1
  <2> QED BY <1>2, <1>3, <2>1, <2>2 DEF BuyInPlan, LeavePlan, EndPlan
<1>7. CASE r.op = "settle"
  <2> DEFINE n == IF r.banked THEN 3 ELSE 1
  <2>1. ResultPlan(p, r.banked) /\ r.banked \in BOOLEAN /\ Len(Order) \in Nat
    BY <1>7, PlanIs, RequestsAre, OrderIs
  <2>2. CASE x \in UserRows
    <3>1. PICK v \in Users : x = User(v)
      BY <2>2 DEF UserRows
    <3>2. PICK i \in 1 .. Len(Order) : Order[i] = v
      BY OrderIs
    <3>3. n + i \in 1 .. Len(p) /\ p[n + i] = Lock(User(v))
      BY <2>1, <3>2 DEF ResultPlan
    <3> QED BY <1>1, <1>2, <1>3, <3>1, <3>3
  <2>3. CASE x \notin UserRows
    <3>1. r.banked /\ (x \in MemberRows \/ x = Party)
      BY <1>7, <2>3 DEF Writes
    <3>2. Guard(x) = Party
      BY <1>1, <1>2, <3>1
    <3>3. 2 \in 1 .. Len(p) /\ 3 \in 1 .. Len(p) /\ p[2] = Lock(Party) /\ p[3] = Load(MemberRows)
      BY <2>1, <3>1 DEF ResultPlan
    <3> QED BY <1>2, <1>3, <3>1, <3>2, <3>3
  <2> QED BY <2>2, <2>3
<1>8. CASE r.op \in {"deposit", "credited"}
  <2>1. PaidInPlan(p, u) /\ x = User(u)
    BY <1>8, PlanIs DEF Writes
  <2> QED BY <1>1, <1>2, <1>3, <2>1 DEF PaidInPlan
<1> QED BY <1>4, <1>5, <1>6, <1>7, <1>8, RequestsAre

----------------------------------------------------------------------------
(* The sessions.  What a session has still to select is the rest of its    *)
(* plan, and the rows it has locked are those its plan has locked so far.  *)
Done(s) == Len(Plan(req[s])) - Len(todo[s])
Held(s, x) == \E j \in 1 .. Done(s) : Plan(req[s])[j] = Lock(x)
PlanTyped ==
  /\ locked \in [Rows -> Sessions \cup {None}]
  /\ req \in [Sessions -> Requests \cup {None}]
  /\ todo \in [Sessions -> Seq(Selects)]
Follows(s) ==
  /\ Done(s) \in Nat
  /\ \A i \in 1 .. Len(todo[s]) : todo[s][i] = Plan(req[s])[Done(s) + i]
  /\ \A x \in Rows : locked[x] = s <=> Held(s, x)
PlanInv ==
  /\ PlanTyped
  /\ \A s \in Sessions :
       /\ req[s] = None => todo[s] = <<>> /\ \A x \in Rows : locked[x] # s
       /\ req[s] # None => Follows(s)

(* Every step begins a request, selects, or ends one.                      *)
LEMMA StepIs ==
  ASSUME Next
  PROVE  \E s \in Sessions :
           (\E r \in Requests : Begin(s, r)) \/ Select(s) \/ Close(s)
BY DEF Next, Contribute, Reclaim, Distribute, Queue, Refund, Settle, Deposit, Rollback

(* A session that something is left to select for is in the middle of its  *)
(* plan.                                                                   *)
LEMMA NextSelect ==
  ASSUME PlanInv, NEW s \in Sessions, todo[s] # <<>>
  PROVE  /\ req[s] \in Requests /\ Follows(s)
         /\ Len(todo[s]) \in Nat \ {0}
         /\ Done(s) + 1 \in 1 .. Len(Plan(req[s]))
         /\ Head(todo[s]) = Plan(req[s])[Done(s) + 1]
         /\ Head(todo[s]).lock => \E x \in Lockable : Head(todo[s]) = Lock(x)
<1>1. req[s] \in Requests /\ Follows(s) /\ todo[s] \in Seq(Selects)
  BY DEF PlanInv, PlanTyped
<1>2. Len(todo[s]) \in Nat \ {0}
  BY <1>1, EmptySeq
<1>3. Len(Plan(req[s])) \in Nat
  BY <1>1, PlanIs
<1>4. Done(s) + 1 \in 1 .. Len(Plan(req[s]))
  BY <1>1, <1>2, <1>3 DEF Follows, Done
<1>5. Head(todo[s]) = todo[s][1]
  BY <1>1
<1>6. Head(todo[s]) = Plan(req[s])[Done(s) + 1]
  BY <1>1, <1>2, <1>5 DEF Follows
<1> QED BY <1>1, <1>2, <1>4, <1>6, PlanLocks

(* No session has anything to do at the beginning.                         *)
LEMMA PlanStart == Init => PlanInv
<1>1. <<>> \in Seq(Selects)
  BY EmptySeq
<1> QED BY <1>1, PartySessionAssumption DEF Init, PlanInv, PlanTyped

(* A session that a step leaves alone, and whose locks it keeps.           *)
LEMMA FollowsStays ==
  ASSUME NEW s \in Sessions, Follows(s), req'[s] = req[s], todo'[s] = todo[s],
         \A x \in Rows : locked'[x] = s <=> locked[x] = s
  PROVE  Follows(s)'
BY DEF Follows, Done, Held

(* A select takes the next one from what is left of the plan.              *)
LEMMA SelectIs ==
  ASSUME PlanInv, NEW s \in Sessions, Select(s)
  PROVE  /\ req[s] \in Requests /\ Follows(s) /\ req' = req
         /\ Done(s) \in Nat /\ Done(s)' = Done(s) + 1
         /\ Done(s) + 1 \in 1 .. Len(Plan(req[s]))
         /\ Head(todo[s]) = Plan(req[s])[Done(s) + 1]
         /\ Head(todo[s]).lock => \E x \in Lockable : Head(todo[s]) = Lock(x)
         /\ Len(todo[s]) \in Nat \ {0} /\ Len(todo'[s]) = Len(todo[s]) - 1
         /\ \A i \in 1 .. Len(todo'[s]) : todo'[s][i] = todo[s][i + 1]
         /\ todo' \in [Sessions -> Seq(Selects)]
         /\ \A o \in Sessions \ {s} : todo'[o] = todo[o]
<1> DEFINE p == Plan(req[s])
<1>1. /\ todo[s] # <<>> /\ req' = req /\ todo'[s] = Tail(todo[s])
      /\ todo' \in [Sessions -> Seq(Selects)]
      /\ \A o \in Sessions \ {s} : todo'[o] = todo[o]
  <2>1. todo \in [Sessions -> Seq(Selects)] /\ todo[s] # <<>>
    BY DEF Select, CanSelect, PlanInv, PlanTyped
  <2>2. Tail(todo[s]) \in Seq(Selects)
    BY <2>1, HeadTailProperties
  <2> QED BY <2>1, <2>2 DEF Select
<1>2. /\ req[s] \in Requests /\ Follows(s) /\ Len(todo[s]) \in Nat \ {0}
      /\ Done(s) + 1 \in 1 .. Len(p) /\ Head(todo[s]) = p[Done(s) + 1]
      /\ Head(todo[s]).lock => \E x \in Lockable : Head(todo[s]) = Lock(x)
  BY <1>1, NextSelect
<1>3. /\ Len(todo'[s]) = Len(todo[s]) - 1
      /\ \A i \in 1 .. Len(todo'[s]) : todo'[s][i] = todo[s][i + 1]
  <2>1. todo[s] \in Seq(Selects)
    BY DEF PlanInv, PlanTyped
  <2> QED BY <1>1, <2>1, HeadTailProperties
<1>4. Len(p) \in Nat /\ Done(s) \in Nat
  BY <1>2, PlanIs DEF Follows
<1>5. Done(s)' = Done(s) + 1
  <2>1. Len(todo'[s]) = Len(todo[s]) - 1 /\ Len(todo[s]) \in Nat /\ Len(p) \in Nat
    BY <1>2, <1>3, <1>4
  <2>2. Done(s)' = Len(p) - Len(todo'[s]) /\ Done(s) = Len(p) - Len(todo[s])
    BY <1>1 DEF Done
  <2> QED BY <2>1, <2>2
<1> QED BY <1>1, <1>2, <1>3, <1>4, <1>5

(* Every step keeps PlanInv.                                               *)
LEMMA PlanStep ==
  ASSUME PlanInv, [Next]_vars
  PROVE  PlanInv'
<1>0. None \notin Sessions
  BY PartySessionAssumption
<1>1. ASSUME NEW s \in Sessions, NEW r \in Requests, Begin(s, r) PROVE PlanInv'
  <2>1. /\ req[s] = None /\ req'[s] = r /\ todo'[s] = Plan(r) /\ locked' = locked
        /\ \A o \in Sessions \ {s} : req'[o] = req[o] /\ todo'[o] = todo[o]
    BY <1>1 DEF Begin, PlanInv, PlanTyped
  <2>2. PlanTyped'
    BY <1>1, PlanIs DEF Begin, PlanInv, PlanTyped
  <2>3. Len(Plan(r)) \in Nat /\ r # None
    BY PlanIs, RequestsAre
  <2>4. Follows(s)'
    <3>1. Done(s)' = 0
      BY <2>1, <2>3 DEF Done
    <3>2. \A x \in Rows : locked'[x] # s
      BY <2>1 DEF PlanInv
    <3> QED BY <2>1, <2>3, <3>1, <3>2 DEF Follows, Held
  <2>5. \A o \in Sessions \ {s} : Follows(o) => Follows(o)'
    BY <2>1, FollowsStays
  <2> QED BY <2>1, <2>2, <2>3, <2>4, <2>5 DEF PlanInv
<1>2. ASSUME NEW s \in Sessions, Select(s) PROVE PlanInv'
  <2> DEFINE h == Head(todo[s])
             p == Plan(req[s])
             d == Done(s)
  <2>1. /\ req' = req /\ todo' \in [Sessions -> Seq(Selects)]
        /\ \A o \in Sessions \ {s} : todo'[o] = todo[o]
    BY <1>2, SelectIs
  <2>2. /\ req[s] \in Requests /\ Follows(s) /\ Len(todo[s]) \in Nat \ {0}
        /\ h = p[d + 1]
        /\ h.lock => \E x \in Lockable : h = Lock(x)
    BY <1>2, SelectIs
  <2>3. /\ Len(todo'[s]) = Len(todo[s]) - 1
        /\ \A i \in 1 .. Len(todo'[s]) : todo'[s][i] = todo[s][i + 1]
    BY <1>2, SelectIs
  <2>4. d \in Nat
    BY <1>2, SelectIs
  <2>5. Done(s)' = d + 1
    BY <1>2, SelectIs
  <2>6. \A i \in 1 .. Len(todo'[s]) : todo'[s][i] = p[Done(s)' + i]
    <3> TAKE i \in 1 .. Len(todo'[s])
    <3>1. Len(todo'[s]) = Len(todo[s]) - 1 /\ Len(todo[s]) \in Nat /\ d \in Nat
      BY <2>2, <2>3, <2>4
    <3>2. i + 1 \in 1 .. Len(todo[s]) /\ d + (i + 1) = Done(s)' + i
      BY <2>5, <3>1
    <3>3. todo[s][i + 1] = p[d + (i + 1)]
      BY <2>2, <3>2 DEF Follows
    <3> QED BY <2>3, <3>2, <3>3
  <2>7. \A x : Held(s, x)' <=> Held(s, x) \/ h = Lock(x)
    <3>1. \A x : Held(s, x)' <=> \E j \in 1 .. d + 1 : p[j] = Lock(x)
      BY <2>1, <2>5 DEF Held
    <3>2. \A x : Held(s, x) <=> \E j \in 1 .. d : p[j] = Lock(x)
      BY DEF Held
    <3>3. d \in Nat /\ h = p[d + 1]
      BY <2>2, <2>4
    <3> HIDE DEF d, p, h
    <3> QED BY <3>1, <3>2, <3>3
  <2>8. /\ locked' \in [Rows -> Sessions \cup {None}]
        /\ \A x \in Rows : locked'[x] = s <=> locked[x] = s \/ h = Lock(x)
        /\ \A o \in Sessions \ {s}, x \in Rows : locked'[x] = o <=> locked[x] = o
    <3>1. locked \in [Rows -> Sessions \cup {None}]
      BY DEF PlanInv, PlanTyped
    <3>2. CASE h.lock
      <4>1. PICK y \in Lockable : h = Lock(y)
        BY <2>2, <3>2
      <4>2. h.rows = {y} /\ y \in Rows /\ \A x : h = Lock(x) <=> x = y
        BY <4>1, SelectsTyped, RowsAre
      <4>3. locked' = [x \in Rows |-> IF x = y THEN s ELSE locked[x]]
        BY <1>2, <3>2, <4>2 DEF Select
      <4>4. locked[y] \in {s, None}
        BY <1>2, <3>2, <4>2 DEF Select, CanSelect, Free
      <4> QED BY <1>0, <3>1, <4>2, <4>3, <4>4
    <3>3. CASE ~h.lock
      <4>1. locked' = locked /\ \A x : h # Lock(x)
        BY <1>2, <3>3, SelectsTyped DEF Select
      <4> QED BY <3>1, <4>1
    <3> QED BY <3>2, <3>3
  <2>9. Follows(s)'
    <3>1. \A x \in Rows : locked[x] = s <=> Held(s, x)
      BY <2>2 DEF Follows
    <3>2. Done(s)' \in Nat
      BY <2>4, <2>5
    <3>3. \A x \in Rows : locked'[x] = s <=> Held(s, x)'
      BY <2>7, <2>8, <3>1
    <3>4. \A i \in 1 .. Len(todo'[s]) : todo'[s][i] = Plan(req'[s])[Done(s)' + i]
      BY <2>1, <2>6
    <3> QED BY <3>2, <3>3, <3>4 DEF Follows
  <2>10. \A o \in Sessions \ {s} : Follows(o) => Follows(o)'
    BY <2>1, <2>8, FollowsStays
  <2>11. PlanTyped'
    BY <2>1, <2>8 DEF PlanInv, PlanTyped
  <2>12. ASSUME NEW o \in Sessions, req'[o] = None
         PROVE  todo'[o] = <<>> /\ \A x \in Rows : locked'[x] # o
    <3>1. o # s /\ req[o] = None
      BY <2>1, <2>2, <2>12, RequestsAre
    <3> QED BY <2>1, <2>8, <3>1 DEF PlanInv
  <2> QED BY <2>1, <2>9, <2>10, <2>11, <2>12 DEF PlanInv
<1>3. ASSUME NEW s \in Sessions, Close(s) PROVE PlanInv'
  <2>1. /\ req'[s] = None /\ todo'[s] = <<>>
        /\ \A o \in Sessions \ {s} : req'[o] = req[o] /\ todo'[o] = todo[o]
        /\ \A x \in Rows : locked'[x] = IF locked[x] = s THEN None ELSE locked[x]
    BY <1>3 DEF Close, PlanInv, PlanTyped
  <2>2. PlanTyped'
    BY <1>3, EmptySeq DEF Close, PlanInv, PlanTyped
  <2>3. \A o \in Sessions \ {s} : Follows(o) => Follows(o)'
    BY <1>0, <2>1, FollowsStays
  <2>4. \A x \in Rows : locked'[x] # s
    BY <1>0, <2>1
  <2> QED BY <1>0, <2>1, <2>2, <2>3, <2>4 DEF PlanInv
<1>4. CASE UNCHANGED vars
  <2>1. UNCHANGED <<locked, req, todo>>
    BY <1>4 DEF vars
  <2>2. \A o \in Sessions : Follows(o) => Follows(o)'
    BY <2>1, FollowsStays
  <2> QED BY <2>1, <2>2 DEF PlanInv, PlanTyped
<1> QED BY <1>1, <1>2, <1>3, <1>4, StepIs

(* A session that waits does so for a row that another one has locked.     *)
Waits(s) == req[s] # None /\ todo[s] # <<>> /\ ~CanSelect(s)
LEMMA WaitsFor ==
  ASSUME PlanInv, NEW s \in Sessions, Waits(s)
  PROVE  \E y \in Lockable :
           /\ Plan(req[s])[Done(s) + 1] = Lock(y)
           /\ \E o \in Sessions \ {s} : locked[y] = o /\ req[o] # None
<1>1. /\ req[s] \in Requests
      /\ Head(todo[s]) = Plan(req[s])[Done(s) + 1]
      /\ Head(todo[s]).lock => \E x \in Lockable : Head(todo[s]) = Lock(x)
  BY NextSelect DEF Waits
<1>2. Head(todo[s]).lock
  BY DEF Waits, CanSelect
<1>3. PICK y \in Lockable : Head(todo[s]) = Lock(y)
  BY <1>1, <1>2
<1>4. Head(todo[s]).rows = {y} /\ y \in Rows
  BY <1>3, SelectsTyped, RowsAre
<1>5. locked[y] \notin {s, None}
  BY <1>2, <1>4 DEF Waits, CanSelect, Free
<1>6. locked[y] \in Sessions \ {s}
  BY <1>4, <1>5 DEF PlanInv, PlanTyped
<1>7. req[locked[y]] # None
  BY <1>4, <1>6 DEF PlanInv
<1> QED BY <1>1, <1>3, <1>6, <1>7

(* A session that has a row locked waits for a later one.                  *)
LEMMA WaitsRising ==
  ASSUME PlanInv, NEW s \in Sessions, Waits(s), NEW x \in Lockable, locked[x] = s
  PROVE  \E y \in Lockable :
           /\ \E o \in Sessions \ {s} : locked[y] = o /\ req[o] # None
           /\ x = Match => y # Match
           /\ x = Party => y \in UserRows
           /\ x \in UserRows => y \in UserRows /\ locked[Match] = s
<1>1. PICK y \in Lockable :
        /\ Plan(req[s])[Done(s) + 1] = Lock(y)
        /\ \E o \in Sessions \ {s} : locked[y] = o /\ req[o] # None
  BY WaitsFor
<1>2. /\ req[s] \in Requests /\ Follows(s) /\ Done(s) + 1 \in 1 .. Len(Plan(req[s]))
      /\ Len(Plan(req[s])) \in Nat /\ Done(s) \in Nat
  BY NextSelect, PlanIs DEF Waits, Follows
<1>3. PICK j \in 1 .. Done(s) : Plan(req[s])[j] = Lock(x)
  BY <1>2, RowsAre DEF Follows, Held
<1>4. j \in 1 .. Len(Plan(req[s])) /\ j < Done(s) + 1
  BY <1>2, <1>3
<1>5. /\ x = Match => y # Match
      /\ x = Party => y \in UserRows
      /\ x \in UserRows => y \in UserRows /\ req[s].op = "settle"
  BY <1>1, <1>2, <1>3, <1>4, PlanRises
<1>6. req[s].op = "settle" => locked[Match] = s
  <2>1. req[s].op = "settle" => Plan(req[s])[1] = Lock(Match)
    BY <1>2, PlanLocks
  <2>2. 1 \in 1 .. Done(s)
    BY <1>2, <1>3
  <2> QED BY <1>2, <2>1, <2>2, RowsAre DEF Follows, Held
<1> QED BY <1>1, <1>5, <1>6

(* The table's row is locked before the party's, and that before users'.   *)
LEMMA NobodyStands == PlanInv => NoStandstill
<1> SUFFICES ASSUME PlanInv, \A s \in Sessions : req[s] # None => Waits(s),
                    NEW s \in Sessions, req[s] # None
             PROVE  FALSE
  BY DEF NoStandstill, Waits
<1> DEFINE Holds(x) == \E o \in Sessions : locked[x] = o /\ req[o] # None
<1>1. ASSUME NEW x \in UserRows, Holds(x) PROVE FALSE
  <2>1. PICK o \in Sessions : locked[x] = o /\ req[o] # None
    BY <1>1
  <2>2. PICK y \in Lockable :
          /\ \E q \in Sessions \ {o} : locked[y] = q /\ req[q] # None
          /\ y \in UserRows /\ locked[Match] = o
    BY <2>1, WaitsRising DEF Lockable
  <2>3. PICK q \in Sessions \ {o} : locked[y] = q /\ req[q] # None
    BY <2>2
  <2>4. locked[Match] = q
    BY <2>2, <2>3, WaitsRising
  <2> QED BY <2>2, <2>3, <2>4
<1>2. ASSUME Holds(Party) PROVE FALSE
  <2>1. Party \in Lockable
    BY DEF Lockable
  <2>2. \E y \in UserRows : Holds(y)
    BY <1>2, <2>1, WaitsRising
  <2> QED BY <1>1, <2>2
<1>3. ASSUME Holds(Match) PROVE FALSE
  <2>1. Match \in Lockable
    BY DEF Lockable
  <2>2. \E y \in Lockable : y # Match /\ Holds(y)
    BY <1>3, <2>1, WaitsRising
  <2> QED BY <1>1, <1>2, <2>2 DEF Lockable
<1>4. \E y \in Lockable : Holds(y)
  BY WaitsFor
<1> QED BY <1>1, <1>2, <1>3, <1>4 DEF Lockable

(* "Every mutation locks the party row first, then user rows": however     *)
(* many sessions there are, they never all wait for one another.           *)
THEOREM SomebodyGoesOn == Spec => []NoStandstill
<1>1. PlanInv /\ [Next]_vars => PlanInv'
  BY PlanStep
<1> QED BY <1>1, PlanStart, NobodyStands, PTL DEF Spec

----------------------------------------------------------------------------
(* The copies.  A session has loaded the rows its plan has selected so     *)
(* far; what it has loaded under a lock is current, and no user's balance  *)
(* that it has loaded is below zero.                                       *)
Loaded(s, x) ==
  \/ x \in Preloaded(req[s])
  \/ \E j \in 1 .. Done(s) : x \in Plan(req[s])[j].rows
Current(s) ==
  \A x \in Rows :
    /\ copy[s][x] # None <=> Loaded(s, x)
    /\ copy[s][x] # None /\ x \notin Early(req[s]) => copy[s][x] = row[x]
    /\ copy[s][x] # None /\ x \in UserRows => copy[s][x] >= 0
CopyInv == \A s \in Sessions : req[s] # None => Current(s)

(* The lock that guards a row is a row's.                                  *)
LEMMA GuardIsRow == \A x \in Rows : Guard(x) \in Rows
BY RowsAre DEF Guard

(* No amount is None.                                                      *)
LEMMA AmountsAreSome == \A n \in Int : n # None
BY PartySessionAssumption

(* What another session commits changes nothing that this one has loaded   *)
(* under its lock.                                                         *)
LEMMA OthersAgree ==
  ASSUME PlanInv, CopyInv, NEW s \in Sessions, Close(s),
         \A x \in Rows : row'[x] # row[x] => locked[Guard(x)] = s,
         NEW o \in Sessions \ {s}, req[o] # None,
         NEW x \in Rows, copy[o][x] # None, x \notin Early(req[o])
  PROVE  row'[x] = row[x]
<1>1. req[o] \in Requests
  BY DEF PlanInv, PlanTyped
<1>2. Follows(o) /\ Loaded(o, x) /\ Len(Plan(req[o])) \in Nat
  BY <1>1, PlanIs DEF PlanInv, CopyInv, Current
<1>3. x \notin Preloaded(req[o])
  BY DEF Early
<1>4. PICK j \in 1 .. Done(o) : x \in Plan(req[o])[j].rows
  BY <1>2, <1>3 DEF Loaded
<1>5. Done(o) \in Nat /\ Done(o) <= Len(Plan(req[o]))
  <2>1. todo[o] \in Seq(Selects)
    BY DEF PlanInv, PlanTyped
  <2>2. Len(todo[o]) \in Nat
    BY <2>1, LenProperties
  <2>3. Done(o) = Len(Plan(req[o])) - Len(todo[o])
    BY DEF Done
  <2>4. Done(o) \in Nat
    BY <1>2 DEF Follows
  <2>5. \A m, n, k \in Nat : k = m - n => k <= m
    OBVIOUS
  <2> QED BY <1>2, <2>2, <2>3, <2>4, <2>5
<1>6. j \in 1 .. Len(Plan(req[o]))
  BY <1>2, <1>4, <1>5
<1>7. PICK k \in 1 .. j : Plan(req[o])[k] = Lock(Guard(x))
  BY <1>4, <1>6 DEF Early
<1>8. k \in 1 .. Done(o)
  BY <1>4, <1>5, <1>7
<1>9. locked[Guard(x)] = o
  BY <1>2, <1>7, <1>8, GuardIsRow DEF Follows, Held
<1> QED BY <1>9

(* Whatever a session commits, the others' copies stay as current.         *)
LEMMA CopiesHold ==
  ASSUME TypeOK, PlanInv, CopyInv, NEW s \in Sessions, Close(s),
         \A x \in Rows : row'[x] # row[x] => locked[Guard(x)] = s
  PROVE  CopyInv'
<1> SUFFICES ASSUME NEW o \in Sessions, req'[o] # None PROVE Current(o)'
  BY DEF CopyInv
<1>1. o # s /\ req'[o] = req[o] /\ copy'[o] = copy[o] /\ todo'[o] = todo[o]
  BY DEF Close, TypeOK, PlanInv, PlanTyped
<1>2. Current(o) /\ \A x : Loaded(o, x)' <=> Loaded(o, x)
  BY <1>1 DEF CopyInv, Loaded, Done
<1>3. ASSUME NEW x \in Rows, copy[o][x] # None, x \notin Early(req[o])
      PROVE  copy[o][x] = row'[x]
  BY <1>1, <1>2, <1>3, OthersAgree DEF Current
<1> QED BY <1>1, <1>2, <1>3 DEF Current

(* A request begins with current copies, and a select makes more of them.  *)
LEMMA CopyStep ==
  ASSUME TypeOK, PlanInv, CopyInv,
         NEW s \in Sessions, (\E r \in Requests : Begin(s, r)) \/ Select(s)
  PROVE  CopyInv'
<1> SUFFICES ASSUME NEW o \in Sessions, req'[o] # None PROVE Current(o)'
  BY DEF CopyInv
<1>1. row' = row /\ row \in [Rows -> Int] /\ \A x \in UserRows : row[x] >= 0
  BY DEF Begin, Select, money, TypeOK
<1>2. CASE o # s
  <2>1. req'[o] = req[o] /\ copy'[o] = copy[o] /\ todo'[o] = todo[o]
    BY <1>2 DEF Begin, Select, TypeOK, PlanInv, PlanTyped
  <2>2. Current(o) /\ \A x : Loaded(o, x)' <=> Loaded(o, x)
    BY <2>1 DEF CopyInv, Loaded, Done
  <2> QED BY <1>1, <2>1, <2>2 DEF Current
<1>3. ASSUME NEW r \in Requests, Begin(s, r), o = s PROVE Current(o)'
  <2>1. /\ req'[s] = r /\ todo'[s] = Plan(r)
        /\ copy'[s] = [x \in Rows |-> IF x \in Preloaded(r) THEN row[x] ELSE None]
    BY <1>3 DEF Begin, TypeOK, PlanInv, PlanTyped
  <2>2. Done(s)' = 0
    <3>1. Done(s)' = Len(Plan(r)) - Len(Plan(r))
      BY <2>1 DEF Done
    <3>2. Len(Plan(r)) \in Nat
      BY PlanIs
    <3> QED BY <3>1, <3>2
  <2>3. \A x : Loaded(s, x)' <=> x \in Preloaded(r)
    BY <2>1, <2>2 DEF Loaded
  <2> QED BY <1>1, <1>3, <2>1, <2>3, AmountsAreSome DEF Current
<1>4. ASSUME Select(s), o = s PROVE Current(o)'
  <2> DEFINE d == Done(s)
             p == Plan(req[s])
             got == Head(todo[s]).rows
  <2>1. /\ req' = req /\ d \in Nat /\ Done(s)' = d + 1 /\ got = p[d + 1].rows /\ req[s] # None
    BY <1>4, SelectIs, RequestsAre
  <2>2. \A x : Loaded(s, x)' <=> Loaded(s, x) \/ x \in got
    <3>1. \A x : Loaded(s, x)' <=> x \in Preloaded(req[s]) \/ \E j \in 1 .. d + 1 : x \in p[j].rows
      BY <2>1 DEF Loaded
    <3>2. \A x : Loaded(s, x) <=> x \in Preloaded(req[s]) \/ \E j \in 1 .. d : x \in p[j].rows
      BY DEF Loaded
    <3>3. d \in Nat /\ got = p[d + 1].rows
      BY <2>1
    <3> HIDE DEF d, p, got
    <3> QED BY <3>1, <3>2, <3>3
  <2>3. copy'[s] = [x \in Rows |-> IF x \in got /\ copy[s][x] = None THEN row[x] ELSE copy[s][x]]
    BY <1>4 DEF Select, TypeOK
  <2>4. Current(s)
    BY <2>1 DEF CopyInv
  <2> HIDE DEF got
  <2> QED BY <1>1, <1>4, <2>1, <2>2, <2>3, <2>4, AmountsAreSome DEF Current
<1> QED BY <1>2, <1>3, <1>4

(* A session that decides has loaded what its request may write, holds the *)
(* locks that guard it, and has what it loaded under these as it is.       *)
LEMMA Ready ==
  ASSUME TypeOK, PlanInv, CopyInv, NEW s \in Sessions, req[s] # None, todo[s] = <<>>,
         NEW x \in Writes(req[s])
  PROVE  /\ x \in Rows /\ copy[s][x] \in Int /\ locked[Guard(x)] = s
         /\ x \notin Early(req[s]) => copy[s][x] = row[x]
         /\ x \in UserRows => copy[s][x] >= 0
<1>1. req[s] \in Requests /\ Follows(s) /\ Current(s)
  BY DEF PlanInv, PlanTyped, CopyInv
<1>2. Done(s) = Len(Plan(req[s]))
  <2>1. Len(todo[s]) = 0 /\ Len(Plan(req[s])) \in Nat
    BY <1>1, PlanIs, EmptySeq
  <2> QED BY <2>1 DEF Done
<1>3. /\ x \in Rows /\ Guard(x) \in Rows
      /\ \E j \in 1 .. Done(s) : x \in Plan(req[s])[j].rows
      /\ \E k \in 1 .. Done(s) : Plan(req[s])[k] = Lock(Guard(x))
  BY <1>1, <1>2, PlanCovers, RowsAre
<1>4. Loaded(s, x) /\ Held(s, Guard(x))
  BY <1>3 DEF Loaded, Held
<1>5. copy[s][x] # None /\ copy[s][x] \in Int \cup {None}
  BY <1>1, <1>3, <1>4 DEF Current, TypeOK
<1> QED BY <1>1, <1>3, <1>4, <1>5 DEF Current, Follows

----------------------------------------------------------------------------
(* The books: what the rows hold and what has been lost of it add up.      *)
BooksInv == TypeOK /\ PlanInv /\ CopyInv /\ PoolAddsUp /\ MoneyAddsUp

(* There are finitely many rows.                                           *)
LEMMA RowsFinite == IsFiniteSet(Users) /\ IsFiniteSet(UserRows) /\ IsFiniteSet(MemberRows)
<1>1. IsFiniteSet(Users)
  BY OrderIs
<1>2. /\ [u \in Users |-> User(u)] \in Surjection(Users, UserRows)
      /\ [u \in Users |-> Member(u)] \in Surjection(Users, MemberRows)
  BY DEF Surjection, UserRows, MemberRows
<1> QED BY <1>1, <1>2, FS_Surjection

(* A sum over the users' rows, or their memberships, is one over the users.*)
LEMMA SumOfRows ==
  ASSUME NEW f, \A x \in Rows : f[x] \in Int
  PROVE  /\ SumOver(f, UserRows) = SumOver([u \in Users |-> f[User(u)]], Users)
         /\ SumOver(f, MemberRows) = SumOver([u \in Users |-> f[Member(u)]], Users)
<1>1. IsFiniteSet(Users) /\ IsFiniteSet(UserRows) /\ IsFiniteSet(MemberRows)
  BY RowsFinite
<1>2. /\ \A u \in Users : f[User(u)] \in Int /\ f[Member(u)] \in Int
      /\ \A x \in UserRows \cup MemberRows : f[x] \in Int
  BY RowsAre
<1>3. SumOver(f, UserRows) = SumOver([u \in Users |-> f[User(u)]], Users)
  <2> DEFINE m == [u \in Users |-> f[User(u)]]
             part == [u \in Users |-> {User(u)}]
  <2>1. \A u \in Users : part[u] \subseteq UserRows /\ m[u] = SumOver(f, part[u])
    BY <1>2, RowsAre, SumSingle
  <2>2. PartSums(f, m, part, UserRows, Users)
    BY <2>1, RowsDiffer DEF PartSums, UserRows
  <2> HIDE DEF m, part
  <2>3. SumOver(m, Users) = SumOver(f, UserRows)
    BY <1>1, <1>2, <2>2, SumByPart
  <2> QED BY <2>3 DEF m
<1>4. SumOver(f, MemberRows) = SumOver([u \in Users |-> f[Member(u)]], Users)
  <2> DEFINE m == [u \in Users |-> f[Member(u)]]
             part == [u \in Users |-> {Member(u)}]
  <2>1. \A u \in Users : part[u] \subseteq MemberRows /\ m[u] = SumOver(f, part[u])
    BY <1>2, RowsAre, SumSingle
  <2>2. PartSums(f, m, part, MemberRows, Users)
    BY <2>1, RowsDiffer DEF PartSums, MemberRows
  <2> HIDE DEF m, part
  <2>3. SumOver(m, Users) = SumOver(f, MemberRows)
    BY <1>1, <1>2, <2>2, SumByPart
  <2> QED BY <2>3 DEF m
<1> QED BY <1>3, <1>4

(* What a commit changes the rows by, what it overwrites made up for.      *)
Changes(b, e, pool) ==
  /\ b \in [Users -> Int] /\ e \in [Users -> Int] /\ pool \in Int
  /\ \A u \in Users : /\ Owed'[User(u)] = Owed[User(u)] + b[u]
                      /\ Owed'[Member(u)] = Owed[Member(u)] + e[u]
  /\ Owed'[Party] = Owed[Party] + pool

(* The sums change by the sums of the changes.                             *)
LEMMA ChangesAddUp ==
  ASSUME \A x \in Rows : Owed[x] \in Int /\ Owed'[x] \in Int,
         NEW b, NEW e, NEW pool, Changes(b, e, pool)
  PROVE  /\ SumOver(Owed, UserRows) \in Int /\ SumOver(Owed, MemberRows) \in Int
         /\ SumOver(b, Users) \in Int /\ SumOver(e, Users) \in Int
         /\ SumOver(Owed, UserRows)' = SumOver(Owed, UserRows) + SumOver(b, Users)
         /\ SumOver(Owed, MemberRows)' = SumOver(Owed, MemberRows) + SumOver(e, Users)
<1>1. IsFiniteSet(Users) /\ IsFiniteSet(UserRows) /\ IsFiniteSet(MemberRows)
  BY RowsFinite
<1> DEFINE f == [u \in Users |-> Owed[User(u)]]
           f1 == [u \in Users |-> Owed'[User(u)]]
           g == [u \in Users |-> Owed[Member(u)]]
           g1 == [u \in Users |-> Owed'[Member(u)]]
<1>2. /\ SumOver(Owed, UserRows) = SumOver(f, Users)
      /\ SumOver(Owed, MemberRows) = SumOver(g, Users)
  BY SumOfRows
<1>3. PICK owed : owed = Owed'
  OBVIOUS
<1>4. /\ SumOver(owed, UserRows) = SumOver([u \in Users |-> owed[User(u)]], Users)
      /\ SumOver(owed, MemberRows) = SumOver([u \in Users |-> owed[Member(u)]], Users)
  BY <1>3, SumOfRows
<1>5. /\ SumOver(Owed, UserRows)' = SumOver(f1, Users)
      /\ SumOver(Owed, MemberRows)' = SumOver(g1, Users)
  BY <1>3, <1>4
<1>6. SumOver(Owed, UserRows) \in Int /\ SumOver(Owed, MemberRows) \in Int
  BY <1>1, RowsAre, SumInt
<1>7. /\ \A u \in Users : f[u] \in Int /\ b[u] \in Int /\ f1[u] = f[u] + b[u]
      /\ \A u \in Users : g[u] \in Int /\ e[u] \in Int /\ g1[u] = g[u] + e[u]
  BY RowsAre DEF Changes
<1> HIDE DEF f, f1, g, g1
<1>8. /\ SumOver(f1, Users) = SumOver(f, Users) + SumOver(b, Users)
      /\ SumOver(g1, Users) = SumOver(g, Users) + SumOver(e, Users)
      /\ SumOver(b, Users) \in Int /\ SumOver(e, Users) \in Int
  BY <1>1, <1>7, SumPlus, SumInt
<1> QED BY <1>2, <1>5, <1>6, <1>8

(* What is owed for a row is an amount.                                    *)
LEMMA OwedIs == TypeOK => \A x \in Rows : Owed[x] = row[x] + lost[x] /\ Owed[x] \in Int
BY DEF TypeOK, Owed

(* What the seats were funded with is an amount.                           *)
LEMMA StakeIs ==
  seats = None \/ seats \in Seats => Stake \in Nat
<1>1. IsFiniteSet(Users) /\ \A st \in Seats : \A u \in Users : st.share[u] \in Nat
  BY OrderIs DEF Seats
<1>2. \A st \in Seats : SumOver(st.share, Users) \in Nat
  BY <1>1, SumNat
<1> QED BY <1>2 DEF Stake

(* A commit that changes the pool by what it changes the entitlements, and *)
(* moves money but makes none, keeps the books.                            *)
LEMMA Commits ==
  ASSUME BooksInv, NEW s \in Sessions, Close(s), TypeOK',
         NEW b, NEW e, NEW pool, Changes(b, e, pool),
         \A x \in Rows : row'[x] # row[x] => locked[Guard(x)] = s,
         pool = SumOver(e, Users),
         custody' = custody + SumOver(b, Users) + pool + Stake' - Stake
  PROVE  TypeOK' /\ CopyInv' /\ PoolAddsUp' /\ MoneyAddsUp'
<1>1. \A x \in Rows : Owed[x] \in Int /\ Owed'[x] \in Int
  <2>1. TypeOK
    BY DEF BooksInv
  <2>2. \A x \in Rows : Owed[x] \in Int
    BY <2>1, OwedIs
  <2>3. \A x \in Rows : Owed'[x] \in Int
    BY DEF Owed, TypeOK
  <2> QED BY <2>2, <2>3
<1>2. /\ SumOver(Owed, UserRows) \in Int /\ SumOver(Owed, MemberRows) \in Int
      /\ SumOver(b, Users) \in Int /\ SumOver(e, Users) \in Int
      /\ SumOver(Owed, UserRows)' = SumOver(Owed, UserRows) + SumOver(b, Users)
      /\ SumOver(Owed, MemberRows)' = SumOver(Owed, MemberRows) + SumOver(e, Users)
  BY <1>1, ChangesAddUp
<1>3. /\ Owed[Party] = SumOver(Owed, MemberRows) /\ Owed[Party] \in Int
      /\ SumOver(Owed, UserRows) + Owed[Party] + Stake = custody /\ custody \in Int
  BY <1>1, RowsAre DEF BooksInv, TypeOK, PoolAddsUp, MoneyAddsUp
<1>4. Stake \in Int /\ Stake' \in Int
  <2>1. Stake \in Nat
    BY StakeIs DEF BooksInv, TypeOK
  <2>2. (seats = None \/ seats \in Seats)'
    BY DEF TypeOK
  <2>3. (Stake \in Nat)'
    BY <2>2, StakeIs, PTL
  <2> QED BY <2>1, <2>3
<1>5. Owed'[Party] = Owed[Party] + pool /\ pool \in Int
  BY DEF Changes
<1>6. PoolAddsUp'
  BY <1>2, <1>3, <1>5 DEF PoolAddsUp
<1>7. MoneyAddsUp'
  <2>1. SumOver(Owed, UserRows)' + Owed'[Party] + Stake' = custody'
    BY <1>2, <1>3, <1>4, <1>5
  <2> QED BY <2>1 DEF MoneyAddsUp
<1>8. CopyInv'
  BY CopiesHold DEF BooksInv
<1> QED BY <1>6, <1>7, <1>8

(* A decision adds to the rows: what it has loaded under a lock is as it   *)
(* is, and what it overwrites else is counted as lost.                     *)
LEMMA AddIs ==
  ASSUME BooksInv, NEW s \in Sessions, req[s] # None, todo[s] = <<>>,
         NEW b \in [Users -> Int], NEW e \in [Users -> Int], NEW pool \in Int,
         Add(s, b, e, pool),
         \A u \in Users : /\ b[u] # 0 => User(u) \in Writes(req[s])
                          /\ e[u] # 0 => Member(u) \in Writes(req[s])
                          /\ b[u] # 0 => copy[s][User(u)] + b[u] >= 0,
         pool # 0 => Party \in Writes(req[s])
  PROVE  /\ Changes(b, e, pool)
         /\ \A x \in Rows : row'[x] # row[x] => locked[Guard(x)] = s
         /\ row' \in [Rows -> Int] /\ lost' \in [Rows -> Int]
         /\ \A x \in UserRows : row'[x] >= 0
<1>1. \A x \in Writes(req[s]) : /\ x \in Rows /\ copy[s][x] \in Int /\ locked[Guard(x)] = s
                                /\ x \notin Early(req[s]) => copy[s][x] = row[x]
  BY Ready DEF BooksInv
<1>2. /\ row \in [Rows -> Int] /\ lost \in [Rows -> Int]
      /\ \A x \in UserRows : row[x] >= 0
  BY DEF BooksInv, TypeOK
<1> DEFINE change(r) == CASE r[1] = "user"   -> b[r[2]]
                          [] r[1] = "member" -> e[r[2]]
                          [] r[1] = "party"  -> pool
                          [] r[1] = "match"  -> 0
<1>3. /\ row' = [r \in Rows |-> IF change(r) = 0 THEN row[r] ELSE copy[s][r] + change(r)]
      /\ lost' = [r \in Rows |-> IF change(r) # 0 /\ r \in Early(req[s])
                                   THEN lost[r] + row[r] - copy[s][r] ELSE lost[r]]
  BY DEF Add
<1>4. /\ \A u : change(User(u)) = b[u] /\ change(Member(u)) = e[u]
      /\ change(Party) = pool /\ change(Match) = 0
  BY DEF User, Member, Party, Match
<1> HIDE DEF change
<1>5. \A x \in Rows : change(x) \in Int /\ (change(x) # 0 => x \in Writes(req[s]))
  BY <1>4 DEF Rows, UserRows, MemberRows
<1>6. row' \in [Rows -> Int] /\ lost' \in [Rows -> Int]
  BY <1>1, <1>2, <1>3, <1>5
<1>7. \A x \in Rows : Owed'[x] = Owed[x] + change(x)
  <2> TAKE x \in Rows
  <2>1. Owed[x] = row[x] + lost[x] /\ Owed'[x] = row'[x] + lost'[x]
    BY DEF Owed
  <2>2. row[x] \in Int /\ lost[x] \in Int /\ change(x) \in Int
    BY <1>2, <1>5
  <2>3. CASE change(x) = 0
    BY <1>3, <2>1, <2>2, <2>3
  <2>4. CASE change(x) # 0 /\ x \in Early(req[s])
    <3>1. copy[s][x] \in Int
      BY <1>1, <1>5, <2>4
    <3>2. row'[x] = copy[s][x] + change(x) /\ lost'[x] = lost[x] + row[x] - copy[s][x]
      BY <1>3, <2>4
    <3> QED BY <2>1, <2>2, <3>1, <3>2
  <2>5. CASE change(x) # 0 /\ x \notin Early(req[s])
    <3>1. copy[s][x] = row[x]
      BY <1>1, <1>5, <2>5
    <3>2. row'[x] = copy[s][x] + change(x) /\ lost'[x] = lost[x]
      BY <1>3, <2>5
    <3> QED BY <2>1, <2>2, <3>1, <3>2
  <2> QED BY <2>3, <2>4, <2>5
<1>8. \A x \in Rows : row'[x] # row[x] => locked[Guard(x)] = s
  BY <1>1, <1>3, <1>5
<1>9. \A x \in UserRows : row'[x] >= 0
  <2> TAKE x \in UserRows
  <2>1. PICK u \in Users : x = User(u)
    BY DEF UserRows
  <2>2. x \in Rows /\ change(x) = b[u]
    BY <1>4, <2>1, RowsAre
  <2>3. CASE change(x) = 0
    BY <1>2, <1>3, <2>2, <2>3
  <2>4. CASE change(x) # 0
    BY <1>3, <2>1, <2>2, <2>4
  <2> QED BY <2>3, <2>4
<1>10. Changes(b, e, pool)
  <2>1. \A u \in Users : User(u) \in Rows /\ Member(u) \in Rows
    BY RowsAre
  <2> QED BY <1>4, <1>7, <2>1, RowsAre DEF Changes
<1> QED BY <1>6, <1>8, <1>9, <1>10

(* One user's change is the whole change.                                  *)
LEMMA OnlyIs ==
  ASSUME NEW u \in Users, NEW a \in Int
  PROVE  /\ Only(u, a) \in [Users -> Int] /\ Nobody \in [Users -> Int]
         /\ SumOver(Only(u, a), Users) = a /\ SumOver(Nobody, Users) = 0
<1>1. PICK f, n : f = Only(u, a) /\ n = Nobody
  OBVIOUS
<1>2. /\ \A v \in Users : f[v] = (IF v = u THEN a ELSE 0) /\ n[v] = 0
      /\ f \in [Users -> Int] /\ n \in [Users -> Int]
  BY <1>1 DEF Only, Nobody
<1>3. SumOver(n, Users) = 0
  BY <1>2, OrderIs, SumZero
<1>4. SumOver(f, Users) = SumOver(n, Users) + f[u] - n[u]
  BY <1>2, OrderIs, SumUpdate
<1> QED BY <1>1, <1>2, <1>3, <1>4

(* A decision that moves money, makes none, and overdraws nobody keeps the *)
(* books.                                                                  *)
LEMMA Decision ==
  ASSUME BooksInv, NEW s \in Sessions, req[s] # None, todo[s] = <<>>, Close(s),
         NEW b \in [Users -> Int], NEW e \in [Users -> Int], NEW pool \in Int,
         Add(s, b, e, pool),
         \A u \in Users : /\ b[u] # 0 => User(u) \in Writes(req[s])
                          /\ e[u] # 0 => Member(u) \in Writes(req[s])
                          /\ b[u] # 0 => copy[s][User(u)] + b[u] >= 0,
         pool # 0 => Party \in Writes(req[s]),
         pool = SumOver(e, Users),
         seats' = None \/ seats' \in Seats,
         custody' = custody + SumOver(b, Users) + pool + Stake' - Stake
  PROVE  TypeOK' /\ CopyInv' /\ PoolAddsUp' /\ MoneyAddsUp'
<1>1. /\ Changes(b, e, pool)
      /\ \A x \in Rows : row'[x] # row[x] => locked[Guard(x)] = s
      /\ row' \in [Rows -> Int] /\ lost' \in [Rows -> Int]
      /\ \A x \in UserRows : row'[x] >= 0
  BY AddIs
<1>2. custody' \in Int
  <2>1. SumOver(b, Users) \in Int
    BY OrderIs, SumInt
  <2>2. custody \in Int /\ Stake \in Nat
    BY StakeIs DEF BooksInv, TypeOK
  <2>3. (seats = None \/ seats \in Seats)'
    OBVIOUS
  <2>4. (Stake \in Nat)'
    BY <2>3, StakeIs, PTL
  <2> QED BY <2>1, <2>2, <2>4
<1>3. /\ locked' \in [Rows -> Sessions \cup {None}]
      /\ req' \in [Sessions -> Requests \cup {None}]
      /\ copy' \in [Sessions -> [Rows -> Int \cup {None}]]
  BY DEF Close, BooksInv, TypeOK, NothingLoaded
<1>4. TypeOK'
  BY <1>1, <1>2, <1>3 DEF TypeOK
<1> QED BY <1>1, <1>4, Commits

(* What a session that decides works with.                                 *)
LEMMA Decided ==
  ASSUME BooksInv, NEW s \in Sessions, NEW op, Decides(s, op)
  PROVE  /\ req[s] # None /\ todo[s] = <<>> /\ req[s].op = op /\ req[s] \in Requests
         /\ \A x \in Writes(req[s]) : copy[s][x] \in Int
         /\ \A x \in Writes(req[s]) \cap UserRows : copy[s][x] >= 0
         /\ Stake \in Nat /\ custody \in Int
<1>1. req[s] # None /\ todo[s] = <<>> /\ req[s].op = op
  BY DEF Decides
<1>2. TypeOK /\ PlanInv /\ CopyInv
  BY DEF BooksInv
<1>3. req[s] \in Requests
  BY <1>1, <1>2 DEF TypeOK
<1>4. /\ \A x \in Writes(req[s]) : copy[s][x] \in Int
      /\ \A x \in Writes(req[s]) \cap UserRows : copy[s][x] >= 0
  BY <1>1, <1>2, Ready
<1> QED BY <1>1, <1>2, <1>3, <1>4, StakeIs DEF TypeOK

(* A contribution moves money of the user's own into the pool.             *)
LEMMA ContributeKeeps ==
  ASSUME BooksInv, NEW s \in Sessions, Contribute(s)
  PROVE  TypeOK' /\ CopyInv' /\ PoolAddsUp' /\ MoneyAddsUp'
<1>1. PICK u, a, b, e : /\ u = req[s].who /\ a = req[s].amount
                        /\ b = Only(u, 0 - a) /\ e = Only(u, a)
  OBVIOUS
<1>2. /\ Decides(s, "contribute") /\ copy[s][User(u)] >= a
      /\ Add(s, b, e, a) /\ seats' = seats /\ custody' = custody /\ Close(s)
  BY <1>1 DEF Contribute, HasOnHand
<1>3. /\ req[s] # None /\ todo[s] = <<>> /\ req[s].op = "contribute" /\ req[s] \in Requests
      /\ \A x \in Writes(req[s]) : copy[s][x] \in Int
      /\ Stake \in Nat /\ custody \in Int
  BY <1>2, Decided
<1>4. u \in Users /\ a \in Nat
  BY <1>1, <1>3, RequestsAre
<1>5. Writes(req[s]) = {Member(u), Party, User(u)}
  BY <1>1, <1>3 DEF Writes
<1>6. /\ \A v \in Users : b[v] = (IF v = u THEN 0 - a ELSE 0) /\ e[v] = IF v = u THEN a ELSE 0
      /\ b \in [Users -> Int] /\ e \in [Users -> Int]
      /\ SumOver(b, Users) = 0 - a /\ SumOver(e, Users) = a
  <2>1. 0 - a \in Int /\ a \in Int
    BY <1>4
  <2> QED BY <1>1, <1>4, <2>1, OnlyIs DEF Only
<1>7. \A v \in Users : /\ b[v] # 0 => User(v) \in Writes(req[s])
                       /\ e[v] # 0 => Member(v) \in Writes(req[s])
                       /\ b[v] # 0 => copy[s][User(v)] + b[v] >= 0
  BY <1>2, <1>3, <1>4, <1>5, <1>6
<1>8. custody' = custody + SumOver(b, Users) + a + Stake' - Stake
  <2>1. Stake' = Stake
    BY <1>2 DEF Stake
  <2> QED BY <1>2, <1>3, <1>4, <1>6, <2>1
<1>9. seats' = None \/ seats' \in Seats
  BY <1>2 DEF BooksInv, TypeOK
<1>10. a \in Int /\ a = SumOver(e, Users) /\ Party \in Writes(req[s])
  BY <1>4, <1>5, <1>6
<1> QED BY <1>2, <1>3, <1>6, <1>7, <1>8, <1>9, <1>10, Decision

(* A member takes back from the pool what is on their account.             *)
LEMMA ReclaimKeeps ==
  ASSUME BooksInv, NEW s \in Sessions, Reclaim(s)
  PROVE  TypeOK' /\ CopyInv' /\ PoolAddsUp' /\ MoneyAddsUp'
<1>1. PICK u, a, b, e : /\ u = req[s].who /\ a = req[s].amount
                        /\ b = Only(u, a) /\ e = Only(u, 0 - a)
  OBVIOUS
<1>2. /\ Decides(s, "reclaim")
      /\ Add(s, b, e, 0 - a) /\ seats' = seats /\ custody' = custody /\ Close(s)
  BY <1>1 DEF Reclaim
<1>3. /\ req[s] # None /\ todo[s] = <<>> /\ req[s].op = "reclaim" /\ req[s] \in Requests
      /\ \A x \in Writes(req[s]) : copy[s][x] \in Int
      /\ \A x \in Writes(req[s]) \cap UserRows : copy[s][x] >= 0
      /\ Stake \in Nat /\ custody \in Int
  BY <1>2, Decided
<1>4. u \in Users /\ a \in Nat /\ User(u) \in UserRows
  BY <1>1, <1>3, RequestsAre, RowsAre
<1>5. Writes(req[s]) = {Member(u), Party, User(u)}
  BY <1>1, <1>3 DEF Writes
<1>6. /\ \A v \in Users : b[v] = (IF v = u THEN a ELSE 0) /\ e[v] = IF v = u THEN 0 - a ELSE 0
      /\ b \in [Users -> Int] /\ e \in [Users -> Int]
      /\ SumOver(b, Users) = a /\ SumOver(e, Users) = 0 - a
  <2>1. 0 - a \in Int /\ a \in Int
    BY <1>4
  <2> QED BY <1>1, <1>4, <2>1, OnlyIs DEF Only
<1>7. \A v \in Users : /\ b[v] # 0 => User(v) \in Writes(req[s])
                       /\ e[v] # 0 => Member(v) \in Writes(req[s])
                       /\ b[v] # 0 => copy[s][User(v)] + b[v] >= 0
  BY <1>3, <1>4, <1>5, <1>6
<1>8. custody' = custody + SumOver(b, Users) + (0 - a) + Stake' - Stake
  <2>1. Stake' = Stake
    BY <1>2 DEF Stake
  <2> QED BY <1>2, <1>3, <1>4, <1>6, <2>1
<1>9. seats' = None \/ seats' \in Seats
  BY <1>2 DEF BooksInv, TypeOK
<1>10. 0 - a \in Int /\ 0 - a = SumOver(e, Users) /\ Party \in Writes(req[s])
  BY <1>4, <1>5, <1>6
<1> QED BY <1>2, <1>3, <1>6, <1>7, <1>8, <1>9, <1>10, Decision

(* A share that is handed out comes from the member's own entitlement, and *)
(* what is missing from the leader's.                                      *)
LEMMA DistributeKeeps ==
  ASSUME BooksInv, NEW s \in Sessions, Distribute(s)
  PROVE  TypeOK' /\ CopyInv' /\ PoolAddsUp' /\ MoneyAddsUp'
<1>1. PICK u, a, own : /\ u = req[s].who /\ a = req[s].amount
                       /\ own = Lesser(copy[s][Member(u)], a)
  OBVIOUS
<1> DEFINE gift == a - own
<1>2. PICK b, e : /\ b = Only(u, a)
                  /\ e = [v \in Users |-> (IF v = u THEN 0 - own ELSE 0)
                                            - (IF v = Leader THEN gift ELSE 0)]
  OBVIOUS
<1>3. /\ Decides(s, "distribute") /\ (u = Leader => gift = 0)
      /\ Add(s, b, e, 0 - a) /\ seats' = seats /\ custody' = custody /\ Close(s)
  BY <1>1, <1>2 DEF Distribute
<1>4. /\ req[s] # None /\ todo[s] = <<>> /\ req[s].op = "distribute" /\ req[s] \in Requests
      /\ \A x \in Writes(req[s]) : copy[s][x] \in Int
      /\ \A x \in Writes(req[s]) \cap UserRows : copy[s][x] >= 0
      /\ Stake \in Nat /\ custody \in Int
  BY <1>3, Decided
<1>5. u \in Users /\ a \in Nat /\ Leader \in Users /\ User(u) \in UserRows
  BY <1>1, <1>4, RequestsAre, RowsAre, PartySessionAssumption
<1>6. Writes(req[s]) = {Member(Leader), Member(u), Party, User(u)}
  BY <1>1, <1>4 DEF Writes
<1>7. own \in Int /\ gift \in Int
  <2>1. copy[s][Member(u)] \in Int
    BY <1>4, <1>6
  <2> QED BY <1>1, <1>5, <2>1 DEF Lesser
<1> HIDE DEF gift
<1>8. /\ \A v \in Users : b[v] = (IF v = u THEN a ELSE 0)
      /\ b \in [Users -> Int] /\ SumOver(b, Users) = a
  <2>1. a \in Int
    BY <1>5
  <2> QED BY <1>2, <1>5, <2>1, OnlyIs DEF Only
<1>9. /\ \A v \in Users : e[v] = (IF v = u THEN 0 - own ELSE 0) - (IF v = Leader THEN gift ELSE 0)
      /\ e \in [Users -> Int]
  BY <1>2, <1>7
<1>10. 0 - a = SumOver(e, Users)
  <2>1. PICK f, g : f = Only(u, 0 - own) /\ g = Only(Leader, gift)
    OBVIOUS
  <2>2. 0 - own \in Int /\ gift \in Int
    BY <1>7
  <2>3. /\ SumOver(f, Users) = 0 - own /\ SumOver(g, Users) = gift
    BY <1>5, <2>1, <2>2, OnlyIs
  <2>4. \A v \in Users : f[v] \in Int /\ g[v] \in Int /\ e[v] = f[v] - g[v]
    BY <1>9, <2>1, <2>2 DEF Only
  <2>5. SumOver(e, Users) = SumOver(f, Users) - SumOver(g, Users)
    BY <2>4, OrderIs, SumMinus
  <2> QED BY <1>5, <1>7, <2>3, <2>5 DEF gift
<1>11. \A v \in Users : /\ b[v] # 0 => User(v) \in Writes(req[s])
                        /\ e[v] # 0 => Member(v) \in Writes(req[s])
                        /\ b[v] # 0 => copy[s][User(v)] + b[v] >= 0
  BY <1>4, <1>5, <1>6, <1>8, <1>9
<1>12. custody' = custody + SumOver(b, Users) + (0 - a) + Stake' - Stake
  <2>1. Stake' = Stake
    BY <1>3 DEF Stake
  <2> QED BY <1>3, <1>4, <1>5, <1>8, <2>1
<1>13. seats' = None \/ seats' \in Seats
  BY <1>3 DEF BooksInv, TypeOK
<1>14. 0 - a \in Int /\ Party \in Writes(req[s])
  BY <1>5, <1>6
<1> QED BY <1>3, <1>4, <1>8, <1>9, <1>10, <1>11, <1>12, <1>13, <1>14, Decision

(* A deposit brings money in.                                              *)
LEMMA DepositKeeps ==
  ASSUME BooksInv, NEW s \in Sessions, Deposit(s)
  PROVE  TypeOK' /\ CopyInv' /\ PoolAddsUp' /\ MoneyAddsUp'
<1>1. PICK u, a, b, e : /\ u = req[s].who /\ a = req[s].amount
                        /\ b = Only(u, a) /\ e = Nobody
  OBVIOUS
<1>2. /\ Decides(s, "deposit") \/ Decides(s, "credited")
      /\ Add(s, b, e, 0) /\ seats' = seats /\ custody' = custody + a /\ Close(s)
  BY <1>1 DEF Deposit
<1>3. /\ req[s] # None /\ todo[s] = <<>> /\ req[s].op \in {"deposit", "credited"}
      /\ req[s] \in Requests
      /\ \A x \in Writes(req[s]) \cap UserRows : copy[s][x] >= 0
      /\ \A x \in Writes(req[s]) : copy[s][x] \in Int
      /\ Stake \in Nat /\ custody \in Int
  BY <1>2, Decided
<1>4. u \in Users /\ a \in Nat /\ User(u) \in UserRows
  BY <1>1, <1>3, RequestsAre, RowsAre
<1>5. Writes(req[s]) = {User(u)}
  BY <1>1, <1>3 DEF Writes
<1>6. /\ \A v \in Users : b[v] = (IF v = u THEN a ELSE 0) /\ e[v] = 0
      /\ b \in [Users -> Int] /\ e \in [Users -> Int]
      /\ SumOver(b, Users) = a /\ SumOver(e, Users) = 0
  <2>1. a \in Int
    BY <1>4
  <2> QED BY <1>1, <1>4, <2>1, OnlyIs DEF Only, Nobody
<1>7. \A v \in Users : /\ b[v] # 0 => User(v) \in Writes(req[s])
                       /\ e[v] # 0 => Member(v) \in Writes(req[s])
                       /\ b[v] # 0 => copy[s][User(v)] + b[v] >= 0
  BY <1>3, <1>4, <1>5, <1>6
<1>8. custody' = custody + SumOver(b, Users) + 0 + Stake' - Stake
  <2>1. Stake' = Stake
    BY <1>2 DEF Stake
  <2> QED BY <1>2, <1>3, <1>4, <1>6, <2>1
<1>9. seats' = None \/ seats' \in Seats
  BY <1>2 DEF BooksInv, TypeOK
<1>10. 0 \in Int /\ 0 = SumOver(e, Users)
  BY <1>6
<1> QED BY <1>2, <1>3, <1>6, <1>7, <1>8, <1>9, <1>10, Decision

(* A session that is ended changes nothing.                                *)
LEMMA RollbackKeeps ==
  ASSUME BooksInv, NEW s \in Sessions, Rollback(s)
  PROVE  TypeOK' /\ CopyInv' /\ PoolAddsUp' /\ MoneyAddsUp'
<1>1. row' = row /\ lost' = lost /\ seats' = seats /\ custody' = custody /\ Close(s)
  BY DEF Rollback, money
<1>2. CopyInv'
  BY <1>1, CopiesHold DEF BooksInv
<1>3. TypeOK'
  BY <1>1 DEF Close, NothingLoaded, BooksInv, TypeOK
<1>4. Owed' = Owed /\ Stake' = Stake
  BY <1>1 DEF Owed, Stake
<1> QED BY <1>1, <1>2, <1>3, <1>4 DEF BooksInv, PoolAddsUp, MoneyAddsUp

(* A buy-in takes from the members what it takes from the pool.            *)
LEMMA QueueKeeps ==
  ASSUME BooksInv, NEW s \in Sessions, Queue(s)
  PROVE  TypeOK' /\ CopyInv' /\ PoolAddsUp' /\ MoneyAddsUp'
<1>1. PICK total, weight : /\ total = Wager * Len(Order)
                           /\ weight = [u \in Users |-> copy[s][Member(u)]]
  OBVIOUS
<1>2. PICK share \in Allocations(total, weight), split \in Splits :
        /\ Add(s, Nobody, [u \in Users |-> 0 - share[u]], 0 - total)
        /\ seats' = [share |-> share, split |-> split]
  BY <1>1 DEF Queue
<1>3. /\ Decides(s, "queue") /\ seats = None
      /\ \A u \in Users : copy[s][Member(u)] >= 0
      /\ custody' = custody /\ Close(s)
  BY <1>1 DEF Queue
<1>4. /\ req[s] # None /\ todo[s] = <<>> /\ req[s].op = "queue" /\ req[s] \in Requests
      /\ \A x \in Writes(req[s]) : copy[s][x] \in Int
      /\ Stake \in Nat /\ custody \in Int
  BY <1>3, Decided
<1>5. Writes(req[s]) = MemberRows \cup {Party}
  BY <1>4 DEF Writes
<1>6. total \in Nat
  BY <1>1, OrderIs, PartySessionAssumption
<1>7. share \in [Users -> Nat] /\ SumOver(share, Users) = total
  <2>1. \A u \in Users : weight[u] \in Nat
    BY <1>1, <1>3, <1>4, <1>5, RowsAre
  <2>2. DOMAIN weight = Users /\ IsFiniteSet(Users)
    BY <1>1, OrderIs
  <2> QED BY <1>2, <1>6, <2>1, <2>2, AllocationGives
<1>8. PICK b, e : b = Nobody /\ e = [u \in Users |-> 0 - share[u]]
  OBVIOUS
<1>9. /\ \A u \in Users : b[u] = 0 /\ e[u] = 0 - share[u] /\ share[u] \in Int
      /\ b \in [Users -> Int] /\ e \in [Users -> Int]
  BY <1>7, <1>8 DEF Nobody
<1>10. SumOver(b, Users) = 0 /\ SumOver(e, Users) = 0 - total
  <2>1. SumOver(b, Users) = 0
    BY <1>9, OrderIs, SumZero
  <2>2. \A u \in Users : b[u] \in Int /\ share[u] \in Int /\ e[u] = b[u] - share[u]
    BY <1>9
  <2>3. SumOver(e, Users) = SumOver(b, Users) - SumOver(share, Users)
    BY <2>2, OrderIs, SumMinus
  <2> QED BY <1>7, <2>1, <2>3
<1>11. seats' \in Seats /\ Stake' = total
  <2>1. seats' \in Seats
    BY <1>2, <1>7 DEF Seats
  <2>2. seats' # None
    BY <2>1, NoneAssumption
  <2> QED BY <1>2, <1>7, <2>1, <2>2 DEF Stake
<1>12. custody' = custody + SumOver(b, Users) + (0 - total) + Stake' - Stake
  <2>1. Stake = 0
    BY <1>3 DEF Stake
  <2> QED BY <1>3, <1>4, <1>6, <1>10, <1>11, <2>1
<1>13. \A v \in Users : /\ b[v] # 0 => User(v) \in Writes(req[s])
                        /\ e[v] # 0 => Member(v) \in Writes(req[s])
                        /\ b[v] # 0 => copy[s][User(v)] + b[v] >= 0
  BY <1>5, <1>9, RowsAre
<1>14. Add(s, b, e, 0 - total)
  BY <1>2, <1>8
<1>15. 0 - total \in Int /\ 0 - total = SumOver(e, Users) /\ Party \in Writes(req[s])
  BY <1>5, <1>6, <1>10
<1> QED BY <1>3, <1>4, <1>9, <1>11, <1>12, <1>13, <1>14, <1>15, Decision

(* Seats that are given up put back what they took.                        *)
LEMMA RefundKeeps ==
  ASSUME BooksInv, NEW s \in Sessions, Refund(s)
  PROVE  TypeOK' /\ CopyInv' /\ PoolAddsUp' /\ MoneyAddsUp'
<1>1. PICK b, e : b = Nobody /\ e = seats.share
  OBVIOUS
<1>2. PICK pot : pot = SumOver(e, Users)
  OBVIOUS
<1>3. /\ Decides(s, "pull out") \/ Decides(s, "aborted")
      /\ seats # None /\ Add(s, b, e, pot)
      /\ seats' = None /\ custody' = custody /\ Close(s)
  BY <1>1, <1>2 DEF Refund
<1>4. /\ req[s] # None /\ todo[s] = <<>> /\ req[s].op \in {"pull out", "aborted"}
      /\ custody \in Int
  BY <1>3, Decided
<1>5. Writes(req[s]) = MemberRows \cup {Party}
  BY <1>4 DEF Writes
<1>6. e \in [Users -> Nat]
  BY <1>1, <1>3 DEF BooksInv, TypeOK, Seats
<1>7. /\ \A u \in Users : b[u] = 0 /\ e[u] \in Nat
      /\ b \in [Users -> Int] /\ e \in [Users -> Int]
  BY <1>1, <1>6 DEF Nobody
<1>8. SumOver(b, Users) = 0 /\ pot \in Nat
  BY <1>2, <1>7, OrderIs, SumZero, SumNat
<1>9. custody' = custody + SumOver(b, Users) + pot + Stake' - Stake
  <2>1. Stake = pot /\ Stake' = 0
    BY <1>1, <1>2, <1>3 DEF Stake
  <2>2. SumOver(b, Users) = 0 /\ custody' = custody
    BY <1>3, <1>8
  <2>3. \A c \in Int, p \in Nat : c = c + 0 + p + 0 - p
    OBVIOUS
  <2> QED BY <1>4, <1>8, <2>1, <2>2, <2>3
<1>10. \A v \in Users : /\ b[v] # 0 => User(v) \in Writes(req[s])
                        /\ e[v] # 0 => Member(v) \in Writes(req[s])
                        /\ b[v] # 0 => copy[s][User(v)] + b[v] >= 0
  BY <1>5, <1>7, RowsAre
<1>11. pot \in Int /\ Party \in Writes(req[s])
  BY <1>5, <1>8
<1> QED BY <1>2, <1>3, <1>4, <1>7, <1>9, <1>10, <1>11, Decision

(* A match that is won brings in twice the stakes, and one that is lost    *)
(* takes them.                                                             *)
LEMMA SettleKeeps ==
  ASSUME BooksInv, NEW s \in Sessions, Settle(s)
  PROVE  TypeOK' /\ CopyInv' /\ PoolAddsUp' /\ MoneyAddsUp'
<1>1. PICK banked, share : banked = req[s].banked /\ share = seats.share
  OBVIOUS
<1>2. PICK won, pot : won = [u \in Users |-> 2 * share[u]] /\ pot = SumOver(share, Users)
  OBVIOUS
<1>3. /\ Decides(s, "settle") /\ seats # None /\ seats' = None /\ Close(s)
      /\ \/ /\ Add(s, IF banked THEN Nobody ELSE won, IF banked THEN won ELSE Nobody,
                      IF banked THEN 2 * pot ELSE 0)
            /\ custody' = custody + pot
         \/ /\ row' = row /\ lost' = lost
            /\ custody' = custody - pot
  BY <1>1, <1>2 DEF Settle
<1>4. /\ req[s] # None /\ todo[s] = <<>> /\ req[s].op = "settle" /\ req[s] \in Requests
      /\ \A x \in Writes(req[s]) : copy[s][x] \in Int
      /\ \A x \in Writes(req[s]) \cap UserRows : copy[s][x] >= 0
      /\ custody \in Int
  BY <1>3, Decided
<1>5. banked \in BOOLEAN
  BY <1>1, <1>4, RequestsAre
<1>6. Writes(req[s]) = UserRows \cup (IF banked THEN MemberRows \cup {Party} ELSE {})
  BY <1>1, <1>4 DEF Writes
<1>7. share \in [Users -> Nat]
  BY <1>1, <1>3 DEF BooksInv, TypeOK, Seats
<1>8. pot \in Nat /\ Stake = pot /\ Stake' = 0
  <2>1. \A u \in Users : share[u] \in Nat
    BY <1>7
  <2>2. pot \in Nat
    BY <1>2, <2>1, OrderIs, SumNat
  <2> QED BY <1>1, <1>2, <1>3, <2>2 DEF Stake
<1>9. PICK none : none = Nobody
  OBVIOUS
<1>10. /\ \A u \in Users : none[u] = 0 /\ won[u] \in Nat
       /\ none \in [Users -> Int] /\ won \in [Users -> Int]
       /\ SumOver(none, Users) = 0 /\ SumOver(won, Users) = 2 * pot
  <2>1. \A u \in Users : none[u] = 0 /\ share[u] \in Nat /\ won[u] = 2 * share[u]
    BY <1>2, <1>7, <1>9 DEF Nobody
  <2>2. none \in [Users -> Int] /\ won \in [Users -> Int]
    BY <1>2, <1>7, <1>9 DEF Nobody
  <2>3. SumOver(none, Users) = 0
    BY <2>1, OrderIs, SumZero
  <2>4. \A u \in Users : none[u] \in Int /\ share[u] \in Int /\ won[u] = none[u] + 2 * share[u]
    BY <2>1
  <2>5. SumOver(won, Users) = SumOver(none, Users) + 2 * SumOver(share, Users)
    BY <2>4, OrderIs, SumLinear
  <2> QED BY <1>2, <1>8, <2>1, <2>2, <2>3, <2>5
<1>11. CASE row' = row /\ lost' = lost /\ custody' = custody - pot
  <2>1. custody' = custody + SumOver(none, Users) + 0 + Stake' - Stake
    BY <1>4, <1>8, <1>10, <1>11
  <2>2. Changes(none, none, 0)
    <3>1. Owed' = Owed /\ \A x \in Rows : Owed[x] \in Int
      BY <1>11, OwedIs DEF Owed, BooksInv
    <3>2. \A u \in Users : User(u) \in Rows /\ Member(u) \in Rows
      BY RowsAre
    <3> QED BY <1>10, <3>1, <3>2, RowsAre DEF Changes
  <2>3. TypeOK'
    <3>1. custody' \in Int
      BY <1>4, <1>8, <1>11
    <3> QED BY <1>3, <1>11, <3>1 DEF Close, NothingLoaded, BooksInv, TypeOK
  <2> QED BY <1>3, <1>10, <1>11, <2>1, <2>2, <2>3, Commits
<1>12. CASE /\ Add(s, IF banked THEN Nobody ELSE won, IF banked THEN won ELSE Nobody,
                      IF banked THEN 2 * pot ELSE 0)
            /\ custody' = custody + pot
  <2>1. PICK b, e, pool : /\ b = (IF banked THEN none ELSE won)
                          /\ e = (IF banked THEN won ELSE none)
                          /\ pool = (IF banked THEN 2 * pot ELSE 0)
    OBVIOUS
  <2>2. Add(s, b, e, pool)
    BY <1>9, <1>12, <2>1
  <2>3. /\ b \in [Users -> Int] /\ e \in [Users -> Int] /\ pool \in Int
        /\ \A v \in Users : b[v] \in Nat /\ e[v] \in Nat
    BY <1>8, <1>10, <2>1
  <2>4. pool = SumOver(e, Users)
    BY <1>10, <2>1
  <2>5. SumOver(b, Users) + pool = 2 * pot
    BY <1>8, <1>10, <2>1
  <2>6. \A v \in Users : /\ b[v] # 0 => User(v) \in Writes(req[s])
                         /\ e[v] # 0 => Member(v) \in Writes(req[s])
    BY <1>6, <1>10, <2>1, RowsAre
  <2>7. \A v \in Users : copy[s][User(v)] + b[v] >= 0
    <3> TAKE v \in Users
    <3>1. User(v) \in Writes(req[s]) \cap UserRows
      BY <1>6, RowsAre
    <3> QED BY <1>4, <2>3, <3>1
  <2>8. pool # 0 => Party \in Writes(req[s])
    BY <1>6, <2>1
  <2>9. custody' = custody + SumOver(b, Users) + pool + Stake' - Stake
    <3>1. SumOver(b, Users) \in Int
      BY <1>8, <1>10, <2>1
    <3> QED BY <1>4, <1>8, <1>12, <2>3, <2>5, <3>1
  <2> QED BY <1>3, <1>4, <2>2, <2>3, <2>4, <2>6, <2>7, <2>8, <2>9, Decision
<1> QED BY <1>3, <1>11, <1>12

----------------------------------------------------------------------------
(* Whatever a decision does, it keeps the books.                           *)
LEMMA DecisionKeeps ==
  ASSUME BooksInv, NEW s \in Sessions,
         \/ Contribute(s) \/ Reclaim(s) \/ Distribute(s) \/ Queue(s) \/ Refund(s)
         \/ Settle(s) \/ Deposit(s) \/ Rollback(s)
  PROVE  TypeOK' /\ CopyInv' /\ PoolAddsUp' /\ MoneyAddsUp'
BY ContributeKeeps, ReclaimKeeps, DistributeKeeps, QueueKeeps, RefundKeeps, SettleKeeps,
   DepositKeeps, RollbackKeeps

(* While nothing is decided, the books stay as they are.                   *)
LEMMA SelectsKeep ==
  ASSUME BooksInv, NEW s \in Sessions, (\E r \in Requests : Begin(s, r)) \/ Select(s)
  PROVE  TypeOK' /\ CopyInv' /\ PoolAddsUp' /\ MoneyAddsUp'
<1>1. row' = row /\ lost' = lost /\ seats' = seats /\ custody' = custody
  BY DEF Begin, Select, money
<1>2. TypeOK /\ PlanInv /\ CopyInv
  BY DEF BooksInv
<1>3. CopyInv'
  BY <1>2, CopyStep
<1>4. /\ locked' \in [Rows -> Sessions \cup {None}]
      /\ req' \in [Sessions -> Requests \cup {None}]
  BY <1>2 DEF Begin, Select, TypeOK
<1>5. copy' \in [Sessions -> [Rows -> Int \cup {None}]]
  <2>1. copy \in [Sessions -> [Rows -> Int \cup {None}]] /\ row \in [Rows -> Int]
    BY <1>2 DEF TypeOK
  <2>2. ASSUME NEW r \in Requests, Begin(s, r)
        PROVE  copy' \in [Sessions -> [Rows -> Int \cup {None}]]
    <3>1. [x \in Rows |-> IF x \in Preloaded(r) THEN row[x] ELSE None] \in [Rows -> Int \cup {None}]
      BY <2>1
    <3> QED BY <2>1, <2>2, <3>1 DEF Begin
  <2>3. CASE Select(s)
    <3> DEFINE got == Head(todo[s]).rows
    <3>1. [r \in Rows |-> IF r \in got /\ copy[s][r] = None THEN row[r] ELSE copy[s][r]]
            \in [Rows -> Int \cup {None}]
      BY <2>1
    <3> QED BY <2>1, <2>3, <3>1 DEF Select
  <2> QED BY <2>2, <2>3
<1>6. TypeOK'
  BY <1>1, <1>2, <1>4, <1>5 DEF TypeOK
<1>7. Owed' = Owed /\ Stake' = Stake
  BY <1>1 DEF Owed, Stake
<1> QED BY <1>1, <1>3, <1>6, <1>7 DEF BooksInv, PoolAddsUp, MoneyAddsUp

(* At the beginning everybody has one stake, the pool is empty, and        *)
(* nothing has been lost.                                                  *)
LEMMA BooksStart == Init => BooksInv
<1> SUFFICES ASSUME Init PROVE BooksInv
  OBVIOUS
<1>1. PlanInv /\ CopyInv
  BY PlanStart DEF Init, CopyInv
<1>2. Wager \in Nat /\ Cardinality(Users) \in Nat /\ IsFiniteSet(Users)
  BY OrderIs, FS_CardinalityType, PartySessionAssumption
<1>3. TypeOK
  <2>1. Wager * Cardinality(Users) \in Int
    BY <1>2
  <2>2. \A x \in UserRows : row[x] >= 0
    BY <1>2, RowsAre DEF Init
  <2> QED BY <1>2, <2>1, <2>2 DEF Init, TypeOK, NothingLoaded
<1>4. \A x \in Rows : Owed[x] \in Int /\ Owed[x] = IF x \in UserRows THEN Wager ELSE 0
  BY <1>2 DEF Init, Owed
<1>5. /\ \A u \in Users : Owed[User(u)] = Wager
      /\ \A x \in MemberRows : Owed[x] = 0
      /\ Owed[Party] = 0
  BY <1>4, RowsAre, RowsDiffer DEF UserRows, MemberRows
<1>6. SumOver(Owed, MemberRows) = 0
  BY <1>5, RowsFinite, SumZero
<1>7. SumOver(Owed, UserRows) = Wager * Cardinality(Users)
  <2>1. PICK f : f = [u \in Users |-> Owed[User(u)]]
    OBVIOUS
  <2>2. \A u \in Users : f[u] = Wager
    BY <1>5, <2>1
  <2>3. SumOver(f, Users) = Wager * Cardinality(Users)
    BY <1>2, <2>2, SumConst
  <2> QED BY <1>4, <2>1, <2>3, SumOfRows
<1>8. MoneyAddsUp
  <2>1. Stake = 0 /\ custody = Wager * Cardinality(Users) /\ custody \in Int
    BY <1>3 DEF Init, Stake, TypeOK
  <2> QED BY <1>5, <1>7, <2>1 DEF MoneyAddsUp
<1> QED BY <1>1, <1>3, <1>5, <1>6, <1>8 DEF BooksInv, PoolAddsUp

(* Every step keeps the books.                                             *)
LEMMA BooksStep ==
  ASSUME BooksInv, [Next]_vars
  PROVE  BooksInv'
<1>1. PlanInv'
  BY PlanStep DEF BooksInv
<1>2. CASE UNCHANGED vars
  BY <1>1, <1>2 DEF vars, BooksInv, TypeOK, CopyInv, Current, Loaded, Done,
                    PoolAddsUp, MoneyAddsUp, Owed, Stake
<1>3. CASE Next
  <2>1. PICK s \in Sessions :
          \/ (\E r \in Requests : Begin(s, r)) \/ Select(s)
          \/ \/ Contribute(s) \/ Reclaim(s) \/ Distribute(s) \/ Queue(s) \/ Refund(s)
             \/ Settle(s) \/ Deposit(s) \/ Rollback(s)
    BY <1>3 DEF Next
  <2>2. TypeOK' /\ CopyInv' /\ PoolAddsUp' /\ MoneyAddsUp'
    BY <2>1, SelectsKeep, DecisionKeeps
  <2> QED BY <1>1, <2>2 DEF BooksInv
<1> QED BY <1>2, <1>3

(* The types of the tables' columns; and whatever is overwritten, no       *)
(* user's balance is ever taken below zero.                                *)
THEOREM SessionsTyped == Spec => []TypeOK
<1>1. BooksInv => TypeOK
  BY DEF BooksInv
<1> QED BY <1>1, BooksStart, BooksStep, PTL DEF Spec

(* However many handlers run at once, the pool and what its members are    *)
(* entitled to differ only by what was overwritten from copies that their  *)
(* requests had loaded before the row's lock.                              *)
THEOREM PoolStaysOwned == Spec => []PoolAddsUp
<1>1. BooksInv => PoolAddsUp
  BY DEF BooksInv
<1> QED BY <1>1, BooksStart, BooksStep, PTL DEF Spec

(* And nothing else of what was paid in, paid out or put at stake is lost. *)
THEOREM NoUpdateIsLost == Spec => []MoneyAddsUp
<1>1. BooksInv => MoneyAddsUp
  BY DEF BooksInv
<1> QED BY <1>1, BooksStart, BooksStep, PTL DEF Spec
=============================================================================
