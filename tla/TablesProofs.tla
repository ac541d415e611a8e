---------------------------- MODULE TablesProofs ----------------------------
(***************************************************************************)
(* The platform, for any users, parties, tables, team sizes, wagers and    *)
(* amounts, in six parts: the books of the wallet; parties; seats,       *)
(* stakes and pots; the inductive invariant SystemInv and what follows     *)
(* from it; the platform as an implementation of Holdings; the books of    *)
(* the whole.                                                              *)
(*                                                                         *)
(* WalletInv is inductive by itself, and every step of the wallet keeps    *)
(* the balance of the books (Unbacked) to the cent: what is credited twice *)
(* or refunded too much is in the drift, and nothing else is.  PartyInv    *)
(* needs WalletInv, and both are kept by every step of a party             *)
(* (PartyStep).                                                            *)
(*                                                                         *)
(* SystemInv joins the invariants of the wallet, of parties and of tables: *)
(* a handler of a table writes rows of all three.  A table's own part is   *)
(* that each side is funded seat by seat and party by party (Funded), and  *)
(* that its status tells its seats (Opened, Locks).  What is said of the   *)
(* leaders of seated parties (Led) holds on Postgres only: SQLite does not *)
(* enforce the foreign key that keeps a logged party.                      *)
(*                                                                         *)
(* TableStep sums up a handler of one table: whichever it is, the stakes   *)
(* it takes and gives come from and go to pockets (Bets), or the table is  *)
(* decided (Settles).                                                      *)
(***************************************************************************)
EXTENDS Tables, MoneyProofs

----------------------------------------------------------------------------
(* The books of the wallet                                                 *)

(* The fee that will stay when a payout on its way is over.                *)
FeeDue(u) == IF payout[u] = None THEN 0 ELSE payout[u].fee

(* Sums over all users.                                                    *)
Balances == SumOver(balance, Users)
Dues == SumOver([u \in Users |-> Due(u)], Users)
FeeDues == SumOver([u \in Users |-> FeeDue(u)], Users)

(* The payments that no notice has credited yet.                           *)
Arrived == paid \ credited

(* The types of the wallet.                                                *)
WalletTyped ==
  /\ balance \in [Users -> Nat]
  /\ principal \in [Users -> Nat]
  /\ rollover \in [Users -> Nat]
  /\ fees \in Nat
  /\ checkout \in [Refs -> [user : Users, amount : Amounts] \cup {None}]
  /\ seen \in [Refs -> SUBSET Notices]
  /\ paid \in SUBSET Refs
  /\ IsFiniteSet(paid)
  /\ credited \in SUBSET Refs
  /\ custody \in Int /\ drift \in Int
  /\ payout \in [Users -> Payouts \cup {None}]

(* A payout on its way is a part of the balance that it was taken from.    *)
PayoutsFair ==
  \A u \in Users :
    payout[u] # None =>
      /\ payout[u].amount > 0
      /\ payout[u].own <= payout[u].amount
      /\ payout[u].fee <= payout[u].amount
      /\ payout[u].own <= payout[u].principal
      /\ payout[u].amount <= payout[u].balance

(* Only a checkout can be paid, and only a payment is credited.            *)
CheckoutsFair ==
  /\ \A r \in paid : checkout[r] # None
  /\ credited \subseteq paid

(* Demo mode never calls the provider.                                     *)
NoProvider ==
  /\ \A u \in Users : payout[u] = None
  /\ \A r \in Refs : checkout[r] = None
  /\ drift = 0

(* The invariant of the wallet. A refund may take back the fees of payouts *)
(* on their way, so the house has earned those at least.                   *)
WalletInv ==
  /\ WalletTyped
  /\ PayoutsFair
  /\ CheckoutsFair
  /\ FeeDues <= fees
  /\ DemoMode => NoProvider

(* What a deposit adds to a rollover is at least the deposit.              *)
LEMMA RolloverType == \A a \in Nat : RolloverOn(a) \in Nat /\ RolloverOn(a) >= a
BY PercentAssumption DEF RolloverOn

(* A step that writes one balance moves the total by as much.              *)
LEMMA BalancesMove ==
  ASSUME WalletTyped, NEW u \in Users, balance' \in [Users -> Nat],
         \A v \in Users \ {u} : balance'[v] = balance[v]
  PROVE  /\ Balances \in Int
         /\ Balances' = Balances + balance'[u] - balance[u]
<1>1. \A v \in Users : balance[v] \in Int /\ balance'[v] \in Int
  BY DEF WalletTyped
<1>2. SumOver(balance', Users) = SumOver(balance, Users) + balance'[u] - balance[u]
  BY <1>1, SumUpdate, WalletAssumption
<1> QED BY <1>1, <1>2, SumInt, WalletAssumption DEF Balances

(* What is due on a payout is an amount.                                   *)
LEMMA DueType ==
  ASSUME WalletTyped, PayoutsFair, NEW u \in Users
  PROVE  Due(u) \in Nat /\ FeeDue(u) \in Nat
BY DEF WalletTyped, PayoutsFair, Payouts, Due, FeeDue

(* A step that writes one user's payout moves the totals by as much.       *)
LEMMA DuesMove ==
  ASSUME WalletTyped, PayoutsFair, WalletTyped', PayoutsFair', NEW u \in Users,
         \A v \in Users \ {u} : payout'[v] = payout[v]
  PROVE  /\ Dues \in Nat /\ FeeDues \in Nat
         /\ Dues' = Dues + Due(u)' - Due(u)
         /\ FeeDues' = FeeDues + FeeDue(u)' - FeeDue(u)
<1> DEFINE f == [v \in Users |-> Due(v)]
           g == [v \in Users |-> Due(v)']
           h == [v \in Users |-> FeeDue(v)]
           k == [v \in Users |-> FeeDue(v)']
<1>1. \A v \in Users : Due(v) \in Nat /\ FeeDue(v) \in Nat
  BY DueType
<1>2. \A v \in Users : Due(v)' \in Nat /\ FeeDue(v)' \in Nat
  BY DEF WalletTyped, PayoutsFair, Payouts, Due, FeeDue
<1>3. \A v \in Users \ {u} : Due(v)' = Due(v) /\ FeeDue(v)' = FeeDue(v)
  BY DEF Due, FeeDue
<1>4. \A v \in Users : f[v] = Due(v) /\ g[v] = Due(v)' /\ h[v] = FeeDue(v) /\ k[v] = FeeDue(v)'
  OBVIOUS
<1>5. Dues = SumOver(f, Users) /\ FeeDues = SumOver(h, Users)
  BY DEF Dues, FeeDues
<1>6. Dues' = SumOver(g, Users) /\ FeeDues' = SumOver(k, Users)
  BY DEF Dues, FeeDues
<1> HIDE DEF f, g, h, k
<1>7. SumOver(f, Users) \in Nat /\ SumOver(h, Users) \in Nat
  BY <1>1, <1>4, SumNat, WalletAssumption
<1>8. SumOver(g, Users) = SumOver(f, Users) + g[u] - f[u]
  <2>1. \A v \in Users : f[v] \in Int /\ g[v] \in Int
    BY <1>1, <1>2, <1>4
  <2>2. \A v \in Users \ {u} : g[v] = f[v]
    BY <1>3, <1>4
  <2> QED BY <2>1, <2>2, SumUpdate, WalletAssumption
<1>9. SumOver(k, Users) = SumOver(h, Users) + k[u] - h[u]
  <2>1. \A v \in Users : h[v] \in Int /\ k[v] \in Int
    BY <1>1, <1>2, <1>4
  <2>2. \A v \in Users \ {u} : k[v] = h[v]
    BY <1>3, <1>4
  <2> QED BY <2>1, <2>2, SumUpdate, WalletAssumption
<1> QED BY <1>4, <1>5, <1>6, <1>7, <1>8, <1>9

(* What a handler of tables or parties, or a match, may do to the wallet.  *)
Elsewhere == UNCHANGED <<principal, custody, providerVars>>

(* Parties, tables and matches keep the wallet's invariant.                *)
LEMMA ElsewhereKeeps ==
  ASSUME WalletInv, Elsewhere, fees' \in Nat, fees' >= fees,
         balance' \in [Users -> Nat], rollover' \in [Users -> Nat]
  PROVE  WalletInv'
<1> USE DEF WalletInv, Elsewhere, providerVars
<1>1. WalletTyped'
  BY DEF WalletTyped
<1>2. PayoutsFair' /\ CheckoutsFair' /\ (DemoMode' => NoProvider')
  BY DEF PayoutsFair, CheckoutsFair, NoProvider
<1>3. FeeDues' = FeeDues
  BY DEF FeeDues, FeeDue
<1>4. FeeDues \in Int
  BY DueType, SumInt, WalletAssumption DEF FeeDues
<1> QED BY <1>1, <1>2, <1>3, <1>4 DEF WalletTyped

(* Deposits *)
LEMMA DepositKeeps ==
  ASSUME WalletInv, NEW u \in Users, NEW a \in Amounts,
         CreditDeposit(u, a), custody' \in Int,
         seen' \in [Refs -> SUBSET Notices], CheckoutsFair',
         credited' \in SUBSET Refs, drift' \in Int, DemoMode => drift' = drift,
         UNCHANGED <<fees, checkout, paid, payout>>
  PROVE  /\ WalletInv'
         /\ Balances \in Int /\ Balances' = Balances + a
         /\ Dues' = Dues /\ fees' = fees
<1> USE DEF WalletInv
<1>1. a \in Nat /\ RolloverOn(a) \in Nat
  BY RolloverType, WalletAssumption
<1>2. WalletTyped' /\ balance'[u] = balance[u] + a
                   /\ \A v \in Users \ {u} : balance'[v] = balance[v]
  <2>1. /\ balance' \in [Users -> Nat] /\ principal' \in [Users -> Nat]
        /\ rollover' \in [Users -> Nat]
        /\ balance'[u] = balance[u] + a
        /\ \A v \in Users \ {u} : balance'[v] = balance[v]
    BY <1>1 DEF WalletTyped, CreditDeposit
  <2> QED BY <2>1 DEF WalletTyped
<1>3. PayoutsFair' /\ (DemoMode' => NoProvider')
  BY DEF PayoutsFair, NoProvider
<1>4. FeeDues' = FeeDues /\ Dues' = Dues
  BY DEF FeeDues, FeeDue, Dues, Due
<1>5. Balances \in Int /\ Balances' = Balances + a
  <2>1. Balances \in Int /\ Balances' = Balances + balance'[u] - balance[u]
    BY <1>2, BalancesMove DEF WalletTyped
  <2> QED BY <1>1, <1>2, <2>1 DEF WalletTyped
<1> QED BY <1>2, <1>3, <1>4, <1>5

(* Withdrawals *)
LEMMA TakeTakes ==
  ASSUME WalletInv, NEW u \in Users, NEW a \in Amounts, MayWithdraw(u, a), Take(u, a)
  PROVE  /\ balance' \in [Users -> Nat] /\ principal' \in [Users -> Nat]
         /\ rollover' \in [Users -> Nat]
         /\ \A v \in Users \ {u} : balance'[v] = balance[v] /\ principal'[v] = principal[v]
         /\ balance'[u] = balance[u] - a
         /\ principal'[u] = principal[u] - OwnPart(principal[u], a)
         /\ a \in Nat /\ a > 0 /\ a <= balance[u]
         /\ OwnPart(principal[u], a) \in 0 .. a
         /\ OwnPart(principal[u], a) <= principal[u]
         /\ FeeOn(principal[u], a) \in 0 .. a
         /\ fees' = fees + FeeOn(principal[u], a) /\ fees' \in Nat
<1> USE DEF WalletInv
<1>1. /\ a \in Nat /\ a > 0 /\ principal[u] \in Nat /\ balance[u] \in Nat
      /\ a <= balance[u] /\ fees \in Nat
  BY WalletAssumption DEF MayWithdraw, WalletTyped
<1>2. /\ OwnPart(principal[u], a) \in 0 .. a
      /\ OwnPart(principal[u], a) <= principal[u]
      /\ FeeOn(principal[u], a) \in 0 .. a
  <2>1. /\ OwnPart(principal[u], a) \in 0 .. a
        /\ OwnPart(principal[u], a) <= principal[u]
        /\ FeeOn(principal[u], a) \in 0 .. a - OwnPart(principal[u], a)
    BY <1>1, FeeBounds
  <2> QED BY <1>1, <2>1
<1> QED BY <1>1, <1>2 DEF Take, WalletTyped

(* Payments on their way to the users' balances *)
LEMMA PricedType ==
  ASSUME WalletInv, NEW r \in Refs
  PROVE  Priced(r) \in Nat
BY WalletAssumption DEF WalletInv, WalletTyped, Priced

(* What has arrived and is not credited yet is an amount.                  *)
LEMMA UncreditedType ==
  ASSUME WalletInv
  PROVE  /\ Uncredited \in Nat
         /\ IsFiniteSet(Arrived) /\ Arrived \subseteq Refs
<1> DEFINE f == [r \in Refs |-> Priced(r)]
<1>1. IsFiniteSet(Arrived) /\ Arrived \subseteq Refs
  BY FS_Subset DEF WalletInv, WalletTyped, Arrived
<1>2. \A r \in Arrived : f[r] \in Nat
  BY <1>1, PricedType
<1> HIDE DEF f
<1>3. SumOver(f, Arrived) \in Nat
  BY <1>1, <1>2, SumNat
<1> QED BY <1>1, <1>3 DEF Uncredited, Arrived, f

(* A payment arrives.                                                      *)
LEMMA ArrivalAdds ==
  ASSUME WalletInv, NEW r \in Refs, r \notin Arrived, Arrived' = Arrived \cup {r},
         UNCHANGED checkout
  PROVE  Uncredited' = Uncredited + Priced(r)
<1> DEFINE f == [x \in Refs |-> Priced(x)]
<1>1. IsFiniteSet(Arrived) /\ Arrived \subseteq Refs
  BY UncreditedType
<1>2. \A x \in Arrived \cup {r} : f[x] \in Int
  BY <1>1, PricedType
<1>3. f[r] = Priced(r) /\ Uncredited = SumOver(f, Arrived)
  BY DEF Uncredited, Arrived
<1>4. Uncredited' = SumOver(f, Arrived \cup {r})
  <2>1. [x \in Refs |-> Priced(x)]' = f
    BY DEF Priced
  <2> HIDE DEF f
  <2> QED BY <2>1 DEF Uncredited, Arrived
<1> HIDE DEF f
<1>5. SumOver(f, Arrived \cup {r}) = SumOver(f, Arrived) + f[r]
  BY <1>1, <1>2, SumAdd
<1> QED BY <1>3, <1>4, <1>5

(* A notice takes it from there.                                           *)
LEMMA NoticeTakes ==
  ASSUME WalletInv, NEW r \in Refs, r \in Arrived, Arrived' = Arrived \ {r},
         UNCHANGED checkout
  PROVE  Uncredited' = Uncredited - Priced(r)
<1> DEFINE f == [x \in Refs |-> Priced(x)]
<1>1. IsFiniteSet(Arrived) /\ Arrived \subseteq Refs
  BY UncreditedType
<1>2. \A x \in Arrived : f[x] \in Int
  BY <1>1, PricedType
<1>3. f[r] = Priced(r) /\ Uncredited = SumOver(f, Arrived)
  BY DEF Uncredited, Arrived
<1>4. Uncredited' = SumOver(f, Arrived \ {r})
  <2>1. [x \in Refs |-> Priced(x)]' = f
    BY DEF Priced
  <2> HIDE DEF f
  <2> QED BY <2>1 DEF Uncredited, Arrived
<1>5. IsFiniteSet(Arrived \ {r}) /\ \A x \in Arrived \ {r} : f[x] \in Int
  BY <1>1, <1>2, FS_RemoveElement
<1> HIDE DEF f
<1>6. SumOver(f, Arrived) = f[r] + SumOver(f, Arrived \ {r})
  BY <1>1, <1>2, SumRemove
<1>7. SumOver(f, Arrived \ {r}) \in Int /\ f[r] \in Int
  BY <1>2, <1>5, SumInt
<1> QED BY <1>3, <1>4, <1>6, <1>7

(* With nothing arrived and nothing taken, the sum stays.                  *)
LEMMA UncreditedStays ==
  ASSUME WalletInv, Arrived' = Arrived,
         \A r \in Arrived : Priced(r)' = Priced(r)
  PROVE  Uncredited' = Uncredited
<1> DEFINE f == [r \in Refs |-> Priced(r)]
           g == [r \in Refs |-> Priced(r)']
<1>1. IsFiniteSet(Arrived) /\ Arrived \subseteq Refs
  BY UncreditedType
<1>2. \A r \in Arrived : f[r] = g[r]
  BY <1>1
<1>3. Uncredited = SumOver(f, Arrived)
  BY DEF Uncredited, Arrived
<1>4. Uncredited' = SumOver(g, Arrived')
  BY DEF Uncredited, Arrived
<1> HIDE DEF f, g
<1>5. SumOver(f, Arrived) = SumOver(g, Arrived)
  BY <1>1, <1>2, SumSame
<1> QED BY <1>3, <1>4, <1>5

----------------------------------------------------------------------------
(* What is claimed of the provider beyond what it holds, but for the drift.*)
Unbacked == ((Balances + fees + Dues + Uncredited) - custody) - drift

(* A step that keeps the books of the wallet.                              *)
Backs == Unbacked' = Unbacked

(* The sums of the wallet's books are amounts.                             *)
LEMMA SumTypes ==
  ASSUME WalletInv
  PROVE  /\ Balances \in Nat /\ Dues \in Nat /\ FeeDues \in Nat
         /\ Uncredited \in Nat /\ fees \in Nat
         /\ custody \in Int /\ drift \in Int
<1>1. Balances \in Nat
  BY SumNat, WalletAssumption DEF WalletInv, WalletTyped, Balances
<1>2. \A u \in Users : Due(u) \in Nat /\ FeeDue(u) \in Nat
  BY DueType DEF WalletInv
<1>3. Dues \in Nat /\ FeeDues \in Nat
  BY <1>2, SumNat, WalletAssumption DEF Dues, FeeDues
<1> QED BY <1>1, <1>3, UncreditedType DEF WalletInv, WalletTyped

(* A deposit in demo mode.                                                 *)
LEMMA DemoDepositBacks ==
  ASSUME WalletInv, NEW u \in Users, NEW a \in Amounts, DemoDeposit(u, a)
  PROVE  WalletInv' /\ Backs
<1>1. CreditDeposit(u, a) /\ custody' = custody + a
      /\ UNCHANGED <<fees, checkout, seen, paid, payout, credited, drift>>
  BY DEF DemoDeposit, providerVars
<1>2. /\ custody' \in Int /\ seen' \in [Refs -> SUBSET Notices] /\ CheckoutsFair'
      /\ a \in Nat /\ credited' \in SUBSET Refs /\ drift' \in Int
  BY <1>1, WalletAssumption DEF WalletInv, WalletTyped, CheckoutsFair
<1>3. /\ WalletInv' /\ Balances' = Balances + a /\ Dues' = Dues /\ fees' = fees
  BY <1>1, <1>2, DepositKeeps
<1>4. Uncredited' = Uncredited
  BY <1>1 DEF Uncredited, Arrived, Priced
<1> QED BY <1>1, <1>2, <1>3, <1>4, SumTypes DEF Backs, Unbacked

(* A checkout moves no money.                                              *)
LEMMA StartCheckoutBacks ==
  ASSUME WalletInv, NEW u \in Users, NEW r \in Refs, NEW a \in Amounts,
         StartCheckout(u, r, a)
  PROVE  WalletInv' /\ Backs
<1> USE DEF WalletInv
<1>1. /\ ~DemoMode /\ r \notin paid
      /\ checkout' = [checkout EXCEPT ![r] = [user |-> u, amount |-> a]]
      /\ UNCHANGED <<balance, principal, rollover, fees, seen, paid, custody, payout,
                     credited, drift>>
  BY DEF StartCheckout, userVars, historyVars, CheckoutsFair
<1>2. [user |-> u, amount |-> a] \in Checkouts /\ [user |-> u, amount |-> a] # None
  BY WalletAssumption, RowAssumption DEF Checkouts
<1>3. WalletTyped'
  BY <1>1 DEF WalletTyped
<1>4. PayoutsFair' /\ CheckoutsFair' /\ (DemoMode' => NoProvider')
  BY <1>1 DEF PayoutsFair, CheckoutsFair, NoProvider, WalletTyped
<1>5. FeeDues' = FeeDues /\ Dues' = Dues /\ Balances' = Balances
  BY <1>1 DEF FeeDues, FeeDue, Dues, Due, Balances
<1>6. Uncredited' = Uncredited
  <2>1. Arrived' = Arrived /\ \A x \in Arrived : Priced(x)' = Priced(x)
    BY <1>1 DEF Arrived, Priced, WalletTyped
  <2> QED BY <2>1, UncreditedStays
<1> QED BY <1>1, <1>3, <1>4, <1>5, <1>6, SumTypes DEF Backs, Unbacked

(* A payment arrives at the provider.                                      *)
LEMMA PayCheckoutBacks ==
  ASSUME WalletInv, NEW r \in Refs, PayCheckout(r)
  PROVE  WalletInv' /\ Backs
<1> USE DEF WalletInv
<1>1. /\ checkout[r] # None /\ r \notin paid
      /\ paid' = paid \cup {r}
      /\ custody' = custody + Priced(r)
      /\ UNCHANGED <<balance, principal, rollover, fees, checkout, seen, payout,
                     credited, drift>>
  BY DEF PayCheckout, userVars, historyVars, Priced
<1>2. Priced(r) \in Nat /\ IsFiniteSet(paid \cup {r})
  BY PricedType, FS_AddElement DEF WalletTyped
<1>3. WalletTyped'
  BY <1>1, <1>2 DEF WalletTyped
<1>4. PayoutsFair' /\ CheckoutsFair' /\ (DemoMode' => NoProvider')
  BY <1>1 DEF PayoutsFair, CheckoutsFair, NoProvider
<1>5. FeeDues' = FeeDues /\ Dues' = Dues /\ Balances' = Balances
  BY <1>1 DEF FeeDues, FeeDue, Dues, Due, Balances
<1>6. Uncredited' = Uncredited + Priced(r)
  <2>1. r \notin Arrived /\ Arrived' = Arrived \cup {r}
    BY <1>1 DEF Arrived, CheckoutsFair
  <2> QED BY <1>1, <2>1, ArrivalAdds
<1> QED BY <1>1, <1>2, <1>3, <1>4, <1>5, <1>6, SumTypes DEF Backs, Unbacked

(* Markers come and go without anybody's money.                            *)
LEMMA MarkersBack ==
  ASSUME WalletInv, seen' \in [Refs -> SUBSET Notices],
         UNCHANGED <<userVars, fees, checkout, paid, custody, payout, historyVars>>
  PROVE  WalletInv' /\ Backs
<1> USE DEF userVars, historyVars
<1>1. WalletTyped' /\ PayoutsFair' /\ CheckoutsFair' /\ (DemoMode' => NoProvider')
  BY DEF WalletInv, WalletTyped, PayoutsFair, CheckoutsFair, NoProvider
<1>2. FeeDues' = FeeDues /\ Unbacked' = Unbacked
  BY DEF FeeDues, FeeDue, Unbacked, Dues, Due, Balances, Uncredited, Priced
<1> QED BY <1>1, <1>2 DEF WalletInv, Backs

(* The marker of a notice.                                                 *)
LEMMA FirstSeenTyped ==
  ASSUME WalletInv, NEW r \in Refs, NEW n \in Notices,
         FirstSeen(r, n) \/ seen' = [seen EXCEPT ![r] = seen[r] \ {n}]
  PROVE  seen' \in [Refs -> SUBSET Notices]
BY DEF FirstSeen, WalletInv, WalletTyped

(* A notice that says "paid": what it credits was waiting for it, or is    *)
(* drift.                                                                  *)
LEMMA PayedWebhookBacks ==
  ASSUME WalletInv, NEW r \in Refs, NEW n \in Notices, PayedWebhook(r, n)
  PROVE  WalletInv' /\ Backs
<1>1. /\ checkout[r] # None
      /\ n \in SuccessNotices => r \in paid
      /\ FirstSeen(r, n) /\ UNCHANGED <<fees, checkout, paid, custody, payout>>
  BY DEF PayedWebhook
<1>2. seen' \in [Refs -> SUBSET Notices]
  BY <1>1, FirstSeenTyped
<1>3. CASE n \in SuccessNotices
  <2>1. /\ CreditDeposit(checkout[r].user, checkout[r].amount)
        /\ credited' = credited \cup {r} /\ r \in paid
        /\ drift' = drift + IF r \in credited THEN checkout[r].amount ELSE 0
    BY <1>1, <1>3 DEF PayedWebhook
  <2>2. ~DemoMode /\ checkout[r].user \in Users /\ checkout[r].amount \in Amounts
        /\ Priced(r) = checkout[r].amount /\ Priced(r) \in Nat /\ custody' \in Int
    BY <1>1, WalletAssumption DEF WalletInv, NoProvider, WalletTyped, Priced
  <2>3. CheckoutsFair' /\ credited' \in SUBSET Refs /\ drift' \in Int
    BY <1>1, <2>1, <2>2 DEF WalletInv, WalletTyped, CheckoutsFair
  <2>4. /\ WalletInv' /\ Balances' = Balances + Priced(r)
        /\ Dues' = Dues /\ fees' = fees
    BY <1>1, <1>2, <2>1, <2>2, <2>3, DepositKeeps
  <2>5. Uncredited' - drift' = (Uncredited - drift) - Priced(r)
    <3>1. CASE r \in credited
      <4>1. Arrived' = Arrived /\ drift' = drift + Priced(r)
        BY <1>1, <2>1, <2>2, <3>1 DEF Arrived
      <4>2. Uncredited' = Uncredited
        BY <1>1, <4>1, UncreditedStays DEF Priced
      <4> QED BY <2>2, <4>1, <4>2, SumTypes
    <3>2. CASE r \notin credited
      <4>1. r \in Arrived /\ Arrived' = Arrived \ {r} /\ drift' = drift
        BY <1>1, <2>1, <3>2, SumTypes DEF Arrived
      <4>2. Uncredited' = Uncredited - Priced(r)
        BY <1>1, <4>1, NoticeTakes
      <4> QED BY <2>2, <4>1, <4>2, SumTypes
    <3> QED BY <3>1, <3>2
  <2>6. (Uncredited \in Nat /\ drift \in Int)'
    BY <2>4, SumTypes, PTL
  <2>7. /\ Balances \in Nat /\ fees \in Nat /\ Dues \in Nat /\ Uncredited \in Nat
        /\ custody \in Int /\ drift \in Int /\ UNCHANGED <<fees, custody>>
    BY <1>1, SumTypes
  <2>8. Backs
    BY <2>2, <2>4, <2>5, <2>6, <2>7 DEF Backs, Unbacked
  <2> QED BY <2>4, <2>8
<1>4. CASE n \notin SuccessNotices
  BY <1>1, <1>2, <1>4, MarkersBack DEF PayedWebhook, userVars, historyVars
<1> QED BY <1>3, <1>4

(* A notice whose handler dies after the marker, and a marker that goes:   *)
(* nothing is credited.                                                    *)
LEMMA PayedWebhookLostBacks ==
  ASSUME WalletInv, NEW r \in Refs, NEW n \in Notices,
         PayedWebhookLost(r, n) \/ MarkerGone(r, n)
  PROVE  WalletInv' /\ Backs
<1>1. /\ FirstSeen(r, n) \/ seen' = [seen EXCEPT ![r] = seen[r] \ {n}]
      /\ UNCHANGED <<userVars, fees, checkout, paid, custody, payout, historyVars>>
  BY DEF PayedWebhookLost, MarkerGone
<1> QED BY <1>1, FirstSeenTyped, MarkersBack

----------------------------------------------------------------------------
(* A withdrawal takes its amount from the balances.                        *)
LEMMA TakeMoves ==
  ASSUME WalletInv, NEW u \in Users, NEW a \in Amounts, MayWithdraw(u, a), Take(u, a)
  PROVE  Balances' = Balances - a /\ a \in Nat
<1>1. /\ balance' \in [Users -> Nat] /\ balance'[u] = balance[u] - a
      /\ \A v \in Users \ {u} : balance'[v] = balance[v]
      /\ a \in Nat /\ balance[u] \in Nat
  BY TakeTakes DEF WalletInv, WalletTyped
<1>2. Balances \in Int /\ Balances' = Balances + balance'[u] - balance[u]
  BY <1>1, BalancesMove DEF WalletInv
<1> QED BY <1>1, <1>2

(* A withdrawal in demo mode.                                              *)
LEMMA DemoWithdrawBacks ==
  ASSUME WalletInv, NEW u \in Users, NEW a \in Amounts, DemoWithdraw(u, a)
  PROVE  WalletInv' /\ Backs
<1> USE DEF WalletInv
<1> DEFINE fee == FeeOn(principal[u], a)
<1>1. /\ MayWithdraw(u, a) /\ Take(u, a) /\ custody' = custody - (a - fee)
      /\ UNCHANGED <<checkout, seen, paid, payout, credited, drift>>
  BY DEF DemoWithdraw, providerVars
<1>2. /\ balance' \in [Users -> Nat] /\ principal' \in [Users -> Nat]
      /\ rollover' \in [Users -> Nat]
      /\ a \in Nat /\ fee \in 0 .. a /\ fees' = fees + fee /\ fees' \in Nat
  BY <1>1, TakeTakes
<1> HIDE DEF fee
<1>3. WalletTyped'
  BY <1>1, <1>2 DEF WalletTyped
<1>4. PayoutsFair' /\ CheckoutsFair' /\ (DemoMode' => NoProvider')
  BY <1>1 DEF PayoutsFair, CheckoutsFair, NoProvider
<1>5. FeeDues' = FeeDues /\ Dues' = Dues /\ Uncredited' = Uncredited
  BY <1>1 DEF FeeDues, FeeDue, Dues, Due, Uncredited, Arrived, Priced
<1>6. Balances' = Balances - a
  BY <1>1, TakeMoves
<1>7. FeeDues' <= fees'
  BY <1>2, <1>5, SumTypes
<1>8. Backs
  BY <1>1, <1>2, <1>5, <1>6, SumTypes DEF Backs, Unbacked
<1> QED BY <1>3, <1>4, <1>7, <1>8

(* A withdrawal: the amount goes from a balance to a payout and a fee.     *)
LEMMA BeginWithdrawBacks ==
  ASSUME WalletInv, NEW u \in Users, NEW a \in Amounts, BeginWithdraw(u, a)
  PROVE  WalletInv' /\ Backs
<1> USE DEF WalletInv
<1> DEFINE fee == FeeOn(principal[u], a)
           row == [amount |-> a, own |-> OwnPart(principal[u], a), fee |-> fee,
                   balance |-> balance[u], principal |-> principal[u]]
<1>1. /\ ~DemoMode /\ payout[u] = None
      /\ MayWithdraw(u, a) /\ Take(u, a)
      /\ payout' = [payout EXCEPT ![u] = row]
      /\ UNCHANGED <<checkout, seen, paid, custody, credited, drift>>
  BY DEF BeginWithdraw, historyVars
<1>2. /\ balance' \in [Users -> Nat] /\ principal' \in [Users -> Nat]
      /\ rollover' \in [Users -> Nat]
      /\ a \in Nat /\ a > 0 /\ a <= balance[u]
      /\ OwnPart(principal[u], a) \in 0 .. a
      /\ OwnPart(principal[u], a) <= principal[u]
      /\ fee \in 0 .. a /\ fees' = fees + fee /\ fees' \in Nat
  BY <1>1, TakeTakes
<1>3. row \in Payouts /\ row # None
  <2>1. fee \in Nat /\ OwnPart(principal[u], a) \in Nat
        /\ balance[u] \in Nat /\ principal[u] \in Nat
    BY <1>2 DEF WalletTyped
  <2> HIDE DEF fee
  <2>2. row \in Payouts
    BY <1>2, <2>1 DEF Payouts
  <2> HIDE DEF row
  <2> QED BY <2>2, RowAssumption
<1>4. /\ row.amount = a /\ row.own = OwnPart(principal[u], a) /\ row.fee = fee
      /\ row.balance = balance[u] /\ row.principal = principal[u]
  OBVIOUS
<1> HIDE DEF row, fee
<1>5. WalletTyped' /\ payout'[u] = row /\ \A v \in Users \ {u} : payout'[v] = payout[v]
  BY <1>1, <1>2, <1>3 DEF WalletTyped
<1>6. PayoutsFair'
  BY <1>2, <1>4, <1>5 DEF PayoutsFair
<1>7. CheckoutsFair' /\ (DemoMode' => NoProvider')
  BY <1>1 DEF CheckoutsFair
<1>8. Uncredited' = Uncredited
  BY <1>1 DEF Uncredited, Arrived, Priced
<1>9. Balances' = Balances - a
  BY <1>1, TakeMoves
<1>10. /\ Due(u) = 0 /\ FeeDue(u) = 0 /\ Due(u)' = a - fee /\ FeeDue(u)' = fee
  BY <1>1, <1>3, <1>4, <1>5 DEF Due, FeeDue
<1>11. /\ Dues' = Dues + Due(u)' - Due(u)
       /\ FeeDues' = FeeDues + FeeDue(u)' - FeeDue(u)
  BY <1>5, <1>6, DuesMove
<1>12. FeeDues' <= fees'
  BY <1>2, <1>10, <1>11, SumTypes
<1>13. Backs
  BY <1>1, <1>2, <1>8, <1>9, <1>10, <1>11, SumTypes DEF Backs, Unbacked
<1> QED BY <1>5, <1>6, <1>7, <1>12, <1>13

(* A payout's call is over, whatever else happens.                         *)
LEMMA PayoutEnds ==
  ASSUME WalletInv, NEW u \in Users, payout[u] # None,
         payout' = [payout EXCEPT ![u] = None],
         UNCHANGED <<rollover, checkout, seen, paid, credited>>,
         balance' \in [Users -> Nat], principal' \in [Users -> Nat],
         custody' \in Int, drift' \in Int, fees' \in {fees, fees - payout[u].fee}
  PROVE  /\ WalletInv'
         /\ payout[u] \in Payouts /\ payout[u].fee <= payout[u].amount
         /\ Dues' = Dues - Due(u) /\ Due(u) \in Nat
         /\ Due(u) = payout[u].amount - payout[u].fee
         /\ Uncredited' = Uncredited
<1> USE DEF WalletInv
<1>1. payout[u] \in Payouts /\ payout[u].fee <= payout[u].amount
  BY DEF WalletTyped, PayoutsFair
<1>2. \A v \in Users \ {u} : payout'[v] = payout[v]
  BY DEF WalletTyped
<1>3. payout'[u] = None /\ payout' \in [Users -> Payouts \cup {None}]
  BY DEF WalletTyped
<1>4. payout[u].fee \in Nat /\ payout[u].amount \in Nat
  BY <1>1 DEF Payouts
<1>5. /\ Due(u)' = 0 /\ FeeDue(u)' = 0
      /\ Due(u) = payout[u].amount - payout[u].fee /\ FeeDue(u) = payout[u].fee
  BY <1>3 DEF Due, FeeDue
<1>6. PayoutsFair' /\ CheckoutsFair' /\ (DemoMode' => NoProvider')
  BY <1>2, <1>3 DEF PayoutsFair, CheckoutsFair, NoProvider
<1>7. FeeDue(u) <= FeeDues
  <2> DEFINE f == [v \in Users |-> FeeDue(v)]
  <2>1. \A v \in Users : f[v] \in Nat
    BY DueType
  <2>2. f[u] = FeeDue(u) /\ SumOver(f, Users) = FeeDues
    BY DEF FeeDues
  <2> HIDE DEF f
  <2> QED BY <2>1, <2>2, SumMember, WalletAssumption
<1>8. fees' \in Nat
  BY <1>4, <1>5, <1>7, SumTypes
<1>9. WalletTyped'
  BY <1>3, <1>8 DEF WalletTyped
<1>10. /\ Dues' = Dues + Due(u)' - Due(u)
       /\ FeeDues' = FeeDues + FeeDue(u)' - FeeDue(u)
  BY <1>2, <1>6, <1>9, DuesMove
<1>11. FeeDues' <= fees'
  BY <1>4, <1>5, <1>10, SumTypes
<1>12. Dues' = Dues - Due(u) /\ Due(u) \in Nat
  BY <1>1, <1>4, <1>5, <1>10, SumTypes
<1>13. Uncredited' = Uncredited
  BY DEF Uncredited, Arrived, Priced
<1> QED BY <1>1, <1>5, <1>6, <1>9, <1>11, <1>12, <1>13

(* The net amount leaves the provider, or nobody knows whether it did.     *)
LEMMA PayoutAcceptedBacks ==
  ASSUME WalletInv, NEW u \in Users, PayoutAccepted(u) \/ PayoutUnanswered(u)
  PROVE  WalletInv' /\ Backs
<1>1. /\ payout[u] # None
      /\ payout' = [payout EXCEPT ![u] = None]
      /\ UNCHANGED <<balance, principal, rollover, fees, checkout, seen, paid, credited>>
  BY DEF PayoutAccepted, PayoutUnanswered, userVars, historyVars
<1>2. Due(u) \in Nat /\ custody \in Int /\ drift \in Int
  BY DueType, SumTypes DEF WalletInv
<1>3. PICK sent \in {0, Due(u)} : custody' = custody - sent /\ drift' = (drift + sent) - Due(u)
  <2>1. CASE PayoutAccepted(u)
    BY <1>2, <2>1 DEF PayoutAccepted, historyVars
  <2>2. CASE PayoutUnanswered(u)
    BY <2>2 DEF PayoutUnanswered
  <2> QED BY <2>1, <2>2
<1>4. /\ balance' \in [Users -> Nat] /\ principal' \in [Users -> Nat]
      /\ custody' \in Int /\ drift' \in Int /\ sent \in Int
  BY <1>1, <1>2, <1>3 DEF WalletInv, WalletTyped
<1>5. WalletInv' /\ Dues' = Dues - Due(u) /\ Uncredited' = Uncredited
  BY <1>1, <1>4, PayoutEnds
<1>6. Balances' = Balances /\ fees' = fees
  BY <1>1 DEF Balances
<1>7. Backs
  BY <1>2, <1>3, <1>4, <1>5, <1>6, SumTypes DEF Backs, Unbacked
<1> QED BY <1>5, <1>7

(* The old row is written back and the fee returned: what that gives the   *)
(* user is what they had asked for, less what others wrote meanwhile.      *)
LEMMA PayoutRefusedBacks ==
  ASSUME WalletInv, NEW u \in Users, PayoutRefused(u)
  PROVE  WalletInv' /\ Backs
<1> DEFINE row == payout[u]
<1>1. /\ row # None
      /\ balance' = [balance EXCEPT ![u] = row.balance]
      /\ principal' = [principal EXCEPT ![u] =
                         IF row.own = 0 THEN principal[u] ELSE row.principal]
      /\ payout' = [payout EXCEPT ![u] = None]
      /\ fees' = fees - row.fee
      /\ UNCHANGED <<rollover, checkout, seen, paid, credited>>
  BY DEF PayoutRefused, Refunded
<1>2. PICK sent \in {0, Due(u)} :
        custody' = custody - sent /\ drift' = (drift + sent) - WrittenSince(u)
  BY DEF PayoutRefused
<1>3. /\ row \in Payouts /\ row.amount \in Nat /\ row.fee \in Nat
      /\ row.balance \in Nat /\ row.principal \in Nat
  <2>1. row \in Payouts
    BY <1>1 DEF WalletInv, WalletTyped
  <2> QED BY <2>1 DEF Payouts
<1>4. /\ Due(u) \in Nat /\ sent \in Int /\ custody \in Int /\ drift \in Int
      /\ balance[u] \in Nat
  BY <1>2, DueType, SumTypes DEF WalletInv, WalletTyped
<1>5. /\ WrittenSince(u) = balance[u] - (row.balance - row.amount)
      /\ WrittenSince(u) \in Int
  BY <1>1, <1>3, <1>4 DEF WrittenSince
<1>6. /\ balance' \in [Users -> Nat] /\ principal' \in [Users -> Nat]
      /\ custody' \in Int /\ drift' \in Int
  BY <1>1, <1>2, <1>3, <1>4, <1>5 DEF WalletInv, WalletTyped
<1>7. /\ WalletInv' /\ Dues' = Dues - Due(u) /\ Uncredited' = Uncredited
      /\ Due(u) = row.amount - row.fee
  BY <1>1, <1>6, PayoutEnds
<1>8. /\ balance'[u] = row.balance /\ \A v \in Users \ {u} : balance'[v] = balance[v]
  BY <1>1 DEF WalletInv, WalletTyped
<1>9. Balances' = Balances + balance'[u] - balance[u]
  BY <1>6, <1>8, BalancesMove DEF WalletInv
<1> HIDE DEF row
<1>10. Balances' = (Balances + row.amount) - WrittenSince(u)
  BY <1>3, <1>4, <1>5, <1>8, <1>9, SumTypes
<1>11. Backs
  BY <1>1, <1>2, <1>3, <1>4, <1>5, <1>7, <1>10, SumTypes DEF Backs, Unbacked
<1> QED BY <1>7, <1>11

(* The net effect of a match moves money between two users and the house.  *)
LEMMA PlayedMatchBacks ==
  ASSUME WalletInv, NEW winner \in Users, NEW loser \in Users, NEW a \in Amounts,
         PlayedMatch(winner, loser, a)
  PROVE  WalletInv' /\ Backs
<1> DEFINE gain == balance[winner] + a - Rake(2 * a)
           half == [balance EXCEPT ![winner] = gain]
<1>1. /\ a \in Nat /\ balance[winner] \in Nat /\ balance[loser] \in Nat
      /\ a <= balance[winner] /\ a <= balance[loser] /\ winner # loser
  BY WalletAssumption DEF PlayedMatch, WalletInv, WalletTyped
<1>2. Rake(2 * a) \in Nat /\ Rake(2 * a) <= 2 * a
  BY <1>1, RakeBounds
<1>3. gain \in Nat /\ gain = (balance[winner] + a) - Rake(2 * a)
  BY <1>1, <1>2
<1>4. balance' = [balance EXCEPT ![winner] = gain, ![loser] = balance[loser] - a]
  BY DEF PlayedMatch
<1> HIDE DEF gain
<1>5. /\ balance' \in [Users -> Nat] /\ half \in [Users -> Nat]
      /\ half[winner] = gain /\ half[loser] = balance[loser]
      /\ balance'[loser] = balance[loser] - a
      /\ \A v \in Users \ {winner} : half[v] = balance[v]
      /\ \A v \in Users \ {loser} : balance'[v] = half[v]
  BY <1>1, <1>3, <1>4 DEF WalletInv, WalletTyped
<1> HIDE DEF half
<1>6. SumOver(half, Users) = SumOver(balance, Users) + gain - balance[winner]
  <2>1. \A v \in Users : balance[v] \in Int /\ half[v] \in Int
    BY <1>5 DEF WalletInv, WalletTyped
  <2> QED BY <1>5, <2>1, SumUpdate, WalletAssumption
<1>7. SumOver(balance', Users) = SumOver(half, Users) + balance'[loser] - balance[loser]
  <2>1. \A v \in Users : balance'[v] \in Int /\ half[v] \in Int
    BY <1>5
  <2> QED BY <1>5, <2>1, SumUpdate, WalletAssumption
<1>8. Balances' = Balances - Rake(2 * a)
  BY <1>1, <1>2, <1>3, <1>5, <1>6, <1>7, SumTypes DEF Balances
<1>9. \A x \in Users : Burn(rollover[x], a) \in Nat
  BY <1>1, BurnBounds DEF WalletInv, WalletTyped
<1>10. rollover' \in [Users -> Nat]
  BY <1>9 DEF PlayedMatch, WalletInv, WalletTyped
<1>11. Elsewhere /\ fees' = fees + Rake(2 * a)
  BY DEF PlayedMatch, Elsewhere
<1>12. WalletInv'
  <2>1. fees' \in Nat /\ fees' >= fees
    BY <1>2, <1>11, SumTypes
  <2> QED BY <1>5, <1>10, <1>11, <2>1, ElsewhereKeeps
<1>13. Dues' = Dues /\ Uncredited' = Uncredited /\ UNCHANGED <<custody, drift>>
  BY <1>11 DEF Elsewhere, providerVars, Dues, Due, Uncredited, Arrived, Priced
<1> QED BY <1>2, <1>8, <1>11, <1>12, <1>13, SumTypes DEF Backs, Unbacked

(* Every step of the wallet.                                               *)
LEMMA WalletSteps ==
  ASSUME WalletInv, WalletNext
  PROVE  WalletInv' /\ Backs
<1>1. ASSUME NEW u \in Users, NEW a \in Amounts, NEW r \in Refs, StartCheckout(u, r, a)
      PROVE  WalletInv' /\ Backs
  BY <1>1, StartCheckoutBacks
<1>2. ASSUME NEW u \in Users, NEW a \in Amounts, BeginWithdraw(u, a)
      PROVE  WalletInv' /\ Backs
  BY <1>2, BeginWithdrawBacks
<1>3. ASSUME NEW r \in Refs, PayCheckout(r)
      PROVE  WalletInv' /\ Backs
  BY <1>3, PayCheckoutBacks
<1>4. ASSUME NEW r \in Refs, NEW n \in Notices,
             PayedWebhook(r, n) \/ PayedWebhookLost(r, n) \/ MarkerGone(r, n)
      PROVE  WalletInv' /\ Backs
  BY <1>4, PayedWebhookBacks, PayedWebhookLostBacks
<1>5. ASSUME NEW u \in Users, PayoutAccepted(u) \/ PayoutRefused(u) \/ PayoutUnanswered(u)
      PROVE  WalletInv' /\ Backs
  BY <1>5, PayoutAcceptedBacks, PayoutRefusedBacks
<1>6. ASSUME NEW u \in Users, NEW a \in Amounts, DemoDeposit(u, a) \/ DemoWithdraw(u, a)
      PROVE  WalletInv' /\ Backs
  BY <1>6, DemoDepositBacks, DemoWithdrawBacks
<1> QED BY <1>1, <1>2, <1>3, <1>4, <1>5, <1>6 DEF WalletNext, ProviderNext, DemoNext

(* The wallet starts with nothing on its way.                              *)
LEMMA WalletStarts ==
  ASSUME WalletInit
  PROVE  WalletInv /\ Unbacked = 0
<1> USE DEF WalletInit
<1>1. WalletTyped
  <2>1. rollover \in [Users -> Nat] /\ balance \in [Users -> Nat] /\ principal \in [Users -> Nat]
    BY RolloverType, WalletAssumption
  <2>2. \A u \in Users : Opening[u] \in Int
    BY WalletAssumption
  <2>3. custody \in Int
    BY <2>2, SumInt, WalletAssumption
  <2>4. checkout \in [Refs -> [user : Users, amount : Amounts] \cup {None}]
    OBVIOUS
  <2>5. seen \in [Refs -> SUBSET Notices] /\ payout \in [Users -> Payouts \cup {None}]
    OBVIOUS
  <2>6. IsFiniteSet(paid) /\ paid \in SUBSET Refs /\ fees \in Nat
    BY FS_EmptySet
  <2>7. credited \in SUBSET Refs /\ drift \in Int
    OBVIOUS
  <2> QED BY <2>1, <2>3, <2>4, <2>5, <2>6, <2>7 DEF WalletTyped
<1>2. PayoutsFair /\ CheckoutsFair /\ NoProvider
  BY DEF PayoutsFair, CheckoutsFair, NoProvider
<1>3. Dues = 0 /\ FeeDues = 0
  <2> DEFINE f == [u \in Users |-> Due(u)]
             g == [u \in Users |-> FeeDue(u)]
  <2>1. \A u \in Users : f[u] = 0 /\ g[u] = 0
    BY DEF Due, FeeDue
  <2> HIDE DEF f, g
  <2>2. SumOver(f, Users) = 0 /\ SumOver(g, Users) = 0
    BY <2>1, SumZero, WalletAssumption
  <2> QED BY <2>2 DEF Dues, FeeDues, f, g
<1>4. Uncredited = 0
  <2>1. Arrived = {}
    BY DEF Arrived
  <2> QED BY <2>1, SumEmpty DEF Uncredited, Arrived
<1>5. WalletInv
  BY <1>1, <1>2, <1>3 DEF WalletInv
<1> QED BY <1>2, <1>3, <1>4, <1>5, SumTypes DEF Unbacked, Balances

(* The wallet on its own.                                                  *)
WalletAlone == ProviderNext \/ \E u, v \in Users, a \in Amounts : PlayedMatch(u, v, a)

(* Every step of the wallet on its own.                                    *)
LEMMA WalletAloneSteps ==
  ASSUME WalletInv, [WalletAlone]_walletVars
  PROVE  WalletInv' /\ Backs
<1>1. CASE ProviderNext
  BY <1>1, WalletSteps DEF WalletNext
<1>2. ASSUME NEW u \in Users, NEW v \in Users, NEW a \in Amounts, PlayedMatch(u, v, a)
      PROVE  WalletInv' /\ Backs
  BY <1>2, PlayedMatchBacks
<1>3. CASE UNCHANGED walletVars
  <2> USE <1>3 DEF walletVars, userVars
  <2>1. seen' \in [Refs -> SUBSET Notices]
    BY DEF WalletInv, WalletTyped
  <2> QED BY <2>1, MarkersBack DEF historyVars
<1> QED BY <1>1, <1>2, <1>3 DEF WalletAlone

(* Deposits, withdrawals and their refunds, in whatever order the provider *)
(* reports them, however often, whichever handlers die and whatever others *)
(* write meanwhile: the books are exact but for the drift, which only a    *)
(* second credit, a refund and a payout without an answer change.          *)
THEOREM WalletBooksBalance == WalletSpec => []BooksBalance
<1> DEFINE Inv == WalletInv /\ Unbacked = 0
<1>1. WalletInit => Inv
  BY WalletStarts
<1>2. Inv /\ [WalletAlone]_walletVars => Inv'
  BY WalletAloneSteps DEF Backs
<1>3. Inv => BooksBalance
  BY SumTypes DEF Unbacked, BooksBalance, Claims, Balances, Dues
<1> QED BY <1>1, <1>2, <1>3, PTL DEF WalletSpec, WalletAlone

----------------------------------------------------------------------------
(* Parties                                                                 *)

(* An id that Postgres' sequence has not reached is nobody's.              *)
IdsAreFresh == Sqlite \/ \A p \in PartyIds : Exists(p) => p <= lastParty

(* The invariant of parties.                                               *)
PartyInv ==
  /\ PartyTypeOK
  /\ PoolIsEntitlements
  /\ PartiesAreWhole
  /\ IdsAreFresh

(* A party is a finite set of users.                                       *)
LEMMA MembersFinite ==
  \A p : Members(p) \subseteq Users /\ IsFiniteSet(Members(p))
BY FS_Subset, WalletAssumption DEF Members

(* A sum of which one value at most is not zero.                           *)
LEMMA SumAt ==
  ASSUME NEW f, NEW S, IsFiniteSet(S), NEW x, f[x] \in Int,
         \A y \in S \ {x} : f[y] = 0
  PROVE  SumOver(f, S) = IF x \in S THEN f[x] ELSE 0
<1>1. CASE x \in S
  <2>1. SumOver(f, S) = SumOver(f, {x})
    BY <1>1, SumPart
  <2> QED BY <1>1, <2>1, SumSingle
<1>2. CASE x \notin S
  BY <1>2, SumZero
<1> QED BY <1>1, <1>2

(* Pools follow their members' entitlements while nobody comes or goes.    *)
LEMMA PoolsFollow ==
  ASSUME PartyInv, UNCHANGED party, entitlement' \in [Users -> Nat], NEW d,
         \A u \in Users : d[u] \in Int /\ entitlement'[u] = entitlement[u] + d[u],
         \A u \in Users : party[u] = None => d[u] = 0,
         pool' = [p \in PartyIds |-> pool'[p]],
         \A p \in PartyIds : pool'[p] = pool[p] + SumOver(d, Members(p))
  PROVE  PoolIsEntitlements' /\ pool' \in [PartyIds -> Nat]
<1>1. ASSUME NEW p \in PartyIds
      PROVE  /\ pool'[p] = SumOver(entitlement', Members(p))
             /\ pool'[p] \in Nat
  <2>1. \A u \in Members(p) : /\ entitlement[u] \in Int /\ d[u] \in Int
                              /\ entitlement'[u] = entitlement[u] + d[u]
                              /\ entitlement'[u] \in Nat
    BY MembersFinite DEF PartyInv, PartyTypeOK
  <2>2. SumOver(entitlement', Members(p)) = SumOver(entitlement, Members(p)) + SumOver(d, Members(p))
    BY <2>1, MembersFinite, SumPlus
  <2>3. SumOver(entitlement', Members(p)) \in Nat
    BY <2>1, MembersFinite, SumNat
  <2>4. pool[p] = SumOver(entitlement, Members(p))
    BY DEF PartyInv, PoolIsEntitlements
  <2> QED BY <2>2, <2>3, <2>4
<1>2. pool' \in [PartyIds -> Nat]
  BY <1>1
<1>3. \A p \in PartyIds : Members(p)' = Members(p)
  BY DEF Members
<1>4. \A u \in Users : party'[u] = None => entitlement'[u] = 0
  BY DEF PartyInv, PoolIsEntitlements, PartyTypeOK
<1> QED BY <1>1, <1>2, <1>3, <1>4 DEF PoolIsEntitlements

(* One member's entitlement and their party's pool move together.          *)
LEMMA PoolFollowsMember ==
  ASSUME PartyInv, UNCHANGED party, entitlement' \in [Users -> Nat],
         NEW u \in Users, party[u] # None, NEW a \in Int,
         entitlement' = [entitlement EXCEPT ![u] = entitlement[u] + a],
         pool' = [pool EXCEPT ![party[u]] = pool[party[u]] + a]
  PROVE  PoolIsEntitlements' /\ pool' \in [PartyIds -> Nat]
<1> DEFINE d == [v \in Users |-> IF v = u THEN a ELSE 0]
<1>1. \A v \in Users : /\ d[v] \in Int /\ entitlement'[v] = entitlement[v] + d[v]
                       /\ party[v] = None => d[v] = 0
  BY DEF PartyInv, PartyTypeOK
<1>2. d[u] = a /\ \A v \in Users \ {u} : d[v] = 0
  OBVIOUS
<1> HIDE DEF d
<1>3. ASSUME NEW p \in PartyIds PROVE pool'[p] = pool[p] + SumOver(d, Members(p))
  <2>1. SumOver(d, Members(p)) = IF u \in Members(p) THEN a ELSE 0
    BY <1>2, MembersFinite, SumAt
  <2>2. u \in Members(p) <=> p = party[u]
    BY DEF Members
  <2>3. pool[p] \in Nat /\ pool'[p] = IF p = party[u] THEN pool[p] + a ELSE pool[p]
    BY DEF PartyInv, PartyTypeOK
  <2> QED BY <2>1, <2>2, <2>3
<1>4. pool' = [p \in PartyIds |-> pool'[p]]
  BY DEF PartyInv, PartyTypeOK
<1> QED BY <1>1, <1>3, <1>4, PoolsFollow

(* Who goes takes their entitlement along, and nobody else's.              *)
LEMMA ReleaseReleases ==
  ASSUME WalletInv, PartyInv, NEW p \in PartyIds, NEW gone,
         gone \subseteq Members(p), Release(p, gone)
  PROVE  /\ balance' \in [Users -> Nat]
         /\ entitlement' \in [Users -> Nat]
         /\ \A u \in Users : balance'[u] + entitlement'[u] = balance[u] + entitlement[u]
         /\ pool' \in [PartyIds -> Nat]
         /\ logged' \in {logged, logged \cup {p}}
         /\ party' \in [Users -> PartyIds \cup {None}]
         /\ \A u \in Users : party'[u] = IF u \in gone THEN None ELSE party[u]
         /\ \A q \in PartyIds : Members(q)' = Members(q) \ gone
         /\ PoolIsEntitlements'
<1> USE DEF Release
<1>1. /\ \A u \in Users : /\ balance[u] \in Nat /\ entitlement[u] \in Nat
                          /\ party[u] \in PartyIds \cup {None}
      /\ \A q \in PartyIds : pool[q] = SumOver(entitlement, Members(q)) /\ pool[q] \in Nat
  BY DEF WalletInv, WalletTyped, PartyInv, PartyTypeOK, PoolIsEntitlements
<1>2. /\ balance' \in [Users -> Nat]
      /\ entitlement' \in [Users -> Nat]
      /\ \A u \in Users : balance'[u] + entitlement'[u] = balance[u] + entitlement[u]
      /\ logged' \in {logged, logged \cup {p}}
      /\ party' \in [Users -> PartyIds \cup {None}]
      /\ \A u \in Users : party'[u] = IF u \in gone THEN None ELSE party[u]
  BY <1>1
<1>3. \A q \in PartyIds : Members(q)' = Members(q) \ gone
  BY <1>2, PartyAssumption DEF Members
<1>4. \A q \in PartyIds \ {p} : Members(q)' = Members(q) /\ pool'[q] = pool[q]
  <2>1. \A q \in PartyIds \ {p} : Members(q) \ gone = Members(q)
    BY DEF Members
  <2>2. \A q \in PartyIds \ {p} : pool'[q] = pool[q]
    BY DEF PartyInv, PartyTypeOK
  <2> QED BY ONLY <1>3, <2>1, <2>2
<1>5. ASSUME NEW q \in PartyIds
      PROVE  SumOver(entitlement', Members(q)') = SumOver(entitlement, Members(q) \ gone)
  <2>1. IsFiniteSet(Members(q) \ gone) /\ Members(q) \ gone \subseteq Users
    BY MembersFinite, FS_Difference
  <2>2. \A u \in Members(q) \ gone : entitlement'[u] = entitlement[u]
    BY <2>1
  <2>3. PICK f, g, T : f = entitlement /\ g = entitlement' /\ T = Members(q) \ gone
    OBVIOUS
  <2>4. IsFiniteSet(T) /\ \A u \in T : g[u] = f[u]
    BY ONLY <2>1, <2>2, <2>3
  <2>5. SumOver(g, T) = SumOver(f, T)
    BY ONLY <2>4, SumSame
  <2> QED BY ONLY <1>3, <2>3, <2>5
<1>6. ASSUME NEW q \in PartyIds
      PROVE  pool'[q] = SumOver(entitlement', Members(q)')
  <2>1. CASE q # p
    <3>1. Members(q) \ gone = Members(q)
      BY <1>3, <1>4, <2>1
    <3> QED BY <1>1, <1>4, <1>5, <2>1, <3>1
  <2>2. CASE q = p
    <3>1. pool'[p] = pool[p] - SumOver(entitlement, gone)
      BY DEF PartyInv, PartyTypeOK
    <3>2. \A u \in Members(p) : entitlement[u] \in Int
      BY <1>1, MembersFinite
    <3>3. SumOver(entitlement, Members(p) \ gone) =
            SumOver(entitlement, Members(p)) - SumOver(entitlement, gone)
      BY <3>2, MembersFinite, SumRest
    <3>4. pool[p] = SumOver(entitlement, Members(p))
      BY <1>1
    <3> QED BY <1>5, <2>2, <3>1, <3>3, <3>4
  <2> QED BY <2>1, <2>2
<1>7. \A q \in PartyIds : SumOver(entitlement', Members(q)') \in Nat
  <2> SUFFICES ASSUME NEW q \in PartyIds PROVE SumOver(entitlement', Members(q)') \in Nat
    OBVIOUS
  <2>1. Members(q)' \subseteq Users /\ IsFiniteSet(Members(q)')
    BY <1>3, MembersFinite, FS_Difference
  <2> QED BY <1>2, <2>1, SumNat
<1>8. pool' \in [PartyIds -> Nat]
  BY <1>6, <1>7 DEF PartyInv, PartyTypeOK
<1>9. \A u \in Users : party'[u] = None => entitlement'[u] = 0
  BY <1>1, <1>2 DEF PartyInv, PoolIsEntitlements
<1> QED BY <1>2, <1>3, <1>6, <1>8, <1>9 DEF PoolIsEntitlements

(* The database hands out an id that no party has.                         *)
LEMMA NewIdIsNew ==
  ASSUME PartyInv, NewPartyId \in PartyIds
  PROVE  /\ ~Exists(NewPartyId)
         /\ Sqlite \/ NewPartyId = lastParty + 1
<1> DEFINE ids == {p \in PartyIds : Exists(p)}
           Next1(n) == /\ \A p \in ids : p < n
                       /\ n = 1 \/ n - 1 \in ids
<1>1. CASE ~Sqlite
  <2>1. NewPartyId = lastParty + 1 /\ lastParty \in Nat
    BY <1>1 DEF NewPartyId, PartyInv, PartyTypeOK
  <2>2. ~Exists(NewPartyId)
    BY <1>1, <2>1 DEF PartyInv, IdsAreFresh
  <2> QED BY <2>1, <2>2
<1>2. CASE Sqlite
  <2>1. NewPartyId = CHOOSE n \in 1 .. MaxParties + 1 : Next1(n)
    BY <1>2 DEF NewPartyId
  <2>2. \E n \in 1 .. MaxParties + 1 : Next1(n)
    <3>1. CASE ids = {}
      BY <3>1, PartyAssumption
    <3>2. CASE ids # {}
      <4> DEFINE f == [p \in PartyIds |-> p]
      <4>1. IsFiniteSet(ids) /\ ids \subseteq PartyIds
        <5>1. IsFiniteSet(PartyIds)
          BY FS_Interval, PartyAssumption DEF PartyIds
        <5> QED BY <5>1, FS_Subset
      <4>2. \A p \in ids : f[p] = p /\ f[p] \in Int
        BY <4>1 DEF PartyIds
      <4> HIDE DEF f
      <4>3. \E m \in ids : \A p \in ids : f[p] <= f[m]
        BY <3>2, <4>1, <4>2, LargestExists
      <4>4. PICK m \in ids : \A p \in ids : p <= m
        BY <4>2, <4>3
      <4>5. m \in 1 .. MaxParties
        BY DEF PartyIds
      <4>6. m + 1 \in 1 .. MaxParties + 1 /\ (m + 1) - 1 = m
        BY <4>5, PartyAssumption
      <4>7. \A p \in ids : p \in Int
        BY DEF PartyIds
      <4> HIDE DEF ids
      <4>8. Next1(m + 1)
        BY <4>4, <4>5, <4>6, <4>7
      <4> QED BY <4>6, <4>8
    <3> QED BY <3>1, <3>2
  <2> HIDE DEF Next1
  <2>3. Next1(NewPartyId)
    BY <2>1, <2>2
  <2> USE DEF Next1
  <2>4. \A p \in ids : p < NewPartyId
    BY <2>3
  <2>5. NewPartyId \notin ids
    BY <2>4 DEF PartyIds
  <2> QED BY <1>2, <2>5
<1> QED BY <1>1, <1>2

(* What users have outside the tables.                                     *)
Pocket(u) == balance[u] + entitlement[u]

(* A handler that leaves everybody what they had, in another pocket.       *)
OwnMoves ==
  /\ UNCHANGED <<principal, rollover, fees, custody, providerVars>>
  /\ \A u \in Users : Pocket(u)' = Pocket(u)

(* A leader passes `gift` of their entitlement to somebody's balance.      *)
Gifts(u, target, gift) ==
  /\ UNCHANGED <<principal, fees, custody, providerVars>>
  /\ u # target /\ gift \in Nat /\ gift > 0 /\ gift <= entitlement[u]
  /\ \A v \in Users : Pocket(v)' = (Pocket(v) + IF v = target THEN gift ELSE 0)
                                      - (IF v = u THEN gift ELSE 0)
  /\ rollover' = [rollover EXCEPT ![target] = rollover[target] + gift]

(* Logs are kept, and Postgres keeps a party that has one.                 *)
LogsBind ==
  /\ logged \subseteq logged'
  /\ Sqlite \/ \A p \in logged : Exists(p) => leader'[p] = leader[p]

(* What a handler of a party keeps, and the two things it may do with      *)
(* money.                                                                  *)
PartyStep ==
  /\ WalletInv' /\ PartyInv' /\ LogsBind
  /\ OwnMoves \/ \E u, target \in Users : \E gift \in Nat : Gifts(u, target, gift)

(* A party is created: its id is new, so nobody has ever been its member.  *)
LEMMA CreatePartySteps ==
  ASSUME WalletInv, PartyInv, NEW u \in Users, CreateParty(u)
  PROVE  PartyStep
<1>0. PICK n \in PartyIds : n = NewPartyId
  BY DEF CreateParty
<1>1. /\ party[u] = None /\ n \in PartyIds
      /\ leader' = [leader EXCEPT ![n] = u]
      /\ split' = [split EXCEPT ![n] = "PROPORTIONAL"]
      /\ pool' = [pool EXCEPT ![n] = 0]
      /\ lastParty' = n
      /\ party' = [party EXCEPT ![u] = n]
      /\ UNCHANGED <<logged, entitlement, balance, principal, rollover, fees,
                     checkout, seen, paid, custody, payout, credited, drift>>
  BY <1>0 DEF CreateParty, walletVars
<1>2. ~Exists(n) /\ (Sqlite \/ n = lastParty + 1)
  BY <1>0, NewIdIsNew
<1>3. PartyTypeOK'
  BY <1>1, WalletAssumption DEF PartyInv, PartyTypeOK, PartyIds, Splits
<1>4. WalletInv'
  <2>1. Elsewhere /\ fees' = fees /\ fees' \in Nat /\ fees' >= fees
    BY <1>1 DEF Elsewhere, providerVars, WalletInv, WalletTyped
  <2> QED BY <1>1, <2>1, ElsewhereKeeps DEF WalletInv, WalletTyped
<1>5. Members(n) = {} /\ entitlement[u] = 0 /\ n # None
  BY <1>1, <1>2, PartyAssumption DEF PartyInv, PartiesAreWhole, PoolIsEntitlements, Members
<1>6. Members(n)' = {u} /\ \A p \in PartyIds \ {n} : Members(p)' = Members(p)
  BY <1>1, <1>5, PartyAssumption DEF Members, PartyInv, PartyTypeOK
<1>7. PoolIsEntitlements'
  <2>1. SumOver(entitlement, {u}) = 0
    BY <1>5, SumSingle
  <2>2. SumOver(entitlement', Members(n)') = 0
    BY <1>1, <1>6, <2>1
  <2>3. pool'[n] = 0 /\ \A p \in PartyIds \ {n} : pool'[p] = pool[p]
    BY <1>1 DEF PartyInv, PartyTypeOK
  <2>4. \A p \in PartyIds : pool'[p] = SumOver(entitlement', Members(p)')
    <3>1. \A p \in PartyIds \ {n} : pool[p] = SumOver(entitlement, Members(p))
      BY DEF PartyInv, PoolIsEntitlements
    <3> QED BY <1>1, <1>6, <2>2, <2>3, <3>1
  <2>5. \A v \in Users : party'[v] = None => entitlement'[v] = 0
    BY <1>1, <1>5 DEF PartyInv, PoolIsEntitlements, PartyTypeOK
  <2> QED BY <2>4, <2>5 DEF PoolIsEntitlements
<1>8. PartiesAreWhole'
  <2>1. \A p \in PartyIds : Exists(p)' => party'[leader'[p]] = p
    <3> SUFFICES ASSUME NEW p \in PartyIds, Exists(p)'
                 PROVE  party'[leader'[p]] = p
      OBVIOUS
    <3>1. CASE p = n
      BY <1>1, <3>1 DEF PartyInv, PartyTypeOK
    <3>2. CASE p # n
      <4>1. leader'[p] = leader[p] /\ Exists(p) /\ leader[p] \in Users
        BY <1>1, <3>2 DEF PartyInv, PartyTypeOK, Exists
      <4>2. party[leader[p]] = p
        BY <4>1 DEF PartyInv, PartiesAreWhole
      <4>3. leader[p] # u
        BY <1>1, <4>2, PartyAssumption
      <4> QED BY <1>1, <4>1, <4>2, <4>3 DEF PartyInv, PartyTypeOK
    <3> QED BY <3>1, <3>2
  <2>2. \A v \in Users : party'[v] # None => Exists(party[v])'
    BY <1>1, WalletAssumption DEF PartyInv, PartyTypeOK, PartiesAreWhole, Exists
  <2>3. \A p \in PartyIds : Cardinality(Members(p)') <= MaxPartySize
    <3>1. Cardinality({u}) = 1
      BY FS_Singleton
    <3>2. 1 <= MaxPartySize
      BY PartyAssumption
    <3> QED BY <1>6, <3>1, <3>2 DEF PartyInv, PartiesAreWhole
  <2> QED BY <2>1, <2>2, <2>3 DEF PartiesAreWhole
<1>9. IdsAreFresh'
  BY <1>1, <1>2 DEF PartyInv, PartyTypeOK, IdsAreFresh, Exists, PartyIds
<1>10. LogsBind
  BY <1>1, <1>2 DEF LogsBind, PartyInv, PartyTypeOK
<1>11. OwnMoves
  BY <1>1 DEF OwnMoves, Pocket, providerVars
<1> QED BY <1>3, <1>4, <1>7, <1>8, <1>9, <1>10, <1>11 DEF PartyStep, PartyInv

(* A user joins with nothing in the pool.                                  *)
LEMMA JoinPartySteps ==
  ASSUME WalletInv, PartyInv, NEW u \in Users, NEW p \in PartyIds, JoinParty(u, p)
  PROVE  PartyStep
<1>1. /\ Exists(p) /\ party[u] = None
      /\ Cardinality(Members(p)) < MaxPartySize
      /\ party' = [party EXCEPT ![u] = p]
      /\ UNCHANGED <<leader, split, pool, logged, lastParty, entitlement,
                     balance, principal, rollover, fees,
                     checkout, seen, paid, custody, payout, credited, drift>>
  BY DEF JoinParty, walletVars
<1>2. PartyTypeOK'
  BY <1>1 DEF PartyInv, PartyTypeOK
<1>3. WalletInv'
  <2>1. Elsewhere /\ fees' = fees /\ fees' \in Nat /\ fees' >= fees
    BY <1>1 DEF Elsewhere, providerVars, WalletInv, WalletTyped
  <2> QED BY <1>1, <2>1, ElsewhereKeeps DEF WalletInv, WalletTyped
<1>4. entitlement[u] = 0 /\ p # None /\ u \notin Members(p)
  BY <1>1, PartyAssumption DEF PartyInv, PoolIsEntitlements, Members
<1>5. /\ Members(p)' = Members(p) \cup {u}
      /\ \A q \in PartyIds \ {p} : Members(q)' = Members(q)
  BY <1>1, PartyAssumption DEF Members, PartyInv, PartyTypeOK
<1>6. PoolIsEntitlements'
  <2>1. SumOver(entitlement, Members(p) \cup {u}) = SumOver(entitlement, Members(p)) + entitlement[u]
    <3>1. \A v \in Members(p) \cup {u} : entitlement[v] \in Int
      BY MembersFinite DEF PartyInv, PartyTypeOK
    <3> QED BY <1>4, <3>1, MembersFinite, SumAdd
  <2>2. pool[p] = SumOver(entitlement, Members(p)) /\ pool[p] \in Nat
    BY DEF PartyInv, PoolIsEntitlements, PartyTypeOK
  <2>3. SumOver(entitlement', Members(p)') = pool[p]
    BY <1>1, <1>4, <1>5, <2>1, <2>2
  <2>4. \A q \in PartyIds : pool'[q] = SumOver(entitlement', Members(q)')
    BY <1>1, <1>5, <2>3 DEF PartyInv, PoolIsEntitlements
  <2>5. \A v \in Users : party'[v] = None => entitlement'[v] = 0
    BY <1>1, <1>4 DEF PartyInv, PoolIsEntitlements, PartyTypeOK
  <2> QED BY <2>4, <2>5 DEF PoolIsEntitlements
<1>7. PartiesAreWhole'
  <2>1. \A q \in PartyIds : Exists(q)' => party'[leader'[q]] = q
    BY <1>1, PartyAssumption DEF PartyInv, PartyTypeOK, PartiesAreWhole, Exists
  <2>2. \A v \in Users : party'[v] # None => Exists(party[v])'
    BY <1>1 DEF PartyInv, PartyTypeOK, PartiesAreWhole, Exists
  <2>3. \A q \in PartyIds : Cardinality(Members(q)') <= MaxPartySize
    <3>1. Cardinality(Members(p) \cup {u}) = Cardinality(Members(p)) + 1
      BY <1>4, MembersFinite, FS_AddElement
    <3>2. Cardinality(Members(p)) \in Nat
      BY MembersFinite, FS_CardinalityType
    <3>3. Cardinality(Members(p)) < MaxPartySize
      BY <1>1
    <3>4. Cardinality(Members(p)') <= MaxPartySize
      BY <1>5, <3>1, <3>2, <3>3, PartyAssumption
    <3>5. \A q \in PartyIds : Cardinality(Members(q)) <= MaxPartySize
      BY DEF PartyInv, PartiesAreWhole
    <3> QED BY <1>5, <3>4, <3>5
  <2> QED BY <2>1, <2>2, <2>3 DEF PartiesAreWhole
<1>8. IdsAreFresh' /\ LogsBind /\ OwnMoves
  BY <1>1 DEF PartyInv, IdsAreFresh, Exists, LogsBind, OwnMoves, Pocket, providerVars
<1> QED BY <1>2, <1>3, <1>6, <1>7, <1>8 DEF PartyStep, PartyInv

(* Members go, or all of them and the party with them.                     *)
LEMMA GoingSteps ==
  ASSUME WalletInv, PartyInv, NEW p \in PartyIds, NEW gone, gone \subseteq Members(p),
         Release(p, gone),
         UNCHANGED <<split, lastParty, principal, rollover, fees, custody, providerVars>>,
         \/ UNCHANGED leader /\ leader[p] \notin gone
         \/ /\ gone = Members(p) /\ leader' = [leader EXCEPT ![p] = None]
            /\ Sqlite \/ p \notin logged'
  PROVE  PartyStep
<1>1. /\ balance' \in [Users -> Nat]
      /\ entitlement' \in [Users -> Nat]
      /\ \A u \in Users : balance'[u] + entitlement'[u] = balance[u] + entitlement[u]
      /\ pool' \in [PartyIds -> Nat]
      /\ logged' \in {logged, logged \cup {p}}
      /\ party' \in [Users -> PartyIds \cup {None}]
      /\ \A u \in Users : party'[u] = IF u \in gone THEN None ELSE party[u]
      /\ \A q \in PartyIds : Members(q)' = Members(q) \ gone
      /\ PoolIsEntitlements'
  BY ReleaseReleases
<1>2. WalletInv'
  <2>1. Elsewhere /\ fees' = fees /\ fees' \in Nat /\ fees' >= fees
        /\ rollover' \in [Users -> Nat]
    BY DEF Elsewhere, providerVars, WalletInv, WalletTyped
  <2> QED BY <1>1, <2>1, ElsewhereKeeps
<1>3. /\ leader' \in [PartyIds -> Users \cup {None}]
      /\ leader'[p] \in {leader[p], None}
      /\ \A q \in PartyIds \ {p} : leader'[q] = leader[q]
  BY DEF PartyInv, PartyTypeOK
<1>4. PartyTypeOK'
  BY <1>1, <1>3 DEF PartyInv, PartyTypeOK
<1>5. PartiesAreWhole'
  <2>1. ASSUME NEW q \in PartyIds, Exists(q)' PROVE party'[leader'[q]] = q
    <3>1. leader'[q] = leader[q] /\ leader[q] \in Users /\ party[leader[q]] = q
      BY <1>3, <2>1 DEF PartyInv, PartyTypeOK, PartiesAreWhole, Exists
    <3>2. leader[q] \notin gone
      <4>1. CASE q = p
        BY <2>1, <4>1 DEF Exists, PartyInv, PartyTypeOK
      <4>2. CASE q # p
        BY <3>1, <4>2 DEF Members
      <4> QED BY <4>1, <4>2
    <3> QED BY <1>1, <3>1, <3>2
  <2>2. ASSUME NEW u \in Users, party'[u] # None PROVE Exists(party[u])'
    <3>1. u \notin gone /\ party'[u] = party[u] /\ party[u] \in PartyIds
          /\ leader[party[u]] # None
      BY <1>1, <2>2 DEF PartyInv, PartyTypeOK, PartiesAreWhole, Exists
    <3>2. CASE party[u] = p
      <4>1. gone # Members(p)
        BY <3>1, <3>2 DEF Members
      <4> QED BY <3>1, <4>1 DEF Exists
    <3>3. CASE party[u] # p
      BY <1>3, <3>1, <3>3 DEF Exists
    <3> QED BY <3>2, <3>3
  <2>3. ASSUME NEW q \in PartyIds PROVE Cardinality(Members(q)') <= MaxPartySize
    <3>1. Cardinality(Members(q) \ gone) <= Cardinality(Members(q))
      BY MembersFinite, FS_Subset
    <3>2. Cardinality(Members(q) \ gone) \in Nat /\ Cardinality(Members(q)) \in Nat
      BY MembersFinite, FS_Difference, FS_CardinalityType
    <3>3. Cardinality(Members(q)) <= MaxPartySize
      BY DEF PartyInv, PartiesAreWhole
    <3>4. Cardinality(Members(q)') = Cardinality(Members(q) \ gone)
      BY <1>1
    <3>5. MaxPartySize \in Nat
      BY PartyAssumption
    <3> QED BY ONLY <3>1, <3>2, <3>3, <3>4, <3>5
  <2> QED BY <2>1, <2>2, <2>3 DEF PartiesAreWhole
<1>6. IdsAreFresh'
  BY <1>3 DEF PartyInv, IdsAreFresh, Exists
<1>7. LogsBind
  <2>1. logged \subseteq logged'
    BY <1>1
  <2>2. ASSUME ~Sqlite, NEW q \in logged, Exists(q) PROVE leader'[q] = leader[q]
    <3>1. q \in PartyIds /\ q \in logged'
      BY <2>1 DEF PartyInv, PartyTypeOK
    <3> QED BY <1>3, <2>2, <3>1
  <2> QED BY <2>1, <2>2 DEF LogsBind
<1>8. OwnMoves
  BY <1>1 DEF OwnMoves, Pocket
<1> QED BY <1>1, <1>2, <1>4, <1>5, <1>6, <1>7, <1>8 DEF PartyStep, PartyInv

(* A member leaves, and the party with them if they lead it.               *)
LEMMA LeavePartySteps ==
  ASSUME WalletInv, PartyInv, NEW u \in Users, LeaveParty(u)
  PROVE  PartyStep
<1> DEFINE p == party[u]
<1>1. /\ p \in PartyIds /\ u \in Members(p)
      /\ UNCHANGED <<principal, rollover, fees, custody, providerVars>>
  BY DEF LeaveParty, Members, PartyInv, PartyTypeOK
<1>2. CASE Leads(u)
  <2>1. /\ Release(p, Members(p))
        /\ Sqlite \/ p \notin logged'
        /\ leader' = [leader EXCEPT ![p] = None]
        /\ UNCHANGED <<split, lastParty>>
    BY <1>2 DEF LeaveParty, Disband
  <2> QED BY <1>1, <2>1, GoingSteps
<1>3. CASE ~Leads(u)
  <2>1. Release(p, {u}) /\ UNCHANGED <<leader, split, lastParty>>
    BY <1>3 DEF LeaveParty
  <2>2. leader[p] \notin {u} /\ {u} \subseteq Members(p)
    BY <1>1, <1>3 DEF Leads, LeaveParty
  <2> QED BY <1>1, <2>1, <2>2, GoingSteps
<1> QED BY <1>2, <1>3

(* A leader removes a member.                                              *)
LEMMA KickSteps ==
  ASSUME WalletInv, PartyInv, NEW u \in Users, NEW target \in Users, Kick(u, target)
  PROVE  PartyStep
<1> DEFINE p == party[u]
<1>1. /\ p \in PartyIds /\ {target} \subseteq Members(p) /\ leader[p] \notin {target}
      /\ Release(p, {target})
      /\ UNCHANGED <<leader, split, lastParty, principal, rollover, fees, custody, providerVars>>
  BY DEF Kick, Leads, Members, PartyInv, PartyTypeOK
<1> QED BY <1>1, GoingSteps

(* A leader changes how costs are split.                                   *)
LEMMA SetSplitModeSteps ==
  ASSUME WalletInv, PartyInv, NEW u \in Users, NEW mode \in Splits, SetSplitMode(u, mode)
  PROVE  PartyStep
<1>1. /\ split' = [split EXCEPT ![party[u]] = mode]
      /\ UNCHANGED <<leader, pool, logged, lastParty, party, entitlement,
                     balance, principal, rollover, fees,
                     checkout, seen, paid, custody, payout, credited, drift>>
  BY DEF SetSplitMode, walletVars
<1>2. WalletInv'
  <2>1. Elsewhere /\ fees' = fees /\ fees' \in Nat /\ fees' >= fees
    BY <1>1 DEF Elsewhere, providerVars, WalletInv, WalletTyped
  <2> QED BY <1>1, <2>1, ElsewhereKeeps DEF WalletInv, WalletTyped
<1>3. PartyTypeOK'
  BY <1>1 DEF PartyInv, PartyTypeOK
<1>4. \A p \in PartyIds : Members(p)' = Members(p)
  BY <1>1 DEF Members
<1>5. PoolIsEntitlements' /\ PartiesAreWhole' /\ IdsAreFresh' /\ LogsBind /\ OwnMoves
  BY <1>1, <1>4 DEF PartyInv, PoolIsEntitlements, PartiesAreWhole, IdsAreFresh, Exists,
                    LogsBind, OwnMoves, Pocket, providerVars
<1> QED BY <1>2, <1>3, <1>5 DEF PartyStep, PartyInv

(* Nobody comes or goes and the pools follow.                              *)
LEMMA PoolSteps ==
  ASSUME WalletInv, PartyInv, UNCHANGED <<leader, split, lastParty, party>>,
         UNCHANGED <<principal, fees, custody, providerVars>>,
         balance' \in [Users -> Nat], rollover' \in [Users -> Nat],
         entitlement' \in [Users -> Nat], pool' \in [PartyIds -> Nat],
         PoolIsEntitlements', logged' \subseteq PartyIds, logged \subseteq logged'
  PROVE  WalletInv' /\ PartyInv' /\ LogsBind
<1>1. WalletInv'
  <2>1. Elsewhere /\ fees' = fees /\ fees' \in Nat /\ fees' >= fees
    BY DEF Elsewhere, providerVars, WalletInv, WalletTyped
  <2> QED BY <2>1, ElsewhereKeeps
<1>2. PartyTypeOK'
  BY DEF PartyInv, PartyTypeOK
<1>3. \A p \in PartyIds : Members(p)' = Members(p)
  BY DEF Members
<1>4. PartiesAreWhole' /\ IdsAreFresh' /\ LogsBind
  BY <1>3 DEF PartyInv, PartiesAreWhole, IdsAreFresh, Exists, LogsBind
<1> QED BY <1>1, <1>2, <1>4 DEF PartyInv

(* A member pays into the pool.                                            *)
LEMMA ContributeSteps ==
  ASSUME WalletInv, PartyInv, NEW u \in Users, NEW a \in Amounts, Contribute(u, a)
  PROVE  PartyStep
<1>1. /\ party[u] \in PartyIds /\ a \in Nat /\ a <= balance[u]
      /\ balance[u] \in Nat /\ entitlement[u] \in Nat
      /\ UNCHANGED <<leader, split, lastParty, party>>
      /\ UNCHANGED <<principal, rollover, fees, custody, providerVars>>
  BY WalletAssumption
     DEF Contribute, WalletInv, WalletTyped, PartyInv, PartyTypeOK
<1>2. /\ balance' \in [Users -> Nat] /\ entitlement' \in [Users -> Nat]
      /\ rollover' \in [Users -> Nat] /\ logged' \subseteq PartyIds
      /\ logged \subseteq logged'
  BY <1>1 DEF Contribute, WalletInv, WalletTyped, PartyInv, PartyTypeOK
<1>3. PoolIsEntitlements' /\ pool' \in [PartyIds -> Nat]
  <2>1. /\ party[u] # None /\ a \in Int
        /\ entitlement' = [entitlement EXCEPT ![u] = entitlement[u] + a]
        /\ pool' = [pool EXCEPT ![party[u]] = pool[party[u]] + a]
    BY <1>1 DEF Contribute
  <2> QED BY <1>1, <1>2, <2>1, PoolFollowsMember
<1>4. OwnMoves
  BY <1>1 DEF OwnMoves, Pocket, Contribute, WalletInv, WalletTyped, PartyInv, PartyTypeOK
<1> QED BY <1>1, <1>2, <1>3, <1>4, PoolSteps DEF PartyStep

(* A member takes back what is theirs in the pool.                         *)
LEMMA ReclaimSteps ==
  ASSUME WalletInv, PartyInv, NEW u \in Users, NEW a \in Amounts, Reclaim(u, a)
  PROVE  PartyStep
<1>1. /\ party[u] \in PartyIds /\ a \in Nat /\ a <= entitlement[u]
      /\ balance[u] \in Nat /\ entitlement[u] \in Nat
      /\ UNCHANGED <<leader, split, lastParty, party>>
      /\ UNCHANGED <<principal, rollover, fees, custody, providerVars>>
  BY WalletAssumption
     DEF Reclaim, MayReclaim, WalletInv, WalletTyped, PartyInv, PartyTypeOK
<1>2. /\ balance' \in [Users -> Nat] /\ entitlement' \in [Users -> Nat]
      /\ rollover' \in [Users -> Nat] /\ logged' \subseteq PartyIds
      /\ logged \subseteq logged'
  BY <1>1 DEF Reclaim, WalletInv, WalletTyped, PartyInv, PartyTypeOK
<1>3. PoolIsEntitlements' /\ pool' \in [PartyIds -> Nat]
  <2>1. /\ party[u] # None /\ -a \in Int
        /\ pool[party[u]] - a = pool[party[u]] + (-a)
        /\ entitlement[u] - a = entitlement[u] + (-a)
    BY <1>1 DEF Reclaim, MayReclaim, PartyInv, PartyTypeOK
  <2>2. /\ entitlement' = [entitlement EXCEPT ![u] = entitlement[u] + (-a)]
        /\ pool' = [pool EXCEPT ![party[u]] = pool[party[u]] + (-a)]
    BY <2>1 DEF Reclaim
  <2> QED BY <1>1, <1>2, <2>1, <2>2, PoolFollowsMember
<1>4. OwnMoves
  BY <1>1 DEF OwnMoves, Pocket, Reclaim, WalletInv, WalletTyped, PartyInv, PartyTypeOK
<1> QED BY <1>1, <1>2, <1>3, <1>4, PoolSteps DEF PartyStep

(* A leader passes pool money on: their own share only, so nobody else is  *)
(* the poorer for it.                                                      *)
LEMMA DistributeSteps ==
  ASSUME WalletInv, PartyInv, NEW u \in Users, NEW target \in Users, NEW a \in Amounts,
         Distribute(u, target, a)
  PROVE  PartyStep
<1> DEFINE own == OwnShare(target, a)
           gift == a - own
           p == party[u]
           d1 == [v \in Users |-> IF v = target THEN -own ELSE 0]
           d2 == [v \in Users |-> IF v = u THEN -gift ELSE 0]
           d == [v \in Users |-> d1[v] + d2[v]]
<1>1. /\ a \in Nat /\ a > 0 /\ balance[target] \in Nat /\ rollover[target] \in Nat
      /\ \A v \in Users : entitlement[v] \in Nat
      /\ p \in PartyIds /\ p # None
  BY WalletAssumption, PartyAssumption
     DEF Distribute, Leads, WalletInv, WalletTyped, PartyInv, PartyTypeOK
<1>2. /\ own \in Nat /\ own <= a /\ own <= entitlement[target]
      /\ gift \in Nat /\ own + gift = a
  BY <1>1 DEF OwnShare, Lesser
<1>3. /\ party[target] = p
      /\ target = u => gift = 0
      /\ gift <= entitlement[u]
      /\ balance' = [balance EXCEPT ![target] = balance[target] + a]
      /\ rollover' = [rollover EXCEPT ![target] = rollover[target] + gift]
      /\ entitlement' = [v \in Users |->
           entitlement[v] - (IF v = target THEN own ELSE 0) - (IF v = u THEN gift ELSE 0)]
      /\ pool' = [pool EXCEPT ![p] = pool[p] - a]
      /\ logged' = logged \cup {p}
      /\ UNCHANGED <<leader, split, lastParty, party>>
      /\ UNCHANGED <<principal, fees, custody, providerVars>>
  BY DEF Distribute, GiftDebt
<1> HIDE DEF own, gift
<1>4. \A v \in Users : d1[v] = (IF v = target THEN -own ELSE 0)
                       /\ d2[v] = (IF v = u THEN -gift ELSE 0)
                       /\ d[v] = d1[v] + d2[v]
  OBVIOUS
<1>5. \A v \in Users : d1[v] \in Int /\ d2[v] \in Int /\ d[v] \in Int
  BY <1>2, <1>4
<1>6. \A v \in Users : entitlement'[v] = entitlement[v] + d[v] /\ entitlement'[v] \in Nat
  <2> SUFFICES ASSUME NEW v \in Users
               PROVE  entitlement'[v] = entitlement[v] + d[v] /\ entitlement'[v] \in Nat
    OBVIOUS
  <2>1. entitlement'[v] = entitlement[v] - (IF v = target THEN own ELSE 0)
                                         - (IF v = u THEN gift ELSE 0)
    BY <1>3
  <2>2. d[v] = (IF v = target THEN -own ELSE 0) + (IF v = u THEN -gift ELSE 0)
    BY <1>4
  <2> HIDE DEF d, d1, d2
  <2> QED BY <1>1, <1>2, <1>3, <2>1, <2>2
<1>7. entitlement' \in [Users -> Nat]
  BY <1>3, <1>6
<1> HIDE DEF d, d1, d2
<1>8. ASSUME NEW q \in PartyIds PROVE pool'[q] = pool[q] + SumOver(d, Members(q))
  <2>1. \A v \in Members(q) : d1[v] \in Int /\ d2[v] \in Int /\ d[v] = d1[v] + d2[v]
    BY <1>4, <1>5, MembersFinite
  <2>2. SumOver(d, Members(q)) = SumOver(d1, Members(q)) + SumOver(d2, Members(q))
    BY <2>1, MembersFinite, SumPlus
  <2>3. SumOver(d1, Members(q)) = IF target \in Members(q) THEN d1[target] ELSE 0
    <3>1. \A v \in Members(q) \ {target} : d1[v] = 0
      BY <1>4, MembersFinite
    <3> QED BY <1>5, <3>1, MembersFinite, SumAt
  <2>4. SumOver(d2, Members(q)) = IF u \in Members(q) THEN d2[u] ELSE 0
    <3>1. \A v \in Members(q) \ {u} : d2[v] = 0
      BY <1>4, MembersFinite
    <3> QED BY <1>5, <3>1, MembersFinite, SumAt
  <2>5. (target \in Members(q) <=> q = p) /\ (u \in Members(q) <=> q = p)
    BY <1>3 DEF Members
  <2>6. d1[target] = -own /\ d2[u] = -gift
    BY <1>4
  <2>7. pool[q] \in Nat /\ pool'[q] = IF q = p THEN pool[p] - a ELSE pool[q]
    BY <1>3 DEF PartyInv, PartyTypeOK
  <2> HIDE DEF p
  <2>8. CASE q = p
    <3>1. SumOver(d, Members(q)) = (-own) + (-gift)
      BY <2>2, <2>3, <2>4, <2>5, <2>6, <2>8
    <3> QED BY <1>1, <1>2, <2>7, <2>8, <3>1
  <2>9. CASE q # p
    <3>1. SumOver(d, Members(q)) = 0
      BY <2>2, <2>3, <2>4, <2>5, <2>9
    <3> QED BY <2>7, <2>9, <3>1
  <2> QED BY <2>8, <2>9
<1>9. PoolIsEntitlements' /\ pool' \in [PartyIds -> Nat]
  <2>1. \A v \in Users : party[v] = None => d[v] = 0
    BY <1>1, <1>3, <1>4
  <2>2. pool' = [q \in PartyIds |-> pool'[q]]
    BY <1>3 DEF PartyInv, PartyTypeOK
  <2> QED BY <1>3, <1>5, <1>6, <1>7, <1>8, <2>1, <2>2, PoolsFollow
<1>10. /\ balance' \in [Users -> Nat] /\ rollover' \in [Users -> Nat]
       /\ logged' \subseteq PartyIds /\ logged \subseteq logged'
  BY <1>1, <1>2, <1>3 DEF WalletInv, WalletTyped, PartyInv, PartyTypeOK
<1>11. \A v \in Users :
         Pocket(v)' = (Pocket(v) + IF v = target THEN gift ELSE 0) - (IF v = u THEN gift ELSE 0)
  <2> SUFFICES ASSUME NEW v \in Users
               PROVE  balance'[v] + entitlement'[v] =
                        (balance[v] + entitlement[v] + IF v = target THEN gift ELSE 0)
                          - (IF v = u THEN gift ELSE 0)
    BY DEF Pocket
  <2>1. /\ balance'[v] = balance[v] + IF v = target THEN a ELSE 0
        /\ balance[v] \in Nat
    BY <1>1, <1>3 DEF WalletInv, WalletTyped
  <2>2. entitlement'[v] = entitlement[v] - (IF v = target THEN own ELSE 0)
                                         - (IF v = u THEN gift ELSE 0)
    BY <1>3
  <2> QED BY <1>1, <1>2, <2>1, <2>2
<1>12. OwnMoves \/ Gifts(u, target, gift)
  <2>1. CASE gift = 0
    <3>1. rollover' = rollover
      BY <1>1, <1>3, <2>1 DEF WalletInv, WalletTyped
    <3>2. \A v \in Users : Pocket(v) \in Int
      BY <1>1 DEF Pocket, WalletInv, WalletTyped
    <3>3. \A v \in Users : Pocket(v)' = Pocket(v)
      BY <1>11, <2>1, <3>2
    <3> QED BY <1>3, <3>1, <3>3 DEF OwnMoves
  <2>2. CASE gift # 0
    BY <1>2, <1>3, <1>11, <2>2 DEF Gifts
  <2> QED BY <2>1, <2>2
<1> QED BY <1>2, <1>3, <1>7, <1>9, <1>10, <1>12, PoolSteps DEF PartyStep

(* Every handler of a party.                                               *)
LEMMA PartySteps ==
  ASSUME WalletInv, PartyInv, PartyNext
  PROVE  PartyStep
BY CreatePartySteps, JoinPartySteps, LeavePartySteps, KickSteps, SetSplitModeSteps,
   ContributeSteps, ReclaimSteps, DistributeSteps DEF PartyNext

(* There are no parties at first.                                          *)
LEMMA PartyStarts ==
  ASSUME PartyInit
  PROVE  PartyInv
<1> USE DEF PartyInit
<1>1. PartyTypeOK
  BY PartyAssumption DEF PartyTypeOK, Splits
<1>2. \A p \in PartyIds : Members(p) = {}
  BY PartyAssumption DEF Members
<1>3. PoolIsEntitlements
  BY <1>2, SumEmpty DEF PoolIsEntitlements
<1>4. PartiesAreWhole
  <2>1. \A p \in PartyIds : Cardinality(Members(p)) = 0
    BY <1>2, FS_EmptySet
  <2> QED BY <2>1, PartyAssumption DEF PartiesAreWhole, Exists
<1>5. IdsAreFresh
  BY DEF IdsAreFresh, Exists
<1> QED BY <1>1, <1>3, <1>4, <1>5 DEF PartyInv


----------------------------------------------------------------------------
(* Taking seats                                                            *)

(* What a seat has paid beyond the wager of its table.                     *)
Over(t, u) == Paid(t, u) - wager[t]
(* The seats of party p on one side.                                       *)
PartySide(t, team, p) == {u \in Side(t, team) : seat[t][u].party = p}

(* A solo seat has paid one wager; the seats of a party on one side have   *)
(* paid one wager each on average.                                         *)
Funded(t) ==
  \A team \in Teams :
    /\ \A u \in PartySide(t, team, None) : Over(t, u) = 0
    /\ \A p \in PartyIds :
         SumOver([u \in Users |-> Over(t, u)], PartySide(t, team, p)) = 0

(* A table that was never opened is empty, and others have a size and a    *)
(* wager.                                                                  *)
Opened(t) ==
  /\ status[t] = "NONE" => Seated(t) = {} /\ size[t] = 0 /\ pot[t] = 0
  /\ status[t] # "NONE" => size[t] \in TeamSizes /\ wager[t] > 0

(* No seat is free.                                                        *)
Full(t) == \A team \in Teams : Room(t, team) = 0

(* No side is over its size; a table is locked with its last seat, the     *)
(* whole pot and the rake of that pot, and open until then.                *)
Locks(t) ==
  /\ \A team \in Teams : Room(t, team) >= 0
  /\ status[t] \in {"LOCKED", "LIVE", "FINISHED"} =>
       Full(t) /\ pot[t] = 2 * size[t] * wager[t] /\ rake[t] = Rake(pot[t])
  /\ status[t] = "PENDING" => ~Full(t) /\ pot[t] = 0

(* The invariant of one table.                                             *)
TableOK(t) == Funded(t) /\ Opened(t) /\ Locks(t)

(* The invariant of tables.                                                *)
TableInv == TableTypeOK /\ \A t \in TableIds : TableOK(t)

(* Nothing about a table depends on the rows of others.                    *)
Row(t) == <<status[t], size[t], wager[t], pot[t], rake[t], creator[t], seat[t]>>

(* A table's invariant depends on its own rows only.                       *)
LEMMA RowKeepsTable ==
  ASSUME NEW t, Row(t)' = Row(t), TableOK(t)
  PROVE  TableOK(t)'
<1> USE DEF Row
<1>0. /\ status'[t] = status[t] /\ size'[t] = size[t] /\ wager'[t] = wager[t]
      /\ pot'[t] = pot[t] /\ rake'[t] = rake[t] /\ seat'[t] = seat[t]
  OBVIOUS
<1>1. Seated(t)' = Seated(t)
  BY <1>0 DEF Seated
<1>2. \A team : Side(t, team)' = Side(t, team)
  BY <1>0, <1>1 DEF Side
<1>3. \A team : Room(t, team)' = Room(t, team)
  BY <1>0, <1>2 DEF Room
<1>4. \A u : Over(t, u)' = Over(t, u)
  BY <1>0 DEF Over, Paid
<1>5. \A team, p : PartySide(t, team, p)' = PartySide(t, team, p)
  BY <1>0, <1>2 DEF PartySide
<1>6. Funded(t)'
  BY <1>4, <1>5 DEF TableOK, Funded
<1>7. Opened(t)'
  BY <1>0, <1>1 DEF TableOK, Opened
<1>8. Locks(t)'
  BY <1>0, <1>3 DEF TableOK, Locks, Full
<1> QED BY <1>6, <1>7, <1>8 DEF TableOK

(* Who sits down with u: a party, or u alone.                              *)
LEMMA GroupFacts ==
  ASSUME PartyInv, NEW u \in Users
  PROVE  /\ Group(u) \subseteq Users /\ IsFiniteSet(Group(u)) /\ u \in Group(u)
         /\ Cardinality(Group(u)) \in Nat /\ Cardinality(Group(u)) > 0
<1>1. Group(u) \subseteq Users /\ IsFiniteSet(Group(u)) /\ u \in Group(u)
  BY MembersFinite, FS_Singleton DEF Group, Members
<1>2. Cardinality(Group(u)) \in Nat /\ Cardinality(Group(u)) # 0
  BY <1>1, FS_CardinalityType, FS_EmptySet
<1> QED BY <1>1, <1>2

(* A side is a finite set of users.                                        *)
LEMMA SeatedFinite ==
  ASSUME NEW t, NEW team
  PROVE  /\ IsFiniteSet(Seated(t)) /\ IsFiniteSet(Side(t, team))
         /\ Seated(t) \subseteq Users /\ Side(t, team) \subseteq Seated(t)
         /\ Cardinality(Side(t, team)) \in Nat
<1>1. Seated(t) \subseteq Users /\ Side(t, team) \subseteq Seated(t)
  BY DEF Seated, Side
<1>2. IsFiniteSet(Seated(t)) /\ IsFiniteSet(Side(t, team))
  BY <1>1, FS_Subset, WalletAssumption
<1> QED BY <1>1, <1>2, FS_CardinalityType

(* Seats that pay a wager each on average pay nothing over.                *)
LEMMA NothingOver ==
  ASSUME NEW share, NEW over, NEW group, NEW w \in Nat, IsFiniteSet(group),
         \A v \in group : share[v] \in Nat /\ over[v] = share[v] - w,
         SumOver(share, group) = w * Cardinality(group)
  PROVE  SumOver(over, group) = 0
<1> DEFINE const == [v \in group |-> w]
<1>1. \A v \in group : const[v] = w
  OBVIOUS
<1> HIDE DEF const
<1>2. SumOver(const, group) = w * Cardinality(group)
  BY <1>1, SumConst
<1>3. SumOver(over, group) = SumOver(share, group) - SumOver(const, group)
  <2>1. \A v \in group : share[v] \in Int /\ const[v] \in Int /\ over[v] = share[v] - const[v]
    BY <1>1
  <2> QED BY <2>1, SumMinus
<1>4. SumOver(const, group) \in Int
  BY <1>2, FS_CardinalityType
<1> QED BY <1>2, <1>3, <1>4

(* What sitting down does to the seats of a table.                         *)
Sits(t, group, team, share, p, w) ==
  /\ Sit(t, group, team, share, p)
  /\ share \in [group -> Nat]
  /\ p = None => \A v \in group : share[v] = w
  /\ p # None => SumOver(share, group) = w * Cardinality(group)

(* The rows that sitting down adds.                                        *)
NewRows(t, group, team, share, p) ==
  /\ seat' \in [TableIds -> [Users -> Seats \cup {None}]]
  /\ \A s \in TableIds \ {t} : seat'[s] = seat[s]
  /\ \A v \in Users \ group : seat'[t][v] = seat[t][v]
  /\ \A v \in group : /\ seat'[t][v] # None
                      /\ seat'[t][v].team = team /\ seat'[t][v].party = p
                      /\ seat'[t][v].paid = share[v]

(* Sitting down adds those rows and no others.                             *)
LEMMA SitSeats ==
  ASSUME TableTypeOK, PartyInv, NEW t \in TableIds, NEW group, NEW team \in Teams,
         NEW share, NEW p \in PartyIds \cup {None}, NEW w,
         group \subseteq Users, Sits(t, group, team, share, p, w)
  PROVE  NewRows(t, group, team, share, p)
<1> DEFINE row(v) == [team |-> team, paid |-> share[v], party |-> p,
                      split |-> IF p = None THEN None ELSE split[p]]
<1>1. seat' = [seat EXCEPT ![t] = [v \in Users |-> IF v \in group THEN row(v) ELSE seat[t][v]]]
  BY DEF Sits, Sit
<1>2. \A v \in group : row(v) \in Seats
  BY DEF Sits, Seats, PartyInv, PartyTypeOK
<1>3. /\ \A v \in group : row(v).team = team /\ row(v).party = p /\ row(v).paid = share[v]
  OBVIOUS
<1> HIDE DEF row
<1>4. \A v \in group : row(v) # None
  BY <1>2, SeatAssumption
<1>5. seat' \in [TableIds -> [Users -> Seats \cup {None}]]
  BY <1>1, <1>2 DEF TableTypeOK
<1>6. \A s \in TableIds \ {t} : seat'[s] = seat[s]
  BY <1>1 DEF TableTypeOK
<1>7. \A v \in Users : seat'[t][v] = IF v \in group THEN row(v) ELSE seat[t][v]
  BY <1>1 DEF TableTypeOK
<1> QED BY <1>3, <1>4, <1>5, <1>6, <1>7 DEF NewRows

(* A side of the table has grown by the group, and nothing else has.       *)
Grows(t, group, team, p) ==
  /\ Seated(t)' = Seated(t) \cup group
  /\ \A x \in Teams : Side(t, x)' = IF x = team THEN Side(t, x) \cup group ELSE Side(t, x)
  /\ PartySide(t, team, p)' = PartySide(t, team, p) \cup group
  /\ \A x \in Teams : \A q \in PartyIds \cup {None} :
       x # team \/ q # p => PartySide(t, x, q)' = PartySide(t, x, q)
  /\ Cardinality(Side(t, team)') = Cardinality(Side(t, team)) + Cardinality(group)

(* The side they choose grows by the group.                                *)
LEMMA SitSides ==
  ASSUME TableTypeOK, PartyInv, NEW t \in TableIds, NEW group, NEW team \in Teams,
         NEW share, NEW p \in PartyIds \cup {None}, NEW w,
         group \subseteq Users, Sits(t, group, team, share, p, w),
         group \cap Seated(t) = {}
  PROVE  Grows(t, group, team, p)
<1>0. NewRows(t, group, team, share, p)
  BY SitSeats
<1>1. /\ \A v \in Users \ group : seat'[t][v] = seat[t][v]
      /\ \A v \in group : /\ seat'[t][v] # None /\ v \in Users /\ seat[t][v] = None
                          /\ seat'[t][v].team = team /\ seat'[t][v].party = p
  BY <1>0 DEF Seated, NewRows
<1>2. Seated(t)' = Seated(t) \cup group
  BY <1>1 DEF Seated
<1>3. ASSUME NEW x \in Teams
      PROVE  Side(t, x)' = IF x = team THEN Side(t, x) \cup group ELSE Side(t, x)
  <2>1. Side(t, x)' = {v \in Seated(t) \cup group : seat'[t][v].team = x}
    BY <1>2 DEF Side
  <2>2. \A v \in Seated(t) : v \notin group /\ seat'[t][v] = seat[t][v]
    BY <1>1 DEF Seated
  <2>3. \A v : v \in Side(t, x) <=> v \in Seated(t) /\ seat[t][v].team = x
    BY DEF Side
  <2>4. \A v : v \in Side(t, x)' <=> \/ v \in Side(t, x)
                                     \/ v \in group /\ team = x
    BY <1>1, <2>1, <2>2, <2>3
  <2> QED BY <2>4
<1>4. ASSUME NEW x \in Teams, NEW q \in PartyIds \cup {None}
      PROVE  PartySide(t, x, q)' =
              IF x = team /\ q = p THEN PartySide(t, x, q) \cup group ELSE PartySide(t, x, q)
  <2>1. \A v : v \in Side(t, x) => v \in Users /\ v \notin group /\ seat'[t][v] = seat[t][v]
    BY <1>1 DEF Side, Seated
  <2>2. \A v : v \in PartySide(t, x, q)' <=> v \in Side(t, x)' /\ seat'[t][v].party = q
    BY DEF PartySide
  <2>3. \A v : v \in PartySide(t, x, q) <=> v \in Side(t, x) /\ seat[t][v].party = q
    BY DEF PartySide
  <2>4. \A v : v \in Side(t, x)' <=> v \in Side(t, x) \/ (x = team /\ v \in group)
    BY <1>3
  <2>5. \A v : v \in PartySide(t, x, q)' <=> \/ v \in PartySide(t, x, q)
                                             \/ x = team /\ q = p /\ v \in group
    BY <1>1, <2>1, <2>2, <2>3, <2>4
  <2> QED BY <2>5
<1>5. Cardinality(Side(t, team)') = Cardinality(Side(t, team)) + Cardinality(group)
  <2>1. IsFiniteSet(group) /\ IsFiniteSet(Side(t, team))
    BY SeatedFinite, FS_Subset, WalletAssumption
  <2>2. Side(t, team) \cap group = {}
    BY SeatedFinite
  <2>3. Cardinality(Side(t, team) \cup group) =
          Cardinality(Side(t, team)) + Cardinality(group) - Cardinality(Side(t, team) \cap group)
    BY <2>1, FS_Union
  <2>4. Cardinality(Side(t, team) \cap group) = 0
    BY <2>2, FS_EmptySet
  <2>5. Cardinality(Side(t, team)) \in Nat /\ Cardinality(group) \in Nat
    BY <2>1, FS_CardinalityType
  <2>6. Cardinality(Side(t, team) \cup group) = Cardinality(Side(t, team)) + Cardinality(group)
    BY <2>3, <2>4, <2>5
  <2> QED BY <1>3, <2>6
<1> QED BY <1>2, <1>3, <1>4, <1>5 DEF Grows

(* A group that pays one wager a head on average keeps its side funded.    *)
LEMMA SitFunds ==
  ASSUME TableTypeOK, PartyInv, NEW t \in TableIds, NEW group, NEW team \in Teams,
         NEW share, NEW p \in PartyIds \cup {None}, NEW w \in Nat,
         group \subseteq Users, Sits(t, group, team, share, p, w),
         group \cap Seated(t) = {}, TableOK(t),
         wager'[t] = w, status[t] = "NONE" \/ wager[t] = w
  PROVE  Funded(t)'
<1>r. NewRows(t, group, team, share, p)
  BY SitSeats
<1>1. \A v \in group : seat'[t][v] # None /\ seat'[t][v].paid = share[v] /\ share[v] \in Nat
  BY <1>r DEF Sits, NewRows
<1>2. \A v \in group : Over(t, v)' = share[v] - w /\ Over(t, v)' \in Int
  BY <1>1 DEF Over, Paid
<1>3. \A v \in Seated(t) : Over(t, v)' = Over(t, v) /\ Over(t, v) \in Int
  <2>1. status[t] # "NONE" \/ Seated(t) = {}
    BY DEF TableOK, Opened
  <2> SUFFICES ASSUME NEW v \in Seated(t)
               PROVE  Over(t, v)' = Over(t, v) /\ Over(t, v) \in Int
    OBVIOUS
  <2>2. wager[t] = w /\ v \in Users /\ v \notin group
    BY <2>1 DEF Seated
  <2>3. seat'[t][v] = seat[t][v]
    BY <1>r, <2>2 DEF NewRows
  <2>4. Over(t, v)' = Over(t, v)
    BY <2>2, <2>3 DEF Over, Paid
  <2>5. seat[t][v] \in Seats
    BY <2>2 DEF TableTypeOK, Seated
  <2>6. Over(t, v) \in Int
    BY <2>2, <2>5 DEF Over, Paid, Seats
  <2> QED BY <2>4, <2>6
<1>4. \A x \in Teams : \A q : PartySide(t, x, q) \subseteq Seated(t)
  BY DEF PartySide, Side
<1>0. Grows(t, group, team, p)
  BY SitSides
<1>5. ASSUME NEW x \in Teams, NEW v \in PartySide(t, x, None)'
      PROVE  Over(t, v)' = 0
  <2>1. CASE v \in PartySide(t, x, None)
    BY <1>3, <1>4, <2>1 DEF TableOK, Funded
  <2>2. CASE v \notin PartySide(t, x, None)
    <3>1. v \in group /\ p = None
      BY <1>0, <1>5, <2>2 DEF Grows
    <3>2. share[v] = w
      BY <3>1 DEF Sits
    <3> QED BY <1>2, <3>1, <3>2
  <2> QED BY <2>1, <2>2
<1>6. ASSUME NEW x \in Teams, NEW q \in PartyIds
      PROVE  SumOver([u \in Users |-> Over(t, u)'], PartySide(t, x, q)') = 0
  <2> DEFINE f == [u \in Users |-> Over(t, u)]
             g == [u \in Users |-> Over(t, u)']
             old == PartySide(t, x, q)
  <2>1. SumOver(f, old) = 0
    BY DEF TableOK, Funded
  <2>2. \A v \in old : v \in Users /\ v \in Seated(t)
    BY <1>4 DEF Seated
  <2>3. \A v \in old : f[v] = g[v] /\ g[v] \in Int
    BY <1>3, <2>2
  <2>4. IsFiniteSet(old)
    BY <1>4, SeatedFinite, FS_Subset
  <2>5. \A v \in group : g[v] = share[v] - w /\ g[v] \in Int
    BY <1>2
  <2> HIDE DEF f, g
  <2>6. SumOver(g, old) = 0
    BY <2>1, <2>3, <2>4, SumSame
  <2>7. CASE x = team /\ q = p
    <3>1. IsFiniteSet(group)
      BY FS_Subset, WalletAssumption
    <3>2. SumOver(share, group) = w * Cardinality(group)
      BY <2>7, PartyAssumption DEF Sits
    <3>3. SumOver(g, group) = 0
      BY <1>1, <2>5, <3>1, <3>2, NothingOver
    <3>4. old \cap group = {}
      BY <2>2
    <3>5. SumOver(g, old \cup group) = SumOver(g, old) + SumOver(g, group)
      <4> HIDE DEF old
      <4>1. \A v \in old \cup group : g[v] \in Int
        BY <2>3, <2>5
      <4> QED BY <2>4, <3>1, <3>4, <4>1, SumUnion
    <3>6. PartySide(t, x, q)' = old \cup group
      BY <1>0, <2>7 DEF Grows
    <3> QED BY <2>6, <3>3, <3>5, <3>6 DEF g
  <2>8. CASE ~(x = team /\ q = p)
    <3>1. PartySide(t, x, q)' = old
      BY <1>0, <2>8 DEF Grows
    <3> QED BY <2>6, <3>1 DEF g
  <2> QED BY <2>7, <2>8
<1> QED BY <1>5, <1>6 DEF Funded

(* The group of u takes seats for one wager each on average, from what its *)
(* members have outside the tables.                                        *)
Seating(t, u, team, w) ==
  \E p \in PartyIds \cup {None} : \E share :
    /\ Sits(t, Group(u), team, share, p, w)
    /\ \A v \in Users :
         Pocket(v)' = Pocket(v) - (IF v \in Group(u) THEN share[v] ELSE 0)
    /\ p # None => p \in logged' /\ Exists(p) /\ leader[p] = u

(* A handler of tables that writes no column but these.                    *)
OnTables ==
  /\ UNCHANGED <<leader, split, lastParty, party>>
  /\ UNCHANGED <<principal, fees, custody, providerVars>>

(* A user sits down alone and pays from the balance.                       *)
LEMMA SoloSteps ==
  ASSUME WalletInv, PartyInv, NEW t \in TableIds, NEW u \in Users,
         NEW team \in Teams, NEW w \in Nat,
         SeatSolo(t, u, team, w), OnTables, UNCHANGED rollover
  PROVE  /\ WalletInv' /\ PartyInv' /\ LogsBind
         /\ Seating(t, u, team, w)
<1> USE DEF OnTables
<1>1. /\ balance[u] \in Nat /\ w <= balance[u]
      /\ balance' = [balance EXCEPT ![u] = balance[u] - w]
      /\ UNCHANGED <<pool, entitlement, logged>>
      /\ Sit(t, {u}, team, [v \in {u} |-> w], None)
      /\ Group(u) = {u}
  BY DEF SeatSolo, Group, WalletInv, WalletTyped
<1>2. WalletInv' /\ PartyInv' /\ LogsBind
  <2>1. /\ balance' \in [Users -> Nat] /\ rollover' \in [Users -> Nat]
        /\ entitlement' \in [Users -> Nat] /\ pool' \in [PartyIds -> Nat]
        /\ logged' \subseteq PartyIds /\ logged \subseteq logged'
    BY <1>1 DEF WalletInv, WalletTyped, PartyInv, PartyTypeOK
  <2>2. \A p \in PartyIds : Members(p)' = Members(p)
    BY DEF Members
  <2>3. PoolIsEntitlements'
    BY <1>1, <2>2 DEF PartyInv, PoolIsEntitlements
  <2> QED BY <1>1, <2>1, <2>3, PoolSteps
<1>3. Sits(t, Group(u), team, [v \in {u} |-> w], None, w)
  BY <1>1 DEF Sits
<1>4. \A v \in Users : Pocket(v)' =
        Pocket(v) - (IF v \in Group(u) THEN [x \in {u} |-> w][v] ELSE 0)
  BY <1>1 DEF Pocket, WalletInv, WalletTyped, PartyInv, PartyTypeOK
<1> QED BY <1>2, <1>3, <1>4 DEF Seating

(* A party sits down and pays from the pool: the shares add up to its cost *)
(* and nobody pays more than they have there.                              *)
LEMMA PartySeatSteps ==
  ASSUME WalletInv, PartyInv, NEW t \in TableIds, NEW u \in Users,
         NEW team \in Teams, NEW w \in Nat, MayQueue(u),
         SeatParty(t, u, team, w), OnTables, UNCHANGED rollover
  PROVE  /\ WalletInv' /\ PartyInv' /\ LogsBind
         /\ Seating(t, u, team, w)
<1> USE DEF OnTables
<1>1. PICK p : p = party[u] OBVIOUS
<1>2. PICK group : group = Members(p) OBVIOUS
<1>3. PICK total : total = w * Cardinality(group) OBVIOUS
<1>4. PICK weight : weight = [v \in group |-> entitlement[v]] OBVIOUS
<1>5. PICK share \in Allocations(total, weight) :
        /\ entitlement' = [v \in Users |->
             IF v \in group THEN entitlement[v] - share[v] ELSE entitlement[v]]
        /\ Sit(t, group, team, share, p)
  BY <1>1, <1>2, <1>3, <1>4 DEF SeatParty
<1>6. /\ QueuesAsParty(u) /\ pool[p] >= total
      /\ pool' = [pool EXCEPT ![p] = pool[p] - total]
      /\ logged' = logged \cup {p}
      /\ UNCHANGED balance
  BY <1>1, <1>2, <1>3 DEF SeatParty
<1>7. p \in PartyIds /\ p # None /\ Exists(p) /\ leader[p] = u /\ Group(u) = group
  BY <1>1, <1>2, <1>6 DEF QueuesAsParty, MayQueue, Leads, Group, PartyInv, PartyTypeOK, PartiesAreWhole
<1>8. group \subseteq Users /\ IsFiniteSet(group)
  BY <1>2, MembersFinite
<1>9. total \in Nat
  BY <1>3, <1>8, FS_CardinalityType
<1>10. \A v \in Users : entitlement[v] \in Nat /\ balance[v] \in Nat
  BY DEF WalletInv, WalletTyped, PartyInv, PartyTypeOK
<1>11. pool[p] \in Nat /\ pool[p] = SumOver(entitlement, group)
  BY <1>2, <1>7 DEF PartyInv, PartyTypeOK, PoolIsEntitlements
<1>12. SumOver(weight, group) = SumOver(entitlement, group)
  <2>1. \A v \in group : weight[v] = entitlement[v]
    BY <1>4
  <2> QED BY <1>8, <2>1, SumSame
<1>13. /\ share \in [group -> Nat] /\ SumOver(share, group) = total
       /\ \A v \in group : share[v] <= entitlement[v]
  <2>1. DOMAIN weight = group /\ \A v \in group : weight[v] = entitlement[v] /\ weight[v] \in Nat
    BY <1>4, <1>8, <1>10
  <2>2. /\ share \in [group -> Nat] /\ SumOver(share, group) = total
        /\ total <= SumOver(weight, group) => \A v \in group : share[v] <= weight[v]
    BY <1>5, <1>8, <1>9, <2>1, AllocationGives
  <2> QED BY <1>6, <1>11, <1>12, <2>1, <2>2
<1>14. entitlement' \in [Users -> Nat]
  BY <1>5, <1>10, <1>13
<1>15. PoolIsEntitlements' /\ pool' \in [PartyIds -> Nat]
  <2> DEFINE d == [v \in Users |-> IF v \in group THEN - share[v] ELSE 0]
  <2>1. \A v \in Users : /\ d[v] \in Int /\ entitlement'[v] = entitlement[v] + d[v]
                         /\ party[v] = None => d[v] = 0
    BY <1>2, <1>5, <1>7, <1>10, <1>13 DEF Members
  <2>2. \A v \in group : share[v] \in Int /\ d[v] \in Int /\ d[v] = - share[v]
    BY <1>8, <1>13
  <2>3. \A v \in Users \ group : d[v] = 0
    OBVIOUS
  <2> HIDE DEF d
  <2>4. SumOver(d, group) = - total
    <3> DEFINE z == [v \in group |-> 0]
    <3>1. \A v \in group : z[v] = 0
      OBVIOUS
    <3> HIDE DEF z
    <3>2. SumOver(z, group) = 0
      BY <1>8, <3>1, SumZero
    <3>3. SumOver(d, group) = SumOver(z, group) - SumOver(share, group)
      <4>1. \A v \in group : z[v] \in Int /\ share[v] \in Int /\ d[v] = z[v] - share[v]
        BY <2>2, <3>1
      <4> QED BY <1>8, <4>1, SumMinus
    <3> QED BY <1>9, <1>13, <3>2, <3>3
  <2>5. ASSUME NEW q \in PartyIds PROVE pool'[q] = pool[q] + SumOver(d, Members(q))
    <3>1. pool[q] \in Nat /\ pool'[q] = IF q = p THEN pool[p] - total ELSE pool[q]
      BY <1>6, <1>7 DEF PartyInv, PartyTypeOK
    <3>2. CASE q = p
      BY <1>2, <1>9, <1>11, <2>4, <3>1, <3>2
    <3>3. CASE q # p
      <4>1. \A v \in Members(q) : d[v] = 0
        BY <1>2, <2>3, <3>3 DEF Members
      <4>2. SumOver(d, Members(q)) = 0
        BY <4>1, MembersFinite, SumZero
      <4> QED BY <3>1, <3>3, <4>2
    <3> QED BY <3>2, <3>3
  <2>6. pool' = [q \in PartyIds |-> pool'[q]]
    BY <1>6 DEF PartyInv, PartyTypeOK
  <2> QED BY <1>14, <2>1, <2>5, <2>6, PoolsFollow
<1>16. WalletInv' /\ PartyInv' /\ LogsBind
  <2>1. /\ balance' \in [Users -> Nat] /\ rollover' \in [Users -> Nat]
        /\ logged' \subseteq PartyIds /\ logged \subseteq logged'
    BY <1>6, <1>7 DEF WalletInv, WalletTyped, PartyInv, PartyTypeOK
  <2> QED BY <1>14, <1>15, <2>1, PoolSteps
<1>17. Sits(t, Group(u), team, share, p, w)
  BY <1>3, <1>5, <1>7, <1>13 DEF Sits
<1>18. \A v \in Users : Pocket(v)' = Pocket(v) - (IF v \in Group(u) THEN share[v] ELSE 0)
  BY <1>5, <1>6, <1>7, <1>10, <1>13 DEF Pocket
<1>19. p \in logged'
  BY <1>6
<1> QED BY <1>7, <1>16, <1>17, <1>18, <1>19 DEF Seating

(* Either way of sitting down.                                             *)
LEMMA SeatingSteps ==
  ASSUME WalletInv, PartyInv, NEW t \in TableIds, NEW u \in Users,
         NEW team \in Teams, NEW w \in Nat, MayQueue(u),
         SeatSolo(t, u, team, w) \/ SeatParty(t, u, team, w), OnTables, UNCHANGED rollover
  PROVE  /\ WalletInv' /\ PartyInv' /\ LogsBind
         /\ Seating(t, u, team, w)
BY SoloSteps, PartySeatSteps

(* On Postgres, while a party has seats at a table its leader has one of   *)
(* them, and a leader who opened the table still leads.                    *)
SeatsLed(t) ==
  \A p \in PartyIds, u \in Seated(t) :
    seat[t][u].party = p => /\ p \in logged /\ Exists(p)
                            /\ leader[p] \in Seated(t) /\ seat[t][leader[p]].party = p

(* Whoever opened a table sits on its team A; if they came with a party    *)
(* they still lead it.                                                     *)
CreatorLeads(t) ==
  status[t] = "PENDING" =>
    /\ creator[t] \in Side(t, "A")
    /\ \A p \in PartyIds :
         seat[t][creator[t]].party = p => p \in logged /\ Exists(p) /\ leader[p] = creator[t]

(* The invariant that Postgres adds.                                       *)
Led(t) == SeatsLed(t) /\ CreatorLeads(t)

(* Parties come and go without touching a table that logs them: Postgres'  *)
(* foreign key refuses to delete those.                                    *)
LEMMA RowKeepsLed ==
  ASSUME ~Sqlite, TableTypeOK, LogsBind, NEW t \in TableIds, Row(t)' = Row(t), Led(t)
  PROVE  Led(t)'
<1>1. /\ status'[t] = status[t] /\ creator'[t] = creator[t] /\ seat'[t] = seat[t]
  BY DEF Row
<1>2. Seated(t)' = Seated(t)
  BY <1>1 DEF Seated
<1>3. Side(t, "A")' = Side(t, "A")
  BY <1>1, <1>2 DEF Side
<1>4. \A u \in Seated(t) : seat[t][u].party \in PartyIds \cup {None}
  BY DEF TableTypeOK, Seated, Seats
<1>5. \A p \in PartyIds : p \in logged /\ Exists(p) =>
        p \in logged' /\ Exists(p)' /\ leader'[p] = leader[p]
  BY DEF LogsBind, Exists
<1>6. SeatsLed(t)'
  BY <1>1, <1>2, <1>4, <1>5 DEF Led, SeatsLed
<1>7. CreatorLeads(t)'
  BY <1>1, <1>3, <1>5 DEF Led, CreatorLeads
<1> QED BY <1>6, <1>7 DEF Led

(* A party that sits down does so with its leader.                         *)
LEMMA SitLeads ==
  ASSUME ~Sqlite, TableTypeOK, PartyInv, LogsBind, NEW t \in TableIds, NEW group,
         NEW team \in Teams, NEW share, NEW p \in PartyIds \cup {None}, NEW w, NEW u \in group,
         group \subseteq Users, Sits(t, group, team, share, p, w),
         group \cap Seated(t) = {}, SeatsLed(t),
         p # None => p \in logged' /\ Exists(p) /\ leader[p] = u,
         UNCHANGED leader
  PROVE  SeatsLed(t)'
<1>1. Seated(t)' = Seated(t) \cup group
  <2>1. Grows(t, group, team, p)
    BY SitSides
  <2> QED BY <2>1 DEF Grows
<1>2. NewRows(t, group, team, share, p)
  BY SitSeats
<1>3. ASSUME NEW q \in PartyIds, NEW v \in Seated(t)', seat'[t][v].party = q
      PROVE  /\ q \in logged' /\ Exists(q)'
             /\ leader'[q] \in Seated(t)' /\ seat'[t][leader'[q]].party = q
  <2>1. CASE v \in group
    <3>1. seat'[t][v].party = p /\ seat'[t][u].party = p /\ q = p
      BY <1>2, <1>3, <2>1 DEF NewRows
    <3>2. p \in logged' /\ leader'[p] = u /\ u \in Seated(t)' /\ u # None
      BY <1>1, <1>3, <3>1, WalletAssumption, PartyAssumption
    <3> QED BY <3>1, <3>2 DEF Exists
  <2>2. CASE v \notin group
    <3>1. v \in Seated(t) /\ v \in Users /\ seat'[t][v] = seat[t][v]
      BY <1>1, <1>2, <2>2 DEF Seated, NewRows
    <3>2. q \in logged /\ Exists(q) /\ leader[q] \in Seated(t) /\ seat[t][leader[q]].party = q
      BY <1>3, <3>1 DEF SeatsLed
    <3>3. leader[q] \in Users /\ leader[q] \notin group
      BY <3>2 DEF Seated
    <3>4. seat'[t][leader[q]] = seat[t][leader[q]]
      BY <1>2, <3>3 DEF NewRows
    <3>5. q \in logged' /\ Exists(q)'
      BY <3>2 DEF LogsBind, Exists
    <3> QED BY <1>1, <3>2, <3>4, <3>5
  <2> QED BY <2>1, <2>2
<1> QED BY <1>3 DEF SeatsLed

(* What a group sitting down at a table changes.                           *)
SeatsTaken(t, u, team) ==
  /\ WalletInv' /\ PartyInv' /\ LogsBind
  /\ seat' \in [TableIds -> [Users -> Seats \cup {None}]]
  /\ \A s \in TableIds \ {t} : seat'[s] = seat[s]
  /\ Funded(t)'
  /\ Seated(t)' = Seated(t) \cup Group(u)
  /\ \A x \in Teams :
       /\ Side(t, x) \subseteq Side(t, x)'
       /\ Cardinality(Side(t, x)') =
            Cardinality(Side(t, x)) + IF x = team THEN Cardinality(Group(u)) ELSE 0
  /\ u \in Side(t, team)'
  /\ \A v \in Seated(t) : seat'[t][v] = seat[t][v]
  /\ \A v \in Users : Pocket(v)' + Paid(t, v)' = Pocket(v) + Paid(t, v)

(* What it leaves to rely on, on Postgres.                                 *)
SeatsTogether(t, u) ==
  /\ SeatsLed(t)'
  /\ \A p \in PartyIds : PartySeats(t, p) # {} => PartySeats(t, p)' = PartySeats(t, p)
  /\ \A p \in PartyIds :
       seat'[t][u].party = p => p \in logged' /\ Exists(p)' /\ leader'[p] = u

(* A seat is a row of the right type, and an empty one has paid nothing.   *)
LEMMA SeatedRows ==
  ASSUME TableTypeOK, NEW t \in TableIds, NEW u \in Users
  PROVE  /\ u \in Seated(t) <=> seat[t][u] # None
         /\ u \in Seated(t) => /\ seat[t][u] \in Seats /\ Paid(t, u) = seat[t][u].paid
                               /\ seat[t][u].team \in Teams /\ seat[t][u].paid \in Nat
                               /\ seat[t][u].party \in PartyIds \cup {None}
         /\ u \notin Seated(t) => Paid(t, u) = 0
         /\ Paid(t, u) \in Nat
BY DEF TableTypeOK, Seated, Seats, Paid

(* Sitting down, on a table that is open or about to be.                   *)
LEMMA SeatingTable ==
  ASSUME WalletInv, PartyInv, TableTypeOK, NEW t \in TableIds, NEW u \in Users,
         NEW team \in Teams, NEW w \in Nat, MayQueue(u), TableOK(t),
         SeatSolo(t, u, team, w) \/ SeatParty(t, u, team, w), OnTables, UNCHANGED rollover,
         Group(u) \cap Seated(t) = {}, wager'[t] = w, status[t] = "NONE" \/ wager[t] = w
  PROVE  /\ SeatsTaken(t, u, team)
         /\ ~Sqlite /\ SeatsLed(t) => SeatsTogether(t, u)
<1>1. WalletInv' /\ PartyInv' /\ LogsBind /\ Seating(t, u, team, w)
  BY SeatingSteps
<1>p. PICK p \in PartyIds \cup {None} :
        \E share :
          /\ Sits(t, Group(u), team, share, p, w)
          /\ \A v \in Users :
               Pocket(v)' = Pocket(v) - (IF v \in Group(u) THEN share[v] ELSE 0)
          /\ p # None => p \in logged' /\ Exists(p) /\ leader[p] = u
  BY <1>1 DEF Seating
<1>2. PICK share :
        /\ Sits(t, Group(u), team, share, p, w)
        /\ \A v \in Users :
             Pocket(v)' = Pocket(v) - (IF v \in Group(u) THEN share[v] ELSE 0)
        /\ p # None => p \in logged' /\ Exists(p) /\ leader[p] = u
  BY <1>p
<1>3. PICK group : group = Group(u)
  OBVIOUS
<1>4. /\ group \subseteq Users /\ IsFiniteSet(group) /\ u \in group
      /\ Cardinality(group) \in Nat /\ group \cap Seated(t) = {}
      /\ Sits(t, group, team, share, p, w)
  BY <1>2, <1>3, GroupFacts
<1>5. NewRows(t, group, team, share, p) /\ Grows(t, group, team, p) /\ Funded(t)'
  <2>1. NewRows(t, group, team, share, p)
    BY <1>4, SitSeats
  <2>2. Grows(t, group, team, p)
    BY <1>4, SitSides
  <2>3. Funded(t)'
    BY <1>4, SitFunds
  <2> QED BY <2>1, <2>2, <2>3
<1>6. \A x \in Teams :
        /\ Side(t, x) \subseteq Side(t, x)'
        /\ Cardinality(Side(t, x)') =
             Cardinality(Side(t, x)) + IF x = team THEN Cardinality(group) ELSE 0
  <2> SUFFICES ASSUME NEW x \in Teams
               PROVE  /\ Side(t, x) \subseteq Side(t, x)'
                      /\ Cardinality(Side(t, x)') = Cardinality(Side(t, x))
                           + IF x = team THEN Cardinality(group) ELSE 0
    OBVIOUS
  <2>1. CASE x = team
    BY <1>5, <2>1 DEF Grows
  <2>2. CASE x # team
    <3>1. Side(t, x)' = Side(t, x) /\ Cardinality(Side(t, x)) \in Nat
      BY <1>5, <2>2, SeatedFinite DEF Grows
    <3> QED BY <2>2, <3>1
  <2> QED BY <2>1, <2>2
<1>7. \A v \in Seated(t) : v \in Users /\ v \notin group /\ seat'[t][v] = seat[t][v]
  BY <1>4, <1>5 DEF NewRows, Seated
<1>8. u \in Side(t, team)'
  BY <1>4, <1>5 DEF Grows
<1>9. ASSUME NEW v \in Users
      PROVE  Pocket(v)' + Paid(t, v)' = Pocket(v) + Paid(t, v)
  <2>1. Pocket(v) \in Int
    BY DEF Pocket, WalletInv, WalletTyped, PartyInv, PartyTypeOK
  <2>2. CASE v \in group
    <3>1. v \notin Seated(t) /\ seat'[t][v] # None /\ seat'[t][v].paid = share[v]
      BY <1>4, <1>5, <2>2 DEF NewRows
    <3>2. share[v] \in Nat
      BY <1>4, <2>2 DEF Sits
    <3>3. Paid(t, v)' = share[v] /\ Paid(t, v) = 0
      BY <3>1, SeatedRows DEF Paid
    <3>4. Pocket(v)' = Pocket(v) - share[v]
      BY <1>2, <1>3, <2>2
    <3> QED BY <2>1, <3>2, <3>3, <3>4
  <2>3. CASE v \notin group
    <3>1. Paid(t, v)' = Paid(t, v)
      BY <1>5, <2>3 DEF NewRows, Paid
    <3>2. Pocket(v)' = Pocket(v)
      BY <1>2, <1>3, <2>1, <2>3
    <3> QED BY <3>1, <3>2
  <2> QED BY <2>2, <2>3
<1>10. SeatsTaken(t, u, team)
  BY <1>1, <1>3, <1>5, <1>6, <1>7, <1>8, <1>9 DEF SeatsTaken, NewRows, Grows
<1>11. ASSUME ~Sqlite, SeatsLed(t)
       PROVE  SeatsTogether(t, u)
  <2>1. UNCHANGED leader
    BY DEF OnTables
  <2>2. SeatsLed(t)'
    BY <1>1, <1>2, <1>4, <1>11, <2>1, SitLeads
  <2>3. \A q \in PartyIds :
          seat'[t][u].party = q => q \in logged' /\ Exists(q)' /\ leader'[q] = u
    BY <1>2, <1>4, <1>5, <2>1, PartyAssumption DEF NewRows, Exists
  <2>4. ASSUME NEW q \in PartyIds, PartySeats(t, q) # {}
        PROVE  PartySeats(t, q)' = PartySeats(t, q)
    <3>1. PICK v \in Seated(t) : seat[t][v].party = q
      BY <2>4 DEF PartySeats
    <3>2. leader[q] \in Seated(t)
      BY <1>11, <3>1 DEF SeatsLed
    <3>3. p # q
      BY <1>2, <1>4, <3>2, PartyAssumption
    <3>4. Seated(t)' = Seated(t) \cup group
      BY <1>5 DEF Grows
    <3>5. \A x \in group : seat'[t][x].party # q
      BY <1>5, <3>3 DEF NewRows
    <3>6. \A x : x \in Seated(t)' /\ seat'[t][x].party = q
             <=> x \in Seated(t) /\ seat[t][x].party = q
      BY <1>7, <3>4, <3>5
    <3>7. {x \in Seated(t)' : seat'[t][x].party = q} = {x \in Seated(t) : seat[t][x].party = q}
      BY <3>6
    <3>8. PartySeats(t, q)' =
            {<<x, seat'[t][x].team>> : x \in {y \in Seated(t)' : seat'[t][y].party = q}}
      BY DEF PartySeats
    <3>9. PartySeats(t, q)' = {<<x, seat'[t][x].team>> : x \in {y \in Seated(t) : seat[t][y].party = q}}
      BY <3>7, <3>8
    <3>10. \A x \in {y \in Seated(t) : seat[t][y].party = q} : seat'[t][x].team = seat[t][x].team
      BY <1>7
    <3> QED BY <3>9, <3>10 DEF PartySeats
  <2> QED BY <2>2, <2>3, <2>4 DEF SeatsTogether
<1> QED BY <1>10, <1>11

(* Nobody owns more or less than before, and the table is not decided.     *)
Bets(t) ==
  /\ UNCHANGED <<principal, rollover, fees, custody, providerVars>>
  /\ \A u \in Users : Pocket(u)' + AtStake(t, u)' = Pocket(u) + AtStake(t, u)
  /\ status[t] = "FINISHED" <=> status'[t] = "FINISHED"
  /\ status[t] = "FINISHED" => rake'[t] = rake[t]

(* The table is decided: the winners share what the rake leaves of what    *)
(* all seats have paid, in proportion to what each of them has.            *)
Settles(t) ==
  /\ UNCHANGED <<principal, fees, custody, providerVars>>
  /\ status[t] \in Undecided /\ status'[t] = "FINISHED"
  /\ rake'[t] = rake[t] /\ rake[t] = Rake(pot[t])
  /\ pot[t] > 0 /\ pot[t] = SumOver([u \in Users |-> Paid(t, u)], Users)
  /\ \A u \in Users : rollover'[u] = Burn(rollover[u], Paid(t, u))
  /\ \E team \in Teams :
       \E prize \in Allocations(pot[t] - rake[t],
                                [u \in Side(t, team) |-> seat[t][u].paid]) :
         \A u \in Users :
           Pocket(u)' = Pocket(u) + (IF u \in Side(t, team) THEN prize[u] ELSE 0)

(* The seats of a party stay, or go at once.                               *)
MovesTogether(t) ==
  \A p \in PartyIds :
    PartySeats(t, p) # {} => PartySeats(t, p)' \in {PartySeats(t, p), {}}

(* What a handler of table t keeps.                                        *)
TableStep(t) ==
  /\ WalletInv' /\ PartyInv' /\ LogsBind
  /\ TableTypeOK' /\ TableOK(t)'
  /\ \A s \in TableIds \ {t} : Row(s)' = Row(s)
  /\ ~Sqlite /\ Led(t) => Led(t)' /\ MovesTogether(t)
  /\ Bets(t) \/ Settles(t)

(* What the invariant says of one table.                                   *)
LEMMA TableFacts ==
  ASSUME TableInv, NEW t \in TableIds
  PROVE  /\ TableTypeOK /\ TableOK(t) /\ size[t] \in Nat /\ wager[t] \in Nat
         /\ \A team \in Teams : /\ Room(t, team) \in Int /\ Room(t, team) >= 0
                                /\ Room(t, team) = size[t] - Cardinality(Side(t, team))
                                /\ Cardinality(Side(t, team)) \in Nat
<1>1. TableTypeOK /\ TableOK(t)
  BY DEF TableInv
<1>2. size[t] \in Nat /\ wager[t] \in Nat
  <2>1. size[t] \in TeamSizes \cup {0} /\ wager[t] \in Nat
    BY <1>1 DEF TableTypeOK
  <2>2. CASE size[t] = 0
    BY <2>1, <2>2
  <2>3. CASE size[t] \in TeamSizes
    BY <2>1, <2>3, TableAssumption
  <2> QED BY <2>1, <2>2, <2>3
<1>3. \A team \in Teams : Cardinality(Side(t, team)) \in Nat
  BY SeatedFinite
<1>4. \A team \in Teams : Room(t, team) >= 0
  BY <1>1 DEF TableOK, Locks
<1> QED BY <1>1, <1>2, <1>3, <1>4 DEF Room

(* A table is opened and its creator, or their party, sits down.           *)
LEMMA OpenTableSteps ==
  ASSUME WalletInv, PartyInv, TableInv, NEW t \in TableIds, NEW u \in Users,
         NEW w \in Wagers, NEW n \in TeamSizes, OpenTable(t, u, w, n)
  PROVE  TableStep(t)
<1>1. /\ status[t] = "NONE" /\ n \in TeamSizes /\ MinWager <= w /\ MayQueue(u)
      /\ Cardinality(Group(u)) <= n
      /\ SeatSolo(t, u, "A", w) \/ SeatParty(t, u, "A", w)
      /\ status' = [status EXCEPT ![t] = "PENDING"]
      /\ size' = [size EXCEPT ![t] = n]
      /\ wager' = [wager EXCEPT ![t] = w]
      /\ creator' = [creator EXCEPT ![t] = u]
      /\ UNCHANGED <<pot, rake, winning, faceit>>
      /\ OnTables /\ UNCHANGED rollover
  BY DEF OpenTable, OnTables
<1>2. w \in Nat /\ w > 0 /\ n \in Nat /\ n > 0
  BY <1>1, TableAssumption
<1>3. TableTypeOK /\ TableOK(t) /\ Seated(t) = {} /\ pot[t] = 0
  BY <1>1, TableFacts DEF TableOK, Opened
<1>4. /\ status'[t] = "PENDING" /\ size'[t] = n /\ wager'[t] = w /\ creator'[t] = u
      /\ pot'[t] = 0
  BY <1>1, <1>3 DEF TableTypeOK
<1>5. /\ SeatsTaken(t, u, "A")
      /\ ~Sqlite /\ SeatsLed(t) => SeatsTogether(t, u)
  <2>1. Group(u) \cap Seated(t) = {} /\ "A" \in Teams
    BY <1>3 DEF Teams
  <2> QED BY <1>1, <1>2, <1>3, <1>4, <2>1, SeatingTable
<1>6. TableTypeOK'
  BY <1>1, <1>2, <1>3, <1>5 DEF TableTypeOK, SeatsTaken, Statuses, Undecided
<1>7. ASSUME NEW s \in TableIds \ {t} PROVE Row(s)' = Row(s)
  BY <1>1, <1>3, <1>5 DEF Row, SeatsTaken, TableTypeOK
<1>8. Cardinality(Side(t, "A")') = Cardinality(Group(u)) /\ Cardinality(Side(t, "B")') = 0
  <2>1. \A x \in Teams : Side(t, x) = {} /\ Cardinality(Side(t, x)) = 0
    BY <1>3, FS_EmptySet DEF Side
  <2>2. Cardinality(Group(u)) \in Nat
    BY GroupFacts
  <2> QED BY <1>5, <2>1, <2>2 DEF SeatsTaken, Teams
<1>9. TableOK(t)'
  <2>1. Room(t, "A")' >= 0 /\ Room(t, "B")' >= 0 /\ Room(t, "B")' # 0
    <3>1. Cardinality(Group(u)) \in Nat
      BY GroupFacts
    <3>2. Room(t, "A")' = n - Cardinality(Group(u)) /\ Room(t, "B")' = n
      BY <1>2, <1>4, <1>8 DEF Room
    <3> QED BY <1>1, <1>2, <3>1, <3>2
  <2>2. \A x \in Teams : Room(t, x)' >= 0
    BY <2>1 DEF Teams
  <2>3. ~Full(t)'
    BY <2>1 DEF Full, Teams
  <2>4. Locks(t)'
    BY <1>4, <2>2, <2>3 DEF Locks
  <2>5. Opened(t)'
    BY <1>1, <1>2, <1>4 DEF Opened
  <2> QED BY <1>5, <2>4, <2>5 DEF TableOK, SeatsTaken
<1>10. ASSUME ~Sqlite, Led(t)
       PROVE  Led(t)' /\ MovesTogether(t)
  <2>1. SeatsTogether(t, u)
    BY <1>5, <1>10 DEF Led
  <2>2. CreatorLeads(t)'
    BY <1>4, <1>5, <2>1 DEF CreatorLeads, SeatsTogether, SeatsTaken
  <2> QED BY <2>1, <2>2 DEF Led, SeatsTogether, MovesTogether
<1>11. Bets(t)
  <2>1. \A v \in Users : /\ AtStake(t, v) = Paid(t, v) /\ AtStake(t, v)' = Paid(t, v)'
    BY <1>1, <1>3, <1>4, SeatedRows DEF AtStake, Undecided
  <2>2. UNCHANGED <<principal, rollover, fees, custody, providerVars>>
    BY <1>1 DEF OnTables
  <2> QED BY <1>1, <1>4, <1>5, <2>1, <2>2 DEF Bets, SeatsTaken
<1> QED BY <1>5, <1>6, <1>7, <1>9, <1>10, <1>11 DEF TableStep, SeatsTaken

(* A user or a party joins, and locks the table if they fill it.           *)
LEMMA JoinTableSteps ==
  ASSUME WalletInv, PartyInv, TableInv, NEW t \in TableIds, NEW u \in Users,
         NEW choice \in Teams \cup {None}, JoinTable(t, u, choice)
  PROVE  TableStep(t)
<1>1. PICK need : need = Cardinality(Group(u)) OBVIOUS
<1>2. PICK team : team = IF choice = None THEN DefaultTeam(t, need) ELSE choice OBVIOUS
<1>3. PICK full : full = 2 * size[t] * wager[t] OBVIOUS
<1>4. /\ status[t] = "PENDING" /\ MayQueue(u)
      /\ Group(u) \cap Seated(t) = {}
      /\ Room(t, team) >= need
      /\ SeatSolo(t, u, team, wager[t]) \/ SeatParty(t, u, team, wager[t])
      /\ IF Filled(t, team, need)
           THEN /\ status' = [status EXCEPT ![t] = "LOCKED"]
                /\ pot' = [pot EXCEPT ![t] = full]
                /\ rake' = [rake EXCEPT ![t] = Rake(full)]
                /\ faceit' = [faceit EXCEPT ![t] = "asked"]
           ELSE UNCHANGED <<status, pot, rake, faceit>>
      /\ UNCHANGED <<size, wager, creator, winning>>
      /\ OnTables /\ UNCHANGED rollover
  BY <1>1, <1>2, <1>3 DEF JoinTable, OnTables, Fits
<1>5. team \in Teams
  BY <1>2 DEF DefaultTeam, Teams
<1>6. need \in Nat /\ need > 0
  BY <1>1, GroupFacts
<1>7. /\ TableTypeOK /\ TableOK(t) /\ size[t] \in Nat /\ size[t] > 0
      /\ wager[t] \in Nat /\ pot[t] = 0
  BY <1>4, TableFacts, TableAssumption DEF TableOK, Opened, Locks
<1>8. /\ SeatsTaken(t, u, team)
      /\ ~Sqlite /\ SeatsLed(t) => SeatsTogether(t, u)
  BY <1>4, <1>5, <1>7, SeatingTable
<1>9. full \in Nat /\ Rake(full) \in Nat
  BY <1>3, <1>7, RakeBounds
<1>10. TableTypeOK'
  <2>1. \/ /\ status' = [status EXCEPT ![t] = "LOCKED"]
           /\ pot' = [pot EXCEPT ![t] = full]
           /\ rake' = [rake EXCEPT ![t] = Rake(full)]
           /\ faceit' = [faceit EXCEPT ![t] = "asked"]
        \/ status' = status /\ pot' = pot /\ rake' = rake /\ faceit' = faceit
    BY ONLY <1>4
  <2>2. "LOCKED" \in Statuses /\ "asked" \in {"none", "asked", "linked"}
    BY DEF Statuses, Undecided
  <2>3. /\ status' \in [TableIds -> Statuses]
        /\ pot' \in [TableIds -> Nat] /\ rake' \in [TableIds -> Nat]
        /\ faceit' \in [TableIds -> {"none", "asked", "linked"}]
    <3>1. /\ status \in [TableIds -> Statuses]
          /\ pot \in [TableIds -> Nat] /\ rake \in [TableIds -> Nat]
          /\ faceit \in [TableIds -> {"none", "asked", "linked"}]
      BY ONLY <1>7 DEF TableTypeOK
    <3> QED BY ONLY <1>9, <2>1, <2>2, <3>1
  <2>4. seat' \in [TableIds -> [Users -> Seats \cup {None}]]
    BY <1>8 DEF SeatsTaken
  <2>5. size' = size /\ wager' = wager /\ creator' = creator /\ winning' = winning
    BY ONLY <1>4
  <2> QED BY ONLY <1>7, <2>3, <2>4, <2>5 DEF TableTypeOK
<1>11. ASSUME NEW s \in TableIds \ {t} PROVE Row(s)' = Row(s)
  BY <1>4, <1>7, <1>8 DEF Row, SeatsTaken, TableTypeOK
<1>12. \A x \in Teams : Room(t, x)' = Room(t, x) - (IF x = team THEN need ELSE 0)
  <2> SUFFICES ASSUME NEW x \in Teams
               PROVE  Room(t, x)' = Room(t, x) - (IF x = team THEN need ELSE 0)
    OBVIOUS
  <2>1. Cardinality(Side(t, x)') = Cardinality(Side(t, x)) + IF x = team THEN need ELSE 0
    BY <1>1, <1>8 DEF SeatsTaken
  <2>2. Room(t, x)' = size[t] - Cardinality(Side(t, x)')
    BY <1>4 DEF Room
  <2>3. Cardinality(Side(t, x)) \in Nat /\ Room(t, x) = size[t] - Cardinality(Side(t, x))
    BY TableFacts
  <2> QED BY <1>6, <1>7, <2>1, <2>2, <2>3
<1>13. \A x \in Teams : Room(t, x)' >= 0
  BY <1>4, <1>6, <1>12, TableFacts
<1>14. Full(t)' <=> Filled(t, team, need)
  <2>1. \A x \in Teams : Room(t, x)' = 0 <=> Room(t, x) = IF x = team THEN need ELSE 0
    BY <1>6, <1>12, TableFacts
  <2> QED BY <2>1 DEF Full, Filled
<1>15. TableOK(t)'
  <2>1. CASE Filled(t, team, need)
    <3>1. status'[t] = "LOCKED" /\ pot'[t] = full /\ rake'[t] = Rake(full)
      BY <1>4, <1>7, <2>1 DEF TableTypeOK
    <3> QED BY <1>3, <1>4, <1>7, <1>8, <1>13, <1>14, <2>1, <3>1
            DEF TableOK, SeatsTaken, Locks, Opened
  <2>2. CASE ~Filled(t, team, need)
    BY <1>4, <1>7, <1>8, <1>13, <1>14, <2>2 DEF TableOK, SeatsTaken, Locks, Opened
  <2> QED BY <2>1, <2>2
<1>16. status'[t] \in {"PENDING", "LOCKED"}
  BY <1>4, <1>7 DEF TableTypeOK
<1>17. ASSUME ~Sqlite, Led(t)
       PROVE  Led(t)' /\ MovesTogether(t)
  <2>1. SeatsTogether(t, u)
    BY <1>8, <1>17 DEF Led
  <2>2. CreatorLeads(t)'
    <3>1. creator[t] \in Side(t, "A") /\ creator[t] \in Seated(t) /\ "A" \in Teams
      BY <1>4, <1>17 DEF Led, CreatorLeads, Side, Teams
    <3>2. creator[t] \in Side(t, "A")'
      BY <1>8, <3>1 DEF SeatsTaken
    <3>3. seat'[t][creator[t]] = seat[t][creator[t]]
      BY <1>8, <3>1 DEF SeatsTaken
    <3>4. \A p \in PartyIds : p \in logged /\ Exists(p) =>
            p \in logged' /\ Exists(p)' /\ leader'[p] = leader[p]
      BY <1>8, <1>17 DEF SeatsTaken, LogsBind, Exists
    <3>5. creator'[t] = creator[t]
      BY <1>4
    <3> QED BY <1>4, <1>17, <3>2, <3>3, <3>4, <3>5 DEF Led, CreatorLeads
  <2> QED BY <2>1, <2>2 DEF Led, SeatsTogether, MovesTogether
<1>18. Bets(t)
  <2>1. \A v \in Users : /\ AtStake(t, v) = Paid(t, v) /\ AtStake(t, v)' = Paid(t, v)'
    BY <1>4, <1>16 DEF AtStake, Undecided
  <2>2. UNCHANGED <<principal, rollover, fees, custody, providerVars>>
    BY <1>4 DEF OnTables
  <2> QED BY <1>4, <1>8, <1>16, <2>1, <2>2 DEF Bets, SeatsTaken
<1> QED BY <1>8, <1>10, <1>11, <1>15, <1>17, <1>18 DEF TableStep, SeatsTaken

----------------------------------------------------------------------------
(* Giving money back and paying it out                                     *)

(* Everybody in the group gets their amount, those of `pooled` into the    *)
(* pool of the party they have a seat for.                                 *)
Credits(t, group, pooled, amount) ==
  /\ balance' = [v \in Users |->
       IF v \in group \ pooled THEN balance[v] + amount[v] ELSE balance[v]]
  /\ entitlement' = [v \in Users |->
       IF v \in pooled THEN entitlement[v] + amount[v] ELSE entitlement[v]]
  /\ pool' = [p \in PartyIds |->
       pool[p] + SumOver(amount, {v \in pooled : seat[t][v].party = p})]

(* Money goes back to balances and pools.                                  *)
LEMMA CreditsStep ==
  ASSUME WalletInv, PartyInv, NEW t \in TableIds, NEW group, group \subseteq Users,
         NEW pooled, pooled \subseteq group, \A v \in pooled : ToPool(t, v),
         NEW amount, \A v \in group : amount[v] \in Nat, Credits(t, group, pooled, amount),
         OnTables, rollover' \in [Users -> Nat],
         logged' \subseteq PartyIds, logged \subseteq logged'
  PROVE  /\ WalletInv' /\ PartyInv' /\ LogsBind
         /\ \A v \in Users :
              Pocket(v)' = Pocket(v) + (IF v \in group THEN amount[v] ELSE 0)
<1>1. \A v \in Users : entitlement[v] \in Nat /\ balance[v] \in Nat
  BY DEF WalletInv, WalletTyped, PartyInv, PartyTypeOK
<1>2. balance' \in [Users -> Nat] /\ entitlement' \in [Users -> Nat]
  BY <1>1 DEF Credits
<1>3. PoolIsEntitlements' /\ pool' \in [PartyIds -> Nat]
  <2> DEFINE d == [v \in Users |-> IF v \in pooled THEN amount[v] ELSE 0]
  <2>1. \A v \in Users : /\ d[v] \in Int /\ entitlement'[v] = entitlement[v] + d[v]
                         /\ party[v] = None => d[v] = 0
    BY <1>1 DEF Credits, ToPool
  <2>2. \A v \in pooled : d[v] = amount[v] /\ amount[v] \in Int
    OBVIOUS
  <2>3. \A v \in Users \ pooled : d[v] = 0
    OBVIOUS
  <2> HIDE DEF d
  <2>4. ASSUME NEW p \in PartyIds PROVE pool'[p] = pool[p] + SumOver(d, Members(p))
    <3> DEFINE R == {v \in pooled : seat[t][v].party = p}
    <3>1. R = pooled \cap Members(p)
      BY PartyAssumption DEF ToPool, Members
    <3>2. pool'[p] = pool[p] + SumOver(amount, R)
      BY DEF Credits
    <3> HIDE DEF R
    <3>3. SumOver(d, Members(p)) = SumOver(amount, R)
      <4>1. R \subseteq Members(p) /\ IsFiniteSet(Members(p))
        BY <3>1, MembersFinite
      <4>2. \A v \in R : amount[v] \in Int /\ d[v] = amount[v]
        BY <2>2, <3>1
      <4>3. \A v \in Members(p) \ R : d[v] = 0
        BY <2>3, <3>1 DEF Members
      <4> QED BY <4>1, <4>2, <4>3, SumPart
    <3> QED BY <3>2, <3>3
  <2>5. pool' = [p \in PartyIds |-> pool'[p]]
    BY DEF Credits
  <2>6. UNCHANGED party
    BY DEF OnTables
  <2> QED BY <1>2, <2>1, <2>4, <2>5, <2>6, PoolsFollow
<1>4. WalletInv' /\ PartyInv' /\ LogsBind
  BY <1>2, <1>3, PoolSteps DEF OnTables
<1>5. \A v \in Users :
        Pocket(v)' = Pocket(v) + (IF v \in group THEN amount[v] ELSE 0)
  BY <1>1 DEF Credits, Pocket
<1> QED BY <1>4, <1>5

(* Those who give up their seats get what they paid for them.              *)
LEMMA RefundStep ==
  ASSUME WalletInv, PartyInv, TableTypeOK, NEW t \in TableIds, NEW group,
         group \subseteq Seated(t), Refund(t, group), OnTables, UNCHANGED rollover
  PROVE  /\ WalletInv' /\ PartyInv' /\ LogsBind
         /\ \A v \in Users :
              Pocket(v)' = Pocket(v) + (IF v \in group THEN Paid(t, v) ELSE 0)
<1> DEFINE amount == [v \in group |-> Paid(t, v)]
           pooled == {v \in group : ToPool(t, v)}
<1>1. \A v \in group : v \in Users /\ amount[v] = Paid(t, v) /\ amount[v] \in Nat
  BY SeatedRows DEF Seated
<1>2. /\ Credits(t, group, pooled, amount)
      /\ logged' = logged \cup {seat[t][v].party : v \in {x \in pooled : amount[x] > 0}}
  BY DEF Refund, Pay, Credits
<1>3. \A v \in pooled : ToPool(t, v) /\ v \in group /\ seat[t][v].party \in PartyIds
  BY <1>1 DEF ToPool, PartyInv, PartyTypeOK
<1> HIDE DEF amount, pooled
<1>4. logged' \subseteq PartyIds /\ logged \subseteq logged'
  BY <1>2, <1>3 DEF PartyInv, PartyTypeOK
<1>5. rollover' \in [Users -> Nat]
  BY DEF WalletInv, WalletTyped
<1>6. /\ WalletInv' /\ PartyInv' /\ LogsBind
      /\ \A v \in Users :
           Pocket(v)' = Pocket(v) + (IF v \in group THEN amount[v] ELSE 0)
  <2>1. group \subseteq Users /\ pooled \subseteq group
    BY <1>1, <1>3
  <2> QED BY <1>1, <1>2, <1>3, <1>4, <1>5, <2>1, CreditsStep
<1> QED BY <1>1, <1>6

(* A table is called off: everybody is refunded.                           *)
LEMMA CancelSteps ==
  ASSUME WalletInv, PartyInv, TableInv, NEW t \in TableIds, Cancel(t)
  PROVE  TableStep(t)
<1>1. /\ status[t] \in Undecided
      /\ Refund(t, Seated(t))
      /\ status' = [status EXCEPT ![t] = "CANCELLED"]
      /\ UNCHANGED <<size, wager, pot, rake, creator, winning, faceit, seat>>
      /\ OnTables /\ UNCHANGED rollover
      /\ UNCHANGED <<principal, rollover, fees, custody, providerVars>>
  BY DEF Cancel, OnTables
<1>2. TableTypeOK /\ TableOK(t)
  BY TableFacts
<1>3. /\ WalletInv' /\ PartyInv' /\ LogsBind
      /\ \A v \in Users :
           Pocket(v)' = Pocket(v) + (IF v \in Seated(t) THEN Paid(t, v) ELSE 0)
  BY <1>1, <1>2, RefundStep
<1>4. status'[t] = "CANCELLED"
  BY <1>1, <1>2 DEF TableTypeOK
<1>5. TableTypeOK'
  BY <1>1, <1>2 DEF TableTypeOK, Statuses
<1>6. ASSUME NEW s \in TableIds \ {t} PROVE Row(s)' = Row(s)
  BY <1>1, <1>2 DEF Row, TableTypeOK
<1>7. Seated(t)' = Seated(t) /\ \A x : Side(t, x)' = Side(t, x)
  BY <1>1 DEF Seated, Side
<1>8. TableOK(t)'
  <2>1. Funded(t)'
    <3>1. \A x, p : PartySide(t, x, p)' = PartySide(t, x, p)
      BY <1>1, <1>7 DEF PartySide
    <3>2. \A v : Over(t, v)' = Over(t, v)
      BY <1>1 DEF Over, Paid
    <3> QED BY <1>2, <3>1, <3>2 DEF TableOK, Funded
  <2>2. Opened(t)' /\ Locks(t)'
    <3>1. \A x : Room(t, x)' = Room(t, x)
      BY <1>1, <1>7 DEF Room
    <3> QED BY <1>1, <1>2, <1>4, <3>1 DEF TableOK, Opened, Locks, Undecided
  <2> QED BY <2>1, <2>2 DEF TableOK
<1>9. ASSUME ~Sqlite, Led(t)
      PROVE  Led(t)' /\ MovesTogether(t)
  <2>1. \A p \in PartyIds : p \in logged /\ Exists(p) =>
          p \in logged' /\ Exists(p)' /\ leader'[p] = leader[p]
    BY <1>3, <1>9 DEF LogsBind, Exists
  <2>2. SeatsLed(t)'
    BY <1>1, <1>7, <1>9, <2>1 DEF Led, SeatsLed
  <2>3. CreatorLeads(t)'
    BY <1>4 DEF CreatorLeads
  <2>4. \A p : PartySeats(t, p)' = PartySeats(t, p)
    BY <1>1, <1>7 DEF PartySeats
  <2> QED BY <2>2, <2>3, <2>4 DEF Led, MovesTogether
<1>10. Bets(t)
  <2>1. ASSUME NEW v \in Users
        PROVE  Pocket(v)' + AtStake(t, v)' = Pocket(v) + AtStake(t, v)
    <3>1. AtStake(t, v)' = 0 /\ AtStake(t, v) = Paid(t, v)
      BY <1>1, <1>4 DEF AtStake, Undecided
    <3>2. Pocket(v)' = Pocket(v) + Paid(t, v)
      BY <1>2, <1>3, SeatedRows
    <3>3. Pocket(v) \in Int /\ Paid(t, v) \in Nat
      BY <1>2, SeatedRows DEF Pocket, WalletInv, WalletTyped, PartyInv, PartyTypeOK
    <3> QED BY <3>1, <3>2, <3>3
  <2>2. status[t] # "FINISHED" /\ status'[t] # "FINISHED"
    BY <1>1, <1>4 DEF Undecided
  <2> QED BY <1>1, <2>1, <2>2 DEF Bets
<1> QED BY <1>3, <1>5, <1>6, <1>8, <1>9, <1>10 DEF TableStep

(* A user, or a leader with the party, gives up seats at an open table.    *)
LEMMA GiveUpSeatsSteps ==
  ASSUME WalletInv, PartyInv, TableInv, NEW t \in TableIds, NEW u \in Users,
         status[t] = "PENDING", creator[t] # u, GiveUpSeats(t, u)
  PROVE  TableStep(t)
<1>1. PICK p : p = seat[t][u].party OBVIOUS
<1>2. PICK gone : gone = Leaving(t, u) OBVIOUS
<1>3. /\ u \in Seated(t)
      /\ p # None /\ Exists(p) => leader[p] = u
      /\ Refund(t, gone)
      /\ seat' = [seat EXCEPT ![t] = [v \in Users |->
                    IF v \in gone THEN None ELSE seat[t][v]]]
      /\ UNCHANGED <<status, size, wager, pot, rake, creator, winning, faceit>>
      /\ OnTables /\ UNCHANGED rollover
      /\ UNCHANGED <<principal, rollover, fees, custody, providerVars>>
  BY <1>1, <1>2 DEF GiveUpSeats, OnTables
<1>4. /\ TableTypeOK /\ TableOK(t) /\ size[t] \in Nat /\ wager[t] \in Nat
      /\ p \in PartyIds \cup {None}
  BY <1>1, <1>3, TableFacts, SeatedRows
<1>5. /\ gone \subseteq Seated(t) /\ u \in gone
      /\ p = None => gone = {u}
      /\ p # None => \A v \in Seated(t) : v \in gone <=> seat[t][v].party = p
  BY <1>1, <1>2, <1>3 DEF Leaving
<1>6. /\ WalletInv' /\ PartyInv' /\ LogsBind
      /\ \A v \in Users :
           Pocket(v)' = Pocket(v) + (IF v \in gone THEN Paid(t, v) ELSE 0)
  BY <1>3, <1>4, <1>5, RefundStep
<1>7. /\ \A s \in TableIds \ {t} : seat'[s] = seat[s]
      /\ \A v \in Users : seat'[t][v] = IF v \in gone THEN None ELSE seat[t][v]
  BY <1>3, <1>4 DEF TableTypeOK
<1>8. TableTypeOK'
  <2>1. seat' \in [TableIds -> [Users -> Seats \cup {None}]]
    BY <1>3, <1>4 DEF TableTypeOK
  <2> QED BY <1>3, <1>4, <2>1 DEF TableTypeOK
<1>9. ASSUME NEW s \in TableIds \ {t} PROVE Row(s)' = Row(s)
  BY <1>3, <1>7 DEF Row
<1>10. Seated(t)' = Seated(t) \ gone
  BY <1>7 DEF Seated
<1>11. \A v \in Seated(t) \ gone : v \in Users /\ seat'[t][v] = seat[t][v]
  BY <1>7 DEF Seated
<1>12. \A x \in Teams : Side(t, x)' = Side(t, x) \ gone
  BY <1>10, <1>11 DEF Side
<1>13. \A x \in Teams : Room(t, x)' \in Int /\ Room(t, x) \in Nat /\ Room(t, x)' >= Room(t, x)
  <2> SUFFICES ASSUME NEW x \in Teams
               PROVE  /\ Room(t, x)' \in Int /\ Room(t, x) \in Nat
                      /\ Room(t, x)' >= Room(t, x)
    OBVIOUS
  <2>1. Side(t, x)' \subseteq Side(t, x) /\ IsFiniteSet(Side(t, x))
    BY <1>12, SeatedFinite
  <2>2. /\ Cardinality(Side(t, x)') \in Nat /\ Cardinality(Side(t, x)) \in Nat
        /\ Cardinality(Side(t, x)') <= Cardinality(Side(t, x))
    BY <2>1, FS_Subset, FS_CardinalityType
  <2>3. Room(t, x)' = size[t] - Cardinality(Side(t, x)')
    BY <1>3 DEF Room
  <2>4. Room(t, x) = size[t] - Cardinality(Side(t, x)) /\ Room(t, x) \in Int /\ Room(t, x) >= 0
    BY TableFacts
  <2> QED BY <1>4, <2>2, <2>3, <2>4
<1>14. Funded(t)'
  <2>1. \A v \in Seated(t) \ gone : Over(t, v)' = Over(t, v)
    BY <1>3, <1>11 DEF Over, Paid
  <2>2. \A x \in Teams, q \in PartyIds \cup {None} :
          PartySide(t, x, q)' = PartySide(t, x, q) \ gone
    BY <1>11, <1>12 DEF PartySide, Side
  <2>3. \A x \in Teams : \A q : PartySide(t, x, q) \subseteq Seated(t)
    BY DEF PartySide, Side
  <2>4. ASSUME NEW x \in Teams, NEW v \in PartySide(t, x, None)' PROVE Over(t, v)' = 0
    BY <1>4, <2>1, <2>2, <2>3, <2>4 DEF TableOK, Funded
  <2>5. ASSUME NEW x \in Teams, NEW q \in PartyIds
        PROVE  SumOver([v \in Users |-> Over(t, v)'], PartySide(t, x, q)') = 0
    <3>1. CASE q = p
      <4>1. PartySide(t, x, q) \subseteq gone
        BY <1>5, <2>3, <3>1, PartyAssumption DEF PartySide
      <4>2. PartySide(t, x, q)' = {}
        BY <2>2, <4>1
      <4> QED BY <4>2, SumEmpty
    <3>2. CASE q # p
      <4> DEFINE f == [v \in Users |-> Over(t, v)]
                 g == [v \in Users |-> Over(t, v)']
                 S == PartySide(t, x, q)
      <4>1. \A v \in S : v \in Seated(t) /\ seat[t][v].party = q
        BY <2>3 DEF PartySide
      <4>2. S \cap gone = {}
        BY <1>1, <1>5, <3>2, <4>1
      <4>3. PartySide(t, x, q)' = S
        BY <2>2, <4>2
      <4>4. SumOver(f, S) = 0
        BY <1>4 DEF TableOK, Funded
      <4>5. \A v \in S : v \in Users /\ f[v] = g[v]
        BY <1>11, <2>1, <4>1, <4>2
      <4>6. IsFiniteSet(S)
        BY <2>3, SeatedFinite, FS_Subset
      <4> HIDE DEF f, g, S
      <4>7. SumOver(g, S) = 0
        BY <4>4, <4>5, <4>6, SumSame
      <4> QED BY <4>3, <4>7 DEF g
    <3> QED BY <3>1, <3>2
  <2> QED BY <2>4, <2>5 DEF Funded
<1>15. TableOK(t)'
  <2>1. status'[t] = "PENDING" /\ pot'[t] = 0 /\ size'[t] = size[t] /\ wager'[t] = wager[t]
    BY <1>3, <1>4 DEF TableOK, Locks
  <2>2. ~Full(t)
    BY <1>4 DEF TableOK, Locks
  <2>3. PICK x \in Teams : Room(t, x) # 0
    BY <2>2 DEF Full
  <2>4. Room(t, x)' # 0
    BY <1>13, <2>3
  <2>5. ~Full(t)'
    BY <2>4 DEF Full
  <2>6. \A y \in Teams : Room(t, y)' >= 0
    BY <1>13
  <2>7. Locks(t)'
    BY <2>1, <2>5, <2>6 DEF Locks
  <2>8. Opened(t)'
    BY <1>4, <2>1 DEF TableOK, Opened
  <2> QED BY <1>14, <2>7, <2>8 DEF TableOK
<1>16. ASSUME ~Sqlite, Led(t)
       PROVE  Led(t)' /\ MovesTogether(t)
  <2>1. \A q \in PartyIds : q \in logged /\ Exists(q) =>
          q \in logged' /\ Exists(q)' /\ leader'[q] = leader[q]
    BY <1>6, <1>16 DEF LogsBind, Exists
  <2>2. ASSUME NEW q \in PartyIds, NEW v \in Seated(t)', seat'[t][v].party = q
        PROVE  /\ q \in logged' /\ Exists(q)'
               /\ leader'[q] \in Seated(t)' /\ seat'[t][leader'[q]].party = q
    <3>1. v \in Seated(t) /\ v \notin gone /\ seat[t][v].party = q
      BY <1>10, <1>11, <2>2
    <3>2. q \in logged /\ Exists(q) /\ leader[q] \in Seated(t) /\ seat[t][leader[q]].party = q
      BY <1>16, <3>1 DEF Led, SeatsLed
    <3>3. p # q
      BY <1>5, <3>1, PartyAssumption
    <3>4. leader[q] \notin gone
      BY <1>1, <1>5, <3>2, <3>3
    <3> QED BY <1>10, <1>11, <2>1, <3>2, <3>4
  <2>3. SeatsLed(t)'
    BY <2>2 DEF SeatsLed
  <2>4. CreatorLeads(t)'
    <3>1. creator[t] \in Side(t, "A") /\ creator[t] \in Seated(t)
      BY <1>16 DEF Led, CreatorLeads, Side
    <3>2. creator[t] \notin gone
      <4>1. CASE p = None
        BY <1>5, <4>1
      <4>2. CASE p # None
        <5> SUFFICES ASSUME creator[t] \in gone PROVE FALSE
          OBVIOUS
        <5>1. seat[t][creator[t]].party = p /\ p \in PartyIds
          BY <1>4, <1>5, <3>1, <4>2
        <5>2. Exists(p) /\ leader[p] = creator[t]
          BY <1>16, <5>1 DEF Led, CreatorLeads
        <5> QED BY <1>3, <4>2, <5>2
      <4> QED BY <4>1, <4>2
    <3>3. creator[t] \in Side(t, "A")' /\ seat'[t][creator[t]] = seat[t][creator[t]]
      BY <1>11, <1>12, <3>1, <3>2 DEF Teams
    <3>4. creator'[t] = creator[t]
      BY <1>3
    <3> QED BY <1>16, <2>1, <3>3, <3>4 DEF Led, CreatorLeads
  <2>5. ASSUME NEW q \in PartyIds
        PROVE  PartySeats(t, q)' \in {PartySeats(t, q), {}}
    <3>1. PartySeats(t, q)' =
            {<<v, seat'[t][v].team>> : v \in {y \in Seated(t)' : seat'[t][y].party = q}}
      BY DEF PartySeats
    <3>2. CASE q = p
      <4>1. {y \in Seated(t)' : seat'[t][y].party = q} = {}
        BY <1>5, <1>10, <1>11, <3>2, PartyAssumption
      <4> QED BY <3>1, <4>1
    <3>3. CASE q # p
      <4>1. {y \in Seated(t)' : seat'[t][y].party = q} = {y \in Seated(t) : seat[t][y].party = q}
        BY <1>1, <1>5, <1>10, <1>11, <3>3
      <4>2. \A y \in {y \in Seated(t) : seat[t][y].party = q} : y \in Seated(t) \ gone
        BY <1>1, <1>5, <3>3
      <4>3. \A y \in {y \in Seated(t) : seat[t][y].party = q} : seat'[t][y].team = seat[t][y].team
        BY <1>11, <4>2
      <4>4. PartySeats(t, q)' =
              {<<v, seat'[t][v].team>> : v \in {y \in Seated(t) : seat[t][y].party = q}}
        BY <3>1, <4>1
      <4> QED BY <4>3, <4>4 DEF PartySeats
    <3> QED BY <3>2, <3>3
  <2> QED BY <2>3, <2>4, <2>5 DEF Led, MovesTogether
<1>17. Bets(t)
  <2>1. ASSUME NEW v \in Users
        PROVE  Pocket(v)' + AtStake(t, v)' = Pocket(v) + AtStake(t, v)
    <3>1. AtStake(t, v) = Paid(t, v) /\ AtStake(t, v)' = Paid(t, v)'
      BY <1>3 DEF AtStake, Undecided
    <3>2. Paid(t, v)' = IF v \in gone THEN 0 ELSE Paid(t, v)
      BY <1>7 DEF Paid
    <3>3. Pocket(v) \in Int /\ Paid(t, v) \in Nat
      BY <1>4, SeatedRows DEF Pocket, WalletInv, WalletTyped, PartyInv, PartyTypeOK
    <3>4. Pocket(v)' = Pocket(v) + (IF v \in gone THEN Paid(t, v) ELSE 0)
      BY <1>6
    <3> QED BY <3>1, <3>2, <3>3, <3>4
  <2>2. status[t] # "FINISHED" /\ status'[t] # "FINISHED"
    BY <1>3
  <2> QED BY <1>3, <2>1, <2>2 DEF Bets
<1> QED BY <1>6, <1>8, <1>9, <1>15, <1>16, <1>17 DEF TableStep

(* Leaving is calling off for the creator and giving up seats for others.  *)
LEMMA LeaveTableSteps ==
  ASSUME WalletInv, PartyInv, TableInv, NEW t \in TableIds, NEW u \in Users, LeaveTable(t, u)
  PROVE  TableStep(t)
BY CancelSteps, GiveUpSeatsSteps DEF LeaveTable

----------------------------------------------------------------------------
(* The match                                                               *)

(* Nothing but the state of the match changes.                             *)
LEMMA QuietSteps ==
  ASSUME WalletInv, PartyInv, TableInv, NEW t \in TableIds,
         UNCHANGED <<walletVars, partyVars, size, wager, pot, rake, creator, winning, seat>>,
         TableTypeOK', \A s \in TableIds \ {t} : status'[s] = status[s],
         status'[t] = status[t] \/ (status[t] = "LOCKED" /\ status'[t] = "LIVE")
  PROVE  TableStep(t)
<1> USE DEF walletVars, partyVars
<1>1. WalletInv' /\ PartyInv' /\ LogsBind
  <2>1. \A p \in PartyIds : Members(p)' = Members(p)
    BY DEF Members
  <2>2. PoolIsEntitlements'
    BY <2>1 DEF PartyInv, PoolIsEntitlements
  <2>3. /\ balance' \in [Users -> Nat] /\ rollover' \in [Users -> Nat]
        /\ entitlement' \in [Users -> Nat] /\ pool' \in [PartyIds -> Nat]
        /\ logged' \subseteq PartyIds /\ logged \subseteq logged'
    BY DEF WalletInv, WalletTyped, PartyInv, PartyTypeOK
  <2> QED BY <2>2, <2>3, PoolSteps DEF providerVars
<1>2. TableTypeOK /\ TableOK(t)
  BY TableFacts
<1>3. ASSUME NEW s \in TableIds \ {t} PROVE Row(s)' = Row(s)
  BY DEF Row
<1>4. Seated(t)' = Seated(t) /\ \A x : Side(t, x)' = Side(t, x)
  BY DEF Seated, Side
<1>5. TableOK(t)'
  <2>1. Funded(t)'
    <3>1. \A x, p : PartySide(t, x, p)' = PartySide(t, x, p)
      BY <1>4 DEF PartySide
    <3>2. \A v : Over(t, v)' = Over(t, v)
      BY DEF Over, Paid
    <3> QED BY <1>2, <3>1, <3>2 DEF TableOK, Funded
  <2>2. Opened(t)' /\ Locks(t)'
    <3>1. \A x : Room(t, x)' = Room(t, x)
      BY <1>4 DEF Room
    <3> QED BY <1>2, <1>4, <3>1 DEF TableOK, Opened, Locks, Full
  <2> QED BY <2>1, <2>2 DEF TableOK
<1>6. ASSUME ~Sqlite, Led(t)
      PROVE  Led(t)' /\ MovesTogether(t)
  <2>1. \A p : PartySeats(t, p)' = PartySeats(t, p)
    BY <1>4 DEF PartySeats
  <2>2. SeatsLed(t)' /\ CreatorLeads(t)'
    BY <1>4, <1>6 DEF Led, SeatsLed, CreatorLeads, Exists
  <2> QED BY <2>1, <2>2 DEF Led, MovesTogether
<1>7. Bets(t)
  <2>1. \A v \in Users : Pocket(v)' = Pocket(v) /\ AtStake(t, v)' = AtStake(t, v)
    BY DEF Pocket, AtStake, Paid, Undecided
  <2> QED BY <2>1 DEF Bets, providerVars
<1> QED BY <1>1, <1>3, <1>5, <1>6, <1>7 DEF TableStep

(* FACEIT answers, or reports that the match has begun.                    *)
LEMMA FaceitSteps ==
  ASSUME WalletInv, PartyInv, TableInv, NEW t \in TableIds,
         FaceitCreated(t) \/ FaceitFailed(t) \/ MarkLive(t)
  PROVE  TableStep(t)
<1>1. TableTypeOK
  BY TableFacts
<1>2. /\ UNCHANGED <<walletVars, partyVars, size, wager, pot, rake, creator, winning, seat>>
      /\ TableTypeOK'
  BY <1>1 DEF FaceitCreated, FaceitFailed, MarkLive, TableTypeOK, Statuses, Undecided
<1>3. /\ \A s \in TableIds \ {t} : status'[s] = status[s]
      /\ status'[t] = status[t] \/ (status[t] = "LOCKED" /\ status'[t] = "LIVE")
  BY <1>1 DEF FaceitCreated, FaceitFailed, MarkLive, TableTypeOK
<1> QED BY <1>2, <1>3, QuietSteps

(* Whoever funded them, the seats of a side have paid a wager each.        *)
LEMMA SideHasPaid ==
  ASSUME TableInv, NEW t \in TableIds, NEW team \in Teams
  PROVE  SumOver([u \in Users |-> Paid(t, u)], Side(t, team))
           = wager[t] * Cardinality(Side(t, team))
<1> DEFINE S == Side(t, team)
           over == [u \in Users |-> Over(t, u)]
           paidBy == [u \in Users |-> Paid(t, u)]
           wagers == [u \in Users |-> wager[t]]
           P == PartyIds \cup {None}
           part == [q \in P |-> PartySide(t, team, q)]
           m == [q \in P |-> SumOver(over, part[q])]
<1>1. TableTypeOK /\ TableOK(t) /\ wager[t] \in Nat
  BY TableFacts
<1>2. S \subseteq Users /\ IsFiniteSet(S) /\ \A u \in S : u \in Seated(t)
  BY SeatedFinite
<1>3. \A u \in S : /\ paidBy[u] \in Int /\ wagers[u] \in Int /\ wagers[u] = wager[t]
                   /\ over[u] = paidBy[u] - wagers[u] /\ over[u] \in Int
  BY <1>1, <1>2, SeatedRows DEF Over
<1>4. PartSums(over, m, part, S, P)
  <2>1. \A u \in S : seat[t][u].party \in P
    BY <1>1, <1>2, SeatedRows
  <2>2. \A q \in P : \A u : u \in part[q] <=> u \in S /\ seat[t][u].party = q
    BY DEF PartySide
  <2>3. \A q \in P : m[q] = SumOver(over, part[q])
    OBVIOUS
  <2> HIDE DEF P, part, m
  <2> QED BY <2>1, <2>2, <2>3 DEF PartSums
<1>6. IsFiniteSet(P)
  <2>1. MaxParties \in Int /\ 1 \in Int
    BY PartyAssumption
  <2>2. IsFiniteSet(PartyIds)
    BY <2>1, FS_Interval DEF PartyIds
  <2> QED BY <2>2, FS_AddElement
<1>7. \A q \in P : m[q] = 0
  <2>1. \A q \in PartyIds : m[q] = 0
    BY <1>1 DEF TableOK, Funded
  <2>2. m[None] = 0
    <3>1. IsFiniteSet(PartySide(t, team, None)) /\ PartySide(t, team, None) \subseteq S
      BY <1>2, FS_Subset DEF PartySide
    <3>2. \A u \in PartySide(t, team, None) : over[u] = 0
      BY <1>1, <1>2, <3>1 DEF TableOK, Funded
    <3> HIDE DEF over
    <3>3. SumOver(over, PartySide(t, team, None)) = 0
      BY <3>1, <3>2, SumZero
    <3> QED BY <3>3
  <2> HIDE DEF m
  <2> QED BY <2>1, <2>2
<1> HIDE DEF m, P, part, over, paidBy, wagers, S
<1>10. SumOver(m, P) = SumOver(over, S)
  <2>1. \A u \in S : over[u] \in Int
    BY <1>3
  <2> QED BY <1>2, <1>4, <1>6, <2>1, SumByPart
<1>11. SumOver(over, S) = 0
  BY <1>6, <1>7, <1>10, SumZero
<1>12. SumOver(wagers, S) = wager[t] * Cardinality(S)
  <2>1. wager[t] \in Int /\ \A u \in S : wagers[u] = wager[t]
    BY <1>1, <1>3
  <2> QED BY <1>2, <2>1, SumConst
<1>13. SumOver(over, S) = SumOver(paidBy, S) - SumOver(wagers, S)
  BY <1>2, <1>3, SumMinus
<1>14. SumOver(paidBy, S) \in Int /\ SumOver(wagers, S) \in Int
  BY <1>2, <1>3, SumInt
<1>15. SumOver(paidBy, S) = wager[t] * Cardinality(S)
  BY <1>11, <1>12, <1>13, <1>14
<1> QED BY <1>15 DEF paidBy, S

(* A full table has its whole pot.                                         *)
LEMMA FullPot ==
  ASSUME TableInv, NEW t \in TableIds, Full(t)
  PROVE  SumOver([u \in Users |-> Paid(t, u)], Users) = 2 * size[t] * wager[t]
<1> DEFINE paidBy == [u \in Users |-> Paid(t, u)]
<1>1. TableTypeOK /\ wager[t] \in Nat /\ size[t] \in Nat
  BY TableFacts
<1>2. \A u \in Users : paidBy[u] \in Nat /\ (u \notin Seated(t) => paidBy[u] = 0)
  BY <1>1, SeatedRows
<1>3. ASSUME NEW x \in Teams
      PROVE  SumOver(paidBy, Side(t, x)) = wager[t] * size[t]
  <2>1. Room(t, x) = 0 /\ Room(t, x) = size[t] - Cardinality(Side(t, x))
        /\ Cardinality(Side(t, x)) \in Nat
    BY TableFacts DEF Full
  <2>2. Cardinality(Side(t, x)) = size[t]
    BY <1>1, <2>1
  <2> QED BY <2>2, SideHasPaid
<1>4. /\ Side(t, "A") \cup Side(t, "B") = Seated(t) /\ Side(t, "A") \cap Side(t, "B") = {}
      /\ IsFiniteSet(Side(t, "A")) /\ IsFiniteSet(Side(t, "B"))
      /\ Seated(t) \subseteq Users
  <2>1. \A u \in Seated(t) : seat[t][u].team \in {"A", "B"}
    BY <1>1, SeatedRows DEF Teams, Seated
  <2>2. Side(t, "A") \cup Side(t, "B") = Seated(t) /\ Side(t, "A") \cap Side(t, "B") = {}
    BY <2>1 DEF Side
  <2> QED BY <2>2, SeatedFinite
<1> HIDE DEF paidBy
<1>5. SumOver(paidBy, Users) = SumOver(paidBy, Seated(t))
  <2>1. /\ \A u \in Seated(t) : paidBy[u] \in Int /\ paidBy[u] = paidBy[u]
        /\ \A u \in Users \ Seated(t) : paidBy[u] = 0
    BY <1>2, <1>4
  <2> QED BY <1>4, <2>1, SumPart, WalletAssumption
<1>6. SumOver(paidBy, Seated(t)) = SumOver(paidBy, Side(t, "A")) + SumOver(paidBy, Side(t, "B"))
  <2>1. \A u \in Side(t, "A") \cup Side(t, "B") : paidBy[u] \in Int
    BY <1>2, <1>4
  <2> QED BY <1>4, <2>1, SumUnion
<1>7. /\ SumOver(paidBy, Side(t, "A")) = wager[t] * size[t]
      /\ SumOver(paidBy, Side(t, "B")) = wager[t] * size[t]
  BY <1>3 DEF Teams
<1>8. SumOver(paidBy, Users) = wager[t] * size[t] + wager[t] * size[t]
  BY <1>5, <1>6, <1>7
<1>9. wager[t] * size[t] + wager[t] * size[t] = 2 * size[t] * wager[t]
  BY <1>1
<1> QED BY <1>8, <1>9 DEF paidBy

(* FACEIT reports a result: the pot less the rake is shared out in full.   *)
LEMMA SettleFinishedSteps ==
  ASSUME WalletInv, PartyInv, TableInv, NEW t \in TableIds, NEW winner \in Users,
         SettleFinished(t, winner)
  PROVE  TableStep(t)
<1>1. PICK team : team = seat[t][winner].team OBVIOUS
<1>2. PICK weight : weight = [v \in Side(t, team) |-> seat[t][v].paid] OBVIOUS
<1>3. PICK share \in Allocations(pot[t] - rake[t], weight) : PayWinners(t, share)
  BY <1>1, <1>2 DEF SettleFinished
<1>4. /\ status[t] \in {"LOCKED", "LIVE"} /\ winner \in Seated(t)
      /\ rollover' = [u \in Users |-> Burn(rollover[u], Paid(t, u))]
      /\ winning' = [winning EXCEPT ![t] = team]
      /\ status' = [status EXCEPT ![t] = "FINISHED"]
      /\ UNCHANGED <<size, wager, pot, rake, creator, faceit, seat>>
      /\ UNCHANGED <<principal, fees, custody, providerVars>>
      /\ OnTables
  BY <1>1 DEF SettleFinished, OnTables
<1>5. /\ TableTypeOK /\ TableOK(t) /\ size[t] \in Nat /\ wager[t] \in Nat
      /\ team \in Teams /\ pot[t] \in Nat /\ rake[t] \in Nat
  BY <1>1, <1>4, TableFacts, SeatedRows DEF TableTypeOK
<1>6. /\ Full(t) /\ pot[t] = 2 * size[t] * wager[t] /\ rake[t] = Rake(pot[t])
      /\ size[t] > 0 /\ wager[t] > 0
  BY <1>4, <1>5, TableAssumption DEF TableOK, Locks, Opened
<1>7. pot[t] > 0 /\ pot[t] - rake[t] \in Nat
  <2>1. size[t] * wager[t] > 0
    BY <1>5, <1>6
  <2>2. rake[t] \in 0 .. pot[t]
    BY <1>5, <1>6, RakeBounds
  <2> QED BY <1>5, <1>6, <2>1, <2>2
<1>8. /\ IsFiniteSet(Side(t, team)) /\ Side(t, team) \subseteq Users
      /\ \A v \in Side(t, team) : seat[t][v].paid \in Nat
  <2>1. Side(t, team) \subseteq Seated(t) /\ Seated(t) \subseteq Users
    BY SeatedFinite
  <2> QED BY <1>5, <2>1, SeatedFinite, SeatedRows
<1>9. /\ share \in [Side(t, team) -> Nat] /\ DOMAIN share = Side(t, team)
  <2>1. /\ DOMAIN weight = Side(t, team)
        /\ \A v \in DOMAIN weight : weight[v] \in Nat
    BY <1>2, <1>8
  <2> QED BY <1>3, <1>7, <1>8, <2>1, AllocationGives
<1>10. /\ WalletInv' /\ PartyInv' /\ LogsBind
       /\ \A v \in Users :
            Pocket(v)' = Pocket(v) + (IF v \in Side(t, team) THEN share[v] ELSE 0)
  <2> DEFINE banked == {v \in DOMAIN share : seat[t][v].split = "LEADER" /\ ToPool(t, v)}
  <2>1. /\ Credits(t, Side(t, team), banked, share)
        /\ logged' = logged \cup {seat[t][v].party : v \in banked}
    BY <1>3, <1>9 DEF PayWinners, Credits
  <2>2. \A v \in banked : v \in Side(t, team) /\ v \in Users /\ ToPool(t, v)
    BY <1>8, <1>9
  <2>3. \A v \in banked : seat[t][v].party \in PartyIds
    BY <2>2 DEF ToPool, PartyInv, PartyTypeOK
  <2> HIDE DEF banked
  <2>4. logged' \subseteq PartyIds /\ logged \subseteq logged'
    BY <2>1, <2>3 DEF PartyInv, PartyTypeOK
  <2>5. rollover' \in [Users -> Nat]
    <3>1. \A u \in Users : rollover[u] \in Nat /\ Paid(t, u) \in Nat
      BY <1>5, SeatedRows DEF WalletInv, WalletTyped
    <3>2. ASSUME NEW u \in Users PROVE Burn(rollover[u], Paid(t, u)) \in Nat
      <4>1. Burn(rollover[u], Paid(t, u)) \in 0 .. rollover[u]
        BY <3>1, BurnBounds
      <4> QED BY <3>1, <4>1
    <3> QED BY <1>4, <3>2
  <2>6. banked \subseteq Side(t, team) /\ \A v \in Side(t, team) : share[v] \in Nat
    BY <1>9, <2>2
  <2> QED BY <1>4, <1>8, <2>1, <2>2, <2>4, <2>5, <2>6, CreditsStep
<1>11. status'[t] = "FINISHED"
  BY <1>4, <1>5 DEF TableTypeOK
<1>12. TableTypeOK'
  BY <1>4, <1>5 DEF TableTypeOK, Statuses
<1>13. ASSUME NEW s \in TableIds \ {t} PROVE Row(s)' = Row(s)
  BY <1>4, <1>5 DEF Row, TableTypeOK
<1>14. Seated(t)' = Seated(t) /\ \A x : Side(t, x)' = Side(t, x)
  BY <1>4 DEF Seated, Side
<1>15. TableOK(t)'
  <2>1. Funded(t)'
    <3>1. \A x, p : PartySide(t, x, p)' = PartySide(t, x, p)
      BY <1>4, <1>14 DEF PartySide
    <3>2. \A v : Over(t, v)' = Over(t, v)
      BY <1>4 DEF Over, Paid
    <3> QED BY <1>5, <3>1, <3>2 DEF TableOK, Funded
  <2>2. Opened(t)' /\ Locks(t)'
    <3>1. \A x : Room(t, x)' = Room(t, x)
      BY <1>4, <1>14 DEF Room
    <3> QED BY <1>4, <1>5, <1>6, <1>11, <3>1 DEF TableOK, Opened, Locks, Full
  <2> QED BY <2>1, <2>2 DEF TableOK
<1>16. ASSUME ~Sqlite, Led(t)
       PROVE  Led(t)' /\ MovesTogether(t)
  <2>1. \A p \in PartyIds : p \in logged /\ Exists(p) =>
          p \in logged' /\ Exists(p)' /\ leader'[p] = leader[p]
    BY <1>10, <1>16 DEF LogsBind, Exists
  <2>2. SeatsLed(t)'
    BY <1>4, <1>14, <1>16, <2>1 DEF Led, SeatsLed
  <2>3. CreatorLeads(t)'
    BY <1>11 DEF CreatorLeads
  <2>4. \A p : PartySeats(t, p)' = PartySeats(t, p)
    BY <1>4, <1>14 DEF PartySeats
  <2> QED BY <2>2, <2>3, <2>4 DEF Led, MovesTogether
<1>17. Settles(t)
  <2>1. pot[t] = SumOver([u \in Users |-> Paid(t, u)], Users)
    BY <1>6, FullPot
  <2>2. \A u \in Users : rollover'[u] = Burn(rollover[u], Paid(t, u))
    BY <1>4
  <2>3. \E prize \in Allocations(pot[t] - rake[t], [u \in Side(t, team) |-> seat[t][u].paid]) :
          \A u \in Users :
            Pocket(u)' = Pocket(u) + (IF u \in Side(t, team) THEN prize[u] ELSE 0)
    BY <1>2, <1>3, <1>10
  <2>4. status[t] \in Undecided /\ rake'[t] = rake[t]
    BY <1>4 DEF Undecided
  <2> QED BY <1>4, <1>5, <1>6, <1>7, <1>11, <2>1, <2>2, <2>3, <2>4 DEF Settles
<1> QED BY <1>10, <1>12, <1>13, <1>15, <1>16, <1>17 DEF TableStep

(* Every handler of a table.                                               *)
LEMMA TableSteps ==
  ASSUME WalletInv, PartyInv, TableInv, TableNext
  PROVE  \E t \in TableIds : TableStep(t)
<1>1. PICK t \in TableIds :
        \/ \E u \in Users :
             \/ \E w \in Wagers, n \in TeamSizes : OpenTable(t, u, w, n)
             \/ \E choice \in Teams \cup {None} : JoinTable(t, u, choice)
             \/ LeaveTable(t, u)
             \/ CancelTable(t, u)
             \/ SettleFinished(t, u)
        \/ FaceitCreated(t)
        \/ FaceitFailed(t)
        \/ MarkLive(t)
        \/ FaceitCancels(t)
  BY DEF TableNext
<1>2. (\E u \in Users : CancelTable(t, u)) \/ FaceitCancels(t) => Cancel(t)
  BY DEF CancelTable, FaceitCancels
<1>3. TableStep(t)
  BY <1>1, <1>2, OpenTableSteps, JoinTableSteps, LeaveTableSteps, CancelSteps,
     SettleFinishedSteps, FaceitSteps
<1> QED BY <1>3

----------------------------------------------------------------------------
(* The whole platform                                                      *)

(* There are no tables at first.                                           *)
LEMMA TablesStart ==
  ASSUME Init
  PROVE  TableInv /\ \A t \in TableIds : Led(t)
<1> USE DEF Init
<1>1. TableTypeOK
  BY DEF TableTypeOK, Statuses
<1>2. ASSUME NEW t \in TableIds PROVE TableOK(t) /\ Led(t)
  <2>1. Seated(t) = {}
    BY DEF Seated
  <2>2. \A x : Side(t, x) = {} /\ Cardinality(Side(t, x)) = 0
    BY <2>1, FS_EmptySet DEF Side
  <2>3. \A x, p : PartySide(t, x, p) = {}
    BY <2>2 DEF PartySide
  <2>4. Funded(t)
    BY <2>3, SumEmpty DEF Funded
  <2>5. Opened(t) /\ Locks(t)
    BY <2>1, <2>2 DEF Opened, Locks, Room
  <2>6. Led(t)
    BY <2>1 DEF Led, SeatsLed, CreatorLeads
  <2> QED BY <2>4, <2>5, <2>6 DEF TableOK
<1> QED BY <1>1, <1>2 DEF TableInv

(* The platform's inductive invariant.                                     *)
SystemInv == WalletInv /\ PartyInv /\ TableInv

(* What Postgres adds to it.                                               *)
AllLed == \A t \in TableIds : Led(t)

(* A step of the wallet or of parties leaves every table as it is.         *)
LEMMA OthersKeepTables ==
  ASSUME SystemInv, UNCHANGED tableVars
  PROVE  /\ TableInv'
         /\ \A t \in TableIds : Row(t)' = Row(t)
         /\ \A t \in TableIds : MovesTogether(t)
<1>1. ASSUME NEW t \in TableIds PROVE Row(t)' = Row(t)
  BY DEF Row, tableVars
<1>2. \A t \in TableIds : TableOK(t)'
  BY <1>1, RowKeepsTable DEF SystemInv, TableInv
<1>3. TableTypeOK'
  BY DEF SystemInv, TableInv, TableTypeOK, tableVars
<1>4. ASSUME NEW t \in TableIds, NEW p PROVE PartySeats(t, p)' = PartySeats(t, p)
  BY DEF PartySeats, Seated, tableVars
<1> QED BY <1>1, <1>2, <1>3, <1>4 DEF TableInv, MovesTogether

(* A step of the wallet leaves every party as it is.                       *)
LEMMA OthersKeepParties ==
  ASSUME PartyInv, UNCHANGED partyVars
  PROVE  PartyInv' /\ LogsBind
<1> USE DEF partyVars
<1>1. \A p \in PartyIds : Members(p)' = Members(p)
  BY DEF Members
<1>2. PoolIsEntitlements' /\ PartyTypeOK'
  BY <1>1 DEF PartyInv, PoolIsEntitlements, PartyTypeOK
<1>3. PartiesAreWhole' /\ IdsAreFresh' /\ LogsBind
  BY <1>1 DEF PartyInv, PartiesAreWhole, IdsAreFresh, Exists, LogsBind
<1> QED BY <1>2, <1>3 DEF PartyInv

(* Every step of the platform keeps its invariant.                         *)
LEMMA SystemSteps ==
  ASSUME SystemInv, [Next]_vars
  PROVE  /\ SystemInv'
         /\ ~Sqlite /\ AllLed => AllLed' /\ \A t \in TableIds : MovesTogether(t)
<1> USE DEF SystemInv
<1>1. CASE TableNext
  <2>1. PICK t \in TableIds : TableStep(t)
    BY <1>1, TableSteps
  <2>2. \A s \in TableIds \ {t} : TableOK(s)'
    BY <2>1, RowKeepsTable DEF TableInv, TableStep
  <2>3. SystemInv'
    BY <2>1, <2>2 DEF TableStep, TableInv
  <2>4. ASSUME ~Sqlite, AllLed
        PROVE  AllLed' /\ \A s \in TableIds : MovesTogether(s)
    <3>1. Led(t)' /\ MovesTogether(t)
      BY <2>1, <2>4 DEF TableStep, AllLed
    <3>2. ASSUME NEW s \in TableIds \ {t}
          PROVE  Led(s)' /\ MovesTogether(s)
      <4>1. Row(s)' = Row(s) /\ LogsBind /\ TableTypeOK
        BY <2>1 DEF TableStep, TableInv
      <4>2. Led(s)'
        BY <2>4, <4>1, RowKeepsLed DEF AllLed
      <4>3. seat'[s] = seat[s]
        BY <4>1 DEF Row
      <4>4. \A p : PartySeats(s, p)' = PartySeats(s, p)
        BY <4>3 DEF PartySeats, Seated
      <4> QED BY <4>2, <4>4 DEF MovesTogether
    <3> QED BY <3>1, <3>2 DEF AllLed
  <2> QED BY <2>3, <2>4
<1>2. CASE UNCHANGED tableVars /\ WalletInv' /\ PartyInv' /\ LogsBind
  <2>1. /\ TableInv'
        /\ \A t \in TableIds : Row(t)' = Row(t)
        /\ \A t \in TableIds : MovesTogether(t)
    BY <1>2, OthersKeepTables
  <2>2. ASSUME ~Sqlite, AllLed PROVE AllLed'
    BY <1>2, <2>1, <2>2, RowKeepsLed DEF AllLed, TableInv
  <2> QED BY <1>2, <2>1, <2>2
<1>3. CASE PartyNext /\ UNCHANGED tableVars
  <2>1. PartyStep
    BY <1>3, PartySteps
  <2> QED BY <1>2, <1>3, <2>1 DEF PartyStep
<1>4. CASE WalletNext /\ UNCHANGED <<partyVars, tableVars>>
  BY <1>2, <1>4, WalletSteps, OthersKeepParties
<1>5. CASE UNCHANGED vars
  <2>1. UNCHANGED <<walletVars, partyVars, tableVars>>
    BY <1>5 DEF vars
  <2>2. WalletInv'
    <3>1. Elsewhere /\ fees' \in Nat /\ fees' >= fees
          /\ balance' \in [Users -> Nat] /\ rollover' \in [Users -> Nat]
      BY <2>1 DEF walletVars, Elsewhere, providerVars, WalletInv, WalletTyped
    <3> QED BY <3>1, ElsewhereKeeps
  <2> QED BY <1>2, <2>1, <2>2, OthersKeepParties
<1> QED BY <1>1, <1>3, <1>4, <1>5 DEF Next

(* The invariant holds at first.                                           *)
LEMMA SystemStarts ==
  ASSUME Init
  PROVE  SystemInv /\ AllLed
BY TablesStart, PartyStarts, WalletStarts DEF Init, SystemInv, AllLed

(* The invariant holds.                                                    *)
LEMMA SystemHolds == Spec => []SystemInv
<1>1. Init => SystemInv
  BY SystemStarts
<1>2. SystemInv /\ [Next]_vars => SystemInv'
  BY SystemSteps
<1> QED BY <1>1, <1>2, PTL DEF Spec

(* "pool_balance == sum(entitlements) always": whatever parties, seats,    *)
(* refunds and prizes do, a pool is what its members may claim of it.      *)
THEOREM PoolsAreOwned == Spec => []PoolIsEntitlements
<1>1. SystemInv => PoolIsEntitlements
  BY DEF SystemInv, PartyInv
<1> QED BY <1>1, SystemHolds, PTL

(* A party has its leader among its members, and no member outlives it.    *)
THEOREM PartiesStayWhole == Spec => []PartiesAreWhole
<1>1. SystemInv => PartiesAreWhole
  BY DEF SystemInv, PartyInv
<1> QED BY <1>1, SystemHolds, PTL

(* A table never holds a seat whose stake was not taken, however unevenly  *)
(* a party's members paid for theirs.                                      *)
THEOREM SidesStayFunded == Spec => []SidesAreFunded
<1>1. SystemInv => SidesAreFunded
  BY SideHasPaid DEF SystemInv, SidesAreFunded
<1> QED BY <1>1, SystemHolds, PTL

(* A table locks with its last seat and the whole pot, and keeps both.     *)
THEOREM LockedTablesAreFull == Spec => []LockedMeansFull
<1>1. SystemInv => LockedMeansFull
  BY DEF SystemInv, TableInv, TableOK, Locks, Full, LockedMeansFull
<1> QED BY <1>1, SystemHolds, PTL

(* On Postgres an open table keeps the creator who can call it off: not    *)
(* even a party whose leader changed could take their seat away.           *)
THEOREM CreatorsStaySeated == ASSUME ~Sqlite PROVE Spec => []CreatorIsSeated
<1>1. Init => SystemInv /\ AllLed
  BY SystemStarts
<1>2. SystemInv /\ AllLed /\ [Next]_vars => SystemInv' /\ AllLed'
  BY SystemSteps
<1>3. AllLed => CreatorIsSeated
  BY DEF AllLed, Led, CreatorLeads, CreatorIsSeated
<1> QED BY <1>1, <1>2, <1>3, PTL DEF Spec

(* On Postgres the seats of a party at a table are taken together and      *)
(* given up together, whoever joins or leaves the party meanwhile.         *)
THEOREM PartiesSitTogether == ASSUME ~Sqlite PROVE Spec => PartySeatsMoveTogether
<1>1. Init => SystemInv /\ AllLed
  BY SystemStarts
<1>2. SystemInv /\ AllLed /\ [Next]_vars =>
        /\ SystemInv' /\ AllLed'
        /\ [\A t \in TableIds, p \in PartyIds :
              PartySeats(t, p) # {} => PartySeats(t, p)' \in {PartySeats(t, p), {}}]_vars
  BY SystemSteps DEF MovesTogether
<1> QED BY <1>1, <1>2, PTL DEF Spec, PartySeatsMoveTogether

----------------------------------------------------------------------------
(* What each user owns                                                     *)

(* What of a user is on its way to them.                                   *)
Way(u) == IF payout[u] = None THEN 0 ELSE payout[u].amount

(* What a step of the wallet does to what users have: nothing;             *)
Still ==
  /\ \A v \in Users : Pocket(v)' = Pocket(v) /\ Way(v)' = Way(v)
  /\ UNCHANGED rollover

(* a deposit;                                                              *)
Deposits(u, a) ==
  /\ \A v \in Users : /\ Pocket(v)' = Pocket(v) + (IF v = u THEN a ELSE 0)
                      /\ Way(v)' = Way(v)
  /\ rollover' = [rollover EXCEPT ![u] = rollover[u] + RolloverOn(a)]

(* a withdrawal, which may be under way for a while;                       *)
Withdraws(u, a) ==
  /\ a <= Pocket(u) /\ rollover[u] = 0 /\ UNCHANGED rollover
  /\ \A v \in Users : Pocket(v)' = Pocket(v) - (IF v = u THEN a ELSE 0)
  /\ \/ \A v \in Users : Way(v)' = Way(v)
     \/ \A v \in Users : Way(v)' = Way(v) + (IF v = u THEN a ELSE 0)

(* or the end of one.                                                      *)
Arrives(u) ==
  /\ UNCHANGED rollover
  /\ WrittenSince(u) \in Int
  /\ \A v \in Users : Way(v)' = IF v = u THEN 0 ELSE Way(v)
  /\ \/ \A v \in Users : Pocket(v)' = Pocket(v)
     \/ \A v \in Users :
          Pocket(v)' = IF v = u THEN (Pocket(u) + Way(u)) - WrittenSince(u) ELSE Pocket(v)

(* One of these.                                                           *)
WalletMove ==
  \/ Still
  \/ \E u \in Users, a \in Amounts : Deposits(u, a) \/ Withdraws(u, a)
  \/ \E u \in Users : Arrives(u)

(* Every step of the wallet is one of these.                               *)
LEMMA WalletMoves ==
  ASSUME WalletInv, PartyInv, WalletNext, UNCHANGED partyVars
  PROVE  WalletMove
<1>1. /\ UNCHANGED entitlement
      /\ \A v \in Users : /\ balance[v] \in Nat /\ entitlement[v] \in Nat
                          /\ rollover[v] \in Nat /\ Pocket(v) \in Nat
                          /\ payout[v] \in Payouts \cup {None} /\ Way(v) \in Nat
                          /\ payout[v] # None => payout[v] \in Payouts
      /\ balance \in [Users -> Nat] /\ payout \in [Users -> Payouts \cup {None}]
      /\ rollover \in [Users -> Nat]
  <2>1. \A v \in Users : payout[v] # None => payout[v] \in Payouts /\ payout[v].amount \in Nat
    BY DEF WalletInv, WalletTyped, Payouts
  <2> QED BY <2>1 DEF partyVars, WalletInv, WalletTyped, PartyInv, PartyTypeOK, Pocket, Way
<1>2. ASSUME UNCHANGED <<balance, rollover, payout>> PROVE Still
  BY <1>1, <1>2 DEF Still, Pocket, Way
<1>3. ASSUME NEW u \in Users, NEW a \in Amounts, CreditDeposit(u, a), UNCHANGED payout
      PROVE  Deposits(u, a)
  <2>1. a \in Nat
    BY WalletAssumption
  <2>2. \A v \in Users : Pocket(v)' = Pocket(v) + (IF v = u THEN a ELSE 0)
    BY <1>1, <1>3, <2>1 DEF CreditDeposit, Pocket
  <2> QED BY <1>3, <2>2 DEF CreditDeposit, Deposits, Way
<1>4. ASSUME NEW u \in Users, NEW a \in Amounts, MayWithdraw(u, a), Take(u, a),
             UNCHANGED payout \/ (payout[u] = None /\ \E x \in {y \in Payouts : y.amount = a} :
                                     payout' = [payout EXCEPT ![u] = x])
      PROVE  Withdraws(u, a)
  <2>1. a \in Nat /\ a <= balance[u] /\ rollover[u] = 0 /\ UNCHANGED rollover
    BY <1>4, WalletAssumption DEF MayWithdraw, Take
  <2>2. \A v \in Users : Pocket(v)' = Pocket(v) - (IF v = u THEN a ELSE 0)
    BY <1>1, <1>4, <2>1 DEF Take, Pocket
  <2>3. a <= Pocket(u)
    BY <1>1, <2>1 DEF Pocket
  <2>4. CASE UNCHANGED payout
    BY <2>1, <2>2, <2>3, <2>4 DEF Withdraws, Way
  <2>5. CASE ~UNCHANGED payout
    <3>1. PICK x \in Payouts : /\ x.amount = a /\ payout[u] = None
                               /\ payout' = [payout EXCEPT ![u] = x]
      BY <1>4, <2>5
    <3>2. x # None
      BY <3>1, RowAssumption
    <3>3. \A v \in Users : payout'[v] = IF v = u THEN x ELSE payout[v]
      BY <1>1, <3>1
    <3>4. \A v \in Users : Way(v)' = IF v = u THEN a ELSE Way(v)
      BY <3>1, <3>2, <3>3 DEF Way
    <3>5. Way(u) = 0
      BY <3>1 DEF Way
    <3>6. \A v \in Users : Way(v)' = Way(v) + (IF v = u THEN a ELSE 0)
      BY <1>1, <2>1, <3>4, <3>5
    <3> QED BY <2>1, <2>2, <2>3, <3>6 DEF Withdraws
  <2> QED BY <2>4, <2>5
<1>5. ASSUME NEW u \in Users, payout[u] # None, payout' = [payout EXCEPT ![u] = None],
             UNCHANGED rollover,
             UNCHANGED balance \/ balance' = [balance EXCEPT ![u] = Refunded(u)]
      PROVE  Arrives(u)
  <2>1. \A v \in Users : Way(v)' = IF v = u THEN 0 ELSE Way(v)
    BY <1>1, <1>5 DEF Way
  <2>0. /\ payout[u].amount \in Nat /\ payout[u].balance \in Nat /\ Way(u) = payout[u].amount
        /\ balance[u] \in Nat
    BY <1>1, <1>5 DEF Way, Payouts
  <2>4. /\ WrittenSince(u) = balance[u] - (payout[u].balance - payout[u].amount)
        /\ WrittenSince(u) \in Int
    BY <1>5, <2>0 DEF WrittenSince
  <2>2. CASE UNCHANGED balance
    <3>1. \A v \in Users : Pocket(v)' = Pocket(v)
      BY <1>1, <2>2 DEF Pocket
    <3> QED BY <1>5, <2>1, <2>4, <3>1 DEF Arrives
  <2>3. CASE balance' = [balance EXCEPT ![u] = Refunded(u)]
    <3>1. Refunded(u) = (balance[u] + Way(u)) - WrittenSince(u)
      BY <2>0, <2>4 DEF Refunded
    <3>2. Pocket(u)' = (Pocket(u) + Way(u)) - WrittenSince(u)
      BY <1>1, <2>0, <2>3, <2>4, <3>1 DEF Pocket
    <3>3. \A v \in Users \ {u} : Pocket(v)' = Pocket(v)
      BY <1>1, <2>3 DEF Pocket
    <3> QED BY <1>5, <2>1, <2>4, <3>2, <3>3 DEF Arrives
  <2> QED BY <1>5, <2>2, <2>3
<1>6. ASSUME NEW u \in Users, NEW a \in Amounts, NEW r \in Refs, StartCheckout(u, r, a)
      PROVE  Still
  BY <1>2, <1>6 DEF StartCheckout, userVars
<1>7. ASSUME NEW r \in Refs, PayCheckout(r) PROVE Still
  BY <1>2, <1>7 DEF PayCheckout, userVars
<1>8. ASSUME NEW r \in Refs, NEW n \in Notices, PayedWebhook(r, n) PROVE WalletMove
  <2>1. checkout[r].user \in Users /\ checkout[r].amount \in Amounts
    BY <1>8 DEF PayedWebhook, WalletInv, WalletTyped
  <2>2. UNCHANGED payout
    BY <1>8 DEF PayedWebhook
  <2>3. CASE n \in SuccessNotices
    <3>1. CreditDeposit(checkout[r].user, checkout[r].amount)
      BY <1>8, <2>3 DEF PayedWebhook
    <3> QED BY <1>3, <2>1, <2>2, <3>1 DEF WalletMove
  <2>4. CASE n \notin SuccessNotices
    BY <1>2, <1>8, <2>2, <2>4 DEF PayedWebhook, userVars, WalletMove
  <2> QED BY <2>3, <2>4
<1>9. ASSUME NEW r \in Refs, NEW n \in Notices, PayedWebhookLost(r, n) \/ MarkerGone(r, n)
      PROVE  Still
  BY <1>2, <1>9 DEF PayedWebhookLost, MarkerGone, userVars
<1>10. ASSUME NEW u \in Users, NEW a \in Amounts, BeginWithdraw(u, a) PROVE Withdraws(u, a)
  <2>1. PICK x : x = [amount |-> a, own |-> OwnPart(principal[u], a),
                      fee |-> FeeOn(principal[u], a),
                      balance |-> balance[u], principal |-> principal[u]]
    OBVIOUS
  <2>2. MayWithdraw(u, a) /\ Take(u, a) /\ payout[u] = None /\ payout' = [payout EXCEPT ![u] = x]
    BY <1>10, <2>1 DEF BeginWithdraw
  <2>3. x \in Payouts /\ x.amount = a
    <3>1. a \in Nat /\ principal[u] \in Nat /\ balance[u] \in Nat
      BY <1>1, WalletAssumption DEF WalletInv, WalletTyped
    <3>2. OwnPart(principal[u], a) \in 0 .. a /\ FeeOn(principal[u], a) \in 0 .. a - OwnPart(principal[u], a)
      BY <3>1, FeeBounds
    <3>3. OwnPart(principal[u], a) \in Nat /\ FeeOn(principal[u], a) \in Nat
      BY <3>1, <3>2
    <3> QED BY <2>1, <3>1, <3>3 DEF Payouts
  <2> QED BY <1>4, <2>2, <2>3
<1>11. ASSUME NEW u \in Users, PayoutAccepted(u) \/ PayoutRefused(u) \/ PayoutUnanswered(u)
       PROVE  Arrives(u)
  <2>1. /\ payout[u] # None /\ payout' = [payout EXCEPT ![u] = None] /\ UNCHANGED rollover
        /\ UNCHANGED balance \/ balance' = [balance EXCEPT ![u] = Refunded(u)]
    BY <1>11 DEF PayoutAccepted, PayoutRefused, PayoutUnanswered, userVars
  <2> QED BY <1>5, <2>1
<1>12. ASSUME NEW u \in Users, NEW a \in Amounts, DemoDeposit(u, a) PROVE Deposits(u, a)
  BY <1>3, <1>12 DEF DemoDeposit, providerVars
<1>13. ASSUME NEW u \in Users, NEW a \in Amounts, DemoWithdraw(u, a) PROVE Withdraws(u, a)
  BY <1>4, <1>13 DEF DemoWithdraw, providerVars
<1>14. CASE ProviderNext
  BY <1>6, <1>7, <1>8, <1>9, <1>10, <1>11, <1>14 DEF ProviderNext, WalletMove
<1>15. CASE DemoNext
  BY <1>12, <1>13, <1>15 DEF DemoNext, WalletMove
<1> QED BY <1>14, <1>15 DEF WalletNext

(* What a user has at stake on all tables.                                 *)
StakesOf(u) == SumOver([t \in TableIds |-> AtStake(t, u)], TableIds)

(* What users own is an amount, in pockets and at stake.                   *)
HeldOK ==
  \A u \in Users :
    /\ Pocket(u) \in Nat /\ StakesOf(u) \in Nat
    /\ HeldBy(u) = Pocket(u) + StakesOf(u) /\ HeldBy(u) \in Nat
    /\ \A t \in TableIds : AtStake(t, u) \in Nat

(* The invariant says so.                                                  *)
LEMMA HeldFacts == SystemInv => HeldOK
<1> SUFFICES ASSUME SystemInv, NEW u \in Users
             PROVE  /\ Pocket(u) \in Nat /\ StakesOf(u) \in Nat
                    /\ HeldBy(u) = Pocket(u) + StakesOf(u) /\ HeldBy(u) \in Nat
                    /\ \A t \in TableIds : AtStake(t, u) \in Nat
  BY DEF HeldOK
<1>1. balance[u] \in Nat /\ entitlement[u] \in Nat /\ TableTypeOK
  BY DEF SystemInv, WalletInv, WalletTyped, PartyInv, PartyTypeOK, TableInv
<1>2. \A t \in TableIds : AtStake(t, u) \in Nat
  BY <1>1, SeatedRows DEF AtStake
<1>3. StakesOf(u) \in Nat
  <2> DEFINE f == [t \in TableIds |-> AtStake(t, u)]
  <2>1. \A t \in TableIds : f[t] \in Nat
    BY <1>2
  <2> HIDE DEF f
  <2>2. SumOver(f, TableIds) \in Nat
    BY <2>1, TableAssumption, SumNat
  <2> QED BY <2>2 DEF f, StakesOf
<1>4. HeldBy(u) = balance[u] + entitlement[u] + StakesOf(u)
  BY DEF HeldBy, StakesOf
<1> QED BY <1>1, <1>2, <1>3, <1>4 DEF Pocket

(* While tables rest users are richer by what is in their pockets only.    *)
LEMMA TablesRest ==
  ASSUME SystemInv, SystemInv', UNCHANGED tableVars
  PROVE  /\ Stakes' = Stakes
         /\ \A u \in Users : HeldBy(u)' = HeldBy(u) + (Pocket(u)' - Pocket(u))
<1>h. HeldOK /\ HeldOK'
  BY HeldFacts, PTL
<1>1. \A t, u : AtStake(t, u)' = AtStake(t, u)
  BY DEF AtStake, Paid, tableVars
<1>2. Stakes' = Stakes
  BY <1>1 DEF Stakes
<1>3. \A u : StakesOf(u)' = StakesOf(u)
  BY <1>1 DEF StakesOf
<1>4. ASSUME NEW u \in Users PROVE HeldBy(u)' = HeldBy(u) + (Pocket(u)' - Pocket(u))
  <2>1. /\ Pocket(u) \in Nat /\ StakesOf(u) \in Nat /\ HeldBy(u) = Pocket(u) + StakesOf(u)
    BY <1>h DEF HeldOK
  <2>2. /\ Pocket(u)' \in Nat /\ HeldBy(u)' = Pocket(u)' + StakesOf(u)'
    BY <1>h DEF HeldOK
  <2> QED BY <1>3, <2>1, <2>2
<1> QED BY <1>2, <1>4

(* When one table moves users are richer by what they get from it only.    *)
LEMMA OneTable ==
  ASSUME SystemInv, SystemInv', NEW t \in TableIds, \A s \in TableIds \ {t} : Row(s)' = Row(s)
  PROVE  /\ \A s \in TableIds \ {t} : Stakes'[s] = Stakes[s]
         /\ \A u \in Users : HeldBy(u)' =
              HeldBy(u) + ((Pocket(u)' + AtStake(t, u)') - (Pocket(u) + AtStake(t, u)))
<1>h. HeldOK /\ HeldOK'
  BY HeldFacts, PTL
<1>1. ASSUME NEW s \in TableIds \ {t}, NEW u \in Users PROVE AtStake(s, u)' = AtStake(s, u)
  <2>1. Row(s)' = Row(s)
    OBVIOUS
  <2>2. status'[s] = status[s] /\ seat'[s] = seat[s]
    BY <2>1 DEF Row
  <2> QED BY <2>2 DEF AtStake, Paid
<1>2. \A s \in TableIds \ {t} : Stakes'[s] = Stakes[s]
  BY <1>1 DEF Stakes
<1>3. ASSUME NEW u \in Users
      PROVE  HeldBy(u)' =
               HeldBy(u) + ((Pocket(u)' + AtStake(t, u)') - (Pocket(u) + AtStake(t, u)))
  <2> DEFINE f == [s \in TableIds |-> AtStake(s, u)]
             g == [s \in TableIds |-> AtStake(s, u)']
  <2>1. /\ Pocket(u) \in Nat /\ StakesOf(u) \in Nat /\ HeldBy(u) = Pocket(u) + StakesOf(u)
        /\ \A s \in TableIds : AtStake(s, u) \in Nat
    BY <1>h DEF HeldOK
  <2>2. /\ Pocket(u)' \in Nat /\ StakesOf(u)' \in Nat /\ HeldBy(u)' = Pocket(u)' + StakesOf(u)'
        /\ \A s \in TableIds : AtStake(s, u)' \in Nat
    BY <1>h DEF HeldOK
  <2>3. /\ \A s \in TableIds : f[s] \in Int /\ g[s] \in Int
        /\ \A s \in TableIds \ {t} : g[s] = f[s]
        /\ f[t] = AtStake(t, u) /\ g[t] = AtStake(t, u)'
    BY <1>1, <2>1, <2>2
  <2>4. StakesOf(u) = SumOver(f, TableIds) /\ StakesOf(u)' = SumOver(g, TableIds)
    BY DEF StakesOf
  <2> HIDE DEF f, g
  <2>5. SumOver(g, TableIds) = SumOver(f, TableIds) + g[t] - f[t]
    BY <2>3, TableAssumption, SumUpdate
  <2>6. StakesOf(u)' = (StakesOf(u) + AtStake(t, u)') - AtStake(t, u)
    BY <2>1, <2>2, <2>3, <2>4, <2>5
  <2> QED BY <2>1, <2>2, <2>6
<1> QED BY <1>2, <1>3

(* A step of the wallet is one of Holdings.                                *)
LEMMA AloneMoves ==
  ASSUME SystemInv, SystemInv', UNCHANGED tableVars, WalletMove
  PROVE  H!HNext \/ UNCHANGED H!hvars
<1> DEFINE held == [u \in Users |-> HeldBy(u)]
           way == [u \in Users |-> Way(u)]
           since == [u \in Users |-> WrittenSince(u)]
<1>h. HeldOK /\ HeldOK'
  BY HeldFacts, PTL
<1>1. /\ Stakes' = Stakes
      /\ \A u \in Users : HeldBy(u)' = HeldBy(u) + (Pocket(u)' - Pocket(u))
  BY TablesRest
<1>2. \A u \in Users : /\ Pocket(u) \in Nat /\ HeldBy(u) \in Nat /\ Pocket(u) <= HeldBy(u)
  BY <1>h DEF HeldOK
<1>3. \A u \in Users : Pocket(u)' \in Nat /\ HeldBy(u)' \in Nat
  BY <1>h DEF HeldOK
<1>4. \A u \in Users : Way(u) \in Nat
  BY DEF Way, SystemInv, WalletInv, WalletTyped, Payouts
<1>5. \A u \in Users : held[u] = HeldBy(u) /\ held'[u] = HeldBy(u)' /\ way[u] = Way(u) /\ way'[u] = Way(u)'
  OBVIOUS
<1>6. /\ held = [u \in Users |-> held[u]] /\ held' = [u \in Users |-> held'[u]]
      /\ way = [u \in Users |-> way[u]] /\ way' = [u \in Users |-> way'[u]]
  OBVIOUS
<1>8. CASE Still
  <2>1. \A u \in Users : held'[u] = held[u] /\ way'[u] = way[u]
    BY <1>1, <1>2, <1>5, <1>8 DEF Still
  <2>2. held' = held /\ way' = way
    BY <1>6, <2>1
  <2> QED BY <1>1, <1>8, <2>2 DEF Still, H!hvars, Way
<1>9. ASSUME NEW u \in Users, NEW a \in Amounts, Deposits(u, a)
      PROVE  H!HNext
  <2>1. a \in Nat /\ a > 0
    BY WalletAssumption
  <2>2. \A v \in Users : /\ held'[v] = held[v] + (IF v = u THEN a ELSE 0)
                         /\ way'[v] = way[v]
    BY <1>1, <1>2, <1>5, <1>9, <2>1 DEF Deposits
  <2>3. way' = way
    BY <1>6, <2>2
  <2>4. held' = [held EXCEPT ![u] = held[u] + a]
    <3>1. \A v \in Users : held'[v] = IF v = u THEN held[u] + a ELSE held[v]
      BY <1>2, <1>5, <2>2
    <3> QED BY <1>6, <3>1
  <2>5. a \in 1 .. held'[u]
    BY <1>2, <1>5, <2>1, <2>2
  <2>6. H!Deposit(u)
    BY <1>1, <1>9, <2>3, <2>4, <2>5 DEF H!Deposit, Deposits, Way, H!RolloverOn, RolloverOn
  <2> QED BY <2>6 DEF H!HNext
<1>10. ASSUME NEW u \in Users, NEW a \in Amounts, Withdraws(u, a)
       PROVE  H!HNext
  <2>1. a \in Nat /\ a > 0 /\ a <= Pocket(u) /\ rollover[u] = 0 /\ UNCHANGED rollover
    BY <1>10, WalletAssumption DEF Withdraws
  <2>2. \A v \in Users : held'[v] = held[v] - (IF v = u THEN a ELSE 0)
    BY <1>1, <1>2, <1>5, <1>10, <2>1 DEF Withdraws
  <2>3. held' = [held EXCEPT ![u] = held[u] - a]
    <3>1. \A v \in Users : held'[v] = IF v = u THEN held[u] - a ELSE held[v]
      BY <1>2, <1>5, <2>2
    <3> QED BY <1>6, <3>1
  <2>4. way' \in {way, [way EXCEPT ![u] = way[u] + a]}
    <3>1. CASE \A v \in Users : Way(v)' = Way(v)
      BY <1>5, <1>6, <3>1
    <3>2. CASE \A v \in Users : Way(v)' = Way(v) + (IF v = u THEN a ELSE 0)
      <4>1. \A v \in Users : way'[v] = IF v = u THEN way[u] + a ELSE way[v]
        BY <1>4, <1>5, <3>2
      <4> QED BY <1>6, <4>1
    <3> QED BY <1>10, <3>1, <3>2 DEF Withdraws
  <2>5. a \in 1 .. held[u]
    BY <1>2, <1>5, <2>1
  <2>6. H!Withdraw(u)
    BY <1>1, <2>1, <2>3, <2>4, <2>5 DEF H!Withdraw, Way
  <2> QED BY <2>6 DEF H!HNext
<1>11. ASSUME NEW u \in Users, Arrives(u)
       PROVE  H!HNext
  <2>1. way' = [way EXCEPT ![u] = 0]
    <3>1. \A v \in Users : way'[v] = IF v = u THEN 0 ELSE way[v]
      BY <1>5, <1>11 DEF Arrives
    <3> QED BY <1>6, <3>1
  <2>2. held' \in {held, [held EXCEPT ![u] = (held[u] + way[u]) - since[u]]}
    <3>1. CASE \A v \in Users : Pocket(v)' = Pocket(v)
      <4>1. \A v \in Users : held'[v] = held[v]
        BY <1>1, <1>2, <1>5, <3>1
      <4> QED BY <1>6, <4>1
    <3>2. CASE \A v \in Users : Pocket(v)' = IF v = u THEN (Pocket(u) + Way(u)) - WrittenSince(u)
                                                     ELSE Pocket(v)
      <4>0. WrittenSince(u) \in Int /\ since[u] = WrittenSince(u)
        BY <1>11 DEF Arrives
      <4> HIDE DEF held, way, since
      <4>2. held'[u] = (held[u] + way[u]) - since[u]
        <5>1. HeldBy(u)' = HeldBy(u) + (((Pocket(u) + Way(u)) - WrittenSince(u)) - Pocket(u))
          BY <1>1, <3>2
        <5> QED BY <1>2, <1>4, <1>5, <4>0, <5>1
      <4>3. \A v \in Users \ {u} : held'[v] = held[v]
        BY <1>1, <1>2, <1>5, <3>2
      <4>1. \A v \in Users : held'[v] = IF v = u THEN (held[u] + way[u]) - since[u] ELSE held[v]
        BY <4>2, <4>3
      <4> QED BY <1>6, <4>1
    <3> QED BY <1>11, <3>1, <3>2 DEF Arrives
  <2>3. H!Arrive(u)
    BY <1>1, <1>11, <2>1, <2>2 DEF H!Arrive, Arrives, Way
  <2> QED BY <2>3 DEF H!HNext
<1> QED BY <1>8, <1>9, <1>10, <1>11 DEF WalletMove

(* A step of a party is a gift or, for Holdings, nothing.                  *)
LEMMA PartyMoves ==
  ASSUME SystemInv, SystemInv', UNCHANGED tableVars, PartyStep
  PROVE  H!HNext \/ UNCHANGED H!hvars
<1> DEFINE held == [u \in Users |-> HeldBy(u)]
<1>h. HeldOK
  BY HeldFacts
<1>1. CASE OwnMoves
  <2>1. Still
    BY <1>1 DEF OwnMoves, Still, providerVars, Way
  <2> QED BY <2>1, AloneMoves DEF WalletMove
<1>2. CASE \E u, target \in Users : \E gift \in Nat : Gifts(u, target, gift)
  <2>1. PICK u \in Users, target \in Users, gift \in Nat : Gifts(u, target, gift)
    BY <1>2
  <2>2. /\ u # target /\ gift > 0 /\ gift <= entitlement[u] /\ UNCHANGED payout
        /\ \A v \in Users : Pocket(v)' = (Pocket(v) + IF v = target THEN gift ELSE 0)
                                            - (IF v = u THEN gift ELSE 0)
        /\ rollover' = [rollover EXCEPT ![target] = rollover[target] + gift]
    BY <2>1 DEF Gifts, providerVars
  <2>3. /\ Stakes' = Stakes
        /\ \A v \in Users : HeldBy(v)' = HeldBy(v) + (Pocket(v)' - Pocket(v))
    BY TablesRest
  <2>4. \A v \in Users : Pocket(v) \in Nat /\ HeldBy(v) \in Nat /\ StakesOf(v) \in Nat
                         /\ HeldBy(v) = Pocket(v) + StakesOf(v)
    BY <1>h DEF HeldOK
  <2>5. gift \in 1 .. held[u]
    <3>1. balance[u] \in Nat /\ entitlement[u] \in Nat
      BY DEF SystemInv, WalletInv, WalletTyped, PartyInv, PartyTypeOK
    <3>2. gift <= Pocket(u)
      BY <2>2, <3>1 DEF Pocket
    <3> QED BY <2>2, <2>4, <3>2
  <2>6. held' = [held EXCEPT ![u] = held[u] - gift, ![target] = held[target] + gift]
    <3>1. \A v \in Users : HeldBy(v)' = IF v = target THEN HeldBy(v) + gift
                                        ELSE IF v = u THEN HeldBy(v) - gift ELSE HeldBy(v)
      BY <2>2, <2>3, <2>4
    <3> QED BY <2>2, <3>1
  <2>7. H!Gift(u, target)
    BY <2>2, <2>3, <2>5, <2>6 DEF H!Gift
  <2> QED BY <2>7 DEF H!HNext
<1> QED BY <1>1, <1>2 DEF PartyStep

(* Stakes that are put up and taken back are bets.                         *)
LEMMA BetMoves ==
  ASSUME SystemInv, SystemInv', NEW t \in TableIds,
         \A s \in TableIds \ {t} : Row(s)' = Row(s), Bets(t)
  PROVE  H!HNext
<1>h. HeldOK /\ HeldOK'
  BY HeldFacts, PTL
<1>1. /\ \A s \in TableIds \ {t} : Stakes'[s] = Stakes[s]
      /\ \A u \in Users : HeldBy(u)' =
           HeldBy(u) + ((Pocket(u)' + AtStake(t, u)') - (Pocket(u) + AtStake(t, u)))
  BY OneTable
<1>2. \A u \in Users : HeldBy(u)' = HeldBy(u)
  BY <1>h, <1>1 DEF HeldOK, Bets
<1>3. H!Bet(t)
  BY <1>1, <1>2 DEF H!Bet, Bets, providerVars
<1> QED BY <1>3 DEF H!HNext

(* The arithmetic of Holdings is the arithmetic of Money: the two copies of *)
(* each operator agree.  Sums.                                             *)
LEMMA SameSums == ASSUME NEW f, NEW S
  PROVE  H!SumOver(f, S) = SumOver(f, S)
  BY DEF H!SumOver, SumOver, H!SumFunctionOnSet, SumFunctionOnSet, H!FoldFunctionOnSet,
         FoldFunctionOnSet, H!MapThenFoldSet, MapThenFoldSet

(* The number of elements of a set.                                        *)
LEMMA SameSizes == ASSUME NEW a
  PROVE  H!Cardinality(a) = Cardinality(a)
  BY DEF H!Cardinality, Cardinality

(* Who gets the cents an allocation leaves over.                           *)
LEMMA SameBonuses == ASSUME NEW a, NEW b
  PROVE  H!Bonuses(a, b) = Bonuses(a, b)
  BY SameSizes DEF H!Bonuses, Bonuses

(* Everything an allocation may come to.                                   *)
LEMMA SameAllocations == ASSUME NEW a, NEW w
  PROVE  H!Allocations(a, w) = Allocations(a, w)
<1> DEFINE keys  == DOMAIN w
           hsum   == H!SumOver(w, keys)
           hfloor == [k \in keys |-> H!FloorShare(a, w[k], hsum)]
           hrem   == [k \in keys |-> H!Remainder(a, w[k], hsum)]
           hleft  == H!SumOver(hfloor, keys)
           sum   == SumOver(w, keys)
           floor == [k \in keys |-> FloorShare(a, w[k], sum)]
           rem   == [k \in keys |-> Remainder(a, w[k], sum)]
           left  == SumOver(floor, keys)
           Shares(s, f, choices) ==
             IF s <= 0 THEN {} ELSE {[k \in keys |-> IF k \in B THEN f[k] + 1 ELSE f[k]] :
                                       B \in choices}
<1>1. H!Allocations(a, w) = Shares(hsum, hfloor, H!Bonuses(hrem, a - hleft))
  BY DEF H!Allocations
<1>2. Allocations(a, w) = Shares(sum, floor, Bonuses(rem, a - left))
  BY DEF Allocations
<1>3. hsum = sum
  BY SameSums
<1>4. hfloor = floor /\ hrem = rem
  <2> HIDE DEF hsum, sum
  <2> QED BY <1>3 DEF FloorShare, H!FloorShare, Remainder, H!Remainder
<1>5. hleft = left
  <2> HIDE DEF hfloor, floor
  <2> QED BY <1>4, SameSums
<1>6. H!Bonuses(hrem, a - hleft) = Bonuses(rem, a - left)
  <2> HIDE DEF hrem, hleft, rem, left
  <2>1. H!Bonuses(hrem, a - hleft) = Bonuses(hrem, a - hleft)
    BY SameBonuses
  <2> QED BY <2>1, <1>4, <1>5
<1> HIDE DEF hsum, hfloor, hrem, hleft, sum, floor, rem, left, Shares
<1> QED BY <1>1, <1>2, <1>3, <1>4, <1>6

(* The house cut of a pot, and what a stake burns of a rollover.           *)
LEMMA SameRates ==
  /\ \A x : H!Rake(x) = Rake(x)
  /\ \A x, y : H!Burn(x, y) = Burn(x, y)
<1>1. \A x : H!Rake(x) = Rake(x)
  BY DEF H!Rake, H!Percentage, H!HalfUp, Rake, Percentage, HalfUp
<1>2. \A x, y : H!Burn(x, y) = Burn(x, y)
  BY DEF H!Burn, H!Lesser, Burn, Lesser
<1> QED BY <1>1, <1>2

(* A decided table is a result: those who share the pot are the ones who   *)
(* had paid for seats of the winning side.                                 *)
LEMMA ResultMoves ==
  ASSUME SystemInv, SystemInv', NEW t \in TableIds,
         \A s \in TableIds \ {t} : Row(s)' = Row(s), Settles(t)
  PROVE  H!HNext
<1>h. HeldOK /\ HeldOK'
  BY HeldFacts, PTL
<1>1. /\ \A s \in TableIds \ {t} : Stakes'[s] = Stakes[s]
      /\ \A u \in Users : HeldBy(u)' =
           HeldBy(u) + ((Pocket(u)' + AtStake(t, u)') - (Pocket(u) + AtStake(t, u)))
  BY OneTable
<1>2. /\ status[t] \in Undecided /\ status'[t] = "FINISHED"
      /\ rake[t] = Rake(pot[t]) /\ pot[t] > 0
      /\ pot[t] = SumOver([u \in Users |-> Paid(t, u)], Users)
      /\ \A u \in Users : rollover'[u] = Burn(rollover[u], Paid(t, u))
      /\ UNCHANGED payout
  BY DEF Settles, providerVars
<1>3. PICK team \in Teams :
        \E prize \in Allocations(pot[t] - rake[t], [u \in Side(t, team) |-> seat[t][u].paid]) :
          \A u \in Users :
            Pocket(u)' = Pocket(u) + (IF u \in Side(t, team) THEN prize[u] ELSE 0)
  BY DEF Settles
<1>4. PICK weight : weight = [u \in Side(t, team) |-> seat[t][u].paid]
  OBVIOUS
<1>5. PICK prize \in Allocations(pot[t] - rake[t], weight) :
        \A u \in Users :
          Pocket(u)' = Pocket(u) + (IF u \in Side(t, team) THEN prize[u] ELSE 0)
  BY <1>3, <1>4
<1>6. /\ TableTypeOK /\ pot[t] \in Nat /\ rake[t] \in Nat /\ pot[t] - rake[t] \in Nat
  <2>1. TableTypeOK /\ pot[t] \in Nat /\ rake[t] \in Nat
    BY DEF SystemInv, TableInv, TableTypeOK
  <2>2. rake[t] \in 0 .. pot[t]
    BY <1>2, <2>1, RakeBounds
  <2> QED BY <2>1, <2>2
<1>7. \A u \in Users : /\ AtStake(t, u) = Paid(t, u) /\ AtStake(t, u)' = 0
                       /\ Paid(t, u) \in Nat
                       /\ Stakes[t][u] = Paid(t, u)
  BY <1>2, <1>6, SeatedRows DEF AtStake, Undecided, Stakes
<1>8. PICK winners : winners = {u \in Side(t, team) : Paid(t, u) > 0}
  OBVIOUS
<1>9. /\ Side(t, team) \subseteq Users /\ IsFiniteSet(Side(t, team))
      /\ \A u \in Side(t, team) : /\ u \in Users /\ weight[u] = Paid(t, u)
                                  /\ weight[u] \in Nat
      /\ DOMAIN weight = Side(t, team)
  <2>1. Side(t, team) \subseteq Seated(t) /\ Seated(t) \subseteq Users
        /\ IsFiniteSet(Side(t, team))
    BY SeatedFinite
  <2> QED BY <1>4, <1>6, <2>1, SeatedRows
<1>10. /\ winners \subseteq Side(t, team)
       /\ winners \in SUBSET {u \in Users : Stakes[t][u] > 0}
       /\ \A u \in Side(t, team) \ winners : weight[u] = 0
  BY <1>7, <1>8, <1>9
<1>11. /\ prize \in [Side(t, team) -> Nat]
       /\ \A u \in Side(t, team) \ winners : prize[u] = 0
       /\ [u \in winners |-> prize[u]] \in
            Allocations(pot[t] - rake[t], [u \in winners |-> weight[u]])
  <2>1. /\ prize \in [DOMAIN weight -> Nat]
        /\ \A u \in DOMAIN weight : weight[u] = 0 => prize[u] = 0
    BY <1>5, <1>6, <1>9, AllocationGives
  <2>2. [u \in winners |-> prize[u]] \in
            Allocations(pot[t] - rake[t], [u \in winners |-> weight[u]])
    BY <1>5, <1>6, <1>9, <1>10, AllocationRestricts
  <2> QED BY <1>9, <1>10, <2>1, <2>2
<1>12. [u \in winners |-> weight[u]] = [u \in winners |-> Stakes[t][u]]
  BY <1>7, <1>9, <1>10
<1>13. PICK p : p = [u \in winners |-> prize[u]]
  OBVIOUS
<1>14. p \in Allocations(pot[t] - Rake(pot[t]), [u \in winners |-> Stakes[t][u]])
  BY <1>2, <1>11, <1>12, <1>13
<1>15. \A u \in Users : HeldBy(u)' =
         HeldBy(u) - Stakes[t][u] + IF u \in winners THEN p[u] ELSE 0
  <2> SUFFICES ASSUME NEW u \in Users
               PROVE  HeldBy(u)' = HeldBy(u) - Stakes[t][u] + IF u \in winners THEN p[u] ELSE 0
    OBVIOUS
  <2>1. /\ Pocket(u) \in Nat /\ HeldBy(u) \in Nat
    BY <1>h DEF HeldOK
  <2>2. HeldBy(u)' = HeldBy(u) + (Pocket(u)' - (Pocket(u) + Paid(t, u)))
    <3>1. /\ AtStake(t, u)' = 0 /\ AtStake(t, u) = Paid(t, u) /\ Pocket(u)' \in Nat
          /\ HeldBy(u)' = HeldBy(u) + ((Pocket(u)' + AtStake(t, u)') - (Pocket(u) + AtStake(t, u)))
      BY <1>h, <1>1, <1>7 DEF HeldOK
    <3> QED BY <3>1
  <2>3. Pocket(u)' = Pocket(u) + (IF u \in winners THEN p[u] ELSE 0)
    BY <1>5, <1>10, <1>11, <1>13
  <2>4. u \in winners => p[u] \in Nat
    BY <1>10, <1>11, <1>13
  <2>5. Stakes[t][u] = Paid(t, u) /\ Paid(t, u) \in Nat
    BY <1>7
  <2> QED BY <2>1, <2>2, <2>3, <2>4, <2>5
<1>16. SumOver(Stakes[t], Users) = pot[t]
  <2>1. Stakes[t] = [u \in Users |-> Paid(t, u)]
    BY <1>7 DEF Stakes
  <2> QED BY <1>2, <2>1
<1>17. rollover' = [u \in Users |-> Burn(rollover[u], Stakes[t][u])]
  <2>1. rollover' = [u \in Users |-> rollover'[u]]
    BY DEF SystemInv, WalletInv, WalletTyped
  <2> QED BY <1>2, <1>7, <2>1
<1>18. Stakes' = [Stakes EXCEPT ![t] = [u \in Users |-> 0]]
  <2>1. Stakes'[t] = [u \in Users |-> 0]
    BY <1>7 DEF Stakes
  <2>2. Stakes' = [s \in TableIds |-> Stakes'[s]] /\ Stakes = [s \in TableIds |-> Stakes[s]]
    BY DEF Stakes
  <2> QED BY <1>1, <2>1, <2>2
<1>19. H!Result(t)
  <2>1. /\ SumOver(Stakes[t], Users) > 0
        /\ \E w \in SUBSET {u \in Users : Stakes[t][u] > 0} :
             \E pr \in Allocations(SumOver(Stakes[t], Users) - Rake(SumOver(Stakes[t], Users)),
                                   [u \in w |-> Stakes[t][u]]) :
               [u \in Users |-> HeldBy(u)'] =
                 [u \in Users |-> [v \in Users |-> HeldBy(v)][u] - Stakes[t][u] +
                                    IF u \in w THEN pr[u] ELSE 0]
    BY <1>2, <1>10, <1>14, <1>15, <1>16
  <2>2. /\ H!SumOver(Stakes[t], Users) = SumOver(Stakes[t], Users)
        /\ \A x, y : H!Allocations(x, y) = Allocations(x, y)
        /\ \A x : H!Rake(x) = Rake(x)
        /\ \A x, y : H!Burn(x, y) = Burn(x, y)
    BY SameSums, SameAllocations, SameRates
  <2>3. /\ SumOver(Stakes[t], Users) > 0
        /\ \E w \in SUBSET {u \in Users : Stakes[t][u] > 0} :
             \E pr \in H!Allocations(SumOver(Stakes[t], Users) - H!Rake(SumOver(Stakes[t], Users)),
                                     [u \in w |-> Stakes[t][u]]) :
               [u \in Users |-> HeldBy(u)'] =
                 [u \in Users |-> [v \in Users |-> HeldBy(v)][u] - Stakes[t][u] +
                                    IF u \in w THEN pr[u] ELSE 0]
    BY <2>1, <2>2
  <2>4. rollover' = [u \in Users |-> H!Burn(rollover[u], Stakes[t][u])]
    BY <1>17, <2>2
  <2>5. [u \in Users |-> HeldBy(u)]' = [u \in Users |-> HeldBy(u)']
    OBVIOUS
  <2>6. [u \in Users |-> IF payout[u] = None THEN 0 ELSE payout[u].amount]' =
        [u \in Users |-> IF payout[u] = None THEN 0 ELSE payout[u].amount]
    BY <1>2
  <2>7. /\ H!SumOver(Stakes[t], Users) > 0
        /\ \E w \in SUBSET {u \in Users : Stakes[t][u] > 0} :
             \E pr \in H!Allocations(H!SumOver(Stakes[t], Users)
                                       - H!Rake(H!SumOver(Stakes[t], Users)),
                                     [u \in w |-> Stakes[t][u]]) :
               [u \in Users |-> HeldBy(u)]' =
                 [u \in Users |-> [v \in Users |-> HeldBy(v)][u] - Stakes[t][u] +
                                    IF u \in w THEN pr[u] ELSE 0]
    <3> HIDE <1>h
    <3> QED BY <2>2, <2>3, <2>5, Zenon
  <2> QED BY <1>18, <2>4, <2>6, <2>7, Zenon DEF H!Result
<1> QED BY <1>19 DEF H!HNext

(* Every step of the platform is a step of Holdings, or none at all.       *)
LEMMA HoldingsSteps ==
  ASSUME SystemInv, [Next]_vars
  PROVE  [H!HNext]_(H!hvars)
<1>s. SystemInv'
  BY SystemSteps
<1>1. CASE UNCHANGED vars
  <2>1. UNCHANGED <<walletVars, partyVars, tableVars>>
    BY <1>1 DEF vars
  <2>2. Still /\ UNCHANGED tableVars
    BY <2>1 DEF Still, Pocket, Way, walletVars, partyVars, providerVars
  <2> QED BY <1>s, <2>2, AloneMoves DEF WalletMove
<1>2. CASE TableNext
  <2>1. PICK t \in TableIds : TableStep(t)
    BY <1>2, TableSteps DEF SystemInv
  <2>2. (\A s \in TableIds \ {t} : Row(s)' = Row(s)) /\ (Bets(t) \/ Settles(t))
    BY <2>1 DEF TableStep
  <2>3. CASE Bets(t)
    BY <1>s, <2>2, <2>3, BetMoves
  <2>4. CASE Settles(t)
    BY <1>s, <2>2, <2>4, ResultMoves
  <2> QED BY <2>2, <2>3, <2>4
<1>3. CASE PartyNext /\ UNCHANGED tableVars
  <2>1. PartyStep
    BY <1>3, PartySteps DEF SystemInv
  <2> QED BY <1>s, <1>3, <2>1, PartyMoves
<1>4. CASE WalletNext /\ UNCHANGED <<partyVars, tableVars>>
  <2>1. WalletMove
    BY <1>4, WalletMoves DEF SystemInv
  <2> QED BY <1>s, <1>4, <2>1, AloneMoves
<1> QED BY <1>1, <1>2, <1>3, <1>4 DEF Next

(* The platform starts as Holdings does: with the users' balances.         *)
LEMMA HoldingsStart ==
  ASSUME Init
  PROVE  H!HInit
<1> USE DEF Init
<1>1. SystemInv
  BY SystemStarts
<1>2. /\ HeldOK /\ \A u \in Users : balance[u] \in Nat /\ payout[u] = None
      /\ \A u \in Users : rollover[u] = RolloverOn(balance[u]) /\ entitlement[u] = 0
      /\ rollover = [u \in Users |-> rollover[u]]
  BY <1>1, HeldFacts DEF WalletInit, PartyInit, SystemInv, WalletInv, WalletTyped
<1>3. \A t \in TableIds, u \in Users : AtStake(t, u) = 0
  BY DEF AtStake, Undecided
<1>4. ASSUME NEW u \in Users PROVE HeldBy(u) = balance[u]
  <2> DEFINE f == [t \in TableIds |-> AtStake(t, u)]
  <2>1. \A t \in TableIds : f[t] = 0
    BY <1>3
  <2> HIDE DEF f
  <2>2. SumOver(f, TableIds) = 0
    BY <2>1, TableAssumption, SumZero
  <2>3. StakesOf(u) = 0
    BY <2>2 DEF StakesOf, f
  <2> QED BY <1>2, <2>3 DEF HeldOK, Pocket
<1>5. [u \in Users |-> HeldBy(u)] \in [Users -> Nat]
  BY <1>2, <1>4
<1>6. rollover = [u \in Users |-> H!RolloverOn([v \in Users |-> HeldBy(v)][u])]
  <2>1. \A u \in Users : rollover[u] = H!RolloverOn(HeldBy(u))
    BY <1>2, <1>4 DEF H!RolloverOn, RolloverOn
  <2> QED BY <1>2, <2>1
<1>7. [u \in Users |-> IF payout[u] = None THEN 0 ELSE payout[u].amount] = [u \in Users |-> 0]
  BY <1>2
<1>8. Stakes = [t \in TableIds |-> [u \in Users |-> 0]]
  BY <1>3 DEF Stakes
<1> QED BY <1>5, <1>6, <1>7, <1>8 DEF H!HInit

(* The platform implements Holdings: through whatever parties, pools and   *)
(* seats a user's money goes, what they own changes only by their own      *)
(* deposits and withdrawals, by a leader's gift and by the result of a     *)
(* match, and is not withdrawn before it has been wagered.                 *)
THEOREM HoldingsAreKept == Spec => HoldingsKept
<1>1. Init => SystemInv /\ H!HInit
  BY SystemStarts, HoldingsStart
<1>2. SystemInv /\ [Next]_vars => SystemInv'
  BY SystemSteps
<1>3. SystemInv /\ [Next]_vars => [H!HNext]_(H!hvars)
  BY HoldingsSteps
<1> QED BY <1>1, <1>2, <1>3, PTL DEF Spec, HoldingsKept, H!HSpec

----------------------------------------------------------------------------
(* The books: everything there is to claim against what the provider holds *)

(* All pools, all that users have outside tables, the rakes the house has  *)
(* earned and what is at stake on one table.                               *)
Pools == SumOver(pool, PartyIds)
Pockets == SumOver([u \in Users |-> Pocket(u)], Users)
Finished == {t \in TableIds : status[t] = "FINISHED"}
Rakes == SumOver(rake, Finished)
StakeOn(t) == SumOver(Stakes[t], Users)

(* What is claimed, in pockets, pools and pots too, beyond what there is.  *)
Overdraft == ((Pockets + AllAtStake + Rakes + fees + Dues + Uncredited) - custody) - drift

(* A pool is in the pockets of its members, and nobody else's is in one.   *)
LEMMA PocketsHoldPools ==
  ASSUME WalletInv, PartyInv
  PROVE  /\ Pools \in Nat /\ Pockets \in Nat
         /\ Pockets = Balances + Pools
<1> DEFINE joined == {u \in Users : party[u] # None}
           members == [p \in PartyIds |-> Members(p)]
           pocket == [u \in Users |-> Pocket(u)]
<1>1. /\ \A u \in Users : /\ balance[u] \in Nat /\ entitlement[u] \in Nat
                          /\ party[u] \in PartyIds \cup {None}
      /\ \A p \in PartyIds : pool[p] \in Nat
      /\ IsFiniteSet(Users) /\ IsFiniteSet(PartyIds) /\ IsFiniteSet(joined)
      /\ joined \subseteq Users
  <2>1. IsFiniteSet(PartyIds)
    BY PartyAssumption, FS_Interval DEF PartyIds
  <2>2. IsFiniteSet(joined) /\ joined \subseteq Users
    BY WalletAssumption, FS_Subset
  <2> QED BY <2>1, <2>2, WalletAssumption DEF WalletInv, WalletTyped, PartyInv, PartyTypeOK
<1>2. PartSums(entitlement, pool, members, joined, PartyIds)
  <2>1. \A p \in PartyIds : members[p] \subseteq joined /\ pool[p] = SumOver(entitlement, members[p])
    BY PartyAssumption DEF PartyInv, PoolIsEntitlements, Members
  <2>2. \A p, q \in PartyIds : p # q => members[p] \cap members[q] = {}
    BY DEF Members
  <2>3. \A u \in joined : \E p \in PartyIds : u \in members[p]
    BY <1>1 DEF Members
  <2> QED BY <2>1, <2>2, <2>3 DEF PartSums
<1>3. Pools = SumOver(entitlement, joined)
  <2> HIDE DEF members, joined
  <2>1. \A u \in joined : entitlement[u] \in Int
    BY <1>1
  <2> QED BY <1>1, <1>2, <2>1, SumByPart DEF Pools
<1>4. SumOver(entitlement, Users) = SumOver(entitlement, joined)
  <2>1. /\ \A u \in joined : entitlement[u] \in Int
        /\ \A u \in Users \ joined : entitlement[u] = 0
    BY <1>1 DEF PartyInv, PoolIsEntitlements
  <2> HIDE DEF joined
  <2> QED BY <1>1, <2>1, SumPart
<1>5. Pockets = Balances + SumOver(entitlement, Users)
  <2>1. \A u \in Users : balance[u] \in Int /\ entitlement[u] \in Int
                         /\ pocket[u] = balance[u] + entitlement[u]
    BY <1>1 DEF Pocket
  <2> HIDE DEF pocket
  <2>2. SumOver(pocket, Users) = SumOver(balance, Users) + SumOver(entitlement, Users)
    BY <1>1, <2>1, SumPlus
  <2> QED BY <2>2 DEF pocket, Pockets, Balances
<1>6. Pools \in Nat
  BY <1>1, SumNat DEF Pools
<1> QED BY <1>3, <1>4, <1>5, <1>6, SumTypes

(* Stakes and rakes are amounts.                                           *)
StakesOK ==
  /\ AllAtStake \in Nat /\ Rakes \in Nat /\ IsFiniteSet(Finished)
  /\ \A t \in TableIds : StakeOn(t) \in Nat /\ rake[t] \in Nat

(* The invariant says so.                                                  *)
LEMMA StakeTypes == TableInv => StakesOK
<1> SUFFICES ASSUME TableInv PROVE StakesOK
  OBVIOUS
<1>1. ASSUME NEW t \in TableIds PROVE StakeOn(t) \in Nat
  <2>1. \A u \in Users : Stakes[t][u] \in Nat
    BY SeatedRows DEF TableInv, Stakes, AtStake
  <2>2. SumOver(Stakes[t], Users) \in Nat
    BY <2>1, WalletAssumption, SumNat
  <2> QED BY <2>2 DEF StakeOn
<1>2. AllAtStake \in Nat
  <2> DEFINE f == [t \in TableIds |-> SumOver(Stakes[t], Users)]
  <2>1. \A t \in TableIds : f[t] \in Nat
    BY <1>1 DEF StakeOn
  <2> HIDE DEF f
  <2>2. SumOver(f, TableIds) \in Nat
    BY <2>1, TableAssumption, SumNat
  <2> QED BY <2>2 DEF f, AllAtStake
<1>3. IsFiniteSet(Finished) /\ Finished \subseteq TableIds /\ \A t \in TableIds : rake[t] \in Nat
  BY TableAssumption, FS_Subset DEF Finished, TableInv, TableTypeOK
<1>4. Rakes \in Nat
  BY <1>3, SumNat DEF Rakes
<1> QED BY <1>1, <1>2, <1>3, <1>4 DEF StakesOK

(* What a step of one table changes of the stakes on all of them.          *)
LEMMA StakesMove ==
  ASSUME TableInv, TableInv', NEW t \in TableIds,
         \A s \in TableIds \ {t} : Row(s)' = Row(s)
  PROVE  AllAtStake' = (AllAtStake + StakeOn(t)') - StakeOn(t)
<1> DEFINE f == [s \in TableIds |-> SumOver(Stakes[s], Users)]
           g == [s \in TableIds |-> SumOver(Stakes'[s], Users)]
<1>1. /\ \A s \in TableIds : StakeOn(s) \in Nat
      /\ \A s \in TableIds : StakeOn(s)' \in Nat
      /\ AllAtStake \in Nat
  <2>1. StakesOK /\ StakesOK'
    BY StakeTypes, PTL
  <2> QED BY <2>1 DEF StakesOK
<1>2. \A s \in TableIds : f[s] = StakeOn(s) /\ g[s] = StakeOn(s)'
  BY DEF StakeOn
<1>3. ASSUME NEW s \in TableIds \ {t} PROVE g[s] = f[s]
  <2>1. seat'[s] = seat[s] /\ status'[s] = status[s]
    BY DEF Row
  <2>2. Stakes'[s] = Stakes[s]
    BY <2>1 DEF Stakes, AtStake, Paid
  <2> QED BY <2>2
<1>4. AllAtStake = SumOver(f, TableIds) /\ AllAtStake' = SumOver(g, TableIds)
  BY DEF AllAtStake
<1> HIDE DEF f, g
<1>5. SumOver(g, TableIds) = SumOver(f, TableIds) + g[t] - f[t]
  BY <1>1, <1>2, <1>3, TableAssumption, SumUpdate
<1> QED BY <1>1, <1>2, <1>4, <1>5

(* What a step of one table changes of the rakes earned.                   *)
LEMMA RakesMove ==
  ASSUME TableInv, TableInv', NEW t \in TableIds,
         \A s \in TableIds \ {t} : Row(s)' = Row(s)
  PROVE  /\ (status[t] = "FINISHED" <=> status'[t] = "FINISHED")
              /\ (status[t] = "FINISHED" => rake'[t] = rake[t]) => Rakes' = Rakes
         /\ status[t] # "FINISHED" /\ status'[t] = "FINISHED" => Rakes' = Rakes + rake'[t]
<1>1. /\ IsFiniteSet(Finished) /\ \A s \in TableIds : rake[s] \in Nat
      /\ \A s \in TableIds : rake'[s] \in Nat
      /\ Rakes \in Nat
  <2>1. StakesOK /\ StakesOK'
    BY StakeTypes, PTL
  <2> QED BY <2>1 DEF StakesOK
<1>2. \A s \in TableIds \ {t} : status'[s] = status[s] /\ rake'[s] = rake[s]
  BY DEF Row
<1>3. Finished \subseteq TableIds
  BY DEF Finished
<1>4. ASSUME status[t] = "FINISHED" <=> status'[t] = "FINISHED",
             status[t] = "FINISHED" => rake'[t] = rake[t]
      PROVE  Rakes' = Rakes
  <2>1. Finished' = Finished
    BY <1>2, <1>4 DEF Finished
  <2>2. \A s \in Finished : rake[s] = rake'[s]
    BY <1>2, <1>4 DEF Finished
  <2>3. SumOver(rake, Finished) = SumOver(rake', Finished)
    BY <1>1, <2>2, SumSame
  <2> QED BY <2>1, <2>3 DEF Rakes
<1>5. ASSUME status[t] # "FINISHED", status'[t] = "FINISHED"
      PROVE  Rakes' = Rakes + rake'[t]
  <2>1. Finished' = Finished \cup {t} /\ t \notin Finished
    BY <1>2, <1>5 DEF Finished
  <2>2. \A s \in Finished : rake[s] = rake'[s]
    BY <1>2, <1>5 DEF Finished
  <2>3. SumOver(rake, Finished) = SumOver(rake', Finished)
    BY <1>1, <2>2, SumSame
  <2>4. SumOver(rake', Finished \cup {t}) = SumOver(rake', Finished) + rake'[t]
    BY <1>1, <1>3, <2>1, SumAdd
  <2> QED BY <2>1, <2>3, <2>4 DEF Rakes
<1> QED BY <1>4, <1>5

(* All the sums of the books are amounts.                                  *)
BooksOK ==
  /\ Balances \in Nat /\ fees \in Nat /\ Dues \in Nat /\ Uncredited \in Nat
  /\ Pools \in Nat /\ Pockets \in Nat /\ Pockets = Balances + Pools
  /\ AllAtStake \in Nat /\ Rakes \in Nat /\ custody \in Int /\ drift \in Int
  /\ Overdraft = Unbacked + (Pools + AllAtStake + Rakes)
  /\ Unbacked \in Int /\ Overdraft \in Int

(* The invariant says so.                                                  *)
LEMMA BookTypes == SystemInv => BooksOK
<1> SUFFICES ASSUME SystemInv PROVE BooksOK
  OBVIOUS
<1>1. /\ Balances \in Nat /\ fees \in Nat /\ Dues \in Nat /\ Uncredited \in Nat
      /\ custody \in Int /\ drift \in Int
  BY SumTypes DEF SystemInv
<1>2. Pools \in Nat /\ Pockets \in Nat /\ Pockets = Balances + Pools
  BY PocketsHoldPools DEF SystemInv
<1>3. AllAtStake \in Nat /\ Rakes \in Nat
  BY StakeTypes DEF SystemInv, StakesOK
<1> QED BY <1>1, <1>2, <1>3 DEF BooksOK, Overdraft, Unbacked

(* A step that keeps the books of the whole.                               *)
Keeps == Overdraft' = Overdraft

(* A step of the wallet.                                                   *)
LEMMA WalletKeepsBooks ==
  ASSUME SystemInv, SystemInv', Backs, UNCHANGED <<partyVars, tableVars>>
  PROVE  Keeps
<1>1. BooksOK /\ BooksOK'
  BY BookTypes, PTL
<1>2. Pools' = Pools /\ AllAtStake' = AllAtStake /\ Rakes' = Rakes
  <2> USE DEF partyVars, tableVars
  <2>1. Stakes' = Stakes
    BY DEF Stakes, AtStake, Paid
  <2> QED BY <2>1 DEF Pools, AllAtStake, Rakes, Finished
<1> QED BY <1>1, <1>2 DEF BooksOK, Backs, Keeps

(* Payments and payouts that nobody touches are what they were.            *)
LEMMA ProviderRests ==
  ASSUME UNCHANGED providerVars
  PROVE  Dues' = Dues /\ Uncredited' = Uncredited /\ drift' = drift
BY DEF providerVars, Dues, Due, Uncredited, Arrived, Priced

(* The house's books and the provider's do not change: what users have     *)
(* between them decides.                                                   *)
LEMMA SameBooks ==
  ASSUME BooksOK, BooksOK', UNCHANGED <<fees, custody, drift>>, Dues' = Dues, Uncredited' = Uncredited,
         (Pockets' + AllAtStake') + Rakes' = (Pockets + AllAtStake) + Rakes
  PROVE  Keeps
BY DEF Overdraft, Keeps

(* A step of a party moves money between pockets.                           *)
LEMMA PartyKeepsBooks ==
  ASSUME SystemInv, SystemInv', PartyStep, UNCHANGED tableVars
  PROVE  Keeps
<1> DEFINE f == [u \in Users |-> Pocket(u)]
           g == [u \in Users |-> Pocket(u)']
<1>1. BooksOK /\ BooksOK'
  BY BookTypes, PTL
<1>2. AllAtStake' = AllAtStake /\ Rakes' = Rakes
  <2> USE DEF tableVars
  <2>1. Stakes' = Stakes
    BY DEF Stakes, AtStake, Paid
  <2> QED BY <2>1 DEF AllAtStake, Rakes, Finished
<1>3. UNCHANGED <<fees, custody, providerVars>>
  BY DEF PartyStep, OwnMoves, Gifts
<1>4. Dues' = Dues /\ Uncredited' = Uncredited /\ drift' = drift
  BY <1>3, ProviderRests
<1>5. /\ \A u \in Users : f[u] = Pocket(u) /\ f[u] \in Nat
      /\ \A u \in Users : g[u] = Pocket(u)' /\ g[u] \in Nat
      /\ Pockets = SumOver(f, Users) /\ Pockets' = SumOver(g, Users)
  <2>1. HeldOK /\ HeldOK'
    BY HeldFacts, PTL
  <2> QED BY <2>1 DEF HeldOK, Pockets
<1> HIDE DEF f, g
<1>8. SUFFICES Pockets' = Pockets
  BY <1>1, <1>2, <1>3, <1>4, SameBooks
<1>6. CASE OwnMoves
  <2>1. \A u \in Users : f[u] = g[u]
    BY <1>5, <1>6 DEF OwnMoves
  <2>2. Pockets' = Pockets
    BY <1>5, <2>1, WalletAssumption, SumSame
  <2> QED BY <2>2
<1>7. CASE \E u, target \in Users : \E gift \in Nat : Gifts(u, target, gift)
  <2>1. PICK u \in Users, target \in Users, gift \in Nat : Gifts(u, target, gift)
    BY <1>7
  <2>2. PICK h : h = [v \in Users |-> f[v] + IF v = target THEN gift ELSE 0]
    OBVIOUS
  <2>3. /\ u # target
        /\ \A v \in Users : g[v] = (f[v] + IF v = target THEN gift ELSE 0)
                                       - (IF v = u THEN gift ELSE 0)
    BY <1>5, <2>1 DEF Gifts
  <2>4. /\ \A v \in Users : h[v] \in Int /\ g[v] \in Int /\ f[v] \in Int
        /\ \A v \in Users \ {target} : h[v] = f[v]
        /\ \A v \in Users \ {u} : g[v] = h[v]
        /\ h[target] = f[target] + gift /\ g[u] = h[u] - gift
    BY <1>5, <2>2, <2>3
  <2>5. SumOver(h, Users) = SumOver(f, Users) + h[target] - f[target]
    BY <2>4, WalletAssumption, SumUpdate
  <2>6. SumOver(g, Users) = SumOver(h, Users) + g[u] - h[u]
    BY <2>4, WalletAssumption, SumUpdate
  <2>7. SumOver(f, Users) \in Int
    BY <2>4, WalletAssumption, SumInt
  <2>8. Pockets' = Pockets
    BY <1>5, <2>4, <2>5, <2>6, <2>7
  <2> QED BY <2>8
<1> QED BY <1>6, <1>7 DEF PartyStep

(* A table whose stakes go in and out of pockets.                          *)
LEMMA BetKeepsBooks ==
  ASSUME SystemInv, SystemInv', NEW t \in TableIds,
         \A s \in TableIds \ {t} : Row(s)' = Row(s), Bets(t)
  PROVE  Keeps
<1> DEFINE f == [u \in Users |-> Pocket(u)]
           g == [u \in Users |-> Pocket(u)']
           a == [u \in Users |-> AtStake(t, u)]
           b == [u \in Users |-> AtStake(t, u)']
           h == [u \in Users |-> Pocket(u) + AtStake(t, u)]
<1>1. BooksOK /\ BooksOK' /\ HeldOK /\ HeldOK'
  BY BookTypes, HeldFacts, PTL
<1>2. AllAtStake' = (AllAtStake + StakeOn(t)') - StakeOn(t)
  BY StakesMove DEF SystemInv
<1>3. Rakes' = Rakes
  <2>1. TableInv /\ TableInv'
    BY DEF SystemInv
  <2>2. /\ status[t] = "FINISHED" <=> status'[t] = "FINISHED"
        /\ status[t] = "FINISHED" => rake'[t] = rake[t]
    BY DEF Bets
  <2> QED BY <2>1, <2>2, RakesMove
<1>4. /\ UNCHANGED <<fees, custody, drift>> /\ Dues' = Dues /\ Uncredited' = Uncredited
  BY ProviderRests DEF Bets
<1>5. /\ \A u \in Users : f[u] \in Int /\ a[u] \in Int /\ h[u] = f[u] + a[u]
      /\ \A u \in Users : g[u] \in Int /\ b[u] \in Int /\ h[u] = g[u] + b[u]
  BY <1>1 DEF HeldOK, Bets
<1>6. /\ Pockets = SumOver(f, Users) /\ Pockets' = SumOver(g, Users)
      /\ StakeOn(t) = SumOver(a, Users) /\ StakeOn(t)' = SumOver(b, Users)
  BY DEF Pockets, StakeOn, Stakes
<1> HIDE DEF f, g, a, b, h
<1>7. /\ SumOver(h, Users) = SumOver(f, Users) + SumOver(a, Users)
      /\ SumOver(h, Users) = SumOver(g, Users) + SumOver(b, Users)
  BY <1>5, WalletAssumption, SumPlus
<1>8. Pockets + AllAtStake = Pockets' + AllAtStake'
  <2>1. /\ SumOver(f, Users) \in Int /\ SumOver(a, Users) \in Int
        /\ SumOver(g, Users) \in Int /\ SumOver(b, Users) \in Int
    BY <1>5, WalletAssumption, SumInt
  <2>2. AllAtStake \in Int
    BY <1>1 DEF BooksOK
  <2>3. \A p, q, x, y, z \in Int : p + x = q + y => p + z = q + ((z + y) - x)
    OBVIOUS
  <2>4. SumOver(f, Users) + AllAtStake =
          SumOver(g, Users) + ((AllAtStake + SumOver(b, Users)) - SumOver(a, Users))
    BY <1>7, <2>1, <2>2, <2>3
  <2> QED BY <1>2, <1>6, <2>4
<1>9. (Pockets' + AllAtStake') + Rakes' = (Pockets + AllAtStake) + Rakes
  BY <1>3, <1>8
<1> QED BY <1>1, <1>4, <1>9, SameBooks

(* A table that is decided: the pot goes to the winners and the house.     *)
LEMMA ResultKeepsBooks ==
  ASSUME SystemInv, SystemInv', NEW t \in TableIds,
         \A s \in TableIds \ {t} : Row(s)' = Row(s), Settles(t)
  PROVE  Keeps
<1> DEFINE f == [u \in Users |-> Pocket(u)]
           g == [u \in Users |-> Pocket(u)']
<1>1. BooksOK /\ BooksOK' /\ HeldOK /\ HeldOK'
  BY BookTypes, HeldFacts, PTL
<1>2. AllAtStake' = (AllAtStake + StakeOn(t)') - StakeOn(t)
  BY StakesMove DEF SystemInv
<1>3. Rakes' = Rakes + rake[t]
  <2>1. TableInv /\ TableInv'
    BY DEF SystemInv
  <2>2. /\ status[t] # "FINISHED" /\ status'[t] = "FINISHED" /\ rake'[t] = rake[t]
    BY DEF Settles, Undecided
  <2> QED BY <2>1, <2>2, RakesMove
<1>4. /\ UNCHANGED <<fees, custody, drift>> /\ Dues' = Dues /\ Uncredited' = Uncredited
  BY ProviderRests DEF Settles
<1>5. /\ TableTypeOK /\ pot[t] \in Nat /\ rake[t] \in Nat /\ pot[t] - rake[t] \in Nat
  <2>1. TableTypeOK /\ pot[t] \in Nat /\ rake[t] \in Nat /\ rake[t] = Rake(pot[t])
    BY DEF SystemInv, TableInv, TableTypeOK, Settles
  <2>2. rake[t] \in 0 .. pot[t]
    BY <2>1, RakeBounds
  <2> QED BY <2>1, <2>2
<1>6. StakeOn(t) = pot[t] /\ StakeOn(t)' = 0
  <2>1. Stakes[t] = [u \in Users |-> Paid(t, u)]
    BY DEF Stakes, AtStake, Settles
  <2>2. \A u \in Users : Stakes'[t][u] = 0
    BY DEF Stakes, AtStake, Settles, Undecided
  <2>3. SumOver(Stakes'[t], Users) = 0
    BY <2>2, WalletAssumption, SumZero
  <2> QED BY <2>1, <2>3 DEF StakeOn, Settles
<1>7. PICK team \in Teams :
        \E prize \in Allocations(pot[t] - rake[t], [u \in Side(t, team) |-> seat[t][u].paid]) :
          \A u \in Users :
            Pocket(u)' = Pocket(u) + (IF u \in Side(t, team) THEN prize[u] ELSE 0)
  BY DEF Settles
<1>8. PICK weight : weight = [u \in Side(t, team) |-> seat[t][u].paid]
  OBVIOUS
<1>9. PICK prize \in Allocations(pot[t] - rake[t], weight) :
        \A u \in Users :
          Pocket(u)' = Pocket(u) + (IF u \in Side(t, team) THEN prize[u] ELSE 0)
  BY <1>7, <1>8
<1>10. /\ Side(t, team) \subseteq Users /\ IsFiniteSet(Side(t, team))
       /\ DOMAIN weight = Side(t, team)
       /\ \A u \in Side(t, team) : weight[u] \in Nat
  <2>1. Side(t, team) \subseteq Seated(t) /\ Seated(t) \subseteq Users
        /\ IsFiniteSet(Side(t, team))
    BY SeatedFinite
  <2> QED BY <1>5, <1>8, <2>1, SeatedRows
<1>11. /\ prize \in [Side(t, team) -> Nat]
       /\ SumOver(prize, Side(t, team)) = pot[t] - rake[t]
  BY <1>5, <1>9, <1>10, AllocationGives
<1>12. PICK won : won = [u \in Users |-> IF u \in Side(t, team) THEN prize[u] ELSE 0]
  OBVIOUS
<1>13. SumOver(won, Users) = pot[t] - rake[t]
  <2>1. /\ \A u \in Side(t, team) : prize[u] \in Int /\ won[u] = prize[u]
        /\ \A u \in Users \ Side(t, team) : won[u] = 0
    BY <1>10, <1>11, <1>12
  <2>2. SumOver(won, Users) = SumOver(prize, Side(t, team))
    BY <1>10, <2>1, WalletAssumption, SumPart
  <2> QED BY <1>11, <2>2
<1>14. /\ \A u \in Users : f[u] \in Int /\ won[u] \in Int /\ g[u] = f[u] + won[u]
       /\ Pockets = SumOver(f, Users) /\ Pockets' = SumOver(g, Users)
  <2>1. \A u \in Users : Pocket(u) \in Nat /\ won[u] \in Nat
    BY <1>1, <1>11, <1>12 DEF HeldOK
  <2> QED BY <1>9, <1>12, <2>1 DEF Pockets
<1> HIDE DEF f, g
<1>15. Pockets' = Pockets + (pot[t] - rake[t])
  BY <1>13, <1>14, WalletAssumption, SumPlus
<1>16. (Pockets' + AllAtStake') + Rakes' = (Pockets + AllAtStake) + Rakes
  <2>1. Pockets \in Int /\ AllAtStake \in Int /\ Rakes \in Int
    BY <1>1 DEF BooksOK
  <2> QED BY <1>2, <1>3, <1>5, <1>6, <1>15, <2>1
<1> QED BY <1>1, <1>4, <1>16, SameBooks

(* Every step of the platform keeps the books.                             *)
LEMMA BooksSteps ==
  ASSUME SystemInv, [Next]_vars
  PROVE  Keeps
<1>s. SystemInv'
  BY SystemSteps
<1>b. BooksOK /\ BooksOK'
  BY <1>s, BookTypes, PTL
<1>1. CASE UNCHANGED vars
  <2>1. UNCHANGED <<walletVars, partyVars, tableVars>>
    BY <1>1 DEF vars
  <2>2. PartyStep
    <3>1. LogsBind
      BY <2>1 DEF LogsBind, partyVars
    <3>2. OwnMoves
      BY <2>1 DEF OwnMoves, Pocket, walletVars, partyVars, providerVars
    <3> QED BY <1>s, <3>1, <3>2 DEF PartyStep, SystemInv
  <2> QED BY <1>s, <2>1, <2>2, PartyKeepsBooks
<1>2. CASE TableNext
  <2>1. PICK t \in TableIds : TableStep(t)
    BY <1>2, TableSteps DEF SystemInv
  <2>2. (\A s \in TableIds \ {t} : Row(s)' = Row(s)) /\ (Bets(t) \/ Settles(t))
    BY <2>1 DEF TableStep
  <2> QED BY <1>s, <2>2, BetKeepsBooks, ResultKeepsBooks
<1>3. CASE PartyNext /\ UNCHANGED tableVars
  BY <1>s, <1>3, PartySteps, PartyKeepsBooks DEF SystemInv
<1>4. CASE WalletNext /\ UNCHANGED <<partyVars, tableVars>>
  <2>1. Backs
    BY <1>4, WalletSteps DEF SystemInv
  <2> QED BY <1>s, <1>4, <2>1, WalletKeepsBooks
<1> QED BY <1>1, <1>2, <1>3, <1>4 DEF Next

(* The books balance at first.                                             *)
LEMMA BooksStart ==
  ASSUME Init
  PROVE  Overdraft = 0
<1> USE DEF Init
<1>1. SystemInv /\ Unbacked = 0
  BY SystemStarts, WalletStarts
<1>2. Pools = 0
  <2>1. IsFiniteSet(PartyIds) /\ \A p \in PartyIds : pool[p] = 0
    BY PartyAssumption, FS_Interval DEF PartyIds, PartyInit
  <2> QED BY <2>1, SumZero DEF Pools
<1>3. AllAtStake = 0
  <2> DEFINE f == [t \in TableIds |-> SumOver(Stakes[t], Users)]
  <2>1. ASSUME NEW t \in TableIds PROVE f[t] = 0
    <3>1. \A u \in Users : Stakes[t][u] = 0
      BY DEF Stakes, AtStake, Undecided
    <3> QED BY <3>1, WalletAssumption, SumZero
  <2> HIDE DEF f
  <2>2. SumOver(f, TableIds) = 0
    BY <2>1, TableAssumption, SumZero
  <2> QED BY <2>2 DEF AllAtStake, f
<1>4. Rakes = 0
  <2>1. Finished = {}
    BY DEF Finished
  <2> QED BY <2>1, SumEmpty DEF Rakes
<1> QED BY <1>1, <1>2, <1>3, <1>4, BookTypes DEF BooksOK

(* The books balance from the first step on.                               *)
LEMMA BooksHold == Spec => [](SystemInv /\ Overdraft = 0)
<1>1. Init => SystemInv /\ Overdraft = 0
  BY SystemStarts, BooksStart
<1>2. SystemInv /\ Overdraft = 0 /\ [Next]_vars => (SystemInv /\ Overdraft = 0)'
  BY SystemSteps, BooksSteps DEF Keeps
<1> QED BY <1>1, <1>2, PTL DEF Spec

(* Every field of every row keeps its type: no balance, pool, entitlement  *)
(* or rollover goes below zero, nor do the fees the house has kept.        *)
THEOREM TypesHold == Spec => []TypeOK
<1>1. SystemInv => TypeOK
  <2> SUFFICES ASSUME SystemInv PROVE TypeOK
    OBVIOUS
  <2>1. [user : Users, amount : Amounts] \subseteq Checkouts
    BY WalletAssumption DEF Checkouts
  <2>2. WalletTypeOK
    BY <2>1 DEF SystemInv, WalletInv, WalletTyped, WalletTypeOK
  <2> QED BY <2>2 DEF TypeOK, SystemInv, PartyInv, TableInv
<1> QED BY <1>1, SystemHolds, PTL

(* Not a cent appears or disappears: what the provider holds is what users *)
(* have, in balances, pools, pots, payments and payouts on their way, and  *)
(* what the house has earned, and nothing else but the wallet's drift; in  *)
(* demo mode there is none.                                                *)
THEOREM MoneyIsConserved == Spec => [](MoneyConserved /\ (DemoMode => drift = 0))
<1>1. SystemInv /\ Overdraft = 0 => MoneyConserved /\ (DemoMode => drift = 0)
  <2> SUFFICES ASSUME SystemInv, Overdraft = 0
               PROVE  MoneyConserved /\ (DemoMode => drift = 0)
    OBVIOUS
  <2>1. BooksOK
    BY BookTypes
  <2>2. Claims = (Balances + fees) + Dues
    BY DEF Claims, Balances, Dues
  <2>3. (((Claims + Uncredited) + Pools) + AllAtStake) + Rakes = custody + drift
    BY <2>1, <2>2 DEF BooksOK, Overdraft
  <2>4. DemoMode => drift = 0
    BY DEF SystemInv, WalletInv, NoProvider
  <2> QED BY <2>3, <2>4 DEF MoneyConserved, Pools, Rakes, Finished
<1> QED BY <1>1, BooksHold, PTL

=============================================================================
