------------------------------ MODULE Wallet ------------------------------
(***************************************************************************)
(* The user rows and the handlers of routers/wallet.py, with the Payed.co  *)
(* webhook that completes a deposit.  Each action is what one handler does *)
(* between two commits: a withdrawal commits its debit, then calls the     *)
(* provider, then commits what the answer asks for, so other handlers run  *)
(* in between.  A handler's reads and writes up to its commit are one      *)
(* step here: requests that touch the same rows at the same time are the   *)
(* subject of TableSessions and PartySessions.                             *)
(***************************************************************************)
EXTENDS Money

CONSTANTS
  Users,
  Verified,         \* users whose is_verified is set (FACEIT e-mail, at first login)
  Refs,             \* payment references the provider can hand out
  SuccessNotices,   \* the (event, status) pairs of a notice that say "paid"
  OtherNotices,     \* the ones that do not
  Amounts,          \* amounts users ask for, in cents
  MinDeposit, MinWithdrawal,
  MaxCustody,       \* bound: users bring in at most this much
  DemoMode,         \* settings.demo_mode
  RedisEnabled,     \* settings.redis_enabled
  Opening,          \* what each user had deposited when the behaviour begins
  None              \* no checkout, no payout, no party, ...

ASSUME WalletAssumption ==
  /\ IsFiniteSet(Users) /\ Verified \subseteq Users
  /\ Amounts \subseteq Nat \ {0}
  /\ MinDeposit \in Nat /\ MinWithdrawal \in Nat /\ MaxCustody \in Nat
  /\ DemoMode \in BOOLEAN /\ RedisEnabled \in BOOLEAN
  /\ Opening \in [Users -> Nat]
  /\ None \notin Users

VARIABLES
  balance, principal, rollover,  \* columns of the users table
  fees,       \* the FEE rows of the ledger, less those a refund reversed
  checkout,   \* per reference: the DEPOSIT row written at checkout
  seen,       \* per reference: notices with a webhook:seen marker in Redis
  paid,       \* references the user has paid at the provider (external)
  custody,    \* money the provider holds for the platform (external)
  payout,     \* per user: the withdrawal whose provider call is in flight
  credited,   \* history: payments that have been credited
  drift       \* history: what second credits, refunds and payouts without an
              \* answer have put users up by, against what the provider holds

userVars == <<balance, principal, rollover>>
historyVars == <<credited, drift>>
providerVars == <<checkout, seen, paid, payout, credited, drift>>
walletVars == <<balance, principal, rollover, fees,
                checkout, seen, paid, custody, payout, credited, drift>>

Notices == SuccessNotices \cup OtherNotices

Checkouts == [user : Users, amount : Nat]

(* balance and principal: the user row as the handler's session loaded it, *)
(* before its debit.                                                       *)
Payouts == [amount : Nat, own : Nat, fee : Nat, balance : Nat, principal : Nat]

ASSUME RowAssumption == None \notin Checkouts /\ None \notin Payouts

WalletTypeOK ==
  /\ balance \in [Users -> Nat]
  /\ principal \in [Users -> Nat]
  /\ rollover \in [Users -> Nat]
  /\ fees \in Nat
  /\ checkout \in [Refs -> Checkouts \cup {None}]
  /\ seen \in [Refs -> SUBSET Notices]
  /\ paid \subseteq Refs /\ credited \subseteq Refs
  /\ custody \in Int /\ drift \in Int
  /\ payout \in [Users -> Payouts \cup {None}]

WalletInit ==
  /\ balance = Opening
  /\ principal = Opening
  /\ rollover = [u \in Users |-> RolloverOn(Opening[u])]
  /\ fees = 0
  /\ checkout = [r \in Refs |-> None]
  /\ seen = [r \in Refs |-> {}]
  /\ paid = {}
  /\ custody = SumOver(Opening, Users)
  /\ payout = [u \in Users |-> None]
  /\ credited = {} /\ drift = 0

----------------------------------------------------------------------------
(* Deposits                                                                *)

(* What a confirmed deposit does to the user row, in both modes.           *)
CreditDeposit(u, a) ==
  /\ balance' = [balance EXCEPT ![u] = @ + a]
  /\ principal' = [principal EXCEPT ![u] = @ + a]
  /\ rollover' = [rollover EXCEPT ![u] = @ + RolloverOn(a)]

DemoDeposit(u, a) ==
  /\ DemoMode
  /\ a >= MinDeposit
  /\ custody + a <= MaxCustody
  /\ CreditDeposit(u, a)
  /\ custody' = custody + a
  /\ UNCHANGED <<fees, providerVars>>

(* The provider creates the checkout and the handler writes its pending    *)
(* row before the user learns where to pay, so both are one step.          *)
StartCheckout(u, r, a) ==
  /\ ~DemoMode
  /\ a >= MinDeposit
  /\ checkout[r] = None
  /\ custody + a <= MaxCustody
  /\ checkout' = [checkout EXCEPT ![r] = [user |-> u, amount |-> a]]
  /\ UNCHANGED <<userVars, fees, seen, paid, custody, payout, historyVars>>

(* External: the user pays at the provider.                                *)
PayCheckout(r) ==
  /\ checkout[r] # None
  /\ r \notin paid
  /\ paid' = paid \cup {r}
  /\ custody' = custody + checkout[r].amount
  /\ UNCHANGED <<userVars, fees, checkout, seen, payout, historyVars>>

(* A notice about the payment arrives, perhaps again.  The marker is set   *)
(* first; a notice with a marker is ignored, but without Redis there are   *)
(* none.                                                                   *)
FirstSeen(r, n) ==
  IF RedisEnabled THEN n \notin seen[r] /\ seen' = [seen EXCEPT ![r] = @ \cup {n}]
                  ELSE UNCHANGED seen

(* A week is over, or an exchange of log-in codes has named the marker.    *)
MarkerGone(r, n) ==
  /\ n \in seen[r]
  /\ seen' = [seen EXCEPT ![r] = @ \ {n}]
  /\ UNCHANGED <<userVars, fees, checkout, paid, custody, payout, historyVars>>

(* Only a notice that says "paid" credits the user, and each that passes   *)
(* does: nothing on the deposit's row says that it is settled.             *)
PayedWebhook(r, n) ==
  LET amount == checkout[r].amount
  IN  /\ checkout[r] # None
      /\ n \in SuccessNotices => r \in paid
      /\ FirstSeen(r, n)
      /\ IF n \in SuccessNotices
           THEN /\ CreditDeposit(checkout[r].user, amount)
                /\ credited' = credited \cup {r}
                /\ drift' = drift + IF r \in credited THEN amount ELSE 0
           ELSE UNCHANGED <<userVars, historyVars>>
      /\ UNCHANGED <<fees, checkout, paid, custody, payout>>

(* The handler dies, or its database step fails, after setting the marker. *)
PayedWebhookLost(r, n) ==
  /\ checkout[r] # None
  /\ n \in SuccessNotices => r \in paid
  /\ FirstSeen(r, n)
  /\ UNCHANGED <<userVars, fees, checkout, paid, custody, payout, historyVars>>

----------------------------------------------------------------------------
(* Withdrawals                                                             *)

MayWithdraw_Unwagered(u, a) ==
  /\ a >= MinWithdrawal
  /\ u \in Verified
  /\ balance[u] >= a
MayWithdraw(u, a) ==
  /\ a >= MinWithdrawal
  /\ u \in Verified
  /\ rollover[u] = 0
  /\ balance[u] >= a

(* _take: the payout leg and the fee leg together debit the whole amount,  *)
(* and the user's own part leaves the fee-free allowance.                  *)
Take(u, a) ==
  /\ balance' = [balance EXCEPT ![u] = @ - a]
  /\ principal' = [principal EXCEPT ![u] = @ - OwnPart(@, a)]
  /\ fees' = fees + FeeOn(principal[u], a)
  /\ UNCHANGED rollover

DemoWithdraw(u, a) ==
  /\ DemoMode
  /\ MayWithdraw(u, a)
  /\ Take(u, a)
  /\ custody' = custody - (a - FeeOn(principal[u], a))
  /\ UNCHANGED providerVars

(* Bound: a user has one withdrawal in flight at a time.                   *)
BeginWithdraw(u, a) ==
  /\ ~DemoMode
  /\ payout[u] = None
  /\ MayWithdraw(u, a)
  /\ Take(u, a)
  /\ payout' = [payout EXCEPT ![u] =
                  [amount |-> a, own |-> OwnPart(principal[u], a),
                   fee |-> FeeOn(principal[u], a),
                   balance |-> balance[u], principal |-> principal[u]]]
  /\ UNCHANGED <<checkout, seen, paid, custody, historyVars>>

(* The net amount of a withdrawal, on its way to the user.                 *)
Due(u) == IF payout[u] = None THEN 0 ELSE payout[u].amount - payout[u].fee

PayoutAccepted(u) ==
  /\ payout[u] # None
  /\ custody' = custody - Due(u)
  /\ payout' = [payout EXCEPT ![u] = None]
  /\ UNCHANGED <<userVars, fees, checkout, seen, paid, historyVars>>

Refunded_NetOnly(u) == payout[u].balance - payout[u].fee
Refunded(u) == payout[u].balance

(* What others have written to the balance since the withdrawal's debit.   *)
WrittenSince(u) ==
  IF payout[u] = None THEN 0 ELSE balance[u] - (payout[u].balance - payout[u].amount)

(* PayedError: the full amount and the allowance it used are added to the  *)
(* row the session has had since its debit.  lock_user's select does not   *)
(* refresh it, so both columns return to what they were before the debit,  *)
(* whatever other requests wrote since; the fee leg comes back too.  That  *)
(* the payout was not carried out is only supposed: the error is raised    *)
(* for an answer without an id, too, and for any status but 200 and 201.   *)
PayoutRefused_KeepFee(u) ==
  /\ payout[u] # None
  /\ balance' = [balance EXCEPT ![u] = Refunded(u)]
  /\ principal' = [principal EXCEPT ![u] =
                     IF payout[u].own = 0 THEN @ ELSE payout[u].principal]
  /\ payout' = [payout EXCEPT ![u] = None]
  /\ \E sent \in {0, Due(u)} :
       /\ custody' = custody - sent
       /\ drift' = (drift + sent) - WrittenSince(u)
  /\ UNCHANGED <<rollover, fees, checkout, seen, paid, credited>>
PayoutRefused(u) ==
  /\ payout[u] # None
  /\ balance' = [balance EXCEPT ![u] = Refunded(u)]
  /\ principal' = [principal EXCEPT ![u] =
                     IF payout[u].own = 0 THEN @ ELSE payout[u].principal]
  /\ fees' = fees - payout[u].fee
  /\ payout' = [payout EXCEPT ![u] = None]
  /\ \E sent \in {0, Due(u)} :
       /\ custody' = custody - sent
       /\ drift' = (drift + sent) - WrittenSince(u)
  /\ UNCHANGED <<rollover, checkout, seen, paid, credited>>

(* create_payout raises something other than PayedError (httpx times out), *)
(* or the process dies while it waits: nothing catches it and nothing is   *)
(* refunded.  The provider may or may not have carried the payout out.     *)
PayoutUnanswered(u) ==
  /\ payout[u] # None
  /\ \E sent \in {0, Due(u)} :
       /\ custody' = custody - sent
       /\ drift' = (drift + sent) - Due(u)
  /\ payout' = [payout EXCEPT ![u] = None]
  /\ UNCHANGED <<userVars, fees, checkout, seen, paid, credited>>

----------------------------------------------------------------------------
ProviderNext ==
  \/ \E u \in Users, a \in Amounts :
       \/ \E r \in Refs : StartCheckout(u, r, a)
       \/ BeginWithdraw(u, a)
  \/ \E r \in Refs :
       \/ PayCheckout(r)
       \/ \E n \in Notices :
            PayedWebhook(r, n) \/ PayedWebhookLost(r, n) \/ MarkerGone(r, n)
  \/ \E u \in Users : PayoutAccepted(u) \/ PayoutRefused(u) \/ PayoutUnanswered(u)

DemoNext == \E u \in Users, a \in Amounts : DemoDeposit(u, a) \/ DemoWithdraw(u, a)

WalletNext == ProviderNext \/ DemoNext

(* The wallet on its own needs matches to be played for money to move      *)
(* between users and for the rollover to burn: here, the net effect of a   *)
(* 1v1 table from opening to settlement.  Tables has the real thing, and   *)
(* demo mode, where no provider is involved.                               *)
PlayedMatch(winner, loser, a) ==
  /\ winner # loser
  /\ balance[winner] >= a /\ balance[loser] >= a
  /\ balance' = [balance EXCEPT ![winner] = @ + a - Rake(2 * a), ![loser] = @ - a]
  /\ rollover' = [u \in Users |-> IF u \in {winner, loser}
                                    THEN Burn(rollover[u], a) ELSE rollover[u]]
  /\ fees' = fees + Rake(2 * a)
  /\ UNCHANGED <<principal, providerVars, custody>>

WalletSpec ==
  /\ WalletInit
  /\ [][\/ ProviderNext
         \/ \E u, v \in Users, a \in Amounts : PlayedMatch(u, v, a)]_walletVars

----------------------------------------------------------------------------
(* What users have paid at the provider and nobody has credited yet.       *)
Priced(r) == IF checkout[r] = None THEN 0 ELSE checkout[r].amount
Uncredited == SumOver([r \in Refs |-> Priced(r)], paid \ credited)

(* To the cent, what users and the house may claim, with the payments that *)
(* are not credited yet, is what the provider holds: no deposit is         *)
(* credited before it is paid, no fee is kept of a payout that is given    *)
(* back, no cent is lost or made with all that runs in between.  It is off *)
(* by the drift alone, the account of what the handlers leave open:        *)
(* "webhooks are idempotent" per notice and while its marker lasts, and    *)
(* "if the payout call fails, we refund atomically" writes an old row back *)
(* for a payout that may have been sent.                                   *)
Claims == SumOver(balance, Users) + fees + SumOver([u \in Users |-> Due(u)], Users)
BooksBalance == Claims + Uncredited = custody + drift

=============================================================================
