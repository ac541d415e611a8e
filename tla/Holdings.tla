----------------------------- MODULE Holdings -----------------------------
(***************************************************************************)
(* What the platform promises about whose money is whose, with no party,   *)
(* pool, seat or payment provider in sight.  A user's holdings are all     *)
(* they own here: their balance, their share of a party's pool and the     *)
(* stakes they have on tables that are still undecided.                    *)
(*                                                                         *)
(* Only four things change anybody's holdings: a deposit, a withdrawal, a  *)
(* party leader's gift and the result of a match.  Everything else (going  *)
(* in and out of parties and pools, taking and leaving seats, cancelling a *)
(* table) moves a user's own money from one of their pockets to another    *)
(* and is a stutter here.  A deposit and a gift are owed in wagers, only a *)
(* result pays that debt off, and nothing is withdrawn while any is left.  *)
(***************************************************************************)
EXTENDS Money

CONSTANTS Users, TableIds

VARIABLES
  holdings,   \* what each user owns, in cents
  owed,       \* what each user has still to wager
  leaving,    \* what each user has asked to be paid out and is on its way
  since,      \* what bringing it back would undo; any step may change it
  stake       \* stake[t][u]: what u has at risk on the undecided table t

hvars == <<holdings, owed, leaving, stake>>

Deposit(u) ==
  \E a \in 1 .. holdings'[u] :
    /\ holdings' = [holdings EXCEPT ![u] = @ + a]
    /\ owed' = [owed EXCEPT ![u] = @ + RolloverOn(a)]
    /\ UNCHANGED <<leaving, stake>>

Withdraw(u) ==
  /\ owed[u] = 0
  /\ \E a \in 1 .. holdings[u] :
       /\ holdings' = [holdings EXCEPT ![u] = @ - a]
       /\ leaving' \in {leaving, [leaving EXCEPT ![u] = @ + a]}
  /\ UNCHANGED <<owed, stake>>

(* What is on its way arrives, or comes back if the provider refuses it:   *)
(* then the user's balance is again what it was when they asked for it.    *)
Arrive(u) ==
  /\ leaving' = [leaving EXCEPT ![u] = 0]
  /\ holdings' \in {holdings, [holdings EXCEPT ![u] = (@ + leaving[u]) - since[u]]}
  /\ UNCHANGED <<owed, stake>>

Gift(from, to) ==
  \E a \in 1 .. holdings[from] :
    /\ from # to
    /\ holdings' = [holdings EXCEPT ![from] = @ - a, ![to] = @ + a]
    /\ owed' = [owed EXCEPT ![to] = @ + a]
    /\ UNCHANGED <<leaving, stake>>

(* Stakes are put up and taken back freely while a table is open: no user  *)
(* is richer or poorer for it, nor has wagered anything.                   *)
Bet(t) ==
  /\ \A s \in TableIds \ {t} : stake'[s] = stake[s]
  /\ UNCHANGED <<holdings, owed, leaving>>

(* The table is decided: the winners share the pot less the rake in        *)
(* proportion to what they put up, the others lose their stake, and what   *)
(* each put up counts as wagered.                                          *)
Result(t) ==
  LET pot == SumOver(stake[t], Users)
  IN  /\ pot > 0
      /\ \E winners \in SUBSET {u \in Users : stake[t][u] > 0} :
           \E prize \in Allocations(pot - Rake(pot), [u \in winners |-> stake[t][u]]) :
             holdings' = [u \in Users |->
                            holdings[u] - stake[t][u] +
                              IF u \in winners THEN prize[u] ELSE 0]
      /\ owed' = [u \in Users |-> Burn(owed[u], stake[t][u])]
      /\ stake' = [stake EXCEPT ![t] = [u \in Users |-> 0]]
      /\ UNCHANGED leaving

HInit ==
  /\ holdings \in [Users -> Nat]
  /\ owed = [u \in Users |-> RolloverOn(holdings[u])]
  /\ leaving = [u \in Users |-> 0]
  /\ stake = [t \in TableIds |-> [u \in Users |-> 0]]

HNext ==
  \/ \E u \in Users : Deposit(u) \/ Withdraw(u) \/ Arrive(u)
  \/ \E from, to \in Users : Gift(from, to)
  \/ \E t \in TableIds : Bet(t) \/ Result(t)

HSpec == HInit /\ [][HNext]_hvars

=============================================================================
