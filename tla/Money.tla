------------------------------- MODULE Money -------------------------------
(***************************************************************************)
(* The arithmetic every other module moves money with.  The code keeps     *)
(* amounts as Decimals that are quantized to two places at each step; here *)
(* an amount is a whole number of cents.                                   *)
(*                                                                         *)
(* Operators whose name ends in a tag after an underscore are the          *)
(* plausible bugs that the properties are tried against.                   *)
(***************************************************************************)
EXTENDS Integers, FiniteSets, Functions

CONSTANTS
  RakePercent,         \* settings.rake_percent: the house cut of a pot
  FeePercent,          \* settings.withdrawal_fee_percent: the cut of a profit
  RolloverMultiplier   \* settings.rollover_multiplier

ASSUME PercentAssumption == /\ RakePercent \in 0 .. 100
                            /\ FeePercent \in 0 .. 100
                            /\ RolloverMultiplier \in Nat \ {0}

Lesser(a, b) == IF a <= b THEN a ELSE b

(* ledger.quantize of the fraction n/d of a cent, for n >= 0 *)
HalfUp(n, d) == (2 * n + d) \div (2 * d)

Percentage(percent, amount) == HalfUp(percent * amount, 100)

Rake(pot) == Percentage(RakePercent, pot)
Fee(profit) == Percentage(FeePercent, profit)

----------------------------------------------------------------------------
(* Withdrawals: the user's own deposits come back free of charge, only the *)
(* rest is profit and pays the fee.                                        *)

OwnPart_AllOrNothing(principal, amount) ==
  IF amount <= principal THEN amount ELSE 0
OwnPart(principal, amount) == Lesser(principal, amount)

FeeOn_Whole(principal, amount) == Fee(amount)
FeeOn(principal, amount) == Fee(amount - OwnPart(principal, amount))

(* burn_rollover never takes the requirement below zero *)
Burn(rollover, stake) == rollover - Lesser(rollover, stake)

RolloverOn(amount) == RolloverMultiplier * amount

----------------------------------------------------------------------------
(* allocate(total, weights): floor every exact share, then give one cent   *)
(* more to the keys with the largest remainders.  Keys with equal          *)
(* remainders are served in list order; which of them is first is data of  *)
(* no interest to the callers, so any choice is an outcome.                *)

SumOver(f, S) == SumFunctionOnSet(f, S)

FloorShare(total, weight, sum) == (total * weight) \div sum
Remainder(total, weight, sum) == (total * weight) % sum

Bonuses_Smallest(rem, leftover) ==
  {B \in SUBSET DOMAIN rem : /\ Cardinality(B) = leftover
                             /\ \A x \in B, y \in DOMAIN rem \ B : rem[x] <= rem[y]}
Bonuses_None(rem, leftover) == {{}}
Bonuses(rem, leftover) ==
  {B \in SUBSET DOMAIN rem : /\ Cardinality(B) = leftover
                             /\ \A x \in B, y \in DOMAIN rem \ B : rem[x] >= rem[y]}

(* All outcomes of allocate over the keys DOMAIN weight.  There is none    *)
(* when the weights are all zero: the code raises PartyError.              *)
Allocations(total, weight) ==
  LET keys  == DOMAIN weight
      sum   == SumOver(weight, keys)
      floor == [k \in keys |-> FloorShare(total, weight[k], sum)]
      rem   == [k \in keys |-> Remainder(total, weight[k], sum)]
  IN  IF sum <= 0 THEN {}
      ELSE {[k \in keys |-> IF k \in B THEN floor[k] + 1 ELSE floor[k]] :
              B \in Bonuses(rem, total - SumOver(floor, keys))}

=============================================================================
