------------------------------ MODULE Splits ------------------------------
(***************************************************************************)
(* Walks the arithmetic of Money over every bounded input.  A state is one *)
(* input: an amount `total` and a list of weights, which are the           *)
(* entitlements of a party, the contributions of a winning side or, in the *)
(* withdrawal properties, the fee-free allowances of separate users.       *)
(***************************************************************************)
EXTENDS Money

CONSTANTS MaxTotal, MaxWeight, MaxKeys

VARIABLES total, weight

vars == <<total, weight>>

Keys == DOMAIN weight

Init == total = 0 /\ weight = <<>>

AddCent == /\ total < MaxTotal
           /\ total' = total + 1
           /\ UNCHANGED weight

AddKey == /\ Cardinality(Keys) < MaxKeys
          /\ \E w \in 0 .. MaxWeight :
               weight' = [k \in 1 .. Cardinality(Keys) + 1 |->
                            IF k \in Keys THEN weight[k] ELSE w]
          /\ UNCHANGED total

Next == AddCent \/ AddKey

Spec == Init /\ [][Next]_vars

----------------------------------------------------------------------------
WeightSum == SumOver(weight, Keys)

(* party_service.allocate promises a split that is "exact to the cent" and *)
(* whose sum is the total, always.  It is also total: it gives an answer   *)
(* whenever some weight is positive.                                       *)
AllocateExact ==
  /\ WeightSum > 0 => Allocations(total, weight) # {}
  /\ \A share \in Allocations(total, weight) : SumOver(share, Keys) = total

(* No key pays more than it holds: when a pool that covers a buy-in pays   *)
(* for it, the cent handed to a largest remainder never drives an          *)
(* entitlement below zero (match_service._seat_party subtracts the share   *)
(* from it unchecked).                                                     *)
AllocateCovered ==
  total <= WeightSum =>
    \A share \in Allocations(total, weight), k \in Keys : share[k] <= weight[k]

(* The reference definition of largest remainder: no other way to place    *)
(* the odd cents is closer to proportional.  Moving a cent from one key to *)
(* another never reduces the squared distance to the exact shares, so a    *)
(* key that funded nothing is given nothing.                               *)
AllocateProportional ==
  \A share \in Allocations(total, weight), k, l \in Keys :
    LET error(key, s) == s * WeightSum - total * weight[key]
        cost(x, y) == error(k, x) * error(k, x) + error(l, y) * error(l, y)
    IN  /\ k # l /\ share[k] > 0 =>
             cost(share[k] - 1, share[l] + 1) >= cost(share[k], share[l])
        /\ weight[k] = 0 => share[k] = 0

(* Withdrawing in two parts costs what withdrawing at once costs, give or  *)
(* take the cent that rounding decides: the allowance that the first part  *)
(* used up is gone for the second (ledger.split_withdrawal and             *)
(* consume_principal), and what was not used is kept.                      *)
WithdrawInParts ==
  \A k \in Keys, part \in 0 .. total :
    LET principal == weight[k]
        rest      == principal - OwnPart(principal, part)
        fees      == FeeOn(principal, part) + FeeOn(rest, total - part)
    IN  fees - FeeOn(principal, total) \in -1 .. 1

(* Own money comes home free: a withdrawal pays out at least the part that *)
(* the user had deposited, and the payout and the fee are the whole debit  *)
(* with neither negative (wallet._take debits them one after the other).   *)
OwnMoneyIsFree ==
  \A k \in Keys : total - FeeOn(weight[k], total) >= Lesser(weight[k], total)

=============================================================================
