---------------------------- MODULE SplitsProofs ----------------------------
(***************************************************************************)
(* Theorems about Splits: what the arithmetic of Money promises holds for  *)
(* every amount and every list of weights, bounded or not.                 *)
(***************************************************************************)
EXTENDS Splits, MoneyProofs

(* An input: a whole number of cents, and finitely many weights.           *)
Input ==
  /\ total \in Nat
  /\ IsFiniteSet(Keys)
  /\ \A k \in Keys : weight[k] \in Nat

(* Every state is an input.                                                *)
LEMMA StatesAreInputs == Spec => []Input
<1>1. Init => Input
  <2>1. DOMAIN <<>> = {}
    OBVIOUS
  <2> QED BY <2>1, FS_EmptySet DEF Init, Input, Keys
<1>2. Input /\ [Next]_vars => Input'
  <2> SUFFICES ASSUME Input, [Next]_vars PROVE Input'
    OBVIOUS
  <2>1. CASE AddCent
    BY <2>1 DEF AddCent, Input, Keys
  <2>2. CASE AddKey
    <3>1. PICK w \in 0 .. MaxWeight :
            weight' = [k \in 1 .. Cardinality(Keys) + 1 |-> IF k \in Keys THEN weight[k] ELSE w]
      BY <2>2 DEF AddKey
    <3>2. w \in Nat /\ total' = total
      BY <2>2 DEF AddKey
    <3>3. Keys' = 1 .. Cardinality(Keys) + 1
      BY <3>1 DEF Keys
    <3>4. Cardinality(Keys) + 1 \in Nat
      BY FS_CardinalityType DEF Input
    <3>5. IsFiniteSet(Keys')
      BY <3>3, <3>4, FS_Interval
    <3> QED BY <3>1, <3>2, <3>3, <3>5 DEF Input
  <2>3. CASE UNCHANGED vars
    BY <2>3 DEF vars, Input, Keys
  <2> QED BY <2>1, <2>2, <2>3 DEF Next
<1> QED BY <1>1, <1>2, PTL DEF Spec

(* allocate() is "exact to the cent" and gives an answer whenever some     *)
(* weight is positive.                                                     *)
THEOREM SplitsAreExact == Spec => []AllocateExact
<1>1. Input => AllocateExact
  BY AllocationExists, AllocationGives DEF Input, AllocateExact, WeightSum, Keys
<1> QED BY <1>1, StatesAreInputs, PTL

(* No key pays more than it holds.                                         *)
THEOREM SplitsAreCovered == Spec => []AllocateCovered
<1>1. Input => AllocateCovered
  BY AllocationGives DEF Input, AllocateCovered, WeightSum, Keys
<1> QED BY <1>1, StatesAreInputs, PTL

(* No other way to place the odd cents is closer to proportional.          *)
THEOREM SplitsAreProportional == Spec => []AllocateProportional
<1>1. Input => AllocateProportional
  <2> SUFFICES ASSUME Input, NEW share \in Allocations(total, weight),
                      NEW k \in Keys, NEW l \in Keys
               PROVE  LET error(key, s) == s * WeightSum - total * weight[key]
                          cost(x, y) == error(k, x) * error(k, x) + error(l, y) * error(l, y)
                      IN  /\ k # l /\ share[k] > 0 =>
                               cost(share[k] - 1, share[l] + 1) >= cost(share[k], share[l])
                          /\ weight[k] = 0 => share[k] = 0
    BY DEF AllocateProportional
  <2> DEFINE error(key, s) == s * WeightSum - total * weight[key]
             W == WeightSum
  <2>1. /\ W \in Nat /\ W > 0
        /\ share[k] \in Nat /\ share[l] \in Nat
        /\ weight[k] = 0 => share[k] = 0
    <3>1. WeightSum \in Nat
      BY SumNat DEF Input, WeightSum, Keys
    <3> QED BY <3>1, AllocationGives DEF Input, WeightSum, Keys
  <2>2. /\ error(k, share[k]) \in Int /\ error(l, share[l]) \in Int
        /\ error(k, share[k]) - error(l, share[l]) <= W
    BY AllocationErrors DEF Input, WeightSum, Keys
  <2>3. /\ error(k, share[k] - 1) = error(k, share[k]) - W
        /\ error(l, share[l] + 1) = error(l, share[l]) + W
    <3>1. /\ (share[k] - 1) * W = share[k] * W - W
          /\ (share[l] + 1) * W = share[l] * W + W
      BY <2>1
    <3>2. share[k] * W \in Int /\ share[l] * W \in Int
      BY <2>1
    <3>3. total * weight[k] \in Int /\ total * weight[l] \in Int
      BY DEF Input
    <3> QED BY <2>1, <3>1, <3>2, <3>3
  <2>4. \A e, d, s \in Int : s > 0 /\ e - d <= s =>
          (e - s) * (e - s) + (d + s) * (d + s) >= e * e + d * d
    <3> TAKE e, d, s \in Int
    <3> HAVE s > 0 /\ e - d <= s
    <3>1. (e - s) * (e - s) = e * e - 2 * (s * e) + s * s
      OBVIOUS
    <3>2. (d + s) * (d + s) = d * d + 2 * (s * d) + s * s
      OBVIOUS
    <3>3. s * (s - (e - d)) >= 0 /\ s * (s - (e - d)) = s * s - s * e + s * d
      OBVIOUS
    <3> QED BY <3>1, <3>2, <3>3
  <2> HIDE DEF error, W
  <2>5. error(k, share[k] - 1) * error(k, share[k] - 1) + error(l, share[l] + 1) * error(l, share[l] + 1)
          >= error(k, share[k]) * error(k, share[k]) + error(l, share[l]) * error(l, share[l])
    BY <2>1, <2>2, <2>3, <2>4
  <2> QED BY <2>1, <2>5 DEF error
<1> QED BY <1>1, StatesAreInputs, PTL

(* Withdrawing in two parts costs what withdrawing at once does, give or   *)
(* take a cent.                                                            *)
THEOREM PartsCostTheWhole == Spec => []WithdrawInParts
<1>1. Input => WithdrawInParts
  <2> SUFFICES ASSUME Input, NEW k \in Keys, NEW part \in 0 .. total
               PROVE  (FeeOn(weight[k], part)
                         + FeeOn(weight[k] - OwnPart(weight[k], part), total - part))
                        - FeeOn(weight[k], total) \in -1 .. 1
    BY DEF WithdrawInParts
  <2> DEFINE own == weight[k]
             kept == own - OwnPart(own, part)
             x == part - OwnPart(own, part)
             y == (total - part) - OwnPart(kept, total - part)
  <2>1. own \in Nat /\ total \in Nat /\ part \in Nat /\ part <= total
    BY DEF Input
  <2>2. x \in Nat /\ y \in Nat /\ x + y = total - OwnPart(own, total)
    BY <2>1 DEF OwnPart, Lesser
  <2>3. (Fee(x) + Fee(y)) - Fee(x + y) \in -1 .. 1
    <3> HIDE DEF x, y
    <3> QED BY <2>2, FeesAdd
  <2>4. /\ FeeOn(own, part) = Fee(x) /\ FeeOn(kept, total - part) = Fee(y)
        /\ FeeOn(own, total) = Fee(x + y)
    BY <2>2 DEF FeeOn
  <2> HIDE DEF x, y
  <2>5. (FeeOn(own, part) + FeeOn(kept, total - part)) - FeeOn(own, total) \in -1 .. 1
    BY <2>3, <2>4
  <2> QED BY <2>5
<1> QED BY <1>1, StatesAreInputs, PTL

(* A withdrawal pays out at least the part that the user had deposited.    *)
THEOREM OwnMoneyComesHome == Spec => []OwnMoneyIsFree
<1>1. Input => OwnMoneyIsFree
  <2> SUFFICES ASSUME Input, NEW k \in Keys
               PROVE  total - FeeOn(weight[k], total) >= Lesser(weight[k], total)
    BY DEF OwnMoneyIsFree
  <2>1. total \in Nat /\ weight[k] \in Nat
    BY DEF Input
  <2>2. /\ OwnPart(weight[k], total) \in 0 .. total
        /\ FeeOn(weight[k], total) \in 0 .. total - OwnPart(weight[k], total)
    BY <2>1, FeeBounds
  <2> QED BY <2>1, <2>2 DEF OwnPart
<1> QED BY <1>1, StatesAreInputs, PTL

=============================================================================
