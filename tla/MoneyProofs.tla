---------------------------- MODULE MoneyProofs ----------------------------
(***************************************************************************)
(* Lemmas about Money, for every amount and every finite set: what a sum   *)
(* over a set is, and what allocate() gives.  A sum is defined by choosing *)
(* one element after the other; that the order is of no importance, and    *)
(* everything that follows from it, is shown by taking a subset that is    *)
(* minimal among those of which it would be false.                         *)
(***************************************************************************)
EXTENDS Money, FiniteSetTheorems, WellFoundedInduction, TLAPS

(* A nonempty set of subsets of a finite set has one that is minimal.      *)
LEMMA MinimalSubset ==
  ASSUME NEW S, IsFiniteSet(S), NEW W, W \subseteq SUBSET S, W # {}
  PROVE  \E T \in W : \A U \in W : U \subseteq T => U = T
<1>1. IsWellFoundedOn(StrictSubsetOrdering(S), SUBSET S)
  BY FS_StrictSubsetOrderingWellFounded, FS_FiniteSubsetsOfFinite
<1>2. \E T \in W : \A U \in W : ~(<<U, T>> \in StrictSubsetOrdering(S))
  BY <1>1, WFMin
<1>3. \A T, U \in SUBSET S : U \subseteq T /\ U # T => <<U, T>> \in StrictSubsetOrdering(S)
  BY DEF StrictSubsetOrdering
<1> QED BY <1>2, <1>3

(* The function that the sum is defined by: what a table of the sums of    *)
(* all subsets of S says of itself, and the table that the sum chooses.    *)
First(T) == CHOOSE x \in T : TRUE
Entry(f, g, T) == IF T = {} THEN 0 ELSE f[First(T)] + g[T \ {First(T)}]
IsSums(f, S, g) == g = [T \in SUBSET S |-> Entry(f, g, T)]
Sums(f, S) == CHOOSE g : IsSums(f, S, g)

(* A sum is the last entry of the table of its set.                        *)
LEMMA SumIsEntry == ASSUME NEW f, NEW S PROVE SumOver(f, S) = Sums(f, S)[S]
BY DEF SumOver, SumFunctionOnSet, FoldFunctionOnSet, MapThenFoldSet, Sums, IsSums, Entry, First

(* A set that is not empty has a first element.                            *)
LEMMA FirstIn == \A T : T # {} => First(T) \in T
BY DEF First

(* Two such tables agree wherever both have an entry.                      *)
LEMMA SumsAgree ==
  ASSUME NEW f, NEW S, NEW g, NEW R, NEW h, IsFiniteSet(S), R \subseteq S,
         IsSums(f, S, g), IsSums(f, R, h)
  PROVE  \A T \in SUBSET R : g[T] = h[T]
<1> DEFINE W == {T \in SUBSET R : g[T] # h[T]}
<1>1. SUFFICES ASSUME W # {} PROVE FALSE
  OBVIOUS
<1>2. PICK T \in W : \A U \in W : U \subseteq T => U = T
  <2> HIDE DEF W
  <2>1. IsFiniteSet(R) 
    BY FS_Subset
  <2>2. W \subseteq SUBSET R
    BY DEF W
  <2> QED BY <1>1, <2>1, <2>2, MinimalSubset
<1>3. g[T] = Entry(f, g, T) /\ h[T] = Entry(f, h, T)
  BY DEF IsSums
<1>4. T # {} /\ First(T) \in T
  BY <1>3, FirstIn DEF Entry
<1>5. T \ {First(T)} \notin W
  BY <1>2, <1>4
<1>6. g[T \ {First(T)}] = h[T \ {First(T)}]
  BY <1>5
<1> QED BY <1>3, <1>6 DEF Entry

(* There is one for every finite set.                                      *)
LEMMA SumsExist ==
  ASSUME NEW f, NEW S, IsFiniteSet(S)
  PROVE  IsSums(f, S, Sums(f, S))
<1> DEFINE W == {T \in SUBSET S : ~IsSums(f, T, Sums(f, T))}
<1>1. SUFFICES ASSUME W # {} PROVE FALSE
  OBVIOUS
<1>2. PICK T \in W : \A U \in W : U \subseteq T => U = T
  <2> HIDE DEF W
  <2>2. W \subseteq SUBSET S
    BY DEF W
  <2> QED BY <1>1, <2>2, MinimalSubset
<1> DEFINE Val(U) == Sums(f, U)[U]
           G == [U \in SUBSET T |-> IF U = {} THEN 0 ELSE f[First(U)] + Val(U \ {First(U)})]
<1>3. \A U \in SUBSET T : U # T => IsSums(f, U, Sums(f, U)) /\ IsFiniteSet(U)
  BY <1>2, FS_Subset
<1>4. ASSUME NEW U \in SUBSET T, U # {}
      PROVE  G[U \ {First(U)}] = Val(U \ {First(U)})
  <2> DEFINE R == U \ {First(U)}
             Q == R \ {First(R)}
  <2>1. R \in SUBSET T /\ R # T /\ Q \in SUBSET T /\ Q # T
    BY <1>4, FirstIn
  <2>2. IsSums(f, R, Sums(f, R)) /\ IsFiniteSet(R) /\ IsSums(f, Q, Sums(f, Q))
    BY <1>3, <2>1
  <2>3. Val(R) = Entry(f, Sums(f, R), R)
    BY <2>2 DEF IsSums
  <2>4. Sums(f, R)[Q] = Val(Q)
    BY <2>2, SumsAgree
  <2> HIDE DEF Val, R, Q
  <2>5. Entry(f, Sums(f, R), R) = IF R = {} THEN 0 ELSE f[First(R)] + Val(R \ {First(R)})
    BY <2>4 DEF Entry, Q
  <2>6. G[R] = Val(R)
    BY <2>1, <2>3, <2>5
  <2> QED BY <2>6 DEF R
<1>5. IsSums(f, T, G)
  <2>1. ASSUME NEW U \in SUBSET T PROVE G[U] = Entry(f, G, U)
    <3> HIDE DEF Val
    <3>1. CASE U = {}
      BY <3>1 DEF Entry
    <3>2. CASE U # {}
      <4>1. G[U] = f[First(U)] + Val(U \ {First(U)})
        BY <3>2
      <4> HIDE DEF G
      <4> QED BY <3>2, <4>1, <1>4 DEF Entry
    <3> QED BY <3>1, <3>2
  <2> DEFINE E == [U \in SUBSET T |-> Entry(f, G, U)]
  <2>2. DOMAIN G = SUBSET T /\ DOMAIN E = SUBSET T /\ G = [U \in DOMAIN G |-> G[U]]
    OBVIOUS
  <2>3. \A U \in SUBSET T : E[U] = Entry(f, G, U)
    OBVIOUS
  <2> HIDE DEF G
  <2>4. G = E 
    BY <2>1, <2>2
  <2> QED BY <2>4 DEF IsSums
<1>6. IsSums(f, T, Sums(f, T))
  <2> HIDE DEF G
  <2> QED BY <1>5 DEF Sums
<1> QED BY <1>6, <1>2

(* A sum, unfolded once.                                                   *)
LEMMA SumUnfolds ==
  ASSUME NEW f, NEW S, IsFiniteSet(S)
  PROVE  SumOver(f, S) = IF S = {} THEN 0
                         ELSE f[First(S)] + SumOver(f, S \ {First(S)})
<1> DEFINE R == S \ {First(S)}
<1>1. IsFiniteSet(R) /\ R \subseteq S
  BY FS_Subset
<1>2. Sums(f, S)[S] = Entry(f, Sums(f, S), S)
  <2>1. IsSums(f, S, Sums(f, S))
    BY SumsExist
  <2> QED BY <2>1 DEF IsSums
<1>3. Sums(f, S)[R] = Sums(f, R)[R]
  BY <1>1, SumsExist, SumsAgree
<1> QED BY <1>2, <1>3, SumIsEntry DEF Entry

(* The sum of nothing.                                                     *)
LEMMA SumEmpty == ASSUME NEW f PROVE SumOver(f, {}) = 0
BY SumUnfolds, FS_EmptySet

(* A sum does not depend on the order: any element can be the first.       *)
LEMMA SumIntAndRemove ==
  ASSUME NEW f, NEW S, IsFiniteSet(S), \A x \in S : f[x] \in Int
  PROVE  /\ SumOver(f, S) \in Int
         /\ \A x \in S : SumOver(f, S) = f[x] + SumOver(f, S \ {x})
<1> DEFINE Good(T) == /\ SumOver(f, T) \in Int
                      /\ \A x \in T : SumOver(f, T) = f[x] + SumOver(f, T \ {x})
           W == {T \in SUBSET S : ~Good(T)}
<1>1. SUFFICES ASSUME W # {} PROVE FALSE
  OBVIOUS
<1>2. PICK T \in W : \A U \in W : U \subseteq T => U = T
  <2> HIDE DEF W
  <2>1. W \subseteq SUBSET S
    BY DEF W
  <2> QED BY <1>1, <2>1, MinimalSubset
<1>3. T # {}
  <2>1. Good({})
    BY SumEmpty
  <2> HIDE DEF Good
  <2> QED BY <2>1
<1> DEFINE c == First(T)
<1>4. c \in T /\ IsFiniteSet(T) /\ f[c] \in Int
  BY <1>3, FirstIn, FS_Subset
<1>5. \A U \in SUBSET T : U # T => Good(U)
  <2> HIDE DEF Good
  <2> QED BY <1>2
<1> HIDE DEF c
<1>6. SumOver(f, T) = f[c] + SumOver(f, T \ {c})
  BY <1>3, <1>4, SumUnfolds DEF c
<1>7. SumOver(f, T \ {c}) \in Int
  BY <1>4, <1>5
<1>8. ASSUME NEW x \in T PROVE SumOver(f, T) = f[x] + SumOver(f, T \ {x})
  <2>1. CASE x = c
    BY <2>1, <1>6
  <2>2. CASE x # c
    <3> DEFINE R == (T \ {c}) \ {x}
    <3>1. R = (T \ {x}) \ {c} /\ R \in SUBSET T /\ R # T /\ x \in T \ {c} /\ c \in T \ {x}
      BY <2>2, <1>4
    <3>2. SumOver(f, T \ {c}) = f[x] + SumOver(f, R)
      BY <1>4, <1>5, <3>1
    <3>3. SumOver(f, T \ {x}) = f[c] + SumOver(f, R)
      BY <1>5, <3>1
    <3>4. SumOver(f, R) \in Int /\ f[x] \in Int /\ f[c] \in Int
      BY <1>4, <1>5, <3>1
    <3> QED BY <1>6, <3>2, <3>3, <3>4
  <2> QED BY <2>1, <2>2
<1>9. Good(T)
  BY <1>4, <1>6, <1>7, <1>8
<1> QED BY <1>9, <1>2

(* A sum of integers is an integer.                                        *)
LEMMA SumInt ==
  ASSUME NEW f, NEW S, IsFiniteSet(S), \A x \in S : f[x] \in Int
  PROVE  SumOver(f, S) \in Int
BY SumIntAndRemove

(* Any element can be taken out of a sum.                                  *)
LEMMA SumRemove ==
  ASSUME NEW f, NEW S, IsFiniteSet(S), \A x \in S : f[x] \in Int, NEW x \in S
  PROVE  SumOver(f, S) = f[x] + SumOver(f, S \ {x})
BY SumIntAndRemove

(* The sum of one value.                                                   *)
LEMMA SumSingle == ASSUME NEW f, NEW x, f[x] \in Int PROVE SumOver(f, {x}) = f[x]
<1>1. IsFiniteSet({x}) /\ {x} \ {x} = {}
  BY FS_Singleton
<1>2. SumOver(f, {x}) = f[x] + SumOver(f, {})
  BY <1>1, SumRemove
<1> QED BY <1>2, SumEmpty

(* Only the values that are summed matter.                                 *)
LEMMA SumSame ==
  ASSUME NEW f, NEW g, NEW S, IsFiniteSet(S), \A x \in S : f[x] = g[x]
  PROVE  SumOver(f, S) = SumOver(g, S)
<1> DEFINE W == {T \in SUBSET S : SumOver(f, T) # SumOver(g, T)}
<1>1. SUFFICES ASSUME W # {} PROVE FALSE
  OBVIOUS
<1>2. PICK T \in W : \A U \in W : U \subseteq T => U = T
  <2> HIDE DEF W
  <2>1. W \subseteq SUBSET S
    BY DEF W
  <2> QED BY <1>1, <2>1, MinimalSubset
<1>3. T # {} /\ IsFiniteSet(T)
  BY SumEmpty, FS_Subset
<1>4. First(T) \in T
  BY <1>3, FirstIn
<1>5. SumOver(f, T \ {First(T)}) = SumOver(g, T \ {First(T)})
  BY <1>2, <1>4
<1>6. /\ SumOver(f, T) = f[First(T)] + SumOver(f, T \ {First(T)})
      /\ SumOver(g, T) = g[First(T)] + SumOver(g, T \ {First(T)})
  BY <1>3, SumUnfolds
<1> QED BY <1>2, <1>4, <1>5, <1>6

(* Sums of sums and of multiples.                                          *)
LEMMA SumLinear ==
  ASSUME NEW f, NEW g, NEW h, NEW k \in Int, NEW S, IsFiniteSet(S),
         \A x \in S : f[x] \in Int /\ g[x] \in Int /\ h[x] = f[x] + k * g[x]
  PROVE  SumOver(h, S) = SumOver(f, S) + k * SumOver(g, S)
<1> DEFINE W == {T \in SUBSET S : SumOver(h, T) # SumOver(f, T) + k * SumOver(g, T)}
<1>1. SUFFICES ASSUME W # {} PROVE FALSE
  OBVIOUS
<1>2. PICK T \in W : \A U \in W : U \subseteq T => U = T
  <2> HIDE DEF W
  <2>1. W \subseteq SUBSET S
    BY DEF W
  <2> QED BY <1>1, <2>1, MinimalSubset
<1>3. T # {} /\ IsFiniteSet(T)
  <2>1. SumOver(h, {}) = SumOver(f, {}) + k * SumOver(g, {})
    BY SumEmpty
  <2>2. {} \notin W
    BY <2>1
  <2> QED BY <2>2, FS_Subset
<1> DEFINE c == First(T)
           R == T \ {c}
<1>4. c \in T /\ R \subseteq T /\ R # T
  BY <1>3, FirstIn
<1>5. IsFiniteSet(R)
  BY <1>3, <1>4, FS_Subset
<1> HIDE DEF c
<1>6. SumOver(h, R) = SumOver(f, R) + k * SumOver(g, R)
  BY <1>2, <1>4
<1>7. /\ SumOver(f, T) = f[c] + SumOver(f, R)
      /\ SumOver(g, T) = g[c] + SumOver(g, R)
      /\ SumOver(h, T) = h[c] + SumOver(h, R)
  BY <1>3, SumUnfolds DEF c
<1>8. SumOver(f, R) \in Int /\ SumOver(g, R) \in Int /\ f[c] \in Int /\ g[c] \in Int
  BY <1>4, <1>5, SumInt
<1>9. k * (g[c] + SumOver(g, R)) = k * g[c] + k * SumOver(g, R)
  BY <1>8
<1>10. h[c] = f[c] + k * g[c]
  BY <1>4
<1>11. k * g[c] \in Int /\ k * SumOver(g, R) \in Int
  BY <1>8
<1>12. SumOver(h, T) = SumOver(f, T) + k * SumOver(g, T)
  <2> HIDE DEF R
  <2> QED BY <1>6, <1>7, <1>8, <1>9, <1>10, <1>11
<1> QED BY <1>2, <1>12

(* A sum is the sum of two parts.                                          *)
LEMMA SumSplit ==
  ASSUME NEW f, NEW S, IsFiniteSet(S), \A x \in S : f[x] \in Int, NEW R
  PROVE  SumOver(f, S) = SumOver(f, S \cap R) + SumOver(f, S \ R)
<1> DEFINE Good(T) == SumOver(f, T) = SumOver(f, T \cap R) + SumOver(f, T \ R)
           W == {T \in SUBSET S : ~Good(T)}
<1>1. SUFFICES ASSUME W # {} PROVE FALSE
  OBVIOUS
<1>2. PICK T \in W : \A U \in W : U \subseteq T => U = T
  <2> HIDE DEF W
  <2>1. W \subseteq SUBSET S
    BY DEF W
  <2> QED BY <1>1, <2>1, MinimalSubset
<1>3. T # {}
  <2>1. {} \cap R = {} /\ {} \ R = {}
    OBVIOUS
  <2>2. Good({})
    BY <2>1, SumEmpty
  <2> HIDE DEF Good
  <2> QED BY <2>2
<1>4. PICK c \in T : TRUE
  BY <1>3
<1> DEFINE U == T \ {c}
<1>5. IsFiniteSet(T) /\ IsFiniteSet(U) /\ T \in SUBSET S /\ U \in SUBSET S
  BY FS_Subset
<1>6. /\ IsFiniteSet(T \cap R) /\ IsFiniteSet(T \ R)
      /\ IsFiniteSet(U \cap R) /\ IsFiniteSet(U \ R)
  BY <1>5, FS_Intersection, FS_Difference
<1>7. Good(U)
  <2> HIDE DEF Good
  <2> QED BY <1>2, <1>4, <1>5
<1>8. SumOver(f, T) = f[c] + SumOver(f, U)
  BY <1>5, SumRemove
<1>9. /\ f[c] \in Int /\ SumOver(f, U \cap R) \in Int /\ SumOver(f, U \ R) \in Int
  BY <1>5, <1>6, SumInt
<1>10. ASSUME c \in R PROVE Good(T)
  <2>1. T \ R = U \ R /\ (T \cap R) \ {c} = U \cap R /\ c \in T \cap R
    BY <1>10
  <2>2. SumOver(f, T \cap R) = f[c] + SumOver(f, (T \cap R) \ {c})
    BY <1>5, <1>6, <2>1, SumRemove
  <2>3. /\ SumOver(f, T \cap R) = f[c] + SumOver(f, U \cap R)
        /\ SumOver(f, T \ R) = SumOver(f, U \ R)
    BY <2>1, <2>2
  <2> HIDE DEF U, W
  <2> QED BY <1>7, <1>8, <1>9, <2>3
<1>11. ASSUME c \notin R PROVE Good(T)
  <2>1. T \cap R = U \cap R /\ (T \ R) \ {c} = U \ R /\ c \in T \ R
    BY <1>11
  <2>2. SumOver(f, T \ R) = f[c] + SumOver(f, (T \ R) \ {c})
    BY <1>5, <1>6, <2>1, SumRemove
  <2>3. /\ SumOver(f, T \ R) = f[c] + SumOver(f, U \ R)
        /\ SumOver(f, T \cap R) = SumOver(f, U \cap R)
    BY <2>1, <2>2
  <2> HIDE DEF U, W
  <2> QED BY <1>7, <1>8, <1>9, <2>3
<1> QED BY <1>2, <1>10, <1>11

(* Comparing sums: one value at a time makes it smaller or larger.         *)
LEMMA SumMonotone ==
  ASSUME NEW f, NEW g, NEW S, IsFiniteSet(S),
         \A x \in S : f[x] \in Int /\ g[x] \in Int /\ f[x] <= g[x]
  PROVE  SumOver(f, S) <= SumOver(g, S)
<1> DEFINE W == {T \in SUBSET S : ~(SumOver(f, T) <= SumOver(g, T))}
<1>1. SUFFICES ASSUME W # {} PROVE FALSE
  OBVIOUS
<1>2. PICK T \in W : \A U \in W : U \subseteq T => U = T
  <2> HIDE DEF W
  <2>1. W \subseteq SUBSET S
    BY DEF W
  <2> QED BY <1>1, <2>1, MinimalSubset
<1>3. T # {}
  <2>1. SumOver(f, {}) <= SumOver(g, {})
    BY SumEmpty
  <2> QED BY <2>1
<1>4. PICK c \in T : TRUE
  BY <1>3
<1> DEFINE U == T \ {c}
<1>5. IsFiniteSet(T) /\ IsFiniteSet(U) /\ T \in SUBSET S /\ U \in SUBSET S
  BY FS_Subset
<1>6. SumOver(f, U) <= SumOver(g, U)
  BY <1>2, <1>4, <1>5
<1>7. /\ SumOver(f, T) = f[c] + SumOver(f, U)
      /\ SumOver(g, T) = g[c] + SumOver(g, U)
  BY <1>5, SumRemove
<1>8. /\ SumOver(f, U) \in Int /\ SumOver(g, U) \in Int
      /\ f[c] \in Int /\ g[c] \in Int /\ f[c] <= g[c]
  BY <1>5, SumInt
<1>9. SumOver(f, T) <= SumOver(g, T)
  <2> HIDE DEF U
  <2> QED BY <1>6, <1>7, <1>8
<1> QED BY <1>2, <1>9

(* The sum of zeros.                                                       *)
LEMMA SumZero ==
  ASSUME NEW f, NEW S, IsFiniteSet(S), \A x \in S : f[x] = 0
  PROVE  SumOver(f, S) = 0
<1> DEFINE W == {T \in SUBSET S : SumOver(f, T) # 0}
<1>1. SUFFICES ASSUME W # {} PROVE FALSE
  OBVIOUS
<1>2. PICK T \in W : \A U \in W : U \subseteq T => U = T
  <2> HIDE DEF W
  <2>1. W \subseteq SUBSET S
    BY DEF W
  <2> QED BY <1>1, <2>1, MinimalSubset
<1>3. T # {}
  BY SumEmpty
<1>4. PICK c \in T : TRUE
  BY <1>3
<1>5. IsFiniteSet(T) /\ T \ {c} \in SUBSET S
  BY FS_Subset
<1>6. SumOver(f, T \ {c}) = 0
  BY <1>2, <1>4, <1>5
<1>7. SumOver(f, T) = f[c] + SumOver(f, T \ {c})
  BY <1>5, SumRemove
<1> QED BY <1>2, <1>4, <1>6, <1>7

(* A sum of natural numbers is a natural number.                           *)
LEMMA SumNat ==
  ASSUME NEW f, NEW S, IsFiniteSet(S), \A x \in S : f[x] \in Nat
  PROVE  SumOver(f, S) \in Nat
<1> DEFINE z == [x \in S |-> 0]
<1>1. SumOver(z, S) = 0
  BY SumZero
<1>2. \A x \in S : z[x] \in Int /\ f[x] \in Int /\ z[x] <= f[x]
  OBVIOUS
<1> HIDE DEF z
<1>3. SumOver(z, S) <= SumOver(f, S) /\ SumOver(f, S) \in Int
  BY <1>2, SumMonotone, SumInt
<1> QED BY <1>1, <1>3

(* The same value for every element makes a multiple.                      *)
LEMMA SumConst ==
  ASSUME NEW f, NEW k \in Int, NEW S, IsFiniteSet(S), \A x \in S : f[x] = k
  PROVE  SumOver(f, S) = k * Cardinality(S)
<1> DEFINE W == {T \in SUBSET S : SumOver(f, T) # k * Cardinality(T)}
<1>1. SUFFICES ASSUME W # {} PROVE FALSE
  OBVIOUS
<1>2. PICK T \in W : \A U \in W : U \subseteq T => U = T
  <2> HIDE DEF W
  <2>1. W \subseteq SUBSET S
    BY DEF W
  <2> QED BY <1>1, <2>1, MinimalSubset
<1>3. T # {}
  <2>1. SumOver(f, {}) = 0 /\ Cardinality({}) = 0
    BY SumEmpty, FS_EmptySet
  <2>2. {} \notin W
    BY <2>1
  <2> QED BY <2>2
<1>4. PICK c \in T : TRUE
  BY <1>3
<1> DEFINE U == T \ {c}
<1>5. IsFiniteSet(T) /\ IsFiniteSet(U) /\ T \in SUBSET S /\ U \in SUBSET S
  BY FS_Subset
<1>6. SumOver(f, U) = k * Cardinality(U)
  BY <1>2, <1>4, <1>5
<1>7. SumOver(f, T) = k + SumOver(f, U)
  BY <1>5, SumRemove
<1>8. /\ Cardinality(U) \in Nat /\ Cardinality(T) = Cardinality(U) + 1
  BY <1>5, FS_RemoveElement, FS_CardinalityType
<1>9. SumOver(f, T) = k * Cardinality(T)
  <2> HIDE DEF U
  <2> QED BY <1>6, <1>7, <1>8
<1> QED BY <1>2, <1>9

(* What adding an element does.                                            *)
LEMMA SumAdd ==
  ASSUME NEW f, NEW S, IsFiniteSet(S), NEW x, x \notin S,
         \A y \in S \cup {x} : f[y] \in Int
  PROVE  SumOver(f, S \cup {x}) = SumOver(f, S) + f[x]
<1>1. (S \cup {x}) \ {x} = S /\ IsFiniteSet(S \cup {x})
  BY FS_AddElement
<1>2. SumOver(f, S \cup {x}) = f[x] + SumOver(f, S)
  BY <1>1, SumRemove
<1> QED BY <1>2, SumInt

(* One value changes, and the sum by as much.                              *)
LEMMA SumUpdate ==
  ASSUME NEW f, NEW g, NEW S, IsFiniteSet(S), NEW x \in S,
         \A y \in S : f[y] \in Int /\ g[y] \in Int,
         \A y \in S \ {x} : g[y] = f[y]
  PROVE  SumOver(g, S) = SumOver(f, S) + g[x] - f[x]
<1> DEFINE R == S \ {x}
<1>1. IsFiniteSet(R) /\ R \subseteq S
  BY FS_Subset
<1>2. SumOver(f, S) = f[x] + SumOver(f, R) /\ SumOver(g, S) = g[x] + SumOver(g, R)
  BY SumRemove
<1>3. SumOver(f, R) = SumOver(g, R)
  BY <1>1, SumSame
<1>4. SumOver(f, R) \in Int
  BY <1>1, SumInt
<1> HIDE DEF R
<1> QED BY <1>2, <1>3, <1>4

(* The sum over two sets that have nothing in common.                      *)
LEMMA SumUnion ==
  ASSUME NEW f, NEW S, NEW T, IsFiniteSet(S), IsFiniteSet(T), S \cap T = {},
         \A x \in S \cup T : f[x] \in Int
  PROVE  SumOver(f, S \cup T) = SumOver(f, S) + SumOver(f, T)
<1>1. IsFiniteSet(S \cup T)
  BY FS_Union
<1>2. (S \cup T) \cap S = S /\ (S \cup T) \ S = T
  OBVIOUS
<1>3. SumOver(f, S \cup T) = SumOver(f, (S \cup T) \cap S) + SumOver(f, (S \cup T) \ S)
  BY <1>1, SumSplit
<1> QED BY <1>2, <1>3

(* The sum of two functions.                                               *)
LEMMA SumPlus ==
  ASSUME NEW f, NEW g, NEW h, NEW S, IsFiniteSet(S),
         \A x \in S : f[x] \in Int /\ g[x] \in Int /\ h[x] = f[x] + g[x]
  PROVE  SumOver(h, S) = SumOver(f, S) + SumOver(g, S)
<1>1. \A x \in S : f[x] \in Int /\ g[x] \in Int /\ h[x] = f[x] + 1 * g[x]
  OBVIOUS
<1>2. SumOver(h, S) = SumOver(f, S) + 1 * SumOver(g, S)
  BY <1>1, SumLinear
<1> QED BY <1>2, SumInt

(* The difference of two functions.                                        *)
LEMMA SumMinus ==
  ASSUME NEW f, NEW g, NEW h, NEW S, IsFiniteSet(S),
         \A x \in S : f[x] \in Int /\ g[x] \in Int /\ h[x] = f[x] - g[x]
  PROVE  SumOver(h, S) = SumOver(f, S) - SumOver(g, S)
<1>1. \A x \in S : h[x] \in Int /\ g[x] \in Int /\ f[x] = h[x] + g[x]
  OBVIOUS
<1>2. SumOver(f, S) = SumOver(h, S) + SumOver(g, S)
  BY <1>1, SumPlus
<1> QED BY <1>1, <1>2, SumInt

(* Values that are zero outside a part leave the sum over that part.       *)
LEMMA SumPart ==
  ASSUME NEW f, NEW h, NEW S, IsFiniteSet(S), NEW R, R \subseteq S,
         \A x \in R : f[x] \in Int /\ h[x] = f[x],
         \A x \in S \ R : h[x] = 0
  PROVE  SumOver(h, S) = SumOver(f, R)
<1>1. \A x \in S : h[x] \in Int
  OBVIOUS
<1>2. S \cap R = R /\ IsFiniteSet(R) /\ IsFiniteSet(S \ R)
  BY FS_Subset, FS_Difference
<1>3. SumOver(h, S) = SumOver(h, S \cap R) + SumOver(h, S \ R)
  <2>1. IsFiniteSet(S)
    OBVIOUS
  <2> QED BY ONLY <1>1, <2>1, SumSplit
<1>4. SumOver(h, S \ R) = 0 /\ SumOver(h, R) = SumOver(f, R) /\ SumOver(f, R) \in Int
  BY <1>2, SumZero, SumSame, SumInt
<1> QED BY <1>2, <1>3, <1>4

(* What is left of a sum when a part is taken out.                         *)
LEMMA SumRest ==
  ASSUME NEW f, NEW S, IsFiniteSet(S), \A x \in S : f[x] \in Int, NEW R, R \subseteq S
  PROVE  /\ SumOver(f, R) \in Int
         /\ SumOver(f, S \ R) = SumOver(f, S) - SumOver(f, R)
<1>1. S \cap R = R /\ IsFiniteSet(R) /\ IsFiniteSet(S \ R)
  BY FS_Subset, FS_Difference
<1>2. SumOver(f, S) = SumOver(f, S \cap R) + SumOver(f, S \ R)
  BY SumSplit
<1>3. SumOver(f, R) \in Int /\ SumOver(f, S \ R) \in Int
  BY <1>1, SumInt
<1>4. SumOver(f, S \cap R) = SumOver(f, R)
  BY <1>1
<1> QED BY <1>2, <1>3, <1>4

(* No natural number is larger than a sum it is part of.                   *)
LEMMA SumPartLeq ==
  ASSUME NEW f, NEW S, IsFiniteSet(S), \A x \in S : f[x] \in Nat, NEW R, R \subseteq S
  PROVE  SumOver(f, R) <= SumOver(f, S)
<1>1. S \cap R = R /\ IsFiniteSet(R) /\ IsFiniteSet(S \ R)
  BY FS_Subset, FS_Difference
<1>2. SumOver(f, S) = SumOver(f, R) + SumOver(f, S \ R)
  BY <1>1, SumSplit
<1>3. SumOver(f, R) \in Nat /\ SumOver(f, S \ R) \in Nat
  BY <1>1, SumNat
<1> QED BY <1>2, <1>3

(* Nor is any of the values larger than their sum.                         *)
LEMMA SumMember ==
  ASSUME NEW f, NEW S, IsFiniteSet(S), \A x \in S : f[x] \in Nat, NEW x \in S
  PROVE  f[x] <= SumOver(f, S)
<1>1. SumOver(f, {x}) = f[x]
  BY SumSingle
<1>2. SumOver(f, {x}) <= SumOver(f, S)
  BY SumPartLeq
<1> QED BY <1>1, <1>2

(* Each of P has a part of S and the sum over that part.                   *)
PartSums(f, m, part, S, P) ==
  /\ \A p \in P : part[p] \subseteq S /\ m[p] = SumOver(f, part[p])
  /\ \A p, q \in P : p # q => part[p] \cap part[q] = {}
  /\ \A x \in S : \E p \in P : x \in part[p]

(* Summing part by part is summing.                                        *)
LEMMA SumByPart ==
  ASSUME NEW f, NEW m, NEW part, NEW S, NEW P, IsFiniteSet(S), IsFiniteSet(P),
         \A x \in S : f[x] \in Int, PartSums(f, m, part, S, P)
  PROVE  SumOver(m, P) = SumOver(f, S)
<1> DEFINE In(Q) == {x \in S : \E q \in Q : x \in part[q]}
           Good(Q) == SumOver(m, Q) = SumOver(f, In(Q))
           W == {Q \in SUBSET P : ~Good(Q)}
<1>1. SUFFICES ASSUME W # {} PROVE FALSE
  <2>1. In(P) = S
    BY DEF PartSums
  <2> HIDE DEF Good
  <2>2. Good(P)
    OBVIOUS
  <2> HIDE DEF In
  <2> QED BY <2>1, <2>2 DEF Good
<1>2. PICK Q \in W : \A U \in W : U \subseteq Q => U = Q
  <2> HIDE DEF W
  <2>1. W \subseteq SUBSET P
    BY DEF W
  <2> QED BY <1>1, <2>1, MinimalSubset
<1>3. Q # {}
  <2>1. In({}) = {}
    OBVIOUS
  <2>2. Good({})
    BY <2>1, SumEmpty
  <2> HIDE DEF Good
  <2> QED BY <2>2
<1>4. PICK c \in Q : TRUE
  BY <1>3
<1> DEFINE U == Q \ {c}
           C == part[c]
<1>0. C \subseteq S /\ m[c] = SumOver(f, C)
  BY <1>4 DEF PartSums
<1>5. /\ IsFiniteSet(Q) /\ IsFiniteSet(U) /\ Q \in SUBSET P /\ U \in SUBSET P
      /\ IsFiniteSet(In(U)) /\ IsFiniteSet(C)
  BY <1>0, FS_Subset
<1>6. Good(U)
  <2> HIDE DEF Good
  <2> QED BY <1>2, <1>4, <1>5
<1>7. In(Q) = C \cup In(U) /\ C \cap In(U) = {}
  BY <1>0, <1>4 DEF PartSums
<1>8. \A p \in P : m[p] \in Int
  <2> SUFFICES ASSUME NEW p \in P PROVE SumOver(f, part[p]) \in Int
    BY DEF PartSums
  <2> DEFINE D == part[p]
  <2>1. IsFiniteSet(D) /\ \A x \in D : f[x] \in Int
    BY FS_Subset DEF PartSums
  <2> HIDE DEF D
  <2>2. SumOver(f, D) \in Int
    BY <2>1, SumInt
  <2> QED BY <2>2 DEF D
<1>9. SumOver(m, Q) = SumOver(f, C) + SumOver(m, U)
  <2>1. \A p \in Q : m[p] \in Int
    BY <1>8
  <2>2. SumOver(m, Q) = m[c] + SumOver(m, U)
    BY <1>4, <1>5, <2>1, SumRemove
  <2> HIDE DEF C, U
  <2> QED BY <1>0, <2>2
<1>10. SumOver(f, In(Q)) = SumOver(f, C) + SumOver(f, In(U))
  <2> DEFINE V == In(U)
  <2>1. \A x \in C \cup V : f[x] \in Int
    BY <1>0
  <2>2. IsFiniteSet(C) /\ IsFiniteSet(V) /\ C \cap V = {}
    BY <1>5, <1>7
  <2> HIDE DEF C, V
  <2>3. SumOver(f, C \cup V) = SumOver(f, C) + SumOver(f, V)
    BY <2>1, <2>2, SumUnion
  <2> QED BY <1>7, <2>3 DEF V
<1>11. Good(Q)
  <2> HIDE DEF U, C, In
  <2> QED BY <1>6, <1>9, <1>10
<1> QED BY <1>2, <1>11

----------------------------------------------------------------------------
(* Percentages and withdrawals                                             *)

(* Quotient and remainder.                                                 *)
LEMMA DivMod ==
  ASSUME NEW a \in Nat, NEW b \in Nat \ {0}
  PROVE  /\ a \div b \in Nat
         /\ a % b \in 0 .. b - 1
         /\ a = b * (a \div b) + (a % b)
OBVIOUS

(* A percentage of an amount, rounded, is no more than the amount.         *)
LEMMA PercentageBounds ==
  ASSUME NEW p \in 0 .. 100, NEW a \in Nat
  PROVE  Percentage(p, a) \in 0 .. a
<1> DEFINE x == p * a
<1>1. x \in Nat /\ x <= 100 * a
  OBVIOUS
<1> HIDE DEF x
<1>2. HalfUp(x, 100) \in Nat /\ HalfUp(x, 100) <= a
  BY <1>1 DEF HalfUp
<1> QED BY <1>2 DEF Percentage, x

(* The rake is a part of the pot.                                          *)
LEMMA RakeBounds == ASSUME NEW pot \in Nat PROVE Rake(pot) \in 0 .. pot
BY PercentAssumption, PercentageBounds DEF Rake

(* The fee falls on what is not one's own, and is less than that.          *)
LEMMA FeeBounds ==
  ASSUME NEW principal \in Nat, NEW a \in Nat
  PROVE  /\ OwnPart(principal, a) \in 0 .. a
         /\ OwnPart(principal, a) <= principal
         /\ FeeOn(principal, a) \in 0 .. a - OwnPart(principal, a)
<1>1. OwnPart(principal, a) \in 0 .. a /\ OwnPart(principal, a) <= principal
  BY DEF OwnPart, Lesser
<1>2. a - OwnPart(principal, a) \in Nat
  BY <1>1
<1> QED BY <1>1, <1>2, PercentAssumption, PercentageBounds DEF FeeOn, Fee

(* The debt in wagers falls, and not below zero.                           *)
LEMMA BurnBounds ==
  ASSUME NEW owed \in Nat, NEW stake \in Nat
  PROVE  Burn(owed, stake) \in 0 .. owed
BY DEF Burn, Lesser

----------------------------------------------------------------------------
(* allocate()                                                              *)

(* The parts that allocate() computes first: floored shares, the           *)
(* remainders they leave, and the cents still to give.                     *)
Floors(total, weight) ==
  [k \in DOMAIN weight |-> FloorShare(total, weight[k], SumOver(weight, DOMAIN weight))]
Rems(total, weight) ==
  [k \in DOMAIN weight |-> Remainder(total, weight[k], SumOver(weight, DOMAIN weight))]
Leftover(total, weight) == total - SumOver(Floors(total, weight), DOMAIN weight)

(* An allocation is the floors, with a cent more for those of some set.    *)
LEMMA AllocationIs ==
  ASSUME NEW total, NEW weight
  PROVE  Allocations(total, weight) =
           IF SumOver(weight, DOMAIN weight) <= 0 THEN {}
           ELSE {[k \in DOMAIN weight |->
                    IF k \in B THEN Floors(total, weight)[k] + 1
                               ELSE Floors(total, weight)[k]] :
                   B \in Bonuses(Rems(total, weight), Leftover(total, weight))}
BY DEF Allocations, Floors, Rems, Leftover

(* The exact share of a key is its floor and its remainder.                *)
LEMMA ShareParts ==
  ASSUME NEW total \in Nat, NEW weight, IsFiniteSet(DOMAIN weight),
         \A k \in DOMAIN weight : weight[k] \in Nat,
         SumOver(weight, DOMAIN weight) > 0
  PROVE  /\ SumOver(weight, DOMAIN weight) \in Nat \ {0}
         /\ \A k \in DOMAIN weight :
              /\ Floors(total, weight)[k] \in Nat
              /\ Rems(total, weight)[k] \in 0 .. SumOver(weight, DOMAIN weight) - 1
              /\ total * weight[k] = Rems(total, weight)[k]
                    + SumOver(weight, DOMAIN weight) * Floors(total, weight)[k]
<1> DEFINE sum == SumOver(weight, DOMAIN weight)
<1>1. sum \in Nat \ {0}
  BY SumNat
<1>2. ASSUME NEW k \in DOMAIN weight
      PROVE  /\ Floors(total, weight)[k] \in Nat
             /\ Rems(total, weight)[k] \in 0 .. sum - 1
             /\ total * weight[k] = Rems(total, weight)[k] + sum * Floors(total, weight)[k]
  <2> DEFINE x == total * weight[k]
  <2>1. x \in Nat
    OBVIOUS
  <2>2. Floors(total, weight)[k] = x \div sum /\ Rems(total, weight)[k] = x % sum
    BY DEF Floors, Rems, FloorShare, Remainder
  <2> HIDE DEF x, sum
  <2>3. x \div sum \in Nat /\ x % sum \in 0 .. sum - 1 /\ x = sum * (x \div sum) + (x % sum)
    BY <1>1, <2>1, DivMod
  <2>4. sum * (x \div sum) \in Nat
    BY <1>1, <2>3
  <2>5. x = (x % sum) + sum * (x \div sum)
    BY <2>3, <2>4
  <2> QED BY <2>2, <2>3, <2>5 DEF x
<1> QED BY <1>1, <1>2

(* The cents that the floors leave over are those of the remainders.       *)
LEMMA LeftoverIs ==
  ASSUME NEW total \in Nat, NEW weight, IsFiniteSet(DOMAIN weight),
         \A k \in DOMAIN weight : weight[k] \in Nat,
         SumOver(weight, DOMAIN weight) > 0
  PROVE  /\ Leftover(total, weight) \in Nat
         /\ SumOver(weight, DOMAIN weight) * Leftover(total, weight)
              = SumOver(Rems(total, weight), DOMAIN weight)
<1> DEFINE keys == DOMAIN weight
           sum == SumOver(weight, keys)
           floor == Floors(total, weight)
           rem == Rems(total, weight)
           exact == [k \in keys |-> total * weight[k]]
           zero == [k \in keys |-> 0]
<1>1. /\ sum \in Nat \ {0}
      /\ \A k \in keys : floor[k] \in Nat /\ rem[k] \in Nat /\ exact[k] = rem[k] + sum * floor[k]
  BY ShareParts
<1>2. SumOver(exact, keys) = total * sum
  <2>1. SumOver(zero, keys) = 0
    BY SumZero
  <2>2. \A k \in keys : zero[k] \in Int /\ weight[k] \in Int /\ exact[k] = zero[k] + total * weight[k]
    OBVIOUS
  <2> HIDE DEF zero, exact
  <2>3. SumOver(exact, keys) = SumOver(zero, keys) + total * SumOver(weight, keys)
    BY <2>2, SumLinear
  <2>4. total * sum \in Nat
    BY <1>1
  <2> QED BY <2>1, <2>3, <2>4
<1> HIDE DEF floor, rem, exact
<1>3. SumOver(exact, keys) = SumOver(rem, keys) + sum * SumOver(floor, keys)
  <2> HIDE DEF sum
  <2> QED BY <1>1, SumLinear
<1>4. SumOver(floor, keys) \in Nat /\ SumOver(rem, keys) \in Nat
  BY <1>1, SumNat
<1>5. \A s \in Nat \ {0}, t, x, r \in Nat :
         t * s = r + s * x => t - x \in Nat /\ s * (t - x) = r
  <2> TAKE s \in Nat \ {0}, t, x, r \in Nat
  <2> HAVE t * s = r + s * x
  <2>1. s * (t - x) = s * t - s * x /\ s * t = t * s
    OBVIOUS
  <2>2. s * (t - x) = r
    BY <2>1
  <2>3. t - x >= 0
    <3> SUFFICES ASSUME t - x <= -1 PROVE FALSE
      OBVIOUS
    <3>1. s * (t - x) <= s * (-1)
      OBVIOUS
    <3> QED BY <2>2, <3>1
  <2> QED BY <2>2, <2>3
<1>6. LET t == total - SumOver(floor, keys) IN t \in Nat /\ sum * t = SumOver(rem, keys)
  <2> HIDE DEF sum, keys
  <2>1. total * sum = SumOver(rem, keys) + sum * SumOver(floor, keys)
    BY <1>2, <1>3
  <2> QED BY <2>1, <1>1, <1>4, <1>5
<1> QED BY <1>6 DEF Leftover, floor, rem

(* A set that gets the odd cents has as many keys as there are cents, and  *)
(* none of them without a remainder.                                       *)
LEMMA BonusesDeserved ==
  ASSUME NEW total \in Nat, NEW weight, IsFiniteSet(DOMAIN weight),
         \A k \in DOMAIN weight : weight[k] \in Nat,
         SumOver(weight, DOMAIN weight) > 0,
         NEW B \in Bonuses(Rems(total, weight), Leftover(total, weight))
  PROVE  /\ B \subseteq DOMAIN weight
         /\ Cardinality(B) = Leftover(total, weight)
         /\ \A k \in B : Rems(total, weight)[k] > 0
<1> DEFINE keys == DOMAIN weight
           sum == SumOver(weight, keys)
           rem == Rems(total, weight)
           left == Leftover(total, weight)
           P == {k \in keys : rem[k] > 0}
<1>1. /\ sum \in Nat \ {0}
      /\ \A k \in keys : rem[k] \in 0 .. sum - 1
      /\ left \in Nat
      /\ sum * left = SumOver(rem, keys)
  BY ShareParts, LeftoverIs
<1>2. /\ DOMAIN rem = keys
      /\ B \in SUBSET keys
      /\ Cardinality(B) = left
      /\ \A x \in B, y \in keys \ B : rem[x] >= rem[y]
  BY DEF Bonuses, Rems
<1> HIDE DEF sum, rem, left
<1>3. ASSUME NEW k \in B, ~(rem[k] > 0) PROVE FALSE
  <2> DEFINE most == [x \in P |-> sum - 1]
  <2>1. rem[k] = 0 /\ k \in keys
    BY <1>1, <1>2, <1>3
  <2>2. P \subseteq B \ {k}
    BY <1>1, <1>2, <2>1
  <2>3. IsFiniteSet(P) /\ IsFiniteSet(B)
    BY <1>2, FS_Subset
  <2>4. IsFiniteSet(B \ {k}) /\ Cardinality(B \ {k}) = left - 1
    BY <1>2, <2>3, FS_RemoveElement
  <2>5. Cardinality(P) <= left - 1 /\ Cardinality(P) \in Nat
    BY <2>2, <2>3, <2>4, FS_Subset, FS_CardinalityType
  <2>6. SumOver(rem, keys) = SumOver(rem, P)
    <3>1. \A x \in P : rem[x] \in Int /\ rem[x] = rem[x]
      BY <1>1
    <3>2. \A x \in keys \ P : rem[x] = 0
      BY <1>1
    <3>3. P \subseteq keys /\ IsFiniteSet(keys)
      OBVIOUS
    <3> QED BY ONLY <3>1, <3>2, <3>3, SumPart
  <2>7. SumOver(rem, P) <= SumOver(most, P)
    <3>1. \A x \in P : rem[x] \in Int /\ most[x] \in Int /\ rem[x] <= most[x]
      BY <1>1
    <3> QED BY ONLY <2>3, <3>1, SumMonotone
  <2>8. SumOver(most, P) = (sum - 1) * Cardinality(P)
    <3>1. (sum - 1) \in Int /\ \A x \in P : most[x] = sum - 1
      BY <1>1
    <3> QED BY ONLY <2>3, <3>1, SumConst
  <2>9. \A s \in Nat \ {0}, l, c \in Nat : c <= l - 1 => (s - 1) * c < s * l
    <3> TAKE s \in Nat \ {0}, l, c \in Nat
    <3> HAVE c <= l - 1
    <3>1. (s - 1) * c <= s * c /\ s * c <= s * (l - 1) /\ s * (l - 1) = s * l - s
      OBVIOUS
    <3> QED BY <3>1
  <2>10. (sum - 1) * Cardinality(P) < sum * left
    BY <1>1, <2>5, <2>9
  <2>11. /\ SumOver(rem, P) \in Int /\ SumOver(most, P) \in Int
         /\ (sum - 1) * Cardinality(P) \in Int /\ sum * left \in Int
    <3>1. \A x \in P : rem[x] \in Int
      BY <1>1
    <3>2. SumOver(rem, P) \in Int
      BY ONLY <2>3, <3>1, SumInt
    <3>3. (sum - 1) * Cardinality(P) \in Int /\ sum * left \in Int
      BY <1>1, <2>5
    <3> QED BY <2>8, <3>2, <3>3
  <2> HIDE DEF P, most
  <2> QED BY <1>1, <2>6, <2>7, <2>8, <2>10, <2>11
<1> QED BY <1>2, <1>3 DEF rem, left

(* What an allocation gives: whole cents, nothing for nothing, the total,  *)
(* and no more than a key holds if all of them hold the total.             *)
LEMMA AllocationGives ==
  ASSUME NEW total \in Nat, NEW weight, IsFiniteSet(DOMAIN weight),
         \A k \in DOMAIN weight : weight[k] \in Nat,
         NEW share \in Allocations(total, weight)
  PROVE  /\ SumOver(weight, DOMAIN weight) > 0
         /\ share \in [DOMAIN weight -> Nat]
         /\ SumOver(share, DOMAIN weight) = total
         /\ \A k \in DOMAIN weight : weight[k] = 0 => share[k] = 0
         /\ total <= SumOver(weight, DOMAIN weight) =>
              \A k \in DOMAIN weight : share[k] <= weight[k]
<1> DEFINE keys == DOMAIN weight
           sum == SumOver(weight, keys)
           floor == Floors(total, weight)
           rem == Rems(total, weight)
           left == Leftover(total, weight)
<1>1. sum > 0
  <2>1. sum \in Nat
    BY SumNat
  <2>2. ~(sum <= 0)
    BY AllocationIs
  <2> HIDE DEF sum
  <2> QED BY <2>1, <2>2
<1>2. /\ sum \in Nat \ {0}
      /\ left \in Nat
      /\ \A k \in keys : /\ floor[k] \in Nat /\ rem[k] \in 0 .. sum - 1
                         /\ total * weight[k] = rem[k] + sum * floor[k]
  BY <1>1, ShareParts, LeftoverIs
<1>3. PICK B \in Bonuses(rem, left) :
        share = [k \in keys |-> IF k \in B THEN floor[k] + 1 ELSE floor[k]]
  BY <1>1, <1>2, AllocationIs
<1>4. B \subseteq keys /\ Cardinality(B) = left /\ \A k \in B : rem[k] > 0
  BY <1>1, BonusesDeserved
<1>5. left = total - SumOver(floor, keys)
  BY DEF Leftover
<1> HIDE DEF floor, rem, left
<1>6. share \in [keys -> Nat]
  BY <1>2, <1>3
<1>7. SumOver(share, keys) = total
  <2> DEFINE one == [k \in keys |-> IF k \in B THEN 1 ELSE 0]
  <2>1. IsFiniteSet(B) /\ IsFiniteSet(keys)
    BY <1>4, FS_Subset
  <2>2. SumOver(one, keys) = SumOver([k \in B |-> 1], B)
    <3> DEFINE unit == [k \in B |-> 1]
    <3>1. /\ \A x \in B : unit[x] \in Int /\ one[x] = unit[x]
          /\ \A x \in keys \ B : one[x] = 0
      BY <1>4
    <3> HIDE DEF unit, one
    <3>2. SumOver(one, keys) = SumOver(unit, B)
      BY ONLY <1>4, <2>1, <3>1, SumPart
    <3> QED BY <3>2 DEF unit
  <2>3. SumOver([k \in B |-> 1], B) = 1 * Cardinality(B)
    <3> DEFINE unit == [k \in B |-> 1]
    <3>1. 1 \in Int /\ \A x \in B : unit[x] = 1
      OBVIOUS
    <3> HIDE DEF unit
    <3>2. SumOver(unit, B) = 1 * Cardinality(B)
      BY ONLY <2>1, <3>1, SumConst
    <3> QED BY <3>2 DEF unit
  <2>4. \A k \in keys : floor[k] \in Int /\ one[k] \in Int /\ share[k] = floor[k] + one[k]
    BY <1>2, <1>3
  <2>5. SumOver(share, keys) = SumOver(floor, keys) + SumOver(one, keys)
    BY ONLY <2>1, <2>4, SumPlus
  <2>6. SumOver(floor, keys) \in Int
    BY ONLY <2>1, <2>4, SumInt
  <2> HIDE DEF one, keys
  <2> QED BY <1>2, <1>4, <1>5, <2>2, <2>3, <2>5, <2>6
<1>8. ASSUME NEW k \in keys, weight[k] = 0 PROVE share[k] = 0
  <2>1. total * weight[k] = 0
    BY <1>8
  <2>2. sum * floor[k] \in Nat /\ rem[k] \in Nat
    BY <1>2
  <2>3. rem[k] = 0 /\ sum * floor[k] = 0
    BY <1>2, <2>1, <2>2
  <2>4. floor[k] = 0
    <3> HIDE DEF sum
    <3> QED BY <1>2, <2>3
  <2> QED BY <1>3, <1>4, <2>3, <2>4
<1>9. ASSUME total <= sum, NEW k \in keys PROVE share[k] <= weight[k]
  <2>1. \A t, s, w, r, x \in Nat :
          /\ s > 0 /\ t <= s /\ t * w = r + s * x
          => x <= w /\ (r > 0 => x + 1 <= w)
    <3> TAKE t, s, w, r, x \in Nat
    <3> HAVE s > 0 /\ t <= s /\ t * w = r + s * x
    <3>1. s * x + r <= s * w
      <4>1. t * w <= s * w
        OBVIOUS
      <4>2. s * x \in Nat
        OBVIOUS
      <4> QED BY <4>1, <4>2
    <3>2. x <= w
      <4> SUFFICES ASSUME x >= w + 1 PROVE FALSE
        OBVIOUS
      <4>1. s * x >= s * (w + 1) /\ s * (w + 1) = s * w + s
        OBVIOUS
      <4> QED BY <3>1, <4>1
    <3>3. ASSUME r > 0 PROVE x + 1 <= w
      <4> SUFFICES ASSUME x = w PROVE FALSE
        BY <3>2
      <4> QED BY <3>1, <3>3
    <3> QED BY <3>2, <3>3
  <2>2. /\ floor[k] <= weight[k]
        /\ rem[k] > 0 => floor[k] + 1 <= weight[k]
    <3>1. /\ total \in Nat /\ sum \in Nat /\ weight[k] \in Nat /\ rem[k] \in Nat
          /\ floor[k] \in Nat /\ sum > 0 /\ total <= sum
          /\ total * weight[k] = rem[k] + sum * floor[k]
      BY <1>1, <1>2, <1>9
    <3> QED BY ONLY <2>1, <3>1
  <2> QED BY <1>2, <1>3, <1>4, <2>2
<1> QED BY <1>1, <1>6, <1>7, <1>8, <1>9

(* Keys without weight get nothing and can as well be left out.            *)
LEMMA AllocationRestricts ==
  ASSUME NEW total \in Nat, NEW weight, IsFiniteSet(DOMAIN weight),
         \A k \in DOMAIN weight : weight[k] \in Nat,
         NEW share \in Allocations(total, weight),
         NEW keep, keep \subseteq DOMAIN weight,
         \A k \in DOMAIN weight \ keep : weight[k] = 0
  PROVE  [k \in keep |-> share[k]] \in Allocations(total, [k \in keep |-> weight[k]])
<1>1. PICK w : w = [k \in keep |-> weight[k]] OBVIOUS
<1>2. DOMAIN w = keep /\ IsFiniteSet(keep) /\ \A k \in keep : w[k] = weight[k]
  BY <1>1, FS_Subset
<1>3. PICK sum : sum = SumOver(weight, DOMAIN weight) OBVIOUS
<1>4. SumOver(w, DOMAIN w) = sum
  <2>1. \A k \in keep : w[k] \in Int /\ weight[k] = w[k]
    BY <1>2
  <2> QED BY <1>2, <1>3, <2>1, SumPart
<1>5. sum > 0 /\ sum \in Nat
  BY <1>3, AllocationGives, SumNat
<1>6. PICK floor, rem, left :
        floor = Floors(total, weight) /\ rem = Rems(total, weight) /\ left = Leftover(total, weight)
  OBVIOUS
<1>7. PICK B \in Bonuses(rem, left) :
        share = [k \in DOMAIN weight |-> IF k \in B THEN floor[k] + 1 ELSE floor[k]]
  <2>1. ~(sum <= 0)
    BY <1>5
  <2> QED BY <1>3, <1>6, <2>1, AllocationIs
<1>8. B \subseteq DOMAIN weight /\ Cardinality(B) = left /\ \A k \in B : rem[k] > 0
  BY <1>3, <1>5, <1>6, <1>7, BonusesDeserved
<1>9. /\ DOMAIN floor = DOMAIN weight /\ DOMAIN rem = DOMAIN weight
      /\ \A k \in DOMAIN weight : floor[k] \in Nat /\ rem[k] \in 0 .. sum - 1
      /\ \A k \in DOMAIN weight : total * weight[k] = rem[k] + sum * floor[k]
  BY <1>3, <1>5, <1>6, ShareParts DEF Floors, Rems
<1>10. ASSUME NEW k \in DOMAIN weight \ keep PROVE floor[k] = 0 /\ rem[k] = 0
  <2>1. total * weight[k] = 0 /\ weight[k] = 0
    OBVIOUS
  <2>2. sum * floor[k] \in Nat /\ rem[k] \in Nat /\ rem[k] + sum * floor[k] = 0
    BY <1>5, <1>9, <2>1
  <2>3. rem[k] = 0 /\ sum * floor[k] = 0
    BY <2>2
  <2>4. floor[k] = 0
    BY <1>5, <1>9, <2>3
  <2> QED BY <2>3, <2>4
<1>11. /\ Floors(total, w) = [k \in keep |-> floor[k]]
       /\ Rems(total, w) = [k \in keep |-> rem[k]]
  BY <1>2, <1>3, <1>4, <1>6 DEF Floors, Rems
<1>12. Leftover(total, w) = left
  <2>1. SumOver(Floors(total, w), keep) = SumOver(floor, DOMAIN weight)
    <3>1. PICK f : f = Floors(total, w) OBVIOUS
    <3>2. \A k \in keep : f[k] \in Int /\ floor[k] = f[k]
      BY <1>9, <1>11, <3>1
    <3>3. SumOver(floor, DOMAIN weight) = SumOver(f, keep)
      BY <1>10, <3>2, SumPart
    <3> QED BY <3>1, <3>3
  <2> QED BY <1>2, <1>6, <2>1 DEF Leftover
<1>13. B \subseteq keep
  BY <1>8, <1>10
<1>14. B \in Bonuses(Rems(total, w), Leftover(total, w))
  <2>1. \A x \in B, y \in DOMAIN rem \ B : rem[x] >= rem[y]
    BY <1>7 DEF Bonuses
  <2> QED BY <1>8, <1>9, <1>11, <1>12, <1>13, <2>1 DEF Bonuses
<1>15. [k \in keep |-> share[k]] =
         [k \in keep |-> IF k \in B THEN Floors(total, w)[k] + 1 ELSE Floors(total, w)[k]]
  BY <1>7, <1>11
<1>16. ~(SumOver(w, DOMAIN w) <= 0)
  BY <1>4, <1>5
<1>17. [k \in keep |-> share[k]] \in Allocations(total, w)
  BY <1>2, <1>14, <1>15, <1>16, AllocationIs
<1> QED BY <1>1, <1>17

(* Some key of a finite set has the largest value.                         *)
LEMMA LargestExists ==
  ASSUME NEW f, NEW S, IsFiniteSet(S), S # {}, \A x \in S : f[x] \in Int
  PROVE  \E m \in S : \A x \in S : f[x] <= f[m]
<1> DEFINE Tops(T) == T # {} /\ \A x \in S : \E y \in T : f[x] <= f[y]
           W == {T \in SUBSET S : Tops(T)}
<1>1. W \subseteq SUBSET S /\ S \in W
  OBVIOUS
<1>2. PICK T \in W : \A U \in W : U \subseteq T => U = T
  <2> HIDE DEF W
  <2> QED BY <1>1, MinimalSubset
<1>3. PICK m \in T : TRUE
  OBVIOUS
<1>4. ASSUME NEW x \in T, x # m, f[x] <= f[m] PROVE FALSE
  <2>1. \A y \in S : \E z \in T \ {x} : f[y] <= f[z]
    <3> TAKE y \in S
    <3>1. PICK z \in T : f[y] <= f[z]
      OBVIOUS
    <3>2. f[y] \in Int /\ f[z] \in Int /\ f[x] \in Int /\ f[m] \in Int
      OBVIOUS
    <3>3. CASE z = x
      <4>1. f[y] <= f[m]
        BY <1>4, <3>1, <3>2, <3>3
      <4> QED BY <1>3, <1>4, <4>1
    <3> QED BY <3>1, <3>3
  <2>2. T \ {x} \in W
    BY <1>3, <1>4, <2>1
  <2> QED BY <1>2, <1>4, <2>2
<1>5. ASSUME NEW x \in T, x # m, f[m] <= f[x] PROVE FALSE
  <2>1. \A y \in S : \E z \in T \ {m} : f[y] <= f[z]
    <3> TAKE y \in S
    <3>1. PICK z \in T : f[y] <= f[z]
      OBVIOUS
    <3>2. f[y] \in Int /\ f[z] \in Int /\ f[x] \in Int /\ f[m] \in Int
      OBVIOUS
    <3>3. CASE z = m
      <4>1. f[y] <= f[x]
        BY <1>5, <3>1, <3>2, <3>3
      <4> QED BY <1>5, <4>1
    <3> QED BY <3>1, <3>3
  <2>2. T \ {m} \in W
    BY <1>3, <1>5, <2>1
  <2> QED BY <1>2, <1>3, <2>2
<1>6. \A x \in T : x = m
  <2> SUFFICES ASSUME NEW x \in T, x # m PROVE FALSE
    OBVIOUS
  <2>1. f[x] \in Int /\ f[m] \in Int
    OBVIOUS
  <2>2. f[x] <= f[m] \/ f[m] <= f[x]
    BY <2>1
  <2> QED BY <1>4, <1>5, <2>2
<1> QED BY <1>3, <1>6

(* Any number of odd cents, up to one for each key, finds its keys.        *)
LEMMA BonusesExist ==
  ASSUME NEW rem, IsFiniteSet(DOMAIN rem), \A k \in DOMAIN rem : rem[k] \in Int,
         NEW n \in Nat, n <= Cardinality(DOMAIN rem)
  PROVE  Bonuses(rem, n) # {}
<1> DEFINE keys == DOMAIN rem
           W == {C \in SUBSET keys :
                   /\ \A x \in keys \ C, y \in C : rem[x] >= rem[y]
                   /\ Cardinality(C) >= Cardinality(keys) - n}
<1>1. Cardinality(keys) \in Nat
  BY FS_CardinalityType
<1>2. W \subseteq SUBSET keys /\ keys \in W
  BY <1>1
<1>3. PICK C \in W : \A U \in W : U \subseteq C => U = C
  <2> HIDE DEF W
  <2> QED BY <1>2, MinimalSubset
<1>4. IsFiniteSet(C) /\ Cardinality(C) \in Nat
  BY FS_Subset, FS_CardinalityType
<1>5. Cardinality(C) = Cardinality(keys) - n
  <2> SUFFICES ASSUME Cardinality(C) > Cardinality(keys) - n PROVE FALSE
    BY <1>1, <1>4
  <2>1. C # {}
    BY <1>1, <1>4, FS_EmptySet
  <2>2. PICK m \in C : \A x \in C : rem[x] <= rem[m]
    <3>1. \A x \in C : rem[x] \in Int
      OBVIOUS
    <3> QED BY ONLY <1>4, <2>1, <3>1, LargestExists
  <2>3. Cardinality(C \ {m}) = Cardinality(C) - 1
    BY <1>4, FS_RemoveElement
  <2>4. Cardinality(C \ {m}) >= Cardinality(keys) - n
    BY <1>1, <1>4, <2>3
  <2>5. \A x \in keys \ (C \ {m}), y \in C \ {m} : rem[x] >= rem[y]
    BY <2>2
  <2>6. C \ {m} \in W
    BY <2>4, <2>5
  <2> QED BY <1>3, <2>6
<1>6. keys \cap C = C /\ Cardinality(keys \ C) = Cardinality(keys) - Cardinality(keys \cap C)
  BY FS_Difference
<1>7. Cardinality(keys \ C) = n
  BY <1>1, <1>5, <1>6
<1>8. keys \ (keys \ C) = C
  OBVIOUS
<1>9. keys \ C \in Bonuses(rem, n)
  BY <1>7, <1>8 DEF Bonuses
<1> QED BY <1>9

(* allocate() has an answer unless all the weights are zero.               *)
LEMMA AllocationExists ==
  ASSUME NEW total \in Nat, NEW weight, IsFiniteSet(DOMAIN weight),
         \A k \in DOMAIN weight : weight[k] \in Nat,
         SumOver(weight, DOMAIN weight) > 0
  PROVE  Allocations(total, weight) # {}
<1> DEFINE keys == DOMAIN weight
           sum == SumOver(weight, keys)
           rem == Rems(total, weight)
           left == Leftover(total, weight)
           most == [k \in keys |-> sum - 1]
<1>1. /\ sum \in Nat \ {0}
      /\ \A k \in keys : rem[k] \in 0 .. sum - 1
      /\ left \in Nat
      /\ sum * left = SumOver(rem, keys)
  BY ShareParts, LeftoverIs
<1>2. DOMAIN rem = keys
  BY DEF Rems
<1> HIDE DEF sum, rem, left
<1>3. IsFiniteSet(keys) /\ Cardinality(keys) \in Nat
  BY FS_CardinalityType
<1>4. SumOver(rem, keys) <= SumOver(most, keys)
  <2>1. \A k \in keys : rem[k] \in Int /\ most[k] \in Int /\ rem[k] <= most[k]
    BY <1>1
  <2> QED BY ONLY <1>3, <2>1, SumMonotone
<1>5. SumOver(most, keys) = (sum - 1) * Cardinality(keys)
  <2>1. sum - 1 \in Int /\ \A k \in keys : most[k] = sum - 1
    BY <1>1
  <2> QED BY ONLY <1>3, <2>1, SumConst
<1>6. left <= Cardinality(keys)
  <2>1. \A s \in Nat \ {0}, l, c \in Nat : s * l <= (s - 1) * c => l <= c
    <3> TAKE s \in Nat \ {0}, l, c \in Nat
    <3> HAVE s * l <= (s - 1) * c
    <3> SUFFICES ASSUME l >= c + 1 PROVE FALSE
      OBVIOUS
    <3>1. s * l >= s * (c + 1) /\ s * (c + 1) = s * c + s /\ (s - 1) * c <= s * c
      OBVIOUS
    <3>2. s * l \in Nat /\ s * c \in Nat /\ (s - 1) * c \in Nat
      OBVIOUS
    <3> QED BY <3>1, <3>2
  <2>2. sum * left <= (sum - 1) * Cardinality(keys)
    BY <1>1, <1>4, <1>5
  <2> QED BY <1>1, <1>3, <2>1, <2>2
<1>7. PICK B \in Bonuses(rem, left) : TRUE
  <2>1. IsFiniteSet(DOMAIN rem) /\ left \in Nat /\ left <= Cardinality(DOMAIN rem)
    BY <1>1, <1>2, <1>3, <1>6
  <2>2. \A k \in DOMAIN rem : rem[k] \in Int
    BY <1>1, <1>2
  <2>3. Bonuses(rem, left) # {}
    BY ONLY <2>1, <2>2, BonusesExist
  <2> QED BY <2>3
<1> DEFINE floor == Floors(total, weight)
           share == [k \in keys |-> IF k \in B THEN floor[k] + 1 ELSE floor[k]]
<1>8. ~(sum <= 0)
  BY <1>1
<1>9. share \in Allocations(total, weight)
  BY <1>7, <1>8, AllocationIs DEF sum, rem, left
<1> QED BY <1>9

(* What an allocation takes from exactness: the largest remainders get the *)
(* odd cents.  In units of 1/sum of a cent, a share exceeds its exact      *)
(* value by a whole unit less the remainder, or falls short by it.         *)
LEMMA AllocationErrors ==
  ASSUME NEW total \in Nat, NEW weight, IsFiniteSet(DOMAIN weight),
         \A k \in DOMAIN weight : weight[k] \in Nat,
         NEW share \in Allocations(total, weight),
         NEW k \in DOMAIN weight, NEW l \in DOMAIN weight
  PROVE  LET sum == SumOver(weight, DOMAIN weight)
             error(x) == share[x] * sum - total * weight[x]
         IN  /\ error(k) \in Int /\ error(l) \in Int
             /\ error(k) - error(l) <= sum
<1> DEFINE keys == DOMAIN weight
           sum == SumOver(weight, keys)
           floor == Floors(total, weight)
           rem == Rems(total, weight)
           left == Leftover(total, weight)
           error(x) == share[x] * sum - total * weight[x]
<1>1. sum > 0 /\ share \in [keys -> Nat]
  BY AllocationGives
<1>2. /\ sum \in Nat \ {0}
      /\ \A x \in keys : /\ floor[x] \in Nat /\ rem[x] \in 0 .. sum - 1
                         /\ total * weight[x] = rem[x] + sum * floor[x]
  BY <1>1, ShareParts
<1>3. PICK B \in Bonuses(rem, left) :
        share = [x \in keys |-> IF x \in B THEN floor[x] + 1 ELSE floor[x]]
  BY <1>1, <1>2, AllocationIs
<1>4. DOMAIN rem = keys
  BY DEF Rems
<1>5. \A x \in B, y \in keys \ B : rem[x] >= rem[y]
  BY <1>3, <1>4 DEF Bonuses
<1> HIDE DEF sum, floor, rem, left
<1>6. ASSUME NEW x \in keys
      PROVE  error(x) = IF x \in B THEN sum - rem[x] ELSE 0 - rem[x]
  <2>1. floor[x] \in Nat /\ rem[x] \in Nat /\ sum \in Nat
    BY <1>2
  <2>2. \A s, f \in Nat : (f + 1) * s = s * f + s /\ f * s = s * f /\ s * f \in Nat
    OBVIOUS
  <2>3. total * weight[x] = rem[x] + sum * floor[x]
    BY <1>2
  <2>4. share[x] = IF x \in B THEN floor[x] + 1 ELSE floor[x]
    BY <1>3
  <2> QED BY <2>1, <2>2, <2>3, <2>4
<1>7. error(k) \in Int /\ error(l) \in Int /\ error(k) - error(l) <= sum
  <2>1. rem[k] \in 0 .. sum - 1 /\ rem[l] \in 0 .. sum - 1 /\ sum \in Nat
    BY <1>2
  <2>2. k \in B /\ l \notin B => rem[k] >= rem[l]
    BY <1>5
  <2>3. /\ error(k) = IF k \in B THEN sum - rem[k] ELSE 0 - rem[k]
        /\ error(l) = IF l \in B THEN sum - rem[l] ELSE 0 - rem[l]
    BY <1>6
  <2> HIDE DEF error
  <2> QED BY <2>1, <2>2, <2>3
<1> QED BY <1>7 DEF sum

(* Two fees on parts, and the fee on the whole, differ by a cent at most.  *)
LEMMA FeesAdd ==
  ASSUME NEW x \in Nat, NEW y \in Nat
  PROVE  (Fee(x) + Fee(y)) - Fee(x + y) \in -1 .. 1
<1>1. FeePercent * (x + y) = FeePercent * x + FeePercent * y
  BY PercentAssumption
<1>2. FeePercent * x \in Nat /\ FeePercent * y \in Nat
  BY PercentAssumption
<1>3. \A a, b \in Nat : (HalfUp(a, 100) + HalfUp(b, 100)) - HalfUp(a + b, 100) \in -1 .. 1
  BY DEF HalfUp
<1> QED BY <1>1, <1>2, <1>3 DEF Fee, Percentage
=============================================================================
