----------------------------- MODULE SumTheorems -----------------------------
(***************************************************************************)
(* Sums over an interval of naturals, as the checksums of the network and  *)
(* of the boot image are defined with MapThenSumSet: a fold that takes the *)
(* elements of a set in no known order.  Here it is shown to be the sum    *)
(* one gets by adding up the terms from the first to the last, and what    *)
(* follows for a sum of which one term is changed.  The terms are the      *)
(* values of a function, so that no lemma needs an operator as parameter.  *)
(***************************************************************************)
EXTENDS Integers, FiniteSetsExt, FiniteSetTheorems, WellFoundedInduction, TLAPS

(* The partial sums of the first n terms.                                  *)
ArePartialSums(term, n, sums) ==
    /\ sums \in [0 .. n -> Int]
    /\ sums[0] = 0
    /\ \A k \in 1 .. n : sums[k] = sums[k - 1] + term[k]

Total(term, n) == (CHOOSE sums : ArePartialSums(term, n, sums))[n]

(* The terms of the members of a set, and 0 for the others.                *)
Within(term, n, set) == [i \in 1 .. n |-> IF i \in set THEN term[i] ELSE 0]

(* What MapThenSumSet iterates when the terms are the values of a function.*)
Chosen(set) == CHOOSE x \in set : TRUE

FoldsTerms(term, n, fold) ==
    fold = [set \in SUBSET (1 .. n) |->
                IF set = {} THEN 0
                ELSE term[Chosen(set)] + fold[set \ {Chosen(set)}]]

-----------------------------------------------------------------------------
(* Sets of naturals.                                                       *)

LEMMA SmallestOfSet ==
    ASSUME NEW S \in SUBSET Nat, S # {}
    PROVE  \E n \in S : \A m \in S : n <= m
  <1> DEFINE R == OpToRel(<, Nat)
  <1>1. IsWellFoundedOn(R, Nat)
    BY NatLessThanWellFounded
  <1>2. \A x, y \in Nat : x < y => <<x, y>> \in R
    BY DEF OpToRel
  <1> HIDE DEF R
  <1>3. PICK n \in S : \A m \in S : ~(<<m, n>> \in R)
    BY <1>1, WFMin
  <1>4. \A m \in S : ~(m < n)
    BY <1>2, <1>3
  <1>5. n \in Nat /\ \A m \in S : m \in Nat
    OBVIOUS
  <1> QED
    BY <1>4, <1>5

(* Induction up to n, for a set instead of a predicate.                    *)
LEMMA InductionUpTo ==
    ASSUME NEW n \in Nat, NEW good, 0 \in good,
           \A k \in 1 .. n : k - 1 \in good => k \in good
    PROVE  0 .. n \subseteq good
  <1> SUFFICES ASSUME ~(0 .. n \subseteq good)
               PROVE  FALSE
    OBVIOUS
  <1> DEFINE bad == { k \in 0 .. n : k \notin good }
  <1>1. bad \in SUBSET Nat /\ bad # {}
    OBVIOUS
  <1>2. PICK k \in bad : \A m \in bad : k <= m
    BY <1>1, SmallestOfSet
  <1>3. k \in 1 .. n /\ k - 1 \in 0 .. n
    BY <1>2
  <1>4. k - 1 \notin bad
    BY <1>2, <1>3
  <1> QED
    BY <1>2, <1>3, <1>4

-----------------------------------------------------------------------------
(* Adding up from the first term to the last.                              *)

LEMMA PartialSumsExist ==
    ASSUME NEW n \in Nat, NEW term, \A i \in 1 .. n : term[i] \in Int
    PROVE  \E sums : ArePartialSums(term, n, sums)
  <1> DEFINE good == { k \in Nat : \E sums : ArePartialSums(term, k, sums) }
  <1>1. 0 \in good
    <2>1. ArePartialSums(term, 0, [k \in 0 .. 0 |-> 0])
      BY DEF ArePartialSums
    <2> QED
      BY <2>1
  <1>2. \A k \in 1 .. n : k - 1 \in good => k \in good
    <2> SUFFICES ASSUME NEW k \in 1 .. n, k - 1 \in good
                 PROVE  k \in good
      OBVIOUS
    <2>1. PICK sums : ArePartialSums(term, k - 1, sums)
      OBVIOUS
    <2> DEFINE longer == [j \in 0 .. k |-> IF j = k THEN sums[k - 1] + term[k] ELSE sums[j]]
    <2>2. sums \in [0 .. k - 1 -> Int] /\ term[k] \in Int /\ sums[0] = 0
      BY <2>1 DEF ArePartialSums
    <2>3. sums[k - 1] + term[k] \in Int
      BY <2>2
    <2>4. longer \in [0 .. k -> Int] /\ longer[0] = 0
      BY <2>2, <2>3
    <2>5. \A j \in 1 .. k - 1 : longer[j] = longer[j - 1] + term[j]
      <3>1. \A j \in 1 .. k - 1 : sums[j] = sums[j - 1] + term[j]
        BY <2>1 DEF ArePartialSums
      <3>2. \A j \in 0 .. k - 1 : longer[j] = sums[j]
        OBVIOUS
      <3> HIDE DEF longer
      <3> QED
        BY <3>1, <3>2
    <2>6. longer[k] = longer[k - 1] + term[k]
      OBVIOUS
    <2> HIDE DEF longer
    <2>7. ArePartialSums(term, k, longer)
      BY <2>4, <2>5, <2>6 DEF ArePartialSums
    <2> QED
      BY <2>7
  <1> HIDE DEF good
  <1>3. n \in good
    BY <1>1, <1>2, InductionUpTo
  <1> QED
    BY <1>3 DEF good

(* The sum of no terms is 0, and each term adds to the sum of those before *)
(* it.                                                                     *)
LEMMA TotalSteps ==
    ASSUME NEW n \in Nat, NEW term, \A i \in 1 .. n : term[i] \in Int
    PROVE  /\ Total(term, 0) = 0
           /\ \A k \in 0 .. n : Total(term, k) \in Int
           /\ \A k \in 1 .. n : Total(term, k) = Total(term, k - 1) + term[k]
  <1> DEFINE S(k) == CHOOSE sums : ArePartialSums(term, k, sums)
  <1>1. \A k \in 0 .. n : ArePartialSums(term, k, S(k))
    BY PartialSumsExist
  <1>2. \A k \in 0 .. n : Total(term, k) = S(k)[k]
    BY DEF Total
  <1> HIDE DEF S
  <1>3. \A k \in 1 .. n : \A j \in 0 .. k - 1 : S(k)[j] = S(k - 1)[j]
    <2> SUFFICES ASSUME NEW k \in 1 .. n
                 PROVE  \A j \in 0 .. k - 1 : S(k)[j] = S(k - 1)[j]
      OBVIOUS
    <2> DEFINE good == { j \in 0 .. k - 1 : S(k)[j] = S(k - 1)[j] }
    <2>1. ArePartialSums(term, k, S(k)) /\ ArePartialSums(term, k - 1, S(k - 1))
      BY <1>1
    <2>2. 0 \in good
      BY <2>1 DEF ArePartialSums
    <2>3. \A j \in 1 .. k - 1 : j - 1 \in good => j \in good
      BY <2>1 DEF ArePartialSums
    <2> HIDE DEF good
    <2>4. 0 .. k - 1 \subseteq good
      BY <2>2, <2>3, InductionUpTo
    <2> QED
      BY <2>4 DEF good
  <1>4. \A k \in 1 .. n : S(k)[k] = S(k - 1)[k - 1] + term[k]
    BY <1>1, <1>3 DEF ArePartialSums
  <1>5. \A k \in 0 .. n : S(k)[k] \in Int
    BY <1>1 DEF ArePartialSums
  <1>6. S(0)[0] = 0
    BY <1>1 DEF ArePartialSums
  <1> QED
    BY <1>2, <1>4, <1>5, <1>6

(* Two sums whose terms agree but at one place differ by what those terms  *)
(* differ; they are equal if the terms agree everywhere.                   *)
LEMMA TotalsDiffer ==
    ASSUME NEW n \in Nat,
           NEW term, \A i \in 1 .. n : term[i] \in Int,
           NEW other, \A i \in 1 .. n : other[i] \in Int,
           NEW j \in Nat, \A i \in 1 .. n : i # j => other[i] = term[i]
    PROVE  Total(other, n) =
             Total(term, n) + (IF j \in 1 .. n THEN other[j] - term[j] ELSE 0)
  <1> DEFINE good == { k \in 0 .. n : Total(other, k) =
                 Total(term, k) + (IF j \in 1 .. k THEN other[j] - term[j] ELSE 0) }
  <1>1. /\ Total(term, 0) = 0 /\ Total(other, 0) = 0
        /\ \A k \in 0 .. n : Total(term, k) \in Int /\ Total(other, k) \in Int
        /\ \A k \in 1 .. n : /\ Total(term, k) = Total(term, k - 1) + term[k]
                             /\ Total(other, k) = Total(other, k - 1) + other[k]
    BY TotalSteps
  <1>2. 0 \in good
    BY <1>1
  <1>3. \A k \in 1 .. n : k - 1 \in good => k \in good
    BY <1>1
  <1> HIDE DEF good
  <1>4. 0 .. n \subseteq good
    BY <1>2, <1>3, InductionUpTo
  <1> QED
    BY <1>4 DEF good

LEMMA TotalsAgree ==
    ASSUME NEW n \in Nat,
           NEW term, \A i \in 1 .. n : term[i] \in Int,
           NEW other, \A i \in 1 .. n : other[i] = term[i]
    PROVE  Total(other, n) = Total(term, n)
  <1>1. \A i \in 1 .. n : other[i] \in Int
    OBVIOUS
  <1>2. 0 \notin 1 .. n
    OBVIOUS
  <1>3. Total(other, n) = Total(term, n) + 0
    BY <1>1, <1>2, TotalsDiffer
  <1>4. Total(term, n) \in Int
    BY TotalSteps
  <1> QED
    BY <1>3, <1>4

(* Two terms that change places.                                           *)
Swaps(term, other, n, i, j) ==
    /\ \A k \in 1 .. n : term[k] \in Int
    /\ \A k \in 1 .. n : other[k] \in Int
    /\ i \in 1 .. n /\ j \in 1 .. n /\ i # j
    /\ term[i] = other[j] /\ term[j] = other[i]
    /\ \A k \in 1 .. n : k # i /\ k # j => term[k] = other[k]

LEMMA SwapKeepsTotal ==
    ASSUME NEW n \in Nat, NEW term, NEW other, NEW i, NEW j, Swaps(term, other, n, i, j)
    PROVE  Total(term, n) = Total(other, n)
  <1> DEFINE both == [k \in 1 .. n |-> IF k = j THEN other[j] ELSE term[k]]
  <1>1. /\ \A k \in 1 .. n : term[k] \in Int
        /\ \A k \in 1 .. n : other[k] \in Int
        /\ \A k \in 1 .. n : both[k] \in Int
        /\ i \in Nat /\ j \in Nat /\ i \in 1 .. n /\ j \in 1 .. n
    BY DEF Swaps
  <1>2. /\ \A k \in 1 .. n : k # j => both[k] = term[k]
        /\ \A k \in 1 .. n : k # i => both[k] = other[k]
        /\ both[j] = other[j] /\ both[i] = term[i]
        /\ term[i] = other[j] /\ term[j] = other[i]
    BY DEF Swaps
  <1> HIDE DEF both
  <1>3. Total(both, n) = Total(term, n) + (both[j] - term[j])
    BY <1>1, <1>2, TotalsDiffer
  <1>4. Total(both, n) = Total(other, n) + (both[i] - other[i])
    BY <1>1, <1>2, TotalsDiffer
  <1>5. Total(term, n) \in Int
    <2>1. \A k \in 1 .. n : term[k] \in Int
      BY <1>1
    <2>2. \A k \in 0 .. n : Total(term, k) \in Int
      BY <2>1, TotalSteps
    <2> QED
      BY <2>2
  <1>6. Total(other, n) \in Int
    <2>1. \A k \in 1 .. n : other[k] \in Int
      BY <1>1
    <2>2. \A k \in 0 .. n : Total(other, k) \in Int
      BY <2>1, TotalSteps
    <2> QED
      BY <2>2
  <1>7. term[i] \in Int /\ term[j] \in Int
    BY <1>1
  <1> QED
    BY <1>2, <1>3, <1>4, <1>5, <1>6, <1>7

-----------------------------------------------------------------------------
(* The fold is that sum, whatever the order of its terms.                  *)

LEMMA WithinTerms ==
    ASSUME NEW n \in Nat, NEW term, \A i \in 1 .. n : term[i] \in Int, NEW set
    PROVE  \A i \in 1 .. n : Within(term, n, set)[i] \in Int
  BY DEF Within

LEMMA WithinNothing ==
    ASSUME NEW n \in Nat, NEW term, \A i \in 1 .. n : term[i] \in Int
    PROVE  Total(Within(term, n, {}), n) = 0
  <1> DEFINE none == Within(term, n, {})
  <1>1. \A i \in 1 .. n : none[i] = 0
    BY DEF Within
  <1> HIDE DEF none
  <1> DEFINE good == { k \in 0 .. n : Total(none, k) = 0 }
  <1>2. /\ Total(none, 0) = 0
        /\ \A k \in 0 .. n : Total(none, k) \in Int
        /\ \A k \in 1 .. n : Total(none, k) = Total(none, k - 1) + none[k]
    <2>1. \A i \in 1 .. n : none[i] \in Int
      BY <1>1
    <2> QED
      BY <2>1, TotalSteps
  <1>3. 0 \in good
    BY <1>2
  <1>4. \A k \in 1 .. n : k - 1 \in good => k \in good
    BY <1>1, <1>2
  <1> HIDE DEF good
  <1>5. 0 .. n \subseteq good
    BY <1>3, <1>4, InductionUpTo
  <1> QED
    BY <1>5 DEF good, none

LEMMA WithinAll ==
    ASSUME NEW n \in Nat, NEW term, \A i \in 1 .. n : term[i] \in Int
    PROVE  Total(Within(term, n, 1 .. n), n) = Total(term, n)
  <1>1. \A i \in 1 .. n : Within(term, n, 1 .. n)[i] = term[i]
    BY DEF Within
  <1> QED
    BY <1>1, TotalsAgree

(* Whichever member is taken out first: its term is what the sum loses.    *)
LEMMA WithinOneLess ==
    ASSUME NEW n \in Nat, NEW term, \A i \in 1 .. n : term[i] \in Int,
           NEW set \in SUBSET (1 .. n), NEW x \in set
    PROVE  Total(Within(term, n, set), n)
             = term[x] + Total(Within(term, n, set \ {x}), n)
  <1> DEFINE all == Within(term, n, set)
             rest == Within(term, n, set \ {x})
  <1>1. \A i \in 1 .. n : all[i] \in Int /\ rest[i] \in Int
    BY WithinTerms
  <1>2. x \in 1 .. n /\ all[x] = term[x] /\ rest[x] = 0
    BY DEF Within
  <1>3. \A i \in 1 .. n : i # x => all[i] = rest[i]
    BY DEF Within
  <1>4. x \in Nat /\ term[x] \in Int
    BY <1>2
  <1> HIDE DEF all, rest
  <1>5. Total(all, n) = Total(rest, n) + (all[x] - rest[x])
    BY <1>1, <1>2, <1>3, <1>4, TotalsDiffer
  <1>6. Total(rest, n) \in Int
    <2>1. \A i \in 1 .. n : rest[i] \in Int
      BY <1>1
    <2> QED
      BY <2>1, TotalSteps
  <1> QED
    BY <1>2, <1>4, <1>5, <1>6 DEF all, rest

LEMMA FoldExists ==
    ASSUME NEW n \in Nat, NEW term, \A i \in 1 .. n : term[i] \in Int
    PROVE  \E fold : FoldsTerms(term, n, fold)
  <1> DEFINE sum == [set \in SUBSET (1 .. n) |-> Total(Within(term, n, set), n)]
  <1>1. ASSUME NEW set \in SUBSET (1 .. n)
        PROVE  sum[set] = IF set = {} THEN 0
                          ELSE term[Chosen(set)] + sum[set \ {Chosen(set)}]
    <2>1. CASE set = {}
      BY <2>1, WithinNothing
    <2>2. CASE set # {}
      <3>1. Chosen(set) \in set
        BY <2>2 DEF Chosen
      <3>2. set \ {Chosen(set)} \in SUBSET (1 .. n)
        OBVIOUS
      <3>3. /\ sum[set] = Total(Within(term, n, set), n)
            /\ sum[set \ {Chosen(set)}] = Total(Within(term, n, set \ {Chosen(set)}), n)
        BY <3>2
      <3> HIDE DEF sum
      <3>4. Total(Within(term, n, set), n)
              = term[Chosen(set)] + Total(Within(term, n, set \ {Chosen(set)}), n)
        BY <3>1, WithinOneLess, Zenon
      <3>5. sum[set] = term[Chosen(set)] + sum[set \ {Chosen(set)}]
        BY <3>3, <3>4, Zenon
      <3> QED
        BY <2>2, <3>5
    <2> QED
      BY <2>1, <2>2
  <1>2. sum = [set \in SUBSET (1 .. n) |-> sum[set]]
    OBVIOUS
  <1> HIDE DEF sum
  <1>3. FoldsTerms(term, n, sum)
    BY <1>1, <1>2 DEF FoldsTerms
  <1> QED
    BY <1>3

FoldsToTotal(term, n, fold, k) ==
    \A set \in SUBSET (1 .. n) :
        Cardinality(set) = k => fold[set] = Total(Within(term, n, set), n)

LEMMA FoldIsTotal ==
    ASSUME NEW n \in Nat, NEW term, \A i \in 1 .. n : term[i] \in Int,
           NEW fold, FoldsTerms(term, n, fold)
    PROVE  fold[1 .. n] = Total(term, n)
  <1> DEFINE good == { k \in Nat : FoldsToTotal(term, n, fold, k) }
  <1>1. FoldsTerms(term, n, fold)
    OBVIOUS
  <1>2. \A set \in SUBSET (1 .. n) :
            /\ set = {} => fold[set] = 0
            /\ set # {} => fold[set] = term[Chosen(set)] + fold[set \ {Chosen(set)}]
    BY <1>1 DEF FoldsTerms
  <1>3. /\ IsFiniteSet(1 .. n) /\ Cardinality(1 .. n) = n
        /\ \A set \in SUBSET (1 .. n) :
            IsFiniteSet(set) /\ Cardinality(set) \in Nat /\ Cardinality(set) <= n
    <2>1. IsFiniteSet(1 .. n) /\ Cardinality(1 .. n) = n
      BY FS_Interval
    <2>2. \A set \in SUBSET (1 .. n) : IsFiniteSet(set) /\ Cardinality(set) <= n
      BY <2>1, FS_Subset
    <2>3. \A set \in SUBSET (1 .. n) : Cardinality(set) \in Nat
      BY <2>2, FS_CardinalityType
    <2> QED
      BY <2>1, <2>2, <2>3
  <1>4. 0 \in good
    <2> SUFFICES ASSUME NEW set \in SUBSET (1 .. n), Cardinality(set) = 0
                 PROVE  fold[set] = Total(Within(term, n, set), n)
      BY DEF FoldsToTotal
    <2>1. set = {}
      BY <1>3, FS_EmptySet
    <2> QED
      BY <1>2, <2>1, WithinNothing
  <1>5. \A k \in 1 .. n : k - 1 \in good => k \in good
    <2>1. SUFFICES ASSUME NEW k \in 1 .. n, FoldsToTotal(term, n, fold, k - 1)
                   PROVE  FoldsToTotal(term, n, fold, k)
      OBVIOUS
    <2>2. SUFFICES ASSUME NEW set \in SUBSET (1 .. n), Cardinality(set) = k
                   PROVE  fold[set] = Total(Within(term, n, set), n)
      BY DEF FoldsToTotal
    <2> DEFINE x == Chosen(set)
    <2>3. set # {}
      <3>1. k # 0
        OBVIOUS
      <3> QED
        BY <2>2, <3>1, FS_EmptySet
    <2>4. x \in set
      BY <2>3 DEF Chosen
    <2> HIDE DEF x
    <2>5. Cardinality(set \ {x}) = k - 1 /\ set \ {x} \in SUBSET (1 .. n)
      BY <1>3, <2>2, <2>4, FS_RemoveElement
    <2>6. fold[set \ {x}] = Total(Within(term, n, set \ {x}), n)
      BY <2>1, <2>5 DEF FoldsToTotal
    <2>7. fold[set] = term[x] + fold[set \ {x}]
      BY <1>2, <2>3 DEF x
    <2>8. \A y \in set : Total(Within(term, n, set), n)
                          = term[y] + Total(Within(term, n, set \ {y}), n)
      BY WithinOneLess, Zenon
    <2>9. Total(Within(term, n, set), n)
            = term[x] + Total(Within(term, n, set \ {x}), n)
      BY <2>4, <2>8
    <2> QED
      BY <2>6, <2>7, <2>9
  <1>6. fold[1 .. n] = Total(Within(term, n, 1 .. n), n)
    <2> HIDE DEF good
    <2>1. 0 .. n \subseteq good
      BY <1>4, <1>5, InductionUpTo
    <2>2. n \in good
      BY <2>1
    <2>3. FoldsToTotal(term, n, fold, n)
      BY <2>2 DEF good
    <2> QED
      BY <1>3, <2>3 DEF FoldsToTotal
  <1> QED
    BY <1>6, WithinAll

-----------------------------------------------------------------------------
(* Bounds, and sums in two parts.                                          *)

LEMMA TotalBounds ==
    ASSUME NEW n \in Nat, NEW term,
           \A i \in 1 .. n : term[i] \in Int /\ 0 <= term[i] /\ term[i] <= 65535
    PROVE  Total(term, n) \in Int /\ 0 <= Total(term, n) /\ Total(term, n) <= 65535 * n
  <1> DEFINE good == { k \in 0 .. n : /\ Total(term, k) \in Int
                                     /\ 0 <= Total(term, k)
                                     /\ Total(term, k) <= 65535 * k }
  <1>1. /\ Total(term, 0) = 0
        /\ \A k \in 1 .. n : Total(term, k) = Total(term, k - 1) + term[k]
    <2>1. \A i \in 1 .. n : term[i] \in Int
      OBVIOUS
    <2> QED
      BY <2>1, TotalSteps
  <1>2. 0 \in good
    BY <1>1
  <1>3. \A k \in 1 .. n : k - 1 \in good => k \in good
    BY <1>1
  <1> HIDE DEF good
  <1>4. 0 .. n \subseteq good
    BY <1>2, <1>3, InductionUpTo
  <1> QED
    BY <1>4 DEF good

(* A sum of m + n terms is the sum of the first m and that of the others.  *)
EndsWith(term, m, last, n) ==
    /\ \A i \in 1 .. m + n : term[i] \in Int
    /\ \A i \in 1 .. n : last[i] = term[m + i]

LEMMA TotalJoins ==
    ASSUME NEW m \in Nat, NEW n \in Nat, NEW term, NEW last,
           EndsWith(term, m, last, n)
    PROVE  Total(term, m + n) = Total(term, m) + Total(last, n)
  <1> DEFINE good == { k \in 0 .. n :
                        Total(term, m + k) = Total(term, m) + Total(last, k) }
  <1>a. /\ \A i \in 1 .. m + n : term[i] \in Int
        /\ \A i \in 1 .. n : last[i] = term[m + i]
    BY DEF EndsWith
  <1>1. /\ \A k \in 0 .. m + n : Total(term, k) \in Int
        /\ \A k \in 1 .. m + n : Total(term, k) = Total(term, k - 1) + term[k]
    BY <1>a, TotalSteps
  <1>2. /\ Total(last, 0) = 0
        /\ \A k \in 0 .. n : Total(last, k) \in Int
        /\ \A k \in 1 .. n : Total(last, k) = Total(last, k - 1) + last[k]
    <2>1. \A i \in 1 .. n : last[i] \in Int
      <3>1. \A i \in 1 .. n : m + i \in 1 .. m + n
        OBVIOUS
      <3> QED
        BY <1>a, <3>1
    <2> QED
      BY <2>1, TotalSteps
  <1>3. 0 \in good
    BY <1>1, <1>2
  <1>4. \A k \in 1 .. n : k - 1 \in good => k \in good
    <2> SUFFICES ASSUME NEW k \in 1 .. n, k - 1 \in good
                 PROVE  k \in good
      OBVIOUS
    <2>1. Total(term, m + k) = Total(term, m + k - 1) + term[m + k]
      <3>1. m + k \in 1 .. m + n
        OBVIOUS
      <3> QED
        BY <1>1, <3>1
    <2>2. Total(last, k) = Total(last, k - 1) + term[m + k]
      BY <1>a, <1>2
    <2>3. Total(term, m + (k - 1)) = Total(term, m) + Total(last, k - 1)
      OBVIOUS
    <2>4. m + (k - 1) = m + k - 1
      OBVIOUS
    <2>5. Total(term, m + k) = Total(term, m) + Total(last, k - 1) + term[m + k]
      BY <2>1, <2>3, <2>4
    <2>6. /\ Total(term, m) \in Int /\ Total(last, k - 1) \in Int
          /\ term[m + k] \in Int
      <3>1. m + k \in 1 .. m + n /\ m \in 0 .. m + n /\ k - 1 \in 0 .. n
        OBVIOUS
      <3> QED
        BY <1>a, <1>1, <1>2, <3>1
    <2>7. Total(term, m + k) = Total(term, m) + Total(last, k)
      BY <2>2, <2>5, <2>6
    <2> QED
      BY <2>7
  <1> HIDE DEF good
  <1>5. 0 .. n \subseteq good
    BY <1>3, <1>4, InductionUpTo
  <1> QED
    BY <1>5 DEF good
=============================================================================
