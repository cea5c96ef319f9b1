---------------------------- MODULE CommonLemmas ----------------------------
(***************************************************************************)
(* Facts that several of the proofs rest on.  Induction over the natural   *)
(* numbers, stated for a set in place of a predicate: a proof about a      *)
(* definition that recurs over a number takes for the set the numbers of   *)
(* which its claim is true.  And sequences joined end to end: where the    *)
(* parts are in the whole.                                                 *)
(***************************************************************************)
EXTENDS Integers, Sequences, FiniteSets, FiniteSetTheorems, SequenceTheorems, TLAPS

(* A set of natural numbers that is not empty has a least element: of the  *)
(* intervals from 0 to its elements, which are finite sets, one contains   *)
(* no other.                                                               *)
LEMMA LeastNumber ==
    ASSUME NEW T \in SUBSET Nat, T # {}
    PROVE  \E n \in T : \A m \in T : n <= m
  <1> DEFINE U == {0 .. n : n \in T}
             R == StrictSubsetOrdering(Nat)
             S == FiniteSubsetsOf(Nat)
  <1>1. IsWellFoundedOn(R, S)
    BY FS_StrictSubsetOrderingWellFounded
  <1>2. U \subseteq S
    <2>1. \A n \in Nat : IsFiniteSet(0 .. n) /\ 0 .. n \in SUBSET Nat
      BY FS_Interval
    <2>2. QED BY <2>1 DEF FiniteSubsetsOf
  <1>3. U # {}
    OBVIOUS
  <1> HIDE DEF U, R, S
  <1>4. PICK x \in U : \A y \in U : ~(<<y, x>> \in R)
    BY <1>1, <1>2, <1>3, WFMin
  <1>5. PICK n \in T : x = 0 .. n
    BY DEF U
  <1>6. ASSUME NEW m \in T, m < n PROVE FALSE
    <2>1. 0 .. m \in U BY DEF U
    <2>2. <<0 .. m, 0 .. n>> \in R
      <3>1. 0 .. m \subseteq 0 .. n /\ 0 .. m \in SUBSET Nat /\ 0 .. n \in SUBSET Nat
        BY <1>6
      <3>2. n \in 0 .. n /\ n \notin 0 .. m
        BY <1>6
      <3>3. QED BY <3>1, <3>2 DEF R, StrictSubsetOrdering
    <2>3. QED BY <1>4, <1>5, <2>1, <2>2
  <1>7. QED BY <1>6

(* What holds of 0, and of n + 1 whenever it holds of n, holds of every    *)
(* natural number.                                                         *)
LEMMA SetInductionOnNat ==
    ASSUME NEW S, 0 \in S, \A n \in Nat : n \in S => n + 1 \in S
    PROVE  Nat \subseteq S
  <1> DEFINE T == Nat \ S
  <1> SUFFICES ASSUME T # {} PROVE FALSE
    OBVIOUS
  <1>1. T \in SUBSET Nat
    OBVIOUS
  <1> HIDE DEF T
  <1>2. PICK n \in T : \A m \in T : n <= m
    BY <1>1, LeastNumber
  <1>3. n \in Nat /\ n # 0 /\ n \notin S
    BY DEF T
  <1>4. n - 1 \in Nat /\ n - 1 \notin T
    BY <1>2, <1>3
  <1>5. QED BY <1>3, <1>4 DEF T

(* The least of a set of natural numbers is what CHOOSE says of it.        *)
LEMMA LeastIsLeast ==
    ASSUME NEW T \in SUBSET Nat, T # {}
    PROVE  LET least == CHOOSE n \in T : \A m \in T : n =< m
           IN  least \in T /\ \A m \in T : least <= m
  BY LeastNumber

-----------------------------------------------------------------------------
(* Where the parts of a sequence are.                                      *)

\* One sequence after another.
LEMMA OneAfterAnother ==
    ASSUME NEW A, NEW a \in Seq(A), NEW b \in Seq(A)
    PROVE  /\ a \o b \in Seq(A) /\ Len(a \o b) = Len(a) + Len(b)
           /\ \A i \in 1 .. Len(a) : (a \o b)[i] = a[i]
           /\ \A i \in 1 .. Len(b) : (a \o b)[Len(a) + i] = b[i]
OBVIOUS

\* A sequence over a set is one over a larger set.
LEMMA SeqOverMore ==
    ASSUME NEW A, NEW B, A \subseteq B, NEW a \in Seq(A)
    PROVE  a \in Seq(B)
OBVIOUS

\* w is in b, after k elements.
Holds(b, k, w) == k + Len(w) <= Len(b) /\ \A i \in 1 .. Len(w) : b[k + i] = w[i]

\* Each of two sequences is in the one after the other.
LEMMA HoldsBoth ==
    ASSUME NEW A, NEW x \in Seq(A), NEW y \in Seq(A)
    PROVE  /\ x \o y \in Seq(A) /\ Len(x \o y) = Len(x) + Len(y)
           /\ Holds(x \o y, 0, x) /\ Holds(x \o y, Len(x), y)
  <1>1. /\ x \o y \in Seq(A) /\ Len(x \o y) = Len(x) + Len(y)
        /\ \A i \in 1 .. Len(x) : (x \o y)[i] = x[i]
        /\ \A i \in 1 .. Len(y) : (x \o y)[Len(x) + i] = y[i]
    BY ONLY x \in Seq(A), y \in Seq(A), OneAfterAnother
  <1>2. Len(x) \in Nat /\ Len(y) \in Nat
    OBVIOUS
  <1>3. QED BY ONLY <1>1, <1>2 DEF Holds

\* What is in a part is in the whole.
LEMMA HoldsWithin ==
    ASSUME NEW A, NEW b \in Seq(A), NEW w \in Seq(A), NEW v \in Seq(A),
           NEW k \in Nat, NEW j \in Nat, Holds(b, k, w), Holds(w, j, v)
    PROVE  Holds(b, k + j, v)
  <1>1. PICK n, m, l \in Nat : n = Len(b) /\ m = Len(w) /\ l = Len(v)
    OBVIOUS
  <1>2. /\ k + m <= n /\ \A i \in 1 .. m : b[k + i] = w[i]
        /\ j + l <= m /\ \A i \in 1 .. l : w[j + i] = v[i]
    BY ONLY <1>1, Holds(b, k, w), Holds(w, j, v) DEF Holds
  <1>3. k + j + l <= n
    BY ONLY <1>2, k \in Nat, j \in Nat, l \in Nat, n \in Nat, m \in Nat
  <1>4. ASSUME NEW i \in 1 .. l PROVE b[k + j + i] = v[i]
    <2>1. j + i \in 1 .. m /\ k + j + i = k + (j + i)
      BY <1>2
    <2>2. QED BY ONLY <1>2, <2>1, i \in 1 .. l
  <1>5. QED BY ONLY <1>1, <1>3, <1>4 DEF Holds

\* A part is taken out with SubSeq.
LEMMA HoldsPart ==
    ASSUME NEW A, NEW b \in Seq(A), NEW w \in Seq(A), NEW k \in Nat, Holds(b, k, w)
    PROVE  SubSeq(b, k + 1, k + Len(w)) = w
  <1>1. PICK n, l \in Nat : n = Len(b) /\ l = Len(w)
    OBVIOUS
  <1>2. k + l <= n /\ \A i \in 1 .. l : b[k + i] = w[i]
    BY ONLY <1>1, Holds(b, k, w) DEF Holds
  <1>3. PICK lo, hi \in Int : lo = k + 1 /\ hi = k + l
    OBVIOUS
  <1>4. \A i \in lo .. hi : b[i] \in A
    BY <1>1, <1>2, <1>3
  <1>5. /\ SubSeq(b, lo, hi) \in Seq(A)
        /\ Len(SubSeq(b, lo, hi)) = IF lo <= hi THEN hi - lo + 1 ELSE 0
        /\ \A i \in 1 .. hi - lo + 1 : SubSeq(b, lo, hi)[i] = b[lo + i - 1]
    BY ONLY <1>4, lo \in Int, hi \in Int, SubSeqProperties
  <1>6. PICK x \in Seq(A) : x = SubSeq(b, lo, hi)
    BY ONLY <1>5
  <1>7. Len(x) = l
    BY ONLY <1>3, <1>5, <1>6, k \in Nat, l \in Nat
  <1>8. ASSUME NEW i \in 1 .. l PROVE x[i] = w[i]
    <2>1. i \in 1 .. hi - lo + 1 /\ lo + i - 1 = k + i
      BY <1>3
    <2>2. QED BY ONLY <1>2, <1>5, <1>6, <2>1, i \in 1 .. l
  <1>9. x = w
    BY ONLY <1>1, <1>7, <1>8, x \in Seq(A), w \in Seq(A), SeqEqual
  <1>10. QED BY ONLY <1>1, <1>3, <1>6, <1>9
=============================================================================
