---------------------------- MODULE NaturalLemmas ----------------------------
(***************************************************************************)
(* Facts about naturals that several proofs need: the least number         *)
(* principle, which stands in for induction, and powers of two.            *)
(***************************************************************************)
EXTENDS FiniteSetTheorems, TLAPS

(* A set of naturals that is not empty has a least member.                 *)
LEMMA LeastNat ==
    ASSUME NEW T, T \subseteq Nat, T # {}
    PROVE  \E n \in T : \A m \in T : n <= m
<1>. DEFINE R == OpToRel(<, Nat)
<1>1. PICK n \in T : \A m \in T : ~(<<m, n>> \in R)
  BY NatLessThanWellFounded, WFMin, Zenon
<1>2. ASSUME NEW m \in T PROVE n <= m
  <2>1. m < n => <<m, n>> \in R
    BY Zenon DEF OpToRel
  <2>. HIDE DEF R
  <2>2. ~(<<m, n>> \in R)
    BY <1>1
  <2>3. m \in Nat /\ n \in Nat
    OBVIOUS
  <2>. QED
    BY <2>1, <2>2, <2>3
<1>. QED
  BY <1>2


(* 2^n is the number of subsets of 1 .. n, and 1 .. n + 1 has twice as     *)
(* many: those without n + 1, and as many with it.                         *)
LEMMA PowerOfTwo ==
    ASSUME NEW n \in Nat
    PROVE  2^n \in Nat /\ 2^(n + 1) = 2 * 2^n
<1>. DEFINE S == 1 .. n
            A == SUBSET S
            B == {T \cup {n + 1} : T \in A}
<1>1. IsFiniteSet(S) /\ Cardinality(S) = n
  BY FS_Interval
<1>2. IsFiniteSet(1 .. n + 1) /\ Cardinality(1 .. n + 1) = n + 1
  BY FS_Interval
<1>3. IsFiniteSet(A) /\ Cardinality(A) = 2^n
  BY <1>1, FS_SUBSET
<1>4. Cardinality(SUBSET (1 .. n + 1)) = 2^(n + 1)
  BY <1>2, FS_SUBSET
<1>5. n + 1 \notin S /\ 1 .. n + 1 = S \cup {n + 1}
  OBVIOUS
<1>6. SUBSET (1 .. n + 1) = A \cup B
  <2>1. ASSUME NEW U \in SUBSET (1 .. n + 1), n + 1 \in U PROVE U \in B
    <3>1. U \ {n + 1} \in A /\ U = (U \ {n + 1}) \cup {n + 1}
      BY <1>5, <2>1
    <3>. QED
      BY <3>1
  <2>2. ASSUME NEW U \in SUBSET (1 .. n + 1), n + 1 \notin U PROVE U \in A
    BY <1>5, <2>2
  <2>3. A \cup B \subseteq SUBSET (1 .. n + 1)
    BY <1>5
  <2>. QED
    BY <2>1, <2>2, <2>3
<1>7. A \cap B = {}
  BY <1>5
<1>8. ExistsBijection(A, B)
  <2>. DEFINE f == [T \in A |-> T \cup {n + 1}]
  <2>1. f \in [A -> B] /\ \A b \in B : \E T \in A : f[T] = b
    OBVIOUS
  <2>2. ASSUME NEW T \in A, NEW U \in A, f[T] = f[U] PROVE T = U
    <3>1. n + 1 \notin T /\ n + 1 \notin U /\ T \cup {n + 1} = U \cup {n + 1}
      BY <1>5, <2>2
    <3>. QED
      BY <3>1
  <2>. HIDE DEF f, A, B
  <2>. QED
    BY <2>1, <2>2 DEF ExistsBijection, Bijection, Injection, Surjection, IsInjective
<1>9. IsFiniteSet(B) /\ Cardinality(B) = Cardinality(A)
  BY <1>3, <1>8, FS_Bijection
<1>10. Cardinality(A) \in Nat
  BY <1>3, FS_CardinalityType
<1>. HIDE DEF S, A, B
<1>11. Cardinality(A \cup B) = Cardinality(A) + Cardinality(B)
  BY <1>3, <1>7, <1>9, <1>10, FS_Union, FS_EmptySet
<1>12. Cardinality(A \cup B) = 2^(n + 1)
  BY <1>4, <1>6, Zenon
<1>. DEFINE a == 2^n
            b == 2^(n + 1)
<1>13. a \in Nat /\ b = a + a
  BY <1>3, <1>9, <1>10, <1>11, <1>12, Zenon
<1>. HIDE DEF a, b
<1>14. a \in Nat /\ b = 2 * a
  BY <1>13
<1>. QED
  BY <1>14, Zenon DEF a, b

=============================================================================
