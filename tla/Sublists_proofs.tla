--------------------------- MODULE Sublists_proofs ---------------------------
(***************************************************************************)
(* What a sublist holds: the elements at the chosen positions, each once,  *)
(* in their order.  And that a set of numbers has a smallest one, which is *)
(* what the searches of the models choose.                                 *)
(***************************************************************************)
EXTENDS Sublists, FiniteSetTheorems, SequenceTheorems, WellFoundedInduction, TLAPS

\* Positions have their ranks in order, without a gap.
LEMMA RankProperties ==
  ASSUME NEW n \in Nat, NEW I \in SUBSET (1..n)
  PROVE  /\ IsFiniteSet(I) /\ Cardinality(I) \in Nat /\ Cardinality(I) <= n
         /\ \A i \in I : Rank(I, i) \in 1..Cardinality(I)
         /\ \A i, j \in I : i < j => Rank(I, i) < Rank(I, j)
         /\ \A k \in 1..Cardinality(I) : \E i \in I : Rank(I, i) = k
<1> DEFINE upTo(i) == {j \in I : j <= i}
<1>1. IsFiniteSet(1..n) /\ Cardinality(1..n) = n BY FS_Interval
<1>2. IsFiniteSet(I) /\ Cardinality(I) <= n BY <1>1, FS_Subset
<1>3. Cardinality(I) \in Nat BY <1>2, FS_CardinalityType
<1>4. ASSUME NEW i \in I
      PROVE  Rank(I, i) \in 1..Cardinality(I) /\ IsFiniteSet(upTo(i)) /\ Cardinality(upTo(i)) \in Nat
 <2>1. IsFiniteSet(upTo(i)) /\ Cardinality(upTo(i)) <= Cardinality(I) BY <1>2, FS_Subset
 <2>2. Cardinality(upTo(i)) \in Nat BY <2>1, FS_CardinalityType
 <2>3. Cardinality(upTo(i)) # 0
  <3>1. i \in upTo(i) OBVIOUS
  <3> QED BY <2>1, <3>1, FS_EmptySet
 <2> QED BY <1>3, <2>1, <2>2, <2>3 DEF Rank
<1>5. ASSUME NEW i \in I, NEW j \in I, i < j
      PROVE  Rank(I, i) < Rank(I, j)
 <2>1. upTo(i) \in SUBSET upTo(j) /\ upTo(i) # upTo(j)
  <3>1. i \in Int /\ j \in Int /\ j \in upTo(j) /\ j \notin upTo(i) BY <1>5
  <3>2. \A k \in I : k \in Int /\ (k <= i => k <= j) BY <1>5
  <3> QED BY <3>1, <3>2
 <2>2. /\ Cardinality(upTo(i)) <= Cardinality(upTo(j))
       /\ Cardinality(upTo(i)) # Cardinality(upTo(j)) BY <1>4, <2>1, FS_Subset
 <2> QED BY <1>4, <2>2 DEF Rank
<1>6. \A k \in 1..Cardinality(I) : \E i \in I : Rank(I, i) = k
 <2> DEFINE f == [i \in I |-> Rank(I, i)]
 <2>1. f \in Injection(I, 1..Cardinality(I))
  <3>1. f \in [I -> 1..Cardinality(I)] BY <1>4
  <3>2. ASSUME NEW i \in I, NEW j \in I, f[i] = f[j] PROVE i = j
   <4>5. Rank(I, i) = Rank(I, j) BY <3>2
   <4>6. Rank(I, i) \in 1..Cardinality(I) BY <1>4
   <4>1. Rank(I, i) = Rank(I, j) /\ Rank(I, i) \in Int /\ i \in Int /\ j \in Int BY <4>5, <4>6
   <4>2. ~(Rank(I, i) < Rank(I, j)) /\ ~(Rank(I, j) < Rank(I, i)) BY <4>1
   <4>3. ~(i < j) /\ ~(j < i) BY <1>5, <4>2
   <4> QED BY <4>1, <4>3
  <3> QED BY <3>1, <3>2 DEF Injection, IsInjective
 <2>2. IsFiniteSet(1..Cardinality(I)) /\ Cardinality(1..Cardinality(I)) = Cardinality(I) BY <1>3, FS_Interval
 <2>3. f \in Surjection(I, 1..Cardinality(I)) BY <2>1, <2>2, FS_Injection
 <2> QED BY <2>3 DEF Surjection
<1> QED BY <1>2, <1>3, <1>4, <1>5, <1>6

\* The element at the chosen position i is the one at the rank of i.
LEMMA SublistProperties ==
  ASSUME NEW S, NEW s \in Seq(S), NEW I \in SUBSET (1..Len(s))
  PROVE  /\ Sublist(s, I) \in Seq(S) /\ Len(Sublist(s, I)) = Cardinality(I)
         /\ Cardinality(I) \in Nat /\ Cardinality(I) <= Len(s)
         /\ \A i \in I : Rank(I, i) \in 1..Cardinality(I) /\ Sublist(s, I)[Rank(I, i)] = s[i]
         /\ \A i, j \in I : i < j => Rank(I, i) < Rank(I, j)
         /\ \A k \in 1..Cardinality(I) : \E i \in I : Rank(I, i) = k /\ Sublist(s, I)[k] = s[i]
<1>1. Len(s) \in Nat /\ \A i \in 1..Len(s) : s[i] \in S BY LenProperties, ElementOfSeq
<1>2. /\ IsFiniteSet(I) /\ Cardinality(I) \in Nat /\ Cardinality(I) <= Len(s)
      /\ \A i \in I : Rank(I, i) \in 1..Cardinality(I)
      /\ \A i, j \in I : i < j => Rank(I, i) < Rank(I, j)
      /\ \A k \in 1..Cardinality(I) : \E i \in I : Rank(I, i) = k BY <1>1, RankProperties
<1> DEFINE at(k) == CHOOSE i \in I : Rank(I, i) = k
<1>3. \A k \in 1..Cardinality(I) : at(k) \in I /\ Rank(I, at(k)) = k BY <1>2
<1>4. \A i \in I : at(Rank(I, i)) = i
 <2> SUFFICES ASSUME NEW i \in I PROVE at(Rank(I, i)) = i OBVIOUS
 <2> DEFINE j == at(Rank(I, i))
 <2>1. j \in I /\ Rank(I, j) = Rank(I, i) BY <1>2, <1>3
 <2> HIDE DEF j
 <2>2. i \in Int /\ j \in Int /\ Rank(I, i) \in Int BY <1>1, <1>2, <2>1
 <2>6. ~(Rank(I, i) < Rank(I, j)) /\ ~(Rank(I, j) < Rank(I, i)) BY <2>1, <2>2
 <2>3. ~(i < j) /\ ~(j < i) BY <1>2, <2>1, <2>6
 <2>4. i = j BY <2>2, <2>3
 <2> QED BY <2>4 DEF j
<1>5. \A k \in 1..Cardinality(I) : at(k) \in 1..Len(s) /\ s[at(k)] \in S BY <1>1, <1>3
<1> HIDE DEF at
<1>6. Sublist(s, I) = [k \in 1..Cardinality(I) |-> s[at(k)]] BY DEF Sublist, at
<1>7. Sublist(s, I) \in Seq(S) /\ Len(Sublist(s, I)) = Cardinality(I) BY <1>2, <1>5, <1>6
<1>8. \A k \in 1..Cardinality(I) : Sublist(s, I)[k] = s[at(k)] BY <1>6
<1> QED BY <1>2, <1>3, <1>4, <1>7, <1>8

\* A set of numbers has a smallest one.
LEMMA SmallestExists ==
  ASSUME NEW T \in SUBSET Nat, T # {}
  PROVE  \E x \in T : \A y \in T : x <= y
<1> DEFINE R == {ss \in Nat \X Nat : ss[1] < ss[2]}
<1>1. IsWellFoundedOn(R, Nat) BY NatLessThanWellFounded, Zenon DEF OpToRel
<1>2. \A x, y \in Nat : <<y, x>> \in R <=> y < x OBVIOUS
<1> HIDE DEF R
<1>3. \E x \in T : \A y \in T : ~(<<y, x>> \in R) BY <1>1, WFMin
<1>4. PICK x \in T : \A y \in T : ~(<<y, x>> \in R) BY <1>3
<1>5. ASSUME NEW y \in T PROVE x <= y
 <2>1. x \in Nat /\ y \in Nat OBVIOUS
 <2>2. ~(y < x) BY <1>2, <1>4, <2>1
 <2> QED BY <2>1, <2>2
<1> QED BY <1>5
=============================================================================
