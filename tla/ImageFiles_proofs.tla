-------------------------- MODULE ImageFiles_proofs --------------------------
(***************************************************************************)
(* Facts about the image files that the proofs of their users rest on.     *)
(***************************************************************************)
EXTENDS ImageFiles, FiniteSetTheorems, WellFoundedInduction, TLAPS

\* A bounded set of numbers that is not empty has a greatest element.
LEMMA GreatestOf ==
  ASSUME NEW S \in SUBSET Nat, S # {}, NEW n \in Nat, \A s \in S : s <= n
  PROVE  \E m \in S : \A k \in S : k <= m
<1> DEFINE T == {n - s : s \in S}
<1>1. T \subseteq Nat /\ T # {}
  <2>1. ASSUME NEW s \in S PROVE n - s \in Nat
    BY s \in Nat, s <= n
  <2>2. PICK s \in S : TRUE
    OBVIOUS
  <2> QED BY <2>1, <2>2
<1>2. PICK t \in T : \A k \in T : ~ (<<k, t>> \in OpToRel(<, Nat))
  <2> HIDE DEF T
  <2> QED BY <1>1, NatLessThanWellFounded, WFMin
<1>3. PICK m \in S : t = n - m
  BY <1>2
<1>4. ASSUME NEW k \in S PROVE k <= m
  <2>1. ~ (n - k < n - m)
    BY <1>1, <1>2, <1>3 DEF OpToRel
  <2> QED BY <2>1
<1> QED BY <1>4

\* A walk over files that are not none comes to one of them last.
LEMMA LastWalked ==
  ASSUME NEW S \in SUBSET Digests, S # {}
  PROVE  \E d \in S : \A e \in S : WalkOrder[e] <= WalkOrder[d]
<1> DEFINE N == Cardinality(Digests)
           W == {WalkOrder[d] : d \in S}
<1>1. N \in Nat
  BY FilesAssumption, FS_CardinalityType
<1>2. W \in SUBSET Nat /\ W # {} /\ \A w \in W : w <= N
  <2>1. ASSUME NEW d \in S PROVE WalkOrder[d] \in 1..N
    BY FilesAssumption
  <2> HIDE DEF N
  <2> QED BY <1>1, <2>1
<1>3. \E w \in W : \A k \in W : k <= w
  <2> HIDE DEF W, N
  <2> QED BY <1>1, <1>2, GreatestOf
<1> QED BY <1>3
=============================================================================
