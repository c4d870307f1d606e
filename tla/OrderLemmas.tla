---------------------------- MODULE OrderLemmas ----------------------------
(***************************************************************************)
(* Facts about finite sets of numbers that the proofs about days           *)
(* (WatchdogProofs) and refresh times (VpnProofs) need.                    *)
(***************************************************************************)
EXTENDS Integers, FiniteSets, FiniteSetTheorems, WellFoundedInduction, TLAPS

(* A finite set of numbers that is not empty has a least element: the strict
   subset ordering of its initial segments is well-founded, and a minimal segment
   is the one up to the least element. *)
LEMMA LeastElement ==
    ASSUME NEW N \in SUBSET Nat, IsFiniteSet(N), N # {}
    PROVE  \E m \in N : \A e \in N : m <= e
<1> DEFINE UpTo(d) == {e \in N : e <= d}
           T == {U \in SUBSET N : \E d \in N : U = UpTo(d)}
<1>1. PICK x \in T : \A y \in T : ~(<<y, x>> \in StrictSubsetOrdering(N))
  <2>1. IsWellFoundedOn(StrictSubsetOrdering(N), FiniteSubsetsOf(N))
    BY FS_StrictSubsetOrderingWellFounded
  <2>2. \A d \in N : UpTo(d) \in SUBSET N /\ IsFiniteSet(UpTo(d))
    BY FS_Subset
  <2>3. T \subseteq FiniteSubsetsOf(N) /\ T # {}
    BY <2>2 DEF FiniteSubsetsOf
  <2> HIDE DEF T
  <2> QED BY <2>1, <2>3, WFMin
<1>2. PICK m \in N : x = UpTo(m)
  OBVIOUS
<1>3. ASSUME NEW e \in N, ~(m <= e) PROVE FALSE
  <2>0. e \in Nat /\ m \in Nat /\ e < m /\ \A k \in N : k \in Nat
    BY <1>3
  <2>1. UpTo(e) \in T /\ UpTo(e) \subseteq UpTo(m) /\ m \notin UpTo(e) /\ m \in UpTo(m)
    <3>1. UpTo(e) \in T
      <4>1. UpTo(e) \in SUBSET N
        OBVIOUS
      <4>2. \E d \in N : UpTo(e) = UpTo(d)
        OBVIOUS
      <4> HIDE DEF UpTo
      <4> QED BY <4>1, <4>2
    <3>2. UpTo(e) \subseteq UpTo(m)
      <4>1. \A k \in N : k <= e => k <= m
        BY <2>0
      <4> QED BY <4>1
    <3>3. m \notin UpTo(e) /\ m \in UpTo(m)
      BY <2>0
    <3> QED BY <3>1, <3>2, <3>3
  <2>2. <<UpTo(e), x>> \in StrictSubsetOrdering(N)
    BY <2>1, <1>2 DEF StrictSubsetOrdering
  <2> QED BY <1>1, <2>1, <2>2
<1> QED BY <1>3

(* It has a greatest element too: the one with the fewest elements above it. *)
LEMMA GreatestElement ==
    ASSUME NEW N \in SUBSET Nat, IsFiniteSet(N), N # {}
    PROVE  \E m \in N : \A e \in N : e <= m
<1> DEFINE Above(d) == {e \in N : e > d}
           C == {Cardinality(Above(d)) : d \in N}
<1>1. \A d : IsFiniteSet(Above(d)) /\ Cardinality(Above(d)) \in 0 .. Cardinality(N)
  <2> SUFFICES ASSUME NEW d
               PROVE  IsFiniteSet(Above(d)) /\ Cardinality(Above(d)) \in 0 .. Cardinality(N)
    OBVIOUS
  <2>1. Above(d) \in SUBSET N
    OBVIOUS
  <2> HIDE DEF Above
  <2>2. IsFiniteSet(Above(d)) /\ Cardinality(Above(d)) <= Cardinality(N)
    BY <2>1, FS_Subset
  <2> QED BY <2>2, FS_CardinalityType
<1>2. C \in SUBSET Nat /\ IsFiniteSet(C) /\ C # {}
  <2>1. C \subseteq 0 .. Cardinality(N) /\ C # {}
    <3> HIDE DEF Above
    <3> QED BY <1>1
  <2>2. Cardinality(N) \in Nat /\ 0 .. Cardinality(N) \subseteq Nat
    BY FS_CardinalityType
  <2>3. IsFiniteSet(0 .. Cardinality(N))
    BY <2>2, FS_Interval
  <2> HIDE DEF C
  <2> QED BY <2>1, <2>2, <2>3, FS_Subset
<1>3. PICK c \in C : \A k \in C : c <= k
  <2> HIDE DEF C
  <2> QED BY <1>2, LeastElement
<1>4. PICK m \in N : c = Cardinality(Above(m))
  <2> HIDE DEF Above
  <2> QED OBVIOUS
<1>5. ASSUME NEW e \in N, e > m PROVE FALSE
  <2>1. Above(e) \subseteq Above(m) /\ e \in Above(m) /\ e \notin Above(e)
    <3>1. (\A k \in N : k > e => k > m) /\ ~(e > e)
      BY <1>5
    <3>2. Above(e) \subseteq Above(m)
      BY <3>1
    <3> QED BY <1>5, <3>1, <3>2
  <2>2. Cardinality(Above(e)) < Cardinality(Above(m))
    <3>1. /\ Cardinality(Above(e)) <= Cardinality(Above(m))
          /\ Cardinality(Above(m)) # Cardinality(Above(e))
      <4> HIDE DEF Above
      <4> QED BY <1>1, <2>1, FS_Subset
    <3> HIDE DEF Above
    <3> QED BY <1>1, <3>1
  <2>3. c <= Cardinality(Above(e))
    <3>1. Cardinality(Above(e)) \in C
      <4> HIDE DEF Above
      <4> QED OBVIOUS
    <3> HIDE DEF C
    <3> QED BY <1>3, <3>1
  <2> HIDE DEF Above, C
  <2> QED BY <1>1, <1>4, <2>2, <2>3
<1> QED BY <1>5
=============================================================================
