------------------------------- MODULE Theorems --------------------------------
(***************************************************************************)
(* What LockProofs and MmapProofs suppose of finite sets and of numbers,   *)
(* from the library, and the theorems about mutexes, condition variables   *)
(* and mappings that follow, for all values of the constants.              *)
(***************************************************************************)
EXTENDS LockProofs, MmapProofs, FiniteSetTheorems, WellFoundedInduction

(* Subsets of a finite set can be counted.                                 *)
LEMMA FiniteCounts ==
  ASSUME NEW U, IsFiniteSet(U)
  PROVE  CountsIn(U)
<1> SUFFICES ASSUME NEW S \in SUBSET U
             PROVE  /\ Cardinality(S) \in Nat /\ (Cardinality(S) = 0 <=> S = {})
                    /\ \A x \in U \ S : Cardinality(S \cup {x}) = Cardinality(S) + 1
                    /\ \A x \in S : Cardinality(S \ {x}) = Cardinality(S) - 1
  BY Zenon DEF CountsIn
<1>1. IsFiniteSet(S)
  BY FS_Subset, Zenon
<1>2. Cardinality(S) \in Nat /\ (Cardinality(S) = 0 <=> S = {})
  BY <1>1, FS_CardinalityType, FS_EmptySet, Zenon
<1>3. \A x \in U \ S : Cardinality(S \cup {x}) = Cardinality(S) + 1
  BY <1>1, FS_AddElement, Zenon
<1>4. \A x \in S : Cardinality(S \ {x}) = Cardinality(S) - 1
  BY <1>1, FS_RemoveElement, Zenon
<1> QED
  BY <1>2, <1>3, <1>4, Zenon

(* There are finitely many actors: a thread and its callback each.         *)
LEMMA ActorFinite == IsFiniteSet(Actor)
<1>1. IsFiniteSet({0, 1})
  <2>1. IsFiniteSet({0}) /\ IsFiniteSet({1})
    BY FS_Singleton, Zenon
  <2>2. IsFiniteSet({0} \cup {1})
    BY <2>1, FS_Union, Zenon
  <2>3. {0} \cup {1} = {0, 1}
    BY Zenon
  <2> QED
    BY <2>2, <2>3, Zenon
<1> QED
  BY <1>1, FS_Product, ThreadsAssumption, Zenon DEF Actor

LEMMA ActorsCounted == CountsIn(Actor)
BY ActorFinite, FiniteCounts, Zenon

(* A set of natural numbers that is not empty has a least element.         *)
LEMMA NatLeast ==
  ASSUME NEW T, T \subseteq Nat, T # {}
  PROVE  \E x \in T : \A y \in T : x <= y
<1>1. \A a, b \in Nat : <<a, b>> \in OpToRel(<, Nat) <=> a < b
  BY SMT DEF OpToRel
<1>2. PICK x \in T : \A y \in T : ~ (<<y, x>> \in OpToRel(<, Nat))
  BY NatLessThanWellFounded, WFMin, Zenon
<1>3. \A y \in T : ~ (y < x)
  BY <1>1, <1>2, Zenon
<1>4. \A y \in T : x <= y
  BY <1>3
<1> QED
  BY <1>4, Zenon

LEMMA PagesCounted == PageFacts
<1>1. IsFiniteSet({}) /\ Cardinality({}) = 0
  BY FS_EmptySet, Zenon
<1>2. \A a, b \in Int : IsFiniteSet(a..b) /\ Cardinality(a..b) = IF a > b THEN 0 ELSE b - a + 1
  BY FS_Interval, Zenon
<1>3. ASSUME NEW S, IsFiniteSet(S)
      PROVE  /\ Cardinality(S) \in Nat /\ (Cardinality(S) = 0 <=> S = {})
             /\ \A T : T \subseteq S =>
                  IsFiniteSet(T) /\ Cardinality(T) <= Cardinality(S) /\ (Cardinality(S) = Cardinality(T) => S = T)
             /\ \A T : /\ IsFiniteSet(S \cap T) /\ Cardinality(S \cap T) <= Cardinality(S)
                       /\ IsFiniteSet(S \ T) /\ Cardinality(S \ T) = Cardinality(S) - Cardinality(S \cap T)
  <2>1. Cardinality(S) \in Nat /\ (Cardinality(S) = 0 <=> S = {})
    BY <1>3, FS_CardinalityType, FS_EmptySet, Zenon
  <2>2. ASSUME NEW T, T \subseteq S
        PROVE  IsFiniteSet(T) /\ Cardinality(T) <= Cardinality(S) /\ (Cardinality(S) = Cardinality(T) => S = T)
    BY <1>3, <2>2, FS_Subset, Zenon
  <2>3. ASSUME NEW T
        PROVE  /\ IsFiniteSet(S \cap T) /\ Cardinality(S \cap T) <= Cardinality(S)
               /\ IsFiniteSet(S \ T) /\ Cardinality(S \ T) = Cardinality(S) - Cardinality(S \cap T)
    BY <1>3, FS_Intersection, FS_Difference, Zenon
  <2> QED
    BY <2>1, <2>2, <2>3, Zenon
<1>4. \A T : T \subseteq Nat /\ T # {} => \E x \in T : \A y \in T : x <= y
  BY NatLeast, Zenon
<1> QED
  BY <1>1, <1>2, <1>3, <1>4, Zenon DEF PageFacts
-----------------------------------------------------------------------------
(* The invariant of the mutex, which the theorems about it follow from.    *)
LEMMA Invariance == KmSpec => []Inv
<1>1. KmInit => Inv
  BY InitInv, ActorsCounted, Zenon
<1>2. Inv /\ [KmNext]_kmVars => Inv'
  BY InvInductive, ActorsCounted, Zenon
<1> QED
  BY <1>1, <1>2, PTL DEF KmSpec

(* rumpuser_mutex_enter, tryenter and exit keep every two actors out of    *)
(* the critical section at the same time, and km->owner names the one in.  *)
THEOREM MutexExcludes == KmSpec => []MutualExclusion
<1>1. Inv => MutualExclusion
  BY Zenon DEF Inv, Handover, HasRight, OwnerSet, MutualExclusion
<1> QED
  BY Invariance, <1>1, PTL

(* Whoever leaves a mutex that others wait for hands it to exactly one of  *)
(* them, even when that one has not entered the block queue yet.           *)
THEOREM MutexHandedOver == KmSpec => [](Handover /\ QueuedOnce)
<1>1. Inv => Handover /\ QueuedOnce
  BY Zenon DEF Inv
<1> QED
  BY Invariance, <1>1, PTL

(* Exclusion and handover together, for any number of threads              *)
(* (rumpuser_mutex_enter, tryenter and exit).                              *)
THEOREM MutexIsSound == KmSpec => []MutexSound
<1>1. Inv => MutexSound
  BY Zenon DEF Inv, Handover, HasRight, OwnerSet, MutualExclusion, MutexSound
<1> QED
  BY Invariance, <1>1, PTL

(* With timed waits on spin mutexes only, rumpuser_cv_wait, timedwait,     *)
(* signal and broadcast wake every waiter exactly once, and the mutex that *)
(* the waiters give up and take back keeps excluding and is handed over.   *)
THEOREM LocksAreSound ==
  ASSUME SpinTimed
  PROVE  CvSpec => []LocksSound
<1>1. CvInit => Inv /\ CvInv
  BY InitInv, CvInitInv, ActorsCounted, Zenon DEF CvInit
<1>2. (Inv /\ CvInv) /\ [CvNext]_allVars => (Inv /\ CvInv)'
  <2> SUFFICES ASSUME Inv, CvInv, [CvNext]_allVars
               PROVE  Inv' /\ CvInv'
    BY Zenon
  <2>1. [KmNext]_kmVars
    BY CvStepIsMutexStep, Zenon
  <2>2. Inv'
    BY <2>1, InvInductive, ActorsCounted, Zenon
  <2> QED
    BY <2>2, CvInvInductive, Zenon
<1>3. Inv /\ CvInv => LocksSound
  BY Zenon DEF Inv, CvInv, Handover, HasRight, OwnerSet, MutualExclusion, MutexSound, LocksSound
<1> QED
  BY <1>1, <1>2, <1>3, PTL DEF CvSpec

(* A mapping lasts until its last page is unmapped and no longer, for any  *)
(* number of threads and any amount of memory (mmapmem_alloc and           *)
(* mmapmem_free of sys_mman.c).                                            *)
THEOREM MappingsStay == MmSpec => []MappingsKept
<1>1. MmInv /\ [MmNext]_mmVars => MmInv'
  BY MmStep, PagesCounted, Zenon
<1>2. MmInv => MappingsKept
  BY Zenon DEF MmInv
<1> QED
  BY MmInitInv, <1>1, <1>2, PTL DEF MmSpec
================================================================================
