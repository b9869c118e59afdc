------------------------------ MODULE LockProofs -------------------------------
(***************************************************************************)
(* Proofs about mutexes and condition variables, for any finite set of     *)
(* threads.  Module Theorems draws the conclusions.                        *)
(***************************************************************************)
EXTENDS CondVar, TLAPS

(* Counting the subsets of U.  It holds of every finite U; module Theorems *)
(* shows it from the library, which a module that extends it hands to the  *)
(* provers as a whole with every step.                                     *)
CountsIn(U) ==
  \A S \in SUBSET U :
    /\ Cardinality(S) \in Nat /\ (Cardinality(S) = 0 <=> S = {})
    /\ \A x \in U \ S : Cardinality(S \cup {x}) = Cardinality(S) + 1
    /\ \A x \in S : Cardinality(S \ {x}) = Cardinality(S) - 1
-----------------------------------------------------------------------------
(* Kernel mutexes.                                                         *)

LEMMA ActorParts ==
  /\ \A t \in Threads : /\ Self(t) \in Actor /\ Cb(t) \in Actor
                        /\ Self(t) # Cb(t)
                        /\ Self(t)[1] = t /\ Cb(t)[1] = t
  /\ \A t, u \in Threads : Self(t) # Cb(u)
  /\ \A t, u \in Threads : Self(t) = Self(u) => t = u
  /\ \A a \in Actor : a[1] \in Threads /\ (a = Self(a[1]) \/ a = Cb(a[1]))
BY DEF Actor, Self, Cb

(* Counting the users of the mutex when one comes, goes or is replaced.    *)
LEMMA CountUsers ==
  ASSUME CountsIn(Actor), NEW U \in SUBSET Actor, NEW a \in Actor
  PROVE  /\ Cardinality(U) \in Nat
         /\ a \notin U => Cardinality(U \cup {a}) = Cardinality(U) + 1
         /\ a \in U => /\ Cardinality(U \ {a}) = Cardinality(U) - 1
                       /\ Cardinality(U) # 0
         /\ Cardinality(U) = 0 <=> U = {}
BY Zenon DEF CountsIn

(* The inductive invariant: types, the handover of the right to the mutex, *)
(* the block queue, and the owner field.                                   *)
OwnerSet ==
  /\ \A a \in Actor : pc[a] = "held" => owner = a[1]
  /\ owner # KmNone => \E a \in Actor : pc[a] = "held"

Inv == MutexTypeOK /\ Handover /\ QueuedOnce /\ OwnerSet

LEMMA InitInv ==
  ASSUME CountsIn(Actor)
  PROVE  KmInit => Inv
<1> SUFFICES ASSUME KmInit PROVE Inv
  OBVIOUS
<1>1. Users = {}
  BY DEF KmInit, Users
<1>2. Cardinality(Users) = 0
  BY <1>1, Zenon DEF CountsIn
<1>3. MutexTypeOK
  BY ActorParts DEF KmInit, MutexTypeOK
<1>4. Handover
  BY <1>2, ActorParts DEF KmInit, Handover, HasRight, Holding
<1>5. QueuedOnce /\ OwnerSet
  BY ActorParts DEF KmInit, QueuedOnce, OwnerSet
<1> QED
  BY <1>3, <1>4, <1>5 DEF Inv

(* Types are preserved.                                                    *)
LEMMA TypeInductive == Inv /\ [KmNext]_kmVars => MutexTypeOK'
<1> SUFFICES ASSUME Inv, [KmNext]_kmVars PROVE MutexTypeOK'
  OBVIOUS
<1> USE ActorParts DEF Inv, MutexTypeOK, Handover, Goto, Wake, mutexVars
<1>1. ASSUME NEW t \in Threads, KmEnter(t) PROVE MutexTypeOK'
  BY <1>1 DEF KmEnter
<1>2. ASSUME NEW t \in Threads, TryEnter(t) PROVE MutexTypeOK'
  BY <1>2 DEF TryEnter
<1>3. ASSUME NEW t \in Threads, KmCallback(t) PROVE MutexTypeOK'
  <2>1. queued[t] = 0
    BY <1>3 DEF KmCallback
  <2>2. /\ pc' = [pc EXCEPT ![Self(t)] = "off"]
        /\ counter' = counter /\ owner' = owner
    BY <1>3 DEF KmCallback
  <2>3. pend' \in 0..1 /\ bq' \in Seq(Threads) /\ queued' \in [Threads -> 0..1]
    <3>1. CASE SomePending
      BY <1>3, <2>1, <3>1 DEF KmCallback, SomePending, Taken
    <3>2. CASE ~SomePending
      <4>1. bq' = Append(bq, t) /\ pend' = pend /\ queued' = queued
        BY <1>3, <3>2 DEF KmCallback, KmEnqueued
      <4>2. Append(bq, t) \in Seq(Threads)
        OBVIOUS
      <4> QED
        BY <4>1, <4>2
    <3> QED
      BY <3>1, <3>2
  <2> QED
    BY <2>2, <2>3
<1>4. ASSUME NEW t \in Threads, Resume(t) PROVE MutexTypeOK'
  BY <1>4 DEF Resume
<1>5. ASSUME NEW t \in Threads, SetOwner(t) PROVE MutexTypeOK'
  BY <1>5 DEF SetOwner
<1>6. ASSUME NEW t \in Threads, PassToCallback(t) PROVE MutexTypeOK'
  BY <1>6 DEF PassToCallback
<1>7. ASSUME NEW a \in Actor, ExitClear(a) PROVE MutexTypeOK'
  BY <1>7 DEF ExitClear
<1>8. ASSUME NEW a \in Actor, ExitSub(a) PROVE MutexTypeOK'
  <2>1. HasRight(a)
    BY <1>8 DEF ExitSub, HasRight, Holding
  <2>2. counter # 0
    BY <2>1
  <2> QED
    BY <1>8, <2>2 DEF ExitSub
<1>9. ASSUME NEW a \in Actor, ExitWake(a) PROVE MutexTypeOK'
  <2>1. HasRight(a) /\ pend = 0
    BY <1>9 DEF ExitWake, HasRight
  <2>2. CASE bq # <<>>
    <3>1. Head(bq) \in Threads /\ Tail(bq) \in Seq(Threads) /\ bq[1] = Head(bq)
          /\ 1 \in 1..Len(bq)
      BY <2>2
    <3>2. queued[Head(bq)] = 0
      BY <3>1 DEF QueuedOnce
    <3>3. /\ bq' = Tail(bq) /\ pend' = pend
          /\ queued' = [queued EXCEPT ![Head(bq)] = @ + 1]
          /\ pc' = [pc EXCEPT ![a] = "out"]
          /\ counter' = counter /\ owner' = owner
      BY <1>9, <2>2 DEF ExitWake, RestOfQueue
    <3>4. queued' \in [Threads -> 0..1]
      BY <3>1, <3>2, <3>3
    <3> QED
      BY <3>1, <3>3, <3>4
  <2>3. CASE bq = <<>>
    BY <1>9, <2>1, <2>3 DEF ExitWake
  <2> QED
    BY <2>2, <2>3
<1>10. CASE UNCHANGED kmVars
  BY <1>10 DEF kmVars
<1> QED
  BY <1>1, <1>2, <1>3, <1>4, <1>5, <1>6, <1>7, <1>8, <1>9, <1>10 DEF KmNext, Exit

(* The counter counts the holder and the waiters.                          *)
LEMMA CountInductive ==
  ASSUME CountsIn(Actor)
  PROVE  Inv /\ [KmNext]_kmVars => (counter = Cardinality(Users))'
<1> SUFFICES ASSUME Inv, [KmNext]_kmVars PROVE counter' = Cardinality(Users')
  OBVIOUS
<1>0. /\ counter \in Nat /\ counter = Cardinality(Users)
      /\ Users \in SUBSET Actor
      /\ pc \in [Actor -> {"out", "switch", "off", "got", "held", "exit", "wake"}]
  BY DEF Inv, MutexTypeOK, Handover, Users
<1>1. ASSUME NEW t \in Threads, KmEnter(t) \/ TryEnter(t)
      PROVE  counter' = Cardinality(Users')
  <2>1. Self(t) \notin Users /\ Users' = Users \cup {Self(t)}
    BY <1>0, <1>1, ActorParts DEF KmEnter, TryEnter, Users, Goto
  <2>2. counter' = counter + 1
    BY <1>0, <1>1 DEF KmEnter, TryEnter
  <2> QED
    BY <1>0, <2>1, <2>2, CountUsers, ActorParts
<1>2. ASSUME NEW t \in Threads, KmCallback(t) \/ Resume(t) \/ SetOwner(t)
      PROVE  counter' = Cardinality(Users')
  <2>1. Users' = Users /\ counter' = counter
    BY <1>0, <1>2, ActorParts
       DEF KmCallback, Resume, SetOwner, Users, Goto, mutexVars
  <2> QED
    BY <1>0, <2>1
<1>3. ASSUME NEW t \in Threads, PassToCallback(t)
      PROVE  counter' = Cardinality(Users')
  <2> DEFINE U == Users \cup {Cb(t)}
  <2>1. /\ Cb(t) \notin Users /\ Self(t) \in U /\ U \in SUBSET Actor
        /\ Users' = U \ {Self(t)} /\ counter' = counter
    BY <1>0, <1>3, ActorParts DEF PassToCallback, Users, mutexVars
  <2>2. Cardinality(U) = Cardinality(Users) + 1
    BY <1>0, <2>1, CountUsers, ActorParts
  <2>3. Cardinality(U \ {Self(t)}) = Cardinality(U) - 1
    BY <2>1, CountUsers, ActorParts
  <2> HIDE DEF U
  <2> QED
    BY <1>0, <2>1, <2>2, <2>3
<1>4. ASSUME NEW a \in Actor, ExitClear(a) \/ ExitWake(a)
      PROVE  counter' = Cardinality(Users')
  <2>1. Users' = Users /\ counter' = counter
    BY <1>0, <1>4 DEF ExitClear, ExitWake, Users, Goto
  <2> QED
    BY <1>0, <2>1
<1>5. ASSUME NEW a \in Actor, ExitSub(a)
      PROVE  counter' = Cardinality(Users')
  <2>1. a \in Users /\ Users' = Users \ {a}
    BY <1>0, <1>5 DEF ExitSub, Users, Goto
  <2>2. counter' = counter - 1
    BY <1>5 DEF ExitSub
  <2> QED
    BY <1>0, <2>1, <2>2, CountUsers
<1>6. CASE UNCHANGED kmVars
  BY <1>0, <1>6, SMTT(30) DEF kmVars, Users
<1> QED
  BY <1>1, <1>2, <1>3, <1>4, <1>5, <1>6 DEF KmNext, Exit

(* The right to the mutex stays in one place.                              *)
LEMMA HandoverInductive ==
  ASSUME CountsIn(Actor)
  PROVE  Inv /\ [KmNext]_kmVars => Handover'
<1> SUFFICES ASSUME Inv, [KmNext]_kmVars PROVE Handover'
  OBVIOUS
<1>0. (counter = Cardinality(Users))' /\ MutexTypeOK'
  BY CountInductive, TypeInductive
<1> USE ActorParts, <1>0
    DEF Inv, MutexTypeOK, Handover, Goto, Wake, HasRight, Holding, mutexVars
<1>1. ASSUME NEW t \in Threads, KmEnter(t) PROVE Handover'
  <2>1. CASE counter = 0
    BY <1>1, <2>1 DEF KmEnter, Free
  <2>2. CASE counter # 0
    BY <1>1, <2>2 DEF KmEnter, Free
  <2> QED
    BY <2>1, <2>2
<1>2. ASSUME NEW t \in Threads, TryEnter(t) PROVE Handover'
  BY <1>2 DEF TryEnter
<1>3. ASSUME NEW t \in Threads, KmCallback(t) PROVE Handover'
  <2>1. CASE SomePending
    BY <1>3, <2>1 DEF KmCallback, SomePending, Taken
  <2>2. CASE ~SomePending
    BY <1>3, <2>2 DEF KmCallback, SomePending, KmEnqueued
  <2> QED
    BY <2>1, <2>2
<1>4. ASSUME NEW t \in Threads, Resume(t) PROVE Handover'
  BY <1>4 DEF Resume
<1>5. ASSUME NEW t \in Threads, SetOwner(t) PROVE Handover'
  BY <1>5 DEF SetOwner
<1>6. ASSUME NEW t \in Threads, PassToCallback(t) PROVE Handover'
  BY <1>6 DEF PassToCallback
<1>7. ASSUME NEW a \in Actor, ExitClear(a) PROVE Handover'
  BY <1>7 DEF ExitClear
<1>8. ASSUME NEW a \in Actor, ExitSub(a) PROVE Handover'
  BY <1>8 DEF ExitSub, Last
<1>9. ASSUME NEW a \in Actor, ExitWake(a) PROVE Handover'
  <2>1. CASE bq # <<>>
    <3>1. PICK h \in Threads : h = Head(bq) /\ bq[1] = h /\ 1 \in 1..Len(bq)
      BY <2>1
    <3>2. queued[h] = 0 /\ pc[Self(h)] = "off"
      BY <3>1 DEF QueuedOnce
    <3>3. /\ queued' = [queued EXCEPT ![h] = @ + 1] /\ pend' = pend
          /\ pc' = [pc EXCEPT ![a] = "out"] /\ counter' = counter
          /\ pc[a] = "wake"
      BY <1>9, <2>1, <3>1 DEF ExitWake
    <3>4. pend = 0 /\ counter # 0 /\ \A b \in Actor : HasRight(b) => b = a
      BY <3>3
    <3>5. HasRight(Self(h))'
      BY <3>1, <3>2, <3>3
    <3>6. ASSUME NEW b \in Actor, HasRight(b)' PROVE b = Self(h)
      <4>1. b # a /\ pc'[b] = pc[b] /\ b[1] \in Threads
        BY <3>1, <3>2, <3>3, <3>6
      <4>2. pc[b] = "off" /\ queued'[b[1]] = 1 /\ queued[b[1]] # 1
        BY <3>4, <3>6, <4>1
      <4>3. b[1] = h /\ b # Cb(b[1])
        BY <3>1, <3>3, <4>1, <4>2
      <4> QED
        BY <4>1, <4>3
    <3>7. \A t \in Threads : queued'[t] = 1 => pc'[Self(t)] = "off"
      BY <3>1, <3>2, <3>3
    <3> QED
      BY <3>1, <3>3, <3>4, <3>5, <3>6, <3>7
  <2>2. CASE bq = <<>>
    BY <1>9, <2>2 DEF ExitWake
  <2> QED
    BY <2>1, <2>2
<1>10. CASE UNCHANGED kmVars
  BY <1>10, SMTT(30) DEF kmVars
<1> QED
  BY <1>1, <1>2, <1>3, <1>4, <1>5, <1>6, <1>7, <1>8, <1>9, <1>10 DEF KmNext, Exit

(* The block queue holds the waiting threads, once each.                   *)
LEMMA QueueInductive == Inv /\ [KmNext]_kmVars => QueuedOnce'
<1> SUFFICES ASSUME Inv, [KmNext]_kmVars PROVE QueuedOnce'
  OBVIOUS
<1> USE ActorParts DEF Inv, MutexTypeOK, QueuedOnce, Goto, Wake, mutexVars
<1>1. ASSUME NEW t \in Threads, KmEnter(t) \/ TryEnter(t) \/ SetOwner(t)
      PROVE  QueuedOnce'
  BY <1>1 DEF KmEnter, TryEnter, SetOwner
<1>2. ASSUME NEW t \in Threads, Resume(t) \/ PassToCallback(t) PROVE QueuedOnce'
  BY <1>2 DEF Resume, PassToCallback
<1>3. ASSUME NEW t \in Threads, KmCallback(t) PROVE QueuedOnce'
  <2>1. queued[t] = 0
    BY <1>3 DEF KmCallback, Handover
  <2>2. CASE SomePending
    BY <1>3, <2>1, <2>2 DEF KmCallback, SomePending
  <2>3. CASE ~SomePending
    <3>1. /\ bq' = Append(bq, t) /\ queued' = queued
          /\ pc[Self(t)] = "switch" /\ pc' = [pc EXCEPT ![Self(t)] = "off"]
      BY <1>3, <2>3 DEF KmCallback, KmEnqueued
    <3>2. /\ Len(bq') = Len(bq) + 1 /\ bq'[Len(bq) + 1] = t
          /\ \A i \in 1..Len(bq) : bq'[i] = bq[i] /\ bq[i] # t
      BY <3>1, SMTT(30)
    <3>3. \A i, j \in 1..Len(bq') : bq'[i] = bq'[j] => i = j
      BY <3>2
    <3>4. ASSUME NEW u \in Threads
          PROVE  (\E i \in 1..Len(bq') : bq'[i] = u)
                   <=> (pc'[Self(u)] = "off" /\ queued'[u] = 0)
      <4>1. CASE u = t
        BY <2>1, <3>1, <3>2, <4>1
      <4>2. CASE u # t
        <5>1. pc'[Self(u)] = pc[Self(u)] /\ queued'[u] = queued[u]
          BY <3>1, <4>2
        <5>2. (\E i \in 1..Len(bq') : bq'[i] = u) <=> \E i \in 1..Len(bq) : bq[i] = u
          BY <3>2, <4>2
        <5> QED
          BY <5>1, <5>2
      <4> QED
        BY <4>1, <4>2
    <3> QED
      BY <3>3, <3>4
  <2> QED
    BY <2>2, <2>3
<1>4. ASSUME NEW a \in Actor, ExitClear(a) \/ ExitSub(a) PROVE QueuedOnce'
  BY <1>4 DEF ExitClear, ExitSub
<1>5. ASSUME NEW a \in Actor, ExitWake(a) PROVE QueuedOnce'
  <2>1. CASE bq # <<>>
    <3>1. PICK h \in Threads : h = Head(bq) /\ bq[1] = h /\ 1 \in 1..Len(bq)
      BY <2>1
    <3>2. /\ queued' = [queued EXCEPT ![h] = @ + 1] /\ bq' = Tail(bq)
          /\ pc[a] = "wake" /\ pc' = [pc EXCEPT ![a] = "out"]
      BY <1>5, <2>1, <3>1 DEF ExitWake, RestOfQueue
    <3>3. /\ Len(bq') = Len(bq) - 1
          /\ \A i \in 1..Len(bq') : bq'[i] = bq[i + 1] /\ i + 1 \in 1..Len(bq)
      BY <2>1, <3>1, <3>2
    <3>4. \A i, j \in 1..Len(bq') : bq'[i] = bq'[j] => i = j
      BY <3>3, SMTT(30)
    <3>5. ASSUME NEW u \in Threads
          PROVE  (\E i \in 1..Len(bq') : bq'[i] = u)
                   <=> (pc'[Self(u)] = "off" /\ queued'[u] = 0)
      <4>1. CASE u = h
        <5>1. queued'[u] # 0
          BY <3>1, <3>2, <4>1
        <5>2. \A i \in 1..Len(bq') : bq'[i] # u
          BY <3>1, <3>3, <4>1
        <5> QED
          BY <5>1, <5>2
      <4>2. CASE u # h
        <5>1. queued'[u] = queued[u] /\ (pc'[Self(u)] = "off" <=> pc[Self(u)] = "off")
          <6>1. queued'[u] = queued[u]
            BY <3>2, <4>2
          <6>2. pc'[Self(u)] = IF Self(u) = a THEN "out" ELSE pc[Self(u)]
            BY <3>2
          <6> QED
            BY <3>2, <6>1, <6>2
        <5>2. ASSUME NEW i \in 1..Len(bq), bq[i] = u
              PROVE  \E j \in 1..Len(bq') : bq'[j] = u
          <6>1. i # 1 /\ i - 1 \in 1..Len(bq')
            BY <3>1, <3>3, <4>2, <5>2
          <6>2. bq'[i - 1] = u
            BY <3>3, <5>2, <6>1
          <6> QED
            BY <6>1, <6>2
        <5>3. ASSUME NEW i \in 1..Len(bq'), bq'[i] = u
              PROVE  \E j \in 1..Len(bq) : bq[j] = u
          BY <3>3, <5>3
        <5> QED
          BY <5>1, <5>2, <5>3
      <4> QED
        BY <4>1, <4>2
    <3> QED
      BY <3>4, <3>5
  <2>2. CASE bq = <<>>
    BY <1>5, <2>2 DEF ExitWake
  <2> QED
    BY <2>1, <2>2
<1>6. CASE UNCHANGED kmVars
  BY <1>6, SMTT(30) DEF kmVars
<1> QED
  BY <1>1, <1>2, <1>3, <1>4, <1>5, <1>6 DEF KmNext, Exit

(* The owner field names who is in the critical section.                   *)
LEMMA OwnerInductive == Inv /\ [KmNext]_kmVars => OwnerSet'
<1> SUFFICES ASSUME Inv, [KmNext]_kmVars PROVE OwnerSet'
  OBVIOUS
<1>0. \A a, b \in Actor : pc[a] \in Holding /\ pc[b] \in Holding => a = b
  BY DEF Inv, Handover, HasRight
<1> USE ActorParts, <1>0 DEF Inv, MutexTypeOK, OwnerSet, Goto, Holding, mutexVars
<1>1. ASSUME NEW t \in Threads, KmEnter(t) \/ TryEnter(t) \/ KmCallback(t) \/ Resume(t)
      PROVE  OwnerSet'
  BY <1>1 DEF KmEnter, TryEnter, KmCallback, Resume
<1>2. ASSUME NEW t \in Threads, SetOwner(t) PROVE OwnerSet'
  BY <1>2 DEF SetOwner
<1>3. ASSUME NEW t \in Threads, PassToCallback(t) PROVE OwnerSet'
  BY <1>3 DEF PassToCallback
<1>4. ASSUME NEW a \in Actor, ExitClear(a) PROVE OwnerSet'
  BY <1>4 DEF ExitClear
<1>5. ASSUME NEW a \in Actor, ExitSub(a) \/ ExitWake(a) PROVE OwnerSet'
  BY <1>5 DEF ExitSub, ExitWake
<1>6. CASE UNCHANGED kmVars
  BY <1>6 DEF kmVars
<1> QED
  BY <1>1, <1>2, <1>3, <1>4, <1>5, <1>6 DEF KmNext, Exit

LEMMA InvInductive ==
  ASSUME CountsIn(Actor)
  PROVE  Inv /\ [KmNext]_kmVars => Inv'
BY TypeInductive, HandoverInductive, QueueInductive, OwnerInductive DEF Inv

-----------------------------------------------------------------------------
(* Condition variables and the mutex they are used with.  The inductive    *)
(* invariant adds to SleepersTracked where a thread is while it waits,     *)
(* and that whoever is on the list has not been signalled yet.             *)

CvTypeOK ==
  /\ spin \in 0..1
  /\ waiters \in Seq(Threads)
  /\ signalled \in [Threads -> 0..1]
  /\ cv \in [Threads -> {"none", "insert", "sleep", "enter", "bcast"}]
  /\ timed \in [Threads -> 0..1]
  /\ cvTimedout \in [Threads -> 0..1]
  /\ cvTimeq \in SUBSET Threads
  /\ woken \in [Threads -> 0..1]

WaitPlaces ==
  \A t \in Threads :
    /\ cv[t] \in {"insert", "sleep"} => pc[Self(t)] = "out"
    /\ cv[t] = "bcast" => pc[Self(t)] = "held"
    /\ cv[t] = "insert" => /\ pc[Cb(t)] = "held" /\ timed[t] = 1
                           /\ signalled[t] = 0 /\ cvTimedout[t] = 0
    /\ cv[t] = "sleep" /\ timed[t] = 0 => cvTimedout[t] = 0
    /\ pc[Self(t)] \in {"switch", "off"} => spin = 0
    /\ spin = 0 => timed[t] = 0

ListedFresh ==
  \A i \in 1..Len(waiters) :
    /\ signalled[waiters[i]] = 0
    /\ cv[waiters[i]] = "enter" => timed[waiters[i]] = 1 /\ cvTimedout[waiters[i]] = 1

CvInv == CvTypeOK /\ SleepersTracked /\ WaitPlaces /\ ListedFresh

(* Timed waits are used with spin mutexes only.                            *)
SpinTimed == 0 \notin TimedKinds

(* A step of a thread that uses condition variables is a step of the mutex *)
(* or leaves it alone: nobody else puts a thread on the run queue that is  *)
(* blocked for the mutex.                                                  *)
LEMMA CvStepIsMutexStep == Inv /\ CvInv /\ [CvNext]_allVars => [KmNext]_kmVars
<1> SUFFICES ASSUME Inv, CvInv, [CvNext]_allVars PROVE [KmNext]_kmVars
  OBVIOUS
<1>1. ASSUME NEW t \in Threads, EnterMutex(t) \/ TryMutex(t) \/ BlockForMutex(t)
      PROVE  [KmNext]_kmVars
  BY <1>1 DEF EnterMutex, TryMutex, BlockForMutex, KmNext
<1>2. ASSUME NEW t \in Threads, BackFromBlock(t) PROVE [KmNext]_kmVars
  <2>1. woken[t] = 0
    BY <1>2 DEF BackFromBlock, CvInv, SleepersTracked, WaitPlaces
  <2>2. queued[t] > 0
    BY <1>2, <2>1 DEF BackFromBlock, Inv, MutexTypeOK
  <2>3. Resume(t)
    BY <1>2, <2>2 DEF BackFromBlock, Resume
  <2> QED
    BY <2>3 DEF KmNext
<1>3. ASSUME NEW t \in Threads, HoldMutex(t) \/ Wait(t) PROVE [KmNext]_kmVars
  BY <1>3 DEF HoldMutex, Wait, KmNext
<1>4. ASSUME NEW t \in Threads, ExitMutex(t) \/ CallbackExit(t) PROVE [KmNext]_kmVars
  BY <1>4, ActorParts DEF ExitMutex, CallbackExit, KmNext
<1>5. ASSUME NEW t \in Threads,
             CallbackInsert(t) \/ Timeout(t) \/ Woken(t) \/ BroadcastEnd(t)
      PROVE  [KmNext]_kmVars
  BY <1>5 DEF CallbackInsert, Timeout, Woken, BroadcastEnd
<1>6. ASSUME NEW t \in Threads, Signal(t) \/ Broadcast(t) PROVE [KmNext]_kmVars
  BY <1>6 DEF Signal, Broadcast
<1>7. CASE UNCHANGED allVars
  BY <1>7 DEF allVars
<1> QED
  BY <1>1, <1>2, <1>3, <1>4, <1>5, <1>6, <1>7 DEF CvNext, Proceed

LEMMA CvInitInv == CvInit => CvInv
<1> SUFFICES ASSUME CvInit PROVE CvInv
  OBVIOUS
<1>1. CvTypeOK
  BY KindsAssumption DEF CvInit, CvTypeOK
<1>2. SleepersTracked /\ ListedFresh
  BY DEF CvInit, SleepersTracked, ListedFresh
<1>3. WaitPlaces
  BY ActorParts DEF CvInit, KmInit, WaitPlaces
<1> QED
  BY <1>1, <1>2, <1>3 DEF CvInv

LEMMA QueuedType == Inv => queued \in [Threads -> 0..1]
BY DEF Inv, MutexTypeOK

LEMMA OneHolds == Inv => \A a, b \in Actor : pc[a] = "held" /\ pc[b] = "held" => a = b
BY DEF Inv, Handover, HasRight, Holding

LEMMA CvStill ==
  CvInv /\ UNCHANGED cvVars /\ WaitPlaces' => CvInv'
<1> SUFFICES ASSUME CvInv, UNCHANGED cvVars, WaitPlaces' PROVE CvInv'
  OBVIOUS
<1>1. CvTypeOK'
  BY DEF CvInv, CvTypeOK, cvVars
<1>2. SleepersTracked'
  BY DEF CvInv, SleepersTracked, cvVars
<1>3. ListedFresh'
  BY DEF CvInv, ListedFresh, cvVars
<1> QED
  BY <1>1, <1>2, <1>3 DEF CvInv

(* The invariant survives a step of the mutex itself that leaves the       *)
(* condition variable alone.                                               *)
LEMMA CvMutexSteps ==
  ASSUME Inv, CvInv, NEW t \in Threads,
         \/ EnterMutex(t) \/ TryMutex(t) \/ BlockForMutex(t) \/ BackFromBlock(t)
         \/ ExitMutex(t) \/ CallbackExit(t)
  PROVE  CvInv'
<1>t. CvTypeOK /\ SleepersTracked /\ WaitPlaces /\ ListedFresh
  BY DEF CvInv
<1>a. pc \in [Actor -> {"out", "switch", "off", "got", "held", "exit", "wake"}]
  BY DEF Inv, MutexTypeOK
<1>1. ASSUME EnterMutex(t) PROVE CvInv'
  <2>1. /\ spin = 0 /\ cv[t] \in {"none", "enter"}
        /\ pc[Self(t)] = "out" /\ timed[t] = 0
        /\ pc' = [pc EXCEPT ![Self(t)] = IF Free(counter) THEN "got" ELSE "switch"]
        /\ UNCHANGED <<spin, waiters, signalled, cv, timed, cvTimeq, woken>>
    BY <1>t, <1>1 DEF CvTypeOK, EnterMutex, Wants, KmEnter, Goto, WaitPlaces
  <2>2. /\ cvTimedout' \in [Threads -> 0..1]
        /\ \A u \in Threads : u # t => cvTimedout'[u] = cvTimedout[u]
    BY <1>t, <1>1 DEF CvTypeOK, EnterMutex
  <2>3. CvTypeOK'
    BY <1>t, <2>1, <2>2 DEF CvTypeOK
  <2>4. SleepersTracked'
    BY <1>t, <2>1, <2>2 DEF CvTypeOK, SleepersTracked
  <2>5. WaitPlaces'
    BY <1>t, <1>a, ActorParts, <2>1, <2>2 DEF CvTypeOK, WaitPlaces
  <2>6. ListedFresh'
    <3>1. \A i \in 1..Len(waiters) : waiters[i] \in Threads
      BY <1>t DEF CvTypeOK
    <3>2. \A i \in 1..Len(waiters) : cv[waiters[i]] = "enter" => waiters[i] # t
      BY <1>t, <2>1, <3>1 DEF CvTypeOK, ListedFresh
    <3> QED
      BY <1>t, <2>1, <2>2, <3>1, <3>2 DEF CvTypeOK, ListedFresh
  <2> QED
    BY <2>3, <2>4, <2>5, <2>6 DEF CvInv
<1>2. ASSUME TryMutex(t) PROVE CvInv'
  <2>1. /\ cv[t] \in {"none", "enter"} /\ pc[Self(t)] = "out"
        /\ pc' = [pc EXCEPT ![Self(t)] = "got"] /\ UNCHANGED cvVars
    BY <1>2 DEF TryMutex, TryEnter, Goto
  <2>2. WaitPlaces'
    BY <1>t, <1>a, ActorParts, <2>1 DEF CvTypeOK, WaitPlaces, cvVars
  <2> QED
    BY <2>1, <2>2, CvStill
<1>3. ASSUME BlockForMutex(t) PROVE CvInv'
  <2>1. /\ pc[Self(t)] = "switch"
        /\ pc' = [pc EXCEPT ![Self(t)] = "off"] /\ UNCHANGED cvVars
    BY <1>3 DEF BlockForMutex, KmCallback, Goto
  <2>2. WaitPlaces'
    BY <1>t, <1>a, ActorParts, <2>1 DEF CvTypeOK, WaitPlaces, cvVars
  <2> QED
    BY <2>1, <2>2, CvStill
<1>4. ASSUME BackFromBlock(t) PROVE CvInv'
  <2>1. /\ pc[Self(t)] = "off" /\ pc' = [pc EXCEPT ![Self(t)] = "got"]
        /\ UNCHANGED <<spin, waiters, signalled, cv, timed, cvTimedout, cvTimeq>>
    BY <1>4 DEF BackFromBlock, Goto
  <2>2. woken[t] = 0
    BY <1>t, <2>1 DEF CvTypeOK, SleepersTracked, WaitPlaces
  <2>3. UNCHANGED woken
    BY <1>4, <2>2, QueuedType DEF BackFromBlock
  <2>4. WaitPlaces'
    BY <1>t, <1>a, ActorParts, <2>1 DEF CvTypeOK, WaitPlaces
  <2> QED
    BY <2>1, <2>3, <2>4, CvStill DEF cvVars
<1>5. ASSUME ExitMutex(t) PROVE CvInv'
  <2>1. /\ cv[t] = "none" /\ UNCHANGED cvVars
        /\ \E p \in {"exit", "out", "wake"} : pc' = [pc EXCEPT ![Self(t)] = p]
    BY <1>5 DEF ExitMutex, Exit, ExitClear, ExitSub, ExitWake, Goto
  <2>2. WaitPlaces'
    BY <1>t, <1>a, ActorParts, <2>1 DEF CvTypeOK, WaitPlaces, cvVars
  <2> QED
    BY <2>1, <2>2, CvStill
<1>6. ASSUME CallbackExit(t) PROVE CvInv'
  <2>1. /\ cv[t] # "insert" /\ UNCHANGED cvVars
        /\ \E p \in {"exit", "out", "wake"} : pc' = [pc EXCEPT ![Cb(t)] = p]
    BY <1>6 DEF CallbackExit, Exit, ExitClear, ExitSub, ExitWake, Goto
  <2>2. ASSUME NEW u \in Threads
        PROVE  pc'[Self(u)] = pc[Self(u)] /\ (u # t => pc'[Cb(u)] = pc[Cb(u)])
    BY <2>1 DEF Self, Cb
  <2>3. WaitPlaces'
    BY <1>t, <1>a, ActorParts, <2>1, <2>2 DEF CvTypeOK, WaitPlaces, cvVars
  <2> QED
    BY <2>1, <2>3, CvStill
<1> QED
  BY <1>1, <1>2, <1>3, <1>4, <1>5, <1>6

(* A thread goes to sleep, its callback enters it into the timeout queue,  *)
(* and something wakes it.                                                 *)
LEMMA CvWaitSteps ==
  ASSUME SpinTimed, Inv, CvInv, NEW t \in Threads,
         Wait(t) \/ CallbackInsert(t) \/ Timeout(t) \/ Woken(t) \/ BroadcastEnd(t)
  PROVE  CvInv'
<1>t. CvTypeOK /\ SleepersTracked /\ WaitPlaces /\ ListedFresh
  BY DEF CvInv
<1>a. pc \in [Actor -> {"out", "switch", "off", "got", "held", "exit", "wake"}]
  BY DEF Inv, MutexTypeOK
<1>0. \A i \in 1..Len(waiters) : waiters[i] \in Threads
  BY <1>t DEF CvTypeOK
<1>1. ASSUME Wait(t) PROVE CvInv'
  <2>0. PICK d \in {0} \cup (IF spin \in TimedKinds THEN {1} ELSE {}) :
          /\ timed' = [timed EXCEPT ![t] = d]
          /\ cv' = [cv EXCEPT ![t] = IF d = 1 THEN "insert" ELSE "sleep"]
    BY <1>1, Zenon DEF Wait
  <2>1. /\ d \in 0..1 /\ (d = 1 => spin \in TimedKinds)
        /\ timed' = [timed EXCEPT ![t] = d]
        /\ cv' = [cv EXCEPT ![t] = IF d = 1 THEN "insert" ELSE "sleep"]
    BY <2>0
  <2>2. /\ cv[t] = "none"
        /\ waiters' = Append(waiters, t)
        /\ signalled' = [signalled EXCEPT ![t] = 0]
        /\ cvTimedout' = [cvTimedout EXCEPT ![t] = 0]
        /\ UNCHANGED <<spin, cvTimeq, woken>>
        /\ pc[Self(t)] = "held" /\ pc[Cb(t)] = "out"
        /\ pc' = [pc EXCEPT ![Self(t)] = "out", ![Cb(t)] = "held"]
    BY <1>1 DEF Wait, PassToCallback
  <2>3. CvTypeOK'
    BY <1>t, <2>1, <2>2, SMTT(30) DEF CvTypeOK
  <2>4. /\ Len(waiters') = Len(waiters) + 1 /\ waiters'[Len(waiters) + 1] = t
        /\ \A i \in 1..Len(waiters) : waiters'[i] = waiters[i] /\ waiters[i] # t
        /\ \A i \in 1..Len(waiters') : i = Len(waiters) + 1 \/ i \in 1..Len(waiters)
        /\ Len(waiters) + 1 \in 1..Len(waiters')
    <3>1. waiters \in Seq(Threads) /\ waiters' = Append(waiters, t)
      BY <1>t, <2>2, Zenon DEF CvTypeOK
    <3>2. ASSUME NEW i \in 1..Len(waiters) PROVE waiters[i] # t
      <4>1. cv[waiters[i]] \in {"insert", "sleep", "enter"} /\ cv[t] = "none"
        BY <1>t, <2>2, Zenon DEF SleepersTracked
      <4> QED
        BY <4>1
    <3> QED
      BY <3>1, <3>2
  <2>5. SleepersTracked'
    <3>1. woken[t] = 0 /\ t \notin cvTimeq
      BY <1>t, <2>2 DEF CvTypeOK, SleepersTracked
    <3>2. ASSUME NEW u \in Threads
          PROVE  /\ woken'[u] # 0 => cv'[u] = "sleep"
                 /\ cv'[u] = "sleep" => (woken'[u] = 1 <=> signalled'[u] = 1 \/ cvTimedout'[u] = 1)
                 /\ cv'[u] \in {"insert", "sleep", "enter"} /\ signalled'[u] = 0 =>
                      \E i \in 1..Len(waiters') : waiters'[i] = u
                 /\ u \in cvTimeq' <=> cv'[u] = "sleep" /\ timed'[u] = 1 /\ woken'[u] = 0
      <4>1. CASE u = t
        <5>1. /\ cv'[t] = "insert" \/ (cv'[t] = "sleep" /\ timed'[t] = 0)
              /\ signalled'[t] = 0 /\ cvTimedout'[t] = 0 /\ woken'[t] = 0 /\ t \notin cvTimeq'
          BY <1>t, <2>1, <2>2, <3>1 DEF CvTypeOK
        <5>2. \E i \in 1..Len(waiters') : waiters'[i] = t
          BY <2>4, Zenon
        <5> QED
          BY <4>1, <5>1, <5>2, SMTT(30)
      <4>2. CASE u # t
        <5>1. /\ cv'[u] = cv[u] /\ signalled'[u] = signalled[u] /\ timed'[u] = timed[u]
              /\ cvTimedout'[u] = cvTimedout[u] /\ woken'[u] = woken[u] /\ cvTimeq' = cvTimeq
          BY <2>1, <2>2, <4>2, SMTT(30)
        <5>2. (\E i \in 1..Len(waiters) : waiters[i] = u) => \E i \in 1..Len(waiters') : waiters'[i] = u
          BY <2>4
        <5> QED
          BY <1>t, <5>1, <5>2, ZenonT(30) DEF CvTypeOK, SleepersTracked
      <4> QED
        BY <4>1, <4>2, ZenonT(30)
    <3>3. ASSUME NEW i \in 1..Len(waiters'), NEW j \in 1..Len(waiters'),
                 waiters'[i] = waiters'[j]
          PROVE  i = j
      <4>1. CASE i \in 1..Len(waiters) /\ j \in 1..Len(waiters)
        BY <1>t, <2>4, <3>3, <4>1, SMTT(30) DEF CvTypeOK, SleepersTracked
      <4>2. CASE i = Len(waiters) + 1 \/ j = Len(waiters) + 1
        BY <2>4, <3>3, <4>2
      <4> QED
        BY <2>4, <4>1, <4>2, Zenon
    <3>4. ASSUME NEW i \in 1..Len(waiters')
          PROVE  cv'[waiters'[i]] \in {"insert", "sleep", "enter"}
      <4>1. CASE i = Len(waiters) + 1
        BY <1>t, <2>1, <2>4, <4>1, SMTT(30) DEF CvTypeOK
      <4>2. CASE i \in 1..Len(waiters)
        <5>1. waiters'[i] \in Threads /\ waiters'[i] # t /\ waiters'[i] = waiters[i]
          BY <1>0, <2>4, <4>2, Zenon
        <5> QED
          BY <1>t, <2>1, <4>2, <5>1, Zenon DEF CvTypeOK, SleepersTracked
      <4> QED
        BY <2>4, <4>1, <4>2, Zenon
    <3> QED
      BY <1>t, <3>2, <3>3, <3>4, Zenon DEF CvTypeOK, SleepersTracked
  <2>6. WaitPlaces'
    BY <1>t, <1>a, ActorParts, <2>1, <2>2, <2>3, SMTT(30) DEF CvTypeOK, WaitPlaces, SpinTimed
  <2>7. ASSUME NEW i \in 1..Len(waiters')
        PROVE  /\ signalled'[waiters'[i]] = 0
               /\ cv'[waiters'[i]] = "enter" =>
                    timed'[waiters'[i]] = 1 /\ cvTimedout'[waiters'[i]] = 1
    <3>1. CASE i = Len(waiters) + 1
      <4>1. waiters'[i] = t
        BY <2>4, <3>1
      <4>2. signalled'[t] = 0 /\ cv'[t] # "enter"
        BY <1>t, <2>1, <2>2 DEF CvTypeOK
      <4> QED
        BY <4>1, <4>2, Zenon
    <3>2. CASE i \in 1..Len(waiters)
      <4>1. waiters'[i] = waiters[i] /\ waiters[i] # t /\ waiters[i] \in Threads
        BY <1>0, <2>4, <3>2, Zenon
      <4>2. \A u \in Threads : u # t =>
              /\ signalled'[u] = signalled[u] /\ cv'[u] = cv[u]
              /\ timed'[u] = timed[u] /\ cvTimedout'[u] = cvTimedout[u]
        BY <1>t, <2>1, <2>2 DEF CvTypeOK
      <4> QED
        BY <1>t, <3>2, <4>1, <4>2, ZenonT(30) DEF ListedFresh
    <3> QED
      BY <2>4, <3>1, <3>2, Zenon
  <2> QED
    BY <2>3, <2>5, <2>6, <2>7, Zenon DEF CvInv, ListedFresh
<1>2. ASSUME CallbackInsert(t) PROVE CvInv'
  <2>1. /\ cv[t] = "insert"
        /\ cvTimeq' = cvTimeq \cup {t}
        /\ cv' = [cv EXCEPT ![t] = "sleep"]
        /\ pc' = pc
        /\ UNCHANGED <<spin, waiters, signalled, timed, cvTimedout, woken>>
    BY <1>2 DEF CallbackInsert, kmVars
  <2>2. woken[t] = 0 /\ timed[t] = 1 /\ signalled[t] = 0 /\ cvTimedout[t] = 0
    BY <1>t, <2>1 DEF CvTypeOK, SleepersTracked, WaitPlaces
  <2>3. CvTypeOK'
    BY <1>t, <2>1 DEF CvTypeOK
  <2>4. SleepersTracked'
    BY <1>t, <1>0, <2>1, <2>2 DEF CvTypeOK, SleepersTracked
  <2>5. WaitPlaces'
    BY <1>t, <1>a, ActorParts, <2>1, <2>2 DEF CvTypeOK, WaitPlaces
  <2>6. ListedFresh'
    BY <1>t, <1>0, <2>1 DEF CvTypeOK, ListedFresh
  <2> QED
    BY <2>3, <2>4, <2>5, <2>6 DEF CvInv
<1>3. ASSUME Timeout(t) PROVE CvInv'
  <2>1. /\ t \in cvTimeq /\ cvTimeq' = cvTimeq \ {t}
        /\ cvTimedout' = [cvTimedout EXCEPT ![t] = 1]
        /\ woken' = [woken EXCEPT ![t] = @ + 1]
        /\ pc' = pc
        /\ UNCHANGED <<spin, waiters, signalled, cv, timed>>
    BY <1>3 DEF Timeout, kmVars
  <2>2. cv[t] = "sleep" /\ timed[t] = 1 /\ woken[t] = 0
    BY <1>t, <2>1 DEF CvTypeOK, SleepersTracked
  <2>3. CvTypeOK'
    BY <1>t, <2>1, <2>2 DEF CvTypeOK
  <2>4. SleepersTracked'
    BY <1>t, <1>0, <2>1, <2>2 DEF CvTypeOK, SleepersTracked
  <2>5. WaitPlaces'
    BY <1>t, <1>a, ActorParts, <2>1, <2>2 DEF CvTypeOK, WaitPlaces
  <2>6. ListedFresh'
    BY <1>t, <1>0, <2>1 DEF CvTypeOK, ListedFresh
  <2> QED
    BY <2>3, <2>4, <2>5, <2>6 DEF CvInv
<1>4. ASSUME Woken(t) PROVE CvInv'
  <2>1. /\ cv[t] = "sleep" /\ woken[t] > 0
        /\ woken' = [woken EXCEPT ![t] = @ - 1]
        /\ cv' = [cv EXCEPT ![t] = "enter"]
        /\ pc' = pc
        /\ UNCHANGED <<spin, waiters, signalled, timed, cvTimedout, cvTimeq>>
    BY <1>4 DEF Woken, kmVars
  <2>2. woken[t] = 1 /\ (signalled[t] = 1 \/ cvTimedout[t] = 1) /\ t \notin cvTimeq
    BY <1>t, <2>1 DEF CvTypeOK, SleepersTracked
  <2>3. CvTypeOK'
    BY <1>t, <2>1, <2>2 DEF CvTypeOK
  <2>4. SleepersTracked'
    BY <1>t, <1>0, <2>1, <2>2 DEF CvTypeOK, SleepersTracked
  <2>5. WaitPlaces'
    BY <1>t, <1>a, ActorParts, <2>1, <2>2 DEF CvTypeOK, WaitPlaces
  <2>6. ListedFresh'
    BY <1>t, <1>0, <2>1, <2>2 DEF CvTypeOK, ListedFresh, WaitPlaces
  <2> QED
    BY <2>3, <2>4, <2>5, <2>6 DEF CvInv
<1>5. ASSUME BroadcastEnd(t) PROVE CvInv'
  <2>1. /\ cv[t] = "bcast" /\ cv' = [cv EXCEPT ![t] = "none"] /\ pc' = pc
        /\ UNCHANGED <<spin, waiters, signalled, timed, cvTimedout, cvTimeq, woken>>
    BY <1>5 DEF BroadcastEnd, kmVars
  <2>2. CvTypeOK'
    BY <1>t, <2>1 DEF CvTypeOK
  <2>3. SleepersTracked'
    BY <1>t, <1>0, <2>1, SMTT(30) DEF CvTypeOK, SleepersTracked
  <2>4. WaitPlaces' /\ ListedFresh'
    BY <1>t, <1>a, ActorParts, <1>0, <2>1, ZenonT(30) DEF CvTypeOK, WaitPlaces, ListedFresh
  <2> QED
    BY <2>2, <2>3, <2>4 DEF CvInv
<1> QED
  BY <1>1, <1>2, <1>3, <1>4, <1>5

(* A waiter is taken off the list by a signal, or by itself when its time  *)
(* has come.                                                               *)
LEMMA CvSignal ==
  ASSUME Inv, CvInv, NEW t \in Threads, pc[Self(t)] = "held", SignalFirst,
         cv' = cv \/ (cv[t] \in {"none", "bcast"} /\ cv' = [cv EXCEPT ![t] = "bcast"]),
         UNCHANGED <<kmVars, spin, timed, cvTimedout>>
  PROVE  CvInv'
<1>t. CvTypeOK /\ SleepersTracked /\ WaitPlaces /\ ListedFresh
  BY DEF CvInv
<1>a. pc \in [Actor -> {"out", "switch", "off", "got", "held", "exit", "wake"}]
  BY DEF Inv, MutexTypeOK
<1>0. \A i \in 1..Len(waiters) : waiters[i] \in Threads
  BY <1>t DEF CvTypeOK
<1>1. PICK w \in Threads : w = Head(waiters) /\ waiters[1] = w /\ 1 \in 1..Len(waiters)
  BY <1>t DEF CvTypeOK, SignalFirst
<1>2. /\ waiters' = Tail(waiters)
      /\ signalled' = [signalled EXCEPT ![w] = 1]
      /\ woken' = IF MustWake(w) THEN [woken EXCEPT ![w] = @ + 1] ELSE woken
      /\ cvTimeq' = Dequeued(w)
      /\ UNCHANGED <<pc, spin, timed, cvTimedout>>
  BY <1>1, SMTT(30) DEF SignalFirst, WakeWaiter, Rest, kmVars
<1>3. /\ Len(waiters') = Len(waiters) - 1
      /\ \A i \in 1..Len(waiters') : waiters'[i] = waiters[i + 1] /\ i + 1 \in 1..Len(waiters)
      /\ \A i \in 1..Len(waiters') : waiters'[i] # w
  BY <1>t, <1>1, <1>2 DEF CvTypeOK, SleepersTracked
<1>4. signalled[w] = 0 /\ cv[w] \in {"sleep", "enter"}
  <2>1. cv[w] # "insert"
    BY <1>t, <1>1, ActorParts, OneHolds DEF WaitPlaces
  <2> QED
    BY <1>t, <1>1, <2>1 DEF CvTypeOK, SleepersTracked, ListedFresh
<1>5. \A u \in Threads : cv'[u] = cv[u] \/ (u = t /\ cv'[u] = "bcast" /\ cv[u] \in {"none", "bcast"})
  BY <1>t, SMTT(30) DEF CvTypeOK
<1>5a. \A u \in Threads : u # w => /\ signalled'[u] = signalled[u] /\ woken'[u] = woken[u]
                                   /\ (u \in cvTimeq' <=> u \in cvTimeq)
  BY <1>2 DEF Dequeued
<1>6. MustWake(w) <=> cv[w] = "sleep" /\ woken[w] = 0
  BY <1>t, <1>1, <1>4, SMTT(30) DEF CvTypeOK, MustWake, SleepersTracked, WaitPlaces, ListedFresh
<1>7. /\ cv[w] = "sleep" => woken'[w] = 1
      /\ cv[w] = "enter" => woken'[w] = 0
      /\ w \notin cvTimeq' /\ cv'[w] = cv[w]
  <2>1. cv[w] = "enter" => woken[w] = 0
    BY <1>t DEF CvTypeOK, SleepersTracked
  <2>2. cv[w] = "sleep" => woken'[w] = 1
    BY <1>t, <1>2, <1>6 DEF CvTypeOK
  <2>3. cv[w] = "enter" => woken'[w] = 0
    BY <1>2, <1>6, <2>1
  <2>4. w \notin cvTimeq'
    BY <1>t, <1>2, <1>4 DEF CvTypeOK, Dequeued, SleepersTracked
  <2> QED
    BY <1>4, <1>5, <2>2, <2>3, <2>4
<1>8. CvTypeOK'
  <2>1. waiters' \in Seq(Threads)
    BY <1>t, <1>1, <1>2 DEF CvTypeOK
  <2>2. woken' \in [Threads -> 0..1]
    BY <1>t, <1>2, <1>6 DEF CvTypeOK
  <2>3. cv' \in [Threads -> {"none", "insert", "sleep", "enter", "bcast"}]
    BY <1>t DEF CvTypeOK
  <2>4. cvTimeq' \in SUBSET Threads
    BY <1>t, <1>2 DEF CvTypeOK, Dequeued
  <2>5. /\ signalled' \in [Threads -> 0..1]
        /\ spin' \in 0..1 /\ timed' \in [Threads -> 0..1] /\ cvTimedout' \in [Threads -> 0..1]
    BY <1>t, <1>2, SMTT(30) DEF CvTypeOK
  <2> QED
    BY <2>1, <2>2, <2>3, <2>4, <2>5 DEF CvTypeOK
<1>9. SleepersTracked'
  <2>1. ASSUME NEW u \in Threads
        PROVE  /\ woken'[u] # 0 => cv'[u] = "sleep"
               /\ cv'[u] = "sleep" => (woken'[u] = 1 <=> signalled'[u] = 1 \/ cvTimedout'[u] = 1)
               /\ cv'[u] \in {"insert", "sleep", "enter"} /\ signalled'[u] = 0 =>
                    \E i \in 1..Len(waiters') : waiters'[i] = u
               /\ u \in cvTimeq' <=> cv'[u] = "sleep" /\ timed'[u] = 1 /\ woken'[u] = 0
    <3>1. CASE u = w
      BY <1>t, <1>2, <1>4, <1>7, <3>1, SMTT(30) DEF CvTypeOK
    <3>2. CASE u # w
      <4>1. ASSUME NEW i \in 1..Len(waiters), waiters[i] = u
            PROVE  \E j \in 1..Len(waiters') : waiters'[j] = u
        <5>1. i # 1 /\ i - 1 \in 1..Len(waiters')
          BY <1>1, <1>3, <3>2, <4>1
        <5>2. waiters'[i - 1] = u
          BY <1>3, <4>1, <5>1
        <5> QED
          BY <5>1, <5>2, SMTT(30)
      <4>2. /\ woken'[u] # 0 => cv'[u] = "sleep"
            /\ cv'[u] = "sleep" => (woken'[u] = 1 <=> signalled'[u] = 1 \/ cvTimedout'[u] = 1)
            /\ u \in cvTimeq' <=> cv'[u] = "sleep" /\ timed'[u] = 1 /\ woken'[u] = 0
        BY <1>t, <1>2, <1>5, <1>5a, <3>2, SMTT(30) DEF CvTypeOK, SleepersTracked
      <4>3. cv'[u] \in {"insert", "sleep", "enter"} /\ signalled'[u] = 0 =>
              \E i \in 1..Len(waiters) : waiters[i] = u
        BY <1>t, <1>5, <1>5a, <3>2, Zenon DEF CvTypeOK, SleepersTracked
      <4> QED
        BY <4>1, <4>2, <4>3, Zenon
    <3> QED
      BY <3>1, <3>2, Zenon
  <2>2. \A i, j \in 1..Len(waiters') : waiters'[i] = waiters'[j] => i = j
    BY <1>t, <1>3 DEF CvTypeOK, SleepersTracked
  <2>3. ASSUME NEW i \in 1..Len(waiters')
        PROVE  cv'[waiters'[i]] \in {"insert", "sleep", "enter"}
    <3>1. waiters'[i] = waiters[i + 1] /\ i + 1 \in 1..Len(waiters)
      BY <1>3, SMTT(30)
    <3>2. waiters'[i] \in Threads /\ cv[waiters'[i]] \in {"insert", "sleep", "enter"}
      BY <1>t, <1>0, <3>1, SMTT(30) DEF CvTypeOK, SleepersTracked
    <3> QED
      BY <1>5, <3>2
  <2> QED
    BY <1>t, <2>1, <2>2, <2>3, SMTT(30) DEF CvTypeOK, SleepersTracked
<1>10. WaitPlaces'
  BY <1>t, <1>a, ActorParts, <1>2, <1>4, <1>5, <1>5a, SMTT(30) DEF CvTypeOK, WaitPlaces
<1>11. ASSUME NEW i \in 1..Len(waiters')
       PROVE  /\ signalled'[waiters'[i]] = 0
              /\ cv'[waiters'[i]] = "enter" =>
                   timed'[waiters'[i]] = 1 /\ cvTimedout'[waiters'[i]] = 1
  <2>1. PICK j \in 1..Len(waiters) : waiters'[i] = waiters[j] /\ waiters'[i] # w
    BY <1>3, Zenon
  <2>2. waiters[j] \in Threads /\ waiters[j] # w
    BY <1>0, <2>1, Zenon
  <2>3. /\ signalled'[waiters[j]] = signalled[waiters[j]]
        /\ cv'[waiters[j]] = "enter" => cv[waiters[j]] = "enter"
    BY <1>5, <1>5a, <2>2, Zenon
  <2>4. timed' = timed /\ cvTimedout' = cvTimedout
    BY <1>2, Zenon
  <2> QED
    BY <1>t, <2>1, <2>3, <2>4, Zenon DEF ListedFresh
<1> QED
  BY <1>8, <1>9, <1>10, <1>11, Zenon DEF CvInv, ListedFresh

(* TAILQ_REMOVE of a waiter that nobody signalled.                         *)
LEMMA CvUnlisted ==
  ASSUME CvInv, NEW t \in Threads, NEW k \in 1..Len(waiters), waiters[k] = t
  PROVE  /\ Unlisted(t) \in Seq(Threads) /\ Len(Unlisted(t)) = Len(waiters) - 1
         /\ \A i \in 1..Len(Unlisted(t)) :
              \E j \in 1..Len(waiters) : Unlisted(t)[i] = waiters[j] /\ j # k
                                         /\ j = IF i < k THEN i ELSE i + 1
         /\ \A j \in 1..Len(waiters) : j # k =>
              \E i \in 1..Len(Unlisted(t)) : Unlisted(t)[i] = waiters[j]
<1> DEFINE u == Unlisted(t)
<1>1. waiters \in Seq(Threads) /\ Len(waiters) \in Nat
  BY DEF CvInv, CvTypeOK
<1>2. Place(t) = k
  BY ZenonT(30) DEF Place, CvInv, SleepersTracked
<1>3. u = [i \in 1..(Len(waiters) - 1) |-> waiters[IF i < k THEN i ELSE i + 1]]
  BY <1>2 DEF Unlisted
<1>4. ASSUME NEW i \in 1..(Len(waiters) - 1)
      PROVE  /\ (IF i < k THEN i ELSE i + 1) \in 1..Len(waiters)
             /\ (IF i < k THEN i ELSE i + 1) # k
  BY <1>1
<1>5. u \in [1..(Len(waiters) - 1) -> Threads]
  BY <1>1, <1>3, <1>4
<1>6. u \in Seq(Threads) /\ Len(u) = Len(waiters) - 1
  BY <1>1, <1>5
<1>7. \A i \in 1..Len(u) :
        \E j \in 1..Len(waiters) : u[i] = waiters[j] /\ j # k
                                   /\ j = IF i < k THEN i ELSE i + 1
  BY <1>3, <1>4, <1>6, Zenon
<1>8. ASSUME NEW j \in 1..Len(waiters), j # k
      PROVE  \E i \in 1..Len(u) : u[i] = waiters[j]
  <2>1. CASE j < k
    <3>1. j \in 1..Len(u) /\ u[j] = waiters[j]
      BY <1>1, <1>3, <1>6, <2>1
    <3> QED
      BY <3>1
  <2>2. CASE j > k
    <3>1. j - 1 \in 1..Len(u) /\ u[j - 1] = waiters[j]
      BY <1>1, <1>3, <1>6, <2>2
    <3> QED
      BY <3>1
  <2> QED
    BY <1>1, <1>8, <2>1, <2>2
<1> QED
  BY <1>6, <1>7, <1>8, Zenon

LEMMA CvHold ==
  ASSUME Inv, CvInv, NEW t \in Threads, HoldMutex(t)
  PROVE  CvInv'
<1>0. \A i \in 1..Len(waiters) : waiters[i] \in Threads
  BY DEF CvInv, CvTypeOK
<1>1. /\ pc[Self(t)] = "got" /\ pc' = [pc EXCEPT ![Self(t)] = "held"]
      /\ cv' = [cv EXCEPT ![t] = "none"]
      /\ waiters' = IF cv[t] = "enter" /\ StillListed(t) THEN Unlisted(t) ELSE waiters
      /\ UNCHANGED <<spin, signalled, timed, cvTimedout, cvTimeq, woken>>
  BY SMTT(30) DEF HoldMutex, SetOwner, Goto
<1>2. cv[t] \in {"none", "enter"} /\ woken[t] = 0 /\ t \notin cvTimeq
  BY <1>1, SMTT(30) DEF WaitPlaces, SleepersTracked, CvInv, CvTypeOK
<1>3. WaitPlaces'
  BY <1>1, <1>2, ActorParts DEF WaitPlaces, CvInv, CvTypeOK, Inv, MutexTypeOK
<1>4. /\ waiters' \in Seq(Threads)
      /\ \A i \in 1..Len(waiters') :
           \E j \in 1..Len(waiters) : waiters'[i] = waiters[j] /\ waiters[j] # t
      /\ \A j \in 1..Len(waiters) : waiters[j] # t =>
           \E i \in 1..Len(waiters') : waiters'[i] = waiters[j]
      /\ \A i, j \in 1..Len(waiters') : waiters'[i] = waiters'[j] => i = j
  <2>1. CASE \E k \in 1..Len(waiters) : waiters[k] = t
    <3>1. PICK k \in 1..Len(waiters) : waiters[k] = t
      BY <2>1
    <3>2. waiters' = Unlisted(t)
      BY <1>1, <1>2, <3>1 DEF CvInv, SleepersTracked, ListedFresh, StillListed
    <3>3. /\ waiters' \in Seq(Threads) /\ Len(waiters') = Len(waiters) - 1
          /\ \A i \in 1..Len(waiters') :
               \E j \in 1..Len(waiters) : waiters'[i] = waiters[j] /\ j # k
                                          /\ j = IF i < k THEN i ELSE i + 1
          /\ \A j \in 1..Len(waiters) : j # k =>
               \E i \in 1..Len(waiters') : waiters'[i] = waiters[j]
      <4>1. /\ Unlisted(t) \in Seq(Threads) /\ Len(Unlisted(t)) = Len(waiters) - 1
            /\ \A i \in 1..Len(Unlisted(t)) :
                 \E j \in 1..Len(waiters) : Unlisted(t)[i] = waiters[j] /\ j # k
                                            /\ j = IF i < k THEN i ELSE i + 1
            /\ \A j \in 1..Len(waiters) : j # k =>
                 \E i \in 1..Len(Unlisted(t)) : Unlisted(t)[i] = waiters[j]
        BY <3>1, CvUnlisted, Zenon
      <4> QED
        BY <3>2, <4>1, Zenon
    <3>4. \A i, j \in 1..Len(waiters) : waiters[i] = waiters[j] => i = j
      BY DEF SleepersTracked, CvInv
    <3>5. ASSUME NEW i \in 1..Len(waiters'), NEW j \in 1..Len(waiters'), waiters'[i] = waiters'[j]
          PROVE  i = j
      <4>1. PICK m \in 1..Len(waiters) : waiters'[i] = waiters[m] /\ m = IF i < k THEN i ELSE i + 1
        BY <3>3, Zenon
      <4>2. PICK n \in 1..Len(waiters) : waiters'[j] = waiters[n] /\ n = IF j < k THEN j ELSE j + 1
        BY <3>3, Zenon
      <4>3. m = n
        BY <3>4, <3>5, <4>1, <4>2, Zenon
      <4>4. i \in Int /\ j \in Int /\ k \in Int
        BY <3>3
      <4> QED
        BY <4>1, <4>2, <4>3, <4>4
    <3> QED
      BY <3>1, <3>3, <3>4, <3>5, ZenonT(30)
  <2>2. CASE ~\E k \in 1..Len(waiters) : waiters[k] = t
    <3>1. waiters' = waiters
      BY <1>1, <2>2, SMTT(30) DEF CvInv, SleepersTracked, StillListed
    <3> QED
      BY <2>2, <3>1 DEF CvInv, CvTypeOK, SleepersTracked
  <2> QED
    BY <2>1, <2>2
<1>5. CvTypeOK'
  BY <1>1, <1>4 DEF CvInv, CvTypeOK
<1>6. /\ cv'[t] = "none"
      /\ \A u \in Threads : u # t => cv'[u] = cv[u]
  BY <1>1, SMTT(30) DEF CvInv, CvTypeOK
<1>7. SleepersTracked'
  <2>1. ASSUME NEW u \in Threads
        PROVE  /\ woken'[u] # 0 => cv'[u] = "sleep"
               /\ cv'[u] = "sleep" => (woken'[u] = 1 <=> signalled'[u] = 1 \/ cvTimedout'[u] = 1)
               /\ cv'[u] \in {"insert", "sleep", "enter"} /\ signalled'[u] = 0 =>
                    \E i \in 1..Len(waiters') : waiters'[i] = u
               /\ u \in cvTimeq' <=> cv'[u] = "sleep" /\ timed'[u] = 1 /\ woken'[u] = 0
    <3>1. CASE u = t
      BY <1>1, <1>2, <1>6, <3>1, SMTT(30)
    <3>2. CASE u # t
      BY <1>1, <1>4, <1>6, <3>2, SMTT(30) DEF CvInv, SleepersTracked
    <3> QED
      BY <3>1, <3>2
  <2>2. ASSUME NEW i \in 1..Len(waiters')
        PROVE  cv'[waiters'[i]] \in {"insert", "sleep", "enter"}
    <3>1. PICK j \in 1..Len(waiters) : waiters'[i] = waiters[j] /\ waiters[j] # t
      BY <1>4, Zenon
    <3>2. cv'[waiters[j]] = cv[waiters[j]]
      BY <1>0, <1>6, <3>1, Zenon
    <3> QED
      BY <3>1, <3>2, Zenon DEF CvInv, SleepersTracked
  <2> QED
    BY <1>4, <2>1, <2>2, Zenon DEF SleepersTracked
<1>8. ListedFresh'
  <2> SUFFICES ASSUME NEW i \in 1..Len(waiters')
               PROVE  /\ signalled'[waiters'[i]] = 0
                      /\ cv'[waiters'[i]] = "enter" =>
                           timed'[waiters'[i]] = 1 /\ cvTimedout'[waiters'[i]] = 1
    BY Zenon DEF ListedFresh
  <2>1. PICK j \in 1..Len(waiters) : waiters'[i] = waiters[j] /\ waiters[j] # t
    BY <1>4, Zenon
  <2>2. cv'[waiters[j]] = cv[waiters[j]]
    BY <1>0, <1>6, <2>1, Zenon
  <2>3. signalled' = signalled /\ timed' = timed /\ cvTimedout' = cvTimedout
    BY <1>1, Zenon
  <2> QED
    BY <2>1, <2>2, <2>3, Zenon DEF CvInv, ListedFresh
<1> QED
  BY <1>3, <1>5, <1>7, <1>8 DEF CvInv

LEMMA CvInvInductive ==
  ASSUME SpinTimed PROVE Inv /\ CvInv /\ [CvNext]_allVars => CvInv'
<1> SUFFICES ASSUME Inv, CvInv, [CvNext]_allVars PROVE CvInv'
  OBVIOUS
<1>1. ASSUME NEW t \in Threads, Signal(t) \/ Broadcast(t) PROVE CvInv'
  BY <1>1, CvSignal DEF Signal, Broadcast
<1>2. CASE UNCHANGED allVars
  <2>1. WaitPlaces'
    BY <1>2 DEF CvInv, WaitPlaces, allVars, cvVars, kmVars
  <2> QED
    BY <1>2, <2>1, CvStill DEF allVars
<1>3. ASSUME NEW t \in Threads,
             EnterMutex(t) \/ TryMutex(t) \/ BlockForMutex(t) \/ BackFromBlock(t)
               \/ ExitMutex(t) \/ CallbackExit(t)
      PROVE  CvInv'
  BY <1>3, CvMutexSteps
<1>4. ASSUME NEW t \in Threads,
             Wait(t) \/ CallbackInsert(t) \/ Timeout(t) \/ Woken(t) \/ BroadcastEnd(t)
      PROVE  CvInv'
  BY <1>4, CvWaitSteps
<1>5. ASSUME NEW t \in Threads, HoldMutex(t) PROVE CvInv'
  BY <1>5, CvHold
<1> QED
  BY <1>1, <1>2, <1>3, <1>4, <1>5 DEF CvNext, Proceed
================================================================================
