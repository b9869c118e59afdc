------------------------------ MODULE WaitProofs -------------------------------
(***************************************************************************)
(* Proofs about parking, the interrupt thread and reader/writer locks, for *)
(* any set of threads.                                                     *)
(***************************************************************************)
EXTENDS LwpPark, Isr, RwLock, FiniteSetTheorems, TLAPS

(* The reader/writer lock.  Where a thread holds wait_mtx, where it holds  *)
(* access_mtx for itself, where it is counted as a reader, and where the   *)
(* type has to be the readers'.                                            *)
WaitPcs == {"w-access", "w-type", "w-leave", "r-count", "r-access", "r-type", "r-leave",
            "tw-access", "t-load", "t-access", "t-store", "t-type", "t-count", "t-leave"}
ExclusivePcs == {"w-type", "w-leave", "writing", "d-count", "d-access", "u-type",
                 "x-type", "x-access", "t-store"}
CountedPcs == {"r-access", "r-type", "r-leave", "reading", "x-count", "d-access"}
ReaderPcs == {"r-leave", "reading", "x-count", "d-count", "d-access"}
RwPcs == WaitPcs \cup ExclusivePcs \cup CountedPcs \cup {"idle"}

RwTypeOK ==
  /\ rwWait \in RwThreads \cup {RwNone}
  /\ rwAccess \in 0..1
  /\ rwReaders \in Nat /\ rwExtra \in Nat
  /\ rwType \in {"UNKNOWN", "READER", "WRITER"}
  /\ rwPc \in [RwThreads -> RwPcs]

(* Who holds wait_mtx, and who holds access_mtx alone.  While somebody     *)
(* does, all that is counted is at most a reader that waits for it.         *)
RwOwners ==
  /\ \A t \in RwThreads : rwWait = t <=> rwPc[t] \in WaitPcs
  /\ \A t, u \in RwThreads :
       /\ rwPc[t] \in ExclusivePcs /\ rwPc[u] \in ExclusivePcs => t = u
       /\ rwPc[t] \in ExclusivePcs /\ rwPc[u] \in CountedPcs => u = t \/ rwPc[u] = "r-access"
  /\ \A t \in RwThreads :
       /\ rwPc[t] \in ExclusivePcs => rwAccess = 1 /\ rwExtra = 0
       /\ rwPc[t] = "d-access" => \E u \in RwThreads : rwPc[u] = "r-access"
       /\ rwPc[t] = "t-type" => rwExtra > 0

(* Access that is free leaves at most readers of which one is about to     *)
(* take it; access that nobody holds alone is held for readers.            *)
RwAccessFor ==
  /\ rwAccess = 0 => /\ rwExtra = 0
                     /\ (\E t \in RwThreads : rwPc[t] \in CountedPcs) =>
                           \E t \in RwThreads : rwPc[t] = "r-access"
  /\ rwAccess = 1 => \/ \E t \in RwThreads : rwPc[t] \in ExclusivePcs
                     \/ rwReaders > 0 /\ \A t \in RwThreads : rwPc[t] # "r-access"

RwTypes ==
  /\ \A t \in RwThreads :
       /\ rwPc[t] \in ReaderPcs => rwType = "READER"
       /\ rwPc[t] \in {"writing", "w-leave"} => rwType = "WRITER"
  /\ rwExtra > 0 => rwType = "READER" \/ \E t \in RwThreads : rwPc[t] = "t-type"

RwCounted == rwReaders = Cardinality(At(CountedPcs)) + rwExtra

RwInv == RwTypeOK /\ RwOwners /\ RwAccessFor /\ RwTypes /\ RwCounted


LEMMA RwCount ==
  ASSUME RwTypeOK
  PROVE  /\ Cardinality(At(CountedPcs)) \in Nat
         /\ Cardinality(At(CountedPcs)) = 0 <=> \A t \in RwThreads : rwPc[t] \notin CountedPcs
         /\ \A t \in RwThreads :
              Cardinality(At(CountedPcs)) = 1 /\ rwPc[t] \in CountedPcs =>
                \A u \in RwThreads : rwPc[u] \in CountedPcs => u = t
<1>1. IsFiniteSet(At(CountedPcs))
  BY RwAssumption, FS_Subset DEF At
<1>2. Cardinality(At(CountedPcs)) \in Nat
  BY <1>1, FS_CardinalityType
<1>3. Cardinality(At(CountedPcs)) = 0 <=> \A t \in RwThreads : rwPc[t] \notin CountedPcs
  BY <1>1, FS_EmptySet DEF At
<1>4. ASSUME NEW t \in RwThreads, Cardinality(At(CountedPcs)) = 1, rwPc[t] \in CountedPcs,
             NEW u \in RwThreads, rwPc[u] \in CountedPcs
      PROVE  u = t
  <2>1. PICK x : At(CountedPcs) = {x}
    BY <1>1, <1>4, FS_Singleton, Zenon
  <2> QED
    BY <1>4, <2>1 DEF At
<1> QED
  BY <1>2, <1>3, <1>4

(* What the number of readers says.                                        *)
LEMMA RwReaderFacts ==
  ASSUME RwInv
  PROVE  /\ rwReaders = 0 => rwExtra = 0 /\ \A t \in RwThreads : rwPc[t] \notin CountedPcs
         /\ rwReaders # 0 => rwExtra > 0 \/ \E t \in RwThreads : rwPc[t] \in CountedPcs
         /\ \A t \in RwThreads :
              rwReaders = 1 /\ rwPc[t] \in CountedPcs =>
                rwExtra = 0 /\ \A u \in RwThreads : rwPc[u] \in CountedPcs => u = t
         /\ \A t \in RwThreads : rwPc[t] \in CountedPcs => rwReaders > 0
<1> DEFINE n == Cardinality(At(CountedPcs))
<1>1. rwReaders = n + rwExtra /\ rwReaders \in Nat /\ rwExtra \in Nat
  BY DEF RwInv, RwTypeOK, RwCounted
<1>2. /\ n \in Nat
      /\ n = 0 <=> \A t \in RwThreads : rwPc[t] \notin CountedPcs
      /\ \A t \in RwThreads : n = 1 /\ rwPc[t] \in CountedPcs =>
           \A u \in RwThreads : rwPc[u] \in CountedPcs => u = t
  BY RwCount DEF RwInv
<1> HIDE DEF n
<1>3. /\ rwReaders = 0 => n = 0 /\ rwExtra = 0
      /\ rwReaders # 0 => n # 0 \/ rwExtra > 0
      /\ rwReaders = 1 /\ n # 0 => n = 1 /\ rwExtra = 0
      /\ n # 0 => rwReaders > 0
  BY <1>1, <1>2
<1> QED
  BY <1>2, <1>3

(* Counting when one thread moves.                                         *)
LEMMA RwCountMove ==
  ASSUME RwTypeOK, NEW t \in RwThreads, NEW p, p = rwPc'[t],
         \A u \in RwThreads : u # t => rwPc'[u] = rwPc[u]
  PROVE  /\ (rwPc[t] \in CountedPcs <=> p \in CountedPcs) =>
              Cardinality(At(CountedPcs)') = Cardinality(At(CountedPcs))
         /\ rwPc[t] \notin CountedPcs /\ p \in CountedPcs =>
              Cardinality(At(CountedPcs)') = Cardinality(At(CountedPcs)) + 1
         /\ rwPc[t] \in CountedPcs /\ p \notin CountedPcs =>
              Cardinality(At(CountedPcs)') = Cardinality(At(CountedPcs)) - 1
<1>1. IsFiniteSet(At(CountedPcs))
  BY RwAssumption, FS_Subset DEF At
<1>2. rwPc \in [RwThreads -> RwPcs]
  BY DEF RwTypeOK
<1>3. At(CountedPcs)' = {u \in RwThreads : rwPc'[u] \in CountedPcs}
  BY DEF At, CountedPcs
<1>4. CASE rwPc[t] \in CountedPcs <=> p \in CountedPcs
  <2>1. At(CountedPcs)' = At(CountedPcs)
    BY <1>2, <1>3, <1>4 DEF At
  <2> QED
    BY <1>4, <2>1
<1>5. CASE rwPc[t] \notin CountedPcs /\ p \in CountedPcs
  <2>1. At(CountedPcs)' = At(CountedPcs) \cup {t} /\ t \notin At(CountedPcs)
    BY <1>2, <1>3, <1>5 DEF At
  <2> QED
    BY <1>1, <1>5, <2>1, FS_AddElement, Zenon
<1>6. CASE rwPc[t] \in CountedPcs /\ p \notin CountedPcs
  <2>1. At(CountedPcs)' = At(CountedPcs) \ {t} /\ t \in At(CountedPcs)
    BY <1>2, <1>3, <1>6 DEF At
  <2> QED
    BY <1>1, <1>6, <2>1, FS_RemoveElement, Zenon
<1> QED
  BY <1>4, <1>5, <1>6

LEMMA RwInitInv == RwInit => RwInv
<1> SUFFICES ASSUME RwInit PROVE RwInv
  OBVIOUS
<1> USE DEF RwInit, WaitPcs, ExclusivePcs, CountedPcs, ReaderPcs, RwPcs
<1>1. RwTypeOK /\ RwTypes /\ RwAccessFor
  BY DEF RwTypeOK, RwTypes, RwAccessFor
<1>2. RwOwners
  BY RwAssumption DEF RwOwners
<1>3. RwCounted
  <2>1. At(CountedPcs) = {}
    BY DEF At
  <2>2. Cardinality(At(CountedPcs)) = 0
    BY <2>1, FS_EmptySet, SMTT(30)
  <2> QED
    BY <2>2 DEF RwCounted
<1> QED
  BY <1>1, <1>2, <1>3 DEF RwInv

LEMMA RwTypeInductive == ASSUME RwInv, NEW t \in RwThreads, RwStep(t) PROVE RwTypeOK'
<1> USE RwReaderFacts DEF RwInv, RwTypeOK, RwGo, RwTake, RwLeave, Lock, Unlock,
        WaitPcs, ExclusivePcs, CountedPcs, RwPcs
<1>1. CASE WantWrite(t) \/ WantRead(t) \/ CountReader(t) \/ Access(t) \/ SetType(t) \/ Entered(t)
  BY <1>1 DEF WantWrite, WantRead, CountReader, Access, SetType, Entered
<1>2. CASE TryStart(t) \/ TryLoad(t) \/ TryAccess(t) \/ TryStore(t) \/ TryType(t)
           \/ TryCount(t) \/ TryFailed(t)
  BY <1>2 DEF TryStart, TryLoad, TryAccess, TryStore, TryType, TryCount, TryFailed
<1>3. CASE RwExit(t) \/ ExitType(t) \/ ExitAccess(t) \/ Downgrade(t) \/ DowngradeCount(t)
           \/ DowngradeAccess(t) \/ TryUpgrade(t) \/ UpgradeType(t)
  BY <1>3 DEF RwExit, ExitType, ExitAccess, Downgrade, DowngradeCount, DowngradeAccess,
              TryUpgrade, UpgradeType
<1>4. CASE ExitCount(t)
  BY <1>4 DEF ExitCount
<1> QED
  BY <1>1, <1>2, <1>3, <1>4, SMTT(30) DEF RwStep

LEMMA RwOneMoves ==
  ASSUME RwTypeOK, NEW t \in RwThreads, RwStep(t), NEW u \in RwThreads, u # t
  PROVE  rwPc'[u] = rwPc[u]
<1> USE DEF RwTypeOK, RwGo
<1>1. CASE WantWrite(t) \/ WantRead(t) \/ CountReader(t) \/ Access(t) \/ SetType(t) \/ Entered(t)
  BY <1>1 DEF WantWrite, WantRead, CountReader, Access, SetType, Entered
<1>2. CASE TryStart(t) \/ TryLoad(t) \/ TryAccess(t) \/ TryStore(t) \/ TryType(t)
           \/ TryCount(t) \/ TryFailed(t)
  BY <1>2 DEF TryStart, TryLoad, TryAccess, TryStore, TryType, TryCount, TryFailed
<1>3. CASE RwExit(t) \/ ExitCount(t) \/ ExitType(t) \/ ExitAccess(t)
  BY <1>3 DEF RwExit, ExitCount, ExitType, ExitAccess
<1>4. CASE Downgrade(t) \/ DowngradeCount(t) \/ DowngradeAccess(t) \/ TryUpgrade(t)
           \/ UpgradeType(t)
  BY <1>4 DEF Downgrade, DowngradeCount, DowngradeAccess, TryUpgrade, UpgradeType
<1> QED
  BY <1>1, <1>2, <1>3, <1>4 DEF RwStep

LEMMA RwCountInductive == ASSUME RwInv, NEW t \in RwThreads, RwStep(t) PROVE RwCounted'
<1> DEFINE n == Cardinality(At(CountedPcs))
           m == Cardinality(At(CountedPcs)')
<1>1. rwReaders = n + rwExtra /\ rwReaders \in Nat /\ rwExtra \in Nat /\ n \in Nat
  BY RwCount DEF RwInv, RwTypeOK, RwCounted
<1>2. RwCounted' <=> rwReaders' = m + rwExtra'
  BY DEF RwCounted
<1>3. /\ (rwPc[t] \in CountedPcs <=> rwPc'[t] \in CountedPcs) => m = n
      /\ rwPc[t] \notin CountedPcs /\ rwPc'[t] \in CountedPcs => m = n + 1
      /\ rwPc[t] \in CountedPcs /\ rwPc'[t] \notin CountedPcs => m = n - 1
  BY RwOneMoves, RwCountMove DEF RwInv
<1>3a. rwPc \in [RwThreads -> RwPcs]
  BY DEF RwInv, RwTypeOK
<1> HIDE DEF n, m
<1> USE <1>1, <1>2, <1>3, <1>3a DEF RwGo, CountedPcs
<1>4. CASE WantWrite(t) \/ WantRead(t) \/ CountReader(t)
  BY <1>4 DEF WantWrite, WantRead, CountReader
<1>5. CASE Access(t) \/ SetType(t) \/ Entered(t)
  BY <1>5 DEF Access, SetType, Entered
<1>6. CASE TryStart(t) \/ TryLoad(t) \/ TryAccess(t) \/ TryType(t) \/ TryFailed(t)
  BY <1>6 DEF TryStart, TryLoad, TryAccess, TryType, TryFailed
<1>7. CASE TryCount(t)
  BY <1>7 DEF TryCount
<1>8. CASE TryStore(t)
  <2>1. rwReaders = 0 /\ rwExtra = 0
    <3>1. rwPc[t] = "t-store" /\ rwExtra = 0
      BY <1>8 DEF TryStore, RwInv, RwOwners, ExclusivePcs
    <3>2. \A u \in RwThreads : rwPc[u] \notin CountedPcs
      BY <3>1 DEF RwInv, RwOwners, ExclusivePcs, WaitPcs
    <3> QED
      BY <3>1, <3>2, RwReaderFacts
  <2>2. n = 0
    BY <2>1
  <2>3. m = n
    BY <1>8 DEF TryStore
  <2> QED
    BY <1>8, <2>1, <2>2, <2>3 DEF TryStore
<1>9. CASE RwExit(t) \/ ExitType(t) \/ ExitAccess(t) \/ Downgrade(t) \/ UpgradeType(t)
  <2>1. CASE RwExit(t)
    <3>1. rwPc[t] = "reading" => rwType = "READER"
      BY DEF RwInv, RwTypes, ReaderPcs
    <3>2. rwPc[t] = "writing" => rwType = "WRITER"
      BY DEF RwInv, RwTypes
    <3> QED
      BY <2>1, <3>1, <3>2 DEF RwExit
  <2> QED
    BY <1>9, <2>1 DEF ExitType, ExitAccess, Downgrade, UpgradeType
<1>10. CASE ExitCount(t) \/ TryUpgrade(t)
  <2>1. CASE ExitCount(t)
    <3>1. m = n - 1
      BY <2>1 DEF ExitCount
    <3> QED
      BY <2>1, <3>1 DEF ExitCount
  <2>2. CASE TryUpgrade(t)
    <3>1. m = n - 1
      BY <2>2 DEF TryUpgrade
    <3> QED
      BY <2>2, <3>1 DEF TryUpgrade, OnlyReader
  <2> QED
    BY <1>10, <2>1, <2>2
<1>11. CASE DowngradeCount(t) \/ DowngradeAccess(t)
  <2>1. CASE DowngradeCount(t)
    <3>1. m = n + 1
      BY <2>1, SMTT(30) DEF DowngradeCount
    <3> QED
      BY <2>1, <3>1 DEF DowngradeCount
  <2> QED
    BY <1>11, <2>1 DEF DowngradeAccess
<1> QED
  BY <1>4, <1>5, <1>6, <1>7, <1>8, <1>9, <1>10, <1>11 DEF RwStep

(* The other conjuncts, action by action.                                  *)
LEMMA RwRestInductive ==
  ASSUME RwInv, NEW t \in RwThreads, RwStep(t)
  PROVE  RwOwners' /\ RwAccessFor' /\ RwTypes'
<1>1. /\ rwPc \in [RwThreads -> RwPcs]
      /\ rwExtra \in Nat /\ rwReaders \in Nat /\ rwAccess \in 0..1
      /\ RwNone \notin RwThreads
  BY RwAssumption, SMTT(30) DEF RwInv, RwTypeOK
<1> USE <1>1, RwReaderFacts
    DEF RwInv, RwOwners, RwAccessFor, RwTypes, RwGo, RwTake, RwLeave, Lock, Unlock,
        WaitPcs, ExclusivePcs, CountedPcs, ReaderPcs
<1>2. CASE WantWrite(t)
  BY <1>2, SMTT(30) DEF WantWrite
<1>3. CASE WantRead(t)
  BY <1>3 DEF WantRead
<1>4. CASE CountReader(t)
  BY <1>4 DEF CountReader, FirstReader
<1>5. CASE Access(t)
  BY <1>5 DEF Access
<1>6. CASE SetType(t)
  BY <1>6 DEF SetType
<1>7. CASE Entered(t)
  BY <1>7 DEF Entered
<1>8. CASE TryStart(t)
  BY <1>8 DEF TryStart
<1>9. CASE TryLoad(t)
  BY <1>9 DEF TryLoad
<1>10. CASE TryAccess(t)
  BY <1>10 DEF TryAccess
<1>11. CASE TryStore(t)
  BY <1>11 DEF TryStore
<1>12. CASE TryType(t)
  BY <1>12 DEF TryType
<1>13. CASE TryCount(t)
  BY <1>13 DEF TryCount
<1>14. CASE TryFailed(t)
  BY <1>14 DEF TryFailed
<1>15. CASE RwExit(t)
  BY <1>15 DEF RwExit
<1>16. CASE ExitCount(t)
  BY <1>16 DEF ExitCount, LastReader
<1>17. CASE ExitType(t)
  BY <1>17 DEF ExitType
<1>18. CASE ExitAccess(t)
  BY <1>18 DEF ExitAccess
<1>19. CASE Downgrade(t)
  BY <1>19 DEF Downgrade
<1>20. CASE DowngradeCount(t)
  BY <1>20 DEF DowngradeCount, ReaderWaits
<1>21. CASE DowngradeAccess(t)
  BY <1>21 DEF DowngradeAccess
<1>22. CASE TryUpgrade(t)
  BY <1>22 DEF TryUpgrade, OnlyReader
<1>23. CASE UpgradeType(t)
  BY <1>23 DEF UpgradeType
<1> QED
  BY <1>2, <1>3, <1>4, <1>5, <1>6, <1>7, <1>8, <1>9, <1>10, <1>11, <1>12, <1>13, <1>14,
     <1>15, <1>16, <1>17, <1>18, <1>19, <1>20, <1>21, <1>22, <1>23, Zenon DEF RwStep

(* The reader/writer lock of rumpuser_synch.c, for any number of threads:  *)
(* a writer is alone, rw->type tells what the threads inside are, readers  *)
(* counts them and access_mtx is held for somebody, with upgrades and      *)
(* downgrades and readers that come in between.                            *)
THEOREM RwIsSound == RwSpec => []RwSound
<1>1. RwInv /\ [RwNext]_rwVars => RwInv'
  <2> SUFFICES ASSUME RwInv, [RwNext]_rwVars PROVE RwInv'
    OBVIOUS
  <2>1. ASSUME NEW t \in RwThreads, RwStep(t) PROVE RwInv'
    BY <2>1, RwTypeInductive, RwCountInductive, RwRestInductive DEF RwInv
  <2>2. CASE UNCHANGED rwVars
    BY <2>2, Zenon DEF rwVars, RwInv, RwTypeOK, RwOwners, RwAccessFor, RwTypes, RwCounted, At
  <2> QED
    BY <2>1, <2>2 DEF RwNext
<1>2. RwInv => RwSound
  <2> SUFFICES ASSUME RwInv PROVE RwSound
    OBVIOUS
  <2>1. RwExclusion
    <3>1. ASSUME NEW t \in RwThreads, rwPc[t] = "writing"
          PROVE  At({"writing", "reading", "u-type"}) = {t}
      BY <3>1 DEF At, RwInv, RwOwners, ExclusivePcs, CountedPcs
    <3> QED
      BY <3>1, FS_Singleton, Zenon DEF RwExclusion, At
  <2>2. TypeTells
    BY DEF TypeTells, At, RwInv, RwTypes, ReaderPcs
  <2>3. rwReaders = Cardinality(At(CountedPcs)) + rwExtra
    BY DEF RwInv, RwCounted
  <2>4. rwAccess = 1 =>
          rwReaders > 0 \/ At({"w-type", "w-leave", "writing", "d-count", "u-type", "x-type",
                               "x-access", "t-store"}) # {}
    BY RwReaderFacts DEF At, RwInv, RwAccessFor, ExclusivePcs, CountedPcs
  <2>5. AccessAccounted
    BY <2>3, <2>4 DEF AccessAccounted, CountedPcs
  <2> QED
    BY <2>1, <2>2, <2>5 DEF RwSound
<1> QED
  BY RwInitInv, <1>1, <1>2, PTL DEF RwSpec

-----------------------------------------------------------------------------
(* PkTypeOK is inductive.                                                  *)
LEMMA ParkTypeInductive == PkTypeOK /\ [PkNext]_pkVars => PkTypeOK'
<1> SUFFICES ASSUME PkTypeOK, [PkNext]_pkVars PROVE PkTypeOK'
  OBVIOUS
<1> USE DEF PkTypeOK, PARK, UNPARK, BOTH
<1>1. ASSUME NEW p \in Lwps, Park(p) PROVE PkTypeOK'
  BY <1>1, TimedAssumption DEF Park
<1>2. ASSUME NEW p \in Lwps, PkCallbackInsert(p) PROVE PkTypeOK'
  BY <1>2 DEF PkCallbackInsert
<1>3. ASSUME NEW p \in Lwps, CallbackXor(p) PROVE PkTypeOK'
  BY <1>3 DEF CallbackXor, StillParked, XorPark
<1>4. ASSUME NEW p \in Lwps, CallbackLock(p) PROVE PkTypeOK'
  BY <1>4 DEF CallbackLock
<1>5. ASSUME NEW p \in Lwps, CallbackWake(p) PROVE PkTypeOK'
  BY <1>5 DEF CallbackWake
<1>6. ASSUME NEW p \in Lwps, Dispatch(p) PROVE PkTypeOK'
  BY <1>6 DEF Dispatch
<1>7. ASSUME NEW p \in Lwps, ParkEnd(p) PROVE PkTypeOK'
  BY <1>7 DEF ParkEnd
<1>8. ASSUME NEW p \in Lwps, NEW u \in Lwps, Unpark(u, p) PROVE PkTypeOK'
  BY <1>8 DEF Unpark, WakeStage, SwitchedOut
<1>9. ASSUME NEW p \in Lwps, NEW u \in Lwps, Wakeup(u, p) PROVE PkTypeOK'
  BY <1>9 DEF Wakeup, WakeStage, SwitchedOut
<1>10. ASSUME NEW u \in Lwps, UnparkLock(u) PROVE PkTypeOK'
  BY <1>10 DEF UnparkLock
<1>11. ASSUME NEW u \in Lwps, UnparkWake(u) PROVE PkTypeOK'
  BY <1>11 DEF UnparkWake
<1>12. ASSUME NEW p \in Lwps, Expire(p) PROVE PkTypeOK'
  BY <1>12 DEF Expire
<1>13. ASSUME NEW p \in Lwps, ExpireWake(p) PROVE PkTypeOK'
  BY <1>13 DEF ExpireWake
<1>14. CASE UNCHANGED pkVars
  BY <1>14 DEF pkVars
<1> QED
  BY <1>1, <1>2, <1>3, <1>4, <1>5, <1>6, <1>7, <1>8, <1>9, <1>10, <1>11, <1>12,
     <1>13, <1>14 DEF PkNext, Progress

(* Parking keeps its types.                                                *)
THEOREM TypeCorrect == PkSpec => []PkTypeOK
<1>1. PkInit => PkTypeOK
  BY SMTT(30) DEF PkInit, PkTypeOK, PARK, UNPARK, BOTH
<1> QED
  BY <1>1, ParkTypeInductive, PTL DEF PkSpec

(* WokenOnce is inductive: whoever takes the right to wake a thread finds  *)
(* it asleep, which ends when the right is taken.                          *)
LEMMA WokenOnceInductive == PkTypeOK /\ WokenOnce /\ [PkNext]_pkVars => WokenOnce'
<1> SUFFICES ASSUME PkTypeOK, WokenOnce, [PkNext]_pkVars PROVE WokenOnce'
  OBVIOUS
<1> USE DEF PkTypeOK, WokenOnce, Wakers, PARK, UNPARK, BOTH
<1>1. ASSUME NEW p \in Lwps, Park(p) PROVE WokenOnce'
  BY <1>1 DEF Park
<1>2. ASSUME NEW p \in Lwps, PkCallbackInsert(p) PROVE WokenOnce'
  BY <1>2 DEF PkCallbackInsert
<1>3. ASSUME NEW p \in Lwps, CallbackXor(p) PROVE WokenOnce'
  BY <1>3 DEF CallbackXor, StillParked, XorPark
<1>4. ASSUME NEW p \in Lwps, CallbackLock(p) PROVE WokenOnce'
  BY <1>4 DEF CallbackLock
<1>5. ASSUME NEW p \in Lwps, CallbackWake(p) PROVE WokenOnce'
  BY <1>5 DEF CallbackWake
<1>6. ASSUME NEW p \in Lwps, Dispatch(p) PROVE WokenOnce'
  BY <1>6 DEF Dispatch
<1>7. ASSUME NEW p \in Lwps, ParkEnd(p) PROVE WokenOnce'
  BY <1>7 DEF ParkEnd
<1>8. ASSUME NEW p \in Lwps, NEW u \in Lwps, Unpark(u, p) PROVE WokenOnce'
  BY <1>8 DEF Unpark, WakeStage, SwitchedOut
<1>9. ASSUME NEW p \in Lwps, NEW u \in Lwps, Wakeup(u, p) PROVE WokenOnce'
  BY <1>9 DEF Wakeup, WakeStage, SwitchedOut
<1>10. ASSUME NEW u \in Lwps, UnparkLock(u) PROVE WokenOnce'
  BY <1>10 DEF UnparkLock
<1>11. ASSUME NEW u \in Lwps, UnparkWake(u) PROVE WokenOnce'
  BY <1>11 DEF UnparkWake
<1>12. ASSUME NEW p \in Lwps, Expire(p) PROVE WokenOnce'
  BY <1>12 DEF Expire
<1>13. ASSUME NEW p \in Lwps, ExpireWake(p) PROVE WokenOnce'
  BY <1>13 DEF ExpireWake, SwitchedOut
<1>14. CASE UNCHANGED pkVars
  BY <1>14 DEF pkVars
<1> QED
  BY <1>1, <1>2, <1>3, <1>4, <1>5, <1>6, <1>7, <1>8, <1>9, <1>10, <1>11, <1>12,
     <1>13, <1>14, Zenon DEF PkNext, Progress

(* However parks, unparks and timeouts race, a parked thread is put on the *)
(* run queue at most once per park, after its context has been saved.      *)
THEOREM SingleWakeup == PkSpec => []WokenOnce
<1>1. PkInit => WokenOnce
  BY SMTT(30) DEF PkInit, WokenOnce, Wakers, PARK
<1> QED
  BY <1>1, TypeCorrect, WokenOnceInductive, PTL DEF PkSpec

(* Who is on the timeout queue, or being expired, is parked with a timeout *)
(* and nobody has decided to wake it; and only such parks are ended under  *)
(* timeq_lock.                                                             *)
TimeqMember ==
  \A p \in Lwps :
    /\ (p \in pkTimeq \/ expiring = p) =>
         /\ pkTimed[p] = 1 /\ pkPc[p] = "off" /\ pkQueued[p] = 0
         /\ cb[p] \notin {"insert", "wake"}
         /\ \A u \in Wakers(p) : ust[u] # "wake"
    /\ pkTimed[p] = 0 => /\ cb[p] \notin {"insert", "lock"}
                         /\ \A u \in Wakers(p) : ust[u] # "lock"
    /\ expiring = p => p \notin pkTimeq

LEMMA TimeqMemberInductive ==
  PkTypeOK /\ WokenOnce /\ TimeqMember /\ [PkNext]_pkVars => TimeqMember'
<1> SUFFICES ASSUME PkTypeOK, WokenOnce, TimeqMember, [PkNext]_pkVars PROVE TimeqMember'
  OBVIOUS
<1> USE NoneAssumption DEF PkTypeOK, WokenOnce, TimeqMember, Wakers, PARK, UNPARK, BOTH
<1>1. ASSUME NEW p \in Lwps, Park(p) PROVE TimeqMember'
  BY <1>1 DEF Park
<1>2. ASSUME NEW p \in Lwps, PkCallbackInsert(p) PROVE TimeqMember'
  BY <1>2 DEF PkCallbackInsert, LockFree
<1>3. ASSUME NEW p \in Lwps, CallbackXor(p) PROVE TimeqMember'
  BY <1>3 DEF CallbackXor, StillParked, XorPark
<1>4. ASSUME NEW p \in Lwps, CallbackLock(p) PROVE TimeqMember'
  BY <1>4 DEF CallbackLock, LockFree
<1>5. ASSUME NEW p \in Lwps, CallbackWake(p) PROVE TimeqMember'
  BY <1>5 DEF CallbackWake
<1>6. ASSUME NEW p \in Lwps, Dispatch(p) PROVE TimeqMember'
  BY <1>6 DEF Dispatch
<1>7. ASSUME NEW p \in Lwps, ParkEnd(p) PROVE TimeqMember'
  BY <1>7 DEF ParkEnd
<1>8. ASSUME NEW p \in Lwps, NEW u \in Lwps, Unpark(u, p) PROVE TimeqMember'
  BY <1>8 DEF Unpark, WakeStage, SwitchedOut
<1>9. ASSUME NEW p \in Lwps, NEW u \in Lwps, Wakeup(u, p) PROVE TimeqMember'
  BY <1>9 DEF Wakeup, WakeStage, SwitchedOut
<1>10. ASSUME NEW u \in Lwps, UnparkLock(u) PROVE TimeqMember'
  BY <1>10 DEF UnparkLock, LockFree
<1>11. ASSUME NEW u \in Lwps, UnparkWake(u) PROVE TimeqMember'
  BY <1>11 DEF UnparkWake
<1>12. ASSUME NEW p \in Lwps, Expire(p) PROVE TimeqMember'
  BY <1>12 DEF Expire, LockFree
<1>13. ASSUME NEW p \in Lwps, ExpireWake(p) PROVE TimeqMember'
  BY <1>13 DEF ExpireWake, SwitchedOut
<1>14. CASE UNCHANGED pkVars
  BY <1>14, SMTT(30) DEF pkVars
<1> QED
  BY <1>1, <1>2, <1>3, <1>4, <1>5, <1>6, <1>7, <1>8, <1>9, <1>10, <1>11, <1>12,
     <1>13, <1>14, Zenon DEF PkNext, Progress

LEMMA NoLostUnparkInductive ==
  PkTypeOK /\ WokenOnce /\ TimeqMember /\ NoLostUnpark /\ [PkNext]_pkVars => NoLostUnpark'
<1> SUFFICES ASSUME PkTypeOK, WokenOnce, TimeqMember, NoLostUnpark, [PkNext]_pkVars
             PROVE NoLostUnpark'
  OBVIOUS
<1> USE DEF PkTypeOK, WokenOnce, TimeqMember, NoLostUnpark, Wakers, PARK, UNPARK, BOTH
<1>1. ASSUME NEW p \in Lwps, Park(p) PROVE NoLostUnpark'
  BY <1>1 DEF Park
<1>2. ASSUME NEW p \in Lwps, PkCallbackInsert(p) PROVE NoLostUnpark'
  BY <1>2 DEF PkCallbackInsert, LockFree
<1>3. ASSUME NEW p \in Lwps, CallbackXor(p) PROVE NoLostUnpark'
  BY <1>3 DEF CallbackXor, StillParked, XorPark
<1>4. ASSUME NEW p \in Lwps, CallbackLock(p) PROVE NoLostUnpark'
  BY <1>4 DEF CallbackLock, LockFree
<1>5. ASSUME NEW p \in Lwps, CallbackWake(p) PROVE NoLostUnpark'
  BY <1>5 DEF CallbackWake
<1>6. ASSUME NEW p \in Lwps, Dispatch(p) PROVE NoLostUnpark'
  BY <1>6 DEF Dispatch
<1>7. ASSUME NEW p \in Lwps, ParkEnd(p) PROVE NoLostUnpark'
  BY <1>7 DEF ParkEnd
<1>8. ASSUME NEW p \in Lwps, NEW u \in Lwps, Unpark(u, p) PROVE NoLostUnpark'
  BY <1>8 DEF Unpark, WakeStage, SwitchedOut
<1>9. ASSUME NEW p \in Lwps, NEW u \in Lwps, Wakeup(u, p) PROVE NoLostUnpark'
  BY <1>9 DEF Wakeup, WakeStage, SwitchedOut
<1>10. ASSUME NEW u \in Lwps, UnparkLock(u) PROVE NoLostUnpark'
  BY <1>10 DEF UnparkLock, LockFree
<1>11. ASSUME NEW u \in Lwps, UnparkWake(u) PROVE NoLostUnpark'
  BY <1>11 DEF UnparkWake
<1>12. ASSUME NEW p \in Lwps, Expire(p) PROVE NoLostUnpark'
  BY <1>12 DEF Expire, LockFree
<1>13. ASSUME NEW p \in Lwps, ExpireWake(p) PROVE NoLostUnpark'
  BY <1>13 DEF ExpireWake, SwitchedOut
<1>14. CASE UNCHANGED pkVars
  BY <1>14 DEF pkVars
<1> QED
  BY <1>1, <1>2, <1>3, <1>4, <1>5, <1>6, <1>7, <1>8, <1>9, <1>10, <1>11, <1>12,
     <1>13, <1>14, Zenon DEF PkNext, Progress

LEMMA TimeqMemberInit == PkInit => TimeqMember
BY NoneAssumption DEF PkInit, TimeqMember, Wakers

(* However many threads park, with and without timeouts, and unpark: one   *)
(* that is switched out without a timeout and was unparked is on the run   *)
(* queue or will be put there.  (With a timeout this fails.)               *)
THEOREM NoUnparkLost == PkSpec => []NoLostUnpark
<1>1. PkInit => NoLostUnpark
  BY SMTT(30) DEF PkInit, NoLostUnpark
<1> QED
  BY <1>1, TypeCorrect, SingleWakeup, TimeqMemberInit, TimeqMemberInductive,
     NoLostUnparkInductive, PTL DEF PkSpec

(* While nobody has decided to wake a thread that parked with a timeout,   *)
(* it is on the timeout queue or has bt_timedout set.                      *)
Undecided(p) ==
  /\ pkTimed[p] = 1 /\ pkPc[p] = "off" /\ pkQueued[p] = 0
  /\ cb[p] \notin {"insert", "wake"}
  /\ \A u \in Wakers(p) : ust[u] # "wake"

QueuedOrExpired ==
  \A p \in Lwps : /\ Undecided(p) => (pkTimedout[p] = 0 <=> p \in pkTimeq)
                  /\ cb[p] = "insert" => pkTimedout[p] = 0

LEMMA QueuedOrExpiredInductive ==
  PkTypeOK /\ WokenOnce /\ TimeqMember /\ QueuedOrExpired /\ [PkNext]_pkVars
    => QueuedOrExpired'
<1> SUFFICES ASSUME PkTypeOK, WokenOnce, TimeqMember, QueuedOrExpired, [PkNext]_pkVars
             PROVE QueuedOrExpired'
  OBVIOUS
<1> USE DEF PkTypeOK, WokenOnce, TimeqMember, QueuedOrExpired, Undecided, Wakers,
            PARK, UNPARK, BOTH
<1>1. ASSUME NEW p \in Lwps, Park(p) PROVE QueuedOrExpired'
  BY <1>1 DEF Park
<1>2. ASSUME NEW p \in Lwps, PkCallbackInsert(p) PROVE QueuedOrExpired'
  BY <1>2 DEF PkCallbackInsert, LockFree
<1>3. ASSUME NEW p \in Lwps, CallbackXor(p) PROVE QueuedOrExpired'
  BY <1>3 DEF CallbackXor, StillParked, XorPark
<1>4. ASSUME NEW p \in Lwps, CallbackLock(p) PROVE QueuedOrExpired'
  BY <1>4 DEF CallbackLock, LockFree
<1>5. ASSUME NEW p \in Lwps, CallbackWake(p) PROVE QueuedOrExpired'
  BY <1>5 DEF CallbackWake
<1>6. ASSUME NEW p \in Lwps, Dispatch(p) PROVE QueuedOrExpired'
  BY <1>6 DEF Dispatch
<1>7. ASSUME NEW p \in Lwps, ParkEnd(p) PROVE QueuedOrExpired'
  BY <1>7 DEF ParkEnd
<1>8. ASSUME NEW p \in Lwps, NEW u \in Lwps, Unpark(u, p) PROVE QueuedOrExpired'
  BY <1>8 DEF Unpark, WakeStage, SwitchedOut
<1>9. ASSUME NEW p \in Lwps, NEW u \in Lwps, Wakeup(u, p) PROVE QueuedOrExpired'
  BY <1>9 DEF Wakeup, WakeStage, SwitchedOut
<1>10. ASSUME NEW u \in Lwps, UnparkLock(u) PROVE QueuedOrExpired'
  BY <1>10 DEF UnparkLock, LockFree
<1>11. ASSUME NEW u \in Lwps, UnparkWake(u) PROVE QueuedOrExpired'
  BY <1>11 DEF UnparkWake
<1>12. ASSUME NEW p \in Lwps, Expire(p) PROVE QueuedOrExpired'
  BY <1>12 DEF Expire, LockFree
<1>13. ASSUME NEW p \in Lwps, ExpireWake(p) PROVE QueuedOrExpired'
  BY <1>13 DEF ExpireWake, SwitchedOut
<1>14. CASE UNCHANGED pkVars
  BY <1>14 DEF pkVars
<1> QED
  BY <1>1, <1>2, <1>3, <1>4, <1>5, <1>6, <1>7, <1>8, <1>9, <1>10, <1>11, <1>12,
     <1>13, <1>14, Zenon DEF PkNext, Progress

(* bmk_sched_wake_timeq never removes a thread from a timeout queue that   *)
(* it is not on, and never leaves one on it that it wakes.                 *)
THEOREM RemovalIsSafe == PkSpec => []RemovesQueued
<1>1. PkInit => QueuedOrExpired
  BY DEF PkInit, QueuedOrExpired, Undecided
<1>2. PkTypeOK /\ WokenOnce /\ TimeqMember /\ QueuedOrExpired => RemovesQueued
  BY DEF PkTypeOK, WokenOnce, TimeqMember, QueuedOrExpired, Undecided, RemovesQueued,
         Wakers
<1> QED
  BY <1>1, <1>2, TypeCorrect, SingleWakeup, TimeqMemberInit, TimeqMemberInductive,
     QueuedOrExpiredInductive, PTL DEF PkSpec

(* _lwp_park, _lwp_unpark and their timeouts are sound for any number of   *)
(* threads.                                                                *)
THEOREM ParkIsSound == PkSpec => []ParkSound
<1>1. PkTypeOK /\ WokenOnce /\ RemovesQueued /\ NoLostUnpark => ParkSound
  BY DEF ParkSound
<1> QED
  BY <1>1, TypeCorrect, SingleWakeup, RemovalIsSafe, NoUnparkLost, PTL

-------------------------------------------------------------------------------
(***************************************************************************)
(* Proofs about interrupt delivery, for any set of interrupt lines.        *)
(***************************************************************************)

(* WakeProtocol is inductive by itself.                                    *)
LEMMA WakeProtocolInductive == WakeProtocol /\ [IsNext]_isVars => WakeProtocol'
<1> SUFFICES ASSUME WakeProtocol, [IsNext]_isVars PROVE WakeProtocol'
  OBVIOUS
<1> USE DEF WakeProtocol, isThrVars, regVars, picVars
<1>1. ASSUME NEW i \in Irq, Raise(i) PROVE WakeProtocol'
  BY <1>1 DEF Raise
<1>2. ASSUME NEW i \in Irq, Interrupt(i) PROVE WakeProtocol'
  BY <1>2 DEF Interrupt, FoundZero
<1>3. ASSUME NEW i \in Irq, Register(i) PROVE WakeProtocol'
  BY <1>3 DEF Register, RegUnmask, RegInsert, RegLowest
<1>4. CASE Block
  BY <1>4 DEF Block
<1>5. CASE IsCallback
  BY <1>5 DEF IsCallback, NoLines
<1>6. CASE Take
  BY <1>6 DEF Take
<1>7. CASE Serve
  BY <1>7 DEF Serve
<1>8. CASE Again
  BY <1>8 DEF Again
<1>9. CASE Ack
  BY <1>9 DEF Ack
<1>10. CASE UNCHANGED isVars
  BY <1>10 DEF isVars
<1> QED
  BY <1>1, <1>2, <1>3, <1>4, <1>5, <1>6, <1>7, <1>8, <1>9, <1>10 DEF IsNext, ThreadStep

(* From the very start, before and while handlers are registered, the      *)
(* interrupt thread is woken exactly when it is switched out and a line is *)
(* recorded for it.                                                        *)
THEOREM InterruptThreadWoken == IsSpec => []WakeProtocol
<1>1. IsInit => WakeProtocol
  BY DEF IsInit, Start, WakeProtocol
<1> QED
  BY <1>1, WakeProtocolInductive, PTL DEF IsSpec

(* What the assertion and the handlers rest on when no line interrupts     *)
(* before it is registered: whatever is requested or recorded is of a      *)
(* registered line, for which there is a handler that isr_lowest reaches.  *)
Registered == {i \in Irq : reg[i] = "done"}

Covered ==
  /\ reg \in [Irq -> {"none", "unmasked", "inserted", "done"}]
  /\ lowest \in Nat
  /\ irr \subseteq Registered
  /\ todo \subseteq Registered
  /\ isrcopy \subseteq Registered
  /\ \A i \in Irq : reg[i] \in {"inserted", "done"} => i \in handler
  /\ \A i \in Registered : lowest <= i
  /\ isPc \notin {"serve", "halted"} => isrcopy = {}
  /\ isPc # "halted"

LEMMA CoveredInductive ==
  ASSUME EarlyLines = {}
  PROVE  Covered /\ [IsNext]_isVars => Covered'
<1> SUFFICES ASSUME Covered, [IsNext]_isVars PROVE Covered'
  OBVIOUS
<1> USE DEF Covered, Registered, isThrVars, regVars, picVars
<1>1. ASSUME NEW i \in Irq, Raise(i) \/ Interrupt(i) PROVE Covered'
  BY <1>1 DEF Raise, Interrupt, Deliverable
<1>2. ASSUME NEW i \in Irq, RegUnmask(i) \/ RegInsert(i) PROVE Covered'
  BY <1>2 DEF RegUnmask, RegInsert
<1>3. ASSUME NEW i \in Irq, RegLowest(i) PROVE Covered'
  <2>1. \A j \in Irq : j \in Nat
    BY IrqAssumption
  <2>2. lowest' \in Nat /\ lowest' <= lowest /\ lowest' <= i
    BY <1>3, <2>1 DEF RegLowest, NewLowest
  <2>3. \A j \in Registered' : lowest' <= j
    BY <1>3, <2>1, <2>2 DEF RegLowest
  <2> QED
    BY <1>3, <2>2, <2>3 DEF RegLowest
<1>4. CASE Block \/ IsCallback
  BY <1>4 DEF Block, IsCallback
<1>5. CASE Take
  BY <1>5 DEF Take
<1>6. CASE Serve
  <2>1. \A i \in isrcopy : ScanReaches(i)
    BY DEF ScanReaches
  <2> QED
    BY <1>6, <2>1 DEF Serve
<1>8. CASE Again
  BY <1>8 DEF Again, NothingMore
<1>9. CASE Ack
  BY <1>9 DEF Ack
<1>10. CASE UNCHANGED isVars
  BY <1>10 DEF isVars
<1> QED
  BY <1>1, <1>2, <1>3, <1>4, <1>5, <1>6, <1>8, <1>9, <1>10
     DEF IsNext, ThreadStep, Register

LEMMA CoveredInit == IsInit => Covered
BY IrqAssumption DEF IsInit, Start, Covered, Registered

(* If devices interrupt only once their handlers are registered, the scan  *)
(* of doisr never runs past the last bit (the assertion of intr.c:120),    *)
(* registrations on other CPUs notwithstanding.                            *)
THEOREM ScanIsSafe ==
  ASSUME EarlyLines = {}
  PROVE  IsSpec => []ScanFindsAll
<1>1. Covered => ScanFindsAll
  BY DEF Covered, ScanFindsAll
<1>2. Covered /\ [IsNext]_isVars => Covered'
  BY CoveredInductive
<1> QED
  BY <1>1, <1>2, CoveredInit, PTL DEF IsSpec

LEMMA NoInterruptLostInductive ==
  Covered /\ NoInterruptLost /\ [IsNext]_isVars => NoInterruptLost'
<1> SUFFICES ASSUME Covered, NoInterruptLost, [IsNext]_isVars PROVE NoInterruptLost'
  OBVIOUS
<1> USE DEF Covered, Registered, NoInterruptLost, isThrVars, regVars, picVars
<1>1. ASSUME NEW i \in Irq, Raise(i) \/ Interrupt(i) PROVE NoInterruptLost'
  BY <1>1 DEF Raise, Interrupt
<1>2. ASSUME NEW i \in Irq, Register(i) PROVE NoInterruptLost'
  BY <1>2 DEF Register, RegUnmask, RegInsert, RegLowest
<1>3. CASE Block \/ IsCallback
  BY <1>3 DEF Block, IsCallback
<1>4. CASE Take
  BY <1>4 DEF Take
<1>5. CASE Serve
  BY <1>5 DEF Serve
<1>7. CASE Again
  BY <1>7 DEF Again, NothingMore
<1>8. CASE Ack
  BY <1>8 DEF Ack
<1>9. CASE UNCHANGED isVars
  BY <1>9 DEF isVars
<1> QED
  BY <1>1, <1>2, <1>3, <1>4, <1>5, <1>7, <1>8, <1>9 DEF IsNext, ThreadStep

(* Under the same assumption, an event of a device stays requested,        *)
(* recorded or in the hands of the interrupt thread until it is handled.   *)
THEOREM InterruptsKept ==
  ASSUME EarlyLines = {}
  PROVE  IsSpec => []NoInterruptLost
<1>1. IsInit => NoInterruptLost
  BY DEF IsInit, Start, NoInterruptLost
<1>2. Covered /\ [IsNext]_isVars => Covered'
  BY CoveredInductive
<1> QED
  BY <1>1, <1>2, CoveredInit, NoInterruptLostInductive, PTL DEF IsSpec

(* The three together: the interrupt thread is sound if devices interrupt  *)
(* only once their handlers are registered.                                *)
THEOREM IsrIsSound ==
  ASSUME EarlyLines = {}
  PROVE  IsSpec => []IsrSound
<1>1. WakeProtocol /\ NoInterruptLost /\ ScanFindsAll => IsrSound
  BY DEF IsrSound
<1>2. IsSpec => []ScanFindsAll
  BY ScanIsSafe
<1>3. IsSpec => []NoInterruptLost
  BY InterruptsKept
<1> QED
  BY <1>1, <1>2, <1>3, InterruptThreadWoken, PTL
================================================================================
