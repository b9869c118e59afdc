-------------------------------- MODULE RwLock --------------------------------
(***************************************************************************)
(* The reader/writer lock of lib/libbmk_rumpuser/rumpuser_synch.c: who     *)
(* wants in holds wait_mtx; access_mtx is held by the writer or on behalf  *)
(* of all readers; readers counts them.  The two mutexes do what CondVar   *)
(* shows of them; access_mtx may be released by another thread than the    *)
(* one that entered it.  One action is one access to shared state.         *)
(***************************************************************************)
EXTENDS Integers, FiniteSets

CONSTANTS RwThreads, RwNone

ASSUME RwAssumption == RwNone \notin RwThreads /\ IsFiniteSet(RwThreads)

VARIABLES
  rwWait,     \* who holds wait_mtx
  rwAccess,   \* 1 while access_mtx is held
  rwReaders,  \* rw->readers
  rwType,     \* rw->type
  rwPc,       \* per thread: where it is
  rwExtra     \* readers counted by an uncontended tryenter a second time

rwVars == <<rwWait, rwAccess, rwReaders, rwType, rwPc, rwExtra>>

RwInit ==
  /\ rwWait = RwNone /\ rwAccess = 0 /\ rwReaders = 0 /\ rwType = "UNKNOWN"
  /\ rwPc = [t \in RwThreads |-> "idle"] /\ rwExtra = 0

RwGo(t, from, to) == rwPc[t] = from /\ rwPc' = [rwPc EXCEPT ![t] = to]
RwTake(t) == rwWait = RwNone /\ rwWait' = t
RwLeave(t) == rwWait = t /\ rwWait' = RwNone
Lock == rwAccess = 0 /\ rwAccess' = 1
Unlock == rwAccess = 1 /\ rwAccess' = 0

-----------------------------------------------------------------------------
(* rumpuser_rw_enter.                                                      *)
WantWrite(t) ==
  /\ RwTake(t) /\ RwGo(t, "idle", "w-access")
  /\ UNCHANGED <<rwAccess, rwReaders, rwType, rwExtra>>

WantRead(t) ==
  /\ RwTake(t) /\ RwGo(t, "idle", "r-count")
  /\ UNCHANGED <<rwAccess, rwReaders, rwType, rwExtra>>

(* The first reader gets access for all.                                   *)
FirstReader == rwReaders = 0

CountReader(t) ==
  /\ RwGo(t, "r-count", IF FirstReader THEN "r-access" ELSE "r-leave")
  /\ rwReaders' = rwReaders + 1
  /\ UNCHANGED <<rwWait, rwAccess, rwType, rwExtra>>

Access(t) ==
  /\ Lock
  /\ RwGo(t, "w-access", "w-type") \/ RwGo(t, "r-access", "r-type")
  /\ UNCHANGED <<rwWait, rwReaders, rwType, rwExtra>>

SetType(t) ==
  /\ \/ RwGo(t, "w-type", "w-leave") /\ rwType' = "WRITER"
     \/ RwGo(t, "r-type", "r-leave") /\ rwType' = "READER"
  /\ UNCHANGED <<rwWait, rwAccess, rwReaders, rwExtra>>

Entered(t) ==
  /\ RwLeave(t)
  /\ RwGo(t, "w-leave", "writing") \/ RwGo(t, "r-leave", "reading")
  /\ UNCHANGED <<rwAccess, rwReaders, rwType, rwExtra>>

-----------------------------------------------------------------------------
(* rumpuser_rw_tryenter, with wait_mtx free (else nothing happens).        *)
TryStart(t) ==
  /\ RwTake(t)
  /\ RwGo(t, "idle", "tw-access") \/ RwGo(t, "idle", "t-load")
  /\ UNCHANGED <<rwAccess, rwReaders, rwType, rwExtra>>

(* With readers inside, one more is counted; else access is tried.         *)
TryLoad(t) ==
  /\ RwGo(t, "t-load", IF rwReaders # 0 THEN "t-count" ELSE "t-access")
  /\ UNCHANGED <<rwWait, rwAccess, rwReaders, rwType, rwExtra>>

TryAccess(t) ==
  /\ \/ RwGo(t, "tw-access", IF rwAccess = 0 THEN "w-type" ELSE "t-leave")
     \/ RwGo(t, "t-access", IF rwAccess = 0 THEN "t-store" ELSE "t-leave")
  /\ rwAccess' = 1
  /\ UNCHANGED <<rwWait, rwReaders, rwType, rwExtra>>

(* The loop counts the reader again: the exchange that follows the stores  *)
(* expects 0 readers, finds 1 and is repeated with 1.                      *)
TryStore(t) ==
  /\ RwGo(t, "t-store", "t-type")
  /\ rwReaders' = 1 /\ rwExtra' = rwExtra + 1
  /\ UNCHANGED <<rwWait, rwAccess, rwType>>

TryType(t) ==
  /\ RwGo(t, "t-type", "t-count")
  /\ rwType' = "READER"
  /\ UNCHANGED <<rwWait, rwAccess, rwReaders, rwExtra>>

(* The exchange finds readers, or the last has left in between and access  *)
(* is tried again.                                                         *)
TryCount(t) ==
  /\ IF rwReaders # 0
       THEN RwGo(t, "t-count", "r-leave") /\ rwReaders' = rwReaders + 1
       ELSE RwGo(t, "t-count", "t-access") /\ UNCHANGED rwReaders
  /\ UNCHANGED <<rwWait, rwAccess, rwType, rwExtra>>

TryFailed(t) ==
  /\ RwLeave(t) /\ RwGo(t, "t-leave", "idle")
  /\ UNCHANGED <<rwAccess, rwReaders, rwType, rwExtra>>

-----------------------------------------------------------------------------
(* rumpuser_rw_exit.                                                       *)
RwExit(t) ==
  /\ \E from \in {"writing", "reading"} :
       RwGo(t, from, IF rwType = "WRITER" THEN "x-type" ELSE "x-count")
  /\ UNCHANGED <<rwWait, rwAccess, rwReaders, rwType, rwExtra>>

LastReader == rwReaders = 1

ExitCount(t) ==
  /\ RwGo(t, "x-count", IF LastReader THEN "x-type" ELSE "idle")
  /\ rwReaders' = rwReaders - 1
  /\ UNCHANGED <<rwWait, rwAccess, rwType, rwExtra>>

ExitType(t) ==
  /\ RwGo(t, "x-type", "x-access") /\ rwType' = "UNKNOWN"
  /\ UNCHANGED <<rwWait, rwAccess, rwReaders, rwExtra>>

ExitAccess(t) ==
  /\ Unlock /\ RwGo(t, "x-access", "idle")
  /\ UNCHANGED <<rwWait, rwReaders, rwType, rwExtra>>

-----------------------------------------------------------------------------
(* rumpuser_rw_downgrade.  Access is left to a reader that already waits   *)
(* for it, else kept for the readers.                                      *)
ReaderWaits == rwReaders # 0

Downgrade(t) ==
  /\ RwGo(t, "writing", "d-count") /\ rwType' = "READER"
  /\ UNCHANGED <<rwWait, rwAccess, rwReaders, rwExtra>>

DowngradeCount(t) ==
  /\ RwGo(t, "d-count", IF ReaderWaits THEN "d-access" ELSE "reading")
  /\ rwReaders' = rwReaders + 1
  /\ UNCHANGED <<rwWait, rwAccess, rwType, rwExtra>>

DowngradeAccess(t) ==
  /\ Unlock /\ RwGo(t, "d-access", "reading")
  /\ UNCHANGED <<rwWait, rwReaders, rwType, rwExtra>>

(* rumpuser_rw_tryupgrade: only the last reader.  Mutant: of two as well.  *)
AnyReader == rwReaders >= 1
OnlyReader == rwReaders = 1

TryUpgrade(t) ==
  /\ OnlyReader
  /\ RwGo(t, "reading", "u-type") /\ rwReaders' = 0
  /\ UNCHANGED <<rwWait, rwAccess, rwType, rwExtra>>

UpgradeType(t) ==
  /\ RwGo(t, "u-type", "writing") /\ rwType' = "WRITER"
  /\ UNCHANGED <<rwWait, rwAccess, rwReaders, rwExtra>>

-----------------------------------------------------------------------------
RwStep(t) ==
  \/ WantWrite(t) \/ WantRead(t) \/ CountReader(t) \/ Access(t) \/ SetType(t)
  \/ Entered(t) \/ TryStart(t) \/ TryLoad(t) \/ TryAccess(t) \/ TryStore(t) \/ TryType(t)
  \/ TryCount(t) \/ TryFailed(t) \/ RwExit(t) \/ ExitCount(t) \/ ExitType(t)
  \/ ExitAccess(t) \/ Downgrade(t) \/ DowngradeCount(t) \/ DowngradeAccess(t)
  \/ TryUpgrade(t) \/ UpgradeType(t)

RwNext == \E t \in RwThreads : RwStep(t)

RwSpec == RwInit /\ [][RwNext]_rwVars

-----------------------------------------------------------------------------
(* Properties.                                                             *)
At(S) == {t \in RwThreads : rwPc[t] \in S}

(* A writer is alone.                                                      *)
RwExclusion ==
  At({"writing"}) # {} => Cardinality(At({"writing", "reading", "u-type"})) = 1

(* rw->type, which rumpuser_rw_held and rumpuser_rw_exit go by, tells what *)
(* the threads inside are.                                                 *)
TypeTells ==
  /\ At({"reading"}) # {} => rwType = "READER"
  /\ At({"writing"}) # {} => rwType = "WRITER"

(* Access is held on behalf of somebody: when all are out it is free, and  *)
(* readers counts those who have counted themselves, besides the ones that *)
(* tryenter counts twice.                                                  *)
AccessAccounted ==
  /\ rwReaders = Cardinality(At({"r-access", "r-type", "r-leave", "reading", "x-count", "d-access"}))
                 + rwExtra
  /\ rwAccess = 1 =>
       rwReaders > 0 \/ At({"w-type", "w-leave", "writing", "d-count", "u-type", "x-type",
                            "x-access", "t-store"}) # {}

(* The reader/writer lock: writers are alone, the type tells who is        *)
(* inside, and access is held for somebody.                                *)
RwSound == RwExclusion /\ TypeTells /\ AccessAccounted

=============================================================================
