------------------------------- MODULE LwpPark -------------------------------
(***************************************************************************)
(* Parking and unparking of lightweight processes (librumprun_base/_lwp.c) *)
(* over the scheduler's timeout queue (libbmk_core/sched.c): what pthread  *)
(* mutexes and condition variables of applications are built on.           *)
(*                                                                         *)
(* A parking thread p runs on one CPU; once it has been switched out, its  *)
(* callback runs on the stack of the next thread, so cb[p] is an actor of  *)
(* its own.  Other actors are the threads that unpark and the CPU whose    *)
(* schedule() expires timeouts.  The clock may reach a deadline at any     *)
(* time.                                                                   *)
(***************************************************************************)
EXTENDS Integers, FiniteSets

CONSTANTS
  Lwps,       \* threads
  Timed,      \* what the ts argument of _lwp_park may be: 0 NULL, 1 a time
  PkNone

ASSUME TimedAssumption == Timed \subseteq 0..1
ASSUME NoneAssumption == PkNone \notin Lwps

(* rl_value: RL_MASK_PARK, RL_MASK_UNPARK, their combination or 0.         *)
PARK == 1
UNPARK == 2
BOTH == 3

VARIABLES
  pkPc,        \* per thread: user, off (switched out), resume (back, to clean up)
  value,     \* rl_value
  pkTimed,     \* 1 when rl_wake is bmk_sched_wake_timeq
  pkTimedout,  \* bt_timedout, as 0 or 1
  pkTimeq,     \* threads on the timeout queue
  pkQueued,    \* per thread: how often it is on the run queue
  cb,        \* callback of a parking thread: none, insert, xor, lock, wake
  ust, vic,  \* per thread: stage of its unpark and whom it will wake
  expiring   \* the thread the expiry loop is at; it holds timeq_lock then

pkVars == <<pkPc, value, pkTimed, pkTimedout, pkTimeq, pkQueued, cb, ust, vic, expiring>>

LockFree == expiring = PkNone

-----------------------------------------------------------------------------
(* _lwp_park.  Its unpark argument is a call of _lwp_unpark before.        *)
Park(p) ==
  /\ pkPc[p] = "user" /\ ust[p] = "none"
  /\ value' = [value EXCEPT ![p] = PARK]
  /\ \/ /\ value[p] = UNPARK                 \* EALREADY
        /\ UNCHANGED <<pkPc, pkTimed, pkTimedout, cb>>
     \/ /\ value[p] # UNPARK
        /\ \E t \in Timed :
             /\ pkTimed' = [pkTimed EXCEPT ![p] = t]
             /\ cb' = [cb EXCEPT ![p] = IF t = 1 THEN "insert" ELSE "xor"]
        /\ pkTimedout' = [pkTimedout EXCEPT ![p] = 0]
        /\ pkPc' = [pkPc EXCEPT ![p] = "off"]
  /\ UNCHANGED <<pkTimeq, pkQueued, ust, vic, expiring>>

(* _lwp_park_callback.                                                     *)
PkCallbackInsert(p) ==
  /\ cb[p] = "insert"
  /\ LockFree
  /\ pkTimeq' = pkTimeq \cup {p}
  /\ cb' = [cb EXCEPT ![p] = "xor"]
  /\ UNCHANGED <<pkPc, value, pkTimed, pkTimedout, pkQueued, ust, vic, expiring>>

(* Mutant of the next definition: look only at the park bit.               *)
ParkBitSet(v) == v \in {PARK, UNPARK}
StillParked(v) == v = PARK

(* fetch_xor with RL_MASK_PARK, the lowest bit.                            *)
XorPark(v) == IF v \in {PARK, BOTH} THEN v - 1 ELSE v + 1

CallbackXor(p) ==
  /\ cb[p] = "xor"
  /\ value' = [value EXCEPT ![p] = XorPark(@)]
  /\ cb' = [cb EXCEPT ![p] = IF StillParked(value[p]) THEN "none"
                             ELSE IF pkTimed[p] = 1 THEN "lock" ELSE "wake"]
  /\ UNCHANGED <<pkPc, pkTimed, pkTimedout, pkTimeq, pkQueued, ust, vic, expiring>>

(* bmk_sched_wake_timeq, its locked part: the timeout came first, or the   *)
(* thread is removed from the queue and will be woken.                     *)
CallbackLock(p) ==
  /\ cb[p] = "lock"
  /\ LockFree
  /\ pkTimeq' = IF pkTimedout[p] = 0 THEN pkTimeq \ {p} ELSE pkTimeq
  /\ cb' = [cb EXCEPT ![p] = IF pkTimedout[p] = 0 THEN "wake" ELSE "none"]
  /\ UNCHANGED <<pkPc, value, pkTimed, pkTimedout, pkQueued, ust, vic, expiring>>

CallbackWake(p) ==
  /\ cb[p] = "wake"
  /\ pkQueued' = [pkQueued EXCEPT ![p] = @ + 1]
  /\ cb' = [cb EXCEPT ![p] = "none"]
  /\ UNCHANGED <<pkPc, value, pkTimed, pkTimedout, pkTimeq, ust, vic, expiring>>

(* schedule() picks the thread; back in _lwp_park it resets rl_value.      *)
Dispatch(p) ==
  /\ pkQueued[p] > 0
  /\ pkPc[p] = "off"
  /\ pkQueued' = [pkQueued EXCEPT ![p] = @ - 1]
  /\ pkPc' = [pkPc EXCEPT ![p] = "resume"]
  /\ UNCHANGED <<value, pkTimed, pkTimedout, pkTimeq, cb, ust, vic, expiring>>

ParkEnd(p) ==
  /\ pkPc[p] = "resume"
  /\ value' = [value EXCEPT ![p] = PARK]
  /\ pkPc' = [pkPc EXCEPT ![p] = "user"]
  /\ UNCHANGED <<pkTimed, pkTimedout, pkTimeq, pkQueued, cb, ust, vic, expiring>>

-----------------------------------------------------------------------------
(* Who finds 0 in rl_value has found the callback complete, and wakes.     *)
(* Mutant: wakes whoever is not unparked yet.                              *)
NotUnparked(v) == v # UNPARK
SwitchedOut(v) == v = 0

WakeStage(p) ==
  IF ~SwitchedOut(value[p]) THEN "none" ELSE IF pkTimed[p] = 1 THEN "lock" ELSE "wake"

(* _lwp_unpark.                                                            *)
Unpark(u, p) ==
  /\ pkPc[u] = "user" /\ ust[u] = "none"
  /\ value' = [value EXCEPT ![p] = UNPARK]
  /\ ust' = [ust EXCEPT ![u] = WakeStage(p)]
  /\ vic' = [vic EXCEPT ![u] = IF SwitchedOut(value[p]) THEN p ELSE u]
  /\ UNCHANGED <<pkPc, pkTimed, pkTimedout, pkTimeq, pkQueued, cb, expiring>>

(* _lwp_wakeup: a compare-and-swap, and ENODEV when it fails.              *)
Wakeup(u, p) ==
  /\ pkPc[u] = "user" /\ ust[u] = "none"
  /\ SwitchedOut(value[p])
  /\ value' = [value EXCEPT ![p] = UNPARK]
  /\ ust' = [ust EXCEPT ![u] = WakeStage(p)]
  /\ vic' = [vic EXCEPT ![u] = p]
  /\ UNCHANGED <<pkPc, pkTimed, pkTimedout, pkTimeq, pkQueued, cb, expiring>>

UnparkLock(u) ==
  /\ ust[u] = "lock"
  /\ LockFree
  /\ pkTimeq' = IF pkTimedout[vic[u]] = 0 THEN pkTimeq \ {vic[u]} ELSE pkTimeq
  /\ ust' = [ust EXCEPT ![u] = IF pkTimedout[vic[u]] = 0 THEN "wake" ELSE "none"]
  /\ vic' = [vic EXCEPT ![u] = IF pkTimedout[@] = 0 THEN @ ELSE u]
  /\ UNCHANGED <<pkPc, value, pkTimed, pkTimedout, pkQueued, cb, expiring>>

UnparkWake(u) ==
  /\ ust[u] = "wake"
  /\ pkQueued' = [pkQueued EXCEPT ![vic[u]] = @ + 1]
  /\ ust' = [ust EXCEPT ![u] = "none"]
  /\ vic' = [vic EXCEPT ![u] = u]
  /\ UNCHANGED <<pkPc, value, pkTimed, pkTimedout, pkTimeq, cb, expiring>>

-----------------------------------------------------------------------------
(* The expiry loop of schedule(), under timeq_lock, and _lwp_wake_timeq.   *)
Expire(p) ==
  /\ LockFree
  /\ p \in pkTimeq
  /\ pkTimedout' = [pkTimedout EXCEPT ![p] = 1]
  /\ pkTimeq' = pkTimeq \ {p}
  /\ expiring' = p
  /\ UNCHANGED <<pkPc, value, pkTimed, pkQueued, cb, ust, vic>>

ExpireWake(p) ==
  /\ expiring = p
  /\ value' = [value EXCEPT ![p] = UNPARK]
  /\ pkQueued' = [pkQueued EXCEPT ![p] = IF SwitchedOut(value[p]) THEN @ + 1 ELSE @]
  /\ expiring' = PkNone
  /\ UNCHANGED <<pkPc, pkTimed, pkTimedout, pkTimeq, cb, ust, vic>>

PkInit ==
  /\ pkPc = [p \in Lwps |-> "user"]
  /\ value = [p \in Lwps |-> PARK]
  /\ pkTimed = [p \in Lwps |-> 0]
  /\ pkTimedout = [p \in Lwps |-> 0]
  /\ pkTimeq = {}
  /\ pkQueued = [p \in Lwps |-> 0]
  /\ cb = [p \in Lwps |-> "none"]
  /\ ust = [p \in Lwps |-> "none"]
  /\ vic = [p \in Lwps |-> p]
  /\ expiring = PkNone

(* What the CPUs go on with whatever the threads do.                       *)
Progress(p) ==
  \/ PkCallbackInsert(p) \/ CallbackXor(p) \/ CallbackLock(p) \/ CallbackWake(p)
  \/ Dispatch(p) \/ ParkEnd(p) \/ UnparkLock(p) \/ UnparkWake(p) \/ ExpireWake(p)

PkNext == \E p \in Lwps : \/ Park(p) \/ Progress(p) \/ Expire(p)
                          \/ \E u \in Lwps : Unpark(u, p) \/ Wakeup(u, p)

PkSpec == PkInit /\ [][PkNext]_pkVars

(* CPUs run, and time passes: a deadline is eventually reached.            *)
PkFairSpec == PkSpec /\ \A p \in Lwps : WF_pkVars(Progress(p)) /\ WF_pkVars(Expire(p))

-----------------------------------------------------------------------------
(* Properties.                                                             *)

(* Type invariant.                                                         *)
PkTypeOK ==
  /\ pkPc \in [Lwps -> {"user", "off", "resume"}]
  /\ value \in [Lwps -> {0, PARK, UNPARK, BOTH}]
  /\ pkTimed \in [Lwps -> 0..1]
  /\ pkTimedout \in [Lwps -> 0..1]
  /\ pkTimeq \subseteq Lwps
  /\ pkQueued \in [Lwps -> Nat]
  /\ cb \in [Lwps -> {"none", "insert", "xor", "lock", "wake"}]
  /\ ust \in [Lwps -> {"none", "lock", "wake"}]
  /\ vic \in [Lwps -> Lwps]
  /\ expiring \in Lwps \cup {PkNone}

(* Threads that have found p switched out and have still to wake it.       *)
Wakers(p) == {u \in Lwps : ust[u] # "none" /\ vic[u] = p}

(* One wakeup per park, whoever races for it: a thread that is switched    *)
(* out sleeps (rl_value 0), or its callback is still at work, or it is on  *)
(* the run queue once, or one unparker is about to put it there; no two of *)
(* these at once, and none for a thread that runs.                         *)
WokenOnce ==
  \A p \in Lwps :
    /\ pkQueued[p] <= 1
    /\ \A u, v \in Wakers(p) : u = v
    /\ value[p] = 0 => pkPc[p] = "off" /\ cb[p] = "none" /\ pkQueued[p] = 0 /\ Wakers(p) = {}
    /\ cb[p] # "none" => pkPc[p] = "off" /\ pkQueued[p] = 0 /\ Wakers(p) = {}
    /\ pkQueued[p] # 0 => pkPc[p] = "off" /\ Wakers(p) = {}
    /\ Wakers(p) # {} => pkPc[p] = "off"

(* bmk_sched_wake_timeq removes a thread only from a queue it is on: the   *)
(* callback inserts before it announces that the thread is switched out,   *)
(* and whoever expires the timeout says so in bt_timedout.                 *)
RemovesQueued ==
  \A p \in Lwps :
    (cb[p] = "lock" \/ \E u \in Wakers(p) : ust[u] = "lock")
      => (pkTimedout[p] = 0 <=> p \in pkTimeq)

(* A thread that is switched out without a timeout sleeps undisturbed, or  *)
(* is queued, or its callback or some unparker will wake it: no unpark is  *)
(* lost.                                                                   *)
NoLostUnpark ==
  \A p \in Lwps :
    pkPc[p] = "off" /\ pkTimed[p] = 0 =>
      \/ value[p] = 0
      \/ pkQueued[p] > 0
      \/ cb[p] # "none"
      \/ Wakers(p) # {}

(* A thread that parked without a timeout and is unparked returns from     *)
(* _lwp_park.                                                              *)
UnparkReturns ==
  \A p \in Lwps :
    (pkPc[p] = "off" /\ pkTimed[p] = 0 /\ value[p] \in {UNPARK, BOTH}) ~> pkPc[p] # "off"

(* sched.c:142-143, of threads on the timeout queue: "When a thread is     *)
(* woken up (possibly by itself of a timeout expires), the thread will     *)
(* move to the runnable queue."                                            *)
TimedParkReturns ==
  \A p \in Lwps : (pkPc[p] = "off" /\ pkTimed[p] = 1) ~> pkPc[p] # "off"

(* Parking is sound: one wakeup per park, only what is queued is removed   *)
(* from the timeout queue, and an unpark is not lost.                      *)
ParkSound == PkTypeOK /\ WokenOnce /\ RemovesQueued /\ NoLostUnpark

=============================================================================
