------------------------------- MODULE CondVar -------------------------------
(***************************************************************************)
(* Kernel mutexes and condition variables of libbmk_rumpuser/              *)
(* rumpuser_synch.c, with the timeout queue of libbmk_core/sched.c for     *)
(* timed waits.                                                            *)
(*                                                                         *)
(* A mutex is a counter of the holder and its waiters, an owner field, and *)
(* a block queue (bmk_block_queue) that hands it from the one who leaves   *)
(* to one who waits.  A thread that has to wait increments the counter, is *)
(* switched out, and only then enters the queue (in its callback): a       *)
(* wakeup that comes before is kept as a mark of the queue (pend).  Who    *)
(* acts on the mutex is a thread, or the callback that gives it up in the  *)
(* name of a thread that has been switched out (condition variables).      *)
(*                                                                         *)
(* A waiter puts itself on the list, blocks, and its callback (run on the  *)
(* next thread's stack) enters it into the timeout queue and gives up the  *)
(* mutex.  A thread that is woken can run on another CPU while its         *)
(* callback is still giving up the mutex.                                  *)
(***************************************************************************)
EXTENDS Integers, Sequences, FiniteSets

CONSTANTS Threads, KmNone

ASSUME ThreadsAssumption == IsFiniteSet(Threads) /\ KmNone \notin Threads

Actor == Threads \X {0, 1}
Self(t) == <<t, 0>>
Cb(t) == <<t, 1>>

VARIABLES
  counter, owner,   \* of the mutex
  bq, pend,         \* its block queue: waiting threads, pending wakeups
  pc,               \* per actor, see below
  queued            \* per thread: run queue entries made by a mutex exit

mutexVars == <<counter, owner, bq, pend>>
kmVars == <<counter, owner, bq, pend, pc, queued>>

(* out: not using the mutex     switch: waits, callback not run yet        *)
(* off: switched out            got: may enter, owner not set              *)
(* held: in the critical section                                           *)
(* exit: owner cleared          wake: left, has to wake a waiter           *)
Goto(a, p) == pc' = [pc EXCEPT ![a] = p]
Wake(t) == queued' = [queued EXCEPT ![t] = @ + 1]

-----------------------------------------------------------------------------
(* rumpuser_mutex_enter, cv_mutex_enter.                                   *)
Free(c) == c = 0

KmEnter(t) ==
  /\ pc[Self(t)] = "out"
  /\ counter' = counter + 1
  /\ Goto(Self(t), IF Free(counter) THEN "got" ELSE "switch")
  /\ UNCHANGED <<owner, bq, pend, queued>>

(* lfqueue_enqueue; mutant: last in, first out.                            *)
Pushed(q, t) == <<t>> \o q
KmEnqueued(q, t) == Append(q, t)

(* block_queue_callback: lfqueue_enqueue fails when a wakeup is pending    *)
(* and takes that wakeup: the mark moves by __LFQ_INC.                     *)
SomePending == pend > 0
Taken(n) == n - 1

KmCallback(t) ==
  /\ pc[Self(t)] = "switch"
  /\ IF SomePending
       THEN pend' = Taken(pend) /\ Wake(t) /\ UNCHANGED bq
       ELSE bq' = KmEnqueued(bq, t) /\ UNCHANGED <<pend, queued>>
  /\ Goto(Self(t), "off")
  /\ UNCHANGED <<counter, owner>>

Resume(t) ==
  /\ pc[Self(t)] = "off"
  /\ queued[t] > 0
  /\ queued' = [queued EXCEPT ![t] = @ - 1]
  /\ Goto(Self(t), "got")
  /\ UNCHANGED mutexVars

SetOwner(t) ==
  /\ pc[Self(t)] = "got"
  /\ owner' = t
  /\ Goto(Self(t), "held")
  /\ UNCHANGED <<counter, bq, pend, queued>>

(* rumpuser_mutex_tryenter when it succeeds (it changes nothing when it    *)
(* fails), and rumpuser_mutex_enter_nowrap once its loop ends.             *)
TryEnter(t) ==
  /\ pc[Self(t)] = "out"
  /\ counter = 0
  /\ counter' = 1
  /\ Goto(Self(t), "got")
  /\ UNCHANGED <<owner, bq, pend, queued>>

(* The holder blocks on a condition variable: from now on its callback     *)
(* holds the mutex for it.                                                 *)
PassToCallback(t) ==
  /\ pc[Self(t)] = "held" /\ pc[Cb(t)] = "out"
  /\ pc' = [pc EXCEPT ![Self(t)] = "out", ![Cb(t)] = "held"]
  /\ UNCHANGED <<mutexVars, queued>>

(* rumpuser_mutex_exit.                                                    *)
ExitClear(a) ==
  /\ pc[a] = "held"
  /\ owner' = KmNone
  /\ Goto(a, "exit")
  /\ UNCHANGED <<counter, bq, pend, queued>>

Last(c) == c = 1

ExitSub(a) ==
  /\ pc[a] = "exit"
  /\ counter' = counter - 1
  /\ Goto(a, IF Last(counter) THEN "out" ELSE "wake")
  /\ UNCHANGED <<owner, bq, pend, queued>>

(* lfqueue_dequeue.                                                        *)
RestOfQueue(q) == Tail(q)

(* bmk_block_queue_wake: wake the first thread, or leave a mark.           *)
ExitWake(a) ==
  /\ pc[a] = "wake"
  /\ IF bq # <<>>
       THEN Wake(Head(bq)) /\ bq' = RestOfQueue(bq) /\ UNCHANGED pend
       ELSE pend' = pend + 1 /\ UNCHANGED <<bq, queued>>
  /\ Goto(a, "out")
  /\ UNCHANGED <<counter, owner>>

KmInit ==
  /\ counter = 0 /\ owner = KmNone
  /\ bq = <<>> /\ pend = 0
  /\ pc = [a \in Actor |-> "out"]
  /\ queued = [t \in Threads |-> 0]

Exit(a) == ExitClear(a) \/ ExitSub(a) \/ ExitWake(a)

KmNext == \/ \E t \in Threads : \/ KmEnter(t) \/ TryEnter(t) \/ KmCallback(t)
                                \/ Resume(t) \/ SetOwner(t) \/ PassToCallback(t)
          \/ \E a \in Actor : Exit(a)

KmSpec == KmInit /\ [][KmNext]_kmVars

-----------------------------------------------------------------------------
(* Properties.                                                             *)

MutexTypeOK ==
  /\ counter \in Nat
  /\ owner \in Threads \cup {KmNone}
  /\ bq \in Seq(Threads)
  /\ pend \in 0..1
  /\ pc \in [Actor -> {"out", "switch", "off", "got", "held", "exit", "wake"}]
  /\ queued \in [Threads -> 0..1]
  /\ \A t \in Threads : pc[Cb(t)] \in {"out", "held", "exit", "wake"}

Holding == {"got", "held", "exit"}

(* No two are in the critical section, or on their way in or out of it;    *)
(* and the owner field names the one that is in it.                        *)
MutualExclusion ==
  /\ \A a, b \in Actor : (pc[a] \in Holding /\ pc[b] \in Holding) => a = b
  /\ \A a \in Actor : pc[a] = "held" => owner = a[1]
  /\ owner # KmNone => \E a \in Actor : pc[a] = "held"

(* Who is counted: holders and waiters.                                    *)
Users == {a \in Actor : pc[a] \notin {"out", "wake"}}

(* The right to the mutex, in the hands of a holder, of one that leaves    *)
(* and will wake a waiter, or of a waiter that has been woken.             *)
HasRight(a) ==
  \/ pc[a] \in Holding \cup {"wake"}
  \/ pc[a] = "off" /\ queued[a[1]] = 1

(* The counter counts holder and waiters, and the right to the mutex is in *)
(* exactly one place while it is not 0: an actor, or the mark of the block *)
(* queue.  Hence no wakeup is lost and none is given twice.                *)
Handover ==
  /\ counter = Cardinality(Users)
  /\ \A a, b \in Actor : (HasRight(a) /\ HasRight(b)) => a = b
  /\ pend = 1 => /\ \A a \in Actor : ~HasRight(a)
                 /\ bq = <<>>
  /\ counter # 0 => pend = 1 \/ \E a \in Actor : HasRight(a)
  /\ counter = 0 => pend = 0 /\ \A a \in Actor : ~HasRight(a)
  /\ \A t \in Threads : queued[t] = 1 => pc[Self(t)] = "off"

(* The block queue holds exactly the threads that wait, once each.         *)
QueuedOnce ==
  /\ \A i, j \in 1..Len(bq) : bq[i] = bq[j] => i = j
  /\ \A t \in Threads :
       (\E i \in 1..Len(bq) : bq[i] = t) <=> (pc[Self(t)] = "off" /\ queued[t] = 0)

(* One thread at a time owns the mutex, and it is handed over to one that  *)
(* waits.                                                                  *)
MutexSound == MutualExclusion /\ Handover

-----------------------------------------------------------------------------
(* Condition variables.                                                    *)
CONSTANTS
  Kinds,      \* kinds of mutex: 0 RUMPUSER_MTX_KMUTEX, 1 RUMPUSER_MTX_SPIN too
  TimedKinds  \* kinds of mutex that timed waits are used with

ASSUME KindsAssumption == Kinds \subseteq 0..1 /\ TimedKinds \subseteq 0..1

VARIABLES
  spin,       \* the kind of the mutex, fixed at its initialisation
  waiters,    \* cv->waiters
  signalled,  \* per thread: w.thread is NULL, as 0 or 1
  cv,         \* per thread: none, insert, sleep, enter, bcast (see below)
  timed,      \* per thread: 1 when w.wake is bmk_sched_wake_timeq
  cvTimedout,   \* bt_timedout
  cvTimeq,      \* threads on the timeout queue
  woken       \* per thread: run queue entries made by a signal or a timeout

(* none: outside of the condition variable's routines                      *)
(* insert: blocks, callback has to enter it into the timeout queue         *)
(* sleep: blocks, or callback is giving up the mutex                       *)
(* enter: was woken, is reacquiring the mutex                              *)
(* bcast: in the loop of rumpuser_cv_broadcast                             *)

cvVars == <<spin, waiters, signalled, cv, timed, cvTimedout, cvTimeq, woken>>
allVars == <<kmVars, cvVars>>

-----------------------------------------------------------------------------
(* Steps of the mutex.  A spin mutex is never waited for in the queue.  A  *)
(* thread that blocks for the mutex clears its bt_timedout                 *)
(* (bmk_sched_block).                                                      *)
Wants(t) == cv[t] \in {"none", "enter"}

EnterMutex(t) ==
  /\ Wants(t)
  /\ spin = 0
  /\ KmEnter(t)
  /\ cvTimedout' = IF Free(counter) THEN cvTimedout ELSE [cvTimedout EXCEPT ![t] = 0]
  /\ UNCHANGED <<spin, waiters, signalled, cv, timed, cvTimeq, woken>>

TryMutex(t) ==
  /\ cv[t] = "none" \/ (cv[t] = "enter" /\ spin = 1)
  /\ TryEnter(t)
  /\ UNCHANGED cvVars

BlockForMutex(t) ==
  /\ KmCallback(t)
  /\ UNCHANGED cvVars

(* bmk_sched_block returns, whoever put the thread on the run queue.       *)
BackFromBlock(t) ==
  /\ pc[Self(t)] = "off"
  /\ queued[t] + woken[t] > 0
  /\ IF queued[t] > 0
       THEN queued' = [queued EXCEPT ![t] = @ - 1] /\ UNCHANGED woken
       ELSE woken' = [woken EXCEPT ![t] = @ - 1] /\ UNCHANGED queued
  /\ Goto(Self(t), "got")
  /\ UNCHANGED <<mutexVars, spin, waiters, signalled, cv, timed, cvTimedout, cvTimeq>>

(* The last step of an enter; in rumpuser_cv_timedwait it is followed by   *)
(* the removal from the list of a waiter that nobody has signalled.        *)
StillListed(t) == timed[t] = 1 /\ signalled[t] = 0
Place(t) == CHOOSE i \in 1..Len(waiters) : waiters[i] = t
Unlisted(t) == [i \in 1..(Len(waiters) - 1) |->
                  waiters[IF i < Place(t) THEN i ELSE i + 1]]

HoldMutex(t) ==
  /\ SetOwner(t)
  /\ cv' = [cv EXCEPT ![t] = "none"]
  /\ waiters' = IF cv[t] = "enter" /\ StillListed(t) THEN Unlisted(t) ELSE waiters
  /\ UNCHANGED <<spin, signalled, timed, cvTimedout, cvTimeq, woken>>

ExitMutex(t) ==
  /\ cv[t] = "none"
  /\ Exit(Self(t))
  /\ UNCHANGED cvVars

-----------------------------------------------------------------------------
(* rumpuser_cv_wait, rumpuser_cv_wait_nowrap (d = 0), rumpuser_cv_timedwait.*)
Wait(t) ==
  /\ cv[t] = "none"
  /\ PassToCallback(t)
  /\ \E d \in {0} \cup (IF spin \in TimedKinds THEN {1} ELSE {}) :
       /\ timed' = [timed EXCEPT ![t] = d]
       /\ cv' = [cv EXCEPT ![t] = IF d = 1 THEN "insert" ELSE "sleep"]
  /\ waiters' = Append(waiters, t)
  /\ signalled' = [signalled EXCEPT ![t] = 0]
  /\ cvTimedout' = [cvTimedout EXCEPT ![t] = 0]
  /\ UNCHANGED <<spin, cvTimeq, woken>>

(* cv_callback_timeout, bmk_insert_timeq.                                  *)
CallbackInsert(t) ==
  /\ cv[t] = "insert"
  /\ cvTimeq' = cvTimeq \cup {t}
  /\ cv' = [cv EXCEPT ![t] = "sleep"]
  /\ UNCHANGED <<kmVars, spin, waiters, signalled, timed, cvTimedout, woken>>

(* cv_callback, cv_callback_timeout: rumpuser_mutex_exit.                  *)
CallbackExit(t) ==
  /\ cv[t] # "insert"
  /\ Exit(Cb(t))
  /\ UNCHANGED cvVars

(* The expiry loop of schedule(), under timeq_lock; bt_wake is             *)
(* bmk_sched_wake.                                                         *)
Timeout(t) ==
  /\ t \in cvTimeq
  /\ cvTimeq' = cvTimeq \ {t}
  /\ cvTimedout' = [cvTimedout EXCEPT ![t] = 1]
  /\ woken' = [woken EXCEPT ![t] = @ + 1]
  /\ UNCHANGED <<kmVars, spin, waiters, signalled, cv, timed>>

Woken(t) ==
  /\ cv[t] = "sleep"
  /\ woken[t] > 0
  /\ woken' = [woken EXCEPT ![t] = @ - 1]
  /\ cv' = [cv EXCEPT ![t] = "enter"]
  /\ UNCHANGED <<kmVars, spin, waiters, signalled, timed, cvTimedout, cvTimeq>>

(* w->wake(thread): bmk_sched_wake, or bmk_sched_wake_timeq, which leaves  *)
(* a thread alone whose timeout has put it on the run queue.               *)
MustWake(w) == timed[w] = 0 \/ cvTimedout[w] = 0

Dequeued(w) == IF timed[w] = 1 /\ cvTimedout[w] = 0 THEN cvTimeq \ {w} ELSE cvTimeq

WakeWaiter(w) ==
  /\ woken' = IF MustWake(w) THEN [woken EXCEPT ![w] = @ + 1] ELSE woken
  /\ cvTimeq' = Dequeued(w)

(* TAILQ_REMOVE of the first waiter; mutant: it stays on the list.         *)
Remaining == waiters
Rest == Tail(waiters)

SignalFirst ==
  /\ waiters # <<>>
  /\ waiters' = Rest
  /\ signalled' = [signalled EXCEPT ![Head(waiters)] = 1]
  /\ WakeWaiter(Head(waiters))

(* rumpuser_cv_signal; without waiters it changes nothing.  The callers    *)
(* hold the mutex.                                                         *)
Signal(t) ==
  /\ cv[t] = "none" /\ pc[Self(t)] = "held"
  /\ SignalFirst
  /\ UNCHANGED <<kmVars, spin, cv, timed, cvTimedout>>

Broadcast(t) ==
  /\ cv[t] \in {"none", "bcast"} /\ pc[Self(t)] = "held"
  /\ SignalFirst
  /\ cv' = [cv EXCEPT ![t] = "bcast"]
  /\ UNCHANGED <<kmVars, spin, timed, cvTimedout>>

BroadcastEnd(t) ==
  /\ cv[t] = "bcast"
  /\ waiters = <<>>
  /\ cv' = [cv EXCEPT ![t] = "none"]
  /\ UNCHANGED <<kmVars, spin, waiters, signalled, timed, cvTimedout, cvTimeq, woken>>

CvInit ==
  /\ KmInit
  /\ spin \in Kinds
  /\ waiters = <<>>
  /\ signalled = [t \in Threads |-> 0]
  /\ cv = [t \in Threads |-> "none"]
  /\ timed = [t \in Threads |-> 0]
  /\ cvTimedout = [t \in Threads |-> 0]
  /\ cvTimeq = {}
  /\ woken = [t \in Threads |-> 0]

(* What threads that have called something and CPUs go on with.            *)
Proceed(t) ==
  \/ BlockForMutex(t) \/ BackFromBlock(t) \/ HoldMutex(t) \/ ExitMutex(t)
  \/ CallbackInsert(t) \/ CallbackExit(t) \/ Timeout(t) \/ Woken(t)
  \/ BroadcastEnd(t) \/ (cv[t] = "bcast" /\ Broadcast(t))
  \/ (cv[t] = "enter" /\ EnterMutex(t))

CvNext == \E t \in Threads : \/ EnterMutex(t) \/ TryMutex(t) \/ Proceed(t)
                             \/ Wait(t) \/ Signal(t) \/ Broadcast(t)

CvSpec == CvInit /\ [][CvNext]_allVars

(* CPUs run; a thread in the critical section leaves it or waits.  Nothing *)
(* is promised to a thread that spins.                                     *)
CvFairSpec == CvSpec /\ \A t \in Threads : WF_allVars(Proceed(t))

-----------------------------------------------------------------------------
(* Properties.                                                             *)

(* Signals and timeouts meet a waiter once.  The condition variable puts a *)
(* thread on the run queue only while it sleeps in it, once, when somebody *)
(* has signalled it or its time has come; as long as nobody has signalled  *)
(* it, it is on the list.  The timeout queue holds exactly the timed       *)
(* sleepers that are not yet woken.  The list holds a thread once at most, *)
(* and only while it is inside the wait: its entry is on its stack.        *)
SleepersTracked ==
  /\ \A t \in Threads :
       /\ woken[t] # 0 => cv[t] = "sleep"
       /\ cv[t] = "sleep" => (woken[t] = 1 <=> signalled[t] = 1 \/ cvTimedout[t] = 1)
       /\ cv[t] \in {"insert", "sleep", "enter"} /\ signalled[t] = 0 =>
            \E i \in 1..Len(waiters) : waiters[i] = t
       /\ t \in cvTimeq <=> cv[t] = "sleep" /\ timed[t] = 1 /\ woken[t] = 0
  /\ \A i, j \in 1..Len(waiters) : waiters[i] = waiters[j] => i = j
  /\ \A i \in 1..Len(waiters) : cv[waiters[i]] \in {"insert", "sleep", "enter"}

(* A thread that waits for a mutex which is not a spin mutex gets it, and  *)
(* one that has been signalled returns holding it.                         *)
EveryWaiterEnters ==
  \A t \in Threads :
    /\ spin = 0
    /\ \/ pc[Self(t)] \in {"switch", "off"}
       \/ cv[t] = "sleep" /\ signalled[t] = 1
    ~> pc[Self(t)] = "held"

(* rumpuser_synch.c:485-488 and 502-505, what the debug build asserts of   *)
(* whoever signals: the caller owns the mutex the waiters gave up.         *)
SignallerOwnsMutex ==
  \A t \in Threads :
    pc[Self(t)] = "held" /\ cv[t] \in {"none", "bcast"} => owner = t

(* The mutex keeps what it promises with threads that wait on a condition  *)
(* variable, and every wait is woken once.                                 *)
LocksSound == MutexSound /\ SleepersTracked

=============================================================================
