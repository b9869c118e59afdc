-------------------------------- MODULE Sched --------------------------------
(***************************************************************************)
(* The thread scheduler of the runtime (libbmk_core/sched.c): per-CPU and  *)
(* shared run queues, the timeout queues, context switches with their      *)
(* post-switch callbacks, thread creation, exit, join and the reaper, with *)
(* rumpuser_clock_sleep as the user of the timeout queue.                  *)
(*                                                                         *)
(* The lock-free rings that hold thread indices are atomic FIFO queues.    *)
(* A CPU executes schedule() in small steps, so that two CPUs interleave   *)
(* between any two queue operations.                                       *)
(***************************************************************************)
EXTENDS Integers, Sequences, FiniteSets, Functions

CONSTANTS
  NCpus,      \* bmk_numcpus
  NThreads,   \* BMK_MAX_THREADS: entries of thread_array, idle ones aside
  NNodes,     \* block-queue nodes left after the idle threads got theirs
  MaxTime,    \* bound on the clock
  Delays,     \* sleep times a thread may ask for
  Pins,       \* CPU indices threads are created with (AnyCpu: not bound)
  JoinKinds,  \* values of the joinable argument
  Ops         \* what threads do: subset of create, join, sleep, yield, exit

Cpu == 0..(NCpus - 1)
Thread == 0..(NThreads - 1)
AnyCpu == -1             \* index MAXCPUS: the queue every CPU looks at
Idle(c) == NThreads + c   \* the idle thread of a CPU, on no queue
Main == 0

(* bt_cpuidx of a new thread: with one CPU there is no shared queue.       *)
CpuIdx == IF NCpus = 1 THEN {0} ELSE Pins
Queue == Cpu \cup {AnyCpu}

ASSUME SchedAssumption ==
  /\ NCpus \in Nat \ {0}
  /\ NThreads \in Nat \ {0}
  /\ NNodes \in Nat \ {0}
  /\ MaxTime \in Nat
  /\ Delays \subseteq Nat
  /\ Pins \subseteq Queue
  /\ JoinKinds \subseteq BOOLEAN

(* A join word is 0, 1, 2 or the address of a thread.                      *)
Ptr(t) == 100 + t
ThreadAt(v) == v - 100

VARIABLES
  runq, timeq,   \* per CPU index: queues of threads
  freeq, zombieq,
  nodes,         \* number of free block-queue nodes
  cur,           \* per CPU: the thread it runs
  cpc,           \* per CPU: run, or where it is in schedule()
  left, kind,    \* per CPU: thread switched away from, its callback
  curtime,       \* per CPU: the time schedule() read
  tpc,           \* per thread: what it does when it runs next
  target,        \* per thread: the thread it joins
  cpuidx, joinable,
  virgin,        \* per thread, idle ones included: it has not run yet
  wakeup, timedout,      \* bt_wakeup_time, bt_timedout
  join, exit,            \* bt_join, bt_exit
  claimed,       \* per thread: somebody has called bmk_sched_join for it
  now,
  halted         \* bmk_platform_halt has been called

cpuVars == <<cur, cpc, left, kind, curtime>>
timeVars == <<timeq, wakeup, timedout>>
joinVars == <<join, exit, target, claimed>>
thrVars == <<cpuidx, joinable, virgin>>
slotVars == <<freeq, zombieq, nodes>>
vars == <<runq, cpuVars, timeVars, joinVars, thrVars, slotVars, tpc, now, halted>>

(* The run queue after bmk_sched_wake.  Mutant: last in, first out.        *)
EnqueuedFirst(q, t) == [q EXCEPT ![cpuidx[t]] = <<t>> \o @]
Enqueued(q, t) == [q EXCEPT ![cpuidx[t]] = Append(@, t)]

-----------------------------------------------------------------------------
(* schedule().                                                             *)

(* A thread, or the idle loop, enters schedule() with a callback.          *)
Enter(c, k) ==
  /\ cpc' = [cpc EXCEPT ![c] = "local"]
  /\ kind' = [kind EXCEPT ![c] = k]
  /\ UNCHANGED <<cur, left, curtime>>

(* prev == next: no switch, and no callback.                               *)
SwitchTo(c, t) ==
  /\ IF t = cur[c]
       THEN /\ cpc' = [cpc EXCEPT ![c] = "reap"]
            /\ UNCHANGED <<cur, left>>
       ELSE /\ cpc' = [cpc EXCEPT ![c] = "callback"]
            /\ left' = [left EXCEPT ![c] = cur[c]]
            /\ cur' = [cur EXCEPT ![c] = t]
  /\ UNCHANGED <<kind, curtime>>

Dequeue(c, q) ==
  /\ runq[q] # <<>>
  /\ SwitchTo(c, Head(runq[q]))
  /\ runq' = [runq EXCEPT ![q] = Tail(@)]

GoOn(c, pc) ==
  /\ cpc' = [cpc EXCEPT ![c] = pc]
  /\ UNCHANGED <<cur, left, kind, curtime, runq>>

PickLocal(c) ==
  /\ cpc[c] = "local"
  /\ \/ Dequeue(c, c)
     \/ runq[c] = <<>> /\ GoOn(c, IF NCpus = 1 THEN "times" ELSE "shared")
  /\ UNCHANGED <<timeVars, joinVars, thrVars, slotVars, tpc, now, halted>>

PickShared(c) ==
  /\ cpc[c] = "shared"
  /\ \/ Dequeue(c, AnyCpu)
     \/ runq[AnyCpu] = <<>> /\ GoOn(c, "times")
  /\ UNCHANGED <<timeVars, joinVars, thrVars, slotVars, tpc, now, halted>>

ReadClock(c) ==
  /\ cpc[c] = "times"
  /\ cpc' = [cpc EXCEPT ![c] = "expire"]
  /\ curtime' = [curtime EXCEPT ![c] = now]
  /\ UNCHANGED <<runq, cur, left, kind, timeVars, joinVars, thrVars, slotVars,
                 tpc, now, halted>>

Expired(t, time) == wakeup[t] <= time

(* The expired threads at the front of a timeout queue, which is sorted.   *)
Due(q, time) ==
  LET n == CHOOSE n \in 0..Len(timeq[q]) :
             /\ \A i \in 1..n : Expired(timeq[q][i], time)
             /\ n < Len(timeq[q]) => ~Expired(timeq[q][n + 1], time)
  IN SubSeq(timeq[q], 1, n)

(* TAILQ_REMOVE of the expired ones.                                       *)
Removed(q, n) == SubSeq(timeq[q], n + 1, Len(timeq[q]))

(* Under timeq_lock, expired threads of the CPU's own queue and of the     *)
(* shared one are marked, removed and woken; then the idle thread is next, *)
(* or, when it is the idle thread that looks, the search starts over.      *)
(* The wakeups are bmk_sched_wake, the bt_wake of rumpuser_clock_sleep.    *)
ExpireTimeouts(c) ==
  /\ cpc[c] = "expire"
  /\ LET due == [q \in Queue |-> IF q \in {c, AnyCpu} THEN Due(q, curtime[c])
                                                   ELSE <<>>]
     IN /\ timedout' = [t \in Thread |->
                          timedout[t] \/ t \in Range(due[c]) \cup Range(due[AnyCpu])]
        /\ timeq' = [q \in Queue |-> Removed(q, Len(due[q]))]
        /\ runq' = [q \in Queue |-> runq[q] \o due[q]]
  /\ IF cur[c] = Idle(c)
       THEN cpc' = [cpc EXCEPT ![c] = "local"] /\ UNCHANGED <<cur, left, kind, curtime>>
       ELSE SwitchTo(c, Idle(c))
  /\ UNCHANGED <<wakeup, joinVars, thrVars, slotVars, tpc, now, halted>>

-----------------------------------------------------------------------------
(* Callbacks, run on the stack of the next thread once the context of the  *)
(* previous one is saved.                                                  *)

(* bmk_insert_timeq: before the first thread with a later wakeup time.     *)
InsertSorted(q, t) ==
  LET n == CHOOSE n \in 0..Len(q) :
             /\ \A i \in 1..n : wakeup[q[i]] <= wakeup[t]
             /\ n < Len(q) => wakeup[q[n + 1]] > wakeup[t]
  IN SubSeq(q, 1, n) \o <<t>> \o SubSeq(q, n + 1, Len(q))

(* The word a thread blocks on: its target's bt_join, or its own bt_exit.  *)
JoinWord(t) == IF tpc[t] = "joinpost" THEN join[target[t]] ELSE exit[t]

SetJoinWord(t, v) ==
  IF tpc[t] = "joinpost"
    THEN join' = [join EXCEPT ![target[t]] = v] /\ UNCHANGED exit
    ELSE exit' = [exit EXCEPT ![t] = v] /\ UNCHANGED join

(* After the callback a new thread starts its function (the idle one at    *)
(* once schedules again); any other returns and goes on to the reaper.     *)
AfterCallback(c) ==
  /\ left' = [left EXCEPT ![c] = Idle(c)]
  /\ kind' = [kind EXCEPT ![c] = "none"]
  /\ IF virgin[cur[c]]
       THEN /\ cpc' = [cpc EXCEPT ![c] = IF cur[c] = Idle(c) THEN "local" ELSE "run"]
            /\ virgin' = [virgin EXCEPT ![cur[c]] = FALSE]
       ELSE /\ cpc' = [cpc EXCEPT ![c] = "reap"]
            /\ UNCHANGED virgin
  /\ UNCHANGED <<cur, curtime, tpc, cpuidx, joinable, target, claimed, now, halted,
                 wakeup, timedout, freeq, nodes>>

InCallback(c, k) == cpc[c] = "callback" /\ kind[c] = k /\ AfterCallback(c)

NoCallback(c) ==
  /\ InCallback(c, "none")
  /\ UNCHANGED <<runq, timeq, zombieq, join, exit>>

YieldCallback(c) ==
  /\ InCallback(c, "yield")
  /\ runq' = Enqueued(runq, left[c])
  /\ UNCHANGED <<timeq, zombieq, join, exit>>

ClockCallback(c) ==
  /\ InCallback(c, "sleep")
  /\ timeq' = [timeq EXCEPT ![cpuidx[left[c]]] = InsertSorted(@, left[c])]
  /\ UNCHANGED <<runq, zombieq, join, exit>>

ExitCallback(c) ==
  /\ InCallback(c, "exit")
  /\ zombieq' = Append(zombieq, left[c])
  /\ UNCHANGED <<runq, timeq, join, exit>>

(* What the exchange in join_callback finds when the post came first.      *)
NeverPosted(v) == FALSE
AlreadyPosted(v) == v = 1

JoinCallback(c) ==
  /\ InCallback(c, "join")
  /\ SetJoinWord(left[c], Ptr(left[c]))
  /\ runq' = IF AlreadyPosted(JoinWord(left[c])) THEN Enqueued(runq, left[c])
                                                 ELSE runq
  /\ UNCHANGED <<timeq, zombieq>>

Callback(c) == \/ NoCallback(c) \/ YieldCallback(c) \/ ClockCallback(c)
               \/ ExitCallback(c) \/ JoinCallback(c)

(* The reaper loop: the stack of an exited thread is freed and its slot    *)
(* becomes available.  Its block node is not returned to nodes.            *)
Reap(c) ==
  /\ cpc[c] = "reap"
  /\ zombieq # <<>>
  /\ zombieq' = Tail(zombieq)
  /\ freeq' = Append(freeq, Head(zombieq))
  /\ UNCHANGED <<runq, cpuVars, timeVars, joinVars, thrVars, nodes, tpc, now,
                 halted>>

(* schedule() returns; the idle thread calls it again.                     *)
Return(c) ==
  /\ cpc[c] = "reap"
  /\ zombieq = <<>>
  /\ IF cur[c] = Idle(c)
       THEN Enter(c, "none")
       ELSE cpc' = [cpc EXCEPT ![c] = "run"] /\ UNCHANGED <<cur, left, kind, curtime>>
  /\ UNCHANGED <<runq, timeVars, joinVars, thrVars, slotVars, tpc, now, halted>>

-----------------------------------------------------------------------------
(* What a running thread does.                                             *)

Runs(c, t, pc) == cpc[c] = "run" /\ cur[c] = t /\ tpc[t] = pc

(* join_init.                                                              *)
InitWord(w) == 1

(* bmk_sched_create_withtls: no free slot and the call returns NULL; no    *)
(* free node and the system halts.                                         *)
Create(c) ==
  /\ "create" \in Ops
  /\ \E t \in Thread : Runs(c, t, "user")
  /\ freeq # <<>>
  /\ nodes > 0
  /\ LET u == Head(freeq) IN
     \E idx \in CpuIdx, j \in JoinKinds :
       /\ cpuidx' = [cpuidx EXCEPT ![u] = idx]
       /\ joinable' = [joinable EXCEPT ![u] = j]
       /\ virgin' = [virgin EXCEPT ![u] = TRUE]
       /\ join' = [join EXCEPT ![u] = InitWord(@)]
       /\ exit' = [exit EXCEPT ![u] = InitWord(@)]
       /\ claimed' = [claimed EXCEPT ![u] = FALSE]
       /\ tpc' = [tpc EXCEPT ![u] = "user"]
       /\ timedout' = [timedout EXCEPT ![u] = FALSE]
       /\ runq' = [runq EXCEPT ![idx] = Append(@, u)]
  /\ freeq' = Tail(freeq)
  /\ nodes' = nodes - 1
  /\ UNCHANGED <<cpuVars, timeq, wakeup, target, zombieq, now, halted>>

CreateHalts(c) ==
  /\ "create" \in Ops
  /\ \E t \in Thread : Runs(c, t, "user")
  /\ freeq # <<>>
  /\ nodes = 0
  /\ halted' = TRUE
  /\ UNCHANGED <<runq, cpuVars, timeVars, joinVars, thrVars, slotVars, tpc, now>>

Yield(c) ==
  /\ "yield" \in Ops
  /\ \E t \in Thread : Runs(c, t, "user")
  /\ Enter(c, "yield")
  /\ UNCHANGED <<runq, timeVars, joinVars, thrVars, slotVars, tpc, now, halted>>

(* rumpuser_clock_sleep with a relative or an absolute time.               *)
ClockSleep(c) ==
  /\ "sleep" \in Ops
  /\ \E t \in Thread, d \in Delays :
       /\ Runs(c, t, "user")
       /\ now + d <= MaxTime
       /\ wakeup' = [wakeup EXCEPT ![t] = now + d]
       /\ timedout' = [timedout EXCEPT ![t] = FALSE]
       /\ tpc' = [tpc EXCEPT ![t] = "slept"]
  /\ Enter(c, "sleep")
  /\ UNCHANGED <<runq, timeq, joinVars, thrVars, slotVars, now, halted>>

(* The sleeper is back from bmk_sched_block.                               *)
SleepDone(c) ==
  /\ \E t \in Thread :
       /\ Runs(c, t, "slept")
       /\ tpc' = [tpc EXCEPT ![t] = "user"]
  /\ UNCHANGED <<runq, cpuVars, timeVars, joinVars, thrVars, slotVars, now, halted>>

(* bmk_join_wait: the counter was 1 and the caller blocks, or the post has *)
(* been made and it goes on.                                               *)
BlockOn(c, t, word) ==
  IF word = 1
    THEN Enter(c, "join") /\ timedout' = [timedout EXCEPT ![t] = FALSE]
    ELSE UNCHANGED <<cpuVars, timedout>>

(* bmk_join_post: a word above 1 is the address of a blocked thread.       *)
WakeIfPtr(word) ==
  IF word > 1 THEN runq' = Enqueued(runq, ThreadAt(word)) ELSE UNCHANGED runq

(* bmk_sched_join, in two steps.  A joinable thread is joined once.        *)
JoinWait(c) ==
  /\ "join" \in Ops
  /\ \E t \in Thread, u \in Thread \ {Main} :
       /\ Runs(c, t, "user")
       /\ u # t
       /\ tpc[u] # "free" /\ joinable[u] /\ ~claimed[u]
       /\ claimed' = [claimed EXCEPT ![u] = TRUE]
       /\ target' = [target EXCEPT ![t] = u]
       /\ tpc' = [tpc EXCEPT ![t] = "joinpost"]
       /\ join' = [join EXCEPT ![u] = @ - 1]
       /\ BlockOn(c, t, join[u])
  /\ UNCHANGED <<runq, timeq, wakeup, exit, thrVars, slotVars, now, halted>>

JoinPost(c) ==
  /\ \E t \in Thread :
       /\ Runs(c, t, "joinpost")
       /\ exit' = [exit EXCEPT ![target[t]] = @ + 1]
       /\ WakeIfPtr(exit[target[t]])
       /\ tpc' = [tpc EXCEPT ![t] = "user"]
  /\ UNCHANGED <<cpuVars, timeVars, join, target, claimed, thrVars, slotVars,
                 now, halted>>

(* bmk_sched_exit_withtls: a joinable thread announces its end and waits   *)
(* for the joiner; then it gives up the CPU for the last time.  The main   *)
(* thread does not exit: when it is done the system halts.                 *)
ExitPost(c) ==
  /\ "exit" \in Ops
  /\ \E t \in Thread :
       /\ Runs(c, t, "user")
       /\ t # Main
       /\ IF joinable[t]
            THEN /\ join' = [join EXCEPT ![t] = @ + 1]
                 /\ WakeIfPtr(join[t])
                 /\ tpc' = [tpc EXCEPT ![t] = "exitwait"]
            ELSE /\ tpc' = [tpc EXCEPT ![t] = "exitfinal"]
                 /\ UNCHANGED <<runq, join>>
  /\ UNCHANGED <<cpuVars, timeVars, exit, target, claimed, thrVars, slotVars,
                 now, halted>>

ExitWait(c) ==
  /\ \E t \in Thread :
       /\ Runs(c, t, "exitwait")
       /\ exit' = [exit EXCEPT ![t] = @ - 1]
       /\ tpc' = [tpc EXCEPT ![t] = "exitfinal"]
       /\ BlockOn(c, t, exit[t])
  /\ UNCHANGED <<runq, timeq, wakeup, join, target, claimed, thrVars, slotVars,
                 now, halted>>

ExitFinal(c) ==
  /\ \E t \in Thread :
       /\ Runs(c, t, "exitfinal")
       /\ tpc' = [tpc EXCEPT ![t] = "free"]
  /\ Enter(c, "exit")
  /\ UNCHANGED <<runq, timeVars, joinVars, thrVars, slotVars, now, halted>>

Tick ==
  /\ now < MaxTime
  /\ now' = now + 1
  /\ UNCHANGED <<runq, cpuVars, timeVars, joinVars, thrVars, slotVars, tpc, halted>>

(* bmk_sched_init and the start of the CPUs: the main thread runs on the   *)
(* first CPU, the others look for work in their idle threads.              *)
Init ==
  /\ runq = [q \in Queue |-> <<>>]
  /\ timeq = [q \in Queue |-> <<>>]
  /\ freeq = [i \in 1..(NThreads - 1) |-> i]
  /\ zombieq = <<>>
  /\ nodes = NNodes - 1
  /\ cur = [c \in Cpu |-> IF c = 0 THEN Main ELSE Idle(c)]
  /\ cpc = [c \in Cpu |-> IF c = 0 THEN "run" ELSE "local"]
  /\ left = [c \in Cpu |-> Idle(c)]
  /\ kind = [c \in Cpu |-> "none"]
  /\ curtime = [c \in Cpu |-> 0]
  /\ tpc = [t \in Thread |-> IF t = Main THEN "user" ELSE "free"]
  /\ target = [t \in Thread |-> Main]
  /\ cpuidx = [t \in Thread |-> IF NCpus = 1 THEN 0 ELSE AnyCpu]
  /\ joinable = [t \in Thread |-> FALSE]
  /\ virgin = [t \in 0..(NThreads + NCpus - 1) |-> t = Idle(0)]
  /\ wakeup = [t \in Thread |-> 0]
  /\ timedout = [t \in Thread |-> FALSE]
  /\ join = [t \in Thread |-> 1]
  /\ exit = [t \in Thread |-> 1]
  /\ claimed = [t \in Thread |-> FALSE]
  /\ now = 0
  /\ halted = FALSE

Schedule(c) == \/ PickLocal(c) \/ PickShared(c) \/ ReadClock(c)
               \/ ExpireTimeouts(c) \/ Callback(c) \/ Reap(c) \/ Return(c)

(* Calls under way: once made, a running thread completes them.            *)
Continue(c) == \/ SleepDone(c) \/ JoinPost(c) \/ ExitWait(c) \/ ExitFinal(c)

User(c) == \/ Create(c) \/ CreateHalts(c) \/ Yield(c) \/ ClockSleep(c)
           \/ JoinWait(c) \/ ExitPost(c)

Next == /\ ~halted
        /\ \/ \E c \in Cpu : Schedule(c) \/ Continue(c) \/ User(c)
           \/ Tick

Spec == Init /\ [][Next]_vars

(* The CPUs run, and a thread completes a call it has begun.               *)
CpuFairness == \A c \in Cpu : WF_vars(~halted /\ (Schedule(c) \/ Continue(c)))

(* Threads are cooperative: one that runs eventually calls something that  *)
(* gives up the CPU.  Nothing preempts it (platform interrupts do not      *)
(* switch threads).                                                        *)
GiveUp(c) == Yield(c) \/ ClockSleep(c) \/ JoinWait(c) \/ ExitPost(c)
Cooperation == \A c \in Cpu : WF_vars(~halted /\ GiveUp(c))

FairSpec == Spec /\ CpuFairness /\ Cooperation

-----------------------------------------------------------------------------
(* Properties.                                                             *)

QueuesOk(qs) == qs \in [Queue -> Seq(Thread)]
AnyThread == 0..(NThreads + NCpus - 1)    \* the idle ones included
Word == 0..2 \cup {Ptr(t) : t \in Thread} \cup {Ptr(t) + 1 : t \in Thread}

(* Type invariant.                                                         *)
TypeOK ==
  /\ QueuesOk(runq) /\ QueuesOk(timeq)
  /\ freeq \in Seq(Thread) /\ zombieq \in Seq(Thread)
  /\ nodes \in 0..NNodes
  /\ cur \in [Cpu -> AnyThread] /\ left \in [Cpu -> AnyThread]
  /\ \A c \in Cpu : {cur[c], left[c]} \subseteq Thread \cup {Idle(c)}
  /\ cpc \in [Cpu -> {"run", "local", "shared", "times", "expire", "callback", "reap"}]
  /\ kind \in [Cpu -> {"none", "yield", "sleep", "exit", "join"}]
  /\ curtime \in [Cpu -> 0..MaxTime]
  /\ tpc \in [Thread -> {"free", "user", "slept", "joinpost", "exitwait", "exitfinal"}]
  /\ target \in [Thread -> Thread]
  /\ cpuidx \in [Thread -> Queue]
  /\ joinable \in [Thread -> BOOLEAN] /\ claimed \in [Thread -> BOOLEAN]
  /\ virgin \in [AnyThread -> BOOLEAN]
  /\ wakeup \in [Thread -> 0..MaxTime] /\ timedout \in [Thread -> BOOLEAN]
  /\ join \in [Thread -> Word] /\ exit \in [Thread -> Word]
  /\ now \in 0..MaxTime /\ halted \in BOOLEAN

(* Everywhere the scheduler can hold a thread.                             *)
Places(t) ==
  {<<"run", q>> : q \in {q \in Queue : t \in Range(runq[q])}}
  \cup {<<"time", q>> : q \in {q \in Queue : t \in Range(timeq[q])}}
  \cup {<<"cpu", c>> : c \in {c \in Cpu : cur[c] = t}}
  \cup {<<"left", c>> : c \in {c \in Cpu : cpc[c] = "callback" /\ left[c] = t}}
  \cup (IF t \in Range(freeq) THEN {<<"free", 0>>} ELSE {})
  \cup (IF t \in Range(zombieq) THEN {<<"zombie", 0>>} ELSE {})

(* A thread blocked in bmk_join_wait, registered in the word it waits for, *)
(* and somebody who will find it there.                                    *)
BlockedInJoin(t) ==
  \/ /\ tpc[t] = "joinpost"
     /\ join[target[t]] = Ptr(t)
     /\ tpc[target[t]] \in {"user", "slept", "joinpost"}
  \/ /\ tpc[t] = "exitfinal"
     /\ joinable[t]
     /\ exit[t] = Ptr(t)
     /\ ~claimed[t] \/ \E u \in Thread : tpc[u] = "joinpost" /\ target[u] = t

(* The queue rules of sched.c:133-146, for all CPUs at once: a thread is   *)
(* once on one queue, or on one CPU, or in the hands of one callback,      *)
(* never in two places; and one that is nowhere waits in a join whose      *)
(* other side has still to come, so it cannot be lost.  No stack is ever   *)
(* run by two CPUs, freed while in use or handed to a new thread twice.  A *)
(* thread bound to a CPU runs nowhere else, whatever CPU wakes it.         *)
OnePlace ==
  /\ \A q \in Queue : IsInjective(runq[q]) /\ IsInjective(timeq[q])
  /\ IsInjective(freeq) /\ IsInjective(zombieq)
  /\ \A t \in Thread : \/ \E p \in Places(t) : Places(t) = {p}
                       \/ Places(t) = {} /\ BlockedInJoin(t)
  /\ \A c \in Cpu, t \in Thread : cur[c] = t => cpuidx[t] \in {c, AnyCpu}

(* bmk_insert_timeq and the expiry loop keep every timeout queue sorted,   *)
(* so that looking at its front is enough, and a sleeper that runs again   *)
(* has slept until its wakeup time and is told that it timed out.          *)
SleepersOnTime ==
  /\ \A q \in Queue : \A i, j \in 1..Len(timeq[q]) :
       i < j => wakeup[timeq[q][i]] <= wakeup[timeq[q][j]]
  /\ \A c \in Cpu, t \in Thread :
       Runs(c, t, "slept") => wakeup[t] <= now /\ timedout[t]

(* bmk_sched_join returns only after its target has announced its exit,    *)
(* and until the joiner has posted bt_exit the target's slot is neither    *)
(* reaped nor reused: the join words it touches are the target's own.      *)
JoinTargetHeld ==
  \A c \in Cpu, t \in Thread :
    Runs(c, t, "joinpost") =>
      /\ tpc[target[t]] \in {"exitwait", "exitfinal"}
      /\ target[t] \notin Range(freeq) \cup Range(zombieq)

(* On one CPU every thread on the run queue gets to run.                   *)
RunnableRuns ==
  \A c \in Cpu, t \in Thread :
    (t \in Range(runq[c]) \cup Range(runq[AnyCpu])) ~> (cur[c] = t \/ halted)

(* When both sides of a join have arrived, both return: the joiner goes on *)
(* and the target leaves its stack to the reaper.                          *)
JoinCompletes ==
  \A t \in Thread :
    /\ (\E u \in Thread : tpc[t] = "joinpost" /\ target[t] = u /\ tpc[u] \in {"exitwait", "exitfinal"})
         ~> (tpc[t] = "user" \/ halted)
    /\ (claimed[t] /\ tpc[t] = "exitfinal")
         ~> (t \in Range(zombieq) \cup Range(freeq) \/ halted)

(* Every thread is where its state says: in one place, a join target until *)
(* it is joined, a sleeper on the timeout queue until its time.            *)
ThreadsPlaced == TypeOK /\ OnePlace /\ JoinTargetHeld /\ SleepersOnTime

=============================================================================
