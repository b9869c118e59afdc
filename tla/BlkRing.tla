------------------------------- MODULE BlkRing --------------------------------
(***************************************************************************)
(* The block device of the Xen platform: the request ring of               *)
(* platform/xen/xen/blkfront.c and the users of                            *)
(* platform/xen/rumphyper_bio.c.  Threads run on one CPU and switch only   *)
(* where they block; the backend works beside them.                        *)
(*                                                                         *)
(* A user performs one operation: "bio" (rumpuser_bio, completed by a      *)
(* callback in whatever thread polls), "io" (blkfront_io, which waits for  *)
(* its request), "syncs" (blkfront_sync with a barrier and a flush; "sync" *)
(* after the first) or "drain" (blkfront_sync on a read-only disk).        *)
(* The thread "bio" is biothread.  Waking a thread puts it once more into  *)
(* the run queue: it is a token here.                                      *)
(***************************************************************************)
EXTENDS Integers, Sequences, FiniteSets

CONSTANTS
  BkUsers,
  BkOps,        \* operations a user may perform
  BkSize        \* RING_SIZE

BkThreads == BkUsers \cup {"bio"}
BkSync == "sync"     \* the id of a request without a control block

VARIABLES
  bkt,                            \* per thread: where it is and its locals
  bkRun,                          \* thread on the CPU, or "none"
  bkIrq,                          \* interrupts are on
  bkTorn,                         \* they came on while another thread polled
  bkTok,                          \* run queue: how often a thread is in it
  blkfront_queue,                 \* waiters in the queue
  req_prod, rsp_cons, rsp_event,  \* ring, our side
  bkReq,                          \* requests not taken by the backend
  bkHeld,                         \* requests it works on
  bkRsp,                          \* responses so far
  bkEvt,                          \* the event channel is pending
  bio_outstanding_total,
  bkDone                          \* per user: completions of its request

bkRing == <<req_prod, rsp_cons, rsp_event, bkReq, bkRsp>>
bkIrqs == <<bkIrq, bkTorn>>
bkBack == <<bkHeld, bkEvt>>
bkVars == <<bkt, bkRun, bkIrqs, bkTok, blkfront_queue, bkRing, bkBack, bio_outstanding_total, bkDone>>

BkInit ==
  /\ \E f \in [BkUsers -> BkOps] :
       bkt = [t \in BkThreads |-> [pc |-> IF t = "bio" THEN "idle" ELSE IF f[t] = "drain" THEN "own" ELSE "slot",
                                   op |-> IF t = "bio" THEN "thread" ELSE f[t],
                                   want |-> "slot", rp |-> 0, cons |-> 0, did |-> 0, flags |-> TRUE]]
  /\ bkRun = "none" /\ bkIrq = TRUE /\ bkTorn = FALSE
  /\ bkTok = [t \in BkThreads |-> 0] /\ blkfront_queue = {}
  /\ req_prod = 0 /\ rsp_cons = 0 /\ rsp_event = 1
  /\ bkReq = <<>> /\ bkHeld = {} /\ bkRsp = <<>> /\ bkEvt = 0
  /\ bio_outstanding_total = 0 /\ bkDone = [u \in BkUsers |-> 0]

rsp_prod == Len(bkRsp)
RingFull == req_prod - rsp_cons = BkSize

BkAt(t, pc) == bkt[t].pc = pc /\ bkRun \in {t, "none"}
BkGoes(t, pc) == bkt' = [bkt EXCEPT ![t].pc = pc] /\ bkRun' = t
BkYields(t, pc) == bkt' = [bkt EXCEPT ![t].pc = pc] /\ bkRun' = "none"

local_irq_save(t, pc, w) ==
  /\ bkt' = [bkt EXCEPT ![t].flags = bkIrq, ![t].pc = pc, ![t].want = w]
  /\ bkIrq' = FALSE /\ bkRun' = t /\ UNCHANGED bkTorn
local_irq_restore(t) ==
  /\ bkIrq' = bkt[t].flags
  /\ bkTorn' = (bkTorn \/ (bkt[t].flags /\ \E u \in BkThreads \ {t} : bkt[u].pc = "callback"))

-----------------------------------------------------------------------------
(* blkfront_wait_slot, ...                                                 *)
blkfront_wait_slot(t) ==
  /\ BkAt(t, "slot")
  /\ IF RingFull THEN local_irq_save(t, "poll", "slot") ELSE BkGoes(t, "put") /\ UNCHANGED bkIrqs
  /\ UNCHANGED <<bkTok, blkfront_queue, bkRing, bkBack, bio_outstanding_total, bkDone>>

(* ... then blkfront_aio or blkfront_push_operation fill the request and   *)
(* push it.                                                                *)
blkfront_aio(t) ==
  /\ BkAt(t, "put")
  /\ req_prod' = req_prod + 1
  /\ bkReq' = Append(bkReq, IF bkt[t].op \in {"sync", "syncs"} THEN BkSync ELSE t)
  /\ bkt' = [bkt EXCEPT ![t].pc = CASE bkt[t].op = "bio" -> "account" [] bkt[t].op = "syncs" -> "slot"
                                    [] OTHER -> "own",
                        ![t].op = IF @ = "syncs" THEN "sync" ELSE @]
  /\ bkRun' = IF bkt[t].op = "bio" THEN "none" ELSE t
  /\ UNCHANGED <<bkIrqs, bkTok, blkfront_queue, rsp_cons, rsp_event, bkRsp, bkBack, bio_outstanding_total, bkDone>>

(* blkfront_io and blkfront_sync wait in the same way.                     *)
WaitOwn(t) ==
  /\ BkAt(t, "own") /\ local_irq_save(t, "poll", "own")
  /\ UNCHANGED <<bkTok, blkfront_queue, bkRing, bkBack, bio_outstanding_total, bkDone>>

(* rumpuser_bio counts the request after it is in the ring.                *)
rumpuser_bio(t) ==
  /\ BkAt(t, "account")
  /\ bio_outstanding_total' = bio_outstanding_total + 1 /\ BkYields(t, "done")
  /\ UNCHANGED <<bkIrqs, bkTok, blkfront_queue, bkRing, bkBack, bkDone>>

(* biothread waits while nothing is outstanding.                           *)
biothread ==
  /\ BkAt("bio", "idle") /\ bio_outstanding_total # 0
  /\ local_irq_save("bio", "poll", "own")
  /\ UNCHANGED <<bkTok, blkfront_queue, bkRing, bkBack, bio_outstanding_total, bkDone>>

-----------------------------------------------------------------------------
(* blkfront_aio_poll: it takes the responses there are; biothread asks for *)
(* them only while some are counted.                                       *)
PollStart(t) ==
  /\ BkAt(t, "poll") /\ bkRun' = t
  /\ bkt' = [bkt EXCEPT ![t].pc = IF t = "bio" /\ bio_outstanding_total = 0 THEN "test" ELSE "take",
                        ![t].rp = rsp_prod, ![t].cons = rsp_cons, ![t].did = 0]
  /\ UNCHANGED <<bkIrqs, bkTok, blkfront_queue, bkRing, bkBack, bio_outstanding_total, bkDone>>

(* Each is consumed before its callback, which may block.                  *)
PollTake(t) ==
  /\ BkAt(t, "take") /\ bkt[t].cons # bkt[t].rp
  /\ LET id == bkRsp[bkt[t].cons + 1]
         bio == id # BkSync /\ bkt[id].op = "bio"
     IN
     /\ rsp_cons' = bkt[t].cons + 1
     /\ bkt' = [bkt EXCEPT ![t].did = @ + 1, ![t].cons = @ + 1,
                           ![t].pc = IF bio THEN "callback" ELSE "take"]
     /\ bkRun' = IF bio THEN "none" ELSE t
     /\ bkDone' = IF id = BkSync THEN bkDone ELSE [bkDone EXCEPT ![id] = @ + 1]
  /\ UNCHANGED <<bkIrqs, bkTok, blkfront_queue, req_prod, rsp_event, bkReq, bkRsp, bkBack, bio_outstanding_total>>

(* Mutant: it goes on with the responses it saw.                           *)
NeverReentered(t) == FALSE
Reentered(t) == rsp_cons # bkt[t].cons

biocomp(t) ==
  /\ BkAt(t, "callback") /\ bkRun' = t
  /\ bio_outstanding_total' = bio_outstanding_total - 1
  /\ bkt' = [bkt EXCEPT ![t].pc = IF Reentered(t) THEN "event" ELSE "take"]
  /\ UNCHANGED <<bkIrqs, bkTok, blkfront_queue, bkRing, bkBack, bkDone>>

(* RING_FINAL_CHECK_FOR_RESPONSES: unless there are more, ask for an       *)
(* interrupt, then look again.                                             *)
PollEvent(t) ==
  /\ BkAt(t, "event") \/ (BkAt(t, "take") /\ bkt[t].cons = bkt[t].rp)
  /\ BkGoes(t, IF rsp_prod # rsp_cons THEN "poll" ELSE "arm")
  /\ UNCHANGED <<bkIrqs, bkTok, blkfront_queue, bkRing, bkBack, bio_outstanding_total, bkDone>>
PollArm(t) ==
  /\ BkAt(t, "arm") /\ BkGoes(t, "final") /\ rsp_event' = rsp_cons + 1
  /\ UNCHANGED <<bkIrqs, bkTok, blkfront_queue, req_prod, rsp_cons, bkReq, bkRsp, bkBack, bio_outstanding_total, bkDone>>
PollFinal(t) ==
  /\ BkAt(t, "final") /\ BkGoes(t, IF rsp_prod # rsp_cons THEN "poll" ELSE "test")
  /\ UNCHANGED <<bkIrqs, bkTok, blkfront_queue, bkRing, bkBack, bio_outstanding_total, bkDone>>

(* What the thread polls for: progress, a slot, an idle ring, or its own   *)
(* request.                                                                *)
Satisfied(t) == CASE bkt[t].op = "thread" -> bkt[t].did > 0
                  [] bkt[t].want = "slot" -> ~RingFull
                  [] bkt[t].op \in {"sync", "drain"} -> req_prod = rsp_cons
                  [] OTHER -> bkDone[t] > 0

(* minios_add_waiter, minios_wait.                                         *)
WaitMore(t) ==
  /\ BkAt(t, "test") /\ ~Satisfied(t)
  /\ blkfront_queue' = blkfront_queue \cup {t}
  /\ local_irq_restore(t) /\ BkYields(t, "asleep")
  /\ UNCHANGED <<bkTok, bkRing, bkBack, bio_outstanding_total, bkDone>>

(* minios_remove_waiter; biothread stays in the queue.                     *)
WaitOver(t) ==
  /\ BkAt(t, "test") /\ Satisfied(t)
  /\ blkfront_queue' = IF t = "bio" THEN blkfront_queue ELSE blkfront_queue \ {t}
  /\ local_irq_restore(t)
  /\ IF t = "bio" THEN BkYields(t, "idle")
     ELSE IF bkt[t].want = "slot" THEN BkGoes(t, "put") ELSE BkYields(t, "done")
  /\ UNCHANGED <<bkTok, bkRing, bkBack, bio_outstanding_total, bkDone>>

(* The scheduler takes a thread from the run queue.                        *)
BkWoken(t) ==
  /\ BkAt(t, "asleep") /\ bkTok[t] > 0
  /\ bkTok' = [bkTok EXCEPT ![t] = @ - 1]
  /\ local_irq_save(t, "poll", bkt[t].want)
  /\ UNCHANGED <<blkfront_queue, bkRing, bkBack, bio_outstanding_total, bkDone>>

(* A user that is done exits (bmk_sched_exit); the scheduler halts when it *)
(* finds the thread in the run queue.                                      *)
BkExit(t) ==
  /\ BkAt(t, "done") /\ BkYields(t, IF bkTok[t] > 0 THEN "halted" ELSE "gone")
  /\ UNCHANGED <<bkIrqs, bkTok, blkfront_queue, bkRing, bkBack, bio_outstanding_total, bkDone>>

(* blkfront_handler.  minios_wake_up leaves the waiters in the queue; more *)
(* than two tokens make no further difference.                             *)
blkfront_handler ==
  /\ bkEvt = 1 /\ bkIrq /\ bkEvt' = 0
  /\ bkTok' = [t \in BkThreads |-> IF t \in blkfront_queue /\ bkTok[t] < 2 THEN bkTok[t] + 1 ELSE bkTok[t]]
  /\ UNCHANGED <<bkt, bkRun, bkIrqs, blkfront_queue, bkRing, bkHeld, bio_outstanding_total, bkDone>>

-----------------------------------------------------------------------------
(* The backend takes requests and answers them in any order; it notifies   *)
(* when the response is the one asked for.                                 *)
BackTake ==
  /\ bkReq # <<>> /\ bkReq' = Tail(bkReq)
  /\ bkHeld' = bkHeld \cup {<<Head(bkReq), req_prod - Len(bkReq)>>}
  /\ UNCHANGED <<bkt, bkRun, bkIrqs, bkTok, blkfront_queue, req_prod, rsp_cons, rsp_event, bkRsp, bkEvt,
                 bio_outstanding_total, bkDone>>
BackAnswer ==
  /\ \E h \in bkHeld : bkHeld' = bkHeld \ {h} /\ bkRsp' = Append(bkRsp, h[1])
  /\ bkEvt' = IF rsp_event = rsp_prod + 1 THEN 1 ELSE bkEvt
  /\ UNCHANGED <<bkt, bkRun, bkIrqs, bkTok, blkfront_queue, req_prod, rsp_cons, rsp_event, bkReq,
                 bio_outstanding_total, bkDone>>

-----------------------------------------------------------------------------
BkStep(t) ==
  \/ blkfront_wait_slot(t) \/ blkfront_aio(t) \/ WaitOwn(t) \/ rumpuser_bio(t) \/ PollStart(t) \/ PollTake(t)
  \/ biocomp(t) \/ PollEvent(t) \/ PollArm(t) \/ PollFinal(t) \/ WaitMore(t) \/ WaitOver(t) \/ BkWoken(t) \/ BkExit(t)
BkNext == biothread \/ blkfront_handler \/ BackTake \/ BackAnswer \/ \E t \in BkThreads : BkStep(t)
BkSpec == BkInit /\ [][BkNext]_bkVars

-----------------------------------------------------------------------------
(* A request is completed once, after the backend answered it and, for     *)
(* blkfront_io, before the call returns; the ring holds no more requests   *)
(* than it has slots; and bio_outstanding_total is what was counted less   *)
(* what was completed.                                                     *)
BkCounted == {u \in BkUsers : bkt[u].op = "bio" /\ bkt[u].pc \in {"done", "gone", "halted"}}
CompletedOnce ==
  /\ \A u \in BkUsers : bkDone[u] <= 1 /\ (bkt[u].op = "io" /\ bkt[u].pc = "done" => bkDone[u] = 1)
  /\ req_prod - rsp_cons \in 0..BkSize
  /\ req_prod - rsp_cons = Len(bkReq) + Cardinality(bkHeld) + rsp_prod - rsp_cons
  /\ bio_outstanding_total = Cardinality(BkCounted)
        - Cardinality({u \in BkUsers : bkt[u].op = "bio" /\ bkDone[u] = 1})
        + Cardinality({t \in BkThreads : bkt[t].pc = "callback"})

(* No thread sleeps for good: as long as interrupts were off whenever a    *)
(* thread polled, a sleeping thread has a token, or an answer that will    *)
(* interrupt is still to come, or a thread polls.                          *)
SleepIsWoken ==
  ~bkTorn /\ bkEvt = 0 /\ bkReq = <<>> /\ bkHeld = {} /\ bkRun = "none"
    /\ (\A t \in BkThreads : bkt[t].pc # "callback") =>
  \A u \in BkUsers : bkt[u].pc = "asleep" => bkTok[u] > 0 \/ \E t \in BkThreads : bkTok[t] > 0 /\ rsp_prod # rsp_cons

(* The two together.                                                       *)
DiskSound == CompletedOnce /\ SleepIsWoken

=============================================================================
