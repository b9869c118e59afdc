--------------------------- MODULE NetdomChannel ---------------------------
(***************************************************************************)
(* One direction of a network-domain channel: the shared ring pair that    *)
(* carries packets from one domain to the other, the threads that send on  *)
(* it, the receiver thread that drains it, the event channel between the   *)
(* two, and the receiver's place in its scheduler's run queue.             *)
(*                                                                         *)
(* frontend.c and backend.c contain the same protocol once per direction   *)
(* (frontend_send with backend_forward_receiver, backend_forward_send with *)
(* frontend_receiver).  They differ in three places, which are constants   *)
(* here: the order in which the channel is set up, whether the side that   *)
(* binds the event channel is the receiving one, and whether the receiver  *)
(* can be terminated.                                                      *)
(*                                                                         *)
(* The two lock-free rings are atomic FIFO queues of slot indices.  Packet *)
(* contents are opaque values.                                             *)
(***************************************************************************)
EXTENDS Integers, Sequences

CONSTANTS
  Senders,        \* threads that may be inside the send routine at once
  NSlots,         \* number of data slots of the ring (2^NETDOM_RING_ORDER)
  Packet,         \* packet contents
  None,           \* "no slot / no packet"
  MaxFails,       \* empty polls before the receiver goes to sleep (256)
  SetupOrder,     \* order in which create, publish and bind happen
  BinderReceives, \* the side that calls bind_interdomain is the receiver
  MayTerminate    \* frontend_terminate may be called

Slot == 0..(NSlots - 1)

ASSUME SlotAssumption ==
  /\ NSlots \in Nat \ {0}
  /\ None \notin Slot
  /\ None \notin Packet
ASSUME FailsAssumption == MaxFails \in Nat \ {0}
ASSUME SetupAssumption ==
  /\ SetupOrder \in Seq({"create", "publish", "bind"})
  /\ BinderReceives \in BOOLEAN
  /\ MayTerminate \in BOOLEAN

VARIABLES
  free,        \* fring: indices of the slots that may be filled
  avail,       \* aring: indices of the slots that hold a packet
  buf,         \* contents of the data slots
  readers,     \* aring->readers: 1 active, -1 going to sleep, 0 asleep
  pending,     \* the receiving domain's event-channel pending bit
  spc, sslot, spkt,      \* per sender: control point, slot held, packet
  rpc, rslot, rfails,    \* receiver: resume point, slot held, `fails'
  rstate,      \* receiver: none, off (saved), cpu (running), switch, dead
  runq,        \* number of run-queue entries that name the receiver
  hpc,         \* interrupt handler: idle, or about to call bmk_sched_wake
  got,         \* contents of the packet delivered last
  terminating, \* frontend_terminating
  tpc,         \* control point of the thread that calls frontend_terminate
  setup        \* set-up steps that are still to be done

ringVars == <<free, avail, buf>>
sendVars == <<spc, sslot, spkt>>
recvVars == <<rpc, rslot, rfails, got>>
bootVars == <<terminating, tpc, setup>>
vars == <<ringVars, readers, pending, sendVars, recvVars, rstate, runq, hpc,
          bootVars>>

-----------------------------------------------------------------------------
(* Set-up.                                                                 *)

Todo == {setup[i] : i \in 1..Len(setup)}

(* The sender sees a non-NULL tx_fring.                                    *)
Published == "publish" \notin Todo

(* The two event-channel ports are connected and known to the sender.      *)
Bound == "bind" \notin Todo

SetupStep(step) ==
  /\ setup # <<>>
  /\ Head(setup) = step
  /\ setup' = Tail(setup)
  /\ UNCHANGED <<ringVars, readers, sendVars, recvVars, hpc, terminating, tpc>>

(* tx_fring is assigned: sends are no longer dropped at the first test.    *)
Publish ==
  /\ SetupStep("publish")
  /\ UNCHANGED <<pending, rstate, runq>>

(* bmk_sched_create of the receiver: the new thread goes to the run queue. *)
Create ==
  /\ SetupStep("create")
  /\ rstate' = "off"
  /\ runq' = runq + 1
  /\ UNCHANGED pending

(* minios_evtchn_bind_interdomain followed by the unmask.  The hypervisor  *)
(* sets the pending bit of the binding side, in case a notification was    *)
(* sent while the remote port was still unbound.                           *)
Bind ==
  /\ SetupStep("bind")
  /\ pending' = IF BinderReceives THEN 1 ELSE pending
  /\ UNCHANGED <<rstate, runq>>

-----------------------------------------------------------------------------
(* The send routine: frontend_send, backend_forward_send.                  *)

SenderGoes(s, from, to) ==
  /\ spc[s] = from
  /\ spc' = [spc EXCEPT ![s] = to]
  /\ UNCHANGED <<recvVars, rstate, runq, hpc, bootVars>>

(* Take a free slot.  With no tx_fring, or no free slot, the routine       *)
(* returns and the packet is dropped, which changes no state.              *)
SendTakeSlot(s) ==
  /\ Published
  /\ free # <<>>
  /\ SenderGoes(s, "idle", "fill")
  /\ sslot' = [sslot EXCEPT ![s] = Head(free)]
  /\ \E p \in Packet : spkt' = [spkt EXCEPT ![s] = p]
  /\ free' = Tail(free)
  /\ UNCHANGED <<avail, buf, readers, pending>>

(* Copy the mbuf chain into the slot.                                      *)
SendFill(s) ==
  /\ SenderGoes(s, "fill", "post")
  /\ buf' = [buf EXCEPT ![sslot[s]] = spkt[s]]
  /\ UNCHANGED <<free, avail, readers, pending, sslot, spkt>>

SendPost(s) ==
  /\ SenderGoes(s, "post", "check")
  /\ avail' = Append(avail, sslot[s])
  /\ sslot' = [sslot EXCEPT ![s] = None]
  /\ spkt' = [spkt EXCEPT ![s] = None]
  /\ UNCHANGED <<free, buf, readers, pending>>

(* The test on readers.                                                    *)
PeerMaySleep == readers <= 0

(* Load readers: the other side is notified unless it is active.           *)
SendCheck(s) ==
  /\ SenderGoes(s, "check", IF PeerMaySleep THEN "notify" ELSE "idle")
  /\ UNCHANGED <<ringVars, readers, pending, sslot, spkt>>

(* The notification reaches the other domain only over a bound channel.    *)
SendNotify(s) ==
  /\ SenderGoes(s, "notify", "idle")
  /\ pending' = IF Bound THEN 1 ELSE pending
  /\ UNCHANGED <<ringVars, readers, sslot, spkt>>

Send(s) == \/ SendTakeSlot(s) \/ SendFill(s) \/ SendPost(s)
           \/ SendCheck(s) \/ SendNotify(s)

-----------------------------------------------------------------------------
(* The interrupt handler of the receiving domain.                          *)

(* What the exchange must have found for a wakeup to be due.               *)
WakeDue == readers = 0

(* The exchange on readers; a thread found asleep is to be woken.          *)
HandlerRun ==
  /\ hpc = "idle"
  /\ pending = 1
  /\ Bound
  /\ pending' = 0
  /\ readers' = 1
  /\ hpc' = IF WakeDue THEN "wake" ELSE "idle"
  /\ UNCHANGED <<ringVars, sendVars, recvVars, rstate, runq, bootVars>>

(* bmk_sched_wake: one more run-queue entry, whatever the thread is doing. *)
HandlerWake ==
  /\ hpc = "wake"
  /\ hpc' = "idle"
  /\ runq' = runq + 1
  /\ UNCHANGED <<ringVars, readers, pending, sendVars, recvVars, rstate,
                 bootVars>>

(* frontend_terminate: raise the flag, then call the interrupt handler.    *)
TerminateFlag ==
  /\ MayTerminate
  /\ tpc = "idle"
  /\ tpc' = "kick"
  /\ terminating' = 1
  /\ UNCHANGED <<ringVars, readers, pending, sendVars, recvVars, rstate, runq,
                 hpc, setup>>

TerminateKick ==
  /\ tpc = "kick"
  /\ tpc' = IF WakeDue THEN "wake" ELSE "done"
  /\ readers' = 1
  /\ UNCHANGED <<ringVars, pending, sendVars, recvVars, rstate, runq, hpc,
                 terminating, setup>>

TerminateWake ==
  /\ tpc = "wake"
  /\ tpc' = "done"
  /\ runq' = runq + 1
  /\ UNCHANGED <<ringVars, readers, pending, sendVars, recvVars, rstate, hpc,
                 terminating, setup>>

Terminate == TerminateFlag \/ TerminateKick \/ TerminateWake

-----------------------------------------------------------------------------
(* The receiver thread: frontend_receiver, backend_forward_receiver.       *)

(* A CPU takes the receiver from the run queue and resumes it.             *)
Dispatch ==
  /\ rstate = "off"
  /\ runq > 0
  /\ runq' = runq - 1
  /\ rstate' = "cpu"
  /\ UNCHANGED <<ringVars, readers, pending, sendVars, recvVars, hpc, bootVars>>

ReceiverAt(pc) ==
  /\ rstate = "cpu"
  /\ rpc = pc
  /\ UNCHANGED <<sendVars, hpc, pending, bootVars>>

(* First run: give up if terminating, otherwise announce an active reader. *)
RecvStart ==
  /\ ReceiverAt("start")
  /\ IF terminating = 1
       THEN rpc' = "exited" /\ rstate' = "dead" /\ UNCHANGED readers
       ELSE rpc' = "poll" /\ readers' = 1 /\ UNCHANGED rstate
  /\ UNCHANGED <<ringVars, rslot, rfails, got, runq>>

(* Mutants of the next definition: the slot is given back undelivered, or  *)
(* its index is forgotten.                                                 *)
TakeAvailUndelivered ==
  /\ avail # <<>>
  /\ rslot' = Head(avail)
  /\ avail' = Tail(avail)
  /\ rfails' = 0
  /\ rpc' = "release"

TakeAvailForgotten ==
  /\ avail # <<>>
  /\ avail' = Tail(avail)
  /\ rfails' = 0
  /\ rpc' = "poll"
  /\ UNCHANGED rslot

(* lfring_dequeue returned the index of a slot to process.                 *)
TakeAvail ==
  /\ avail # <<>>
  /\ rslot' = Head(avail)
  /\ avail' = Tail(avail)
  /\ rfails' = 0
  /\ rpc' = "deliver"

(* ++fails < 256.                                                          *)
PollAgain == rfails + 1 < MaxFails

RecvPoll ==
  /\ ReceiverAt("poll")
  /\ \/ TakeAvail
     \/ /\ avail = <<>>
        /\ rfails' = rfails + 1
        /\ rpc' = IF PollAgain THEN "yield" ELSE "arm"
        /\ UNCHANGED <<avail, rslot>>
  /\ UNCHANGED <<free, buf, readers, got, rstate, runq>>

(* rump_virtif_pktdeliver / rump_virtif_pktforward of the slot's contents. *)
RecvDeliver ==
  /\ ReceiverAt("deliver")
  /\ got' = buf[rslot]
  /\ rpc' = "release"
  /\ UNCHANGED <<ringVars, readers, rslot, rfails, rstate, runq>>

RecvRelease ==
  /\ ReceiverAt("release")
  /\ free' = Append(free, rslot)
  /\ rslot' = None
  /\ rpc' = "poll"
  /\ UNCHANGED <<avail, buf, readers, rfails, got, rstate, runq>>

(* schedule() may take the caller's own entry, and then does not switch;   *)
(* otherwise it switches away and the yield callback requeues the caller.  *)
RecvYield ==
  /\ ReceiverAt("yield")
  /\ rpc' = "poll"
  /\ \/ runq > 0 /\ runq' = runq - 1 /\ UNCHANGED rstate
     \/ runq' = runq + 1 /\ rstate' = "off"
  /\ UNCHANGED <<ringVars, readers, rslot, rfails, got>>

(* The value that announces the sleep; 0 means asleep.                     *)
GoingToSleep == -1

(* Announce the sleep ...                                                  *)
RecvArm ==
  /\ ReceiverAt("arm")
  /\ readers' = GoingToSleep
  /\ rpc' = "recheck"
  /\ UNCHANGED <<ringVars, rslot, rfails, got, rstate, runq>>

(* ... and look once more.  A packet found here is processed with readers  *)
(* still at -1.                                                            *)
RecvRecheck ==
  /\ ReceiverAt("recheck")
  /\ \/ TakeAvail
     \/ /\ avail = <<>>
        /\ rpc' = "block"
        /\ UNCHANGED <<avail, rslot, rfails>>
  /\ UNCHANGED <<free, buf, readers, got, rstate, runq>>

(* bmk_sched_block: without a switch it returns at once and the callback   *)
(* is not called.                                                          *)
RecvBlock ==
  /\ ReceiverAt("block")
  /\ rpc' = "woken"
  /\ \/ runq > 0 /\ runq' = runq - 1 /\ UNCHANGED rstate
     \/ rstate' = "switch" /\ UNCHANGED runq
  /\ UNCHANGED <<ringVars, readers, rslot, rfails, got>>

(* The compare-and-exchange succeeds; a callback that stored 0 regardless. *)
SleepUnconditional == TRUE
SleepUndisturbed == readers = -1

(* receiver_callback, on the stack of the next thread: asleep, unless the  *)
(* interrupt handler has been here since the receiver announced its sleep. *)
RecvCallback ==
  /\ rstate = "switch"
  /\ rstate' = "off"
  /\ IF SleepUndisturbed
       THEN readers' = 0 /\ UNCHANGED runq
       ELSE runq' = runq + 1 /\ UNCHANGED readers
  /\ UNCHANGED <<ringVars, pending, sendVars, recvVars, hpc, bootVars>>

RecvWoken ==
  /\ ReceiverAt("woken")
  /\ IF terminating = 1
       THEN rpc' = "exited" /\ rstate' = "dead" /\ UNCHANGED rfails
       ELSE rpc' = "poll" /\ rfails' = 0 /\ UNCHANGED rstate
  /\ UNCHANGED <<ringVars, readers, rslot, got, runq>>

Receive == \/ RecvStart \/ RecvPoll \/ RecvDeliver \/ RecvRelease
           \/ RecvYield \/ RecvArm \/ RecvRecheck \/ RecvBlock
           \/ RecvCallback \/ RecvWoken

-----------------------------------------------------------------------------
(* frontend_init_ring: every slot is free, none is available.              *)
RingInit ==
  /\ free = [i \in 1..NSlots |-> i - 1]
  /\ avail = <<>>
  /\ buf = [i \in Slot |-> None]
  /\ spc = [s \in Senders |-> "idle"]
  /\ sslot = [s \in Senders |-> None]
  /\ spkt = [s \in Senders |-> None]
  /\ rslot = None
  /\ rfails = 0
  /\ got = None
  /\ pending = 0
  /\ hpc = "idle"
  /\ terminating = 0
  /\ tpc = "idle"

(* A channel whose receiver thread has run up to the end of RecvStart      *)
(* before the event channel could interrupt it.                            *)
Init ==
  /\ RingInit
  /\ setup = <<>>
  /\ readers = 1
  /\ rpc = "poll"
  /\ rstate = "cpu"
  /\ runq = 0

(* A channel that is only now being set up.                                *)
BootInit ==
  /\ RingInit
  /\ setup = SetupOrder
  /\ readers = 0
  /\ rpc = "start"
  /\ rstate = "none"
  /\ runq = 0

Setup == Publish \/ Create \/ Bind

Handler == HandlerRun \/ HandlerWake

Next ==
  \/ \E s \in Senders : Send(s)
  \/ Handler
  \/ Terminate
  \/ Dispatch
  \/ Receive
  \/ Setup

(* Threads that run keep running, an unmasked pending event is delivered,  *)
(* and a queued thread is dispatched.  Nobody is obliged to send.          *)
Fairness ==
  /\ \A s \in Senders : WF_vars(SendFill(s) \/ SendPost(s) \/ SendCheck(s)
                                \/ SendNotify(s))
  /\ WF_vars(Handler)
  /\ WF_vars(TerminateKick \/ TerminateWake)
  /\ WF_vars(Dispatch)
  /\ WF_vars(Receive)
  /\ WF_vars(Setup)

Spec == Init /\ [][Next]_vars
FairSpec == Spec /\ Fairness
BootSpec == BootInit /\ [][Next]_vars
FairBootSpec == BootSpec /\ Fairness

-----------------------------------------------------------------------------
(* Properties.                                                             *)

TypeOK ==
  /\ free \in Seq(Slot)
  /\ avail \in Seq(Slot)
  /\ buf \in [Slot -> Packet \cup {None}]
  /\ readers \in {-1, 0, 1}
  /\ pending \in {0, 1}
  /\ spc \in [Senders -> {"idle", "fill", "post", "check", "notify"}]
  /\ sslot \in [Senders -> Slot \cup {None}]
  /\ spkt \in [Senders -> Packet \cup {None}]
  /\ rpc \in {"start", "poll", "deliver", "release", "yield", "arm", "recheck",
              "block", "woken", "exited"}
  /\ rslot \in Slot \cup {None}
  /\ rfails \in 0..MaxFails
  /\ rpc \in {"start", "poll", "yield"} => rfails < MaxFails
  /\ rpc \in {"deliver", "release"} => rfails = 0
  /\ rstate \in {"none", "off", "cpu", "switch", "dead"}
  /\ runq \in Nat
  /\ hpc \in {"idle", "wake"}
  /\ got \in Packet \cup {None}
  /\ terminating \in {0, 1}
  /\ tpc \in {"idle", "kick", "wake", "done"}
  /\ setup \in Seq({"create", "publish", "bind"})

In(x, q) == \E i \in 1..Len(q) : q[i] = x

Distinct(q) == \A i, j \in 1..Len(q) : q[i] = q[j] => i = j

(* A slot index is always in exactly one place: the free ring, the         *)
(* available ring, one sender or the receiver.  So a slot is never filled  *)
(* while it is read, never delivered twice and never leaked.               *)
SlotOwnership ==
  /\ \A s \in Senders : sslot[s] # None <=> spc[s] \in {"fill", "post"}
  /\ rslot # None <=> rpc \in {"deliver", "release"}
  /\ Distinct(free)
  /\ Distinct(avail)
  /\ \A x \in Slot :
       /\ In(x, free) => ~In(x, avail) /\ rslot # x
       /\ In(x, avail) => rslot # x
       /\ \A s \in Senders : sslot[s] = x =>
            /\ ~In(x, free) /\ ~In(x, avail) /\ rslot # x
            /\ \A t \in Senders \ {s} : sslot[t] # x
       /\ \/ In(x, free) \/ In(x, avail) \/ rslot = x
          \/ \E s \in Senders : sslot[s] = x

(* bmk_sched_wake is called only for a receiver that is blocked: the       *)
(* receiver has at most one run-queue entry, and none while it runs, so    *)
(* that no second CPU can pick it up ("while running, threads are on no    *)
(* schedq").                                                               *)
WakesOnlyBlocked == runq <= (IF rstate \in {"off", "switch"} THEN 1 ELSE 0)

(* A wakeup for the receiver is on its way.                                *)
WakeInFlight ==
  \/ runq > 0
  \/ hpc = "wake"
  \/ pending = 1
  \/ tpc \in {"kick", "wake"}
  \/ BinderReceives /\ ~Bound
  \/ \E s \in Senders : spc[s] \in {"check", "notify"}

(* The reason why no wakeup is lost or duplicated: `readers' says where    *)
(* the receiver is.  Only a receiver that has finished blocking is at 0;   *)
(* it has no run-queue entry, and the one exchange that finds 0 owns the   *)
(* only wakeup.  From its announcement to sleep on, a packet that the last *)
(* look did not see has a notification under way.                          *)
WakeOwned ==
  /\ setup = <<>>
  /\ rstate \in {"off", "cpu", "switch", "dead"}
  /\ rpc # "start"
  /\ rstate \in {"cpu", "switch", "dead"} =>
       runq = 0 /\ hpc = "idle" /\ tpc # "wake" /\ readers # 0
  /\ rstate = "switch" => rpc = "woken"
  /\ rstate = "cpu" /\ rpc = "woken" => readers = 1
  /\ (rstate = "dead") <=> (rpc = "exited")
  /\ rstate = "dead" => readers = 1
  /\ rstate = "off" => rpc \in {"poll", "woken"}
  /\ rstate = "off" /\ rpc = "poll" =>
       runq = 1 /\ hpc = "idle" /\ tpc # "wake" /\ readers # 0
  /\ rstate = "off" /\ rpc = "woken" =>
       \/ readers = 0 /\ runq = 0 /\ hpc = "idle" /\ tpc # "wake"
       \/ readers = 1 /\ runq = 1 /\ hpc = "idle" /\ tpc # "wake"
       \/ readers = 1 /\ runq = 0 /\ hpc = "wake" /\ tpc # "wake"
       \/ readers = 1 /\ runq = 0 /\ hpc = "idle" /\ tpc = "wake"
  /\ /\ readers <= 0
     /\ avail # <<>>
     /\ \/ rstate = "off" /\ rpc = "woken"
        \/ rstate = "switch"
        \/ rstate = "cpu" /\ rpc = "block"
     => pending = 1 \/ \E s \in Senders : spc[s] \in {"check", "notify"}

(* No lost wakeup: a receiver that is asleep while packets wait for it has *)
(* a wakeup on its way.                                                    *)
NoLostWakeup ==
  rstate = "off" /\ rpc = "woken" /\ avail # <<>> => WakeInFlight

(* The channel, seen from its users: the packets that are posted and not   *)
(* yet delivered.                                                          *)
InTransit == IF rpc = "deliver" THEN <<rslot>> \o avail ELSE avail

Pipe == INSTANCE PacketPipe
          WITH Capacity <- NSlots,
               queue <- [i \in 1..Len(InTransit) |-> buf[InTransit[i]]],
               out <- got

(* The channel implements a bounded FIFO of packets: what a receiver hands *)
(* over is what the senders put into the slots, in the order in which they *)
(* posted it, each packet once and none altered after it was posted.       *)
ImplementsPipe == Pipe!PipeSafety

(* The same, with every posted packet eventually handed over.              *)
ImplementsFairPipe == Pipe!PipeSpec

(* An established channel is sound: a slot has one owner, the receiver is  *)
(* queued only while it is blocked, and no wakeup for it is lost.          *)
ChannelSound == TypeOK /\ SlotOwnership /\ WakesOnlyBlocked /\ NoLostWakeup

=============================================================================
