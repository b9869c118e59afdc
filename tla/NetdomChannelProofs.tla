------------------------ MODULE NetdomChannelProofs ------------------------
(***************************************************************************)
(* Proofs about NetdomChannel for any number of senders, slots and polls.  *)
(***************************************************************************)
EXTENDS NetdomChannel, FiniteSetTheorems, TLAPS

USE DEF Slot, GoingToSleep

(* The part of the state that says who holds a slot agrees with the        *)
(* control points.  It is what typing needs from SlotOwnership.            *)
HandsAgree ==
  /\ \A s \in Senders : sslot[s] # None <=> spc[s] \in {"fill", "post"}
  /\ \A s \in Senders : spkt[s] # None <=> spc[s] \in {"fill", "post"}
  /\ rslot # None <=> rpc \in {"deliver", "release"}

TypeInv == TypeOK /\ HandsAgree

(* lfring_init_full lists every slot.                                      *)
LEMMA AllFreeTyped == [i \in 1..NSlots |-> i - 1] \in Seq(Slot)
BY SlotAssumption

LEMMA HeadTailTyped ==
  ASSUME NEW S, NEW q \in Seq(S), q # <<>>
  PROVE  Head(q) \in S /\ Tail(q) \in Seq(S)
OBVIOUS

LEMMA InitTyped == Init => TypeInv
<1> SUFFICES ASSUME Init PROVE TypeInv
  OBVIOUS
<1> USE SlotAssumption, FailsAssumption DEF Init, RingInit
<1>1. TypeOK BY AllFreeTyped DEF TypeOK
<1>2. HandsAgree BY DEF HandsAgree
<1>3. QED BY <1>1, <1>2 DEF TypeInv

LEMMA BootTyped == BootInit => TypeInv
<1> SUFFICES ASSUME BootInit PROVE TypeInv
  OBVIOUS
<1> USE SlotAssumption, FailsAssumption, SetupAssumption DEF BootInit, RingInit
<1>1. TypeOK BY AllFreeTyped DEF TypeOK
<1>2. HandsAgree BY DEF HandsAgree
<1>3. QED BY <1>1, <1>2 DEF TypeInv

LEMMA StepTyped == TypeInv /\ [Next]_vars => TypeInv'
<1> SUFFICES ASSUME TypeInv, [Next]_vars PROVE TypeInv'
  OBVIOUS
<1> USE SlotAssumption, FailsAssumption DEF TypeInv, TypeOK, HandsAgree,
        ringVars, sendVars, recvVars, bootVars
<1>1. ASSUME NEW s \in Senders, Send(s) PROVE TypeInv'
  <2>1. CASE SendTakeSlot(s) BY <2>1 DEF SendTakeSlot, SenderGoes
  <2>2. CASE SendFill(s) BY <2>2 DEF SendFill, SenderGoes
  <2>3. CASE SendPost(s) BY <2>3 DEF SendPost, SenderGoes
  <2>4. CASE SendCheck(s) BY <2>4 DEF SendCheck, SenderGoes
  <2>5. CASE SendNotify(s) BY <2>5 DEF SendNotify, SenderGoes
  <2>6. QED BY <1>1, <2>1, <2>2, <2>3, <2>4, <2>5 DEF Send
<1>2. CASE Handler
  <2>1. CASE HandlerRun BY <2>1 DEF HandlerRun
  <2>2. CASE HandlerWake BY <2>2 DEF HandlerWake
  <2>3. QED BY <1>2, <2>1, <2>2 DEF Handler
<1>3. CASE Terminate
  <2>1. CASE TerminateFlag BY <2>1 DEF TerminateFlag
  <2>2. CASE TerminateKick BY <2>2 DEF TerminateKick
  <2>3. CASE TerminateWake BY <2>3 DEF TerminateWake
  <2>4. QED BY <1>3, <2>1, <2>2, <2>3 DEF Terminate
<1>4. CASE Dispatch BY <1>4 DEF Dispatch
<1>5. CASE Receive
  <2>1. CASE RecvStart BY <2>1 DEF RecvStart, ReceiverAt
  <2>2. CASE RecvPoll
    <3>1. CASE TakeAvail
      BY <2>2, <3>1, HeadTailTyped DEF RecvPoll, ReceiverAt, TakeAvail
    <3>2. CASE ~TakeAvail
      BY <2>2, <3>2 DEF RecvPoll, ReceiverAt, PollAgain
    <3>3. QED BY <3>1, <3>2
  <2>3. CASE RecvDeliver BY <2>3 DEF RecvDeliver, ReceiverAt
  <2>4. CASE RecvRelease BY <2>4 DEF RecvRelease, ReceiverAt
  <2>5. CASE RecvYield BY <2>5 DEF RecvYield, ReceiverAt
  <2>6. CASE RecvArm BY <2>6 DEF RecvArm, ReceiverAt
  <2>7. CASE RecvRecheck
    <3>1. CASE TakeAvail
      BY <2>7, <3>1, HeadTailTyped DEF RecvRecheck, ReceiverAt, TakeAvail
    <3>2. CASE ~TakeAvail
      BY <2>7, <3>2 DEF RecvRecheck, ReceiverAt
    <3>3. QED BY <3>1, <3>2
  <2>8. CASE RecvBlock BY <2>8 DEF RecvBlock, ReceiverAt
  <2>9. CASE RecvCallback BY <2>9 DEF RecvCallback
  <2>10. CASE RecvWoken BY <2>10 DEF RecvWoken, ReceiverAt
  <2>11. QED BY <1>5, <2>1, <2>2, <2>3, <2>4, <2>5, <2>6, <2>7, <2>8, <2>9,
                <2>10 DEF Receive
<1>6. CASE Setup
  <2>1. setup # <<>> /\ setup' = Tail(setup)
    BY <1>6 DEF Setup, Publish, Create, Bind, SetupStep
  <2>2. setup' \in Seq({"create", "publish", "bind"})
    BY <2>1, HeadTailTyped
  <2>3. CASE Publish BY <2>2, <2>3 DEF Publish, SetupStep
  <2>4. CASE Create BY <2>2, <2>4 DEF Create, SetupStep
  <2>5. CASE Bind BY <2>2, <2>5 DEF Bind, SetupStep
  <2>6. QED BY <1>6, <2>3, <2>4, <2>5 DEF Setup
<1>7. CASE UNCHANGED vars BY <1>7 DEF vars
<1>8. QED BY <1>1, <1>2, <1>3, <1>4, <1>5, <1>6, <1>7 DEF Next

(* Every variable keeps its type in an established channel: in particular  *)
(* a slot index is only dereferenced by a sender or receiver that holds    *)
(* one, and `fails' stays within its bound.                                *)
THEOREM TypeCorrect == Spec => []TypeOK
<1>1. TypeInv => TypeOK BY DEF TypeInv
<1>2. QED BY <1>1, InitTyped, StepTyped, PTL DEF Spec

(* The same from the start of the connection, whatever the set-up order.   *)
THEOREM BootTypeCorrect == BootSpec => []TypeOK
<1>1. TypeInv => TypeOK BY DEF TypeInv
<1>2. QED BY <1>1, BootTyped, StepTyped, PTL DEF BootSpec

-----------------------------------------------------------------------------
(* Wakeups.                                                                *)

LEMMA InitWake == Init => WakeOwned
BY DEF Init, RingInit, WakeOwned

LEMMA StepWake == TypeInv /\ WakeOwned /\ [Next]_vars => WakeOwned'
<1> SUFFICES ASSUME TypeInv, WakeOwned, [Next]_vars PROVE WakeOwned'
  OBVIOUS
<1> USE DEF TypeInv, TypeOK, WakeOwned, ringVars, sendVars, recvVars, bootVars
<1>0. Bound
  BY DEF Bound, Todo
<1>1. ASSUME NEW s \in Senders, Send(s) PROVE WakeOwned'
  <2>1. CASE SendTakeSlot(s) BY <2>1 DEF SendTakeSlot, SenderGoes
  <2>2. CASE SendFill(s) BY <2>2 DEF SendFill, SenderGoes
  <2>3. CASE SendPost(s) BY <2>3 DEF SendPost, SenderGoes
  <2>4. CASE SendCheck(s) BY <2>4 DEF SendCheck, SenderGoes, PeerMaySleep
  <2>5. CASE SendNotify(s) BY <2>5, <1>0 DEF SendNotify, SenderGoes
  <2>6. QED BY <1>1, <2>1, <2>2, <2>3, <2>4, <2>5 DEF Send
<1>2. CASE Handler
  <2>1. CASE HandlerRun BY <2>1 DEF HandlerRun, WakeDue
  <2>2. CASE HandlerWake BY <2>2 DEF HandlerWake
  <2>3. QED BY <1>2, <2>1, <2>2 DEF Handler
<1>3. CASE Terminate
  <2>1. CASE TerminateFlag BY <2>1 DEF TerminateFlag
  <2>2. CASE TerminateKick BY <2>2 DEF TerminateKick, WakeDue
  <2>3. CASE TerminateWake BY <2>3 DEF TerminateWake
  <2>4. QED BY <1>3, <2>1, <2>2, <2>3 DEF Terminate
<1>4. CASE Dispatch BY <1>4 DEF Dispatch
<1>5. CASE Receive
  <2>1. CASE RecvStart BY <2>1 DEF RecvStart, ReceiverAt
  <2>2. CASE RecvPoll BY <2>2 DEF RecvPoll, ReceiverAt, TakeAvail, PollAgain
  <2>3. CASE RecvDeliver BY <2>3 DEF RecvDeliver, ReceiverAt
  <2>4. CASE RecvRelease BY <2>4 DEF RecvRelease, ReceiverAt
  <2>5. CASE RecvYield BY <2>5 DEF RecvYield, ReceiverAt
  <2>6. CASE RecvArm BY <2>6 DEF RecvArm, ReceiverAt
  <2>7. CASE RecvRecheck BY <2>7 DEF RecvRecheck, ReceiverAt, TakeAvail
  <2>8. CASE RecvBlock BY <2>8 DEF RecvBlock, ReceiverAt
  <2>9. CASE RecvCallback BY <2>9 DEF RecvCallback, SleepUndisturbed
  <2>10. CASE RecvWoken BY <2>10 DEF RecvWoken, ReceiverAt
  <2>11. QED BY <1>5, <2>1, <2>2, <2>3, <2>4, <2>5, <2>6, <2>7, <2>8, <2>9,
                <2>10 DEF Receive
<1>6. CASE Setup BY <1>6 DEF Setup, Publish, Create, Bind, SetupStep
<1>7. CASE UNCHANGED vars BY <1>7 DEF vars
<1>8. QED BY <1>1, <1>2, <1>3, <1>4, <1>5, <1>6, <1>7 DEF Next

(* The value of readers, the run queue and the two places that may call    *)
(* bmk_sched_wake stay consistent for any number of senders.               *)
THEOREM WakeOwnership == Spec => []WakeOwned
<1>1. Init => TypeInv /\ WakeOwned BY InitTyped, InitWake
<1>2. TypeInv /\ WakeOwned /\ [Next]_vars => (TypeInv /\ WakeOwned)'
  BY StepTyped, StepWake
<1>3. QED BY <1>1, <1>2, PTL DEF Spec

(* The receiver of an established channel is enqueued only while it is     *)
(* blocked: bmk_sched_wake and the yield callback never give it a second   *)
(* run-queue entry.                                                        *)
THEOREM SingleWakeup == Spec => []WakesOnlyBlocked
<1>1. WakeOwned => WakesOnlyBlocked BY DEF WakeOwned, WakesOnlyBlocked
<1>2. QED BY <1>1, WakeOwnership, PTL

(* No wakeup is lost: a receiver asleep with packets waiting has a wakeup  *)
(* on its way, however senders, handler, callback and receiver interleave. *)
THEOREM NoWakeupLost == Spec => []NoLostWakeup
<1>1. TypeInv /\ WakeOwned => NoLostWakeup
  BY DEF TypeInv, TypeOK, WakeOwned, NoLostWakeup, WakeInFlight
<1>2. Spec => []TypeInv BY InitTyped, StepTyped, PTL DEF Spec
<1>3. QED BY <1>1, <1>2, WakeOwnership, PTL

-----------------------------------------------------------------------------
(* Ownership of the slots.                                                 *)

LEMMA InAppend ==
  ASSUME NEW S, NEW q \in Seq(S), NEW x \in S, NEW y
  PROVE  In(y, Append(q, x)) <=> In(y, q) \/ y = x
<1>1. In(y, Append(q, x)) => In(y, q) \/ y = x BY DEF In
<1>2. In(y, q) => In(y, Append(q, x))
  <2> SUFFICES ASSUME NEW i \in 1..Len(q), q[i] = y PROVE In(y, Append(q, x))
    BY DEF In
  <2>1. i \in 1..Len(Append(q, x)) /\ Append(q, x)[i] = y OBVIOUS
  <2>2. QED BY <2>1 DEF In
<1>3. y = x => In(y, Append(q, x))
  <2>1. Len(q) + 1 \in 1..Len(Append(q, x)) /\ Append(q, x)[Len(q) + 1] = x
    OBVIOUS
  <2>2. QED BY <2>1 DEF In
<1>4. QED BY <1>1, <1>2, <1>3

LEMMA InTail ==
  ASSUME NEW S, NEW q \in Seq(S), q # <<>>, NEW y
  PROVE  In(y, q) <=> In(y, Tail(q)) \/ y = Head(q)
<1>1. ASSUME NEW i \in 1..Len(q), q[i] = y PROVE In(y, Tail(q)) \/ y = Head(q)
  <2>1. CASE i = 1 BY <1>1, <2>1
  <2>2. CASE i # 1
    <3>1. i - 1 \in 1..Len(Tail(q)) /\ Tail(q)[i - 1] = q[i] BY <2>2
    <3>2. QED BY <1>1, <3>1 DEF In
  <2>3. QED BY <2>1, <2>2
<1>2. ASSUME NEW i \in 1..Len(Tail(q)), Tail(q)[i] = y PROVE In(y, q)
  <2>1. i + 1 \in 1..Len(q) /\ q[i + 1] = Tail(q)[i] OBVIOUS
  <2>2. QED BY <1>2, <2>1 DEF In
<1>3. y = Head(q) => In(y, q)
  <2>1. 1 \in 1..Len(q) /\ q[1] = Head(q) OBVIOUS
  <2>2. QED BY <2>1 DEF In
<1>4. QED BY <1>1, <1>2, <1>3 DEF In

LEMMA DistinctAppend ==
  ASSUME NEW S, NEW q \in Seq(S), NEW x \in S, Distinct(q), ~In(x, q)
  PROVE  Distinct(Append(q, x))
BY DEF Distinct, In

LEMMA DistinctTail ==
  ASSUME NEW S, NEW q \in Seq(S), q # <<>>, Distinct(q)
  PROVE  Distinct(Tail(q)) /\ ~In(Head(q), Tail(q))
<1>1. \A i \in 1..Len(Tail(q)) : i + 1 \in 1..Len(q) /\ Tail(q)[i] = q[i + 1]
  OBVIOUS
<1>2. Distinct(Tail(q))
  <2> SUFFICES ASSUME NEW i \in 1..Len(Tail(q)), NEW j \in 1..Len(Tail(q)),
                      Tail(q)[i] = Tail(q)[j]
               PROVE  i = j
    BY DEF Distinct
  <2>1. i + 1 = j + 1 BY <1>1 DEF Distinct
  <2>2. QED BY <2>1
<1>3. ~In(Head(q), Tail(q))
  <2> SUFFICES ASSUME NEW i \in 1..Len(Tail(q)), Tail(q)[i] = Head(q)
               PROVE  FALSE
    BY DEF In
  <2>1. i + 1 = 1 BY <1>1 DEF Distinct
  <2>2. QED BY <2>1
<1>4. QED BY <1>2, <1>3

(* The steps that move a slot index, described by set membership only.     *)
LEMMA TakenFrom ==
  ASSUME NEW S, NEW q \in Seq(S), q # <<>>, Distinct(q)
  PROVE  /\ Distinct(Tail(q))
         /\ Head(q) \in S
         /\ In(Head(q), q)
         /\ \A y : In(y, Tail(q)) <=> In(y, q) /\ y # Head(q)
<1>1. \A y : In(y, q) <=> In(y, Tail(q)) \/ y = Head(q) BY InTail
<1>2. Distinct(Tail(q)) /\ ~In(Head(q), Tail(q)) BY DistinctTail
<1>3. Head(q) \in S BY HeadTailTyped
<1>4. QED BY <1>1, <1>2, <1>3

LEMMA AddedTo ==
  ASSUME NEW S, NEW q \in Seq(S), NEW x \in S, Distinct(q), ~In(x, q)
  PROVE  /\ Distinct(Append(q, x))
         /\ \A y : In(y, Append(q, x)) <=> In(y, q) \/ y = x
BY InAppend, DistinctAppend

LEMMA InitOwned == Init => SlotOwnership
<1> SUFFICES ASSUME Init PROVE SlotOwnership
  OBVIOUS
<1> USE SlotAssumption DEF Init, RingInit
<1>1. Len(free) = NSlots /\ \A i \in 1..NSlots : free[i] = i - 1
  OBVIOUS
<1>2. Distinct(free) BY <1>1 DEF Distinct
<1>3. \A x \in Slot : In(x, free)
  <2> TAKE x \in Slot
  <2>1. x + 1 \in 1..Len(free) /\ free[x + 1] = x BY <1>1
  <2>2. QED BY <2>1 DEF In
<1>4. Distinct(avail) /\ \A x : ~In(x, avail) BY DEF Distinct, In
<1>5. QED BY <1>2, <1>3, <1>4 DEF SlotOwnership

LEMMA StepOwned == TypeInv /\ SlotOwnership /\ [Next]_vars => SlotOwnership'
<1> SUFFICES ASSUME TypeInv, SlotOwnership, [Next]_vars PROVE SlotOwnership'
  OBVIOUS
<1> USE SlotAssumption DEF ringVars, sendVars, recvVars, bootVars
<1>a. /\ free \in Seq(Slot) /\ avail \in Seq(Slot)
      /\ sslot \in [Senders -> Slot \cup {None}]
      /\ spc \in [Senders -> {"idle", "fill", "post", "check", "notify"}]
      /\ rslot \in Slot \cup {None}
  BY DEF TypeInv, TypeOK
<1>b. Distinct(free) /\ Distinct(avail) BY DEF SlotOwnership
<1>k. ASSUME UNCHANGED <<free, avail, sslot, rslot>>,
             rpc' \in {"deliver", "release"} <=> rpc \in {"deliver", "release"},
             \A s \in Senders : spc'[s] \in {"fill", "post"}
                                 <=> spc[s] \in {"fill", "post"}
      PROVE  SlotOwnership'
  <2>1. /\ free' = free /\ avail' = avail /\ sslot' = sslot /\ rslot' = rslot
    BY <1>k
  <2>2. /\ Distinct(free') /\ Distinct(avail')
        /\ \A y : In(y, free') <=> In(y, free)
        /\ \A y : In(y, avail') <=> In(y, avail)
    BY <1>b, <2>1
  <2>3. /\ \A s \in Senders : sslot'[s] # None <=> spc'[s] \in {"fill", "post"}
        /\ rslot' # None <=> rpc' \in {"deliver", "release"}
    BY <1>k, <2>1 DEF SlotOwnership
  <2>4. QED BY <2>1, <2>2, <2>3 DEF SlotOwnership
<1>1. ASSUME NEW s \in Senders, Send(s) PROVE SlotOwnership'
  <2>1. CASE SendTakeSlot(s)
    <3>1. /\ free # <<>> /\ free' = Tail(free) /\ avail' = avail
          /\ sslot' = [sslot EXCEPT ![s] = Head(free)]
          /\ spc[s] = "idle" /\ spc' = [spc EXCEPT ![s] = "fill"]
          /\ rslot' = rslot /\ rpc' = rpc
      BY <2>1 DEF SendTakeSlot, SenderGoes
    <3>2. /\ Distinct(free') /\ Head(free) \in Slot /\ In(Head(free), free)
          /\ \A y : In(y, free') <=> In(y, free) /\ y # Head(free)
      BY <1>a, <1>b, <3>1, TakenFrom
    <3>3. \A y : In(y, avail') <=> In(y, avail) BY <3>1
    <3>4. Distinct(avail') BY <1>b, <3>1
    <3>5. /\ sslot'[s] = Head(free)
          /\ \A t \in Senders \ {s} : sslot'[t] = sslot[t] /\ spc'[t] = spc[t]
          /\ spc'[s] = "fill" /\ sslot[s] = None
      BY <1>a, <3>1 DEF SlotOwnership
    <3>6. /\ \A t \in Senders : sslot'[t] # None <=> spc'[t] \in {"fill", "post"}
          /\ rslot' # None <=> rpc' \in {"deliver", "release"}
      BY <3>1, <3>2, <3>5 DEF SlotOwnership
    <3>7. ASSUME NEW x \in Slot
          PROVE  /\ In(x, free') => ~In(x, avail') /\ rslot' # x
                 /\ In(x, avail') => rslot' # x
                 /\ \A t \in Senders : sslot'[t] = x =>
                      /\ ~In(x, free') /\ ~In(x, avail') /\ rslot' # x
                      /\ \A u \in Senders \ {t} : sslot'[u] # x
                 /\ \/ In(x, free') \/ In(x, avail') \/ rslot' = x
                    \/ \E t \in Senders : sslot'[t] = x
      <4>1. CASE x = Head(free)
        BY <3>1, <3>2, <3>3, <3>5, <4>1 DEF SlotOwnership
      <4>2. CASE x # Head(free)
        BY <3>1, <3>2, <3>3, <3>5, <4>2 DEF SlotOwnership
      <4>3. QED BY <4>1, <4>2
    <3>8. QED BY <3>2, <3>4, <3>6, <3>7 DEF SlotOwnership
  <2>2. CASE SendFill(s) BY <1>a, <1>k, <2>2 DEF SendFill, SenderGoes
  <2>3. CASE SendPost(s)
    <3>1. /\ avail' = Append(avail, sslot[s]) /\ free' = free
          /\ sslot' = [sslot EXCEPT ![s] = None]
          /\ spc[s] = "post" /\ spc' = [spc EXCEPT ![s] = "check"]
          /\ rslot' = rslot /\ rpc' = rpc
      BY <2>3 DEF SendPost, SenderGoes
    <3>2. sslot[s] \in Slot /\ ~In(sslot[s], avail)
      BY <1>a, <3>1 DEF SlotOwnership
    <3>0. \A x \in Slot : ~In(x, avail) =>
            /\ Distinct(Append(avail, x))
            /\ \A y : In(y, Append(avail, x)) <=> In(y, avail) \/ y = x
      BY <1>a, <1>b, AddedTo
    <3>3. /\ Distinct(avail')
          /\ \A y : In(y, avail') <=> In(y, avail) \/ y = sslot[s]
      BY <3>1, <3>2, <3>0
    <3>4. \A y : In(y, free') <=> In(y, free) BY <3>1
    <3>5. Distinct(free') BY <1>b, <3>1
    <3>6. QED BY <1>a, <3>1, <3>2, <3>3, <3>4, <3>5 DEF SlotOwnership
  <2>4. CASE SendCheck(s) BY <1>a, <1>k, <2>4 DEF SendCheck, SenderGoes
  <2>5. CASE SendNotify(s) BY <1>a, <1>k, <2>5 DEF SendNotify, SenderGoes
  <2>6. QED BY <1>1, <2>1, <2>2, <2>3, <2>4, <2>5 DEF Send
<1>2. CASE Handler BY <1>k, <1>2 DEF Handler, HandlerRun, HandlerWake
<1>3. CASE Terminate
  BY <1>k, <1>3 DEF Terminate, TerminateFlag, TerminateKick, TerminateWake
<1>4. CASE Dispatch BY <1>k, <1>4 DEF Dispatch
<1>t. ASSUME TakeAvail, rpc \in {"poll", "recheck"}, UNCHANGED <<free, spc, sslot>>
      PROVE  SlotOwnership'
  <2>1. /\ avail # <<>> /\ avail' = Tail(avail) /\ rslot' = Head(avail)
        /\ rpc' = "deliver" /\ rslot = None
    BY <1>t DEF TakeAvail, SlotOwnership
  <2>2. /\ Distinct(avail') /\ Head(avail) \in Slot /\ In(Head(avail), avail)
        /\ \A y : In(y, avail') <=> In(y, avail) /\ y # Head(avail)
    BY <1>a, <1>b, <2>1, TakenFrom
  <2>3. \A y : In(y, free') <=> In(y, free) BY <1>t
  <2>4. Distinct(free') BY <1>b, <1>t
  <2>5. QED BY <1>a, <1>t, <2>1, <2>2, <2>3, <2>4 DEF SlotOwnership
<1>5. CASE Receive
  <2>1. CASE RecvStart BY <1>k, <2>1 DEF RecvStart, ReceiverAt
  <2>2. CASE RecvPoll
    <3>1. CASE TakeAvail BY <1>t, <2>2, <3>1 DEF RecvPoll, ReceiverAt
    <3>2. CASE ~TakeAvail BY <1>k, <2>2, <3>2 DEF RecvPoll, ReceiverAt
    <3>3. QED BY <3>1, <3>2
  <2>3. CASE RecvDeliver BY <1>k, <2>3 DEF RecvDeliver, ReceiverAt
  <2>4. CASE RecvRelease
    <3>1. /\ free' = Append(free, rslot) /\ avail' = avail /\ rslot' = None
          /\ sslot' = sslot /\ spc' = spc
          /\ rpc = "release" /\ rpc' = "poll"
      BY <2>4 DEF RecvRelease, ReceiverAt
    <3>2. rslot \in Slot /\ ~In(rslot, free) BY <1>a, <3>1 DEF SlotOwnership
    <3>3. /\ Distinct(free')
          /\ \A y : In(y, free') <=> In(y, free) \/ y = rslot
      BY <1>a, <1>b, <3>1, <3>2, AddedTo
    <3>4. \A y : In(y, avail') <=> In(y, avail) BY <3>1
    <3>5. Distinct(avail') BY <1>b, <3>1
    <3>6. QED BY <1>a, <3>1, <3>2, <3>3, <3>4, <3>5 DEF SlotOwnership
  <2>5. CASE RecvYield BY <1>k, <2>5 DEF RecvYield, ReceiverAt
  <2>6. CASE RecvArm BY <1>k, <2>6 DEF RecvArm, ReceiverAt
  <2>7. CASE RecvRecheck
    <3>1. CASE TakeAvail BY <1>t, <2>7, <3>1 DEF RecvRecheck, ReceiverAt
    <3>2. CASE ~TakeAvail BY <1>k, <2>7, <3>2 DEF RecvRecheck, ReceiverAt
    <3>3. QED BY <3>1, <3>2
  <2>8. CASE RecvBlock BY <1>k, <2>8 DEF RecvBlock, ReceiverAt
  <2>9. CASE RecvCallback BY <1>k, <2>9 DEF RecvCallback
  <2>10. CASE RecvWoken BY <1>k, <2>10 DEF RecvWoken, ReceiverAt
  <2>11. QED BY <1>5, <2>1, <2>2, <2>3, <2>4, <2>5, <2>6, <2>7, <2>8, <2>9,
                <2>10 DEF Receive
<1>6. CASE Setup BY <1>k, <1>6 DEF Setup, Publish, Create, Bind, SetupStep
<1>7. CASE UNCHANGED vars BY <1>k, <1>7 DEF vars
<1>8. QED BY <1>1, <1>2, <1>3, <1>4, <1>5, <1>6, <1>7 DEF Next

(* No slot of the shared buffer is ever in two hands or in none: it is     *)
(* free, available, held by one sender or held by the receiver.            *)
THEOREM SlotsOwned == Spec => []SlotOwnership
<1>1. Init => TypeInv /\ SlotOwnership BY InitTyped, InitOwned
<1>2. TypeInv /\ SlotOwnership /\ [Next]_vars => (TypeInv /\ SlotOwnership)'
  BY StepTyped, StepOwned
<1>3. QED BY <1>1, <1>2, PTL DEF Spec

-----------------------------------------------------------------------------
(* The channel implements the bounded FIFO of PacketPipe.                  *)

(* A sender that is about to post has filled its slot.                     *)
FilledBeforePost ==
  \A s \in Senders : spc[s] = "post" => buf[sslot[s]] \in Packet

PipeInv == TypeInv /\ SlotOwnership /\ FilledBeforePost

LEMMA StepFilled == PipeInv /\ [Next]_vars => FilledBeforePost'
<1> SUFFICES ASSUME PipeInv, [Next]_vars PROVE FilledBeforePost'
  OBVIOUS
<1> USE SlotAssumption DEF PipeInv, TypeInv, TypeOK, HandsAgree,
        FilledBeforePost, ringVars, sendVars, recvVars, bootVars
<1>0. \A s, t \in Senders : s # t /\ sslot[s] \in Slot => sslot[s] # sslot[t]
  BY DEF SlotOwnership
<1>k. ASSUME UNCHANGED <<buf, sslot>>,
             \A s \in Senders : spc'[s] = "post" => spc[s] = "post"
      PROVE  FilledBeforePost'
  BY <1>k
<1>1. ASSUME NEW s \in Senders, Send(s) PROVE FilledBeforePost'
  <2>1. CASE SendTakeSlot(s)
    BY <2>1 DEF SendTakeSlot, SenderGoes
  <2>2. CASE SendFill(s) BY <1>0, <2>2 DEF SendFill, SenderGoes
  <2>3. CASE SendPost(s) BY <2>3 DEF SendPost, SenderGoes
  <2>4. CASE SendCheck(s) BY <2>4 DEF SendCheck, SenderGoes
  <2>5. CASE SendNotify(s) BY <2>5 DEF SendNotify, SenderGoes
  <2>6. QED BY <1>1, <2>1, <2>2, <2>3, <2>4, <2>5 DEF Send
<1>2. CASE Handler \/ Terminate \/ Dispatch
  BY <1>k, <1>2 DEF Handler, HandlerRun, HandlerWake, Terminate, TerminateFlag,
     TerminateKick, TerminateWake, Dispatch
<1>3. CASE Receive
  BY <1>k, <1>3 DEF Receive, RecvStart, RecvPoll, RecvDeliver, RecvRelease,
     RecvYield, RecvArm, RecvRecheck, RecvBlock, RecvCallback, RecvWoken,
     ReceiverAt
<1>4. CASE Setup \/ UNCHANGED vars
  BY <1>k, <1>4 DEF Setup, Publish, Create, Bind, SetupStep, vars
<1>5. QED BY <1>1, <1>2, <1>3, <1>4 DEF Next

(* A sequence of distinct slots that misses one is shorter than the ring.  *)
LEMMA RoomForOne ==
  ASSUME NEW q \in Seq(Slot), Distinct(q), NEW x \in Slot, ~In(x, q)
  PROVE  Len(q) < NSlots
<1> USE SlotAssumption
<1>1. IsFiniteSet(Slot) /\ Cardinality(Slot) = NSlots
  BY FS_Interval
<1> HIDE DEF Slot
<1>2. IsFiniteSet(Slot \ {x}) /\ Cardinality(Slot \ {x}) = NSlots - 1
  BY <1>1, FS_RemoveElement
<1>3. q \in Injection(1..Len(q), Slot \ {x})
  BY DEF Distinct, In, Injection, IsInjective
<1>4. Cardinality(1..Len(q)) <= NSlots - 1
  BY <1>2, <1>3, FS_Injection
<1>5. Cardinality(1..Len(q)) = Len(q)
  <2>1. Len(q) \in Nat OBVIOUS
  <2>2. Cardinality(1..Len(q)) = IF 1 > Len(q) THEN 0 ELSE Len(q) - 1 + 1
    BY <2>1, FS_Interval
  <2>3. QED BY <2>1, <2>2
<1>6. QED BY <1>4, <1>5

LEMMA TransitTyped ==
  ASSUME TypeInv, SlotOwnership
  PROVE  /\ InTransit \in Seq(Slot)
         /\ Distinct(InTransit)
         /\ \A s \in Senders : sslot[s] \in Slot => ~In(sslot[s], InTransit)
<1> USE DEF TypeInv, TypeOK, HandsAgree
<1>1. CASE rpc = "deliver"
  <2>1. rslot \in Slot /\ InTransit = <<rslot>> \o avail
    BY <1>1 DEF InTransit
  <2>2. /\ InTransit \in Seq(Slot)
        /\ Len(InTransit) = Len(avail) + 1
        /\ InTransit[1] = rslot
        /\ \A i \in 2..Len(InTransit) : InTransit[i] = avail[i - 1]
    BY <2>1
  <2>3. ~In(rslot, avail) /\ Distinct(avail)
    BY <2>1 DEF SlotOwnership
  <2>7. \A i \in 2..Len(InTransit) :
          i - 1 \in 1..Len(avail) /\ InTransit[i] # rslot
    BY <2>2, <2>3 DEF In
  <2>4. Distinct(InTransit)
    <3> SUFFICES ASSUME NEW i \in 1..Len(InTransit), NEW j \in 1..Len(InTransit),
                        InTransit[i] = InTransit[j]
                 PROVE  i = j
      BY DEF Distinct
    <3>1. CASE i = 1 \/ j = 1 BY <2>2, <2>7, <3>1
    <3>2. CASE i # 1 /\ j # 1
      <4>1. i \in 2..Len(InTransit) /\ j \in 2..Len(InTransit) BY <2>2, <3>2
      <4>2. avail[i - 1] = avail[j - 1] BY <2>2, <4>1
      <4>3. i - 1 = j - 1 BY <2>3, <2>7, <4>1, <4>2 DEF Distinct
      <4>4. QED BY <4>3
    <3>3. QED BY <3>1, <3>2
  <2>5. ASSUME NEW s \in Senders, sslot[s] \in Slot
        PROVE  ~In(sslot[s], InTransit)
    <3>1. ~In(sslot[s], avail) /\ rslot # sslot[s]
      BY <2>5 DEF SlotOwnership
    <3> SUFFICES ASSUME NEW i \in 1..Len(InTransit), InTransit[i] = sslot[s]
                 PROVE  FALSE
      BY DEF In
    <3>2. i # 1 BY <2>2, <3>1
    <3>3. i \in 2..Len(InTransit) BY <2>2, <3>2
    <3>4. avail[i - 1] = sslot[s] /\ i - 1 \in 1..Len(avail)
      BY <2>2, <2>7, <3>3
    <3>5. QED BY <3>1, <3>4 DEF In
  <2>6. QED BY <2>2, <2>4, <2>5
<1>2. CASE rpc # "deliver"
  BY <1>2 DEF InTransit, SlotOwnership
<1>3. QED BY <1>1, <1>2

LEMMA PipeInitMapped == Init => Pipe!PipeInit
BY DEF Init, RingInit, Pipe!PipeInit, InTransit

LEMMA PipeStepMapped ==
  PipeInv /\ [Next]_vars => [Pipe!PipeNext]_(Pipe!pipeVars)
<1> SUFFICES ASSUME PipeInv, [Next]_vars
             PROVE  [Pipe!PipeNext]_(Pipe!pipeVars)
  OBVIOUS
<1> USE DEF ringVars, sendVars, recvVars, bootVars
<1> DEFINE T == InTransit
           Q == [i \in 1..Len(InTransit) |-> buf[InTransit[i]]]
<1>a. /\ InTransit \in Seq(Slot)
      /\ Distinct(InTransit)
      /\ \A s \in Senders : sslot[s] \in Slot => ~In(sslot[s], InTransit)
  BY TransitTyped DEF PipeInv
<1>b. /\ avail \in Seq(Slot)
      /\ buf \in [Slot -> Packet \cup {None}]
      /\ \A s \in Senders : spc[s] \in {"fill", "post"} => sslot[s] \in Slot
      /\ rpc \in {"deliver", "release"} => rslot \in Slot
  BY DEF PipeInv, TypeInv, TypeOK, HandsAgree
<1>k. ASSUME InTransit' = InTransit, got' = got,
             \A i \in 1..Len(InTransit) : buf'[InTransit[i]] = buf[InTransit[i]]
      PROVE  UNCHANGED Pipe!pipeVars
  <2>1. Q' = Q BY <1>k
  <2>2. QED BY <1>k, <2>1 DEF Pipe!pipeVars
<1>1. ASSUME NEW s \in Senders, Send(s)
      PROVE  [Pipe!PipeNext]_(Pipe!pipeVars)
  <2>1. CASE SendTakeSlot(s)
    BY <1>k, <2>1 DEF SendTakeSlot, SenderGoes, InTransit
  <2>2. CASE SendFill(s)
    <3>1. InTransit' = InTransit /\ got' = got
      BY <2>2 DEF SendFill, SenderGoes, InTransit
    <3>2. sslot[s] \in Slot /\ buf' = [buf EXCEPT ![sslot[s]] = spkt[s]]
      BY <1>b, <2>2 DEF SendFill, SenderGoes
    <3>3. \A i \in 1..Len(InTransit) : buf'[InTransit[i]] = buf[InTransit[i]]
      BY <1>a, <1>b, <3>2 DEF In
    <3>4. QED BY <1>k, <3>1, <3>3
  <2>3. CASE SendPost(s)
    <3>1. /\ sslot[s] \in Slot /\ avail' = Append(avail, sslot[s])
          /\ rpc' = rpc /\ rslot' = rslot /\ buf' = buf /\ got' = got
          /\ spc[s] = "post"
      BY <1>b, <2>3 DEF SendPost, SenderGoes
    <3>2. InTransit' = Append(InTransit, sslot[s])
      <4>1. CASE rpc = "deliver"
        <5>1. rslot \in Slot BY <1>b, <4>1
        <5>2. <<rslot>> \o Append(avail, sslot[s])
                = Append(<<rslot>> \o avail, sslot[s])
          BY <1>b, <3>1, <5>1
        <5>3. QED BY <3>1, <4>1, <5>2 DEF InTransit
      <4>2. CASE rpc # "deliver" BY <3>1, <4>2 DEF InTransit
      <4>3. QED BY <4>1, <4>2
    <3>3. buf[sslot[s]] \in Packet
      BY <3>1 DEF PipeInv, FilledBeforePost
    <3>4. Q' = Append(Q, buf[sslot[s]])
      BY <1>a, <3>1, <3>2
    <3>5. Len(Q) < NSlots
      BY <1>a, <3>1, RoomForOne
    <3>6. Pipe!PipeNext
      BY <3>1, <3>3, <3>4, <3>5 DEF Pipe!PipeNext, Pipe!Put
    <3>7. QED BY <3>6
  <2>4. CASE SendCheck(s) BY <1>k, <2>4 DEF SendCheck, SenderGoes, InTransit
  <2>5. CASE SendNotify(s) BY <1>k, <2>5 DEF SendNotify, SenderGoes, InTransit
  <2>6. QED BY <1>1, <2>1, <2>2, <2>3, <2>4, <2>5 DEF Send
<1>2. CASE Handler \/ Terminate \/ Dispatch
  BY <1>k, <1>2 DEF Handler, HandlerRun, HandlerWake, Terminate, TerminateFlag,
     TerminateKick, TerminateWake, Dispatch, InTransit
<1>t. ASSUME TakeAvail, rpc \in {"poll", "recheck"}, UNCHANGED <<buf, got>>
      PROVE  UNCHANGED Pipe!pipeVars
  <2>1. avail = <<Head(avail)>> \o Tail(avail)
    BY <1>b, <1>t DEF TakeAvail
  <2>2. InTransit' = InTransit BY <1>t, <2>1 DEF TakeAvail, InTransit
  <2>3. QED BY <1>k, <1>t, <2>2
<1>3. CASE Receive
  <2>1. CASE RecvStart BY <1>k, <2>1 DEF RecvStart, ReceiverAt, InTransit
  <2>2. CASE RecvPoll
    <3>1. CASE TakeAvail BY <1>t, <2>2, <3>1 DEF RecvPoll, ReceiverAt
    <3>2. CASE ~TakeAvail
      BY <1>k, <2>2, <3>2 DEF RecvPoll, ReceiverAt, InTransit
    <3>3. QED BY <3>1, <3>2
  <2>3. CASE RecvDeliver
    <3>1. /\ rslot \in Slot /\ rpc = "deliver" /\ rpc' = "release"
          /\ avail' = avail /\ buf' = buf /\ got' = buf[rslot]
      BY <1>b, <2>3 DEF RecvDeliver, ReceiverAt
    <3>2. InTransit = <<rslot>> \o avail /\ InTransit' = avail
      BY <3>1 DEF InTransit
    <3>3. /\ Len(InTransit) = Len(avail) + 1
          /\ InTransit[1] = rslot
          /\ \A i \in 1..Len(avail) : InTransit[i + 1] = avail[i]
      BY <1>b, <3>1, <3>2
    <3>4. Q # <<>> /\ Head(Q) = buf[rslot] BY <1>a, <3>3
    <3>5. Q' = Tail(Q) BY <1>a, <1>b, <3>1, <3>2, <3>3
    <3>6. Pipe!Get BY <3>1, <3>4, <3>5 DEF Pipe!Get
    <3>7. QED BY <3>6 DEF Pipe!PipeNext
  <2>4. CASE RecvRelease BY <1>k, <2>4 DEF RecvRelease, ReceiverAt, InTransit
  <2>5. CASE RecvYield BY <1>k, <2>5 DEF RecvYield, ReceiverAt, InTransit
  <2>6. CASE RecvArm BY <1>k, <2>6 DEF RecvArm, ReceiverAt, InTransit
  <2>7. CASE RecvRecheck
    <3>1. CASE TakeAvail BY <1>t, <2>7, <3>1 DEF RecvRecheck, ReceiverAt
    <3>2. CASE ~TakeAvail
      BY <1>k, <2>7, <3>2 DEF RecvRecheck, ReceiverAt, InTransit
    <3>3. QED BY <3>1, <3>2
  <2>8. CASE RecvBlock BY <1>k, <2>8 DEF RecvBlock, ReceiverAt, InTransit
  <2>9. CASE RecvCallback BY <1>k, <2>9 DEF RecvCallback, InTransit
  <2>10. CASE RecvWoken BY <1>k, <2>10 DEF RecvWoken, ReceiverAt, InTransit
  <2>11. QED BY <1>3, <2>1, <2>2, <2>3, <2>4, <2>5, <2>6, <2>7, <2>8, <2>9,
                <2>10 DEF Receive
<1>4. CASE Setup \/ UNCHANGED vars
  BY <1>k, <1>4 DEF Setup, Publish, Create, Bind, SetupStep, vars, InTransit
<1>5. QED BY <1>1, <1>2, <1>3, <1>4 DEF Next

(* What the receiver hands to the network stack is what the senders put    *)
(* into the channel: a bounded FIFO, for any number of senders and slots.  *)
THEOREM ChannelImplementsPipe == Spec => ImplementsPipe
<1>1. Init => PipeInv
  BY InitTyped, InitOwned DEF PipeInv, FilledBeforePost, Init, RingInit
<1>2. PipeInv /\ [Next]_vars => PipeInv'
  BY StepTyped, StepOwned, StepFilled DEF PipeInv
<1>3. QED BY <1>1, <1>2, PipeInitMapped, PipeStepMapped, PTL
          DEF Spec, ImplementsPipe, Pipe!PipeSafety

(* An established channel stays sound, for any number of senders and slots *)
(* and whether or not the receiver is terminated.                          *)
THEOREM ChannelIsSound == Spec => []ChannelSound
<1>1. TypeOK /\ SlotOwnership /\ WakesOnlyBlocked /\ NoLostWakeup => ChannelSound
  BY DEF ChannelSound
<1>2. QED BY <1>1, TypeCorrect, SlotsOwned, SingleWakeup, NoWakeupLost, PTL

=============================================================================
