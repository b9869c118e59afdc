------------------------------- MODULE NetRing --------------------------------
(***************************************************************************)
(* The network device of the Xen platform: the two rings of                *)
(* platform/xen/xen/netfront.c, the interface above them                   *)
(* (librumpnet_xenif/xenif_user.c and if_virt.c) and the semaphore of      *)
(* mini-os/semaphore.h.  Threads run on one CPU and switch where they      *)
(* block; the interrupt handler comes between any two of their steps that  *)
(* are not made with interrupts off, and the backend works beside all of   *)
(* them.  Grants do not run out.                                           *)
(***************************************************************************)
EXTENDS Integers, Sequences, SequencesExt, FiniteSets

CONSTANTS
  NtSenders,
  NtTx, NtRx,      \* NET_TX_RING_SIZE, NET_RX_RING_SIZE
  NBUF,
  NtPackets        \* bound: packets that arrive

NtIds == 0..(NtTx - 1)
RxIds == 0..(NtRx - 1)

VARIABLES
  ntpc, ntid,                    \* senders: where they are, the id they use
  ntRun,                         \* the sender on the CPU, or "none"
  ntHand, ntSeen,                \* the handler: where it is, responses consumed
  tx_freelist, tx_sem, txWait,   \* ids, semaphore and the senders blocked in it
  txReq, txHeld, txRsp, txEvent, \* transmit ring, responses until an interrupt
  rxReq, rxRsp, rxEvent, rxProd, \* receive ring
  rxGranted,                     \* buffers the backend may write to
  ntEvt,                         \* the event channel is pending
  viu_read, viu_write, viu_pkts, viu_rcvr, viu_dying,
  viuTok,                        \* pusher is in the run queue
  pupc,                          \* pusher
  ntIf, ntRunning,               \* the interface, IFF_RUNNING
  ntGot, ntIn, ntNext            \* packets accepted and not delivered; last input; next

ntSend == <<ntpc, ntid, ntRun>>
ntTxq == <<tx_freelist, tx_sem, txWait, txReq, txHeld, txRsp, txEvent>>
ntRxq == <<rxReq, rxRsp, rxEvent, rxProd, rxGranted>>
ntViu == <<viu_read, viu_write, viu_pkts, viu_rcvr, viuTok, ntGot, ntIn>>
ntLife == <<viu_dying, pupc, ntIf, ntRunning>>
ntVars == <<ntSend, ntHand, ntSeen, ntTxq, ntRxq, ntEvt, ntViu, ntLife, ntNext>>

(* netfront_init: all ids free, init_rx_buffers posts every buffer.        *)
NtInit ==
  /\ ntpc = [s \in NtSenders |-> "new"] /\ ntid = [s \in NtSenders |-> 0] /\ ntRun = "none"
  /\ ntHand = "idle" /\ ntSeen = 0
  /\ tx_freelist = NtIds /\ tx_sem = NtTx /\ txWait = <<>>
  /\ txReq = <<>> /\ txHeld = {} /\ txRsp = <<>> /\ txEvent = 1
  /\ rxReq = [k \in 1..NtRx |-> k - 1] /\ rxRsp = <<>> /\ rxEvent = 1 /\ rxProd = NtRx /\ rxGranted = RxIds
  /\ ntEvt = 0
  /\ viu_read = 0 /\ viu_write = 0 /\ viu_pkts = [k \in 0..(NBUF - 1) |-> 0]
  /\ viu_rcvr = FALSE /\ viu_dying = FALSE /\ viuTok = FALSE
  /\ pupc = "none" /\ ntIf = "off" /\ ntRunning = FALSE /\ ntGot = <<>> /\ ntIn = 0 /\ ntNext = 1

NtAt(s, pc) == ntpc[s] = pc /\ ntHand = "idle" /\ ntRun \in {s, "none"}
NtGoes(s, pc) == ntpc' = [ntpc EXCEPT ![s] = pc] /\ ntRun' = s

-----------------------------------------------------------------------------
(* virtif_start dequeues a packet; VIFHYPER_SEND gathers it, or drops it   *)
(* without memory, and calls netfront_xmit, which waits for a free id.     *)
VIFHYPER_SEND(s) ==
  \/ NtGoes(s, "down")
  \/ ntpc' = [ntpc EXCEPT ![s] = "sent"] /\ UNCHANGED ntRun
virtif_start(s) ==
  /\ NtAt(s, "new") /\ ~viu_dying /\ ntIf = "on" /\ VIFHYPER_SEND(s)
  /\ UNCHANGED <<ntid, ntHand, ntSeen, ntTxq, ntRxq, ntEvt, ntViu, ntLife, ntNext>>

down(s) ==
  /\ NtAt(s, "down") /\ tx_sem' = tx_sem - 1
  /\ IF tx_sem <= 0
       THEN /\ txWait' = Append(txWait, s) /\ ntpc' = [ntpc EXCEPT ![s] = "blocked"] /\ ntRun' = "none"
       ELSE NtGoes(s, "take") /\ UNCHANGED txWait
  /\ UNCHANGED <<ntid, ntHand, ntSeen, tx_freelist, txReq, txHeld, txRsp, txEvent, ntRxq, ntEvt, ntViu, ntLife, ntNext>>

get_id_from_freelist(s) ==
  /\ NtAt(s, "take")
  /\ \E id \in tx_freelist : tx_freelist' = tx_freelist \ {id} /\ ntid' = [ntid EXCEPT ![s] = id]
  /\ NtGoes(s, "put")
  /\ UNCHANGED <<ntHand, ntSeen, tx_sem, txWait, txReq, txHeld, txRsp, txEvent, ntRxq, ntEvt, ntViu, ntLife, ntNext>>

netfront_xmit(s) ==
  /\ NtAt(s, "put") /\ NtGoes(s, "gc")
  /\ txReq' = Append(txReq, ntid[s])
  /\ UNCHANGED <<ntid, ntHand, ntSeen, tx_freelist, tx_sem, txWait, txHeld, txRsp, txEvent, ntRxq, ntEvt, ntViu, ntLife, ntNext>>

(* network_tx_buf_gc: the ids of the responses are free again (up), then   *)
(* ask for an interrupt half way through what is in flight.  Mutant: at    *)
(* the end of it.                                                          *)
NtInFlight == Len(txReq) + Cardinality(txHeld) + Len(txRsp)
AtTheEnd == Len(txReq) + Cardinality(txHeld) + 1
NextTxEvent == (Len(txReq) + Cardinality(txHeld)) \div 2 + 1

NtGc ==
  LET n == Len(txRsp)
      w == IF tx_sem >= 0 THEN 0 ELSE IF -tx_sem < n THEN -tx_sem ELSE n
  IN
  /\ tx_freelist' = tx_freelist \cup Range(txRsp) /\ tx_sem' = tx_sem + n
  /\ txWait' = SubSeq(txWait, w + 1, Len(txWait))
  /\ txRsp' = <<>> /\ txEvent' = NextTxEvent
NtWoken == {s \in NtSenders : Contains(txWait, s) /\ ~Contains(txWait', s)}

XmitGc(s) ==
  /\ NtAt(s, "gc") /\ NtGc /\ ntRun' = s
  /\ ntpc' = [u \in NtSenders |-> IF u = s THEN "gcend" ELSE IF u \in NtWoken THEN "take" ELSE ntpc[u]]
  /\ UNCHANGED <<ntid, ntHand, ntSeen, txReq, txHeld, ntRxq, ntEvt, ntViu, ntLife, ntNext>>
XmitEnd(s) ==
  /\ NtAt(s, "gcend")
  /\ IF txRsp # <<>> THEN NtGoes(s, "gc")
     ELSE ntpc' = [ntpc EXCEPT ![s] = "sent"] /\ ntRun' = "none"
  /\ UNCHANGED <<ntid, ntHand, ntSeen, ntTxq, ntRxq, ntEvt, ntViu, ntLife, ntNext>>
SendAgain(s) ==
  /\ NtAt(s, "sent") /\ ntpc' = [ntpc EXCEPT ![s] = "new"]
  /\ UNCHANGED <<ntid, ntRun, ntHand, ntSeen, ntTxq, ntRxq, ntEvt, ntViu, ntLife, ntNext>>

-----------------------------------------------------------------------------
(* netfront_handler: the transmit ring, ...                                *)
NtIrqsOff == \E s \in NtSenders : ntRun = s /\ ntpc[s] \in {"gc", "gcend"}
netfront_handler ==
  /\ ntEvt = 1 /\ ntHand = "idle" /\ ~NtIrqsOff /\ ntIf # "gone"
  /\ ntEvt' = 0 /\ ntHand' = "gc" /\ ntSeen' = 0
  /\ UNCHANGED <<ntSend, ntTxq, ntRxq, ntViu, ntLife, ntNext>>
HandGc ==
  /\ ntHand = "gc" /\ NtGc /\ ntHand' = "gcend"
  /\ ntpc' = [u \in NtSenders |-> IF u \in NtWoken THEN "take" ELSE ntpc[u]]
  /\ UNCHANGED <<ntid, ntRun, ntSeen, txReq, txHeld, ntRxq, ntEvt, ntViu, ntLife, ntNext>>
HandGcEnd ==
  /\ ntHand = "gcend" /\ ntHand' = IF txRsp # <<>> THEN "gc" ELSE "rx"
  /\ UNCHANGED <<ntSend, ntSeen, ntTxq, ntRxq, ntEvt, ntViu, ntLife, ntNext>>

(* ... then network_rx: each packet goes to myrecv, which copies it, or    *)
(* drops it when its buffers are full; ...                             *)
QueueFull == (viu_write + 1) % NBUF = viu_read

RxTake ==
  /\ ntHand = "rx" /\ rxRsp # <<>> /\ rxRsp' = Tail(rxRsp)
  /\ LET r == Head(rxRsp) IN
     /\ rxGranted' = rxGranted \ {r.id}
     /\ IF r.pkt = 0 \/ QueueFull THEN UNCHANGED ntViu
        ELSE /\ viu_pkts' = [viu_pkts EXCEPT ![viu_write] = r.pkt]
             /\ viu_write' = (viu_write + 1) % NBUF
             /\ viuTok' = (viuTok \/ viu_rcvr) /\ ntGot' = Append(ntGot, r.pkt)
             /\ UNCHANGED <<viu_read, viu_rcvr, ntIn>>
  /\ ntSeen' = ntSeen + 1
  /\ UNCHANGED <<ntSend, ntHand, ntTxq, rxReq, rxEvent, rxProd, ntEvt, ntLife, ntNext>>
RxFinal ==
  /\ ntHand = "rx" /\ rxRsp = <<>> /\ rxEvent' = 1 /\ ntHand' = "rxend"
  /\ UNCHANGED <<ntSend, ntSeen, ntTxq, rxReq, rxRsp, rxProd, rxGranted, ntEvt, ntViu, ntLife, ntNext>>

(* ... and posts as many buffers again, those the ring index names.        *)
network_rx ==
  /\ ntHand = "rxend"
  /\ IF rxRsp # <<>> THEN ntHand' = "rx" /\ UNCHANGED <<rxReq, rxProd, rxGranted, ntSeen>>
     ELSE LET again == [k \in 1..ntSeen |-> (rxProd + k - 1) % NtRx] IN
          /\ rxReq' = rxReq \o again /\ rxProd' = (rxProd + ntSeen) % NtRx
          /\ rxGranted' = rxGranted \cup Range(again)
          /\ ntSeen' = 0 /\ ntHand' = "idle"
  /\ UNCHANGED <<ntSend, ntTxq, rxRsp, rxEvent, ntEvt, ntViu, ntLife, ntNext>>

-----------------------------------------------------------------------------
(* pusher: waits for packets with the interrupts off, and delivers one     *)
(* with them on before it frees its buffer.                                *)
PuFree == ntHand = "idle" /\ ntRun = "none"
PuStep(pc) == pupc' = pc /\ UNCHANGED <<ntSend, ntHand, ntSeen, ntTxq, ntRxq, ntEvt, viu_dying, ntIf, ntRunning, ntNext>>

PusherLoop ==
  /\ pupc = "loop" /\ PuFree
  /\ IF viu_dying THEN PuStep("exited") /\ UNCHANGED ntViu
     ELSE IF viu_read = viu_write
       THEN /\ viu_rcvr' = TRUE /\ PuStep("block")
            /\ UNCHANGED <<viu_read, viu_write, viu_pkts, viuTok, ntGot, ntIn>>
     ELSE PuStep("deliver") /\ UNCHANGED ntViu
PusherWoken ==
  /\ pupc = "block" /\ PuFree /\ viuTok
  /\ viuTok' = FALSE /\ viu_rcvr' = FALSE /\ PuStep("loop")
  /\ UNCHANGED <<viu_read, viu_write, viu_pkts, ntGot, ntIn>>

(* rump_virtif_pktdeliver: dropped unless the interface runs.              *)
rump_virtif_pktdeliver ==
  /\ pupc = "deliver" /\ PuFree
  /\ ntIn' = IF ntRunning THEN viu_pkts[viu_read] ELSE ntIn
  /\ PuStep("deliver2") /\ UNCHANGED <<viu_read, viu_write, viu_pkts, viu_rcvr, viuTok, ntGot>>
PusherNext ==
  /\ pupc = "deliver2" /\ PuFree
  /\ viu_read' = (viu_read + 1) % NBUF /\ ntGot' = Tail(ntGot) /\ PuStep("loop")
  /\ UNCHANGED <<viu_write, viu_pkts, viu_rcvr, viuTok, ntIn>>

-----------------------------------------------------------------------------
(* virtif_clone: VIFHYPER_CREATE makes the device and the pusher (or fails *)
(* and leaves nothing); virtif_init; virtif_unclone: VIFHYPER_DYING and    *)
(* virtif_stop, then VIFHYPER_DESTROY joins pusher and closes the device:  *)
(* free_netfront takes every id, waiting for what is in flight.            *)
NtLives == UNCHANGED <<ntSend, ntHand, ntSeen, ntTxq, ntEvt, ntNext>>
VIFHYPER_CREATE == ntIf' = "on" /\ pupc' = "loop"
virtif_clone ==
  /\ PuFree /\ ntIf = "off" /\ VIFHYPER_CREATE
  /\ NtLives /\ UNCHANGED <<ntRxq, ntViu, viu_dying, ntRunning>>
virtif_init ==
  /\ PuFree /\ ntIf = "on" /\ ~ntRunning /\ ntRunning' = TRUE
  /\ NtLives /\ UNCHANGED <<ntRxq, ntViu, viu_dying, ntIf, pupc>>
VIFHYPER_DYING ==
  /\ PuFree /\ ntIf = "on" /\ ~viu_dying
  /\ viu_dying' = TRUE /\ ntRunning' = FALSE /\ viuTok' = (viuTok \/ viu_rcvr)
  /\ NtLives /\ UNCHANGED <<ntRxq, ntIf, pupc, viu_read, viu_write, viu_pkts, viu_rcvr, ntGot, ntIn>>
VIFHYPER_DESTROY ==
  /\ PuFree /\ viu_dying /\ ntIf = "on" /\ pupc = "exited"
  /\ tx_sem = NtTx /\ \A s \in NtSenders : ntpc[s] \in {"new", "sent"}
  /\ ntIf' = "gone" /\ rxGranted' = {}
  /\ NtLives /\ UNCHANGED <<rxReq, rxRsp, rxEvent, rxProd, ntViu, viu_dying, ntRunning, pupc>>
virtif_unclone == VIFHYPER_DYING \/ VIFHYPER_DESTROY

-----------------------------------------------------------------------------
(* The backend: it takes packets and answers in any order; it fills        *)
(* buffers in the order they were posted.                                  *)
TxTake ==
  /\ ntIf = "on" /\ txReq # <<>> /\ txReq' = Tail(txReq) /\ txHeld' = txHeld \cup {Head(txReq)}
  /\ UNCHANGED <<ntSend, ntHand, ntSeen, tx_freelist, tx_sem, txWait, txRsp, txEvent, ntRxq, ntEvt, ntViu, ntLife, ntNext>>
TxAnswer ==
  /\ ntIf = "on" /\ \E id \in txHeld : txHeld' = txHeld \ {id} /\ txRsp' = Append(txRsp, id)
  /\ ntEvt' = IF txEvent = 1 THEN 1 ELSE ntEvt
  /\ txEvent' = IF txEvent > 0 THEN txEvent - 1 ELSE 0
  /\ UNCHANGED <<ntSend, ntHand, ntSeen, tx_freelist, tx_sem, txWait, txReq, ntRxq, ntViu, ntLife, ntNext>>
RxArrive ==
  /\ ntIf = "on" /\ rxReq # <<>> /\ rxReq' = Tail(rxReq)
  /\ \/ ntNext <= NtPackets /\ ntNext' = ntNext + 1 /\ rxRsp' = Append(rxRsp, [id |-> Head(rxReq), pkt |-> ntNext])
     \/ ntNext = NtPackets /\ ntNext' = ntNext + 1 /\ rxRsp' = Append(rxRsp, [id |-> Head(rxReq), pkt |-> 0])
  /\ ntEvt' = IF rxEvent = 1 THEN 1 ELSE ntEvt
  /\ rxEvent' = 0
  /\ UNCHANGED <<ntSend, ntHand, ntSeen, ntTxq, rxProd, rxGranted, ntViu, ntLife>>

-----------------------------------------------------------------------------
NtSend(s) ==
  \/ virtif_start(s) \/ down(s) \/ get_id_from_freelist(s) \/ netfront_xmit(s) \/ XmitGc(s) \/ XmitEnd(s)
  \/ SendAgain(s)
NtNext ==
  \/ \E s \in NtSenders : NtSend(s)
  \/ netfront_handler \/ HandGc \/ HandGcEnd \/ RxTake \/ RxFinal \/ network_rx
  \/ PusherLoop \/ PusherWoken \/ rump_virtif_pktdeliver \/ PusherNext
  \/ virtif_clone \/ virtif_init \/ virtif_unclone \/ TxTake \/ TxAnswer \/ RxArrive
NtSpec == NtInit /\ [][NtNext]_ntVars

-----------------------------------------------------------------------------
(* An id is free, a sender's, or in flight, and only one of them; the      *)
(* semaphore counts the free ones.                                         *)
IdsAccounted ==
  LET held == {s \in NtSenders : ntpc[s] = "put"} IN
  /\ Cardinality(tx_freelist) + Cardinality(held) + NtInFlight = NtTx
  /\ tx_freelist \cap (txHeld \cup Range(txReq) \cup Range(txRsp)) = {}
  /\ tx_sem = Cardinality(tx_freelist) - Len(txWait) - Cardinality({s \in NtSenders : ntpc[s] = "take"})

(* A blocked sender will be woken: something in flight will interrupt.     *)
SenderWoken ==
  txWait # <<>> /\ ntHand = "idle" /\ ntRun = "none" /\ ntIf = "on" /\ txReq = <<>> /\ txHeld = {} => ntEvt = 1

(* The backend writes only to buffers that were read: one that is posted   *)
(* is granted and nobody reads it.                                         *)
BuffersPosted ==
  ntIf = "on" => /\ IsInjective(rxReq) /\ Range(rxReq) \subseteq rxGranted
                 /\ \A k \in DOMAIN rxRsp : rxRsp[k].id \in rxGranted /\ ~Contains(rxReq, rxRsp[k].id)

(* pusher delivers the accepted packets in order and once, and a packet    *)
(* that it delivers is not overwritten; it does not sleep while there are  *)
(* some.                                                                   *)
DeliveredInOrder ==
  /\ (viu_write - viu_read) % NBUF = Len(ntGot)
  /\ \A k \in DOMAIN ntGot : viu_pkts[(viu_read + k - 1) % NBUF] = ntGot[k]
  /\ \A k \in DOMAIN ntGot : ntIn < ntGot[k] \/ (k = 1 /\ pupc = "deliver2" /\ ntIn = ntGot[1])
  /\ pupc = "block" /\ ntGot # <<>> => viuTok

(* The four together.                                                      *)
NetSound == IdsAccounted /\ SenderWoken /\ BuffersPosted /\ DeliveredInOrder
=============================================================================
