---------------------------- MODULE PlatformProofs -----------------------------
(***************************************************************************)
(* Proofs about what the platform shares with Xen: event channels, and the *)
(* pages of the front ends.                                                *)
(***************************************************************************)
EXTENDS EventChannel, FrontLife, TLAPS

(* Delivery of event channels, for every number of CPUs and ports.  The    *)
(* inductive invariant is the conjunction of the type invariant and the    *)
(* two selection invariants; that no event is lost is inductive together   *)
(* with the type invariant alone.                                          *)

EvSelection == EvTypeOK /\ EventSelected /\ SelectedRuns
EvOwedInv == EvTypeOK /\ NoEventLost

(* A context belongs to a CPU.                                             *)
LEMMA CtxParts ==
  /\ \A x \in EvCtxs : x[1] \in EvCpus /\ x = <<x[1], x[2]>> /\ x[2] \in {"irq", "thread"}
  /\ \A c \in EvCpus : EvIrq(c) \in EvCtxs /\ EvThread(c) \in EvCtxs
  /\ \A c \in EvCpus : EvIrq(c)[1] = c /\ EvThread(c)[1] = c /\ EvIrq(c) # EvThread(c)
  /\ \A x \in EvCtxs : x = EvIrq(x[1]) \/ x = EvThread(x[1])
BY DEF EvCtxs, EvIrq, EvThread

(* Ports are in words, and there is a first of each.                       *)
LEMMA PortWords ==
  /\ \A p \in EvPorts : EvWordOf(p) \in EvWords
  /\ 0 \in EvPorts /\ 0 \in EvWords
<1>1. \A p \in EvPorts : EvWordOf(p) \in EvWords
  BY DEF EvWords
<1>2. 0 \in EvPorts
  BY EvAssumption DEF EvPorts
<1>3. EvWordOf(0) = 0
  BY EvAssumption DEF EvWordOf
<1> QED
  BY <1>1, <1>2, <1>3

(* The steps, by actor.                                                    *)
LEMMA EvInitType == EvInit => EvTypeOK
BY PortWords DEF EvInit, EvTypeOK

LEMMA EvTypeStep ==
  ASSUME EvTypeOK, [EvNext]_evVars
  PROVE  EvTypeOK'
<1> USE DEF EvTypeOK, evVars, evShared, evCb, evUnm
<1>1. ASSUME NEW p \in EvPorts, EvPortStep(p) PROVE EvTypeOK'
  <2>1. CASE EvSend(p) BY <2>1 DEF EvSend
  <2>2. CASE EvSelect(p) BY <2>2, PortWords, EvAssumption DEF EvSelect
  <2>3. CASE EvMark(p) BY <2>3, EvAssumption DEF EvMark
  <2>4. CASE \E c \in EvCpus : EvBind(c, p) BY <2>4 DEF EvBind, ThrGoes
  <2> QED BY <1>1, <2>1, <2>2, <2>3, <2>4 DEF EvPortStep
<1>2. ASSUME NEW c \in EvCpus, EvCpuStep(c) PROVE EvTypeOK'
  <2>1. CASE EvInterrupt(c) BY <2>1, CtxParts DEF EvInterrupt, EvGoes
  <2>2. CASE EvUnmask(c) BY <2>2 DEF EvUnmask, ThrGoes
  <2>3. CASE EvTest(c) BY <2>3 DEF EvTest, ThrGoes, Resend
  <2>4. CASE EvTestAndSet(c) BY <2>4, PortWords DEF EvTestAndSet, ThrGoes
  <2>5. CASE EvSetUpcall(c) BY <2>5 DEF EvSetUpcall, ThrGoes, UpcallSet
  <2>6. CASE EvForce(c) BY <2>6, CtxParts DEF EvForce, ThrGoes, EvGoes
  <2> QED BY <1>2, <2>1, <2>2, <2>3, <2>4, <2>5, <2>6 DEF EvCpuStep
<1>3. ASSUME NEW x \in EvCtxs, EvCbStep(x) PROVE EvTypeOK'
  <2>1. CASE CbStart(x) BY <2>1, CtxParts DEF CbStart, EvGoes
  <2>2. CASE CbXchg(x) BY <2>2, CtxParts DEF CbXchg, EvGoes
  <2>3. CASE CbWord(x) BY <2>3, PortWords DEF CbWord, EvGoes
  <2>4. CASE CbScan(x) BY <2>4 DEF CbScan, EvGoes, EvActive
  <2>5. CASE CbClear(x) BY <2>5 DEF CbClear, Cleared, EvGoes
  <2>6. CASE CbCall(x) BY <2>6 DEF CbCall, EvGoes
  <2>7. CASE CbReturn(x) BY <2>7, PortWords DEF CbReturn, EvGoes
  <2> QED BY <1>3, <2>1, <2>2, <2>3, <2>4, <2>5, <2>6, <2>7 DEF EvCbStep
<1>4. CASE UNCHANGED evVars BY <1>4
<1> QED BY <1>1, <1>2, <1>3, <1>4 DEF EvNext

(* Only the callback takes events: the handler call follows the clearing   *)
(* of the pending bit.                                                     *)
LEMMA OwedStep ==
  ASSUME EvTypeOK, NoEventLost, [EvNext]_evVars
  PROVE  NoEventLost'
<1> USE DEF EvTypeOK, NoEventLost, evVars, evShared, evCb, evUnm
<1>1. ASSUME NEW p \in EvPorts, EvPortStep(p) PROVE NoEventLost'
  <2>1. CASE EvSend(p) BY <2>1 DEF EvSend
  <2>2. CASE EvSelect(p) BY <2>2 DEF EvSelect
  <2>3. CASE EvMark(p) BY <2>3 DEF EvMark
  <2>4. CASE \E c \in EvCpus : EvBind(c, p) BY <2>4 DEF EvBind
  <2> QED BY <1>1, <2>1, <2>2, <2>3, <2>4 DEF EvPortStep
<1>2. ASSUME NEW c \in EvCpus, EvCpuStep(c) PROVE NoEventLost'
  <2>1. CASE EvInterrupt(c) BY <2>1, CtxParts DEF EvInterrupt, EvGoes
  <2>2. CASE EvUnmask(c) BY <2>2 DEF EvUnmask
  <2>3. CASE EvTest(c) BY <2>3 DEF EvTest
  <2>4. CASE EvTestAndSet(c) BY <2>4 DEF EvTestAndSet
  <2>5. CASE EvSetUpcall(c) BY <2>5 DEF EvSetUpcall
  <2>6. CASE EvForce(c) BY <2>6, CtxParts DEF EvForce, EvGoes
  <2> QED BY <1>2, <2>1, <2>2, <2>3, <2>4, <2>5, <2>6 DEF EvCpuStep
<1>3. ASSUME NEW x \in EvCtxs, EvCbStep(x) PROVE NoEventLost'
  <2>1. CASE CbStart(x) BY <2>1 DEF CbStart, EvGoes
  <2>2. CASE CbXchg(x) BY <2>2 DEF CbXchg, EvGoes
  <2>3. CASE CbWord(x) BY <2>3 DEF CbWord, EvGoes
  <2>4. CASE CbScan(x) BY <2>4 DEF CbScan, EvGoes
  <2>5. CASE CbClear(x) BY <2>5 DEF CbClear, Cleared, EvGoes
  <2>6. CASE CbCall(x) BY <2>6 DEF CbCall, EvGoes
  <2>7. CASE CbReturn(x) BY <2>7 DEF CbReturn, EvGoes
  <2> QED BY <1>3, <2>1, <2>2, <2>3, <2>4, <2>5, <2>6, <2>7 DEF EvCbStep
<1>4. CASE UNCHANGED evVars BY <1>4
<1> QED BY <1>1, <1>2, <1>3, <1>4 DEF EvNext

(* An event leaves the selector only into the words a callback will scan,  *)
(* and a scanned word only when no port of it is active.                   *)
LEMMA SelectedStep ==
  ASSUME EvTypeOK, EventSelected, [EvNext]_evVars
  PROVE  EventSelected'
<1> USE DEF EvTypeOK, EventSelected, OnItsWay, WillScan, evVars, evShared, evCb, evUnm
<1>1. ASSUME NEW p \in EvPorts, EvPortStep(p) PROVE EventSelected'
  <2>1. CASE EvSend(p) BY <2>1 DEF EvSend
  <2>2. CASE EvSelect(p) BY <2>2, EvAssumption DEF EvSelect
  <2>3. CASE EvMark(p) BY <2>3 DEF EvMark
  <2>4. CASE \E c \in EvCpus : EvBind(c, p) BY <2>4 DEF EvBind, ThrGoes
  <2> QED BY <1>1, <2>1, <2>2, <2>3, <2>4 DEF EvPortStep
<1>2. ASSUME NEW c \in EvCpus, EvCpuStep(c) PROVE EventSelected'
  <2>1. CASE EvInterrupt(c)
    <3>1. evPc[EvIrq(c)] = "off" /\ evPc' = [evPc EXCEPT ![EvIrq(c)] = "start"]
      BY <2>1 DEF EvInterrupt, EvGoes
    <3>2. \A w : WillScan(w) => WillScan(w)'
      BY <2>1, <3>1 DEF EvInterrupt
    <3> QED BY <2>1, <3>2 DEF EvInterrupt
  <2>2. CASE EvUnmask(c) BY <2>2 DEF EvUnmask, ThrGoes
  <2>3. CASE EvTest(c) BY <2>3 DEF EvTest, ThrGoes, Resend
  <2>4. CASE EvTestAndSet(c) BY <2>4 DEF EvTestAndSet, ThrGoes
  <2>5. CASE EvSetUpcall(c) BY <2>5 DEF EvSetUpcall, ThrGoes
  <2>6. CASE EvForce(c)
    <3>1. CASE evUpcall[c] = 1
      <4>1. evPc[EvThread(c)] = "off" /\ evPc' = [evPc EXCEPT ![EvThread(c)] = "start"]
        BY <2>6, <3>1 DEF EvForce, EvGoes
      <4>2. \A w : WillScan(w) => WillScan(w)'
        BY <2>6, <4>1 DEF EvForce
      <4> QED BY <2>6, <3>1, <4>2 DEF EvForce
    <3>2. CASE evUpcall[c] # 1 BY <2>6, <3>2 DEF EvForce, ThrGoes
    <3> QED BY <3>1, <3>2
  <2> QED BY <1>2, <2>1, <2>2, <2>3, <2>4, <2>5, <2>6 DEF EvCpuStep
<1>3. ASSUME NEW x \in EvCtxs, EvCbStep(x) PROVE EventSelected'
  <2>1. CASE CbStart(x) BY <2>1 DEF CbStart, EvGoes
  <2>2. CASE CbXchg(x)
    <3> SUFFICES ASSUME NEW q \in evPending \ evMasked, OnItsWay(q)
                 PROVE  OnItsWay(q)'
      BY <2>2 DEF CbXchg
    <3> DEFINE w == EvWordOf(q)
    <3>1. CASE \E c \in EvCpus : w \in evSel[c]
      <4> PICK c \in EvCpus : w \in evSel[c]
        BY <3>1
      <4>1. CASE c = x[1]
        <5>1. w \in evL1'[x] /\ evPc'[x] = "word"
          BY <2>2, <4>1 DEF CbXchg, EvGoes
        <5> QED BY <5>1
      <4>2. CASE c # x[1]
        <5>1. w \in evSel'[c]
          BY <2>2, <4>2, CtxParts DEF CbXchg
        <5> QED BY <5>1
      <4> QED BY <4>1, <4>2
    <3>2. CASE WillScan(w)
      BY <2>2, <3>2 DEF CbXchg, EvGoes
    <3>3. CASE evHv[q] = "check" \/ \E c \in EvCpus : evThr[c] \in {"test", "select"} /\ evArg[c] = q
      BY <2>2, <3>3 DEF CbXchg
    <3> QED BY <3>1, <3>2, <3>3
  <2>3. CASE CbWord(x)
    <3> SUFFICES ASSUME NEW q \in evPending \ evMasked, OnItsWay(q)
                 PROVE  OnItsWay(q)'
      BY <2>3 DEF CbWord
    <3> DEFINE w == EvWordOf(q)
    <3>1. CASE WillScan(w)
      <4> PICK y \in EvCtxs :
            \/ evPc[y] \in {"word", "scan", "clear", "lock", "call"} /\ w \in evL1[y]
            \/ evPc[y] \in {"scan", "clear", "lock", "call"} /\ evWord[y] = w
        BY <3>1
      <4>1. CASE y = x
        <5>1. evPc'[x] = "scan" /\ (w \in evL1'[x] \/ evWord'[x] = w)
          BY <2>3, <4>1 DEF CbWord, EvGoes
        <5> QED BY <5>1
      <4>2. CASE y # x
        BY <2>3, <4>2 DEF CbWord, EvGoes
      <4> QED BY <4>1, <4>2
    <3>2. CASE \E c \in EvCpus : w \in evSel[c]
      BY <2>3, <3>2 DEF CbWord
    <3>3. CASE evHv[q] = "check" \/ \E c \in EvCpus : evThr[c] \in {"test", "select"} /\ evArg[c] = q
      BY <2>3, <3>3 DEF CbWord
    <3> QED BY <3>1, <3>2, <3>3
  <2>4. CASE CbScan(x) BY <2>4 DEF CbScan, EvGoes, EvActive
  <2>5. CASE CbClear(x) BY <2>5 DEF CbClear, Cleared, EvGoes
  <2>6. CASE CbCall(x) BY <2>6 DEF CbCall, EvGoes
  <2>7. CASE CbReturn(x) BY <2>7 DEF CbReturn, EvGoes
  <2> QED BY <1>3, <2>1, <2>2, <2>3, <2>4, <2>5, <2>6, <2>7 DEF EvCbStep
<1>4. CASE UNCHANGED evVars BY <1>4
<1> QED BY <1>1, <1>2, <1>3, <1>4 DEF EvNext

(* A selector is filled by who goes on to set the upcall flag, and the     *)
(* flag is cleared before the selector is read.                            *)
LEMMA RunsStep ==
  ASSUME EvTypeOK, SelectedRuns, [EvNext]_evVars
  PROVE  SelectedRuns'
<1> USE CtxParts DEF EvTypeOK, SelectedRuns, CallbackRuns, evVars, evShared, evCb, evUnm
<1>1. ASSUME NEW p \in EvPorts, EvPortStep(p) PROVE SelectedRuns'
  <2>1. CASE EvSend(p) BY <2>1 DEF EvSend
  <2>2. CASE EvSelect(p) BY <2>2, EvAssumption DEF EvSelect
  <2>3. CASE EvMark(p) BY <2>3, EvAssumption DEF EvMark
  <2>4. CASE \E c \in EvCpus : EvBind(c, p) BY <2>4 DEF EvBind, ThrGoes
  <2> QED BY <1>1, <2>1, <2>2, <2>3, <2>4 DEF EvPortStep
<1>2. ASSUME NEW c \in EvCpus, EvCpuStep(c) PROVE SelectedRuns'
  <2>1. CASE EvInterrupt(c) BY <2>1 DEF EvInterrupt, EvGoes
  <2>2. CASE EvUnmask(c) BY <2>2 DEF EvUnmask, ThrGoes
  <2>3. CASE EvTest(c) BY <2>3 DEF EvTest, ThrGoes
  <2>4. CASE EvTestAndSet(c) BY <2>4 DEF EvTestAndSet, ThrGoes
  <2>5. CASE EvSetUpcall(c) BY <2>5 DEF EvSetUpcall, ThrGoes, UpcallSet
  <2>6. CASE EvForce(c)
    <3>1. CASE evUpcall[c] = 1
      <4> SUFFICES ASSUME NEW d \in EvCpus, CallbackRuns(d)
                   PROVE  CallbackRuns(d)'
        BY <2>6 DEF EvForce
      <4>1. CASE d = c BY <2>6, <3>1, <4>1 DEF EvForce
      <4>2. CASE d # c
        <5>1. EvIrq(d) # EvThread(c) /\ EvThread(d) # EvThread(c)
          BY <4>2 DEF EvIrq, EvThread
        <5> QED BY <2>6, <3>1, <5>1 DEF EvForce, EvGoes
      <4> QED BY <4>1, <4>2
    <3>2. CASE evUpcall[c] # 1 BY <2>6, <3>2 DEF EvForce, ThrGoes
    <3> QED BY <3>1, <3>2
  <2> QED BY <1>2, <2>1, <2>2, <2>3, <2>4, <2>5, <2>6 DEF EvCpuStep
<1>3. ASSUME NEW x \in EvCtxs, EvCbStep(x) PROVE SelectedRuns'
  <2>1. CASE CbStart(x) BY <2>1 DEF CbStart, EvGoes
  <2>2. CASE CbXchg(x) BY <2>2 DEF CbXchg, EvGoes
  <2>3. CASE CbWord(x)
    <3>1. \A y \in EvCtxs : evPc[y] \in {"start", "xchg"} => evPc'[y] = evPc[y]
      BY <2>3 DEF CbWord, EvGoes
    <3> QED BY <2>3, <3>1 DEF CbWord
  <2>4. CASE CbScan(x)
    <3>1. \A y \in EvCtxs : evPc[y] \in {"start", "xchg"} => evPc'[y] = evPc[y]
      BY <2>4 DEF CbScan, EvGoes
    <3> QED BY <2>4, <3>1 DEF CbScan
  <2>5. CASE CbClear(x) BY <2>5 DEF CbClear, Cleared, EvGoes
  <2>6. CASE CbCall(x) BY <2>6 DEF CbCall, EvGoes
  <2>7. CASE CbReturn(x) BY <2>7 DEF CbReturn, EvGoes
  <2> QED BY <1>3, <2>1, <2>2, <2>3, <2>4, <2>5, <2>6, <2>7 DEF EvCbStep
<1>4. CASE UNCHANGED evVars BY <1>4
<1> QED BY <1>1, <1>2, <1>3, <1>4 DEF EvNext

(* No event is lost between the hypervisor and the handler, whatever the   *)
(* numbers of CPUs and ports (do_event, _minios_do_hypervisor_callback).   *)
THEOREM EventsKept == EvSpec => []NoEventLost
<1>1. EvInit => EvOwedInv
  BY EvInitType DEF EvInit, EvOwedInv, NoEventLost
<1>2. EvOwedInv /\ [EvNext]_evVars => EvOwedInv'
  BY EvTypeStep, OwedStep DEF EvOwedInv
<1>3. EvOwedInv => NoEventLost
  BY DEF EvOwedInv
<1> QED
  BY <1>1, <1>2, <1>3, PTL DEF EvSpec

(* An event on an unmasked port is selected on a CPU that runs the         *)
(* callback, or is about to be (minios_unmask_evtchn).                     *)
THEOREM EventsDelivered == EvSpec => []EventDelivered
<1>1. EvInit => EvSelection
  BY EvInitType DEF EvInit, EvSelection, EventSelected, SelectedRuns
<1>2. EvSelection /\ [EvNext]_evVars => EvSelection'
  BY EvTypeStep, SelectedStep, RunsStep DEF EvSelection
<1>3. EvSelection => EventDelivered
  BY DEF EvSelection, EventDelivered
<1> QED
  BY <1>1, <1>2, <1>3, PTL DEF EvSpec

(* Event delivery is sound for any number of ports and CPUs.               *)
THEOREM EventsAreSound == EvSpec => []EventsSound
<1>1. EventDelivered /\ NoEventLost => EventsSound
  BY DEF EventsSound
<1> QED
  BY <1>1, EventsKept, EventsDelivered, PTL

-----------------------------------------------------------------------------
(* The front ends of the Xen platform give up their shared pages only when *)
(* the backend no longer has them mapped, for any number of failures of    *)
(* xenstore and of connections.                                            *)

FlTyped ==
  /\ fkind \in {"blk", "net", "pci", "cons"}
  /\ fback \in Initialising..Reconfigured /\ fstate \in 0..Reconfigured
  /\ fnode \in Initialising..Reconfigured /\ ferrors \in Nat
  /\ ferr => ferrors > 0

(* What is held where; the pages are mapped only while the backend is      *)
(* connected, closing or reconfiguring.                                    *)
FlHeld ==
  /\ fheld <=> fpc # "off"
  /\ fpc \in {"wait", "on"} => fwatch
  /\ fpc \in {"off", "txn", "backend", "free"} => ~fwatch
  /\ fpc = "on" => ~fmask
  /\ fkind = "cons" => fpc \notin {"closed", "close3", "reinit", "free"}
  /\ fmapped => fback \in {XbConnected, Closing, Reconfiguring, Reconfigured}

(* How far the two ends are from each other, as long as xenstore has not   *)
(* failed.  A front end that is off was never connected or has seen the    *)
(* backend ready again; otherwise the backend is closing by itself.  From  *)
(* where the backend was seen closed on, it has the pages no more, or it   *)
(* reconfigures and the front end does not get any further.                *)
Ready == fnode \in {Initialised, XbConnected} /\ (fkind = "pci" => fnode = Initialised)
FlApart ==
  /\ fpc \in {"off", "txn"} =>
       IF fkind = "cons" THEN fnode = Closed \/ (fnode = Initialising /\ ~fmapped) \/ fpc = "txn"
       ELSE (fback = InitWait /\ ~fmapped /\ fnode = Initialising) \/ (fback = Closing /\ Ready)
  /\ fpc \in {"backend", "wait"} /\ fkind # "cons" => Ready /\ fback \in {InitWait, XbConnected, Closing}
  /\ fpc = "wait" /\ fkind # "cons" => (fstate > XbConnected => fback = Closing)
  /\ fpc = "free" => fback = Closing /\ Ready
  /\ fpc \in {"closed", "close3"} => fnode = Closed /\ (fstate >= Closed => fback >= Closed)
  /\ fpc = "close3" => fstate >= Closed
  /\ fpc = "reinit" => /\ fnode = Initialising /\ (fback = InitWait \/ fback >= Closed)
                       /\ (fmapped => fstate = fback) /\ (fstate < Closed => fback = InitWait)
  /\ fpc = "close" =>
       IF fkind = "cons" THEN fnode = Closed ELSE fnode = Initialising /\ fback = InitWait /\ ~fmapped

FlInv == FlTyped /\ FlHeld /\ (ferrors = 0 => FlApart)

-----------------------------------------------------------------------------
USE DEF Initialising, InitWait, Initialised, XbConnected, Closing, Closed, Reconfiguring, Reconfigured

(* The invariant holds before the first initialisation.                    *)
LEMMA FlInitial == FlInit => FlInv
<1> SUFFICES ASSUME FlInit PROVE FlInv OBVIOUS
<1> USE FlAssumption DEF FlInit, FlAssumption
<1>1. fkind \in {"blk", "net", "pci", "cons"} OBVIOUS
<1>2. fback \in Initialising..Reconfigured /\ fstate \in 0..Reconfigured
  /\ fnode \in Initialising..Reconfigured /\ ferrors \in Nat OBVIOUS
<1>4. ferr => ferrors > 0 OBVIOUS
<1>5. FlHeld BY DEF FlHeld
<1>6. FlApart BY DEF FlApart, Ready
<1> QED BY <1>1, <1>2, <1>4, <1>5, <1>6 DEF FlInv, FlTyped

(* A step is one of these.                                                 *)
FlStep ==
  \/ InitBegin
  \/ InitNoBackend
  \/ InitTransaction
  \/ InitBackend
  \/ InitWaitBackend
  \/ InitWaited
  \/ (fkind = "pci" /\ PciSwitchFails)
  \/ (fkind # "cons" /\ FlFree)
  \/ PciFollow
  \/ PciLost
  \/ UserCloses
  \/ TellClosing
  \/ AwaitClosing
  \/ TellClosed
  \/ AwaitClosed
  \/ TellInitialising
  \/ AwaitInitWait
  \/ ShutdownEnd
  \/ FlBackend
  \/ FlBackendActs
LEMMA FlSteps == FlNext => FlStep
<1>1. InitSteps => FlStep BY Zenon DEF InitSteps, FlStep
<1>2. ShutdownSteps => FlStep BY Zenon DEF ShutdownSteps, FlStep
<1>3. FlDriver => FlStep
  BY <1>1, <1>2 DEF FlDriver, FlStep, blkfront_init, free_blkfront, blkfront_shutdown, netfront_init,
     free_netfront, netfront_shutdown, init_pcifront, free_pcifront, shutdown_pcifront, pcifront_watches,
     init_consfront, free_consfront, fini_console
<1> QED BY <1>3, Zenon DEF FlNext, FlStep

(* Every step keeps the invariant.                                         *)
LEMMA FlKept == FlInv /\ [FlNext]_flVars => FlInv'
<1> SUFFICES ASSUME FlInv, [FlNext]_flVars PROVE FlInv'
  OBVIOUS
<1> USE DEF FlInv, FlGoes, flMine
<1>1. CASE InitBegin
  <2> USE <1>1 DEF InitBegin
  <2>1. FlTyped' BY DEF FlTyped
  <2>2. FlHeld' BY DEF FlHeld, FlTyped
  <2>3. ferrors' = 0 => FlApart' BY DEF FlApart, Ready, FlTyped, FlHeld
  <2> QED BY <2>1, <2>2, <2>3
<1>2. CASE InitNoBackend
  <2> USE <1>2 DEF InitNoBackend, XsFails
  <2>1. FlTyped' BY DEF FlTyped
  <2>2. FlHeld' BY DEF FlHeld, FlTyped
  <2>3. ferrors' = 0 => FlApart' BY DEF FlApart, Ready, FlTyped, FlHeld
  <2> QED BY <2>1, <2>2, <2>3
<1>3. CASE InitTransaction
  <2> USE <1>3 DEF InitTransaction, XsFails, XsWorks, FlRest, FirstState, FlGiveUp
  <2>1. FlTyped' BY DEF FlTyped
  <2>2. FlHeld' BY DEF FlHeld, FlTyped
  <2>3. ferrors' = 0 => FlApart' BY DEF FlApart, Ready, FlTyped, FlHeld
  <2> QED BY <2>1, <2>2, <2>3
<1>4. CASE InitBackend
  <2> USE <1>4 DEF InitBackend, XsFails, XsWorks, FlRest, FlGiveUp
  <2>1. FlTyped' BY DEF FlTyped
  <2>2. FlHeld' BY DEF FlHeld, FlTyped
  <2>3. ferrors' = 0 => FlApart' BY DEF FlApart, Ready, FlTyped, FlHeld
  <2> QED BY <2>1, <2>2, <2>3
<1>5. CASE InitWaitBackend
  <2> USE <1>5 DEF InitWaitBackend, WaitChange, XsFails, FlRest
  <2>1. FlTyped' BY DEF FlTyped
  <2>2. FlHeld' BY DEF FlHeld, FlTyped
  <2>3. ferrors' = 0 => FlApart' BY DEF FlApart, Ready, FlTyped, FlHeld
  <2> QED BY <2>1, <2>2, <2>3
<1>6. CASE InitWaited
  <2> USE <1>6 DEF InitWaited, FlRest, GiveUpLate
  <2>1. FlTyped' BY DEF FlTyped
  <2>2. FlHeld' BY DEF FlHeld, FlTyped
  <2>3. ASSUME ferrors' = 0 PROVE FlApart'
    <3>1. ferrors = 0 /\ ~ferr /\ fstate >= XbConnected BY <2>3 DEF FlTyped
    <3>2. CASE fstate = XbConnected
      BY <3>1, <3>2 DEF FlApart
    <3>3. CASE fstate # XbConnected
      <4>1. fstate > XbConnected BY <3>1, <3>3 DEF FlTyped
      <4>2. CASE fkind = "cons"
        BY <3>3, <4>2 DEF FlApart
      <4>3. CASE fkind # "cons"
        <5>1. fback = Closing /\ Ready BY <3>1, <4>1, <4>3 DEF FlApart
        <5>2. fpc' = "free" /\ UNCHANGED <<fback, fnode, fkind>> BY <3>3, <4>3
        <5> QED BY <5>1, <5>2 DEF FlApart, Ready
      <4> QED BY <4>2, <4>3
    <3> QED BY <3>2, <3>3
  <2> QED BY <2>1, <2>2, <2>3
<1>7. CASE fkind = "pci" /\ PciSwitchFails
  <2> USE <1>7 DEF PciSwitchFails, XsFails, FlRest
  <2>1. FlTyped' BY DEF FlTyped
  <2>2. FlHeld' BY DEF FlHeld, FlTyped
  <2>3. ferrors' = 0 => FlApart' BY DEF FlApart, Ready, FlTyped, FlHeld
  <2> QED BY <2>1, <2>2, <2>3
<1>8. CASE fkind # "cons" /\ FlFree
  <2> USE <1>8 DEF FlFree, FlRest
  <2>1. FlTyped' BY DEF FlTyped
  <2>2. FlHeld' BY DEF FlHeld, FlTyped
  <2>3. ferrors' = 0 => FlApart' BY DEF FlApart, Ready, FlTyped, FlHeld
  <2> QED BY <2>1, <2>2, <2>3
<1>9. CASE PciFollow
  <2> USE <1>9 DEF PciFollow, FlRest
  <2>1. FlTyped' BY DEF FlTyped
  <2>2. FlHeld' BY DEF FlHeld, FlTyped
  <2>3. ferrors' = 0 => FlApart' BY DEF FlApart, Ready, FlTyped, FlHeld
  <2> QED BY <2>1, <2>2, <2>3
<1>10. CASE PciLost
  <2> USE <1>10 DEF PciLost, XsFails, FlRest
  <2>1. FlTyped' BY DEF FlTyped
  <2>2. FlHeld' BY DEF FlHeld, FlTyped
  <2>3. ferrors' = 0 => FlApart' BY DEF FlApart, Ready, FlTyped, FlHeld
  <2> QED BY <2>1, <2>2, <2>3
<1>11. CASE UserCloses
  <2> USE <1>11 DEF UserCloses, FlRest
  <2>1. FlTyped' BY DEF FlTyped
  <2>2. FlHeld' BY DEF FlHeld, FlTyped
  <2>3. ferrors' = 0 => FlApart' BY DEF FlApart, Ready, FlTyped, FlHeld
  <2> QED BY <2>1, <2>2, <2>3
<1>12. CASE TellClosing
  <2> USE <1>12 DEF TellClosing, Tell, XsFails, XsWorks, FlRest
  <2>1. FlTyped' BY DEF FlTyped
  <2>2. FlHeld' BY DEF FlHeld, FlTyped
  <2>3. ferrors' = 0 => FlApart' BY DEF FlApart, Ready, FlTyped, FlHeld
  <2> QED BY <2>1, <2>2, <2>3
<1>13. CASE AwaitClosing
  <2> USE <1>13 DEF AwaitClosing, Await, WaitChange, XsFails, FlRest
  <2>1. FlTyped' BY DEF FlTyped
  <2>2. FlHeld' BY DEF FlHeld, FlTyped
  <2>3. ferrors' = 0 => FlApart' BY DEF FlApart, Ready, FlTyped, FlHeld
  <2> QED BY <2>1, <2>2, <2>3
<1>14. CASE TellClosed
  <2> USE <1>14 DEF TellClosed, Tell, XsFails, XsWorks, FlRest
  <2>1. FlTyped' BY DEF FlTyped
  <2>2. FlHeld' BY DEF FlHeld, FlTyped
  <2>3. ferrors' = 0 => FlApart' BY DEF FlApart, Ready, FlTyped, FlHeld
  <2> QED BY <2>1, <2>2, <2>3
<1>15. CASE AwaitClosed
  <2> USE <1>15 DEF AwaitClosed, Await, WaitChange, XsFails, FlRest
  <2>1. FlTyped' BY DEF FlTyped
  <2>2. FlHeld' BY DEF FlHeld, FlTyped
  <2>3. ferrors' = 0 => FlApart' BY DEF FlApart, Ready, FlTyped, FlHeld
  <2> QED BY <2>1, <2>2, <2>3
<1>16. CASE TellInitialising
  <2> USE <1>16 DEF TellInitialising, Tell, XsFails, XsWorks, FlRest
  <2>1. FlTyped' BY DEF FlTyped
  <2>2. FlHeld' BY DEF FlHeld, FlTyped
  <2>3. ferrors' = 0 => FlApart' BY DEF FlApart, Ready, FlTyped, FlHeld
  <2> QED BY <2>1, <2>2, <2>3
<1>17. CASE AwaitInitWait
  <2> USE <1>17 DEF AwaitInitWait, Await, WaitChange, XsFails, FlRest
  <2>1. FlTyped' BY DEF FlTyped
  <2>2. FlHeld' BY DEF FlHeld, FlTyped
  <2>3. ferrors' = 0 => FlApart' BY DEF FlApart, Ready, FlTyped, FlHeld
  <2> QED BY <2>1, <2>2, <2>3
<1>18. CASE ShutdownEnd
  <2> USE <1>18 DEF ShutdownEnd, FlRest
  <2>1. FlTyped' BY DEF FlTyped
  <2>2. FlHeld' BY DEF FlHeld, FlTyped
  <2>3. ferrors' = 0 => FlApart' BY DEF FlApart, Ready, FlTyped, FlHeld
  <2> QED BY <2>1, <2>2, <2>3
<1>19. CASE FlBackend
  <2> USE <1>19 DEF FlBackend
  <2>1. FlTyped' BY DEF FlTyped
  <2>2. FlHeld' BY DEF FlHeld, FlTyped
  <2>3. ferrors' = 0 => FlApart' BY DEF FlApart, Ready, FlTyped, FlHeld
  <2> QED BY <2>1, <2>2, <2>3
<1>20. CASE FlBackendActs
  <2> USE <1>20 DEF FlBackendActs
  <2>1. FlTyped' BY DEF FlTyped
  <2>2. FlHeld' BY DEF FlHeld, FlTyped
  <2>3. ferrors' = 0 => FlApart' BY DEF FlApart, Ready, FlTyped, FlHeld
  <2> QED BY <2>1, <2>2, <2>3
<1>21. CASE UNCHANGED flVars
  <2> USE <1>21 DEF flVars
  <2>1. FlTyped' BY DEF FlTyped
  <2>2. FlHeld' BY DEF FlHeld, FlTyped
  <2>3. ferrors' = 0 => FlApart' BY DEF FlApart, Ready, FlTyped, FlHeld
  <2> QED BY <2>1, <2>2, <2>3
<1> QED BY FlSteps, <1>1, <1>2, <1>3, <1>4, <1>5, <1>6, <1>7, <1>8, <1>9, <1>10, <1>11, <1>12, <1>13, <1>14, <1>15, <1>16, <1>17, <1>18, <1>19, <1>20, <1>21 DEF FlStep

(* The pages are given up only when the backend no longer has them mapped  *)
(* (blkfront_shutdown, netfront_shutdown, shutdown_pcifront,               *)
(* free_consfront), whatever the number of failures and of connections.    *)
THEOREM PagesAreInUse == FlSpec => []PagesInUse
<1>1. FlInv => PagesInUse
  BY DEF FlInv, FlTyped, FlHeld, FlApart, Ready, PagesInUse
<1>2. FlSpec => []FlInv
  BY FlInitial, FlKept, PTL DEF FlSpec
<1> QED BY <1>1, <1>2, PTL
================================================================================
