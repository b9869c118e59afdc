----------------------------- MODULE EventChannel -----------------------------
(***************************************************************************)
(* Delivery of event channels in a domain: platform/hw/xen/hypervisor.c    *)
(* and events.c.  The hypervisor sets bits in memory it shares with the    *)
(* domain and interrupts a CPU; the callback looks for the ports whose     *)
(* bits are set and calls their handlers; a thread that unmasks a port     *)
(* runs the callback itself when an event was waiting.  One action is one  *)
(* access to shared memory.                                                *)
(*                                                                         *)
(* A CPU runs the callback in two contexts: in the interrupt, and in the   *)
(* thread that unmasks.  The thread stands still during the interrupt.     *)
(***************************************************************************)
EXTENDS Integers, FiniteSets

CONSTANTS
  EvCpus,     \* CPUs
  EvHome,     \* the CPU the hypervisor notifies
  EvLast,     \* ports are 0..EvLast
  EvWordSize  \* ports per word of the bitmaps

ASSUME EvAssumption ==
  EvHome \in EvCpus /\ EvLast \in Nat /\ EvWordSize \in Nat \ {0}

VARIABLES
  evPending,  \* evtchn_pending: set of ports
  evMasked,   \* evtchn_mask: set of ports
  evSel,      \* per CPU, evtchn_pending_sel: set of words
  evUpcall,   \* per CPU: evtchn_upcall_pending
  evBound,    \* ports that have a handler (bound_ports)
  evHv,       \* per port: where the hypervisor is in sending an event
  evPc,       \* per context: where the callback is
  evL1,       \* per context: words to look at (l1)
  evWord,     \* per context: the word it looks at (l1i)
  evPort,     \* per context: the port of the event it delivers
  evThr,      \* per CPU: where the thread is that unmasks
  evArg,      \* per CPU: the port it unmasks
  evOwed      \* ports with events that no begin of a handler call has followed

evShared == <<evPending, evMasked, evSel, evUpcall, evBound>>
evCb == <<evPc, evL1, evWord, evPort>>
evUnm == <<evThr, evArg>>
evVars == <<evShared, evHv, evCb, evUnm, evOwed>>

EvPorts == 0..EvLast
EvWordOf(p) == p \div EvWordSize
EvWords == {EvWordOf(p) : p \in EvPorts}
EvCtxs == EvCpus \X {"irq", "thread"}
EvIrq(c) == <<c, "irq">>
EvThread(c) == <<c, "thread">>

(* init_events: everything masked and without handler.                     *)
EvInit ==
  /\ evPending = {} /\ evMasked = EvPorts /\ evBound = {} /\ evOwed = {}
  /\ evSel = [c \in EvCpus |-> {}] /\ evUpcall = [c \in EvCpus |-> 0]
  /\ evHv = [p \in EvPorts |-> "idle"]
  /\ evPc = [x \in EvCtxs |-> "off"] /\ evL1 = [x \in EvCtxs |-> {}]
  /\ evWord = [x \in EvCtxs |-> 0] /\ evPort = [x \in EvCtxs |-> 0]
  /\ evThr = [c \in EvCpus |-> "idle"] /\ evArg = [c \in EvCpus |-> 0]

-----------------------------------------------------------------------------
(* The hypervisor sends an event to a port: the pending bit, then the      *)
(* selector unless the port is masked, then the upcall flag.               *)
EvSend(p) ==
  /\ p \in evBound /\ evHv[p] = "idle"
  /\ evPending' = evPending \cup {p}
  /\ evHv' = [evHv EXCEPT ![p] = IF p \in evPending THEN "idle" ELSE "check"]
  /\ evOwed' = evOwed \cup {p}
  /\ UNCHANGED <<evMasked, evSel, evUpcall, evBound, evCb, evUnm>>

EvSelect(p) ==
  /\ evHv[p] = "check"
  /\ IF p \in evMasked \/ EvWordOf(p) \in evSel[EvHome]
       THEN evHv' = [evHv EXCEPT ![p] = "idle"] /\ UNCHANGED evSel
       ELSE /\ evHv' = [evHv EXCEPT ![p] = "mark"]
            /\ evSel' = [evSel EXCEPT ![EvHome] = @ \cup {EvWordOf(p)}]
  /\ UNCHANGED <<evPending, evMasked, evUpcall, evBound, evCb, evUnm, evOwed>>

EvMark(p) ==
  /\ evHv[p] = "mark"
  /\ evHv' = [evHv EXCEPT ![p] = "idle"]
  /\ evUpcall' = [evUpcall EXCEPT ![EvHome] = 1]
  /\ UNCHANGED <<evPending, evMasked, evSel, evBound, evCb, evUnm, evOwed>>

-----------------------------------------------------------------------------
(* _minios_do_hypervisor_callback.                                         *)
EvGoes(x, l) == evPc' = [evPc EXCEPT ![x] = l]

(* The thread's context stands still while the interrupt's runs.           *)
EvRuns(x) == x[2] = "irq" \/ evPc[EvIrq(x[1])] = "off"

EvInterrupt(c) ==
  /\ evUpcall[c] = 1 /\ evPc[EvIrq(c)] = "off"
  /\ EvGoes(EvIrq(c), "start")
  /\ UNCHANGED <<evShared, evHv, evL1, evWord, evPort, evUnm, evOwed>>

CbStart(x) ==
  /\ evPc[x] = "start" /\ EvRuns(x)
  /\ evUpcall' = [evUpcall EXCEPT ![x[1]] = 0]
  /\ EvGoes(x, "xchg")
  /\ UNCHANGED <<evPending, evMasked, evSel, evBound, evHv, evL1, evWord, evPort, evUnm, evOwed>>

(* The selector is read and cleared by one instruction.                    *)
CbXchg(x) ==
  /\ evPc[x] = "xchg" /\ EvRuns(x)
  /\ evL1' = [evL1 EXCEPT ![x] = evSel[x[1]]]
  /\ evSel' = [evSel EXCEPT ![x[1]] = {}]
  /\ EvGoes(x, "word")
  /\ UNCHANGED <<evPending, evMasked, evUpcall, evBound, evHv, evWord, evPort, evUnm, evOwed>>

CbWord(x) ==
  /\ evPc[x] = "word" /\ EvRuns(x)
  /\ IF evL1[x] = {}
       THEN /\ EvGoes(x, "off") /\ UNCHANGED evL1
            /\ evWord' = [evWord EXCEPT ![x] = 0]
       ELSE \E w \in evL1[x] :
              /\ \A v \in evL1[x] : w <= v
              /\ evL1' = [evL1 EXCEPT ![x] = @ \ {w}]
              /\ evWord' = [evWord EXCEPT ![x] = w]
              /\ EvGoes(x, "scan")
  /\ UNCHANGED <<evShared, evHv, evPort, evUnm, evOwed>>

EvActive(w) == {p \in evPending \ evMasked : EvWordOf(p) = w}

CbScan(x) ==
  /\ evPc[x] = "scan" /\ EvRuns(x)
  /\ IF EvActive(evWord[x]) = {}
       THEN EvGoes(x, "word") /\ UNCHANGED evPort
       ELSE \E p \in EvActive(evWord[x]) :
              /\ \A q \in EvActive(evWord[x]) : p <= q
              /\ evPort' = [evPort EXCEPT ![x] = p]
              /\ EvGoes(x, "clear")
  /\ UNCHANGED <<evShared, evHv, evL1, evWord, evUnm, evOwed>>

(* do_event: the pending bit is cleared, then the handler is called.       *)
(* Mutant: the whole word is cleared.                                      *)
WordCleared(p) == {q \in evPending : EvWordOf(q) # EvWordOf(p)}
Cleared(p) == evPending \ {p}

CbClear(x) ==
  /\ evPc[x] = "clear" /\ EvRuns(x)
  /\ evPending' = Cleared(evPort[x])
  /\ EvGoes(x, "lock")
  /\ UNCHANGED <<evMasked, evSel, evUpcall, evBound, evHv, evL1, evWord, evPort, evUnm, evOwed>>

(* The handler is called with the lock of the port, which is held exactly  *)
(* while some callback is at "call".                                       *)
PortUnlocked(p) == \A y \in EvCtxs : ~(evPc[y] = "call" /\ evPort[y] = p)

CbCall(x) ==
  /\ evPc[x] = "lock" /\ EvRuns(x) /\ PortUnlocked(evPort[x])
  /\ evOwed' = evOwed \ {evPort[x]}
  /\ EvGoes(x, "call")
  /\ UNCHANGED <<evShared, evHv, evL1, evWord, evPort, evUnm>>

CbReturn(x) ==
  /\ evPc[x] = "call" /\ EvRuns(x)
  /\ evPort' = [evPort EXCEPT ![x] = 0]
  /\ EvGoes(x, "scan")
  /\ UNCHANGED <<evShared, evHv, evL1, evWord, evUnm, evOwed>>

-----------------------------------------------------------------------------
(* A thread binds a port (minios_evtchn_alloc_unbound and                  *)
(* minios_evtchn_bind_interdomain with minios_bind_evtchn) and unmasks it  *)
(* (minios_unmask_evtchn, minios_force_evtchn_callback).                   *)
ThrGoes(c, l) == evThr' = [evThr EXCEPT ![c] = l]
ThrRuns(c) == evPc[EvIrq(c)] = "off"

EvBind(c, p) ==
  /\ evThr[c] = "idle" /\ ThrRuns(c) /\ p \notin evBound
  /\ evBound' = evBound \cup {p}
  /\ evArg' = [evArg EXCEPT ![c] = p]
  /\ ThrGoes(c, "unmask")
  /\ UNCHANGED <<evPending, evMasked, evSel, evUpcall, evHv, evCb, evOwed>>

EvUnmask(c) ==
  /\ evThr[c] = "unmask" /\ ThrRuns(c)
  /\ evMasked' = evMasked \ {evArg[c]}
  /\ ThrGoes(c, "test")
  /\ UNCHANGED <<evPending, evSel, evUpcall, evBound, evHv, evCb, evArg, evOwed>>

(* The pending bit is tested after the mask is cleared.                    *)
Resend(c) == IF evArg[c] \in evPending THEN "select" ELSE "idle"

EvTest(c) ==
  /\ evThr[c] = "test" /\ ThrRuns(c)
  /\ ThrGoes(c, Resend(c))
  /\ UNCHANGED <<evShared, evHv, evCb, evArg, evOwed>>

EvTestAndSet(c) ==
  /\ evThr[c] = "select" /\ ThrRuns(c)
  /\ ThrGoes(c, IF EvWordOf(evArg[c]) \in evSel[c] THEN "idle" ELSE "mark")
  /\ evSel' = [evSel EXCEPT ![c] = @ \cup {EvWordOf(evArg[c])}]
  /\ UNCHANGED <<evPending, evMasked, evUpcall, evBound, evHv, evCb, evArg, evOwed>>

UpcallSet(c) == [evUpcall EXCEPT ![c] = 1]

EvSetUpcall(c) ==
  /\ evThr[c] = "mark" /\ ThrRuns(c)
  /\ evUpcall' = UpcallSet(c)
  /\ ThrGoes(c, "force")
  /\ UNCHANGED <<evPending, evMasked, evSel, evBound, evHv, evCb, evArg, evOwed>>

EvForce(c) ==
  /\ evThr[c] = "force" /\ ThrRuns(c) /\ evPc[EvThread(c)] = "off"
  /\ IF evUpcall[c] = 1
       THEN EvGoes(EvThread(c), "start") /\ UNCHANGED evThr
       ELSE ThrGoes(c, "idle") /\ UNCHANGED evPc
  /\ UNCHANGED <<evShared, evHv, evL1, evWord, evPort, evArg, evOwed>>

-----------------------------------------------------------------------------
EvPortStep(p) == EvSend(p) \/ EvSelect(p) \/ EvMark(p) \/ \E c \in EvCpus : EvBind(c, p)
EvCpuStep(c) ==
  \/ EvInterrupt(c) \/ EvUnmask(c) \/ EvTest(c) \/ EvTestAndSet(c)
  \/ EvSetUpcall(c) \/ EvForce(c)
EvCbStep(x) ==
  CbStart(x) \/ CbXchg(x) \/ CbWord(x) \/ CbScan(x) \/ CbClear(x) \/ CbCall(x) \/ CbReturn(x)

EvNext ==
  \/ \E p \in EvPorts : EvPortStep(p)
  \/ \E c \in EvCpus : EvCpuStep(c)
  \/ \E x \in EvCtxs : EvCbStep(x)

EvSpec == EvInit /\ [][EvNext]_evVars

-----------------------------------------------------------------------------
(* Properties.                                                             *)

(* Type invariant.                                                         *)
EvTypeOK ==
  /\ evPending \subseteq EvPorts /\ evMasked \subseteq EvPorts
  /\ evBound \subseteq EvPorts /\ evOwed \subseteq EvPorts
  /\ evSel \in [EvCpus -> SUBSET EvWords] /\ evUpcall \in [EvCpus -> 0..1]
  /\ evHv \in [EvPorts -> {"idle", "check", "mark"}]
  /\ evPc \in [EvCtxs -> {"off", "start", "xchg", "word", "scan", "clear", "lock", "call"}]
  /\ evL1 \in [EvCtxs -> SUBSET EvWords] /\ evWord \in [EvCtxs -> EvWords]
  /\ evPort \in [EvCtxs -> EvPorts]
  /\ evThr \in [EvCpus -> {"idle", "unmask", "test", "select", "mark", "force"}]
  /\ evArg \in [EvCpus -> EvPorts]

(* A callback is going to look at word w.                                  *)
WillScan(w) ==
  \E x \in EvCtxs : \/ evPc[x] \in {"word", "scan", "clear", "lock", "call"} /\ w \in evL1[x]
                    \/ evPc[x] \in {"scan", "clear", "lock", "call"} /\ evWord[x] = w

OnItsWay(p) ==
  \/ \E c \in EvCpus : EvWordOf(p) \in evSel[c]
  \/ WillScan(EvWordOf(p))
  \/ evHv[p] = "check"
  \/ \E c \in EvCpus : evThr[c] \in {"test", "select"} /\ evArg[c] = p

(* An event on an unmasked port is on its way: its word is selected on     *)
(* some CPU, or a callback will look at it, or the hypervisor or the       *)
(* thread that has just unmasked the port is about to select it.           *)
EventSelected == \A p \in evPending \ evMasked : OnItsWay(p)

CallbackRuns(c) ==
  \/ evUpcall[c] = 1
  \/ evPc[EvIrq(c)] \in {"start", "xchg"} \/ evPc[EvThread(c)] \in {"start", "xchg"}
  \/ c = EvHome /\ \E p \in EvPorts : evHv[p] = "mark"
  \/ evThr[c] = "mark"

(* A CPU with a selected word runs the callback: its upcall flag is set or *)
(* about to be, or a callback is about to read the selector.               *)
SelectedRuns == \A c \in EvCpus : evSel[c] # {} => CallbackRuns(c)

(* Nothing that is pending waits for ever: both of the above.              *)
EventDelivered == EventSelected /\ SelectedRuns

(* No event is lost: until a call of the handler has begun after it, the   *)
(* pending bit of its port is set or a callback that has cleared it is     *)
(* about to call.                                                          *)
NoEventLost ==
  \A p \in evOwed :
    p \in evPending \/ \E x \in EvCtxs : evPc[x] = "lock" /\ evPort[x] = p

(* A pending event is selected and its handler runs, and none is lost.     *)
EventsSound == EventDelivered /\ NoEventLost

=============================================================================
