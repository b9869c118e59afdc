-------------------------------- MODULE PciDev ---------------------------------
(***************************************************************************)
(* The PCI hypercalls of the rump kernel on both platforms.  On hardware   *)
(* (platform/hw/pci) configuration space is the register pair 0xcf8/0xcfc  *)
(* behind a spin lock, and an array holds the interrupt lines.  On Xen     *)
(* (platform/xen/pci, xen/pcifront.c) an access is translated from the     *)
(* physical to the virtual address through xenstore and sent to the        *)
(* backend on the one shared page; the caller keeps its rump CPU, so that  *)
(* there is one call at a time, and only interrupts come between.          *)
(* An address is <<bus, device, function>>; what xenstore holds is the     *)
(* sequence of the numbers that could be parsed.                           *)
(***************************************************************************)
EXTENDS Integers, Sequences, FiniteSets

CONSTANTS
  PdThreads,
  PdPlatforms,  \* subset of {"hw", "xen"}
  PdStores,     \* tables in xenstore: sequences of [dev, vdev]
  PdAddrs,      \* addresses the drivers ask for
  BMK_MAXINTR,
  PdPageShift,  \* a page is 2^PdPageShift bytes
  PdSizes       \* sizes of DMA memory

ASSUME PdAssumption ==
  PdAddrs \subseteq (0..255) \X (0..31) \X (0..7) /\ BMK_MAXINTR \in Nat \ {0} /\ "free" \notin PdThreads

VARIABLES
  pdOn, pdStore,  \* the platform; what xenstore says
  pdT,            \* per thread: its call
  pdLock, pdAddr, \* pciconf_lock; the address register
  pdPage, pdUp,   \* the op on the shared page; event pending
  intrs,          \* hardware: cookie -> line, with the word behind the array
  myirq,          \* Xen: the one cookie and line it remembers
  pdMapped,       \* what was mapped last: cookie -> line
  pdHand,         \* established handlers: [cookie, line]
  pdDma           \* DMA memory: [size, order]

pdIrq == <<intrs, myirq, pdMapped, pdHand>>
pdVars == <<pdOn, pdStore, pdT, pdLock, pdAddr, pdPage, pdUp, pdIrq, pdDma>>

PdFree == "free"
NoAddr == <<0, 0, 0>>
PdIdle == [pc |-> "idle", cmd |-> "none", want |-> NoAddr, at |-> NoAddr, ok |-> FALSE]
NoOp == [cmd |-> "none", addr |-> NoAddr, active |-> FALSE, at |-> NoAddr, err |-> FALSE]

PdInit ==
  /\ pdOn \in PdPlatforms /\ pdStore \in (IF pdOn = "xen" THEN PdStores ELSE {<<>>})
  /\ pdT = [t \in PdThreads |-> PdIdle] /\ pdLock = PdFree /\ pdAddr = 0
  /\ pdPage = NoOp /\ pdUp = FALSE
  /\ intrs = [c \in 0..BMK_MAXINTR |-> 0] /\ pdMapped = intrs /\ myirq = [cookie |-> 0, line |-> 0]
  /\ pdHand = {} /\ pdDma = {}

PdBegin(t, pc, cmd, a) ==
  /\ pdT[t].pc = "idle"
  /\ pdT' = [pdT EXCEPT ![t] = [PdIdle EXCEPT !.pc = pc, !.cmd = cmd, !.want = a]]
PdEnd(t, at, ok) == pdT' = [pdT EXCEPT ![t].pc = "done", ![t].at = at, ![t].ok = ok]
PdReturn(t) ==
  /\ pdT[t].pc = "done" /\ pdT' = [pdT EXCEPT ![t] = PdIdle]
  /\ UNCHANGED <<pdOn, pdStore, pdLock, pdAddr, pdPage, pdUp, pdIrq, pdDma>>

-----------------------------------------------------------------------------
(* Hardware.  The address is written, then the data register is accessed.  *)
makeaddr(a, reg) == a[1] * 65536 + a[2] * 2048 + a[3] * 256 + (reg \div 4) * 4
(* The device a value of the address register selects.                     *)
Selected(w) == <<w \div 65536, (w \div 2048) % 32, (w \div 256) % 8>>

rumpcomp_pci_confread(t, a) == PdBegin(t, "lock", "conf_read", a)
rumpcomp_pci_confwrite(t, a) == PdBegin(t, "lock", "conf_write", a)
HwCall(t) ==
  /\ pdOn = "hw" /\ \E a \in PdAddrs : rumpcomp_pci_confread(t, a) \/ rumpcomp_pci_confwrite(t, a)
  /\ UNCHANGED <<pdOn, pdStore, pdLock, pdAddr, pdPage, pdUp, pdIrq, pdDma>>
(* Mutant: the lock is not taken.                                          *)
NoLock == TRUE
LockIsFree == pdLock = PdFree
WriteAddr(t) ==
  /\ pdT[t].pc = "lock" /\ LockIsFree
  /\ pdLock' = t /\ \E reg \in {0, 255} : pdAddr' = makeaddr(pdT[t].want, reg)
  /\ pdT' = [pdT EXCEPT ![t].pc = "data"]
  /\ UNCHANGED <<pdOn, pdStore, pdPage, pdUp, pdIrq, pdDma>>
AccessData(t) ==
  /\ pdT[t].pc = "data" /\ PdEnd(t, Selected(pdAddr), TRUE)
  /\ pdLock' = PdFree
  /\ UNCHANGED <<pdOn, pdStore, pdAddr, pdPage, pdUp, pdIrq, pdDma>>

-----------------------------------------------------------------------------
(* Xen.  A text that does not parse has overwritten the numbers before     *)
(* the place that is wrong.                                                *)
parsepciaddr(s, a) ==
  [ok |-> Len(s) = 3, addr |-> [i \in 1..3 |-> IF i <= Len(s) THEN s[i] ELSE a[i]]]

pcifront_scan == {pdStore[i].dev : i \in {j \in DOMAIN pdStore : parsepciaddr(pdStore[j].dev, NoAddr).ok}}

(* The first entry with this address and a readable virtual address.       *)
pcifront_physical_to_virtual(a) ==
  LET After[i \in 0..Len(pdStore)] ==  \* what is known after i entries
        IF i = 0 THEN [ok |-> FALSE, addr |-> a]
        ELSE LET acc == After[i - 1] IN
             IF acc.ok \/ pdStore[i].dev # acc.addr THEN acc ELSE parsepciaddr(pdStore[i].vdev, acc.addr)
  IN  After[Len(pdStore)]

XenStart(t, cmd) ==
  /\ pdOn = "xen" /\ \A u \in PdThreads : pdT[u].pc = "idle"
  /\ \E a \in pcifront_scan \cup PdAddrs :
       LET v == pcifront_physical_to_virtual(a) IN
       IF v.ok
       THEN pdT' = [pdT EXCEPT ![t] =
                      [PdIdle EXCEPT !.pc = "op", !.cmd = cmd, !.want = a, !.at = v.addr]]
       ELSE pdT' = [pdT EXCEPT ![t] = [PdIdle EXCEPT !.pc = "done", !.cmd = cmd, !.want = a]]
  /\ UNCHANGED <<pdOn, pdStore, pdLock, pdAddr, pdPage, pdUp, pdIrq, pdDma>>
pcifront_conf_read(t) == XenStart(t, "conf_read")
pcifront_conf_write(t) == XenStart(t, "conf_write")
pcifront_enable_msi(t) == XenStart(t, "enable_msi")
pcifront_disable_msi(t) == XenStart(t, "disable_msi")
pcifront_enable_msix(t) == XenStart(t, "enable_msix")
pcifront_disable_msix(t) == XenStart(t, "disable_msix")

(* pcifront_op: the op, the flag, the event; then minios_wait_event, which *)
(* tests the flag before it enters the queue.                              *)
pcifront_op(t) ==
  /\ pdT[t].pc = "op"
  /\ pdPage' = [NoOp EXCEPT !.cmd = pdT[t].cmd, !.addr = pdT[t].at, !.active = TRUE]
  /\ pdT' = [pdT EXCEPT ![t].pc = "test"]
  /\ UNCHANGED <<pdOn, pdStore, pdLock, pdAddr, pdUp, pdIrq, pdDma>>
TestFlag(t) ==
  /\ pdT[t].pc = "test"
  /\ IF pdPage.active THEN pdT' = [pdT EXCEPT ![t].pc = "queue"] ELSE PdEnd(t, pdPage.at, ~pdPage.err)
  /\ UNCHANGED <<pdOn, pdStore, pdLock, pdAddr, pdPage, pdUp, pdIrq, pdDma>>
EnterQueue(t) ==
  /\ pdT[t].pc = "queue" /\ pdT' = [pdT EXCEPT ![t].pc = "blocked"]
  /\ UNCHANGED <<pdOn, pdStore, pdLock, pdAddr, pdPage, pdUp, pdIrq, pdDma>>
BackendOp ==
  /\ pdPage.active /\ pdUp' = TRUE
  /\ \E e \in BOOLEAN : pdPage' = [pdPage EXCEPT !.active = FALSE, !.at = pdPage.addr, !.err = e]
  /\ UNCHANGED <<pdOn, pdStore, pdT, pdLock, pdAddr, pdIrq, pdDma>>
pcifront_handler ==
  /\ pdUp /\ pdUp' = FALSE
  /\ pdT' = [t \in PdThreads |-> IF pdT[t].pc = "blocked" THEN [pdT[t] EXCEPT !.pc = "test"] ELSE pdT[t]]
  /\ UNCHANGED <<pdOn, pdStore, pdLock, pdAddr, pdPage, pdIrq, pdDma>>

-----------------------------------------------------------------------------
(* Bound: interrupts and DMA memory, which share nothing with the accesses,*)
(* are set up while none is under way.                                     *)
PdQuiet == \A t \in PdThreads : pdT[t].pc = "idle"

(* Interrupts.  The check lets one cookie more through than the array has. *)
HwIrqMap(c, l) == intrs' = [intrs EXCEPT ![c] = l] /\ UNCHANGED myirq
XenIrqMap(c, l) == myirq' = [cookie |-> c, line |-> l] /\ UNCHANGED intrs
rumpcomp_pci_irq_map ==
  /\ PdQuiet
  /\ \E c \in 0..BMK_MAXINTR, l \in 1..2 :
       /\ c \notin {h.cookie : h \in pdHand} /\ pdMapped' = [pdMapped EXCEPT ![c] = l]
       /\ \/ pdOn = "hw" /\ HwIrqMap(c, l)
          \/ pdOn = "xen" /\ XenIrqMap(c, l)
  /\ UNCHANGED <<pdOn, pdStore, pdT, pdLock, pdAddr, pdPage, pdUp, pdHand, pdDma>>
HwEstablish(c) == pdHand' = pdHand \cup {[cookie |-> c, line |-> intrs[c]]}
XenEstablish(c) == c = myirq.cookie /\ pdHand' = pdHand \cup {myirq}
rumpcomp_pci_irq_establish ==
  /\ PdQuiet
  /\ \E c \in 0..BMK_MAXINTR :
       /\ pdMapped[c] # 0
       /\ \/ pdOn = "hw" /\ HwEstablish(c)
          \/ pdOn = "xen" /\ XenEstablish(c)
  /\ UNCHANGED <<pdOn, pdStore, pdT, pdLock, pdAddr, pdPage, pdUp, intrs, myirq, pdMapped, pdDma>>
(* DMA memory: the least order i with size >> (i + shift) = 0, for the     *)
(* allocation and again for the release.                                   *)
OrderOf(size) == CHOOSE i \in 0..size : size \div 2^(i + PdPageShift) = 0
                    /\ \A j \in 0..(i - 1) : size \div 2^(j + PdPageShift) # 0
rumpcomp_pci_dmalloc ==
  /\ PdQuiet /\ pdDma = {}
  /\ \E s \in PdSizes : pdDma' = {[size |-> s, order |-> OrderOf(s)]}
  /\ UNCHANGED <<pdOn, pdStore, pdT, pdLock, pdAddr, pdPage, pdUp, pdIrq>>
rumpcomp_pci_dmafree ==
  /\ PdQuiet
  /\ pdOn = "hw" /\ \E d \in pdDma : pdDma' = {x \in pdDma : x # [d EXCEPT !.order = OrderOf(d.size)]}
  /\ UNCHANGED <<pdOn, pdStore, pdT, pdLock, pdAddr, pdPage, pdUp, pdIrq>>

PdNext ==
  \/ \E t \in PdThreads :
       \/ HwCall(t) \/ PdReturn(t) \/ WriteAddr(t) \/ AccessData(t)
       \/ pcifront_conf_read(t) \/ pcifront_conf_write(t) \/ pcifront_enable_msi(t)
       \/ pcifront_disable_msi(t) \/ pcifront_enable_msix(t) \/ pcifront_disable_msix(t)
       \/ pcifront_op(t) \/ TestFlag(t) \/ EnterQueue(t)
  \/ BackendOp \/ pcifront_handler
  \/ rumpcomp_pci_irq_map \/ rumpcomp_pci_irq_establish
  \/ rumpcomp_pci_dmalloc \/ rumpcomp_pci_dmafree
PdSpec == PdInit /\ [][PdNext]_pdVars

-----------------------------------------------------------------------------
(* The entries of xenstore for an address.                                 *)
Entries(a) == {i \in DOMAIN pdStore : pdStore[i].dev = a}
Garbled(a) == \E i \in Entries(a) : Len(pdStore[i].vdev) \in 1..2

(* A finished access on hardware has reached the device it was for,        *)
(* whatever the other CPUs access at the same time; an interrupt handler   *)
(* is on the line that was mapped for its cookie.                          *)
HwReaches == pdOn = "hw" => \A t \in PdThreads : pdT[t].pc = "done" /\ pdT[t].ok => pdT[t].at = pdT[t].want
HandlersOnLine == \A h \in pdHand : h.line = pdMapped[h.cookie]

(* And on Xen an access has reached the virtual address xenstore gives for *)
(* the device, unless the text of one for this device was garbled; DMA     *)
(* memory is as large as asked for.                                        *)
PciSound ==
  /\ HwReaches /\ HandlersOnLine
  /\ pdOn = "xen" => \A t \in PdThreads : pdT[t].pc = "done" /\ pdT[t].ok =>
       Garbled(pdT[t].want) \/ \E i \in Entries(pdT[t].want) : pdStore[i].vdev = pdT[t].at
  /\ \A d \in pdDma : 2^(d.order + PdPageShift) >= d.size
=============================================================================
