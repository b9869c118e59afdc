----------------------------- MODULE DeviceProofs ------------------------------
(***************************************************************************)
(* Proofs about devices: PCI configuration and interrupts, and the table of *)
(* block devices.                                                          *)
(***************************************************************************)
EXTENDS PciDev, BlkOpen, WellFoundedInduction, TLAPS

(* Configuration accesses of any number of CPUs reach the devices they are *)
(* for, and interrupt handlers are on the lines mapped for them.           *)

Addresses == (0..255) \X (0..31) \X (0..7)

(* Arithmetic of the address register: fields of 8, 5, 3 and 8 bits.       *)
Word(b, d, f, r) == b * 65536 + d * 2048 + f * 256 + r
LEMMA Fields ==
  ASSUME NEW b \in 0..255, NEW d \in 0..31, NEW f \in 0..7, NEW r \in 0..255
  PROVE  Selected(Word(b, d, f, r)) = <<b, d, f>>
<1> DEFINE w == b * 65536 + d * 2048 + f * 256 + r
<1>1. w \div 65536 = b OBVIOUS
<1>2. w \div 2048 = b * 32 + d OBVIOUS
<1>3. (b * 32 + d) % 32 = d OBVIOUS
<1>4. w \div 256 = b * 256 + d * 8 + f OBVIOUS
<1>5. (b * 256 + d * 8 + f) % 8 = f OBVIOUS
<1> HIDE DEF w
<1>6. Selected(w) = <<b, d, f>>
  BY <1>1, <1>2, <1>3, <1>4, <1>5 DEF Selected
<1> QED BY <1>6 DEF w, Word

(* The device a value of the address register selects is the one it was    *)
(* made for.                                                               *)
LEMMA AddressSelects ==
  ASSUME NEW a \in Addresses, NEW reg \in {0, 255}
  PROVE  Selected(makeaddr(a, reg)) = a
<1>1. a[1] \in 0..255 /\ a[2] \in 0..31 /\ a[3] \in 0..7 /\ a = <<a[1], a[2], a[3]>>
  BY DEF Addresses
<1>2. (reg \div 4) * 4 \in 0..255
  BY SMT
<1> DEFINE r == (reg \div 4) * 4
           b == a[1]
           d == a[2]
           f == a[3]
<1>3. makeaddr(a, reg) = Word(b, d, f, r)
  BY DEF makeaddr, Word
<1>4. r \in 0..255 /\ b \in 0..255 /\ d \in 0..31 /\ f \in 0..7 /\ a = <<b, d, f>>
  BY <1>1, <1>2, SMTT(30)
<1> HIDE DEF r, b, d, f
<1>5. Selected(Word(b, d, f, r)) = <<b, d, f>>
  BY <1>4, Fields, Zenon
<1> QED BY <1>3, <1>4, <1>5

-----------------------------------------------------------------------------
(* Hardware: the thread that is at the data register has the lock, and the *)
(* address register is what it wrote.                                      *)
HwCalls ==
  [pc : {"idle", "lock", "data", "done"}, cmd : {"none", "conf_read", "conf_write"}, want : Addresses, at : Addresses, ok : BOOLEAN]
AtData(t) == pdLock = t /\ \E reg \in {0, 255} : pdAddr = makeaddr(pdT[t].want, reg)
HwInv ==
  pdOn = "hw" =>
    /\ pdT \in [PdThreads -> HwCalls]
    /\ \A t \in PdThreads : pdT[t].pc = "data" => AtData(t)
    /\ \A t \in PdThreads : pdT[t].pc = "done" => pdT[t].at = pdT[t].want

(* What each platform remembers is what was mapped.                        *)
IrqInv ==
  /\ pdMapped \in [0..BMK_MAXINTR -> 0..2] /\ intrs \in [0..BMK_MAXINTR -> 0..2]
  /\ pdOn = "hw" => intrs = pdMapped
  /\ pdOn # "hw" => myirq.cookie \in 0..BMK_MAXINTR /\ myirq.line = pdMapped[myirq.cookie]
  /\ \A h \in pdHand : h.cookie \in 0..BMK_MAXINTR /\ h.line = pdMapped[h.cookie]

LEMMA PdInitial == PdInit => HwInv /\ IrqInv
<1> SUFFICES ASSUME PdInit PROVE HwInv /\ IrqInv
  OBVIOUS
<1>1. NoAddr \in Addresses BY DEF NoAddr, Addresses
<1>2. PdIdle \in HwCalls /\ PdIdle.pc = "idle" BY <1>1 DEF PdIdle, HwCalls
<1>3. HwInv BY <1>2 DEF HwInv, PdInit
<1>4. IrqInv BY PdAssumption DEF PdAssumption, IrqInv, PdInit
<1> QED BY <1>3, <1>4

(* The steps that leave the calls on hardware alone.                       *)
LEMMA HwUntouched ==
  ASSUME HwInv, pdOn' = pdOn, UNCHANGED <<pdT, pdLock, pdAddr>>
  PROVE  HwInv'
BY DEF HwInv, AtData

XenSteps(t) ==
  \/ pcifront_conf_read(t) \/ pcifront_conf_write(t) \/ pcifront_enable_msi(t)
  \/ pcifront_disable_msi(t) \/ pcifront_enable_msix(t) \/ pcifront_disable_msix(t)

LEMMA HwKept == HwInv /\ [PdNext]_pdVars => HwInv'
<1> SUFFICES ASSUME HwInv, [PdNext]_pdVars PROVE HwInv'
  OBVIOUS
<1> USE DEF pdIrq
<1>1. ASSUME NEW t \in PdThreads, HwCall(t) PROVE HwInv'
  <2>1. PICK a \in PdAddrs, c \in {"conf_read", "conf_write"} : PdBegin(t, "lock", c, a)
    BY <1>1 DEF HwCall, rumpcomp_pci_confread, rumpcomp_pci_confwrite
  <2>2. pdOn = "hw" /\ UNCHANGED <<pdOn, pdLock, pdAddr>> BY <1>1 DEF HwCall
  <2> DEFINE new == [PdIdle EXCEPT !.pc = "lock", !.cmd = c, !.want = a]
  <2>3. new \in HwCalls /\ new.pc = "lock"
    <3>1. a \in Addresses /\ NoAddr \in Addresses BY PdAssumption DEF PdAssumption, NoAddr, Addresses
    <3>2. PdIdle \in HwCalls BY <3>1 DEF PdIdle, HwCalls
    <3> QED BY <3>1, <3>2, Zenon DEF HwCalls
  <2>4. pdT' = [pdT EXCEPT ![t] = new] BY <2>1 DEF PdBegin
  <2> HIDE DEF new
  <2> QED BY <2>2, <2>3, <2>4 DEF HwInv, AtData
<1>2. ASSUME NEW t \in PdThreads, PdReturn(t) PROVE HwInv'
  <2>1. PdIdle \in HwCalls /\ PdIdle.pc = "idle" BY DEF PdIdle, NoAddr, HwCalls, Addresses
  <2> QED BY <1>2, <2>1 DEF PdReturn, HwInv, AtData
<1>3. ASSUME NEW t \in PdThreads, WriteAddr(t) PROVE HwInv'
  <2>1. \A u \in PdThreads : pdOn = "hw" => pdT[u].pc # "data"
    BY <1>3, PdAssumption DEF PdAssumption, WriteAddr, LockIsFree, PdFree, HwInv, AtData
  <2> QED BY <1>3, <2>1 DEF WriteAddr, HwInv, AtData, HwCalls
<1>4. ASSUME NEW t \in PdThreads, AccessData(t) PROVE HwInv'
  <2> SUFFICES ASSUME pdOn = "hw" PROVE HwInv'
    BY <1>4 DEF AccessData, HwInv
  <2>1. pdT[t].want \in Addresses /\ AtData(t) BY <1>4 DEF AccessData, HwInv, HwCalls
  <2>2. Selected(pdAddr) = pdT[t].want BY <2>1, AddressSelects DEF AtData
  <2>3. pdT' = [pdT EXCEPT ![t].pc = "done", ![t].at = pdT[t].want, ![t].ok = TRUE]
    BY <1>4, <2>2 DEF AccessData, PdEnd
  <2>4. \A u \in PdThreads : pdT[u].pc = "data" => u = t BY <2>1 DEF HwInv, AtData
  <2>5. pdT' \in [PdThreads -> HwCalls]
    <3> DEFINE new == [pdT[t] EXCEPT !.pc = "done", !.at = pdT[t].want, !.ok = TRUE]
    <3>1. new \in HwCalls BY <2>1, Zenon DEF HwInv, HwCalls
    <3>2. pdT' = [pdT EXCEPT ![t] = new] BY <2>3, Zenon DEF HwInv
    <3> HIDE DEF new
    <3> QED BY <3>1, <3>2 DEF HwInv
  <2>6. pdT'[t].pc = "done" /\ pdT'[t].at = pdT'[t].want BY <2>3 DEF HwInv, HwCalls
  <2>7. \A u \in PdThreads : u # t => pdT'[u] = pdT[u] BY <2>3, SMTT(30) DEF HwInv
  <2> QED BY <2>4, <2>5, <2>6, <2>7 DEF HwInv, AtData
<1>5. ASSUME NEW t \in PdThreads, XenSteps(t) PROVE HwInv'
  BY <1>5, Zenon DEF XenSteps, pcifront_conf_read, pcifront_conf_write, pcifront_enable_msi, pcifront_disable_msi,
     pcifront_enable_msix, pcifront_disable_msix, XenStart, HwInv
<1>6. ASSUME NEW t \in PdThreads, pcifront_op(t) \/ TestFlag(t) \/ EnterQueue(t) PROVE HwInv'
  BY <1>6 DEF pcifront_op, TestFlag, EnterQueue, HwInv, HwCalls
<1>7. CASE pcifront_handler
  <2>1. pdOn = "hw" => pdT' = pdT BY <1>7 DEF pcifront_handler, HwInv, HwCalls
  <2> QED BY <1>7, <2>1 DEF pcifront_handler, HwInv, AtData
<1>8. CASE BackendOp
  BY <1>8, HwUntouched DEF BackendOp
<1>9. CASE rumpcomp_pci_irq_map \/ rumpcomp_pci_irq_establish
  BY <1>9, HwUntouched DEF rumpcomp_pci_irq_map, rumpcomp_pci_irq_establish
<1>10. CASE rumpcomp_pci_dmalloc \/ rumpcomp_pci_dmafree
  BY <1>10, HwUntouched DEF rumpcomp_pci_dmalloc, rumpcomp_pci_dmafree
<1>11. CASE UNCHANGED pdVars
  BY <1>11, HwUntouched DEF pdVars
<1> QED BY <1>1, <1>2, <1>3, <1>4, <1>5, <1>6, <1>7, <1>8, <1>9, <1>10, <1>11, SMTT(30) DEF PdNext, XenSteps

-----------------------------------------------------------------------------
LEMMA IrqKept == IrqInv /\ [PdNext]_pdVars => IrqInv'
<1> SUFFICES ASSUME IrqInv, [PdNext]_pdVars PROVE IrqInv'
  OBVIOUS
<1>1. CASE rumpcomp_pci_irq_map
  <2>1. PICK c \in 0..BMK_MAXINTR, l \in 1..2 :
          /\ c \notin {h.cookie : h \in pdHand} /\ pdMapped' = [pdMapped EXCEPT ![c] = l]
          /\ (pdOn = "hw" /\ HwIrqMap(c, l)) \/ (pdOn = "xen" /\ XenIrqMap(c, l))
    BY <1>1, Zenon DEF rumpcomp_pci_irq_map
  <2>2. UNCHANGED <<pdOn, pdHand>> BY <1>1 DEF rumpcomp_pci_irq_map
  <2>3. \A h \in pdHand : h.cookie # c BY <2>1
  <2>4. pdMapped' \in [0..BMK_MAXINTR -> 0..2] BY <2>1 DEF IrqInv
  <2>5. CASE pdOn = "hw"
    BY <2>1, <2>2, <2>3, <2>4, <2>5, SMTT(30) DEF IrqInv, HwIrqMap
  <2>6. CASE pdOn = "xen"
    BY <2>1, <2>2, <2>3, <2>4, <2>6 DEF IrqInv, XenIrqMap
  <2> QED BY <2>1, <2>5, <2>6
<1>2. CASE rumpcomp_pci_irq_establish
  <2>1. UNCHANGED <<pdOn, intrs, myirq, pdMapped>> BY <1>2 DEF rumpcomp_pci_irq_establish
  <2>2. \A h \in pdHand' : h.cookie \in 0..BMK_MAXINTR /\ h.line = pdMapped[h.cookie]
    BY <1>2 DEF rumpcomp_pci_irq_establish, HwEstablish, XenEstablish, IrqInv
  <2> QED BY <2>1, <2>2 DEF IrqInv
<1>3. CASE UNCHANGED <<pdOn, pdIrq>>
  BY <1>3, SMTT(30) DEF IrqInv, pdIrq
<1>4. PdNext => rumpcomp_pci_irq_map \/ rumpcomp_pci_irq_establish \/ UNCHANGED <<pdOn, pdIrq>>
  BY Zenon DEF PdNext, HwCall, PdReturn, WriteAddr, AccessData, pcifront_conf_read, pcifront_conf_write,
     pcifront_enable_msi, pcifront_disable_msi, pcifront_enable_msix, pcifront_disable_msix, XenStart,
     pcifront_op, TestFlag, EnterQueue, BackendOp, pcifront_handler, rumpcomp_pci_dmalloc, rumpcomp_pci_dmafree
<1> QED BY <1>1, <1>2, <1>3, <1>4, SMTT(30) DEF pdVars

(* rumpcomp_pci_confread and rumpcomp_pci_confwrite reach the device they  *)
(* are called for, with any number of CPUs and any addresses.              *)
THEOREM HwAccessReaches == PdSpec => []HwReaches
<1>1. HwInv => HwReaches BY DEF HwInv, HwReaches
<1> QED BY <1>1, PdInitial, HwKept, PTL DEF PdSpec

(* A handler set by rumpcomp_pci_irq_establish is on the line mapped for   *)
(* its cookie, on both platforms.                                          *)
THEOREM HandlersAreOnLine == PdSpec => []HandlersOnLine
<1>1. IrqInv => HandlersOnLine BY DEF IrqInv, HandlersOnLine
<1> QED BY <1>1, PdInitial, IrqKept, PTL DEF PdSpec

-----------------------------------------------------------------------------
(* The table of block devices, for any set of names and any number of      *)
(* threads that open, ask about and close them.                            *)

(* A set of natural numbers that is not empty has a least element, which   *)
(* Lowest names.                                                           *)
LEMMA NatMin ==
  ASSUME NEW T, T \subseteq Nat, T # {}
  PROVE  Lowest(T) \in T /\ \A y \in T : Lowest(T) <= y
<1>1. \A a, b \in Nat : <<a, b>> \in OpToRel(<, Nat) <=> a < b
  BY SMT DEF OpToRel
<1>2. PICK x \in T : \A y \in T : ~ (<<y, x>> \in OpToRel(<, Nat))
  BY NatLessThanWellFounded, WFMin, Zenon
<1>3. \A y \in T : ~ (y < x)
  BY <1>1, <1>2, Zenon
<1>4. \A y \in T : x <= y
  BY <1>3
<1> QED
  BY <1>4, Zenon DEF Lowest

(* What the fields hold.                                                   *)
BoTypeOK ==
  /\ blkdevs \in [BoSlots -> [vbd : Int, open : Int, dev : Nat]]
  /\ boLive \in SUBSET (1..(boNext - 1))
  /\ boT \in [BoThreads -> [pc : {"idle", "open", "info"}, num : BoSlots, write : BOOLEAN]]
  /\ boFds \in [BoSlots -> Nat]
  /\ boNext \in Nat \ {0}
  /\ boTwice \in SUBSET BoSlots

(* No frontend is in two slots, and none was not set up.                   *)
FrontsOwned ==
  /\ \A i \in BoSlots : blkdevs[i].dev < boNext
  /\ \A i, j \in BoSlots : blkdevs[i].dev = blkdevs[j].dev => i = j \/ blkdevs[i].dev = 0

(* A slot that was never opened twice at once is open exactly while it has *)
(* a frontend, and closed while a thread sets one up for it.               *)
SlotsCounted ==
  \A i \in BoSlots \ boTwice :
    /\ blkdevs[i].open >= boFds[i]
    /\ blkdevs[i].open = 0 => blkdevs[i].dev = 0
    /\ blkdevs[i].open # 0 => blkdevs[i].dev \in boLive
    /\ \A t \in BoThreads : boT[t].pc # "idle" /\ boT[t].num = i => blkdevs[i].open = 0

OneOpens ==
  \A t, u \in BoThreads :
    boT[t].pc # "idle" /\ boT[u].pc # "idle" /\ boT[t].num = boT[u].num => t = u \/ boT[t].num \in boTwice

BoInv == BoTypeOK /\ FrontsOwned /\ SlotsCounted /\ OneOpens /\ TableKept

-----------------------------------------------------------------------------
Within(x, a, b) == x \in Int /\ a <= x /\ x <= b

(* devname2vbd gives no two names one vbd (rumphyper_bio.c).               *)
LEMMA NamesDiffer ==
  ASSUME NEW m \in BoNames, NEW n \in BoNames, devname2vbd(m) = devname2vbd(n), devname2vbd(m) # NoVbd
  PROVE  m = n
<1>1. /\ m \in [dt : STRING, disk : Int, part : Int]
      /\ n \in [dt : STRING, disk : Int, part : Int]
  BY BoAssumption
<1>2. m.dt \in {"hd", "sd", "xvd"} /\ n.dt \in {"hd", "sd", "xvd"}
  BY DEF devname2vbd
<1>3. m.part \in 0..9 /\ n.part \in 0..9 /\ m.disk >= 0 /\ n.disk >= 0
  BY <1>1 DEF devname2vbd
<1>4. m.dt = n.dt /\ m.disk = n.disk /\ m.part = n.part
  <2>1. \A x \in {m, n} :
          \/ x.dt = "hd" /\ devname2vbd(x) = HdVbd(x.disk, x.part)
          \/ x.dt = "sd" /\ devname2vbd(x) = SdVbd(x.disk, x.part)
          \/ x.dt = "xvd" /\ devname2vbd(x) = XvdVbd(x.disk, x.part)
    BY <1>1, <1>2, <1>3 DEF devname2vbd
  <2>2. /\ m.disk \in Nat /\ n.disk \in Nat /\ m.part \in Nat /\ n.part \in Nat
        /\ m.part <= 9 /\ n.part <= 9
    BY <1>1, <1>3
  <2>3. \A d, p \in Nat : p <= 9 =>
          /\ HdVbd(d, p) = NoVbd \/ Within(HdVbd(d, p), 768, 841) \/ Within(HdVbd(d, p), 5632, 5705)
          /\ SdVbd(d, p) = NoVbd \/ Within(SdVbd(d, p), 2048, 2313)
          /\ XvdVbd(d, p) = NoVbd \/ Within(XvdVbd(d, p), 51712, 268442112)
    BY DEF HdVbd, SdVbd, XvdVbd, NoVbd, Within
  <2>4. m.dt = n.dt
    <3>1. \A x \in {m, n} :
            /\ x.dt = "hd" => Within(devname2vbd(x), 768, 841) \/ Within(devname2vbd(x), 5632, 5705)
            /\ x.dt = "sd" => Within(devname2vbd(x), 2048, 2313)
            /\ x.dt = "xvd" => Within(devname2vbd(x), 51712, 268442112)
      BY <1>2, <2>1, <2>2, <2>3
    <3> QED
      BY <1>2, <3>1 DEF Within
  <2>5. \A c, d, p, q \in Nat : p <= 9 /\ q <= 9 =>
          /\ HdVbd(c, p) = HdVbd(d, q) /\ HdVbd(c, p) # NoVbd => c = d /\ p = q
          /\ SdVbd(c, p) = SdVbd(d, q) /\ SdVbd(c, p) # NoVbd => c = d /\ p = q
          /\ XvdVbd(c, p) = XvdVbd(d, q) /\ XvdVbd(c, p) # NoVbd => c = d /\ p = q
    BY DEF HdVbd, SdVbd, XvdVbd, NoVbd
  <2> QED
    BY <2>1, <2>2, <2>4, <2>5
<1> QED
  BY <1>1, <1>4

LEMMA VbdType ==
  ASSUME NEW n \in BoNames
  PROVE  devname2vbd(n) \in Int
<1>1. n \in [dt : STRING, disk : Int, part : Int]
  BY BoAssumption
<1> QED
  BY <1>1 DEF devname2vbd, HdVbd, SdVbd, XvdVbd, NoVbd

(* devname2num finds the slot of a vbd, or one that is free.               *)
LEMMA SlotFound ==
  ASSUME NEW vbd, devname2num(vbd) # NBLKDEV
  PROVE  /\ devname2num(vbd) \in BoSlots
         /\ \/ blkdevs[devname2num(vbd)].vbd = vbd
            \/ \A i \in BoSlots : blkdevs[i].vbd # vbd
<1> DEFINE S == {i \in BoSlots : blkdevs[i].vbd = vbd}
           F == {i \in BoSlots : blkdevs[i].vbd = NoVbd}
<1>1. S \subseteq Nat /\ F \subseteq Nat
  BY BoAssumption DEF BoSlots
<1>2. CASE S # {}
  <2>1. Lowest(S) \in S
    BY <1>1, <1>2, NatMin
  <2> QED
    BY <1>2, <2>1 DEF devname2num
<1>3. CASE S = {}
  <2>1. F # {} /\ devname2num(vbd) = Lowest(F)
    BY <1>3 DEF devname2num
  <2>2. Lowest(F) \in F
    BY <1>1, <2>1, NatMin
  <2> QED
    BY <1>3, <2>1, <2>2
<1> QED
  BY <1>2, <1>3

-----------------------------------------------------------------------------
LEMMA BoInitInv == BoInit => BoInv
<1> SUFFICES ASSUME BoInit
             PROVE  BoInv
  OBVIOUS
<1> USE BoAssumption DEF BoInit, BoIdle, BoSlots, NoVbd
<1>1. BoTypeOK
  BY DEF BoTypeOK
<1>2. FrontsOwned /\ SlotsCounted /\ OneOpens
  BY DEF FrontsOwned, SlotsCounted, OneOpens
<1>3. TableKept
  BY NamesDiffer DEF TableKept
<1> QED
  BY <1>1, <1>2, <1>3 DEF BoInv

(* devopen, for a device that is open and for one that is not.             *)
LEMMA OpenInductive ==
  ASSUME BoInv, NEW t \in BoThreads, NEW n \in BoNames, NEW how \in {"open", "info"}, NEW write \in BOOLEAN,
         Named(t, n, how, write)
  PROVE  BoInv'
<1> DEFINE vbd == devname2vbd(n)
           k == devname2num(vbd)
<1>1. /\ vbd \in Int /\ vbd # NoVbd
      /\ k \in BoSlots
      /\ blkdevs[k].vbd = vbd \/ \A i \in BoSlots : blkdevs[i].vbd # vbd
      /\ boT[t].pc = "idle"
      /\ devopen(t, k, vbd, how, write)
  BY VbdType, SlotFound DEF Named
<1> HIDE DEF vbd, k
<1>2. BoTypeOK /\ FrontsOwned /\ SlotsCounted /\ OneOpens /\ TableKept
  BY DEF BoInv
<1>3. /\ blkdevs' \in [BoSlots -> [vbd : Int, open : Int, dev : Nat]]
      /\ blkdevs'[k].vbd = vbd /\ blkdevs'[k].dev = blkdevs[k].dev
      /\ \A i \in BoSlots : i # k => blkdevs'[i] = blkdevs[i]
      /\ UNCHANGED <<boLive, boNext, boFds>>
  BY <1>1, <1>2, SMTT(30) DEF devopen, AlreadyOpen, BoTypeOK
<1>4. CASE blkdevs[k].open # 0
  <2>1. blkdevs'[k].open = blkdevs[k].open + 1 /\ UNCHANGED <<boT, boTwice>>
    BY <1>1, <1>2, <1>4 DEF devopen, AlreadyOpen, BoTypeOK
  <2>2. BoTypeOK'
    BY <1>2, <1>3, <2>1 DEF BoTypeOK
  <2>3. FrontsOwned' /\ OneOpens'
    BY <1>1, <1>2, <1>3, <2>1 DEF FrontsOwned, OneOpens
  <2>4. SlotsCounted'
    BY <1>1, <1>2, <1>3, <1>4, <2>1, SMTT(30) DEF SlotsCounted, BoTypeOK
  <2>5. TableKept'
    <3>1. \A i, j \in BoSlots : blkdevs'[i].vbd = blkdevs'[j].vbd => i = j \/ blkdevs'[i].vbd = NoVbd
      BY <1>1, <1>2, <1>3 DEF TableKept
    <3>2. \A f \in boLive' : boTwice' # {} \/ \E i \in BoSlots : blkdevs'[i].dev = f
      BY <1>2, <1>3, <2>1 DEF TableKept
    <3>3. \A i \in BoSlots \ boTwice' : boFds'[i] > 0 => blkdevs'[i].open >= boFds'[i] /\ blkdevs'[i].dev \in boLive'
      BY <2>2, <2>4 DEF BoTypeOK, SlotsCounted
    <3> QED
      BY <3>1, <3>2, <3>3, NamesDiffer, SMTT(30) DEF TableKept
  <2> QED
    BY <2>2, <2>3, <2>4, <2>5 DEF BoInv
<1>5. CASE blkdevs[k].open = 0
  <2>1. /\ blkdevs'[k].open = 0
        /\ boT' = [boT EXCEPT ![t] = [pc |-> how, num |-> k, write |-> write]]
        /\ boTwice' = IF Opening(k) THEN boTwice \cup {k} ELSE boTwice
    BY <1>1, <1>2, <1>5 DEF devopen, BoTypeOK
  <2>2. BoTypeOK'
    BY <1>1, <1>2, <1>3, <2>1 DEF BoTypeOK
  <2>3. FrontsOwned'
    BY <1>1, <1>2, <1>3, <2>1, SMTT(30) DEF FrontsOwned
  <2>4. OneOpens'
    BY <1>1, <1>2, <2>1 DEF OneOpens, Opening, BoTypeOK
  <2>5. SlotsCounted'
    BY <1>1, <1>2, <1>3, <1>5, <2>1, SMTT(30) DEF SlotsCounted, BoTypeOK
  <2>6. TableKept'
    <3>1. \A i, j \in BoSlots : blkdevs'[i].vbd = blkdevs'[j].vbd => i = j \/ blkdevs'[i].vbd = NoVbd
      BY <1>1, <1>2, <1>3 DEF TableKept
    <3>2. \A f \in boLive' : boTwice' # {} \/ \E i \in BoSlots : blkdevs'[i].dev = f
      BY <1>2, <1>3, <2>1 DEF TableKept
    <3>3. \A i \in BoSlots \ boTwice' : boFds'[i] > 0 => blkdevs'[i].open >= boFds'[i] /\ blkdevs'[i].dev \in boLive'
      BY <2>2, <2>5 DEF BoTypeOK, SlotsCounted
    <3> QED
      BY <3>1, <3>2, <3>3, NamesDiffer DEF TableKept
  <2> QED
    BY <2>2, <2>3, <2>4, <2>5, <2>6 DEF BoInv
<1> QED
  BY <1>4, <1>5

(* The fields of slots and threads, one by one.                            *)
LEMMA BoFields ==
  ASSUME BoTypeOK
  PROVE  /\ \A i \in BoSlots : blkdevs[i].vbd \in Int /\ blkdevs[i].open \in Int /\ blkdevs[i].dev \in Nat
         /\ \A t \in BoThreads : boT[t].pc \in {"idle", "open", "info"} /\ boT[t].num \in BoSlots
         /\ \A i \in BoSlots : boFds[i] \in Nat
         /\ \A f \in boLive : f \in Nat /\ 0 < f /\ f < boNext
         /\ boNext \in Nat /\ 0 < boNext
         /\ BoIdle \in [pc : {"idle", "open", "info"}, num : BoSlots, write : BOOLEAN]
BY BoAssumption, SMTT(30) DEF BoTypeOK, BoIdle, BoSlots

(* blkfront_init returns without a frontend.                               *)
LEMMA InitFailedInductive ==
  ASSUME BoInv, NEW t \in BoThreads, InitFailed(t)
  PROVE  BoInv'
<1> DEFINE k == boT[t].num
<1>1. BoTypeOK /\ FrontsOwned /\ SlotsCounted /\ OneOpens /\ TableKept
  BY DEF BoInv
<1>2. k \in BoSlots /\ boT[t].pc # "idle"
  BY <1>1 DEF BoTypeOK, InitFailed
<1>3. /\ blkdevs' \in [BoSlots -> [vbd : Int, open : Int, dev : Nat]]
      /\ \A i \in BoSlots : blkdevs'[i].vbd = blkdevs[i].vbd /\ blkdevs'[i].open = blkdevs[i].open
      /\ \A i \in BoSlots : blkdevs'[i].dev = IF i = k THEN 0 ELSE blkdevs[i].dev
  BY <1>1, <1>2 DEF BoTypeOK, InitFailed
<1>4. boT' = [boT EXCEPT ![t] = BoIdle] /\ UNCHANGED <<boLive, boFds, boNext, boTwice>>
  BY DEF InitFailed
<1> HIDE DEF k
<1>5. BoTypeOK'
  BY <1>1, <1>3, <1>4, BoFields DEF BoTypeOK
<1>6. FrontsOwned' /\ OneOpens'
  <2>1. FrontsOwned'
    BY <1>1, <1>3, <1>4, BoFields DEF FrontsOwned
  <2>2. OneOpens'
    BY <1>1, <1>4 DEF OneOpens, BoTypeOK, BoIdle
  <2> QED
    BY <2>1, <2>2
<1>7. k \notin boTwice => blkdevs[k].open = 0 /\ blkdevs[k].dev = 0
  BY <1>1, <1>2 DEF SlotsCounted, BoTypeOK, k
<1>8. SlotsCounted'
  BY <1>1, <1>3, <1>4, <1>7 DEF SlotsCounted, BoTypeOK, BoIdle
<1>9. TableKept'
  <2>1. \A f \in boLive' : boTwice' # {} \/ \E i \in BoSlots : blkdevs'[i].dev = f
    BY <1>1, <1>2, <1>3, <1>4, <1>7, BoFields DEF TableKept
  <2> QED
    BY <1>1, <1>3, <1>4, <1>5, <1>8, <2>1, NamesDiffer, SMTT(30) DEF TableKept, BoTypeOK, SlotsCounted
<1> QED
  BY <1>5, <1>6, <1>8, <1>9 DEF BoInv

(* It returns with one, which is fresh: nobody else has it.                *)
LEMMA InitDoneInductive ==
  ASSUME BoInv, NEW t \in BoThreads, InitDone(t)
  PROVE  BoInv'
<1> DEFINE k == boT[t].num
<1>1. BoTypeOK /\ FrontsOwned /\ SlotsCounted /\ OneOpens /\ TableKept
  BY DEF BoInv
<1>2. k \in BoSlots /\ boT[t].pc \in {"open", "info"}
  BY <1>1 DEF BoTypeOK, InitDone
<1>3. k \notin boTwice => blkdevs[k].open = 0 /\ blkdevs[k].dev = 0 /\ boFds[k] = 0
  BY <1>1, <1>2 DEF SlotsCounted, BoTypeOK
<1>4. k \notin boTwice => \A u \in BoThreads : boT[u].pc # "idle" /\ boT[u].num = k => u = t
  BY <1>1, <1>2 DEF OneOpens, BoTypeOK
<1>5. boT' = [boT EXCEPT ![t] = BoIdle] /\ boNext' = boNext + 1 /\ UNCHANGED boTwice
  BY DEF InitDone
<1>6. OneOpens'
  BY <1>1, <1>5 DEF OneOpens, BoTypeOK, BoIdle
<1>7. boNext \notin boLive /\ boLive \in SUBSET (1..boNext)
  BY <1>1 DEF BoTypeOK
<1>8. CASE boT[t].pc = "open"
  <2>1. /\ blkdevs' \in [BoSlots -> [vbd : Int, open : Int, dev : Nat]]
        /\ \A i \in BoSlots : blkdevs'[i].vbd = blkdevs[i].vbd
        /\ \A i \in BoSlots : blkdevs'[i].dev = IF i = k THEN boNext ELSE blkdevs[i].dev
        /\ \A i \in BoSlots : blkdevs'[i].open = IF i = k THEN 1 ELSE blkdevs[i].open
        /\ boLive' = boLive \cup {boNext}
        /\ boFds' = boFds \/ boFds' = [boFds EXCEPT ![k] = @ + 1]
    <3>1. /\ blkdevs' = [blkdevs EXCEPT ![k].dev = boNext, ![k].open = 1]
          /\ boLive' = boLive \cup {boNext}
          /\ boFds' = boFds \/ boFds' = [boFds EXCEPT ![k] = @ + 1]
      BY <1>8 DEF InitDone
    <3> QED
      BY <1>1, <1>2, <3>1 DEF BoTypeOK
  <2> HIDE DEF k
  <2>2. BoTypeOK'
    BY <1>1, <1>2, <1>5, <1>7, <2>1, BoFields, SMTT(30) DEF BoTypeOK
  <2>3. FrontsOwned'
    BY <1>1, <1>5, <2>1, BoFields DEF FrontsOwned
  <2>4. SlotsCounted'
    BY <1>1, <1>2, <1>3, <1>4, <1>5, <2>1, SMTT(30) DEF SlotsCounted, BoTypeOK, BoIdle
  <2>5. \A f \in boLive' : boTwice' # {} \/ \E i \in BoSlots : blkdevs'[i].dev = f
    BY <1>1, <1>2, <1>3, <1>5, <2>1, BoFields, SMTT(30) DEF TableKept
  <2>6. TableKept'
    BY <1>1, <2>1, <2>2, <2>4, <2>5, NamesDiffer, SMTT(30) DEF TableKept, BoTypeOK, SlotsCounted
  <2> QED
    BY <1>6, <2>2, <2>3, <2>4, <2>6 DEF BoInv
<1>9. CASE boT[t].pc = "info"
  <2>1. /\ blkdevs' \in [BoSlots -> [vbd : Int, open : Int, dev : Nat]]
        /\ \A i \in BoSlots : blkdevs'[i].vbd = blkdevs[i].vbd
        /\ \A i \in BoSlots : blkdevs'[i].dev = IF i = k THEN 0 ELSE blkdevs[i].dev
        /\ \A i \in BoSlots : blkdevs'[i].open = IF i = k THEN 0 ELSE blkdevs[i].open
        /\ boLive' = boLive
        /\ boFds' = boFds
    BY <1>1, <1>2, <1>7, <1>9 DEF BoTypeOK, InitDone, Released
  <2> HIDE DEF k
  <2>2. BoTypeOK'
    BY <1>1, <1>2, <1>5, <1>7, <2>1, BoFields, SMTT(30) DEF BoTypeOK
  <2>3. FrontsOwned'
    BY <1>1, <1>5, <2>1, BoFields, SMTT(30) DEF FrontsOwned
  <2>4. SlotsCounted'
    BY <1>1, <1>2, <1>3, <1>4, <1>5, <2>1, SMTT(30) DEF SlotsCounted, BoTypeOK, BoIdle
  <2>5. \A f \in boLive' : boTwice' # {} \/ \E i \in BoSlots : blkdevs'[i].dev = f
    BY <1>1, <1>2, <1>3, <1>5, <2>1, BoFields DEF TableKept
  <2>6. TableKept'
    BY <1>1, <2>1, <2>2, <2>4, <2>5, NamesDiffer DEF TableKept, BoTypeOK, SlotsCounted
  <2> QED
    BY <1>6, <2>2, <2>3, <2>4, <2>6 DEF BoInv
<1> QED
  BY <1>2, <1>8, <1>9

(* The last close of a device takes its frontend and no other.             *)
LEMMA CloseInductive ==
  ASSUME BoInv, NEW t \in BoThreads, rumpuser_close(t)
  PROVE  BoInv'
<1>1. BoTypeOK /\ FrontsOwned /\ SlotsCounted /\ OneOpens /\ TableKept
  BY DEF BoInv
<1>2. PICK k \in BoSlots : /\ boFds[k] > 0 /\ boFds' = [boFds EXCEPT ![k] = @ - 1]
                          /\ blkdevs' = Released(blkdevs, boLive, k).devs
                          /\ boLive' = Released(blkdevs, boLive, k).live
  BY Zenon DEF rumpuser_close
<1>3. UNCHANGED <<boT, boNext, boTwice>>
  BY DEF rumpuser_close
<1>4. /\ blkdevs' \in [BoSlots -> [vbd : Int, open : Int, dev : Nat]]
      /\ \A i \in BoSlots : blkdevs'[i].vbd = blkdevs[i].vbd
      /\ \A i \in BoSlots : blkdevs'[i].open = IF i = k THEN blkdevs[i].open - 1 ELSE blkdevs[i].open
      /\ \A i \in BoSlots : blkdevs'[i].dev = IF i = k /\ blkdevs[k].open = 1 THEN 0 ELSE blkdevs[i].dev
      /\ boLive' = IF blkdevs[k].open = 1 THEN boLive \ {blkdevs[k].dev} ELSE boLive
  <2>1. CASE blkdevs[k].open = 1
    <3>1. /\ blkdevs' = [blkdevs EXCEPT ![k] = [vbd |-> blkdevs[k].vbd, open |-> 0, dev |-> 0]]
          /\ boLive' = boLive \ {blkdevs[k].dev}
      BY <1>2, <2>1 DEF Released
    <3>2. /\ blkdevs' \in [BoSlots -> [vbd : Int, open : Int, dev : Nat]]
          /\ blkdevs'[k] = [vbd |-> blkdevs[k].vbd, open |-> 0, dev |-> 0]
          /\ \A i \in BoSlots : i # k => blkdevs'[i] = blkdevs[i]
      BY <1>1, <3>1, BoFields DEF BoTypeOK
    <3> QED
      BY <2>1, <3>1, <3>2, BoFields, <1>1
  <2>2. CASE blkdevs[k].open # 1
    <3>1. blkdevs' = [blkdevs EXCEPT ![k].open = @ - 1] /\ boLive' = boLive
      BY <1>2, <2>2 DEF Released
    <3> QED
      BY <1>1, <2>2, <3>1 DEF BoTypeOK
  <2> QED
    BY <2>1, <2>2
<1>5. BoTypeOK'
  <2>1. boFds' \in [BoSlots -> Nat] /\ boLive' \subseteq boLive
    BY <1>1, <1>2, <1>4 DEF BoTypeOK
  <2> QED
    BY <1>1, <1>3, <1>4, <2>1, Zenon DEF BoTypeOK
<1>6. FrontsOwned' /\ OneOpens'
  BY <1>1, <1>3, <1>4, BoFields, SMTT(30) DEF FrontsOwned, OneOpens
<1>7. SlotsCounted'
  <2>1. \A i \in BoSlots : i # k /\ blkdevs[i].dev \in boLive => blkdevs[i].dev \in boLive'
    BY <1>1, <1>4, SMTT(30) DEF FrontsOwned, BoTypeOK
  <2> QED
    BY <1>1, <1>2, <1>3, <1>4, <2>1, SMTT(30) DEF SlotsCounted, BoTypeOK
<1>8. TableKept'
  <2>1. \A f \in boLive' : boTwice' # {} \/ \E i \in BoSlots : blkdevs'[i].dev = f
    BY <1>1, <1>3, <1>4, BoFields DEF TableKept
  <2> QED
    BY <1>1, <1>3, <1>4, <1>5, <1>7, <2>1, NamesDiffer, SMTT(30) DEF TableKept, BoTypeOK, SlotsCounted
<1> QED
  BY <1>5, <1>6, <1>7, <1>8 DEF BoInv

(* The table of block devices, for any number of slots, threads and names  *)
(* (rumphyper_bio.c).                                                      *)
THEOREM DevicesKept == BoSpec => []TableKept
<1>1. BoInv /\ [BoNext]_boVars => BoInv'
  <2> SUFFICES ASSUME BoInv, [BoNext]_boVars
               PROVE  BoInv'
    OBVIOUS
  <2>1. CASE UNCHANGED boVars
    BY <2>1 DEF BoInv, boVars, BoTypeOK, FrontsOwned, SlotsCounted, OneOpens, TableKept, NoVbd
  <2>2. ASSUME NEW t \in BoThreads, rumpuser_open(t) \/ rumpuser_getfileinfo(t)
        PROVE  BoInv'
    BY <2>2, OpenInductive, Zenon DEF rumpuser_open, rumpuser_getfileinfo
  <2> QED
    BY <2>1, <2>2, InitFailedInductive, InitDoneInductive, CloseInductive, SMTT(30) DEF BoNext
<1>2. BoInv => TableKept
  BY DEF BoInv
<1> QED
  BY BoInitInv, <1>1, <1>2, PTL DEF BoSpec
================================================================================
