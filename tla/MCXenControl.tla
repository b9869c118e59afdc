---------------------------------- MODULE MCXenControl -------------------------
(***************************************************************************)
(* The control side of the Xen platform: xenstore and event channels with  *)
(* their devices for programs, PCI, the table of block devices, mappings   *)
(* and the page tables of the boot.  In each behaviour one of them moves.  *)
(***************************************************************************)
EXTENDS XenStore, XenDev, PciDev, BlkOpen, XenMem, TLC

VARIABLE which

(* Devices, and what xenstore says of them: complete entries, entries      *)
(* without a virtual address, and addresses that are cut off.              *)
MCDevice == <<0, 31, 7>>
MCBridge == <<1, 0, 0>>
MCVirtual == <<0, 0, 1>>
MCEntry(d, v) == [dev |-> d, vdev |-> v]
MCAddrs == {MCDevice, MCBridge}
MCStores ==
  {<<MCEntry(MCDevice, MCVirtual), MCEntry(MCBridge, MCBridge)>>,
   <<MCEntry(MCDevice, <<>>), MCEntry(<<0, 31>>, MCVirtual), MCEntry(MCDevice, MCBridge)>>,
   <<MCEntry(MCDevice, <<1, 0>>), MCEntry(<<1, 0, 7>>, MCVirtual)>>}

(* Names of block devices at the limits of their kinds.                    *)
MCName(t, d, p) == [dt |-> t, disk |-> d, part |-> p]
MCNames == {MCName("hd", 1, 9), MCName("hd", 4, 0), MCName("sd", 16, 0), MCName("xvd", 16, 0)}

MCSpan == <<4, 8, 16>>

MCSymmetry == Permutations(XsThreads)

MCParts == {"store", "bus", "events", "pci", "open", "memory", "boot"}

MCInit ==
  /\ which \in MCParts
  /\ XsInit
  /\ BdInit
  /\ EvInit
  /\ PdInit /\ (which # "pci" => pdOn = "hw")
  /\ BoInit
  /\ XmInit
  /\ BtInit /\ (which # "boot" => max_pfn = Min(BtSizes) /\ start_pfn = Min(BtStarts))

MCStill(w) ==
  /\ w # "store" => UNCHANGED xsVars
  /\ w # "bus" => UNCHANGED bdVars
  /\ w # "events" => UNCHANGED evVars
  /\ w # "pci" => UNCHANGED pdVars
  /\ w # "open" => UNCHANGED boVars
  /\ w # "memory" => UNCHANGED xmVars
  /\ w # "boot" => UNCHANGED btVars

MCXenStore == which = "store" /\ XsNext /\ UNCHANGED which /\ MCStill("store")
MCBusDev == which = "bus" /\ BdNext /\ UNCHANGED which /\ MCStill("bus")
MCEvtDev == which = "events" /\ EvNext /\ UNCHANGED which /\ MCStill("events")
MCPciDev == which = "pci" /\ PdNext /\ UNCHANGED which /\ MCStill("pci")
MCBlkOpen == which = "open" /\ BoNext /\ UNCHANGED which /\ MCStill("open")
MCXenMem == which = "memory" /\ XmNext /\ UNCHANGED which /\ MCStill("memory")
MCXenBoot == which = "boot" /\ BtNext /\ UNCHANGED which /\ MCStill("boot")

MCNext == MCXenStore \/ MCBusDev \/ MCEvtDev \/ MCPciDev \/ MCBlkOpen \/ MCXenMem \/ MCXenBoot

MCSpec == MCInit /\ [][MCNext]_<<which, xsVars, bdVars, evVars, pdVars, boVars, xmVars, btVars>>
================================================================================
