------------------------------ MODULE FrontLife -------------------------------
(***************************************************************************)
(* How a front end of the Xen platform connects to its backend and closes: *)
(* blkfront_init and blkfront_shutdown (xen/blkfront.c), netfront_init and *)
(* netfront_shutdown (xen/netfront.c), init_pcifront, shutdown_pcifront    *)
(* and the thread pcifront_watches (xen/pcifront.c), init_consfront and    *)
(* free_consfront (console/xenbus.c).  They follow one scheme; fkind says  *)
(* which.  Both ends write their state to xenstore and wait for the        *)
(* other's; a request to xenstore may fail (at most FlErrors times).       *)
(* Waiting for a change is what XenStore shows it to be.                   *)
(***************************************************************************)
EXTENDS Integers

CONSTANTS FlKinds, FlErrors, FlRounds
ASSUME FlAssumption == FlKinds \subseteq {"blk", "net", "pci", "cons"} /\ FlErrors \in Nat /\ FlRounds \in Nat

(* XenbusState.                                                            *)
Initialising == 1
InitWait == 2
Initialised == 3
XbConnected == 4
Closing == 5
Closed == 6
Reconfiguring == 7
Reconfigured == 8

VARIABLES
  fkind,        \* "blk", "net", "pci" or "cons"
  fpc, fstate,  \* where the driver is; the backend's state as it last read it
  ferr,         \* it holds an error
  fnode, fback, \* states in the store
  fheld,        \* event channel, shared pages and their grants are held
  fmask,        \* the event channel is masked
  fwatch,       \* the backend's state is watched
  fleft,        \* what was held was left behind
  fmapped,      \* backend: it has mapped the shared pages
  ferrors, frounds

flMine == <<fkind, fnode, fheld, fmask, fwatch, fleft>>
flVars == <<fkind, fpc, fstate, ferr, fnode, fback, fheld, fmask, fwatch, fleft, fmapped, ferrors, frounds>>

FlInit ==
  /\ fkind \in FlKinds /\ fpc = "off" /\ fstate = 0 /\ ferr = FALSE
  /\ fnode = Initialising /\ fback = InitWait
  /\ fheld = FALSE /\ fmask = TRUE /\ fwatch = FALSE /\ fleft = FALSE /\ fmapped = FALSE
  /\ ferrors = 0 /\ frounds = 0

FlGoes(pc) == fpc' = pc
XsFails == ferrors < FlErrors /\ ferrors' = ferrors + 1 /\ ferr' = TRUE
XsWorks == UNCHANGED ferrors /\ ferr' = FALSE
FlRest == UNCHANGED <<fback, fmapped, frounds>>

-----------------------------------------------------------------------------
(* Allocate the event channel and the shared pages, and grant the pages.   *)
(* Without a backend init_pcifront and init_consfront stop here.           *)
InitBegin ==
  /\ fpc = "off" /\ frounds < FlRounds /\ frounds' = frounds + 1
  /\ fheld' = TRUE /\ fmask' = TRUE /\ FlGoes("txn") /\ ferr' = FALSE
  /\ UNCHANGED <<fkind, fstate, fnode, fback, fwatch, fleft, fmapped, ferrors>>
InitNoBackend ==
  /\ fpc = "off" /\ frounds < FlRounds /\ frounds' = frounds + 1
  /\ XsFails
  /\ UNCHANGED <<flMine, fpc, fstate, fback, fmapped>>

(* Where an initialisation that fails ends: the console is shut down, for  *)
(* which it reads the backend's path, and faults if it does not have it.   *)
FlGiveUp == IF fkind = "cons" THEN "fault" ELSE "free"
GiveUpLate == IF fkind = "cons" THEN "shutdown" ELSE "free"

(* Write them and the state in a transaction, again when it conflicts.     *)
FirstState == IF fkind = "pci" THEN Initialised ELSE XbConnected
InitTransaction ==
  /\ fpc = "txn"
  /\ \/ XsWorks /\ fnode' = FirstState /\ FlGoes("backend")
     \/ XsFails /\ FlGoes(FlGiveUp) /\ UNCHANGED fnode
     \/ XsFails /\ FlGoes("backend") /\ UNCHANGED fnode   \* the error of its end is dropped
  /\ FlRest /\ UNCHANGED <<fkind, fstate, fheld, fmask, fwatch, fleft>>

(* Read the backend's path (and what else is there), watch its state.      *)
InitBackend ==
  /\ fpc = "backend"
  /\ \/ XsWorks /\ fwatch' = TRUE /\ fstate' = fback /\ FlGoes("wait")
     \/ XsFails /\ UNCHANGED <<fwatch, fstate>> /\ FlGoes(FlGiveUp)
  /\ FlRest /\ UNCHANGED <<fkind, fnode, fheld, fmask, fleft>>

(* xenbus_wait_for_state_change.                                           *)
WaitChange ==
  \/ fback # fstate /\ fstate' = fback /\ UNCHANGED <<ferr, ferrors>>
  \/ XsFails /\ UNCHANGED fstate

InitWaitBackend ==
  /\ fpc = "wait" /\ ~ferr /\ fstate < XbConnected
  /\ WaitChange
  /\ FlRest /\ UNCHANGED <<flMine, fpc>>

(* With the backend connected the event channel is opened; pcifront writes *)
(* Connected as well, which may fail.                                      *)
InitWaited ==
  /\ fpc = "wait" /\ (ferr \/ fstate >= XbConnected)
  /\ IF fstate = XbConnected
       THEN fnode' = XbConnected /\ fmask' = FALSE /\ FlGoes("on") /\ UNCHANGED fwatch
       ELSE fwatch' = FALSE /\ FlGoes(GiveUpLate) /\ UNCHANGED <<fnode, fmask>>
  /\ FlRest /\ UNCHANGED <<fkind, fstate, ferr, ferrors, fheld, fleft>>
PciSwitchFails ==
  /\ fpc = "wait" /\ fstate = XbConnected /\ XsFails
  /\ fwatch' = FALSE /\ FlGoes("free")
  /\ FlRest /\ UNCHANGED <<fkind, fnode, fmask, fstate, fheld, fleft>>

(* free_blkfront, free_netfront, free_pcifront.                            *)
FlFree ==
  /\ fpc = "free" /\ FlGoes("off")
  /\ fheld' = FALSE /\ fmask' = TRUE /\ ferr' = FALSE
  /\ FlRest /\ UNCHANGED <<fkind, fstate, fnode, fwatch, fleft, ferrors>>

-----------------------------------------------------------------------------
(* pcifront_watches follows the backend: it reconfigures, and closes when  *)
(* the backend does or xenstore fails.                                     *)
PciFollow ==
  /\ fpc = "on" /\ fkind = "pci" /\ fback # fstate /\ fstate' = fback
  /\ fnode' = CASE fback = Reconfiguring -> Reconfiguring
                [] fback = Reconfigured -> XbConnected [] OTHER -> fnode
  /\ FlGoes(IF fback = Closing THEN "shutdown" ELSE "on")
  /\ FlRest /\ UNCHANGED <<fkind, ferr, ferrors, fheld, fmask, fwatch, fleft>>
PciLost ==
  /\ fpc = "on" /\ fkind = "pci" /\ XsFails /\ FlGoes("shutdown")
  /\ FlRest /\ UNCHANGED <<flMine, fstate>>

(* The users of the others close them (rumpuser_close, VIFHYPER_DESTROY,   *)
(* fini_console).                                                          *)
UserCloses ==
  /\ fpc = "on" /\ fkind # "pci" /\ FlGoes("shutdown")
  /\ FlRest /\ UNCHANGED <<flMine, fstate, ferr, ferrors>>

(* The shutdown: tell the backend a state, wait until it has followed;     *)
(* three times, for the console twice, and without waiting the last time.  *)
Tell(pc, s, next) ==
  /\ fpc = pc
  /\ \/ XsWorks /\ fnode' = s /\ fstate' = fback /\ FlGoes(next)
     \/ XsFails /\ UNCHANGED <<fnode, fstate>> /\ FlGoes("close")
  /\ FlRest /\ UNCHANGED <<fkind, fheld, fmask, fwatch, fleft>>
Await(pc, more, next) ==
  /\ fpc = pc
  /\ IF more THEN WaitChange /\ UNCHANGED fpc
     ELSE FlGoes(next) /\ UNCHANGED <<fstate, ferr, ferrors>>
  /\ FlRest /\ UNCHANGED flMine

TellClosing == Tell("shutdown", Closing, "closing")
AwaitClosing == Await("closing", ~ferr /\ fstate < Closing, "close2")
TellClosed == Tell("close2", Closed, IF fkind = "cons" THEN "close" ELSE "closed")
(* Mutant: it goes on while the backend is still closing.                  *)
AnyClosing == Await("closed", fstate < Closing, "close3")
AwaitClosed == Await("closed", fstate < Closed, "close3")
TellInitialising == Tell("close3", Initialising, "reinit")
(* Mutant: it waits for the state of a backend that is connected.          *)
AwaitConnected == Await("reinit", ~ferr /\ (fstate < XbConnected \/ fstate >= Closed), "close")
AwaitInitWait == Await("reinit", ~ferr /\ (fstate < InitWait \/ fstate >= Closed), "close")

(* The end: with an error what the device held is left behind, but for the *)
(* console's.                                                              *)
ShutdownEnd ==
  /\ fpc = "close" /\ FlGoes("off")
  /\ fwatch' = FALSE /\ fheld' = FALSE /\ fleft' = (fleft \/ (ferr /\ fkind # "cons"))
  /\ fmask' = (~ferr \/ fkind = "cons" \/ fmask) /\ ferr' = FALSE
  /\ FlRest /\ UNCHANGED <<fkind, fstate, fnode, ferrors>>

-----------------------------------------------------------------------------
(* The backend: it connects to a front end that is ready, mapping its      *)
(* pages, and follows it when it closes; it may also close by itself, or   *)
(* reconfigure a PCI front end.                                            *)
FlBackend ==
  /\ \/ fnode \in {Initialised, XbConnected} /\ fback = InitWait /\ fback' = XbConnected /\ fmapped' = fheld
     \/ fnode = Closing /\ fback < Closing /\ fback' = Closing /\ UNCHANGED fmapped
     \/ fnode = Closed /\ fback' = Closed /\ fmapped' = FALSE
     \/ fnode = Initialising /\ fback = Closed /\ fback' = InitWait /\ UNCHANGED fmapped
     \/ fkind = "pci" /\ fnode = Reconfiguring /\ fback = Reconfiguring /\ fback' = Reconfigured /\ UNCHANGED fmapped
     \/ fkind = "pci" /\ fnode = XbConnected /\ fback = Reconfigured /\ fback' = XbConnected /\ UNCHANGED fmapped
     \/ fnode = Closing /\ fback > Closed /\ fback' = Closing /\ UNCHANGED fmapped
  /\ fback # fback'
  /\ UNCHANGED <<flMine, fpc, fstate, ferr, ferrors, frounds>>
FlBackendActs ==
  /\ \/ fback \in {InitWait, XbConnected} /\ fnode \in {Initialised, XbConnected} /\ fback' = Closing
     \/ fkind = "pci" /\ fback = XbConnected /\ fnode = XbConnected /\ fback' = Reconfiguring
  /\ UNCHANGED <<flMine, fpc, fstate, ferr, ferrors, frounds, fmapped>>

-----------------------------------------------------------------------------
(* The drivers.                                                            *)
InitSteps == InitBegin \/ InitTransaction \/ InitBackend \/ InitWaitBackend \/ InitWaited
ShutdownSteps ==
  \/ TellClosing \/ AwaitClosing \/ TellClosed \/ AwaitClosed \/ TellInitialising \/ AwaitInitWait
  \/ ShutdownEnd

blkfront_init == fkind = "blk" /\ InitSteps
free_blkfront == fkind = "blk" /\ FlFree
blkfront_shutdown == fkind = "blk" /\ ShutdownSteps
netfront_init == fkind = "net" /\ InitSteps
free_netfront == fkind = "net" /\ FlFree
netfront_shutdown == fkind = "net" /\ ShutdownSteps
init_pcifront == fkind = "pci" /\ (InitSteps \/ InitNoBackend \/ PciSwitchFails)
free_pcifront == fkind = "pci" /\ FlFree
shutdown_pcifront == fkind = "pci" /\ ShutdownSteps
pcifront_watches == PciFollow \/ PciLost
init_consfront == fkind = "cons" /\ (InitSteps \/ InitNoBackend)
free_consfront == fkind = "cons" /\ (TellClosing \/ AwaitClosing \/ TellClosed \/ ShutdownEnd)
fini_console == fkind = "cons" /\ UserCloses

FlDriver ==
  \/ blkfront_init \/ free_blkfront \/ blkfront_shutdown \/ netfront_init \/ free_netfront \/ netfront_shutdown
  \/ init_pcifront \/ free_pcifront \/ shutdown_pcifront \/ pcifront_watches
  \/ init_consfront \/ free_consfront \/ fini_console \/ (fkind # "cons" /\ UserCloses)
FlNext == FlDriver \/ FlBackend \/ FlBackendActs
FlSpec == FlInit /\ [][FlNext]_flVars

(* The driver's thread runs, without a failure of xenstore having to come, *)
(* and the backend follows.                                                *)
FlRuns == FlDriver /\ ferrors' = ferrors
FlFairSpec == FlSpec /\ WF_flVars(FlRuns) /\ WF_flVars(FlBackend)

-----------------------------------------------------------------------------
(* The backend never has pages mapped that the front end gave up, unless   *)
(* xenstore failed or the backend closed while the front end was being     *)
(* initialised, which then gives up by itself; the console gives them up   *)
(* when it has said that it is closed.  A front end that is on is one      *)
(* whose backend it saw connected, with its event channel open and its     *)
(* watch set.                                                              *)
PagesInUse ==
  /\ ferrors = 0 /\ fmapped => fheld \/ (fback = Closing /\ fnode \in {Initialised, XbConnected})
                                     \/ (fkind = "cons" /\ fnode = Closed)
  /\ fpc = "on" => fheld /\ ~fmask /\ fwatch
  /\ fpc = "off" => ~fheld /\ ~fwatch

(* A shutdown ends, even if the backend closes at the same time.  (When    *)
(* the backend reconfigures it does not: the codes 7 and 8 count as being  *)
(* closed, and the backend is told three states in a row.)                 *)
ShutdownEnds == fpc = "shutdown" ~> (fpc = "off" \/ fback >= Reconfiguring)
=============================================================================
