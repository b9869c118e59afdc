-------------------------------- MODULE VirtIf ---------------------------------
(***************************************************************************)
(* The virtual interface xenif0 of an application domain and the switch    *)
(* between network server and direct access: the service module of domain  *)
(* 0 (rumprun-utils), the event and the thread it wakes (frontend.c), the  *)
(* interface (librumpnet_xenif) and the ifconfig thread that configures    *)
(* the network card after a switch.  Threads run on several CPUs.          *)
(***************************************************************************)
EXTENDS Integers, Sequences, FiniteSets, SequencesExt

CONSTANTS
  ViDoms, ViApp,   \* application domains, and the one that is modelled
  ViApps,          \* RUMPRUN_NUM_OF_APPS
  ViMaxCalls,      \* bound: calls of rumprun_service
  ViMaxPackets     \* bound: packets in each direction

VARIABLES
  evtchn_table, viBound, viCalls,  \* the service module; ports bound in Xen
  viEvent, switchers, viSw, viTaken,  \* event pending; the switcher thread; event it owes a switch
  direct_access, phys_ifp, virt_ifp, viPhysUp, viMac,
  viIfd, ifconfigd_direct_access,  \* the ifconfig thread: [pc, lid, token]
  viIf, viRunning,                 \* life of the interface; IFF_RUNNING
  viRx, viReaders, frontend_terminating,   \* the receiver thread
  viTx, viSent, viGot, viEnds,     \* the sender; packets; what became of mbufs
  viLost, viFaults                 \* wake-ups nobody answers; bad accesses

viService == <<evtchn_table, viBound, viCalls>>
viSwitch == <<switchers, viSw, viTaken>>
viMode == <<direct_access, phys_ifp, viPhysUp, viMac>>
viConf == <<viIfd, ifconfigd_direct_access>>
viLife == <<viIf, viRunning, virt_ifp>>
viRecv == <<viRx, viReaders, frontend_terminating>>
viData == <<viTx, viSent, viGot, viEnds>>
viVars == <<viService, viEvent, viSwitch, viMode, viConf, viLife, viRecv, viData, viLost, viFaults>>

NoChannel == [domid |-> -1, port |-> -1]
FreeTable == [i \in 1..ViApps |-> NoChannel]      \* init_evtchn_table
Fate(m, what) == viEnds' = viEnds \cup {<<m, what>>}
Faulty(why) == viFaults' = viFaults \cup {why}

ViInit ==
  /\ evtchn_table = FreeTable /\ viBound = {} /\ viCalls = 0
  /\ viEvent = FALSE /\ switchers = 1 /\ viSw = "none" /\ viTaken = FALSE
  /\ direct_access = FALSE /\ phys_ifp \in BOOLEAN /\ virt_ifp = FALSE /\ viPhysUp = FALSE /\ viMac = "84"
  /\ viIfd = [pc |-> "none", lid |-> FALSE, token |-> FALSE] /\ ifconfigd_direct_access = FALSE
  /\ viIf = "none" /\ viRunning = FALSE
  /\ viRx = "none" /\ viReaders = 0 /\ frontend_terminating = FALSE
  /\ viTx = 0 /\ viSent = 0 /\ viGot = 0 /\ viEnds = {} /\ viLost = 0 /\ viFaults = {}

-----------------------------------------------------------------------------
(* rumprun_service_ioctl.  A port of another domain is bound once; the     *)
(* result of a bind that fails is entered like that of one that does not.  *)
Listening(d) == d # ViApp \/ viSw # "none"
set_evtchn(d, p) ==
  LET free == {i \in DOMAIN evtchn_table : evtchn_table[i].domid = -1}
  IN evtchn_table' = IF free = {} THEN evtchn_table
                     ELSE [evtchn_table EXCEPT ![CHOOSE i \in free : \A j \in free : i <= j] =
                             [domid |-> d, port |-> p]]
get_evtchn(d) ==
  LET i == SelectInSeq(evtchn_table, LAMBDA e : e.domid = d)
  IN IF i = 0 THEN -1 ELSE evtchn_table[i].port
service_call == viCalls < ViMaxCalls /\ viCalls' = viCalls + 1
service_cleanup ==
  /\ service_call /\ evtchn_table' = FreeTable
  /\ UNCHANGED <<viBound, viEvent, viSwitch, viMode, viConf, viLife, viRecv, viData, viLost, viFaults>>
service_bind(d) ==
  LET works == d \notin viBound /\ Listening(d)
  IN /\ service_call /\ set_evtchn(d, IF works THEN d ELSE -1)
     /\ viBound' = viBound \cup (IF works THEN {d} ELSE {})
     /\ UNCHANGED <<viEvent, viSwitch, viMode, viConf, viLife, viRecv, viData, viLost, viFaults>>
service_switch(d) ==
  /\ service_call
  /\ viEvent' = (viEvent \/ get_evtchn(d) = ViApp)
  /\ UNCHANGED <<evtchn_table, viBound, viSwitch, viMode, viConf, viLife, viRecv, viData, viLost, viFaults>>

-----------------------------------------------------------------------------
(* frontend_switch_handler, frontend_switcher and its callback.            *)
frontend_switch_handler ==
  /\ viEvent /\ viSw # "none" /\ viEvent' = FALSE
  /\ switchers' = 1 /\ viSw' = IF switchers = 0 THEN "woken" ELSE viSw
  /\ viTaken' = (viTaken \/ switchers # 1)
  /\ UNCHANGED <<viService, viMode, viConf, viLife, viRecv, viData, viLost, viFaults>>
SwitcherStep(from, to) == viSw = from /\ viSw' = to
SwitcherOnly == UNCHANGED <<viService, viEvent, viTaken, viMode, viConf, viLife, viRecv, viData, viLost, viFaults>>
AnnounceSleep == SwitcherStep("start", "block") /\ switchers' = -1 /\ SwitcherOnly
(* Mutant: the callback sleeps without asking for an event in between.     *)
AlwaysSleeps ==
  /\ viSw = "block" /\ switchers' = 0 /\ viSw' = "asleep"
  /\ SwitcherOnly
switch_callback ==
  /\ \/ SwitcherStep("block", "asleep") /\ switchers = -1 /\ switchers' = 0
     \/ SwitcherStep("block", "woken") /\ switchers # -1 /\ UNCHANGED switchers
  /\ SwitcherOnly
rump_virtif_switch ==
  /\ SwitcherStep("woken", "waker") /\ direct_access' = ~direct_access /\ viTaken' = FALSE
  /\ UNCHANGED <<viService, viEvent, switchers, phys_ifp, viPhysUp, viMac, viConf, viLife, viRecv, viData, viLost, viFaults>>
(* ifconfigd_waker: the thread is named by an identifier it stores itself; *)
(* an unpark of a thread that has been unparked already is not counted.    *)
ifconfigd_waker ==
  /\ SwitcherStep("waker", "start") /\ UNCHANGED viTaken
  /\ IF ~viIfd.lid \/ viIfd.token \/ viIfd.pc = "exited"
     THEN viLost' = viLost + 1 /\ UNCHANGED viIfd
     ELSE viIfd' = [viIfd EXCEPT !.token = TRUE] /\ UNCHANGED viLost
  /\ UNCHANGED <<viService, viEvent, switchers, viMode, ifconfigd_direct_access, viLife, viRecv, viData, viFaults>>

-----------------------------------------------------------------------------
(* The ifconfig program: main with -F brings xenif0 up and starts the      *)
(* thread; the thread sleeps and alternates between the two settings.  A   *)
(* setting that fails ends the program.                                    *)
IfdStep(from, to) == viIfd.pc = from /\ viIfd' = [viIfd EXCEPT !.pc = to]
IfdOnly == UNCHANGED <<viService, viEvent, viSwitch, phys_ifp, direct_access, viIf, virt_ifp, viRecv, viData, viLost, viFaults>>
ifconfig_main ==
  /\ viIf = "attached" /\ IfdStep("none", "new")
  /\ viRunning' = TRUE /\ ifconfigd_direct_access' = TRUE        \* virtif_init
  /\ IfdOnly /\ UNCHANGED <<viPhysUp, viMac>>
ifconfigd_start ==
  /\ viIfd.pc = "new" /\ viIfd' = [viIfd EXCEPT !.pc = "park", !.lid = TRUE]
  /\ IfdOnly /\ UNCHANGED <<viPhysUp, viMac, ifconfigd_direct_access, viRunning>>
ifconfigd_wakes ==
  /\ viIfd.pc = "park" /\ viIfd.token /\ viIfd' = [viIfd EXCEPT !.pc = "card", !.token = FALSE]
  /\ IfdOnly /\ UNCHANGED <<viPhysUp, viMac, ifconfigd_direct_access, viRunning>>
ifconfigd_card ==
  /\ \/ IfdStep("card", "mac") /\ phys_ifp /\ viPhysUp' = ifconfigd_direct_access
     \/ IfdStep("card", "exited") /\ UNCHANGED viPhysUp
  /\ IfdOnly /\ UNCHANGED <<viMac, ifconfigd_direct_access, viRunning>>
ifconfigd_mac ==
  /\ \/ /\ IfdStep("mac", "park") /\ viIf = "attached"
        /\ viMac' = (IF ifconfigd_direct_access THEN "85" ELSE "84")
        /\ ifconfigd_direct_access' = ~ifconfigd_direct_access
     \/ IfdStep("mac", "exited") /\ UNCHANGED <<viMac, ifconfigd_direct_access>>
  /\ IfdOnly /\ UNCHANGED <<viPhysUp, viRunning>>
ifconfig == ifconfig_main \/ ifconfigd_start \/ ifconfigd_wakes \/ ifconfigd_card \/ ifconfigd_mac

-----------------------------------------------------------------------------
(* virtif_clone: VIFHYPER_CREATE starts the receiver and the switcher and  *)
(* opens the port of the switch before the interface is attached, which    *)
(* sets virt_ifp.  virtif_unclone: the receiver is told to end and joined  *)
(* before the interface is freed; virt_ifp stays.                          *)
LifeOnly == UNCHANGED <<viService, viEvent, viMode, viConf, viData, viLost, viFaults>>
VIFHYPER_CREATE ==
  /\ viIf = "none"
  /\ \/ viIf' = "failed" /\ UNCHANGED <<viRx, viReaders, switchers, viSw>>   \* no memory
     \/ viIf' = "created" /\ viRx' = "start" /\ viReaders' = 0 /\ switchers' = 1 /\ viSw' = "start"
  /\ LifeOnly /\ UNCHANGED <<viRunning, virt_ifp, frontend_terminating, viTaken>>
virtif_clone ==
  /\ viIf = "created" /\ viIf' = "attached" /\ virt_ifp' = TRUE
  /\ LifeOnly /\ UNCHANGED <<viRunning, viRecv, viSwitch>>
VIFHYPER_DYING ==
  /\ viIf = "attached" /\ viIf' = "dying" /\ frontend_terminating' = TRUE
  /\ viReaders' = 1 /\ viRx' = IF viReaders = 0 /\ viRx = "asleep" THEN "woken" ELSE viRx
  /\ LifeOnly /\ UNCHANGED <<viRunning, virt_ifp, viSwitch>>
virtif_stop ==
  /\ viIf = "dying" /\ viIf' = "joining" /\ viRunning' = FALSE
  /\ LifeOnly /\ UNCHANGED <<virt_ifp, viRecv, viSwitch>>
VIFHYPER_DESTROY ==
  /\ viIf = "joining" /\ viRx = "exited" /\ viIf' = "freed"
  /\ LifeOnly /\ UNCHANGED <<viRunning, virt_ifp, viRecv, viSwitch>>
life == VIFHYPER_CREATE \/ virtif_clone \/ VIFHYPER_DYING \/ virtif_stop \/ VIFHYPER_DESTROY

-----------------------------------------------------------------------------
(* frontend_receiver.  It asks for frontend_terminating when it begins and *)
(* when it has slept, and hands packets to rump_virtif_pktdeliver.         *)
RxOnly == UNCHANGED <<viService, viEvent, viSwitch, viMode, viConf, viLife, frontend_terminating, viTx, viSent, viLost>>
RxStep(from, to) == viRx = from /\ viRx' = to
ReceiverStarts ==
  /\ RxStep("start", IF frontend_terminating THEN "exited" ELSE "run")
  /\ viReaders' = IF frontend_terminating THEN viReaders ELSE 1
  /\ RxOnly /\ UNCHANGED <<viGot, viEnds, viFaults>>
(* rump_virtif_pktdeliver: dropped unless the interface runs and there is  *)
(* an mbuf for a copy.                                                     *)
rump_virtif_pktdeliver ==
  /\ viRx \in {"run", "last"} /\ viRx' = "run" /\ viGot < ViMaxPackets /\ viGot' = viGot + 1
  /\ IF viIf = "freed" THEN Faulty("receiver") ELSE UNCHANGED viFaults
  /\ \/ viRunning /\ Fate(<<"rx", viGot>>, "stack")
     \/ UNCHANGED viEnds
  /\ RxOnly /\ UNCHANGED viReaders
ReceiverIdle ==
  /\ RxStep("run", "last") /\ viReaders' = -1
  /\ RxOnly /\ UNCHANGED <<viGot, viEnds, viFaults>>
receiver_callback ==
  /\ \/ RxStep("last", "asleep") /\ viReaders = -1 /\ viReaders' = 0
     \/ RxStep("last", "woken") /\ viReaders # -1 /\ UNCHANGED viReaders
  /\ RxOnly /\ UNCHANGED <<viGot, viEnds, viFaults>>
frontend_interrupt_handler ==      \* the peer has posted a packet
  /\ viGot < ViMaxPackets /\ viRx # "none" /\ viReaders' = 1
  /\ viRx' = IF viReaders = 0 /\ viRx = "asleep" THEN "woken" ELSE viRx
  /\ RxOnly /\ UNCHANGED <<viGot, viEnds, viFaults>>
ReceiverWoken ==
  /\ RxStep("woken", IF frontend_terminating THEN "exited" ELSE "run")
  /\ RxOnly /\ UNCHANGED <<viReaders, viGot, viEnds, viFaults>>
receiver == ReceiverStarts \/ rump_virtif_pktdeliver \/ ReceiverIdle \/ receiver_callback
            \/ frontend_interrupt_handler \/ ReceiverWoken

-----------------------------------------------------------------------------
(* virtif_start and VIFHYPER_SEND: the mode is read once per packet; with  *)
(* direct access the card has the mbuf, or nobody has if the card is not   *)
(* running; otherwise it is copied and freed.                              *)
DataOnly == UNCHANGED <<viService, viEvent, viSwitch, viMode, viConf, viLife, viRecv, viLost>>
virtif_start ==
  /\ viTx = 0 /\ viSent < ViMaxPackets /\ viRunning /\ viIf = "attached"
  /\ viSent' = viSent + 1
  /\ viTx' = (IF direct_access THEN 2 ELSE 1)
  /\ DataOnly /\ UNCHANGED <<viGot, viEnds, viFaults>>
rump_virtif_pktforward_direct ==
  /\ viTx = 2 /\ viTx' = 0
  /\ \/ phys_ifp /\ viPhysUp /\ Fate(<<"tx", viSent>>, "card") /\ UNCHANGED viFaults
     \/ phys_ifp /\ ~viPhysUp /\ UNCHANGED <<viEnds, viFaults>>
     \/ ~phys_ifp /\ Faulty("no card") /\ UNCHANGED viEnds
  /\ DataOnly /\ UNCHANGED <<viSent, viGot>>
SendCopy ==
  /\ viTx = 1 /\ viTx' = 0 /\ Fate(<<"tx", viSent>>, "freed")
  /\ DataOnly /\ UNCHANGED <<viSent, viGot, viFaults>>
rump_virtif_pktdeliver_direct ==
  LET there == virt_ifp /\ viIf # "freed"
  IN \/ there /\ viRunning /\ Fate(<<"rx", viGot>>, "stack") /\ UNCHANGED viFaults
     \/ there /\ ~viRunning /\ UNCHANGED <<viEnds, viFaults>>
     \/ ~there /\ Faulty("no interface") /\ UNCHANGED viEnds
(* rumpuser_network_receive, called by the driver of the card.             *)
rumpuser_network_receive ==
  /\ phys_ifp /\ viPhysUp /\ viGot < ViMaxPackets /\ viGot' = viGot + 1
  /\ IF direct_access
     THEN rump_virtif_pktdeliver_direct
     ELSE Fate(<<"rx", viGot>>, "card's stack") /\ UNCHANGED viFaults
  /\ DataOnly /\ UNCHANGED <<viTx, viSent>>
data == virtif_start \/ rump_virtif_pktforward_direct \/ SendCopy \/ rumpuser_network_receive

ViNext ==
  \/ service_cleanup \/ \E d \in ViDoms : service_bind(d) \/ service_switch(d)
  \/ frontend_switch_handler \/ AnnounceSleep \/ switch_callback \/ rump_virtif_switch \/ ifconfigd_waker
  \/ ifconfig \/ life \/ receiver \/ data
ViSpec == ViInit /\ [][ViNext]_viVars

-----------------------------------------------------------------------------
Settled == ~viEvent /\ viSw = "asleep" /\ viIfd.pc = "park" /\ ~viIfd.token
Agreeing == viPhysUp = direct_access /\ viMac = (IF direct_access THEN "85" ELSE "84")

(* The switcher never sleeps on an event its handler has taken since it    *)
(* last went to sleep; when every thread has come to rest, the card is up  *)
(* and the address is that of the card exactly in direct access, unless a  *)
(* wake-up found the ifconfig thread not started or not yet done with the  *)
(* last one; the receiver never uses a freed interface, the card's driver  *)
(* finds none only after it was freed, and a packet for a card that is not *)
(* there takes a switch in a domain without one; no mbuf is disposed of    *)
(* twice; a port that is entered belongs to the domain it is entered for.  *)
SwitchSound ==
  /\ viSw = "asleep" => switchers = 0 /\ ~viTaken
  /\ Settled /\ viLost = 0 => Agreeing
  /\ "receiver" \notin viFaults /\ ("no card" \in viFaults => ~phys_ifp)
  /\ ("no interface" \in viFaults => viIf = "freed")
  /\ \A e, f \in viEnds : e[1] = f[1] => e = f
  /\ \A i \in DOMAIN evtchn_table : evtchn_table[i].port >= 0 =>
       evtchn_table[i].port = evtchn_table[i].domid /\ evtchn_table[i].domid \in viBound

(* ifconfig.c says of its flag that it is 1 for up and 0 for down: at rest *)
(* the card is up exactly in direct access, whatever the number of         *)
(* switches.                                                               *)
CardFollowsMode == Settled => Agreeing
================================================================================
