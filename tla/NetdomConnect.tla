---------------------------- MODULE NetdomConnect ----------------------------
(***************************************************************************)
(* How application domains (platform/hw/xen/frontend.c) and the network    *)
(* server (platform/hw/xen/backend.c) find each other: registration with   *)
(* the hypervisor, the hello through a welcome port, the connection in a   *)
(* slot, the restart of the server and the reconnection.                   *)
(*                                                                         *)
(* Rings and hello ports of an application are named by the number of its  *)
(* connection attempt; a welcome port by the incarnation of the server and *)
(* its number there, a reconnect port by incarnation and slot.             *)
(***************************************************************************)
EXTENDS Integers, Sequences, FiniteSets

CONSTANTS
  Apps, NcNone, Ports,
  NumApps,      \* RUMPRUN_NUM_OF_APPS
  MaxRestarts,  \* bound: restarts of the server
  LastStart     \* bound: last incarnation of the server in which applications start

ASSUME ConnectAssumption ==
  /\ IsFiniteSet(Apps) /\ NcNone \notin Apps
  /\ NumApps \in Nat \ {0} /\ MaxRestarts \in Nat /\ LastStart \in Nat

VARIABLES
  xenInfo,    \* the hypervisor: backend_connect_t, a welcome port
  xenTable,   \* the hypervisor: registered frontend_connect_t's, in slot order
  portmap,    \* the hypervisor: the slot a TCP or UDP port is bound for, or -1
  binder,     \* the application that bound it
  epoch,      \* the incarnation of the server
  bpc,        \* backend_init: down, init, notify, run; halted
  serving,    \* backend_connect: 1 between the mapping and a new welcome port
  fdom,       \* frontend_dom
  recon,      \* reconnection
  welcomes,   \* welcome ports of the server: the applications bound to them
  rport,      \* reconnect_welcome_port: per slot, the hello port it is bound to
  toNotify,   \* slots that backend_init has to notify
  conn,       \* per slot: the rings that are mapped
  evb,        \* events pending at the server: its ports
  apc,        \* an application: off, queried, bound, registered, up, halted
  seen,       \* its network_dom_info
  rings,      \* its rings and
  hello,      \*   its hello port (app_dom_info)
  granted,    \* rings it grants access to
  reconnecters,
  ncRpc,        \* its reconnect thread: start, switch, blocked, work, swapped, told
  eva         \* events pending at the application: its hello ports

portVars == <<portmap, binder>>
xenVars == <<xenInfo, xenTable, portVars>>
serverVars == <<epoch, bpc, serving, fdom, recon, welcomes, rport, toNotify, conn>>
initVars == <<apc, seen>>
ncRingVars == <<rings, hello, granted>>
threadVars == <<reconnecters, ncRpc>>
ncVars == <<xenVars, serverVars, initVars, ncRingVars, threadVars, evb, eva>>

Slots == 0..NumApps
Entry(a, r, h) == [app |-> a, rings |-> r, hello |-> h]
SlotOf(a) == {i \in DOMAIN xenTable : xenTable[i].app = a}
Set(f, a, v) == [f EXCEPT ![a] = v]
Welcome(n) == <<"welcome", n>>
Reconnect(i) == <<"reconnect", i>>

(* RUMPRUN_SERVICE_REGISTER_APP: an application keeps its slot.            *)
Registered(a, h) ==
  IF SlotOf(a) = {} THEN Append(xenTable, Entry(a, rings[a], h))
  ELSE [i \in DOMAIN xenTable |->
          IF i \in SlotOf(a) THEN Entry(a, rings[a], h) ELSE xenTable[i]]

-----------------------------------------------------------------------------
(* frontend_init.                                                          *)

(* RUMPRUN_SERVICE_QUERY, frontend_init_ring, the threads are created.     *)
AppQuery(a) ==
  /\ apc[a] = "off" /\ epoch <= LastStart
  /\ IF xenInfo = NcNone
       THEN apc' = Set(apc, a, "halted") /\ UNCHANGED <<seen, ncRingVars>>
       ELSE /\ apc' = Set(apc, a, "queried") /\ seen' = Set(seen, a, xenInfo)
            /\ rings' = Set(rings, a, 1) /\ granted' = Set(granted, a, {1})
            /\ UNCHANGED hello
  /\ UNCHANGED <<xenVars, serverVars, threadVars, evb, eva>>

(* minios_evtchn_bind_interdomain: an unbound port of a living domain.     *)
Allocated(w) == w[1] = epoch /\ w[2] \in DOMAIN welcomes
Unbound(w) == Allocated(w) /\ welcomes[w[2]] = NcNone

AppBind(a) ==
  /\ apc[a] = "queried"
  /\ IF Unbound(seen[a])
       THEN welcomes' = Set(welcomes, seen[a][2], a) /\ apc' = Set(apc, a, "bound")
       ELSE UNCHANGED welcomes /\ apc' = Set(apc, a, "halted")
  /\ UNCHANGED <<xenVars, epoch, bpc, serving, fdom, recon, rport, toNotify, conn,
                 seen, ncRingVars, threadVars, evb, eva>>

(* The ports are allocated; RUMPRUN_SERVICE_REGISTER_APP.                  *)
AppRegister(a) ==
  /\ apc[a] = "bound"
  /\ IF Len(xenTable) < NumApps
       THEN /\ apc' = Set(apc, a, "registered") /\ hello' = Set(hello, a, 1)
            /\ xenTable' = Registered(a, 1)
       ELSE apc' = Set(apc, a, "halted") /\ UNCHANGED <<xenTable, hello>>
  /\ UNCHANGED <<xenInfo, portVars, serverVars, seen, rings, granted, threadVars,
                 evb, eva>>

(* frontend_portbind: HYPERVISOR_rumprun_port_bind.                        *)
PortBind(a, p) ==
  /\ apc[a] = "up" /\ portmap[p] = -1
  /\ \E i \in SlotOf(a) : portmap' = Set(portmap, p, i - 1)
  /\ binder' = Set(binder, p, a)
  /\ UNCHANGED <<xenInfo, xenTable, serverVars, initVars, ncRingVars, threadVars,
                 evb, eva>>

(* The hello; ports are unmasked.                                          *)
AppHello(a) ==
  /\ apc[a] = "registered"
  /\ evb' = IF Allocated(seen[a]) THEN evb \cup {Welcome(seen[a][2])} ELSE evb
  /\ apc' = Set(apc, a, "up")
  /\ UNCHANGED <<xenVars, serverVars, seen, ncRingVars, threadVars, eva>>

-----------------------------------------------------------------------------
(* frontend_reconnecter and its handler.                                   *)
RStore(a) ==
  /\ ncRpc[a] = "start" /\ rings[a] > 0
  /\ reconnecters' = Set(reconnecters, a, -1)
  /\ ncRpc' = Set(ncRpc, a, "switch")
  /\ UNCHANGED <<xenVars, serverVars, initVars, ncRingVars, evb, eva>>

RCallback(a) ==
  /\ ncRpc[a] = "switch"
  /\ IF reconnecters[a] = -1
       THEN reconnecters' = Set(reconnecters, a, 0) /\ ncRpc' = Set(ncRpc, a, "blocked")
       ELSE UNCHANGED reconnecters /\ ncRpc' = Set(ncRpc, a, "work")
  /\ UNCHANGED <<xenVars, serverVars, initVars, ncRingVars, evb, eva>>

(* The newest hello port is masked until the connection attempt is over.   *)
Unmasked(a, h) == apc[a] = "up" /\ (h < hello[a] \/ ncRpc[a] # "told")

(* frontend_hello_handler.  Mutant: no wakeup.                             *)
NeverWakes(old) == FALSE
Wakes(old) == old = 0

HelloHandler(a, h) ==
  /\ h \in eva[a] /\ Unmasked(a, h)
  /\ eva' = Set(eva, a, eva[a] \ {h})
  /\ reconnecters' = Set(reconnecters, a, 1)
  /\ ncRpc' = IF Wakes(reconnecters[a]) THEN Set(ncRpc, a, "work") ELSE ncRpc
  /\ UNCHANGED <<xenVars, serverVars, initVars, ncRingVars, evb>>

(* frontend_terminate_ring twice, RUMPRUN_SERVICE_QUERY, frontend_init_ring*)
(* twice, the rings are swapped.  A grant in use cannot be ended.          *)
Mapped(a) == {conn[i].rings : i \in {j \in Slots : conn[j].app = a}}
AfterTerminate(a) == granted[a] \ ({rings[a]} \ Mapped(a))

RSwap(a) ==
  /\ ncRpc[a] = "work"
  /\ granted' = Set(granted, a, AfterTerminate(a) \cup {rings[a] + 1})
  /\ rings' = Set(rings, a, rings[a] + 1)
  /\ seen' = Set(seen, a, xenInfo)
  /\ ncRpc' = Set(ncRpc, a, "swapped")
  /\ UNCHANGED <<xenVars, serverVars, apc, hello, reconnecters, evb, eva>>

(* New ports, RUMPRUN_SERVICE_REGISTER_APP.                                *)
RRegister(a) ==
  /\ ncRpc[a] = "swapped"
  /\ xenTable' = Registered(a, hello[a] + 1)
  /\ hello' = Set(hello, a, hello[a] + 1)
  /\ ncRpc' = Set(ncRpc, a, "told")
  /\ UNCHANGED <<xenInfo, portVars, serverVars, initVars, rings, granted,
                 reconnecters, evb, eva>>

(* The hello, through the old hello port.                                  *)
OldPort(a) == hello[a] - 1

RHello(a) ==
  /\ ncRpc[a] = "told"
  /\ evb' = evb \cup {Reconnect(i) :
                        i \in {j \in Slots : rport[j] = <<a, OldPort(a)>>}}
  /\ ncRpc' = Set(ncRpc, a, "start")
  /\ UNCHANGED <<xenVars, serverVars, initVars, ncRingVars, reconnecters, eva>>

-----------------------------------------------------------------------------
(* The server.                                                             *)
NoPorts == [i \in Slots |-> NcNone]
NoRings == [i \in Slots |-> Entry(NcNone, 0, 0)]

(* The server dies: the hypervisor closes its ports and unmaps the rings.  *)
Crash ==
  /\ bpc # "down" /\ epoch < MaxRestarts
  /\ epoch' = epoch + 1 /\ bpc' = "down" /\ serving' = 0
  /\ fdom' = 0 /\ recon' = 0
  /\ welcomes' = <<>> /\ rport' = NoPorts /\ toNotify' = {} /\ conn' = NoRings
  /\ evb' = {}
  /\ UNCHANGED <<xenVars, initVars, ncRingVars, threadVars, eva>>

(* backend_init: RUMPRUN_SERVICE_RECONNECT and a reconnect port for each   *)
(* registered application.                                                 *)
BackendFetch ==
  /\ bpc = "down"
  /\ rport' = [i \in Slots |->
       IF i + 1 \in DOMAIN xenTable
         THEN <<xenTable[i + 1].app, xenTable[i + 1].hello>> ELSE NcNone]
  /\ recon' = Len(xenTable)
  /\ toNotify' = {i \in Slots : i + 1 \in DOMAIN xenTable}
  /\ bpc' = "init"
  /\ UNCHANGED <<xenVars, epoch, serving, fdom, welcomes, conn, initVars, ncRingVars,
                 threadVars, evb, eva>>

(* backend_init: a welcome port unless there is somebody to reconnect      *)
(* (port 0 then), RUMPRUN_SERVICE_REGISTER; nobody is notified when all    *)
(* are reconnected already.                                                *)
BackendRegister ==
  /\ bpc = "init"
  /\ welcomes' = IF recon = 0 THEN Append(welcomes, NcNone) ELSE welcomes
  /\ xenInfo' = <<epoch, IF recon = 0 THEN Len(welcomes) + 1 ELSE 0>>
  /\ toNotify' = IF recon = 0 THEN {} ELSE toNotify
  /\ bpc' = "notify"
  /\ UNCHANGED <<xenTable, portVars, epoch, serving, fdom, recon, rport,
                 conn, initVars, ncRingVars, threadVars, evb, eva>>

BackendNotify(i) ==
  /\ bpc = "notify" /\ i \in toNotify
  /\ toNotify' = toNotify \ {i}
  /\ eva' = Set(eva, rport[i][1], eva[rport[i][1]] \cup {rport[i][2]})
  /\ UNCHANGED <<xenVars, epoch, bpc, serving, fdom, recon, welcomes, rport, conn, evb,
                 initVars, ncRingVars, threadVars>>

BackendUp ==
  /\ bpc = "notify" /\ toNotify = {}
  /\ bpc' = "run"
  /\ UNCHANGED <<xenVars, epoch, serving, fdom, recon, welcomes, rport, toNotify, conn,
                 evb, eva, initVars, ncRingVars, threadVars>>

(* Ports are unmasked as soon as they exist, reconnect ports before the    *)
(* server registers.                                                       *)
Listening(p) == bpc \in {"notify", "run"} \cup IF p[1] = "reconnect" THEN {"init"} ELSE {}

(* backend_connect's choice of a slot; get_dom fails for a port that is    *)
(* not a reconnect port.  Mutant: the next slot always.                    *)
NextSlot(p) == fdom
SlotFor(p) == IF recon > 0 THEN p[2] ELSE fdom

(* backend_welcome_handler, backend_connect up to the binding of the port. *)
(* Ends in a fault when nothing is registered in the slot.                 *)
BackendConnect(p) ==
  /\ Listening(p) /\ serving = 0 /\ p \in evb
  /\ evb' = evb \ {p}
  /\ fdom' = IF recon > 0 THEN fdom ELSE fdom + 1
  /\ IF \/ recon > 0 /\ p[1] # "reconnect"
        \/ SlotFor(p) > NumApps \/ SlotFor(p) + 1 \notin DOMAIN xenTable
       THEN bpc' = "halted" /\ UNCHANGED <<conn, serving>>
       ELSE /\ conn' = Set(conn, SlotFor(p), xenTable[SlotFor(p) + 1])
            /\ serving' = 1 /\ UNCHANGED bpc
  /\ UNCHANGED <<xenVars, epoch, recon, welcomes, rport, toNotify, initVars,
                 ncRingVars, threadVars, eva>>

(* backend_connect: a new welcome port when no reconnection is left to be  *)
(* made, RUMPRUN_SERVICE_REGISTER.                                         *)
LastConnect == recon <= 1

OneLess == IF recon = 0 THEN 0 ELSE recon - 1

BackendFinish ==
  /\ bpc # "halted" /\ serving = 1 /\ serving' = 0
  /\ IF LastConnect
       THEN /\ welcomes' = Append(welcomes, NcNone)
            /\ xenInfo' = <<epoch, Len(welcomes) + 1>>
       ELSE UNCHANGED <<welcomes, xenInfo>>
  /\ recon' = OneLess
  /\ UNCHANGED <<xenTable, portVars, epoch, bpc, fdom, rport, toNotify, conn, evb, eva,
                 initVars, ncRingVars, threadVars>>

(* backend_receive: the slots a packet for port p goes to (all for ARP and *)
(* broadcasts, p = NcNone); backend_forward_send drops it in slots without *)
(* rings.                                                                  *)
ForwardedTo(p) ==
  {i \in Slots : conn[i].app # NcNone /\ IF p = NcNone THEN i < fdom ELSE i = portmap[p]}

-----------------------------------------------------------------------------
NcInit ==
  /\ portmap = [p \in Ports |-> -1] /\ binder = [p \in Ports |-> NcNone]
  /\ xenInfo = NcNone /\ xenTable = <<>>
  /\ epoch = 0 /\ bpc = "down" /\ serving = 0 /\ fdom = 0 /\ recon = 0
  /\ welcomes = <<>> /\ rport = NoPorts /\ toNotify = {} /\ conn = NoRings
  /\ evb = {} /\ eva = [a \in Apps |-> {}]
  /\ apc = [a \in Apps |-> "off"] /\ seen = [a \in Apps |-> NcNone]
  /\ rings = [a \in Apps |-> 0] /\ hello = [a \in Apps |-> 0]
  /\ granted = [a \in Apps |-> {}]
  /\ reconnecters = [a \in Apps |-> 1] /\ ncRpc = [a \in Apps |-> "start"]

AppInit(a) == AppBind(a) \/ AppRegister(a) \/ AppHello(a)

Reconnecter(a) ==
  \/ RStore(a) \/ RCallback(a) \/ RSwap(a) \/ RRegister(a) \/ RHello(a)
  \/ \E h \in eva[a] : HelloHandler(a, h)

Server ==
  \/ BackendFetch \/ BackendRegister \/ BackendUp \/ BackendFinish
  \/ \E i \in toNotify : BackendNotify(i)
  \/ \E p \in evb : BackendConnect(p)

NcNext ==
  \/ \E a \in Apps : AppQuery(a) \/ AppInit(a) \/ Reconnecter(a)
  \/ \E a \in Apps, p \in Ports : PortBind(a, p)
  \/ Server \/ Crash

NcSpec == NcInit /\ [][NcNext]_ncVars

(* Threads run and events are delivered; nobody has to start or crash.     *)
NcFairSpec ==
  /\ NcSpec /\ WF_ncVars(Server)
  /\ \A a \in Apps : WF_ncVars(AppInit(a)) /\ WF_ncVars(Reconnecter(a))

-----------------------------------------------------------------------------
(* Properties.                                                             *)

Port == {"welcome", "reconnect"} \X Nat

(* The backend's slots are those of the hypervisor (which says by slot     *)
(* where the packets for a port go), with the rings the application uses   *)
(* and grants access to.                                                   *)
SlotsAgree ==
  \A i \in Slots : conn[i].app # NcNone =>
    /\ i + 1 \in SlotOf(conn[i].app)
    /\ conn[i].rings = rings[conn[i].app]
    /\ conn[i].rings \in granted[conn[i].app]

(* A packet for a port goes to the rings of the application that bound the *)
(* port and to no others, restarts or not.                                 *)
PacketsReachBinder ==
  \A p \in Ports : \A i \in ForwardedTo(p) :
    conn[i].app = binder[p] /\ conn[i].rings = rings[binder[p]]

(* Rings that an application does not use any more are not granted: it     *)
(* does not run out of grant entries however often it reconnects.          *)
NoGrantLeak == \A a \in Apps : granted[a] \subseteq {rings[a]}

Connected(a) == \E i \in Slots : conn[i].app = a /\ conn[i].rings = rings[a]

(* A hello that the server has taken has led to a connection with who sent *)
(* it: backend.c:402 "app_dom_info[] should be synchronized with           *)
(* app_data[] in Xen".                                                     *)
HelloAnswered ==
  \A a \in Apps :
    (apc[a] = "up" /\ seen[a][1] = epoch /\ Allocated(seen[a])
       /\ welcomes[seen[a][2]] = a /\ Welcome(seen[a][2]) \notin evb)
    => Connected(a)

(* An application that says hello gets connected, and one whose reconnect  *)
(* thread waits when the restarted server notifies it gets connected       *)
(* again, unless the server dies (once more).                              *)
Connects ==
  \A a \in Apps, e \in 0..MaxRestarts :
    /\ epoch = e
    /\ \/ apc[a] = "up" /\ seen[a][1] = e /\ Allocated(seen[a])
       \/ ncRpc[a] = "blocked" /\ eva[a] # {}
    ~> Connected(a) \/ epoch # e

(* The domains agree on who is connected: on the slots, on the rings that  *)
(* packets go to, on what is granted, and after a hello.                   *)
ConnectSound == SlotsAgree /\ PacketsReachBinder /\ NoGrantLeak /\ HelloAnswered

=============================================================================
