------------------------------- MODULE XenDev ---------------------------------
(***************************************************************************)
(* The devices that hand xenstore and event channels to programs           *)
(* (librumpxen_xendev).                                                    *)
(***************************************************************************)
EXTENDS Integers, Sequences, FiniteSets

(***************************************************************************)
(* /dev/xen/xenbus: librumpxen_xendev/busdev.c and busdev_user.c.  The     *)
(* program writes xenstore requests to the file and reads replies and      *)
(* watch events; what it leaves behind is undone when the file is closed.  *)
(*                                                                         *)
(* One file, one writing thread and the threads of BdReaders.  A message   *)
(* has up to three parts that reads take one or two at a time.  Xenstored  *)
(* answers in order; its messages go straight into du->replies (xenbus.c   *)
(* passes them on in order, see XenStore).  Threads switch only where they *)
(* block.                                                                  *)
(***************************************************************************)

CONSTANTS
  BdReaders,
  BdWatches, BdTrans,   \* objects the file may allocate
  BdRequests,           \* bound: requests written
  BdEvents,             \* bound: watch events
  BdFails               \* bound: allocations that fail

VARIABLES
  bdOpen,               \* "open", "closing" or "closed"
  bdLock,               \* thread that holds dd->lock
  outstanding_requests,
  bdWatch,              \* per watch: "free", "hidden" or "visible" (listed)
  bdTx,                 \* per transaction: "free", "asked", "listed" or "ending"
  bdWrong,              \* transactions whose tx_id was parsed wrong
  bdWire,               \* requests xenstored has not answered
  bdReplies,            \* du->replies
  bdResid,              \* requests of the write call not yet processed
  rmsg, rmsg_done,
  queued_enomem, want_restart,
  bdr,                  \* per reader: where it is, what it asked for
  bdStore,              \* xenstored: watches and transactions of this file
  bdMade, bdFired, bdFailed

bdObj == <<outstanding_requests, bdWatch, bdTx, bdWrong, bdWire>>
bdMsg == <<rmsg, rmsg_done, queued_enomem>>
bdCount == <<bdMade, bdFired>>
bdVars == <<bdOpen, bdLock, bdObj, bdReplies, bdResid, bdMsg, want_restart, bdr, bdStore, bdCount, bdFailed>>

BdNone == "none"
NoMsg == [type |-> "none", obj |-> BdNone, ok |-> FALSE]
PartsOf(m) == IF m.type = "read" THEN 3 ELSE 1

(* rumpxenbus_dev_user_open, xenbus_dev_open.                              *)
BdInit ==
  /\ bdOpen = "open" /\ bdLock = BdNone /\ outstanding_requests = 0
  /\ bdWatch = [w \in BdWatches |-> "free"] /\ bdTx = [t \in BdTrans |-> "free"]
  /\ bdWrong = {} /\ bdWire = <<>> /\ bdReplies = <<>> /\ bdResid = <<>>
  /\ rmsg = NoMsg /\ rmsg_done = 0 /\ queued_enomem = FALSE /\ want_restart = FALSE
  /\ bdr = [r \in BdReaders |-> [pc |-> "idle", left |-> 0, org |-> 0, nonblock |-> FALSE]]
  /\ bdStore = {} /\ bdMade = 0 /\ bdFired = 0 /\ bdFailed = 0

-----------------------------------------------------------------------------
(* Requests, each about an object or BdNone.                               *)
Req(type, obj) == [type |-> type, obj |-> obj]

(* make_request, after the objects of the request became w and t.          *)
make_request(q, w, t) ==
  /\ outstanding_requests' = outstanding_requests + Len(q)
  /\ bdWire' = bdWire \o q /\ bdWatch' = w /\ bdTx' = t /\ UNCHANGED bdWrong

Known == {t \in BdTrans : bdTx[t] = "listed" /\ t \notin bdWrong}   \* find_transaction
FreeOf(f) == {x \in DOMAIN f : f[x] = "free"}

(* rumpxenbus_process_request for one type each, ...                       *)
Forward == \E x \in Known \cup {BdNone} : make_request(<<Req("read", x)>>, bdWatch, bdTx)
TransactionStart == \E t \in FreeOf(bdTx) :
  make_request(<<Req("start", t)>>, bdWatch, [bdTx EXCEPT ![t] = "asked"])
TransactionEnd == \E t \in Known :
  make_request(<<Req("end", t)>>, bdWatch, [bdTx EXCEPT ![t] = "ending"])
Watch == \E w \in FreeOf(bdWatch) :
  make_request(<<Req("watch", w)>>, [bdWatch EXCEPT ![w] = "hidden"], bdTx)
(* Mutant: a watch whose request is under way can be unwatched.            *)
AnyWatch == {w \in BdWatches : bdWatch[w] # "free"}
find_visible_watch == {w \in BdWatches : bdWatch[w] = "visible"}
Unwatch == \E w \in find_visible_watch :
  make_request(<<Req("unwatch", w)>>, [bdWatch EXCEPT ![w] = "hidden"], bdTx)

(* ... and the requests that fail: WTROUBLE drops what the call has still  *)
(* to write, and so does an allocation that fails.                         *)
Processed(type) ==
  CASE type = "read" -> Forward
    [] type = "start" -> TransactionStart
    [] type = "end" -> TransactionEnd
    [] type = "watch" -> Watch
    [] type = "unwatch" -> Unwatch
Trouble(type) ==
  \/ type = "bad" /\ UNCHANGED bdFailed
  \/ type = "end" /\ Known = {} /\ UNCHANGED bdFailed
  \/ type = "unwatch" /\ find_visible_watch = {} /\ UNCHANGED bdFailed
  \/ bdFailed < BdFails /\ bdFailed' = bdFailed + 1

Types == {"read", "start", "end", "watch", "unwatch", "bad"}

xenbus_dev_write ==
  /\ bdOpen = "open" /\ bdLock = BdNone /\ bdResid = <<>>
  /\ \E q \in {<<a>> : a \in Types} \cup {<<a, b>> : a, b \in Types} :
       bdMade + Len(q) <= BdRequests /\ bdResid' = q /\ bdMade' = bdMade + Len(q)
  /\ bdLock' = "writer"
  /\ UNCHANGED <<bdOpen, bdObj, bdReplies, bdMsg, want_restart, bdr, bdStore, bdFired, bdFailed>>
WriteNext ==
  /\ bdLock = "writer" /\ bdResid # <<>>
  /\ \/ Head(bdResid) # "bad" /\ Processed(Head(bdResid)) /\ bdResid' = Tail(bdResid) /\ UNCHANGED bdFailed
     \/ Trouble(Head(bdResid)) /\ bdResid' = <<>> /\ UNCHANGED bdObj
  /\ UNCHANGED <<bdOpen, bdLock, bdReplies, bdMsg, want_restart, bdr, bdStore, bdCount>>
WriteEnd ==
  /\ bdLock = "writer" /\ bdResid = <<>> /\ bdLock' = BdNone
  /\ UNCHANGED <<bdOpen, bdObj, bdReplies, bdResid, bdMsg, want_restart, bdr, bdStore, bdCount, bdFailed>>

-----------------------------------------------------------------------------
(* process_response: what the reply m of a request does to its object.     *)
(* The id of a new transaction is parsed from the address of the pointer   *)
(* instead of the message: any number.                                     *)
process_response(m) ==
  /\ outstanding_requests' = outstanding_requests - 1 /\ UNCHANGED bdWire
  /\ bdWatch' = CASE m.type = "watch" /\ m.ok -> [bdWatch EXCEPT ![m.obj] = "visible"]
                  [] m.type = "unwatch" \/ (m.type = "watch" /\ ~m.ok) -> [bdWatch EXCEPT ![m.obj] = "free"]
                  [] OTHER -> bdWatch
  /\ CASE m.type = "start" /\ m.ok -> /\ bdTx' = [bdTx EXCEPT ![m.obj] = "listed"]
                                      /\ bdWrong' \in {bdWrong, bdWrong \cup {m.obj}}
       [] m.type = "end" -> bdTx' = [bdTx EXCEPT ![m.obj] = "free"] /\ bdWrong' = bdWrong \ {m.obj}
       [] OTHER -> UNCHANGED <<bdTx, bdWrong>>

(* process_event for the first event.                                      *)
process_event ==
  /\ bdReplies' = Tail(bdReplies)
  /\ IF Head(bdReplies).type = "event" THEN UNCHANGED bdObj ELSE process_response(Head(bdReplies))

Returns(r) == bdr' = [bdr EXCEPT ![r].pc = "idle"] /\ bdLock' = BdNone

xenbus_dev_read(r) ==
  /\ bdOpen = "open" /\ bdLock = BdNone /\ bdr[r].pc = "idle"
  /\ \E n \in 1..2, nb \in BOOLEAN :
       bdr' = [bdr EXCEPT ![r] = [pc |-> "loop", left |-> n, org |-> n, nonblock |-> nb]]
  /\ bdLock' = r
  /\ UNCHANGED <<bdOpen, bdObj, bdReplies, bdResid, bdMsg, want_restart, bdStore, bdCount, bdFailed>>

At(r, pc) == bdr[r].pc = pc /\ bdLock = r

err_if_block(r) == want_restart \/ bdr[r].nonblock

(* The read ends: out of memory, enough read, or nothing there.            *)
ReadEnds(r) ==
  /\ At(r, "loop")
  /\ \/ queued_enomem /\ queued_enomem' = (bdr[r].left # bdr[r].org)
     \/ ~queued_enomem /\ bdr[r].left = 0 /\ UNCHANGED queued_enomem
     \/ ~queued_enomem /\ rmsg = NoMsg /\ bdReplies = <<>> /\ err_if_block(r) /\ UNCHANGED queued_enomem
  /\ Returns(r)
  /\ UNCHANGED <<bdOpen, bdObj, bdReplies, bdResid, rmsg, rmsg_done, want_restart, bdStore, bdCount, bdFailed>>

(* rumpxenbus_next_event_msg, the reader in it ("next") or on its way.     *)
WantsEvent(r) == \/ At(r, "next")
                 \/ At(r, "loop") /\ ~queued_enomem /\ bdr[r].left > 0 /\ rmsg = NoMsg
ReadEvent(r) ==
  /\ WantsEvent(r) /\ bdReplies # <<>> /\ process_event /\ rmsg' = Head(bdReplies)
  /\ bdr' = [bdr EXCEPT ![r].pc = "loop"]
  /\ UNCHANGED <<bdOpen, bdLock, bdResid, rmsg_done, queued_enomem, want_restart, bdStore, bdCount, bdFailed>>
(* process_watch_event finds no memory for the message.                    *)
ReadNoMemory(r) ==
  /\ WantsEvent(r) /\ bdReplies # <<>> /\ Head(bdReplies).type = "event"
  /\ bdReplies' = Tail(bdReplies) /\ UNCHANGED bdObj /\ rmsg' = NoMsg
  /\ bdFailed < BdFails /\ bdFailed' = bdFailed + 1 /\ queued_enomem' = TRUE /\ Returns(r)
  /\ UNCHANGED <<bdOpen, bdResid, rmsg_done, want_restart, bdStore, bdCount>>
ReadBlocks(r) ==
  /\ WantsEvent(r) /\ bdReplies = <<>> /\ (err_if_block(r) => bdr[r].pc = "next")
  /\ bdr' = [bdr EXCEPT ![r].pc = "asleep"] /\ bdLock' = BdNone    \* rumpxenbus_block_before
  /\ UNCHANGED <<bdOpen, bdObj, bdReplies, bdResid, bdMsg, want_restart, bdStore, bdCount, bdFailed>>
ReadWakes(r) ==
  /\ bdr[r].pc = "woken" /\ bdLock = BdNone                        \* rumpxenbus_block_after
  /\ bdr' = [bdr EXCEPT ![r].pc = "next"] /\ bdLock' = r
  /\ UNCHANGED <<bdOpen, bdObj, bdReplies, bdResid, bdMsg, want_restart, bdStore, bdCount, bdFailed>>

ReadCopies(r) ==
  /\ At(r, "loop") /\ ~queued_enomem /\ bdr[r].left > 0 /\ rmsg # NoMsg
  /\ LET n == IF bdr[r].left < PartsOf(rmsg) - rmsg_done THEN bdr[r].left ELSE PartsOf(rmsg) - rmsg_done IN
     /\ bdr' = [bdr EXCEPT ![r].left = @ - n]
     /\ IF rmsg_done + n = PartsOf(rmsg) THEN rmsg' = NoMsg /\ rmsg_done' = 0
        ELSE rmsg' = rmsg /\ rmsg_done' = rmsg_done + n
  /\ UNCHANGED <<bdOpen, bdLock, bdObj, bdReplies, bdResid, queued_enomem, want_restart, bdStore, bdCount, bdFailed>>

(* minios_wake_up of du->replies.waitq, by xenbus_dev_xb_wakeup or         *)
(* rumpxenbus_dev_restart_wakeup.                                          *)
Woken == [r \in BdReaders |-> IF bdr[r].pc = "asleep" THEN [bdr[r] EXCEPT !.pc = "woken"] ELSE bdr[r]]

xenbus_dev_restart ==
  /\ bdOpen = "open" /\ bdLock = BdNone /\ ~want_restart
  /\ want_restart' = TRUE /\ bdr' = Woken
  /\ UNCHANGED <<bdOpen, bdLock, bdObj, bdReplies, bdResid, bdMsg, bdStore, bdCount, bdFailed>>

-----------------------------------------------------------------------------
(* xenbus_dev_close and rumpxenbus_dev_user_shutdown: what is visible and  *)
(* listed is undone, until no request is outstanding.                      *)
xenbus_dev_close ==
  /\ bdOpen = "open" /\ bdLock = BdNone /\ \A r \in BdReaders : bdr[r].pc = "idle"
  /\ bdOpen' = "closing" /\ bdLock' = "closer" /\ rmsg' = NoMsg
  /\ UNCHANGED <<bdObj, bdReplies, bdResid, rmsg_done, queued_enomem, want_restart, bdr, bdStore, bdCount, bdFailed>>

Listed == {t \in BdTrans : bdTx[t] = "listed"}
Leftover == find_visible_watch \cup Listed

UndoOne ==
  /\ bdOpen = "closing"
  /\ \/ \E w \in find_visible_watch :
          make_request(<<Req("unwatch", w)>>, [bdWatch EXCEPT ![w] = "hidden"], bdTx)
     \/ \E t \in Listed :
          make_request(<<Req("end", t)>>, bdWatch, [bdTx EXCEPT ![t] = "ending"])
  /\ UNCHANGED <<bdOpen, bdLock, bdReplies, bdResid, bdMsg, want_restart, bdr, bdStore, bdCount, bdFailed>>
Discard ==
  /\ bdOpen = "closing" /\ Leftover = {} /\ outstanding_requests > 0 /\ bdReplies # <<>>
  /\ process_event
  /\ UNCHANGED <<bdOpen, bdLock, bdResid, bdMsg, want_restart, bdr, bdStore, bdCount, bdFailed>>
CloseDone ==
  /\ bdOpen = "closing" /\ Leftover = {} /\ outstanding_requests = 0
  /\ bdOpen' = "closed"
  /\ UNCHANGED <<bdLock, bdObj, bdReplies, bdResid, bdMsg, want_restart, bdr, bdStore, bdCount, bdFailed>>

-----------------------------------------------------------------------------
(* Xenstored answers the first request; it knows a transaction by the id   *)
(* it gave it, and an "unwatch" it can always do.                          *)
Succeeds(m, ok) ==
  CASE m.type = "end" -> ok = (m.obj \notin bdWrong)
    [] m.type = "unwatch" -> ok = TRUE
    [] OTHER -> ok \in BOOLEAN
XenstoredAnswers ==
  /\ bdWire # <<>>
  /\ LET m == Head(bdWire) IN \E ok \in BOOLEAN :
       /\ Succeeds(m, ok)
       /\ bdReplies' = Append(bdReplies, [type |-> m.type, obj |-> m.obj, ok |-> ok])
       /\ bdStore' = IF ok /\ m.type \in {"watch", "start"} THEN bdStore \cup {m.obj}
                     ELSE IF ok /\ m.type \in {"unwatch", "end"} THEN bdStore \ {m.obj} ELSE bdStore
  /\ bdWire' = Tail(bdWire) /\ bdr' = Woken
  /\ UNCHANGED <<bdOpen, bdLock, outstanding_requests, bdWatch, bdTx, bdWrong, bdResid, bdMsg, want_restart, bdCount, bdFailed>>
XenstoredFires ==
  /\ bdFired < BdEvents /\ bdFired' = bdFired + 1
  /\ \E w \in bdStore \cap BdWatches :
       bdReplies' = Append(bdReplies, [type |-> "event", obj |-> w, ok |-> TRUE])
  /\ bdr' = Woken
  /\ UNCHANGED <<bdOpen, bdLock, bdObj, bdResid, bdMsg, want_restart, bdStore, bdMade, bdFailed>>

BdNext ==
  \/ xenbus_dev_write \/ WriteNext \/ WriteEnd \/ xenbus_dev_restart
  \/ xenbus_dev_close \/ UndoOne \/ Discard \/ CloseDone \/ XenstoredAnswers \/ XenstoredFires
  \/ \E r \in BdReaders : \/ xenbus_dev_read(r) \/ ReadEnds(r) \/ ReadEvent(r) \/ ReadNoMemory(r)
                          \/ ReadBlocks(r)
                          \/ ReadWakes(r) \/ ReadCopies(r)

BdSpec == BdInit /\ [][BdNext]_bdVars

-----------------------------------------------------------------------------
BdMentions(q, x) == {i \in DOMAIN q : q[i].obj = x /\ q[i].type # "event"}

(* The accounts of the file and of xenstored agree.  Every request is      *)
(* counted until its reply is processed; an object that is hidden, asked   *)
(* for or ending has exactly one request under way and no other object     *)
(* has one that could free it; no event queued belongs to a watch that     *)
(* was freed; a visible watch is set at xenstored; a message half read is  *)
(* the one to go on with; and once the file is closed, nothing of it       *)
(* remains, there or here, but transactions whose number was parsed wrong. *)
BusSound ==
  /\ outstanding_requests = Len(bdWire) + Cardinality({i \in DOMAIN bdReplies : bdReplies[i].type # "event"})
  /\ \A w \in BdWatches :
       /\ Cardinality(BdMentions(bdWire, w)) + Cardinality(BdMentions(bdReplies, w))
            = IF bdWatch[w] = "hidden" THEN 1 ELSE 0
       /\ bdWatch[w] = "visible" => w \in bdStore
       /\ bdWatch[w] = "free" => \A i \in DOMAIN bdReplies : bdReplies[i].obj # w
  /\ rmsg_done > 0 => rmsg.type = "read" \/ bdOpen # "open"
  /\ bdOpen = "closed" => bdStore \subseteq BdTrans /\ bdReplies = <<>> /\ bdWire = <<>>

-----------------------------------------------------------------------------
(***************************************************************************)
(* The event channels of the Xen platform (platform/xen/xen/events.c) and  *)
(* the device that hands them to programs (librumpxen_xendev/evtdev.c).    *)
(* The interrupt handler masks a port and puts it into a ring; the thread  *)
(* "xenevt" moves it to the ring of the file that bound the port; the      *)
(* program reads it there and writes it back to have it unmasked.          *)
(*                                                                         *)
(* One CPU, and threads switch only where they block: but for interrupts a *)
(* handler is one step.                                                    *)
(***************************************************************************)

CONSTANTS
  EvPorts, EvFiles,
  EvSize,          \* EVTDEV_RING_SIZE
  EvSignals        \* bound: events sent by the other ends

NoFile == "none"
NoPort == "none"

VARIABLES
  evXen,           \* ports Xen has allocated to this domain
  evHandler,       \* ev_actions: "default", "evtdev" or "driver"
  evMask, evPend,  \* bits of the shared page
  devevents,       \* file that bound the port
  evRing, evProd, evCons,   \* xenevt_ring
  evt,             \* the xenevt thread
  evf,             \* per file: struct xenevt_dev_data, and its reader
  evMid,           \* port of an UNBIND in progress
  evHas,           \* per file: ports the program knows to be masked
  evDrop,          \* ports whose event found xenevt_ring full
  evSent           \* events so far

evChans == <<evXen, evHandler, evMask, evPend, devevents>>
evKern == <<evRing, evProd, evCons, evDrop>>
evVars == <<evChans, evKern, evt, evf, evMid, evHas, evSent>>

EvSlots == 0..(EvSize - 1)
EvMASK(n) == n % EvSize
NewFile == [open |-> TRUE, ring |-> [i \in EvSlots |-> NoPort], prod |-> 0, cons |-> 0,
            over |-> FALSE, reader |-> "none"]

(* init_events, xenevt_dev_init.                                           *)
EvInit ==
  /\ evXen = {} /\ evHandler = [p \in EvPorts |-> "default"]
  /\ evMask = [p \in EvPorts |-> TRUE] /\ evPend = [p \in EvPorts |-> FALSE]
  /\ devevents = [p \in EvPorts |-> NoFile]
  /\ evRing = [i \in EvSlots |-> NoPort] /\ evProd = 0 /\ evCons = 0 /\ evDrop = {}
  /\ evt = [pc |-> "check", prod |-> 0, cons |-> 0]
  /\ evf = [f \in EvFiles |-> [NewFile EXCEPT !.open = FALSE]]
  /\ evMid = NoPort /\ evHas = [f \in EvFiles |-> {}] /\ evSent = 0

Halted == evt.pc \in {"panic", "stopped"}
CpuFree == evt.pc \in {"check", "asleep"} /\ evMid = NoPort

-----------------------------------------------------------------------------
(* Interrupts.                                                             *)
rump_evtdev_callback(p) ==
  /\ IF evCons = EvMASK(evProd + 1)
       THEN evDrop' = evDrop \cup {p} /\ UNCHANGED <<evRing, evProd>>
       ELSE evRing' = [evRing EXCEPT ![evProd] = p] /\ evProd' = EvMASK(evProd + 1) /\ UNCHANGED evDrop
  /\ evt' = IF evt.pc = "asleep" THEN [evt EXCEPT !.pc = "check"] ELSE evt
  /\ UNCHANGED evCons

minios_evtdev_handler(p) == evMask' = [evMask EXCEPT ![p] = TRUE] /\ rump_evtdev_callback(p)

do_event(p) ==
  /\ ~Halted /\ evPend[p] /\ ~evMask[p]
  /\ evPend' = [evPend EXCEPT ![p] = FALSE]
  /\ IF evHandler[p] = "evtdev" THEN minios_evtdev_handler(p) ELSE UNCHANGED <<evMask, evKern, evt>>
  /\ UNCHANGED <<evXen, evHandler, devevents, evf, evMid, evHas, evSent>>

(* The other end of a port sends an event.                                 *)
OtherSends(p) ==
  /\ ~Halted /\ p \in evXen /\ evSent < EvSignals
  /\ evPend' = [evPend EXCEPT ![p] = TRUE] /\ evSent' = evSent + 1
  /\ UNCHANGED <<evXen, evHandler, evMask, devevents, evKern, evt, evf, evMid, evHas>>

-----------------------------------------------------------------------------
(* events.c: a port gets its handler when Xen has given it out, ...        *)
minios_bind_evtchn(p, h) == evHandler' = [evHandler EXCEPT ![p] = h]

XenGives(p) == p \notin evXen /\ evXen' = evXen \cup {p}

(* ... which drivers have done in four ways, before they unmask it.        *)
DriverBinds(p) ==
  /\ ~Halted /\ CpuFree /\ XenGives(p) /\ minios_bind_evtchn(p, "driver")
  /\ evMask' = [evMask EXCEPT ![p] = FALSE]
  /\ UNCHANGED <<evPend, devevents, evKern, evt, evf, evMid, evHas, evSent>>
minios_bind_virq(p) == DriverBinds(p)
minios_bind_pirq(p) == DriverBinds(p)
minios_evtchn_alloc_unbound(p) == DriverBinds(p)
minios_evtchn_bind_interdomain(p) == DriverBinds(p)

(* minios_unbind_evtchn for the ports of P.                                *)
minios_unbind_evtchn(P) ==
  /\ evXen' = evXen \ P
  /\ evHandler' = [p \in EvPorts |-> IF p \in P THEN "default" ELSE evHandler[p]]
  /\ evMask' = [p \in EvPorts |-> p \in P \/ evMask[p]]
  /\ evPend' = [p \in EvPorts |-> p \notin P /\ evPend[p]]

DriverUnbinds(p) ==
  /\ ~Halted /\ CpuFree /\ evHandler[p] = "driver" /\ minios_unbind_evtchn({p})
  /\ UNCHANGED <<devevents, evKern, evt, evf, evMid, evHas, evSent>>

unbind_all_ports ==
  /\ ~Halted /\ CpuFree
  /\ minios_unbind_evtchn({p \in EvPorts : evHandler[p] # "default"})
  /\ evt' = [evt EXCEPT !.pc = "stopped"]
  /\ UNCHANGED <<devevents, evKern, evf, evMid, evHas, evSent>>

-----------------------------------------------------------------------------
(* xenevt_thread_func.  minios_wait_event looks at the condition before it *)
(* enters the queue.                                                       *)
ThreadChecks ==
  /\ evt.pc = "check" /\ evMid = NoPort
  /\ evt' = IF evProd = evt.prod THEN [evt EXCEPT !.pc = "enqueue"]
            ELSE [pc |-> "take", prod |-> evProd, cons |-> evCons]
  /\ UNCHANGED <<evChans, evKern, evf, evMid, evHas, evSent>>
ThreadSleeps ==
  /\ evt.pc = "enqueue" /\ evt' = [evt EXCEPT !.pc = "asleep"]
  /\ UNCHANGED <<evChans, evKern, evf, evMid, evHas, evSent>>

(* queue().                                                                *)
Queue(f, p) ==
  evf' = [evf EXCEPT ![f] =
    LET g == IF @.cons = EvMASK(@.prod + 1) THEN [@ EXCEPT !.over = TRUE]
             ELSE [@ EXCEPT !.ring[@.prod] = p, !.prod = EvMASK(@ + 1)]
    IN IF g.reader = "waiting" THEN [g EXCEPT !.reader = "woken"] ELSE g]

(* The index is not masked: past the ring lies memory of any content, and  *)
(* NoPort stands for a number that is no port.  The thread is followed one *)
(* element past the end.                                                   *)
Fetched == IF evt.cons \in EvSlots THEN {evRing[evt.cons]} ELSE EvPorts \cup {NoPort}

ThreadTakes ==
  /\ evt.pc = "take" /\ evt.cons # evt.prod /\ evt.cons <= EvSize
  /\ \E p \in Fetched :
       IF p # NoPort /\ devevents[p] # NoFile
         THEN Queue(devevents[p], p) /\ evt' = [evt EXCEPT !.cons = @ + 1]
         ELSE evt' = [evt EXCEPT !.pc = "panic"] /\ UNCHANGED evf
  /\ UNCHANGED <<evChans, evKern, evMid, evHas, evSent>>
ThreadDone ==
  /\ evt.pc = "take" /\ evt.cons = evt.prod
  /\ evCons' = evt.cons /\ evt' = [evt EXCEPT !.pc = "check"]
  /\ UNCHANGED <<evChans, evRing, evProd, evDrop, evf, evMid, evHas, evSent>>

-----------------------------------------------------------------------------
(* The device file.                                                        *)
MayCall(f) == ~Halted /\ CpuFree /\ evf[f].open /\ evf[f].reader = "none"

xenevt_dev_open(f) ==
  /\ ~Halted /\ CpuFree /\ ~evf[f].open /\ evf' = [evf EXCEPT ![f] = NewFile]
  /\ UNCHANGED <<evChans, evKern, evt, evMid, evHas, evSent>>

Contents(f) == LET n == EvMASK(evf[f].prod - evf[f].cons + EvSize)
               IN [i \in 1..n |-> evf[f].ring[EvMASK(evf[f].cons + i - 1)]]

(* Mutant: the whole ring counts as read.                                  *)
AllRead(f, n) == Len(Contents(f))
(* The two uiomoves together: up to n ports, across the end of the ring.   *)
PortsRead(f, n) == IF n < Len(Contents(f)) THEN n ELSE Len(Contents(f))

xenevt_dev_read(f) ==
  /\ ~Halted /\ CpuFree /\ evf[f].open /\ evf[f].reader # "waiting"
  /\ \/ /\ evf[f].cons # evf[f].prod /\ ~evf[f].over
        /\ \E n \in 1..EvSize :
             /\ evHas' = [evHas EXCEPT ![f] = @ \cup {Contents(f)[i] : i \in {j \in DOMAIN Contents(f) : j <= n}}]
             /\ evf' = [evf EXCEPT ![f].cons = EvMASK(@ + PortsRead(f, n)), ![f].reader = "none"]
     \/ /\ evf[f].cons = evf[f].prod \/ evf[f].over       \* EAGAIN is no step
        /\ evf' = [evf EXCEPT ![f].reader = IF evf[f].over THEN "none" ELSE "waiting"]   \* EFBIG
        /\ UNCHANGED evHas
  /\ UNCHANGED <<evChans, evKern, evt, evMid, evSent>>

(* A signal ends cv_wait_sig.                                              *)
ReadInterrupted(f) ==
  /\ ~Halted /\ CpuFree /\ evf[f].reader = "waiting"
  /\ evf' = [evf EXCEPT ![f].reader = "none"]
  /\ UNCHANGED <<evChans, evKern, evt, evMid, evHas, evSent>>

xenevt_dev_write(f) ==
  /\ MayCall(f) /\ \E S \in SUBSET evHas[f] \ {{}} :
       /\ evMask' = [p \in EvPorts |-> evMask[p] /\ ~(p \in S /\ devevents[p] = f)]
       /\ evHas' = [evHas EXCEPT ![f] = @ \ S]
       /\ evDrop' = evDrop \ {p \in S : devevents[p] = f}
  /\ UNCHANGED <<evXen, evHandler, evPend, devevents, evRing, evProd, evCons, evt, evf, evMid, evSent>>

(* IOCTL_EVTCHN_RESET: the program has to unmask its ports by itself.      *)
IoctlReset(f) ==
  /\ MayCall(f) /\ evf' = [evf EXCEPT ![f].prod = 0, ![f].cons = 0, ![f].over = FALSE]
  /\ evHas' = [evHas EXCEPT ![f] = {p \in EvPorts : devevents[p] = f}]
  /\ UNCHANGED <<evChans, evKern, evt, evMid, evSent>>

(* The three ways to bind a port.                                          *)
IoctlBind(f, p) ==
  /\ MayCall(f) /\ XenGives(p)
  /\ devevents' = [devevents EXCEPT ![p] = f]
  /\ minios_bind_evtchn(p, "evtdev") /\ evMask' = [evMask EXCEPT ![p] = FALSE]
  /\ evHas' = [evHas EXCEPT ![f] = @ \ {p}] /\ evDrop' = evDrop \ {p}
  /\ UNCHANGED <<evPend, evRing, evProd, evCons, evt, evf, evMid, evSent>>
IoctlBindVirq(f, p) == IoctlBind(f, p)
IoctlBindInterdomain(f, p) == IoctlBind(f, p)
IoctlBindUnbound(f, p) == IoctlBind(f, p)

(* IOCTL_EVTCHN_UNBIND: an interrupt may still come before the port is     *)
(* masked.                                                                 *)
IoctlUnbind(f, p) ==
  /\ MayCall(f) /\ devevents[p] = f
  /\ devevents' = [devevents EXCEPT ![p] = NoFile] /\ evMid' = p
  /\ UNCHANGED <<evXen, evHandler, evMask, evPend, evKern, evt, evf, evHas, evSent>>
UnbindEnds ==
  /\ evMid # NoPort /\ minios_unbind_evtchn({evMid}) /\ evMid' = NoPort
  /\ UNCHANGED <<devevents, evKern, evt, evf, evHas, evSent>>

xenevt_dev_close(f) ==
  /\ MayCall(f)
  /\ LET own == {p \in EvPorts : devevents[p] = f} IN
       /\ minios_unbind_evtchn(own)
       /\ devevents' = [p \in EvPorts |-> IF p \in own THEN NoFile ELSE devevents[p]]
  /\ evf' = [evf EXCEPT ![f].open = FALSE] /\ evHas' = [evHas EXCEPT ![f] = {}]
  /\ UNCHANGED <<evKern, evt, evMid, evSent>>

EvNext ==
  \/ ThreadChecks \/ ThreadSleeps \/ ThreadTakes \/ ThreadDone \/ UnbindEnds \/ unbind_all_ports
  \/ \E p \in EvPorts :
       \/ do_event(p) \/ OtherSends(p)
       \/ minios_bind_virq(p) \/ minios_bind_pirq(p) \/ minios_evtchn_alloc_unbound(p)
       \/ minios_evtchn_bind_interdomain(p) \/ DriverUnbinds(p)
  \/ \E f \in EvFiles :
       \/ xenevt_dev_open(f) \/ xenevt_dev_read(f) \/ ReadInterrupted(f) \/ xenevt_dev_write(f)
       \/ IoctlReset(f) \/ xenevt_dev_close(f)
       \/ \E p \in EvPorts : IoctlBindVirq(f, p) \/ IoctlBindInterdomain(f, p) \/ IoctlBindUnbound(f, p)
                             \/ IoctlUnbind(f, p)

EvSpec == EvInit /\ [][EvNext]_evVars

-----------------------------------------------------------------------------
InKernel(p) ==
  LET first == EvMASK(IF evt.pc = "take" THEN evt.cons ELSE evCons) IN
  \E i \in EvSlots : evRing[i] = p /\ EvMASK(i - first + EvSize) < EvMASK(evProd - first + EvSize)

(* A port that a file has bound and that is masked is on its way to the    *)
(* program: in the driver's ring, in the file's ring, or read.  Otherwise  *)
(* nobody would ever unmask it.  The two rings may overflow, and a file    *)
(* says so; and it holds until the driver's ring has been filled once,     *)
(* when the index of the thread leaves it.  A reader waits only while its  *)
(* ring is empty.                                                          *)
PortEventsKept ==
  /\ \A p \in EvPorts : devevents[p] # NoFile /\ evMask[p] /\ evt.cons < EvSize /\ evt.pc # "stopped" =>
       LET f == devevents[p] IN
       \/ InKernel(p) \/ p \in evDrop \/ p \in evHas[f] \/ evf[f].over
       \/ \E i \in 1..Len(Contents(f)) : Contents(f)[i] = p
  /\ \A f \in EvFiles : evf[f].reader = "waiting" => evf[f].cons = evf[f].prod /\ ~evf[f].over
=============================================================================
