------------------------------- MODULE XenStore -------------------------------
(***************************************************************************)
(* The xenstore client (platform/xen/xen/xenbus/xenbus.c): threads send    *)
(* requests over a ring, each under a request id, and wait for the reply;  *)
(* the xenstore thread takes replies and watch events from the other ring  *)
(* and hands them to the queues that wait.  Xenstored is external.         *)
(*                                                                         *)
(* A thread performs one operation: xenbus_switch_state in a transaction,  *)
(* a wait for a state or a value on a watch, or a read or a write.  The    *)
(* store is one path, which the other end of the device writes as a thread *)
(* does; requests and replies are a header and a unit of data, watch       *)
(* events a header; xenstored may publish them in parts.                   *)
(***************************************************************************)
EXTENDS Integers, Sequences, FiniteSets, SequencesExt

CONSTANTS
  XsThreads,
  XsStates,            \* values of the path
  NR_REQS,
  XENSTORE_RING_SIZE

VARIABLES
  xsVal, xsVer,        \* xenstored: the value and how often it was written
  xsTx,                \* xenstored: the transaction of a thread
  xsArmed,             \* xenstored: threads whose watch is set
  reqRing, rspRing,    \* messages on their way
  rspAvail,            \* units of rspRing published and not consumed
  reqInfo, nr_live_reqs, probe,
  watches,             \* the client's list of watches (their threads)
  xsReply,             \* per thread: event with the reply, or none
  xsEvents,            \* per thread: watch events in its queue
  xbRun,               \* the xenstore thread: "run", "enqueue" or "asleep"
  xsEvt,               \* its event channel is pending
  xst,                 \* per thread: its operation and where it is
  xsSeen               \* per thread: values of the path during its operation

xsD == <<xsVal, xsVer, xsTx, xsArmed>>
xsIds == <<reqInfo, nr_live_reqs, probe>>
xsXb == <<xbRun, xsEvt>>
xsVars == <<xsD, xsIds, xsXb, reqRing, rspRing, rspAvail, watches, xsReply, xsEvents, xst, xsSeen>>

NoReply == [ok |-> FALSE]
XsIds == 0..(NR_REQS - 1)
NoThread == "none"

XsInit ==
  /\ xsVal = 1 /\ xsVer = 0 /\ xsArmed = {}
  /\ xsTx = [t \in XsThreads |-> [ver |-> 0, val |-> 0]]
  /\ reqRing = <<>> /\ rspRing = <<>> /\ rspAvail = 0
  /\ reqInfo = [i \in XsIds |-> NoThread] /\ nr_live_reqs = 0 /\ probe = 0
  /\ watches = {} /\ xbRun = "run" /\ xsEvt = 0 /\ xsReply = [t \in XsThreads |-> NoReply]
  /\ xsEvents = [t \in XsThreads |-> 0]
  /\ xst = [t \in XsThreads |-> [op |-> "none", pc |-> "new", at |-> "go", id |-> 0, arg |-> xsVal]]
  /\ xsSeen = [t \in XsThreads |-> {}]

-----------------------------------------------------------------------------
(* Threads switch only where they wait.                                    *)
MayRun == xbRun # "enqueue"

(* xenbus_msg_reply.  The request gets an id, the next that is free, ...   *)
Ask(t, pc) == xst' = [xst EXCEPT ![t].pc = pc, ![t].at = "id"]

(* Mutant: the ids are taken in turn whether free or not.                  *)
InTurn == probe
Probed == CHOOSE i \in XsIds : reqInfo[i] = NoThread /\
            \A j \in XsIds : reqInfo[j] = NoThread =>
               (i - probe) % NR_REQS <= (j - probe) % NR_REQS

xenbus_id_allocate(t) ==
  /\ MayRun /\ xst[t].at = "id" /\ nr_live_reqs < NR_REQS
  /\ reqInfo' = [reqInfo EXCEPT ![Probed] = t]
  /\ nr_live_reqs' = nr_live_reqs + 1 /\ probe' = (Probed + 1) % NR_REQS
  /\ xst' = [xst EXCEPT ![t].at = "put", ![t].id = Probed]
  /\ UNCHANGED <<xsXb, xsD, reqRing, rspRing, rspAvail, watches, xsReply, xsEvents, xsSeen>>

(* ... goes into the ring when there is space, ...                         *)
xenbus_xb_write(t) ==
  /\ MayRun /\ xst[t].at = "put" /\ 2 * (Len(reqRing) + 1) <= XENSTORE_RING_SIZE
  /\ reqRing' = Append(reqRing, [id |-> xst[t].id, type |-> xst[t].pc, from |-> t, val |-> xst[t].arg])
  /\ xst' = [xst EXCEPT ![t].at = "await"]
  /\ UNCHANGED <<xsXb, xsD, xsIds, rspRing, rspAvail, watches, xsReply, xsEvents, xsSeen>>

(* ... and its reply frees the id; what follows depends on the request.    *)
Replied(t) == MayRun /\ xst[t].at = "await" /\ xsReply[t] # NoReply
xenbus_id_release(t) ==
  /\ reqInfo' = [reqInfo EXCEPT ![xst[t].id] = NoThread]
  /\ nr_live_reqs' = nr_live_reqs - 1
  /\ xsReply' = [xsReply EXCEPT ![t] = NoReply]
  /\ UNCHANGED <<xsXb, probe, xsD, reqRing, rspRing, rspAvail, xsEvents, xsSeen>>

Got(t, pc) ==
  /\ Replied(t) /\ xst[t].pc = pc
  /\ xenbus_id_release(t)

-----------------------------------------------------------------------------
(* Operations.                                                             *)
Begins(t, op, pc, v) ==
  /\ MayRun /\ xst[t].pc = "new"
  /\ xst' = [xst EXCEPT ![t] = [op |-> op, pc |-> pc, at |-> "id", id |-> 0, arg |-> v]]
  /\ xsSeen' = [xsSeen EXCEPT ![t] = IF op = "switch" THEN {xsVal} ELSE {}]
  /\ UNCHANGED <<xsXb, xsD, xsIds, reqRing, rspRing, rspAvail, xsReply, xsEvents>>

Ends(t) == xst' = [xst EXCEPT ![t].pc = "done", ![t].at = "go"]
Fails(t) == xst' = [xst EXCEPT ![t].pc = "failed", ![t].at = "go"]

(* xenbus_switch_state: read and write in a transaction, again when it     *)
(* conflicts; an error also ends the transaction, and is returned.         *)
SwitchState(t, v) == Begins(t, "switch", "start", v) /\ UNCHANGED watches
Started(t) == Got(t, "start") /\ Ask(t, "read") /\ UNCHANGED watches
ReadDone(t) ==
  /\ Got(t, "read") /\ UNCHANGED watches
  /\ IF xst[t].op = "read" THEN Ends(t)
     ELSE IF ~xsReply[t].ok THEN Ask(t, "abandon")
     ELSE IF xsReply[t].val = xst[t].arg THEN Ask(t, "end") ELSE Ask(t, "write")
Written(t) == Got(t, "write") /\ Ask(t, "end") /\ UNCHANGED watches
(* xenbus_transaction_end.                                                 *)
Retry(t) == ~xsReply[t].ok
EndDone(t) ==
  /\ Got(t, "end") /\ UNCHANGED watches
  /\ IF Retry(t) THEN Ask(t, "start") ELSE Ends(t)
AbandonDone(t) ==
  /\ Got(t, "abandon") /\ UNCHANGED watches
  /\ IF Retry(t) THEN Ask(t, "start") ELSE Fails(t)

(* xenbus_read and xenbus_write (xenbus_printf) by themselves.             *)
JustRead(t) == Begins(t, "read", "read", xsVal) /\ UNCHANGED watches
JustWrite(t, v) == Begins(t, "write", "set", v) /\ UNCHANGED watches
SetDone(t) == Got(t, "set") /\ Ends(t) /\ UNCHANGED watches

(* xenbus_watch_path_token: the watch is in the list before xenstored is   *)
(* asked for it.                                                           *)
WatchPath(t, op, v) == Begins(t, op, "watch", v) /\ watches' = watches \cup {t}
WatchDone(t) == Got(t, "watch") /\ Ask(t, "look") /\ UNCHANGED watches

(* xenbus_wait_for_state_change: until a read gives another state;         *)
(* xenbus_wait_for_value: until it gives the value.                        *)
Awaited(t, v) == IF xst[t].op = "value" THEN v = xst[t].arg ELSE v # xst[t].arg
LookDone(t) ==
  /\ Got(t, "look") /\ UNCHANGED watches
  /\ IF Awaited(t, xsReply[t].val) THEN Ask(t, "unwatch")
     ELSE xst' = [xst EXCEPT ![t].pc = "event", ![t].at = "go"]

(* xenbus_wait_for_watch.                                                  *)
WaitWatch(t) ==
  /\ MayRun /\ xst[t].pc = "event" /\ xsEvents[t] > 0
  /\ xsEvents' = [xsEvents EXCEPT ![t] = @ - 1] /\ Ask(t, "look")
  /\ UNCHANGED <<xsXb, xsD, xsIds, reqRing, rspRing, rspAvail, watches, xsReply, xsSeen>>

(* xenbus_unwatch_path_token.                                              *)
UnwatchDone(t) == Got(t, "unwatch") /\ Ends(t) /\ watches' = watches \ {t}

-----------------------------------------------------------------------------
(* xenbus_thread_func: a message is taken when it is published whole.  An  *)
(* event nobody watches for any more is dropped.                           *)
Units(m) == IF m.type = "event" THEN 1 ELSE 2
MessageThere == rspRing # <<>> /\ rspAvail >= Units(Head(rspRing))

xenbus_thread_func ==
  /\ xbRun = "run" /\ MessageThere
  /\ LET m == Head(rspRing) IN
     /\ rspRing' = Tail(rspRing) /\ rspAvail' = rspAvail - Units(m)
     /\ IF m.type = "event"
          THEN /\ xsEvents' = IF m.from \in watches THEN [xsEvents EXCEPT ![m.from] = @ + 1]
                              ELSE xsEvents
               /\ UNCHANGED xsReply
          ELSE /\ xsReply' = [xsReply EXCEPT ![reqInfo[m.id]] =
                                [ok |-> m.ok, val |-> m.val, id |-> m.id]]
               /\ UNCHANGED xsEvents
  /\ UNCHANGED <<xsXb, xsD, xsIds, reqRing, watches, xst, xsSeen>>

(* minios_wait_event: the thread finds nothing, and only then puts itself  *)
(* into the queue that xenbus_evtchn_handler wakes.  An interrupt may come *)
(* between the two, but no other thread.                                   *)
XbIdle ==
  /\ xbRun = "run" /\ ~MessageThere /\ xbRun' = "enqueue"
  /\ UNCHANGED <<xsEvt, xsD, xsIds, reqRing, rspRing, rspAvail, watches, xsReply, xsEvents, xst, xsSeen>>
XbSleep ==
  /\ xbRun = "enqueue" /\ xbRun' = "asleep"
  /\ UNCHANGED <<xsEvt, xsD, xsIds, reqRing, rspRing, rspAvail, watches, xsReply, xsEvents, xst, xsSeen>>
xenbus_evtchn_handler ==
  /\ xsEvt = 1 /\ xsEvt' = 0
  /\ xbRun' = IF xbRun = "asleep" THEN "run" ELSE xbRun
  /\ UNCHANGED <<xsD, xsIds, reqRing, rspRing, rspAvail, watches, xsReply, xsEvents, xst, xsSeen>>

-----------------------------------------------------------------------------
(* Xenstored: it answers the first request, tells the watches of every     *)
(* change and a new watch of the path as it is.                            *)
Events(S) == LET q == SetToSeq(S) IN
             [k \in 1..Len(q) |-> [type |-> "event", from |-> q[k], id |-> 0, ok |-> TRUE, val |-> 0]]
Observed(v) == [t \in XsThreads |-> IF xst[t].op = "switch" /\ xst[t].pc # "done"
                                    THEN xsSeen[t] \cup {v} ELSE xsSeen[t]]

Xenstored ==
  /\ reqRing # <<>> /\ reqRing' = Tail(reqRing)
  /\ LET r == Head(reqRing)
         t == r.from
         commit == r.type = "end" /\ xsTx[t].ver = xsVer /\ xsTx[t].val # xsVal
         set == r.type = "set" /\ r.val # xsVal
         good == CASE r.type \in {"end", "abandon"} -> xsTx[t].ver = xsVer [] OTHER -> TRUE
         fresh == IF r.type = "watch" THEN {t} ELSE IF commit \/ set THEN xsArmed ELSE {}
     IN
     /\ xsArmed' = CASE r.type = "watch" -> xsArmed \cup {t}
                     [] r.type = "unwatch" -> xsArmed \ {t} [] OTHER -> xsArmed
     /\ xsTx' = CASE r.type = "start" -> [xsTx EXCEPT ![t] = [ver |-> xsVer, val |-> xsVal]]
                  [] r.type = "write" -> [xsTx EXCEPT ![t].val = r.val]
                  [] r.type = "end" -> [xsTx EXCEPT ![t] = [ver |-> 0, val |-> 0]] [] OTHER -> xsTx
     /\ xsVal' = IF commit THEN xsTx[t].val ELSE IF set THEN r.val ELSE xsVal
     /\ xsVer' = IF commit \/ set THEN xsVer + 1 ELSE xsVer
     /\ xsSeen' = Observed(xsVal')
     /\ \E ok \in {good} \cup IF r.type = "read" THEN {FALSE} ELSE {} :
          rspRing' = Append(rspRing, [type |-> "reply", from |-> t, id |-> r.id, ok |-> ok,
                              val |-> IF r.type = "read" /\ xst[t].op = "switch" THEN xsTx[t].val ELSE xsVal]) \o Events(fresh)
  /\ UNCHANGED <<xsXb, xsIds, rspAvail, watches, xsReply, xsEvents, xst>>

Pending == FoldSeq(LAMBDA m, n : n + Units(m), 0, rspRing)
XsPublish ==
  /\ rspAvail < Pending /\ rspAvail < XENSTORE_RING_SIZE
  /\ rspAvail' = rspAvail + 1 /\ xsEvt' = 1
  /\ UNCHANGED <<xbRun, xsD, xsIds, reqRing, rspRing, watches, xsReply, xsEvents, xst, xsSeen>>

-----------------------------------------------------------------------------
XsStep(t) ==
  \/ xenbus_id_allocate(t) \/ xenbus_xb_write(t) \/ Started(t) \/ ReadDone(t) \/ Written(t)
  \/ SetDone(t) \/ EndDone(t) \/ AbandonDone(t) \/ WatchDone(t) \/ LookDone(t) \/ WaitWatch(t) \/ UnwatchDone(t)

XsBegin(t) ==
  \/ JustRead(t) \/ WatchPath(t, "wait", xsVal)
  \/ \E v \in XsStates : SwitchState(t, v) \/ JustWrite(t, v) \/ WatchPath(t, "value", v)

XsNext ==
  \/ xenbus_thread_func \/ XbIdle \/ XbSleep \/ xenbus_evtchn_handler \/ Xenstored \/ XsPublish
  \/ \E t \in XsThreads : XsStep(t) \/ XsBegin(t)

XsSpec == XsInit /\ [][XsNext]_xsVars

(* Threads run and xenstored answers.                                      *)
XsFairSpec ==
  /\ XsSpec /\ WF_xsVars(xenbus_thread_func) /\ WF_xsVars(XbSleep)
  /\ WF_xsVars(xenbus_evtchn_handler) /\ WF_xsVars(Xenstored) /\ WF_xsVars(XsPublish)
  /\ \A t \in XsThreads : SF_xsVars(XsStep(t))

-----------------------------------------------------------------------------
(* Every reply finds the thread that asked (the BUG_ONs of await_event and *)
(* xenbus_msg_reply): a live id is one thread's, the one whose request or  *)
(* reply carries it.                                                       *)
Holds(t) == xst[t].at \in {"put", "await"}
RepliesFind ==
  /\ nr_live_reqs = Cardinality({t \in XsThreads : Holds(t)})
  /\ \A t \in XsThreads : Holds(t) => reqInfo[xst[t].id] = t
  /\ \A m \in Range(reqRing) : reqInfo[m.id] = m.from
  /\ \A m \in Range(rspRing) : m.type = "reply" =>
       reqInfo[m.id] = m.from /\ xst[m.from].at = "await" /\ xsReply[m.from] = NoReply

(* A thread that waits for a change of the state, or for a value, has a    *)
(* watch event coming when it is there.                                    *)
ChangeTold ==
  \A t \in XsThreads : xst[t].pc = "event" /\ Awaited(t, xsVal) =>
    xsEvents[t] > 0 \/ \E m \in Range(rspRing) : m.type = "event" /\ m.from = t

(* A state switch that succeeds took effect at some time during the call,  *)
(* whatever conflicts made it try again.                                   *)
SwitchTookEffect ==
  \A t \in XsThreads : xst[t].op = "switch" /\ xst[t].pc = "done" => xst[t].arg \in xsSeen[t]

(* The three together.                                                     *)
StoreSound == RepliesFind /\ ChangeTold /\ SwitchTookEffect

(* xenbus.c:523, of xenbus_msg_reply: "block waiting for a reply".  The    *)
(* reply comes.                                                            *)
RequestAnswered == \A t \in XsThreads : xst[t].at = "await" ~> xst[t].at # "await"
=============================================================================
