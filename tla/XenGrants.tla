------------------------------ MODULE XenGrants -------------------------------
(***************************************************************************)
(* The grant table of the Xen platform (xen/gnttab.c): access and transfer *)
(* grants, given by threads that block when no entry is free and taken     *)
(* back by threads or by an interrupt, while the other domain uses them.   *)
(* Threads switch only where they block; an interrupt comes between any    *)
(* two steps of a thread and runs to its end.  Entry 0 heads the free list;*)
(* it stands for the reserved entries.                                     *)
(***************************************************************************)
EXTENDS Integers, Sequences, FiniteSets

CONSTANTS
  XgThreads,
  XgRefs        \* entries that can be granted, 1..XgRefs

VARIABLES
  xgList,       \* gnttab_list
  xgSem,        \* gnttab_sem's count
  xgQueue,      \* threads blocked in it
  xgKept,       \* wakeups its queue has kept
  xgTab,        \* per entry: flags, frame, and whether the other domain is using it
  xgHeld,       \* entries that are granted
  xgc           \* per thread, and for the interrupt: where it is

xgPool == <<xgList, xgSem, xgQueue, xgKept>>
xgVars == <<xgPool, xgTab, xgHeld, xgc>>

XgIrq == "irq"
XgAll == 1..XgRefs
XgContexts == XgThreads \cup {XgIrq}
XgIdle == [pc |-> "idle", ref |-> 0, kind |-> "none", flags |-> "none"]

(* init_gnttab: put_free_entry for each entry, the last one ends in front. *)
XgInit ==
  /\ xgList = [r \in 0..XgRefs |-> IF r = 0 THEN XgRefs ELSE r - 1]
  /\ xgSem = XgRefs /\ xgQueue = <<>> /\ xgKept = 0
  /\ xgTab = [r \in XgAll |-> [flags |-> "none", frame |-> "old", peer |-> FALSE]] /\ xgHeld = {}
  /\ xgc = [c \in XgContexts |-> XgIdle]

(* A thread runs when no interrupt and no other thread does.               *)
XgWaits(c) == xgc[c].pc \in {"idle", "blocked", "woken"}
XgRuns(c, at) ==
  /\ xgc[c].pc = at
  /\ c # XgIrq => xgc[XgIrq].pc = "idle" /\ \A t \in XgThreads \ {c} : XgWaits(t)
XgGoes(c, to) == xgc' = [xgc EXCEPT ![c].pc = to]

-----------------------------------------------------------------------------
(* down, the first step of get_free_entry.                                 *)
get_free_entry(t, kind) ==
  /\ XgRuns(t, "idle") /\ xgSem' = xgSem - 1
  /\ xgc' = [xgc EXCEPT ![t].pc = IF xgSem <= 0 THEN "block" ELSE "take", ![t].kind = kind]
  /\ UNCHANGED <<xgList, xgQueue, xgKept, xgTab, xgHeld>>

XgBlock(t) ==
  /\ XgRuns(t, "block")
  /\ IF xgKept > 0 THEN xgKept' = xgKept - 1 /\ XgGoes(t, "woken") /\ UNCHANGED xgQueue
                   ELSE xgQueue' = Append(xgQueue, t) /\ XgGoes(t, "blocked") /\ UNCHANGED xgKept
  /\ UNCHANGED <<xgList, xgSem, xgTab, xgHeld>>

(* With interrupts off the first entry leaves the list.                    *)
TakeEntry(t) ==
  /\ XgRuns(t, "take") \/ XgRuns(t, "woken")
  /\ xgc' = [xgc EXCEPT ![t].pc = "frame", ![t].ref = xgList[0]]
  /\ xgList' = [xgList EXCEPT ![0] = xgList[xgList[0]]]
  /\ UNCHANGED <<xgSem, xgQueue, xgKept, xgTab, xgHeld>>

(* The frame goes in before the flags that open the entry.                 *)
WriteFrame(t) ==
  /\ XgRuns(t, "frame") /\ xgTab' = [xgTab EXCEPT ![xgc[t].ref].frame = "own"]
  /\ XgGoes(t, "flags") /\ UNCHANGED <<xgPool, xgHeld>>
WriteFlags(t) ==
  /\ XgRuns(t, "flags") /\ xgTab' = [xgTab EXCEPT ![xgc[t].ref].flags = xgc[t].kind]
  /\ xgHeld' = xgHeld \cup {xgc[t].ref} /\ xgc' = [xgc EXCEPT ![t] = XgIdle] /\ UNCHANGED xgPool

gnttab_grant_access(t) == get_free_entry(t, "access")
gnttab_grant_transfer(t) == get_free_entry(t, "transfer")

-----------------------------------------------------------------------------
(* gnttab_end_access reads the flags, ...                                  *)
gnttab_end_access(c) ==
  /\ XgRuns(c, "idle")
  /\ \E r \in xgHeld :
       /\ xgTab[r].flags \in {"access", "inuse"} /\ xgHeld' = xgHeld \ {r}
       /\ xgc' = [xgc EXCEPT ![c] = [pc |-> "endaccess", ref |-> r, kind |-> "none", flags |-> xgTab[r].flags]]
  /\ UNCHANGED <<xgPool, xgTab>>

(* ... gives up on an entry in use, and clears the flags if they are still *)
(* what it has read.  Mutant: they are cleared whatever they are.          *)
Swapped(c) == TRUE
synch_cmpxchg(c) == xgTab[xgc[c].ref].flags = xgc[c].flags
XgRetry(c) == xgc' = [xgc EXCEPT ![c].flags = xgTab[xgc[c].ref].flags] /\ UNCHANGED <<xgTab, xgHeld>>
XgCleared(c) ==
  /\ xgTab' = [xgTab EXCEPT ![xgc[c].ref].flags = "none"] /\ XgGoes(c, "put") /\ UNCHANGED xgHeld

EndAccess(c) ==
  /\ XgRuns(c, "endaccess")
  /\ IF xgc[c].flags = "inuse"
       THEN xgHeld' = xgHeld \cup {xgc[c].ref} /\ xgc' = [xgc EXCEPT ![c] = XgIdle] /\ UNCHANGED xgTab
       ELSE IF synch_cmpxchg(c) THEN XgCleared(c) ELSE XgRetry(c)
  /\ UNCHANGED xgPool

(* gnttab_end_transfer: a transfer nobody has begun is called off; one     *)
(* that is under way is waited for, and its entry keeps its flags.         *)
gnttab_end_transfer(t) ==
  /\ XgRuns(t, "idle")
  /\ \E r \in xgHeld :
       /\ xgTab[r].flags \in {"transfer", "committed", "completed"} /\ xgHeld' = xgHeld \ {r}
       /\ xgc' = [xgc EXCEPT ![t] = [pc |-> "endtransfer", ref |-> r, kind |-> "none", flags |-> xgTab[r].flags]]
  /\ UNCHANGED <<xgPool, xgTab>>

EndTransfer(t) ==
  /\ XgRuns(t, "endtransfer")
  /\ IF xgc[t].flags = "transfer"
       THEN IF synch_cmpxchg(t) THEN XgCleared(t) ELSE XgRetry(t)
       ELSE XgGoes(t, "completion") /\ UNCHANGED <<xgTab, xgHeld>>
  /\ UNCHANGED xgPool

AwaitCompletion(t) ==
  /\ XgRuns(t, "completion") /\ xgTab[xgc[t].ref].flags = "completed"
  /\ XgGoes(t, "readframe") /\ UNCHANGED <<xgPool, xgTab, xgHeld>>
ReadFrame(t) == XgRuns(t, "readframe") /\ XgGoes(t, "put") /\ UNCHANGED <<xgPool, xgTab, xgHeld>>

(* put_free_entry: the entry joins the list, then up.                      *)
put_free_entry(c) ==
  /\ XgRuns(c, "put")
  /\ xgList' = [xgList EXCEPT ![xgc[c].ref] = xgList[0], ![0] = xgc[c].ref]
  /\ xgc' = [xgc EXCEPT ![c].pc = "up", ![c].ref = 0]
  /\ UNCHANGED <<xgSem, xgQueue, xgKept, xgTab, xgHeld>>

up(c) ==
  /\ XgRuns(c, "up") /\ xgSem' = xgSem + 1
  /\ IF xgSem >= 0 THEN xgc' = [xgc EXCEPT ![c] = XgIdle] /\ UNCHANGED <<xgQueue, xgKept>>
     ELSE IF xgQueue = <<>>
       THEN xgKept' = xgKept + 1 /\ xgc' = [xgc EXCEPT ![c] = XgIdle] /\ UNCHANGED xgQueue
       ELSE /\ xgQueue' = Tail(xgQueue) /\ UNCHANGED xgKept
            /\ xgc' = [xgc EXCEPT ![c] = XgIdle, ![Head(xgQueue)].pc = "woken"]
  /\ UNCHANGED <<xgList, xgTab, xgHeld>>

-----------------------------------------------------------------------------
(* The other domain, through the hypervisor.                               *)
PeerTurns(r, to, frame, using) ==
  xgTab' = [xgTab EXCEPT ![r] = [flags |-> to, frame |-> frame, peer |-> using]] /\ UNCHANGED <<xgPool, xgHeld, xgc>>
PeerMaps(r) == xgTab[r].flags = "access" /\ PeerTurns(r, "inuse", xgTab[r].frame, TRUE)
PeerUnmaps(r) == xgTab[r].flags = "inuse" /\ PeerTurns(r, "access", xgTab[r].frame, FALSE)
PeerCommits(r) == xgTab[r].flags = "transfer" /\ PeerTurns(r, "committed", xgTab[r].frame, TRUE)
PeerCompletes(r) == xgTab[r].flags = "committed" /\ PeerTurns(r, "completed", "new", FALSE)

XgThread(t) ==
  \/ gnttab_grant_access(t) \/ gnttab_grant_transfer(t) \/ XgBlock(t) \/ TakeEntry(t) \/ WriteFrame(t) \/ WriteFlags(t)
  \/ gnttab_end_transfer(t) \/ EndTransfer(t) \/ AwaitCompletion(t) \/ ReadFrame(t)
XgNext ==
  \/ \E t \in XgThreads : XgThread(t)
  \/ \E c \in XgContexts : gnttab_end_access(c) \/ EndAccess(c) \/ put_free_entry(c) \/ up(c)
  \/ \E r \in XgAll : PeerMaps(r) \/ PeerUnmaps(r) \/ PeerCommits(r) \/ PeerCompletes(r)

XgSpec == XgInit /\ [][XgNext]_xgVars

-----------------------------------------------------------------------------
(* The entries behind r on the list, in at most k steps.                   *)
Behind[k \in 0..XgRefs, r \in 0..XgRefs] ==
  IF k = 0 \/ xgList[r] = 0 THEN {} ELSE {xgList[r]} \cup Behind[k - 1, xgList[r]]
XgFree == Behind[XgRefs, 0]
XgBusy == {c \in XgContexts : xgc[c].ref # 0}

(* Every entry is on the free list, granted, or with one caller; whoever   *)
(* passed gnttab_sem finds an entry, and as many threads wait, with no     *)
(* wakeup kept for them, as the semaphore's count says.                    *)
(* The other domain uses no entry on the free list, an open entry shows    *)
(* the frame it was granted for, and a transfer is over when its frame is  *)
(* read.                                                                   *)
TableSound ==
  LET passed == {t \in XgThreads : xgc[t].pc \in {"take", "woken"}}
      giving == {c \in XgContexts : xgc[c].pc = "up"}
      waiting == Len(xgQueue) + Cardinality({t \in XgThreads : xgc[t].pc = "block"})
  IN /\ XgFree \cup xgHeld \cup {xgc[c].ref : c \in XgBusy} = XgAll
     /\ Cardinality(XgFree) + Cardinality(xgHeld) + Cardinality(XgBusy) = XgRefs
     /\ Cardinality(passed) + xgKept <= Cardinality(XgFree)
     /\ xgSem + Cardinality(passed \cup giving) + waiting = Cardinality(XgFree)
     /\ waiting - xgKept = IF xgSem < 0 THEN -xgSem ELSE 0
     /\ \A r \in XgFree : xgTab[r].flags \in {"none", "completed"} /\ ~xgTab[r].peer
     /\ \A r \in XgAll : xgTab[r].flags \in {"access", "inuse", "transfer", "committed"} => xgTab[r].frame = "own"
     /\ \A t \in XgThreads : xgc[t].pc = "readframe" => xgTab[xgc[t].ref].frame = "new"
=============================================================================
