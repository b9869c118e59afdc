-------------------------------- MODULE LfQueue --------------------------------
(***************************************************************************)
(* The lock-free queue of include/bmk-core/lfqueue.h with marks, as the    *)
(* block queues of lib/libbmk_core/sched.c use it: a linked list of nodes  *)
(* behind a sentinel, in which the link of the last node counts wakeups    *)
(* that found the list empty.  Pointers carry a stamp against their reuse; *)
(* as lf/gcc_x86.h has it they are loaded in two parts, stamp first, and   *)
(* exchanged in one.                                                       *)
(*                                                                         *)
(* A value is a node (positive) or a count (0 is __LFQ_NULL, -k stands for *)
(* k wakeups).  One action is at most one access to the head, the tail or  *)
(* a link.                                                                 *)
(***************************************************************************)
EXTENDS Integers, Sequences, FiniteSets

CONSTANTS
  LqThreads,  \* threads that block
  LqWakers,   \* callers of bmk_block_queue_wake
  LqMaxPuts,  \* bound: times a thread blocks
  LqMaxTakes, \* bound: wakeups by one caller
  LqNobody    \* no object read yet

ASSUME LqAssumption ==
  /\ IsFiniteSet(LqThreads) /\ LqNobody \notin LqThreads
  /\ LqThreads \cap LqWakers = {} /\ LqMaxPuts \in Nat /\ LqMaxTakes \in Nat

VARIABLES
  lqHead, lqTail,  \* queue->head, queue->tail
  lqNext,          \* per node: next
  lqObject,        \* per node: object
  lqNode,          \* per thread: bt_block_node
  lqState,         \* per thread: whether it runs, blocks, is queued or woken
  lqDone,          \* per actor: calls so far
  lq               \* per actor: where it is, what it read of head, tail, next

lqVars == <<lqHead, lqTail, lqNext, lqObject, lqNode, lqState, lqDone, lq>>

LqActors == LqThreads \cup LqWakers
LqNodes == 1..(Cardinality(LqThreads) + 1)
Aba(s, v) == [stamp |-> s, value |-> v]
IsCount(v) == v <= 0
LqIdle == [pc |-> "idle", h |-> Aba(0, 0), t |-> Aba(0, 0), n |-> Aba(0, 0), o |-> LqNobody]

(* bmk_block_queue_init, lfqueue_init: node 1 is the sentinel, and every   *)
(* thread has a node that names it.                                        *)
LqInit ==
  /\ lqHead = Aba(0, 1) /\ lqTail = Aba(0, 1)
  /\ lqNext = [n \in LqNodes |-> Aba(0, 0)]
  /\ lqNode = CHOOSE f \in [LqThreads -> LqNodes \ {1}] : \A t, u \in LqThreads : f[t] = f[u] => t = u
  /\ lqObject = [n \in LqNodes |-> IF \E t \in LqThreads : lqNode[t] = n
                                     THEN CHOOSE t \in LqThreads : lqNode[t] = n ELSE LqNobody]
  /\ lqState = [t \in LqThreads |-> "running"]
  /\ lqDone = [a \in LqActors |-> 0]
  /\ lq = [a \in LqActors |-> LqIdle]

LqAt(a, pc) == lq[a].pc = pc
LqGoes(a, pc) == lq' = [lq EXCEPT ![a].pc = pc]
LqOwn == <<lqNode, lqObject, lqState, lqDone>>
LqLinks == <<lqHead, lqTail, lqNext>>

(* __lfaba_load: the stamp, then the value.                                *)
LoadStamp(a, from, pc, f, x) ==
  /\ LqAt(a, from)
  /\ lq' = [lq EXCEPT ![a][f].stamp = x.stamp, ![a].pc = pc]
  /\ UNCHANGED <<LqLinks, LqOwn>>

LoadValue(a, from, pc, f, x) ==
  /\ LqAt(a, from)
  /\ lq' = [lq EXCEPT ![a][f].value = x.value, ![a].pc = pc]
  /\ UNCHANGED <<LqLinks, LqOwn>>

(* __lfaba_reload: true when the stamp is still the one read before.       *)
SameStamp(x, seen) == x.stamp = seen.stamp

(* __lfaba_cmpxchg: both parts are compared.                               *)
Same(x, seen) == x = seen

(* The stamp of an exchanged pointer.  Mutant: it stays.                   *)
Restamped(s) == s
NextStamp(s) == s + 1
-----------------------------------------------------------------------------
(* block_queue_callback: lfqueue_enqueue on the thread's own node, whose   *)
(* link is reset first, stamp before value.                                *)
EnqBegin(t) ==
  /\ LqAt(t, "idle") /\ lqState[t] = "running" /\ lqDone[t] < LqMaxPuts
  /\ lqState' = [lqState EXCEPT ![t] = "blocking"]
  /\ lqDone' = [lqDone EXCEPT ![t] = @ + 1]
  /\ lqNext' = [lqNext EXCEPT ![lqNode[t]].stamp = NextStamp(@)]
  /\ LqGoes(t, "reset")
  /\ UNCHANGED <<lqHead, lqTail, lqNode, lqObject>>

EnqReset(t) ==
  /\ LqAt(t, "reset")
  /\ lqNext' = [lqNext EXCEPT ![lqNode[t]].value = 0]
  /\ LqGoes(t, "tail")
  /\ UNCHANGED <<lqHead, lqTail, LqOwn>>

EnqTail(t) == LoadStamp(t, "tail", "tailv", "t", lqTail) \/ LoadValue(t, "tailv", "next", "t", lqTail)

EnqNext(t) ==
  /\ lq[t].pc \in {"next", "nextv"}
  /\ \/ LoadStamp(t, "next", "nextv", "n", lqNext[lq[t].t.value])
     \/ LoadValue(t, "nextv", "look", "n", lqNext[lq[t].t.value])

(* The tail is behind: it is helped forward.                               *)
EnqHelp(t) ==
  LET l == lq[t]
      moved == Aba(NextStamp(l.t.stamp), l.n.value)
  IN /\ LqAt(t, "look") /\ ~IsCount(l.n.value)
     /\ lqTail' = IF Same(lqTail, l.t) THEN moved ELSE lqTail
     /\ lq' = [lq EXCEPT ![t].t = lqTail', ![t].pc = "next"]
     /\ UNCHANGED <<lqHead, lqNext, LqOwn>>

(* The node read is the last: the tail must not have moved since.          *)
EnqReload(t) ==
  LET l == lq[t]
  IN /\ LqAt(t, "look") /\ IsCount(l.n.value)
     /\ IF SameStamp(lqTail, l.t) THEN LqGoes(t, "link")
        ELSE lq' = [lq EXCEPT ![t].t.stamp = lqTail.stamp, ![t].pc = "tailv"]
     /\ UNCHANGED <<LqLinks, LqOwn>>

(* A wakeup is taken from the count, or the node is linked.                *)
Linking(l, node) == IF l.n.value # 0 THEN l.n.value + 1 ELSE node

EnqLink(t) ==
  LET l == lq[t]
      last == l.t.value
      kept == l.n.value # 0
  IN /\ LqAt(t, "link")
     /\ IF Same(lqNext[last], l.n)
          THEN /\ lqNext' = [lqNext EXCEPT ![last] =
                               Aba(NextStamp(l.n.stamp), Linking(l, lqNode[t]))]
               /\ lqState' = [lqState EXCEPT ![t] = IF kept THEN "running" ELSE "queued"]
               /\ lq' = [lq EXCEPT ![t] = IF kept THEN LqIdle ELSE [l EXCEPT !.pc = "move", !.n.value = lqNode[t]]]
          ELSE /\ lq' = [lq EXCEPT ![t].n = lqNext[last], ![t].pc = "look"]
               /\ UNCHANGED <<lqNext, lqState>>
     /\ UNCHANGED <<lqHead, lqTail, lqNode, lqObject, lqDone>>

(* The new last node becomes the tail, unless somebody helped.             *)
EnqMove(t) ==
  LET l == lq[t]
  IN /\ LqAt(t, "move")
     /\ lqTail' = IF Same(lqTail, l.t) THEN Aba(NextStamp(l.t.stamp), l.n.value) ELSE lqTail
     /\ lq' = [lq EXCEPT ![t] = LqIdle]
     /\ UNCHANGED <<lqHead, lqNext, LqOwn>>
-----------------------------------------------------------------------------
(* bmk_block_queue_wake: lfqueue_dequeue.                                  *)
DeqBegin(w) ==
  /\ lqDone[w] < LqMaxTakes
  /\ LoadStamp(w, "idle", "headv", "h", lqHead)

DeqHead(w) == LoadValue(w, "headv", "dtail", "h", lqHead)

DeqTailLoad(w) == LoadStamp(w, "dtail", "dtailv", "t", lqTail) \/ LoadValue(w, "dtailv", "dnext", "t", lqTail)

DeqNextLoad(w) ==
  /\ lq[w].pc \in {"dnext", "dnextv"}
  /\ \/ LoadStamp(w, "dnext", "dnextv", "n", lqNext[lq[w].h.value])
     \/ LoadValue(w, "dnextv", "repeat", "n", lqNext[lq[w].h.value])

(* head.value == tail.value: the head must not pass the tail.              *)
PushesTail(l) == l.h.value = l.t.value

(* The head must not have moved since.                                     *)
DeqReload(w) ==
  LET l == lq[w]
  IN /\ LqAt(w, "repeat")
     /\ IF SameStamp(lqHead, l.h)
          THEN LqGoes(w, IF IsCount(l.n.value) THEN "count"
                       ELSE IF PushesTail(l) THEN "push" ELSE "object")
          ELSE lq' = [lq EXCEPT ![w].h.stamp = lqHead.stamp, ![w].pc = "headv"]
     /\ UNCHANGED <<LqLinks, LqOwn>>

(* Nobody waits: the wakeup is counted.                                    *)
DeqCountWake(w) ==
  LET l == lq[w]
      node == l.h.value
  IN /\ LqAt(w, "count")
     /\ IF Same(lqNext[node], l.n)
          THEN /\ lqNext' = [lqNext EXCEPT ![node] = Aba(NextStamp(l.n.stamp), l.n.value - 1)]
               /\ lqDone' = [lqDone EXCEPT ![w] = @ + 1]
               /\ lq' = [lq EXCEPT ![w] = LqIdle]
          ELSE /\ lq' = [lq EXCEPT ![w].n = lqNext[node], ![w].pc = "repeat"]
               /\ UNCHANGED <<lqNext, lqDone>>
     /\ UNCHANGED <<lqHead, lqTail, lqNode, lqObject, lqState>>

(* The tail is still at the sentinel: it is pushed on before the head.     *)
DeqPush(w) ==
  LET l == lq[w]
  IN /\ LqAt(w, "push")
     /\ lqTail' = IF Same(lqTail, l.t) THEN Aba(NextStamp(l.t.stamp), l.n.value) ELSE lqTail
     /\ LqGoes(w, "object")
     /\ UNCHANGED <<lqHead, lqNext, LqOwn>>

DeqObject(w) ==
  /\ LqAt(w, "object")
  /\ lq' = [lq EXCEPT ![w].o = lqObject[lq[w].n.value], ![w].pc = "swing"]
  /\ UNCHANGED <<LqLinks, LqOwn>>

(* The first node becomes the sentinel, and the old one goes to the thread.*)
DeqSwing(w) ==
  LET l == lq[w]
  IN /\ LqAt(w, "swing")
     /\ IF Same(lqHead, l.h)
          THEN /\ lqHead' = Aba(NextStamp(l.h.stamp), l.n.value)
               /\ lqState' = [lqState EXCEPT ![l.o] = "woken"]
               /\ LqGoes(w, "give")
          ELSE /\ lq' = [lq EXCEPT ![w].h = lqHead, ![w].pc = "dtail"]
               /\ UNCHANGED <<lqHead, lqState>>
     /\ UNCHANGED <<lqTail, lqNext, lqNode, lqObject, lqDone>>

DeqGive(w) ==
  LET l == lq[w]
  IN /\ LqAt(w, "give")
     /\ lqObject' = [lqObject EXCEPT ![l.h.value] = l.o]
     /\ lqNode' = [lqNode EXCEPT ![l.o] = l.h.value]
     /\ lqState' = [lqState EXCEPT ![l.o] = "running"]
     /\ lqDone' = [lqDone EXCEPT ![w] = @ + 1]
     /\ lq' = [lq EXCEPT ![w] = LqIdle]
     /\ UNCHANGED LqLinks

LqNext ==
  \/ \E t \in LqThreads :
       \/ EnqBegin(t) \/ EnqReset(t) \/ EnqTail(t) \/ EnqNext(t)
       \/ EnqHelp(t) \/ EnqReload(t) \/ EnqLink(t) \/ EnqMove(t)
  \/ \E w \in LqWakers :
       \/ DeqBegin(w) \/ DeqHead(w) \/ DeqTailLoad(w) \/ DeqNextLoad(w) \/ DeqReload(w)
       \/ DeqCountWake(w) \/ DeqPush(w) \/ DeqObject(w) \/ DeqSwing(w) \/ DeqGive(w)

LqSpec == LqInit /\ [][LqNext]_lqVars
-----------------------------------------------------------------------------
(* The list, from the sentinel to the last node.                           *)
LqSize == Cardinality(LqNodes)
LqAfter[k \in 0..LqSize, n \in LqNodes] ==
  LET v == lqNext[n].value
  IN IF IsCount(v) \/ k = 0 THEN <<n>> ELSE <<n>> \o LqAfter[k - 1, v]

LqList == LqAfter[LqSize, lqHead.value]
LqQueue ==
  IF IsCount(lqNext[lqHead.value].value) THEN <<>>
  ELSE LET c == LqList IN [i \in 1..(Len(c) - 1) |-> lqObject[c[i + 1]]]
LqKept ==
  IF IsCount(lqNext[lqHead.value].value) THEN -lqNext[lqHead.value].value
  ELSE LET c == LqList IN -lqNext[c[Len(c)]].value

(* The list has no cycle and the tail is on it, so that an enqueuer always *)
(* finds its end; and a thread that is not in it owns a node that is not   *)
(* in it either, which no other thread has.                                *)
ListSound ==
  LET c == LqList
      inList == {c[i] : i \in DOMAIN c}
  IN /\ Len(c) = Cardinality(inList)
     /\ lqTail.value \in inList
     /\ \A t \in LqThreads : lqState[t] \in {"running", "blocking"} =>
          /\ lqNode[t] \notin inList /\ lqObject[lqNode[t]] = t
          /\ \A u \in LqThreads \ {t} : lqState[u] \in {"running", "blocking"} => lqNode[u] # lqNode[t]

(* The queue implements the block queue that locks rely on: threads are    *)
(* woken in order, one by each wakeup, and wakeups that find nobody are    *)
(* kept, whatever the callers' steps interleave to.                        *)
W == INSTANCE WakeQueue WITH
  WqThreads <- LqThreads, wq <- LqQueue, wpend <- LqKept, wstate <- lqState

LqRefines == W!WqSpec

(* The list is well formed, and the queue implements WakeQueue.            *)
QueueSound == []ListSound /\ LqRefines

=============================================================================
