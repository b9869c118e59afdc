-------------------------------- MODULE LfRing --------------------------------
(***************************************************************************)
(* The lock-free ring of include/bmk-core/lfring.h, on which the packet    *)
(* channel of the network server is built: a queue of indices smaller than *)
(* half its size, in an array whose entries carry the cycle in which they  *)
(* were written.  One action is one access to shared memory.               *)
(*                                                                         *)
(* An entry is a record of its cycle, its safe bit (n) and its index bits; *)
(* NoIdx stands for an index of all ones.  Head and tail do not wrap.      *)
(***************************************************************************)
EXTENDS Integers, FiniteSets

CONSTANTS
  RingUsers,   \* threads
  Order,       \* log2 of the number of indices
  RingMin,     \* LFRING_MIN
  StartFull,   \* kinds of initial ring: subset of {0, 1}
  MaxTicket,   \* bound: operations start while head and tail are below it
  NoIdx

ASSUME RingAssumption ==
  /\ Order \in Nat /\ RingMin \in 0..(Order + 1) /\ StartFull \subseteq {0, 1}
  /\ 1 \in StartFull => RingMin <= Order
  /\ MaxTicket \in Nat /\ NoIdx \notin Nat

VARIABLES
  rhead, rtail, threshold, array,
  held,     \* indices that are not in the ring, by who has them
  lfrPc,      \* per thread: where it is
  ticket,   \* per thread: its head or tail
  entry,    \* per thread: the entry it has read
  eidx,     \* per thread: the index it enqueues
  rseen,    \* per thread: the tail (catchup) or head it has read
  sawEmpty  \* per thread: the ring was empty at some time during its dequeue

lfrRing == <<rhead, rtail, threshold, array>>
userVars == <<held, lfrPc, ticket, entry, eidx, rseen>>
lfrVars == <<lfrRing, userVars, sawEmpty>>

(* lfring_pow2.                                                            *)
pow2[k \in Nat] == IF k = 0 THEN 1 ELSE 2 * pow2[k - 1]

half == pow2[Order]
n == 2 * half
threshold3 == half + n - 1
Entry(c, s, i) == [cycle |-> c, safe |-> s, idx |-> i]
Cycle(t) == t \div n

(* __lfring_raw_map, __lfring_map: neighbours go to different cache lines. *)
raw_map(i, order, size) ==
  ((i % size) \div pow2[order - RingMin]) + ((i * pow2[RingMin]) % size)
map(i) == raw_map(i, Order + 1, n)

Goes(t, p) == lfrPc' = [lfrPc EXCEPT ![t] = p]
Reads(t) == entry' = [entry EXCEPT ![t] = array[map(ticket[t])]]
Writes(t, e) == array' = [array EXCEPT ![map(ticket[t])] = e]

-----------------------------------------------------------------------------
(* lfring_init_empty, lfring_init_full.                                    *)
LfrInit ==
  /\ rhead = 0
  /\ \/ /\ 0 \in StartFull
        /\ rtail = 0 /\ threshold = -1
        /\ array = [j \in 0..(n - 1) |-> Entry(-1, 1, NoIdx)]
        /\ \E u \in RingUsers :
             held = [t \in RingUsers |-> IF t = u THEN 0..(half - 1) ELSE {}]
     \/ /\ 1 \in StartFull
        /\ rtail = half /\ threshold = threshold3
        /\ \E inv \in [0..(n - 1) -> 0..(n - 1)] :
             /\ \A i \in 0..(n - 1) : inv[map(i)] = i
             /\ array = [j \in 0..(n - 1) |->
                  IF inv[j] < half THEN Entry(0, 0, raw_map(n + inv[j], Order, half))
                  ELSE Entry(-1, 1, NoIdx)]
        /\ held = [t \in RingUsers |-> {}]
  /\ lfrPc = [t \in RingUsers |-> "idle"]
  /\ ticket = [t \in RingUsers |-> 0] /\ rseen = [t \in RingUsers |-> 0]
  /\ entry = [t \in RingUsers |-> Entry(-1, 1, NoIdx)]
  /\ eidx = [t \in RingUsers |-> NoIdx]
  /\ sawEmpty = [t \in RingUsers |-> 0]

Idle(t) == lfrPc[t] \in {"idle", "empty"}

-----------------------------------------------------------------------------
(* lfring_enqueue.                                                         *)
EnqTicket(t) ==
  /\ \/ /\ Idle(t) /\ rtail < MaxTicket
        /\ \E i \in held[t] : /\ eidx' = [eidx EXCEPT ![t] = i]
                              /\ held' = [held EXCEPT ![t] = @ \ {i}]
     \/ lfrPc[t] = "eticket" /\ UNCHANGED <<eidx, held>>
  /\ ticket' = [ticket EXCEPT ![t] = rtail]
  /\ rtail' = rtail + 1
  /\ Goes(t, "eload")
  /\ UNCHANGED <<rhead, threshold, array, entry, rseen>>

EnqLoad(t) ==
  /\ lfrPc[t] = "eload"
  /\ Reads(t)
  /\ Goes(t, "elook")
  /\ UNCHANGED <<lfrRing, held, ticket, eidx, rseen>>

(* Mutant: an unsafe entry is used whatever the head.                      *)
MayUseAny(t) == entry[t].cycle < Cycle(ticket[t]) /\ entry[t].idx = NoIdx
MayUse(t) ==
  /\ entry[t].cycle < Cycle(ticket[t]) /\ entry[t].idx = NoIdx
  /\ entry[t].safe = 1 \/ rhead <= ticket[t]

EnqLook(t) ==
  /\ lfrPc[t] = "elook"
  /\ Goes(t, IF MayUse(t) THEN "ecas" ELSE "eticket")
  /\ UNCHANGED <<lfrRing, held, ticket, entry, eidx, rseen>>

(* Compare and exchange of an entry.                                       *)
AsRead(t) == array[map(ticket[t])] = entry[t]

EnqCas(t) ==
  /\ lfrPc[t] = "ecas"
  /\ IF AsRead(t)
       THEN /\ Writes(t, Entry(Cycle(ticket[t]), 1, eidx[t]))
            /\ Goes(t, "ethr") /\ UNCHANGED entry
       ELSE Reads(t) /\ Goes(t, "elook") /\ UNCHANGED array
  /\ UNCHANGED <<rhead, rtail, threshold, held, ticket, eidx, rseen>>

(* The threshold is stored when it is not what it should be.               *)
NotFull == threshold # threshold3

EnqThreshold(t) ==
  /\ lfrPc[t] = "ethr"
  /\ Goes(t, IF NotFull THEN "eset" ELSE "idle")
  /\ UNCHANGED <<lfrRing, held, ticket, entry, eidx, rseen>>

EnqSet(t) ==
  /\ lfrPc[t] = "eset"
  /\ threshold' = threshold3
  /\ Goes(t, "idle")
  /\ UNCHANGED <<rhead, rtail, array, held, ticket, entry, eidx, rseen>>

-----------------------------------------------------------------------------
(* lfring_dequeue.                                                         *)
DeqStart(t) ==
  /\ Idle(t) /\ rhead < MaxTicket
  /\ Goes(t, IF threshold < 0 THEN "empty" ELSE "dticket")
  /\ UNCHANGED <<lfrRing, held, ticket, entry, eidx, rseen>>

DeqTicket(t) ==
  /\ lfrPc[t] = "dticket"
  /\ ticket' = [ticket EXCEPT ![t] = rhead]
  /\ rhead' = rhead + 1
  /\ Goes(t, "dload")
  /\ UNCHANGED <<rtail, threshold, array, held, entry, eidx, rseen>>

DeqLoad(t) ==
  /\ lfrPc[t] = "dload"
  /\ Reads(t)
  /\ Goes(t, "dlook")
  /\ UNCHANGED <<lfrRing, held, ticket, eidx, rseen>>

(* What a dequeuer leaves in an entry of an older cycle: no index of this  *)
(* cycle may be put into an empty one, and one that holds an index becomes *)
(* unsafe.                                                                 *)
LeftBehind(e, c) ==
  IF e.idx = NoIdx THEN Entry(c, e.safe, NoIdx) ELSE Entry(e.cycle, 0, e.idx)

(* The index is taken by atomic_fetch_or, an entry is left behind by       *)
(* compare and exchange.                                                   *)
DeqLook(t) ==
  /\ lfrPc[t] = "dlook"
  /\ LET e == entry[t]
         c == Cycle(ticket[t])
         now == array[map(ticket[t])]
     IN \/ /\ e.cycle = c
           /\ Writes(t, [now EXCEPT !.idx = NoIdx])
           /\ held' = [held EXCEPT ![t] = @ \cup {e.idx}]
           /\ Goes(t, "idle") /\ UNCHANGED entry
        \/ /\ e.cycle # c
           /\ e.cycle > c \/ LeftBehind(e, c) = e
           /\ Goes(t, "dtail") /\ UNCHANGED <<array, held, entry>>
        \/ /\ e.cycle < c /\ LeftBehind(e, c) # e
           /\ IF AsRead(t)
                THEN Writes(t, LeftBehind(e, c)) /\ Goes(t, "dtail") /\ UNCHANGED entry
                ELSE Reads(t) /\ UNCHANGED <<array, lfrPc>>
           /\ UNCHANGED held
  /\ UNCHANGED <<rhead, rtail, threshold, ticket, eidx, rseen>>

(* No entry follows the one looked at.  Mutant: one too many counts.       *)
NearlyBehind(t) == rtail <= ticket[t] + 2
Behind(t) == rtail <= ticket[t] + 1

DeqTail(t) ==
  /\ lfrPc[t] = "dtail"
  /\ rseen' = [rseen EXCEPT ![t] = IF Behind(t) THEN rtail ELSE 0]
  /\ Goes(t, IF Behind(t) THEN "dcatch" ELSE "dthr")
  /\ UNCHANGED <<lfrRing, held, ticket, entry, eidx>>

(* __lfring_catchup, compare and exchange: ticket is the head to catch up  *)
(* with, less one.                                                         *)
DeqCatch(t) ==
  /\ lfrPc[t] = "dcatch"
  /\ IF rtail = rseen[t]
       THEN rtail' = ticket[t] + 1 /\ Goes(t, "ddec")
       ELSE Goes(t, "dhead") /\ UNCHANGED rtail
  /\ rseen' = [rseen EXCEPT ![t] = 0]
  /\ UNCHANGED <<rhead, threshold, array, held, ticket, entry, eidx>>

DeqReadHead(t) ==
  /\ lfrPc[t] = "dhead"
  /\ ticket' = [ticket EXCEPT ![t] = rhead - 1]
  /\ Goes(t, "dread")
  /\ UNCHANGED <<lfrRing, held, entry, eidx, rseen>>

DeqReadTail(t) ==
  /\ lfrPc[t] = "dread"
  /\ IF rtail >= ticket[t] + 1
       THEN Goes(t, "ddec") /\ UNCHANGED rseen
       ELSE Goes(t, "dcatch") /\ rseen' = [rseen EXCEPT ![t] = rtail]
  /\ UNCHANGED <<lfrRing, held, ticket, entry, eidx>>

(* The threshold is decremented; Empty when nothing is left of it.         *)
DeqCount(t) ==
  /\ lfrPc[t] \in {"ddec", "dthr"}
  /\ threshold' = threshold - 1
  /\ Goes(t, IF lfrPc[t] = "ddec" \/ threshold <= 0 THEN "empty" ELSE "dticket")
  /\ UNCHANGED <<rhead, rtail, array, held, ticket, entry, eidx, rseen>>

-----------------------------------------------------------------------------
(* Indices in the ring whose enqueue has returned and that no dequeuer has *)
(* a ticket for.                                                           *)
TicketOf(j) == CHOOSE x \in 0..(rtail + n) : map(x) = j /\ Cycle(x) = array[j].cycle
Items == {j \in 0..(n - 1) : array[j].idx # NoIdx}
Available ==
  {j \in Items : /\ TicketOf(j) >= rhead
                 /\ \A t \in RingUsers : lfrPc[t] \in {"ethr", "eset"} => eidx[t] # array[j].idx}

Dequeuing(t) ==
  lfrPc[t] \in {"dticket", "dload", "dlook", "dtail", "dcatch", "dhead", "dread",
              "ddec", "dthr"}

(* sawEmpty records whether the ring was empty before or after some step   *)
(* of the dequeue that runs or has just returned; t takes the step.        *)
Witness(t) ==
  sawEmpty' = [u \in RingUsers |->
    IF Dequeuing(u)' \/ (u = t /\ lfrPc'[u] = "empty")
      THEN IF (Dequeuing(u) /\ sawEmpty[u] = 1) \/ Available = {} \/ Available' = {}
             THEN 1 ELSE 0
      ELSE IF lfrPc'[u] = "empty" THEN sawEmpty[u] ELSE 0]

RingStep(t) ==
  \/ EnqTicket(t) \/ EnqLoad(t) \/ EnqLook(t) \/ EnqCas(t) \/ EnqThreshold(t)
  \/ EnqSet(t) \/ DeqStart(t) \/ DeqTicket(t) \/ DeqLoad(t) \/ DeqLook(t)
  \/ DeqTail(t) \/ DeqCatch(t) \/ DeqReadHead(t) \/ DeqReadTail(t) \/ DeqCount(t)

RingNext == \E t \in RingUsers : RingStep(t) /\ Witness(t)

RingSpec == LfrInit /\ [][RingNext]_lfrVars

-----------------------------------------------------------------------------
(* Properties.                                                             *)
Indices == 0..(half - 1)

Moving(t) == lfrPc[t] \in {"eticket", "eload", "elook", "ecas"}

(* Where index i is: with a thread, on its way into the ring with a thread *)
(* that enqueues it, or in an entry of the ring.                           *)
Places(i) ==
  ({"held"} \X {t \in RingUsers : i \in held[t]})
  \cup ({"moving"} \X {t \in RingUsers : Moving(t) /\ eidx[t] = i})
  \cup ({"ring"} \X {j \in Items : array[j].idx = i})

(* An index is in one place: none is lost, none is given to two users.     *)
OnePlaceEach == \A i \in Indices : \E p \in Places(i) : Places(i) = {p}

(* An index in the ring is not lost: the head has not passed it, or the    *)
(* dequeuer that has its ticket is going to find it.                       *)
NoIndexLost ==
  \A j \in Items :
    \/ TicketOf(j) >= rhead
    \/ \E t \in RingUsers :
         /\ ticket[t] = TicketOf(j)
         /\ lfrPc[t] \in {"dload", "dlook"}

(* A dequeue answers LFRING_EMPTY only when the ring was empty at some     *)
(* moment of the call.                                                     *)
EmptyIsTrue == \A t \in RingUsers : lfrPc[t] = "empty" => sawEmpty[t] = 1

(* What the ring promises of the indices it is given, whatever the         *)
(* interleaving: each is in one place, and one that is in the ring will be *)
(* found by a dequeuer.                                                    *)
IndicesKept == OnePlaceEach /\ NoIndexLost

=============================================================================
