-------------------------------- MODULE BlkOpen --------------------------------
(***************************************************************************)
(* Opening and closing of block devices (platform/xen/rumphyper_bio.c):    *)
(* the table blkdevs, the names that reserve its slots, and the counts     *)
(* that decide when the frontend is set up and shut down.  A caller gives  *)
(* its rump CPU away only while blkfront_init waits for the backend; other *)
(* callers run in between.  A name is [dt, disk, part], the numbers that   *)
(* devname2vbd takes out of its text.                                      *)
(***************************************************************************)
EXTENDS Integers, FiniteSets

CONSTANTS
  BoThreads,
  BoNames,      \* names the threads use
  NBLKDEV,
  BoReadOnly,   \* vbds the backend exports read-only
  BoFronts      \* bound: frontends ever set up

ASSUME BoAssumption ==
  /\ NBLKDEV \in Nat \ {0} /\ BoFronts \in Nat
  /\ BoNames \subseteq [dt : STRING, disk : Int, part : Int]

(* The smallest of a set of slots.                                         *)
Lowest(S) == CHOOSE x \in S : \A y \in S : x <= y
VARIABLES
  blkdevs,      \* per slot: [vbd, open, dev], dev a frontend or 0
  boLive,       \* frontends set up and not shut down
  boT,          \* per thread: where it is
  boFds,        \* per slot: descriptors returned and not closed
  boNext,       \* frontends set up so far
  boTwice       \* slots that two threads were opening at the same time

boVars == <<blkdevs, boLive, boT, boFds, boNext, boTwice>>

BoSlots == 0..(NBLKDEV - 1)
NoVbd == -1
BoIdle == [pc |-> "idle", num |-> 0, write |-> FALSE]

(* rumprun_platform_rumpuser_init.                                         *)
BoInit ==
  /\ blkdevs = [i \in BoSlots |-> [vbd |-> NoVbd, open |-> 0, dev |-> 0]]
  /\ boLive = {} /\ boT = [t \in BoThreads |-> BoIdle]
  /\ boFds = [i \in BoSlots |-> 0] /\ boNext = 1 /\ boTwice = {}

-----------------------------------------------------------------------------
(* The vbd of a name.  A disk of type sd may be one too many: the check    *)
(* lets disk 16 pass.                                                      *)
HdVbd(d, p) == IF d < 2 THEN 3 * 256 + d * 64 + p
               ELSE IF d < 4 THEN 22 * 256 + (d - 2) * 64 + p ELSE NoVbd
SdVbd(d, p) == IF d > 16 \/ p > 16 THEN NoVbd ELSE 8 * 256 + d * 16 + p
XvdVbd(d, p) == IF d < 16 THEN 202 * 256 + d * 16 + p
                ELSE IF d > 25 THEN NoVbd ELSE 268435456 + d * 256 + p
devname2vbd(n) ==
  IF n.disk < 0 \/ n.part < 0 \/ n.part > 9 THEN NoVbd
  ELSE CASE n.dt = "hd" -> HdVbd(n.disk, n.part)
         [] n.dt = "sd" -> SdVbd(n.disk, n.part)
         [] n.dt = "xvd" -> XvdVbd(n.disk, n.part)
         [] OTHER -> NoVbd

(* The slot of a vbd: the one that has it, or the first that is free;      *)
(* NBLKDEV when there is none.                                             *)
devname2num(vbd) ==
  LET S == {i \in BoSlots : blkdevs[i].vbd = vbd}
      F == {i \in BoSlots : blkdevs[i].vbd = NoVbd}
  IN  IF S # {} THEN Lowest(S) ELSE IF F # {} THEN Lowest(F) ELSE NBLKDEV

Opening(i) == \E t \in BoThreads : boT[t].pc # "idle" /\ boT[t].num = i

(* devopen: a device that is open is counted once more, and the caller is  *)
(* told 1, an error; otherwise the frontend is set up.                     *)
(* Mutant: it gets the descriptor, and is not counted.                     *)
Shared(i) == [count |-> blkdevs[i].open, fds |-> boFds[i] + 1]
AlreadyOpen(i) == [count |-> blkdevs[i].open + 1, fds |-> boFds[i]]
devopen(t, num, vbd, how, write) ==
  LET B == [blkdevs EXCEPT ![num].vbd = vbd] IN
  IF B[num].open # 0
  THEN /\ blkdevs' = [B EXCEPT ![num].open = AlreadyOpen(num).count]
       /\ boFds' = [boFds EXCEPT ![num] = AlreadyOpen(num).fds]
       /\ UNCHANGED <<boLive, boT, boNext, boTwice>>
  ELSE /\ blkdevs' = B
       /\ boT' = [boT EXCEPT ![t] = [pc |-> how, num |-> num, write |-> write]]
       /\ boTwice' = IF Opening(num) THEN boTwice \cup {num} ELSE boTwice
       /\ UNCHANGED <<boLive, boFds, boNext>>

Named(t, n, how, write) ==
  LET vbd == devname2vbd(n) IN
  /\ boT[t].pc = "idle" /\ boNext <= BoFronts /\ \A i \in BoSlots : blkdevs[i].open <= BoFronts
  /\ vbd # NoVbd /\ devname2num(vbd) # NBLKDEV
  /\ devopen(t, devname2num(vbd), vbd, how, write)
rumpuser_open(t) == \E n \in BoNames, write \in BOOLEAN : Named(t, n, "open", write)
rumpuser_getfileinfo(t) == \E n \in BoNames : Named(t, n, "info", FALSE)

(* Close: the last one shuts the frontend down.                            *)
Released(B, L, i) ==
  IF B[i].open = 1
  THEN [devs |-> [B EXCEPT ![i] = [vbd |-> @.vbd, open |-> 0, dev |-> 0]], live |-> L \ {B[i].dev}]
  ELSE [devs |-> [B EXCEPT ![i].open = @ - 1], live |-> L]

(* blkfront_init has returned: without a frontend ...                      *)
InitFailed(t) ==
  /\ boT[t].pc # "idle" /\ boT' = [boT EXCEPT ![t] = BoIdle]
  /\ blkdevs' = [blkdevs EXCEPT ![boT[t].num].dev = 0]
  /\ UNCHANGED <<boLive, boFds, boNext, boTwice>>
(* ... or with one: rumpuser_open returns the descriptor, unless it is to  *)
(* be written and cannot, and then it stays open; rumpuser_getfileinfo     *)
(* closes it again.                                                        *)
InitDone(t) ==
  LET i == boT[t].num
      B == [blkdevs EXCEPT ![i].dev = boNext, ![i].open = 1]
      C == Released(B, boLive \cup {boNext}, i)
  IN
  /\ boT[t].pc # "idle" /\ boNext <= BoFronts /\ boNext' = boNext + 1
  /\ boT' = [boT EXCEPT ![t] = BoIdle] /\ UNCHANGED boTwice
  /\ IF boT[t].pc = "open"
     THEN /\ blkdevs' = B /\ boLive' = boLive \cup {boNext}
          /\ boFds' = IF boT[t].write /\ B[i].vbd \in BoReadOnly THEN boFds
                      ELSE [boFds EXCEPT ![i] = @ + 1]
     ELSE blkdevs' = C.devs /\ boLive' = C.live /\ UNCHANGED boFds

rumpuser_close(t) ==
  /\ boT[t].pc = "idle"
  /\ \E i \in BoSlots :
       LET C == Released(blkdevs, boLive, i) IN
       /\ boFds[i] > 0 /\ boFds' = [boFds EXCEPT ![i] = @ - 1]
       /\ blkdevs' = C.devs /\ boLive' = C.live
  /\ UNCHANGED <<boT, boNext, boTwice>>

BoNext == \E t \in BoThreads :
  \/ rumpuser_open(t) \/ rumpuser_getfileinfo(t) \/ rumpuser_close(t) \/ InitFailed(t) \/ InitDone(t)
BoSpec == BoInit /\ [][BoNext]_boVars
-----------------------------------------------------------------------------
(* No vbd has two slots and no two names one vbd; a descriptor that was    *)
(* returned keeps its device open and its frontend connected until it is   *)
(* closed, whatever else is opened, asked about and closed; and a frontend *)
(* that is connected belongs to a slot.  Two threads in devopen for one    *)
(* device at the same time are the exception: both set up a frontend, and  *)
(* the count is 1.                                                         *)
TableKept ==
  /\ \A i, j \in BoSlots : blkdevs[i].vbd = blkdevs[j].vbd => i = j \/ blkdevs[i].vbd = NoVbd
  /\ \A m, n \in BoNames : devname2vbd(m) = devname2vbd(n) => m = n \/ devname2vbd(m) = NoVbd
  /\ \A i \in BoSlots \ boTwice :
       boFds[i] > 0 => blkdevs[i].open >= boFds[i] /\ blkdevs[i].dev \in boLive
  /\ \A f \in boLive : boTwice # {} \/ \E i \in BoSlots : blkdevs[i].dev = f
=============================================================================
