------------------------------ MODULE XenConsole ------------------------------
(***************************************************************************)
(* The console of the Xen platform (console/console.c, xencons_ring.c): a  *)
(* ring of output that minios_printk fills and the console daemon reads,   *)
(* and a ring of input that an interrupt echoes, with the same printk.     *)
(* The interrupt comes between any two steps of a thread's send.           *)
(* Characters: "n" newline, "r" carriage return, "0" NUL; in the output    *)
(* ring a character is kept with the one who printed it.                   *)
(***************************************************************************)
EXTENDS Integers, Sequences, SequencesExt, FiniteSets

CONSTANTS
  CnOutSize, CnInSize,
  CnTexts,      \* what the thread prints
  CnKeys,       \* what is typed
  CnPrints, CnTypes   \* bounds: prints, keys typed

VARIABLES
  console_initialised,  \* "no", "bound" when the event channel is, "yes"
  out_cons, out_prod, cnOut,
  in_cons, in_prod, cnIn,
  cnc,          \* per context: the send it is in
  cnRx,         \* the interrupt's copies of in_cons and in_prod
  cnEvent,      \* the daemon has notified
  cnRead,       \* what the daemon has read
  cnWant,       \* per context: what it was asked to print
  cnTyped, cnHeard,   \* keys typed, and what xencons_rx was given
  cnDamaged     \* a send was interrupted by another, or lost a character

cnOutRing == <<out_cons, out_prod, cnOut>>
cnInRing == <<in_cons, in_prod, cnIn>>
cnLog == <<cnRead, cnWant, cnTyped, cnHeard, cnDamaged>>
cnVars == <<console_initialised, cnOutRing, cnInRing, cnc, cnRx, cnEvent, cnLog>>

Ctx == {"thread", "irq"}
CnIdle == [pc |-> "idle", pieces |-> <<>>, left |-> <<>>, cons |-> 0, prod |-> 0]
SlotOf(i) == i % CnOutSize

CnInit ==
  /\ console_initialised = "no" /\ out_cons = 0 /\ out_prod = 0 /\ cnOut = [i \in 0..(CnOutSize - 1) |-> <<"irq", "0">>]
  /\ in_cons = 0 /\ in_prod = 0 /\ cnIn = [i \in 0..(CnInSize - 1) |-> "0"]
  /\ cnc = [c \in Ctx |-> CnIdle] /\ cnRx = [cons |-> 0, prod |-> 0, on |-> FALSE] /\ cnEvent = FALSE
  /\ cnRead = <<>> /\ cnWant = [c \in Ctx |-> <<>>] /\ cnTyped = <<>> /\ cnHeard = <<>> /\ cnDamaged = FALSE

(* A thread runs when the interrupt does not.                              *)
CnAt(c, pc) == cnc[c].pc = pc /\ (c = "thread" => ~cnRx.on)

-----------------------------------------------------------------------------
(* minios_console_print: a newline becomes carriage return and newline,    *)
(* and is sent with what comes before it.                                  *)
Breaks(d) == SetToSortSeq({i \in 1..(Len(d) - 1) : d[i] = "n"}, LAMBDA a, b : a < b)
Tagged(c, d) == [i \in DOMAIN d |-> <<c, d[i]>>]
CrLf(d) == IF d # <<>> /\ d[Len(d)] = "n" THEN Front(d) \o <<"r", "n">> ELSE d
PiecesOf(d) ==
  LET b == Breaks(d) IN
  [k \in 1..(Len(b) + 1) |->
     CrLf(SubSeq(d, IF k = 1 THEN 1 ELSE b[k - 1] + 1, IF k > Len(b) THEN Len(d) ELSE b[k]))]
(* An empty text has no last character; what is looked at in its place may *)
(* be a newline, and one is sent.                                          *)
Printed(d) == IF d = <<>> THEN {<<<<>>>>, <<<<"n">>>>} ELSE {PiecesOf(d)}
InFull(d) == FlattenSeq([i \in DOMAIN d |-> IF d[i] = "n" THEN <<"r", "n">> ELSE <<d[i]>>])

minios_console_print(c, d) ==
  /\ \E p \in Printed(d) :
       /\ cnc' = [cnc EXCEPT ![c] = [CnIdle EXCEPT !.pc = "send", !.pieces = Tail(p), !.left = Tagged(c, Head(p))]]
       /\ cnDamaged' = (cnDamaged \/ (d = <<>> /\ Head(p) # <<>>))
  /\ cnWant' = [cnWant EXCEPT ![c] = @ \o Tagged(c, InFull(d))]

minios_printk(d) ==
  /\ CnAt("thread", "idle") /\ Len(cnWant["thread"]) < CnPrints
  /\ minios_console_print("thread", d)
  /\ UNCHANGED <<console_initialised, cnOutRing, cnInRing, cnRx, cnEvent, cnRead, cnTyped, cnHeard>>

(* xencons_ring_send_no_notify: the indices are read, ...                  *)
CopiesIndices(c) ==
  /\ CnAt(c, "send")
  /\ cnc' = [cnc EXCEPT ![c].cons = out_cons, ![c].prod = out_prod,
                        ![c].pc = IF out_prod - out_cons \in 0..CnOutSize THEN "copy" ELSE "bug"]
  /\ UNCHANGED <<console_initialised, cnOutRing, cnInRing, cnRx, cnEvent, cnLog>>

(* ... what fits is copied, ...  Mutant: one character more.               *)
Room1(cons, prod) == CnOutSize - (prod - cons) + 1
Room(cons, prod) == CnOutSize - (prod - cons)
CopiesData(c) ==
  LET x == cnc[c]
      n == IF Len(x.left) < Room(x.cons, x.prod) THEN Len(x.left) ELSE Room(x.cons, x.prod)
  IN /\ CnAt(c, "copy")
     /\ cnOut' = [s \in DOMAIN cnOut |->
                    IF \E i \in 1..n : SlotOf(x.prod + i - 1) = s
                      THEN x.left[CHOOSE i \in 1..n : SlotOf(x.prod + i - 1) = s] ELSE cnOut[s]]
     /\ cnc' = [cnc EXCEPT ![c].pc = "publish", ![c].left = SubSeq(@, n + 1, Len(@)), ![c].prod = @ + n]
     /\ UNCHANGED <<console_initialised, out_cons, out_prod, cnInRing, cnRx, cnEvent, cnLog>>

(* ... and the new index is published.  xencons_ring_send sends the rest   *)
(* until there is none; before the console is initialised it is dropped.   *)
xencons_ring_send(c) ==
  LET x == cnc[c]
      loop == console_initialised = "yes" /\ x.left # <<>>
      done == ~loop /\ x.pieces = <<>>
  IN /\ CnAt(c, "publish") /\ out_prod' = x.prod
     /\ cnc' = [cnc EXCEPT ![c] =
          IF done THEN CnIdle ELSE IF loop THEN [x EXCEPT !.pc = "send"]
          ELSE [x EXCEPT !.pc = "send", !.left = Tagged(c, Head(x.pieces)), !.pieces = Tail(x.pieces)]]
     /\ cnDamaged' = (cnDamaged \/ (c = "irq" /\ cnc["thread"].pc \in {"copy", "publish"})
                                \/ (~loop /\ x.left # <<>>))
     /\ UNCHANGED <<console_initialised, out_cons, cnOut, cnInRing, cnRx, cnEvent, cnRead, cnWant, cnTyped, cnHeard>>

-----------------------------------------------------------------------------
(* init_console prints before and after; the event channel is bound first. *)
xencons_ring_init ==
  /\ CnAt("thread", "idle") /\ console_initialised = "no" /\ console_initialised' = "bound"
  /\ UNCHANGED <<cnOutRing, cnInRing, cnc, cnRx, cnEvent, cnLog>>
init_console ==
  /\ CnAt("thread", "idle") /\ console_initialised = "bound" /\ console_initialised' = "yes"
  /\ UNCHANGED <<cnOutRing, cnInRing, cnc, cnRx, cnEvent, cnLog>>

(* console_handle_input takes the indices, ...                             *)
console_handle_input ==
  /\ cnEvent /\ console_initialised # "no" /\ ~cnRx.on /\ cnEvent' = FALSE
  /\ cnRx' = [cons |-> in_cons, prod |-> in_prod, on |-> TRUE]
  /\ UNCHANGED <<console_initialised, cnOutRing, cnInRing, cnc, cnLog>>

(* ... and gives each character to xencons_rx, which ends it with a NUL,   *)
(* in the place of the next one or behind the ring, where output begins,   *)
(* and prints it.                                                          *)
NoHandler == <<"n", "n">>    \* the wording left out
xencons_rx ==
  LET at == cnRx.cons % CnInSize
      key == cnIn[at]
  IN /\ cnRx.on /\ cnc["irq"].pc = "idle" /\ cnRx.cons # cnRx.prod
     /\ cnHeard' = Append(cnHeard, key) /\ cnRx' = [cnRx EXCEPT !.cons = @ + 1]
     /\ \E p \in Printed(IF key = "0" THEN <<>> ELSE <<key>>) :
          /\ cnc' = [cnc EXCEPT !["irq"] =
               [CnIdle EXCEPT !.pc = "send", !.left = Tagged("irq", Head(p)),
                              !.pieces = IF key = "r" THEN PiecesOf(NoHandler) ELSE Tail(p)]]
          /\ cnWant' = [cnWant EXCEPT !["irq"] =
               @ \o Tagged("irq", IF key = "0" THEN <<>> ELSE <<key>>) \o Tagged("irq", IF key = "r" THEN InFull(NoHandler) ELSE <<>>)]
          /\ cnDamaged' = (cnDamaged \/ (key = "0" /\ Head(p) # <<>>) \/ at = CnInSize - 1)
     /\ IF at = CnInSize - 1
          THEN cnOut' = [cnOut EXCEPT ![0] = <<"irq", "0">>] /\ UNCHANGED cnIn
          ELSE cnIn' = [cnIn EXCEPT ![at + 1] = "0"] /\ UNCHANGED cnOut
     /\ UNCHANGED <<console_initialised, out_cons, out_prod, in_cons, in_prod, cnEvent, cnRead, cnTyped>>

InputDone ==
  /\ cnRx.on /\ cnc["irq"].pc = "idle" /\ cnRx.cons = cnRx.prod
  /\ in_cons' = cnRx.cons /\ cnRx' = [cnRx EXCEPT !.on = FALSE]
  /\ UNCHANGED <<console_initialised, cnOutRing, in_prod, cnIn, cnc, cnEvent, cnLog>>

(* The console daemon of the other domain.                                 *)
DaemonReads ==
  /\ out_cons < out_prod /\ out_cons' = out_cons + 1 /\ cnRead' = Append(cnRead, cnOut[SlotOf(out_cons)])
  /\ UNCHANGED <<console_initialised, out_prod, cnOut, cnInRing, cnc, cnRx, cnEvent, cnWant, cnTyped, cnHeard, cnDamaged>>
DaemonTypes(k) ==
  /\ Len(cnTyped) < CnTypes /\ in_prod - in_cons < CnInSize
  /\ cnIn' = [cnIn EXCEPT ![in_prod % CnInSize] = k] /\ in_prod' = in_prod + 1
  /\ cnTyped' = Append(cnTyped, k) /\ cnEvent' = TRUE
  /\ UNCHANGED <<console_initialised, cnOutRing, in_cons, cnc, cnRx, cnRead, cnWant, cnHeard, cnDamaged>>

CnNext ==
  \/ \E d \in CnTexts : minios_printk(d)
  \/ \E c \in Ctx : CopiesIndices(c) \/ CopiesData(c) \/ xencons_ring_send(c)
  \/ xencons_ring_init \/ init_console \/ console_handle_input \/ xencons_rx \/ InputDone
  \/ DaemonReads \/ \E k \in CnKeys : DaemonTypes(k)

CnSpec == CnInit /\ [][CnNext]_cnVars

-----------------------------------------------------------------------------
OnRing == [i \in 1..(out_prod - out_cons) |-> cnOut[SlotOf(out_cons + i - 1)]]
By(c, s) == SelectSeq(s, LAMBDA x : x[1] = c)

(* Unless an interrupt's send has come inside a thread's, or a NUL or a    *)
(* full ring before initialisation has cost a character, what the daemon   *)
(* has read and will find on the ring is what each context was asked to    *)
(* print, with every newline as carriage return and newline, in order and  *)
(* once; nothing is missing when the context is idle; and the assertion on *)
(* the indices holds.                                                      *)
OutputFaithful ==
  ~cnDamaged => \A c \in Ctx :
    /\ cnc[c].pc # "bug"
    /\ LET out == By(c, cnRead \o OnRing) IN IsPrefix(out, cnWant[c]) /\ (cnc[c].pc = "idle" => out = cnWant[c])

=============================================================================
