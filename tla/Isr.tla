--------------------------------- MODULE Isr ---------------------------------
(***************************************************************************)
(* Interrupt delivery of the hw platform (platform/hw/intr.c): interrupt   *)
(* stubs record their line in isr_data.todo and wake the interrupt thread, *)
(* which calls the registered handlers and then acknowledges the           *)
(* interrupts.  The 8259 controllers and the devices are external.         *)
(*                                                                         *)
(* todo is a set of lines and, in armed, the bit isr_handler_todo: set     *)
(* while the interrupt thread runs, cleared by its callback once it has    *)
(* been switched out.                                                      *)
(***************************************************************************)
EXTENDS Integers, FiniteSets

CONSTANTS
  Irq,         \* lines of devices
  TopIrq,      \* the initial isr_lowest, above all lines
  EarlyLines   \* lines that may interrupt before their handler is registered

ASSUME IrqAssumption == /\ Irq \subseteq 0..15 \ {2}
                        /\ TopIrq \in Nat /\ \A i \in Irq : i < TopIrq

VARIABLES
  todo, armed,      \* isr_data.todo
  isPc, isrcopy, totwork,  \* the interrupt thread
  isQueued,           \* number of its run queue entries
  lowest, handler,  \* isr_lowest; lines with a handler
  unmasked, reg,    \* lines open at the PIC; registration steps done
  irr, isM, isS,    \* PIC: requests, and what is in service on each chip
  work              \* lines whose device has something to be handled

isThrVars == <<isPc, isrcopy, totwork>>
regVars == <<lowest, handler, unmasked, reg>>
picVars == <<irr, isM, isS>>
isVars == <<todo, armed, isThrVars, isQueued, regVars, picVars, work>>

-----------------------------------------------------------------------------
(* External: a device, which its driver lets interrupt once the handler is *)
(* registered unless the line was already in use; and the interrupt        *)
(* controllers in fully nested mode.  They deliver the most urgent request *)
(* (lowest number; the second chip is line 2 of the first), unless a chip  *)
(* has something at least as urgent in service; an unspecific EOI ends the *)
(* most urgent service of a chip.                                          *)
Level(i) == IF i < 8 THEN i ELSE 2
MoreUrgent(j, i) == Level(j) < Level(i) \/ (Level(j) = Level(i) /\ j < i)
Least(S) == CHOOSE i \in S : \A j \in S : i <= j
Eoi(S) == IF S = {} THEN S ELSE S \ {Least(S)}

Raise(i) ==
  /\ reg[i] = "done" \/ i \in EarlyLines
  /\ work' = work \cup {i}
  /\ irr' = irr \cup {i}
  /\ UNCHANGED <<todo, armed, isThrVars, isQueued, regVars, isM, isS>>

Deliverable(i) ==
  /\ i \in irr \cap unmasked
  /\ \A j \in irr \cap unmasked : ~MoreUrgent(j, i)
  /\ \A m \in isM : m > Level(i)
  /\ i >= 8 => \A s \in isS : s > i

-----------------------------------------------------------------------------
(* isr(): whoever finds todo 0 finds the thread switched out, and wakes    *)
(* it.  Mutant: wake when no line is recorded yet.                         *)
NoLineYet == todo = {}
FoundZero == todo = {} /\ armed = 0

(* The stub of line i runs isr() with interrupts off.                      *)
Interrupt(i) ==
  /\ Deliverable(i)
  /\ irr' = irr \ {i}
  /\ isM' = isM \cup {Level(i)}
  /\ isS' = IF i >= 8 THEN isS \cup {i} ELSE isS
  /\ todo' = todo \cup {i}
  /\ isQueued' = IF FoundZero THEN isQueued + 1 ELSE isQueued
  /\ UNCHANGED <<armed, isThrVars, regVars, work>>

(* doisr: block, ...                                                       *)
Block ==
  /\ isPc = "start"
  /\ isPc' = "switch"
  /\ totwork' = {}
  /\ UNCHANGED <<todo, armed, isrcopy, isQueued, regVars, picVars, work>>

(* ... isr_callback: fetch_xor of isr_handler_todo; lines recorded since   *)
(* the last look make it wake the thread at once.                          *)
NoLines == todo = {}

IsCallback ==
  /\ isPc = "switch"
  /\ armed' = 0
  /\ isQueued' = IF NoLines THEN isQueued ELSE isQueued + 1
  /\ isPc' = "off"
  /\ UNCHANGED <<todo, isrcopy, totwork, regVars, picVars, work>>

(* ... once woken, take all lines, ...                                     *)
Take ==
  /\ isPc = "off"
  /\ isQueued > 0
  /\ isQueued' = isQueued - 1
  /\ isrcopy' = todo
  /\ todo' = {} /\ armed' = 1
  /\ isPc' = "serve"
  /\ UNCHANGED <<totwork, regVars, picVars, work>>

(* ... call the handlers from isr_lowest up, each of which does all the    *)
(* work of its device, or run past the last bit into the assertion, ...    *)
ScanReaches(i) == lowest <= i

Serve ==
  /\ isPc = "serve"
  /\ IF \A i \in isrcopy : ScanReaches(i)
       THEN /\ totwork' = totwork \cup isrcopy
            /\ work' = work \ (isrcopy \cap handler)
            /\ isrcopy' = {}
            /\ isPc' = "again"
       ELSE /\ isPc' = "halted"
            /\ UNCHANGED <<totwork, work, isrcopy>>
  /\ UNCHANGED <<todo, armed, isQueued, regVars, picVars>>

(* ... look for more, and acknowledge.                                     *)
NothingMore == todo = {}

Again ==
  /\ isPc = "again"
  /\ isrcopy' = IF NothingMore THEN {} ELSE todo
  /\ todo' = {} /\ armed' = 1
  /\ isPc' = IF NothingMore THEN "ack" ELSE "serve"
  /\ UNCHANGED <<totwork, isQueued, regVars, picVars, work>>

(* Mutant: only the second controller is told.                             *)
EoiSlave == isS' = Eoi(isS) /\ UNCHANGED isM
EoiBoth == isS' = Eoi(isS) /\ isM' = Eoi(isM)

Ack ==
  /\ isPc = "ack"
  /\ EoiBoth
  /\ isPc' = "start"
  /\ UNCHANGED <<todo, armed, isrcopy, totwork, isQueued, regVars, irr, work>>

-----------------------------------------------------------------------------
(* bmk_isr_rumpkernel, on another CPU: open the line, insert the handler,  *)
(* lower isr_lowest.                                                       *)
RegUnmask(i) ==
  /\ reg[i] = "none"
  /\ reg' = [reg EXCEPT ![i] = "unmasked"]
  /\ unmasked' = unmasked \cup {i}
  /\ UNCHANGED <<todo, armed, isThrVars, isQueued, lowest, handler, picVars, work>>

RegInsert(i) ==
  /\ reg[i] = "unmasked"
  /\ reg' = [reg EXCEPT ![i] = "inserted"]
  /\ handler' = handler \cup {i}
  /\ UNCHANGED <<todo, armed, isThrVars, isQueued, lowest, unmasked, picVars, work>>

NewLowest(i) == IF i < lowest THEN i ELSE lowest

RegLowest(i) ==
  /\ reg[i] = "inserted"
  /\ reg' = [reg EXCEPT ![i] = "done"]
  /\ lowest' = NewLowest(i)
  /\ UNCHANGED <<todo, armed, isThrVars, isQueued, handler, unmasked, picVars, work>>

Register(i) == RegUnmask(i) \/ RegInsert(i) \/ RegLowest(i)

ThreadStep == Block \/ IsCallback \/ Take \/ Serve \/ Again \/ Ack

Start ==
  /\ todo = {} /\ armed = 1
  /\ isPc = "start" /\ isrcopy = {} /\ totwork = {}
  /\ isQueued = 0
  /\ irr = {} /\ isM = {} /\ isS = {}
  /\ work = {}

(* intr_init, before any registration.                                     *)
IsInit ==
  /\ Start
  /\ lowest = TopIrq /\ handler = {} /\ unmasked = {}
  /\ reg = [i \in Irq |-> "none"]

IsNext == ThreadStep \/ \E i \in Irq : Raise(i) \/ Interrupt(i) \/ Register(i)

IsSpec == IsInit /\ [][IsNext]_isVars

(* CPUs run, and a deliverable interrupt is delivered.                     *)
IsFairness == /\ WF_isVars(ThreadStep)
              /\ \A i \in Irq : WF_isVars(Interrupt(i)) /\ WF_isVars(Register(i))
IsFairSpec == IsSpec /\ IsFairness

-----------------------------------------------------------------------------
(* Properties.                                                             *)

(* The protocol on todo: the bit isr_handler_todo is clear exactly while   *)
(* the thread is switched out; then it is on the run queue exactly when a  *)
(* line is recorded, and otherwise it is on no queue.  No interrupt is     *)
(* left behind by a sleeping thread, and it is never woken twice.          *)
WakeProtocol ==
  /\ armed = 0 <=> isPc = "off"
  /\ isQueued = (IF isPc = "off" /\ todo # {} THEN 1 ELSE 0)

(* Whatever a device has to say is on its way: requested, recorded or      *)
(* about to be served.                                                     *)
NoInterruptLost == work \subseteq irr \cup todo \cup isrcopy

(* doisr finds every line it looks for at or above isr_lowest: the         *)
(* assertion of intr.c:120, "bmk_assert(i < sizeof(isrcopy)*8)", holds.    *)
ScanFindsAll == isPc # "halted"

(* Every event of a device on the second controller is handled, unless     *)
(* more urgent lines keep interrupting.                                    *)
Quiet(i) == \A j \in irr : ~MoreUrgent(j, i)
EveryEventServed ==
  \A i \in {j \in Irq : j >= 8} :
    <>[]Quiet(i) => ((i \in work) ~> (i \notin work))

(* The interrupt thread is woken exactly when it has to be, and neither an *)
(* interrupt nor a line that it scans for is lost.                         *)
IsrSound == WakeProtocol /\ NoInterruptLost /\ ScanFindsAll

=============================================================================
