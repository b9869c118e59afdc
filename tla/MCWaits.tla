-------------------------------- MODULE MCWaits --------------------------------
(***************************************************************************)
(* Everything that waits and has to go on: threads in the scheduler, the   *)
(* parking of lwps, the interrupt thread, mutexes and condition variables. *)
(* They share no state; in each behaviour one of them moves, under the     *)
(* fairness of its own module.                                             *)
(***************************************************************************)
EXTENDS Sched, LwpPark, Isr, CondVar

VARIABLE which

MCPins == {AnyCpu, 0}
MCOps == {"create", "join", "yield", "exit"}

MCParts == {"sched", "park", "isr", "cv"}

MCInit ==
  /\ which \in MCParts
  /\ Init /\ PkInit /\ IsInit
  /\ CvInit /\ (which # "cv" => spin = 0)

MCStill(w) ==
  /\ w # "sched" => UNCHANGED vars
  /\ w # "park" => UNCHANGED pkVars
  /\ w # "isr" => UNCHANGED isVars
  /\ w # "cv" => UNCHANGED allVars

MCPart(w) == which = w /\ UNCHANGED which /\ MCStill(w)
MCSched == MCPart("sched") /\ Next
MCPark == MCPart("park") /\ PkNext
MCIsr == MCPart("isr") /\ IsNext
MCCv == MCPart("cv") /\ CvNext

MCNext == MCSched \/ MCPark \/ MCIsr \/ MCCv

MCVars == <<which, vars, pkVars, isVars, allVars>>

(* The fairness of the modules, each for the behaviours in which it moves. *)
MCFair ==
  /\ \A c \in Cpu : /\ WF_vars(which = "sched" /\ ~halted /\ (Schedule(c) \/ Continue(c)))
                    /\ WF_vars(which = "sched" /\ ~halted /\ GiveUp(c))
  /\ \A p \in Lwps : WF_pkVars(which = "park" /\ Progress(p)) /\ WF_pkVars(which = "park" /\ Expire(p))
  /\ WF_isVars(which = "isr" /\ ThreadStep)
  /\ \A i \in Irq : WF_isVars(which = "isr" /\ Interrupt(i)) /\ WF_isVars(which = "isr" /\ Register(i))
  /\ \A t \in Threads : WF_allVars(which = "cv" /\ Proceed(t))

MCSpec == MCInit /\ [][MCNext]_MCVars /\ MCFair

-----------------------------------------------------------------------------
(* Threads: what is runnable runs, joins complete (sched.c).               *)
ThreadsProgress == which = "sched" => RunnableRuns /\ JoinCompletes

(* A parked thread without a timeout that is unparked returns              *)
(* (librumprun_base/_lwp.c).                                               *)
ParksReturn == which = "park" => UnparkReturns

(* Every event on a line of the second controller is handled, unless more  *)
(* urgent lines keep interrupting (intr.c).                                *)
InterruptsServed == which = "isr" => EveryEventServed

(* Who waits for a mutex or is signalled enters (rumpuser_synch.c).        *)
WaitersEnter == which = "cv" => EveryWaiterEnters
================================================================================
