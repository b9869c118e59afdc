------------------------------- MODULE WakeQueue -------------------------------
(***************************************************************************)
(* What a block queue promises to the locks that are built on it: threads  *)
(* that block are woken in the order in which they came, one by each       *)
(* wakeup, and a wakeup that finds nobody is kept for the next one to come.*)
(***************************************************************************)
EXTENDS Integers, Sequences

CONSTANT WqThreads

VARIABLES
  wq,      \* threads in the queue
  wpend,   \* wakeups that found nobody
  wstate   \* per thread

wqVars == <<wq, wpend, wstate>>

WqInit == wq = <<>> /\ wpend = 0 /\ wstate = [t \in WqThreads |-> "running"]

(* A thread starts to block; it is queued, or takes a kept wakeup.         *)
WqBlock(t) ==
  /\ wstate[t] = "running"
  /\ wstate' = [wstate EXCEPT ![t] = "blocking"]
  /\ UNCHANGED <<wq, wpend>>

WqPut(t) ==
  /\ wstate[t] = "blocking"
  /\ IF wpend > 0
       THEN wpend' = wpend - 1 /\ wstate' = [wstate EXCEPT ![t] = "running"] /\ UNCHANGED wq
       ELSE wq' = Append(wq, t) /\ wstate' = [wstate EXCEPT ![t] = "queued"] /\ UNCHANGED wpend

(* A wakeup takes the first thread, which then runs, or is kept.           *)
WqTake ==
  IF wq = <<>>
    THEN wpend' = wpend + 1 /\ UNCHANGED <<wq, wstate>>
    ELSE /\ wq' = Tail(wq) /\ UNCHANGED wpend
         /\ wstate' = [wstate EXCEPT ![Head(wq)] = "woken"]

WqRun(t) ==
  /\ wstate[t] = "woken"
  /\ wstate' = [wstate EXCEPT ![t] = "running"]
  /\ UNCHANGED <<wq, wpend>>

WqNext == WqTake \/ \E t \in WqThreads : WqBlock(t) \/ WqPut(t) \/ WqRun(t)

WqSpec == WqInit /\ [][WqNext]_wqVars

=============================================================================
