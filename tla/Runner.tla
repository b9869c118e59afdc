-------------------------------- MODULE Runner ---------------------------------
(***************************************************************************)
(* The programs of a unikernel (librumprun_base/rumprun.c, main.c,         *)
(* daemon.c).  The main thread starts one thread per program in the order  *)
(* of the configuration, connects the programs by pipes, waits for those   *)
(* in the foreground, and after the last one for the rest; then it         *)
(* reboots.  Threads run on several CPUs.                                  *)
(***************************************************************************)
EXTENDS Integers, Sequences, FiniteSets

CONSTANTS
  RrLists       \* configurations: sequences of "fg", "bg", "pipe"

VARIABLES
  rrExecs,      \* rumprun_execs
  rrMain,       \* the main thread: [pc, i, p, tmp]
  rrT,          \* per program: its thread
  rrFlags,      \* rr_flags of per program
  rumprunners,  \* the list, newest first
  rumprun_done,
  w_mtx, rrWaits,  \* owner of the mutex; main is in pthread_cond_wait
  rrFd,         \* per process: [in, out, held]; process 0 is the main thread's
  pipein,
  rrLost        \* two CPUs have updated rumprun_done at the same time

rrSync == <<w_mtx, rrWaits>>
rrVars == <<rrExecs, rrMain, rrT, rrFlags, rumprunners, rumprun_done, rrSync, rrFd, pipein, rrLost>>

Console == 0        \* a descriptor is the pipe of a program, or the console
RrP == 1..Len(rrExecs)
Unlocked == "none"
OnlyConsole == [in |-> Console, out |-> Console, held |-> {}]
WriteEnd(p) == <<"w", p>>
ReadEnd(p) == <<"r", p>>

RrInit ==
  /\ rrExecs \in RrLists
  /\ rrMain = [pc |-> "next", i |-> 1, p |-> 0, tmp |-> 0]
  /\ rrT = [p \in RrP |-> [pc |-> "none", tmp |-> 0]] /\ rrFlags = [p \in RrP |-> {}]
  /\ rumprunners = <<>> /\ rumprun_done = 0 /\ w_mtx = Unlocked /\ rrWaits = FALSE
  /\ rrFd = [p \in {0} \cup RrP |-> OnlyConsole] /\ pipein = 0 /\ rrLost = FALSE

MainGoes(pc) == rrMain' = [rrMain EXCEPT !.pc = pc]
ProgGoes(p, pc) == rrT' = [rrT EXCEPT ![p].pc = pc]
(* pthread_cond_broadcast.  Mutant: it is forgotten.                       *)
NoBroadcast == UNCHANGED rrWaits
RrBroadcast == rrWaits' = FALSE

-----------------------------------------------------------------------------
(* setupproc.  The process of the program starts with the descriptors of   *)
(* the main thread, both ends of its own pipe among them; its output and   *)
(* input become the pipes, and the copies it has are closed, but not that  *)
(* of the end the next program reads.  Then the main thread closes its own.*)
(* Mutant: the main thread keeps the end that is written.                  *)
KeepsWriteEnd(p) == {ReadEnd(p), WriteEnd(p)}
ParentKeeps(p) == {ReadEnd(p)}
setupproc ==
  LET p == rrMain.i
      piped == rrExecs[p] = "pipe"
  IN
  /\ rrMain.pc = "next" /\ p \in RrP
  /\ rrFd' = [rrFd EXCEPT
       ![p] = [in |-> pipein, out |-> IF piped THEN p ELSE Console,
               held |-> (rrFd[0].held \ {ReadEnd(pipein)}) \cup (IF piped THEN {ReadEnd(p)} ELSE {})],
       ![0].held = (@ \ {ReadEnd(pipein)}) \cup (IF piped THEN ParentKeeps(p) ELSE {})]
  /\ pipein' = IF piped THEN p ELSE 0
  /\ rrMain' = [rrMain EXCEPT !.pc = "create", !.p = p, !.i = @ + 1]
  /\ UNCHANGED <<rrExecs, rrT, rrFlags, rumprunners, rumprun_done, rrSync, rrLost>>

(* rumprun: the thread may run before the runner is in the list.           *)
pthread_create ==
  /\ rrMain.pc = "create"
  /\ ProgGoes(rrMain.p, "start") /\ MainGoes("insert")
  /\ UNCHANGED <<rrExecs, rrFlags, rumprunners, rumprun_done, rrSync, rrFd, pipein, rrLost>>
CreateFails ==
  /\ rrMain.pc = "create" /\ MainGoes("next")
  /\ UNCHANGED <<rrExecs, rrT, rrFlags, rumprunners, rumprun_done, rrSync, rrFd, pipein, rrLost>>
InsertRunner ==
  /\ rrMain.pc = "insert" /\ rumprunners' = <<rrMain.p>> \o rumprunners
  /\ MainGoes(IF rrExecs[rrMain.p] = "fg" THEN "lock" ELSE "next")
  /\ UNCHANGED <<rrExecs, rrT, rrFlags, rumprun_done, rrSync, rrFd, pipein, rrLost>>

(* In the foreground: wait for the end, or for daemon().                   *)
MainLocks(from, to) ==
  /\ rrMain.pc = from /\ w_mtx = Unlocked /\ w_mtx' = "main" /\ MainGoes(to)
  /\ UNCHANGED <<rrExecs, rrT, rrFlags, rumprunners, rumprun_done, rrWaits, rrFd, pipein, rrLost>>
MainWaits(pc) ==
  /\ w_mtx' = Unlocked /\ rrWaits' = TRUE /\ MainGoes(pc)
  /\ UNCHANGED <<rrExecs, rrT, rrFlags, rumprunners, rumprun_done, rrFd, pipein, rrLost>>
MainUnlocks(m) ==
  /\ w_mtx' = Unlocked /\ rrMain' = m
  /\ UNCHANGED <<rrExecs, rrT, rrFlags, rumprunners, rumprun_done, rrWaits, rrFd, pipein, rrLost>>
LockForeground == MainLocks("lock", "look")
rumprun ==
  /\ rrMain.pc = "look"
  /\ IF rrFlags[rrMain.p] = {} THEN MainWaits("relock")
     ELSE MainUnlocks([rrMain EXCEPT !.pc = IF "DONE" \in rrFlags[rrMain.p] THEN "join" ELSE "next"])
RelockForeground == ~rrWaits /\ MainLocks("relock", "look")

(* rumprun_wait.  The count is changed without the mutex.                  *)
JoinProgram ==
  /\ rrMain.pc = "join" /\ rrT[rrMain.p].pc = "gone" /\ MainGoes("remove")
  /\ UNCHANGED <<rrExecs, rrT, rrFlags, rumprunners, rumprun_done, rrSync, rrFd, pipein, rrLost>>
rumprun_wait ==
  /\ rrMain.pc = "remove"
  /\ rumprunners' = SelectSeq(rumprunners, LAMBDA q : q # rrMain.p)
  /\ rrMain' = [rrMain EXCEPT !.pc = "count", !.tmp = rumprun_done]
  /\ UNCHANGED <<rrExecs, rrT, rrFlags, rumprun_done, rrSync, rrFd, pipein, rrLost>>
CountDown ==
  /\ rrMain.pc = "count" /\ rumprun_done' = rrMain.tmp - 1
  /\ rrMain' = [rrMain EXCEPT !.pc = "next", !.p = 0, !.tmp = 0]
  /\ rrLost' = (rrLost \/ rumprun_done # rrMain.tmp \/ \E p \in RrP : rrT[p].pc = "flag")
  /\ UNCHANGED <<rrExecs, rrT, rrFlags, rumprunners, rrSync, rrFd, pipein>>

(* bmk_mainthread after the last program: rumprun_get_finished and         *)
(* rumprun_wait until the list is empty.                                   *)
bmk_mainthread ==
  /\ rrMain.pc = "next" /\ rrMain.i > Len(rrExecs)
  /\ MainGoes(IF rumprunners = <<>> THEN "reboot" ELSE "glock")
  /\ UNCHANGED <<rrExecs, rrT, rrFlags, rumprunners, rumprun_done, rrSync, rrFd, pipein, rrLost>>
LockFinished == MainLocks("glock", "glook")
RelockFinished == ~rrWaits /\ MainLocks("grelock", "glook")
Finished == {k \in 1..Len(rumprunners) : "DONE" \in rrFlags[rumprunners[k]]}
rumprun_get_finished ==
  /\ rrMain.pc = "glook"
  /\ IF rumprun_done = 0 THEN MainWaits("grelock")
     ELSE IF Finished = {} THEN MainUnlocks([rrMain EXCEPT !.pc = "assert"])
     ELSE LET k == CHOOSE k \in Finished : \A j \in Finished : k <= j IN
          MainUnlocks([rrMain EXCEPT !.pc = "join", !.p = rumprunners[k]])

-----------------------------------------------------------------------------
(* The thread of a program.                                                *)
mainbouncer(p) ==
  /\ rrT[p].pc = "start" /\ ProgGoes(p, "main")
  /\ UNCHANGED <<rrExecs, rrMain, rrFlags, rumprunners, rumprun_done, rrSync, rrFd, pipein, rrLost>>

(* daemon: the descriptors become /dev/null, or stay; then rumprun_daemon, *)
(* which looks for its runner without the mutex.                           *)
daemon(p) ==
  /\ rrT[p].pc = "main" /\ "DAEMON" \notin rrFlags[p] /\ ProgGoes(p, "find")
  /\ \/ rrFd' = [rrFd EXCEPT ![p].in = Console, ![p].out = Console]
     \/ UNCHANGED rrFd
  /\ UNCHANGED <<rrExecs, rrMain, rrFlags, rumprunners, rumprun_done, rrSync, pipein, rrLost>>
FindRunner(p) ==
  /\ rrT[p].pc = "find"
  /\ ProgGoes(p, IF \E k \in 1..Len(rumprunners) : rumprunners[k] = p THEN "dlock" ELSE "assert")
  /\ UNCHANGED <<rrExecs, rrMain, rrFlags, rumprunners, rumprun_done, rrSync, rrFd, pipein, rrLost>>
(* Under the mutex the flag is set and the main thread is woken.           *)
rumprun_daemon(p) ==
  /\ rrT[p].pc = "dlock" /\ w_mtx = Unlocked
  /\ rrFlags' = [rrFlags EXCEPT ![p] = @ \cup {"DAEMON"}] /\ RrBroadcast
  /\ ProgGoes(p, "main")
  /\ UNCHANGED <<rrExecs, rrMain, rumprunners, rumprun_done, w_mtx, rrFd, pipein, rrLost>>

(* main returns, or calls exit: releaseme, once, and the thread ends.      *)
MainReturns(p) ==
  /\ rrT[p].pc = "main" /\ w_mtx = Unlocked /\ w_mtx' = "prog"
  /\ rrT' = [rrT EXCEPT ![p] = [pc |-> "flag", tmp |-> rumprun_done]]
  /\ UNCHANGED <<rrExecs, rrMain, rrFlags, rumprunners, rumprun_done, rrWaits, rrFd, pipein, rrLost>>
releaseme(p) ==
  /\ rrT[p].pc = "flag"
  /\ rumprun_done' = rrT[p].tmp + 1 /\ rrFlags' = [rrFlags EXCEPT ![p] = @ \cup {"DONE"}]
  /\ rrLost' = (rrLost \/ rumprun_done # rrT[p].tmp \/ rrMain.pc = "count")
  /\ w_mtx' = Unlocked /\ RrBroadcast
  /\ rrT' = [rrT EXCEPT ![p] = [pc |-> "exit", tmp |-> 0]]
  /\ UNCHANGED <<rrExecs, rrMain, rumprunners, rrFd, pipein>>
_exit(p) ==
  /\ rrT[p].pc = "exit" /\ ProgGoes(p, "gone") /\ rrFd' = [rrFd EXCEPT ![p] = OnlyConsole]
  /\ UNCHANGED <<rrExecs, rrMain, rrFlags, rumprunners, rumprun_done, rrSync, pipein, rrLost>>

RrMainNext ==
  \/ setupproc \/ pthread_create \/ InsertRunner \/ LockForeground \/ rumprun \/ RelockForeground
  \/ JoinProgram \/ rumprun_wait \/ CountDown
  \/ bmk_mainthread \/ LockFinished \/ RelockFinished \/ rumprun_get_finished
RrProgNext(p) ==
  \/ mainbouncer(p) \/ FindRunner(p) \/ rumprun_daemon(p) \/ MainReturns(p) \/ releaseme(p) \/ _exit(p)
RrNext ==
  \/ RrMainNext \/ CreateFails
  \/ \E p \in RrP : RrProgNext(p) \/ daemon(p)
RrSpec == RrInit /\ [][RrNext]_rrVars

(* Every thread keeps running, and every program returns.                  *)
RrFairSpec == RrSpec /\ WF_rrVars(RrMainNext) /\ \A p \in 1..4 : WF_rrVars(p \in RrP /\ RrProgNext(p))

-----------------------------------------------------------------------------
InRunners(p) == \E k \in 1..Len(rumprunners) : rumprunners[k] = p
Ended == {p \in RrP : "DONE" \in rrFlags[p]}
NotYetIn(p) == rrMain.pc = "insert" /\ rrMain.p = p

(* rumprun_done is the number of runners in the list that have ended,      *)
(* unless two CPUs have changed it at the same time; a runner leaves the   *)
(* list (and is freed) only when its thread is gone, and the machine       *)
(* reboots only when all are.  A program after a "|" reads what the one    *)
(* before it writes, and nobody but that one can write: it sees the end of *)
(* the input when the other ends.                                          *)
RunnersKept ==
  /\ \/ rrLost
     \/ rumprun_done = Cardinality({p \in Ended : InRunners(p) \/ NotYetIn(p)})
          + (IF rrMain.pc = "count" THEN 1 ELSE 0)
  /\ \A p \in Ended : InRunners(p) \/ rrT[p].pc = "gone" \/ NotYetIn(p)
  /\ rrMain.pc = "reboot" => \A p \in RrP : rrT[p].pc \in {"none", "gone", "assert"}
  /\ \A p \in RrP \ {1} : rrT[p].pc = "start" /\ rrExecs[p - 1] = "pipe" => rrFd[p].in = p - 1
  /\ \A p \in RrP, q \in {0} \cup RrP : rrFd[q].out = p \/ WriteEnd(p) \in rrFd[q].held => q = p

(* When all programs have returned the machine reboots, unless the count   *)
(* has been updated by two CPUs at the same time or an assertion failed.   *)
AllEndReboots ==
  <>(rrMain.pc = "reboot" \/ rrLost \/ \E p \in RrP : rrT[p].pc = "assert")
=============================================================================
