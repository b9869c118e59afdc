------------------------------- MODULE SysProxy -------------------------------
(***************************************************************************)
(* The server of the system call proxy (lib/librumprun_base/sysproxy.c):   *)
(* the main thread polls the connections, answers handshakes itself and    *)
(* queues system calls for a pool of workers; a slot of spclist is shared  *)
(* by reference counting and its socket by a send lock.                    *)
(*                                                                         *)
(* Frames are whole (second part); a frame is its kind, an answer to a     *)
(* request of the server carries the worker that waits for it.  Clients    *)
(* and what a system call does are external.  A thread asleep on spc_cv is *)
(* in cvWait of the slot; rw_cv needs no such set, its waiters test what   *)
(* is changed under the same mutex.                                        *)
(***************************************************************************)
EXTENDS Integers, Sequences, FiniteSets, FiniteSetsExt, SequencesExt

CONSTANTS
  MAXCLI,             \* slots, slot 0 is the listening socket
  SpWorkers,          \* rumpsp_maxworker threads
  rumpsp_idleworker,
  SpFrames,           \* kinds of frames clients send
  SpMaxFrames,        \* bound: frames sent by clients
  SpMaxConns,         \* bound: connections made by clients
  SpMayFini           \* 1 when a system call may end the service

ASSUME SpAssumption ==
  /\ MAXCLI \in Nat \ {0} /\ rumpsp_idleworker \in Nat /\ IsFiniteSet(SpWorkers)
  /\ SpFrames \subseteq {"guest", "fork", "syscall", "exec", "prefork", "bad"}

Slots == 1..(MAXCLI - 1)
SpThreads == SpWorkers \cup {"main"}

VARIABLES
  spclist,    \* struct spclient by slot
  cvWait,     \* per slot: threads asleep on spc_cv
  inbox,      \* per slot: frames the client has sent
  backlog,    \* clients that wait to be accepted
  revents,    \* pfdlist[].revents: slots the main loop has still to look at
  nfds, maxidx, disco, spfini,
  wrklist, nwork, nworker, idleworker,
  signalled,  \* idle workers that sbacv has woken
  spt,        \* per thread: where it is and what it works for
  preforks,   \* number of prepared forks
  sent, made  \* frames and connections so far (bounds)

spPool == <<wrklist, nwork, nworker, idleworker, signalled>>
spLoop == <<revents, nfds, maxidx, disco, spfini>>
spCli == <<inbox, backlog, sent, made>>
spVars == <<spclist, cvWait, spt, preforks, spPool, spLoop, spCli>>

FREE == 0
BUSY == 1
WANTED == 2

SpGoes(t, pc) == [spt EXCEPT ![t].pc = pc]
SpAt(t, pc) == spt[t].pc = pc
Mine(t) == spt[t].slot

SpInit ==
  /\ spclist = [i \in Slots |-> [pfd |-> 0, fd |-> 0, state |-> "NEW", ref |-> 0,
                                 ostatus |-> FREE, inexec |-> 0, gen |-> 0]]
  /\ cvWait = [i \in Slots |-> {}] /\ inbox = [i \in Slots |-> <<>>] /\ backlog = 0
  /\ revents = {} /\ nfds = 1 /\ maxidx = 0 /\ disco = 0 /\ spfini = 0
  /\ wrklist = <<>> /\ nwork = 0 /\ nworker = 0 /\ idleworker = 0 /\ signalled = {}
  /\ spt = [t \in SpThreads |-> [pc |-> IF t = "main" THEN "top" ELSE "none",
                                 slot |-> 1, gen |-> 0, then |-> "", rw |-> 0]]
  /\ preforks = 0 /\ sent = 0 /\ made = 0

-----------------------------------------------------------------------------
(* Clients: they connect, send requests, answer the requests of the server *)
(* and leave.                                                              *)
Left(i) == inbox[i] # <<>> /\ inbox[i][Len(inbox[i])] = "eof"

CliConnect ==
  /\ made < SpMaxConns /\ spfini = 0
  /\ made' = made + 1 /\ backlog' = backlog + 1
  /\ UNCHANGED <<spclist, cvWait, inbox, sent, spt, preforks, spPool, spLoop>>

CliSend(i, f) ==
  /\ spclist[i].pfd = 1 /\ ~Left(i) /\ sent < SpMaxFrames
  /\ inbox' = [inbox EXCEPT ![i] = Append(@, f)] /\ sent' = sent + 1
  /\ UNCHANGED <<spclist, cvWait, backlog, made, spt, preforks, spPool, spLoop>>

CliAnswer(w) ==
  /\ SpAt(w, "ask-wait") /\ spt[w].rw = 1
  /\ spclist[Mine(w)].pfd = 1 /\ ~Left(Mine(w))
  /\ spt' = [spt EXCEPT ![w].rw = 2]
  /\ inbox' = [inbox EXCEPT ![Mine(w)] = Append(@, w)]
  /\ UNCHANGED <<spclist, cvWait, backlog, sent, made, preforks, spPool, spLoop>>

CliLeave(i) ==
  /\ spclist[i].pfd = 1 /\ ~Left(i)
  /\ inbox' = [inbox EXCEPT ![i] = Append(@, "eof")]
  /\ UNCHANGED <<spclist, cvWait, backlog, sent, made, spt, preforks, spPool, spLoop>>

-----------------------------------------------------------------------------
(* sendlock: whoever has to wait says so and sleeps on spc_cv.             *)
Awake(t) == \A i \in Slots : t \notin cvWait[i]

SendLock(t, from, to) ==
  /\ SpAt(t, from) /\ Awake(t)
  /\ LET i == Mine(t) IN
     IF spclist[i].ostatus = FREE
       THEN /\ spclist' = [spclist EXCEPT ![i].ostatus = BUSY]
            /\ spt' = SpGoes(t, to) /\ UNCHANGED cvWait
       ELSE /\ spclist' = [spclist EXCEPT ![i].ostatus = WANTED]
            /\ cvWait' = [cvWait EXCEPT ![i] = @ \cup {t}] /\ UNCHANGED spt

(* sendunlockl.                                                            *)
WokenBySend(i) == IF spclist[i].ostatus = WANTED THEN [cvWait EXCEPT ![i] = {}] ELSE cvWait
SendUnlocked(i) == [spclist EXCEPT ![i].ostatus = FREE]

(* dosend and sendunlock.                                                  *)
SendDone(t, from, to) ==
  /\ SpAt(t, from)
  /\ cvWait' = WokenBySend(Mine(t)) /\ spclist' = SendUnlocked(Mine(t))
  /\ spt' = SpGoes(t, to)

(* spcrelease: one reference less; exec waits for two.                     *)
LastRef(i) == spclist[i].ref <= 1

SpcRelease(t, from, next) ==
  /\ SpAt(t, from)
  /\ LET i == Mine(t) IN
     /\ spclist' = [spclist EXCEPT ![i].ref = @ - 1]
     /\ cvWait' = IF spclist[i].inexec = 1 /\ spclist[i].ref <= 3
                    THEN [cvWait EXCEPT ![i] = {}] ELSE cvWait
     /\ spt' = [spt EXCEPT ![t].pc = IF LastRef(i) THEN "free" ELSE next, ![t].then = next]

(* The last one out closes the socket and frees the slot, ...              *)
SpcFree(t) ==
  /\ SpAt(t, "free")
  /\ spclist' = [spclist EXCEPT ![Mine(t)].fd = 0, ![Mine(t)].state = "NEW"]
  /\ spt' = SpGoes(t, "signal")
  /\ UNCHANGED <<cvWait, preforks, spPool, spLoop, spCli>>

(* ... signaldisco.                                                        *)
SpcSignal(t) ==
  /\ SpAt(t, "signal")
  /\ disco' = disco + 1
  /\ spt' = SpGoes(t, spt[t].then)
  /\ UNCHANGED <<spclist, cvWait, preforks, spPool, revents, nfds, maxidx, spfini, spCli>>

-----------------------------------------------------------------------------
(* The main loop.  Freed slots are counted and maxidx lowered, ...         *)
Open == {i \in Slots : spclist[i].pfd = 1}
LastOpen == IF Open = {} THEN maxidx ELSE Max(Open)

spserver_gc ==
  /\ SpAt("main", "top")
  /\ nfds' = nfds - disco /\ disco' = 0
  /\ maxidx' = IF disco > 0 THEN LastOpen ELSE maxidx
  /\ spt' = SpGoes("main", "poll")
  /\ UNCHANGED <<spclist, cvWait, revents, spfini, preforks, spPool, spCli>>

(* ... poll, ...                                                           *)
Readable == {i \in Open : inbox[i] # <<>>}
            \cup IF backlog > 0 \/ spfini = 1 THEN {0} ELSE {}

spserver_poll ==
  /\ SpAt("main", "poll")
  /\ revents' = Readable \cap 0..maxidx
  /\ revents' # {}
  /\ spt' = SpGoes("main", "scan")
  /\ UNCHANGED <<spclist, cvWait, nfds, maxidx, disco, spfini, preforks, spPool, spCli>>

spserver_again ==
  /\ SpAt("main", "scan") /\ revents = {}
  /\ spt' = SpGoes("main", "top")
  /\ UNCHANGED <<spclist, cvWait, spLoop, preforks, spPool, spCli>>

Scanning(i) == SpAt("main", "scan") /\ revents # {} /\ i = Min(revents)

(* ... serv_handleconn; the scan goes on after the slot it has filled.     *)
(* The client is refused when all slots are in use or its socket fails.    *)
FreeSlots == {i \in Slots : spclist[i].pfd = 0 /\ spclist[i].state = "NEW"}

AcceptFails ==
  /\ Scanning(0) /\ spfini = 0
  /\ backlog' = backlog - 1 /\ revents' = revents \ {0}
  /\ UNCHANGED <<spclist, cvWait, spt, preforks, spPool, nfds, maxidx, disco, spfini,
                 inbox, sent, made>>

serv_handleconn ==
  /\ Scanning(0) /\ spfini = 0 /\ nfds < MAXCLI
  /\ backlog' = backlog - 1
  /\ IF FreeSlots = {}
       THEN /\ spt' = SpGoes("main", "abort")
            /\ UNCHANGED <<spclist, revents, nfds, maxidx, inbox>>
       ELSE LET i == Min(FreeSlots) IN
            /\ spclist' = [spclist EXCEPT ![i].pfd = 1, ![i].fd = 1, ![i].ref = 1,
                                          ![i].gen = @ + 1]
            /\ inbox' = [inbox EXCEPT ![i] = <<>>]
            /\ revents' = {j \in revents : j > i}
            /\ nfds' = nfds + 1 /\ maxidx' = Max({i, maxidx})
            /\ UNCHANGED spt
  /\ UNCHANGED <<cvWait, preforks, spPool, disco, spfini, sent, made>>

(* readframe finds the end of the connection: serv_handledisco.  It marks  *)
(* the connection and wakes all who wait for an answer or to send, ...     *)
DiscoMark(i, then) ==
  /\ spclist' = [spclist EXCEPT ![i].pfd = 0, ![i].state = "DYING", ![i].ostatus = FREE]
  /\ cvWait' = WokenBySend(i)
  /\ spt' = [spt EXCEPT !["main"].pc = "disco", !["main"].slot = i, !["main"].then = then]

serv_handledisco(i) ==
  /\ Scanning(i) /\ i # 0 /\ Head(inbox[i]) = "eof"
  /\ DiscoMark(i, "scan")
  /\ inbox' = [inbox EXCEPT ![i] = <<>>] /\ revents' = revents \ {i}
  /\ UNCHANGED <<preforks, spPool, nfds, maxidx, disco, spfini, backlog, sent, made>>

(* ... clears what is beyond SPC_ZEROFF, ...                               *)
DiscoZero ==
  /\ SpAt("main", "disco")
  /\ spclist' = [spclist EXCEPT ![Mine("main")].ostatus = FREE, ![Mine("main")].inexec = 0]
  /\ spt' = SpGoes("main", "release")
  /\ UNCHANGED <<cvWait, preforks, spPool, spLoop, spCli>>

(* ... and gives up the connection's reference.                            *)
MainRelease ==
  /\ SpcRelease("main", "release", spt["main"].then)
  /\ UNCHANGED <<preforks, spPool, spLoop, spCli>>

-----------------------------------------------------------------------------
(* handlereq and kickwaiter, in the main thread.                           *)
Frame(i, f) == Scanning(i) /\ i # 0 /\ Head(inbox[i]) = f
Consumed(i) == [inbox EXCEPT ![i] = Tail(@)]
(* shutdown(2): the next read finds the end.                               *)
Shut(i) == [inbox EXCEPT ![i] = <<"eof">>]

(* The main thread sends an answer and goes on with the scan or, after a   *)
(* handshake, with the client running.                                     *)
MainSends(i, then) ==
  spt' = [spt EXCEPT !["main"].pc = "lock", !["main"].slot = i, !["main"].then = then]

spAnswered == <<spclist, cvWait, spPool, nfds, maxidx, disco, spfini, backlog, sent, made>>

(* Not a handshake, or one without a prepared fork, or rfork failed.  A    *)
(* guest whose rfork fails, and a fork that is cancelled, get no answer; a *)
(* fork refused late has used up what was prepared.                        *)
HandshakeRefused(i, f) ==
  /\ Frame(i, f) /\ spclist[i].state = "NEW" /\ f \in SpFrames
  /\ IF f = "guest" THEN UNCHANGED spt ELSE MainSends(i, "scan")
  /\ inbox' = Shut(i) /\ revents' = revents \ {i}
  /\ preforks' \in IF f = "fork" /\ preforks > 0 THEN {preforks, preforks - 1} ELSE {preforks}
  /\ UNCHANGED spAnswered

ForkCancelled(i) ==
  /\ Frame(i, "fork") /\ spclist[i].state = "NEW" /\ preforks > 0
  /\ inbox' = Shut(i) /\ revents' = revents \ {i} /\ preforks' = preforks - 1
  /\ UNCHANGED <<spt, spAnswered>>

HandshakeGuest(i) ==
  /\ Frame(i, "guest") /\ spclist[i].state = "NEW"
  /\ MainSends(i, "running") /\ inbox' = Consumed(i) /\ revents' = revents \ {i}
  /\ UNCHANGED <<preforks, spAnswered>>

HandshakeFork(i) ==
  /\ Frame(i, "fork") /\ spclist[i].state = "NEW" /\ preforks > 0
  /\ MainSends(i, "running") /\ inbox' = Consumed(i) /\ revents' = revents \ {i}
  /\ preforks' = preforks - 1
  /\ UNCHANGED spAnswered

Prefork(i) ==
  /\ Frame(i, "prefork") /\ spclist[i].state = "RUNNING"
  /\ MainSends(i, "scan") /\ revents' = revents \ {i}
  /\ IF spclist[i].inexec = 1
       THEN inbox' = Shut(i) /\ UNCHANGED preforks
       ELSE inbox' = Consumed(i) /\ preforks' \in {preforks, preforks + 1}
  /\ UNCHANGED spAnswered

(* A wrong request of a running client; a second handshake is not forgiven.*)
Malformed(i, f) ==
  /\ Frame(i, f) /\ spclist[i].state = "RUNNING"
  /\ f \in {"bad", "guest", "fork"} \/ (f = "exec" /\ spclist[i].inexec = 1)
  /\ MainSends(i, "scan") /\ revents' = revents \ {i}
  /\ inbox' = IF f = "bad" THEN Consumed(i) ELSE Shut(i)
  /\ UNCHANGED <<preforks, spAnswered>>

(* The answer for worker w; without a waiter it is dropped.                *)
kickwaiter(i, w) ==
  /\ Frame(i, w)
  /\ spt' = IF SpAt(w, "ask-wait") /\ Mine(w) = i THEN [spt EXCEPT ![w].rw = 3] ELSE spt
  /\ inbox' = Consumed(i) /\ revents' = revents \ {i}
  /\ UNCHANGED <<preforks, spAnswered>>

(* schedulework: the job holds a reference.  An idle worker is woken or a  *)
(* new one made, if that succeeds.  Mutant: no reference.                  *)
Unreferenced(i) == spclist
Referenced(i) == [spclist EXCEPT ![i].ref = @ + 1]

Job(i, f) == [slot |-> i, gen |-> spclist[i].gen, type |-> f]
Idle == {w \in SpWorkers : SpAt(w, "idle")}

EnoughIdle == nwork + 1 <= idleworker

schedulework(i, f) ==
  /\ Frame(i, f) /\ spclist[i].state = "RUNNING"
  /\ f = "syscall" \/ (f = "exec" /\ spclist[i].inexec = 0)
  /\ inbox' = Consumed(i) /\ revents' = revents \ {i}
  /\ wrklist' = Append(wrklist, Job(i, f)) /\ nwork' = nwork + 1
  /\ spclist' = IF f = "exec" THEN [Referenced(i) EXCEPT ![i].inexec = 1] ELSE Referenced(i)
  /\ \/ /\ EnoughIdle
        /\ IF Idle \subseteq signalled THEN UNCHANGED signalled
           ELSE \E w \in Idle \ signalled : signalled' = signalled \cup {w}
        /\ UNCHANGED <<nworker, spt>>
     \/ /\ ~EnoughIdle /\ nworker < Cardinality(SpWorkers)
        /\ \E w \in SpWorkers : SpAt(w, "none") /\ spt' = SpGoes(w, "loop")
        /\ nworker' = nworker + 1 /\ UNCHANGED signalled
     \/ /\ ~EnoughIdle
        /\ UNCHANGED <<nworker, signalled, spt>>
  /\ UNCHANGED <<cvWait, preforks, idleworker, nfds, maxidx, disco, spfini, backlog, sent, made>>

(* No memory for the job: the client is told to try again, and stays in    *)
(* exec if it was for that.                                                *)
schedulework_fails(i, f) ==
  /\ Frame(i, f) /\ spclist[i].state = "RUNNING"
  /\ f = "syscall" \/ (f = "exec" /\ spclist[i].inexec = 0)
  /\ MainSends(i, "scan") /\ inbox' = Consumed(i) /\ revents' = revents \ {i}
  /\ spclist' = IF f = "exec" THEN [spclist EXCEPT ![i].inexec = 1] ELSE spclist
  /\ UNCHANGED <<preforks, cvWait, spPool, nfds, maxidx, disco, spfini, backlog, sent, made>>

MainLock == SendLock("main", "lock", "send") /\ UNCHANGED <<preforks, spPool, spLoop, spCli>>
MainSend ==
  /\ SendDone("main", "send", spt["main"].then)
  /\ UNCHANGED <<preforks, spPool, spLoop, spCli>>
MainRunning ==
  /\ SpAt("main", "running")
  /\ spclist' = [spclist EXCEPT ![Mine("main")].state = "RUNNING"]
  /\ spt' = SpGoes("main", "scan")
  /\ UNCHANGED <<cvWait, preforks, spPool, spLoop, spCli>>

-----------------------------------------------------------------------------
(* serv_shutdown, once the service is ended: every connection is given up, *)
(* and its reference once more.                                            *)
serv_shutdown ==
  /\ Scanning(0) /\ spfini = 1
  /\ spt' = [spt EXCEPT !["main"].pc = "shut", !["main"].slot = 1]
  /\ revents' = {}
  /\ UNCHANGED <<spclist, cvWait, preforks, spPool, nfds, maxidx, disco, spfini, spCli>>

ShutOne ==
  /\ SpAt("main", "shut")
  /\ LET i == Mine("main") IN
     IF spclist[i].fd = 0
       THEN spt' = SpGoes("main", "shut-next") /\ UNCHANGED <<spclist, cvWait>>
       ELSE DiscoMark(i, "shut-release")
  /\ UNCHANGED <<preforks, spPool, spLoop, spCli>>

ShutRelease ==
  /\ SpcRelease("main", "shut-release", "shut-next")
  /\ UNCHANGED <<preforks, spPool, spLoop, spCli>>

ShutNext ==
  /\ SpAt("main", "shut-next")
  /\ LET i == Mine("main") IN
     spt' = IF i + 1 \in Slots THEN [spt EXCEPT !["main"].pc = "shut", !["main"].slot = i + 1]
            ELSE SpGoes("main", "exit")
  /\ UNCHANGED <<spclist, cvWait, preforks, spPool, spLoop, spCli>>

-----------------------------------------------------------------------------
(* serv_workbouncer.  A worker ends when enough are idle, else it waits    *)
(* for a job, ...                                                          *)
WorkerLoop(w) ==
  /\ SpAt(w, "loop")
  /\ IF idleworker - nwork >= rumpsp_idleworker
       THEN nworker' = nworker - 1 /\ spt' = SpGoes(w, "none") /\ UNCHANGED idleworker
       ELSE idleworker' = idleworker + 1 /\ spt' = SpGoes(w, "idle") /\ UNCHANGED nworker
  /\ signalled' = IF wrklist # <<>> /\ spt'[w].pc = "idle" THEN signalled \cup {w} ELSE signalled
  /\ UNCHANGED <<spclist, cvWait, wrklist, nwork, preforks, spLoop, spCli>>

(* ... looks again when woken, takes the first job, ...                    *)
WorkerTake(w) ==
  /\ SpAt(w, "idle") /\ w \in signalled
  /\ signalled' = signalled \ {w}
  /\ IF wrklist = <<>>
       THEN UNCHANGED <<wrklist, nwork, idleworker, spt>>
       ELSE LET j == Head(wrklist) IN
            /\ wrklist' = Tail(wrklist) /\ nwork' = nwork - 1 /\ idleworker' = idleworker - 1
            /\ spt' = [spt EXCEPT ![w] = [@ EXCEPT !.pc = j.type, !.slot = j.slot,
                                                   !.gen = j.gen, !.then = j.type]]
  /\ UNCHANGED <<spclist, cvWait, nworker, preforks, spLoop, spCli>>

spWorker == <<preforks, spPool, spLoop, spCli>>

(* ... makes the system call, which may ask the client for data or memory  *)
(* (rumpuser_sp_copyin, rumpuser_sp_anonmmap), send it some or a signal    *)
(* (rumpuser_sp_copyout, rumpuser_sp_raise), end the service, or just      *)
(* return, at once when no lwp could be made for it.                       *)
InSyscall(w, pc) ==
  SpAt(w, "syscall") /\ spt' = SpGoes(w, pc) /\ UNCHANGED <<spclist, cvWait, spWorker>>
SyscallAsks(w) == InSyscall(w, "ask")
SyscallSends(w) == InSyscall(w, "out")
SyscallEnds(w) == SpMayFini = 1 /\ InSyscall(w, "fini")
SyscallReturns(w) == InSyscall(w, "resp")

(* putwait, SENDIOV, waitresp: the answer, or the end of the connection.   *)
AskLock(w) == SendLock(w, "ask", "ask-send") /\ UNCHANGED spWorker
AskSend(w) ==
  /\ SpAt(w, "ask-send")
  /\ cvWait' = WokenBySend(Mine(w)) /\ spclist' = SendUnlocked(Mine(w))
  /\ spt' = [spt EXCEPT ![w].pc = "ask-wait", ![w].rw = 1]
  /\ UNCHANGED spWorker
(* unputwait, when the socket is closed.                                   *)
AskFails(w) ==
  /\ spclist[Mine(w)].state = "DYING" /\ SendDone(w, "ask-send", "resp")
  /\ UNCHANGED spWorker
MayReturn(w) == spt[w].rw = 3 \/ spclist[Mine(w)].state = "DYING"
waitresp(w) ==
  /\ SpAt(w, "ask-wait") /\ MayReturn(w)
  /\ spt' = [spt EXCEPT ![w].pc = "resp", ![w].rw = 0]
  /\ UNCHANGED <<spclist, cvWait, spWorker>>

OutLock(w) == SendLock(w, "out", "out-send") /\ UNCHANGED spWorker
OutSend(w) == SendDone(w, "out-send", "resp") /\ UNCHANGED spWorker

(* rumpuser_sp_fini answers the call, unless another thread of the client  *)
(* has cleared spc_syscallreq, and ends the service.                       *)
FiniSilent(w) ==
  /\ SpAt(w, "fini") /\ Awake(w)
  /\ spfini' = 1 /\ spt' = SpGoes(w, "resp")
  /\ UNCHANGED <<spclist, cvWait, preforks, spPool, revents, nfds, maxidx, disco, spCli>>
FiniLock(w) == SendLock(w, "fini", "fini-send") /\ UNCHANGED spWorker
FiniSend(w) ==
  /\ SendDone(w, "fini-send", "resp")
  /\ spfini' = 1
  /\ UNCHANGED <<preforks, spPool, revents, nfds, maxidx, disco, spCli>>

(* serv_handleexec: wait for the other threads of the client.              *)
ExecWait(w) ==
  /\ SpAt(w, "exec") /\ Awake(w)
  /\ IF spclist[Mine(w)].ref > 2
       THEN cvWait' = [cvWait EXCEPT ![Mine(w)] = @ \cup {w}] /\ UNCHANGED <<spclist, spt>>
       ELSE /\ spclist' = [spclist EXCEPT ![Mine(w)].inexec = 0]
            /\ spt' = SpGoes(w, "resp") /\ UNCHANGED cvWait
  /\ UNCHANGED spWorker

(* send_syscall_resp or send_handshake_resp, spcrelease.                   *)
RespLock(w) == SendLock(w, "resp", "resp-send") /\ UNCHANGED spWorker
RespSend(w) == SendDone(w, "resp-send", "release") /\ UNCHANGED spWorker
WorkerRelease(w) == SpcRelease(w, "release", "loop") /\ UNCHANGED spWorker

-----------------------------------------------------------------------------
MainStep ==
  \/ spserver_gc \/ spserver_poll \/ spserver_again \/ AcceptFails \/ serv_handleconn
  \/ DiscoZero \/ MainRelease \/ MainLock \/ MainSend \/ MainRunning
  \/ serv_shutdown \/ ShutOne \/ ShutRelease \/ ShutNext \/ SpcFree("main") \/ SpcSignal("main")
  \/ \E i \in Slots :
       \/ serv_handledisco(i) \/ HandshakeGuest(i) \/ HandshakeFork(i) \/ ForkCancelled(i) \/ Prefork(i)
       \/ \E f \in SpFrames : \/ HandshakeRefused(i, f) \/ Malformed(i, f)
                              \/ schedulework(i, f) \/ schedulework_fails(i, f)
       \/ \E w \in SpWorkers : kickwaiter(i, w)

WorkerStep(w) ==
  \/ WorkerLoop(w) \/ WorkerTake(w) \/ SyscallAsks(w) \/ SyscallSends(w)
  \/ SyscallEnds(w) \/ SyscallReturns(w) \/ AskLock(w) \/ AskSend(w) \/ AskFails(w)
  \/ waitresp(w) \/ OutLock(w) \/ OutSend(w) \/ FiniSilent(w) \/ FiniLock(w) \/ FiniSend(w)
  \/ ExecWait(w)
  \/ RespLock(w) \/ RespSend(w) \/ WorkerRelease(w) \/ SpcFree(w) \/ SpcSignal(w)

Clients ==
  \/ CliConnect \/ \E w \in SpWorkers : CliAnswer(w)
  \/ \E i \in Slots : CliLeave(i) \/ \E f \in SpFrames : CliSend(i, f)

SpNext == MainStep \/ Clients \/ \E w \in SpWorkers : WorkerStep(w)

SpSpec == SpInit /\ [][SpNext]_spVars

-----------------------------------------------------------------------------
(* Properties.                                                             *)
Working(i) == {w \in SpWorkers :
                 Mine(w) = i /\ spt[w].pc \notin {"none", "loop", "idle", "free", "signal"}}
JobsFor(i) == {k \in DOMAIN wrklist : wrklist[k].slot = i}
Connected(i) == spclist[i].pfd = 1
                \/ (Mine("main") = i /\ spt["main"].pc \in {"disco", "release"})

(* A slot is held by its connection, by every queued job and by every      *)
(* worker at work for it, and by nobody else; none of them ever finds the  *)
(* slot given to another client.  (serv_shutdown gives up more than it     *)
(* has: nothing is claimed once the service is ended.)                     *)
SlotsCounted ==
  spfini = 0 => \A i \in Slots :
    /\ spclist[i].ref = Cardinality(Working(i)) + Cardinality(JobsFor(i))
                        + (IF Connected(i) THEN 1 ELSE 0)
    /\ \A w \in Working(i) : spt[w].gen = spclist[i].gen
    /\ \A k \in JobsFor(i) : wrklist[k].gen = spclist[i].gen

(* The comment at sysproxy.c:1458, "not finding a slot is impossible": the *)
(* count of descriptors tells the slots in use and the ones freed since    *)
(* the last poll, so that accept never aborts; and poll looks at every     *)
(* open connection.                                                        *)
SlotFound ==
  /\ spt["main"].pc # "abort"
  /\ spfini = 0 => nfds = 1 + Cardinality(Slots \ FreeSlots) + disco
                             + Cardinality({t \in SpThreads : SpAt(t, "signal")})
  /\ spt["main"].pc = "poll" => \A i \in Open : i <= maxidx

(* The pool: the counters tell how many work, wait and are idle, and a     *)
(* queued job has a worker that is awake, unless there is none at all.     *)
PoolCounted ==
  /\ nwork = Len(wrklist) /\ idleworker = Cardinality(Idle)
  /\ nworker = Cardinality({w \in SpWorkers : ~SpAt(w, "none")})
  /\ wrklist # <<>> /\ nworker > 0 =>
       \E w \in SpWorkers : ~SpAt(w, "none") /\ (SpAt(w, "idle") => w \in signalled)

(* One thread at a time sends on a connection that is alive, and one that  *)
(* sleeps for its turn has a holder that will wake it.                     *)
Sending(i) == {t \in SpThreads : Mine(t) = i /\ spt[t].pc \in
                 {"send", "ask-send", "out-send", "fini-send", "resp-send"}}
SendSerialised ==
  \A i \in Slots : spclist[i].state # "DYING" /\ spfini = 0 =>
    /\ Cardinality(Sending(i)) = (IF spclist[i].ostatus = FREE THEN 0 ELSE 1)
    /\ {t \in cvWait[i] : ~SpAt(t, "exec")} # {} => spclist[i].ostatus = WANTED

(* The server: references, slots, workers and the send lock.               *)
ServerSound == SlotsCounted /\ SlotFound /\ PoolCounted /\ SendSerialised

-------------------------------------------------------------------------------
(***************************************************************************)
(* One direction of a connection of the system call proxy                  *)
(* (lib/librumprun_base/sysproxy.c): threads that send one frame each with *)
(* dosend under the send lock, and a reader that puts frames together with *)
(* readframe.  The socket takes and gives any part of what it is offered.  *)
(* A byte is its frame, its place there and, in the header, the length the *)
(* frame claims (rsp_len).                                                 *)
(***************************************************************************)

CONSTANTS
  WiSenders,
  HDRSZ,
  WiBodies      \* lengths of bodies

VARIABLES
  wiLen,        \* per sender: length of its frame
  iov,          \* per sender: what is left in its iovec
  ostatus,      \* the send lock: holder, or "free"
  wire,         \* bytes in the socket
  rdHdr, rdBuf, \* spc_hdr and spc_buf up to spc_off
  rdGot,        \* frames returned by readframe
  wiOrder       \* senders in the order of their locking

wiVars == <<wiLen, iov, ostatus, wire, rdHdr, rdBuf, rdGot, wiOrder>>

Header(s) == [k \in 1..HDRSZ |-> [of |-> s, at |-> k, len |-> wiLen[s]]]
Body(s) == [k \in 1..(wiLen[s] - HDRSZ) |-> [of |-> s, at |-> HDRSZ + k, len |-> 0]]

WiInit ==
  /\ wiLen \in [WiSenders -> {HDRSZ + b : b \in WiBodies}]
  /\ iov = [s \in WiSenders |-> <<Header(s), Body(s)>>]
  /\ ostatus = "free" /\ wire = <<>> /\ rdHdr = <<>> /\ rdBuf = <<>>
  /\ rdGot = <<>> /\ wiOrder = <<>>

WiLockFree == ostatus = "free"

WiLock(s) ==
  /\ WiLockFree /\ s \notin Range(wiOrder)
  /\ ostatus' = s /\ wiOrder' = Append(wiOrder, s)
  /\ UNCHANGED <<wiLen, iov, wire, rdHdr, rdBuf, rdGot>>

(* sendmsg takes n bytes; the pieces they fill are dropped from the iovec, *)
(* the first that is left starts after the rest of them.                   *)
Whole(v, n) == {k \in 1..Len(v) : Len(FlattenSeq(SubSeq(v, 1, k))) <= n}
Adjusted(v, n) ==
  LET k == Cardinality(Whole(v, n)) IN
  IF k = Len(v) THEN <<>>
  ELSE LET m == n - Len(FlattenSeq(SubSeq(v, 1, k)))
       IN [SubSeq(v, k + 1, Len(v)) EXCEPT ![1] = SubSeq(@, m + 1, Len(@))]

dosend(s) ==
  /\ s \in Range(wiOrder) /\ iov[s] # <<>>
  /\ \E n \in 1..Len(FlattenSeq(iov[s])) :
       /\ wire' = wire \o SubSeq(FlattenSeq(iov[s]), 1, n)
       /\ iov' = [iov EXCEPT ![s] = Adjusted(@, n)]
  /\ ostatus' = IF iov'[s] = <<>> THEN "free" ELSE ostatus
  /\ UNCHANGED <<wiLen, rdHdr, rdBuf, rdGot, wiOrder>>

(* readframe: the header as far as it comes; a frame without a body is     *)
(* complete with it, ...                                                   *)
Deliver == rdGot' = Append(rdGot, rdHdr' \o rdBuf')
framelen == rdHdr[1].len

(* The caller takes the frame (spcresetbuf).                               *)
Took == IF rdHdr # <<>> /\ Len(rdHdr) = HDRSZ /\ Len(rdBuf) = framelen - HDRSZ THEN <<>> ELSE rdHdr

ReadHeader ==
  /\ Len(Took) < HDRSZ /\ wire # <<>>
  /\ \E n \in 1..Min({HDRSZ - Len(Took), Len(wire)}) :
       /\ rdHdr' = Took \o SubSeq(wire, 1, n)
       /\ wire' = SubSeq(wire, n + 1, Len(wire))
  /\ rdBuf' = <<>>
  /\ IF Len(rdHdr') = HDRSZ /\ rdHdr'[1].len = HDRSZ THEN Deliver ELSE UNCHANGED rdGot
  /\ UNCHANGED <<wiLen, iov, ostatus, wiOrder>>

(* ... then the body.                                                      *)
ReadBody ==
  /\ Len(Took) = HDRSZ /\ wire # <<>>
  /\ \E n \in 1..Min({framelen - HDRSZ - Len(rdBuf), Len(wire)}) :
       /\ rdBuf' = rdBuf \o SubSeq(wire, 1, n)
       /\ wire' = SubSeq(wire, n + 1, Len(wire))
  /\ IF Len(rdBuf') = framelen - HDRSZ THEN rdGot' = Append(rdGot, rdHdr \o rdBuf')
     ELSE UNCHANGED rdGot
  /\ UNCHANGED <<wiLen, iov, ostatus, rdHdr, wiOrder>>

WiNext == ReadHeader \/ ReadBody \/ \E s \in WiSenders : WiLock(s) \/ dosend(s)
WiSpec == WiInit /\ [][WiNext]_wiVars

(* However the socket cuts what is sent, readframe returns the frames that *)
(* were sent, whole, one after the other in the order in which their       *)
(* senders got the lock, and all of them once the socket is empty.         *)
WiFrame(s) == Header(s) \o Body(s)
FramesWhole ==
  /\ \A k \in DOMAIN rdGot : k <= Len(wiOrder) /\ rdGot[k] = WiFrame(wiOrder[k])
  /\ wire = <<>> /\ ostatus = "free" => Len(rdGot) = Len(wiOrder)
===============================================================================
