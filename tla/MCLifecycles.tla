------------------------------ MODULE MCLifecycles -----------------------------
(***************************************************************************)
(* What is set up, goes on and ends: a channel between an application and  *)
(* the network server from its start, the connection of both with restarts *)
(* of the server, the front ends of the Xen platform and the runner of     *)
(* programs.  They share no state; in each behaviour one of them moves,    *)
(* under the fairness of its own module.                                   *)
(***************************************************************************)
EXTENDS NetdomChannel, NetdomConnect, FrontLife, Runner

VARIABLE which

(* The frontend is the sender: its rings exist first, then backend_connect *)
(* creates the receiver and binds the event channel.                       *)
ToBackend == <<"publish", "create", "bind">>
MCLists == {<<"fg", "bg">>, <<"pipe", "fg", "bg">>, <<"bg", "pipe", "fg">>}

MCInit ==
  /\ which \in {"channel", "connect", "frontend", "runner"}
  /\ BootInit /\ NcInit
  /\ FlInit /\ (which # "frontend" => fkind = "blk")
  /\ RrInit /\ (which # "runner" => rrExecs = <<"fg", "bg">>)

MCPart(w) ==
  /\ which = w /\ UNCHANGED which
  /\ w # "channel" => UNCHANGED vars
  /\ w # "connect" => UNCHANGED ncVars
  /\ w # "frontend" => UNCHANGED flVars
  /\ w # "runner" => UNCHANGED rrVars
MCChannel == MCPart("channel") /\ Next
MCConnect == MCPart("connect") /\ NcNext
MCFrontend == MCPart("frontend") /\ FlNext
MCRunner == MCPart("runner") /\ RrNext
MCNext == MCChannel \/ MCConnect \/ MCFrontend \/ MCRunner
MCVars == <<which, vars, ncVars, flVars, rrVars>>

(* The fairness of the modules, each for the behaviours in which it moves. *)
MCFair ==
  /\ \A s \in Senders :
       WF_vars(which = "channel" /\ (SendFill(s) \/ SendPost(s) \/ SendCheck(s) \/ SendNotify(s)))
  /\ WF_vars(which = "channel" /\ Handler) /\ WF_vars(which = "channel" /\ Dispatch)
  /\ WF_vars(which = "channel" /\ Receive) /\ WF_vars(which = "channel" /\ Setup)
  /\ WF_ncVars(which = "connect" /\ Server)
  /\ \A a \in Apps : WF_ncVars(which = "connect" /\ AppInit(a)) /\ WF_ncVars(which = "connect" /\ Reconnecter(a))
  /\ WF_flVars(which = "frontend" /\ FlRuns) /\ WF_flVars(which = "frontend" /\ FlBackend)
  /\ WF_rrVars(which = "runner" /\ RrMainNext)
  /\ \A p \in 1..3 : WF_rrVars(which = "runner" /\ p \in RrP /\ RrProgNext(p))

MCSpec == MCInit /\ [][MCNext]_MCVars /\ MCFair

-----------------------------------------------------------------------------
(* An application whose hello is received gets connected, and again after  *)
(* a restart of the server (frontend.c, backend.c).                        *)
ConnectsAgain == which = "connect" => Connects

(* A front end that is shut down gets to the end (blkfront.c, netfront.c,  *)
(* pcifront.c, console/xenbus.c).                                          *)
FrontEndsClose == which = "frontend" => ShutdownEnds

(* When all programs have ended the system reboots (rumprun.c).            *)
RunnersEnd == which = "runner" => AllEndReboots
================================================================================
