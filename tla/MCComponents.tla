----------------------------- MODULE MCComponents -----------------------------
(***************************************************************************)
(* An established channel, and the components that others are built on:    *)
(* the lock-free ring and queue, event delivery, memory, grants and the    *)
(* reader/writer lock.  They share no state; in each behaviour one of them *)
(* moves, so that the reachable states are those of each alone.            *)
(***************************************************************************)
EXTENDS NetdomChannel, LfRing, LfQueue, EventChannel, MemAlloc, Grants, RwLock

VARIABLE which

MCParts == {"channel", "ring", "queue", "events", "memory", "grants", "rwlock"}

(* The frontend is the sender: its rings exist first, then backend_connect *)
(* creates the receiver and binds the event channel.                       *)
ToBackend == <<"publish", "create", "bind">>

MCInit ==
  /\ which \in MCParts
  /\ Init /\ LfrInit /\ (which # "ring" => rtail = half)
  /\ LqInit /\ EvInit /\ MaInit /\ GrInit /\ RwInit

(* Bound: ports are bound and unmasked by one thread at a time.            *)
MCOneBinds == \A c, d \in EvCpus : evThr'[c] # "idle" /\ evThr'[d] # "idle" => c = d

MCPart(w) ==
  /\ which = w /\ UNCHANGED which
  /\ w # "channel" => UNCHANGED vars
  /\ w # "ring" => UNCHANGED lfrVars
  /\ w # "queue" => UNCHANGED lqVars
  /\ w # "events" => UNCHANGED evVars
  /\ w # "memory" => UNCHANGED maVars
  /\ w # "grants" => UNCHANGED grVars
  /\ w # "rwlock" => UNCHANGED rwVars
MCChannel == MCPart("channel") /\ Next
MCRing == MCPart("ring") /\ RingNext
MCQueue == MCPart("queue") /\ LqNext
MCEvents == MCPart("events") /\ EvNext /\ MCOneBinds
MCMemory == MCPart("memory") /\ MaNext
MCGrants == MCPart("grants") /\ GrNext
MCRwLock == MCPart("rwlock") /\ RwNext

MCNext == MCChannel \/ MCRing \/ MCQueue \/ MCEvents \/ MCMemory \/ MCGrants \/ MCRwLock

MCSpec == MCInit /\ [][MCNext]_<<which, vars, lfrVars, lqVars, evVars, maVars, grVars, rwVars>>
=============================================================================
