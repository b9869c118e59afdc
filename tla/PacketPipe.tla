----------------------------- MODULE PacketPipe -----------------------------
(***************************************************************************)
(* What one direction of a network-domain channel promises its users: a    *)
(* bounded FIFO of packets.  A packet that is accepted is handed over once,*)
(* unchanged, in the order of acceptance, and eventually.  A packet that   *)
(* finds the pipe full is dropped, which is a stuttering step.             *)
(***************************************************************************)
EXTENDS Naturals, Sequences

CONSTANTS
  Packet,    \* packet contents
  None,      \* "no packet"
  Capacity   \* number of packets the pipe holds

VARIABLES
  queue,     \* the packets accepted and not yet handed over, oldest first
  out        \* the packet handed over last

pipeVars == <<queue, out>>

PipeInit == queue = <<>> /\ out = None

Put(p) ==
  /\ Len(queue) < Capacity
  /\ queue' = Append(queue, p)
  /\ out' = out

Get ==
  /\ queue # <<>>
  /\ out' = Head(queue)
  /\ queue' = Tail(queue)

PipeNext == Get \/ \E p \in Packet : Put(p)

(* Order, integrity and capacity.                                          *)
PipeSafety == PipeInit /\ [][PipeNext]_pipeVars

(* The same with the promise that a packet in the pipe comes out.          *)
PipeSpec == PipeSafety /\ WF_pipeVars(Get)
=============================================================================
