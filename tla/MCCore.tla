------------------------------------- MODULE MCCore ----------------------------
(***************************************************************************)
(* The core library: the scheduler on two CPUs, and the lists and strings  *)
(* that everything uses.  They share no state; in each behaviour one of    *)
(* them moves.                                                             *)
(***************************************************************************)
EXTENDS Sched, Library

VARIABLE which

(* Threads may be pinned to the first CPU.                                 *)
MCPins == {AnyCpu, 1}
MCOps == {"create", "join", "yield", "sleep", "exit"}

(* Conversions, numbers, strings and copies.                               *)
MCConvs ==
  [flags : SUBSET {"alt", "left", "zero", "plus"}, size : {"short", "int", "long"}, width : {-5, 0, 3},
   prec : {-1, 0, 3}, conv : {"d", "u", "o", "x", "p"}, arg : {0, 1, 7, 8, 15, 100, 128, 255}]
  \cup [flags : SUBSET {"left"}, size : {"int"}, width : {-5, 0, 3}, prec : {-1, 0, 1, 3}, conv : {"s"},
        arg : {<<>>, <<1>>, <<1, 2>>}]
MCNumbers ==
  {<<b \o m \o x \o d, base>> : b \in {<<>>, <<Blank>>}, m \in {<<>>, <<Minus>>, <<Plus>>}, x \in {<<>>, <<0, Ex>>},
     d \in SeqOf({0, 1, 9, 15}, 3), base \in {0, 8, 10, 16}}
MCStrs == SeqOf({1, 2}, 3)
MCMoves == [n : 0..13, align : 0..3]

MCParts == {"sched", "lists", "strings"}

MCInit ==
  /\ which \in MCParts
  /\ Init
  /\ LmInit /\ (which # "lists" => lmKind = "SLIST")
  /\ StInit /\ (which # "strings" => stCall = [f |-> "putchar"])

MCStill(w) ==
  /\ w # "sched" => UNCHANGED vars
  /\ w # "lists" => UNCHANGED lmVars
  /\ w # "strings" => UNCHANGED stVars

MCSched == which = "sched" /\ Next /\ UNCHANGED which /\ MCStill("sched")
MCListMacros == which = "lists" /\ LmNext /\ UNCHANGED which /\ MCStill("lists")
MCStrings == which = "strings" /\ StNext /\ UNCHANGED which /\ MCStill("strings")

MCNext == MCSched \/ MCListMacros \/ MCStrings

MCSpec == MCInit /\ [][MCNext]_<<which, vars, lmVars, stVars>>

-----------------------------------------------------------------------------
(* The lists hold what was put into them, in its order, and strings are    *)
(* formatted, read back, compared and copied as StringsSound says          *)
(* (bmk-core/queue.h; libbmk_core: bmk_string.c, strtoul.c, subr_prf.c).   *)
LibrarySound == ListsFaithful /\ StringsSound
================================================================================
