----------------------------------- MODULE MCXenRings --------------------------
(***************************************************************************)
(* The rings of the Xen platform, which share no state: network, disk,     *)
(* console, and the grants the rings are made of.  In each behaviour one   *)
(* of them moves.                                                          *)
(***************************************************************************)
EXTENDS NetRing, BlkRing, XenConsole, XenGrants, TLC

VARIABLE which

(* What is printed: "n" is a line feed.                                    *)
MCTexts == {<<"a", "n">>, <<"n", "b">>}

MCSymmetry == Permutations(NtSenders)

MCParts == {"net", "disk", "console", "grants"}

MCInit ==
  /\ which \in MCParts
  /\ NtInit
  /\ BkInit /\ (which # "disk" => \A u \in BkUsers : bkt[u].pc = "own")
  /\ CnInit
  /\ XgInit

MCStill(w) ==
  /\ w # "net" => UNCHANGED ntVars
  /\ w # "disk" => UNCHANGED bkVars
  /\ w # "console" => UNCHANGED cnVars
  /\ w # "grants" => UNCHANGED xgVars

MCNetRing == which = "net" /\ NtNext /\ UNCHANGED which /\ MCStill("net")
MCBlkRing == which = "disk" /\ BkNext /\ UNCHANGED which /\ MCStill("disk")
MCXenConsole == which = "console" /\ CnNext /\ UNCHANGED which /\ MCStill("console")
MCXenGrants == which = "grants" /\ XgNext /\ UNCHANGED which /\ MCStill("grants")

MCNext == MCNetRing \/ MCBlkRing \/ MCXenConsole \/ MCXenGrants

MCSpec == MCInit /\ [][MCNext]_<<which, ntVars, bkVars, cnVars, xgVars>>
================================================================================
