-------------------------------- MODULE Grants --------------------------------
(***************************************************************************)
(* Sharing of pages between domains: the grant table of the domain that    *)
(* shares them (platform/hw/xen/gnttab.c) and the map of the domain that   *)
(* uses them (platform/hw/xen/gntmap.c), with the hypervisor in between.   *)
(* Addresses are page numbers.                                             *)
(***************************************************************************)
EXTENDS Integers, Sequences, FiniteSets, FiniteSetsExt

CONSTANTS
  Granters,       \* threads that grant
  FirstRef,       \* NR_RESERVED_ENTRIES
  EndRef,         \* NR_GRANT_ENTRIES
  Frames,         \* pages that are granted
  NEntries,       \* entries of the map
  MapPages,       \* page numbers to map at, 0 excluded
  MapCounts       \* numbers of pages that are mapped in one call

ASSUME GrAssumption ==
  /\ FirstRef \in Nat \ {0} /\ EndRef \in Nat /\ FirstRef < EndRef
  /\ NEntries \in Nat \ {0} /\ MapPages \subseteq Nat \ {0} /\ MapCounts \subseteq Nat \ {0}

VARIABLES
  gnttab_list,  \* free list; entry 0 is its head
  gnttab_sem,   \* gnttab_sem's count
  grFrame,      \* per reference: frame
  grPermit,     \* per reference: GTF_permit_access
  grUse,        \* per reference: set of pages at which it is mapped
  grPc, grRef, grPage,  \* per granter: where it is, and with what
  grHeld,       \* grants that are given: set of <<reference, frame>>
  gmAddr,       \* per entry: host_addr (-1 while it is being filled)
  gmPages,      \* pages allocated for mappings
  gmPc, gmBase, gmRefs, gmNext  \* the call of gntmap_map_grant_refs

grShared == <<gnttab_list, gnttab_sem, grFrame, grPermit>>
grLocal == <<grPc, grRef, grPage>>
gmCall == <<gmPc, gmBase, gmRefs, gmNext>>
grVars == <<grShared, grUse, grLocal, grHeld, gmAddr, gmPages, gmCall>>

Refs == FirstRef..(EndRef - 1)

(* init_gnttab puts every entry on the list; gntmap_init.                  *)
GrInit ==
  /\ gnttab_list = [r \in 0..(EndRef - 1) |->
                      IF r = 0 THEN EndRef - 1 ELSE IF r > FirstRef THEN r - 1 ELSE 0]
  /\ gnttab_sem = EndRef - FirstRef
  /\ grFrame = [r \in Refs |-> 0] /\ grPermit = [r \in Refs |-> 0]
  /\ grUse = [r \in Refs |-> {}] /\ grHeld = {}
  /\ grPc = [g \in Granters |-> "idle"] /\ grRef = [g \in Granters |-> 0]
  /\ grPage = [g \in Granters |-> 0]
  /\ gmAddr = [e \in 1..NEntries |-> 0] /\ gmPages = {}
  /\ gmPc = "idle" /\ gmBase = 0 /\ gmRefs = <<>> /\ gmNext = 0

GrGo(g, from, to) == grPc[g] = from /\ grPc' = [grPc EXCEPT ![g] = to]

-----------------------------------------------------------------------------
(* gnttab_grant_access with get_free_entry.  The frame is written before   *)
(* the flags.                                                              *)
Down(g, f) ==
  /\ GrGo(g, "idle", "get") /\ gnttab_sem > 0
  /\ gnttab_sem' = gnttab_sem - 1
  /\ grPage' = [grPage EXCEPT ![g] = f]
  /\ UNCHANGED <<gnttab_list, grFrame, grPermit, grUse, grRef, grHeld, gmAddr, gmPages, gmCall>>

GetFree(g) ==
  /\ GrGo(g, "get", "frame")
  /\ grRef' = [grRef EXCEPT ![g] = gnttab_list[0]]
  /\ gnttab_list' = [gnttab_list EXCEPT ![0] = gnttab_list[gnttab_list[0]]]
  /\ UNCHANGED <<gnttab_sem, grFrame, grPermit, grUse, grPage, grHeld, gmAddr, gmPages, gmCall>>

FillFrame(g) ==
  /\ GrGo(g, "frame", "flags")
  /\ grFrame' = [grFrame EXCEPT ![grRef[g]] = grPage[g]]
  /\ UNCHANGED <<gnttab_list, gnttab_sem, grPermit, grUse, grRef, grPage, grHeld, gmAddr, gmPages, gmCall>>

FillFlags(g) ==
  /\ GrGo(g, "flags", "idle")
  /\ grPermit' = [grPermit EXCEPT ![grRef[g]] = 1]
  /\ grHeld' = grHeld \cup {<<grRef[g], grPage[g]>>}
  /\ grRef' = [grRef EXCEPT ![g] = 0] /\ grPage' = [grPage EXCEPT ![g] = 0]
  /\ UNCHANGED <<gnttab_list, gnttab_sem, grFrame, grUse, gmAddr, gmPages, gmCall>>

(* gnttab_end_access with put_free_entry: nothing happens while the grant  *)
(* is in use.                                                              *)
EndAccess(g, h) ==
  /\ grUse[h[1]] = {}
  /\ GrGo(g, "idle", "cas")
  /\ grRef' = [grRef EXCEPT ![g] = h[1]]
  /\ grHeld' = grHeld \ {h}
  /\ UNCHANGED <<grShared, grUse, grPage, gmAddr, gmPages, gmCall>>

(* The exchange fails when the grant has come into use since its flags     *)
(* were read.                                                              *)
Unused(r) == grUse[r] = {}

EndCas(g) ==
  /\ grPc[g] = "cas"
  /\ IF Unused(grRef[g])
       THEN /\ GrGo(g, "cas", "put")
            /\ grPermit' = [grPermit EXCEPT ![grRef[g]] = 0]
            /\ UNCHANGED <<grHeld, grRef>>
       ELSE /\ GrGo(g, "cas", "idle") /\ grRef' = [grRef EXCEPT ![g] = 0]
            /\ grHeld' = grHeld \cup {<<grRef[g], grFrame[grRef[g]]>>}
            /\ UNCHANGED grPermit
  /\ UNCHANGED <<gnttab_list, gnttab_sem, grFrame, grUse, grPage, gmAddr, gmPages, gmCall>>

(* Mutant: the rest of the list is not linked.                             *)
Unlinked(r) == [gnttab_list EXCEPT ![0] = r]
Linked(r) == [gnttab_list EXCEPT ![r] = gnttab_list[0], ![0] = r]

PutFree(g) ==
  /\ GrGo(g, "put", "up")
  /\ gnttab_list' = Linked(grRef[g])
  /\ grRef' = [grRef EXCEPT ![g] = 0]
  /\ UNCHANGED <<gnttab_sem, grFrame, grPermit, grUse, grPage, grHeld, gmAddr, gmPages, gmCall>>

Up(g) ==
  /\ GrGo(g, "up", "idle")
  /\ gnttab_sem' = gnttab_sem + 1
  /\ UNCHANGED <<gnttab_list, grFrame, grPermit, grUse, grRef, grPage, grHeld, gmAddr, gmPages, gmCall>>

-----------------------------------------------------------------------------
(* gntmap_map_grant_refs: pages, then for each an entry and a hypercall.   *)
MapStart(base, refs) ==
  /\ gmPc = "idle"
  /\ base..(base + Len(refs) - 1) \subseteq MapPages \ gmPages
  /\ gmPages' = gmPages \cup (base..(base + Len(refs) - 1))
  /\ gmPc' = "claim" /\ gmBase' = base /\ gmRefs' = refs /\ gmNext' = 0
  /\ UNCHANGED <<grShared, grUse, grLocal, grHeld, gmAddr>>

(* gntmap_find_free_entry.                                                 *)
FreeEntries == {e \in 1..NEntries : gmAddr[e] = 0}

MapClaim ==
  /\ gmPc = "claim"
  /\ IF gmNext = Len(gmRefs)
       THEN gmPc' = "idle" /\ UNCHANGED gmAddr
       ELSE IF FreeEntries = {}
         THEN gmPc' = "undo" /\ UNCHANGED gmAddr
         ELSE gmPc' = "map" /\ gmAddr' = [gmAddr EXCEPT ![Min(FreeEntries)] = -1]
  /\ UNCHANGED <<grShared, grUse, grLocal, grHeld, gmPages, gmBase, gmRefs, gmNext>>

(* _gntmap_map_grant_ref; the hypervisor refuses what is not granted.      *)
Claimed == CHOOSE e \in 1..NEntries : gmAddr[e] = -1
MapRef ==
  /\ gmPc = "map"
  /\ LET r == gmRefs[gmNext + 1]
         at == gmBase + gmNext
     IN IF grPermit[r] = 1
          THEN /\ grUse' = [grUse EXCEPT ![r] = @ \cup {at}]
               /\ gmAddr' = [gmAddr EXCEPT ![Claimed] = at]
               /\ gmNext' = gmNext + 1 /\ gmPc' = "claim"
          ELSE /\ gmAddr' = [gmAddr EXCEPT ![Claimed] = 0]
               /\ gmPc' = "undo" /\ UNCHANGED <<grUse, gmNext>>
  /\ UNCHANGED <<grShared, grLocal, grHeld, gmPages, gmBase, gmRefs>>

(* The failure of one page takes back the ones before it: _gntmap_munmap,  *)
(* then the pages are freed.                                               *)
UndoFrom == 0
UnmapPages(S) ==
  /\ grUse' = [r \in Refs |-> grUse[r] \ S]
  /\ gmAddr' = [e \in 1..NEntries |-> IF gmAddr[e] \in S THEN 0 ELSE gmAddr[e]]

MapUndo ==
  /\ gmPc = "undo"
  /\ UnmapPages((gmBase + UndoFrom)..(gmBase + gmNext - 1))
  /\ gmPages' = gmPages \ (gmBase..(gmBase + Len(gmRefs) - 1))
  /\ gmPc' = "idle" /\ gmBase' = 0 /\ gmRefs' = <<>> /\ gmNext' = 0
  /\ UNCHANGED <<grShared, grLocal, grHeld>>

(* gntmap_munmap: the pages stay allocated.                                *)
Munmap ==
  /\ gmPc = "idle" /\ gmNext = Len(gmRefs) /\ gmNext > 0
  /\ UnmapPages(gmBase..(gmBase + gmNext - 1))
  /\ gmBase' = 0 /\ gmRefs' = <<>> /\ gmNext' = 0
  /\ UNCHANGED <<grShared, grLocal, grHeld, gmPages, gmPc>>

-----------------------------------------------------------------------------
GranterStep(g) ==
  \/ \E f \in Frames : Down(g, f)
  \/ GetFree(g) \/ FillFrame(g) \/ FillFlags(g)
  \/ \E h \in grHeld : EndAccess(g, h)
  \/ EndCas(g) \/ PutFree(g) \/ Up(g)

GrNext ==
  \/ \E g \in Granters : GranterStep(g)
  \/ \E k \in MapCounts, b \in MapPages :
       \E rs \in [1..k -> {h[1] : h \in grHeld}] : MapStart(b, rs)
  \/ MapClaim \/ MapRef \/ MapUndo \/ Munmap

GrSpec == GrInit /\ [][GrNext]_grVars

-----------------------------------------------------------------------------
(* Properties.                                                             *)

(* The assertion of get_free_entry: the semaphore lets nobody take a       *)
(* reference that is reserved or out of range.                             *)
FreeEntryValid ==
  /\ gnttab_sem \in 0..(EndRef - FirstRef)
  /\ \A g \in Granters : grPc[g] \in {"get", "frame", "flags"} =>
       gnttab_sem >= 0 /\ (grPc[g] # "get" => grRef[g] \in Refs)

(* The entries that follow the head of the list, in at most k steps.       *)
Listed[k \in 0..EndRef, r \in 0..(EndRef - 1)] ==
  IF k = 0 \/ gnttab_list[r] = 0 THEN {} ELSE {gnttab_list[r]} \cup Listed[k - 1, gnttab_list[r]]
FreeRefs == Listed[EndRef, 0]

(* A reference is free or with one user, and the semaphore never lets more *)
(* granters pass than there are free entries.                              *)
RefsAccounted ==
  LET waiting == {g \in Granters : grPc[g] = "get"}
      busy == {g \in Granters : grPc[g] \in {"frame", "flags", "cas", "put"}}
      held == {h[1] : h \in grHeld}
  IN /\ gnttab_sem + Cardinality(waiting) <= Cardinality(FreeRefs)
     /\ FreeRefs \cap (held \cup {grRef[g] : g \in busy}) = {}
     /\ Cardinality(held \cup {grRef[g] : g \in busy}) = Cardinality(grHeld) + Cardinality(busy)

(* A reference goes back to the free list only when nothing maps it, and   *)
(* what may be mapped through it is the page it was granted for.           *)
GrantsSafe ==
  /\ \A r \in FreeRefs : grUse[r] = {} /\ grPermit[r] = 0
  /\ \A h \in grHeld : grPermit[h[1]] = 1 => grFrame[h[1]] = h[2]

(* A page that is mapped has an entry of its own, and a page that is free  *)
(* is not mapped: a failed call leaves nothing behind.                     *)
MappingsRecorded ==
  LET mapped == UNION {grUse[r] : r \in Refs}
  IN /\ mapped \subseteq gmPages
     /\ mapped = {gmAddr[e] : e \in 1..NEntries} \ {0, -1}
     /\ \A e, d \in 1..NEntries : e # d /\ gmAddr[e] > 0 => gmAddr[e] # gmAddr[d]
     /\ gmPc # "map" => \A e \in 1..NEntries : gmAddr[e] # -1

(* Semaphore and free list of gnttab.c agree, and no reference is given to *)
(* two users or out of range.                                              *)
GrantsAccounted == FreeEntryValid /\ RefsAccounted

(* What is mapped is what was granted and what the map has recorded, on    *)
(* both sides of the hypervisor and after failures.                        *)
MappingsSafe == GrantsSafe /\ MappingsRecorded

(* Grant entries are accounted for, and mappings use what is granted.      *)
GrantsSound == GrantsAccounted /\ MappingsSafe

=============================================================================
