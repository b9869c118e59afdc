-------------------------------- MODULE XenMem --------------------------------
(***************************************************************************)
(* Mappings on the Xen platform: the demand-map area (arch/x86/mm.c), I/O  *)
(* memory (ioremap.c) and grants of other domains (gntmap.c) mapped into   *)
(* it, and pages made contiguous in machine memory for DMA                 *)
(* (minios_alloc_contig_pages, rumphyper_dma.c).  Any hypercall may fail.  *)
(* Addresses are page numbers; the area is 1..XmArea.                      *)
(***************************************************************************)
EXTENDS Integers, Sequences, FiniteSets, FiniteSetsExt

CONSTANTS
  XmArea,       \* pages of the area
  XmL1,         \* pages per page table
  XmBatch,      \* MAP_BATCH, UNMAP_BATCH
  XmMaxN,       \* bound: pages per call
  XmEntries,    \* DEFAULT_MAX_GRANTS
  XmPages,      \* pages of memory, 0..XmPages-1
  XmContig      \* pages per contiguous allocation

VARIABLES
  xmpc,         \* "idle", "map" in minios_map_frames, "exited"
  xmJob,        \* the mapping under way: its pages, their first frame, and done
  xmPte,        \* per page of the area: what is mapped, or XmNone
  xmTabs,       \* page tables of the area that exist
  xmLive,       \* mappings callers hold: [va, n, what]
  xmEnts,       \* entries of the gntmap: pages, 0 if unused; <<>> before the first use
  xmLost,       \* pages left mapped by an unmap that failed
  xmPool,       \* pages the page allocator has
  xmP2m, xmMap, \* per page of memory: frame in the p2m table, and frame mapped
  xmDma,        \* pages handed out for DMA
  xmUsed        \* next machine frame to be handed out by the hypervisor

xmVirt == <<xmpc, xmJob, xmPte, xmTabs, xmLive, xmEnts, xmLost>>
xmPhys == <<xmPool, xmP2m, xmMap, xmDma, xmUsed>>
xmVars == <<xmVirt, xmPhys>>

XmNone == -1
XmPageSet == 0..(XmPages - 1)
XmRun(va, n) == va..(va + n - 1)
XmNoJob == [va |-> 0, n |-> 0, mfn |-> 0, done |-> 0]

XmInit ==
  /\ xmpc = "idle" /\ xmJob = XmNoJob /\ xmPte = [p \in 1..XmArea |-> XmNone] /\ xmTabs = {} /\ xmLive = {}
  /\ xmEnts = <<>> /\ xmLost = {}
  /\ xmPool = XmPageSet /\ xmP2m = [p \in XmPageSet |-> 2 * p] /\ xmMap = xmP2m /\ xmDma = {} /\ xmUsed = 2 * XmPages

-----------------------------------------------------------------------------
(* allocate_ondemand: the first run of n pages none of which is present.   *)
(* A page whose table does not exist is not present.                       *)
get_pgt(p) == p \div XmL1 \in xmTabs
Present(p) == get_pgt(p) /\ xmPte[p] # XmNone
(* Mutant: the last page of a run is not looked at.                        *)
Fits1(va, n) == XmRun(va, n) \subseteq 1..XmArea /\ \A p \in XmRun(va, n - 1) : ~Present(p)
Fits(va, n) == XmRun(va, n) \subseteq 1..XmArea /\ \A p \in XmRun(va, n) : ~Present(p)
allocate_ondemand(n) ==
  LET fit == {va \in 1..XmArea : Fits(va, n)} IN IF fit = {} THEN 0 ELSE Min(fit)

(* minios_map_frames_ex for ioremap: the frames follow each other.  The    *)
(* address of a failed call is 0.                                          *)
minios_ioremap(n, mfn) ==
  /\ xmpc = "idle"
  /\ IF allocate_ondemand(n) = 0 THEN UNCHANGED <<xmpc, xmJob>>
     ELSE xmpc' = "map" /\ xmJob' = [va |-> allocate_ondemand(n), n |-> n, mfn |-> mfn, done |-> 0]
  /\ UNCHANGED <<xmPte, xmTabs, xmLive, xmEnts, xmLost, xmPhys>>

(* minios_map_frames, a batch at a time; need_pgt makes the tables.  A     *)
(* batch that fails ends the domain.                                       *)
need_pgt(P) == xmTabs' = xmTabs \cup {p \div XmL1 : p \in P}
minios_map_frames ==
  /\ xmpc = "map"
  /\ LET todo == IF xmJob.n - xmJob.done > XmBatch THEN XmBatch ELSE xmJob.n - xmJob.done
         batch == XmRun(xmJob.va + xmJob.done, todo)
     IN /\ need_pgt(batch)
        /\ \/ /\ xmPte' = [p \in 1..XmArea |-> IF p \in batch THEN xmJob.mfn + (p - xmJob.va) ELSE xmPte[p]]
              /\ IF xmJob.done + todo < xmJob.n
                   THEN xmJob' = [xmJob EXCEPT !.done = @ + todo] /\ UNCHANGED <<xmpc, xmLive>>
                   ELSE /\ xmpc' = "idle" /\ xmJob' = XmNoJob
                        /\ xmLive' = xmLive \cup {[va |-> xmJob.va, n |-> xmJob.n, what |-> xmJob.mfn]}
           \/ xmpc' = "exited" /\ UNCHANGED <<xmPte, xmJob, xmLive>>
  /\ UNCHANGED <<xmEnts, xmLost, xmPhys>>

(* unmap_frames: whole batches until one fails, in which any page may be   *)
(* unmapped.  minios_iounmap does not look at the result.                  *)
Unmapped(va, n) ==
  {XmRun(va, n)} \cup
  UNION {{XmRun(va, b) \cup S : S \in SUBSET (XmRun(va + b, XmBatch) \cap XmRun(va, n))} : b \in {k \in 0..(n - 1) : k % XmBatch = 0}}
minios_iounmap(m) ==
  /\ xmpc = "idle" /\ m.what >= 0 /\ xmLive' = xmLive \ {m}
  /\ \E S \in Unmapped(m.va, m.n) :
       /\ xmPte' = [p \in 1..XmArea |-> IF p \in S THEN XmNone ELSE xmPte[p]]
       /\ xmLost' = xmLost \cup (XmRun(m.va, m.n) \ S)
  /\ UNCHANGED <<xmpc, xmJob, xmTabs, xmEnts, xmPhys>>

-----------------------------------------------------------------------------
(* gntmap.  Frames of other domains are negative.                          *)
GrantAt(p) == -10 - p
gntmap_find_free_entry(ents) == Min({i \in DOMAIN ents : ents[i] = 0})
XmFreeEntries(ents) == Cardinality({i \in DOMAIN ents : ents[i] = 0})
(* gntmap_set_max_grants on the first call; it can run out of memory.      *)
gntmap_set_max_grants == IF xmEnts # <<>> THEN {xmEnts} ELSE {<<>>, [i \in 1..XmEntries |-> 0]}

(* The first k pages of the run, each with the first free entry.           *)
Recorded(ents, va, k) ==
  LET f[i \in 0..k] == IF i = 0 THEN ents ELSE [f[i - 1] EXCEPT ![gntmap_find_free_entry(f[i - 1])] = va + i - 1]
  IN f[k]
_gntmap_map_grant_ref(va, k) ==
  [p \in 1..XmArea |-> IF p \in XmRun(va, k) THEN GrantAt(p) ELSE xmPte[p]]

(* gntmap_munmap: page by page, until one cannot be unmapped.              *)
gntmap_munmap(pte, ents, va, j) ==
  /\ xmPte' = [p \in 1..XmArea |-> IF p \in XmRun(va, j) THEN XmNone ELSE pte[p]]
  /\ xmEnts' = [i \in DOMAIN ents |-> IF ents[i] \in XmRun(va, j) THEN 0 ELSE ents[i]]

(* k pages are mapped before there is no entry or the hypervisor refuses,  *)
(* as it does where there is no page table; then they are taken back, j of *)
(* them if that fails too.                                                 *)
gntmap_map_grant_refs(n) ==
  /\ xmpc = "idle"
  /\ \E ents \in gntmap_set_max_grants :
       LET va == allocate_ondemand(n) IN
       IF va = 0 THEN xmEnts' = ents /\ UNCHANGED <<xmPte, xmLive, xmLost>>
       ELSE \E k \in 0..n :
         /\ k <= XmFreeEntries(ents) /\ \A p \in XmRun(va, k) : get_pgt(p)
         /\ IF k = n
              THEN /\ xmPte' = _gntmap_map_grant_ref(va, k) /\ xmEnts' = Recorded(ents, va, k)
                   /\ xmLive' = xmLive \cup {[va |-> va, n |-> n, what |-> GrantAt(0)]} /\ UNCHANGED xmLost
              ELSE \E j \in 0..k :
                     /\ gntmap_munmap(_gntmap_map_grant_ref(va, k), Recorded(ents, va, k), va, j)
                     /\ xmLost' = xmLost \cup (XmRun(va, k) \ XmRun(va, j)) /\ UNCHANGED xmLive
  /\ UNCHANGED <<xmpc, xmJob, xmTabs, xmPhys>>

GrantMunmap(m) ==
  /\ xmpc = "idle" /\ m.what < 0
  /\ \E j \in 0..m.n :
       gntmap_munmap(xmPte, xmEnts, m.va, j) /\ xmLost' = xmLost \cup (XmRun(m.va, m.n) \ XmRun(m.va, j))
  /\ xmLive' = xmLive \ {m} /\ UNCHANGED <<xmpc, xmJob, xmTabs, xmPhys>>

(* gntmap_fini: every page that can be, and the entries are gone.          *)
gntmap_fini ==
  /\ xmpc = "idle" /\ xmEnts # <<>>
  /\ LET pages == {xmEnts[i] : i \in DOMAIN xmEnts} \ {0} IN
     \E S \in SUBSET pages :
       /\ xmPte' = [p \in 1..XmArea |-> IF p \in S THEN XmNone ELSE xmPte[p]]
       /\ xmLost' = (xmLost \ S) \cup (pages \ S)
  /\ xmEnts' = <<>> /\ xmLive' = {m \in xmLive : m.what >= 0} /\ UNCHANGED <<xmpc, xmJob, xmTabs, xmPhys>>

-----------------------------------------------------------------------------
(* minios_alloc_contig_pages.  The pages are unmapped, exchanged for new   *)
(* frames in a row, and mapped again; when the exchange fails they get     *)
(* their own frames back and are freed.  When a multicall fails the pages  *)
(* stay where they are.  rumpcomp_pci_dmalloc hands the address on.        *)
XmWith(f, va, g) == [p \in XmPageSet |-> IF p \in XmRun(va, XmContig) THEN g[p - va] ELSE f[p]]
minios_alloc_contig_pages(va) ==
  LET new == [i \in 0..XmContig - 1 |-> xmUsed + i]
      old == [i \in 0..XmContig - 1 |-> xmP2m[va + i]]
      none == [i \in 0..XmContig - 1 |-> XmNone]
  IN /\ xmpc = "idle" /\ XmRun(va, XmContig) \subseteq xmPool
     /\ \/ /\ xmP2m' = XmWith(xmP2m, va, none) /\ UNCHANGED <<xmMap, xmDma, xmUsed>>   \* the first multicall fails
           /\ xmPool' = xmPool \ XmRun(va, XmContig)
        \/ /\ xmP2m' = XmWith(xmP2m, va, new) /\ xmUsed' = xmUsed + XmContig + 1
           /\ xmPool' = xmPool \ XmRun(va, XmContig)
           /\ \/ xmMap' = XmWith(xmMap, va, new) /\ xmDma' = xmDma \cup {va}
              \/ xmMap' = XmWith(xmMap, va, none) /\ UNCHANGED xmDma                     \* the second
        \/ /\ xmP2m' = XmWith(xmP2m, va, old) /\ UNCHANGED <<xmDma, xmUsed>>             \* the exchange
           /\ \/ UNCHANGED <<xmMap, xmPool>>
              \/ xmMap' = XmWith(xmMap, va, none) /\ xmPool' = xmPool \ XmRun(va, XmContig)
     /\ UNCHANGED xmVirt

XmNext ==
  \/ \E n \in 1..XmMaxN : minios_ioremap(n, 100) \/ gntmap_map_grant_refs(n)
  \/ minios_map_frames \/ gntmap_fini
  \/ \E m \in xmLive : minios_iounmap(m) \/ GrantMunmap(m)
  \/ \E va \in XmPageSet : minios_alloc_contig_pages(va)

XmSpec == XmInit /\ [][XmNext]_xmVars

-----------------------------------------------------------------------------
(* Mappings that callers hold do not overlap, and each of their pages      *)
(* still shows the frame it was mapped for; a page is present if it        *)
(* belongs to one of them, to the call under way, or to an unmap that      *)
(* failed; the gntmap has one entry for each grant that is mapped, but for *)
(* those gntmap_fini could not unmap.  Pages of the allocator and of DMA   *)
(* memory are mapped to the frame the p2m table has, no frame is used      *)
(* twice, and DMA memory is contiguous.                                    *)
MemSound ==
  LET held == UNION {XmRun(m.va, m.n) : m \in xmLive}
      entered == {xmEnts[i] : i \in DOMAIN xmEnts} \ {0}
      owned == xmPool \cup UNION {XmRun(va, XmContig) : va \in xmDma}
  IN /\ \A m, k \in xmLive : m # k => XmRun(m.va, m.n) \cap XmRun(k.va, k.n) = {}
     /\ \A m \in xmLive : \A p \in XmRun(m.va, m.n) :
          xmPte[p] = IF m.what < 0 THEN GrantAt(p) ELSE m.what + (p - m.va)
     /\ {p \in 1..XmArea : Present(p)} = held \cup xmLost \cup (IF xmpc = "map" THEN XmRun(xmJob.va, xmJob.done) ELSE {})
          \/ xmpc = "exited"
     /\ \A p \in 1..XmArea : xmPte[p] < XmNone => p \in entered \/ p \in xmLost
     /\ \A p \in entered : xmPte[p] = GrantAt(p)
     /\ \A i, j \in DOMAIN xmEnts : i # j /\ xmEnts[i] # 0 => xmEnts[i] # xmEnts[j]
     /\ \A p \in owned : xmMap[p] = xmP2m[p] /\ xmMap[p] # XmNone
     /\ \A p, q \in owned : p # q => xmMap[p] # xmMap[q]
     /\ \A va \in xmDma : \A i \in 0..(XmContig - 1) : xmMap[va + i] = xmMap[va] + i

-------------------------------------------------------------------------------
(***************************************************************************)
(* Memory at boot on the Xen platform (init_mm of mm.c, arch_init_mm and   *)
(* arch_init_p2m of arch/x86/mm.c): the domain builder has mapped the      *)
(* first pages; the kernel maps the rest of its memory with page tables    *)
(* that it takes from that same memory, makes its text read-only, and      *)
(* publishes the table of its frames.  Pages are numbered; a page is       *)
(* mapped at its own number.                                               *)
(***************************************************************************)

CONSTANTS
  BtSizes,      \* numbers of pages a domain may have
  BtStarts,     \* first pages behind what the builder has loaded
  BtSlack,      \* pages the builder maps behind that one
  BtLimit,      \* pages below HYPERVISOR_VIRT_START
  BtSpan,       \* per level of page table, 1 to 3: pages under one table
  BtBatch,      \* L1_PAGETABLE_ENTRIES
  BtText,       \* pages of text and read-only data, 0..BtText-1
  BtShared,     \* the page of _minios_shared_info
  BtE1, BtE2, BtE3   \* entries of the lists of the p2m table

VARIABLES
  btpc, start_pfn, max_pfn, pt_pfn, pfn_to_map,
  btMap,        \* per page: "none", "rw" or "ro"
  btPend,       \* mmu_updates: pages whose entry is to be written
  btTabs,       \* page tables: [level, index, frame]; frame -1 for the builder's
  l3_list, l2_list, l1_list   \* p2m lists: <<list, index>> :> what

btTables == <<pt_pfn, btTabs>>
btLists == <<l3_list, l2_list, l1_list>>
btVars == <<btpc, start_pfn, max_pfn, pt_pfn, pfn_to_map, btMap, btPend, btTabs, btLists>>

BtPageSet == 0..(Max(BtSizes) - 1)
BtLevels == 1..3
TableOf(l, p) == p \div BtSpan[l]

(* Memory the hypervisor's addresses begin in is cut off.                  *)
BtInit ==
  /\ \E n \in BtSizes, s \in BtStarts :
       /\ start_pfn = s /\ s + BtSlack <= n
       /\ max_pfn = IF n >= BtLimit THEN BtLimit - 1 ELSE n
       /\ btMap = [p \in BtPageSet |-> IF p < s + BtSlack THEN "rw" ELSE "none"]
       /\ btTabs = {[level |-> l, index |-> TableOf(l, p), frame |-> -1] : l \in BtLevels, p \in 0..(s + BtSlack - 1)}
  /\ pt_pfn = start_pfn /\ pfn_to_map = start_pfn /\ btPend = {} /\ btpc = "build"
  /\ l3_list = {} /\ l2_list = {} /\ l1_list = {}

-----------------------------------------------------------------------------
(* The tables the page still needs, the highest first: new_pt_frame clears *)
(* the next frame, makes it read-only and links it.                        *)
Missing(p) == {l \in BtLevels : \A t \in btTabs : ~(t.level = l /\ t.index = TableOf(l, p))}
FrameFor(p, l) == pt_pfn + Cardinality({k \in Missing(p) : k > l})
NewFrames(p) == {FrameFor(p, l) : l \in Missing(p)}
new_pt_frame(p) ==
  /\ btTabs' = btTabs \cup {[level |-> l, index |-> TableOf(l, p), frame |-> FrameFor(p, l)] : l \in Missing(p)}
  /\ pt_pfn' = pt_pfn + Cardinality(Missing(p))

(* One page of build_pagetable.  Writing to a frame that is not mapped     *)
(* faults; the hypervisor refuses a writable mapping of a page table.      *)
(* Mutant: the entries are written when the batch is full, and only then.  *)
FlushFull(n, p) == n = BtBatch
Flush(n, p) == n = BtBatch \/ (n > 0 /\ p + 1 = max_pfn)
build_pagetable ==
  /\ btpc = "build" /\ pfn_to_map < max_pfn
  /\ LET p == pfn_to_map
         ro == [q \in BtPageSet |-> IF q \in NewFrames(p) THEN "ro" ELSE btMap[q]]
         pend == btPend \cup (IF ro[p] = "none" THEN {p} ELSE {})
         tables == {t.frame : t \in btTabs} \cup NewFrames(p)
         flush == Flush(Cardinality(pend), p)
     IN IF \E f \in NewFrames(p) : f \notin BtPageSet \/ btMap[f] = "none"
          THEN btpc' = "fault" /\ UNCHANGED <<btTables, btMap, btPend, pfn_to_map>>
        ELSE IF flush /\ pend \cap tables # {}
          THEN btpc' = "refused" /\ UNCHANGED <<btTables, btMap, btPend, pfn_to_map>>
        ELSE /\ new_pt_frame(p) /\ pfn_to_map' = p + 1 /\ UNCHANGED btpc
             /\ btPend' = IF flush THEN {} ELSE pend
             /\ btMap' = [q \in BtPageSet |-> IF flush /\ q \in pend THEN "rw" ELSE ro[q]]
  /\ UNCHANGED <<start_pfn, max_pfn, btLists>>

(* arch_init_mm: what is left begins behind the page tables; the NULL page *)
(* goes, the text is made read-only.                                       *)
clear_bootstrap(map) == [map EXCEPT ![0] = "none"]
set_readonly(map) ==
  [q \in BtPageSet |-> IF q < BtText /\ q # BtShared /\ map[q] # "none" THEN "ro" ELSE map[q]]
arch_init_mm ==
  /\ btpc = "build" /\ pfn_to_map >= max_pfn
  /\ btMap' = set_readonly(clear_bootstrap(btMap)) /\ start_pfn' = pt_pfn
  /\ btpc' = "p2m" /\ pfn_to_map' = 0 /\ UNCHANGED <<max_pfn, btTables, btPend, btLists>>

(* One page of arch_init_p2m.  A list is named for the first page in it;   *)
(* pfn_to_map is pfn.                                                      *)
FirstOf(p, span) == (p \div span) * span
arch_init_p2m ==
  /\ btpc = "p2m"
  /\ LET p == pfn_to_map IN
     IF p >= max_pfn THEN btpc' = "done" /\ UNCHANGED <<btLists, pfn_to_map>>
     ELSE IF p % (BtE1 * BtE2) = 0 /\ p \div (BtE1 * BtE2 * BtE3) > 0 THEN btpc' = "toomany" /\ UNCHANGED <<btLists, pfn_to_map>>
     ELSE /\ l3_list' = IF p % (BtE1 * BtE2) = 0 THEN l3_list \cup {<<p \div (BtE1 * BtE2), p>>} ELSE l3_list
          /\ l2_list' = IF p % BtE1 = 0 THEN l2_list \cup {<<FirstOf(p, BtE1 * BtE2), (p \div BtE1) % BtE2, p>>} ELSE l2_list
          /\ l1_list' = l1_list \cup {<<FirstOf(p, BtE1), p % BtE1, p>>}
          /\ pfn_to_map' = p + 1 /\ UNCHANGED btpc
  /\ UNCHANGED <<start_pfn, max_pfn, btTables, btMap, btPend>>

BtNext == build_pagetable \/ arch_init_mm \/ arch_init_p2m

BtSpec == BtInit /\ [][BtNext]_btVars

-----------------------------------------------------------------------------
(* init_mm: the pages the allocator gets, and the demand-map area.         *)
BtPool == start_pfn..(max_pfn - 1)
demand_map_area_start == max_pfn + 1

(* No page table is taken from memory that is not yet mapped, and none is  *)
(* mapped writable.  At the end the allocator's pages are all mapped       *)
(* writable and none of them is a page table or in the demand-map area,    *)
(* the shared page is writable and the rest of the text is not, and the    *)
(* lists lead from each page to its frame, and from nothing else.          *)
BootSound ==
  LET frames == {t.frame : t \in btTabs} \ {-1} IN
  /\ btpc \notin {"fault", "refused"}
  /\ \A f \in frames : btMap[f] = "ro" /\ f \notin btPend
  /\ \A t, u \in btTabs : t # u /\ t.frame # -1 => t.frame # u.frame
  /\ btpc = "done" =>
       /\ \A p \in BtPool : btMap[p] = "rw" /\ p \notin frames /\ p < demand_map_area_start
       /\ \A q \in 1..(BtText - 1) : btMap[q] = IF q = BtShared THEN "rw" ELSE "ro"
       /\ {<<p \div (BtE1 * BtE2), (p \div BtE1) % BtE2, p % BtE1, p>> : p \in 0..(max_pfn - 1)}
            = {<<a[1], b[2], c[2], c[3]>> : <<a, b, c>> \in
                 {<<x, y, z>> \in l3_list \X l2_list \X l1_list : x[2] = y[1] /\ y[3] = z[1]}}

(* The platform's memory at boot and afterwards.                           *)
PagesSound == BootSound /\ MemSound
===============================================================================
