------------------------------- MODULE MmapMem --------------------------------
(***************************************************************************)
(* mmap and munmap of librumpkern_mman/sys_mman.c, called through          *)
(* librumprun_base/syscall_mman.c.  A mapping is a chunk of pages with a   *)
(* count of the pages still mapped; the chunk is freed with the last one.  *)
(* Addresses are page numbers.  Each thread of MmThreads maps and unmaps;  *)
(* a program unmaps a page it has mapped, in any pieces, and once.         *)
(***************************************************************************)
EXTENDS Naturals, Sequences, FiniteSets

CONSTANTS
  MmThreads,
  MmPages,      \* pages of memory, 0..MmPages-1
  MmMaxLen,     \* bound: pages per call
  MmChunks      \* bound: chunks

ASSUME MmAssumption == MmPages \in Nat /\ MmMaxLen \in Nat

(* The list without its i-th chunk.                                        *)
Without(s, i) == SubSeq(s, 1, i - 1) \o SubSeq(s, i + 1, Len(s))

VARIABLES
  mmc_list,     \* chunks, newest first: [start, size, left]
  mmFree,       \* pages the allocator has
  mmUser,       \* pages mapped in the program
  mmt           \* per thread: where it is, and its chunk

mmVars == <<mmc_list, mmFree, mmUser, mmt>>

MmIdle == [pc |-> "idle", mc |-> [start |-> 0, size |-> 0, left |-> 0], kind |-> "anon"]
PagesOf(a, n) == a..(a + n - 1)
ChunkPages(c) == IF c.size = 0 THEN {} ELSE PagesOf(c.start, c.size)
MmAll == PagesOf(0, MmPages)

MmInit ==
  /\ mmc_list = <<>> /\ mmFree = MmAll /\ mmUser = {} /\ mmt = [t \in MmThreads |-> MmIdle]

-----------------------------------------------------------------------------
(* mmap: the arguments that are refused change nothing.  mmapmem_alloc     *)
(* gets the pages first, ...                                               *)
sys_mmap(t) ==
  /\ mmt[t].pc = "idle" /\ Len(mmc_list) < MmChunks
  /\ \E a \in MmAll, n \in 0..MmMaxLen, kind \in {"anon", "badfile", "file"} :
       /\ n = 0 \/ PagesOf(a, n) \subseteq mmFree
       /\ mmFree' = mmFree \ (IF n = 0 THEN {} ELSE PagesOf(a, n))
       /\ mmt' = [mmt EXCEPT ![t] = [pc |-> "insert", mc |-> [start |-> a, size |-> n, left |-> n], kind |-> kind]]
  /\ UNCHANGED <<mmc_list, mmUser>>

(* ... and then enters the chunk into the list.                            *)
mmapmem_alloc(t) ==
  /\ mmt[t].pc = "insert" /\ mmc_list' = <<mmt[t].mc>> \o mmc_list
  /\ mmt' = [mmt EXCEPT ![t].pc = mmt[t].kind]
  /\ UNCHANGED <<mmFree, mmUser>>

(* Anonymous memory is ready; a descriptor that cannot be mapped is        *)
(* noticed only now, and the chunk stays.                                  *)
MmapAnon(t) ==
  /\ mmt[t].pc = "anon" /\ mmUser' = mmUser \cup ChunkPages(mmt[t].mc)
  /\ mmt' = [mmt EXCEPT ![t] = MmIdle] /\ UNCHANGED <<mmc_list, mmFree>>
MmapBadFile(t) ==
  /\ mmt[t].pc = "badfile" /\ mmt' = [mmt EXCEPT ![t] = MmIdle]
  /\ UNCHANGED <<mmc_list, mmFree, mmUser>>

(* mmapmem_free up to the unlock: the first chunk around the pages loses   *)
(* them, and when none is left it leaves the list.                         *)
Around(a, n) == {i \in DOMAIN mmc_list : mmc_list[i].start <= a /\ mmc_list[i].start + mmc_list[i].size >= a + n}
(* Mutant: a chunk goes with the first of its pages.                       *)
AtOnce(c, n) == n > 0
NoneLeft(c, n) == c.left = n

mmapmem_free(t, a, n) ==
  IF Around(a, n) = {} THEN mmt' = [mmt EXCEPT ![t] = MmIdle] /\ UNCHANGED mmc_list       \* EINVAL
  ELSE LET i == CHOOSE j \in Around(a, n) : \A k \in Around(a, n) : j <= k
           c == mmc_list[i]
       IN IF NoneLeft(c, n)
            THEN mmc_list' = Without(mmc_list, i) /\ mmt' = [mmt EXCEPT ![t] = [MmIdle EXCEPT !.pc = "free", !.mc = c]]
            ELSE mmc_list' = [mmc_list EXCEPT ![i].left = @ - n] /\ mmt' = [mmt EXCEPT ![t] = MmIdle]

(* A file is read into the pages; when that fails they are given back.     *)
MmapFile(t) ==
  /\ mmt[t].pc = "file"
  /\ \/ /\ mmUser' = mmUser \cup ChunkPages(mmt[t].mc) /\ mmt' = [mmt EXCEPT ![t] = MmIdle]
        /\ UNCHANGED mmc_list
     \/ mmapmem_free(t, mmt[t].mc.start, mmt[t].mc.size) /\ UNCHANGED mmUser
  /\ UNCHANGED mmFree

sys_munmap(t) ==
  /\ mmt[t].pc = "idle"
  /\ \E a \in MmAll, n \in 0..MmMaxLen :
       /\ n > 0 => PagesOf(a, n) \subseteq mmUser
       /\ mmUser' = mmUser \ (IF Around(a, n) = {} \/ n = 0 THEN {} ELSE PagesOf(a, n))
       /\ mmapmem_free(t, a, n)
  /\ UNCHANGED mmFree

(* kmem_free, after the unlock.                                            *)
FreeChunk(t) ==
  /\ mmt[t].pc = "free" /\ mmFree' = mmFree \cup ChunkPages(mmt[t].mc)
  /\ mmt' = [mmt EXCEPT ![t] = MmIdle] /\ UNCHANGED <<mmc_list, mmUser>>

(* The library calls: the arguments go to the kernel, which takes these    *)
(* steps; the error, if any, becomes errno.                                *)
mmap(t) == sys_mmap(t) \/ mmapmem_alloc(t) \/ MmapAnon(t) \/ MmapBadFile(t) \/ MmapFile(t)
munmap(t) == sys_munmap(t) \/ FreeChunk(t)

MmNext == \E t \in MmThreads : mmap(t) \/ munmap(t)

MmSpec == MmInit /\ [][MmNext]_mmVars

-----------------------------------------------------------------------------
InList(p) == \E i \in DOMAIN mmc_list : p \in ChunkPages(mmc_list[i])

(* Mapped pages are in a chunk of the list, never back with the allocator; *)
(* no page is in two chunks; the count of a chunk is that of its mapped    *)
(* pages, or the chunk is being mapped or belongs to an mmap that failed   *)
(* (none of it mapped, the count full); the pages of no chunk are free or  *)
(* on their way.                                                           *)
MappingsKept ==
  /\ \A p \in mmUser : p \notin mmFree /\ InList(p)
  /\ \A i, j \in DOMAIN mmc_list : i # j => ChunkPages(mmc_list[i]) \cap ChunkPages(mmc_list[j]) = {}
  /\ \A i \in DOMAIN mmc_list :
       LET c == mmc_list[i] m == Cardinality(ChunkPages(c) \cap mmUser) IN
       m = c.left \/ (m = 0 /\ c.left = c.size)
  /\ \A p \in MmAll : p \in mmFree \/ InList(p) \/ \E t \in MmThreads : p \in ChunkPages(mmt[t].mc)
=============================================================================
