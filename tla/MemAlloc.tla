------------------------------- MODULE MemAlloc -------------------------------
(***************************************************************************)
(* The page allocator of lib/libbmk_core/pgalloc.c: a buddy allocator with *)
(* a free list for each power of two and a bitmap of allocated pages.      *)
(* Addresses are page numbers.  A free list is a set: which of the chunks  *)
(* that satisfy a request comes first in the list is left open.  Every     *)
(* operation holds pgalloc_slock from its start to its end.                *)
(***************************************************************************)
EXTENDS Integers, FiniteSets, FiniteSetsExt

CONSTANTS
  PgMin,      \* first page given to bmk_pgalloc_loadmem
  PgEnd,      \* first page after the last
  PgLevels,   \* FREELIST_LEVELS
  PgBitmap,   \* pages the allocation bitmap takes
  PgAligns,   \* alignments asked for, in pages
  PgOrders,   \* sizes asked for, as powers of two
  MaxPgLive   \* bound: allocations of whole pages at a time

ASSUME PgAssumption ==
  /\ PgMin \in Nat \ {0} /\ PgBitmap \in Nat \ {0} /\ PgEnd \in Nat
  /\ PgMin + PgBitmap < PgEnd /\ PgEnd < 2 ^ (PgLevels - 1)
  /\ PgOrders \subseteq 0..(PgLevels - 1) /\ PgAligns \subseteq {2 ^ k : k \in 0..PgLevels}

VARIABLES
  pgFree,  \* the free lists: set of <<page, level>>
  pgMap,   \* alloc_bitmap: set of allocated pages
  pgUsed,  \* pgalloc_usedkb, in pages
  pgLive   \* what callers hold: set of <<page, order>>

pgVars == <<pgFree, pgMap, pgUsed, pgLive>>

minpage_addr == PgMin + PgBitmap
maxpage_addr == PgEnd
addr_is_managed(p) == p >= minpage_addr /\ p < maxpage_addr
ManagedPages == minpage_addr..(maxpage_addr - 1)
order2size(k) == 2 ^ k
PagesOf(p, k) == p..(p + order2size(k) - 1)

(* carverange: the largest chunk that the alignment of the address and the *)
(* rest of the range allow, again and again.                               *)
ChunkAt(p, r) == Max({k \in 0..PgLevels : p % 2 ^ k = 0 /\ 2 ^ k <= r})
Carved[a \in Nat \X Nat] ==
  IF a[2] = 0 THEN {}
  ELSE LET k == ChunkAt(a[1], a[2])
       IN {<<a[1], k>>} \cup Carved[<<a[1] + 2 ^ k, a[2] - 2 ^ k>>]
carverange(p, r) == Carved[<<p, r>>]

(* bmk_pgalloc_loadmem.                                                    *)
AllChunks == carverange(minpage_addr, maxpage_addr - minpage_addr)

PgInit ==
  /\ pgFree = AllChunks
  /\ pgMap = {} /\ pgUsed = 0 /\ pgLive = {}

(* bmk_pgalloc_align: the first level that satisfies the request, any      *)
(* chunk of it.  The rest of the chunk goes back to the free lists.        *)
satisfies_p(b, align) == {c \in pgFree : c[2] = b /\ c[1] % align = 0}
Buckets(order, align) == {b \in order..(PgLevels - 1) : satisfies_p(b, align) # {}}

Leftover(c, order) ==
  carverange(c[1] + order2size(order), order2size(c[2]) - order2size(order))

pgalloc_align(order, align, c) ==
  /\ Buckets(order, align) # {}
  /\ c \in satisfies_p(Min(Buckets(order, align)), align)
  /\ pgFree' = (pgFree \ {c}) \cup Leftover(c, order)
  /\ pgMap' = pgMap \cup PagesOf(c[1], order)
  /\ pgUsed' = pgUsed + order2size(order)

(* bmk_pgfree: the freed block of level k and the block it could merge     *)
(* with.                                                                   *)
BlockAt(p, k) == (p \div order2size(k)) * order2size(k)
Buddy(p, k) ==
  IF BlockAt(p, k + 1) = BlockAt(p, k) THEN BlockAt(p, k) + order2size(k)
  ELSE BlockAt(p, k) - order2size(k)

Merges(p, k) ==
  /\ addr_is_managed(Buddy(p, k))
  /\ Buddy(p, k) \notin pgMap
  /\ <<Buddy(p, k), k>> \in pgFree

(* Mutant: the loop stops at the first merge.                              *)
OneMerge(p, order) == IF Merges(p, order) THEN order + 1 ELSE order
FinalLevel(p, order) == Min({k \in order..PgLevels : k = PgLevels \/ ~Merges(p, k)})

pgfree(p, order) ==
  /\ pgMap' = pgMap \ PagesOf(p, order)
  /\ pgUsed' = pgUsed - order2size(order)
  /\ LET top == FinalLevel(p, order)
     IN pgFree' = (pgFree \ {<<Buddy(p, k), k>> : k \in order..(top - 1)})
                  \cup {<<BlockAt(p, top), top>>}

-----------------------------------------------------------------------------
(* A caller of the page allocator.                                         *)
PgAlloc(order, align) ==
  /\ Cardinality(pgLive) < MaxPgLive
  /\ \E c \in pgFree : /\ pgalloc_align(order, align, c)
                       /\ pgLive' = pgLive \cup {<<c[1], order>>}

PgFree(b) == pgfree(b[1], b[2]) /\ pgLive' = pgLive \ {b}

-----------------------------------------------------------------------------
(* Properties.                                                             *)

(* Every page is allocated or in one free chunk, never both: the bitmap    *)
(* and the free lists agree, and the pages in use are counted.             *)
FreeMatchesMap ==
  /\ \A c \in pgFree, d \in pgFree : c # d => PagesOf(c[1], c[2]) \cap PagesOf(d[1], d[2]) = {}
  /\ UNION {PagesOf(c[1], c[2]) : c \in pgFree} = ManagedPages \ pgMap
  /\ pgUsed = Cardinality(pgMap)

(* chunklevel asserts that what is not allocated is the head of a free     *)
(* chunk, for every buddy that bmk_pgfree looks at.                        *)
MergeFindsChunk ==
  \A b \in pgLive : \A k \in b[2]..FinalLevel(b[1], b[2]) :
    LET buddy == Buddy(b[1], k)
    IN addr_is_managed(buddy) /\ buddy \notin pgMap
         => \E l \in 0..(PgLevels - 1) : <<buddy, l>> \in pgFree

(* Memory does not fragment for good: two free buddies of one level are    *)
(* always merged, so that all of the memory in one piece can be had again. *)
Coalesced ==
  /\ \A c \in pgFree : c[1] % order2size(c[2]) = 0 /\ ~Merges(c[1], c[2])
  /\ pgMap = {} => pgFree = AllChunks

(* After any sequence of bmk_pgalloc_align and bmk_pgfree the free lists   *)
(* and the bitmap agree, a merge finds the chunk it looks for, and free    *)
(* buddies are merged.                                                     *)
FreeListsSound == FreeMatchesMap /\ MergeFindsChunk /\ Coalesced

-------------------------------------------------------------------------------
(***************************************************************************)
(* The memory allocator of lib/libbmk_core/memalloc.c: blocks of powers of *)
(* two below the page size from free lists, larger ones from the page      *)
(* allocator.  A header right before the memory of the caller records how  *)
(* to free it.  Addresses are bytes; sizes are scaled down.                *)
(***************************************************************************)

CONSTANTS
  MINSHIFT,   \* log2 of the smallest block
  PageShift,  \* BMK_PCPU_PAGE_SHIFT
  MINALIGN,
  HdrSize,    \* sizeof(struct memalloc_hdr)
  Requests,   \* sizes asked for
  Aligns,     \* alignments asked for
  MaxLive     \* bound: allocations at a time

ASSUME MaAssumption ==
  /\ MINSHIFT \in Nat /\ PageShift \in Nat /\ MINSHIFT < PageShift
  /\ HdrSize \in Nat \ {0} /\ HdrSize <= MINALIGN /\ MINALIGN < 2 ^ MINSHIFT
  /\ MINALIGN \in {2 ^ k : k \in 0..MINSHIFT} /\ Aligns \subseteq Nat
  /\ Requests \subseteq Nat /\ MaxLive \in Nat

VARIABLES
  maFree,   \* freebuckets: per bucket, set of blocks
  nmalloc,  \* per bucket
  maLive,   \* what callers hold: records with the header of each
  maMove    \* blocks of a realloc between its allocation and its free:
            \* <<>> or <<old, new>>

maVars == <<maFree, nmalloc, maLive, maMove, pgVars>>

LOCALBUCKETS == PageShift - MINSHIFT
BlockSize(b) == 2 ^ (b + MINSHIFT)
RoundUp(x, a) == ((x + a - 1) \div a) * a

MaInit ==
  /\ PgInit
  /\ maFree = [b \in 0..(LOCALBUCKETS - 1) |-> {}]
  /\ nmalloc = [b \in 0..(LOCALBUCKETS - 1) |-> 0]
  /\ maLive = {} /\ maMove = <<>>

(* bmk_memalloc: the alignment and the bucket for a request.               *)
AlignOf(align) == IF align < MINALIGN THEN MINALIGN ELSE align
AllocBytes(nbytes, align) == nbytes + RoundUp(HdrSize, align)
BucketOf(bytes) == Min({b \in 0..(PgLevels + PageShift) : bytes <= BlockSize(b)})

(* The header of memory that starts in block p.                            *)
Allocation(p, nbytes, align, bucket) ==
  [rv |-> RoundUp(p + HdrSize, align), nbytes |-> nbytes, align |-> align,
   alignpad |-> RoundUp(p + HdrSize, align) - p, index |-> bucket]

(* bucketalloc, morecore: a free block, or a page of which all but the     *)
(* first block go to the free list.                                        *)
Morecore(p, b) == {p + i * BlockSize(b) : i \in 1..(2 ^ PageShift \div BlockSize(b) - 1)}

bucketalloc(b, p) ==
  /\ \/ /\ p \in maFree[b]
        /\ maFree' = [maFree EXCEPT ![b] = @ \ {p}]
        /\ UNCHANGED <<pgFree, pgMap, pgUsed>>
     \/ /\ maFree[b] = {}
        /\ \E c \in pgFree : pgalloc_align(0, 1, c) /\ p = c[1] * 2 ^ PageShift
        /\ maFree' = [maFree EXCEPT ![b] = Morecore(p, b)]
  /\ nmalloc' = [nmalloc EXCEPT ![b] = @ + 1]

BlockStarts == UNION ({maFree[b] : b \in DOMAIN maFree} \cup {{c[1] * 2 ^ PageShift : c \in pgFree}})

memalloc(nbytes, align) ==
  LET a == AlignOf(align)
      b == BucketOf(AllocBytes(nbytes, a))
  IN \E p \in BlockStarts :
       /\ \/ b < LOCALBUCKETS /\ bucketalloc(b, p)
          \/ /\ b >= LOCALBUCKETS
             /\ \E c \in pgFree : pgalloc_align(b - LOCALBUCKETS, 1, c) /\ p = c[1] * 2 ^ PageShift
             /\ UNCHANGED <<maFree, nmalloc>>
       /\ maLive' = maLive \cup {Allocation(p, nbytes, a, b)}
       /\ UNCHANGED pgLive

(* bmk_memfree: the block is found from the header.                         *)
Origp(m) == m.rv - m.alignpad

CountFree(b) == [nmalloc EXCEPT ![b] = @ - 1]

memfree(m) ==
  /\ IF m.index >= LOCALBUCKETS
       THEN /\ pgfree(Origp(m) \div 2 ^ PageShift, m.index - LOCALBUCKETS)
            /\ UNCHANGED <<maFree, nmalloc>>
       ELSE /\ maFree' = [maFree EXCEPT ![m.index] = @ \cup {Origp(m)}]
            /\ nmalloc' = CountFree(m.index)
            /\ UNCHANGED <<pgFree, pgMap, pgUsed>>
  /\ maLive' = maLive \ {m}
  /\ UNCHANGED pgLive

-----------------------------------------------------------------------------
Memalloc(nbytes, align) ==
  /\ Cardinality(maLive) < MaxLive
  /\ memalloc(nbytes, align)
  /\ UNCHANGED maMove

Memfree(m) == (\A i \in DOMAIN maMove : m # maMove[i]) /\ memfree(m) /\ UNCHANGED maMove

(* bmk_memrealloc_user: the block is kept when it is large enough; else    *)
(* its contents are copied to a new one, and it is freed.                  *)
Room(m) == BlockSize(m.index) - m.alignpad

ReallocKeep(m, nbytes) ==
  /\ maMove = <<>> /\ nbytes > 0 /\ Room(m) >= nbytes
  /\ maLive' = (maLive \ {m}) \cup {[m EXCEPT !.nbytes = nbytes]}
  /\ UNCHANGED <<maFree, nmalloc, maMove, pgVars>>

ReallocGrow(m, nbytes) ==
  /\ maMove = <<>> /\ nbytes > 0 /\ Room(m) < nbytes
  /\ memalloc(nbytes, MINALIGN)
  /\ \E new \in maLive' \ maLive : maMove' = <<m, new>>

ReallocFree == maMove # <<>> /\ memfree(maMove[1]) /\ maMove' = <<>>

MaNext ==
  \/ \E r \in Requests, a \in Aligns : Memalloc(r, a)
  \/ \E m \in maLive : Memfree(m)
  \/ \E m \in maLive, r \in Requests : ReallocKeep(m, r) \/ ReallocGrow(m, r)
  \/ ReallocFree
  \/ \E k \in PgOrders, a \in PgAligns : PgAlloc(k, a) /\ UNCHANGED <<maFree, nmalloc, maLive, maMove>>
  \/ \E b \in pgLive : PgFree(b) /\ UNCHANGED <<maFree, nmalloc, maLive, maMove>>

MaSpec == MaInit /\ [][MaNext]_maVars

-----------------------------------------------------------------------------
(* Properties.                                                             *)
Bytes(p, size) == p..(p + size - 1)
LiveBytes(m) == Bytes(Origp(m), BlockSize(m.index))
FreeBlocks == UNION {{Bytes(p, BlockSize(b)) : p \in maFree[b]} : b \in DOMAIN maFree}

(* Blocks in use and blocks on the free lists do not overlap, nor do they  *)
(* overlap pages that are free or that another caller holds.               *)
BlocksDisjoint ==
  /\ \A m \in maLive, o \in maLive : m # o => LiveBytes(m) \cap LiveBytes(o) = {}
  /\ \A m \in maLive, f \in FreeBlocks : LiveBytes(m) \cap f = {}
  /\ \A s \in {LiveBytes(m) : m \in maLive} \cup FreeBlocks :
       \A x \in {y \div 2 ^ PageShift : y \in s} :
         x \in pgMap /\ \A b \in pgLive : x \notin PagesOf(b[1], b[2])

(* Memory is aligned as asked for, and with its header inside its block.   *)
FitsAligned ==
  \A m \in maLive : /\ m.rv % m.align = 0
                    /\ Bytes(m.rv - HdrSize, HdrSize + m.nbytes) \subseteq LiveBytes(m)

(* What a realloc copies, all of the room of the old block, fits into the  *)
(* new one, and the blocks in use are counted.                             *)
CopyFits ==
  /\ maMove # <<>> => Room(maMove[2]) >= Room(maMove[1])
  /\ \A b \in DOMAIN nmalloc : nmalloc[b] = Cardinality({m \in maLive : m.index = b})

(* After any sequence of bmk_memalloc, bmk_memfree and bmk_memrealloc the  *)
(* blocks are disjoint, large enough and aligned, and copies fit.          *)
BlocksSound == BlocksDisjoint /\ FitsAligned /\ CopyFits

(* The page allocator and the allocator on top of it are sound.            *)
MemorySound == FreeListsSound /\ BlocksSound
===============================================================================
