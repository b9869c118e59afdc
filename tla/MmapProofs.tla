------------------------------ MODULE MmapProofs ------------------------------
(***************************************************************************)
(* Proofs about anonymous and file mappings, for memory of any size and    *)
(* any number of threads: memory is free, mapped or in the hands of one    *)
(* thread, and a mapping keeps its pages until it is unmapped.             *)
(***************************************************************************)
EXTENDS MmapMem, Integers, TLAPS

(* What the proofs use of finite sets and of numbers.  The library proves  *)
(* it; module Theorems cites the library.  (A module that extends the      *)
(* library hands all of it to the provers with every step.)                *)
PageFacts ==
  /\ IsFiniteSet({}) /\ Cardinality({}) = 0
  /\ \A a, b \in Int : IsFiniteSet(a..b) /\ Cardinality(a..b) = IF a > b THEN 0 ELSE b - a + 1
  /\ \A S : IsFiniteSet(S) =>
       /\ Cardinality(S) \in Nat /\ (Cardinality(S) = 0 <=> S = {})
       /\ \A T : T \subseteq S =>
            IsFiniteSet(T) /\ Cardinality(T) <= Cardinality(S) /\ (Cardinality(S) = Cardinality(T) => S = T)
       /\ \A T : /\ IsFiniteSet(S \cap T) /\ Cardinality(S \cap T) <= Cardinality(S)
                 /\ IsFiniteSet(S \ T) /\ Cardinality(S \ T) = Cardinality(S) - Cardinality(S \cap T)
  /\ \A T : T \subseteq Nat /\ T # {} => \E x \in T : \A y \in T : x <= y

MmChunk == [start : Nat, size : Nat, left : Nat]

(* What the fields hold.                                                   *)
MmTypeOK ==
  /\ mmc_list \in Seq(MmChunk)
  /\ mmFree \in SUBSET MmAll
  /\ mmUser \in SUBSET MmAll
  /\ mmt \in [MmThreads -> [pc : {"idle", "insert", "anon", "badfile", "file", "free"}, mc : MmChunk,
                            kind : {"anon", "badfile", "file"}]]

(* Chunks are memory, no page of them is free, and none of one that is     *)
(* being mapped or freed is mapped or belongs to another thread.  While it *)
(* is being mapped the chunk is in the list, full; before and after, its   *)
(* pages are nobody else's.                                                *)
ListApart ==
  \A i \in DOMAIN mmc_list :
    ChunkPages(mmc_list[i]) \subseteq MmAll /\ ChunkPages(mmc_list[i]) \cap mmFree = {}
OwnApart ==
  \A t \in MmThreads :
    /\ ChunkPages(mmt[t].mc) \subseteq MmAll
    /\ ChunkPages(mmt[t].mc) \cap mmFree = {} /\ ChunkPages(mmt[t].mc) \cap mmUser = {}
    /\ mmt[t].pc # "free" => mmt[t].mc.left = mmt[t].mc.size
    /\ mmt[t].pc = "idle" => mmt[t].mc.size = 0
MmUnlisted ==
  \A t \in MmThreads : mmt[t].pc \in {"insert", "free"} =>
    \A i \in DOMAIN mmc_list : ChunkPages(mmc_list[i]) \cap ChunkPages(mmt[t].mc) = {}
MmListed ==
  \A t \in MmThreads : mmt[t].pc \in {"anon", "badfile", "file"} /\ mmt[t].mc.size # 0 =>
    \E i \in DOMAIN mmc_list : mmc_list[i] = mmt[t].mc
ThreadsApart ==
  \A t, u \in MmThreads : t # u => ChunkPages(mmt[t].mc) \cap ChunkPages(mmt[u].mc) = {}
ChunksApart == OwnApart /\ MmUnlisted /\ MmListed /\ ThreadsApart

MmInv == MmTypeOK /\ ListApart /\ ChunksApart /\ MappingsKept
-----------------------------------------------------------------------------
(* The parts of PageFacts.                                                 *)
LEMMA PageEmpty ==
  ASSUME PageFacts
  PROVE  /\ IsFiniteSet({}) /\ Cardinality({}) = 0
         /\ \A S : IsFiniteSet(S) => (Cardinality(S) = 0 <=> S = {})
BY Zenon DEF PageFacts

LEMMA PageInterval ==
  ASSUME PageFacts, NEW a \in Int, NEW b \in Int
  PROVE  IsFiniteSet(a..b) /\ Cardinality(a..b) = IF a > b THEN 0 ELSE b - a + 1
BY Zenon DEF PageFacts

LEMMA PageType ==
  ASSUME PageFacts, NEW S, IsFiniteSet(S)
  PROVE  Cardinality(S) \in Nat
BY Zenon DEF PageFacts

LEMMA PageSubset ==
  ASSUME PageFacts, NEW S, IsFiniteSet(S), NEW T \in SUBSET S
  PROVE  /\ IsFiniteSet(T) /\ Cardinality(T) <= Cardinality(S)
         /\ Cardinality(S) = Cardinality(T) => S = T
BY Zenon DEF PageFacts

LEMMA PageParts ==
  ASSUME PageFacts, NEW S, IsFiniteSet(S), NEW T
  PROVE  /\ IsFiniteSet(S \cap T) /\ Cardinality(S \cap T) <= Cardinality(S)
         /\ IsFiniteSet(S \ T) /\ Cardinality(S \ T) = Cardinality(S) - Cardinality(S \cap T)
BY Zenon DEF PageFacts

LEMMA PageLeast ==
  ASSUME PageFacts, NEW T, T \subseteq Nat, T # {}
  PROVE  \E x \in T : \A y \in T : x <= y
BY Zenon DEF PageFacts

(* The pages of a chunk, and how many they are.                            *)
LEMMA ChunkFacts ==
  ASSUME PageFacts, NEW c \in MmChunk
  PROVE  /\ ChunkPages(c) = c.start..(c.start + c.size - 1)
         /\ IsFiniteSet(ChunkPages(c)) /\ Cardinality(ChunkPages(c)) = c.size
<1>1. c.start \in Nat /\ c.size \in Nat
  BY DEF MmChunk
<1>2. ChunkPages(c) = c.start..(c.start + c.size - 1)
  BY <1>1 DEF ChunkPages, PagesOf
<1>3. /\ IsFiniteSet(c.start..(c.start + c.size - 1))
      /\ Cardinality(c.start..(c.start + c.size - 1)) = c.size
  <2> DEFINE b == c.start + c.size - 1
  <2>1. c.start \in Int /\ b \in Int
    BY <1>1
  <2>2. b = c.start + c.size - 1
    OBVIOUS
  <2> HIDE DEF b
  <2>3. IsFiniteSet(c.start..b) /\ Cardinality(c.start..b) = IF c.start > b THEN 0 ELSE b - c.start + 1
    BY <2>1, PageInterval
  <2>4. Cardinality(c.start..b) = c.size
    BY <1>1, <2>2, <2>3
  <2> QED
    BY <2>3, <2>4 DEF b
<1> QED
  BY <1>2, <1>3

(* A chunk's count is right for the pages U that are mapped.               *)
CountRight(c, U) ==
  LET m == Cardinality(ChunkPages(c) \cap U) IN m = c.left \/ (m = 0 /\ c.left = c.size)

(* Without takes one element and keeps the order of the others.           *)
LEMMA Removal ==
  ASSUME NEW S, NEW s \in Seq(S), NEW i \in DOMAIN s
  PROVE  /\ Without(s, i) \in Seq(S)
         /\ DOMAIN Without(s, i) = 1..(Len(s) - 1)
         /\ \A j \in 1..(Len(s) - 1) : Without(s, i)[j] = s[IF j < i THEN j ELSE j + 1]
<1>1. Len(s) \in Nat /\ i \in 1..Len(s) /\ DOMAIN s = 1..Len(s) /\ \A j \in 1..Len(s) : s[j] \in S
  BY SMT
<1> DEFINE a == SubSeq(s, 1, i - 1)
           b == SubSeq(s, i + 1, Len(s))
<1>2. a \in Seq(S) /\ Len(a) = i - 1 /\ \A j \in 1..(i - 1) : a[j] = s[j]
  <2>1. \A j \in 1..(i - 1) : s[j] \in S
    BY <1>1
  <2>2. 1 \in Int /\ i - 1 \in Int
    BY <1>1
  <2>3. /\ a \in Seq(S) /\ Len(a) = IF 1 <= i - 1 THEN (i - 1) - 1 + 1 ELSE 0
        /\ \A j \in 1..((i - 1) - 1 + 1) : a[j] = s[1 + j - 1]
    BY <2>1, <2>2
  <2> QED
    BY <1>1, <2>3
<1>3. b \in Seq(S) /\ Len(b) = Len(s) - i /\ \A j \in 1..(Len(s) - i) : b[j] = s[i + j]
  <2>1. \A j \in (i + 1)..Len(s) : s[j] \in S
    BY <1>1
  <2>2. i + 1 \in Int /\ Len(s) \in Int
    BY <1>1
  <2>3. /\ b \in Seq(S) /\ Len(b) = IF i + 1 <= Len(s) THEN Len(s) - (i + 1) + 1 ELSE 0
        /\ \A j \in 1..(Len(s) - (i + 1) + 1) : b[j] = s[(i + 1) + j - 1]
    BY <2>1, <2>2
  <2>4. /\ Len(s) - (i + 1) + 1 = Len(s) - i /\ (i + 1 <= Len(s) <=> Len(s) - i # 0)
        /\ \A j \in 1..(Len(s) - i) : (i + 1) + j - 1 = i + j
    BY <1>1
  <2> QED
    BY <1>1, <2>3, <2>4
<1> HIDE DEF a, b
<1>4. /\ a \o b \in Seq(S) /\ Len(a \o b) = Len(s) - 1
      /\ \A j \in 1..(Len(s) - 1) : (a \o b)[j] = IF j <= i - 1 THEN a[j] ELSE b[j - (i - 1)]
  <2>1. /\ a \o b \in Seq(S) /\ Len(a \o b) = Len(a) + Len(b)
        /\ \A j \in 1..(Len(a) + Len(b)) : (a \o b)[j] = IF j <= Len(a) THEN a[j] ELSE b[j - Len(a)]
    BY <1>2, <1>3, SMTT(30)
  <2>2. Len(a) + Len(b) = Len(s) - 1
    BY <1>1, <1>2, <1>3
  <2> QED
    BY <1>2, <2>1, <2>2
<1>5. \A j \in 1..(Len(s) - 1) : (a \o b)[j] = s[IF j < i THEN j ELSE j + 1]
  <2> SUFFICES ASSUME NEW j \in 1..(Len(s) - 1)
               PROVE  (a \o b)[j] = s[IF j < i THEN j ELSE j + 1]
    BY Zenon
  <2>1. CASE j < i
    <3>1. j \in 1..(i - 1) /\ j <= i - 1
      BY <1>1, <2>1
    <3> QED
      BY <1>2, <1>4, <2>1, <3>1
  <2>2. CASE ~ (j < i)
    <3>1. j - (i - 1) \in 1..(Len(s) - i) /\ ~ (j <= i - 1) /\ i + (j - (i - 1)) = j + 1
      BY <1>1, <2>2
    <3> QED
      BY <1>3, <1>4, <2>2, <3>1, Zenon
  <2> QED
    BY <2>1, <2>2, Zenon
<1>6. DOMAIN (a \o b) = 1..(Len(s) - 1)
  BY <1>4
<1>7. Without(s, i) = a \o b
  BY DEF Without, a, b
<1> QED
  BY <1>4, <1>5, <1>6, <1>7

LEMMA MmInitInv == MmInit => MmInv
<1> SUFFICES ASSUME MmInit
             PROVE  MmInv
  OBVIOUS
<1>1. MmTypeOK
  BY DEF MmInit, MmTypeOK, MmIdle, MmChunk
<1>2. DOMAIN mmc_list = {}
  BY DEF MmInit
<1>3. ListApart /\ ChunksApart
  BY <1>2 DEF ListApart, ChunksApart, OwnApart, MmUnlisted, MmListed, ThreadsApart, MmInit, MmIdle, ChunkPages
<1>4. MappingsKept
  BY <1>2 DEF MappingsKept, MmInit
<1> QED
  BY <1>1, <1>3, <1>4 DEF MmInv

LEMMA MmFields ==
  ASSUME MmTypeOK
  PROVE  /\ Len(mmc_list) \in Nat /\ DOMAIN mmc_list = 1..Len(mmc_list)
         /\ \A i \in DOMAIN mmc_list : mmc_list[i] \in MmChunk
         /\ \A t \in MmThreads : mmt[t].mc \in MmChunk
         /\ MmIdle \in [pc : {"idle", "insert", "anon", "badfile", "file", "free"}, mc : MmChunk,
                        kind : {"anon", "badfile", "file"}]
         /\ MmIdle.pc = "idle" /\ MmIdle.mc.size = 0 /\ MmIdle.mc.left = 0 /\ ChunkPages(MmIdle.mc) = {}
<1>1. mmc_list \in Seq(MmChunk)
  BY DEF MmTypeOK
<1>2. Len(mmc_list) \in Nat /\ DOMAIN mmc_list = 1..Len(mmc_list)
  BY <1>1
<1>3. \A i \in DOMAIN mmc_list : mmc_list[i] \in MmChunk
  BY <1>1, <1>2
<1> QED
  BY <1>2, <1>3 DEF MmTypeOK, MmIdle, MmChunk, ChunkPages

(* MappingsKept, one conjunct at a time.                                   *)
LEMMA KeptParts ==
  MappingsKept <=>
    /\ \A p \in mmUser : p \notin mmFree /\ InList(p)
    /\ \A i, j \in DOMAIN mmc_list : i # j => ChunkPages(mmc_list[i]) \cap ChunkPages(mmc_list[j]) = {}
    /\ \A i \in DOMAIN mmc_list : CountRight(mmc_list[i], mmUser)
    /\ \A p \in MmAll : p \in mmFree \/ InList(p) \/ \E t \in MmThreads : p \in ChunkPages(mmt[t].mc)
BY DEF MappingsKept, CountRight

(* A thread is done with a chunk that stays where it is.                   *)
LEMMA DropInductive ==
  ASSUME MmInv, NEW t \in MmThreads, mmt[t].pc \in {"idle", "anon", "badfile", "file"},
         mmt' = [mmt EXCEPT ![t] = MmIdle], UNCHANGED <<mmc_list, mmFree, mmUser>>
  PROVE  MmInv'
<1>1. MmTypeOK /\ ListApart /\ OwnApart /\ MmUnlisted /\ MmListed /\ ThreadsApart /\ MappingsKept
  BY DEF MmInv, ChunksApart
<1>2. MmTypeOK'
  BY <1>1, MmFields DEF MmTypeOK
<1>3. mmt'[t] = MmIdle /\ \A u \in MmThreads : u # t => mmt'[u] = mmt[u]
  BY <1>1 DEF MmTypeOK
<1>4. ListApart'
  BY <1>1 DEF ListApart
<1>5. ChunksApart'
  <2>1. OwnApart'
    BY <1>1, <1>3, MmFields DEF OwnApart
  <2>2. MmUnlisted'
    BY <1>1, <1>3, MmFields DEF MmUnlisted
  <2>3. MmListed'
    BY <1>1, <1>3, MmFields DEF MmListed
  <2>4. ThreadsApart'
    BY <1>1, <1>3, MmFields, Zenon DEF ThreadsApart
  <2> QED
    BY <2>1, <2>2, <2>3, <2>4 DEF ChunksApart
<1>6. \A p \in ChunkPages(mmt[t].mc) : InList(p)
  BY <1>1 DEF OwnApart, MmListed, InList, ChunkPages
<1>7. MappingsKept'
  BY <1>1, <1>3, <1>6 DEF MappingsKept, InList
<1> QED
  BY <1>2, <1>4, <1>5, <1>7 DEF MmInv

(* mmap gets pages that were free, ...                                     *)
LEMMA MmapInductive ==
  ASSUME MmInv, NEW t \in MmThreads, sys_mmap(t)
  PROVE  MmInv'
<1>1. MmTypeOK /\ ListApart /\ OwnApart /\ MmUnlisted /\ MmListed /\ ThreadsApart /\ MappingsKept
  BY DEF MmInv, ChunksApart
<1>2. PICK a \in MmAll, n \in 0..MmMaxLen, kind \in {"anon", "badfile", "file"} :
        /\ n = 0 \/ PagesOf(a, n) \subseteq mmFree
        /\ mmFree' = mmFree \ (IF n = 0 THEN {} ELSE PagesOf(a, n))
        /\ mmt' = [mmt EXCEPT ![t] = [pc |-> "insert", mc |-> [start |-> a, size |-> n, left |-> n], kind |-> kind]]
  BY Zenon DEF sys_mmap
<1> DEFINE c == [start |-> a, size |-> n, left |-> n]
<1>3. c \in MmChunk /\ c.left = c.size /\ ChunkPages(c) \subseteq mmFree /\ mmFree' = mmFree \ ChunkPages(c)
  BY <1>2, MmAssumption DEF MmChunk, ChunkPages, MmAll, PagesOf
<1>4. /\ mmt[t].pc = "idle" /\ UNCHANGED <<mmc_list, mmUser>>
      /\ mmt'[t] = [pc |-> "insert", mc |-> c, kind |-> kind] /\ \A u \in MmThreads : u # t => mmt'[u] = mmt[u]
  BY <1>1, <1>2 DEF sys_mmap, MmTypeOK
<1>5. MmTypeOK'
  BY <1>1, <1>2, <1>3 DEF MmTypeOK, sys_mmap
<1> HIDE DEF c
<1>6. ListApart'
  BY <1>1, <1>3, <1>4 DEF ListApart
<1>7. mmt'[t].pc = "insert" /\ mmt'[t].mc = c
  BY <1>4
<1>8. ChunksApart'
  <2>1. \A p \in ChunkPages(c) : p \in MmAll /\ p \notin mmFree' /\ p \notin mmUser
    BY <1>1, <1>3 DEF MmTypeOK, MappingsKept
  <2>2. \A p \in ChunkPages(c) : \A i \in DOMAIN mmc_list : p \notin ChunkPages(mmc_list[i])
    BY <1>1, <1>3 DEF ListApart
  <2>3. \A p \in ChunkPages(c) : \A u \in MmThreads : p \notin ChunkPages(mmt[u].mc)
    BY <1>1, <1>3 DEF OwnApart
  <2>4. OwnApart'
    BY <1>1, <1>3, <1>4, <1>7, <2>1, <2>2, <2>3, SMTT(30) DEF OwnApart
  <2>5. MmUnlisted'
    BY <1>1, <1>3, <1>4, <1>7, <2>1, <2>2, <2>3, SMTT(30) DEF MmUnlisted
  <2>6. MmListed'
    BY <1>1, <1>3, <1>4, <1>7, <2>1, <2>2, <2>3, SMTT(30) DEF MmListed
  <2>7. ThreadsApart'
    BY <1>1, <1>3, <1>4, <1>7, <2>1, <2>2, <2>3, SMTT(30) DEF ThreadsApart
  <2> QED
    BY <2>4, <2>5, <2>6, <2>7 DEF ChunksApart
<1>9. MappingsKept'
  <2>1. ChunkPages(mmt[t].mc) = {}
    BY <1>1, <1>4 DEF OwnApart, ChunkPages
  <2> QED
    BY <1>1, <1>3, <1>4, <1>7, <2>1, SMTT(30) DEF MappingsKept, InList
<1> QED
  BY <1>5, <1>6, <1>8, <1>9 DEF MmInv

(* ... enters them as a chunk ...                                          *)
LEMMA AllocInductive ==
  ASSUME PageFacts, MmInv, NEW t \in MmThreads, mmapmem_alloc(t)
  PROVE  MmInv'
<1>1. MmTypeOK /\ ListApart /\ OwnApart /\ MmUnlisted /\ MmListed /\ ThreadsApart /\ MappingsKept
  BY DEF MmInv, ChunksApart
<1> DEFINE c == mmt[t].mc
<1>2. /\ mmt[t].pc = "insert" /\ UNCHANGED <<mmFree, mmUser>>
      /\ mmt'[t].mc = c /\ mmt'[t].pc \in {"anon", "badfile", "file"}
      /\ \A u \in MmThreads : u # t => mmt'[u] = mmt[u]
  BY <1>1 DEF mmapmem_alloc, MmTypeOK
<1>3. /\ mmc_list' \in Seq(MmChunk) /\ mmc_list'[1] = c /\ DOMAIN mmc_list' = 1..(Len(mmc_list) + 1)
      /\ \A i \in DOMAIN mmc_list : mmc_list'[i + 1] = mmc_list[i]
  BY <1>1, MmFields DEF mmapmem_alloc, MmTypeOK
<1>4. /\ \A j \in DOMAIN mmc_list' : j = 1 \/ (j - 1 \in DOMAIN mmc_list /\ mmc_list'[j] = mmc_list[j - 1])
      /\ \A i \in DOMAIN mmc_list : i + 1 \in DOMAIN mmc_list'
      /\ 1 \in DOMAIN mmc_list'
  BY <1>1, <1>3, MmFields
<1>5. MmTypeOK'
  BY <1>1, <1>2, <1>3, ZenonT(30) DEF MmTypeOK, mmapmem_alloc
<1> HIDE DEF c
<1>6. /\ ChunkPages(c) \subseteq MmAll /\ ChunkPages(c) \cap mmFree = {} /\ ChunkPages(c) \cap mmUser = {}
      /\ c.left = c.size /\ \A i \in DOMAIN mmc_list : ChunkPages(mmc_list[i]) \cap ChunkPages(c) = {}
  BY <1>1, <1>2 DEF OwnApart, MmUnlisted, c
<1>7. ListApart'
  BY <1>1, <1>2, <1>3, <1>4, <1>6, SMTT(30) DEF ListApart
<1>8. ChunksApart'
  <2>1. \A u \in MmThreads : u # t => ChunkPages(mmt[u].mc) \cap ChunkPages(c) = {}
    BY <1>1 DEF ThreadsApart, c
  <2>2. OwnApart'
    BY <1>1, <1>2, <1>3, <1>4, <1>6, <2>1, SMTT(30) DEF OwnApart
  <2>3. MmUnlisted'
    BY <1>1, <1>2, <1>3, <1>4, <1>6, <2>1, SMTT(30) DEF MmUnlisted
  <2>4. MmListed'
    BY <1>1, <1>2, <1>3, <1>4, <1>6, <2>1 DEF MmListed
  <2>5. ThreadsApart'
    BY <1>1, <1>2, <1>3, <1>4, <1>6, <2>1, Zenon DEF ThreadsApart
  <2> QED
    BY <2>2, <2>3, <2>4, <2>5 DEF ChunksApart
<1>9. MappingsKept'
  <2>1. \A p : InList(p)' <=> InList(p) \/ p \in ChunkPages(c)
    BY <1>3, <1>4 DEF InList
  <2>2. \A i, j \in DOMAIN mmc_list' : i # j => ChunkPages(mmc_list'[i]) \cap ChunkPages(mmc_list'[j]) = {}
    <3> SUFFICES ASSUME NEW i \in DOMAIN mmc_list', NEW j \in DOMAIN mmc_list', i # j
                 PROVE  ChunkPages(mmc_list'[i]) \cap ChunkPages(mmc_list'[j]) = {}
      OBVIOUS
    <3>1. i \in Int /\ j \in Int
      BY <1>1, <1>3, MmFields
    <3>2. CASE i # 1 /\ j # 1
      <4>1. i - 1 # j - 1 /\ i - 1 \in DOMAIN mmc_list /\ j - 1 \in DOMAIN mmc_list
        BY <1>4, <3>1, <3>2
      <4> QED
        BY <1>1, <1>4, <3>2, <4>1 DEF MappingsKept
    <3>3. CASE i = 1
      BY <1>3, <1>4, <1>6, <3>3
    <3>4. CASE j = 1
      BY <1>3, <1>4, <1>6, <3>4
    <3> QED
      BY <3>2, <3>3, <3>4
  <2>3. \A i \in DOMAIN mmc_list' : CountRight(mmc_list'[i], mmUser')
    <3>1. CountRight(c, mmUser)
      BY <1>6, PageEmpty DEF CountRight
    <3> QED
      BY <1>1, <1>2, <1>3, <1>4, <3>1, KeptParts
  <2>4. \A p \in mmUser' : p \notin mmFree' /\ InList(p)'
    BY <1>1, <1>2, <2>1 DEF MappingsKept
  <2>5. \A p \in MmAll : p \in mmFree' \/ InList(p)' \/ \E u \in MmThreads : p \in ChunkPages(mmt'[u].mc)
    <3>1. \A u \in MmThreads : mmt'[u].mc = mmt[u].mc
      BY <1>2 DEF c
    <3> QED
      BY <1>1, <1>2, <2>1, <3>1 DEF MappingsKept
  <2> QED
    BY <2>2, <2>3, <2>4, <2>5 DEF MappingsKept, CountRight, InList
<1> QED
  BY <1>5, <1>7, <1>8, <1>9 DEF MmInv

(* ... and gives them to the program.                                      *)
LEMMA MappedInductive ==
  ASSUME PageFacts, MmInv, NEW t \in MmThreads, mmt[t].pc \in {"anon", "file"},
         mmUser' = mmUser \cup ChunkPages(mmt[t].mc), mmt' = [mmt EXCEPT ![t] = MmIdle],
         UNCHANGED <<mmc_list, mmFree>>
  PROVE  MmInv'
<1>1. MmTypeOK /\ ListApart /\ OwnApart /\ MmUnlisted /\ MmListed /\ ThreadsApart /\ MappingsKept
  BY DEF MmInv, ChunksApart
<1> DEFINE c == mmt[t].mc
<1>2. c \in MmChunk /\ ChunkPages(c) \subseteq MmAll /\ ChunkPages(c) \cap mmFree = {} /\ c.left = c.size
  BY <1>1, MmFields DEF OwnApart
<1>3. mmt'[t] = MmIdle /\ \A u \in MmThreads : u # t => mmt'[u] = mmt[u]
  BY <1>1 DEF MmTypeOK
<1>4. MmTypeOK'
  BY <1>1, <1>2, MmFields DEF MmTypeOK
<1>5. c.size = 0 \/ \E k \in DOMAIN mmc_list : mmc_list[k] = c
  BY <1>1 DEF MmListed
<1>6. \A u \in MmThreads : u # t => ChunkPages(mmt[u].mc) \cap ChunkPages(c) = {}
  BY <1>1 DEF ThreadsApart
<1>7. mmUser' = mmUser \cup ChunkPages(c)
  OBVIOUS
<1> HIDE DEF c
<1>8. ListApart'
  BY <1>1 DEF ListApart
<1>9. ChunksApart'
  <2>1. OwnApart'
    BY <1>1, <1>3, <1>6, <1>7, MmFields DEF OwnApart
  <2>2. MmUnlisted'
    BY <1>1, <1>3, <1>6, <1>7, MmFields DEF MmUnlisted
  <2>3. MmListed'
    BY <1>1, <1>3, <1>6, <1>7, MmFields DEF MmListed
  <2>4. ThreadsApart'
    BY <1>1, <1>3, <1>6, <1>7, MmFields, SMTT(30) DEF ThreadsApart
  <2> QED
    BY <2>1, <2>2, <2>3, <2>4 DEF ChunksApart
<1>10. MappingsKept'
  <2>1. \A p \in ChunkPages(c) : InList(p)
    BY <1>5 DEF InList, ChunkPages
  <2>2. \A i \in DOMAIN mmc_list : CountRight(mmc_list[i], mmUser')
    <3> SUFFICES ASSUME NEW i \in DOMAIN mmc_list
                 PROVE  CountRight(mmc_list[i], mmUser')
      BY Zenon
    <3>1. CountRight(mmc_list[i], mmUser)
      BY <1>1, KeptParts
    <3>2. CASE ChunkPages(mmc_list[i]) \cap ChunkPages(c) = {}
      <4>1. ChunkPages(mmc_list[i]) \cap mmUser' = ChunkPages(mmc_list[i]) \cap mmUser
        BY <1>7, <3>2
      <4> QED
        BY <3>1, <4>1 DEF CountRight
    <3>3. CASE mmc_list[i] = c
      <4>1. ChunkPages(c) \cap mmUser' = ChunkPages(c)
        BY <1>7
      <4>2. Cardinality(ChunkPages(c)) = c.size
        BY <1>2, ChunkFacts
      <4> QED
        BY <1>2, <3>3, <4>1, <4>2 DEF CountRight
    <3>4. c.size = 0 => ChunkPages(c) = {}
      BY DEF ChunkPages
    <3> QED
      BY <1>1, <1>5, <3>2, <3>3, <3>4 DEF MappingsKept
  <2>3. \A p \in mmUser' : p \notin mmFree /\ InList(p)
    BY <1>1, <1>2, <1>7, <2>1 DEF MappingsKept
  <2>4. \A p \in MmAll : p \in mmFree \/ InList(p) \/ \E u \in MmThreads : p \in ChunkPages(mmt'[u].mc)
    BY <1>1, <1>3, <2>1, SMTT(30) DEF MappingsKept, c
  <2> QED
    BY <1>1, <2>2, <2>3, <2>4 DEF MappingsKept, CountRight, InList
<1> QED
  BY <1>4, <1>8, <1>9, <1>10 DEF MmInv

(* The pages of a chunk that left the list go back to the allocator.       *)
LEMMA FreeInductive ==
  ASSUME MmInv, NEW t \in MmThreads, FreeChunk(t)
  PROVE  MmInv'
<1>1. MmTypeOK /\ ListApart /\ OwnApart /\ MmUnlisted /\ MmListed /\ ThreadsApart /\ MappingsKept
  BY DEF MmInv, ChunksApart
<1> DEFINE c == mmt[t].mc
<1>2. /\ mmt[t].pc = "free" /\ mmFree' = mmFree \cup ChunkPages(c)
      /\ mmt' = [mmt EXCEPT ![t] = MmIdle] /\ UNCHANGED <<mmc_list, mmUser>>
  BY DEF FreeChunk
<1>3. mmt'[t] = MmIdle /\ \A u \in MmThreads : u # t => mmt'[u] = mmt[u]
  BY <1>1, <1>2 DEF MmTypeOK
<1>4. /\ ChunkPages(c) \subseteq MmAll /\ ChunkPages(c) \cap mmUser = {}
      /\ \A i \in DOMAIN mmc_list : ChunkPages(mmc_list[i]) \cap ChunkPages(c) = {}
      /\ \A u \in MmThreads : u # t => ChunkPages(mmt[u].mc) \cap ChunkPages(c) = {}
  BY <1>1, <1>2 DEF OwnApart, MmUnlisted, ThreadsApart
<1>5. MmTypeOK'
  BY <1>1, <1>2, <1>4, MmFields DEF MmTypeOK
<1>6. ListApart'
  BY <1>1, <1>2, <1>4 DEF ListApart
<1>7. \A p \in MmAll : p \in mmFree' \/ InList(p) \/ \E u \in MmThreads : p \in ChunkPages(mmt'[u].mc)
  BY <1>1, <1>2, <1>3, SMTT(30) DEF MappingsKept
<1> HIDE DEF c
<1>8. ChunksApart'
  <2>1. OwnApart'
    BY <1>1, <1>2, <1>3, <1>4, MmFields DEF OwnApart
  <2>2. MmUnlisted'
    BY <1>1, <1>2, <1>3, <1>4, MmFields DEF MmUnlisted
  <2>3. MmListed'
    BY <1>1, <1>2, <1>3, <1>4, MmFields DEF MmListed
  <2>4. ThreadsApart'
    BY <1>1, <1>2, <1>3, <1>4, MmFields, Zenon DEF ThreadsApart
  <2> QED
    BY <2>1, <2>2, <2>3, <2>4 DEF ChunksApart
<1>9. MappingsKept'
  BY <1>1, <1>2, <1>4, <1>7 DEF MappingsKept, InList
<1> QED
  BY <1>5, <1>6, <1>8, <1>9 DEF MmInv

(* Part of a chunk is unmapped: its count goes down with its pages.        *)
LEMMA LoweredInductive ==
  ASSUME PageFacts, MmInv, NEW t \in MmThreads, mmt[t].pc = "idle", NEW i \in DOMAIN mmc_list, NEW P, NEW n \in Nat,
         P \subseteq ChunkPages(mmc_list[i]) \cap mmUser, P # {}, Cardinality(P) = n,
         mmc_list' = [mmc_list EXCEPT ![i].left = @ - n], mmt' = [mmt EXCEPT ![t] = MmIdle],
         mmUser' = mmUser \ P, UNCHANGED mmFree
  PROVE  MmInv'
<1>1. MmTypeOK /\ ListApart /\ OwnApart /\ MmUnlisted /\ MmListed /\ ThreadsApart /\ MappingsKept
  BY DEF MmInv, ChunksApart
<1> DEFINE c == mmc_list[i]
           d == [c EXCEPT !.left = @ - n]
           M == ChunkPages(c) \cap mmUser
<1>2. c \in MmChunk /\ IsFiniteSet(ChunkPages(c))
  BY <1>1, MmFields, ChunkFacts
<1>3. IsFiniteSet(M) /\ Cardinality(M) \in Nat /\ Cardinality(M) # 0 /\ n <= Cardinality(M)
  <2>1. IsFiniteSet(M)
    BY <1>2, PageParts, Zenon
  <2>2. P \in SUBSET M /\ M # {}
    OBVIOUS
  <2> QED
    BY <2>1, <2>2, PageSubset, PageType, PageEmpty
<1>4. c.left = Cardinality(M)
  BY <1>1, <1>3, KeptParts DEF CountRight
<1>5. d \in MmChunk /\ d.start = c.start /\ d.size = c.size /\ d.left = Cardinality(M) - n
  BY <1>2, <1>3, <1>4 DEF MmChunk
<1>6. ChunkPages(d) = ChunkPages(c)
  BY <1>5 DEF ChunkPages
<1>7. CountRight(d, mmUser \ P)
  <2>1. ChunkPages(c) \cap (mmUser \ P) = M \ P /\ M \cap P = P
    OBVIOUS
  <2>2. Cardinality(M \ P) = Cardinality(M) - Cardinality(P)
    BY <1>3, <2>1, PageParts, Zenon
  <2>3. Cardinality(ChunkPages(d) \cap (mmUser \ P)) = d.left
    <3> HIDE DEF d, M
    <3> QED
      BY <1>5, <1>6, <2>1, <2>2, Zenon
  <2> QED
    BY <2>3, Zenon DEF CountRight
<1> HIDE DEF d
<1>8. /\ mmc_list' \in Seq(MmChunk) /\ DOMAIN mmc_list' = DOMAIN mmc_list
      /\ mmc_list'[i] = d /\ \A j \in DOMAIN mmc_list : j # i => mmc_list'[j] = mmc_list[j]
  <2>1. mmc_list' = [mmc_list EXCEPT ![i] = d]
    BY DEF d
  <2>2. mmc_list \in Seq(MmChunk) /\ i \in 1..Len(mmc_list)
    BY <1>1, MmFields DEF MmTypeOK
  <2>3. [mmc_list EXCEPT ![i] = d] \in Seq(MmChunk)
    BY <1>5, <2>2
  <2>4. mmc_list \in [1..Len(mmc_list) -> MmChunk] /\ DOMAIN mmc_list = 1..Len(mmc_list)
    BY <2>2
  <2> QED
    BY <2>1, <2>2, <2>3, <2>4
<1>9. \A j \in DOMAIN mmc_list : ChunkPages(mmc_list'[j]) = ChunkPages(mmc_list[j])
  BY <1>6, <1>8, SMTT(30)
<1>10. /\ mmt'[t] = MmIdle /\ \A u \in MmThreads : u # t => mmt'[u] = mmt[u]
       /\ ChunkPages(mmt[t].mc) = {}
  BY <1>1 DEF MmTypeOK, OwnApart, ChunkPages
<1>11. MmTypeOK'
  BY <1>1, <1>8, MmFields DEF MmTypeOK
<1>12. ListApart'
  BY <1>1, <1>8, <1>9, Zenon DEF ListApart
<1>13. \A u \in MmThreads : mmt[u].mc # c
  BY <1>1 DEF OwnApart
<1> HIDE DEF c, M
<1>14. c = mmc_list[i]
  BY DEF c
<1>15. ChunksApart'
  <2>1. OwnApart'
    BY <1>1, <1>8, <1>9, <1>10, <1>13, <1>14, MmFields, SMTT(30) DEF OwnApart
  <2>2. MmUnlisted'
    BY <1>1, <1>8, <1>9, <1>10, <1>13, <1>14, MmFields, SMTT(30) DEF MmUnlisted
  <2>3. MmListed'
    BY <1>1, <1>8, <1>9, <1>10, <1>13, <1>14, MmFields, SMTT(30) DEF MmListed
  <2>4. ThreadsApart'
    BY <1>1, <1>8, <1>9, <1>10, <1>13, <1>14, MmFields, ZenonT(30) DEF ThreadsApart
  <2> QED
    BY <2>1, <2>2, <2>3, <2>4 DEF ChunksApart
<1>16. MappingsKept'
  <2>1. \A p : InList(p)' <=> InList(p)
    BY <1>8, <1>9, Zenon DEF InList
  <2>2. \A j \in DOMAIN mmc_list' : CountRight(mmc_list'[j], mmUser')
    <3> SUFFICES ASSUME NEW j \in DOMAIN mmc_list, j # i
                 PROVE  CountRight(mmc_list[j], mmUser \ P)
      BY <1>7, <1>8, Zenon
    <3>1. ChunkPages(mmc_list[j]) \cap ChunkPages(mmc_list[i]) = {}
      BY <1>1 DEF MappingsKept
    <3>2. ChunkPages(mmc_list[j]) \cap (mmUser \ P) = ChunkPages(mmc_list[j]) \cap mmUser
      BY <3>1
    <3> QED
      BY <1>1, <3>2, KeptParts DEF CountRight
  <2>3. \A p \in mmUser' : p \notin mmFree' /\ InList(p)'
    BY <1>1, <2>1 DEF MappingsKept
  <2>4. \A p \in MmAll : p \in mmFree' \/ InList(p)' \/ \E u \in MmThreads : p \in ChunkPages(mmt'[u].mc)
    BY <1>1, <1>10, <2>1 DEF MappingsKept
  <2>5. \A j, k \in DOMAIN mmc_list' : j # k => ChunkPages(mmc_list'[j]) \cap ChunkPages(mmc_list'[k]) = {}
    BY <1>1, <1>8, <1>9, ZenonT(30) DEF MappingsKept
  <2> QED
    BY <2>2, <2>3, <2>4, <2>5, Zenon DEF MappingsKept, CountRight, InList
<1> QED
  BY <1>11, <1>12, <1>15, <1>16 DEF MmInv

(* A chunk with nothing left leaves the list: none of it is mapped then,   *)
(* and no other thread is about to map it.                                 *)
LEMMA RemovedInductive ==
  ASSUME MmInv, NEW t \in MmThreads, mmt[t].pc \in {"idle", "file"}, NEW i \in DOMAIN mmc_list, NEW P,
         P \subseteq ChunkPages(mmc_list[i]), ChunkPages(mmc_list[i]) \cap (mmUser \ P) = {},
         \A u \in MmThreads : u # t => mmt[u].mc.size = 0 \/ mmt[u].mc # mmc_list[i],
         mmc_list' = Without(mmc_list, i), mmUser' = mmUser \ P, UNCHANGED mmFree,
         mmt' = [mmt EXCEPT ![t] = [MmIdle EXCEPT !.pc = "free", !.mc = mmc_list[i]]]
  PROVE  MmInv'
<1>1. MmTypeOK /\ ListApart /\ OwnApart /\ MmUnlisted /\ MmListed /\ ThreadsApart /\ MappingsKept
  BY DEF MmInv, ChunksApart
<1> DEFINE c == mmc_list[i]
           From(j) == IF j < i THEN j ELSE j + 1
           To(j) == IF j < i THEN j ELSE j - 1
<1>2. /\ mmc_list' \in Seq(MmChunk) /\ DOMAIN mmc_list' = 1..(Len(mmc_list) - 1)
      /\ \A j \in DOMAIN mmc_list' : mmc_list'[j] = mmc_list[From(j)]
  <2>1. mmc_list \in Seq(MmChunk)
    BY <1>1 DEF MmTypeOK
  <2>2. /\ Without(mmc_list, i) \in Seq(MmChunk)
        /\ DOMAIN Without(mmc_list, i) = 1..(Len(mmc_list) - 1)
        /\ \A j \in 1..(Len(mmc_list) - 1) : Without(mmc_list, i)[j] = mmc_list[IF j < i THEN j ELSE j + 1]
    BY <2>1, Removal
  <2> QED
    BY <2>2
<1>3. /\ \A j \in DOMAIN mmc_list' : From(j) \in DOMAIN mmc_list /\ From(j) # i
      /\ \A j, k \in DOMAIN mmc_list' : j # k => From(j) # From(k)
      /\ \A j \in DOMAIN mmc_list : j # i => To(j) \in DOMAIN mmc_list' /\ From(To(j)) = j
  BY <1>1, <1>2, MmFields, SMTT(30)
<1> HIDE DEF From, To
<1>4. /\ c \in MmChunk /\ ChunkPages(c) \subseteq MmAll /\ ChunkPages(c) \cap mmFree = {}
      /\ ChunkPages(c) \cap mmUser' = {} /\ P \subseteq ChunkPages(c)
  BY <1>1, MmFields DEF ListApart
<1>5. /\ mmt'[t].pc = "free" /\ mmt'[t].mc = c /\ \A u \in MmThreads : u # t => mmt'[u] = mmt[u]
      /\ MmTypeOK'
  BY <1>1, <1>2, <1>4, MmFields, Zenon DEF MmTypeOK, MmIdle
<1>6. \A j \in DOMAIN mmc_list : j # i => ChunkPages(mmc_list[j]) \cap ChunkPages(c) = {}
  BY <1>1 DEF MappingsKept
<1>7. \A u \in MmThreads : u # t => ChunkPages(mmt[u].mc) \cap ChunkPages(c) = {}
  <2> SUFFICES ASSUME NEW u \in MmThreads, u # t
               PROVE  ChunkPages(mmt[u].mc) \cap ChunkPages(c) = {}
    OBVIOUS
  <2>1. CASE mmt[u].mc.size = 0
    BY <2>1 DEF ChunkPages
  <2>2. CASE mmt[u].pc \in {"insert", "free"}
    BY <1>1, <2>2 DEF MmUnlisted
  <2>3. CASE mmt[u].pc \in {"anon", "badfile", "file"} /\ mmt[u].mc.size # 0
    <3>1. PICK k \in DOMAIN mmc_list : mmc_list[k] = mmt[u].mc
      BY <1>1, <2>3 DEF MmListed
    <3> QED
      BY <1>6, <2>3, <3>1
  <2> QED
    BY <1>1, <2>1, <2>2, <2>3, SMTT(30) DEF MmTypeOK, OwnApart
<1>8. \A j \in DOMAIN mmc_list : j # i => \E k \in DOMAIN mmc_list' : mmc_list'[k] = mmc_list[j]
  BY <1>2, <1>3
<1>9. ListApart'
  BY <1>1, <1>2, <1>3 DEF ListApart
<1>10. c = mmc_list[i]
  OBVIOUS
<1> HIDE DEF c
<1>11. ChunksApart'
  <2>1. OwnApart'
    BY <1>1, <1>4, <1>5 DEF OwnApart
  <2>2. MmUnlisted'
    BY <1>1, <1>2, <1>3, <1>5, <1>6, SMTT(30) DEF MmUnlisted
  <2>3. MmListed'
    BY <1>1, <1>5, <1>8, <1>10, SMTT(30) DEF MmListed
  <2>4. ThreadsApart'
    BY <1>1, <1>5, <1>7 DEF ThreadsApart
  <2> QED
    BY <2>1, <2>2, <2>3, <2>4, SMTT(30) DEF ChunksApart
<1>12. MappingsKept'
  <2>1. \A p : InList(p) => InList(p)' \/ p \in ChunkPages(c)
    BY <1>8, <1>10 DEF InList
  <2>2. \A p \in ChunkPages(mmt[t].mc) : InList(p)
    BY <1>1 DEF MmListed, OwnApart, InList, ChunkPages
  <2>3. \A p \in mmUser' : p \notin mmFree' /\ InList(p)'
    BY <1>1, <1>4, <2>1 DEF MappingsKept
  <2>4. \A p \in MmAll : p \in mmFree' \/ InList(p)' \/ \E u \in MmThreads : p \in ChunkPages(mmt'[u].mc)
    BY <1>1, <1>5, <2>1, <2>2 DEF MappingsKept
  <2>5. \A j, k \in DOMAIN mmc_list' : j # k => ChunkPages(mmc_list'[j]) \cap ChunkPages(mmc_list'[k]) = {}
    BY <1>1, <1>2, <1>3 DEF MappingsKept
  <2>6. \A j \in DOMAIN mmc_list' : CountRight(mmc_list'[j], mmUser')
    <3> SUFFICES ASSUME NEW j \in DOMAIN mmc_list, j # i
                 PROVE  CountRight(mmc_list[j], mmUser \ P)
      BY <1>2, <1>3, Zenon
    <3>1. ChunkPages(mmc_list[j]) \cap (mmUser \ P) = ChunkPages(mmc_list[j]) \cap mmUser
      BY <1>4, <1>6
    <3> QED
      BY <1>1, <3>1, KeptParts DEF CountRight
  <2> QED
    BY <2>3, <2>4, <2>5, <2>6 DEF MappingsKept, CountRight, InList
<1> QED
  BY <1>5, <1>9, <1>11, <1>12 DEF MmInv

(* mmapmem_free looks at one chunk around the pages, when there is one.    *)
Emptied(t, n, i) ==
  /\ mmc_list[i].left = n /\ mmc_list' = Without(mmc_list, i)
  /\ mmt' = [mmt EXCEPT ![t] = [MmIdle EXCEPT !.pc = "free", !.mc = mmc_list[i]]]
Lowered(t, n, i) ==
  /\ mmc_list[i].left # n /\ mmc_list' = [mmc_list EXCEPT ![i].left = @ - n]
  /\ mmt' = [mmt EXCEPT ![t] = MmIdle]
LEMMA FreeCases ==
  ASSUME PageFacts, MmInv, NEW t \in MmThreads, NEW a, NEW n, mmapmem_free(t, a, n)
  PROVE  \/ Around(a, n) = {} /\ mmt' = [mmt EXCEPT ![t] = MmIdle] /\ UNCHANGED mmc_list
         \/ \E i \in Around(a, n) : Emptied(t, n, i) \/ Lowered(t, n, i)
<1>1. CASE Around(a, n) = {}
  BY <1>1 DEF mmapmem_free
<1>2. CASE Around(a, n) # {}
  <2> DEFINE i == CHOOSE j \in Around(a, n) : \A k \in Around(a, n) : j <= k
  <2>1. Around(a, n) \subseteq Nat
    BY MmFields DEF Around, MmInv
  <2>2. i \in Around(a, n)
    BY <1>2, <2>1, PageLeast
  <2>3. Emptied(t, n, i) \/ Lowered(t, n, i)
    BY <1>2, SMTT(30) DEF mmapmem_free, NoneLeft, Emptied, Lowered
  <2> HIDE DEF i
  <2> QED
    BY <2>2, <2>3, Zenon
<1> QED
  BY <1>1, <1>2, Zenon

(* Nothing is unmapped by a call for no pages: a chunk that goes is empty. *)
LEMMA NoPagesInductive ==
  ASSUME PageFacts, MmInv, NEW t \in MmThreads, NEW a, mmt[t].pc \in {"idle", "file"},
         mmapmem_free(t, a, 0), UNCHANGED <<mmFree, mmUser>>
  PROVE  MmInv'
<1>1. MmTypeOK /\ ListApart /\ OwnApart /\ MmUnlisted /\ MmListed /\ ThreadsApart /\ MappingsKept
  BY DEF MmInv, ChunksApart
<1>2. CASE mmt' = [mmt EXCEPT ![t] = MmIdle] /\ UNCHANGED mmc_list
  BY <1>2, DropInductive, Zenon
<1>3. ASSUME NEW i \in Around(a, 0), mmc_list[i].left # 0, mmc_list' = [mmc_list EXCEPT ![i].left = @ - 0],
             mmt' = [mmt EXCEPT ![t] = MmIdle]
      PROVE  MmInv'
  <2>1. i \in DOMAIN mmc_list
    BY DEF Around
  <2>2. mmc_list[i] \in MmChunk /\ mmc_list \in Seq(MmChunk)
    BY <1>1, <2>1, MmFields DEF MmTypeOK
  <2>3. [mmc_list[i] EXCEPT !.left = @ - 0] = mmc_list[i]
    <3>1. mmc_list[i].left - 0 = mmc_list[i].left
      BY <2>2 DEF MmChunk
    <3>2. [mmc_list[i] EXCEPT !.left = mmc_list[i].left] = mmc_list[i]
      BY <2>2, Zenon DEF MmChunk
    <3> QED
      BY <3>1, <3>2
  <2>4. mmc_list' = mmc_list
    BY <1>3, <2>1, <2>2, <2>3
  <2> QED
    BY <1>3, <2>4, DropInductive, Zenon
<1>4. ASSUME NEW i \in Around(a, 0), mmc_list[i].left = 0, mmc_list' = Without(mmc_list, i),
             mmt' = [mmt EXCEPT ![t] = [MmIdle EXCEPT !.pc = "free", !.mc = mmc_list[i]]]
      PROVE  MmInv'
  <2>1. i \in DOMAIN mmc_list
    BY DEF Around
  <2>2. IsFiniteSet(ChunkPages(mmc_list[i]) \cap mmUser)
    BY <1>1, <2>1, MmFields, ChunkFacts, PageParts, Zenon
  <2>3. Cardinality(ChunkPages(mmc_list[i]) \cap mmUser) = 0
    BY <1>1, <1>4, <2>1, KeptParts DEF CountRight
  <2>4. ChunkPages(mmc_list[i]) \cap (mmUser \ {}) = {} /\ mmUser' = mmUser \ {}
    BY <2>2, <2>3, PageEmpty
  <2>5. \A u \in MmThreads : u # t => mmt[u].mc.size = 0 \/ mmt[u].mc # mmc_list[i] \/ mmt[u].pc = "free"
    BY <1>1, <1>4 DEF OwnApart
  <2>6. \A u \in MmThreads : mmt[u].pc = "free" /\ mmt[u].mc = mmc_list[i] => mmt[u].mc.size = 0
    <3> SUFFICES ASSUME NEW u \in MmThreads, mmt[u].pc = "free", mmt[u].mc = mmc_list[i]
                 PROVE  mmt[u].mc.size = 0
      OBVIOUS
    <3>1. ChunkPages(mmt[u].mc) = {}
      BY <1>1, <2>1 DEF MmUnlisted
    <3>2. mmt[u].mc \in MmChunk
      BY <1>1, MmFields
    <3>3. mmt[u].mc.start \in ChunkPages(mmt[u].mc) \/ mmt[u].mc.size = 0
      BY <3>2, ChunkFacts DEF MmChunk
    <3> QED
      BY <3>1, <3>3
  <2>7. \A u \in MmThreads : u # t => mmt[u].mc.size = 0 \/ mmt[u].mc # mmc_list[i]
    BY <2>5, <2>6
  <2>8. {} \subseteq ChunkPages(mmc_list[i])
    OBVIOUS
  <2> QED
    BY <1>4, <2>1, <2>4, <2>7, <2>8, RemovedInductive, ZenonT(30)
<1> QED
  <2>1. \A i \in Around(a, 0) : (~ Emptied(t, 0, i) /\ ~ Lowered(t, 0, i)) \/ MmInv'
    BY <1>3, <1>4, Zenon DEF Emptied, Lowered
  <2> QED
    BY FreeCases, <1>2, <2>1, Zenon

(* A chunk around pages has them.                                          *)
LEMMA AroundHas ==
  ASSUME PageFacts, MmTypeOK, NEW a \in Nat, NEW n \in Nat, n # 0, NEW i \in Around(a, n)
  PROVE  /\ i \in DOMAIN mmc_list /\ PagesOf(a, n) \subseteq ChunkPages(mmc_list[i])
         /\ IsFiniteSet(PagesOf(a, n)) /\ Cardinality(PagesOf(a, n)) = n /\ a \in PagesOf(a, n)
<1> DEFINE c == [start |-> a, size |-> n, left |-> n]
<1>1. c \in MmChunk /\ c.size = n /\ ChunkPages(c) = PagesOf(a, n)
  BY DEF MmChunk, ChunkPages
<1>2. IsFiniteSet(PagesOf(a, n)) /\ Cardinality(PagesOf(a, n)) = n
  BY <1>1, ChunkFacts
<1>3. i \in DOMAIN mmc_list /\ mmc_list[i].start <= a /\ mmc_list[i].start + mmc_list[i].size >= a + n
  BY DEF Around
<1>4. mmc_list[i] \in MmChunk
  BY <1>3, MmFields
<1>5. ChunkPages(mmc_list[i]) = mmc_list[i].start..(mmc_list[i].start + mmc_list[i].size - 1)
  BY <1>4, ChunkFacts
<1>6. PagesOf(a, n) \subseteq ChunkPages(mmc_list[i])
  BY <1>3, <1>4, <1>5 DEF PagesOf, MmChunk
<1> QED
  BY <1>2, <1>3, <1>6 DEF PagesOf

(* A file that cannot be read: its chunk leaves the list.                  *)
LEMMA FileFailsInductive ==
  ASSUME PageFacts, MmInv, NEW t \in MmThreads, mmt[t].pc = "file",
         mmapmem_free(t, mmt[t].mc.start, mmt[t].mc.size), UNCHANGED <<mmFree, mmUser>>
  PROVE  MmInv'
<1>1. MmTypeOK /\ ListApart /\ OwnApart /\ MmUnlisted /\ MmListed /\ ThreadsApart /\ MappingsKept
  BY DEF MmInv, ChunksApart
<1> DEFINE c == mmt[t].mc
<1>2. c \in MmChunk /\ c.start \in Nat /\ c.size \in Nat /\ c.left = c.size
  BY <1>1, MmFields DEF OwnApart, MmChunk
<1>3. CASE c.size = 0
  BY <1>3, NoPagesInductive
<1>4. CASE c.size # 0
  <2>1. PICK k \in DOMAIN mmc_list : mmc_list[k] = c
    BY <1>1, <1>4 DEF MmListed
  <2>2. k \in Around(c.start, c.size)
    BY <1>2, <2>1 DEF Around
  <2>3. \A i \in Around(c.start, c.size) : i = k
    <3> SUFFICES ASSUME NEW i \in Around(c.start, c.size)
                 PROVE  i = k
      OBVIOUS
    <3>1. i \in DOMAIN mmc_list /\ c.start \in ChunkPages(mmc_list[i])
      BY <1>1, <1>2, <1>4, AroundHas, SMTT(30)
    <3>2. c.start \in ChunkPages(mmc_list[k])
      BY <1>1, <1>2, <1>4, <2>2, AroundHas
    <3> QED
      BY <1>1, <3>1, <3>2 DEF MappingsKept
  <2>4. /\ mmc_list' = Without(mmc_list, k)
        /\ mmt' = [mmt EXCEPT ![t] = [MmIdle EXCEPT !.pc = "free", !.mc = mmc_list[k]]]
    <3>1. Around(c.start, c.size) # {} /\ mmapmem_free(t, c.start, c.size)
      BY <2>2
    <3> HIDE DEF c
    <3>2. \E i \in Around(c.start, c.size) : Emptied(t, c.size, i) \/ Lowered(t, c.size, i)
      BY <3>1, FreeCases, Zenon
    <3>3. Emptied(t, c.size, k)
      BY <1>2, <2>1, <2>3, <3>2, SMTT(30) DEF Lowered
    <3> QED
      BY <3>3 DEF Emptied
  <2>5. c.start \in ChunkPages(c) /\ ChunkPages(c) \cap mmUser = {}
    BY <1>1, <1>2, <1>4, <2>1, <2>2, AroundHas, SMTT(30) DEF OwnApart
  <2>6. \A u \in MmThreads : u # t => mmt[u].mc.size = 0 \/ mmt[u].mc # mmc_list[k]
    BY <1>1, <2>1, <2>5 DEF ThreadsApart
  <2>7. /\ {} \subseteq ChunkPages(mmc_list[k]) /\ ChunkPages(mmc_list[k]) \cap (mmUser \ {}) = {}
        /\ mmUser' = mmUser \ {} /\ mmt[t].pc \in {"idle", "file"}
    BY <2>1, <2>5
  <2> QED
    BY <2>4, <2>6, <2>7, RemovedInductive, ZenonT(30)
<1> QED
  BY <1>3, <1>4

(* munmap of pages that are mapped.                                        *)
LEMMA UnmapInductive ==
  ASSUME PageFacts, MmInv, NEW t \in MmThreads, sys_munmap(t)
  PROVE  MmInv'
<1>1. MmTypeOK /\ ListApart /\ OwnApart /\ MmUnlisted /\ MmListed /\ ThreadsApart /\ MappingsKept
  BY DEF MmInv, ChunksApart
<1>2. mmt[t].pc = "idle" /\ UNCHANGED mmFree
  BY DEF sys_munmap
<1>3. PICK a \in MmAll, n \in 0..MmMaxLen :
        /\ n > 0 => PagesOf(a, n) \subseteq mmUser
        /\ mmUser' = mmUser \ (IF Around(a, n) = {} \/ n = 0 THEN {} ELSE PagesOf(a, n))
        /\ mmapmem_free(t, a, n)
  BY DEF sys_munmap
<1>4. a \in Nat /\ n \in Nat
  BY MmAssumption DEF MmAll, PagesOf
<1>5. CASE n = 0
  <2>1. mmUser' = mmUser /\ mmapmem_free(t, a, 0)
    BY <1>3, <1>5
  <2> QED
    BY <1>2, <2>1, NoPagesInductive
<1>6. CASE n # 0 /\ Around(a, n) = {}
  <2>1. mmUser' = mmUser /\ mmt' = [mmt EXCEPT ![t] = MmIdle] /\ UNCHANGED mmc_list
    BY <1>3, <1>6, FreeCases, Zenon
  <2> QED
    BY <1>2, <2>1, DropInductive, Zenon
<1>7. ASSUME n # 0, NEW i \in Around(a, n)
      PROVE  MmInv'
  <2> DEFINE P == PagesOf(a, n)
             M == ChunkPages(mmc_list[i]) \cap mmUser
  <2>1. /\ i \in DOMAIN mmc_list /\ P \subseteq ChunkPages(mmc_list[i])
        /\ IsFiniteSet(P) /\ Cardinality(P) = n /\ a \in P
    BY <1>1, <1>4, <1>7, AroundHas, SMTT(30)
  <2>2. P \subseteq mmUser /\ mmUser' = mmUser \ P
    BY <1>3, <1>4, <1>7
  <2> HIDE DEF P
  <2>3. \A j \in Around(a, n) : j = i
    <3> SUFFICES ASSUME NEW j \in Around(a, n)
                 PROVE  j = i
      OBVIOUS
    <3>1. j \in DOMAIN mmc_list /\ P \subseteq ChunkPages(mmc_list[j])
      BY <1>1, <1>4, <1>7, AroundHas DEF P
    <3> QED
      BY <1>1, <2>1, <3>1 DEF MappingsKept
  <2>4. CASE Lowered(t, n, i)
    BY <1>2, <1>4, <2>1, <2>2, <2>4, LoweredInductive, Zenon DEF Lowered
  <2>5. CASE Emptied(t, n, i)
    <3>1. IsFiniteSet(M)
      BY <1>1, <2>1, MmFields, ChunkFacts, PageParts, Zenon
    <3>2. P \in SUBSET M /\ M # {}
      BY <2>1, <2>2
    <3>3. Cardinality(M) = n
      BY <1>1, <2>1, <2>5, <3>1, <3>2, KeptParts, PageEmpty, SMTT(30) DEF CountRight, Emptied
    <3>4. M = P
      BY <2>1, <3>1, <3>2, <3>3, PageSubset
    <3>5. ChunkPages(mmc_list[i]) \cap (mmUser \ P) = {}
      BY <3>4
    <3>6. \A u \in MmThreads : u # t => mmt[u].mc.size = 0 \/ mmt[u].mc # mmc_list[i]
      BY <1>1, <2>1, <2>2 DEF OwnApart
    <3>7. mmt[t].pc \in {"idle", "file"}
      BY <1>2
    <3> QED
      BY <1>2, <2>1, <2>2, <2>5, <3>5, <3>6, <3>7, RemovedInductive, Zenon DEF Emptied
  <2> QED
    BY <1>3, <1>7, <2>3, <2>4, <2>5, FreeCases, Zenon
<1> QED
  BY <1>5, <1>6, <1>7

(* Every step of a thread that maps or unmaps keeps MmInv.                 *)
LEMMA MmStep ==
  ASSUME PageFacts
  PROVE  MmInv /\ [MmNext]_mmVars => MmInv'
<1> SUFFICES ASSUME MmInv, [MmNext]_mmVars
             PROVE  MmInv'
  OBVIOUS
<1>1. CASE UNCHANGED mmVars
  <2>1. UNCHANGED <<mmc_list, mmFree, mmUser, mmt>>
    BY <1>1 DEF mmVars
  <2> QED
    BY <2>1, Zenon DEF MmInv, MmTypeOK, ListApart, ChunksApart, OwnApart, MmUnlisted, MmListed, ThreadsApart, MappingsKept, InList
<1>2. ASSUME NEW t \in MmThreads, mmap(t) \/ munmap(t)
      PROVE  MmInv'
  <2>1. CASE MmapAnon(t)
    BY <2>1, MappedInductive, Zenon DEF MmapAnon
  <2>2. CASE MmapBadFile(t)
    BY <2>2, DropInductive, Zenon DEF MmapBadFile
  <2>3. CASE MmapFile(t)
    BY <2>3, MappedInductive, FileFailsInductive DEF MmapFile
  <2> QED
    BY <1>2, <2>1, <2>2, <2>3, MmapInductive, AllocInductive, UnmapInductive, FreeInductive, SMTT(30) DEF mmap, munmap
<1> QED
  BY <1>1, <1>2 DEF MmNext
=============================================================================
