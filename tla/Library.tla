------------------------------- MODULE Library --------------------------------
(***************************************************************************)
(* The lists of include/bmk-core/queue.h, pointer by pointer, beside the   *)
(* sequences they stand for.  A cell is a word that points to an element:  *)
(* the "first" of a head or the "next" of an element.  LIST and TAILQ keep *)
(* in each element the address of the cell that points to it, SIMPLEQ,     *)
(* STAILQ and TAILQ in the head the address of the cell at the end.        *)
(* LIST_MOVE, which nothing uses, is left out.                             *)
(***************************************************************************)
EXTENDS Sequences, SequencesExt, Integers, FiniteSets, FiniteSetsExt

CONSTANTS LmHeads, LmElements

LmNULL == "null"
HeadOf(h) == <<"first", h>>
NextOf(e) == <<"next", e>>
LmCells == {HeadOf(h) : h \in LmHeads} \cup {NextOf(e) : e \in LmElements}

VARIABLES
  lmKind,     \* the macros used
  lmMem,      \* per cell: the element it points to
  lmPrev,     \* per element: le_prev, tqe_prev
  lmLast,     \* per head: sqh_last, tqh_last, stqh_last
  lmSeq       \* per head: the sequence it stands for

lmVars == <<lmKind, lmMem, lmPrev, lmLast, lmSeq>>

(* The INIT macros.                                                        *)
LmInit ==
  /\ lmKind \in {"SLIST", "LIST", "SIMPLEQ", "STAILQ", "TAILQ"}
  /\ lmMem = [c \in LmCells |-> LmNULL]
  /\ lmPrev = [e \in LmElements |-> NextOf(e)]
  /\ lmLast = [h \in LmHeads |-> HeadOf(h)]
  /\ lmSeq = [h \in LmHeads |-> <<>>]

-----------------------------------------------------------------------------
(* Stores into memory: a pointer of an element that may be NULL, the tail  *)
(* when the end has moved.                                                 *)
SetPrev(f, e, c) == IF e = LmNULL THEN f ELSE [f EXCEPT ![e] = c]
SetLast(h, moved, c) == IF moved THEN [lmLast EXCEPT ![h] = c] ELSE lmLast
Store(m, p, l) == lmMem' = m /\ lmPrev' = p /\ lmLast' = l

(* The cell before e that the loops of the REMOVE macros find.             *)
CellTo(h, e) ==
  LET c[i \in 0..Cardinality(LmElements)] == IF i = 0 THEN HeadOf(h) ELSE NextOf(lmMem[c[i - 1]])
  IN c[CHOOSE i \in 0..Cardinality(LmElements) : lmMem[c[i]] = e]

SLIST_INSERT_HEAD(h, e) ==
  Store([lmMem EXCEPT ![NextOf(e)] = lmMem[HeadOf(h)], ![HeadOf(h)] = e], lmPrev, lmLast)
SLIST_INSERT_AFTER(x, e) ==
  Store([lmMem EXCEPT ![NextOf(e)] = lmMem[NextOf(x)], ![NextOf(x)] = e], lmPrev, lmLast)
SLIST_REMOVE_HEAD(h) ==
  Store([lmMem EXCEPT ![HeadOf(h)] = lmMem[NextOf(lmMem[HeadOf(h)])]], lmPrev, lmLast)
SLIST_REMOVE_AFTER(x) ==
  Store([lmMem EXCEPT ![NextOf(x)] = lmMem[NextOf(lmMem[NextOf(x)])]], lmPrev, lmLast)
SLIST_REMOVE(h, e) == Store([lmMem EXCEPT ![CellTo(h, e)] = lmMem[NextOf(e)]], lmPrev, lmLast)

LIST_INSERT_AFTER(x, e) ==
  Store([lmMem EXCEPT ![NextOf(e)] = lmMem[NextOf(x)], ![NextOf(x)] = e],
        [SetPrev(lmPrev, lmMem[NextOf(x)], NextOf(e)) EXCEPT ![e] = NextOf(x)], lmLast)
LIST_INSERT_BEFORE(x, e) ==
  Store([lmMem EXCEPT ![NextOf(e)] = x, ![lmPrev[x]] = e],
        [lmPrev EXCEPT ![e] = lmPrev[x], ![x] = NextOf(e)], lmLast)
LIST_INSERT_HEAD(h, e) ==
  Store([lmMem EXCEPT ![NextOf(e)] = lmMem[HeadOf(h)], ![HeadOf(h)] = e],
        [SetPrev(lmPrev, lmMem[HeadOf(h)], NextOf(e)) EXCEPT ![e] = HeadOf(h)], lmLast)
LIST_REMOVE(e) ==
  Store([lmMem EXCEPT ![lmPrev[e]] = lmMem[NextOf(e)]],
        SetPrev(lmPrev, lmMem[NextOf(e)], lmPrev[e]), lmLast)
LIST_REPLACE(e, n) ==
  Store([lmMem EXCEPT ![NextOf(n)] = lmMem[NextOf(e)], ![lmPrev[e]] = n],
        [SetPrev(lmPrev, lmMem[NextOf(e)], NextOf(n)) EXCEPT ![n] = lmPrev[e]], lmLast)

SIMPLEQ_INSERT_HEAD(h, e) ==
  Store([lmMem EXCEPT ![NextOf(e)] = lmMem[HeadOf(h)], ![HeadOf(h)] = e], lmPrev,
        SetLast(h, lmMem[HeadOf(h)] = LmNULL, NextOf(e)))
SIMPLEQ_INSERT_TAIL(h, e) ==
  Store([lmMem EXCEPT ![NextOf(e)] = LmNULL, ![lmLast[h]] = e], lmPrev, SetLast(h, TRUE, NextOf(e)))
SIMPLEQ_INSERT_AFTER(h, x, e) ==
  Store([lmMem EXCEPT ![NextOf(e)] = lmMem[NextOf(x)], ![NextOf(x)] = e], lmPrev,
        SetLast(h, lmMem[NextOf(x)] = LmNULL, NextOf(e)))
(* The three ways to remove e: the cell before it takes its place.         *)
UnlinkAt(h, c, e) ==
  Store([lmMem EXCEPT ![c] = lmMem[NextOf(e)]], lmPrev, SetLast(h, lmMem[NextOf(e)] = LmNULL, c))
SIMPLEQ_REMOVE_HEAD(h) == UnlinkAt(h, HeadOf(h), lmMem[HeadOf(h)])
SIMPLEQ_REMOVE_AFTER(h, x) == UnlinkAt(h, NextOf(x), lmMem[NextOf(x)])
SIMPLEQ_REMOVE(h, e) == UnlinkAt(h, CellTo(h, e), e)
SIMPLEQ_CONCAT(h, g) ==
  IF lmMem[HeadOf(g)] = LmNULL THEN UNCHANGED <<lmMem, lmPrev, lmLast>>
  ELSE Store([lmMem EXCEPT ![lmLast[h]] = lmMem[HeadOf(g)], ![HeadOf(g)] = LmNULL], lmPrev,
             [lmLast EXCEPT ![h] = lmLast[g], ![g] = HeadOf(g)])

STAILQ_INSERT_HEAD(h, e) == SIMPLEQ_INSERT_HEAD(h, e)
STAILQ_INSERT_TAIL(h, e) == SIMPLEQ_INSERT_TAIL(h, e)
STAILQ_INSERT_AFTER(h, x, e) == SIMPLEQ_INSERT_AFTER(h, x, e)
STAILQ_REMOVE_HEAD(h) == UnlinkAt(h, HeadOf(h), lmMem[HeadOf(h)])
STAILQ_REMOVE(h, e) == UnlinkAt(h, CellTo(h, e), e)
STAILQ_CONCAT(h, g) == SIMPLEQ_CONCAT(h, g)

TAILQ_INSERT_HEAD(h, e) ==
  Store([lmMem EXCEPT ![NextOf(e)] = lmMem[HeadOf(h)], ![HeadOf(h)] = e],
        [SetPrev(lmPrev, lmMem[HeadOf(h)], NextOf(e)) EXCEPT ![e] = HeadOf(h)],
        SetLast(h, lmMem[HeadOf(h)] = LmNULL, NextOf(e)))
TAILQ_INSERT_TAIL(h, e) ==
  Store([lmMem EXCEPT ![NextOf(e)] = LmNULL, ![lmLast[h]] = e],
        [lmPrev EXCEPT ![e] = lmLast[h]], SetLast(h, TRUE, NextOf(e)))
TAILQ_INSERT_AFTER(h, x, e) ==
  Store([lmMem EXCEPT ![NextOf(e)] = lmMem[NextOf(x)], ![NextOf(x)] = e],
        [SetPrev(lmPrev, lmMem[NextOf(x)], NextOf(e)) EXCEPT ![e] = NextOf(x)],
        SetLast(h, lmMem[NextOf(x)] = LmNULL, NextOf(e)))
TAILQ_INSERT_BEFORE(x, e) == LIST_INSERT_BEFORE(x, e)
(* Mutant: the tail stays.                                                 *)
LIST_REMOVE2(h, e) == LIST_REMOVE(e)
TAILQ_REMOVE(h, e) ==
  Store([lmMem EXCEPT ![lmPrev[e]] = lmMem[NextOf(e)]],
        SetPrev(lmPrev, lmMem[NextOf(e)], lmPrev[e]),
        SetLast(h, lmMem[NextOf(e)] = LmNULL, lmPrev[e]))
TAILQ_REPLACE(h, e, n) ==
  Store([lmMem EXCEPT ![NextOf(n)] = lmMem[NextOf(e)], ![lmPrev[e]] = n],
        [SetPrev(lmPrev, lmMem[NextOf(e)], NextOf(n)) EXCEPT ![n] = lmPrev[e]],
        SetLast(h, lmMem[NextOf(e)] = LmNULL, NextOf(n)))
TAILQ_CONCAT(h, g) ==
  IF lmMem[HeadOf(g)] = LmNULL THEN UNCHANGED <<lmMem, lmPrev, lmLast>>
  ELSE Store([lmMem EXCEPT ![lmLast[h]] = lmMem[HeadOf(g)], ![HeadOf(g)] = LmNULL],
             [lmPrev EXCEPT ![lmMem[HeadOf(g)]] = lmLast[h]],
             [lmLast EXCEPT ![h] = lmLast[g], ![g] = HeadOf(g)])

(* TAILQ_LAST and TAILQ_PREV read the word after a cell as an address.     *)
WordAfter(c) == IF c[1] = "first" THEN lmLast[c[2]] ELSE lmPrev[c[2]]
TAILQ_LAST(h) == lmMem[WordAfter(lmLast[h])]
TAILQ_PREV(e) == lmMem[WordAfter(lmPrev[e])]

-----------------------------------------------------------------------------
(* What each family of macros does to the sequence, and when it may be     *)
(* used.                                                                   *)
Unlisted == LmElements \ UNION {Range(lmSeq[h]) : h \in LmHeads}
IndexIn(h, x) == CHOOSE i \in DOMAIN lmSeq[h] : lmSeq[h][i] = x
Becomes(h, s) == lmSeq' = [lmSeq EXCEPT ![h] = s] /\ UNCHANGED lmKind

InsertHead(h, e) ==
  /\ Becomes(h, <<e>> \o lmSeq[h])
  /\ \/ lmKind = "SLIST" /\ SLIST_INSERT_HEAD(h, e)
     \/ lmKind = "LIST" /\ LIST_INSERT_HEAD(h, e)
     \/ lmKind = "SIMPLEQ" /\ SIMPLEQ_INSERT_HEAD(h, e)
     \/ lmKind = "STAILQ" /\ STAILQ_INSERT_HEAD(h, e)
     \/ lmKind = "TAILQ" /\ TAILQ_INSERT_HEAD(h, e)
InsertTail(h, e) ==
  /\ Becomes(h, Append(lmSeq[h], e))
  /\ \/ lmKind = "SIMPLEQ" /\ SIMPLEQ_INSERT_TAIL(h, e)
     \/ lmKind = "STAILQ" /\ STAILQ_INSERT_TAIL(h, e)
     \/ lmKind = "TAILQ" /\ TAILQ_INSERT_TAIL(h, e)
InsertAfter(h, x, e) ==
  /\ Becomes(h, InsertAt(lmSeq[h], IndexIn(h, x) + 1, e))
  /\ \/ lmKind = "SLIST" /\ SLIST_INSERT_AFTER(x, e)
     \/ lmKind = "LIST" /\ LIST_INSERT_AFTER(x, e)
     \/ lmKind = "SIMPLEQ" /\ SIMPLEQ_INSERT_AFTER(h, x, e)
     \/ lmKind = "STAILQ" /\ STAILQ_INSERT_AFTER(h, x, e)
     \/ lmKind = "TAILQ" /\ TAILQ_INSERT_AFTER(h, x, e)
InsertBefore(h, x, e) ==
  /\ Becomes(h, InsertAt(lmSeq[h], IndexIn(h, x), e))
  /\ \/ lmKind = "LIST" /\ LIST_INSERT_BEFORE(x, e)
     \/ lmKind = "TAILQ" /\ TAILQ_INSERT_BEFORE(x, e)
Replace(h, x, e) ==
  /\ Becomes(h, [lmSeq[h] EXCEPT ![IndexIn(h, x)] = e])
  /\ \/ lmKind = "LIST" /\ LIST_REPLACE(x, e)
     \/ lmKind = "TAILQ" /\ TAILQ_REPLACE(h, x, e)
RemoveHead(h) ==
  /\ lmSeq[h] # <<>> /\ Becomes(h, Tail(lmSeq[h]))
  /\ \/ lmKind = "SLIST" /\ SLIST_REMOVE_HEAD(h)
     \/ lmKind = "SIMPLEQ" /\ SIMPLEQ_REMOVE_HEAD(h)
     \/ lmKind = "STAILQ" /\ STAILQ_REMOVE_HEAD(h)
RemoveAfter(h, x) ==
  /\ x # Last(lmSeq[h]) /\ Becomes(h, RemoveAt(lmSeq[h], IndexIn(h, x) + 1))
  /\ \/ lmKind = "SLIST" /\ SLIST_REMOVE_AFTER(x)
     \/ lmKind = "SIMPLEQ" /\ SIMPLEQ_REMOVE_AFTER(h, x)
RemoveElement(h, x) ==
  /\ Becomes(h, RemoveAt(lmSeq[h], IndexIn(h, x)))
  /\ \/ lmKind = "SLIST" /\ SLIST_REMOVE(h, x)
     \/ lmKind = "LIST" /\ LIST_REMOVE(x)
     \/ lmKind = "SIMPLEQ" /\ SIMPLEQ_REMOVE(h, x)
     \/ lmKind = "STAILQ" /\ STAILQ_REMOVE(h, x)
     \/ lmKind = "TAILQ" /\ TAILQ_REMOVE(h, x)
Concat(h, g) ==
  /\ h # g /\ lmSeq' = [lmSeq EXCEPT ![h] = @ \o lmSeq[g], ![g] = <<>>] /\ UNCHANGED lmKind
  /\ \/ lmKind = "SIMPLEQ" /\ SIMPLEQ_CONCAT(h, g)
     \/ lmKind = "STAILQ" /\ STAILQ_CONCAT(h, g)
     \/ lmKind = "TAILQ" /\ TAILQ_CONCAT(h, g)

LmNext ==
  \E h \in LmHeads :
    \/ RemoveHead(h)
    \/ \E e \in Unlisted :
         \/ InsertHead(h, e) \/ InsertTail(h, e)
         \/ \E x \in Range(lmSeq[h]) : InsertAfter(h, x, e) \/ InsertBefore(h, x, e) \/ Replace(h, x, e)
    \/ \E x \in Range(lmSeq[h]) : RemoveAfter(h, x) \/ RemoveElement(h, x)
    \/ \E g \in LmHeads : Concat(h, g)

LmSpec == LmInit /\ [][LmNext]_lmVars

-----------------------------------------------------------------------------
(* Cells of list h in order, the last one empty.                           *)
CellsOf(h) == <<HeadOf(h)>> \o [i \in DOMAIN lmSeq[h] |-> NextOf(lmSeq[h][i])]

(* The pointers are the sequence: following them gives its elements and    *)
(* then NULL; the tail of a queue is the empty cell and the back pointers  *)
(* go to the cell before (what QUEUEDEBUG tests); the last and the         *)
(* previous element of a TAILQ are found in the sequence.                  *)
ListsFaithful ==
  \A h \in LmHeads :
    LET s == lmSeq[h] c == CellsOf(h) IN
    /\ \A i \in DOMAIN c : lmMem[c[i]] = IF i > Len(s) THEN LmNULL ELSE s[i]
    /\ lmKind \in {"SIMPLEQ", "STAILQ", "TAILQ"} => lmLast[h] = Last(c)
    /\ lmKind \in {"LIST", "TAILQ"} => \A i \in DOMAIN s : lmPrev[s[i]] = c[i]
    /\ lmKind = "TAILQ" =>
         /\ TAILQ_LAST(h) = IF s = <<>> THEN LmNULL ELSE Last(s)
         /\ \A i \in DOMAIN s : TAILQ_PREV(s[i]) = IF i = 1 THEN LmNULL ELSE s[i - 1]

-------------------------------------------------------------------------------
(***************************************************************************)
(* The string library below libc: kprintf and its buffers (subr_prf.c),    *)
(* strtoul.c and bmk_string.c, against what they are to compute.  A        *)
(* character is a number: a digit is itself, with the letters from 10 on,  *)
(* and the others follow.  A long has StLong values in place of 2^64 and   *)
(* an int StInt in place of 2^32.                                          *)
(***************************************************************************)

CONSTANTS
  StLong, StInt, StShort,
  StConvs,     \* conversions: [flags, size, width, prec, conv, arg]
  StSizes,     \* sizes of the buffer of bmk_snprintf
  StNumbers,   \* pairs <<text, base>> for bmk_strtoul
  StStrings,   \* strings for the functions of bmk_string.c
  StMoves,     \* [n, align] of bmk_mempcpy
  StDmesg, StMaxPut    \* the size of the ring of the console, and a bound

VARIABLES
  stCall,      \* [f, and its arguments]
  stDid,       \* what it returned and wrote, NotYet before
  stRing       \* [off, mem, put] of the console

stVars == <<stCall, stDid, stRing>>

NUL == 99
Blank == 100
Minus == 101
Plus == 102
Ex == 103
Untouched == 104
NotYet == [f |-> "none"]
CharAt(s, i) == IF i \in DOMAIN s THEN s[i] ELSE NUL
Times(n, ch) == [i \in 1..(IF n > 0 THEN n ELSE 0) |-> ch]

-----------------------------------------------------------------------------
(* kprintf.  The argument as the flags say: shorter than an int it is      *)
(* taken as one, and an unsigned one keeps its sign.                       *)
Extend(v, w) == LET m == v % w IN IF m >= w \div 2 THEN m - w ELSE m
SARG(c) == IF c.size = "long" THEN Extend(c.arg, StLong)
           ELSE IF c.size = "short" THEN Extend(c.arg, StShort) ELSE Extend(c.arg, StInt)
UARG(c) == IF c.size = "long" THEN c.arg % StLong
           ELSE IF c.size = "short" THEN Extend(c.arg, StInt) % StLong ELSE c.arg % StInt

RECURSIVE DigitsOf(_, _)
DigitsOf(n, base) == IF n < base THEN <<n>> ELSE Append(DigitsOf(n \div base, base), n % base)
ZeroPad(c) == "zero" \in c.flags /\ ~(c.conv \in {"d", "u", "o", "x", "p"} /\ c.prec >= 0)
LeftAdjust(c) == "left" \in c.flags \/ c.width < 0
WidthOf(c) == IF c.width < 0 THEN -c.width ELSE c.width
BaseOf(conv) == CASE conv \in {"d", "u"} -> 10 [] conv = "o" -> 8 [] conv \in {"x", "p"} -> 16

Number(c) ==
  LET v == IF c.conv = "d" THEN SARG(c) ELSE UARG(c)
      u == IF v < 0 THEN -v ELSE v
      ds == IF u = 0 /\ c.prec = 0 THEN <<>> ELSE DigitsOf(u, BaseOf(c.conv))
  IN  [text |-> IF c.conv = "o" /\ "alt" \in c.flags /\ ds # <<>> /\ CharAt(ds, 1) # 0 THEN <<0>> \o ds ELSE ds,
       dprec |-> c.prec,
       prefix |-> IF c.conv = "d"
                  THEN IF v < 0 THEN <<Minus>> ELSE IF "plus" \in c.flags THEN <<Plus>>
                       ELSE IF "space" \in c.flags THEN <<Blank>> ELSE <<>>
                  ELSE IF c.conv = "p" \/ (c.conv = "x" /\ "alt" \in c.flags /\ u # 0)
                  THEN <<0, Ex>> ELSE <<>>]
bmk_strlen(s) == Len(s)
Text(c) == [text |-> IF c.prec >= 0 /\ c.prec < bmk_strlen(c.arg) THEN SubSeq(c.arg, 1, c.prec) ELSE c.arg,
            dprec |-> 0, prefix |-> <<>>]
TextField(c) == IF c.conv = "s" THEN Text(c) ELSE Number(c)
(* What is put for one conversion, and what is added to the result.        *)
RealSize(f) == Max({f.dprec, Len(f.text)}) + Len(f.prefix)
Converted(c) ==
  LET f == TextField(c)
      pad == WidthOf(c) - RealSize(f)
  IN  (IF LeftAdjust(c) \/ ZeroPad(c) THEN <<>> ELSE Times(pad, Blank))
        \o f.prefix
        \o (IF ZeroPad(c) /\ ~LeftAdjust(c) THEN Times(pad, 0) ELSE <<>>)
        \o Times(f.dprec - Len(f.text), 0) \o f.text
        \o (IF LeftAdjust(c) THEN Times(pad, Blank) ELSE <<>>)
kprintf(c) == [ret |-> Max({WidthOf(c), RealSize(TextField(c))}), out |-> Converted(c)]

(* The buffer, of which only the first size bytes are the caller's.        *)
Stored(size, out) == [i \in 1..(size + 1) |-> IF i <= size /\ i <= Len(out) THEN out[i] ELSE Untouched]
bmk_vsnprintf(c, size) ==
  LET k == kprintf(c)
      end == IF size <= k.ret THEN size ELSE k.ret + 1
  IN  [f |-> "snprintf", ret |-> k.ret,
       mem |-> IF size = 0 THEN Stored(size, k.out) ELSE [Stored(size, k.out) EXCEPT ![end] = NUL]]

-----------------------------------------------------------------------------
(* bmk_strtoul.                                                            *)
RECURSIVE Accumulate(_, _, _, _, _)
Accumulate(s, i, base, acc, any) ==
  IF CharAt(s, i) \notin 0..(base - 1) THEN [acc |-> acc, any |-> any, at |-> i]
  ELSE IF \/ acc > (StLong - 1) \div base
          \/ acc = (StLong - 1) \div base /\ s[i] > (StLong - 1) % base
  THEN [acc |-> StLong - 1, any |-> FALSE, at |-> i]
  ELSE Accumulate(s, i + 1, base, acc * base + s[i], TRUE)
bmk_strtoul(s, base) ==
  LET p == Min({i \in 1..(Len(s) + 1) : CharAt(s, i) # Blank})
      neg == CharAt(s, p) = Minus
      q == IF CharAt(s, p) \in {Minus, Plus} THEN p + 1 ELSE p
      hex == base \in {0, 16} /\ CharAt(s, q) = 0 /\ CharAt(s, q + 1) = Ex
      b == IF hex THEN 16 ELSE IF base = 0 THEN (IF CharAt(s, q) = 0 THEN 8 ELSE 10) ELSE base
      r == Accumulate(s, IF hex THEN q + 2 ELSE q, b, 0, FALSE)
  IN  [f |-> "strtoul", ret |-> IF neg /\ r.any THEN (StLong - r.acc) % StLong ELSE r.acc,
       end |-> IF r.any THEN r.at ELSE 1]

-----------------------------------------------------------------------------
(* bmk_strcmp goes back a character unless that was the last one of a; b   *)
(* may be read behind its end.                                             *)
Mismatch(a, b) == Min({i \in 1..(Len(a) + 1) : CharAt(a, i) = NUL \/ CharAt(a, i) # CharAt(b, i)})
bmk_strcmp(a, b) ==
  LET k == Mismatch(a, b) IN
  IF CharAt(a, k) # NUL /\ CharAt(a, k + 1) = NUL
  THEN [l |-> NUL, r |-> CharAt(b, k + 1), beyond |-> CharAt(b, k) = NUL]
  ELSE [l |-> CharAt(a, k), r |-> CharAt(b, k), beyond |-> FALSE]
bmk_strncmp(a, b, n) ==
  LET k == Min({n + 1} \cup {i \in 1..n : CharAt(a, i) # CharAt(b, i) \/ CharAt(a, i) = NUL}) IN
  IF k > n THEN [l |-> NUL, r |-> NUL] ELSE [l |-> CharAt(a, k), r |-> CharAt(b, k)]
(* bmk_strncpy: the NUL of the string is not counted.                      *)
bmk_strncpy(s, n) == IF Len(s) < n THEN s \o Times(n - Len(s) + 1, NUL) ELSE SubSeq(s, 1, n)
bmk_memchr(s, ch) == LET S == {i \in DOMAIN s : s[i] = ch} IN IF S = {} THEN 0 ELSE Min(S)
bmk_memrchr(s, ch) == LET S == {i \in DOMAIN s : s[i] = ch} IN IF S = {} THEN 0 ELSE Max(S)
(* bmk_mempcpy: bytes until the destination is aligned, words of StWord    *)
(* bytes, and the rest; short moves are bytes only.                        *)
StWord == 4
StFew == 6
bmk_mempcpy(n, align) ==
  LET head == IF n >= StFew THEN (StWord - align) % StWord ELSE 0
      words == IF n >= StFew THEN (n - head) \div StWord ELSE 0
      tail == IF n >= StFew THEN (n - head) % StWord ELSE n
  IN  [head |-> head, words |-> words, bytes |-> head + words * StWord + tail]

-----------------------------------------------------------------------------
Digit(ch) == ch \in 0..35
StInit ==
  /\ stDid = NotYet /\ stRing = [off |-> 0, mem |-> Times(StDmesg, NUL), put |-> <<>>]
  /\ \/ \E c \in StConvs, n \in StSizes : stCall = [f |-> "snprintf", c |-> c, size |-> n]
     \/ \E x \in StNumbers : stCall = [f |-> "strtoul", text |-> x[1], base |-> x[2]]
     \/ \E a, b \in StStrings, n \in 0..3 : stCall = [f |-> "string", a |-> a, b |-> b, n |-> n]
     \/ \E m \in StMoves : stCall = [f |-> "memcpy", m |-> m]
     \/ stCall = [f |-> "putchar"]
Call(f, did) == stCall.f = f /\ stDid = NotYet /\ stDid' = did /\ UNCHANGED <<stCall, stRing>>
bmk_snprintf == Call("snprintf", bmk_vsnprintf(stCall.c, stCall.size))
Converts == Call("strtoul", bmk_strtoul(stCall.text, stCall.base))
Compares ==
  Call("string", [f |-> "string", cmp |-> bmk_strcmp(stCall.a, stCall.b), ncmp |-> bmk_strncmp(stCall.a, stCall.b, stCall.n),
                  cpy |-> bmk_strncpy(stCall.a, stCall.n), chr |-> bmk_memchr(stCall.a, 1), rchr |-> bmk_memrchr(stCall.a, 1)])
Moves == Call("memcpy", [f |-> "memcpy", m |-> bmk_mempcpy(stCall.m.n, stCall.m.align)])
(* The console: the last byte of the ring stays a NUL.                     *)
cons_putchar(ch) ==
  LET off == stRing.off + 1 IN
  /\ stCall.f = "putchar" /\ Len(stRing.put) < StMaxPut
  /\ stRing' = [off |-> IF off = StDmesg - 1 THEN 0 ELSE off,
                mem |-> [stRing.mem EXCEPT ![stRing.off + 1] = ch], put |-> Append(stRing.put, ch)]
  /\ UNCHANGED <<stCall, stDid>>
StNext == bmk_snprintf \/ Converts \/ Compares \/ Moves \/ \E ch \in {1, 2} : cons_putchar(ch)
StSpec == StInit /\ [][StNext]_stVars

-----------------------------------------------------------------------------
RECURSIVE ValueOf(_, _)
ValueOf(ds, base) == IF ds = <<>> THEN 0 ELSE ValueOf(Front(ds), base) * base + Last(ds)
(* The number a conversion was asked to print.                             *)
Meant(c) == (IF c.conv = "d" THEN SARG(c) ELSE UARG(c)) % StLong
NoNumber(c) == c.conv = "s" \/ (c.prec = 0 /\ Meant(c) = 0)
SameValue(x) == x.l = x.r
PlainText(s) == s # <<>> /\ \A i \in DOMAIN s : Digit(s[i])

(* kprintf puts as many characters as it returns, and the width it was     *)
(* asked for or more; bmk_snprintf stores what fits of them, a NUL after   *)
(* that, and no byte behind the buffer.  bmk_strtoul reads back every      *)
(* number that kprintf prints, with any flags, and says so when a number   *)
(* does not fit.  Equal strings compare equal, and those that differ       *)
(* before the last character of the first differ; bmk_strncpy fills no     *)
(* more than the n + 1 bytes its callers have.  bmk_mempcpy moves n bytes, *)
(* the words aligned.  The ring of the console holds what was put last, in *)
(* order, and ends in a NUL.                                               *)
StringsSound ==
  /\ stDid.f = "snprintf" =>
       LET c == stCall.c
           n == stCall.size
           out == Converted(c)
           kept == Min({n - 1, Len(out)})
       IN  /\ stDid.ret = Len(out) /\ Len(out) >= WidthOf(c)
           /\ stDid.mem[n + 1] = Untouched
           /\ n > 0 => SubSeq(stDid.mem, 1, kept + 1) = Append(SubSeq(out, 1, kept), NUL)
           /\ ~NoNumber(c) => bmk_strtoul(out, BaseOf(c.conv)).ret = Meant(c)
           /\ c.conv \in {"o", "x", "p"} /\ "alt" \in c.flags => bmk_strtoul(out, 0).ret = Meant(c)
  /\ stDid.f = "strtoul" /\ PlainText(stCall.text) /\ stCall.base # 0 =>
       LET s == stCall.text
           ds == SubSeq(s, 1, Min({i \in 0..Len(s) : CharAt(s, i + 1) \notin 0..(stCall.base - 1)}))
           v == ValueOf(ds, stCall.base)
       IN  IF v < StLong THEN stDid.ret = v /\ stDid.end = Len(ds) + 1
           ELSE stDid.ret = StLong - 1 /\ stDid.end = 1
  /\ stDid.f = "string" =>
       LET a == stCall.a
           b == stCall.b
           k == Mismatch(a, b)
       IN  /\ a = b => SameValue(stDid.cmp)
           /\ a # b /\ k # Len(a) => stDid.cmp.l = CharAt(a, k) /\ stDid.cmp.r = CharAt(b, k) /\ ~SameValue(stDid.cmp)
           /\ SameValue(stDid.ncmp) <=> SubSeq(a, 1, Min({stCall.n, Len(a)})) = SubSeq(b, 1, Min({stCall.n, Len(b)}))
           /\ Len(stDid.cpy) <= stCall.n + 1
           /\ stDid.chr = 0 <=> stDid.rchr = 0
           /\ stDid.chr <= stDid.rchr
  /\ stDid.f = "memcpy" =>
       /\ stDid.m.bytes = stCall.m.n
       /\ stDid.m.words > 0 => (stCall.m.align + stDid.m.head) % StWord = 0
  /\ stRing.mem[StDmesg] = NUL
  /\ LET put == stRing.put
         last == Min({Len(put), StDmesg - 1})
     IN  \A i \in 0..(last - 1) :
           stRing.mem[((stRing.off - 1 - i) % (StDmesg - 1)) + 1] = put[Len(put) - i]
===============================================================================
