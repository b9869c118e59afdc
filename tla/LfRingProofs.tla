----------------------------- MODULE LfRingProofs -----------------------------
(***************************************************************************)
(* Proofs about the lock-free ring, for rings of every size and any number *)
(* of threads: an index that is put into the ring is in one place, and it  *)
(* is not lost.                                                            *)
(***************************************************************************)
EXTENDS LfRing, WellFoundedInduction, TLAPS

(* Every set of numbers that is not empty has a least element.             *)
LEMMA NatMin ==
  ASSUME NEW T, T \subseteq Nat, T # {}
  PROVE  \E x \in T : \A y \in T : ~ (y < x)
<1>1. \A a, b \in Nat : <<a, b>> \in OpToRel(<, Nat) <=> a < b
  BY SMT DEF OpToRel
<1>2. PICK x \in T : \A y \in T : ~ (<<y, x>> \in OpToRel(<, Nat))
  BY NatLessThanWellFounded, WFMin, Zenon
<1>3. \A y \in T : ~ (y < x)
  BY <1>1, <1>2, Zenon
<1> QED BY <1>3

LEMMA Pow2Def ==
  /\ pow2 \in [Nat -> Nat \ {0}]
  /\ \A k \in Nat : pow2[k] = IF k = 0 THEN 1 ELSE 2 * pow2[k - 1]
<1> DEFINE P(k, g) == /\ g \in [0..k -> Nat \ {0}] /\ g[0] = 1
                      /\ \A i \in 1..k : g[i] = 2 * g[i - 1]
           F == [k \in Nat |-> (CHOOSE g : P(k, g))[k]]
           D(f) == [k \in Nat |-> IF k = 0 THEN 1 ELSE 2 * f[k - 1]]
<1>1. \A k \in Nat : \E g : P(k, g)
  <2> DEFINE T == {k \in Nat : ~ \E g : P(k, g)}
  <2> SUFFICES ASSUME T # {} PROVE FALSE
    BY Zenon
  <2>1. PICK k \in T : \A y \in T : ~ (y < k)
    <3> T \subseteq Nat
      OBVIOUS
    <3> HIDE DEF T
    <3> QED BY NatMin, Zenon
  <2>2. P(0, [i \in 0..0 |-> 1])
    OBVIOUS
  <2>3. k # 0
    BY <2>1, <2>2, Zenon
  <2>4. PICK g : P(k - 1, g)
    <3>1. k - 1 \in Nat /\ k - 1 \notin T
      <4> T \subseteq Nat
        OBVIOUS
      <4> HIDE DEF T
      <4> QED BY <2>1, <2>3, SMT
    <3> HIDE DEF P
    <3> QED BY <3>1, Zenon
  <2> DEFINE h == [i \in 0..k |-> IF i = k THEN 2 * g[k - 1] ELSE g[i]]
  <2>5. k \in Nat /\ k - 1 \in 0..(k - 1) /\ 0..(k - 1) \subseteq 0..k
    BY <2>1, <2>3
  <2>6. h \in [0..k -> Nat \ {0}]
    <3> SUFFICES ASSUME NEW i \in 0..k PROVE h[i] \in Nat \ {0}
      OBVIOUS
    <3>1. i = k \/ i \in 0..(k - 1)
      BY <2>5
    <3>2. g[k - 1] \in Nat \ {0}
      BY <2>4, <2>5
    <3>3. CASE i = k
      BY <3>2, <3>3
    <3>4. CASE i # k
      BY <3>1, <3>4, <2>4
    <3> QED BY <3>3, <3>4
  <2>7. h[0] = 1
    BY <2>3, <2>4, <2>5
  <2>8. ASSUME NEW i \in 1..k PROVE h[i] = 2 * h[i - 1]
    <3>1. CASE i = k
      BY <3>1, <2>5
    <3>2. CASE i # k
      BY <3>2, <2>4, <2>5
    <3> QED BY <3>1, <3>2
  <2>9. P(k, h)
    BY <2>6, <2>7, <2>8, Zenon
  <2> QED BY <2>1, <2>9, Zenon
<1>2. ASSUME NEW k \in Nat, NEW l \in Nat, NEW g, NEW h, P(k, g), P(l, h), k <= l
      PROVE  g[k] = h[k]
  <2> DEFINE T == {i \in 0..k : g[i] # h[i]}
  <2> SUFFICES ASSUME T # {} PROVE FALSE
    OBVIOUS
  <2>1. PICK i \in T : \A y \in T : ~ (y < i)
    <3> T \subseteq Nat
      OBVIOUS
    <3> HIDE DEF T
    <3> QED BY NatMin, Zenon
  <2>2. i # 0
    BY <1>2, <2>1
  <2>3. g[i - 1] = h[i - 1]
    BY <2>1, <2>2
  <2>4. i \in 1..k /\ i \in 1..l
    BY <1>2, <2>1, <2>2
  <2>5. g[i] = 2 * g[i - 1] /\ h[i] = 2 * h[i - 1]
    BY <1>2, <2>4
  <2> QED BY <2>1, <2>3, <2>5
<1>3. \A k \in Nat : P(k, CHOOSE g : P(k, g))
  BY <1>1, Zenon
<1>4. \A k \in Nat : F[k] \in Nat \ {0} /\ F[k] = IF k = 0 THEN 1 ELSE 2 * F[k - 1]
  <2> SUFFICES ASSUME NEW k \in Nat
               PROVE  F[k] \in Nat \ {0} /\ F[k] = IF k = 0 THEN 1 ELSE 2 * F[k - 1]
    OBVIOUS
  <2>1. PICK g : g = (CHOOSE c : P(k, c)) /\ P(k, g)
    BY <1>3, Zenon
  <2>2. F[k] = g[k]
    BY <2>1
  <2>3. F[k] \in Nat \ {0}
    BY <2>1, <2>2
  <2>4. CASE k = 0
    BY <2>1, <2>2, <2>4
  <2>5. CASE k # 0
    <3>1. k - 1 \in Nat /\ k - 1 <= k /\ k \in 1..k
      BY <2>5
    <3>2. PICK f : f = (CHOOSE c : P(k - 1, c)) /\ P(k - 1, f)
      BY <3>1, <1>3, Zenon
    <3>3. F[k - 1] = f[k - 1]
      BY <3>1, <3>2
    <3>4. f[k - 1] = g[k - 1]
      <4> HIDE DEF P
      <4> QED BY <1>2, <2>1, <3>1, <3>2
    <3>5. g[k] = 2 * g[k - 1]
      BY <2>1, <3>1, Zenon
    <3> QED BY <2>2, <2>3, <2>5, <3>3, <3>4, <3>5
  <2> QED BY <2>3, <2>4, <2>5
<1>5. F = D(F)
  <2>1. F = [k \in Nat |-> F[k]]
    OBVIOUS
  <2> HIDE DEF F
  <2> QED BY <1>4, <2>1, Zenon
<1>6. pow2 = D(pow2)
  <2> HIDE DEF F
  <2> QED BY <1>5 DEF pow2
<1>7. F = pow2
  <2> DEFINE T == {k \in Nat : F[k] # pow2[k]}
  <2>1. F \in [Nat -> Nat \ {0}]
    BY <1>4, Zenon
  <2> HIDE DEF F
  <2>2. ASSUME T # {} PROVE FALSE
    <3>1. PICK k \in T : \A y \in T : ~ (y < k)
      <4> T \subseteq Nat
        OBVIOUS
      <4> HIDE DEF T
      <4> QED BY <2>2, NatMin, Zenon
    <3>2. pow2[k] = (IF k = 0 THEN 1 ELSE 2 * pow2[k - 1])
      BY <1>6, <3>1
    <3>3. F[k] = (IF k = 0 THEN 1 ELSE 2 * F[k - 1])
      BY <1>4, <3>1
    <3>4. k # 0 => F[k - 1] = pow2[k - 1]
      BY <3>1
    <3> QED BY <3>1, <3>2, <3>3, <3>4
  <2>3. \A k \in Nat : F[k] = pow2[k]
    BY <2>2
  <2>4. DOMAIN pow2 = Nat /\ pow2 = [k \in DOMAIN pow2 |-> pow2[k]]
    BY <1>6
  <2> QED BY <2>1, <2>3, <2>4
<1> QED
  <2>1. pow2 \in [Nat -> Nat \ {0}]
    <3>1. pow2 = [k \in Nat |-> pow2[k]]
      BY <1>6
    <3> HIDE DEF F
    <3> QED BY <1>4, <1>7, <3>1, Zenon
  <2>2. \A k \in Nat : pow2[k] = IF k = 0 THEN 1 ELSE 2 * pow2[k - 1]
    <3> HIDE DEF F
    <3> QED BY <1>4, <1>7
  <2> QED BY <2>1, <2>2

LEMMA Pow2Sum ==
  ASSUME NEW a \in Nat, NEW b \in Nat
  PROVE  pow2[a] * pow2[b] = pow2[a + b]
<1> DEFINE T == {k \in Nat : pow2[a] * pow2[k] # pow2[a + k]}
<1>1. ASSUME T # {} PROVE FALSE
  <2>1. PICK k \in T : \A y \in T : ~ (y < k)
    <3> T \subseteq Nat
      OBVIOUS
    <3> HIDE DEF T
    <3> QED BY <1>1, NatMin, Zenon
  <2>2. CASE k = 0
    <3>1. pow2[0] = 1 /\ pow2[a] \in Nat /\ a + 0 = a
      BY Pow2Def
    <3> QED BY <2>1, <2>2, <3>1
  <2>3. CASE k # 0
    <3>1. k \in Nat /\ k - 1 \in Nat /\ k - 1 \notin T
      BY <2>1, <2>3
    <3>2. pow2[a] * pow2[k - 1] = pow2[a + (k - 1)]
      BY <3>1
    <3>3. pow2[k] = 2 * pow2[k - 1]
      BY <2>3, <3>1, Pow2Def
    <3>4. a + k \in Nat /\ a + k # 0 /\ (a + k) - 1 = a + (k - 1)
      BY <2>3, <3>1
    <3>5. pow2[a + k] = 2 * pow2[a + (k - 1)]
      BY <3>4, Pow2Def, SMT
    <3>6. pow2[a] \in Nat /\ pow2[k - 1] \in Nat
      BY <3>1, Pow2Def
    <3>7. pow2[a] * (2 * pow2[k - 1]) = 2 * (pow2[a] * pow2[k - 1])
      BY <3>6
    <3> QED BY <2>1, <3>2, <3>3, <3>5, <3>7
  <2> QED BY <2>2, <2>3
<1> QED BY <1>1

LEMMA DivMod ==
  ASSUME NEW d \in Nat \ {0}, NEW q \in Int, NEW r \in 0..(d - 1)
  PROVE  (q * d + r) \div d = q /\ (q * d + r) % d = r
<1> DEFINE m == q * d + r
<1>1. m \in Int /\ m \div d \in Int /\ m % d \in 0..(d - 1) /\ m = (m \div d) * d + (m % d)
  OBVIOUS
<1>2. \A x, y \in Int : x > y => x * d >= y * d + d
  <2> SUFFICES ASSUME NEW x \in Int, NEW y \in Int, x > y PROVE x * d >= y * d + d
    OBVIOUS
  <2>1. (x - y - 1) * d >= 0
    OBVIOUS
  <2> QED BY <2>1
<1>3. ~ (m \div d > q) /\ ~ (q > m \div d)
  <2> DEFINE p == m \div d
             s == m % d
  <2>1. p \in Int /\ s \in 0..(d - 1) /\ q * d + r = p * d + s
    BY <1>1
  <2> HIDE DEF p, s
  <2>2. ~ (p > q) /\ ~ (q > p)
    BY <1>2, <2>1
  <2> QED BY <2>2 DEF p
<1>4. m \div d = q
  BY <1>1, <1>3
<1> QED BY <1>1, <1>4

LEMMA DivExists ==
  ASSUME NEW m \in Nat, NEW d \in Nat \ {0}
  PROVE  \E q \in Nat : \E r \in 0..(d - 1) : m = q * d + r /\ m \div d = q /\ m % d = r
<1>1. m \div d \in Nat /\ m % d \in 0..(d - 1) /\ m = (m \div d) * d + (m % d)
  OBVIOUS
<1> QED BY <1>1

LEMMA Spread ==
  ASSUME NEW A \in Nat \ {0}, NEW B \in Nat \ {0}, NEW i \in Nat
  PROVE  \E a \in 0..(B - 1) : \E b \in 0..(A - 1) :
           /\ i % (A * B) = a * A + b
           /\ ((i % (A * B)) \div A) + ((i * B) % (A * B)) = a + b * B
<1> DEFINE S == A * B
<1>1. S \in Nat \ {0}
  OBVIOUS
<1>2. PICK q \in Nat, k \in 0..(S - 1) : i = q * S + k /\ i % S = k
  BY <1>1, DivExists, Zenon
<1>3. PICK a \in Nat, b \in 0..(A - 1) : k = a * A + b /\ k \div A = a
  BY <1>2, DivExists
<1>4. a < B
  <2> SUFFICES ASSUME a >= B PROVE FALSE
    BY <1>3
  <2>1. (a - B) * A >= 0
    BY <1>3
  <2> QED BY <1>2, <1>3, <2>1
<1>5. b * B \in 0..(S - 1)
  <2>1. (A - 1 - b) * B >= 0 /\ b * B >= 0
    BY <1>3
  <2> QED BY <2>1, <1>3
<1>6. i * B = (q * B + a) * S + b * B
  <2>1. i * B = (q * S + a * A + b) * B
    BY <1>2, <1>3
  <2>2. (q * S + a * A + b) * B = (q * B + a) * S + b * B
    BY <1>2, <1>3
  <2> QED BY <2>1, <2>2
<1>7. (i * B) % S = b * B
  <2> HIDE DEF S
  <2>1. q * B + a \in Int
    BY <1>2, <1>3
  <2> DEFINE h == q * B + a
  <2>2. i * B = h * S + b * B
    BY <1>6
  <2> HIDE DEF h
  <2>3. (h * S + b * B) % S = b * B
    BY <1>1, <1>5, <2>1, DivMod, Zenon DEF h
  <2> QED BY <2>2, <2>3
<1>8. b * B \in Nat /\ a \in 0..(B - 1)
  BY <1>3, <1>4
<1> HIDE DEF S
<1>9. i % S = a * A + b /\ ((i % S) \div A) + ((i * B) % S) = a + b * B
  BY <1>2, <1>3, <1>7, Zenon
<1> QED BY <1>3, <1>8, <1>9, Zenon DEF S

LEMMA SpreadInjective ==
  ASSUME NEW A \in Nat \ {0}, NEW B \in Nat \ {0},
         NEW a \in 0..(B - 1), NEW b \in 0..(A - 1),
         NEW c \in 0..(B - 1), NEW d \in 0..(A - 1), a + b * B = c + d * B
  PROVE  a = c /\ b = d
<1>1. ~ (b > d)
  <2> SUFFICES ASSUME b > d PROVE FALSE
    OBVIOUS
  <2>1. (b - d - 1) * B >= 0
    OBVIOUS
  <2> QED BY <2>1
<1>2. ~ (d > b)
  <2> SUFFICES ASSUME d > b PROVE FALSE
    OBVIOUS
  <2>1. (d - b - 1) * B >= 0
    OBVIOUS
  <2> QED BY <2>1
<1> QED BY <1>1, <1>2

(* For every power of two: __lfring_raw_map permutes the indices.          *)
LEMMA RawMap ==
  ASSUME NEW order \in Nat, RingMin <= order, NEW i \in Nat
  PROVE  /\ raw_map(i, order, pow2[order]) \in 0..(pow2[order] - 1)
         /\ \A k \in Nat :
              raw_map(k, order, pow2[order]) = raw_map(i, order, pow2[order])
              <=> k % pow2[order] = i % pow2[order]
         /\ i < pow2[order] =>
              \E k \in 0..(pow2[order] - 1) : raw_map(k, order, pow2[order]) = i
<1> DEFINE A == pow2[order - RingMin]
           B == pow2[RingMin]
           S == pow2[order]
           R(k) == raw_map(k, order, S)
<1>1. RingMin \in Nat /\ order - RingMin \in Nat /\ (order - RingMin) + RingMin = order
  BY RingAssumption
<1>2. A \in Nat \ {0} /\ B \in Nat \ {0} /\ S \in Nat \ {0}
  BY <1>1, Pow2Def
<1>3. S = A * B
  BY <1>1, Pow2Sum, Zenon
<1>4. \A k : R(k) = ((k % S) \div A) + ((k * B) % S)
  BY DEF raw_map
<1> HIDE DEF A, B, S, R
<1>5. \A k \in Nat : \E a \in 0..(B - 1) : \E b \in 0..(A - 1) :
        k % S = a * A + b /\ R(k) = a + b * B
  <2> SUFFICES ASSUME NEW k \in Nat
               PROVE  \E a \in 0..(B - 1) : \E b \in 0..(A - 1) :
                        k % S = a * A + b /\ R(k) = a + b * B
    BY Zenon
  <2>1. PICK a \in 0..(B - 1), b \in 0..(A - 1) :
          /\ k % (A * B) = a * A + b
          /\ ((k % (A * B)) \div A) + ((k * B) % (A * B)) = a + b * B
    BY <1>2, Spread, Zenon
  <2>2. k % S = a * A + b /\ R(k) = a + b * B
    BY <1>3, <1>4, <2>1, Zenon
  <2> QED BY <2>2
<1>6. R(i) \in 0..(S - 1)
  <2>1. PICK a \in 0..(B - 1), b \in 0..(A - 1) : R(i) = a + b * B
    BY <1>5
  <2>2. (A - 1 - b) * B >= 0 /\ b * B >= 0 /\ b * B \in Int
    BY <1>2
  <2>3. (A - 1 - b) * B = A * B - B - b * B
    BY <1>2
  <2> QED BY <1>2, <1>3, <2>1, <2>2, <2>3
<1>7. ASSUME NEW k \in Nat, R(k) = R(i) PROVE k % S = i % S
  <2>1. PICK a \in 0..(B - 1), b \in 0..(A - 1) : i % S = a * A + b /\ R(i) = a + b * B
    BY <1>5, Zenon
  <2>2. PICK c \in 0..(B - 1), d \in 0..(A - 1) : k % S = c * A + d /\ R(k) = c + d * B
    BY <1>5, Zenon
  <2>3. a = c /\ b = d
    BY <1>2, <1>7, <2>1, <2>2, SpreadInjective
  <2> QED BY <2>1, <2>2, <2>3
<1>71. ASSUME NEW k \in Nat, k % S = i % S PROVE R(k) = R(i)
  <2>1. PICK a \in 0..(B - 1), b \in 0..(A - 1) : i % S = a * A + b /\ R(i) = a + b * B
    BY <1>5
  <2>2. PICK c \in 0..(B - 1), d \in 0..(A - 1) : k % S = c * A + d /\ R(k) = c + d * B
    BY <1>5
  <2>3. b + a * A = d + c * A
    BY <1>2, <1>71, <2>1, <2>2
  <2>4. a = c /\ b = d
    BY <1>2, <2>3, SpreadInjective
  <2> QED BY <2>1, <2>2, <2>4
<1>8. ASSUME i < S PROVE \E k \in 0..(S - 1) : R(k) = i
  <2>1. PICK b \in Nat, a \in 0..(B - 1) : i = b * B + a
    BY <1>2, DivExists, Zenon
  <2>2. b \in 0..(A - 1)
    <3> SUFFICES ASSUME b >= A PROVE FALSE
      BY <1>2, <2>1
    <3>1. (b - A) * B >= 0 /\ (b - A) * B = b * B - A * B
      BY <1>2
    <3> QED BY <1>2, <1>3, <1>8, <2>1, <3>1
  <2> DEFINE k == b + a * A
  <2>3. k \in 0..(S - 1)
    <3>1. (B - 1 - a) * A >= 0 /\ a * A >= 0 /\ a * A \in Int
      BY <1>2, <2>1
    <3>2. (B - 1 - a) * A = A * B - A - a * A
      BY <1>2
    <3> QED BY <1>2, <1>3, <2>2, <3>1, <3>2
  <2>4. PICK c \in 0..(B - 1), d \in 0..(A - 1) : k % S = c * A + d /\ R(k) = c + d * B
    BY <1>5, <2>3
  <2>5. k % S = k
    <3> HIDE DEF k
    <3> QED BY <1>2, <2>3, DivMod
  <2>6. b = d /\ a = c
    <3>1. b + a * A = d + c * A
      BY <1>2, <2>4, <2>5
    <3> QED BY <1>2, <2>2, <3>1, SpreadInjective
  <2> QED BY <1>2, <2>1, <2>3, <2>4, <2>6
<1> QED BY <1>6, <1>7, <1>71, <1>8 DEF R, S

LEMMA Sizes == half \in Nat \ {0} /\ half = pow2[Order] /\ n = pow2[Order + 1] /\ n = 2 * half
<1>1. Order \in Nat /\ Order + 1 \in Nat /\ Order + 1 # 0 /\ (Order + 1) - 1 = Order
  BY RingAssumption
<1>2. pow2[Order + 1] = 2 * pow2[Order] /\ pow2[Order] \in Nat \ {0}
  BY <1>1, Pow2Def, SMT
<1> QED BY <1>2 DEF half, n

(* Cycle and place of a ticket identify it.                                *)
LEMMA Tickets ==
  ASSUME NEW x \in Nat
  PROVE  /\ map(x) \in 0..(n - 1) /\ Cycle(x) \in Nat
         /\ \A y \in Nat : map(x) = map(y) /\ Cycle(x) = Cycle(y) => x = y
         /\ \A y \in Nat : y <= x => Cycle(y) <= Cycle(x)
         /\ x < n => Cycle(x) = 0
<1>1. n \in Nat \ {0} /\ Order + 1 \in Nat /\ RingMin <= Order + 1
  BY Sizes, RingAssumption
<1>2. \A y : map(y) = raw_map(y, Order + 1, pow2[Order + 1])
  BY Sizes, Zenon DEF map
<1>3. map(x) \in 0..(n - 1)
  BY <1>1, <1>2, Sizes, RawMap, Zenon
<1>4. \A y \in Nat : \E q \in Nat : \E r \in 0..(n - 1) :
        y = q * n + r /\ Cycle(y) = q /\ y % n = r
  BY <1>1, DivExists, Zenon DEF Cycle
<1>5. Cycle(x) \in Nat
  BY <1>4
<1>6. ASSUME NEW y \in Nat, map(x) = map(y), Cycle(x) = Cycle(y) PROVE x = y
  <2>1. raw_map(x, Order + 1, pow2[Order + 1]) = raw_map(y, Order + 1, pow2[Order + 1])
    BY <1>2, <1>6, Zenon
  <2>2. x % pow2[Order + 1] = y % pow2[Order + 1]
    BY <1>1, <2>1, RawMap, Zenon
  <2>3. x % n = y % n
    BY <2>2, Sizes, Zenon
  <2> QED BY <1>4, <1>6, <2>3
<1>7. ASSUME NEW y \in Nat, y <= x PROVE Cycle(y) <= Cycle(x)
  <2>1. PICK q \in Nat, r \in 0..(n - 1) : x = q * n + r /\ Cycle(x) = q
    BY <1>4, Zenon
  <2>2. PICK p \in Nat, s \in 0..(n - 1) : y = p * n + s /\ Cycle(y) = p
    BY <1>4, Zenon
  <2> SUFFICES ASSUME p > q PROVE FALSE
    BY <2>1, <2>2
  <2>3. (p - q - 1) * n >= 0 /\ (p - q - 1) * n = p * n - q * n - n
    BY <1>1
  <2> QED BY <1>1, <1>7, <2>1, <2>2, <2>3
<1>8. ASSUME x < n PROVE Cycle(x) = 0
  <2>1. PICK q \in Nat, r \in 0..(n - 1) : x = q * n + r /\ Cycle(x) = q
    BY <1>4, Zenon
  <2> SUFFICES ASSUME q > 0 PROVE FALSE
    BY <2>1
  <2>2. (q - 1) * n >= 0 /\ (q - 1) * n = q * n - n
    BY <1>1
  <2> QED BY <1>1, <1>8, <2>1, <2>2
<1> QED BY <1>3, <1>5, <1>6, <1>7, <1>8

-----------------------------------------------------------------------------
Entries == [cycle : Int, safe : {0, 1}, idx : Indices \cup {NoIdx}]
RingSlots == 0..(n - 1)

Enqueuing(t) == lfrPc[t] \in {"eload", "elook", "ecas"}
HasRead(t) == lfrPc[t] \in {"elook", "ecas", "dlook"}

(* Thread u has the ticket x of a dequeue and has not dealt with its entry.*)
Visits(u, x) == lfrPc[u] \in {"dload", "dlook"} /\ ticket[u] = x

(* u has read an entry that it is going to leave as it is.                 *)
PassesBy(u) ==
  /\ lfrPc[u] = "dlook" /\ entry[u].cycle < Cycle(ticket[u])
  /\ entry[u].idx # NoIdx /\ entry[u].safe = 0

At(x) == array[map(x)]

(* What may become of an entry: it is marked unsafe, then emptied, then    *)
(* used in a later cycle.                                                  *)
Leq(e, f) ==
  \/ e = f
  \/ e.cycle < f.cycle
  \/ /\ e.cycle = f.cycle /\ e.idx # NoIdx /\ f.safe <= e.safe
     /\ f.idx = NoIdx \/ (f.idx = e.idx /\ f.safe < e.safe)

RingPcs == {"idle", "empty", "eticket", "eload", "elook", "ecas", "ethr", "eset",
            "dticket", "dload", "dlook", "dtail", "dcatch", "dhead", "dread", "ddec", "dthr"}

RingTypeOK ==
  /\ rhead \in Nat /\ rtail \in Nat
  /\ array \in [RingSlots -> Entries]
  /\ held \in [RingUsers -> SUBSET Indices]
  /\ lfrPc \in [RingUsers -> RingPcs]
  /\ ticket \in [RingUsers -> Int]
  /\ entry \in [RingUsers -> Entries]
  /\ eidx \in [RingUsers -> Indices \cup {NoIdx}]
  /\ rseen \in [RingUsers -> Nat]

(* Tickets that are being used; those of dequeues are all different.       *)
TicketsDrawn ==
  \A t \in RingUsers :
    /\ Enqueuing(t) => ticket[t] \in Nat /\ ticket[t] < rtail
    /\ Visits(t, ticket[t]) => ticket[t] \in Nat /\ ticket[t] < rhead
    /\ \A u \in RingUsers : Visits(t, ticket[t]) /\ Visits(u, ticket[t]) => t = u

MovesIndex == \A t \in RingUsers : Moving(t) => eidx[t] \in Indices

(* The tail is moved forward only.                                         *)
CatchesUp == \A t \in RingUsers : lfrPc[t] = "dcatch" => rseen[t] <= ticket[t] + 1

(* What a thread has read of an entry is what it was once.                 *)
ReadsOld ==
  \A t \in RingUsers :
    /\ HasRead(t) => Leq(entry[t], At(ticket[t]))
    /\ lfrPc[t] = "ecas" => entry[t].cycle < Cycle(ticket[t]) /\ entry[t].idx = NoIdx
    /\ (lfrPc[t] = "dlook" /\ entry[t].cycle = Cycle(ticket[t])) =>
         /\ At(ticket[t]).cycle = Cycle(ticket[t])
         /\ entry[t].idx # NoIdx /\ At(ticket[t]).idx = entry[t].idx

(* An entry was written with some ticket.                                  *)
Written ==
  \A j \in RingSlots :
    \/ array[j].cycle = -1 /\ array[j].idx = NoIdx
    \/ \E x \in Nat : map(x) = j /\ Cycle(x) = array[j].cycle

(* A dequeuer is going to take what is, or is put, into the entry of x.    *)
Awaited(x) == \E u \in RingUsers : Visits(u, x) /\ ~ PassesBy(u)

(* An index in the ring is ahead of the head, or awaited.                  *)
ItemsAwaited ==
  \A x \in Nat :
    At(x).cycle = Cycle(x) /\ At(x).idx # NoIdx =>
      x < rtail /\ (x < rhead => Awaited(x))

(* An entry is emptied by the dequeuer with its ticket.                    *)
SpentVisited ==
  \A x \in Nat :
    At(x).cycle = Cycle(x) /\ At(x).idx = NoIdx =>
      x < rhead /\ \A u \in RingUsers : ~ Visits(u, x)

(* A safe entry is safe: who enqueues in it in a later cycle is not too    *)
(* late for the dequeuer.                                                  *)
SafeAwaited ==
  \A x \in Nat :
    At(x).cycle < Cycle(x) /\ At(x).safe = 1 /\ x < rhead => Awaited(x)

(* The head that an enqueuer has read makes up for an unsafe entry: the    *)
(* dequeuers that have passed since have found the same entry.             *)
UnsafeAwaited ==
  \A t \in RingUsers, x \in Nat :
    (/\ lfrPc[t] = "ecas" /\ entry[t].safe = 0 /\ AsRead(t)
     /\ map(x) = map(ticket[t]) /\ ticket[t] <= x /\ x < rhead)
    => \E u \in RingUsers : Visits(u, x) /\ (lfrPc[u] = "dlook" => entry[u] = entry[t])

RingInv ==
  /\ RingTypeOK /\ TicketsDrawn /\ MovesIndex /\ CatchesUp /\ ReadsOld /\ Written
  /\ ItemsAwaited /\ SpentVisited /\ SafeAwaited /\ UnsafeAwaited /\ OnePlaceEach

-----------------------------------------------------------------------------
(* What a step of thread t is to the invariant.                            *)
Others(t) ==
  \A u \in RingUsers : u # t =>
    /\ lfrPc'[u] = lfrPc[u] /\ ticket'[u] = ticket[u] /\ entry'[u] = entry[u]
    /\ eidx'[u] = eidx[u] /\ held'[u] = held[u]

SameRing == array' = array /\ rhead' = rhead
SameTicket(t) == ticket'[t] = ticket[t] /\ rhead' = rhead /\ rtail' = rtail

Quiet(t) ==
  /\ SameRing /\ rtail <= rtail'
  /\ lfrPc[t] \notin {"dload", "dlook"}
  /\ lfrPc'[t] \notin {"dload", "dlook", "elook", "ecas"}
  /\ lfrPc'[t] = "eload" => ticket'[t] \in Nat /\ ticket'[t] < rtail'

EnqReads(t) ==
  /\ SameRing /\ SameTicket(t)
  /\ lfrPc[t] \in {"eload", "ecas"} /\ lfrPc'[t] = "elook"
  /\ entry'[t] = At(ticket[t])

EnqTries(t) ==
  /\ SameRing /\ SameTicket(t) /\ entry'[t] = entry[t]
  /\ lfrPc[t] = "elook" /\ MayUse(t) /\ lfrPc'[t] = "ecas"

EnqPuts(t) ==
  /\ SameTicket(t)
  /\ lfrPc[t] = "ecas" /\ AsRead(t) /\ lfrPc'[t] = "ethr"
  /\ array' = [array EXCEPT ![map(ticket[t])] = Entry(Cycle(ticket[t]), 1, eidx[t])]

DeqDraws(t) ==
  /\ lfrPc[t] = "dticket" /\ lfrPc'[t] = "dload"
  /\ ticket'[t] = rhead /\ rhead' = rhead + 1 /\ rtail' = rtail /\ array' = array

DeqReads(t) ==
  /\ SameRing /\ SameTicket(t)
  /\ lfrPc[t] \in {"dload", "dlook"} /\ lfrPc'[t] = "dlook"
  /\ entry'[t] = At(ticket[t])

DeqTakes(t) ==
  /\ SameTicket(t)
  /\ lfrPc[t] = "dlook" /\ lfrPc'[t] = "idle"
  /\ entry[t].cycle = Cycle(ticket[t])
  /\ array' = [array EXCEPT ![map(ticket[t])] = [At(ticket[t]) EXCEPT !.idx = NoIdx]]

DeqPasses(t) ==
  /\ SameRing /\ SameTicket(t)
  /\ lfrPc[t] = "dlook" /\ lfrPc'[t] = "dtail"
  /\ entry[t].cycle # Cycle(ticket[t])
  /\ entry[t].cycle > Cycle(ticket[t]) \/ LeftBehind(entry[t], Cycle(ticket[t])) = entry[t]

DeqLeaves(t) ==
  /\ SameTicket(t)
  /\ lfrPc[t] = "dlook" /\ lfrPc'[t] = "dtail" /\ AsRead(t)
  /\ entry[t].cycle < Cycle(ticket[t])
  /\ array' = [array EXCEPT ![map(ticket[t])] = LeftBehind(entry[t], Cycle(ticket[t]))]

StepKind(t) ==
  \/ Quiet(t) \/ EnqReads(t) \/ EnqTries(t) \/ EnqPuts(t) \/ DeqDraws(t)
  \/ DeqReads(t) \/ DeqTakes(t) \/ DeqPasses(t) \/ DeqLeaves(t)

LEMMA StepKinds ==
  ASSUME RingTypeOK, CatchesUp, NEW t \in RingUsers, RingStep(t)
  PROVE  Others(t) /\ StepKind(t)
<1> USE DEF RingTypeOK, Goes, StepKind, SameRing, SameTicket
<1>1. CASE EnqTicket(t)
  <2>1. Others(t)
    BY <1>1 DEF EnqTicket, Others
  <2>2. Quiet(t)
    BY <1>1 DEF EnqTicket, Quiet, Idle
  <2> QED BY <2>1, <2>2
<1>2. CASE EnqLoad(t)
  <2>1. Others(t)
    BY <1>2 DEF EnqLoad, Others, Reads, lfrRing
  <2>2. EnqReads(t)
    BY <1>2 DEF EnqLoad, EnqReads, Reads, lfrRing, At
  <2> QED BY <2>1, <2>2
<1>3. CASE EnqLook(t)
  <2>1. Others(t)
    BY <1>3 DEF EnqLook, Others
  <2>2. Quiet(t) \/ EnqTries(t)
    BY <1>3 DEF EnqLook, Quiet, EnqTries, lfrRing
  <2> QED BY <2>1, <2>2
<1>4. CASE EnqCas(t)
  <2>1. Others(t)
    BY <1>4 DEF EnqCas, Others, Reads
  <2>2. EnqPuts(t) \/ EnqReads(t)
    BY <1>4 DEF EnqCas, EnqPuts, EnqReads, Reads, Writes, At
  <2> QED BY <2>1, <2>2
<1>5. CASE EnqThreshold(t)
  BY <1>5 DEF EnqThreshold, Others, Quiet, lfrRing
<1>6. CASE EnqSet(t)
  BY <1>6 DEF EnqSet, Others, Quiet
<1>7. CASE DeqStart(t)
  BY <1>7 DEF DeqStart, Others, Quiet, lfrRing, Idle
<1>8. CASE DeqTicket(t)
  BY <1>8 DEF DeqTicket, Others, DeqDraws
<1>9. CASE DeqLoad(t)
  <2>1. Others(t)
    BY <1>9 DEF DeqLoad, Others, Reads
  <2>2. DeqReads(t)
    BY <1>9 DEF DeqLoad, DeqReads, Reads, lfrRing, At
  <2> QED BY <2>1, <2>2
<1>10. CASE DeqLook(t)
  <2>1. Others(t)
    BY <1>10 DEF DeqLook, Others, Reads
  <2>2. DeqTakes(t) \/ DeqPasses(t) \/ DeqLeaves(t) \/ DeqReads(t)
    BY <1>10 DEF DeqLook, DeqTakes, DeqPasses, DeqLeaves, DeqReads, Reads, Writes, At
  <2> QED BY <2>1, <2>2
<1>11. CASE DeqTail(t)
  BY <1>11 DEF DeqTail, Others, Quiet, lfrRing
<1>12. CASE DeqCatch(t)
  BY <1>12 DEF DeqCatch, Others, Quiet, CatchesUp
<1>13. CASE DeqReadHead(t)
  BY <1>13 DEF DeqReadHead, Others, Quiet, lfrRing
<1>14. CASE DeqReadTail(t)
  BY <1>14 DEF DeqReadTail, Others, Quiet, lfrRing
<1>15. CASE DeqCount(t)
  BY <1>15 DEF DeqCount, Others, Quiet
<1> QED
  BY <1>1, <1>2, <1>3, <1>4, <1>5, <1>6, <1>7, <1>8, <1>9, <1>10, <1>11, <1>12,
     <1>13, <1>14, <1>15, Zenon DEF RingStep

LEMMA TypesKept ==
  ASSUME RingTypeOK, CatchesUp, MovesIndex, TicketsDrawn, ReadsOld,
         NEW t \in RingUsers, RingStep(t)
  PROVE  RingTypeOK' /\ CatchesUp' /\ MovesIndex'
<1>0. \A x \in Nat : map(x) \in RingSlots /\ Cycle(x) \in Int
  <2>1. \A x \in Nat : map(x) \in RingSlots /\ Cycle(x) \in Nat
    BY Tickets, Zenon DEF RingSlots
  <2> QED BY <2>1
<1> USE DEF RingTypeOK, Goes, CatchesUp, MovesIndex, Moving
<1>1. CASE EnqTicket(t)
  BY <1>1 DEF EnqTicket, RingPcs
<1>2. CASE EnqLoad(t)
  <2>1. array[map(ticket[t])] \in Entries
    BY <1>0, <1>2 DEF EnqLoad, TicketsDrawn, Enqueuing
  <2> QED BY <1>2, <2>1 DEF EnqLoad, Reads, lfrRing, RingPcs
<1>3. CASE EnqLook(t)
  BY <1>3 DEF EnqLook, lfrRing, RingPcs
<1>4. CASE EnqCas(t)
  <2>1. ticket[t] \in Nat /\ eidx[t] \in Indices
    BY <1>4 DEF EnqCas, TicketsDrawn, Enqueuing
  <2>2. array[map(ticket[t])] \in Entries /\ Entry(Cycle(ticket[t]), 1, eidx[t]) \in Entries
    BY <1>0, <2>1 DEF Entries, Entry
  <2>3. array' \in [RingSlots -> Entries] /\ entry' \in [RingUsers -> Entries]
    BY <1>4, <2>2 DEF EnqCas, Reads, Writes
  <2> QED BY <1>4, <2>3 DEF EnqCas, RingPcs
<1>5. CASE EnqThreshold(t)
  BY <1>5 DEF EnqThreshold, lfrRing, RingPcs
<1>6. CASE EnqSet(t)
  BY <1>6 DEF EnqSet, RingPcs
<1>7. CASE DeqStart(t)
  BY <1>7 DEF DeqStart, lfrRing, RingPcs
<1>8. CASE DeqTicket(t)
  BY <1>8 DEF DeqTicket, RingPcs
<1>9. CASE DeqLoad(t)
  <2>1. array[map(ticket[t])] \in Entries
    BY <1>0, <1>9 DEF DeqLoad, TicketsDrawn, Visits
  <2> QED BY <1>9, <2>1 DEF DeqLoad, Reads, lfrRing, RingPcs
<1>10. CASE DeqLook(t)
  <2>1. ticket[t] \in Nat
    BY <1>10 DEF DeqLook, TicketsDrawn, Visits
  <2>2. array[map(ticket[t])] \in Entries
    BY <1>0, <2>1
  <2>3. [array[map(ticket[t])] EXCEPT !.idx = NoIdx] \in Entries
    BY <2>2 DEF Entries
  <2>4. LeftBehind(entry[t], Cycle(ticket[t])) \in Entries
    BY <1>0, <2>1 DEF Entries, LeftBehind, Entry
  <2>5. array' \in [RingSlots -> Entries] /\ entry' \in [RingUsers -> Entries]
    BY <1>10, <2>2, <2>3, <2>4 DEF DeqLook, Reads, Writes
  <2>6. held' \in [RingUsers -> SUBSET Indices]
    <3>1. entry[t].cycle = Cycle(ticket[t]) => entry[t].idx \in Indices
      BY <1>10 DEF DeqLook, ReadsOld, Entries
    <3> QED BY <1>10, <3>1 DEF DeqLook
  <2>7. lfrPc' \in [RingUsers -> RingPcs] /\ \A u \in RingUsers : 
          lfrPc'[u] \notin {"dlook", "dtail", "idle"} => lfrPc'[u] = lfrPc[u]
    BY <1>10 DEF DeqLook, RingPcs
  <2> QED BY <1>10, <2>5, <2>6, <2>7 DEF DeqLook
<1>11. CASE DeqTail(t)
  BY <1>11 DEF DeqTail, lfrRing, RingPcs, Behind
<1>12. CASE DeqCatch(t)
  BY <1>12 DEF DeqCatch, RingPcs
<1>13. CASE DeqReadHead(t)
  BY <1>13 DEF DeqReadHead, lfrRing, RingPcs
<1>14. CASE DeqReadTail(t)
  BY <1>14 DEF DeqReadTail, lfrRing, RingPcs
<1>15. CASE DeqCount(t)
  BY <1>15 DEF DeqCount, RingPcs
<1> QED
  BY <1>1, <1>2, <1>3, <1>4, <1>5, <1>6, <1>7, <1>8, <1>9, <1>10, <1>11, <1>12,
     <1>13, <1>14, <1>15, Zenon DEF RingStep

-----------------------------------------------------------------------------
LEMMA LeqOrder ==
  ASSUME NEW e \in Entries, NEW f \in Entries, NEW g \in Entries
  PROVE  /\ Leq(e, e)
         /\ Leq(e, f) /\ Leq(f, g) => Leq(e, g)
         /\ Leq(e, f) /\ Leq(f, e) => e = f
         /\ Leq(e, f) => e.cycle <= f.cycle
BY DEF Leq, Entries

(* What an entry is after a dequeuer has left it behind.                   *)
LEMMA LeftBehindFacts ==
  ASSUME NEW e \in Entries, NEW c \in Nat, e.cycle < c
  PROVE  /\ LeftBehind(e, c) \in Entries /\ Leq(e, LeftBehind(e, c))
         /\ LeftBehind(e, c) = e => e.idx # NoIdx /\ e.safe = 0
         /\ e.idx = NoIdx => /\ LeftBehind(e, c).cycle = c /\ LeftBehind(e, c).idx = NoIdx
                             /\ LeftBehind(e, c).safe = e.safe
         /\ e.idx # NoIdx => /\ LeftBehind(e, c).cycle = e.cycle /\ LeftBehind(e, c).safe = 0
                             /\ LeftBehind(e, c).idx = e.idx
<1>1. CASE e.idx = NoIdx
  BY <1>1 DEF LeftBehind, Entry, Entries, Leq
<1>2. CASE e.idx # NoIdx
  BY <1>2 DEF LeftBehind, Entry, Entries, Leq
<1> QED BY <1>1, <1>2

(* The types of what the invariant talks about, one by one.                *)
LEMMA RingFields ==
  ASSUME RingTypeOK
  PROVE  /\ rhead \in Nat /\ rtail \in Nat /\ DOMAIN array = RingSlots
         /\ \A x \in Nat : map(x) \in RingSlots /\ Cycle(x) \in Nat
         /\ \A j \in RingSlots : array[j] \in Entries
         /\ \A t \in RingUsers : entry[t] \in Entries
         /\ \A x \in Nat : At(x) \in Entries
<1>1. \A x \in Nat : map(x) \in RingSlots /\ Cycle(x) \in Nat
  BY Tickets, Zenon DEF RingSlots
<1>2. \A j \in RingSlots : array[j] \in Entries
  BY DEF RingTypeOK
<1>3. \A x \in Nat : At(x) \in Entries
  BY <1>1, <1>2, Zenon DEF At
<1> QED BY <1>1, <1>2, <1>3 DEF RingTypeOK

LEMMA EntryFields ==
  ASSUME NEW e \in Entries
  PROVE  e.cycle \in Int /\ e.safe \in {0, 1} /\ e.idx \in Indices \cup {NoIdx}
BY DEF Entries

(* Entries only advance.                                                   *)
LEMMA Advance ==
  ASSUME RingTypeOK, TicketsDrawn, ReadsOld, NEW t \in RingUsers, StepKind(t)
  PROVE  \A j \in RingSlots : Leq(array[j], array'[j])
<1> SUFFICES ASSUME NEW j \in RingSlots PROVE Leq(array[j], array'[j])
  OBVIOUS
<1>0. array[j] \in Entries /\ DOMAIN array = RingSlots
  BY RingFields
<1>1. CASE array' = array
  BY <1>0, <1>1, LeqOrder
<1>2. CASE EnqPuts(t)
  <2>1. ticket[t] \in Nat /\ Cycle(ticket[t]) \in Nat
    BY <1>2, RingFields DEF EnqPuts, TicketsDrawn, Enqueuing
  <2>2. entry[t].cycle < Cycle(ticket[t]) /\ entry[t] = array[map(ticket[t])]
    BY <1>2 DEF EnqPuts, ReadsOld, AsRead
  <2>3. CASE j = map(ticket[t])
    <3>1. array'[j] = Entry(Cycle(ticket[t]), 1, eidx[t])
      BY <1>0, <1>2, <2>3 DEF EnqPuts
    <3>2. array'[j].cycle = Cycle(ticket[t])
      BY <3>1 DEF Entry
    <3> QED BY <2>2, <2>3, <3>2 DEF Leq
  <2>4. CASE j # map(ticket[t])
    BY <1>0, <1>2, <2>4, LeqOrder DEF EnqPuts
  <2> QED BY <2>3, <2>4
<1>3. CASE DeqTakes(t)
  <2>1. At(ticket[t]).idx # NoIdx
    BY <1>3 DEF DeqTakes, ReadsOld
  <2>2. CASE j = map(ticket[t])
    <3>1. array'[j] = [array[j] EXCEPT !.idx = NoIdx] /\ array[j].idx # NoIdx
      BY <1>0, <1>3, <2>1, <2>2 DEF DeqTakes, At
    <3> QED BY <1>0, <3>1 DEF Leq, Entries
  <2>3. CASE j # map(ticket[t])
    BY <1>0, <1>3, <2>3, LeqOrder DEF DeqTakes
  <2> QED BY <2>2, <2>3
<1>4. CASE DeqLeaves(t)
  <2>1. Cycle(ticket[t]) \in Nat /\ entry[t].cycle < Cycle(ticket[t])
    BY <1>4, RingFields DEF DeqLeaves, TicketsDrawn, Visits
  <2>2. CASE j = map(ticket[t])
    <3>1. array'[j] = LeftBehind(array[j], Cycle(ticket[t])) /\ array[j] = entry[t]
      BY <1>0, <1>4, <2>2 DEF DeqLeaves, AsRead
    <3> QED BY <1>0, <2>1, <3>1, LeftBehindFacts
  <2>3. CASE j # map(ticket[t])
    BY <1>0, <1>4, <2>3, LeqOrder DEF DeqLeaves
  <2> QED BY <2>2, <2>3
<1> QED
  BY <1>1, <1>2, <1>3, <1>4 DEF StepKind, Quiet, EnqReads, EnqTries, DeqDraws,
     DeqReads, DeqPasses, SameRing

-----------------------------------------------------------------------------
LEMMA TicketsDrawnKept ==
  ASSUME RingTypeOK, TicketsDrawn, NEW t \in RingUsers, Others(t), StepKind(t), RingTypeOK'
  PROVE  TicketsDrawn'
<1>1. rhead \in Nat /\ rtail \in Nat /\ rhead <= rhead' /\ rtail <= rtail' /\ rhead' \in Nat
      /\ rtail' \in Int
  BY DEF RingTypeOK, StepKind, Quiet, EnqReads, EnqTries, EnqPuts, DeqDraws, DeqReads,
     DeqTakes, DeqPasses, DeqLeaves, SameRing, SameTicket
<1>2. lfrPc'[t] \in {"eload", "elook", "ecas"} => ticket'[t] \in Nat /\ ticket'[t] < rtail'
  BY DEF TicketsDrawn, Enqueuing, StepKind, Quiet, EnqReads, EnqTries, EnqPuts, DeqDraws,
     DeqReads, DeqTakes, DeqPasses, DeqLeaves, SameRing, SameTicket
<1>3. lfrPc'[t] \in {"dload", "dlook"} =>
        \/ lfrPc[t] \in {"dload", "dlook"} /\ ticket'[t] = ticket[t]
        \/ ticket'[t] = rhead /\ rhead' = rhead + 1
  BY DEF StepKind, Quiet, EnqReads, EnqTries, EnqPuts, DeqDraws,
     DeqReads, DeqTakes, DeqPasses, DeqLeaves, SameRing, SameTicket
<1>4. ASSUME NEW u \in RingUsers, lfrPc'[u] \in {"eload", "elook", "ecas"}
      PROVE  ticket'[u] \in Nat /\ ticket'[u] < rtail'
  BY <1>1, <1>2, <1>4 DEF Others, TicketsDrawn, Enqueuing
<1>5. ASSUME NEW u \in RingUsers, lfrPc'[u] \in {"dload", "dlook"}
      PROVE  /\ ticket'[u] \in Nat /\ ticket'[u] < rhead'
             /\ u # t => ticket'[u] < rhead /\ lfrPc[u] \in {"dload", "dlook"} /\ ticket'[u] = ticket[u]
  BY <1>1, <1>3, <1>5 DEF Others, TicketsDrawn, Visits
<1>6. ASSUME NEW u \in RingUsers, NEW v \in RingUsers, ticket'[u] = ticket'[v],
             lfrPc'[u] \in {"dload", "dlook"}, lfrPc'[v] \in {"dload", "dlook"}, u # v, u # t
      PROVE  FALSE
  <2>1. CASE v # t
    BY <1>5, <1>6, <2>1 DEF TicketsDrawn, Visits
  <2>2. CASE v = t
    BY <1>1, <1>3, <1>5, <1>6, <2>2 DEF TicketsDrawn, Visits
  <2> QED BY <2>1, <2>2
<1> QED BY <1>4, <1>5, <1>6 DEF TicketsDrawn, Enqueuing, Visits

(* Which tickets the thread that takes the step has.                       *)
LEMMA StepTicket ==
  ASSUME RingTypeOK, TicketsDrawn, NEW t \in RingUsers
  PROVE  /\ EnqReads(t) \/ EnqTries(t) \/ EnqPuts(t) => ticket[t] \in Nat /\ ticket[t] < rtail
         /\ DeqReads(t) \/ DeqTakes(t) \/ DeqPasses(t) \/ DeqLeaves(t) =>
              ticket[t] \in Nat /\ ticket[t] < rhead /\ Visits(t, ticket[t])
<1>1. EnqReads(t) \/ EnqTries(t) \/ EnqPuts(t) => Enqueuing(t)
  BY DEF EnqReads, EnqTries, EnqPuts, Enqueuing
<1>2. DeqReads(t) \/ DeqTakes(t) \/ DeqPasses(t) \/ DeqLeaves(t) => Visits(t, ticket[t])
  BY DEF DeqReads, DeqTakes, DeqPasses, DeqLeaves, Visits
<1> QED BY <1>1, <1>2 DEF TicketsDrawn

(* The entry that the dequeuer t takes an index from, leaves behind or     *)
(* passes by.                                                              *)
LEMMA TakenEntry ==
  ASSUME RingTypeOK, TicketsDrawn, ReadsOld, NEW t \in RingUsers, DeqTakes(t), NEW x \in Nat,
         map(x) = map(ticket[t])
  PROVE  /\ At(x).cycle = Cycle(ticket[t]) /\ At(x).idx # NoIdx
         /\ array'[map(x)].cycle = Cycle(ticket[t]) /\ array'[map(x)].idx = NoIdx
         /\ array'[map(x)].safe = At(x).safe
<1>1. At(x) = At(ticket[t])
  BY DEF At
<1>2. At(x).cycle = Cycle(ticket[t]) /\ At(x).idx # NoIdx
  BY <1>1 DEF DeqTakes, ReadsOld
<1>3. array'[map(x)] = [At(x) EXCEPT !.idx = NoIdx] /\ At(x) \in Entries
  BY <1>1, RingFields DEF DeqTakes, At
<1> QED BY <1>2, <1>3 DEF Entries

LEMMA PutEntry ==
  ASSUME RingTypeOK, MovesIndex, TicketsDrawn, ReadsOld, NEW t \in RingUsers, EnqPuts(t),
         NEW x \in Nat, map(x) = map(ticket[t])
  PROVE  /\ At(x) = entry[t] /\ At(x).idx = NoIdx /\ At(x).cycle < Cycle(ticket[t])
         /\ array'[map(x)].cycle = Cycle(ticket[t]) /\ array'[map(x)].idx = eidx[t]
         /\ array'[map(x)].safe = 1 /\ eidx[t] # NoIdx
<1>1. At(x) = entry[t] /\ At(x).idx = NoIdx /\ At(x).cycle < Cycle(ticket[t])
  BY DEF EnqPuts, ReadsOld, At, AsRead
<1>2. array'[map(x)] = Entry(Cycle(ticket[t]), 1, eidx[t])
  BY RingFields DEF EnqPuts
<1>3. eidx[t] \in Indices /\ NoIdx \notin Indices
  <2>1. Moving(t)
    BY DEF EnqPuts, Moving
  <2>2. Indices \subseteq Nat
    BY Sizes DEF Indices
  <2> QED BY <2>1, <2>2, RingAssumption, Zenon DEF MovesIndex
<1> QED BY <1>1, <1>2, <1>3 DEF Entry

LEMMA LeftEntry ==
  ASSUME RingTypeOK, TicketsDrawn, NEW t \in RingUsers, DeqLeaves(t), NEW x \in Nat,
         map(x) = map(ticket[t])
  PROVE  /\ At(x) = entry[t] /\ At(x).cycle < Cycle(ticket[t])
         /\ At(x).idx = NoIdx => /\ array'[map(x)].cycle = Cycle(ticket[t])
                                 /\ array'[map(x)].idx = NoIdx
                                 /\ array'[map(x)].safe = At(x).safe
         /\ At(x).idx # NoIdx => /\ array'[map(x)].cycle = At(x).cycle
                                 /\ array'[map(x)].idx = At(x).idx
                                 /\ array'[map(x)].safe = 0
<1>1. At(x) = entry[t] /\ At(x).cycle < Cycle(ticket[t]) /\ At(x) \in Entries
  BY RingFields DEF DeqLeaves, At, AsRead
<1>2. array'[map(x)] = LeftBehind(At(x), Cycle(ticket[t])) /\ Cycle(ticket[t]) \in Nat
  BY <1>1, RingFields, StepTicket, Zenon DEF DeqLeaves
<1> QED BY <1>1, <1>2, LeftBehindFacts

(* Entries of other tickets are left alone.                                *)
LEMMA EntryKept ==
  ASSUME RingTypeOK, NEW t \in RingUsers, StepKind(t), NEW x \in Nat,
         map(x) # map(ticket[t]) \/ ~ (EnqPuts(t) \/ DeqTakes(t) \/ DeqLeaves(t))
  PROVE  array'[map(x)] = At(x)
<1>1. map(x) \in RingSlots /\ DOMAIN array = RingSlots
  BY RingFields
<1>2. CASE array' = array
  BY <1>2 DEF At
<1>3. CASE map(x) # map(ticket[t]) /\ (EnqPuts(t) \/ DeqTakes(t) \/ DeqLeaves(t))
  BY <1>1, <1>3 DEF EnqPuts, DeqTakes, DeqLeaves, At
<1> QED
  BY <1>2, <1>3 DEF StepKind, Quiet, EnqReads, EnqTries, DeqDraws, DeqReads, DeqPasses,
     SameRing

LEMMA ReadsOldKept ==
  ASSUME RingTypeOK, MovesIndex, TicketsDrawn, ReadsOld, SpentVisited,
         NEW t \in RingUsers, Others(t), StepKind(t), RingTypeOK'
  PROVE  ReadsOld'
<1>1. ASSUME NEW u \in RingUsers, u # t, lfrPc'[u] \in {"elook", "ecas", "dlook"}
      PROVE  Leq(entry'[u], array'[map(ticket'[u])])
  <2>1. HasRead(u) /\ entry'[u] = entry[u] /\ ticket'[u] = ticket[u]
    BY <1>1 DEF Others, HasRead
  <2>2. ticket[u] \in Nat
    BY <1>1, <2>1 DEF TicketsDrawn, Enqueuing, Visits, HasRead
  <2>3. Leq(entry[u], array[map(ticket[u])])
    BY <2>1 DEF ReadsOld, At
  <2>4. map(ticket[u]) \in RingSlots /\ entry[u] \in Entries
        /\ array[map(ticket[u])] \in Entries
    BY <2>2, RingFields
  <2>5. array'[map(ticket[u])] \in Entries
    BY <2>4 DEF RingTypeOK
  <2>6. Leq(array[map(ticket[u])], array'[map(ticket[u])])
    BY <2>4, Advance
  <2>7. Leq(entry[u], array'[map(ticket[u])])
    BY <2>3, <2>4, <2>5, <2>6, LeqOrder
  <2> QED BY <2>1, <2>7
<1>2. ASSUME NEW u \in RingUsers, u # t, lfrPc'[u] = "ecas"
      PROVE  entry'[u].cycle < Cycle(ticket'[u]) /\ entry'[u].idx = NoIdx
  BY <1>2 DEF Others, ReadsOld
<1>3. ASSUME NEW u \in RingUsers, u # t, lfrPc'[u] = "dlook",
             entry'[u].cycle = Cycle(ticket'[u])
      PROVE  /\ array'[map(ticket'[u])].cycle = Cycle(ticket'[u])
             /\ entry'[u].idx # NoIdx /\ array'[map(ticket'[u])].idx = entry'[u].idx
  <2> DEFINE x == ticket[u]
  <2>1. lfrPc[u] = "dlook" /\ entry'[u] = entry[u] /\ ticket'[u] = x
    BY <1>3 DEF Others
  <2>2. x \in Nat /\ Visits(u, x)
    BY <1>3, <2>1 DEF TicketsDrawn, Visits
  <2>3. At(x).cycle = Cycle(x) /\ entry[u].idx # NoIdx /\ At(x).idx = entry[u].idx
    BY <1>3, <2>1, SMTT(30) DEF ReadsOld
  <2> HIDE DEF x
  <2>4. array'[map(x)].cycle = Cycle(x) /\ array'[map(x)].idx = entry[u].idx
    <3>1. CASE map(x) # map(ticket[t]) \/ ~ (EnqPuts(t) \/ DeqTakes(t) \/ DeqLeaves(t))
      BY <2>2, <2>3, <3>1, EntryKept
    <3>2. CASE map(x) = map(ticket[t]) /\ EnqPuts(t)
      BY <2>2, <2>3, <3>2, PutEntry, SMTT(30)
    <3>3. CASE map(x) = map(ticket[t]) /\ DeqTakes(t)
      <4>1. Cycle(x) = Cycle(ticket[t]) /\ ticket[t] \in Nat /\ Visits(t, ticket[t])
        BY <2>2, <2>3, <3>3, TakenEntry, StepTicket
      <4>2. x = ticket[t]
        BY <2>2, <3>3, <4>1, Tickets, SMTT(30)
      <4> QED BY <1>3, <2>2, <4>1, <4>2, SMTT(30) DEF TicketsDrawn
    <3>4. CASE map(x) = map(ticket[t]) /\ DeqLeaves(t)
      BY <2>2, <2>3, <3>4, LeftEntry
    <3> QED BY <3>1, <3>2, <3>3, <3>4
  <2> QED BY <2>1, <2>3, <2>4
<1>4. lfrPc'[t] \in {"elook", "ecas", "dlook"} =>
        (/\ EnqReads(t) \/ EnqTries(t) \/ DeqReads(t)
         /\ ticket'[t] = ticket[t] /\ array' = array)
  BY DEF StepKind, Quiet, EnqReads, EnqTries, EnqPuts, DeqDraws,
     DeqReads, DeqTakes, DeqPasses, DeqLeaves, SameRing, SameTicket
<1>5. ASSUME lfrPc'[t] \in {"elook", "ecas", "dlook"}
      PROVE  Leq(entry'[t], array'[map(ticket'[t])])
  <2>1. ticket[t] \in Nat /\ At(ticket[t]) \in Entries
    BY <1>4, <1>5, StepTicket, RingFields
  <2>2. CASE EnqReads(t) \/ DeqReads(t)
    <3>1. entry'[t] = At(ticket[t])
      BY <2>2, SMTT(30) DEF EnqReads, DeqReads
    <3> QED BY <1>4, <1>5, <2>1, <3>1, LeqOrder DEF At
  <2>3. CASE EnqTries(t)
    BY <1>4, <1>5, <2>3, SMTT(30) DEF EnqTries, ReadsOld, At, HasRead
  <2> QED BY <1>4, <1>5, <2>2, <2>3, SMTT(30)
<1>6. ASSUME lfrPc'[t] = "ecas"
      PROVE  entry'[t].cycle < Cycle(ticket'[t]) /\ entry'[t].idx = NoIdx
  BY <1>4, <1>6 DEF EnqTries, EnqReads, DeqReads, MayUse
<1>7. ASSUME lfrPc'[t] = "dlook", entry'[t].cycle = Cycle(ticket'[t])
      PROVE  /\ array'[map(ticket'[t])].cycle = Cycle(ticket'[t])
             /\ entry'[t].idx # NoIdx /\ array'[map(ticket'[t])].idx = entry'[t].idx
  <2>1. DeqReads(t) /\ ticket'[t] = ticket[t] /\ array' = array /\ entry'[t] = At(ticket[t])
    BY <1>4, <1>7 DEF EnqReads, EnqTries, DeqReads
  <2>2. ticket[t] \in Nat /\ Visits(t, ticket[t])
    BY <2>1, StepTicket
  <2>3. At(ticket[t]).idx # NoIdx
    BY <1>7, <2>1, <2>2, SMTT(30) DEF SpentVisited
  <2> QED BY <1>7, <2>1, <2>3, SMTT(30) DEF At
<1> QED BY <1>1, <1>2, <1>3, <1>5, <1>6, <1>7, Zenon DEF ReadsOld, HasRead, At

LEMMA WrittenKept ==
  ASSUME RingTypeOK, MovesIndex, TicketsDrawn, ReadsOld, Written,
         NEW t \in RingUsers, StepKind(t)
  PROVE  Written'
<1> SUFFICES ASSUME NEW j \in RingSlots
             PROVE  \/ array'[j].cycle = -1 /\ array'[j].idx = NoIdx
                    \/ \E x \in Nat : map(x) = j /\ Cycle(x) = array'[j].cycle
  BY SMTT(30) DEF Written
<1>1. CASE EnqPuts(t) /\ j = map(ticket[t])
  BY <1>1, PutEntry, StepTicket, SMTT(30)
<1>2. CASE DeqTakes(t) /\ j = map(ticket[t])
  BY <1>2, TakenEntry, StepTicket
<1>3. CASE DeqLeaves(t) /\ j = map(ticket[t])
  <2>1. ticket[t] \in Nat
    BY <1>3, StepTicket, SMTT(30)
  <2>2. array'[j].cycle = Cycle(ticket[t]) \/ (array'[j].cycle = array[j].cycle /\ array[j].idx # NoIdx)
    BY <1>3, <2>1, LeftEntry DEF At
  <2> QED BY <1>3, <2>1, <2>2 DEF Written
<1>4. CASE ~ (EnqPuts(t) \/ DeqTakes(t) \/ DeqLeaves(t)) \/ j # map(ticket[t])
  <2>1. array'[j] = array[j]
    BY <1>4, RingFields DEF StepKind, Quiet, EnqReads, EnqTries, DeqDraws, DeqReads, DeqPasses,
       SameRing, EnqPuts, DeqTakes, DeqLeaves
  <2> QED BY <2>1 DEF Written
<1> QED BY <1>1, <1>2, <1>3, <1>4, SMTT(30)

-----------------------------------------------------------------------------
(* Who waits for an entry goes on waiting, unless it is t that stops.      *)
LEMMA AwaitedStays ==
  ASSUME RingTypeOK, TicketsDrawn, NEW t \in RingUsers, Others(t), StepKind(t),
         NEW x \in Nat, Awaited(x),
         Visits(t, x) => DeqReads(t) /\ (At(x).safe = 1 \/ At(x).cycle >= Cycle(x))
  PROVE  Awaited(x)'
<1>1. PICK u \in RingUsers : Visits(u, x) /\ ~ PassesBy(u)
  BY DEF Awaited
<1>2. CASE u # t
  <2>1. lfrPc'[u] = lfrPc[u] /\ ticket'[u] = ticket[u] /\ entry'[u] = entry[u]
    BY <1>2, SMTT(30) DEF Others
  <2> QED BY <1>1, <2>1, SMTT(30) DEF Awaited, Visits, PassesBy
<1>3. CASE u = t
  <2>1. DeqReads(t) /\ (At(x).safe = 1 \/ At(x).cycle >= Cycle(x))
    BY <1>1, <1>3
  <2>2. ticket'[t] = x /\ lfrPc'[t] = "dlook" /\ entry'[t] = At(x)
    BY <1>1, <1>3, <2>1 DEF DeqReads, SameTicket, Visits
  <2>3. At(x) \in Entries /\ Cycle(x) \in Nat
    BY RingFields
  <2>4. ~ (At(x).cycle < Cycle(x) /\ At(x).safe = 0)
    BY <2>1, <2>3, EntryFields
  <2> QED BY <2>2, <2>4 DEF Awaited, Visits, PassesBy
<1> QED BY <1>2, <1>3

(* The ticket that is drawn is awaited.                                    *)
LEMMA DrawnAwaited ==
  ASSUME RingTypeOK, NEW t \in RingUsers, StepKind(t), NEW x \in Nat, x < rhead', ~ (x < rhead)
  PROVE  DeqDraws(t) /\ x = rhead /\ Awaited(x)' /\ Visits(t, x)' /\ lfrPc'[t] = "dload"
<1>1. DeqDraws(t)
  BY DEF StepKind, Quiet, EnqReads, EnqTries, EnqPuts, DeqReads, DeqTakes, DeqPasses,
     DeqLeaves, SameRing, SameTicket
<1>2. x = rhead /\ lfrPc'[t] = "dload" /\ ticket'[t] = rhead
  BY <1>1 DEF DeqDraws, RingTypeOK
<1> QED BY <1>1, <1>2 DEF Awaited, Visits, PassesBy

(* A dequeuer that goes on to the tail was not awaited in vain.            *)
LEMMA PassesNothing ==
  ASSUME RingTypeOK, TicketsDrawn, ReadsOld, NEW t \in RingUsers, DeqPasses(t),
         NEW x \in Nat, Visits(t, x), Awaited(x)
  PROVE  At(x).cycle > Cycle(x)
<1>1. PICK u \in RingUsers : Visits(u, x) /\ ~ PassesBy(u)
  BY DEF Awaited
<1>2. ticket[t] = x /\ ~ PassesBy(t)
  BY <1>1, SMTT(30) DEF TicketsDrawn, Visits
<1>3. entry[t] \in Entries /\ At(x) \in Entries /\ Cycle(x) \in Nat
  BY RingFields
<1>4. Leq(entry[t], At(x))
  BY <1>2 DEF ReadsOld, HasRead, DeqPasses
<1>5. ~ (entry[t].cycle < Cycle(x))
  <2> SUFFICES ASSUME entry[t].cycle < Cycle(x) PROVE FALSE
    OBVIOUS
  <2>1. LeftBehind(entry[t], Cycle(x)) = entry[t]
    BY <1>2, <1>3, EntryFields DEF DeqPasses
  <2>2. entry[t].idx # NoIdx /\ entry[t].safe = 0
    BY <1>3, <2>1, LeftBehindFacts
  <2> QED BY <1>2, <2>2 DEF PassesBy, DeqPasses
<1>6. entry[t].cycle <= At(x).cycle
  BY <1>3, <1>4, LeqOrder
<1> QED BY <1>2, <1>3, <1>5, <1>6, EntryFields DEF DeqPasses

(* An enqueuer finds who it needs: whoever has a ticket for the entry, its *)
(* own or a later one, takes what is put there.                            *)
LEMMA PutAwaited ==
  ASSUME RingTypeOK, MovesIndex, TicketsDrawn, ReadsOld, SafeAwaited, UnsafeAwaited,
         NEW t \in RingUsers, EnqPuts(t), NEW x \in Nat, map(x) = map(ticket[t]),
         Cycle(ticket[t]) <= Cycle(x), ticket[t] <= x, x < rhead
  PROVE  Awaited(x) /\ ~ Visits(t, x)
<1>1. At(x) = entry[t] /\ At(x).idx = NoIdx /\ At(x).cycle < Cycle(ticket[t])
  BY PutEntry
<1>2. At(x) \in Entries /\ Cycle(x) \in Nat /\ Cycle(ticket[t]) \in Nat
  BY RingFields, StepTicket, SMTT(30)
<1>3. ~ Visits(t, x)
  BY DEF Visits, EnqPuts
<1>4. At(x).cycle < Cycle(x)
  BY <1>1, <1>2, EntryFields
<1>5. CASE At(x).safe = 1
  BY <1>3, <1>4, <1>5 DEF SafeAwaited
<1>6. CASE At(x).safe = 0
  <2>1. PICK u \in RingUsers : Visits(u, x) /\ (lfrPc[u] = "dlook" => entry[u] = entry[t])
    BY <1>1, <1>6 DEF UnsafeAwaited, EnqPuts
  <2> QED BY <1>1, <1>3, <2>1 DEF Awaited, PassesBy
<1> QED BY <1>2, <1>5, <1>6, EntryFields

LEMMA ItemsAwaitedKept ==
  ASSUME RingTypeOK, MovesIndex, TicketsDrawn, ReadsOld, ItemsAwaited, SafeAwaited, UnsafeAwaited,
         NEW t \in RingUsers, Others(t), StepKind(t), RingTypeOK'
  PROVE  ItemsAwaited'
<1> SUFFICES ASSUME NEW x \in Nat, array'[map(x)].cycle = Cycle(x), array'[map(x)].idx # NoIdx
             PROVE  x < rtail' /\ (x < rhead' => Awaited(x)')
  BY DEF ItemsAwaited, At
<1>0. rtail \in Nat /\ rtail <= rtail' /\ rtail' \in Int /\ Cycle(x) \in Nat /\ At(x) \in Entries
  BY RingFields DEF StepKind, Quiet, EnqReads, EnqTries, EnqPuts, DeqDraws, DeqReads, DeqTakes,
     DeqPasses, DeqLeaves, SameRing, SameTicket, RingTypeOK
<1>1. CASE EnqPuts(t) /\ map(x) = map(ticket[t])
  <2>1. ticket[t] \in Nat /\ ticket[t] < rtail /\ Cycle(x) = Cycle(ticket[t])
    BY <1>1, PutEntry, StepTicket
  <2>2. x = ticket[t]
    BY <1>1, <2>1, Tickets, SMTT(30)
  <2>3. rhead' = rhead /\ rtail' = rtail
    BY <1>1 DEF EnqPuts, SameTicket
  <2>4. x < rhead => Awaited(x) /\ ~ Visits(t, x)
    BY <1>0, <1>1, <2>2, PutAwaited
  <2> QED BY <2>1, <2>2, <2>3, <2>4, AwaitedStays, SMTT(30)
<1>2. CASE ~ (EnqPuts(t) /\ map(x) = map(ticket[t]))
  <2>1. At(x).cycle = Cycle(x) /\ At(x).idx # NoIdx
    <3>1. CASE map(x) # map(ticket[t]) \/ ~ (EnqPuts(t) \/ DeqTakes(t) \/ DeqLeaves(t))
      BY <3>1, EntryKept
    <3>2. CASE map(x) = map(ticket[t]) /\ DeqTakes(t)
      BY <3>2, TakenEntry
    <3>3. CASE map(x) = map(ticket[t]) /\ DeqLeaves(t)
      BY <3>3, LeftEntry
    <3> QED BY <1>2, <3>1, <3>2, <3>3
  <2>2. x < rtail /\ (x < rhead => Awaited(x))
    BY <2>1, SMTT(30) DEF ItemsAwaited
  <2>3. ASSUME Visits(t, x), x < rhead PROVE DeqReads(t)
    <3>1. ticket[t] = x
      BY <2>3 DEF Visits
    <3>2. ~ DeqTakes(t)
      BY <3>1, TakenEntry, SMTT(30)
    <3>3. ~ DeqLeaves(t)
      BY <1>0, <2>1, <3>1, LeftEntry
    <3>4. ~ DeqPasses(t)
      BY <1>0, <2>1, <2>2, <2>3, PassesNothing
    <3> QED BY <2>3, <3>2, <3>3, <3>4 DEF Visits, StepKind, Quiet, EnqReads, EnqTries, EnqPuts,
            DeqDraws
  <2>4. x < rhead => Awaited(x)'
    BY <1>0, <2>1, <2>2, <2>3, AwaitedStays
  <2> QED BY <1>0, <2>2, <2>4, DrawnAwaited
<1> QED BY <1>1, <1>2

LEMMA SpentVisitedKept ==
  ASSUME RingTypeOK, MovesIndex, TicketsDrawn, ReadsOld, SpentVisited,
         NEW t \in RingUsers, Others(t), StepKind(t), TicketsDrawn'
  PROVE  SpentVisited'
<1> SUFFICES ASSUME NEW x \in Nat, array'[map(x)].cycle = Cycle(x), array'[map(x)].idx = NoIdx
             PROVE  x < rhead' /\ \A u \in RingUsers : ~ Visits(u, x)'
  BY DEF SpentVisited, At
<1>0. rhead \in Nat /\ rhead <= rhead' /\ rhead' \in Int
  BY DEF StepKind, Quiet, EnqReads, EnqTries, EnqPuts, DeqDraws, DeqReads, DeqTakes,
     DeqPasses, DeqLeaves, SameRing, SameTicket, RingTypeOK
<1>1. CASE DeqTakes(t) /\ map(x) = map(ticket[t])
  <2>1. x = ticket[t] /\ Visits(t, x) /\ x < rhead
    BY <1>1, TakenEntry, StepTicket, Tickets, SMTT(30)
  <2>2. ASSUME NEW u \in RingUsers, Visits(u, x)' PROVE FALSE
    <3>1. u # t
      BY <1>1, <2>2 DEF DeqTakes, Visits
    <3> QED BY <2>1, <2>2, <3>1 DEF TicketsDrawn, Others, Visits
  <2> QED BY <1>0, <2>1, <2>2, SMTT(30)
<1>2. CASE DeqLeaves(t) /\ map(x) = map(ticket[t])
  <2>0. ticket[t] \in Nat /\ ticket[t] < rhead /\ Visits(t, ticket[t])
    BY <1>2, StepTicket, SMTT(30)
  <2>1. Cycle(x) = Cycle(ticket[t])
    BY <1>2, LeftEntry
  <2>11. x = ticket[t] /\ Visits(t, x) /\ x < rhead
    BY <1>2, <2>0, <2>1, Tickets, SMTT(30)
  <2>2. ASSUME NEW u \in RingUsers, Visits(u, x)' PROVE FALSE
    <3>1. u # t
      BY <1>2, <2>2 DEF DeqLeaves, Visits
    <3> QED BY <2>11, <2>2, <3>1 DEF TicketsDrawn, Others, Visits
  <2> QED BY <1>0, <2>11, <2>2
<1>3. CASE ~ (DeqTakes(t) /\ map(x) = map(ticket[t])) /\ ~ (DeqLeaves(t) /\ map(x) = map(ticket[t]))
  <2>1. ~ (EnqPuts(t) /\ map(x) = map(ticket[t]))
    BY PutEntry
  <2>2. At(x).cycle = Cycle(x) /\ At(x).idx = NoIdx
    BY <1>3, <2>1, EntryKept
  <2>3. x < rhead /\ \A u \in RingUsers : ~ Visits(u, x)
    BY <2>2 DEF SpentVisited
  <2>4. ASSUME NEW u \in RingUsers, Visits(u, x)' PROVE FALSE
    <3>1. u = t
      BY <2>3, <2>4 DEF Others, Visits
    <3> QED BY <1>0, <2>3, <2>4, <3>1 DEF Visits, StepKind, Quiet, EnqReads, EnqTries, EnqPuts,
            DeqDraws, DeqReads, DeqTakes, DeqPasses, DeqLeaves, SameTicket
  <2> QED BY <1>0, <2>3, <2>4
<1> QED BY <1>1, <1>2, <1>3

LEMMA SafeAwaitedKept ==
  ASSUME RingTypeOK, MovesIndex, TicketsDrawn, ReadsOld, SafeAwaited, UnsafeAwaited,
         NEW t \in RingUsers, Others(t), StepKind(t)
  PROVE  SafeAwaited'
<1> SUFFICES ASSUME NEW x \in Nat, array'[map(x)].cycle < Cycle(x), array'[map(x)].safe = 1,
                    x < rhead'
             PROVE  Awaited(x)'
  BY DEF SafeAwaited, At
<1> SUFFICES ASSUME x < rhead PROVE Awaited(x)'
  BY DrawnAwaited
<1>0. Cycle(x) \in Nat /\ At(x) \in Entries
  BY RingFields
<1>1. CASE EnqPuts(t) /\ map(x) = map(ticket[t])
  <2>1. ticket[t] \in Nat /\ Cycle(ticket[t]) \in Nat
    BY <1>1, StepTicket, RingFields, SMTT(30)
  <2>2. Cycle(ticket[t]) < Cycle(x)
    BY <1>1, PutEntry
  <2>3. ticket[t] <= x
    <3>1. x <= ticket[t] => Cycle(x) <= Cycle(ticket[t])
      BY <2>1, Tickets
    <3> QED BY <1>0, <2>1, <2>2, <3>1
  <2>4. Awaited(x) /\ ~ Visits(t, x)
    BY <1>0, <1>1, <2>1, <2>2, <2>3, PutAwaited, SMTT(30)
  <2> QED BY <2>4, AwaitedStays, SMTT(30)
<1>2. CASE ~ (EnqPuts(t) /\ map(x) = map(ticket[t]))
  <2>1. At(x).cycle < Cycle(x) /\ At(x).safe = 1
    <3>1. CASE map(x) # map(ticket[t]) \/ ~ (EnqPuts(t) \/ DeqTakes(t) \/ DeqLeaves(t))
      BY <3>1, EntryKept
    <3>2. CASE map(x) = map(ticket[t]) /\ DeqTakes(t)
      BY <3>2, TakenEntry
    <3>3. CASE map(x) = map(ticket[t]) /\ DeqLeaves(t)
      <4>1. Cycle(ticket[t]) \in Nat /\ At(x).cycle \in Int
        BY <1>0, <3>3, StepTicket, RingFields, EntryFields
      <4> QED BY <1>0, <3>3, <4>1, LeftEntry, SMTT(30)
    <3> QED BY <1>2, <3>1, <3>2, <3>3
  <2>2. Awaited(x)
    BY <2>1, SMTT(30) DEF SafeAwaited
  <2>3. ASSUME Visits(t, x) PROVE DeqReads(t)
    <3>1. ticket[t] = x
      BY <2>3 DEF Visits
    <3>2. ~ DeqTakes(t)
      BY <1>0, <2>1, <3>1, TakenEntry
    <3>3. ~ DeqLeaves(t)
      BY <1>0, <3>1, LeftEntry
    <3>4. ~ DeqPasses(t)
      BY <1>0, <2>1, <2>2, <2>3, PassesNothing, EntryFields
    <3> QED BY <2>3, <3>2, <3>3, <3>4, Zenon DEF Visits, StepKind, Quiet, EnqReads, EnqTries, EnqPuts,
            DeqDraws
  <2> QED BY <2>1, <2>2, <2>3, AwaitedStays
<1> QED BY <1>1, <1>2

LEMMA UnsafeAwaitedKept ==
  ASSUME RingTypeOK, MovesIndex, TicketsDrawn, ReadsOld, UnsafeAwaited,
         NEW t \in RingUsers, Others(t), StepKind(t), RingTypeOK'
  PROVE  UnsafeAwaited'
<1> SUFFICES ASSUME NEW v \in RingUsers, NEW x \in Nat,
                    lfrPc'[v] = "ecas", entry'[v].safe = 0,
                    array'[map(ticket'[v])] = entry'[v],
                    map(x) = map(ticket'[v]), ticket'[v] <= x, x < rhead'
             PROVE  \E u \in RingUsers :
                      Visits(u, x)' /\ (lfrPc'[u] = "dlook" => entry'[u] = entry'[v])
  BY SMTT(30) DEF UnsafeAwaited, AsRead
<1>1. v # t
  <2> SUFFICES ASSUME v = t PROVE FALSE
    OBVIOUS
  <2>1. EnqTries(t)
    BY DEF StepKind, Quiet, EnqReads, EnqPuts, DeqDraws, DeqReads, DeqTakes, DeqPasses, DeqLeaves
  <2>2. rhead' = rhead /\ ticket'[t] = ticket[t] /\ entry'[t] = entry[t] /\ rhead \in Nat
    BY <2>1, SMTT(30) DEF EnqTries, SameTicket, RingTypeOK
  <2>3. rhead <= ticket[t] /\ ticket[t] \in Nat
    BY <2>1, <2>2, StepTicket, SMTT(30) DEF EnqTries, MayUse
  <2> QED BY <2>2, <2>3
<1>2. lfrPc[v] = "ecas" /\ entry'[v] = entry[v] /\ ticket'[v] = ticket[v]
  BY <1>1, SMTT(30) DEF Others
<1>3. ticket[v] \in Nat /\ entry[v].cycle < Cycle(ticket[v]) /\ entry[v].idx = NoIdx
      /\ Leq(entry[v], At(ticket[v]))
  BY <1>2, Zenon DEF TicketsDrawn, Enqueuing, ReadsOld, HasRead
<1>4. At(x) = entry[v] /\ array'[map(x)] = At(x)
  <2>1. At(x) = At(ticket[v]) /\ At(x) \in Entries /\ entry[v] \in Entries
    BY <1>2, RingFields, SMTT(30) DEF At
  <2>2. Leq(At(x), array'[map(x)]) /\ array'[map(x)] = entry[v]
    BY <1>2, Advance, RingFields, SMTT(30) DEF At
  <2> QED BY <1>3, <2>1, <2>2, LeqOrder, Zenon
<1>5. CASE ~ (x < rhead)
  BY <1>5, DrawnAwaited
<1>6. CASE x < rhead
  <2>1. PICK u \in RingUsers : Visits(u, x) /\ (lfrPc[u] = "dlook" => entry[u] = entry[v])
    BY <1>2, <1>4, <1>6, SMTT(30) DEF UnsafeAwaited, AsRead, At
  <2>2. CASE u # t
    BY <1>2, <2>1, <2>2 DEF Others, Visits
  <2>3. CASE u = t
    <3>1. ticket[t] = x /\ lfrPc[t] \in {"dload", "dlook"}
      BY <2>1, <2>3, SMTT(30) DEF Visits
    <3>2. Cycle(x) \in Nat /\ Cycle(ticket[v]) \in Nat /\ Cycle(ticket[v]) <= Cycle(x)
      BY <1>2, <1>3, Tickets
    <3>3. At(x).cycle \in Int /\ At(x).cycle < Cycle(x) /\ At(x).idx = NoIdx /\ At(x) \in Entries
      BY <1>3, <1>4, <3>2, RingFields, EntryFields
    <3>4. ~ DeqTakes(t)
      BY <3>1, <3>2, <3>3, TakenEntry, SMTT(30)
    <3>5. ~ DeqLeaves(t)
      BY <1>4, <3>1, <3>2, <3>3, LeftEntry, SMTT(30)
    <3>6. ~ DeqPasses(t)
      <4> SUFFICES ASSUME DeqPasses(t) PROVE FALSE
        OBVIOUS
      <4>1. entry[t] = At(x)
        BY <1>4, <2>1, <2>3 DEF DeqPasses
      <4>2. LeftBehind(At(x), Cycle(x)) = At(x)
        BY <3>1, <3>2, <3>3, <4>1, SMTT(30) DEF DeqPasses
      <4> QED BY <3>2, <3>3, <4>2, LeftBehindFacts, SMTT(30)
    <3>7. DeqReads(t)
      BY <3>1, <3>4, <3>5, <3>6, Zenon DEF StepKind, Quiet, EnqReads, EnqTries, EnqPuts, DeqDraws
    <3>8. Visits(t, x)' /\ entry'[t] = At(x)
      BY <3>1, <3>7 DEF DeqReads, SameTicket, Visits
    <3> QED BY <1>2, <1>4, <3>8, SMTT(30)
  <2> QED BY <2>2, <2>3, SMTT(30)
<1> QED BY <1>5, <1>6, SMTT(30)

-----------------------------------------------------------------------------
(* One place each, place by place.                                         *)
Somewhere(i) ==
  \/ \E t \in RingUsers : i \in held[t]
  \/ \E t \in RingUsers : Moving(t) /\ eidx[t] = i
  \/ \E j \in RingSlots : array[j].idx = i

NotTwice(i) ==
  /\ \A t, u \in RingUsers : i \in held[t] /\ i \in held[u] => t = u
  /\ \A t, u \in RingUsers : ~ (i \in held[t] /\ Moving(u) /\ eidx[u] = i)
  /\ \A t \in RingUsers, j \in RingSlots : ~ (i \in held[t] /\ array[j].idx = i)
  /\ \A t, u \in RingUsers : Moving(t) /\ Moving(u) /\ eidx[t] = i /\ eidx[u] = i => t = u
  /\ \A t \in RingUsers, j \in RingSlots : ~ (Moving(t) /\ eidx[t] = i /\ array[j].idx = i)
  /\ \A j, k \in RingSlots : array[j].idx = i /\ array[k].idx = i => j = k

PlacesApart == \A i \in Indices : Somewhere(i) /\ NotTwice(i)

LEMMA OnePlaceMeans == OnePlaceEach <=> PlacesApart
<1> SUFFICES ASSUME NEW i \in Indices
             PROVE  (\E p \in Places(i) : Places(i) = {p}) <=> Somewhere(i) /\ NotTwice(i)
  BY Zenon DEF OnePlaceEach, PlacesApart
<1>1. i # NoIdx
  <2>1. Indices \subseteq Nat
    BY Sizes DEF Indices
  <2> QED BY <2>1, RingAssumption
<1>2. \A p : p \in Places(i) <=>
        \/ \E t \in RingUsers : p = <<"held", t>> /\ i \in held[t]
        \/ \E t \in RingUsers : p = <<"moving", t>> /\ Moving(t) /\ eidx[t] = i
        \/ \E j \in RingSlots : p = <<"ring", j>> /\ array[j].idx = i
  BY <1>1 DEF Places, Items, RingSlots
<1>3. ASSUME NEW p \in Places(i), Places(i) = {p} PROVE Somewhere(i) /\ NotTwice(i)
  <2>1. Somewhere(i)
    BY <1>2, <1>3 DEF Somewhere
  <2>2. \A a, b \in Places(i) : a = b
    BY <1>3
  <2> HIDE DEF Places
  <2>3. \A t \in RingUsers : /\ i \in held[t] => <<"held", t>> \in Places(i)
                             /\ Moving(t) /\ eidx[t] = i => <<"moving", t>> \in Places(i)
    BY <1>2, Zenon
  <2>4. \A j \in RingSlots : array[j].idx = i => <<"ring", j>> \in Places(i)
    BY <1>2, Zenon
  <2>5. \A x, y : /\ <<"held", x>> # <<"moving", y>> /\ <<"held", x>> # <<"ring", y>>
                  /\ <<"moving", x>> # <<"ring", y>>
                  /\ <<"held", x>> = <<"held", y>> => x = y
                  /\ <<"moving", x>> = <<"moving", y>> => x = y
                  /\ <<"ring", x>> = <<"ring", y>> => x = y
    OBVIOUS
  <2>6. NotTwice(i)
    <3>1. \A t, u \in RingUsers : i \in held[t] /\ i \in held[u] => t = u
      BY <2>2, <2>3, <2>5, Zenon
    <3>2. \A t, u \in RingUsers : ~ (i \in held[t] /\ Moving(u) /\ eidx[u] = i)
      BY <2>2, <2>3, <2>5, Zenon
    <3>3. \A t \in RingUsers, j \in RingSlots : ~ (i \in held[t] /\ array[j].idx = i)
      BY <2>2, <2>3, <2>4, <2>5, Zenon
    <3>4. \A t, u \in RingUsers :
            Moving(t) /\ Moving(u) /\ eidx[t] = i /\ eidx[u] = i => t = u
      BY <2>2, <2>3, <2>5, Zenon
    <3>5. \A t \in RingUsers, j \in RingSlots :
            ~ (Moving(t) /\ eidx[t] = i /\ array[j].idx = i)
      BY <2>2, <2>3, <2>4, <2>5, Zenon
    <3>6. \A j, k \in RingSlots : array[j].idx = i /\ array[k].idx = i => j = k
      BY <2>2, <2>4, <2>5, Zenon
    <3> QED BY <3>1, <3>2, <3>3, <3>4, <3>5, <3>6 DEF NotTwice
  <2> QED BY <2>1, <2>6
<1>4. ASSUME Somewhere(i), NotTwice(i) PROVE \E p \in Places(i) : Places(i) = {p}
  <2>1. PICK p : p \in Places(i)
    BY <1>2, <1>4, Zenon DEF Somewhere
  <2>2. \A a, b \in Places(i) : a = b
    <3> SUFFICES ASSUME NEW a, NEW b, a \in Places(i), b \in Places(i) PROVE a = b
      OBVIOUS
    <3> HIDE DEF Places
    <3>1. CASE \E t \in RingUsers : a = <<"held", t>> /\ i \in held[t]
      BY <1>2, <1>4, <3>1 DEF NotTwice
    <3>2. CASE \E t \in RingUsers : a = <<"moving", t>> /\ Moving(t) /\ eidx[t] = i
      BY <1>2, <1>4, <3>2 DEF NotTwice
    <3>3. CASE \E j \in RingSlots : a = <<"ring", j>> /\ array[j].idx = i
      BY <1>2, <1>4, <3>3, SMTT(30) DEF NotTwice
    <3> QED BY <1>2, <3>1, <3>2, <3>3, Zenon
  <2> QED BY <2>1, <2>2
<1> QED BY <1>3, <1>4

(* An index moves from one place to another, or nothing moves.             *)
LEMMA PlacesKept ==
  ASSUME RingTypeOK, MovesIndex, TicketsDrawn, ReadsOld, PlacesApart,
         NEW t \in RingUsers, Others(t), RingStep(t)
  PROVE  PlacesApart'
<1>0. NoIdx \notin Indices
  <2>1. Indices \subseteq Nat
    BY Sizes DEF Indices
  <2> QED BY <2>1, RingAssumption, Zenon
<1>1. CASE EnqTicket(t) /\ Idle(t)
  <2>1. PICK k \in held[t] : eidx'[t] = k /\ held'[t] = held[t] \ {k}
    BY <1>1 DEF EnqTicket, Idle, RingTypeOK
  <2>2. array' = array /\ ~ Moving(t) /\ Moving(t)' /\ k \in Indices
    BY <1>1, <2>1 DEF EnqTicket, Idle, Moving, RingTypeOK, Goes
  <2>3. \A u \in RingUsers : u # t => (Moving(u)' <=> Moving(u)) /\ eidx'[u] = eidx[u]
                                     /\ held'[u] = held[u]
    BY DEF Others, Moving
  <2> SUFFICES ASSUME NEW i \in Indices PROVE Somewhere(i)' /\ NotTwice(i)'
    BY DEF PlacesApart, Indices
  <2>4. Somewhere(i) /\ NotTwice(i)
    BY DEF PlacesApart
  <2>5. Somewhere(i)'
    BY <2>1, <2>2, <2>3, <2>4 DEF Somewhere
  <2>6. \A u \in RingUsers :
          /\ i \in held'[u] <=> (i \in held[u] /\ ~ (u = t /\ i = k))
          /\ (Moving(u)' /\ eidx'[u] = i) <=> ((Moving(u) /\ eidx[u] = i) \/ (u = t /\ i = k))
    BY <2>1, <2>2, <2>3, SMTT(30)
  <2>7. NotTwice(i)'
    BY <2>1, <2>2, <2>4, <2>6 DEF NotTwice
  <2> QED BY <2>5, <2>7
<1>2. CASE EnqCas(t) /\ AsRead(t)
  <2> DEFINE s == map(ticket[t])
  <2>1. ticket[t] \in Nat /\ Moving(t) /\ ~ Moving(t)'
    BY <1>2 DEF EnqCas, Moving, TicketsDrawn, Enqueuing, RingTypeOK, Goes
  <2>2. s \in RingSlots /\ eidx[t] \in Indices /\ array[s].idx = NoIdx
    <3>1. s \in RingSlots
      BY <2>1, RingFields, SMTT(30)
    <3>2. eidx[t] \in Indices
      BY <2>1, SMTT(30) DEF MovesIndex
    <3>3. array[s] = entry[t] /\ entry[t].idx = NoIdx
      BY <1>2, SMTT(30) DEF EnqCas, ReadsOld, AsRead
    <3> QED BY <3>1, <3>2, <3>3, SMTT(30)
  <2>3. held' = held /\ eidx' = eidx /\ array'[s].idx = eidx[t]
        /\ \A j \in RingSlots : j # s => array'[j] = array[j]
    <3>1. array' = [array EXCEPT ![s] = Entry(Cycle(ticket[t]), 1, eidx[t])]
          /\ held' = held /\ eidx' = eidx
      BY <1>2, Zenon DEF EnqCas, Writes
    <3>2. DOMAIN array = RingSlots
      BY RingFields
    <3> HIDE DEF s
    <3> QED BY <2>2, <3>1, <3>2, Zenon DEF Entry
  <2>4. \A u \in RingUsers : u # t => (Moving(u)' <=> Moving(u))
    BY DEF Others, Moving
  <2> HIDE DEF s
  <2> SUFFICES ASSUME NEW i \in Indices PROVE Somewhere(i)' /\ NotTwice(i)'
    BY DEF PlacesApart, Indices
  <2>5. Somewhere(i) /\ NotTwice(i) /\ i # NoIdx
    BY <1>0 DEF PlacesApart
  <2>6. Somewhere(i)'
    BY <2>1, <2>2, <2>3, <2>4, <2>5, SMTT(30) DEF Somewhere
  <2>7. NotTwice(i)'
    BY <2>1, <2>2, <2>3, <2>4, <2>5 DEF NotTwice
  <2> QED BY <2>6, <2>7
<1>3. CASE DeqLook(t) /\ entry[t].cycle = Cycle(ticket[t])
  <2> DEFINE s == map(ticket[t])
             k == entry[t].idx
  <2>1. ticket[t] \in Nat /\ ~ Moving(t) /\ ~ Moving(t)' /\ eidx' = eidx
    BY <1>3 DEF DeqLook, Moving, TicketsDrawn, Visits, RingTypeOK, Goes
  <2>2. s \in RingSlots /\ array[s].idx = k /\ k # NoIdx
    BY <1>3, <2>1, RingFields, SMTT(30) DEF DeqLook, ReadsOld, At
  <2>3. k \in Indices
    BY <2>2, RingFields, EntryFields
  <2>4. entry[t].cycle \in Int /\ array[s] \in Entries
    BY <2>2, RingFields, EntryFields
  <2>5. held'[t] = held[t] \cup {k} /\ array' = [array EXCEPT ![s] = [array[s] EXCEPT !.idx = NoIdx]]
    BY <1>3, <2>4 DEF DeqLook, Writes, RingTypeOK
  <2>6. array'[s].idx = NoIdx /\ \A j \in RingSlots : j # s => array'[j] = array[j]
    BY <2>2, <2>4, <2>5, RingFields DEF Entries
  <2>7. \A u \in RingUsers : u # t => (Moving(u)' <=> Moving(u)) /\ held'[u] = held[u]
    BY DEF Others, Moving
  <2> HIDE DEF s, k
  <2> SUFFICES ASSUME NEW i \in Indices PROVE Somewhere(i)' /\ NotTwice(i)'
    BY DEF PlacesApart, Indices
  <2>8. Somewhere(i) /\ NotTwice(i) /\ i # NoIdx
    BY <1>0 DEF PlacesApart
  <2>9. Somewhere(i)'
    BY <2>1, <2>2, <2>5, <2>6, <2>7, <2>8 DEF Somewhere
  <2>10. NotTwice(i)'
    BY <2>1, <2>2, <2>5, <2>6, <2>7, <2>8 DEF NotTwice
  <2> QED BY <2>9, <2>10
<1>4. CASE /\ ~ (EnqTicket(t) /\ Idle(t)) /\ ~ (EnqCas(t) /\ AsRead(t))
           /\ ~ (DeqLook(t) /\ entry[t].cycle = Cycle(ticket[t]))
  <2>1. held' = held /\ eidx' = eidx
    BY <1>4 DEF RingStep, EnqTicket, EnqLoad, EnqLook, EnqCas, EnqThreshold, EnqSet, DeqStart,
       DeqTicket, DeqLoad, DeqLook, DeqTail, DeqCatch, DeqReadHead, DeqReadTail, DeqCount
  <2>2. Moving(t)' <=> Moving(t)
    BY <1>4 DEF RingStep, EnqTicket, EnqLoad, EnqLook, EnqCas, EnqThreshold, EnqSet, DeqStart,
       DeqTicket, DeqLoad, DeqLook, DeqTail, DeqCatch, DeqReadHead, DeqReadTail, DeqCount,
       Moving, Goes, RingTypeOK, Idle
  <2>3. \A j \in RingSlots : array'[j].idx = array[j].idx
    <3>1. CASE DeqLook(t)
      <4>1. ticket[t] \in Nat
        BY <3>1 DEF DeqLook, TicketsDrawn, Visits
      <4>2. \/ array' = array
            \/ array' = [array EXCEPT ![map(ticket[t])] = LeftBehind(entry[t], Cycle(ticket[t]))]
               /\ AsRead(t)
        BY <1>4, <3>1 DEF DeqLook, Writes
      <4>3. LeftBehind(entry[t], Cycle(ticket[t])).idx = entry[t].idx
        BY SMTT(30) DEF LeftBehind, Entry
      <4> QED BY <4>1, <4>2, <4>3, RingFields DEF AsRead
    <3>2. CASE ~ DeqLook(t)
      BY <1>4, <3>2, Zenon DEF RingStep, EnqTicket, EnqLoad, EnqLook, EnqCas, EnqThreshold, EnqSet, DeqStart,
         DeqTicket, DeqLoad, DeqTail, DeqCatch, DeqReadHead, DeqReadTail, DeqCount, lfrRing
    <3> QED BY <3>1, <3>2, SMTT(30)
  <2>4. \A u \in RingUsers : Moving(u)' <=> Moving(u)
    BY <2>2, Zenon DEF Others, Moving
  <2> SUFFICES ASSUME NEW i \in Indices PROVE Somewhere(i)' /\ NotTwice(i)'
    BY DEF PlacesApart, Indices
  <2>5. Somewhere(i) /\ NotTwice(i)
    BY DEF PlacesApart
  <2>6. Somewhere(i)'
    BY <2>1, <2>3, <2>4, <2>5, SMTT(30) DEF Somewhere
  <2>7. NotTwice(i)'
    BY <2>1, <2>3, <2>4, <2>5, SMTT(30) DEF NotTwice
  <2> QED BY <2>6, <2>7
<1> QED BY <1>1, <1>2, <1>3, <1>4

-----------------------------------------------------------------------------
(* The two kinds of initial ring.                                          *)
LEMMA EmptyRing ==
  ASSUME LfrInit, array = [j \in 0..(n - 1) |-> Entry(-1, 1, NoIdx)],
         \E u \in RingUsers : held = [t \in RingUsers |-> IF t = u THEN 0..(half - 1) ELSE {}]
  PROVE  /\ array \in [RingSlots -> Entries] /\ held \in [RingUsers -> SUBSET Indices]
         /\ Written /\ ItemsAwaited /\ SpentVisited /\ PlacesApart
<1>1. \A j \in RingSlots : array[j] = Entry(-1, 1, NoIdx)
  BY DEF RingSlots
<1>2. Entry(-1, 1, NoIdx) \in Entries /\ Entry(-1, 1, NoIdx).cycle = -1
      /\ Entry(-1, 1, NoIdx).idx = NoIdx
  BY DEF Entry, Entries
<1>3. \A x \in Nat : map(x) \in RingSlots /\ Cycle(x) \in Nat
  BY Tickets, Zenon DEF RingSlots
<1>4. \A x \in Nat : At(x).cycle # Cycle(x)
  <2>1. -1 \notin Nat
    OBVIOUS
  <2>2. \A x \in Nat : At(x).cycle = -1
    BY <1>1, <1>2, <1>3, Zenon DEF At
  <2> QED BY <1>3, <2>1, <2>2, Zenon
<1>5. NoIdx \notin Indices
  <2>1. Indices \subseteq Nat
    BY Sizes DEF Indices
  <2> QED BY <2>1, RingAssumption, Zenon
<1>6. PICK u \in RingUsers : \A t \in RingUsers : held[t] = IF t = u THEN Indices ELSE {}
  BY DEF Indices
<1>7. \A t \in RingUsers : ~ Moving(t)
  BY DEF LfrInit, Moving
<1>8. PlacesApart
  BY <1>1, <1>2, <1>5, <1>6, <1>7, Zenon DEF PlacesApart, Somewhere, NotTwice
<1> QED
  BY <1>1, <1>2, <1>4, <1>8 DEF Written, ItemsAwaited, SpentVisited, RingSlots, Indices

(* The index that lfring_init_full puts into the entry of ticket i.        *)
Fill(i) == raw_map(n + i, Order, half)

LEMMA FillFacts ==
  ASSUME RingMin <= Order
  PROVE  /\ \A i \in 0..(half - 1) : Fill(i) \in Indices
         /\ \A i, k \in 0..(half - 1) : Fill(i) = Fill(k) => i = k
         /\ \A v \in Indices : \E i \in 0..(half - 1) : Fill(i) = v
<1>0. half \in Nat \ {0} /\ n = 2 * half /\ Order \in Nat
  BY Sizes, RingAssumption
<1>1. \A i \in 0..(half - 1) : n + i \in Nat /\ i \in Nat /\ (n + i) % half = i /\ i % half = i
  <2> SUFFICES ASSUME NEW i \in 0..(half - 1)
               PROVE  n + i \in Nat /\ i \in Nat /\ (n + i) % half = i /\ i % half = i
    OBVIOUS
  <2>0. 2 \in Int /\ 0 \in Int
    OBVIOUS
  <2>1. (2 * half + i) % half = i
    BY <1>0, <2>0, DivMod, Zenon
  <2>2. (0 * half + i) % half = i
    BY <1>0, <2>0, DivMod, Zenon
  <2>3. 0 * half + i = i /\ 2 * half + i = n + i /\ i \in Nat /\ n + i \in Nat
    BY <1>0
  <2> QED BY <2>1, <2>2, <2>3, Zenon
<1>2. \A i \in 0..(half - 1) : Fill(i) \in Indices
  BY <1>0, <1>1, RawMap, Sizes, Zenon DEF Indices, Fill
<1>3. \A i, k \in 0..(half - 1) : Fill(i) = Fill(k) => i = k
  <2> SUFFICES ASSUME NEW i \in 0..(half - 1), NEW k \in 0..(half - 1), Fill(i) = Fill(k)
               PROVE  i = k
    OBVIOUS
  <2>1. raw_map(n + i, Order, pow2[Order]) = raw_map(n + k, Order, pow2[Order])
    BY Sizes, Zenon DEF Fill
  <2>2. (n + i) % pow2[Order] = (n + k) % pow2[Order]
    BY <1>0, <1>1, <2>1, RawMap, Zenon
  <2> QED BY <1>1, <2>2, Sizes, Zenon
<1>4. \A v \in Indices : \E i \in 0..(half - 1) : Fill(i) = v
  <2> SUFFICES ASSUME NEW v \in Indices PROVE \E i \in 0..(half - 1) : Fill(i) = v
    OBVIOUS
  <2>1. v \in Nat /\ v < half
    BY <1>0 DEF Indices
  <2>2. PICK i \in 0..(half - 1) : raw_map(i, Order, half) = v
    BY <1>0, <2>1, RawMap, Sizes, Zenon
  <2>3. (n + i) % half = i % half
    BY <1>1
  <2>4. raw_map(n + i, Order, half) = raw_map(i, Order, half)
    BY <1>0, <1>1, <2>3, RawMap, Sizes, Zenon
  <2> QED BY <2>2, <2>4 DEF Fill
<1> QED BY <1>2, <1>3, <1>4

LEMMA InverseFacts ==
  ASSUME NEW inv, \A i \in 0..(n - 1) : inv[map(i)] = i
  PROVE  /\ \A j \in RingSlots : inv[j] \in 0..(n - 1) /\ map(inv[j]) = j
         /\ \A i \in 0..(half - 1) :
              i \in Nat /\ i < half /\ map(i) \in RingSlots /\ inv[map(i)] = i /\ Cycle(i) = 0
<1>0. half \in Nat \ {0} /\ n = 2 * half /\ Order + 1 \in Nat /\ RingMin <= Order + 1
  BY Sizes, RingAssumption
<1>1. \A j \in RingSlots : inv[j] \in 0..(n - 1) /\ map(inv[j]) = j
  <2> SUFFICES ASSUME NEW j \in RingSlots PROVE inv[j] \in 0..(n - 1) /\ map(inv[j]) = j
    OBVIOUS
  <2>1. j \in Nat /\ j < n
    BY <1>0 DEF RingSlots
  <2>2. j < pow2[Order + 1]
    BY <2>1, Sizes, Zenon
  <2>3. PICK i \in 0..(pow2[Order + 1] - 1) : raw_map(i, Order + 1, pow2[Order + 1]) = j
    BY <1>0, <2>1, <2>2, RawMap, Zenon
  <2>4. i \in 0..(n - 1) /\ map(i) = j
    BY <2>3, Sizes, Zenon DEF map
  <2> QED BY <2>4
<1>2. ASSUME NEW i \in 0..(half - 1)
      PROVE  i \in Nat /\ i < half /\ map(i) \in RingSlots /\ inv[map(i)] = i /\ Cycle(i) = 0
  <2>1. i \in Nat /\ i < n /\ i < half /\ i \in 0..(n - 1)
    BY <1>0
  <2>2. map(i) \in RingSlots /\ Cycle(i) = 0
    BY <2>1, Tickets, Zenon DEF RingSlots
  <2> QED BY <2>1, <2>2
<1> QED BY <1>1, <1>2

LEMMA FullRing ==
  ASSUME LfrInit, 1 \in StartFull, rtail = half, NEW inv,
         \A i \in 0..(n - 1) : inv[map(i)] = i,
         \A j \in RingSlots : array[j] = IF inv[j] < half THEN Entry(0, 0, Fill(inv[j]))
                                         ELSE Entry(-1, 1, NoIdx),
         \A t \in RingUsers : held[t] = {}
  PROVE  /\ \A j \in RingSlots : array[j] \in Entries
         /\ Written /\ ItemsAwaited /\ SpentVisited /\ PlacesApart
<1> DEFINE In(j) == inv[j] < half
<1>0. half \in Nat \ {0} /\ n = 2 * half /\ NoIdx \notin Indices
  BY Sizes, RingAssumption DEF Indices
<1>1. /\ \A i \in 0..(half - 1) : Fill(i) \in Indices
      /\ \A i, k \in 0..(half - 1) : Fill(i) = Fill(k) => i = k
      /\ \A v \in Indices : \E i \in 0..(half - 1) : Fill(i) = v
  BY FillFacts, RingAssumption, Zenon
<1>2. /\ \A j \in RingSlots : inv[j] \in 0..(n - 1) /\ map(inv[j]) = j
      /\ \A i \in 0..(half - 1) :
           i \in Nat /\ i < half /\ map(i) \in RingSlots /\ inv[map(i)] = i /\ Cycle(i) = 0
  BY InverseFacts, Zenon
<1>3. \A j \in RingSlots : In(j) => inv[j] \in 0..(half - 1)
  BY <1>0, <1>2
<1>4. \A j \in RingSlots :
        /\ In(j) => array[j] = Entry(0, 0, Fill(inv[j])) /\ Fill(inv[j]) \in Indices
        /\ ~ In(j) => array[j] = Entry(-1, 1, NoIdx)
  BY <1>1, <1>3, Zenon
<1> HIDE DEF In
<1>5. \A v \in Indices : Entry(0, 0, v) \in Entries /\ Entry(0, 0, v).cycle = 0
                        /\ Entry(0, 0, v).idx = v
  BY DEF Entry, Entries
<1>6. Entry(-1, 1, NoIdx) \in Entries /\ Entry(-1, 1, NoIdx).cycle = -1
      /\ Entry(-1, 1, NoIdx).idx = NoIdx
  BY DEF Entry, Entries
<1>7. \A j \in RingSlots :
        /\ array[j] \in Entries
        /\ In(j) => array[j].cycle = 0 /\ array[j].idx = Fill(inv[j]) /\ array[j].idx \in Indices
        /\ ~ In(j) => array[j].cycle = -1 /\ array[j].idx = NoIdx
  <2> SUFFICES ASSUME NEW j \in RingSlots
               PROVE  /\ array[j] \in Entries
                      /\ In(j) => /\ array[j].cycle = 0 /\ array[j].idx = Fill(inv[j])
                                  /\ array[j].idx \in Indices
                      /\ ~ In(j) => array[j].cycle = -1 /\ array[j].idx = NoIdx
    OBVIOUS
  <2>1. CASE In(j)
    <3>1. array[j] = Entry(0, 0, Fill(inv[j])) /\ Fill(inv[j]) \in Indices
      BY <1>4, <2>1, Zenon
    <3> QED BY <1>5, <2>1, <3>1, Zenon
  <2>2. CASE ~ In(j)
    <3>1. array[j] = Entry(-1, 1, NoIdx)
      BY <1>4, <2>2, Zenon
    <3> QED BY <1>6, <2>2, <3>1, Zenon
  <2> QED BY <2>1, <2>2, SMTT(30)
<1>8. Written
  <2> SUFFICES ASSUME NEW j \in RingSlots, In(j)
               PROVE  \E x \in Nat : map(x) = j /\ Cycle(x) = array[j].cycle
    BY <1>7, Zenon DEF Written
  <2>1. inv[j] \in 0..(half - 1)
    BY <1>3, Zenon
  <2> QED BY <1>2, <1>7, <2>1, Zenon
<1>9. \A x \in Nat : map(x) \in RingSlots /\ Cycle(x) \in Nat
  BY Tickets, Zenon DEF RingSlots
<1>10. ASSUME NEW x \in Nat, At(x).cycle = Cycle(x) PROVE x < rtail /\ At(x).idx # NoIdx
  <2>0. -1 \notin Nat
    OBVIOUS
  <2>1. In(map(x)) /\ Cycle(x) = 0 /\ At(x).idx \in Indices
    BY <1>7, <1>9, <1>10, <2>0, Zenon DEF At
  <2>2. inv[map(x)] \in 0..(half - 1)
    BY <1>3, <1>9, <2>1, Zenon
  <2>3. inv[map(x)] \in Nat /\ map(inv[map(x)]) = map(x) /\ Cycle(inv[map(x)]) = 0
        /\ inv[map(x)] < half
    BY <1>2, <1>9, <2>2, Zenon
  <2>4. x = inv[map(x)]
    BY <2>1, <2>3, Tickets, Zenon
  <2>5. x < rtail
    BY <2>3, <2>4, Zenon
  <2> QED BY <1>0, <2>1, <2>5, Zenon
<1>11. ItemsAwaited /\ SpentVisited
  <2>1. \A x \in Nat : ~ (x < rhead)
    BY DEF LfrInit
  <2> QED BY <1>10, <2>1, Zenon DEF ItemsAwaited, SpentVisited
<1>12. \A t \in RingUsers : ~ Moving(t)
  BY DEF LfrInit, Moving
<1>13. ASSUME NEW v \in Indices PROVE \E j \in RingSlots : array[j].idx = v
  <2>1. PICK i \in 0..(half - 1) : Fill(i) = v
    BY <1>1, Zenon
  <2>2. map(i) \in RingSlots /\ inv[map(i)] = i /\ inv[map(i)] < half
    BY <1>2, Zenon
  <2>3. In(map(i))
    BY <2>2 DEF In
  <2> QED BY <1>7, <2>1, <2>2, <2>3, Zenon
<1>14. ASSUME NEW v \in Indices, NEW j \in RingSlots, NEW k \in RingSlots,
              array[j].idx = v, array[k].idx = v
       PROVE  j = k
  <2>1. In(j) /\ In(k) /\ Fill(inv[j]) = Fill(inv[k])
    BY <1>0, <1>7, <1>14, Zenon
  <2>2. inv[j] = inv[k]
    BY <1>1, <1>3, <2>1, Zenon
  <2> QED BY <1>2, <2>2, Zenon
<1>15. PlacesApart
  BY <1>12, <1>13, <1>14, Zenon DEF PlacesApart, Somewhere, NotTwice
<1> QED BY <1>7, <1>8, <1>11, <1>15, Zenon

LEMMA RingInitInv == LfrInit => RingInv
<1> SUFFICES ASSUME LfrInit PROVE RingInv
  OBVIOUS
<1>1. half \in Nat /\ n \in Nat
  BY Sizes
<1>2. /\ array \in [RingSlots -> Entries] /\ held \in [RingUsers -> SUBSET Indices]
      /\ Written /\ ItemsAwaited /\ SpentVisited /\ PlacesApart
  <2>1. CASE /\ array = [j \in 0..(n - 1) |-> Entry(-1, 1, NoIdx)]
             /\ \E u \in RingUsers :
                  held = [t \in RingUsers |-> IF t = u THEN 0..(half - 1) ELSE {}]
    BY <2>1, EmptyRing
  <2>2. CASE /\ 1 \in StartFull /\ rtail = half
             /\ \E inv \in [0..(n - 1) -> 0..(n - 1)] :
                  /\ \A i \in 0..(n - 1) : inv[map(i)] = i
                  /\ array = [j \in 0..(n - 1) |->
                       IF inv[j] < half THEN Entry(0, 0, raw_map(n + inv[j], Order, half))
                       ELSE Entry(-1, 1, NoIdx)]
             /\ held = [t \in RingUsers |-> {}]
    <3>1. PICK inv \in [0..(n - 1) -> 0..(n - 1)] :
            /\ \A i \in 0..(n - 1) : inv[map(i)] = i
            /\ array = [j \in 0..(n - 1) |->
                 IF inv[j] < half THEN Entry(0, 0, Fill(inv[j])) ELSE Entry(-1, 1, NoIdx)]
      BY <2>2, Zenon DEF Fill
    <3>2. \A j \in RingSlots : array[j] = IF inv[j] < half THEN Entry(0, 0, Fill(inv[j]))
                                          ELSE Entry(-1, 1, NoIdx)
      BY <3>1, Zenon DEF RingSlots
    <3>3. \A t \in RingUsers : held[t] = {}
      BY <2>2
    <3>4. /\ \A j \in RingSlots : array[j] \in Entries
          /\ Written /\ ItemsAwaited /\ SpentVisited /\ PlacesApart
      BY <2>2, <3>1, <3>2, <3>3, FullRing, Zenon
    <3>5. array = [j \in RingSlots |-> array[j]] /\ held = [t \in RingUsers |-> {}]
      BY <2>2, <3>1 DEF RingSlots
    <3> QED BY <3>4, <3>5
  <2> QED BY <2>1, <2>2, Zenon DEF LfrInit
<1>3. RingTypeOK
  <2>1. rhead \in Nat /\ rtail \in Nat
    BY <1>1 DEF LfrInit
  <2>2. entry \in [RingUsers -> Entries]
    BY SMTT(30) DEF LfrInit, Entry, Entries
  <2> QED BY <1>2, <2>1, <2>2 DEF LfrInit, RingTypeOK, RingPcs
<1>4. TicketsDrawn /\ MovesIndex /\ CatchesUp /\ ReadsOld
  BY DEF LfrInit, TicketsDrawn, MovesIndex, CatchesUp, ReadsOld, Enqueuing, Visits, Moving, HasRead
<1>5. SafeAwaited /\ UnsafeAwaited
  BY DEF LfrInit, SafeAwaited, UnsafeAwaited
<1> QED BY <1>2, <1>3, <1>4, <1>5, OnePlaceMeans DEF RingInv

LEMMA RingStepInv == RingInv /\ [RingNext]_lfrVars => RingInv'
<1> SUFFICES ASSUME RingInv, [RingNext]_lfrVars PROVE RingInv'
  OBVIOUS
<1> USE DEF RingInv
<1>1. ASSUME NEW t \in RingUsers, RingStep(t) PROVE RingInv'
  <2>1. Others(t) /\ StepKind(t)
    BY <1>1, StepKinds
  <2>2. RingTypeOK' /\ CatchesUp' /\ MovesIndex'
    BY <1>1, TypesKept
  <2>3. TicketsDrawn'
    BY <1>1, <2>1, <2>2, TicketsDrawnKept
  <2>4. ReadsOld' /\ Written'
    BY <1>1, <2>1, <2>2, ReadsOldKept, WrittenKept
  <2>5. ItemsAwaited' /\ SpentVisited'
    BY <1>1, <2>1, <2>2, <2>3, ItemsAwaitedKept, SpentVisitedKept
  <2>6. SafeAwaited' /\ UnsafeAwaited'
    BY <1>1, <2>1, <2>2, SafeAwaitedKept, UnsafeAwaitedKept
  <2>7. PlacesApart'
    BY <1>1, <2>1, OnePlaceMeans, PlacesKept
  <2>8. OnePlaceEach'
    BY <2>7, OnePlaceMeans, PTL
  <2> QED BY <2>2, <2>3, <2>4, <2>5, <2>6, <2>8
<1>2. CASE UNCHANGED lfrVars
  <2> USE <1>2 DEF lfrVars, lfrRing, userVars
  <2>1. RingTypeOK' /\ TicketsDrawn' /\ MovesIndex' /\ CatchesUp'
    BY SMTT(30) DEF RingTypeOK, TicketsDrawn, MovesIndex, CatchesUp, Moving, Enqueuing, Visits
  <2>2. ReadsOld' /\ Written'
    BY Zenon DEF ReadsOld, Written, HasRead, At
  <2>3. ItemsAwaited' /\ SpentVisited' /\ SafeAwaited'
    BY SMTT(30) DEF ItemsAwaited, SpentVisited, SafeAwaited, Visits, At, Awaited, PassesBy
  <2>4. UnsafeAwaited'
    BY SMTT(30) DEF UnsafeAwaited, Visits, AsRead
  <2>5. OnePlaceEach'
    BY DEF OnePlaceEach, Places, Items, Moving
  <2> QED BY <2>1, <2>2, <2>3, <2>4, <2>5, SMTT(30)
<1> QED BY <1>1, <1>2 DEF RingNext

LEMMA RingInvKeeps == RingInv => IndicesKept
<1> SUFFICES ASSUME RingInv, NEW j \in Items
             PROVE  \/ TicketOf(j) >= rhead
                    \/ \E t \in RingUsers : /\ ticket[t] = TicketOf(j)
                                            /\ lfrPc[t] \in {"dload", "dlook"}
  BY DEF RingInv, IndicesKept, NoIndexLost
<1>1. j \in RingSlots /\ array[j].idx # NoIdx
  BY DEF Items, RingSlots
<1>2. PICK x \in Nat : map(x) = j /\ Cycle(x) = array[j].cycle
  BY <1>1 DEF RingInv, Written
<1>3. x < rtail /\ (x < rhead => Awaited(x))
  BY <1>1, <1>2 DEF RingInv, ItemsAwaited, At
<1>4. x \in 0..(rtail + n) /\ rhead \in Nat
  BY <1>3, Sizes DEF RingInv, RingTypeOK
<1>5. \A y \in 0..(rtail + n) : map(y) = j /\ Cycle(y) = array[j].cycle => y = x
  <2>1. \A y \in 0..(rtail + n) : y \in Nat
    OBVIOUS
  <2> QED BY <1>2, <2>1, Tickets, Zenon
<1>6. TicketOf(j) = x
  BY <1>2, <1>4, <1>5, Zenon DEF TicketOf
<1> QED BY <1>3, <1>4, <1>6 DEF Awaited, Visits

(* lfring_enqueue and lfring_dequeue, with any number of threads and a     *)
(* ring of any order: an index is never lost, and never given to two       *)
(* threads.                                                                *)
THEOREM RingKeepsIndices == RingSpec => []IndicesKept
<1>1. RingSpec => []RingInv
  BY RingInitInv, RingStepInv, PTL DEF RingSpec
<1> QED BY <1>1, RingInvKeeps, PTL

=============================================================================
