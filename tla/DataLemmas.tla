----------------------------- MODULE DataLemmas -----------------------------
(***************************************************************************)
(* Facts about the data, without a state.  What the ring buffers rely on,  *)
(* whatever their capacity and the width of their counters: %, the         *)
(* distance of two counters that wrap, the slots behind them, and the      *)
(* queue that the slots between the two counters hold.  And what the       *)
(* receivers rely on: how many numbers a set of them can leave out.        *)
(***************************************************************************)
EXTENDS Integers, Sequences, FiniteSets, SequenceTheorems, FiniteSetTheorems, TLAPS

\* Two different multiples of n are at least n apart.
LEMMA MultipleGap ==
  ASSUME NEW n \in Nat, NEW a \in Int, NEW b \in Int, a < b
  PROVE  a * n + n <= b * n
<1>1. PICK d \in Nat : b = a + 1 + d
  <2>1. b - a - 1 \in Nat /\ b = a + 1 + (b - a - 1)
    OBVIOUS
  <2> QED
    BY <2>1
<1>2. b * n = a * n + n + d * n
  BY <1>1
<1>3. d * n >= 0
  OBVIOUS
<1> QED
  BY <1>2, <1>3

\* What % and \div return, for any dividend.
LEMMA DivMod ==
  ASSUME NEW n \in Nat \ {0}, NEW x \in Int
  PROVE  /\ x % n \in 0 .. n - 1
         /\ x \div n \in Int
         /\ x = n * (x \div n) + (x % n)
  OBVIOUS

\* A multiple of n does not change the remainder.
LEMMA ModUnique ==
  ASSUME NEW n \in Nat \ {0}, NEW k \in Int, NEW r \in 0 .. n - 1
  PROVE  (k * n + r) % n = r
<1> DEFINE x == k * n + r
           p == x \div n
           s == x % n
<1>1. x \in Int
  OBVIOUS
<1>2. s \in 0 .. n - 1 /\ p \in Int /\ x = n * p + s
  BY <1>1, DivMod
<1>3. p * n + s = k * n + r
  BY <1>2
<1> HIDE DEF x, p, s
<1>4. ~(p < k)
  BY <1>2, <1>3, MultipleGap
<1>5. ~(k < p)
  BY <1>2, <1>3, MultipleGap
<1>6. p = k
  BY <1>2, <1>4, <1>5
<1>7. s = r
  BY <1>2, <1>3, <1>6
<1> QED
  BY <1>7 DEF s, x

LEMMA ModShift ==
  ASSUME NEW n \in Nat \ {0}, NEW k \in Int, NEW x \in Int
  PROVE  (x + k * n) % n = x % n
<1> DEFINE p == x \div n
           s == x % n
<1>1. s \in 0 .. n - 1 /\ p \in Int /\ x = n * p + s
  BY DivMod
<1> HIDE DEF p, s
<1>2. x + k * n = (p + k) * n + s
  BY <1>1
<1>3. ((p + k) * n + s) % n = s
  BY <1>1, ModUnique
<1> QED
  BY <1>2, <1>3 DEF s

\* A number below the modulus is its own remainder.
LEMMA ModSmall ==
  ASSUME NEW n \in Nat \ {0}, NEW r \in 0 .. n - 1
  PROVE  r % n = r
<1>1. (0 * n + r) % n = r
  BY ModUnique
<1> QED
  BY <1>1

\* The difference of two remainders leaves what the difference leaves.
LEMMA ModDifference ==
  ASSUME NEW n \in Nat \ {0}, NEW x \in Int, NEW y \in Int
  PROVE  ((x % n) - (y % n)) % n = (x - y) % n
<1> DEFINE p == x \div n
           q == y \div n
           r == x % n
           s == y % n
<1>1. /\ r \in Int /\ p \in Int /\ x = n * p + r
      /\ s \in Int /\ q \in Int /\ y = n * q + s
  BY DivMod
<1> HIDE DEF p, q, r, s
<1>2. x - y = (r - s) + (p - q) * n
  BY <1>1
<1>3. ((r - s) + (p - q) * n) % n = (r - s) % n
  <2>1. r - s \in Int /\ p - q \in Int
    BY <1>1
  <2> QED
    BY <2>1, ModShift
<1> QED
  BY <1>2, <1>3 DEF r, s

\* Two numbers less than n apart with the same remainder are equal.
LEMMA ModWindow ==
  ASSUME NEW n \in Nat \ {0}, NEW x \in Int, NEW y \in Int,
         y <= x, x < y + n, x % n = y % n
  PROVE  x = y
<1> DEFINE p == x \div n
           q == y \div n
<1>1. p \in Int /\ x = n * p + (x % n) /\ x % n \in Int
  BY DivMod
<1>2. q \in Int /\ y = n * q + (y % n) /\ y % n \in Int
  BY DivMod
<1> HIDE DEF p, q
<1>3. x - y = p * n - q * n
  BY <1>1, <1>2
<1>4. ~(p < q)
  BY <1>1, <1>2, <1>3, MultipleGap
<1>5. ~(q < p)
  BY <1>1, <1>2, <1>3, MultipleGap
<1> QED
  BY <1>1, <1>2, <1>3, <1>4, <1>5
-----------------------------------------------------------------------------
(***************************************************************************)
(* Counters modulo M, and C slots.                                         *)
(***************************************************************************)

\* The capacity divides the range of the counters and is less than it.
IsRing(C, M) ==
  /\ C \in Nat \ {0}
  /\ M \in Nat \ {0}
  /\ C < M
  /\ M % C = 0

Counters(M) == 0 .. M - 1

\* The counter after c, and how far the counter b lies behind a.
Succ(M, c)      == (c + 1) % M
Behind(M, a, b) == (a - b) % M

\* C slots with a content in S each.
IsBuffer(b, C, S) == C \in Nat \ {0} /\ b \in [0 .. C - 1 -> S]

\* The slots of buffer b from counter t on, read as a sequence of length n.
Contents(b, C, t, n) == [i \in 1 .. n |-> b[(t + i - 1) % C]]

LEMMA BehindValue ==
  ASSUME NEW M \in Nat \ {0}, NEW a \in Counters(M), NEW b \in Counters(M)
  PROVE  /\ Behind(M, a, b) = IF a >= b THEN a - b ELSE a - b + M
         /\ Behind(M, a, b) \in Counters(M)
<1>1. CASE a >= b
  <2>1. a - b \in 0 .. M - 1
    BY <1>1 DEF Counters
  <2> QED
    BY <1>1, <2>1, ModSmall DEF Behind, Counters
<1>2. CASE a < b
  <2>1. a - b + M \in 0 .. M - 1
    BY <1>2 DEF Counters
  <2>2. a - b = (-1) * M + (a - b + M)
    BY DEF Counters
  <2>3. ((-1) * M + (a - b + M)) % M = a - b + M
    BY <2>1, ModUnique
  <2> QED
    BY <1>2, <2>1, <2>2, <2>3 DEF Behind, Counters
<1> QED
  BY <1>1, <1>2 DEF Counters

LEMMA SuccValue ==
  ASSUME NEW M \in Nat \ {0}, NEW c \in Counters(M)
  PROVE  /\ Succ(M, c) = IF c = M - 1 THEN 0 ELSE c + 1
         /\ Succ(M, c) \in Counters(M)
<1>1. CASE c = M - 1
  <2>1. (1 * M + 0) % M = 0
    BY ModUnique
  <2> QED
    BY <1>1, <2>1 DEF Succ, Counters
<1>2. CASE c # M - 1
  <2>1. c + 1 \in 0 .. M - 1
    BY <1>2 DEF Counters
  <2> QED
    BY <1>2, <2>1, ModSmall DEF Succ, Counters
<1> QED
  BY <1>1, <1>2

LEMMA BehindZero ==
  ASSUME NEW M \in Nat \ {0}, NEW a \in Counters(M), NEW b \in Counters(M)
  PROVE  /\ Behind(M, a, b) \in Nat
         /\ a # b => Behind(M, a, b) > 0
         /\ a = b => Behind(M, a, b) = 0
<1>1. /\ Behind(M, a, b) = IF a >= b THEN a - b ELSE a - b + M
      /\ Behind(M, a, b) \in Counters(M)
  BY BehindValue
<1> QED
  BY <1>1 DEF Counters

\* The leading counter moves away, the trailing one closes in.
LEMMA BehindSuccLeft ==
  ASSUME NEW C, NEW M, IsRing(C, M),
         NEW a \in Counters(M), NEW b \in Counters(M), Behind(M, a, b) < C
  PROVE  Behind(M, Succ(M, a), b) = Behind(M, a, b) + 1
<1>0. C \in Nat \ {0} /\ M \in Nat \ {0} /\ C < M
  BY DEF IsRing
<1>1. Succ(M, a) \in Counters(M) /\ Succ(M, a) = IF a = M - 1 THEN 0 ELSE a + 1
  BY <1>0, SuccValue
<1>2. Behind(M, Succ(M, a), b)
        = IF Succ(M, a) >= b THEN Succ(M, a) - b ELSE Succ(M, a) - b + M
  BY <1>0, <1>1, BehindValue
<1>3. Behind(M, a, b) = IF a >= b THEN a - b ELSE a - b + M
  BY <1>0, BehindValue
<1> QED
  BY <1>0, <1>1, <1>2, <1>3 DEF Counters

LEMMA BehindSuccRight ==
  ASSUME NEW M \in Nat \ {0}, NEW a \in Counters(M), NEW b \in Counters(M), a # b
  PROVE  Behind(M, a, Succ(M, b)) = Behind(M, a, b) - 1
<1>1. Succ(M, b) \in Counters(M) /\ Succ(M, b) = IF b = M - 1 THEN 0 ELSE b + 1
  BY SuccValue
<1>2. Behind(M, a, Succ(M, b))
        = IF a >= Succ(M, b) THEN a - Succ(M, b) ELSE a - Succ(M, b) + M
  BY <1>1, BehindValue
<1>3. Behind(M, a, b) = IF a >= b THEN a - b ELSE a - b + M
  BY BehindValue
<1> QED
  BY <1>1, <1>2, <1>3 DEF Counters
-----------------------------------------------------------------------------
(***************************************************************************)
(* Slots.                                                                  *)
(***************************************************************************)

LEMMA SlotRange ==
  ASSUME NEW C \in Nat \ {0}, NEW x \in Nat
  PROVE  x % C \in 0 .. C - 1
  BY DivMod

\* Within any C consecutive counters the slots are all different.
LEMMA SlotDistinct ==
  ASSUME NEW C \in Nat \ {0}, NEW x \in Nat, NEW y \in Nat, y < x, x < y + C
  PROVE  x % C # y % C
<1> SUFFICES ASSUME x % C = y % C PROVE FALSE
  OBVIOUS
<1>1. x \in Int /\ y \in Int /\ y <= x
  OBVIOUS
<1>2. x = y
  BY <1>1, ModWindow
<1> QED
  BY <1>2

LEMMA CapacityDivides ==
  ASSUME NEW C, NEW M, IsRing(C, M)
  PROVE  \E k \in Int : M = k * C
<1>1. C \in Nat \ {0} /\ M \in Int /\ M % C = 0
  BY DEF IsRing
<1>2. M = C * (M \div C) + (M % C) /\ M \div C \in Int
  BY <1>1, DivMod
<1>3. M = (M \div C) * C
  BY <1>1, <1>2
<1> QED
  BY <1>2, <1>3

\* The wrap of the counter is invisible in the slots.
LEMMA SlotWrap ==
  ASSUME NEW C, NEW M, IsRing(C, M), NEW x \in Nat
  PROVE  (x + M) % C = x % C
<1>1. C \in Nat \ {0} /\ x \in Int
  BY DEF IsRing
<1>2. PICK k \in Int : M = k * C
  BY CapacityDivides
<1>3. (x + k * C) % C = x % C
  BY <1>1, ModShift
<1> QED
  BY <1>2, <1>3

\* So is its reduction modulo M.
LEMMA SlotReduced ==
  ASSUME NEW C, NEW M, IsRing(C, M), NEW x \in Int
  PROVE  (x % M) % C = x % C
<1> DEFINE r == x % M
           q == x \div M
<1>1. C \in Nat \ {0} /\ M \in Nat \ {0}
  BY DEF IsRing
<1>2. r \in Int /\ q \in Int /\ x = M * q + r
  <2>1. /\ x % M \in 0 .. M - 1 /\ x \div M \in Int
        /\ x = M * (x \div M) + (x % M)
    BY <1>1, DivMod
  <2> QED
    BY <1>1, <2>1
<1> HIDE DEF r, q
<1>3. PICK k \in Int : M = k * C
  BY CapacityDivides
<1>4. x = r + (q * k) * C
  BY <1>1, <1>2, <1>3
<1>5. (r + (q * k) * C) % C = r % C
  <2>1. q * k \in Int
    BY <1>2, <1>3
  <2> QED
    BY <1>1, <1>2, <2>1, ModShift
<1> QED
  BY <1>4, <1>5 DEF r

\* The slot of a leading counter is as many slots past that of the trailing
\* one as the counter is ahead.
LEMMA SlotAhead ==
  ASSUME NEW C, NEW M, IsRing(C, M), NEW h \in Counters(M), NEW t \in Counters(M)
  PROVE  (t + Behind(M, h, t)) % C = h % C
<1>0. M \in Nat \ {0} /\ h \in Nat /\ t \in Nat
  BY DEF IsRing, Counters
<1>1. Behind(M, h, t) = IF h >= t THEN h - t ELSE h - t + M
  BY <1>0, BehindValue
<1>2. CASE h >= t
  <2>1. t + Behind(M, h, t) = h
    BY <1>0, <1>1, <1>2
  <2> QED
    BY <2>1
<1>3. CASE h < t
  <2>1. t + Behind(M, h, t) = h + M
    BY <1>0, <1>1, <1>3
  <2> QED
    BY <1>0, <2>1, SlotWrap
<1> QED
  BY <1>0, <1>2, <1>3

\* The slot after the slot of a counter, whether or not the counter wraps.
LEMMA SlotOfSucc ==
  ASSUME NEW C, NEW M, IsRing(C, M), NEW t \in Counters(M), NEW i \in Nat
  PROVE  (Succ(M, t) + i) % C = (t + 1 + i) % C
<1>0. M \in Nat \ {0} /\ t \in Nat
  BY DEF IsRing, Counters
<1>1. Succ(M, t) = IF t = M - 1 THEN 0 ELSE t + 1
  BY <1>0, SuccValue
<1>2. CASE t = M - 1
  <2>1. t + 1 + i = i + M /\ Succ(M, t) + i = i
    BY <1>0, <1>1, <1>2
  <2>2. (i + M) % C = i % C
    BY SlotWrap
  <2> QED
    BY <2>1, <2>2
<1>3. CASE t # M - 1
  BY <1>1, <1>3
<1> QED
  BY <1>2, <1>3

\* The slots of two counters differ while less than C and more than nothing
\* lies between them.
LEMMA SlotsApart ==
  ASSUME NEW C, NEW M, IsRing(C, M), NEW h \in Counters(M), NEW t \in Counters(M),
         0 < Behind(M, h, t), Behind(M, h, t) < C
  PROVE  h % C # t % C
<1>0. C \in Nat \ {0} /\ M \in Nat \ {0} /\ t \in Nat
  BY DEF IsRing, Counters
<1>1. Behind(M, h, t) \in Nat
  BY <1>0, BehindZero
<1>2. (t + Behind(M, h, t)) % C # t % C
  BY <1>0, <1>1, SlotDistinct
<1> QED
  BY <1>2, SlotAhead
-----------------------------------------------------------------------------
(***************************************************************************)
(* The queue between two counters.                                         *)
(***************************************************************************)

LEMMA ContentsIsSeq ==
  ASSUME NEW C, NEW S, NEW b, IsBuffer(b, C, S), NEW t \in Nat, NEW n \in Nat
  PROVE  /\ Contents(b, C, t, n) \in Seq(S)
         /\ Len(Contents(b, C, t, n)) = n
         /\ \A i \in 1 .. n : Contents(b, C, t, n)[i] = b[(t + i - 1) % C]
<1>1. \A i \in 1 .. n : b[(t + i - 1) % C] \in S
  <2> SUFFICES ASSUME NEW i \in 1 .. n PROVE b[(t + i - 1) % C] \in S
    OBVIOUS
  <2>1. t + i - 1 \in Nat
    OBVIOUS
  <2>2. (t + i - 1) % C \in 0 .. C - 1
    BY <2>1, SlotRange DEF IsBuffer
  <2> QED
    BY <2>2 DEF IsBuffer
<1> QED
  BY <1>1, IsASeq DEF Contents

\* A write to the slot of the leading counter leaves the queue alone while
\* there is room.
LEMMA WriteKeepsContents ==
  ASSUME NEW C, NEW M, IsRing(C, M), NEW S, NEW b, IsBuffer(b, C, S),
         NEW h \in Counters(M), NEW t \in Counters(M), Behind(M, h, t) < C,
         NEW d, \A i \in 0 .. C - 1 : i # h % C => d[i] = b[i]
  PROVE  Contents(d, C, t, Behind(M, h, t)) = Contents(b, C, t, Behind(M, h, t))
<1> DEFINE n == Behind(M, h, t)
<1>0. C \in Nat \ {0} /\ M \in Nat \ {0} /\ t \in Nat
  BY DEF IsRing, Counters
<1>1. n \in Nat /\ n < C
  BY <1>0, BehindZero
<1>2. (t + n) % C = h % C
  BY SlotAhead
<1> HIDE DEF n
<1>3. ASSUME NEW i \in 1 .. n
      PROVE  d[(t + i - 1) % C] = b[(t + i - 1) % C]
  <2>1. t + i - 1 \in Nat /\ t + n \in Nat
        /\ t + i - 1 < t + n /\ t + n < t + i - 1 + C
    BY <1>0, <1>1
  <2>2. (t + n) % C # (t + i - 1) % C
    BY <1>0, <2>1, SlotDistinct
  <2>3. (t + i - 1) % C \in 0 .. C - 1
    BY <1>0, <2>1, SlotRange
  <2> QED
    BY <1>2, <2>2, <2>3 DEF IsBuffer
<1>4. Contents(d, C, t, n) = Contents(b, C, t, n)
  BY <1>3, Zenon DEF Contents
<1> QED
  BY <1>4 DEF n

\* Moving the leading counter appends the slot it was at.
LEMMA SuccAppends ==
  ASSUME NEW C, NEW M, IsRing(C, M), NEW S, NEW b, IsBuffer(b, C, S),
         NEW h \in Counters(M), NEW t \in Counters(M), Behind(M, h, t) < C
  PROVE  Contents(b, C, t, Behind(M, Succ(M, h), t))
           = Append(Contents(b, C, t, Behind(M, h, t)), b[h % C])
<1> DEFINE n == Behind(M, h, t)
           q == Contents(b, C, t, n)
           k == n + 1
           p == Contents(b, C, t, k)
           e == b[h % C]
<1>0. C \in Nat \ {0} /\ M \in Nat \ {0} /\ t \in Nat /\ h \in Nat
  BY DEF IsRing, Counters
<1>1. n \in Nat
  BY <1>0, BehindZero
<1>2. Behind(M, Succ(M, h), t) = n + 1
  BY BehindSuccLeft
<1>3. (t + n) % C = h % C
  BY SlotAhead
<1>4. e \in S
  BY <1>0, SlotRange DEF IsBuffer
<1> HIDE DEF n
<1>c. ASSUME NEW x \in Nat, NEW m \in Nat
      PROVE  /\ Contents(b, C, x, m) \in Seq(S) /\ Len(Contents(b, C, x, m)) = m
             /\ \A i \in 1 .. m : Contents(b, C, x, m)[i] = b[(x + i - 1) % C]
  BY ContentsIsSeq, SMT
<1>5. /\ q \in Seq(S) /\ Len(q) = n
      /\ \A i \in 1 .. n : q[i] = b[(t + i - 1) % C]
  BY <1>0, <1>1, <1>c
<1>6. /\ p \in Seq(S) /\ Len(p) = n + 1
      /\ \A i \in 1 .. n + 1 : p[i] = b[(t + i - 1) % C]
  <2>1. k \in Nat /\ k = n + 1
    BY <1>1
  <2> HIDE DEF k
  <2>2. /\ p \in Seq(S) /\ Len(p) = k
        /\ \A i \in 1 .. k : p[i] = b[(t + i - 1) % C]
    BY <1>0, <2>1, <1>c
  <2> QED
    BY <2>1, <2>2
<1> HIDE DEF p, q
<1>7. p[n + 1] = e
  <2>1. p[n + 1] = b[(t + (n + 1) - 1) % C]
    BY <1>1, <1>6
  <2>2. t + (n + 1) - 1 = t + n
    BY <1>0, <1>1
  <2> QED
    BY <1>3, <2>1, <2>2
<1> HIDE DEF e
<1>8. /\ Append(q, e) \in Seq(S)
      /\ Len(Append(q, e)) = n + 1
      /\ \A i \in 1 .. n : Append(q, e)[i] = q[i]
      /\ Append(q, e)[n + 1] = e
  BY <1>4, <1>5, AppendProperties
<1>9. ASSUME NEW i \in 1 .. n + 1 PROVE p[i] = Append(q, e)[i]
  <2>1. CASE i = n + 1
    BY <1>7, <1>8, <2>1
  <2>2. CASE i \in 1 .. n
    BY <1>5, <1>6, <1>8, <2>2
  <2>3. i = n + 1 \/ i \in 1 .. n
    BY <1>1
  <2> QED
    BY <2>1, <2>2, <2>3, Zenon
<1>10. p = Append(q, e)
  BY <1>6, <1>8, <1>9, SeqEqual
<1> QED
  BY <1>2, <1>10 DEF k, p, q, n, e

\* Moving the trailing counter takes the slot it was at.
LEMMA SuccTakesHead ==
  ASSUME NEW C, NEW M, IsRing(C, M), NEW S, NEW b, IsBuffer(b, C, S),
         NEW h \in Counters(M), NEW t \in Counters(M), h # t
  PROVE  /\ Contents(b, C, t, Behind(M, h, t)) # <<>>
         /\ Head(Contents(b, C, t, Behind(M, h, t))) = b[t % C]
         /\ Contents(b, C, Succ(M, t), Behind(M, h, Succ(M, t)))
              = Tail(Contents(b, C, t, Behind(M, h, t)))
<1> DEFINE n == Behind(M, h, t)
           u == Succ(M, t)
           q == Contents(b, C, t, n)
           p == Contents(b, C, u, n - 1)
<1>0. C \in Nat \ {0} /\ M \in Nat \ {0} /\ t \in Nat
  BY DEF IsRing, Counters
<1>1. n \in Nat /\ 0 < n
  BY <1>0, BehindZero
<1>2. Behind(M, h, u) = n - 1
  BY <1>0, BehindSuccRight
<1>3. u \in Nat
  BY <1>0, SuccValue DEF Counters
<1>4. \A i \in Nat : (u + i) % C = (t + 1 + i) % C
  BY SlotOfSucc
<1> HIDE DEF n, u
<1>c. ASSUME NEW x \in Nat, NEW k \in Nat
      PROVE  /\ Contents(b, C, x, k) \in Seq(S) /\ Len(Contents(b, C, x, k)) = k
             /\ \A i \in 1 .. k : Contents(b, C, x, k)[i] = b[(x + i - 1) % C]
  BY ContentsIsSeq, SMT
<1>5. /\ q \in Seq(S) /\ Len(q) = n
      /\ \A i \in 1 .. n : q[i] = b[(t + i - 1) % C]
  BY <1>0, <1>1, <1>c
<1>6. /\ p \in Seq(S) /\ Len(p) = n - 1
      /\ \A i \in 1 .. n - 1 : p[i] = b[(u + i - 1) % C]
  <2>1. n - 1 \in Nat
    BY <1>1
  <2> QED
    BY <1>3, <2>1, <1>c
<1> HIDE DEF p, q
<1>7. q # <<>>
  BY <1>1, <1>5, EmptySeq
<1>8. Head(q) = b[t % C]
  <2>1. q[1] = b[(t + 1 - 1) % C] /\ t + 1 - 1 = t
    BY <1>0, <1>1, <1>5
  <2> QED
    BY <1>5, <1>7, <2>1, HeadTailProperties
<1>9. /\ Tail(q) \in Seq(S)
      /\ Len(Tail(q)) = n - 1
      /\ \A i \in 1 .. n - 1 : Tail(q)[i] = q[i + 1]
  BY <1>1, <1>5, <1>7, HeadTailProperties
<1>10. ASSUME NEW i \in 1 .. n - 1 PROVE p[i] = Tail(q)[i]
  <2>1. i - 1 \in Nat /\ i + 1 \in 1 .. n /\ u + i - 1 = u + (i - 1)
        /\ t + (i + 1) - 1 = t + 1 + (i - 1)
    BY <1>0, <1>1, <1>3
  <2>2. p[i] = b[(u + (i - 1)) % C]
    BY <1>6, <2>1
  <2>3. Tail(q)[i] = b[(t + (i + 1) - 1) % C]
    BY <1>5, <1>9, <2>1
  <2>4. (u + (i - 1)) % C = (t + 1 + (i - 1)) % C
    BY <1>4, <2>1
  <2> QED
    BY <2>1, <2>2, <2>3, <2>4
<1>11. p = Tail(q)
  BY <1>6, <1>9, <1>10, SeqEqual
<1> QED
  BY <1>2, <1>7, <1>8, <1>11 DEF p, q, n, u
-----------------------------------------------------------------------------
(***************************************************************************)
(* Numbers that a set leaves out.                                          *)
(***************************************************************************)

\* The members of a set S of numbers from f on, and the numbers below the
\* greatest of them that it leaves out, share the window from f to e.
LEMMA LeftOut ==
  ASSUME NEW f \in Nat, NEW l \in Nat, NEW e \in Nat,
         NEW S \in SUBSET (f .. l), S # {}, \A n \in S : n < e,
         NEW M, M = {n \in f .. l : n \notin S /\ \E k \in S : n < k}
  PROVE  /\ Cardinality(S) \in Nat /\ Cardinality(M) \in Nat
         /\ Cardinality(S) + Cardinality(M) <= e - f
<1> DEFINE Window == f .. e - 1
<1>1. IsFiniteSet(S) /\ IsFiniteSet(M)
  <2>1. IsFiniteSet(f .. l)
    BY FS_Interval
  <2> QED
    BY <2>1, FS_Subset
<1>2. S \cap M = {}
  OBVIOUS
<1>3. \A n \in S \cup M : n \in Window
  <2>1. \A n \in S : n \in Nat /\ f <= n /\ n < e
    OBVIOUS
  <2>2. \A n \in M : n \in Nat /\ f <= n /\ n < e
    BY <2>1
  <2> QED
    BY <2>1, <2>2
<1>4. f <= e - 1
  <2>1. PICK n \in S : TRUE
    OBVIOUS
  <2>2. n \in Nat /\ f <= n /\ n < e
    BY <2>1
  <2> QED
    BY <2>2
<1>5. IsFiniteSet(Window) /\ Cardinality(Window) = e - f
  <2>1. f \in Int /\ e - 1 \in Int
    OBVIOUS
  <2> QED
    BY <1>4, <2>1, FS_Interval
<1>6. /\ Cardinality(S) \in Nat /\ Cardinality(M) \in Nat
      /\ Cardinality(S \cup M) = Cardinality(S) + Cardinality(M)
  <2>1. Cardinality(S \cap M) = 0
    BY <1>2, FS_EmptySet
  <2>2. Cardinality(S) \in Nat /\ Cardinality(M) \in Nat
    BY <1>1, FS_CardinalityType
  <2>3. Cardinality(S \cup M) = Cardinality(S) + Cardinality(M) - Cardinality(S \cap M)
    BY <1>1, FS_Union
  <2> QED
    BY <2>1, <2>2, <2>3
<1>7. Cardinality(S \cup M) <= Cardinality(Window)
  BY <1>3, <1>5, FS_Subset
<1> HIDE DEF Window
<1> QED
  BY <1>5, <1>6, <1>7
=============================================================================
