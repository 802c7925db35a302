-------------------------- MODULE StructuresProofs --------------------------
(***************************************************************************)
(* Proofs about the sequential structures of MCStructures, for any nodes,  *)
(* numbers and sizes: digests, lists, sorting and searching.               *)
(***************************************************************************)
EXTENDS MCStructures, FiniteSetTheorems, FunctionTheorems, SequenceTheorems, WellFoundedInduction, TLAPS

------------------------------------------------------------------------------
(* Numbers. *)

LEMMA Least ==
  ASSUME NEW S \in SUBSET Nat, S # {}
  PROVE  \E n \in S : \A m \in S : n <= m
<1> DEFINE R == OpToRel(<, Nat)
<1>1. IsWellFoundedOn(R, Nat)
  BY NatLessThanWellFounded
<1>2. PICK n \in S : \A m \in S : ~ (<<m, n>> \in R)
  <2> HIDE DEF R
  <2> QED
    BY <1>1, WFMin
<1>3. \A m \in S : ~(m < n)
  BY <1>2 DEF OpToRel
<1> QED
  BY <1>3

\* A set of numbers that holds the successors of its elements holds all that
\* follow its first.
LEMMA InductUpTo ==
  ASSUME NEW l \in Int, NEW n \in Int, NEW S, l \in S, \A i \in l + 1 .. n : i - 1 \in S => i \in S
  PROVE  \A i \in l .. n : i \in S
<1> SUFFICES ASSUME NEW i \in l .. n, i \notin S PROVE FALSE
  OBVIOUS
<1> DEFINE T == {k \in Nat : l + k \in l .. n /\ l + k \notin S}
<1>1. i - l \in T
  OBVIOUS
<1>2. PICK k \in T : \A m \in T : k <= m
  <2>1. T \subseteq Nat /\ T # {}
    BY <1>1
  <2> HIDE DEF T
  <2> QED
    BY <2>1, Least
<1>3. k # 0
  OBVIOUS
<1>4. k - 1 \notin T /\ k - 1 \in Nat
  BY <1>2, <1>3
<1>5. l + k - 1 \in S
  BY <1>2, <1>3, <1>4
<1> QED
  BY <1>2, <1>3, <1>5

LEMMA DivMod ==
  ASSUME NEW z \in Int, NEW a \in Nat \ {0}
  PROVE  z = a * (z \div a) + (z % a) /\ z % a \in 0 .. a - 1 /\ z \div a \in Int
OBVIOUS

\* A multiple and a rest.
LEMMA DivModAre ==
  ASSUME NEW a \in Nat \ {0}, NEW k \in Int, NEW r \in 0 .. a - 1
  PROVE  (a * k + r) % a = r /\ (a * k + r) \div a = k
<1> DEFINE z == a * k + r
           m == z % a
           d == z \div a
           j == k - d
<1>1. z \in Int
  OBVIOUS
<1>2. z = a * d + m /\ m \in 0 .. a - 1 /\ d \in Int
  BY <1>1, DivMod
<1> HIDE DEF m, d
<1>3. j \in Int /\ a * j = m - r
  BY <1>2
<1> HIDE DEF j
<1>4. j = 0
  <2>1. CASE j >= 1
    <3>1. a * j >= a
      BY <1>3, <2>1
    <3> QED
      BY <1>2, <1>3, <3>1
  <2>2. CASE j <= -1
    <3>1. a * j <= -a
      BY <1>3, <2>2
    <3> QED
      BY <1>2, <1>3, <3>1
  <2> QED
    BY <1>3, <2>1, <2>2
<1>5. d = k /\ m = r
  BY <1>2, <1>3, <1>4 DEF j
<1> QED
  BY <1>5 DEF d, m

\* Rests of sums.
LEMMA SameRest ==
  ASSUME NEW a \in Nat \ {0}, NEW x \in Nat, NEW y \in Nat, x % a = 0
  PROVE  (x + y) % a = y % a
<1> DEFINE q == x \div a
           k == y \div a
           r == y % a
<1>1. x = a * q + 0 /\ q \in Int
  BY DivMod
<1>2. y = a * k + r /\ r \in 0 .. a - 1 /\ k \in Int
  BY DivMod
<1> HIDE DEF q, k, r
<1>3. q + k \in Int /\ x + y = a * (q + k) + r
  BY <1>1, <1>2
<1> DEFINE j == q + k
<1> HIDE DEF j
<1>4. (a * j + r) % a = r
  BY <1>2, <1>3, DivModAre DEF j
<1> QED
  BY <1>3, <1>4 DEF j, r

LEMMA MoreRest ==
  ASSUME NEW a \in Nat \ {0}, NEW x \in Nat, NEW y \in Nat, (x % a) + y \in 0 .. a - 1
  PROVE  (x + y) % a = (x % a) + y
<1> DEFINE q == x \div a
           r == x % a
           z == r + y
<1>1. x = a * q + r /\ q \in Int /\ r \in Int
  BY DivMod
<1>2. z \in 0 .. a - 1
  OBVIOUS
<1> HIDE DEF q, r
<1>3. x + y = a * q + z
  BY <1>1
<1> HIDE DEF z
<1>4. (a * q + z) % a = z
  BY <1>1, <1>2, DivModAre
<1> QED
  BY <1>3, <1>4 DEF z, r

LEMMA NextRest ==
  ASSUME NEW a \in Nat \ {0}, NEW x \in Nat
  PROVE  (x + (a - (x % a))) % a = 0
<1> DEFINE q == x \div a
           r == x % a
<1>1. x = a * q + r /\ q \in Int /\ r \in Int
  BY DivMod
<1> HIDE DEF q, r
<1>2. q + 1 \in Int /\ x + (a - r) = a * (q + 1) + 0
  BY <1>1
<1> DEFINE j == q + 1
<1> HIDE DEF j
<1>3. (a * j + 0) % a = 0
  <2>1. j \in Int /\ 0 \in 0 .. a - 1
    BY <1>2 DEF j
  <2> QED
    BY <2>1, DivModAre
<1> QED
  BY <1>2, <1>3 DEF j, r

------------------------------------------------------------------------------
(* Digests: what is in the buffers and what has been taken from them. *)

\* s has been taken, but for the last k bytes, with which the buffer begins.
Buffered(taken, buffer, k, s) ==
  /\ s \in Seq(Int) /\ taken \in Seq(Int) /\ buffer \in [1 .. Block -> Int] /\ k \in 0 .. Block
  /\ Len(s) = Len(taken) + k
  /\ \A i \in 1 .. Len(taken) : taken[i] = s[i]
  /\ \A i \in 1 .. k : buffer[i] = s[Len(taken) + i]

LEMMA BufferedIs ==
  ASSUME NEW t \in Seq(Int), NEW b \in [1 .. Block -> Int], NEW k \in Nat, NEW s \in Seq(Int), Buffered(t, b, k, s)
  PROVE  t \o SubSeq(b, 1, k) = s
<1>1. Block \in Nat
  BY DigestsAssumption
<1>2. b \in Seq(Int) /\ Len(b) = Block
  BY <1>1 DEF Buffered
<1> DEFINE u == SubSeq(b, 1, k)
<1>3. u \in Seq(Int) /\ Len(u) = k /\ \A i \in 1 .. k : u[i] = b[i]
  BY <1>1, <1>2 DEF Buffered
<1> HIDE DEF u
<1>4. t \in Seq(Int) /\ s \in Seq(Int) /\ k \in Nat /\ Len(s) = Len(t) + k
  BY <1>1 DEF Buffered
<1>5. /\ t \o u \in Seq(Int) /\ Len(t \o u) = Len(s)
      /\ \A i \in 1 .. Len(s) : (t \o u)[i] = IF i <= Len(t) THEN t[i] ELSE u[i - Len(t)]
  BY <1>3, <1>4, ConcatProperties
<1>6. ASSUME NEW i \in 1 .. Len(s) PROVE (t \o u)[i] = s[i]
  <2>1. CASE i <= Len(t)
    <3>1. (t \o u)[i] = t[i] /\ i \in 1 .. Len(t)
      BY <1>4, <1>5, <2>1
    <3> QED
      BY <3>1 DEF Buffered
  <2>2. CASE i > Len(t)
    <3>1. (t \o u)[i] = u[i - Len(t)] /\ i - Len(t) \in 1 .. k
      BY <1>4, <1>5, <2>2
    <3>2. b[i - Len(t)] = s[Len(t) + (i - Len(t))]
      BY <3>1 DEF Buffered
    <3>3. Len(t) + (i - Len(t)) = i
      BY <1>4
    <3> QED
      BY <1>3, <3>1, <3>2, <3>3
  <2>3. i <= Len(t) \/ i > Len(t)
    BY <1>4
  <2> QED
    BY <2>1, <2>2, <2>3, Zenon
<1> QED
  <2> DEFINE v == t \o u
  <2>1. v \in Seq(Int) /\ Len(v) = Len(s) /\ \A i \in 1 .. Len(v) : v[i] = s[i]
    BY <1>5, <1>6
  <2> HIDE DEF v
  <2>2. v = s
    BY <1>4, <2>1, SeqEqual
  <2> QED
    BY <2>2 DEF v, u

\* More bytes behind those.
LEMMA PutMore ==
  ASSUME NEW t \in Seq(Int), NEW b \in [1 .. Block -> Int], NEW k \in Nat, NEW s \in Seq(Int), Buffered(t, b, k, s), NEW d \in Seq(Int), k + Len(d) <= Block
  PROVE  Buffered(t, Digests!Put(b, k, d), k + Len(d), s \o d)
<1>1. /\ Block \in Nat /\ k \in Nat /\ t \in Seq(Int) /\ s \in Seq(Int) /\ Len(s) = Len(t) + k /\ b \in [1 .. Block -> Int]
      /\ Len(t) \in Nat /\ Len(s) \in Nat /\ Len(d) \in Nat
  BY DigestsAssumption DEF Buffered
<1> DEFINE c == Digests!Put(b, k, d)
<1>2. DOMAIN d = 1 .. Len(d) /\ \A i \in 1 .. Len(d) : d[i] \in Int
  OBVIOUS
<1>3. c = [i \in 1 .. Block |-> IF i - k \in 1 .. Len(d) THEN d[i - k] ELSE b[i]]
  BY <1>1, <1>2 DEF Digests!Put
<1>4. c \in [1 .. Block -> Int]
  BY <1>1, <1>2, <1>3
<1> DEFINE sd == s \o d
<1>5. /\ sd \in Seq(Int) /\ Len(sd) = Len(s) + Len(d)
      /\ \A i \in 1 .. Len(s) + Len(d) : sd[i] = IF i <= Len(s) THEN s[i] ELSE d[i - Len(s)]
  BY <1>1, ConcatProperties
<1> HIDE DEF sd
<1>6. ASSUME NEW i \in 1 .. Len(t) PROVE t[i] = sd[i]
  <2>1. sd[i] = s[i]
    BY <1>1, <1>5
  <2> QED
    BY <2>1 DEF Buffered
<1>7. ASSUME NEW i \in 1 .. k + Len(d) PROVE c[i] = sd[Len(t) + i]
  <2>1. i \in 1 .. Block
    BY <1>1
  <2>2. CASE i <= k
    <3>1. c[i] = b[i]
      BY <1>1, <1>3, <2>1, <2>2
    <3>4. Len(t) + i \in 1 .. Len(s) + Len(d) /\ Len(t) + i <= Len(s)
      BY <1>1, <2>2, SMTT(30)
    <3>2. sd[Len(t) + i] = s[Len(t) + i]
      BY <1>5, <3>4
    <3>3. b[i] = s[Len(t) + i]
      BY <1>1, <2>2 DEF Buffered
    <3> QED
      BY <3>1, <3>2, <3>3
  <2>3. CASE i > k
    <3>1. i - k \in 1 .. Len(d)
      BY <1>1, <2>3
    <3>2. c[i] = d[i - k]
      BY <1>3, <2>1, <3>1
    <3>4. Len(t) + i \in 1 .. Len(s) + Len(d) /\ ~(Len(t) + i <= Len(s))
      BY <1>1, <2>3, SMTT(30)
    <3>3. sd[Len(t) + i] = d[Len(t) + i - Len(s)]
      BY <1>5, <3>4
    <3> QED
      BY <1>1, <3>2, <3>3
  <2> QED
    BY <1>1, <2>2, <2>3
<1>8. Len(sd) = Len(t) + (k + Len(d)) /\ k + Len(d) \in 0 .. Block
  BY <1>1, <1>5
<1> QED
  BY <1>1, <1>4, <1>5, <1>6, <1>7, <1>8 DEF Buffered, sd

\* A full buffer is taken, and what it is then does not matter.
LEMMA TakeBlock ==
  ASSUME NEW t \in Seq(Int), NEW b \in [1 .. Block -> Int], NEW s \in Seq(Int), Buffered(t, b, Block, s), NEW c \in [1 .. Block -> Int]
  PROVE  Buffered(t \o b, c, 0, s)
<1>1. Block \in Nat
  BY DigestsAssumption
<1>2. b \in [1 .. Block -> Int]
  BY DEF Buffered
<1>3. b \in Seq(Int) /\ Len(b) = Block
  BY <1>1, <1>2
<1>4. SubSeq(b, 1, Block) = b
  <2>1. SubSeq(b, 1, Len(b)) = b
    BY <1>3, SubSeqFull
  <2> QED
    BY <1>3, <2>1
<1>5. t \o b = s
  <2>1. t \o SubSeq(b, 1, Block) = s
    BY <1>1, BufferedIs
  <2> QED
    BY <1>4, <2>1
<1>6. s \in Seq(Int)
  BY DEF Buffered
<1> HIDE DEF Buffered
<1>7. Buffered(s, c, 0, s)
  BY <1>1, <1>6 DEF Buffered
<1> QED
  BY <1>5, <1>7

\* Nothing is buffered between the blocks.
LEMMA NoneBuffered ==
  ASSUME NEW s \in Seq(Int), NEW b \in [1 .. Block -> Int]
  PROVE  Buffered(s, b, 0, s)
BY DigestsAssumption DEF Buffered

------------------------------------------------------------------------------
(* Md5Hasher. *)

Md5States == [in : [1 .. Block -> Int], bits : Int \X Int, taken : Seq(Int)]

\* What has been fed to h is s.
Md5Has(h, s) ==
  /\ h \in Md5States /\ s \in Seq(Int)
  /\ h.bits = <<(8 * Len(s)) % Low, (8 * Len(s)) \div Low>>
  /\ Buffered(h.taken, h.in, Len(s) % Block, s)

\* The bits of more bytes are added, and carried.
LEMMA BitsAreCounted ==
  ASSUME NEW n \in Nat, NEW m \in Nat
  PROVE  Digests!Counted(<<(8 * n) % Low, (8 * n) \div Low>>, m) = <<(8 * (n + m)) % Low, (8 * (n + m)) \div Low>>
<1> DEFINE e == Low \div 8
<1>1. Low \in Nat \ {0} /\ e \in Nat \ {0} /\ Low = 8 * e
  <2>1. Low \in Nat \ {0} /\ Low % (8 * Block) = 0 /\ Block \in Nat \ {0}
    BY DigestsAssumption
  <2>2. 8 * Block \in Nat \ {0}
    BY <2>1
  <2>3. PICK z \in Int : Low = (8 * Block) * z
    BY <2>1, <2>2, DivMod
  <2>4. Low = 8 * (Block * z) /\ Block * z \in Int
    BY <2>1, <2>3
  <2> DEFINE y == Block * z
  <2> HIDE DEF y
  <2>5. y \in Int /\ Low = 8 * y
    BY <2>4 DEF y
  <2>6. y \in Nat \ {0}
    BY <2>1, <2>5
  <2>7. Low \div 8 = y
    BY <2>5, <2>6
  <2> QED
    BY <2>1, <2>5, <2>6, <2>7
<1> HIDE DEF e
<1> DEFINE n8 == 8 * n
           k == m \div e
           j == m % e
<1>2. n8 \in Int /\ n8 = 8 * n
  OBVIOUS
<1> HIDE DEF n8
<1> DEFINE r == n8 % Low
           q == n8 \div Low
           t == (r + 8 * m) % Low
<1>3. n8 = Low * q + r /\ r \in 0 .. Low - 1 /\ q \in Int
  BY <1>1, <1>2, DivMod
<1>4. m = e * k + j /\ j \in 0 .. e - 1 /\ k \in Int
  BY <1>1, DivMod
<1> HIDE DEF r, q, k, j
<1> DEFINE lk == Low * k
           lq == Low * q
           ek == e * k
<1>5. lk \in Int /\ lq \in Int /\ 8 * m = lk + 8 * j
  <2>1. ek \in Int /\ lk \in Int /\ lq \in Int /\ 8 * ek = lk
    BY <1>1, <1>3, <1>4
  <2>2. m = ek + j
    BY <1>4
  <2> HIDE DEF ek, lk, lq
  <2> QED
    BY <1>4, <2>1, <2>2
<1>6. Low * (q + k) = lq + lk /\ Low * (q + 1 + k) = lq + Low + lk /\ Low * (k + 1) = lk + Low
  BY <1>1, <1>3, <1>4
<1>7. n8 = lq + r
  BY <1>3
<1>8. /\ \A b \in 0 .. Low - 1 : (lk + b) % Low = b
      /\ \A b \in 0 .. Low - 1 : (lk + Low + b) % Low = b
      /\ \A b \in 0 .. Low - 1 : (lq + lk + b) % Low = b /\ (lq + lk + b) \div Low = q + k
      /\ \A b \in 0 .. Low - 1 : (lq + Low + lk + b) % Low = b /\ (lq + Low + lk + b) \div Low = q + 1 + k
  <2> SUFFICES ASSUME NEW b \in 0 .. Low - 1
               PROVE  /\ (lk + b) % Low = b /\ (lk + Low + b) % Low = b
                      /\ (lq + lk + b) % Low = b /\ (lq + lk + b) \div Low = q + k
                      /\ (lq + Low + lk + b) % Low = b /\ (lq + Low + lk + b) \div Low = q + 1 + k
    OBVIOUS
  <2>1. (Low * k + b) % Low = b
    BY <1>1, <1>4, DivModAre
  <2>2. (Low * (k + 1) + b) % Low = b
    <3> DEFINE k1 == k + 1
    <3>1. k1 \in Int
      BY <1>4
    <3> HIDE DEF k1
    <3>2. (Low * k1 + b) % Low = b
      BY <1>1, <3>1, DivModAre
    <3> QED
      BY <3>2 DEF k1
  <2>3. (Low * (q + k) + b) % Low = b /\ (Low * (q + k) + b) \div Low = q + k
    BY <1>1, <1>3, <1>4, DivModAre
  <2>4. (Low * (q + 1 + k) + b) % Low = b /\ (Low * (q + 1 + k) + b) \div Low = q + 1 + k
    BY <1>1, <1>3, <1>4, DivModAre
  <2> QED
    BY <1>6, <2>1, <2>2, <2>3, <2>4
<1> HIDE DEF lk, lq
<1> DEFINE nm == 8 * (n + m)
<1>9. nm = lq + r + lk + 8 * j
  BY <1>2, <1>3, <1>4, <1>5, <1>7
<1> HIDE DEF nm
<1> SUFFICES Digests!Counted(<<r, q>>, m) = <<nm % Low, nm \div Low>>
  BY <1>2 DEF r, q, nm
<1>10. CASE r + 8 * j < Low
  <2> DEFINE b == r + 8 * j
  <2>1. b \in 0 .. Low - 1 /\ r + 8 * m = lk + b /\ nm = lq + lk + b
    BY <1>1, <1>3, <1>4, <1>5, <1>9, <1>10
  <2>2. ~(b < r)
    BY <1>1, <1>3, <1>4
  <2> HIDE DEF b
  <2>3. t = b /\ nm % Low = b /\ nm \div Low = q + k
    BY <1>8, <2>1
  <2>4. q + 0 + k = q + k
    BY <1>3, <1>4
  <2> HIDE DEF t
  <2>5. Digests!Counted(<<r, q>>, m) = <<t, q + 0 + k>>
    BY <2>2, <2>3 DEF Digests!Counted, t, k, e
  <2> QED
    BY <2>3, <2>4, <2>5
<1>11. CASE ~(r + 8 * j < Low)
  <2> DEFINE b == r + 8 * j - Low
  <2>1. b \in 0 .. Low - 1 /\ r + 8 * m = lk + Low + b /\ nm = lq + Low + lk + b
    BY <1>1, <1>3, <1>4, <1>5, <1>9, <1>11
  <2>2. b < r
    BY <1>1, <1>3, <1>4
  <2> HIDE DEF b
  <2>3. t = b /\ nm % Low = b /\ nm \div Low = q + 1 + k
    BY <1>8, <2>1
  <2> HIDE DEF t
  <2>4. Digests!Counted(<<r, q>>, m) = <<t, q + 1 + k>>
    BY <2>2, <2>3 DEF Digests!Counted, t, k, e
  <2> QED
    BY <2>3, <2>4
<1> QED
  BY <1>10, <1>11

\* The offset in the buffer is that of the message.
LEMMA OffsetIs ==
  ASSUME NEW h, NEW n \in Nat, h.bits = <<(8 * n) % Low, (8 * n) \div Low>>
  PROVE  Digests!Offset(h) = n % Block
<1>1. Low \in Nat \ {0} /\ Low % (8 * Block) = 0 /\ Block \in Nat \ {0}
  BY DigestsAssumption
<1>2. 8 * Block \in Nat \ {0}
  BY <1>1
<1>3. PICK z \in Int : Low = (8 * Block) * z
  <2> DEFINE b == 8 * Block
  <2>1. b \in Nat \ {0} /\ Low \in Int /\ Low % b = 0
    BY <1>1, <1>2
  <2> HIDE DEF b
  <2>2. Low = b * (Low \div b) + (Low % b) /\ Low \div b \in Int
    BY <2>1, DivMod
  <2>3. b * (Low \div b) \in Int
    BY <2>1, <2>2
  <2>4. Low = b * (Low \div b)
    BY <2>1, <2>2, <2>3
  <2> QED
    BY <2>2, <2>4 DEF b
<1> DEFINE n8 == 8 * n
<1>4. n8 \in Int /\ n8 = 8 * n
  OBVIOUS
<1> HIDE DEF n8
<1> DEFINE r == n8 % Low
           q == n8 \div Low
           y == Block * (z * q)
<1>5. n8 = Low * q + r /\ r \in 0 .. Low - 1 /\ q \in Int
  BY <1>1, <1>4, DivMod
<1> HIDE DEF r, q
<1>6. Low * q = 8 * y /\ y \in Int
  BY <1>1, <1>3, <1>5
<1>7. r = 8 * (n - y)
  <2> DEFINE lq == Low * q
  <2>1. 8 * n = lq + r /\ lq = 8 * y
    BY <1>4, <1>5, <1>6
  <2> HIDE DEF lq, y
  <2> QED
    BY <1>5, <1>6, <2>1
<1>8. r \div 8 = n - y
  <2> HIDE DEF y
  <2>1. n - y \in Int
    BY <1>6
  <2> QED
    BY <1>7, <2>1
<1> DEFINE k == n \div Block
           j == n % Block
           w == k - z * q
<1>9. n = Block * k + j /\ j \in 0 .. Block - 1 /\ k \in Int
  BY <1>1, DivMod
<1> HIDE DEF k, j
<1>10. n - y = Block * w + j /\ w \in Int
  BY <1>1, <1>5, <1>9
<1>11. (n - y) % Block = j
  BY <1>1, <1>9, <1>10, DivModAre
<1>12. h.bits[1] = r
  BY DEF r, n8
<1> QED
  BY <1>8, <1>11, <1>12 DEF Digests!Offset, j

LEMMA Md5Fields ==
  ASSUME NEW h \in Md5States
  PROVE  /\ h.in \in [1 .. Block -> Int] /\ h.bits \in Int \X Int /\ h.taken \in Seq(Int)
         /\ \A x, y : [h EXCEPT !.taken = y, !.in = x] = [in |-> x, bits |-> h.bits, taken |-> y]
         /\ \A y : [h EXCEPT !.taken = y] = [in |-> h.in, bits |-> h.bits, taken |-> y]
         /\ \A x : [h EXCEPT !.in = x] = [in |-> x, bits |-> h.bits, taken |-> h.taken]
         /\ \A c : [h EXCEPT !.bits = c] = [in |-> h.in, bits |-> c, taken |-> h.taken]
<1> DEFINE I == [1 .. Block -> Int]
           B == Int \X Int
           T == Seq(Int)
<1> HIDE DEF I, B, T
<1>1. h \in [in : I, bits : B, taken : T]
  BY DEF Md5States, I, B, T
<1>2. h.in \in I /\ h.bits \in B /\ h.taken \in T
  BY <1>1
<1>3. PICK i \in I, b \in B, t \in T : h = [in |-> i, bits |-> b, taken |-> t]
  BY <1>1
<1>4. h.in = i /\ h.bits = b /\ h.taken = t
  BY <1>3
<1>5. ASSUME NEW x, NEW y PROVE [h EXCEPT !.taken = y, !.in = x] = [in |-> x, bits |-> b, taken |-> y]
  <2> DEFINE r == [in |-> i, bits |-> b, taken |-> t]
             f == [in |-> x, bits |-> b, taken |-> y]
             g == [r EXCEPT !.taken = y, !.in = x]
  <2>1. g = [k \in DOMAIN r |-> IF k = "in" THEN x ELSE IF k = "taken" THEN y ELSE r[k]]
    OBVIOUS
  <2>2. DOMAIN r = {"in", "bits", "taken"}
    OBVIOUS
  <2>3. f = [k \in {"in", "bits", "taken"} |-> IF k = "in" THEN x ELSE IF k = "taken" THEN y ELSE r[k]]
    OBVIOUS
  <2> HIDE DEF r, f, g
  <2>4. g = f
    BY <2>1, <2>2, <2>3
  <2> QED
    BY <1>3, <2>4 DEF r, f, g
<1>6. ASSUME NEW y PROVE [h EXCEPT !.taken = y] = [in |-> i, bits |-> b, taken |-> y]
  BY <1>3
<1>7. ASSUME NEW x PROVE [h EXCEPT !.in = x] = [in |-> x, bits |-> b, taken |-> t]
  BY <1>3
<1>8. ASSUME NEW c PROVE [h EXCEPT !.bits = c] = [in |-> i, bits |-> c, taken |-> t]
  BY <1>3
<1>9. \A x, y : [h EXCEPT !.taken = y, !.in = x] = [in |-> x, bits |-> h.bits, taken |-> y]
  BY <1>4, <1>5
<1>10. \A y : [h EXCEPT !.taken = y] = [in |-> h.in, bits |-> h.bits, taken |-> y]
  BY <1>4, <1>6
<1>11. \A x : [h EXCEPT !.in = x] = [in |-> x, bits |-> h.bits, taken |-> h.taken]
  BY <1>4, <1>7
<1>12. \A c : [h EXCEPT !.bits = c] = [in |-> h.in, bits |-> c, taken |-> h.taken]
  BY <1>4, <1>8
<1> HIDE <1>3, <1>4, <1>5, <1>6, <1>7, <1>8
<1> QED
  BY <1>2, <1>9, <1>10, <1>11, <1>12 DEF I, B, T

LEMMA BitsTyped ==
  ASSUME NEW n \in Nat
  PROVE  <<(8 * n) % Low, (8 * n) \div Low>> \in Int \X Int
<1> DEFINE m == 8 * n
<1>1. Low \in Nat \ {0} /\ m \in Int
  BY DigestsAssumption
<1> HIDE DEF m
<1>2. m % Low \in Int /\ m \div Low \in Int
  BY <1>1
<1> QED
  BY <1>2 DEF m

\* A part of a message.
LEMMA Piece ==
  ASSUME NEW d \in Seq(Int), NEW a \in Int, NEW b \in Int, 1 <= a, b <= Len(d), a <= b + 1
  PROVE  /\ SubSeq(d, a, b) \in Seq(Int) /\ Len(SubSeq(d, a, b)) = b - a + 1
         /\ \A i \in 1 .. b - a + 1 : SubSeq(d, a, b)[i] = d[a + i - 1]
<1>1. \A i \in a .. b : d[i] \in Int
  OBVIOUS
<1>2. /\ SubSeq(d, a, b) \in Seq(Int)
      /\ Len(SubSeq(d, a, b)) = IF a <= b THEN b - a + 1 ELSE 0
      /\ \A i \in 1 .. b - a + 1 : SubSeq(d, a, b)[i] = d[a + i - 1]
  BY <1>1, SubSeqProperties
<1> QED
  BY <1>2

LEMMA Halves ==
  ASSUME NEW d \in Seq(Int), NEW k \in 0 .. Len(d)
  PROVE  SubSeq(d, 1, k) \o SubSeq(d, k + 1, Len(d)) = d
<1>1. SubSeq(d, 1, k) \o SubSeq(d, k + 1, Len(d)) = SubSeq(d, 1, Len(d))
  <2>1. 1 \in 1 .. Len(d) + 1 /\ k \in 1 - 1 .. Len(d) /\ Len(d) \in k .. Len(d)
    OBVIOUS
  <2> QED
    BY <2>1, ConcatAdjacentSubSeq
<1> QED
  BY <1>1, SubSeqFull

\* Whole blocks of a piece are taken, the rest is buffered.
LEMMA ChunksTake ==
  ASSUME NEW h \in Md5States, NEW s \in Seq(Int), Buffered(h.taken, h.in, 0, s), NEW d \in Seq(Int)
  PROVE  LET c == Digests!Chunks(h, d)
         IN c \in Md5States /\ c.bits = h.bits /\ Buffered(c.taken, c.in, Len(d) % Block, s \o d)
<1>1. Block \in Nat \ {0}
  BY DigestsAssumption
<1> DEFINE m == Len(d)
           whole == (m \div Block) * Block
           last == IF whole = 0 THEN h.in ELSE SubSeq(d, whole - Block + 1, whole)
           u == SubSeq(d, 1, whole)
           v == SubSeq(d, whole + 1, m)
           x == Digests!Put(last, 0, v)
           c == Digests!Chunks(h, d)
<1>2. /\ m \in Nat /\ whole \in Nat /\ m % Block \in 0 .. Block - 1
      /\ whole <= m /\ m - whole = m % Block /\ (whole = 0 \/ whole >= Block)
  <2>1. m \in Nat /\ m \in Int
    OBVIOUS
  <2> HIDE DEF m
  <2> DEFINE q == m \div Block
             r == m % Block
  <2>2. m = Block * q + r /\ r \in 0 .. Block - 1 /\ q \in Int
    BY <1>1, <2>1, DivMod
  <2> HIDE DEF q, r
  <2>3. q >= 0
    <3>1. CASE q <= -1
      <4>1. Block * q <= -Block
        BY <1>1, <2>2, <3>1
      <4> DEFINE bq == Block * q
      <4>2. bq \in Int /\ bq <= -Block
        BY <1>1, <2>2, <4>1
      <4> HIDE DEF bq
      <4> QED
        BY <1>1, <2>1, <2>2, <4>2 DEF bq
    <3> QED
      BY <2>2, <3>1
  <2>4. whole \in Nat /\ whole = Block * q /\ (q = 0 \/ whole >= Block) /\ (q = 0 => whole = 0)
    <3>1. whole = q * Block
      BY DEF q
    <3> HIDE DEF whole
    <3>2. q \in Nat
      BY <2>2, <2>3
    <3>3. q * Block = Block * q /\ Block * q \in Nat /\ (q = 0 \/ Block * q >= Block) /\ (q = 0 => Block * q = 0)
      BY <1>1, <3>2
    <3> QED
      BY <3>1, <3>3
  <2> DEFINE bq == Block * q
  <2> HIDE DEF bq, whole
  <2>5. whole = bq /\ m = bq + r
    BY <2>2, <2>4 DEF bq
  <2>6. whole <= m /\ m - whole = r
    BY <2>1, <2>2, <2>4, <2>5
  <2> QED
    BY <2>1, <2>2, <2>4, <2>6 DEF r
<1>3. u \in Seq(Int) /\ v \in Seq(Int) /\ Len(v) = m - whole
  <2> DEFINE w == whole
  <2>1. w \in Int /\ 1 \in Int /\ w + 1 \in Int /\ m \in Int /\ w <= Len(d) /\ 1 <= w + 1 /\ m <= Len(d) /\ w + 1 <= m + 1
    BY <1>2
  <2> HIDE DEF w
  <2>2. SubSeq(d, 1, w) \in Seq(Int)
    BY <2>1, Piece
  <2>3. SubSeq(d, w + 1, m) \in Seq(Int) /\ Len(SubSeq(d, w + 1, m)) = m - (w + 1) + 1
    BY <2>1, Piece
  <2>4. m - (w + 1) + 1 = m - w
    BY <2>1
  <2>5. u \in Seq(Int)
    BY <2>2 DEF w
  <2>6. v \in Seq(Int)
    BY <2>3 DEF w
  <2>7. Len(v) = m - whole
    BY <2>3, <2>4 DEF w
  <2> QED
    BY <2>5, <2>6, <2>7
<1>4. u \o v = d
  <2> DEFINE w == whole
  <2>1. w \in 0 .. Len(d)
    BY <1>2
  <2> HIDE DEF w
  <2>2. SubSeq(d, 1, w) \o SubSeq(d, w + 1, Len(d)) = d
    BY <2>1, Halves
  <2> QED
    BY <2>2 DEF w
<1>5. last \in [1 .. Block -> Int]
  <2>1. h.in \in [1 .. Block -> Int]
    BY Md5Fields
  <2>2. CASE whole # 0
    <3>1. last \in Seq(Int) /\ Len(last) = Block
      BY <1>1, <1>2, <2>2, Piece
    <3> HIDE DEF last
    <3> QED
      BY <1>1, <3>1
  <2> QED
    BY <2>1, <2>2
<1> HIDE DEF m, whole, last, u, v
<1>6. h.taken \in Seq(Int) /\ h.taken = s
  <2>1. h.taken \in Seq(Int) /\ h.in \in [1 .. Block -> Int]
    BY Md5Fields
  <2>2. h.taken \o SubSeq(h.in, 1, 0) = s
    BY <2>1, BufferedIs
  <2>3. SubSeq(h.in, 1, 0) = <<>>
    BY SubSeqEmpty
  <2>4. h.taken \o <<>> = h.taken
    BY <2>1, ConcatEmptySeq
  <2> QED
    BY <2>1, <2>2, <2>3, <2>4
<1>7. s \o u \in Seq(Int)
  BY <1>3, ConcatProperties
<1>8. Buffered(s \o u, last, 0, s \o u)
  BY <1>5, <1>7, NoneBuffered
<1>9. Buffered(s \o u, x, m % Block, (s \o u) \o v)
  <2>1. Len(v) = m % Block /\ 0 + Len(v) <= Block /\ 0 + Len(v) = m % Block
    BY <1>1, <1>2, <1>3
  <2>2. Buffered(s \o u, x, 0 + Len(v), (s \o u) \o v)
    BY <1>3, <1>5, <1>7, <1>8, <2>1, PutMore
  <2> QED
    BY <2>1, <2>2
<1>10. (s \o u) \o v = s \o d
  <2>1. (s \o u) \o v = s \o (u \o v)
    BY <1>3, ConcatAssociative
  <2> QED
    BY <1>4, <2>1
<1>11. x \in [1 .. Block -> Int]
  BY <1>9 DEF Buffered
<1>12. c = [in |-> x, bits |-> h.bits, taken |-> s \o u]
  <2> DEFINE y == h.taken \o u
  <2>1. c = [h EXCEPT !.taken = y, !.in = x]
    BY DEF Digests!Chunks, m, whole, last, u, v
  <2> HIDE DEF x, c, y
  <2>2. \A p, q : [h EXCEPT !.taken = q, !.in = p] = [in |-> p, bits |-> h.bits, taken |-> q]
    BY Md5Fields
  <2>3. [h EXCEPT !.taken = y, !.in = x] = [in |-> x, bits |-> h.bits, taken |-> y]
    BY <2>2, Zenon
  <2> QED
    BY <1>6, <2>1, <2>3 DEF y
<1>13. h.bits \in Int \X Int
  BY Md5Fields
<1> HIDE DEF x, c
<1> SUFFICES c \in Md5States /\ c.bits = h.bits /\ Buffered(c.taken, c.in, m % Block, s \o d)
  BY DEF c, m
<1> QED
  BY <1>7, <1>9, <1>10, <1>11, <1>12, <1>13 DEF Md5States

LEMMA Md5UpdateHas ==
  ASSUME NEW h, NEW s \in Seq(Int), Md5Has(h, s), NEW d \in Seq(Int)
  PROVE  Md5Has(Digests!Md5Update(h, d), s \o d)
<1>1. Block \in Nat \ {0}
  BY DigestsAssumption
<1> DEFINE n == Len(s)
           m == Len(d)
           t == n % Block
           lead == Block - t
           bits == <<(8 * (n + m)) % Low, (8 * (n + m)) \div Low>>
           counted == [h EXCEPT !.bits = Digests!Counted(@, m)]
           g == Digests!Md5Update(h, d)
<1>2. n \in Nat /\ m \in Nat /\ t \in 0 .. Block - 1 /\ lead \in Nat
  BY <1>1
<1>3. s \o d \in Seq(Int) /\ Len(s \o d) = n + m
  BY ConcatProperties
<1>4. bits \in Int \X Int
  <2>1. n + m \in Nat
    BY <1>2
  <2> HIDE DEF n, m
  <2> QED
    BY <2>1, BitsTyped
<1>5. h \in Md5States /\ Buffered(h.taken, h.in, t, s) /\ h.bits = <<(8 * n) % Low, (8 * n) \div Low>>
  BY DEF Md5Has
<1>6. h.in \in [1 .. Block -> Int] /\ h.taken \in Seq(Int)
  BY <1>5, Md5Fields
<1>7. Digests!Offset(h) = t
  BY <1>2, <1>5, OffsetIs
<1>8. Digests!Counted(h.bits, m) = bits
  BY <1>2, <1>5, BitsAreCounted
<1>9. counted = [in |-> h.in, bits |-> bits, taken |-> h.taken]
  <2> HIDE DEF bits, m
  <2>1. [h EXCEPT !.bits = bits] = [in |-> h.in, bits |-> bits, taken |-> h.taken]
    BY <1>5, Md5Fields
  <2> QED
    BY <1>8, <2>1
<1> HIDE DEF bits, counted, n, m, t, lead
<1>10. counted \in Md5States
  BY <1>4, <1>6, <1>9 DEF Md5States
<1> SUFFICES /\ g \in Md5States /\ g.bits = bits
             /\ Buffered(g.taken, g.in, (n + m) % Block, s \o d)
  BY <1>3 DEF Md5Has, bits
<1>11. CASE t = 0
  <2> DEFINE c == Digests!Chunks(counted, d)
  <2>1. g = c
    BY <1>7, <1>11 DEF Digests!Md5Update, counted, m
  <2>2. Buffered(counted.taken, counted.in, 0, s)
    BY <1>5, <1>9, <1>11
  <2>3. c \in Md5States /\ c.bits = counted.bits /\ Buffered(c.taken, c.in, m % Block, s \o d)
    BY <1>10, <2>2, ChunksTake DEF m
  <2>4. (n + m) % Block = m % Block
    BY <1>1, <1>2, <1>11, SameRest DEF t
  <2> HIDE DEF c, g
  <2> QED
    BY <1>9, <2>1, <2>3, <2>4
<1>12. CASE t # 0 /\ m < lead
  <2> DEFINE x == Digests!Put(h.in, t, d)
  <2>1. g = [counted EXCEPT !.in = Digests!Put(@, t, d)]
    BY <1>7, <1>12 DEF Digests!Md5Update, counted, m, lead
  <2>2. counted.in = h.in
    BY <1>9
  <2>3. [counted EXCEPT !.in = x] = [in |-> x, bits |-> counted.bits, taken |-> counted.taken]
    <3> HIDE DEF x
    <3> QED
      BY <1>10, Md5Fields
  <2>4. g = [in |-> x, bits |-> bits, taken |-> h.taken]
    BY <1>9, <2>1, <2>2, <2>3
  <2>5. t + m <= Block /\ t + m \in 0 .. Block - 1
    BY <1>1, <1>2, <1>12 DEF lead
  <2>6. Buffered(h.taken, x, t + m, s \o d)
    <3>1. t \in Nat /\ t + Len(d) <= Block
      BY <1>2, <2>5 DEF m
    <3>2. Buffered(h.taken, x, t + Len(d), s \o d)
      BY <1>5, <1>6, <3>1, PutMore
    <3> QED
      BY <3>2 DEF m
  <2>7. (n + m) % Block = t + m
    BY <1>1, <1>2, <2>5, MoreRest DEF t
  <2>8. x \in [1 .. Block -> Int]
    BY <2>6 DEF Buffered
  <2> HIDE DEF x, g
  <2> QED
    BY <1>4, <1>6, <2>4, <2>6, <2>7, <2>8 DEF Md5States
<1>13. CASE t # 0 /\ m >= lead
  <2> DEFINE u == SubSeq(d, 1, lead)
             v == SubSeq(d, lead + 1, m)
             x == Digests!Put(h.in, t, u)
             filled == [counted EXCEPT !.in = Digests!Put(@, t, u)]
             e == Digests!transform(filled)
             c == Digests!Chunks(e, v)
  <2>1. g = c
    <3>1. ~(m < lead)
      BY <1>2, <1>13
    <3> QED
      BY <1>7, <1>13, <3>1 DEF Digests!Md5Update, counted, m, lead
  <2>2. /\ u \in Seq(Int) /\ v \in Seq(Int) /\ Len(u) = lead /\ Len(v) = m - lead /\ u \o v = d
    <3>1. /\ lead \in Int /\ 1 \in Int /\ lead + 1 \in Int /\ m \in Int /\ lead <= Len(d) /\ 1 <= lead + 1 /\ m <= Len(d)
          /\ lead + 1 <= m + 1 /\ lead \in 0 .. Len(d) /\ lead - 1 + 1 = lead /\ m - (lead + 1) + 1 = m - lead
      BY <1>2, <1>13 DEF m
    <3>2. u \in Seq(Int) /\ Len(u) = lead - 1 + 1
      BY <3>1, Piece, SMTT(30)
    <3>3. v \in Seq(Int) /\ Len(v) = m - (lead + 1) + 1
      BY <3>1, Piece, ZenonT(30)
    <3>4. u \o v = d
      BY <3>1, Halves DEF m
    <3> QED
      BY <3>1, <3>2, <3>3, <3>4
  <2> HIDE DEF u, v
  <2>3. filled = [in |-> x, bits |-> bits, taken |-> h.taken]
    <3>1. counted.in = h.in
      BY <1>9
    <3>2. [counted EXCEPT !.in = x] = [in |-> x, bits |-> counted.bits, taken |-> counted.taken]
      <4> HIDE DEF x
      <4> QED
        BY <1>10, Md5Fields
    <3> QED
      BY <1>9, <3>1, <3>2
  <2>4. t + Len(u) = Block
    BY <1>1, <1>2, <2>2 DEF lead
  <2>5. Buffered(h.taken, x, Block, s \o u)
    <3>1. Buffered(h.taken, x, t + Len(u), s \o u)
      <4>1. t \in Nat /\ t + Len(u) <= Block
        BY <1>1, <1>2, <2>4
      <4> QED
        BY <1>5, <1>6, <2>2, <4>1, PutMore
    <3> QED
      BY <2>4, <3>1
  <2>6. x \in [1 .. Block -> Int] /\ s \o u \in Seq(Int)
    BY <2>5 DEF Buffered
  <2> HIDE DEF filled, x
  <2>7. filled \in Md5States
    BY <1>4, <1>6, <2>3, <2>6 DEF Md5States
  <2>8. e = [in |-> x, bits |-> bits, taken |-> h.taken \o x]
    <3> DEFINE y == h.taken \o x
    <3>1. e = [filled EXCEPT !.taken = y]
      BY <2>3 DEF Digests!transform
    <3> HIDE DEF y
    <3>2. [filled EXCEPT !.taken = y] = [in |-> filled.in, bits |-> filled.bits, taken |-> y]
      BY <2>7, Md5Fields
    <3> QED
      BY <2>3, <3>1, <3>2 DEF y
  <2>9. Buffered(h.taken \o x, x, 0, s \o u)
    BY <1>6, <2>5, <2>6, TakeBlock
  <2>10. h.taken \o x \in Seq(Int)
    BY <2>9 DEF Buffered
  <2> HIDE DEF e
  <2>11. e \in Md5States /\ Buffered(e.taken, e.in, 0, s \o u)
    BY <1>4, <2>6, <2>8, <2>9, <2>10 DEF Md5States
  <2>12. c \in Md5States /\ c.bits = e.bits /\ Buffered(c.taken, c.in, Len(v) % Block, (s \o u) \o v)
    <3> DEFINE su == s \o u
    <3>1. su \in Seq(Int) /\ Buffered(e.taken, e.in, 0, su)
      BY <2>6, <2>11
    <3> HIDE DEF su, c
    <3>2. c \in Md5States /\ c.bits = e.bits /\ Buffered(c.taken, c.in, Len(v) % Block, su \o v)
      BY <2>2, <2>11, <3>1, ChunksTake DEF c
    <3> QED
      BY <3>2 DEF su
  <2>13. (s \o u) \o v = s \o d
    <3>1. (s \o u) \o v = s \o (u \o v)
      <4>1. u \in Seq(Int) /\ v \in Seq(Int)
        BY <2>2
      <4> QED
        BY <4>1, ConcatAssociative
    <3> QED
      BY <2>2, <3>1
  <2>14. (n + m) % Block = Len(v) % Block
    <3>1. (n + lead) % Block = 0
      BY <1>1, <1>2, NextRest DEF t, lead
    <3>2. m - lead \in Nat /\ n + lead \in Nat /\ n + m = (n + lead) + (m - lead)
      BY <1>2, <1>13
    <3>3. ((n + lead) + (m - lead)) % Block = (m - lead) % Block
      BY <1>1, <3>1, <3>2, SameRest
    <3> QED
      BY <2>2, <3>2, <3>3
  <2> HIDE DEF c, g
  <2> QED
    BY <2>1, <2>8, <2>12, <2>13, <2>14
<1>14. t = 0 \/ (t # 0 /\ m < lead) \/ (t # 0 /\ m >= lead)
  BY <1>2
<1> QED
  BY <1>11, <1>12, <1>13, <1>14, Zenon

LEMMA Joined ==
  ASSUME NEW s \in Seq(Int), NEW t \in Seq(Int), NEW u \in Seq(Int)
  PROVE  (s \o t) \o u = s \o (t \o u)
BY ConcatAssociative

\* Zeros behind zeros.
LEMMA ZerosAre ==
  ASSUME NEW a \in Nat, NEW b \in Nat
  PROVE  /\ Digests!Zeros(a) \in Seq(Int) /\ Len(Digests!Zeros(a)) = a
         /\ Digests!Zeros(a) \o Digests!Zeros(b) = Digests!Zeros(a + b)
<1>1. ASSUME NEW k \in Nat
      PROVE  Digests!Zeros(k) \in Seq(Int) /\ Len(Digests!Zeros(k)) = k /\ \A i \in 1 .. k : Digests!Zeros(k)[i] = 0
  BY DEF Digests!Zeros
<1> DEFINE x == Digests!Zeros(a)
           y == Digests!Zeros(b)
           z == Digests!Zeros(a + b)
<1>2. /\ x \in Seq(Int) /\ Len(x) = a /\ \A i \in 1 .. a : x[i] = 0
      /\ y \in Seq(Int) /\ Len(y) = b /\ \A i \in 1 .. b : y[i] = 0
  BY <1>1
<1>3. z \in Seq(Int) /\ Len(z) = a + b /\ \A i \in 1 .. a + b : z[i] = 0
  BY <1>1
<1> HIDE DEF x, y, z
<1>4. /\ x \o y \in Seq(Int) /\ Len(x \o y) = a + b
      /\ \A i \in 1 .. a + b : (x \o y)[i] = IF i <= a THEN x[i] ELSE y[i - a]
  BY <1>2, ConcatProperties
<1>5. \A i \in 1 .. a + b : (x \o y)[i] = 0
  BY <1>2, <1>4
<1> DEFINE w == x \o y
<1>6. w \in Seq(Int) /\ Len(w) = Len(z) /\ \A i \in 1 .. Len(w) : w[i] = z[i]
  BY <1>3, <1>4, <1>5
<1> HIDE DEF w
<1>7. w = z
  BY <1>3, <1>6, SeqEqual
<1> QED
  BY <1>2, <1>7 DEF w, x, y, z

\* The zeros between the mark and the count.
Padding(n) == (2 * Block - n - 1 - 2) % Block

LEMMA PaddingIs ==
  ASSUME NEW n \in Nat
  PROVE  /\ Padding(n) \in Nat
         /\ Block - ((n % Block) + 1) >= 2 => Padding(n) = Block - ((n % Block) + 1) - 2
         /\ Block - ((n % Block) + 1) < 2 => Padding(n) = (Block - ((n % Block) + 1)) + (Block - 2)
<1>1. Block \in Nat \ {0} /\ Block > 2
  BY DigestsAssumption
<1> DEFINE k == n \div Block
           t == n % Block
           z == 2 * Block - n - 1 - 2
<1>2. n = Block * k + t /\ t \in 0 .. Block - 1 /\ k \in Int
  BY <1>1, DivMod
<1> HIDE DEF k, t
<1>3. /\ 2 - k \in Int /\ 1 - k \in Int /\ z = Block * (1 - k) + (Block - (t + 1) - 2)
      /\ Block * (1 - k) + (Block - (t + 1) - 2) = Block * (0 - k) + ((Block - (t + 1)) + (Block - 2))
  BY <1>1, <1>2
<1> HIDE DEF z
<1> DEFINE k1 == 1 - k
           k0 == 0 - k
           r1 == Block - (t + 1) - 2
           r0 == (Block - (t + 1)) + (Block - 2)
<1>4. k1 \in Int /\ k0 \in Int /\ z = Block * k1 + r1 /\ z = Block * k0 + r0
  BY <1>2, <1>3
<1> HIDE DEF k1, k0
<1>5. CASE Block - (t + 1) >= 2
  <2>1. r1 \in 0 .. Block - 1
    BY <1>1, <1>2, <1>5
  <2> HIDE DEF r1, r0
  <2>2. (Block * k1 + r1) % Block = r1
    BY <1>1, <1>4, <2>1, DivModAre
  <2>3. Padding(n) = r1
    BY <1>4, <2>2 DEF Padding, z
  <2> QED
    BY <1>1, <1>2, <1>5, <2>1, <2>3 DEF r1, t
<1>6. CASE Block - (t + 1) < 2
  <2>1. r0 \in 0 .. Block - 1
    BY <1>1, <1>2, <1>6
  <2> HIDE DEF r1, r0
  <2>2. (Block * k0 + r0) % Block = r0
    BY <1>1, <1>4, <2>1, DivModAre
  <2>3. Padding(n) = r0
    BY <1>4, <2>2 DEF Padding, z
  <2> QED
    BY <1>1, <1>2, <1>6, <2>1, <2>3 DEF r0, t
<1>7. Block - (t + 1) >= 2 \/ Block - (t + 1) < 2
  BY <1>1, <1>2
<1> QED
  BY <1>5, <1>6, <1>7, Zenon

\* A message with its padding and its count.
Closed(s, count) == s \o <<-1>> \o Digests!Zeros(Padding(Len(s))) \o count

\* Both ways to pad: in this block, or with another one.
LEMMA ClosedInOne ==
  ASSUME NEW s \in Seq(Int), NEW count \in Seq(Int), Block - ((Len(s) % Block) + 1) >= 2
  PROVE  ((s \o <<-1>>) \o Digests!Zeros(Block - ((Len(s) % Block) + 1) - 2)) \o count = Closed(s, count)
<1>1. Len(s) \in Nat
  OBVIOUS
<1>2. Padding(Len(s)) = Block - ((Len(s) % Block) + 1) - 2
  BY <1>1, PaddingIs
<1> QED
  BY <1>2 DEF Closed

LEMMA ClosedInTwo ==
  ASSUME NEW s \in Seq(Int), NEW count \in Seq(Int), Block - ((Len(s) % Block) + 1) < 2
  PROVE  (((s \o <<-1>>) \o Digests!Zeros(Block - ((Len(s) % Block) + 1))) \o Digests!Zeros(Block - 2)) \o count = Closed(s, count)
<1>1. Len(s) \in Nat /\ Block \in Nat \ {0} /\ Block > 2
  BY DigestsAssumption
<1> DEFINE n == Len(s)
           a == Block - ((n % Block) + 1)
           b == Block - 2
           m == s \o <<-1>>
<1>2. Padding(n) = a + b
  BY <1>1, PaddingIs
<1>3. a \in Nat /\ b \in Nat
  BY <1>1
<1>4. m \in Seq(Int)
  <2>1. <<-1>> \in Seq(Int)
    OBVIOUS
  <2> QED
    BY <2>1, ConcatProperties
<1> HIDE DEF a, b, m
<1>5. /\ Digests!Zeros(a) \in Seq(Int) /\ Digests!Zeros(b) \in Seq(Int)
      /\ Digests!Zeros(a) \o Digests!Zeros(b) = Digests!Zeros(a + b)
  BY <1>3, ZerosAre
<1>6. (m \o Digests!Zeros(a)) \o Digests!Zeros(b) = m \o (Digests!Zeros(a) \o Digests!Zeros(b))
  <2> DEFINE x == Digests!Zeros(a)
             y == Digests!Zeros(b)
  <2>1. x \in Seq(Int) /\ y \in Seq(Int)
    BY <1>5
  <2> HIDE DEF x, y
  <2>2. (m \o x) \o y = m \o (x \o y)
    BY <1>4, <2>1, Joined
  <2> QED
    BY <2>2 DEF x, y
<1>7. (m \o Digests!Zeros(a)) \o Digests!Zeros(b) = m \o Digests!Zeros(Padding(n))
  BY <1>2, <1>5, <1>6
<1> QED
  BY <1>7 DEF Closed, a, b, m, n

\* The padding and the count fill a block, which is the last one taken.
LEMMA Md5FinishTakes ==
  ASSUME NEW h, NEW s \in Seq(Int), Md5Has(h, s)
  PROVE  LET c == Digests!Md5Finish(h)
         IN c \in Md5States /\ c.taken = Closed(s, <<(8 * Len(s)) % Low, (8 * Len(s)) \div Low>>)
<1>1. Block \in Nat \ {0} /\ Block > 2
  BY DigestsAssumption
<1> DEFINE n == Len(s)
           t == n % Block
           p == t + 1
           bits == <<(8 * n) % Low, (8 * n) \div Low>>
           s1 == s \o <<-1>>
           b1 == Digests!Put(h.in, t, <<-1>>)
           marked == [h EXCEPT !.in = Digests!Put(@, p - 1, <<-1>>)]
           c == Digests!Md5Finish(h)
<1>2. n \in Nat /\ t \in 0 .. Block - 1 /\ p \in Nat /\ p - 1 = t /\ p <= Block
  BY <1>1
<1>3. h \in Md5States /\ Buffered(h.taken, h.in, t, s) /\ h.bits = bits
  BY DEF Md5Has
<1>4. h.in \in [1 .. Block -> Int] /\ h.taken \in Seq(Int) /\ h.bits \in Int \X Int
  BY <1>3, Md5Fields
<1>5. Digests!Offset(h) = t
  BY <1>2, <1>3, OffsetIs
<1>6. bits \in Seq(Int) /\ Len(bits) = 2
  BY <1>3, <1>4
<1>7. <<-1>> \in Seq(Int) /\ Len(<<-1>>) = 1
  OBVIOUS
<1>8. Buffered(h.taken, b1, p, s1)
  <2> DEFINE d == <<-1>>
  <2>1. d \in Seq(Int) /\ t + Len(d) = p /\ t \in Nat /\ t + Len(d) <= Block
    BY <1>2, <1>7
  <2> HIDE DEF d
  <2>2. Buffered(h.taken, Digests!Put(h.in, t, d), t + Len(d), s \o d)
    BY <1>3, <1>4, <2>1, PutMore
  <2> QED
    BY <2>1, <2>2 DEF d
<1>9. b1 \in [1 .. Block -> Int] /\ s1 \in Seq(Int)
  BY <1>8 DEF Buffered
<1>10. marked = [in |-> b1, bits |-> bits, taken |-> h.taken]
  <2> HIDE DEF b1
  <2>1. [h EXCEPT !.in = b1] = [in |-> b1, bits |-> h.bits, taken |-> h.taken]
    BY <1>3, Md5Fields
  <2> QED
    BY <1>2, <1>3, <2>1 DEF b1
<1>11. marked \in Md5States
  <2> HIDE DEF b1, bits, marked
  <2> QED
    BY <1>3, <1>4, <1>9, <1>10 DEF Md5States
<1>12. bits \in Int \X Int
  BY <1>3, <1>4
\* The last block, from one that lacks its count.
<1>13. ASSUME NEW g \in Md5States, NEW r \in Seq(Int), Buffered(g.taken, g.in, Block - 2, r)
       PROVE  LET f == Digests!transform([g EXCEPT !.in = Digests!Put(@, Block - 2, bits)])
              IN f \in Md5States /\ f.taken = r \o bits
  <2> HIDE DEF bits
  <2> DEFINE x == Digests!Put(g.in, Block - 2, bits)
             e == [g EXCEPT !.in = Digests!Put(@, Block - 2, bits)]
             f == Digests!transform(e)
  <2>1. g.in \in [1 .. Block -> Int] /\ g.taken \in Seq(Int) /\ g.bits \in Int \X Int
    BY Md5Fields
  <2>2. Buffered(g.taken, x, Block, r \o bits)
    <3> DEFINE k == Block - 2
    <3>1. k \in Nat /\ k + Len(bits) = Block /\ k + Len(bits) <= Block /\ Buffered(g.taken, g.in, k, r)
      BY <1>1, <1>6, <1>13
    <3> HIDE DEF k
    <3>2. Buffered(g.taken, Digests!Put(g.in, k, bits), k + Len(bits), r \o bits)
      BY <1>6, <2>1, <3>1, PutMore
    <3> QED
      BY <3>1, <3>2 DEF k
  <2>3. x \in [1 .. Block -> Int]
    BY <2>2 DEF Buffered
  <2>4. e = [in |-> x, bits |-> g.bits, taken |-> g.taken]
    <3> HIDE DEF x
    <3>1. [g EXCEPT !.in = x] = [in |-> x, bits |-> g.bits, taken |-> g.taken]
      BY Md5Fields
    <3> QED
      BY <3>1 DEF x
  <2> HIDE DEF x, e
  <2>5. e \in Md5States
    BY <2>1, <2>3, <2>4 DEF Md5States
  <2>6. f = [in |-> x, bits |-> g.bits, taken |-> g.taken \o x]
    <3> DEFINE y == g.taken \o x
    <3>1. f = [e EXCEPT !.taken = y]
      BY <2>4 DEF Digests!transform
    <3> HIDE DEF y
    <3>2. [e EXCEPT !.taken = y] = [in |-> e.in, bits |-> e.bits, taken |-> y]
      BY <2>5, Md5Fields
    <3> QED
      BY <2>4, <3>1, <3>2 DEF y
  <2>7. x \in Seq(Int) /\ Len(x) = Block
    BY <1>1, <2>3
  <2>8. g.taken \o x = r \o bits
    <3>1. g.taken \o SubSeq(x, 1, Block) = r \o bits
      <4>1. r \o bits \in Seq(Int) /\ Block \in Nat
        BY <1>1, <2>2 DEF Buffered
      <4> QED
        BY <2>1, <2>2, <2>3, <4>1, BufferedIs
    <3>2. SubSeq(x, 1, Len(x)) = x
      BY <2>7, SubSeqFull
    <3> QED
      BY <2>7, <3>1, <3>2
  <2>9. g.taken \o x \in Seq(Int)
    BY <2>1, <2>7, ConcatProperties
  <2> HIDE DEF f
  <2>10. f \in Md5States /\ f.taken = r \o bits
    BY <2>1, <2>3, <2>6, <2>8, <2>9 DEF Md5States
  <2> QED
    BY <2>10 DEF f, e
<1> HIDE DEF marked, bits, b1, s1
<1>14. CASE Block - p >= 2
  <2> DEFINE z == Digests!Zeros(Block - p - 2)
             x == Digests!Put(b1, p, z)
             g == [marked EXCEPT !.in = Digests!Put(@, p, Digests!Zeros(Block - p - 2))]
             r == s1 \o z
  <2>1. z \in Seq(Int) /\ Len(z) = Block - p - 2
    <3> DEFINE k == Block - p - 2
    <3>1. k \in Nat
      BY <1>1, <1>2, <1>14
    <3> HIDE DEF k
    <3>2. Digests!Zeros(k) \in Seq(Int) /\ Len(Digests!Zeros(k)) = k
      BY <3>1, ZerosAre
    <3> QED
      BY <3>2 DEF k
  <2>2. Digests!Padded(h) = g
    <3>1. ~(Block - p < 2)
      BY <1>1, <1>2, <1>14
    <3> HIDE DEF p
    <3> SUFFICES ASSUME p = Digests!Offset(h) + 1 PROVE Digests!Padded(h) = g
      BY <1>5 DEF p
    <3> QED
      BY <1>5, <3>1 DEF Digests!Padded, Digests!CountSize, Digests!Mark, marked
  <2> HIDE DEF z
  <2>3. g = [in |-> x, bits |-> bits, taken |-> h.taken]
    <3> HIDE DEF x
    <3>1. [marked EXCEPT !.in = x] = [in |-> x, bits |-> marked.bits, taken |-> marked.taken]
      BY <1>11, Md5Fields
    <3> QED
      BY <1>10, <3>1, SMTT(30) DEF x, z
  <2>4. Buffered(h.taken, x, Block - 2, r)
    <3>1. p \in Nat /\ p + Len(z) = Block - 2 /\ p + Len(z) <= Block
      BY <1>1, <1>2, <2>1
    <3> HIDE DEF p
    <3>2. Buffered(h.taken, Digests!Put(b1, p, z), p + Len(z), s1 \o z)
      BY <1>4, <1>8, <1>9, <2>1, <3>1, PutMore
    <3> QED
      BY <3>1, <3>2
  <2>5. x \in [1 .. Block -> Int] /\ r \in Seq(Int)
    BY <2>4 DEF Buffered
  <2> HIDE DEF x, g, r
  <2>6. g \in Md5States
    BY <1>4, <1>12, <2>3, <2>5 DEF Md5States
  <2>7. Buffered(g.taken, g.in, Block - 2, r)
    BY <2>3, <2>4
  <2>8. c = Digests!transform([g EXCEPT !.in = Digests!Put(@, Block - 2, bits)])
    BY <1>3, <2>2 DEF Digests!Md5Finish, Digests!CountSize
  <2>9. c \in Md5States /\ c.taken = r \o bits
    <3> HIDE DEF c
    <3> QED
      BY <1>13, <2>5, <2>6, <2>7, <2>8
  <2>10. r \o bits = Closed(s, bits)
    <3>1. Block - ((Len(s) % Block) + 1) >= 2
      BY <1>14
    <3> QED
      BY <1>6, <3>1, ClosedInOne DEF r, s1, z
  <2> QED
    BY <2>9, <2>10 DEF bits
<1>15. CASE Block - p < 2
  <2> DEFINE z == Digests!Zeros(Block - p)
             y == Digests!Zeros(Block - 2)
             x == Digests!Put(b1, p, z)
             w == Digests!Put(x, 0, y)
             f == [marked EXCEPT !.in = Digests!Put(@, p, Digests!Zeros(Block - p))]
             e == Digests!transform(f)
             g == [e EXCEPT !.in = Digests!Put(@, 0, Digests!Zeros(Block - 2))]
             r1 == s1 \o z
             r == r1 \o y
  <2>1. z \in Seq(Int) /\ Len(z) = Block - p /\ y \in Seq(Int) /\ Len(y) = Block - 2
    <3> DEFINE k == Block - p
               l == Block - 2
    <3>1. k \in Nat /\ l \in Nat
      BY <1>1, <1>2, <1>15
    <3> HIDE DEF k, l
    <3>2. /\ Digests!Zeros(k) \in Seq(Int) /\ Len(Digests!Zeros(k)) = k
          /\ Digests!Zeros(l) \in Seq(Int) /\ Len(Digests!Zeros(l)) = l
      BY <3>1, ZerosAre
    <3> QED
      BY <3>2 DEF k, l
  <2>2. Digests!Padded(h) = g
    <3> HIDE DEF p
    <3> SUFFICES ASSUME p = Digests!Offset(h) + 1 PROVE Digests!Padded(h) = g
      BY <1>5 DEF p
    <3> QED
      BY <1>5, <1>15 DEF Digests!Padded, Digests!CountSize, Digests!Mark, marked
  <2> HIDE DEF z, y
  <2>3. f = [in |-> x, bits |-> bits, taken |-> h.taken]
    <3> HIDE DEF x
    <3>1. [marked EXCEPT !.in = x] = [in |-> x, bits |-> marked.bits, taken |-> marked.taken]
      BY <1>11, Md5Fields
    <3> QED
      BY <1>10, <3>1, SMTT(30) DEF x, z
  <2>4. Buffered(h.taken, x, Block, r1)
    <3>1. p \in Nat /\ p + Len(z) = Block /\ p + Len(z) <= Block
      BY <1>1, <1>2, <2>1
    <3> HIDE DEF p
    <3>2. Buffered(h.taken, Digests!Put(b1, p, z), p + Len(z), s1 \o z)
      BY <1>4, <1>8, <1>9, <2>1, <3>1, PutMore
    <3> QED
      BY <3>1, <3>2
  <2>5. x \in [1 .. Block -> Int] /\ r1 \in Seq(Int)
    BY <2>4 DEF Buffered
  <2> HIDE DEF x, f, r1
  <2>6. f \in Md5States
    BY <1>4, <1>12, <2>3, <2>5 DEF Md5States
  <2>7. e = [in |-> x, bits |-> bits, taken |-> h.taken \o x]
    <3> DEFINE u == h.taken \o x
    <3>1. e = [f EXCEPT !.taken = u]
      BY <2>3 DEF Digests!transform
    <3> HIDE DEF u
    <3>2. [f EXCEPT !.taken = u] = [in |-> f.in, bits |-> f.bits, taken |-> u]
      BY <2>6, Md5Fields
    <3> QED
      BY <2>3, <3>1, <3>2 DEF u
  <2>8. Buffered(h.taken \o x, x, 0, r1)
    BY <1>4, <2>4, <2>5, TakeBlock
  <2>9. h.taken \o x \in Seq(Int)
    BY <2>8 DEF Buffered
  <2> HIDE DEF e
  <2>10. e \in Md5States
    BY <1>12, <2>5, <2>7, <2>9 DEF Md5States
  <2>11. g = [in |-> w, bits |-> bits, taken |-> h.taken \o x]
    <3> HIDE DEF w
    <3>1. [e EXCEPT !.in = w] = [in |-> w, bits |-> e.bits, taken |-> e.taken]
      BY <2>10, Md5Fields
    <3> QED
      BY <2>7, <3>1 DEF w, y
  <2>12. Buffered(h.taken \o x, w, Block - 2, r)
    <3> DEFINE u == h.taken \o x
    <3>1. 0 \in Nat /\ 0 + Len(y) = Block - 2 /\ 0 + Len(y) <= Block /\ u \in Seq(Int) /\ Buffered(u, x, 0, r1)
      BY <1>1, <2>1, <2>8, <2>9
    <3> HIDE DEF u
    <3>2. Buffered(u, Digests!Put(x, 0, y), 0 + Len(y), r1 \o y)
      BY <2>1, <2>5, <3>1, PutMore
    <3> QED
      BY <3>1, <3>2 DEF u
  <2>13. w \in [1 .. Block -> Int] /\ r \in Seq(Int)
    BY <2>12 DEF Buffered
  <2> HIDE DEF w, g, r
  <2>14. g \in Md5States
    BY <1>12, <2>9, <2>11, <2>13 DEF Md5States
  <2>15. Buffered(g.taken, g.in, Block - 2, r)
    BY <2>11, <2>12
  <2>16. c = Digests!transform([g EXCEPT !.in = Digests!Put(@, Block - 2, bits)])
    BY <1>3, <2>2 DEF Digests!Md5Finish, Digests!CountSize
  <2>17. c \in Md5States /\ c.taken = r \o bits
    <3> HIDE DEF c
    <3> QED
      BY <1>13, <2>13, <2>14, <2>15, <2>16
  <2>18. r \o bits = Closed(s, bits)
    <3>1. Block - ((Len(s) % Block) + 1) < 2
      BY <1>15
    <3> QED
      BY <1>6, <3>1, ClosedInTwo DEF r, r1, s1, z, y
  <2> QED
    BY <2>17, <2>18 DEF bits
<1>16. Block - p >= 2 \/ Block - p < 2
  BY <1>1, <1>2
<1> QED
  BY <1>14, <1>15, <1>16, Zenon

------------------------------------------------------------------------------
(* Sha1Hasher. *)

ShaStates == [m : [1 .. Block -> Int], cursor : Int, l : Int, taken : Seq(Int)]

LEMMA ShaFields ==
  ASSUME NEW h \in ShaStates
  PROVE  /\ h.m \in [1 .. Block -> Int] /\ h.cursor \in Int /\ h.l \in Int /\ h.taken \in Seq(Int)
         /\ h = [m |-> h.m, cursor |-> h.cursor, l |-> h.l, taken |-> h.taken]
<1> DEFINE M == [1 .. Block -> Int]
           T == Seq(Int)
           I == Int
<1> HIDE DEF M, T, I
<1>1. h \in [m : M, cursor : I, l : I, taken : T]
  BY DEF ShaStates, M, T, I
<1>2. h.m \in M /\ h.cursor \in I /\ h.l \in I /\ h.taken \in T
  BY <1>1
<1>3. h = [m |-> h.m, cursor |-> h.cursor, l |-> h.l, taken |-> h.taken]
  BY <1>1
<1> QED
  BY <1>2, <1>3 DEF M, T, I

\* A recurrence over the bytes of a piece, and its solution.
HasSolution(n, S, h, F) == \E f \in [0 .. n -> S] : f[0] = h /\ \A i \in 1 .. n : f[i] = F[i][f[i - 1]]

LEMMA Solved ==
  ASSUME NEW n \in Nat, NEW S, NEW h \in S, NEW F \in [1 .. n -> [S -> S]]
  PROVE  HasSolution(n, S, h, F)
<1> DEFINE P(k) == \E f \in [0 .. k -> S] : f[0] = h /\ \A i \in 1 .. k : f[i] = F[i][f[i - 1]]
           D == {k \in 0 .. n : P(k)}
<1>1. P(0)
  <2> DEFINE f == [i \in 0 .. 0 |-> h]
  <2>1. f \in [0 .. 0 -> S] /\ f[0] = h /\ \A i \in 1 .. 0 : f[i] = F[i][f[i - 1]]
    OBVIOUS
  <2> QED
    BY <2>1
<1>2. ASSUME NEW k \in 1 .. n, k - 1 \in D
      PROVE  P(k)
  <2>1. PICK f \in [0 .. k - 1 -> S] : f[0] = h /\ \A i \in 1 .. k - 1 : f[i] = F[i][f[i - 1]]
    BY <1>2
  <2> DEFINE g == [i \in 0 .. k |-> IF i = k THEN F[k][f[k - 1]] ELSE f[i]]
  <2>2. f[k - 1] \in S /\ F[k] \in [S -> S]
    BY <2>1
  <2>3. F[k][f[k - 1]] \in S
    BY <2>2
  <2>4. g \in [0 .. k -> S]
    BY <2>1, <2>3
  <2>5. g[0] = h
    BY <2>1
  <2>6. ASSUME NEW i \in 1 .. k PROVE g[i] = F[i][g[i - 1]]
    <3>1. g[i - 1] = f[i - 1]
      OBVIOUS
    <3>2. CASE i = k
      BY <3>1, <3>2
    <3>3. CASE i # k
      <4>1. i \in 1 .. k - 1
        BY <3>3
      <4>2. g[i] = f[i]
        BY <3>3
      <4>3. f[i] = F[i][f[i - 1]]
        BY <2>1, <4>1
      <4> QED
        BY <3>1, <4>2, <4>3
    <3> QED
      BY <3>2, <3>3
  <2> HIDE DEF g
  <2> QED
    BY <2>4, <2>5, <2>6
<1>3. \A i \in 0 + 1 .. n : i - 1 \in D => i \in D
  <2> SUFFICES ASSUME NEW i \in 0 + 1 .. n, i - 1 \in D PROVE i \in D
    OBVIOUS
  <2>1. i \in 1 .. n /\ i \in 0 .. n
    OBVIOUS
  <2>2. P(i)
    BY <1>2, <2>1
  <2> QED
    BY <2>1, <2>2
<1>4. 0 \in D
  BY <1>1
<1> DEFINE l == 0
<1>5. \A i \in 0 .. n : i \in D
  <2>1. n \in Int /\ 0 \in Int
    OBVIOUS
  <2> HIDE DEF D
  <2> QED
    BY <1>3, <1>4, <2>1, InductUpTo
<1>6. n \in D
  BY <1>5
<1> QED
  BY <1>6 DEF HasSolution

\* A byte that is stored and not taken yet.
LEMMA ByteIs ==
  ASSUME NEW h \in ShaStates, NEW b \in Int
  PROVE  /\ Digests!Byte(h, b) = [m |-> Digests!Put(h.m, h.cursor, <<b>>), cursor |-> h.cursor + 1, l |-> h.l, taken |-> h.taken]
         /\ Digests!Byte(h, b) \in ShaStates
<1> DEFINE x == Digests!Put(h.m, h.cursor, <<b>>)
<1>1. /\ h.m \in [1 .. Block -> Int] /\ h.cursor \in Int /\ h.l \in Int /\ h.taken \in Seq(Int)
      /\ h = [m |-> h.m, cursor |-> h.cursor, l |-> h.l, taken |-> h.taken]
  BY ShaFields
<1>2. x \in [1 .. Block -> Int]
  <2>1. DOMAIN <<b>> = {1} /\ <<b>>[1] = b
    OBVIOUS
  <2>2. DOMAIN h.m = 1 .. Block
    BY <1>1
  <2>3. x = [i \in 1 .. Block |-> IF i - h.cursor \in {1} THEN <<b>>[i - h.cursor] ELSE h.m[i]]
    BY <2>1, <2>2 DEF Digests!Put
  <2>4. \A i \in 1 .. Block : h.m[i] \in Int
    BY <1>1
  <2> QED
    BY <2>1, <2>3, <2>4
<1>3. Digests!Byte(h, b) = [h EXCEPT !.m = x, !.cursor = h.cursor + 1]
  <2> HIDE DEF x
  <2>1. DOMAIN h = {"m", "cursor", "l", "taken"}
    BY <1>1
  <2> QED
    BY <2>1 DEF Digests!Byte, x
<1> HIDE DEF x
<1> DEFINE g == [m |-> h.m, cursor |-> h.cursor, l |-> h.l, taken |-> h.taken]
           j == h.cursor + 1
           f == [m |-> x, cursor |-> j, l |-> h.l, taken |-> h.taken]
<1>4. [h EXCEPT !.m = x, !.cursor = j] = f
  <2>1. f = [k \in {"m", "cursor", "l", "taken"} |-> IF k = "cursor" THEN j ELSE IF k = "m" THEN x ELSE g[k]]
    OBVIOUS
  <2>2. DOMAIN h = {"m", "cursor", "l", "taken"} /\ h = g
    BY <1>1
  <2>3. [h EXCEPT !.m = x, !.cursor = j] = [k \in DOMAIN h |-> IF k = "cursor" THEN j ELSE IF k = "m" THEN x ELSE h[k]]
    OBVIOUS
  <2> HIDE DEF f, g, j
  <2> QED
    BY <2>1, <2>2, <2>3
<1>5. f \in ShaStates
  <2>1. j \in Int
    BY <1>1
  <2> HIDE DEF j
  <2> QED
    BY <1>1, <1>2, <2>1 DEF ShaStates
<1> QED
  BY <1>3, <1>4, <1>5 DEF x

\* Where taken is.
LEMMA ProcessIs ==
  ASSUME NEW h \in ShaStates
  PROVE  LET c == Digests!process(h)
         IN /\ c = [m |-> [i \in 1 .. Block |-> -2], cursor |-> 0, l |-> h.l, taken |-> h.taken \o h.m]
            /\ c \in ShaStates
<1> DEFINE x == [i \in 1 .. Block |-> -2]
           y == h.taken \o h.m
           c == Digests!process(h)
           g == [m |-> h.m, cursor |-> h.cursor, l |-> h.l, taken |-> h.taken]
           f == [m |-> x, cursor |-> 0, l |-> h.l, taken |-> y]
<1>1. h.m \in [1 .. Block -> Int] /\ h.cursor \in Int /\ h.l \in Int /\ h.taken \in Seq(Int) /\ h = g
  BY ShaFields
<1>2. x \in [1 .. Block -> Int]
  OBVIOUS
<1>3. h.m \in Seq(Int)
  <2> DEFINE b == h.m
  <2>1. b \in [1 .. Block -> Int] /\ Block \in Nat
    BY <1>1, DigestsAssumption
  <2> HIDE DEF b
  <2>2. b \in Seq(Int)
    BY <2>1
  <2> QED
    BY <2>2 DEF b
<1>4. y \in Seq(Int)
  BY <1>1, <1>3, ConcatProperties
<1>5. c = [h EXCEPT !.taken = y, !.m = x, !.cursor = 0]
  <2>1. DOMAIN h = {"m", "cursor", "l", "taken"}
    BY <1>1
  <2> HIDE DEF g
  <2> QED
    BY <2>1 DEF Digests!process, Digests!Garbage
<1>6. f = [k \in {"m", "cursor", "l", "taken"} |-> IF k = "cursor" THEN 0 ELSE IF k = "m" THEN x ELSE IF k = "taken" THEN y ELSE g[k]]
  <2> HIDE DEF x, y
  <2> QED
    OBVIOUS
<1>7. DOMAIN h = {"m", "cursor", "l", "taken"}
  BY <1>1
<1>8. [h EXCEPT !.taken = y, !.m = x, !.cursor = 0]
        = [k \in DOMAIN h |-> IF k = "cursor" THEN 0 ELSE IF k = "m" THEN x ELSE IF k = "taken" THEN y ELSE h[k]]
  <2> HIDE DEF x, y, g
  <2> QED
    OBVIOUS
<1>9. c = f
  <2> HIDE DEF x, y, g, f, c
  <2>1. h = g
    BY <1>1
  <2> QED
    BY <1>5, <1>6, <1>7, <1>8, <2>1
<1>10. f \in ShaStates
  <2> HIDE DEF x, y
  <2> QED
    BY <1>1, <1>2, <1>4 DEF ShaStates
<1> HIDE DEF c
<1> QED
  BY <1>9, <1>10 DEF c

\* The bytes that update has stored are those of a piece, one by one.
LEMMA UpdateIs ==
  ASSUME NEW h \in ShaStates, NEW d \in Seq(Int)
  PROVE  \E f \in [0 .. Len(d) -> ShaStates] :
           /\ f[0] = h /\ \A i \in 1 .. Len(d) : f[i] = Digests!One(f[i - 1], d[i])
           /\ Digests!ShaUpdate(h, d) = f[Len(d)]
<1> DEFINE n == Len(d)
           F == [i \in 1 .. n |-> [g \in ShaStates |-> Digests!One(g, d[i])]]
<1>1. n \in Nat /\ \A i \in 1 .. n : d[i] \in Int
  OBVIOUS
<1>2. ASSUME NEW g \in ShaStates, NEW b \in Int PROVE Digests!One(g, b) \in ShaStates
  <2> DEFINE e == Digests!Byte(g, b)
             t == IF e.cursor >= Block THEN Digests!process(e) ELSE e
             o == [t EXCEPT !.l = @ + 8]
  <2>1. e \in ShaStates
    BY ByteIs
  <2> HIDE DEF e
  <2>2. t \in ShaStates
    BY <2>1, ProcessIs
  <2>3. Digests!One(g, b) = o
    BY DEF Digests!One, e
  <2> HIDE DEF t
  <2>4. /\ t.m \in [1 .. Block -> Int] /\ t.cursor \in Int /\ t.l \in Int /\ t.taken \in Seq(Int)
        /\ t = [m |-> t.m, cursor |-> t.cursor, l |-> t.l, taken |-> t.taken]
    BY <2>2, ShaFields
  <2>5. o = [m |-> t.m, cursor |-> t.cursor, l |-> t.l + 8, taken |-> t.taken]
    BY <2>4
  <2> HIDE DEF o
  <2>6. o \in ShaStates
    BY <2>4, <2>5 DEF ShaStates
  <2> QED
    BY <2>3, <2>6
<1>3. F \in [1 .. n -> [ShaStates -> ShaStates]]
  <2> HIDE DEF n
  <2>1. \A i \in 1 .. n : \A g \in ShaStates : Digests!One(g, d[i]) \in ShaStates
    BY <1>1, <1>2
  <2> QED
    BY <2>1
<1>4. PICK f \in [0 .. n -> ShaStates] : f[0] = h /\ \A i \in 1 .. n : f[i] = F[i][f[i - 1]]
  <2>1. n \in Nat /\ h \in ShaStates
    BY <1>1
  <2> HIDE DEF n, F
  <2>2. HasSolution(n, ShaStates, h, F)
    BY <2>1, <1>3, Solved
  <2> QED
    BY <2>2 DEF HasSolution
<1>5. \A i \in 1 .. n : f[i] = Digests!One(f[i - 1], d[i])
  <2> SUFFICES ASSUME NEW i \in 1 .. n PROVE f[i] = Digests!One(f[i - 1], d[i])
    OBVIOUS
  <2>1. i - 1 \in 0 .. n
    BY <1>1
  <2>2. f[i - 1] \in ShaStates
    BY <1>4, <2>1
  <2>3. F[i][f[i - 1]] = Digests!One(f[i - 1], d[i])
    BY <2>2
  <2> QED
    BY <1>4, <2>3
<1> DEFINE Solves(g) == g = [i \in 0 .. n |-> IF i = 0 THEN h ELSE Digests!One(g[i - 1], d[i])]
<1>6. Solves(f)
  <2> DEFINE g == [i \in 0 .. n |-> IF i = 0 THEN h ELSE Digests!One(f[i - 1], d[i])]
  <2>1. \A i \in 0 .. n : f[i] = g[i]
    BY <1>1, <1>4, <1>5
  <2>2. f = g
    BY <1>4, <2>1
  <2> QED
    BY <2>2
<1> DEFINE after == CHOOSE g : Solves(g)
<1>7. Solves(after)
  BY <1>6
<1> HIDE DEF F
<1>8. Digests!ShaUpdate(h, d) = after[n]
  BY DEF Digests!ShaUpdate
<1> HIDE DEF after
<1>9. after[0] = h /\ \A i \in 1 .. n : after[i] = Digests!One(after[i - 1], d[i])
  <2>1. after = [i \in 0 .. n |-> IF i = 0 THEN h ELSE Digests!One(after[i - 1], d[i])]
    BY <1>7
  <2>2. 0 \in 0 .. n /\ \A i \in 1 .. n : i \in 0 .. n /\ i # 0
    BY <1>1
  <2> HIDE DEF n
  <2> QED
    BY <2>1, <2>2
<1> DEFINE D == {i \in 0 .. n : after[i] \in ShaStates}
<1>10. \A i \in 0 + 1 .. n : i - 1 \in D => i \in D
  <2> SUFFICES ASSUME NEW i \in 0 + 1 .. n, i - 1 \in D PROVE i \in D
    OBVIOUS
  <2>1. i \in 1 .. n /\ i \in 0 .. n /\ d[i] \in Int
    BY <1>1
  <2>2. after[i - 1] \in ShaStates
    OBVIOUS
  <2>3. Digests!One(after[i - 1], d[i]) \in ShaStates
    BY <1>2, <2>1, <2>2
  <2>4. after[i] = Digests!One(after[i - 1], d[i])
    BY <1>9, <2>1
  <2> QED
    BY <2>1, <2>3, <2>4
<1>11. 0 \in D
  BY <1>1, <1>9
<1>12. \A i \in 0 .. n : i \in D
  <2>1. n \in Int /\ 0 \in Int
    BY <1>1
  <2> HIDE DEF D, n
  <2> QED
    BY <1>10, <1>11, <2>1, InductUpTo
<1>13. after \in [0 .. n -> ShaStates]
  <2>1. after = [i \in 0 .. n |-> IF i = 0 THEN h ELSE Digests!One(after[i - 1], d[i])]
    BY <1>7
  <2>2. DOMAIN after = 0 .. n
    BY <2>1
  <2>3. after = [i \in 0 .. n |-> after[i]]
    BY <2>1, <2>2
  <2>4. \A i \in 0 .. n : after[i] \in ShaStates
    BY <1>12
  <2> QED
    BY <2>3, <2>4
<1> QED
  BY <1>8, <1>9, <1>13

\* And those of what pad stores.
LEMMA BytesAre ==
  ASSUME NEW h \in ShaStates, NEW d \in Seq(Int)
  PROVE  \E f \in [0 .. Len(d) -> ShaStates] :
           /\ f[0] = h /\ \A i \in 1 .. Len(d) : f[i] = Digests!Byte(f[i - 1], d[i])
           /\ Digests!Bytes(h, d) = f[Len(d)]
<1> DEFINE n == Len(d)
           F == [i \in 1 .. n |-> [g \in ShaStates |-> Digests!Byte(g, d[i])]]
<1>1. n \in Nat /\ \A i \in 1 .. n : d[i] \in Int
  OBVIOUS
<1>2. ASSUME NEW g \in ShaStates, NEW b \in Int PROVE Digests!Byte(g, b) \in ShaStates
  BY ByteIs
<1>3. F \in [1 .. n -> [ShaStates -> ShaStates]]
  <2> HIDE DEF n
  <2>1. \A i \in 1 .. n : \A g \in ShaStates : Digests!Byte(g, d[i]) \in ShaStates
    BY <1>1, <1>2
  <2> QED
    BY <2>1
<1>4. PICK f \in [0 .. n -> ShaStates] : f[0] = h /\ \A i \in 1 .. n : f[i] = F[i][f[i - 1]]
  <2>1. n \in Nat /\ h \in ShaStates
    BY <1>1
  <2> HIDE DEF n, F
  <2>2. HasSolution(n, ShaStates, h, F)
    BY <2>1, <1>3, Solved
  <2> QED
    BY <2>2 DEF HasSolution
<1>5. \A i \in 1 .. n : f[i] = Digests!Byte(f[i - 1], d[i])
  <2> SUFFICES ASSUME NEW i \in 1 .. n PROVE f[i] = Digests!Byte(f[i - 1], d[i])
    OBVIOUS
  <2>1. i - 1 \in 0 .. n
    BY <1>1
  <2>2. f[i - 1] \in ShaStates
    BY <1>4, <2>1
  <2>3. F[i][f[i - 1]] = Digests!Byte(f[i - 1], d[i])
    BY <2>2
  <2> QED
    BY <1>4, <2>3
<1> DEFINE Solves(g) == g = [i \in 0 .. n |-> IF i = 0 THEN h ELSE Digests!Byte(g[i - 1], d[i])]
<1>6. Solves(f)
  <2> DEFINE g == [i \in 0 .. n |-> IF i = 0 THEN h ELSE Digests!Byte(f[i - 1], d[i])]
  <2>1. \A i \in 0 .. n : f[i] = g[i]
    BY <1>1, <1>4, <1>5
  <2>2. f = g
    BY <1>4, <2>1
  <2> QED
    BY <2>2
<1> DEFINE after == CHOOSE g : Solves(g)
<1>7. Solves(after)
  BY <1>6
<1> HIDE DEF F
<1>8. Digests!Bytes(h, d) = after[n]
  BY DEF Digests!Bytes
<1> HIDE DEF after
<1>9. after[0] = h /\ \A i \in 1 .. n : after[i] = Digests!Byte(after[i - 1], d[i])
  <2>1. after = [i \in 0 .. n |-> IF i = 0 THEN h ELSE Digests!Byte(after[i - 1], d[i])]
    BY <1>7
  <2>2. 0 \in 0 .. n /\ \A i \in 1 .. n : i \in 0 .. n /\ i # 0
    BY <1>1
  <2> HIDE DEF n
  <2> QED
    BY <2>1, <2>2
<1> DEFINE D == {i \in 0 .. n : after[i] \in ShaStates}
<1>10. \A i \in 0 + 1 .. n : i - 1 \in D => i \in D
  <2> SUFFICES ASSUME NEW i \in 0 + 1 .. n, i - 1 \in D PROVE i \in D
    OBVIOUS
  <2>1. i \in 1 .. n /\ i \in 0 .. n /\ d[i] \in Int
    BY <1>1
  <2>2. after[i - 1] \in ShaStates
    OBVIOUS
  <2>3. Digests!Byte(after[i - 1], d[i]) \in ShaStates
    BY <1>2, <2>1, <2>2
  <2>4. after[i] = Digests!Byte(after[i - 1], d[i])
    BY <1>9, <2>1
  <2> QED
    BY <2>1, <2>3, <2>4
<1>11. 0 \in D
  BY <1>1, <1>9
<1>12. \A i \in 0 .. n : i \in D
  <2>1. n \in Int /\ 0 \in Int
    BY <1>1
  <2> HIDE DEF D, n
  <2> QED
    BY <1>10, <1>11, <2>1, InductUpTo
<1>13. after \in [0 .. n -> ShaStates]
  <2>1. after = [i \in 0 .. n |-> IF i = 0 THEN h ELSE Digests!Byte(after[i - 1], d[i])]
    BY <1>7
  <2>2. DOMAIN after = 0 .. n
    BY <2>1
  <2>3. after = [i \in 0 .. n |-> after[i]]
    BY <2>1, <2>2
  <2>4. \A i \in 0 .. n : after[i] \in ShaStates
    BY <1>12
  <2> QED
    BY <2>3, <2>4
<1> QED
  BY <1>8, <1>9, <1>13

\* What has been fed to h is s.
ShaHas(h, s) ==
  /\ h \in ShaStates /\ s \in Seq(Int)
  /\ h.l = 8 * Len(s) /\ h.cursor = Len(s) % Block
  /\ Buffered(h.taken, h.m, h.cursor, s)

\* A byte is stored behind the others.
LEMMA ByteHas ==
  ASSUME NEW h \in ShaStates, NEW s \in Seq(Int), Buffered(h.taken, h.m, h.cursor, s), NEW b \in Int, h.cursor < Block
  PROVE  LET c == Digests!Byte(h, b)
         IN /\ c \in ShaStates /\ c.cursor = h.cursor + 1 /\ c.l = h.l /\ c.taken = h.taken
            /\ Buffered(c.taken, c.m, c.cursor, s \o <<b>>)
<1> DEFINE c == Digests!Byte(h, b)
           x == Digests!Put(h.m, h.cursor, <<b>>)
<1>1. h.m \in [1 .. Block -> Int] /\ h.cursor \in Int /\ h.l \in Int /\ h.taken \in Seq(Int)
  BY ShaFields
<1>2. c = [m |-> x, cursor |-> h.cursor + 1, l |-> h.l, taken |-> h.taken] /\ c \in ShaStates
  BY ByteIs
<1>3. Buffered(h.taken, x, h.cursor + 1, s \o <<b>>)
  <2> DEFINE d == <<b>>
             k == h.cursor
  <2>1. d \in Seq(Int) /\ k + Len(d) = h.cursor + 1 /\ k + Len(d) <= Block /\ k \in Nat
    BY <1>1, DigestsAssumption DEF Buffered
  <2>2. Buffered(h.taken, h.m, k, s)
    OBVIOUS
  <2> HIDE DEF d, k
  <2>3. Buffered(h.taken, Digests!Put(h.m, k, d), k + Len(d), s \o d)
    BY <1>1, <2>1, <2>2, PutMore
  <2> QED
    BY <2>1, <2>3 DEF d, k
<1> HIDE DEF c, x
<1> SUFFICES /\ c \in ShaStates /\ c.cursor = h.cursor + 1 /\ c.l = h.l /\ c.taken = h.taken
             /\ Buffered(c.taken, c.m, c.cursor, s \o <<b>>)
  BY DEF c
<1> QED
  BY <1>2, <1>3

\* And taken with the others when the block is full.
LEMMA OneHas ==
  ASSUME NEW h, NEW s \in Seq(Int), ShaHas(h, s), NEW b \in Int
  PROVE  ShaHas(Digests!One(h, b), s \o <<b>>)
<1> DEFINE n == Len(s)
           c == Digests!Byte(h, b)
           t == IF c.cursor >= Block THEN Digests!process(c) ELSE c
           o == [t EXCEPT !.l = @ + 8]
           sb == s \o <<b>>
<1>1. Block \in Nat \ {0} /\ n \in Nat /\ Block > 2
  BY DigestsAssumption
<1>2. h \in ShaStates /\ h.l = 8 * n /\ h.cursor = n % Block /\ Buffered(h.taken, h.m, h.cursor, s)
  BY DEF ShaHas
<1>3. h.cursor \in 0 .. Block - 1
  BY <1>1, <1>2
<1>4. sb \in Seq(Int) /\ Len(sb) = n + 1
  <2>1. <<b>> \in Seq(Int) /\ Len(<<b>>) = 1
    OBVIOUS
  <2> QED
    BY <2>1, ConcatProperties
<1>5. /\ c \in ShaStates /\ c.cursor = h.cursor + 1 /\ c.l = h.l /\ c.taken = h.taken
      /\ Buffered(c.taken, c.m, c.cursor, sb)
  <2>1. h.cursor < Block
    BY <1>1, <1>3
  <2> QED
    BY <1>2, <2>1, ByteHas
<1>6. c.m \in [1 .. Block -> Int] /\ c.taken \in Seq(Int)
  BY <1>5, ShaFields
<1>7. Digests!One(h, b) = o
  BY DEF Digests!One
<1> HIDE DEF c, sb, n
<1>8. t \in ShaStates /\ t.l = h.l /\ t.cursor = (n + 1) % Block /\ Buffered(t.taken, t.m, t.cursor, sb)
  <2>1. CASE c.cursor >= Block
    <3>1. c.cursor = Block
      BY <1>1, <1>3, <1>5, <2>1
    <3> DEFINE p == Digests!process(c)
               x == [i \in 1 .. Block |-> -2]
    <3>2. p = [m |-> x, cursor |-> 0, l |-> c.l, taken |-> c.taken \o c.m] /\ p \in ShaStates
      BY <1>5, ProcessIs
    <3>3. x \in [1 .. Block -> Int]
      OBVIOUS
    <3>4. Buffered(c.taken \o c.m, x, 0, sb)
      <4>1. Buffered(c.taken, c.m, Block, sb)
        BY <1>5, <3>1
      <4> HIDE DEF x
      <4> QED
        BY <1>4, <1>6, <3>3, <4>1, TakeBlock
    <3>5. (n + 1) % Block = 0
      <4>1. n % Block = Block - 1
        BY <1>1, <1>2, <1>3, <1>5, <3>1
      <4>2. (n + (Block - (n % Block))) % Block = 0
        BY <1>1, NextRest
      <4>3. Block - (n % Block) = 1
        BY <1>1, <4>1
      <4> QED
        BY <4>2, <4>3
    <3>6. t = p
      BY <2>1
    <3> HIDE DEF p, x, t
    <3> QED
      BY <1>5, <3>2, <3>4, <3>5, <3>6
  <2>2. CASE ~(c.cursor >= Block)
    <3>1. (n + 1) % Block = (n % Block) + 1
      <4>1. (n % Block) + 1 \in 0 .. Block - 1
        BY <1>1, <1>2, <1>3, <1>5, <2>2
      <4>2. 1 \in Nat
        OBVIOUS
      <4> QED
        BY <1>1, <4>1, <4>2, MoreRest
    <3> QED
      BY <1>2, <1>5, <2>2, <3>1
  <2> QED
    BY <2>1, <2>2
<1> HIDE DEF t
<1>9. /\ t.m \in [1 .. Block -> Int] /\ t.cursor \in Int /\ t.l \in Int /\ t.taken \in Seq(Int)
      /\ t = [m |-> t.m, cursor |-> t.cursor, l |-> t.l, taken |-> t.taken]
  BY <1>8, ShaFields
<1>10. o = [m |-> t.m, cursor |-> t.cursor, l |-> t.l + 8, taken |-> t.taken]
  BY <1>9
<1> HIDE DEF o
<1>11. o \in ShaStates
  BY <1>9, <1>10 DEF ShaStates
<1>12. o.l = 8 * Len(sb)
  BY <1>1, <1>2, <1>4, <1>8, <1>10
<1>13. ShaHas(o, sb)
  BY <1>4, <1>8, <1>10, <1>11, <1>12 DEF ShaHas
<1> QED
  BY <1>7, <1>13 DEF sb

\* The beginnings of a piece.
LEMMA Beginning ==
  ASSUME NEW d \in Seq(Int), NEW i \in 1 .. Len(d)
  PROVE  SubSeq(d, 1, i - 1) \in Seq(Int) /\ SubSeq(d, 1, i) = SubSeq(d, 1, i - 1) \o <<d[i]>>
<1> DEFINE u == SubSeq(d, 1, i - 1)
           v == SubSeq(d, 1, i)
           w == u \o <<d[i]>>
           j == i - 1
<1>1. j \in Int /\ i \in Int /\ j <= Len(d) /\ 1 <= j + 1 /\ 1 <= i + 1 /\ i <= Len(d) /\ d[i] \in Int /\ j = i - 1 /\ i >= 1
  OBVIOUS
<1> HIDE DEF j
<1>2. SubSeq(d, 1, j) \in Seq(Int) /\ Len(SubSeq(d, 1, j)) = j - 1 + 1 /\ \A k \in 1 .. j - 1 + 1 : SubSeq(d, 1, j)[k] = d[1 + k - 1]
  BY <1>1, Piece
<1>3. v \in Seq(Int) /\ Len(v) = i - 1 + 1 /\ \A k \in 1 .. i - 1 + 1 : v[k] = d[1 + k - 1]
  BY <1>1, Piece
<1>4. u \in Seq(Int) /\ Len(u) = i - 1 /\ \A k \in 1 .. i - 1 : u[k] = d[k]
  BY <1>1, <1>2
<1>5. Len(v) = i /\ \A k \in 1 .. i : v[k] = d[k]
  BY <1>1, <1>3
<1> HIDE DEF u, v
<1>6. <<d[i]>> \in Seq(Int) /\ Len(<<d[i]>>) = 1 /\ <<d[i]>>[1] = d[i]
  BY <1>1
<1> DEFINE e == <<d[i]>>
<1> HIDE DEF e
<1>7. w \in Seq(Int) /\ Len(w) = Len(u) + Len(e) /\ \A k \in 1 .. Len(u) + Len(e) : w[k] = IF k <= Len(u) THEN u[k] ELSE e[k - Len(u)]
  BY <1>4, <1>6, ConcatProperties DEF e
<1> HIDE DEF w
<1>8. ASSUME NEW k \in 1 .. Len(v) PROVE v[k] = w[k]
  <2>1. Len(e) = 1 /\ e[1] = d[i]
    BY <1>6 DEF e
  <2>2. k \in 1 .. i /\ k \in 1 .. Len(u) + Len(e)
    BY <1>1, <1>4, <1>5, <2>1
  <2>3. CASE k <= i - 1
    <3>1. w[k] = u[k]
      BY <1>1, <1>4, <1>7, <2>2, <2>3
    <3>2. u[k] = d[k]
      BY <1>1, <1>4, <2>2, <2>3
    <3> QED
      BY <1>5, <2>2, <3>1, <3>2
  <2>4. CASE ~(k <= i - 1)
    <3>1. k = i /\ ~(k <= Len(u)) /\ k - Len(u) = 1
      BY <1>1, <1>4, <2>2, <2>4
    <3>2. w[k] = e[k - Len(u)]
      BY <1>7, <2>2, <3>1
    <3> QED
      BY <1>5, <2>1, <2>2, <3>1, <3>2
  <2> QED
    BY <2>3, <2>4
<1>9. Len(v) = Len(w)
  BY <1>1, <1>4, <1>5, <1>6, <1>7 DEF e
<1>10. v = w
  BY <1>3, <1>7, <1>8, <1>9, SeqEqual
<1> QED
  BY <1>4, <1>10 DEF u, v, w

LEMMA ShaUpdateHas ==
  ASSUME NEW h, NEW s \in Seq(Int), ShaHas(h, s), NEW d \in Seq(Int)
  PROVE  ShaHas(Digests!ShaUpdate(h, d), s \o d)
<1> DEFINE n == Len(d)
<1>1. h \in ShaStates
  BY DEF ShaHas
<1>2. PICK f \in [0 .. n -> ShaStates] :
        /\ f[0] = h /\ \A i \in 1 .. n : f[i] = Digests!One(f[i - 1], d[i])
        /\ Digests!ShaUpdate(h, d) = f[n]
  BY <1>1, UpdateIs
<1> DEFINE D == {i \in 0 .. n : ShaHas(f[i], s \o SubSeq(d, 1, i))}
<1>3. 0 \in D
  <2>1. SubSeq(d, 1, 0) = <<>> /\ s \o <<>> = s
    BY SubSeqEmpty, ConcatEmptySeq
  <2>2. ShaHas(f[0], s \o SubSeq(d, 1, 0))
    BY <1>2, <2>1
  <2> QED
    BY <2>2
<1>4. \A i \in 0 + 1 .. n : i - 1 \in D => i \in D
  <2> SUFFICES ASSUME NEW i \in 0 + 1 .. n, i - 1 \in D PROVE i \in D
    OBVIOUS
  <2>1. i \in 1 .. n /\ i \in 0 .. n /\ d[i] \in Int
    OBVIOUS
  <2>2. SubSeq(d, 1, i - 1) \in Seq(Int) /\ SubSeq(d, 1, i) = SubSeq(d, 1, i - 1) \o <<d[i]>>
    BY <2>1, Beginning
  <2> DEFINE u == SubSeq(d, 1, i - 1)
             v == SubSeq(d, 1, i)
             e == <<d[i]>>
             su == s \o u
  <2>3. ShaHas(f[i - 1], su)
    OBVIOUS
  <2>4. e \in Seq(Int)
    BY <2>1
  <2>5. v = u \o e /\ u \in Seq(Int)
    BY <2>2
  <2> HIDE DEF u, v
  <2>6. su \in Seq(Int)
    BY <2>3 DEF ShaHas
  <2>7. su \o e = s \o v
    <3> HIDE DEF e
    <3>1. (s \o u) \o e = s \o (u \o e)
      BY <2>4, <2>5, Joined
    <3> QED
      BY <2>5, <3>1
  <2>8. ShaHas(Digests!One(f[i - 1], d[i]), su \o e)
    <3> HIDE DEF su
    <3> QED
      BY <2>1, <2>3, <2>6, OneHas
  <2>9. ShaHas(f[i], s \o v)
    BY <1>2, <2>1, <2>7, <2>8
  <2> QED
    BY <2>1, <2>9 DEF v
<1>5. \A i \in 0 .. n : i \in D
  <2>1. n \in Int /\ 0 \in Int
    OBVIOUS
  <2> HIDE DEF D, n
  <2> QED
    BY <1>3, <1>4, <2>1, InductUpTo
<1>6. n \in D
  BY <1>5
<1>7. SubSeq(d, 1, n) = d
  BY SubSeqFull
<1> QED
  BY <1>2, <1>6, <1>7

\* pad stores what there is room for.
LEMMA BytesHas ==
  ASSUME NEW h \in ShaStates, NEW s \in Seq(Int), Buffered(h.taken, h.m, h.cursor, s), NEW d \in Seq(Int), h.cursor + Len(d) <= Block
  PROVE  LET c == Digests!Bytes(h, d)
         IN /\ c \in ShaStates /\ c.cursor = h.cursor + Len(d) /\ c.l = h.l /\ c.taken = h.taken
            /\ Buffered(c.taken, c.m, c.cursor, s \o d)
<1> DEFINE n == Len(d)
           Has(g, i) == /\ g \in ShaStates /\ g.cursor = h.cursor + i /\ g.l = h.l /\ g.taken = h.taken
                        /\ Buffered(g.taken, g.m, g.cursor, s \o SubSeq(d, 1, i))
<1>1. PICK f \in [0 .. n -> ShaStates] :
        /\ f[0] = h /\ \A i \in 1 .. n : f[i] = Digests!Byte(f[i - 1], d[i])
        /\ Digests!Bytes(h, d) = f[n]
  BY BytesAre
<1> DEFINE D == {i \in 0 .. n : Has(f[i], i)}
<1>2. h.cursor \in Nat /\ Block \in Nat /\ n \in Nat
  <2>1. n \in Nat
    OBVIOUS
  <2> HIDE DEF n
  <2> QED
    BY <2>1, DigestsAssumption DEF Buffered
<1>3. 0 \in D
  <2>1. SubSeq(d, 1, 0) = <<>> /\ s \o <<>> = s
    BY SubSeqEmpty, ConcatEmptySeq
  <2>2. s \o SubSeq(d, 1, 0) = s
    BY <2>1
  <2>3. h.cursor = h.cursor + 0
    BY <1>2
  <2>4. Has(h, 0)
    BY <2>2, <2>3
  <2>5. 0 \in 0 .. n
    BY <1>2
  <2> HIDE DEF Has
  <2> QED
    BY <1>1, <2>4, <2>5
<1>4. \A i \in 0 + 1 .. n : i - 1 \in D => i \in D
  <2> SUFFICES ASSUME NEW i \in 0 + 1 .. n, i - 1 \in D PROVE i \in D
    OBVIOUS
  <2>1. i \in 1 .. n /\ i \in 0 .. n /\ d[i] \in Int
    OBVIOUS
  <2>2. SubSeq(d, 1, i - 1) \in Seq(Int) /\ SubSeq(d, 1, i) = SubSeq(d, 1, i - 1) \o <<d[i]>>
    BY <2>1, Beginning
  <2> DEFINE u == SubSeq(d, 1, i - 1)
             v == SubSeq(d, 1, i)
             e == <<d[i]>>
             su == s \o u
             g == f[i - 1]
  <2>3. /\ g \in ShaStates /\ g.cursor = h.cursor + (i - 1) /\ g.l = h.l /\ g.taken = h.taken
        /\ Buffered(g.taken, g.m, g.cursor, su)
    <3>1. Has(g, i - 1)
      <4> HIDE DEF Has
      <4> QED
        OBVIOUS
    <3> QED
      BY <3>1
  <2>4. e \in Seq(Int)
    BY <2>1
  <2>5. v = u \o e /\ u \in Seq(Int)
    BY <2>2
  <2> HIDE DEF u, v
  <2>6. su \in Seq(Int)
    BY <2>3 DEF Buffered
  <2>7. su \o e = s \o v
    <3> HIDE DEF e
    <3>1. (s \o u) \o e = s \o (u \o e)
      BY <2>4, <2>5, Joined
    <3> QED
      BY <2>5, <3>1
  <2> DEFINE c == Digests!Byte(g, d[i])
  <2>8. /\ c \in ShaStates /\ c.cursor = g.cursor + 1 /\ c.l = g.l /\ c.taken = g.taken
        /\ Buffered(c.taken, c.m, c.cursor, su \o e)
    <3> DEFINE b == d[i]
    <3>1. g.cursor < Block /\ b \in Int
      BY <1>2, <2>1, <2>3
    <3> HIDE DEF b, su, g
    <3> DEFINE cc == Digests!Byte(g, b)
    <3>2. /\ cc \in ShaStates /\ cc.cursor = g.cursor + 1 /\ cc.l = g.l /\ cc.taken = g.taken
          /\ Buffered(cc.taken, cc.m, cc.cursor, su \o <<b>>)
      BY <2>3, <2>6, <3>1, ByteHas
    <3> QED
      BY <3>2 DEF b
  <2>9. f[i] = c
    BY <1>1, <2>1
  <2>10. g.cursor + 1 = h.cursor + i
    BY <1>2, <2>1, <2>3
  <2> HIDE DEF c
  <2>11. Has(c, i)
    <3> HIDE DEF su, e, g
    <3> QED
      BY <2>3, <2>7, <2>8, <2>10 DEF v
  <2> HIDE DEF Has
  <2> QED
    BY <2>1, <2>9, <2>11
<1>5. \A i \in 0 .. n : i \in D
  <2>1. n \in Int /\ 0 \in Int
    OBVIOUS
  <2> HIDE DEF D, n
  <2> QED
    BY <1>3, <1>4, <2>1, InductUpTo
<1>6. Has(f[n], n)
  <2>1. n \in D
    BY <1>2, <1>5
  <2> HIDE DEF Has, n
  <2> QED
    BY <2>1
<1>7. SubSeq(d, 1, n) = d
  BY SubSeqFull
<1> QED
  BY <1>1, <1>6, <1>7

\* Zeros up to a cursor.
LEMMA PadToHas ==
  ASSUME NEW h \in ShaStates, NEW s \in Seq(Int), Buffered(h.taken, h.m, h.cursor, s), NEW to \in Nat, h.cursor <= to, to <= Block
  PROVE  LET c == Digests!PadTo(h, to)
         IN /\ c \in ShaStates /\ c.cursor = to /\ c.l = h.l /\ c.taken = h.taken
            /\ Buffered(c.taken, c.m, c.cursor, s \o Digests!Zeros(to - h.cursor))
<1> DEFINE k == to - h.cursor
           z == Digests!Zeros(k)
           c == Digests!Bytes(h, z)
<1>1. h.cursor \in Nat /\ k \in Nat /\ h.cursor + k = to
  BY DigestsAssumption DEF Buffered
<1>2. z \in Seq(Int) /\ Len(z) = k
  <2> HIDE DEF k
  <2> QED
    BY <1>1, ZerosAre
<1> HIDE DEF z
<1>3. h.cursor + Len(z) = to /\ h.cursor + Len(z) <= Block
  BY <1>1, <1>2
<1>4. /\ c \in ShaStates /\ c.cursor = h.cursor + Len(z) /\ c.l = h.l /\ c.taken = h.taken
      /\ Buffered(c.taken, c.m, c.cursor, s \o z)
  BY <1>2, <1>3, BytesHas
<1> HIDE DEF c
<1>5. Digests!PadTo(h, to) = c
  BY DEF Digests!PadTo, c, z, k
<1> QED
  BY <1>3, <1>4, <1>5 DEF z, k

\* The padding and the count fill a block, which is the last one taken.
LEMMA PadTakes ==
  ASSUME NEW h, NEW s \in Seq(Int), ShaHas(h, s)
  PROVE  LET c == Digests!process(Digests!pad(h))
         IN c \in ShaStates /\ c.taken = Closed(s, <<(8 * Len(s)) \div Low, (8 * Len(s)) % Low>>)
<1> DEFINE n == Len(s)
           t == n % Block
           count == <<(8 * n) \div Low, (8 * n) % Low>>
           marked == Digests!Byte(h, -1)
           s1 == s \o <<-1>>
           room == IF marked.cursor > Block - 2 THEN Digests!process(Digests!PadTo(marked, Block)) ELSE marked
           full == Digests!PadTo(room, Block - 2)
           c == Digests!Bytes(full, count)
           z == Digests!Zeros(Block - 2 - room.cursor)
<1>1. Block \in Nat \ {0} /\ Block > 2 /\ n \in Nat /\ t \in 0 .. Block - 1
  BY DigestsAssumption
<1>2. h \in ShaStates /\ h.l = 8 * n /\ h.cursor = t /\ Buffered(h.taken, h.m, h.cursor, s)
  BY DEF ShaHas
<1>3. count \in Seq(Int) /\ Len(count) = 2
  <2> DEFINE m == 8 * n
  <2>1. m \in Int /\ Low \in Nat \ {0}
    BY DigestsAssumption
  <2> HIDE DEF m
  <2>2. m \div Low \in Int /\ m % Low \in Int
    BY <2>1
  <2> QED
    BY <2>2 DEF m
<1>4. s1 \in Seq(Int)
  <2>1. <<-1>> \in Seq(Int)
    OBVIOUS
  <2> QED
    BY <2>1, ConcatProperties
<1>5. /\ marked \in ShaStates /\ marked.cursor = t + 1 /\ marked.l = h.l /\ marked.taken = h.taken
      /\ Buffered(marked.taken, marked.m, marked.cursor, s1)
  <2> DEFINE b == -1
  <2>1. h.cursor < Block /\ b \in Int
    BY <1>1, <1>2
  <2> HIDE DEF b, t
  <2> DEFINE cc == Digests!Byte(h, b)
  <2>2. /\ cc \in ShaStates /\ cc.cursor = h.cursor + 1 /\ cc.l = h.l /\ cc.taken = h.taken
        /\ Buffered(cc.taken, cc.m, cc.cursor, s \o <<b>>)
    BY <1>2, <2>1, ByteHas
  <2> QED
    BY <1>2, <2>2 DEF b
<1>6. Digests!pad(h) = c
  <2>1. count = <<h.l \div Low, h.l % Low>>
    BY <1>2
  <2> HIDE DEF count
  <2> QED
    BY <2>1 DEF Digests!pad, Digests!CountSize, Digests!Mark
<1> HIDE DEF marked, n, s1, count, t
\* Once there is room, the count follows zeros.
<1>7. ASSUME NEW r \in Seq(Int), room \in ShaStates, room.cursor \in 0 .. Block - 2, Buffered(room.taken, room.m, room.cursor, r)
      PROVE  Digests!process(c) \in ShaStates /\ Digests!process(c).taken = (r \o z) \o count
  <2> HIDE DEF room
  <2> DEFINE rz == r \o z
             rc == rz \o count
             q == Digests!process(c)
             x == [i \in 1 .. Block |-> -2]
  <2>1. /\ full \in ShaStates /\ full.cursor = Block - 2
        /\ Buffered(full.taken, full.m, full.cursor, rz)
    <3> DEFINE to == Block - 2
               cc == Digests!PadTo(room, to)
    <3>1. to \in Nat /\ room.cursor <= to /\ to <= Block
      BY <1>1, <1>7
    <3> HIDE DEF to
    <3>2. /\ cc \in ShaStates /\ cc.cursor = to /\ cc.l = room.l /\ cc.taken = room.taken
          /\ Buffered(cc.taken, cc.m, cc.cursor, r \o Digests!Zeros(to - room.cursor))
      BY <1>7, <3>1, PadToHas
    <3> QED
      BY <3>2 DEF to
  <2> HIDE DEF full, z
  <2>2. rz \in Seq(Int) /\ full.cursor + Len(count) = Block
    BY <1>1, <1>3, <2>1 DEF Buffered
  <2> HIDE DEF rz
  <2>3. c \in ShaStates /\ c.cursor = full.cursor + Len(count) /\ Buffered(c.taken, c.m, c.cursor, rc)
    <3>1. full.cursor + Len(count) <= Block
      BY <1>1, <2>2
    <3> QED
      BY <1>3, <2>1, <2>2, <3>1, BytesHas
  <2> HIDE DEF c
  <2>4. Buffered(c.taken, c.m, Block, rc)
    BY <2>2, <2>3
  <2>5. c.m \in [1 .. Block -> Int] /\ c.taken \in Seq(Int)
    BY <2>3, ShaFields
  <2>6. rc \in Seq(Int)
    BY <1>3, <2>2, ConcatProperties
  <2>7. c.taken \o c.m = rc
    <3> DEFINE b == c.m
               u == c.taken
    <3>1. b \in Seq(Int) /\ Len(b) = Block /\ u \in Seq(Int) /\ b \in [1 .. Block -> Int] /\ Block \in Nat
      BY <1>1, <2>5
    <3>2. Buffered(u, b, Block, rc)
      BY <2>4
    <3> HIDE DEF b, u, rc
    <3>3. u \o SubSeq(b, 1, Block) = rc
      BY <2>6, <3>1, <3>2, BufferedIs
    <3>4. SubSeq(b, 1, Len(b)) = b
      BY <3>1, SubSeqFull
    <3> QED
      BY <3>1, <3>3, <3>4 DEF b, u
  <2>8. q = [m |-> x, cursor |-> 0, l |-> c.l, taken |-> c.taken \o c.m] /\ q \in ShaStates
    BY <2>3, ProcessIs
  <2> HIDE DEF q, x
  <2> QED
    BY <2>7, <2>8 DEF q, rz
<1>8. CASE t + 1 <= Block - 2
  <2>1. room = marked
    <3>1. ~(marked.cursor > Block - 2)
      BY <1>1, <1>5, <1>8
    <3> QED
      BY <3>1
  <2>2. room \in ShaStates /\ room.cursor \in 0 .. Block - 2 /\ Buffered(room.taken, room.m, room.cursor, s1)
    BY <1>1, <1>5, <1>8, <2>1
  <2>3. z = Digests!Zeros(Block - ((Len(s) % Block) + 1) - 2)
    <3>1. Block - 2 - room.cursor = Block - (t + 1) - 2
      BY <1>1, <1>5, <2>1
    <3> QED
      BY <3>1 DEF t, n
  <2> HIDE DEF c, room, z
  <2>4. Digests!process(c) \in ShaStates /\ Digests!process(c).taken = (s1 \o z) \o count
    BY <1>4, <1>7, <2>2
  <2>5. (s1 \o z) \o count = Closed(s, count)
    <3>1. Block - ((Len(s) % Block) + 1) >= 2
      BY <1>1, <1>8 DEF t, n
    <3> QED
      BY <1>3, <2>3, <3>1, ClosedInOne DEF s1
  <2> QED
    BY <1>6, <2>4, <2>5 DEF count, n
<1>9. CASE ~(t + 1 <= Block - 2)
  <2> DEFINE f == Digests!PadTo(marked, Block)
             y == Digests!Zeros(Block - (t + 1))
             s2 == s1 \o y
             x == [i \in 1 .. Block |-> -2]
             p == Digests!process(f)
  <2>1. room = p
    <3>1. marked.cursor > Block - 2
      BY <1>1, <1>5, <1>9
    <3> QED
      BY <3>1
  <2>2. f \in ShaStates /\ f.cursor = Block /\ Buffered(f.taken, f.m, Block, s2)
    <3>1. marked.cursor <= Block /\ Block <= Block /\ Block \in Nat
      BY <1>1, <1>5
    <3>2. /\ f \in ShaStates /\ f.cursor = Block /\ f.l = marked.l /\ f.taken = marked.taken
          /\ Buffered(f.taken, f.m, f.cursor, s1 \o Digests!Zeros(Block - marked.cursor))
      BY <1>4, <1>5, <3>1, PadToHas
    <3> HIDE DEF f
    <3> QED
      BY <1>5, <3>2
  <2>3. s2 \in Seq(Int)
    BY <2>2 DEF Buffered
  <2>4. f.m \in [1 .. Block -> Int] /\ f.taken \in Seq(Int)
    BY <2>2, ShaFields
  <2>5. p = [m |-> x, cursor |-> 0, l |-> f.l, taken |-> f.taken \o f.m] /\ p \in ShaStates
    BY <2>2, ProcessIs
  <2>6. x \in [1 .. Block -> Int]
    OBVIOUS
  <2> HIDE DEF f, y, s2, x
  <2>7. Buffered(f.taken \o f.m, x, 0, s2)
    BY <2>2, <2>3, <2>4, <2>6, TakeBlock
  <2> HIDE DEF p, room
  <2>8. room \in ShaStates /\ room.cursor = 0 /\ Buffered(room.taken, room.m, room.cursor, s2)
    BY <2>1, <2>5, <2>7
  <2>9. room.cursor \in 0 .. Block - 2
    BY <1>1, <2>8
  <2>10. z = Digests!Zeros(Block - 2)
    <3>1. Block - 2 - room.cursor = Block - 2
      BY <1>1, <2>8
    <3> QED
      BY <3>1
  <2> HIDE DEF c, z
  <2>11. Digests!process(c) \in ShaStates /\ Digests!process(c).taken = (s2 \o z) \o count
    BY <1>7, <2>3, <2>8, <2>9
  <2>12. (s2 \o z) \o count = Closed(s, count)
    <3>1. Block - ((Len(s) % Block) + 1) < 2
      BY <1>1, <1>9 DEF t, n
    <3> QED
      BY <1>3, <2>10, <3>1, ClosedInTwo DEF s1, s2, y, t, n
  <2> QED
    BY <1>6, <2>11, <2>12 DEF count, n
<1> QED
  BY <1>8, <1>9

\* The digests are between two pieces of the message, or finished with it.
DigestsInv ==
  /\ hashed \in Nat /\ md5 \in Md5States /\ sha \in ShaStates
  /\ \/ hashing = "updating" /\ Md5Has(md5, Digests!Message) /\ ShaHas(sha, Digests!Message)
     \/ /\ hashing = "finished"
        /\ md5.taken = Closed(Digests!Message, <<(8 * hashed) % Low, (8 * hashed) \div Low>>)
        /\ sha.taken = Closed(Digests!Message, <<(8 * hashed) \div Low, (8 * hashed) % Low>>)

LEMMA MessageIs ==
  ASSUME hashed \in Nat
  PROVE  Digests!Message \in Seq(Int) /\ Len(Digests!Message) = hashed
BY DEF Digests!Message

LEMMA MessageGrows ==
  ASSUME hashed \in Nat, NEW size \in Nat, hashed' = hashed + size
  PROVE  Digests!Piece(size) \in Seq(Int) /\ Digests!Message' = Digests!Message \o Digests!Piece(size)
<1> DEFINE s == Digests!Message
           d == Digests!Piece(size)
           t == Digests!Message'
           sd == s \o d
<1>1. s \in Seq(Int) /\ Len(s) = hashed /\ \A i \in 1 .. hashed : s[i] = i
  BY DEF Digests!Message
<1>2. d \in Seq(Int) /\ Len(d) = size /\ \A i \in 1 .. size : d[i] = hashed + i
  BY DEF Digests!Piece
<1>3. t \in Seq(Int) /\ Len(t) = hashed + size /\ \A i \in 1 .. hashed + size : t[i] = i
  BY DEF Digests!Message
<1> HIDE DEF s, d, t
<1>4. /\ sd \in Seq(Int) /\ Len(sd) = hashed + size
      /\ \A i \in 1 .. hashed + size : sd[i] = IF i <= hashed THEN s[i] ELSE d[i - hashed]
  BY <1>1, <1>2, ConcatProperties
<1> HIDE DEF sd
<1>5. ASSUME NEW i \in 1 .. hashed + size PROVE sd[i] = t[i]
  BY <1>1, <1>2, <1>3, <1>4
<1>6. sd = t
  BY <1>3, <1>4, <1>5, SeqEqual
<1> QED
  BY <1>2, <1>6 DEF s, d, t, sd

\* A message of which there is nothing yet.
LEMMA EmptyMessage ==
  ASSUME hashed = 0
  PROVE  Digests!Message = <<>>
BY DEF Digests!Message

LEMMA NothingFed ==
  /\ \A h \in Md5States : h.bits = <<0, 0>> /\ h.taken = <<>> => Md5Has(h, <<>>)
  /\ \A h \in ShaStates : h.cursor = 0 /\ h.l = 0 /\ h.taken = <<>> => ShaHas(h, <<>>)
<1>1. Block \in Nat \ {0} /\ Low \in Nat \ {0}
  BY DigestsAssumption
<1>2. (8 * 0) % Low = 0 /\ (8 * 0) \div Low = 0 /\ 0 % Block = 0 /\ 8 * 0 = 0
  BY <1>1
<1>3. Len(<<>>) = 0 /\ <<>> \in Seq(Int)
  OBVIOUS
<1>4. ASSUME NEW h \in Md5States, h.bits = <<0, 0>>, h.taken = <<>> PROVE Md5Has(h, <<>>)
  <2>1. Buffered(<<>>, h.in, 0, <<>>)
    BY <1>3, Md5Fields, NoneBuffered
  <2> QED
    BY <1>2, <1>3, <1>4, <2>1 DEF Md5Has
<1>5. ASSUME NEW h \in ShaStates, h.cursor = 0, h.l = 0, h.taken = <<>> PROVE ShaHas(h, <<>>)
  <2>1. Buffered(<<>>, h.m, 0, <<>>)
    BY <1>3, ShaFields, NoneBuffered
  <2> QED
    BY <1>2, <1>3, <1>5, <2>1 DEF ShaHas
<1> QED
  BY <1>4, <1>5

LEMMA DigestsInit ==
  ASSUME Digests!Init
  PROVE  DigestsInv
<1> DEFINE g == [i \in 1 .. Block |-> -2]
           e == [i \in {} |-> 0]
<1>1. hashed = 0 /\ hashing = "updating"
  BY DEF Digests!Init
<1>2. g \in [1 .. Block -> Int] /\ <<>> \in Seq(Int) /\ <<0, 0>> \in Int \X Int
  OBVIOUS
<1>3. md5 = [in |-> g, bits |-> <<0, 0>>, taken |-> <<>>] /\ sha = [m |-> g, cursor |-> 0, l |-> 0, taken |-> <<>>]
  BY DEF Digests!Init, Digests!Garbage
<1> HIDE DEF g
<1>4. md5 \in Md5States
  BY <1>2, <1>3 DEF Md5States
<1>5. sha \in ShaStates
  BY <1>2, <1>3 DEF ShaStates
<1>6. Md5Has(md5, Digests!Message) /\ ShaHas(sha, Digests!Message)
  BY <1>1, <1>3, <1>4, <1>5, EmptyMessage, NothingFed
<1> QED
  BY <1>1, <1>4, <1>5, <1>6 DEF DigestsInv

LEMMA DigestsStep ==
  ASSUME DigestsInv, Digests!Next
  PROVE  DigestsInv'
<1>1. hashed \in Nat /\ md5 \in Md5States /\ sha \in ShaStates
  BY DEF DigestsInv
<1>2. Digests!Message \in Seq(Int) /\ Len(Digests!Message) = hashed
  BY <1>1, MessageIs
<1>3. ASSUME NEW size \in 0 .. MaxPiece, Digests!update(size)
      PROVE  DigestsInv'
  <2> DEFINE d == Digests!Piece(size)
             s == Digests!Message
             t == Digests!Message'
  <2>1. /\ hashing = "updating" /\ hashing' = "updating" /\ hashed' = hashed + size
        /\ md5' = Digests!Md5Update(md5, d) /\ sha' = Digests!ShaUpdate(sha, d)
    BY <1>3 DEF Digests!update
  <2>2. Md5Has(md5, s) /\ ShaHas(sha, s)
    BY <2>1 DEF DigestsInv
  <2>3. size \in Nat /\ hashed' \in Nat
    BY <1>1, <2>1, DigestsAssumption
  <2>4. d \in Seq(Int) /\ t = s \o d
    BY <1>1, <2>1, <2>3, MessageGrows
  <2> HIDE DEF d, s, t
  <2>5. s \in Seq(Int)
    BY <1>2 DEF s
  <2>6. Md5Has(md5', t)
    BY <2>1, <2>2, <2>4, <2>5, Md5UpdateHas
  <2>7. ShaHas(sha', t)
    BY <2>1, <2>2, <2>4, <2>5, ShaUpdateHas
  <2>8. md5' \in Md5States /\ sha' \in ShaStates
    BY <2>6, <2>7 DEF Md5Has, ShaHas
  <2>9. Md5Has(md5, Digests!Message)' /\ ShaHas(sha, Digests!Message)'
    BY <2>6, <2>7 DEF t, Md5Has, ShaHas
  <2> QED
    BY <2>1, <2>3, <2>8, <2>9 DEF DigestsInv
<1>4. ASSUME Digests!finish
      PROVE  DigestsInv'
  <2> DEFINE s == Digests!Message
             a == <<(8 * hashed) % Low, (8 * hashed) \div Low>>
             b == <<(8 * hashed) \div Low, (8 * hashed) % Low>>
  <2>1. /\ hashing = "updating" /\ hashing' = "finished" /\ hashed' = hashed
        /\ md5' = Digests!Md5Finish(md5) /\ sha' = Digests!process(Digests!pad(sha))
    BY <1>4 DEF Digests!finish
  <2>2. Md5Has(md5, s) /\ ShaHas(sha, s)
    BY <2>1 DEF DigestsInv
  <2>3. Digests!Message' = s
    BY <2>1 DEF Digests!Message
  <2>4. s \in Seq(Int) /\ Len(s) = hashed
    BY <1>2
  <2> HIDE DEF s
  <2>5. md5' \in Md5States /\ (md5').taken = Closed(s, a)
    <3> DEFINE c == Digests!Md5Finish(md5)
    <3>1. c \in Md5States /\ c.taken = Closed(s, <<(8 * Len(s)) % Low, (8 * Len(s)) \div Low>>)
      BY <2>2, <2>4, Md5FinishTakes
    <3> HIDE DEF c
    <3> QED
      BY <2>1, <2>4, <3>1 DEF c
  <2>6. sha' \in ShaStates /\ (sha').taken = Closed(s, b)
    <3> DEFINE c == Digests!process(Digests!pad(sha))
    <3>1. c \in ShaStates /\ c.taken = Closed(s, <<(8 * Len(s)) \div Low, (8 * Len(s)) % Low>>)
      BY <2>2, <2>4, PadTakes
    <3> HIDE DEF c
    <3> QED
      BY <2>1, <2>4, <3>1 DEF c
  <2> HIDE DEF a, b
  <2>7. (md5.taken)' = Closed(Digests!Message', a') /\ (sha.taken)' = Closed(Digests!Message', b')
    BY <2>1, <2>3, <2>5, <2>6 DEF a, b
  <2>8. Closed(Digests!Message, a)' = Closed(Digests!Message', a') /\ Closed(Digests!Message, b)' = Closed(Digests!Message', b')
    BY DEF Closed, Padding
  <2>9. (md5.taken = Closed(Digests!Message, a))' /\ (sha.taken = Closed(Digests!Message, b))'
    BY <2>7, <2>8
  <2> QED
    BY <1>1, <2>1, <2>5, <2>6, <2>9 DEF DigestsInv, a, b
<1>5. ASSUME Digests!reset
      PROVE  DigestsInv'
  <2>1. /\ hashing' = "updating" /\ hashed' = 0
        /\ md5' = [md5 EXCEPT !.bits = <<0, 0>>, !.taken = <<>>]
        /\ sha' = [sha EXCEPT !.cursor = 0, !.l = 0, !.taken = <<>>]
    BY <1>5 DEF Digests!reset
  <2>2. md5.in \in [1 .. Block -> Int] /\ sha.m \in [1 .. Block -> Int]
    BY <1>1, Md5Fields, ShaFields
  <2>3. md5' = [in |-> md5.in, bits |-> <<0, 0>>, taken |-> <<>>]
    <3> DEFINE I == [1 .. Block -> Int]
               B == Int \X Int
               T == Seq(Int)
    <3> HIDE DEF I, B, T
    <3>1. md5 \in [in : I, bits : B, taken : T]
      BY <1>1 DEF Md5States, I, B, T
    <3> QED
      BY <2>1, <3>1
  <2>4. sha' = [m |-> sha.m, cursor |-> 0, l |-> 0, taken |-> <<>>]
    <3> DEFINE I == [1 .. Block -> Int]
               B == Int
               T == Seq(Int)
    <3> HIDE DEF I, B, T
    <3>1. sha \in [m : I, cursor : B, l : B, taken : T]
      BY <1>1 DEF ShaStates, I, B, T
    <3> QED
      BY <2>1, <3>1
  <2>5. md5' \in Md5States
    <3>1. <<>> \in Seq(Int) /\ <<0, 0>> \in Int \X Int
      OBVIOUS
    <3> QED
      BY <2>2, <2>3, <3>1 DEF Md5States
  <2>6. sha' \in ShaStates
    <3>1. <<>> \in Seq(Int)
      OBVIOUS
    <3> QED
      BY <2>2, <2>4, <3>1 DEF ShaStates
  <2>7. Digests!Message' = <<>>
    BY <2>1 DEF Digests!Message
  <2>8. Md5Has(md5, Digests!Message)' /\ ShaHas(sha, Digests!Message)'
    BY <2>3, <2>4, <2>5, <2>6, <2>7, NothingFed DEF Md5Has, ShaHas
  <2> QED
    BY <2>1, <2>5, <2>6, <2>8 DEF DigestsInv
<1> QED
  BY <1>3, <1>4, <1>5 DEF Digests!Next

\* What the invariant says of the blocks and the buffers.
LEMMA DigestsTake ==
  ASSUME DigestsInv
  PROVE  Digests!DigestsTakeAll
<1>1. hashed \in Nat /\ md5 \in Md5States /\ sha \in ShaStates /\ Block \in Nat \ {0}
  BY DigestsAssumption DEF DigestsInv
<1>2. Digests!Message \in Seq(Int) /\ Len(Digests!Message) = hashed
  BY <1>1, MessageIs
<1>3. \A count : Digests!Whole(count) = Closed(Digests!Message, count)
  BY <1>2 DEF Digests!Whole, Closed, Padding, Digests!Mark, Digests!CountSize
<1>4. CASE hashing = "finished"
  <2>1. /\ md5.taken = Closed(Digests!Message, <<(8 * hashed) % Low, (8 * hashed) \div Low>>)
        /\ sha.taken = Closed(Digests!Message, <<(8 * hashed) \div Low, (8 * hashed) % Low>>)
    BY <1>4 DEF DigestsInv
  <2> QED
    BY <1>3, <1>4, <2>1 DEF Digests!DigestsTakeAll
<1>5. CASE hashing # "finished"
  <2>1. Md5Has(md5, Digests!Message) /\ ShaHas(sha, Digests!Message)
    BY <1>5 DEF DigestsInv
  <2> DEFINE s == Digests!Message
             k == hashed % Block
  <2>2. Digests!Offset(md5) = k
    BY <1>1, <1>2, <2>1, OffsetIs DEF Md5Has
  <2>3. k \in Nat
    BY <1>1
  <2>4. md5.in \in [1 .. Block -> Int] /\ md5.taken \in Seq(Int) /\ sha.m \in [1 .. Block -> Int] /\ sha.taken \in Seq(Int)
    BY <1>1, Md5Fields, ShaFields
  <2>5. Buffered(md5.taken, md5.in, k, s) /\ Buffered(sha.taken, sha.m, k, s) /\ s \in Seq(Int)
    BY <1>2, <2>1 DEF Md5Has, ShaHas
  <2>6. sha.cursor = k /\ sha.l = 8 * hashed /\ md5.bits = <<(8 * hashed) % Low, (8 * hashed) \div Low>>
    BY <1>2, <2>1 DEF Md5Has, ShaHas
  <2> HIDE DEF k, s
  <2>7. md5.taken \o SubSeq(md5.in, 1, k) = s /\ sha.taken \o SubSeq(sha.m, 1, k) = s
    BY <2>3, <2>4, <2>5, BufferedIs
  <2> QED
    BY <1>5, <2>2, <2>6, <2>7 DEF Digests!DigestsTakeAll, s
<1> QED
  BY <1>4, <1>5

\* Digests are of the whole message, for blocks and words of any size: whatever
\* pieces a message comes in, Md5Hasher and Sha1Hasher compute the digest of each
\* of its bytes once and in order, and of the right padding and count of bits.
THEOREM DigestsOfAll == Spec => []DigestsTakeAll
<1>1. Init => DigestsInv
  BY DigestsInit DEF Init
<1>2. DigestsInv /\ [Next]_vars => DigestsInv'
  <2> SUFFICES ASSUME DigestsInv, [Next]_vars PROVE DigestsInv'
    OBVIOUS
  <2>1. CASE Digests!Next
    BY <2>1, DigestsStep
  <2>2. CASE UNCHANGED digestVars
    <3>1. hashed' = hashed /\ hashing' = hashing /\ md5' = md5 /\ sha' = sha
      BY <2>2 DEF digestVars
    <3>2. Digests!Message' = Digests!Message
      BY <3>1 DEF Digests!Message
    <3> QED
      BY <3>1, <3>2 DEF DigestsInv, Md5Has, ShaHas, Closed
  <2>3. Digests!Next \/ UNCHANGED digestVars
    BY DEF Next, vars
  <2> QED
    BY <2>1, <2>2, <2>3, Zenon
<1>3. DigestsInv => DigestsTakeAll
  BY DigestsTake DEF DigestsTakeAll
<1> QED
  BY <1>1, <1>2, <1>3, PTL DEF Spec

------------------------------------------------------------------------------
(* Lists: sequences of nodes without repetition. *)

Distinct(q) == q \in Seq(Nodes) /\ \A i, j \in 1 .. Len(q) : q[i] = q[j] => i = j

\* A set of nodes is not longer than there are nodes.
LEMMA LengthBound ==
  ASSUME NEW q, Distinct(q)
  PROVE  Cardinality(Nodes) \in Nat /\ Len(q) \in Nat /\ Len(q) <= Cardinality(Nodes)
<1>1. IsFiniteSet(Nodes) /\ q \in Seq(Nodes)
  BY NodesAssumption DEF Distinct
<1>2. Len(q) \in Nat /\ q \in [1 .. Len(q) -> Nodes]
  BY <1>1
<1>3. q \in Injection(1 .. Len(q), Nodes)
  BY <1>2 DEF Distinct, Injection, IsInjective
<1>4. Cardinality(1 .. Len(q)) <= Cardinality(Nodes)
  BY <1>1, <1>3, FS_Injection
<1>5. Cardinality(1 .. Len(q)) = Len(q)
  BY <1>2, FS_Interval
<1>6. Cardinality(Nodes) \in Nat
  BY <1>1, FS_CardinalityType
<1> QED
  BY <1>2, <1>4, <1>5, <1>6

\* A walk after i turns.
Steps(q, i) == SubSeq(q, 1, IF i <= Len(q) THEN i ELSE Len(q))

LEMMA StepsAre ==
  ASSUME NEW q \in Seq(Nodes), NEW i \in Nat
  PROVE  /\ Steps(q, 0) = <<>>
         /\ i < Len(q) => Steps(q, i + 1) = Append(Steps(q, i), q[i + 1])
         /\ i > 0 /\ i <= Len(q) => Steps(q, i) # <<>> /\ Len(Steps(q, i)) = i /\ Steps(q, i)[i] = q[i]
         /\ i >= Len(q) => Steps(q, i) = q
<1> DEFINE m == Len(q)
<1>1. m \in Nat /\ \A k \in 1 .. m : q[k] \in Nodes
  OBVIOUS
<1>2. ASSUME NEW k \in 0 .. m
      PROVE  /\ SubSeq(q, 1, k) \in Seq(Nodes) /\ Len(SubSeq(q, 1, k)) = k
             /\ \A j \in 1 .. k : SubSeq(q, 1, k)[j] = q[j]
  <2>1. k \in Int /\ 1 \in Int /\ \A j \in 1 .. k : q[j] \in Nodes
    BY <1>1
  <2>2. /\ SubSeq(q, 1, k) \in Seq(Nodes) /\ Len(SubSeq(q, 1, k)) = IF 1 <= k THEN k - 1 + 1 ELSE 0
        /\ \A j \in 1 .. k - 1 + 1 : SubSeq(q, 1, k)[j] = q[1 + j - 1]
    BY <2>1, SubSeqProperties
  <2> QED
    BY <1>1, <2>2
<1>3. Steps(q, 0) = <<>>
  <2>1. Steps(q, 0) = SubSeq(q, 1, 0)
    BY <1>1 DEF Steps
  <2> QED
    BY <2>1, SubSeqEmpty
<1>4. ASSUME i < m PROVE Steps(q, i + 1) = Append(Steps(q, i), q[i + 1])
  <2> DEFINE u == SubSeq(q, 1, i)
             v == SubSeq(q, 1, i + 1)
             e == q[i + 1]
             w == Append(u, e)
  <2>1. Steps(q, i) = u /\ Steps(q, i + 1) = v
    BY <1>1, <1>4 DEF Steps
  <2>2. u \in Seq(Nodes) /\ Len(u) = i /\ \A j \in 1 .. i : u[j] = q[j]
    BY <1>1, <1>2, <1>4
  <2>3. v \in Seq(Nodes) /\ Len(v) = i + 1 /\ \A j \in 1 .. i + 1 : v[j] = q[j]
    BY <1>1, <1>2, <1>4
  <2>4. e \in Nodes
    BY <1>1, <1>4
  <2> HIDE DEF u, v
  <2>5. w \in Seq(Nodes) /\ Len(w) = i + 1 /\ (\A j \in 1 .. i : w[j] = u[j]) /\ w[i + 1] = e
    BY <2>2, <2>4, AppendProperties
  <2> HIDE DEF w
  <2>6. ASSUME NEW j \in 1 .. i + 1 PROVE v[j] = w[j]
    <3>1. CASE j = i + 1
      BY <2>3, <2>5, <3>1
    <3>2. CASE j # i + 1
      <4>1. j \in 1 .. i
        BY <3>2
      <4> QED
        BY <2>2, <2>3, <2>5, <4>1
    <3> QED
      BY <3>1, <3>2
  <2>7. v = w
    BY <2>3, <2>5, <2>6, SeqEqual
  <2> QED
    BY <2>1, <2>7 DEF w
<1>5. ASSUME i > 0, i <= m PROVE Steps(q, i) # <<>> /\ Len(Steps(q, i)) = i /\ Steps(q, i)[i] = q[i]
  <2>1. Steps(q, i) = SubSeq(q, 1, i) /\ i \in 0 .. m
    BY <1>1, <1>5 DEF Steps
  <2> DEFINE u == SubSeq(q, 1, i)
  <2>2. Len(u) = i /\ u[i] = q[i] /\ u \in Seq(Nodes)
    BY <1>1, <1>2, <1>5, <2>1
  <2> HIDE DEF u
  <2>3. u # <<>>
    BY <1>5, <2>2
  <2> QED
    BY <2>1, <2>2, <2>3 DEF u
<1>6. ASSUME i >= m PROVE Steps(q, i) = q
  <2>1. (IF i <= m THEN i ELSE m) = m
    BY <1>1, <1>6
  <2> QED
    BY <2>1, SubSeqFull DEF Steps
<1> QED
  BY <1>3, <1>4, <1>5, <1>6

\* A walk of more turns than there are nodes has been at all of a list.
LEMMA WalkEnds ==
  ASSUME NEW q, Distinct(q), NEW walk, walk[0] = <<>>,
         \A i \in 1 .. Cardinality(Nodes) + 1 : walk[i - 1] = Steps(q, i - 1) => walk[i] = Steps(q, i)
  PROVE  walk[Cardinality(Nodes) + 1] = q
<1> DEFINE m == Cardinality(Nodes) + 1
           D == {i \in 0 .. m : walk[i] = Steps(q, i)}
<1>1. m \in Nat /\ Len(q) \in Nat /\ m >= Len(q) /\ q \in Seq(Nodes)
  BY LengthBound DEF Distinct
<1> HIDE DEF m
<1>2. 0 \in D
  BY <1>1, StepsAre
<1>3. \A i \in 0 + 1 .. m : i - 1 \in D => i \in D
  BY <1>1 DEF m
<1>4. \A i \in 0 .. m : i \in D
  <2>1. m \in Int /\ 0 \in Int
    BY <1>1
  <2> HIDE DEF D
  <2> QED
    BY <1>2, <1>3, <2>1, InductUpTo
<1>5. walk[m] = Steps(q, m)
  BY <1>1, <1>4
<1>6. Steps(q, m) = q
  BY <1>1, StepsAre
<1> QED
  BY <1>5, <1>6 DEF m

\* A node more, and a node less.
Inserted(q, i, n) == [j \in 1 .. Len(q) + 1 |-> IF j <= i THEN q[j] ELSE IF j = i + 1 THEN n ELSE q[j - 1]]
Dropped(q, i) == [j \in 1 .. Len(q) - 1 |-> IF j < i THEN q[j] ELSE q[j + 1]]

LEMMA PartOf ==
  ASSUME NEW q \in Seq(Nodes), NEW a \in 1 .. Len(q) + 1, NEW b \in 0 .. Len(q), a <= b + 1
  PROVE  /\ SubSeq(q, a, b) \in Seq(Nodes) /\ Len(SubSeq(q, a, b)) = b - a + 1
         /\ \A j \in 1 .. b - a + 1 : SubSeq(q, a, b)[j] = q[a + j - 1]
<1>1. \A k \in a .. b : q[k] \in Nodes
  OBVIOUS
<1>2. /\ SubSeq(q, a, b) \in Seq(Nodes)
      /\ Len(SubSeq(q, a, b)) = IF a <= b THEN b - a + 1 ELSE 0
      /\ \A j \in 1 .. b - a + 1 : SubSeq(q, a, b)[j] = q[a + j - 1]
  BY <1>1, SubSeqProperties
<1> QED
  BY <1>2

LEMMA InsertedIs ==
  ASSUME NEW q \in Seq(Nodes), NEW i \in 0 .. Len(q), NEW n \in Nodes
  PROVE  /\ Inserted(q, i, n) \in Seq(Nodes) /\ Len(Inserted(q, i, n)) = Len(q) + 1
         /\ SubSeq(q, 1, i) \o <<n>> \o SubSeq(q, i + 1, Len(q)) = Inserted(q, i, n)
<1> DEFINE m == Len(q)
           u == SubSeq(q, 1, i)
           v == SubSeq(q, i + 1, m)
           e == <<n>>
           w == Inserted(q, i, n)
           x == u \o e
           y == x \o v
<1>1. m \in Nat /\ \A j \in 1 .. m : q[j] \in Nodes
  OBVIOUS
<1>2. u \in Seq(Nodes) /\ Len(u) = i /\ \A j \in 1 .. i : u[j] = q[j]
  <2>1. 1 \in 1 .. Len(q) + 1 /\ 1 <= i + 1 /\ i - 1 + 1 = i /\ \A j \in 1 .. i : 1 + j - 1 = j
    OBVIOUS
  <2>2. /\ u \in Seq(Nodes) /\ Len(u) = i - 1 + 1
        /\ \A j \in 1 .. i - 1 + 1 : u[j] = q[1 + j - 1]
    BY <2>1, PartOf
  <2> HIDE DEF u
  <2> QED
    BY <2>1, <2>2
<1>3. v \in Seq(Nodes) /\ Len(v) = m - i /\ \A j \in 1 .. m - i : v[j] = q[i + j]
  <2> DEFINE k == i + 1
  <2>1. k \in 1 .. Len(q) + 1 /\ m \in 0 .. Len(q) /\ k <= m + 1 /\ m - k + 1 = m - i /\ \A j \in 1 .. m : k + j - 1 = i + j
    OBVIOUS
  <2> HIDE DEF k
  <2>2. /\ SubSeq(q, k, m) \in Seq(Nodes) /\ Len(SubSeq(q, k, m)) = m - k + 1
        /\ \A j \in 1 .. m - k + 1 : SubSeq(q, k, m)[j] = q[k + j - 1]
    BY <2>1, PartOf
  <2>3. v = SubSeq(q, k, m)
    BY DEF k
  <2> HIDE DEF v
  <2> QED
    BY <1>1, <2>1, <2>2, <2>3
<1>4. e \in Seq(Nodes) /\ Len(e) = 1 /\ e[1] = n
  OBVIOUS
<1> HIDE DEF u, v, e
<1>5. x \in Seq(Nodes) /\ Len(x) = Len(u) + Len(e) /\ \A j \in 1 .. Len(u) + Len(e) : x[j] = IF j <= Len(u) THEN u[j] ELSE e[j - Len(u)]
  BY <1>2, <1>4, ConcatProperties
<1>6. Len(x) = i + 1 /\ (\A j \in 1 .. i : x[j] = q[j]) /\ x[i + 1] = n
  <2>1. i + 1 \in 1 .. Len(u) + Len(e) /\ ~(i + 1 <= Len(u)) /\ i + 1 - Len(u) = 1
    BY <1>2, <1>4
  <2> QED
    BY <1>2, <1>4, <1>5, <2>1
<1> HIDE DEF x
<1>7. y \in Seq(Nodes) /\ Len(y) = Len(x) + Len(v) /\ \A j \in 1 .. Len(x) + Len(v) : y[j] = IF j <= Len(x) THEN x[j] ELSE v[j - Len(x)]
  BY <1>3, <1>5, ConcatProperties
<1> HIDE DEF y
<1>8. w = [j \in 1 .. m + 1 |-> IF j <= i THEN q[j] ELSE IF j = i + 1 THEN n ELSE q[j - 1]]
  BY DEF Inserted
<1> HIDE DEF w
<1>9. w \in Seq(Nodes) /\ Len(w) = m + 1
  <2>1. \A j \in 1 .. m + 1 : (IF j <= i THEN q[j] ELSE IF j = i + 1 THEN n ELSE q[j - 1]) \in Nodes
    BY <1>1
  <2> HIDE DEF m
  <2> QED
    BY <1>1, <1>8, <2>1
<1>10. Len(y) = m + 1
  BY <1>1, <1>3, <1>6, <1>7
<1>11. ASSUME NEW j \in 1 .. m + 1 PROVE y[j] = w[j]
  <2>1. CASE j <= i
    <3>0. j \in 1 .. Len(x) + Len(v) /\ j <= Len(x) /\ j \in 1 .. i
      BY <1>1, <1>3, <1>6, <2>1
    <3>1. y[j] = x[j] /\ x[j] = q[j]
      BY <1>6, <1>7, <3>0
    <3> QED
      BY <1>8, <2>1, <3>1
  <2>2. CASE j = i + 1
    <3>1. y[j] = x[j] /\ x[j] = n
      BY <1>1, <1>3, <1>6, <1>7, <2>2
    <3> QED
      BY <1>8, <2>2, <3>1
  <2>3. CASE j > i + 1
    <3>0. j \in 1 .. Len(x) + Len(v) /\ ~(j <= Len(x)) /\ Len(x) = i + 1
      BY <1>1, <1>3, <1>6, <2>3
    <3>1. y[j] = v[j - (i + 1)]
      BY <1>7, <3>0
    <3>2. v[j - (i + 1)] = q[i + (j - (i + 1))]
      BY <1>1, <1>3, <2>3
    <3>3. i + (j - (i + 1)) = j - 1
      BY <1>1
    <3> QED
      BY <1>8, <2>3, <3>1, <3>2, <3>3
  <2> QED
    BY <1>1, <2>1, <2>2, <2>3
<1>12. y = w
  BY <1>7, <1>9, <1>10, <1>11, SeqEqual
<1> QED
  BY <1>9, <1>12 DEF y, x, w, u, v, e

LEMMA DroppedIs ==
  ASSUME NEW q \in Seq(Nodes), NEW i \in 1 .. Len(q)
  PROVE  /\ Dropped(q, i) \in Seq(Nodes) /\ Len(Dropped(q, i)) = Len(q) - 1
         /\ SubSeq(q, 1, i - 1) \o SubSeq(q, i + 1, Len(q)) = Dropped(q, i)
<1> DEFINE m == Len(q)
           u == SubSeq(q, 1, i - 1)
           v == SubSeq(q, i + 1, m)
           w == Dropped(q, i)
           y == u \o v
<1>1. m \in Nat /\ \A j \in 1 .. m : q[j] \in Nodes
  OBVIOUS
<1>2. u \in Seq(Nodes) /\ Len(u) = i - 1 /\ \A j \in 1 .. i - 1 : u[j] = q[j]
  <2> DEFINE k == i - 1
  <2>1. 1 \in 1 .. Len(q) + 1 /\ 1 <= k + 1 /\ k - 1 + 1 = k /\ k \in 0 .. Len(q) /\ \A j \in 1 .. i - 1 : 1 + j - 1 = j
    OBVIOUS
  <2> HIDE DEF k
  <2>2. /\ SubSeq(q, 1, k) \in Seq(Nodes) /\ Len(SubSeq(q, 1, k)) = k - 1 + 1
        /\ \A j \in 1 .. k - 1 + 1 : SubSeq(q, 1, k)[j] = q[1 + j - 1]
    BY <2>1, PartOf
  <2>3. u = SubSeq(q, 1, k) /\ k = i - 1
    BY DEF k
  <2> HIDE DEF u
  <2> QED
    BY <2>1, <2>2, <2>3
<1>3. v \in Seq(Nodes) /\ Len(v) = m - i /\ \A j \in 1 .. m - i : v[j] = q[i + j]
  <2> DEFINE k == i + 1
  <2>1. k \in 1 .. Len(q) + 1 /\ m \in 0 .. Len(q) /\ k <= m + 1 /\ m - k + 1 = m - i /\ \A j \in 1 .. m : k + j - 1 = i + j
    OBVIOUS
  <2> HIDE DEF k
  <2>2. /\ SubSeq(q, k, m) \in Seq(Nodes) /\ Len(SubSeq(q, k, m)) = m - k + 1
        /\ \A j \in 1 .. m - k + 1 : SubSeq(q, k, m)[j] = q[k + j - 1]
    BY <2>1, PartOf
  <2>3. v = SubSeq(q, k, m)
    BY DEF k
  <2> HIDE DEF v
  <2> QED
    BY <1>1, <2>1, <2>2, <2>3
<1> HIDE DEF u, v
<1>7. y \in Seq(Nodes) /\ Len(y) = Len(u) + Len(v) /\ \A j \in 1 .. Len(u) + Len(v) : y[j] = IF j <= Len(u) THEN u[j] ELSE v[j - Len(u)]
  BY <1>2, <1>3, ConcatProperties
<1> HIDE DEF y
<1>8. w = [j \in 1 .. m - 1 |-> IF j < i THEN q[j] ELSE q[j + 1]]
  BY DEF Dropped
<1> HIDE DEF w
<1>9. w \in Seq(Nodes) /\ Len(w) = m - 1
  <2>1. \A j \in 1 .. m - 1 : (IF j < i THEN q[j] ELSE q[j + 1]) \in Nodes
    BY <1>1
  <2>2. m - 1 \in Nat
    OBVIOUS
  <2> HIDE DEF m
  <2> QED
    BY <1>1, <1>8, <2>1, <2>2
<1>10. Len(y) = m - 1
  BY <1>1, <1>2, <1>3, <1>7
<1>11. ASSUME NEW j \in 1 .. m - 1 PROVE y[j] = w[j]
  <2>1. CASE j < i
    <3>0. j \in 1 .. Len(u) + Len(v) /\ j <= Len(u) /\ j \in 1 .. i - 1
      BY <1>1, <1>2, <1>3, <2>1
    <3>1. y[j] = u[j] /\ u[j] = q[j]
      BY <1>2, <1>7, <3>0
    <3> QED
      BY <1>8, <2>1, <3>1
  <2>3. CASE j >= i
    <3>0. j \in 1 .. Len(u) + Len(v) /\ ~(j <= Len(u)) /\ Len(u) = i - 1
      BY <1>1, <1>2, <1>3, <2>3
    <3>1. y[j] = v[j - (i - 1)]
      BY <1>7, <3>0
    <3>2. v[j - (i - 1)] = q[i + (j - (i - 1))]
      BY <1>1, <1>3, <2>3
    <3>3. i + (j - (i - 1)) = j + 1
      BY <1>1
    <3> QED
      BY <1>8, <2>3, <3>1, <3>2, <3>3
  <2> QED
    BY <1>1, <2>1, <2>3
<1>12. y = w
  BY <1>7, <1>9, <1>10, <1>11, SeqEqual
<1> QED
  BY <1>9, <1>12 DEF y, w, u, v

\* Neither makes a node appear twice.
LEMMA InsertedDistinct ==
  ASSUME NEW q, Distinct(q), NEW i \in 0 .. Len(q), NEW n \in Nodes, \A j \in 1 .. Len(q) : q[j] # n
  PROVE  Distinct(Inserted(q, i, n))
<1> DEFINE w == Inserted(q, i, n)
           m == Len(q)
<1>1. q \in Seq(Nodes) /\ m \in Nat
  BY DEF Distinct
<1>2. w \in Seq(Nodes) /\ Len(w) = m + 1
  BY <1>1, InsertedIs
<1>3. w = [j \in 1 .. m + 1 |-> IF j <= i THEN q[j] ELSE IF j = i + 1 THEN n ELSE q[j - 1]]
  BY DEF Inserted
<1> HIDE DEF w
<1> DEFINE From(j) == IF j <= i THEN j ELSE j - 1
<1>4. ASSUME NEW j \in 1 .. m + 1, j # i + 1
      PROVE  w[j] = q[From(j)] /\ From(j) \in 1 .. m
  BY <1>1, <1>3, <1>4
<1>5. w[i + 1] = n
  BY <1>1, <1>3
<1>6. ASSUME NEW j \in 1 .. m + 1, NEW k \in 1 .. m + 1, w[j] = w[k]
      PROVE  j = k
  <2>1. CASE j = i + 1
    BY <1>4, <1>5, <1>6, <2>1
  <2>2. CASE k = i + 1
    BY <1>4, <1>5, <1>6, <2>2
  <2>3. CASE j # i + 1 /\ k # i + 1
    <3>1. q[From(j)] = q[From(k)] /\ From(j) \in 1 .. m /\ From(k) \in 1 .. m
      BY <1>4, <1>6, <2>3
    <3> HIDE DEF From
    <3>2. From(j) = From(k)
      BY <3>1 DEF Distinct
    <3> QED
      BY <1>1, <2>3, <3>2 DEF From
  <2> QED
    BY <2>1, <2>2, <2>3
<1> QED
  BY <1>2, <1>6 DEF Distinct, w

LEMMA DroppedDistinct ==
  ASSUME NEW q, Distinct(q), NEW i \in 1 .. Len(q)
  PROVE  Distinct(Dropped(q, i)) /\ \A j \in 1 .. Len(q) - 1 : Dropped(q, i)[j] # q[i]
<1> DEFINE w == Dropped(q, i)
           m == Len(q)
<1>1. q \in Seq(Nodes) /\ m \in Nat
  BY DEF Distinct
<1>2. w \in Seq(Nodes) /\ Len(w) = m - 1
  BY <1>1, DroppedIs
<1>3. w = [j \in 1 .. m - 1 |-> IF j < i THEN q[j] ELSE q[j + 1]]
  BY DEF Dropped
<1> HIDE DEF w
<1> DEFINE From(j) == IF j < i THEN j ELSE j + 1
<1>4. ASSUME NEW j \in 1 .. m - 1
      PROVE  w[j] = q[From(j)] /\ From(j) \in 1 .. m /\ From(j) # i
  BY <1>1, <1>3
<1>6. ASSUME NEW j \in 1 .. m - 1, NEW k \in 1 .. m - 1, w[j] = w[k]
      PROVE  j = k
  <2>1. q[From(j)] = q[From(k)] /\ From(j) \in 1 .. m /\ From(k) \in 1 .. m
    BY <1>4, <1>6
  <2> HIDE DEF From
  <2>2. From(j) = From(k)
    BY <2>1 DEF Distinct
  <2> QED
    BY <1>1, <2>2 DEF From
<1>7. ASSUME NEW j \in 1 .. m - 1, w[j] = q[i]
      PROVE  FALSE
  <2> HIDE DEF From
  <2>1. q[From(j)] = q[i] /\ From(j) \in 1 .. m /\ From(j) # i
    BY <1>4, <1>7
  <2> QED
    BY <2>1 DEF Distinct
<1> QED
  BY <1>2, <1>6, <1>7 DEF Distinct, w

------------------------------------------------------------------------------
(* SinglyLinkedList. *)

At(q, i) == IF i \in 1 .. Len(q) THEN q[i] ELSE NULL

\* The pointers from a head lead along q and no further.
Path(h, nx, q) == h = At(q, 1) /\ \A i \in 1 .. Len(q) : nx[q[i]] = At(q, i + 1)

WalkOf(h, nx) ==
  LET walk[i \in 0 .. Cardinality(Nodes) + 1] ==
        IF i = 0 THEN <<>>
        ELSE LET n == IF walk[i - 1] = <<>> THEN h ELSE nx[walk[i - 1][Len(walk[i - 1])]]
             IN IF n = NULL THEN walk[i - 1] ELSE Append(walk[i - 1], n)
  IN walk[Cardinality(Nodes) + 1]

LEMMA ElementsAre ==
  Single!Elements = WalkOf(head, next) /\ (Single!Elements)' = WalkOf(head', next')
<1>1. Single!Cardinality(Nodes) = Cardinality(Nodes)
  BY DEF Single!Cardinality, Cardinality
<1>2. Single!Elements = WalkOf(head, next)
  BY <1>1 DEF Single!Elements, Single!Further, WalkOf
<1>3. (Single!Elements)' = WalkOf(head', next')
  BY <1>1 DEF Single!Elements, Single!Further, WalkOf
<1> QED
  BY <1>2, <1>3

LEMMA WalkIs ==
  ASSUME NEW h, NEW nx, NEW q, Distinct(q), Path(h, nx, q)
  PROVE  WalkOf(h, nx) = q
<1> DEFINE m == Cardinality(Nodes) + 1
           Node(u) == IF u = <<>> THEN h ELSE nx[u[Len(u)]]
           More(u) == IF Node(u) = NULL THEN u ELSE Append(u, Node(u))
           Solves(g) == g = [i \in 0 .. m |-> IF i = 0 THEN <<>> ELSE More(g[i - 1])]
           walk == CHOOSE g : Solves(g)
           f == [i \in 0 .. m |-> Steps(q, i)]
<1>1. m \in Nat /\ Len(q) \in Nat /\ q \in Seq(Nodes)
  BY LengthBound DEF Distinct
<1> HIDE DEF m
<1>2. ASSUME NEW i \in 1 .. m
      PROVE  More(Steps(q, i - 1)) = Steps(q, i)
  <2> DEFINE j == i - 1
             u == Steps(q, j)
  <2>1. j \in Nat /\ j + 1 = i
    BY <1>1
  <2> HIDE DEF j
  <2>2. /\ j < Len(q) => Steps(q, j + 1) = Append(u, q[j + 1])
        /\ j > 0 /\ j <= Len(q) => u # <<>> /\ Len(u) = j /\ u[j] = q[j]
        /\ j >= Len(q) => u = q
        /\ j + 1 >= Len(q) => Steps(q, j + 1) = q
        /\ j = 0 => u = <<>>
    <3>1. j + 1 \in Nat
      BY <2>1
    <3> QED
      BY <1>1, <2>1, <3>1, StepsAre
  <2>3. Node(u) = At(q, IF j <= Len(q) THEN j + 1 ELSE Len(q) + 1)
    <3>1. CASE j = 0
      <4>1. u = <<>>
        BY <2>2, <3>1
      <4>2. j <= Len(q) /\ j + 1 = 1
        BY <1>1, <3>1
      <4> QED
        BY <4>1, <4>2 DEF Path
    <3>2. CASE j > 0 /\ j <= Len(q)
      <4>1. u # <<>> /\ Len(u) = j /\ u[j] = q[j]
        BY <2>2, <3>2
      <4>2. nx[q[j]] = At(q, j + 1)
        BY <1>1, <2>1, <3>2 DEF Path
      <4> HIDE DEF u
      <4> QED
        BY <3>2, <4>1, <4>2
    <3>3. CASE j > Len(q)
      <4>1. u = q
        BY <1>1, <2>1, <2>2, <3>3
      <4>2. CASE q = <<>>
        <5>1. Len(q) = 0 /\ ~(j <= Len(q))
          BY <1>1, <2>1, <3>3, <4>2
        <5> QED
          BY <4>1, <4>2, <5>1 DEF Path
      <4>3. CASE q # <<>>
        <5>1. Len(q) \in 1 .. Len(q) /\ ~(j <= Len(q))
          BY <1>1, <2>1, <3>3, <4>3
        <5>2. nx[q[Len(q)]] = At(q, Len(q) + 1)
          BY <5>1 DEF Path
        <5> HIDE DEF u
        <5> QED
          BY <4>1, <4>3, <5>1, <5>2
      <4> QED
        BY <4>2, <4>3
    <3> QED
      BY <1>1, <2>1, <3>1, <3>2, <3>3
  <2> HIDE DEF u
  <2>4. CASE j < Len(q)
    <3>1. Node(u) = q[j + 1] /\ q[j + 1] # NULL
      <4>1. j + 1 \in 1 .. Len(q) /\ j <= Len(q)
        BY <1>1, <2>1, <2>4
      <4>2. q[j + 1] \in Nodes
        BY <1>1, <4>1
      <4> HIDE DEF Node
      <4>3. Node(u) = At(q, j + 1)
        BY <2>3, <4>1
      <4> QED
        BY <4>1, <4>2, <4>3, NodesAssumption DEF At
    <3> HIDE DEF Node
    <3> QED
      BY <2>1, <2>2, <2>4, <3>1 DEF u, j
  <2>5. CASE ~(j < Len(q))
    <3>1. Node(u) = NULL
      <4>1. ~((IF j <= Len(q) THEN j + 1 ELSE Len(q) + 1) \in 1 .. Len(q))
        BY <1>1, <2>1, <2>5
      <4> HIDE DEF Node
      <4> QED
        BY <2>3, <4>1 DEF At
    <3>2. j >= Len(q) /\ j + 1 >= Len(q)
      BY <1>1, <2>1, <2>5
    <3> HIDE DEF Node
    <3> QED
      BY <2>1, <2>2, <3>1, <3>2 DEF u, j
  <2> QED
    BY <2>4, <2>5
<1> HIDE DEF More
<1>3. Solves(f)
  <2> DEFINE g == [i \in 0 .. m |-> IF i = 0 THEN <<>> ELSE More(f[i - 1])]
  <2>1. f[0] = <<>>
    BY <1>1, StepsAre
  <2>2. ASSUME NEW i \in 1 .. m PROVE f[i] = More(f[i - 1])
    <3>1. i \in 0 .. m /\ i - 1 \in 0 .. m
      BY <1>1
    <3>2. f[i] = Steps(q, i) /\ f[i - 1] = Steps(q, i - 1)
      BY <3>1
    <3> HIDE DEF f
    <3> QED
      BY <1>2, <3>2
  <2>3. \A i \in 0 .. m : f[i] = g[i]
    <3>1. ASSUME NEW i \in 0 .. m PROVE f[i] = g[i]
      <4>1. i = 0 \/ i \in 1 .. m
        BY <1>1
      <4> HIDE DEF f
      <4> QED
        BY <2>1, <2>2, <4>1
    <3> QED
      BY <3>1
  <2>4. f = g
    BY <2>3
  <2> QED
    BY <2>4
<1>4. Solves(walk)
  <2> HIDE DEF f
  <2> QED
    BY <1>3
<1> HIDE DEF walk, f
<1>5. walk[0] = <<>> /\ \A i \in 1 .. m : walk[i] = More(walk[i - 1])
  <2>1. 0 \in 0 .. m /\ \A i \in 1 .. m : i \in 0 .. m /\ i # 0
    BY <1>1
  <2> QED
    BY <1>4, <2>1
<1>6. \A i \in 1 .. m : walk[i - 1] = Steps(q, i - 1) => walk[i] = Steps(q, i)
  BY <1>2, <1>5
<1>7. walk[m] = q
  BY <1>5, <1>6, WalkEnds DEF m
<1>8. WalkOf(h, nx) = walk[m]
  BY DEF WalkOf, walk, m, More
<1> QED
  BY <1>7, <1>8

\* A node in the place behind the first i, and the pointers that lead to it and on.
LEMMA PathInserted ==
  ASSUME NEW h, NEW nx, NEW q, Distinct(q), Path(h, nx, q),
         NEW i \in 0 .. Len(q), NEW n \in Nodes, \A j \in 1 .. Len(q) : q[j] # n,
         NEW g, NEW ny, g = (IF i = 0 THEN n ELSE h), ny[n] = At(q, i + 1),
         \A j \in 1 .. Len(q) : ny[q[j]] = IF j = i THEN n ELSE nx[q[j]]
  PROVE  Distinct(Inserted(q, i, n)) /\ Path(g, ny, Inserted(q, i, n))
<1> DEFINE w == Inserted(q, i, n)
           m == Len(q)
<1>1. q \in Seq(Nodes) /\ m \in Nat
  BY DEF Distinct
<1>2. Distinct(w) /\ Len(w) = m + 1
  BY <1>1, InsertedDistinct, InsertedIs
<1>3. w = [j \in 1 .. m + 1 |-> IF j <= i THEN q[j] ELSE IF j = i + 1 THEN n ELSE q[j - 1]]
  BY DEF Inserted
<1> HIDE DEF w
<1>4. \A j \in 1 .. m + 2 : At(w, j) = IF j <= i THEN At(q, j) ELSE IF j = i + 1 THEN n ELSE At(q, j - 1)
  <2> SUFFICES ASSUME NEW j \in 1 .. m + 2 PROVE At(w, j) = IF j <= i THEN At(q, j) ELSE IF j = i + 1 THEN n ELSE At(q, j - 1)
    OBVIOUS
  <2>1. CASE j = m + 2
    BY <1>1, <1>2, <2>1 DEF At
  <2>2. CASE j # m + 2
    <3>1. j \in 1 .. m + 1
      BY <1>1, <2>2
    <3> QED
      BY <1>1, <1>2, <1>3, <3>1 DEF At
  <2> QED
    BY <2>1, <2>2
<1>5. g = At(w, 1)
  BY <1>1, <1>4 DEF Path
<1>6. ASSUME NEW j \in 1 .. m + 1 PROVE ny[w[j]] = At(w, j + 1)
  <2>1. CASE j = i + 1
    <3>0. j + 1 \in 1 .. m + 2 /\ ~(j + 1 <= i) /\ j + 1 # i + 1 /\ (j + 1) - 1 = i + 1 /\ ~(j <= i)
      BY <1>1, <2>1
    <3>1. w[j] = n /\ At(w, j + 1) = At(q, i + 1)
      BY <1>3, <1>4, <2>1, <3>0
    <3> QED
      BY <3>1
  <2>2. CASE j <= i
    <3>1. w[j] = q[j] /\ j \in 1 .. m /\ j + 1 \in 1 .. m + 2
      BY <1>1, <1>3, <2>2
    <3>2. ny[q[j]] = IF j = i THEN n ELSE nx[q[j]]
      BY <3>1
    <3>3. nx[q[j]] = At(q, j + 1)
      BY <3>1 DEF Path
    <3>4. At(w, j + 1) = IF j = i THEN n ELSE At(q, j + 1)
      BY <1>1, <1>4, <2>2, <3>1
    <3> QED
      BY <3>1, <3>2, <3>3, <3>4
  <2>3. CASE j > i + 1
    <3>1. w[j] = q[j - 1] /\ j - 1 \in 1 .. m /\ j - 1 # i /\ (j - 1) + 1 = j
      BY <1>1, <1>3, <2>3
    <3>2. ny[q[j - 1]] = nx[q[j - 1]]
      BY <3>1
    <3>3. nx[q[j - 1]] = At(q, j)
      BY <3>1 DEF Path
    <3>4. At(w, j + 1) = At(q, j)
      <4>1. j + 1 \in 1 .. m + 2 /\ ~(j + 1 <= i) /\ j + 1 # i + 1 /\ (j + 1) - 1 = j
        BY <1>1, <2>3
      <4> QED
        BY <1>4, <4>1
    <3> QED
      BY <3>1, <3>2, <3>3, <3>4
  <2> QED
    BY <1>1, <2>1, <2>2, <2>3
<1> QED
  BY <1>2, <1>5, <1>6 DEF Path, w

\* The pointers around a node.
LEMMA PathDropped ==
  ASSUME NEW h, NEW nx, NEW q, Distinct(q), Path(h, nx, q), NEW i \in 1 .. Len(q),
         NEW g, NEW ny, g = (IF i = 1 THEN At(q, 2) ELSE h),
         \A j \in 1 .. Len(q) : j # i => ny[q[j]] = IF j = i - 1 THEN At(q, i + 1) ELSE nx[q[j]]
  PROVE  Distinct(Dropped(q, i)) /\ Path(g, ny, Dropped(q, i))
<1> DEFINE w == Dropped(q, i)
           m == Len(q)
<1>1. q \in Seq(Nodes) /\ m \in Nat
  BY DEF Distinct
<1>2. Distinct(w) /\ Len(w) = m - 1
  BY <1>1, DroppedDistinct, DroppedIs
<1>3. w = [j \in 1 .. m - 1 |-> IF j < i THEN q[j] ELSE q[j + 1]]
  BY DEF Dropped
<1> HIDE DEF w
<1>4. \A j \in 1 .. m : At(w, j) = IF j < i THEN At(q, j) ELSE At(q, j + 1)
  <2> SUFFICES ASSUME NEW j \in 1 .. m PROVE At(w, j) = IF j < i THEN At(q, j) ELSE At(q, j + 1)
    OBVIOUS
  <2>1. CASE j = m
    BY <1>1, <1>2, <2>1 DEF At
  <2>2. CASE j # m
    <3>1. j \in 1 .. m - 1
      BY <1>1, <2>2
    <3> QED
      BY <1>1, <1>2, <1>3, <3>1 DEF At
  <2> QED
    BY <2>1, <2>2
<1>5. g = At(w, 1)
  <2>1. 1 \in 1 .. m
    BY <1>1
  <2> QED
    BY <1>1, <1>4, <2>1 DEF Path
<1>6. ASSUME NEW j \in 1 .. m - 1 PROVE ny[w[j]] = At(w, j + 1)
  <2>1. j + 1 \in 1 .. m
    BY <1>1
  <2>2. At(w, j + 1) = IF j + 1 < i THEN At(q, j + 1) ELSE At(q, j + 2)
    BY <1>1, <1>4, <2>1
  <2>3. CASE j < i
    <3>1. w[j] = q[j] /\ j \in 1 .. m /\ j # i
      BY <1>1, <1>3, <2>3
    <3>2. ny[q[j]] = IF j = i - 1 THEN At(q, i + 1) ELSE nx[q[j]]
      BY <3>1
    <3>3. nx[q[j]] = At(q, j + 1)
      BY <3>1 DEF Path
    <3>4. CASE j = i - 1
      BY <1>1, <2>2, <3>1, <3>2, <3>4
    <3>5. CASE j # i - 1
      BY <1>1, <2>2, <2>3, <3>1, <3>2, <3>3, <3>5
    <3> QED
      BY <3>4, <3>5
  <2>4. CASE ~(j < i)
    <3>1. w[j] = q[j + 1] /\ j + 1 # i /\ j + 1 # i - 1 /\ ~(j + 1 < i) /\ (j + 1) + 1 = j + 2
      BY <1>1, <1>3, <2>4
    <3>2. ny[q[j + 1]] = nx[q[j + 1]]
      BY <2>1, <3>1
    <3>3. nx[q[j + 1]] = At(q, j + 2)
      BY <2>1, <3>1 DEF Path
    <3> QED
      BY <2>2, <3>1, <3>2, <3>3
  <2> QED
    BY <2>3, <2>4
<1> QED
  BY <1>2, <1>5, <1>6 DEF Path, w

\* The pointers of a list, which are those of the sequence q.
Good(nx, h, t, c, q) ==
  /\ nx \in [Nodes -> Nodes \cup {NULL}] /\ t \in Nodes \cup {NULL} /\ c \in BOOLEAN
  /\ Distinct(q) /\ Path(h, nx, q)
  /\ ~c => t = At(q, Len(q))
  /\ c => q = <<>>

\* What the contract lets become of it.
Becomes(q, r) ==
  \/ r = q \/ r = <<>>
  \/ \E n \in Nodes, i \in 0 .. Len(q) : (\A j \in 1 .. Len(q) : q[j] # n) /\ r = Inserted(q, i, n)
  \/ \E i \in 1 .. Len(q) : r = Dropped(q, i)

LEMMA MembersAre ==
  ASSUME NEW q \in Seq(Nodes), Single!Elements = q
  PROVE  \A n : n \in Single!Members <=> \E j \in 1 .. Len(q) : q[j] = n
<1>1. DOMAIN q = 1 .. Len(q)
  OBVIOUS
<1> QED
  BY <1>1 DEF Single!Members

LEMMA GoodIs ==
  ASSUME NEW nx, NEW h, NEW t, NEW c, NEW q, Good(nx, h, t, c, q)
  PROVE  /\ q \in Seq(Nodes) /\ Len(q) \in Nat /\ NULL \notin Nodes
         /\ \A i \in 1 .. Len(q) : q[i] \in Nodes /\ At(q, i) = q[i] /\ nx[q[i]] = At(q, i + 1)
         /\ h = At(q, 1) /\ At(q, 0) = NULL /\ At(q, Len(q) + 1) = NULL
         /\ \A i, j \in 1 .. Len(q) : q[i] = q[j] => i = j
         /\ DOMAIN nx = Nodes
         /\ h = NULL <=> q = <<>>
         /\ ~c => (t = NULL <=> q = <<>>)
<1>1. q \in Seq(Nodes) /\ \A i, j \in 1 .. Len(q) : q[i] = q[j] => i = j
  BY DEF Good, Distinct
<1>2. Len(q) \in Nat /\ NULL \notin Nodes /\ \A i \in 1 .. Len(q) : q[i] \in Nodes
  BY <1>1, NodesAssumption
<1>3. h = At(q, 1) /\ \A i \in 1 .. Len(q) : nx[q[i]] = At(q, i + 1)
  BY DEF Good, Path
<1>4. At(q, 0) = NULL /\ At(q, Len(q) + 1) = NULL /\ \A i \in 1 .. Len(q) : At(q, i) = q[i]
  BY <1>2 DEF At
<1>5. DOMAIN nx = Nodes
  BY DEF Good
<1>6. CASE q = <<>>
  <2>1. Len(q) = 0
    BY <1>6
  <2> QED
    BY <1>1, <1>2, <1>3, <1>4, <1>5, <1>6, <2>1 DEF Good
<1>7. CASE q # <<>>
  <2>1. 1 \in 1 .. Len(q) /\ Len(q) \in 1 .. Len(q)
    BY <1>1, <1>2, <1>7
  <2>2. h \in Nodes /\ (~c => t \in Nodes)
    BY <1>2, <1>3, <1>4, <2>1 DEF Good
  <2> QED
    BY <1>1, <1>2, <1>3, <1>4, <1>5, <1>7, <2>2
<1> QED
  BY <1>6, <1>7

\* A node more, wherever it is put.
Puts(nx, h, t, q, i, n, ny, g, u) ==
  /\ i \in 0 .. Len(q) /\ n \in Nodes /\ (\A j \in 1 .. Len(q) : q[j] # n)
  /\ g = (IF i = 0 THEN n ELSE h) /\ u = (IF i = Len(q) THEN n ELSE t)
  /\ ny \in [Nodes -> Nodes \cup {NULL}] /\ ny[n] = At(q, i + 1)
  /\ \A j \in 1 .. Len(q) : ny[q[j]] = IF j = i THEN n ELSE nx[q[j]]

LEMMA GoodInserted ==
  ASSUME NEW nx, NEW h, NEW t, NEW c, NEW q, Good(nx, h, t, c, q), ~c,
         NEW i, NEW n, NEW g, NEW ny, NEW u, Puts(nx, h, t, q, i, n, ny, g, u)
  PROVE  Good(ny, g, u, c, Inserted(q, i, n)) /\ Becomes(q, Inserted(q, i, n))
<1> DEFINE w == Inserted(q, i, n)
           m == Len(q)
<1>1. q \in Seq(Nodes) /\ m \in Nat /\ Distinct(q) /\ Path(h, nx, q) /\ t = At(q, m) /\ t \in Nodes \cup {NULL}
  BY GoodIs DEF Good
<1>0. /\ i \in 0 .. Len(q) /\ n \in Nodes /\ (\A j \in 1 .. Len(q) : q[j] # n)
      /\ g = (IF i = 0 THEN n ELSE h) /\ u = (IF i = Len(q) THEN n ELSE t)
      /\ ny \in [Nodes -> Nodes \cup {NULL}] /\ ny[n] = At(q, i + 1)
      /\ \A j \in 1 .. Len(q) : ny[q[j]] = IF j = i THEN n ELSE nx[q[j]]
  BY DEF Puts
<1>2. Distinct(w) /\ Path(g, ny, w)
  BY <1>0, <1>1, PathInserted
<1>3. Len(w) = m + 1
  BY <1>0, <1>1, InsertedIs
<1>4. At(w, m + 1) = w[m + 1] /\ w[m + 1] = IF i = m THEN n ELSE q[m]
  <2>1. w = [j \in 1 .. m + 1 |-> IF j <= i THEN q[j] ELSE IF j = i + 1 THEN n ELSE q[j - 1]]
    BY DEF Inserted
  <2> HIDE DEF w
  <2>2. m + 1 \in 1 .. m + 1 /\ ~(m + 1 <= i) /\ (m + 1) - 1 = m /\ (m + 1 = i + 1 <=> i = m)
    BY <1>0, <1>1
  <2> QED
    BY <1>3, <2>1, <2>2 DEF At
<1>5. u = At(w, Len(w)) /\ u \in Nodes \cup {NULL}
  <2>1. CASE i = m
    BY <1>0, <1>3, <1>4, <2>1
  <2>2. CASE i # m
    <3>1. m \in 1 .. m
      BY <1>0, <1>1, <2>2
    <3>2. t = q[m]
      BY <1>1, <3>1 DEF At
    <3> HIDE DEF w
    <3> QED
      BY <1>0, <1>1, <1>3, <1>4, <2>2, <3>2
  <2> QED
    BY <2>1, <2>2
<1>6. Becomes(q, w)
  BY <1>0 DEF Becomes
<1> HIDE DEF w
<1> QED
  BY <1>0, <1>1, <1>2, <1>5, <1>6 DEF Good, w

\* A node less, wherever it was.
Takes(nx, h, t, q, i, ny, g, u) ==
  /\ i \in 1 .. Len(q)
  /\ g = (IF i = 1 THEN At(q, 2) ELSE h) /\ u = (IF i = Len(q) THEN At(q, i - 1) ELSE t)
  /\ ny \in [Nodes -> Nodes \cup {NULL}]
  /\ \A j \in 1 .. Len(q) : j # i => ny[q[j]] = IF j = i - 1 THEN At(q, i + 1) ELSE nx[q[j]]

LEMMA GoodDropped ==
  ASSUME NEW nx, NEW h, NEW t, NEW c, NEW q, Good(nx, h, t, c, q), ~c,
         NEW i, NEW g, NEW ny, NEW u, Takes(nx, h, t, q, i, ny, g, u)
  PROVE  Good(ny, g, u, c, Dropped(q, i)) /\ Becomes(q, Dropped(q, i))
<1> DEFINE w == Dropped(q, i)
           m == Len(q)
<1>1. q \in Seq(Nodes) /\ m \in Nat /\ Distinct(q) /\ Path(h, nx, q) /\ t = At(q, m) /\ t \in Nodes \cup {NULL}
  BY GoodIs DEF Good
<1>0. /\ i \in 1 .. Len(q)
      /\ g = (IF i = 1 THEN At(q, 2) ELSE h) /\ u = (IF i = Len(q) THEN At(q, i - 1) ELSE t)
      /\ ny \in [Nodes -> Nodes \cup {NULL}]
      /\ \A j \in 1 .. Len(q) : j # i => ny[q[j]] = IF j = i - 1 THEN At(q, i + 1) ELSE nx[q[j]]
  BY DEF Takes
<1>2. Distinct(w) /\ Path(g, ny, w)
  BY <1>0, <1>1, PathDropped
<1>3. Len(w) = m - 1
  BY <1>0, <1>1, DroppedIs
<1>4. At(w, m - 1) = IF i = m THEN At(q, m - 1) ELSE At(q, m)
  <2>1. w = [j \in 1 .. m - 1 |-> IF j < i THEN q[j] ELSE q[j + 1]]
    BY DEF Dropped
  <2> HIDE DEF w
  <2>2. CASE m = 1
    <3>1. ~(m - 1 \in 1 .. m - 1) /\ ~(m - 1 \in 1 .. m) /\ i = m
      BY <1>0, <2>2
    <3> QED
      BY <1>3, <3>1 DEF At
  <2>3. CASE m # 1
    <3> DEFINE k == m - 1
    <3>1. k \in 1 .. m - 1 /\ k \in 1 .. m /\ m \in 1 .. m /\ (k < i <=> i = m) /\ k + 1 = m
      <4>1. i \in 1 .. m /\ m \in Nat /\ m # 1
        BY <1>0, <1>1, <2>3
      <4> HIDE DEF m
      <4> QED
        BY <4>1
    <3>2. w[k] = IF i = m THEN q[k] ELSE q[m]
      BY <2>1, <3>1
    <3>3. At(w, k) = w[k] /\ At(q, k) = q[k] /\ At(q, m) = q[m]
      BY <1>3, <3>1 DEF At
    <3> QED
      BY <3>2, <3>3
  <2> QED
    BY <2>2, <2>3
<1>5. u = At(w, Len(w)) /\ u \in Nodes \cup {NULL}
  <2>1. At(q, m - 1) \in Nodes \cup {NULL}
    BY <1>1 DEF At
  <2> HIDE DEF w
  <2> QED
    BY <1>0, <1>1, <1>3, <1>4, <2>1
<1>6. Becomes(q, w)
  BY <1>0 DEF Becomes
<1> HIDE DEF w
<1> QED
  BY <1>0, <1>1, <1>2, <1>5, <1>6 DEF Good, w

\* Every operation of a list does what the contract says of the sequence.
LEMMA SingleStep ==
  ASSUME Careful, NEW q, Good(next, head, tail, cleared, q), Single!Next
  PROVE  \E r : Good(next', head', tail', cleared', r) /\ Becomes(q, r)
<1> DEFINE m == Len(q)
<1>0. Single!Elements = q
  <2>1. Distinct(q) /\ Path(head, next, q)
    BY DEF Good
  <2> QED
    BY <2>1, ElementsAre, WalkIs
<1>1. /\ q \in Seq(Nodes) /\ Len(q) \in Nat /\ NULL \notin Nodes
      /\ \A i \in 1 .. Len(q) : q[i] \in Nodes /\ At(q, i) = q[i] /\ next[q[i]] = At(q, i + 1)
      /\ head = At(q, 1) /\ At(q, 0) = NULL /\ At(q, Len(q) + 1) = NULL
      /\ \A i, j \in 1 .. Len(q) : q[i] = q[j] => i = j
      /\ DOMAIN next = Nodes
      /\ head = NULL <=> q = <<>>
      /\ ~cleared => (tail = NULL <=> q = <<>>)
  BY GoodIs
<1>2. \A n : n \in Single!Members <=> \E j \in 1 .. Len(q) : q[j] = n
  BY <1>0, <1>1, MembersAre
<1>3. /\ next \in [Nodes -> Nodes \cup {NULL}] /\ tail \in Nodes \cup {NULL} /\ cleared \in BOOLEAN
      /\ (~cleared => tail = At(q, Len(q))) /\ (cleared => q = <<>>)
  BY DEF Good
<1>4. ASSUME NEW n, Single!Addable(n)
      PROVE  next[n] = NULL /\ ~cleared /\ \A j \in 1 .. Len(q) : q[j] # n
  BY <1>2, <1>3, <1>4 DEF Single!Addable
<1> DEFINE Goal == \E r : Good(next', head', tail', cleared', r) /\ Becomes(q, r)
<1>5. ASSUME NEW n \in Nodes, Single!append(n)
      PROVE  Goal
  <2>1. Single!Addable(n) /\ tail' = n /\ cleared' = cleared
    BY <1>5 DEF Single!append
  <2>2. next[n] = NULL /\ ~cleared /\ \A j \in 1 .. Len(q) : q[j] # n
    BY <1>4, <2>1
  <2>3. head' = (IF m = 0 THEN n ELSE head) /\ next' = (IF m = 0 THEN next ELSE [next EXCEPT ![tail] = n])
    <3>1. tail = NULL <=> m = 0
      BY <1>1, <2>2
    <3> QED
      BY <1>5, <3>1 DEF Single!append
  <2>4. next' \in [Nodes -> Nodes \cup {NULL}] /\ next'[n] = At(q, m + 1)
    BY <1>1, <1>3, <2>2, <2>3
  <2>5. ASSUME NEW j \in 1 .. m PROVE next'[q[j]] = IF j = m THEN n ELSE next[q[j]]
    <3>1. m # 0 /\ m \in 1 .. m /\ tail = q[m]
      BY <1>1, <1>3, <2>2 DEF At
    <3>2. q[j] = tail <=> j = m
      BY <1>1, <3>1
    <3>3. q[j] \in Nodes /\ tail \in Nodes
      BY <1>1, <3>1
    <3> QED
      BY <1>1, <2>3, <3>1, <3>2, <3>3
  <2>6. m \in 0 .. Len(q)
    BY <1>1
  <2>7. head' = (IF m = 0 THEN n ELSE head) /\ tail' = (IF m = Len(q) THEN n ELSE tail)
    BY <2>1, <2>3
  <2>8. Good(next', head', tail', cleared, Inserted(q, m, n)) /\ Becomes(q, Inserted(q, m, n))
    <3>1. Puts(next, head, tail, q, m, n, next', head', tail')
      BY <2>2, <2>4, <2>5, <2>6, <2>7 DEF Puts
    <3> HIDE DEF m
    <3> QED
      BY <2>2, <3>1, GoodInserted
  <2>9. cleared' = cleared
    BY <2>1
  <2> QED
    BY <2>8, <2>9
<1>6. ASSUME NEW n \in Nodes, Single!prepend(n)
      PROVE  Goal
  <2>1. /\ Single!Addable(n) /\ cleared' = cleared
        /\ next' = [next EXCEPT ![n] = head] /\ head' = n /\ tail' = IF tail = NULL THEN n ELSE tail
    BY <1>6 DEF Single!prepend
  <2>2. next[n] = NULL /\ ~cleared /\ \A j \in 1 .. Len(q) : q[j] # n
    BY <1>4, <2>1
  <2>3. head \in Nodes \cup {NULL}
    BY <1>1 DEF At
  <2>4. next' \in [Nodes -> Nodes \cup {NULL}] /\ next'[n] = At(q, 0 + 1)
    BY <1>1, <1>3, <2>1, <2>3
  <2>5. ASSUME NEW j \in 1 .. m PROVE next'[q[j]] = IF j = 0 THEN n ELSE next[q[j]]
    BY <1>1, <2>1, <2>2
  <2>6. 0 \in 0 .. Len(q)
    BY <1>1
  <2>7. head' = (IF 0 = 0 THEN n ELSE head) /\ tail' = (IF 0 = Len(q) THEN n ELSE tail)
    <3>1. tail = NULL <=> Len(q) = 0
      BY <1>1, <2>2
    <3> QED
      BY <2>1, <3>1
  <2>8. Good(next', head', tail', cleared, Inserted(q, 0, n)) /\ Becomes(q, Inserted(q, 0, n))
    <3>1. Puts(next, head, tail, q, 0, n, next', head', tail')
      BY <2>2, <2>4, <2>5, <2>6, <2>7 DEF Puts
    <3> QED
      BY <2>2, <3>1, GoodInserted
  <2>9. cleared' = cleared
    BY <2>1
  <2> QED
    BY <2>8, <2>9
<1>7. ASSUME NEW n \in Nodes, NEW after \in Nodes, Single!insertAfter(after, n)
      PROVE  Goal
  <2>1. /\ Single!Addable(n) /\ after \in Single!Members /\ cleared' = cleared /\ head' = head
        /\ next' = [next EXCEPT ![n] = next[after], ![after] = n] /\ tail' = IF tail = after THEN n ELSE tail
    BY <1>7 DEF Single!insertAfter
  <2>2. next[n] = NULL /\ ~cleared /\ \A j \in 1 .. Len(q) : q[j] # n
    BY <1>4, <2>1
  <2>3. PICK k \in 1 .. Len(q) : q[k] = after
    BY <1>2, <2>1
  <2>4. next' \in [Nodes -> Nodes \cup {NULL}] /\ next'[n] = At(q, k + 1) /\ after # n
    BY <1>1, <1>3, <2>1, <2>2, <2>3
  <2>5. ASSUME NEW j \in 1 .. m PROVE next'[q[j]] = IF j = k THEN n ELSE next[q[j]]
    <3>1. q[j] = after <=> j = k
      BY <1>1, <2>3
    <3>2. q[j] # n /\ q[j] \in Nodes
      BY <1>1, <2>2
    <3> QED
      BY <1>1, <2>1, <3>1, <3>2
  <2>6. k \in 0 .. Len(q)
    BY <1>1
  <2>7. head' = (IF k = 0 THEN n ELSE head) /\ tail' = (IF k = Len(q) THEN n ELSE tail)
    <3>1. Len(q) \in 1 .. Len(q) /\ tail = q[Len(q)]
      BY <1>1, <1>3, <2>2 DEF At
    <3>2. tail = after <=> k = Len(q)
      BY <1>1, <2>3, <3>1
    <3>3. k # 0
      OBVIOUS
    <3> QED
      BY <2>1, <3>2, <3>3
  <2>8. Good(next', head', tail', cleared, Inserted(q, k, n)) /\ Becomes(q, Inserted(q, k, n))
    <3>1. Puts(next, head, tail, q, k, n, next', head', tail')
      BY <2>2, <2>4, <2>5, <2>6, <2>7 DEF Puts
    <3> QED
      BY <2>2, <3>1, GoodInserted
  <2>9. cleared' = cleared
    BY <2>1
  <2> QED
    BY <2>8, <2>9
<1>8. ASSUME NEW n \in Nodes, Single!remove(n)
      PROVE  Goal
  <2>1. n \in Single!Members /\ cleared' = cleared
    BY <1>8 DEF Single!remove
  <2>2. PICK k \in 1 .. Len(q) : q[k] = n
    BY <1>2, <2>1
  <2>3. ~cleared /\ Good(next, head, tail, cleared, q)
    <3>1. q # <<>>
      BY <1>1, <2>2
    <3>2. ~cleared
      BY <1>3, <3>1
    <3> QED
      BY <3>2
  <2>4. Len(q) \in 1 .. Len(q) /\ tail = q[Len(q)] /\ (tail = n <=> k = Len(q))
    <3>1. Len(q) \in 1 .. Len(q)
      BY <1>1
    <3>2. tail = q[Len(q)]
      BY <1>1, <1>3, <2>3, <3>1
    <3> QED
      BY <1>1, <2>2, <3>1, <3>2
  <2>5. head = n <=> k = 1
    <3>1. 1 \in 1 .. Len(q) /\ head = q[1]
      BY <1>1
    <3> QED
      BY <1>1, <2>2, <3>1
  <2>6. CASE k = 1
    <3>1. head' = next[n] /\ next' = next /\ tail' = IF tail = n THEN NULL ELSE tail
      BY <1>8, <2>5, <2>6 DEF Single!remove, Single!TailWithout
    <3>2. head' = (IF k = 1 THEN At(q, 2) ELSE head) /\ tail' = (IF k = Len(q) THEN At(q, k - 1) ELSE tail)
      <4>1. next[n] = At(q, 2) /\ k - 1 = 0
        BY <1>1, <2>2, <2>6
      <4> QED
        BY <1>1, <2>4, <2>6, <3>1, <4>1
    <3>3. \A j \in 1 .. Len(q) : j # k => next'[q[j]] = IF j = k - 1 THEN At(q, k + 1) ELSE next[q[j]]
      BY <1>1, <2>6, <3>1
    <3>4. Good(next', head', tail', cleared, Dropped(q, k)) /\ Becomes(q, Dropped(q, k))
      <4>1. next' \in [Nodes -> Nodes \cup {NULL}]
        BY <1>3, <3>1
      <4>2. Takes(next, head, tail, q, k, next', head', tail')
        BY <3>2, <3>3, <4>1 DEF Takes
      <4> QED
        BY <2>3, <4>2, GoodDropped
    <3> QED
      BY <2>1, <2>3, <3>4
  <2>7. CASE k # 1
    <3> DEFINE prev == CHOOSE p \in Single!Members : next[p] = n
    <3>1. prev = q[k - 1] /\ k - 1 \in 1 .. Len(q)
      <4>1. k - 1 \in 1 .. Len(q) /\ (k - 1) + 1 = k
        BY <1>1, <2>7
      <4>2. next[q[k - 1]] = n /\ q[k - 1] \in Single!Members
        BY <1>1, <1>2, <2>2, <4>1
      <4>3. prev \in Single!Members /\ next[prev] = n
        <5> DEFINE R == Single!Members
        <5> HIDE DEF R
        <5>1. \E p \in R : next[p] = n
          BY <4>2 DEF R
        <5> QED
          BY <5>1 DEF R
      <4> HIDE DEF prev
      <4>4. PICK j \in 1 .. Len(q) : q[j] = prev
        BY <1>2, <4>3
      <4>5. At(q, j + 1) = n
        BY <1>1, <4>3, <4>4
      <4>6. j + 1 \in 1 .. Len(q) /\ q[j + 1] = n
        BY <1>1, <4>5 DEF At
      <4>7. j + 1 = k
        BY <1>1, <2>2, <4>6
      <4> QED
        BY <4>1, <4>4, <4>7
    <3>2. /\ next' = [next EXCEPT ![prev] = next[n]] /\ head' = head
          /\ tail' = IF tail = n THEN prev ELSE tail
      BY <1>8, <2>5, <2>7 DEF Single!remove, Single!TailWithout
    <3> HIDE DEF prev
    <3>3. head' = (IF k = 1 THEN At(q, 2) ELSE head) /\ tail' = (IF k = Len(q) THEN At(q, k - 1) ELSE tail)
      BY <1>1, <2>4, <2>7, <3>1, <3>2
    <3>4. ASSUME NEW j \in 1 .. Len(q), j # k PROVE next'[q[j]] = IF j = k - 1 THEN At(q, k + 1) ELSE next[q[j]]
      <4>1. q[j] = prev <=> j = k - 1
        BY <1>1, <3>1
      <4>2. next[n] = At(q, k + 1) /\ q[j] \in Nodes
        BY <1>1, <2>2
      <4> QED
        BY <1>1, <3>2, <4>1, <4>2
    <3>5. next' \in [Nodes -> Nodes \cup {NULL}]
      BY <1>3, <3>2
    <3>6. Good(next', head', tail', cleared, Dropped(q, k)) /\ Becomes(q, Dropped(q, k))
      <4>1. Takes(next, head, tail, q, k, next', head', tail')
        BY <3>3, <3>4, <3>5 DEF Takes
      <4> QED
        BY <2>3, <4>1, GoodDropped
    <3> QED
      BY <2>1, <2>3, <3>6
  <2> QED
    BY <2>6, <2>7
<1>9. ASSUME NEW n \in Nodes, Single!Renew(n)
      PROVE  Goal
  <2>1. /\ n \notin Single!Members /\ next' = [next EXCEPT ![n] = NULL]
        /\ head' = head /\ tail' = tail /\ cleared' = cleared
    BY <1>9 DEF Single!Renew
  <2>2. \A j \in 1 .. Len(q) : q[j] # n /\ next'[q[j]] = next[q[j]]
    BY <1>1, <1>2, <2>1
  <2>3. next' \in [Nodes -> Nodes \cup {NULL}]
    BY <1>3, <2>1
  <2>4. Good(next', head', tail', cleared', q)
    BY <2>1, <2>2, <2>3 DEF Good, Path
  <2>5. Becomes(q, q)
    BY DEF Becomes
  <2> QED
    BY <2>4, <2>5
<1>10. ASSUME Single!takeFirst
       PROVE  Goal
  <2>1. head # NULL /\ cleared' = cleared
    BY <1>10 DEF Single!takeFirst
  <2>2. 1 \in 1 .. Len(q) /\ Len(q) \in 1 .. Len(q) /\ head = q[1] /\ ~cleared /\ Good(next, head, tail, cleared, q)
    <3>1. q # <<>>
      BY <1>1, <2>1
    <3>2. Len(q) # 0
      BY <1>1, <3>1
    <3>3. ~cleared
      BY <1>3, <3>1
    <3> QED
      BY <1>1, <3>2, <3>3
  <2>3. tail = q[Len(q)] /\ (tail = head <=> 1 = Len(q)) /\ next[head] = At(q, 2)
    <3>1. tail = q[Len(q)]
      BY <1>1, <1>3, <2>2
    <3>2. q[1] = q[Len(q)] <=> 1 = Len(q)
      BY <1>1, <2>2
    <3>3. next[q[1]] = At(q, 1 + 1)
      BY <1>1, <2>2
    <3>4. At(q, 1 + 1) = At(q, 2)
      OBVIOUS
    <3> QED
      BY <2>2, <3>1, <3>2, <3>3, <3>4
  <2>4. head' = (IF 1 = 1 THEN At(q, 2) ELSE head) /\ tail' = (IF 1 = Len(q) THEN At(q, 1 - 1) ELSE tail)
    <3>1. CASE Len(q) = 1
      <4>1. head' = NULL /\ tail' = NULL
        BY <1>10, <2>3, <3>1 DEF Single!takeFirst
      <4>2. At(q, 2) = NULL /\ At(q, 1 - 1) = NULL
        <5>1. At(q, 2) = NULL
          <6>1. Len(q) + 1 = 2
            BY <1>1, <3>1
          <6> QED
            BY <1>1, <6>1
        <5>2. At(q, 1 - 1) = At(q, 0)
          OBVIOUS
        <5> QED
          BY <1>1, <5>1, <5>2
      <4> QED
        BY <3>1, <4>1, <4>2
    <3>2. CASE Len(q) # 1
      BY <1>10, <2>3, <3>2 DEF Single!takeFirst
    <3> QED
      BY <3>1, <3>2
  <2>5. next' = next \/ next' = [next EXCEPT ![head] = NULL]
    BY <1>10 DEF Single!takeFirst
  <2>6. ASSUME NEW j \in 1 .. Len(q), j # 1 PROVE next'[q[j]] = IF j = 1 - 1 THEN At(q, 1 + 1) ELSE next[q[j]]
    <3>1. q[j] # head /\ j # 1 - 1
      BY <1>1, <2>2, <2>6
    <3> QED
      BY <1>1, <2>5, <3>1
  <2>7. next' \in [Nodes -> Nodes \cup {NULL}]
    BY <1>3, <2>5
  <2>8. Good(next', head', tail', cleared, Dropped(q, 1)) /\ Becomes(q, Dropped(q, 1))
    <3>1. Takes(next, head, tail, q, 1, next', head', tail')
      BY <2>2, <2>4, <2>6, <2>7 DEF Takes
    <3> QED
      BY <2>2, <3>1, GoodDropped
  <2> QED
    BY <2>1, <2>2, <2>8
<1>11. ASSUME Single!clear \/ Single!Reset
       PROVE  Goal
  <2>1. /\ next' = [n \in Nodes |-> IF n \in Single!Members THEN NULL ELSE next[n]] /\ head' = NULL
        /\ \/ tail' = tail /\ cleared' = (tail # NULL)
           \/ tail' = NULL /\ cleared' = FALSE
    BY <1>11 DEF Single!clear, Single!Reset
  <2>2. next' \in [Nodes -> Nodes \cup {NULL}]
    BY <1>3, <2>1
  <2>3. Len(<<>>) = 0 /\ <<>> \in Seq(Nodes)
    OBVIOUS
  <2>4. Distinct(<<>>) /\ Path(NULL, next', <<>>)
    BY <2>3 DEF Distinct, Path, At
  <2>5. tail' \in Nodes \cup {NULL} /\ cleared' \in BOOLEAN /\ (~cleared' => tail' = At(<<>>, Len(<<>>)))
    <3>1. At(<<>>, Len(<<>>)) = NULL
      BY <2>3 DEF At
    <3>2. CASE tail' = tail /\ cleared' = (tail # NULL)
      BY <1>3, <3>1, <3>2
    <3>3. CASE tail' = NULL /\ cleared' = FALSE
      BY <3>1, <3>3
    <3> QED
      BY <2>1, <3>2, <3>3
  <2>6. Good(next', head', tail', cleared', <<>>)
    BY <2>1, <2>2, <2>4, <2>5 DEF Good
  <2>7. Becomes(q, <<>>)
    BY DEF Becomes
  <2> QED
    BY <2>6, <2>7
<1> HIDE DEF Goal
<1>12. Goal
  BY <1>5, <1>6, <1>7, <1>8, <1>9, <1>10, <1>11 DEF Single!Next
<1> QED
  BY <1>12 DEF Goal

\* The steps of the contract.
ListStep(q, r) ==
  \/ \E n \in Nodes : \E i \in 0 .. Len(q) :
       n \notin {q[j] : j \in DOMAIN q} /\ r = SubSeq(q, 1, i) \o <<n>> \o SubSeq(q, i + 1, Len(q))
  \/ \E i \in 1 .. Len(q) : r = SubSeq(q, 1, i - 1) \o SubSeq(q, i + 1, Len(q))
  \/ r = <<>>

LEMMA BecomesStep ==
  ASSUME NEW q \in Seq(Nodes), NEW r, Becomes(q, r)
  PROVE  r = q \/ ListStep(q, r)
<1>1. CASE r = q \/ r = <<>>
  BY <1>1 DEF ListStep
<1>2. ASSUME NEW n \in Nodes, NEW i \in 0 .. Len(q), \A j \in 1 .. Len(q) : q[j] # n, r = Inserted(q, i, n)
      PROVE  ListStep(q, r)
  <2>1. r = SubSeq(q, 1, i) \o <<n>> \o SubSeq(q, i + 1, Len(q))
    BY <1>2, InsertedIs
  <2>2. n \notin {q[j] : j \in DOMAIN q}
    BY <1>2
  <2> QED
    BY <2>1, <2>2 DEF ListStep
<1>3. ASSUME NEW i \in 1 .. Len(q), r = Dropped(q, i)
      PROVE  ListStep(q, r)
  <2>1. r = SubSeq(q, 1, i - 1) \o SubSeq(q, i + 1, Len(q))
    BY <1>3, DroppedIs
  <2> QED
    BY <2>1 DEF ListStep
<1> QED
  BY <1>1, <1>2, <1>3 DEF Becomes

SingleInv == \E q : Good(next, head, tail, cleared, q)

LEMMA SingleImplements ==
  ASSUME Careful, SingleInv, Single!Next
  PROVE  SingleInv' /\ Single!ImplementsList
<1>1. PICK q : Good(next, head, tail, cleared, q)
  BY DEF SingleInv
<1>2. PICK r : Good(next', head', tail', cleared', r) /\ Becomes(q, r)
  BY <1>1, SingleStep
<1>3. SingleInv'
  BY <1>2 DEF SingleInv
<1>4. Single!Elements = q /\ (Single!Elements)' = r
  <2>1. Distinct(q) /\ Path(head, next, q) /\ Distinct(r) /\ Path(head', next', r)
    BY <1>1, <1>2 DEF Good
  <2> QED
    BY <2>1, ElementsAre, WalkIs
<1>5. r = q \/ ListStep(q, r)
  BY <1>1, <1>2, BecomesStep DEF Good, Distinct
<1>6. ASSUME ListStep(Single!Elements, (Single!Elements)') PROVE Single!Contract!Next
  BY <1>6 DEF ListStep, Single!Contract!Next, Single!Contract!Insert, Single!Contract!Drop, Single!Contract!Clear, Single!Contract!Free
<1>7. Single!Contract!Next \/ (Single!Elements)' = Single!Elements
  BY <1>4, <1>5, <1>6
<1> QED
  BY <1>3, <1>7 DEF Single!ImplementsList

LEMMA SingleTail ==
  ASSUME SingleInv
  PROVE  Single!TailIsLast
<1>1. PICK q : Good(next, head, tail, cleared, q)
  BY DEF SingleInv
<1>2. Single!Elements = q
  <2>1. Distinct(q) /\ Path(head, next, q)
    BY <1>1 DEF Good
  <2> QED
    BY <2>1, ElementsAre, WalkIs
<1>3. q \in Seq(Nodes) /\ (~cleared => tail = At(q, Len(q)))
  BY <1>1, GoodIs DEF Good
<1>4. q # <<>> => At(q, Len(q)) = q[Len(q)]
  <2> SUFFICES ASSUME q # <<>> PROVE Len(q) \in 1 .. Len(q)
    BY DEF At
  <2> QED
    BY <1>3
<1>5. q = <<>> => At(q, Len(q)) = NULL
  BY <1>3 DEF At
<1> QED
  BY <1>2, <1>3, <1>4, <1>5 DEF Single!TailIsLast

LEMMA SingleInit ==
  ASSUME Single!Init
  PROVE  SingleInv /\ Single!Contract!Init
<1>1. next = [n \in Nodes |-> NULL] /\ head = NULL /\ tail = NULL /\ cleared = FALSE
  BY DEF Single!Init
<1>2. Len(<<>>) = 0 /\ <<>> \in Seq(Nodes)
  OBVIOUS
<1>3. Distinct(<<>>) /\ Path(NULL, next, <<>>) /\ At(<<>>, Len(<<>>)) = NULL
  BY <1>2 DEF Distinct, Path, At
<1>4. Good(next, head, tail, cleared, <<>>)
  BY <1>1, <1>3 DEF Good
<1>5. Single!Elements = <<>>
  BY <1>1, <1>3, ElementsAre, WalkIs
<1> QED
  BY <1>4, <1>5 DEF SingleInv, Single!Contract!Init

------------------------------------------------------------------------------
(* LinkedList. *)

\* The places of a ring: the root, the nodes of q, and the root again.
RAt(q, i) == IF i \in 1 .. Len(q) THEN q[i] ELSE Root

\* Pointers that lead once around.
Chain(p, q) == \A i \in 0 .. Len(q) : p[RAt(q, i)] = RAt(q, i + 1)

RoundOf(p) ==
  LET walk[i \in 0 .. Cardinality(Nodes) + 1] ==
        IF i = 0 THEN <<>>
        ELSE LET n == p[IF walk[i - 1] = <<>> THEN Root ELSE walk[i - 1][Len(walk[i - 1])]]
             IN IF n \in {Root, NULL} THEN walk[i - 1] ELSE Append(walk[i - 1], n)
  IN walk[Cardinality(Nodes) + 1]

LEMMA AroundAre ==
  /\ Double!Around(forward) = RoundOf(forward) /\ Double!Around(forward)' = RoundOf(forward')
  /\ Double!Around(back) = RoundOf(back)
<1>1. Double!Cardinality(Nodes) = Cardinality(Nodes)
  BY DEF Double!Cardinality, Cardinality
<1>2. Double!Around(forward) = RoundOf(forward)
  BY <1>1 DEF Double!Around, Double!Further, RoundOf
<1>3. Double!Around(forward)' = RoundOf(forward')
  BY <1>1 DEF Double!Around, Double!Further, RoundOf
<1>4. Double!Around(back) = RoundOf(back)
  BY <1>1 DEF Double!Around, Double!Further, RoundOf
<1> QED
  BY <1>2, <1>3, <1>4

LEMMA RoundIs ==
  ASSUME NEW p, NEW q, Distinct(q), Chain(p, q)
  PROVE  RoundOf(p) = q
<1> DEFINE m == Cardinality(Nodes) + 1
           Node(u) == p[IF u = <<>> THEN Root ELSE u[Len(u)]]
           More(u) == IF Node(u) \in {Root, NULL} THEN u ELSE Append(u, Node(u))
           Solves(g) == g = [i \in 0 .. m |-> IF i = 0 THEN <<>> ELSE More(g[i - 1])]
           walk == CHOOSE g : Solves(g)
           f == [i \in 0 .. m |-> Steps(q, i)]
<1>1. m \in Nat /\ Len(q) \in Nat /\ q \in Seq(Nodes)
  BY LengthBound DEF Distinct
<1> HIDE DEF m
<1>2. ASSUME NEW i \in 1 .. m
      PROVE  More(Steps(q, i - 1)) = Steps(q, i)
  <2> DEFINE j == i - 1
             u == Steps(q, j)
  <2>1. j \in Nat /\ j + 1 = i
    BY <1>1
  <2> HIDE DEF j
  <2>2. /\ j < Len(q) => Steps(q, j + 1) = Append(u, q[j + 1])
        /\ j > 0 /\ j <= Len(q) => u # <<>> /\ Len(u) = j /\ u[j] = q[j]
        /\ j >= Len(q) => u = q
        /\ j + 1 >= Len(q) => Steps(q, j + 1) = q
        /\ j = 0 => u = <<>>
    <3>1. j + 1 \in Nat
      BY <2>1
    <3> QED
      BY <1>1, <2>1, <3>1, StepsAre
  <2>3. Node(u) = RAt(q, IF j <= Len(q) THEN j + 1 ELSE Len(q) + 1)
    <3>1. CASE j = 0
      <4>1. u = <<>>
        BY <2>2, <3>1
      <4>2. j <= Len(q) /\ j + 1 = 1 /\ 0 \in 0 .. Len(q) /\ 0 + 1 = 1
        BY <1>1, <3>1
      <4>3. RAt(q, 0) = Root
        BY <1>1 DEF RAt
      <4>4. p[RAt(q, 0)] = RAt(q, 0 + 1)
        BY <4>2 DEF Chain
      <4> QED
        BY <4>1, <4>2, <4>3, <4>4
    <3>2. CASE j > 0 /\ j <= Len(q)
      <4>1. u # <<>> /\ Len(u) = j /\ u[j] = q[j]
        BY <2>2, <3>2
      <4>2. p[q[j]] = RAt(q, j + 1)
        <5>1. j \in 0 .. Len(q) /\ j \in 1 .. Len(q)
          BY <1>1, <2>1, <3>2
        <5> QED
          BY <5>1 DEF Chain, RAt
      <4> HIDE DEF u
      <4> QED
        BY <3>2, <4>1, <4>2
    <3>3. CASE j > Len(q)
      <4>1. u = q
        BY <1>1, <2>1, <2>2, <3>3
      <4>2. Len(q) \in 0 .. Len(q) /\ ~(j <= Len(q))
        BY <1>1, <2>1, <3>3
      <4>3. p[RAt(q, Len(q))] = RAt(q, Len(q) + 1)
        BY <4>2 DEF Chain
      <4>4. RAt(q, Len(q)) = IF q = <<>> THEN Root ELSE q[Len(q)]
        <5>1. CASE q = <<>>
          <6>1. Len(q) = 0
            BY <5>1
          <6> QED
            BY <5>1, <6>1 DEF RAt
        <5>2. CASE q # <<>>
          <6>1. Len(q) \in 1 .. Len(q)
            BY <1>1, <5>2
          <6> QED
            BY <5>2, <6>1 DEF RAt
        <5> QED
          BY <5>1, <5>2
      <4> HIDE DEF u
      <4> QED
        BY <4>1, <4>2, <4>3, <4>4
    <3> QED
      BY <1>1, <2>1, <3>1, <3>2, <3>3
  <2> HIDE DEF u
  <2>4. CASE j < Len(q)
    <3>1. Node(u) = q[j + 1] /\ q[j + 1] \notin {Root, NULL}
      <4>1. j + 1 \in 1 .. Len(q) /\ j <= Len(q)
        BY <1>1, <2>1, <2>4
      <4>2. q[j + 1] \in Nodes
        BY <1>1, <4>1
      <4> HIDE DEF Node
      <4>3. Node(u) = RAt(q, j + 1)
        BY <2>3, <4>1
      <4> QED
        BY <4>1, <4>2, <4>3, NodesAssumption DEF RAt
    <3> HIDE DEF Node
    <3> QED
      BY <2>1, <2>2, <2>4, <3>1 DEF u, j
  <2>5. CASE ~(j < Len(q))
    <3>1. Node(u) = Root
      <4>1. ~((IF j <= Len(q) THEN j + 1 ELSE Len(q) + 1) \in 1 .. Len(q))
        BY <1>1, <2>1, <2>5
      <4> HIDE DEF Node
      <4> QED
        BY <2>3, <4>1 DEF RAt
    <3>2. j >= Len(q) /\ j + 1 >= Len(q)
      BY <1>1, <2>1, <2>5
    <3> HIDE DEF Node
    <3> QED
      BY <2>1, <2>2, <3>1, <3>2 DEF u, j
  <2> QED
    BY <2>4, <2>5
<1> HIDE DEF More
<1>3. Solves(f)
  <2> DEFINE g == [i \in 0 .. m |-> IF i = 0 THEN <<>> ELSE More(f[i - 1])]
  <2>1. f[0] = <<>>
    BY <1>1, StepsAre
  <2>2. ASSUME NEW i \in 1 .. m PROVE f[i] = More(f[i - 1])
    <3>1. i \in 0 .. m /\ i - 1 \in 0 .. m
      BY <1>1
    <3>2. f[i] = Steps(q, i) /\ f[i - 1] = Steps(q, i - 1)
      BY <3>1
    <3> HIDE DEF f
    <3> QED
      BY <1>2, <3>2
  <2>3. \A i \in 0 .. m : f[i] = g[i]
    <3>1. ASSUME NEW i \in 0 .. m PROVE f[i] = g[i]
      <4>1. i = 0 \/ i \in 1 .. m
        BY <1>1
      <4> HIDE DEF f
      <4> QED
        BY <2>1, <2>2, <4>1
    <3> QED
      BY <3>1
  <2>4. f = g
    BY <2>3
  <2> QED
    BY <2>4
<1>4. Solves(walk)
  <2> HIDE DEF f
  <2> QED
    BY <1>3
<1> HIDE DEF walk, f
<1>5. walk[0] = <<>> /\ \A i \in 1 .. m : walk[i] = More(walk[i - 1])
  <2>1. 0 \in 0 .. m /\ \A i \in 1 .. m : i \in 0 .. m /\ i # 0
    BY <1>1
  <2> QED
    BY <1>4, <2>1
<1>6. \A i \in 1 .. m : walk[i - 1] = Steps(q, i - 1) => walk[i] = Steps(q, i)
  BY <1>2, <1>5
<1>7. walk[m] = q
  BY <1>5, <1>6, WalkEnds DEF m
<1>8. RoundOf(p) = walk[m]
  BY DEF RoundOf, walk, m, More
<1> QED
  BY <1>7, <1>8

\* The pointers of a ring, which are those of the sequence q.
Places == Nodes \cup {Root}

Ring(nx, pv, q) ==
  /\ nx \in [Places -> Places \cup {NULL}] /\ pv \in [Places -> Places \cup {NULL}]
  /\ Distinct(q)
  /\ \A i \in 0 .. Len(q) : nx[RAt(q, i)] = RAt(q, i + 1) /\ pv[RAt(q, i + 1)] = RAt(q, i)
  /\ \A n \in Nodes : (\A j \in 1 .. Len(q) : q[j] # n) => nx[n] = NULL /\ pv[n] = NULL

\* No place of a ring comes twice, but for the root at its ends.
LEMMA RingIs ==
  ASSUME NEW q, Distinct(q)
  PROVE  /\ q \in Seq(Nodes) /\ Len(q) \in Nat /\ NULL \notin Places /\ Root \in Places /\ Root \notin Nodes
         /\ \A i : RAt(q, i) \in Places
         /\ RAt(q, 0) = Root /\ RAt(q, Len(q) + 1) = Root
         /\ \A i \in 1 .. Len(q) : RAt(q, i) = q[i] /\ q[i] \in Nodes
         /\ \A i, j \in 0 .. Len(q) : RAt(q, i) = RAt(q, j) => i = j
         /\ \A i, j \in 1 .. Len(q) + 1 : RAt(q, i) = RAt(q, j) => i = j
         /\ \A n \in Nodes : (\A j \in 1 .. Len(q) : q[j] # n) => \A i : RAt(q, i) # n
<1>1. q \in Seq(Nodes) /\ \A i, j \in 1 .. Len(q) : q[i] = q[j] => i = j
  BY DEF Distinct
<1>2. Len(q) \in Nat /\ NULL \notin Places /\ Root \in Places /\ Root \notin Nodes
  BY <1>1, NodesAssumption DEF Places
<1>3. \A i \in 1 .. Len(q) : RAt(q, i) = q[i] /\ q[i] \in Nodes
  BY <1>1 DEF RAt
<1>4. \A i : i \notin 1 .. Len(q) => RAt(q, i) = Root
  BY DEF RAt
<1>5. RAt(q, 0) = Root /\ RAt(q, Len(q) + 1) = Root
  BY <1>2, <1>4
<1>6. \A i : RAt(q, i) \in Places
  BY <1>3, <1>4 DEF Places
<1>7. \A n \in Nodes : (\A j \in 1 .. Len(q) : q[j] # n) => \A i : RAt(q, i) # n
  BY <1>2, <1>3, <1>4
<1>8. ASSUME NEW i \in 0 .. Len(q), NEW j \in 0 .. Len(q), RAt(q, i) = RAt(q, j) PROVE i = j
  <2>1. (i = 0 \/ i \in 1 .. Len(q)) /\ (j = 0 \/ j \in 1 .. Len(q))
    BY <1>2
  <2> QED
    BY <1>1, <1>2, <1>3, <1>5, <1>8, <2>1
<1>9. ASSUME NEW i \in 1 .. Len(q) + 1, NEW j \in 1 .. Len(q) + 1, RAt(q, i) = RAt(q, j) PROVE i = j
  <2>1. (i = Len(q) + 1 \/ i \in 1 .. Len(q)) /\ (j = Len(q) + 1 \/ j \in 1 .. Len(q))
    BY <1>2
  <2> QED
    BY <1>1, <1>2, <1>3, <1>5, <1>9, <2>1
<1> QED
  BY <1>1, <1>2, <1>3, <1>5, <1>6, <1>7, <1>8, <1>9

\* A node more, between two places.
Links(nx, pv, q, i, n, ny, py) ==
  /\ i \in 0 .. Len(q) /\ n \in Nodes /\ (\A j \in 1 .. Len(q) : q[j] # n)
  /\ ny \in [Places -> Places \cup {NULL}] /\ py \in [Places -> Places \cup {NULL}]
  /\ \A p \in Places : ny[p] = IF p = RAt(q, i) THEN n ELSE IF p = n THEN RAt(q, i + 1) ELSE nx[p]
  /\ \A p \in Places : py[p] = IF p = RAt(q, i + 1) THEN n ELSE IF p = n THEN RAt(q, i) ELSE pv[p]

LEMMA RingInserted ==
  ASSUME NEW nx, NEW pv, NEW q, Ring(nx, pv, q), NEW i, NEW n, NEW ny, NEW py, Links(nx, pv, q, i, n, ny, py)
  PROVE  Ring(ny, py, Inserted(q, i, n)) /\ Becomes(q, Inserted(q, i, n))
<1> DEFINE w == Inserted(q, i, n)
           m == Len(q)
<1>1. Distinct(q)
  BY DEF Ring
<1>2. /\ q \in Seq(Nodes) /\ m \in Nat /\ NULL \notin Places /\ Root \in Places /\ Root \notin Nodes
      /\ \A j : RAt(q, j) \in Places
      /\ RAt(q, 0) = Root /\ RAt(q, m + 1) = Root
      /\ \A j \in 1 .. m : RAt(q, j) = q[j] /\ q[j] \in Nodes
      /\ \A j, k \in 0 .. m : RAt(q, j) = RAt(q, k) => j = k
      /\ \A j, k \in 1 .. m + 1 : RAt(q, j) = RAt(q, k) => j = k
  BY <1>1, RingIs
<1>3. /\ i \in 0 .. m /\ n \in Nodes /\ (\A j \in 1 .. m : q[j] # n)
      /\ ny \in [Places -> Places \cup {NULL}] /\ py \in [Places -> Places \cup {NULL}]
  BY DEF Links
<1>4. /\ \A p \in Places : ny[p] = IF p = RAt(q, i) THEN n ELSE IF p = n THEN RAt(q, i + 1) ELSE nx[p]
      /\ \A p \in Places : py[p] = IF p = RAt(q, i + 1) THEN n ELSE IF p = n THEN RAt(q, i) ELSE pv[p]
  BY DEF Links
<1>5. \A j : RAt(q, j) # n
  BY <1>1, <1>3, RingIs
<1>6. \A j \in 0 .. m : nx[RAt(q, j)] = RAt(q, j + 1) /\ pv[RAt(q, j + 1)] = RAt(q, j)
  BY DEF Ring
<1>7. Distinct(w) /\ Len(w) = m + 1
  BY <1>1, <1>2, <1>3, InsertedDistinct, InsertedIs
<1>8. w = [j \in 1 .. m + 1 |-> IF j <= i THEN q[j] ELSE IF j = i + 1 THEN n ELSE q[j - 1]]
  BY DEF Inserted
<1>9. Becomes(q, w)
  BY <1>3 DEF Becomes
<1> HIDE DEF w
<1>10. ASSUME NEW j \in 0 .. m + 2
       PROVE  RAt(w, j) = IF j <= i THEN RAt(q, j) ELSE IF j = i + 1 THEN n ELSE RAt(q, j - 1)
  <2>1. CASE j \in 1 .. m + 1
    <3>1. RAt(w, j) = IF j <= i THEN q[j] ELSE IF j = i + 1 THEN n ELSE q[j - 1]
      BY <1>7, <1>8, <2>1 DEF RAt
    <3>2. (j <= i => j \in 1 .. m) /\ (j > i + 1 => j - 1 \in 1 .. m) /\ i \in Int
      BY <1>2, <1>3, <2>1
    <3> QED
      BY <1>2, <3>1, <3>2
  <2>2. CASE j = 0
    BY <1>2, <1>3, <1>7, <2>2 DEF RAt
  <2>3. CASE j = m + 2
    <3>1. ~(j <= i) /\ j # i + 1 /\ j - 1 = m + 1 /\ ~(j \in 1 .. m + 1)
      BY <1>2, <1>3, <2>3
    <3> QED
      BY <1>2, <1>7, <3>1 DEF RAt
  <2> QED
    BY <1>2, <2>1, <2>2, <2>3
<1>11. ASSUME NEW j \in 0 .. m + 1
       PROVE  ny[RAt(w, j)] = RAt(w, j + 1) /\ py[RAt(w, j + 1)] = RAt(w, j)
  <2>0. j + 1 \in 0 .. m + 2 /\ j \in 0 .. m + 2 /\ i \in Int
    BY <1>2, <1>3
  <2>1. CASE j < i
    <3>1. j \in 0 .. m /\ i \in 0 .. m /\ j + 1 \in 1 .. m + 1 /\ i + 1 \in 1 .. m + 1 /\ j # i /\ j + 1 # i + 1
      BY <1>2, <1>3, <2>1
    <3>2. RAt(w, j) = RAt(q, j) /\ RAt(w, j + 1) = RAt(q, j + 1)
      BY <1>10, <2>0, <2>1
    <3>3. RAt(q, j) # RAt(q, i) /\ RAt(q, j + 1) # RAt(q, i + 1)
      BY <1>2, <3>1
    <3> QED
      BY <1>2, <1>4, <1>5, <1>6, <3>1, <3>2, <3>3
  <2>2. CASE j = i
    <3>1. RAt(w, j) = RAt(q, i) /\ RAt(w, j + 1) = n
      BY <1>10, <2>0, <2>2
    <3> QED
      BY <1>2, <1>3, <1>4, <1>5, <3>1 DEF Places
  <2>3. CASE j = i + 1
    <3>1. RAt(w, j) = n /\ RAt(w, j + 1) = RAt(q, i + 1)
      <4>1. (j + 1) - 1 = i + 1 /\ ~(j + 1 <= i) /\ j + 1 # i + 1 /\ ~(j <= i)
        BY <2>0, <2>3
      <4> QED
        BY <1>10, <2>0, <2>3, <4>1
    <3> QED
      BY <1>2, <1>3, <1>4, <1>5, <3>1 DEF Places
  <2>4. CASE j > i + 1
    <3>1. /\ j - 1 \in 0 .. m /\ i \in 0 .. m /\ j \in 1 .. m + 1 /\ i + 1 \in 1 .. m + 1 /\ j - 1 # i /\ j # i + 1
          /\ (j - 1) + 1 = j /\ (j + 1) - 1 = j
      BY <1>2, <1>3, <2>4
    <3>2. RAt(w, j) = RAt(q, j - 1) /\ RAt(w, j + 1) = RAt(q, j)
      <4>1. ~(j <= i) /\ ~(j + 1 <= i) /\ j + 1 # i + 1
        BY <2>0, <2>4
      <4> QED
        BY <1>10, <2>0, <3>1, <4>1
    <3>3. RAt(q, j - 1) # RAt(q, i) /\ RAt(q, j) # RAt(q, i + 1)
      BY <1>2, <3>1
    <3>4. nx[RAt(q, j - 1)] = RAt(q, j) /\ pv[RAt(q, j)] = RAt(q, j - 1)
      BY <1>6, <3>1
    <3> QED
      BY <1>2, <1>4, <1>5, <3>2, <3>3, <3>4
  <2> QED
    BY <1>2, <1>3, <2>1, <2>2, <2>3, <2>4
<1>12. ASSUME NEW e \in Nodes, \A j \in 1 .. m + 1 : w[j] # e
       PROVE  ny[e] = NULL /\ py[e] = NULL
  <2>1. e # n
    <3>1. i + 1 \in 1 .. m + 1 /\ ~(i + 1 <= i)
      BY <1>2, <1>3
    <3>2. w[i + 1] = n
      BY <1>8, <3>1
    <3> QED
      BY <1>12, <3>1, <3>2
  <2>2. ASSUME NEW j \in 1 .. m PROVE q[j] # e
    <3>1. CASE j <= i
      <4>1. j \in 1 .. m + 1 /\ w[j] = q[j]
        BY <1>2, <1>8, <3>1
      <4> QED
        BY <1>12, <4>1
    <3>2. CASE ~(j <= i)
      <4>1. j + 1 \in 1 .. m + 1 /\ ~(j + 1 <= i) /\ j + 1 # i + 1 /\ (j + 1) - 1 = j
        BY <1>2, <1>3, <3>2
      <4>2. w[j + 1] = q[j]
        BY <1>8, <4>1
      <4> QED
        BY <1>12, <4>1, <4>2
    <3> QED
      BY <3>1, <3>2
  <2>3. nx[e] = NULL /\ pv[e] = NULL
    BY <2>2 DEF Ring
  <2>4. \A j : RAt(q, j) # e
    BY <1>1, <2>2, RingIs
  <2> QED
    BY <1>4, <2>1, <2>3, <2>4 DEF Places
<1>13. Ring(ny, py, w)
  BY <1>3, <1>7, <1>11, <1>12 DEF Ring
<1> QED
  BY <1>9, <1>13 DEF w

\* A node less.
Unlinks(nx, pv, q, i, ny, py) ==
  /\ i \in 1 .. Len(q)
  /\ ny \in [Places -> Places \cup {NULL}] /\ py \in [Places -> Places \cup {NULL}]
  /\ \A p \in Places : ny[p] = IF p = q[i] THEN NULL ELSE IF p = RAt(q, i - 1) THEN RAt(q, i + 1) ELSE nx[p]
  /\ \A p \in Places : py[p] = IF p = q[i] THEN NULL ELSE IF p = RAt(q, i + 1) THEN RAt(q, i - 1) ELSE pv[p]

LEMMA RingDropped ==
  ASSUME NEW nx, NEW pv, NEW q, Ring(nx, pv, q), NEW i, NEW ny, NEW py, Unlinks(nx, pv, q, i, ny, py)
  PROVE  Ring(ny, py, Dropped(q, i)) /\ Becomes(q, Dropped(q, i))
<1> DEFINE w == Dropped(q, i)
           m == Len(q)
<1>1. Distinct(q)
  BY DEF Ring
<1>2. /\ q \in Seq(Nodes) /\ m \in Nat /\ NULL \notin Places /\ Root \in Places /\ Root \notin Nodes
      /\ \A j : RAt(q, j) \in Places
      /\ RAt(q, 0) = Root /\ RAt(q, m + 1) = Root
      /\ \A j \in 1 .. m : RAt(q, j) = q[j] /\ q[j] \in Nodes
      /\ \A j, k \in 0 .. m : RAt(q, j) = RAt(q, k) => j = k
      /\ \A j, k \in 1 .. m + 1 : RAt(q, j) = RAt(q, k) => j = k
  BY <1>1, RingIs
<1>3. i \in 1 .. m /\ ny \in [Places -> Places \cup {NULL}] /\ py \in [Places -> Places \cup {NULL}]
  BY DEF Unlinks
<1>4. /\ \A p \in Places : ny[p] = IF p = q[i] THEN NULL ELSE IF p = RAt(q, i - 1) THEN RAt(q, i + 1) ELSE nx[p]
      /\ \A p \in Places : py[p] = IF p = q[i] THEN NULL ELSE IF p = RAt(q, i + 1) THEN RAt(q, i - 1) ELSE pv[p]
  BY DEF Unlinks
<1>5. q[i] = RAt(q, i) /\ i \in 0 .. m /\ i \in 1 .. m + 1
  BY <1>2, <1>3
<1>6. \A j \in 0 .. m : nx[RAt(q, j)] = RAt(q, j + 1) /\ pv[RAt(q, j + 1)] = RAt(q, j)
  BY DEF Ring
<1>7. Distinct(w) /\ Len(w) = m - 1 /\ \A j \in 1 .. m - 1 : w[j] # q[i]
  BY <1>1, <1>2, <1>3, DroppedDistinct, DroppedIs
<1>8. w = [j \in 1 .. m - 1 |-> IF j < i THEN q[j] ELSE q[j + 1]]
  BY DEF Dropped
<1>9. Becomes(q, w)
  BY <1>3 DEF Becomes
<1> HIDE DEF w
<1>10. ASSUME NEW j \in 0 .. m
       PROVE  RAt(w, j) = IF j < i THEN RAt(q, j) ELSE RAt(q, j + 1)
  <2>1. CASE j \in 1 .. m - 1
    <3>1. RAt(w, j) = IF j < i THEN q[j] ELSE q[j + 1]
      BY <1>7, <1>8, <2>1 DEF RAt
    <3>2. j \in 1 .. m /\ j + 1 \in 1 .. m
      BY <1>2, <2>1
    <3> QED
      BY <1>2, <3>1, <3>2
  <2>2. CASE j = 0
    <3>1. j < i /\ ~(j \in 1 .. m - 1)
      BY <1>2, <1>3, <2>2
    <3> QED
      BY <1>2, <1>7, <2>2, <3>1 DEF RAt
  <2>3. CASE j = m
    <3>1. ~(j < i) /\ ~(j \in 1 .. m - 1)
      BY <1>2, <1>3, <2>3
    <3> QED
      BY <1>2, <1>7, <2>3, <3>1 DEF RAt
  <2> QED
    BY <1>2, <2>1, <2>2, <2>3
<1>11. ASSUME NEW j \in 0 .. m - 1
       PROVE  ny[RAt(w, j)] = RAt(w, j + 1) /\ py[RAt(w, j + 1)] = RAt(w, j)
  <2>0. j + 1 \in 0 .. m /\ j \in 0 .. m /\ i \in Int /\ (j + 1) + 1 = j + 2
    BY <1>2, <1>3
  <2>1. CASE j + 1 < i
    <3>1. /\ j \in 0 .. m /\ i - 1 \in 0 .. m /\ j + 1 \in 1 .. m + 1 /\ i + 1 \in 1 .. m + 1 /\ j < i
          /\ j # i /\ j + 1 # i + 1 /\ j # i - 1 /\ j + 1 # i
      BY <1>2, <1>3, <2>1
    <3>2. RAt(w, j) = RAt(q, j) /\ RAt(w, j + 1) = RAt(q, j + 1)
      BY <1>10, <2>0, <2>1, <3>1
    <3>3. RAt(q, j) # RAt(q, i - 1) /\ RAt(q, j + 1) # RAt(q, i + 1) /\ RAt(q, j) # q[i] /\ RAt(q, j + 1) # q[i]
      BY <1>2, <1>5, <3>1
    <3> QED
      BY <1>2, <1>4, <1>6, <3>1, <3>2, <3>3
  <2>2. CASE j + 1 = i
    <3>1. /\ j = i - 1 /\ j < i /\ ~(j + 1 < i) /\ i + 1 = (j + 1) + 1
          /\ i - 1 \in 0 .. m /\ i + 1 \in 1 .. m + 1 /\ i - 1 # i /\ i + 1 # i
      BY <1>2, <1>3, <2>2
    <3>2. RAt(w, j) = RAt(q, i - 1) /\ RAt(w, j + 1) = RAt(q, i + 1)
      BY <1>10, <2>0, <3>1
    <3>3. RAt(q, i - 1) # q[i] /\ RAt(q, i + 1) # q[i]
      BY <1>2, <1>5, <3>1
    <3> QED
      BY <1>2, <1>4, <3>2, <3>3
  <2>3. CASE j + 1 > i
    <3>1. /\ ~(j < i) /\ ~(j + 1 < i) /\ j + 1 \in 0 .. m /\ j + 2 \in 1 .. m + 1 /\ i - 1 \in 0 .. m
          /\ i + 1 \in 1 .. m + 1 /\ j + 1 # i - 1 /\ j + 1 # i /\ j + 2 # i + 1 /\ j + 2 # i
      BY <1>2, <1>3, <2>0, <2>3
    <3>2. RAt(w, j) = RAt(q, j + 1) /\ RAt(w, j + 1) = RAt(q, j + 2)
      <4>1. RAt(w, j) = RAt(q, j + 1) /\ RAt(w, j + 1) = RAt(q, (j + 1) + 1)
        BY <1>10, <2>0, <3>1
      <4> QED
        BY <2>0, <4>1
    <3>3. RAt(q, j + 1) # RAt(q, i - 1) /\ RAt(q, j + 2) # RAt(q, i + 1) /\ RAt(q, j + 1) # q[i] /\ RAt(q, j + 2) # q[i]
      BY <1>2, <1>5, <3>1
    <3>4. nx[RAt(q, j + 1)] = RAt(q, j + 2) /\ pv[RAt(q, j + 2)] = RAt(q, j + 1)
      <4>1. nx[RAt(q, j + 1)] = RAt(q, (j + 1) + 1) /\ pv[RAt(q, (j + 1) + 1)] = RAt(q, j + 1)
        BY <1>6, <3>1
      <4> QED
        BY <2>0, <4>1
    <3> QED
      BY <1>2, <1>4, <3>2, <3>3, <3>4
  <2> QED
    BY <1>2, <1>3, <2>1, <2>2, <2>3
<1>12. ASSUME NEW e \in Nodes, \A j \in 1 .. m - 1 : w[j] # e
       PROVE  ny[e] = NULL /\ py[e] = NULL
  <2>1. CASE e = q[i]
    BY <1>4, <2>1 DEF Places
  <2>2. CASE e # q[i]
    <3>1. ASSUME NEW j \in 1 .. m PROVE q[j] # e
      <4>1. CASE j < i
        <5>1. j \in 1 .. m - 1 /\ w[j] = q[j]
          BY <1>2, <1>3, <1>8, <4>1
        <5> QED
          BY <1>12, <5>1
      <4>2. CASE j > i
        <5>1. j - 1 \in 1 .. m - 1 /\ ~(j - 1 < i) /\ (j - 1) + 1 = j
          BY <1>2, <1>3, <4>2
        <5>2. w[j - 1] = q[j]
          BY <1>8, <5>1
        <5> QED
          BY <1>12, <5>1, <5>2
      <4>3. CASE j = i
        BY <2>2, <4>3
      <4> QED
        BY <1>3, <4>1, <4>2, <4>3
    <3>2. nx[e] = NULL /\ pv[e] = NULL
      BY <3>1 DEF Ring
    <3>3. \A j : RAt(q, j) # e
      BY <1>1, <3>1, RingIs
    <3> QED
      BY <1>4, <2>2, <3>2, <3>3 DEF Places
  <2> QED
    BY <2>1, <2>2
<1>13. Ring(ny, py, w)
  BY <1>3, <1>7, <1>11, <1>12 DEF Ring
<1> QED
  BY <1>9, <1>13 DEF w

\* The root alone.
LEMMA AloneIsRing == Ring(Double!Alone, Double!Alone, <<>>)
<1> DEFINE a == Double!Alone
<1>1. a = [p \in Places |-> IF p = Root THEN Root ELSE NULL]
  BY DEF Double!Alone, Double!Places, Places
<1> HIDE DEF a
<1>2. Root \in Places /\ \A n \in Nodes : n \in Places /\ n # Root
  BY NodesAssumption DEF Places
<1>3. a \in [Places -> Places \cup {NULL}] /\ a[Root] = Root /\ \A n \in Nodes : a[n] = NULL
  BY <1>1, <1>2
<1>4. Len(<<>>) = 0 /\ <<>> \in Seq(Nodes)
  OBVIOUS
<1>5. Distinct(<<>>)
  BY <1>4 DEF Distinct
<1>6. \A i : RAt(<<>>, i) = Root
  BY <1>4 DEF RAt
<1>7. Ring(a, a, <<>>)
  BY <1>3, <1>5, <1>6 DEF Ring
<1> QED
  BY <1>7 DEF a

\* Every operation of a ring does what the contract says of the sequence.
LEMMA DoubleStep ==
  ASSUME NEW q, Ring(forward, back, q), Double!Next
  PROVE  \E r : Ring(forward', back', r) /\ Becomes(q, r)
<1> DEFINE m == Len(q)
           Goal == \E r : Ring(forward', back', r) /\ Becomes(q, r)
<1>0. Distinct(q)
  BY DEF Ring
<1>1. /\ q \in Seq(Nodes) /\ m \in Nat /\ NULL \notin Places /\ Root \in Places /\ Root \notin Nodes
      /\ \A i : RAt(q, i) \in Places
      /\ RAt(q, 0) = Root /\ RAt(q, m + 1) = Root
      /\ \A i \in 1 .. m : RAt(q, i) = q[i] /\ q[i] \in Nodes
  BY <1>0, RingIs
<1>2. \A n \in Nodes : (\A j \in 1 .. m : q[j] # n) => \A i : RAt(q, i) # n
  BY <1>0, RingIs
<1>3. /\ forward \in [Places -> Places \cup {NULL}] /\ back \in [Places -> Places \cup {NULL}]
      /\ \A i \in 0 .. m : forward[RAt(q, i)] = RAt(q, i + 1) /\ back[RAt(q, i + 1)] = RAt(q, i)
      /\ \A n \in Nodes : (\A j \in 1 .. m : q[j] # n) => forward[n] = NULL /\ back[n] = NULL
  BY DEF Ring
<1>4. ASSUME NEW n \in Nodes, forward[n] = NULL
      PROVE  \A j \in 1 .. m : q[j] # n
  <2> SUFFICES ASSUME NEW j \in 1 .. m, q[j] = n PROVE FALSE
    OBVIOUS
  <2>1. j \in 0 .. m
    BY <1>1
  <2>2. forward[n] = RAt(q, j + 1)
    BY <1>1, <1>3, <2>1
  <2> QED
    BY <1>1, <1>4, <2>2
<1>5. ASSUME NEW e \in Places, forward[e] # NULL
      PROVE  \E k \in 0 .. m : e = RAt(q, k)
  <2>1. CASE e = Root
    <3>1. 0 \in 0 .. m
      BY <1>1
    <3> QED
      BY <1>1, <2>1, <3>1
  <2>2. CASE e # Root
    <3>1. e \in Nodes
      BY <2>2 DEF Places
    <3>2. PICK k \in 1 .. m : q[k] = e
      BY <1>3, <1>5, <3>1
    <3>3. k \in 0 .. m
      BY <1>1
    <3> QED
      BY <1>1, <3>2, <3>3
  <2> QED
    BY <2>1, <2>2
<1>6. ASSUME NEW n \in Nodes, NEW i \in 0 .. m, forward[n] = NULL,
             forward' = [forward EXCEPT ![n] = RAt(q, i + 1), ![RAt(q, i)] = n],
             back' = [back EXCEPT ![n] = RAt(q, i), ![RAt(q, i + 1)] = n]
      PROVE  Goal
  <2>1. \A j \in 1 .. m : q[j] # n
    BY <1>4, <1>6
  <2>2. RAt(q, i) \in Places /\ RAt(q, i + 1) \in Places /\ n \in Places
    BY <1>1 DEF Places
  <2>3. forward' \in [Places -> Places \cup {NULL}] /\ back' \in [Places -> Places \cup {NULL}]
    BY <1>3, <1>6, <2>2
  <2>4. \A p \in Places : forward'[p] = IF p = RAt(q, i) THEN n ELSE IF p = n THEN RAt(q, i + 1) ELSE forward[p]
    BY <1>3, <1>6, <2>2
  <2>5. \A p \in Places : back'[p] = IF p = RAt(q, i + 1) THEN n ELSE IF p = n THEN RAt(q, i) ELSE back[p]
    BY <1>3, <1>6, <2>2
  <2>6. Links(forward, back, q, i, n, forward', back')
    BY <2>1, <2>3, <2>4, <2>5 DEF Links
  <2>7. Ring(forward', back', Inserted(q, i, n)) /\ Becomes(q, Inserted(q, i, n))
    BY <2>6, RingInserted
  <2> QED
    BY <2>7
<1>7. ASSUME NEW n \in Nodes, NEW e \in Places, Double!insertBefore(e, n)
      PROVE  Goal
  <2>1. /\ forward[n] = NULL /\ forward[e] # NULL
        /\ forward' = [forward EXCEPT ![n] = e, ![back[e]] = n]
        /\ back' = [back EXCEPT ![n] = back[e], ![e] = n]
    BY <1>7 DEF Double!insertBefore
  <2>2. \E i \in 0 .. m : e = RAt(q, i + 1)
    <3>1. PICK k \in 0 .. m : e = RAt(q, k)
      BY <1>5, <2>1
    <3>2. CASE k = 0
      <4>1. m \in 0 .. m /\ e = RAt(q, m + 1)
        BY <1>1, <3>1, <3>2
      <4> QED
        BY <4>1
    <3>3. CASE k # 0
      <4>1. k - 1 \in 0 .. m /\ (k - 1) + 1 = k
        BY <1>1, <3>3
      <4> QED
        BY <3>1, <4>1
    <3> QED
      BY <3>2, <3>3
  <2>3. PICK i \in 0 .. m : e = RAt(q, i + 1)
    BY <2>2
  <2>4. back[e] = RAt(q, i)
    BY <1>3, <2>3
  <2>5. /\ forward' = [forward EXCEPT ![n] = RAt(q, i + 1), ![RAt(q, i)] = n]
        /\ back' = [back EXCEPT ![n] = RAt(q, i), ![RAt(q, i + 1)] = n]
    BY <2>1, <2>3, <2>4
  <2> QED
    BY <1>6, <2>1, <2>5
<1>8. ASSUME NEW n \in Nodes, NEW e \in Places, Double!insertAfter(e, n)
      PROVE  Goal
  <2>1. /\ forward[n] = NULL /\ forward[e] # NULL
        /\ forward' = [forward EXCEPT ![n] = forward[e], ![e] = n]
        /\ back' = [back EXCEPT ![n] = e, ![forward[e]] = n]
    BY <1>8 DEF Double!insertAfter
  <2>2. PICK i \in 0 .. m : e = RAt(q, i)
    BY <1>5, <2>1
  <2>3. forward[e] = RAt(q, i + 1)
    BY <1>3, <2>2
  <2>4. /\ forward' = [forward EXCEPT ![n] = RAt(q, i + 1), ![RAt(q, i)] = n]
        /\ back' = [back EXCEPT ![n] = RAt(q, i), ![RAt(q, i + 1)] = n]
    BY <2>1, <2>2, <2>3
  <2> QED
    BY <1>6, <2>1, <2>4
<1>9. ASSUME NEW n \in Nodes, Double!removeFromList(n)
      PROVE  Goal
  <2>1. /\ forward[n] # NULL
        /\ forward' = [forward EXCEPT ![back[n]] = forward[n], ![n] = NULL]
        /\ back' = [back EXCEPT ![forward[n]] = back[n], ![n] = NULL]
    BY <1>9 DEF Double!removeFromList, Double!PrevWithout
  <2>2. PICK i \in 1 .. m : q[i] = n
    BY <1>3, <2>1
  <2>3. i \in 0 .. m /\ i - 1 \in 0 .. m /\ (i - 1) + 1 = i
    BY <1>1
  <2>4. forward[n] = RAt(q, i + 1) /\ back[n] = RAt(q, i - 1)
    <3>1. forward[RAt(q, i)] = RAt(q, i + 1) /\ back[RAt(q, (i - 1) + 1)] = RAt(q, i - 1)
      BY <1>3, <2>3
    <3> QED
      BY <1>1, <2>2, <2>3, <3>1
  <2>5. RAt(q, i - 1) \in Places /\ RAt(q, i + 1) \in Places /\ n \in Places
    BY <1>1 DEF Places
  <2>6. /\ forward' = [forward EXCEPT ![RAt(q, i - 1)] = RAt(q, i + 1), ![n] = NULL]
        /\ back' = [back EXCEPT ![RAt(q, i + 1)] = RAt(q, i - 1), ![n] = NULL]
    BY <2>1, <2>4
  <2>7. forward' \in [Places -> Places \cup {NULL}] /\ back' \in [Places -> Places \cup {NULL}]
    BY <1>3, <2>5, <2>6
  <2>8. \A p \in Places : forward'[p] = IF p = q[i] THEN NULL ELSE IF p = RAt(q, i - 1) THEN RAt(q, i + 1) ELSE forward[p]
    BY <1>3, <2>2, <2>5, <2>6
  <2>9. \A p \in Places : back'[p] = IF p = q[i] THEN NULL ELSE IF p = RAt(q, i + 1) THEN RAt(q, i - 1) ELSE back[p]
    BY <1>3, <2>2, <2>5, <2>6
  <2>10. Unlinks(forward, back, q, i, forward', back')
    BY <2>7, <2>8, <2>9 DEF Unlinks
  <2>11. Ring(forward', back', Dropped(q, i)) /\ Becomes(q, Dropped(q, i))
    BY <2>10, RingDropped
  <2> QED
    BY <2>11
<1>10. ASSUME Double!clear
       PROVE  Goal
  <2>1. forward' = Double!Alone /\ back' = Double!Alone
    BY <1>10 DEF Double!clear
  <2>2. Ring(forward', back', <<>>)
    BY <2>1, AloneIsRing
  <2>3. Becomes(q, <<>>)
    BY DEF Becomes
  <2> QED
    BY <2>2, <2>3
<1> HIDE DEF Goal
<1>11. Goal
  BY <1>7, <1>8, <1>9, <1>10 DEF Double!Next, Double!Places, Places
<1> QED
  BY <1>11 DEF Goal

DoubleInv == \E q : Ring(forward, back, q)

LEMMA DoubleImplements ==
  ASSUME DoubleInv, Double!Next
  PROVE  DoubleInv' /\ Double!ImplementsList
<1>1. PICK q : Ring(forward, back, q)
  BY DEF DoubleInv
<1>2. PICK r : Ring(forward', back', r) /\ Becomes(q, r)
  BY <1>1, DoubleStep
<1>3. DoubleInv'
  BY <1>2 DEF DoubleInv
<1>4. Double!Around(forward) = q /\ Double!Around(forward)' = r
  <2>1. Distinct(q) /\ Chain(forward, q) /\ Distinct(r) /\ Chain(forward', r)
    BY <1>1, <1>2 DEF Ring, Chain
  <2> QED
    BY <2>1, AroundAre, RoundIs
<1>5. r = q \/ ListStep(q, r)
  BY <1>1, <1>2, BecomesStep DEF Ring, Distinct
<1>6. ASSUME ListStep(Double!Around(forward), Double!Around(forward)') PROVE Double!Contract!Next
  BY <1>6 DEF ListStep, Double!Contract!Next, Double!Contract!Insert, Double!Contract!Drop, Double!Contract!Clear, Double!Contract!Free
<1>7. Double!Contract!Next \/ Double!Around(forward)' = Double!Around(forward)
  BY <1>4, <1>5, <1>6
<1> QED
  BY <1>3, <1>7 DEF Double!ImplementsList

\* The way back is a ring of the same nodes in the other order.
LEMMA DoubleWays ==
  ASSUME DoubleInv
  PROVE  Double!WaysAgree
<1>1. PICK q : Ring(forward, back, q)
  BY DEF DoubleInv
<1> DEFINE m == Len(q)
           w == [i \in 1 .. m |-> q[(m - i) + 1]]
<1>2. Distinct(q)
  BY <1>1 DEF Ring
<1>3. q \in Seq(Nodes) /\ m \in Nat /\ \A i \in 1 .. m : q[i] \in Nodes
  BY <1>2 DEF Distinct
<1>4. \A i \in 1 .. m : (m - i) + 1 \in 1 .. m
  BY <1>3
<1>5. w \in Seq(Nodes) /\ Len(w) = m
  <2>1. \A i \in 1 .. m : q[(m - i) + 1] \in Nodes
    BY <1>3, <1>4
  <2> HIDE DEF m
  <2> QED
    BY <1>3, <2>1
<1>6. Distinct(w)
  <2>1. ASSUME NEW i \in 1 .. m, NEW j \in 1 .. m, w[i] = w[j] PROVE i = j
    <3>1. q[(m - i) + 1] = q[(m - j) + 1]
      BY <2>1
    <3>2. (m - i) + 1 \in 1 .. m /\ (m - j) + 1 \in 1 .. m
      BY <1>4
    <3>3. (m - i) + 1 = (m - j) + 1
      BY <1>2, <3>1, <3>2 DEF Distinct
    <3> QED
      BY <1>3, <3>3
  <2> HIDE DEF w
  <2> QED
    BY <1>5, <2>1 DEF Distinct
<1>7. ASSUME NEW i \in 0 .. m + 1 PROVE RAt(w, i) = RAt(q, (m - i) + 1)
  <2>1. i \in 1 .. m <=> (m - i) + 1 \in 1 .. m
    BY <1>3
  <2>2. CASE i \in 1 .. m
    <3>1. w[i] = q[(m - i) + 1]
      BY <2>2
    <3> HIDE DEF w
    <3> QED
      BY <1>5, <2>1, <2>2, <3>1 DEF RAt
  <2>3. CASE ~(i \in 1 .. m)
    <3> HIDE DEF w
    <3> QED
      BY <1>5, <2>1, <2>3 DEF RAt
  <2> QED
    BY <2>2, <2>3
<1> HIDE DEF w
<1>8. Chain(back, w)
  <2>1. ASSUME NEW i \in 0 .. m PROVE back[RAt(w, i)] = RAt(w, i + 1)
    <3>1. m - i \in 0 .. m /\ i \in 0 .. m + 1 /\ i + 1 \in 0 .. m + 1 /\ (m - (i + 1)) + 1 = m - i
      BY <1>3
    <3>2. RAt(w, i) = RAt(q, (m - i) + 1) /\ RAt(w, i + 1) = RAt(q, (m - (i + 1)) + 1)
      BY <1>7, <3>1
    <3>3. back[RAt(q, (m - i) + 1)] = RAt(q, m - i)
      BY <1>1, <3>1 DEF Ring
    <3> QED
      BY <3>1, <3>2, <3>3
  <2> QED
    BY <1>5, <2>1 DEF Chain
<1>9. Double!Around(back) = w
  BY <1>6, <1>8, AroundAre, RoundIs
<1>10. Double!Around(forward) = q
  <2>1. Chain(forward, q)
    BY <1>1 DEF Ring, Chain
  <2> QED
    BY <1>2, <2>1, AroundAre, RoundIs
<1> QED
  BY <1>9, <1>10 DEF Double!WaysAgree, w

LEMMA DoubleInit ==
  ASSUME Double!Init
  PROVE  DoubleInv /\ Double!Contract!Init
<1>1. Ring(forward, back, <<>>)
  BY AloneIsRing DEF Double!Init
<1>2. Double!Around(forward) = <<>>
  <2>1. Distinct(<<>>) /\ Chain(forward, <<>>)
    BY <1>1 DEF Ring, Chain
  <2> QED
    BY <2>1, AroundAre, RoundIs
<1> QED
  BY <1>1, <1>2 DEF DoubleInv, Double!Contract!Init

ListsInv == SingleInv /\ DoubleInv

\* Lists are sequences of nodes without repetition: for any number of nodes and
\* in any sequence of legal calls of SinglyLinkedList and LinkedList, each one
\* puts one node in one place, drops one node, or drops all, the tail of the one
\* is its last node, and the other one leads back as it leads forth.
THEOREM ListsAre ==
  ASSUME Careful
  PROVE  Spec => ListsAreLists
<1>1. Init => ListsInv /\ Single!Contract!Init /\ Double!Contract!Init
  BY SingleInit, DoubleInit DEF Init, ListsInv
<1>2. ListsInv /\ [Next]_vars => ListsInv'
  <2> SUFFICES ASSUME ListsInv, [Next]_vars PROVE ListsInv'
    OBVIOUS
  <2>1. SingleInv'
    <3>1. CASE Single!Next
      BY <3>1, SingleImplements DEF ListsInv
    <3>2. CASE UNCHANGED <<next, head, tail, cleared>>
      BY <3>2 DEF ListsInv, SingleInv
    <3>3. Single!Next \/ UNCHANGED <<next, head, tail, cleared>>
      BY DEF Next, vars, listVars
    <3> QED
      BY <3>1, <3>2, <3>3, Zenon
  <2>2. DoubleInv'
    <3>1. CASE Double!Next
      BY <3>1, DoubleImplements DEF ListsInv
    <3>2. CASE UNCHANGED <<forward, back>>
      BY <3>2 DEF ListsInv, DoubleInv
    <3>3. Double!Next \/ UNCHANGED <<forward, back>>
      BY DEF Next, vars, listVars
    <3> QED
      BY <3>1, <3>2, <3>3, Zenon
  <2> QED
    BY <2>1, <2>2 DEF ListsInv
<1>3. ListsInv => (part = "list" => Single!TailIsLast) /\ (part = "ring" => Double!WaysAgree)
  BY SingleTail, DoubleWays DEF ListsInv
<1>4. ListsInv /\ [Next]_vars => [part = "list" => Single!ImplementsList]_<<next, head>>
  <2> SUFFICES ASSUME ListsInv, [Next]_vars, part = "list" PROVE Single!ImplementsList \/ UNCHANGED <<next, head>>
    OBVIOUS
  <2>1. Single!Next \/ UNCHANGED <<next, head>>
    BY DEF Next, vars, listVars
  <2> QED
    BY <2>1, SingleImplements DEF ListsInv
<1>5. ListsInv /\ [Next]_vars => [part = "ring" => Double!ImplementsList]_forward
  <2> SUFFICES ASSUME ListsInv, [Next]_vars, part = "ring" PROVE Double!ImplementsList \/ UNCHANGED forward
    OBVIOUS
  <2>1. Double!Next \/ UNCHANGED forward
    BY DEF Next, vars, listVars
  <2> QED
    BY <2>1, DoubleImplements DEF ListsInv
<1> QED
  BY <1>1, <1>2, <1>3, <1>4, <1>5, PTL DEF Spec, ListsAreLists

------------------------------------------------------------------------------
(* Sorting.  Spans are functions from 0 to n - 1, and orders of their items *)
(* are bijections of that.                                                  *)

Data(n) == [0 .. n - 1 -> Numbers]

\* e has the items of d, those from lo to hi in another order.
Moved(n, d, e, lo, hi) ==
  \E f \in Bijection(0 .. n - 1, 0 .. n - 1) :
    /\ \A i \in 0 .. n - 1 : i \notin lo .. hi => f[i] = i
    /\ e = [i \in 0 .. n - 1 |-> d[f[i]]]

Ordered(d, lo, hi) == \A i, j \in lo .. hi : i <= j => d[i] <= d[j]

LEMMA DataIs ==
  ASSUME NEW n \in Nat, NEW d \in Data(n)
  PROVE  \A i \in 0 .. n - 1 : d[i] \in Int /\ d[i] \in Numbers
BY SpansAssumption DEF Data

\* A bijection that leaves the others moves items of the range inside it.
LEMMA MovedIs ==
  ASSUME NEW n \in Nat, NEW d \in Data(n), NEW e, NEW lo \in Int, NEW hi \in Int, Moved(n, d, e, lo, hi)
  PROVE  /\ e \in Data(n)
         /\ \A i \in 0 .. n - 1 : i \notin lo .. hi => e[i] = d[i]
         /\ \A i \in 0 .. n - 1 : i \in lo .. hi => \E j \in 0 .. n - 1 : j \in lo .. hi /\ e[i] = d[j]
<1> DEFINE S == 0 .. n - 1
<1>1. PICK f \in Bijection(S, S) :
        /\ \A i \in S : i \notin lo .. hi => f[i] = i
        /\ e = [i \in S |-> d[f[i]]]
  BY DEF Moved
<1> HIDE DEF S
<1>2. f \in [S -> S] /\ \A a, b \in S : f[a] = f[b] => a = b
  BY Fun_BijectionProperties
<1>3. ASSUME NEW i \in S, i \in lo .. hi PROVE f[i] \in lo .. hi
  <2> SUFFICES ASSUME f[i] \notin lo .. hi PROVE FALSE
    OBVIOUS
  <2>1. f[i] \in S
    BY <1>2
  <2>2. f[f[i]] = f[i]
    BY <1>1, <2>1
  <2> QED
    BY <1>2, <1>3, <2>1, <2>2
<1>4. \A i \in S : e[i] = d[f[i]] /\ f[i] \in S
  BY <1>1, <1>2
<1>5. e \in [S -> Numbers]
  <2>1. \A i \in S : d[i] \in Numbers
    BY DataIs DEF S
  <2> QED
    BY <1>1, <1>4, <2>1
<1> QED
  BY <1>1, <1>3, <1>4, <1>5 DEF S, Data

LEMMA MovedNot ==
  ASSUME NEW n \in Nat, NEW d \in Data(n), NEW lo \in Int, NEW hi \in Int
  PROVE  Moved(n, d, d, lo, hi)
<1> DEFINE S == 0 .. n - 1
           f == [i \in S |-> i]
<1> HIDE DEF S
<1>1. f \in Bijection(S, S)
  <2>1. f \in [S -> S] /\ (\A a, b \in S : f[a] = f[b] => a = b) /\ \A t \in S : \E s \in S : f[s] = t
    OBVIOUS
  <2> HIDE DEF f
  <2> QED
    BY <2>1, Fun_IsBij
<1>2. d = [i \in S |-> d[f[i]]]
  BY DEF Data, S
<1>3. \A i \in S : f[i] = i
  OBVIOUS
<1> HIDE DEF f
<1> QED
  BY <1>1, <1>2, <1>3 DEF S, Moved

LEMMA MovedTwice ==
  ASSUME NEW n \in Nat, NEW d \in Data(n), NEW e, NEW g, NEW lo \in Int, NEW hi \in Int,
         Moved(n, d, e, lo, hi), Moved(n, e, g, lo, hi)
  PROVE  Moved(n, d, g, lo, hi)
<1> DEFINE S == 0 .. n - 1
<1>1. PICK f \in Bijection(S, S) :
        /\ \A i \in S : i \notin lo .. hi => f[i] = i
        /\ e = [i \in S |-> d[f[i]]]
  BY DEF Moved
<1>2. PICK h \in Bijection(S, S) :
        /\ \A i \in S : i \notin lo .. hi => h[i] = i
        /\ g = [i \in S |-> e[h[i]]]
  BY DEF Moved
<1> HIDE DEF S
<1> DEFINE k == [i \in S |-> f[h[i]]]
<1>3. k \in Bijection(S, S)
  BY Fun_BijTransitive
<1>4. \A i \in S : h[i] \in S
  BY Fun_BijectionProperties
<1>5. \A i \in S : i \notin lo .. hi => k[i] = i
  BY <1>1, <1>2
<1>6. \A i \in S : g[i] = d[k[i]]
  BY <1>1, <1>2, <1>4
<1> HIDE DEF k
<1>7. g = [i \in S |-> d[k[i]]]
  BY <1>2, <1>6
<1> QED
  BY <1>3, <1>5, <1>7 DEF Moved, S

LEMMA MovedWider ==
  ASSUME NEW n \in Nat, NEW d, NEW e, NEW lo \in Int, NEW hi \in Int, NEW a \in Int, NEW b \in Int,
         Moved(n, d, e, a, b), lo <= a, b <= hi
  PROVE  Moved(n, d, e, lo, hi)
<1>1. \A i \in 0 .. n - 1 : i \notin lo .. hi => i \notin a .. b
  OBVIOUS
<1> QED
  BY <1>1 DEF Moved

\* As many of each.
LEMMA MovedSame ==
  ASSUME NEW n \in Nat, NEW d \in Data(n), NEW e, NEW lo \in Int, NEW hi \in Int, Moved(n, d, e, lo, hi)
  PROVE  Sorted!SameItems(d, e)
<1> DEFINE S == 0 .. n - 1
<1>1. PICK f \in Bijection(S, S) : e = [i \in S |-> d[f[i]]]
  BY DEF Moved
<1>2. DOMAIN d = S /\ DOMAIN e = S /\ IsFiniteSet(S)
  BY <1>1, FS_Interval DEF Data
<1> HIDE DEF S
<1>3. ASSUME NEW x \in Numbers
      PROVE  Cardinality({i \in S : d[i] = x}) = Cardinality({i \in S : e[i] = x})
  <2> DEFINE D == {i \in S : d[i] = x}
             E == {i \in S : e[i] = x}
             h == [i \in E |-> f[i]]
  <2>1. f \in [S -> S] /\ (\A a, b \in S : f[a] = f[b] => a = b) /\ \A t \in S : \E s \in S : f[s] = t
    BY Fun_BijectionProperties
  <2>2. h \in [E -> D]
    BY <1>1, <2>1
  <2>3. \A a, b \in E : h[a] = h[b] => a = b
    BY <2>1
  <2>4. ASSUME NEW t \in D PROVE \E s \in E : h[s] = t
    <3>1. t \in S /\ d[t] = x
      OBVIOUS
    <3>2. PICK s \in S : f[s] = t
      BY <2>1, <3>1
    <3>3. s \in E
      BY <1>1, <3>1, <3>2
    <3> QED
      BY <3>2, <3>3
  <2>5. IsFiniteSet(E)
    BY <1>2, FS_Subset
  <2> HIDE DEF D, E, h
  <2>6. h \in Bijection(E, D)
    BY <2>2, <2>3, <2>4, Fun_IsBij
  <2>7. ExistsBijection(E, D)
    BY <2>6 DEF ExistsBijection
  <2>8. Cardinality(D) = Cardinality(E)
    BY <2>5, <2>7, FS_Bijection
  <2> QED
    BY <2>8 DEF D, E
<1>4. ASSUME NEW T PROVE Sorted!Cardinality(T) = Cardinality(T)
  BY DEF Sorted!Cardinality, Cardinality
<1> HIDE DEF Cardinality
<1> QED
  BY <1>2, <1>3, <1>4 DEF Sorted!SameItems

\* Two items that change places.
Swaps(n, d, e, a, b) ==
  e \in Data(n) /\ \A i \in 0 .. n - 1 : e[i] = IF i = a THEN d[b] ELSE IF i = b THEN d[a] ELSE d[i]

LEMMA SwappedMoves ==
  ASSUME NEW n \in Nat, NEW d \in Data(n), NEW lo \in Int, NEW hi \in Int,
         NEW a \in 0 .. n - 1, NEW b \in 0 .. n - 1, a \in lo .. hi, b \in lo .. hi
  PROVE  Moved(n, d, Sorted!Swapped(d, a, b), lo, hi) /\ Swaps(n, d, Sorted!Swapped(d, a, b), a, b)
<1> DEFINE S == 0 .. n - 1
           e == Sorted!Swapped(d, a, b)
           f == [i \in S |-> IF i = a THEN b ELSE IF i = b THEN a ELSE i]
<1> HIDE DEF S
<1>1. d \in [S -> Numbers] /\ a \in S /\ b \in S
  BY DEF S, Data
<1>2. e \in [S -> Numbers] /\ \A i \in S : e[i] = IF i = a THEN d[b] ELSE IF i = b THEN d[a] ELSE d[i]
  BY <1>1 DEF Sorted!Swapped
<1>3. f \in Bijection(S, S)
  <2>1. f \in [S -> S] /\ \A i \in S : f[f[i]] = i
    BY <1>1
  <2> HIDE DEF f
  <2>2. (\A x, y \in S : f[x] = f[y] => x = y) /\ \A t \in S : \E s \in S : f[s] = t
    BY <2>1
  <2> QED
    BY <2>1, <2>2, Fun_IsBij
<1>4. \A i \in S : i \notin lo .. hi => f[i] = i
  BY <1>1
<1>5. \A i \in S : e[i] = d[f[i]]
  <2> HIDE DEF e
  <2> QED
    BY <1>1, <1>2
<1> HIDE DEF e, f
<1>6. e = [i \in S |-> d[f[i]]]
  BY <1>2, <1>5
<1>7. Moved(n, d, e, lo, hi)
  BY <1>3, <1>4, <1>6 DEF Moved, S
<1> QED
  BY <1>2, <1>7 DEF e, S, Data, Swaps

Sorts(n, d, e, lo, hi) == Moved(n, d, e, lo, hi) /\ Ordered(e, lo, hi)

\* What a loop does, turn by turn.
Loops(l, h, S) == [l + 1 .. h -> [S -> S]]
Follows(g, l, h, S, b, t) == g \in [l .. h -> S] /\ g[l] = b /\ \A i \in l + 1 .. h : g[i] = t[i][g[i - 1]]

LEMMA Turns ==
  ASSUME NEW l \in Int, NEW h \in Int, l <= h, NEW S, NEW b \in S, NEW t \in Loops(l, h, S)
  PROVE  \E g : Follows(g, l, h, S, b, t)
<1> DEFINE Runs(g, m) == g[l] = b /\ \A i \in l + 1 .. m : g[i] = t[i][g[i - 1]]
           T == {m \in l .. h : \E g \in [l .. m -> S] : Runs(g, m)}
<1>1. l \in T
  <2> DEFINE g == [k \in l .. l |-> b]
  <2>1. g \in [l .. l -> S] /\ Runs(g, l)
    OBVIOUS
  <2> HIDE DEF g, Runs
  <2> QED
    BY <2>1
<1>2. ASSUME NEW m \in l + 1 .. h, m - 1 \in T PROVE m \in T
  <2>1. PICK g \in [l .. m - 1 -> S] : Runs(g, m - 1)
    BY <1>2
  <2> DEFINE v == t[m][g[m - 1]]
             f == [k \in l .. m |-> IF k = m THEN v ELSE g[k]]
  <2>2. m - 1 \in l .. m - 1 /\ m - 1 \in l .. m /\ l \in l .. m - 1 /\ m \in l .. h
    OBVIOUS
  <2>3. v \in S
    BY <2>2 DEF Loops
  <2> HIDE DEF v
  <2>4. f \in [l .. m -> S]
    BY <2>3
  <2>5. f[l] = b /\ f[m] = v /\ \A i \in l .. m - 1 : f[i] = g[i]
    BY <2>1, <2>2
  <2> HIDE DEF f
  <2>6. ASSUME NEW i \in l + 1 .. m PROVE f[i] = t[i][f[i - 1]]
    <3>1. i - 1 \in l .. m - 1
      OBVIOUS
    <3>2. CASE i = m
      BY <2>2, <2>5, <3>2 DEF v
    <3>3. CASE i # m
      <4>1. i \in l + 1 .. m - 1 /\ i \in l .. m - 1
        BY <3>3
      <4>2. g[i] = t[i][g[i - 1]]
        BY <2>1, <4>1
      <4> QED
        BY <2>5, <3>1, <4>1, <4>2
    <3> QED
      BY <3>2, <3>3
  <2>7. Runs(f, m)
    BY <2>5, <2>6
  <2> HIDE DEF Runs
  <2> QED
    BY <2>2, <2>4, <2>7
<1>3. \A m \in l .. h : m \in T
  <2> HIDE DEF T
  <2> QED
    BY <1>1, <1>2, InductUpTo
<1>4. h \in T
  BY <1>3
<1> QED
  BY <1>4 DEF Follows

\* The item at i goes behind the last that is not greater.
LEMMA InsertIs ==
  ASSUME NEW n \in Nat, NEW d \in Data(n), NEW lo \in Nat, NEW i \in 0 .. n - 1, lo <= i
  PROVE  /\ Moved(n, d, Sorted!Insert(d, lo, i), lo, i)
         /\ Sorted!Insert(d, lo, i) \in Data(n)
         /\ Ordered(d, lo, i - 1) => Ordered(Sorted!Insert(d, lo, i), lo, i)
<1> DEFINE Fits(k) == (\A j \in k .. i - 1 : d[i] < d[j]) /\ (k = lo \/ d[k - 1] <= d[i])
           place == CHOOSE k \in lo .. i : Fits(k)
           S == 0 .. n - 1
           e == [j \in S |-> IF j = place THEN d[i] ELSE IF j \in place + 1 .. i THEN d[j - 1] ELSE d[j]]
           f == [j \in S |-> IF j = place THEN i ELSE IF j \in place + 1 .. i THEN j - 1 ELSE j]
           h == [j \in S |-> IF j = i THEN place ELSE IF j \in place .. i - 1 THEN j + 1 ELSE j]
<1>1. \A j \in S : d[j] \in Int /\ d[j] \in Numbers
  BY DataIs
<1>2. \E k \in lo .. i : Fits(k)
  <2> DEFINE T == {k \in lo .. i : \A j \in k .. i - 1 : d[i] < d[j]}
  <2>1. i \in T /\ T \in SUBSET Nat
    OBVIOUS
  <2>2. PICK k \in T : \A m \in T : k <= m
    <3> HIDE DEF T
    <3> QED
      BY <2>1, Least
  <2>3. k = lo \/ d[k - 1] <= d[i]
    <3> SUFFICES ASSUME k # lo, ~(d[k - 1] <= d[i]) PROVE FALSE
      OBVIOUS
    <3>1. k - 1 \in lo .. i /\ k - 1 \in S /\ ~(k <= k - 1)
      OBVIOUS
    <3>2. \A j \in k - 1 .. i - 1 : j = k - 1 \/ j \in k .. i - 1
      OBVIOUS
    <3>3. d[i] < d[k - 1]
      BY <1>1, <3>1
    <3>4. k - 1 \in T
      BY <3>1, <3>2, <3>3
    <3> QED
      BY <2>2, <3>1, <3>4
  <2> QED
    BY <2>2, <2>3
<1>3. place \in lo .. i /\ Fits(place)
  <2> HIDE DEF Fits
  <2> QED
    BY <1>2
<1>4. Sorted!Insert(d, lo, i) = e
  BY DEF Sorted!Insert, Data
<1> HIDE DEF place
<1>5. \A j \in S : f[j] \in S /\ h[j] \in S /\ h[f[j]] = j /\ f[h[j]] = j
  BY <1>3
<1>6. f \in Bijection(S, S)
  <2>1. f \in [S -> S] /\ \A j \in S : h[j] \in S /\ h[f[j]] = j /\ f[h[j]] = j
    BY <1>5
  <2> HIDE DEF f, h, S
  <2>2. (\A x, y \in S : f[x] = f[y] => x = y) /\ \A t \in S : \E s \in S : f[s] = t
    BY <2>1
  <2> QED
    BY <2>1, <2>2, Fun_IsBij
<1>7. (\A j \in S : j \notin lo .. i => f[j] = j) /\ \A j \in S : e[j] = d[f[j]]
  BY <1>3
<1>8. Moved(n, d, e, lo, i)
  <2>1. e = [j \in S |-> d[f[j]]]
    <3> HIDE DEF f
    <3> QED
      BY <1>7
  <2> HIDE DEF e, f
  <2> QED
    BY <1>6, <1>7, <2>1 DEF Moved
<1>9. e \in Data(n)
  <2> HIDE DEF e
  <2> QED
    BY <1>8, MovedIs
<1>10. ASSUME Ordered(d, lo, i - 1) PROVE Ordered(e, lo, i)
  <2> SUFFICES ASSUME NEW j \in lo .. i, NEW k \in lo .. i, j <= k PROVE e[j] <= e[k]
    BY DEF Ordered
  <2>1. \A m \in lo .. i - 1 : m < place => d[m] <= d[i]
    <3> SUFFICES ASSUME NEW m \in lo .. i - 1, m < place PROVE d[m] <= d[i]
      OBVIOUS
    <3>1. place - 1 \in lo .. i - 1 /\ place # lo /\ m <= place - 1 /\ place - 1 \in S /\ m \in S
      BY <1>3
    <3>2. d[m] <= d[place - 1]
      BY <1>10, <3>1 DEF Ordered
    <3> QED
      BY <1>1, <1>3, <3>1, <3>2
  <2>2. \A m \in lo .. i - 1 : m >= place => d[i] <= d[m]
    BY <1>1, <1>3
  <2>3. \A m \in lo .. i : m \in S /\ e[m] = IF m = place THEN d[i] ELSE IF m > place THEN d[m - 1] ELSE d[m]
    BY <1>3
  <2>4. \A m, q \in lo .. i - 1 : m <= q => d[m] <= d[q]
    BY <1>10 DEF Ordered
  <2> HIDE DEF e, f, h, Fits
  <2>5. CASE k < place
    <3>1. e[j] = d[j] /\ e[k] = d[k] /\ j \in lo .. i - 1 /\ k \in lo .. i - 1
      BY <1>3, <2>3, <2>5
    <3> QED
      BY <2>4, <3>1
  <2>6. CASE k = place
    <3>1. e[k] = d[i] /\ (j = k \/ (j \in lo .. i - 1 /\ j < place /\ e[j] = d[j]))
      BY <1>3, <2>3, <2>6
    <3> QED
      BY <1>1, <2>1, <3>1
  <2>7. CASE k > place
    <3>1. e[k] = d[k - 1] /\ k - 1 \in lo .. i - 1 /\ k - 1 >= place
      BY <1>3, <2>3, <2>7
    <3>2. CASE j < place
      <4>1. e[j] = d[j] /\ j \in lo .. i - 1 /\ j <= k - 1
        BY <1>3, <2>3, <2>7, <3>2
      <4> QED
        BY <2>4, <3>1, <4>1
    <3>3. CASE j = place
      <4>1. e[j] = d[i]
        BY <2>3, <3>3
      <4> QED
        BY <2>2, <3>1, <4>1
    <3>4. CASE j > place
      <4>1. e[j] = d[j - 1] /\ j - 1 \in lo .. i - 1 /\ j - 1 <= k - 1
        BY <1>3, <2>3, <3>4
      <4> QED
        BY <2>4, <3>1, <4>1
    <3> QED
      BY <1>3, <3>2, <3>3, <3>4
  <2> QED
    BY <1>3, <2>5, <2>6, <2>7
<1> QED
  BY <1>4, <1>8, <1>9, <1>10

LEMMA InsertionSorts ==
  ASSUME NEW n \in Nat, NEW d \in Data(n), NEW lo \in Nat, NEW hi \in Int, hi < n
  PROVE  Sorts(n, d, Sorted!insertionSort(d, lo, hi), lo, hi)
<1> DEFINE Solves(g) == g = [i \in lo .. hi |-> IF i = lo THEN d ELSE Sorted!Insert(g[i - 1], lo, i)]
           sorted == CHOOSE g : Solves(g)
<1>1. CASE lo > hi
  <2>1. Sorted!insertionSort(d, lo, hi) = d
    BY <1>1 DEF Sorted!insertionSort
  <2>2. Ordered(d, lo, hi)
    BY <1>1 DEF Ordered
  <2> QED
    BY <2>1, <2>2, MovedNot DEF Sorts
<1>2. CASE lo <= hi
  <2> DEFINE t == [i \in lo + 1 .. hi |-> [s \in Data(n) |-> Sorted!Insert(s, lo, i)]]
  <2>1. ASSUME NEW i \in lo + 1 .. hi, NEW s \in Data(n)
        PROVE  /\ Moved(n, s, Sorted!Insert(s, lo, i), lo, i)
               /\ Sorted!Insert(s, lo, i) \in Data(n)
               /\ Ordered(s, lo, i - 1) => Ordered(Sorted!Insert(s, lo, i), lo, i)
    <3>1. i \in 0 .. n - 1 /\ lo <= i
      OBVIOUS
    <3> QED
      BY <3>1, InsertIs
  <2>2. t \in Loops(lo, hi, Data(n))
    BY <2>1 DEF Loops
  <2>3. PICK g : Follows(g, lo, hi, Data(n), d, t)
    <3> HIDE DEF t
    <3> QED
      BY <1>2, <2>2, Turns
  <2>4. \A i \in lo + 1 .. hi : i - 1 \in lo .. hi /\ i \in lo .. hi /\ i # lo
    OBVIOUS
  <2>5. \A i \in lo + 1 .. hi : g[i] = Sorted!Insert(g[i - 1], lo, i)
    <3>1. g \in [lo .. hi -> Data(n)] /\ \A i \in lo + 1 .. hi : g[i] = t[i][g[i - 1]]
      BY <2>3 DEF Follows
    <3> QED
      BY <2>4, <3>1
  <2>6. Solves(g)
    <3>1. \A i \in lo .. hi : i = lo \/ i \in lo + 1 .. hi
      OBVIOUS
    <3>2. \A i \in lo .. hi : g[i] = IF i = lo THEN d ELSE Sorted!Insert(g[i - 1], lo, i)
      BY <2>3, <2>5, <3>1 DEF Follows
    <3> QED
      BY <2>3, <3>2 DEF Follows
  <2>7. Solves(sorted)
    <3> HIDE DEF Solves
    <3> QED
      BY <2>6
  <2> HIDE DEF sorted
  <2>8. sorted[lo] = d /\ \A i \in lo + 1 .. hi : sorted[i] = Sorted!Insert(sorted[i - 1], lo, i)
    <3>1. lo \in lo .. hi
      BY <1>2
    <3> QED
      BY <2>4, <2>7, <3>1
  <2> DEFINE T == {i \in lo .. hi : /\ sorted[i] \in Data(n)
                                    /\ Moved(n, d, sorted[i], lo, hi)
                                    /\ Ordered(sorted[i], lo, i)}
  <2>9. lo \in T
    <3>1. Ordered(d, lo, lo) /\ lo \in lo .. hi /\ lo \in 0 .. n - 1
      BY <1>2, DataIs DEF Ordered
    <3> QED
      BY <2>8, <3>1, MovedNot
  <2>10. ASSUME NEW i \in lo + 1 .. hi, i - 1 \in T PROVE i \in T
    <3> DEFINE s == sorted[i - 1]
    <3>1. s \in Data(n) /\ Moved(n, d, s, lo, hi) /\ Ordered(s, lo, i - 1)
      BY <2>10
    <3>2. sorted[i] = Sorted!Insert(s, lo, i)
      BY <2>8
    <3> HIDE DEF s
    <3>3. Moved(n, s, sorted[i], lo, i) /\ sorted[i] \in Data(n) /\ Ordered(sorted[i], lo, i)
      BY <2>1, <3>1, <3>2
    <3>4. Moved(n, s, sorted[i], lo, hi)
      BY <3>3, MovedWider
    <3>5. Moved(n, d, sorted[i], lo, hi)
      BY <3>1, <3>4, MovedTwice
    <3> QED
      BY <2>4, <3>3, <3>5
  <2>11. hi \in T
    <3> HIDE DEF T
    <3>1. \A i \in lo .. hi : i \in T
      BY <2>9, <2>10, InductUpTo
    <3> QED
      BY <1>2, <3>1
  <2>12. Sorted!insertionSort(d, lo, hi) = sorted[hi]
    BY <1>2 DEF Sorted!insertionSort, sorted
  <2> QED
    BY <2>11, <2>12 DEF Sorts
<1> QED
  BY <1>1, <1>2

\* c is the number of a child of the p-th item of a heap.
Under(c, p) == c \in {2 * p, 2 * p + 1}

\* A heap of h items, from the k-th item on.
Heap(a, k, h) == \A p \in k .. h : \A c \in 1 .. h : Under(c, p) => a[c] <= a[p]

\* The same but for the item at j, which may be too small.
Sinking(a, k, h, j) ==
  /\ \A p \in k .. h : p # j => \A c \in 1 .. h : Under(c, p) => a[c] <= a[p]
  /\ \A p \in k .. h : Under(j, p) => \A c \in 1 .. h : Under(c, j) => a[c] <= a[p]

\* The h items of a span that follow lo - 1, counted from 1.
Part(d, lo, h) == [k \in 1 .. h |-> d[lo + k - 1]]

LEMMA HalfIs ==
  ASSUME NEW h \in Nat
  PROVE  h \div 2 \in Nat /\ \A i \in Int : i > h \div 2 <=> 2 * i > h
<1>1. h = 2 * (h \div 2) + (h % 2) /\ h % 2 \in 0 .. 1 /\ h \div 2 \in Int
  BY DivMod
<1> QED
  BY <1>1

LEMMA UnderIs ==
  ASSUME NEW p \in Nat \ {0}, NEW c \in Nat, Under(c, p)
  PROVE  c > p /\ c >= 2 * p /\ \A q \in Nat : Under(c, q) => q = p
BY DEF Under

LEMMA SinkingKept ==
  ASSUME NEW h \in Nat, NEW k \in 1 .. h, NEW j \in k .. h, NEW a \in [1 .. h -> Int], NEW b \in [1 .. h -> Int],
         Sinking(a, k, h, j), NEW c \in 1 .. h, Under(c, j), a[j] < a[c],
         \A o \in 1 .. h : Under(o, j) => a[o] <= a[c],
         \A q \in 1 .. h : b[q] = IF q = j THEN a[c] ELSE IF q = c THEN a[j] ELSE a[q]
  PROVE  Sinking(b, k, h, c)
<1>0. /\ \A p \in k .. h : p \in 1 .. h /\ p \in Nat \ {0}
      /\ \A p \in 1 .. h : p \in Nat \ {0} /\ a[p] \in Int /\ b[p] \in Int
  OBVIOUS
<1>1. ASSUME NEW p \in k .. h, p # c, NEW q \in 1 .. h, Under(q, p) PROVE b[q] <= b[p]
  <2>1. q > p
    BY <1>0, <1>1, UnderIs
  <2>2. CASE p = j
    <3>1. b[p] = a[c] /\ q # j /\ a[q] <= a[c]
      BY <1>0, <1>1, <2>1, <2>2
    <3>2. b[q] = a[j] \/ b[q] = a[q]
      BY <3>1
    <3>3. a[j] <= a[c]
      BY <1>0
    <3> QED
      BY <3>1, <3>2, <3>3
  <2>3. CASE p # j
    <3>1. b[p] = a[p]
      BY <1>0, <1>1, <2>3
    <3>2. q # c
      BY <1>0, <1>1, <2>3, UnderIs
    <3>3. CASE q = j
      <4>1. a[c] <= a[p]
        BY <1>1, <3>3 DEF Sinking
      <4> QED
        BY <3>1, <3>3, <4>1
    <3>4. CASE q # j
      <4>1. a[q] <= a[p]
        BY <1>1, <2>3 DEF Sinking
      <4> QED
        BY <3>1, <3>2, <3>4, <4>1
    <3> QED
      BY <3>3, <3>4
  <2> QED
    BY <2>2, <2>3
<1>2. ASSUME NEW p \in k .. h, Under(c, p), NEW q \in 1 .. h, Under(q, c) PROVE b[q] <= b[p]
  <2>1. p = j
    BY <1>0, <1>2, UnderIs
  <2>2. c > j /\ q > c
    BY <1>0, <1>2, UnderIs
  <2>3. c \in k .. h /\ q # c /\ q # j /\ c # j /\ b[q] = a[q] /\ b[j] = a[c]
    BY <2>2
  <2>4. a[q] <= a[c]
    BY <1>2, <2>3 DEF Sinking
  <2> QED
    BY <2>1, <2>3, <2>4
<1> QED
  BY <1>1, <1>2 DEF Sinking

\* The first item of a heap is its greatest.
LEMMA RootIsGreatest ==
  ASSUME NEW h \in Nat, NEW a \in [1 .. h -> Int], Heap(a, 1, h)
  PROVE  \A q \in 1 .. h : a[q] <= a[1]
<1> SUFFICES ASSUME \E q \in 1 .. h : ~(a[q] <= a[1]) PROVE FALSE
  OBVIOUS
<1> DEFINE T == {q \in 1 .. h : ~(a[q] <= a[1])}
<1>1. PICK q \in T : \A m \in T : q <= m
  <2>1. T \in SUBSET Nat /\ T # {}
    OBVIOUS
  <2> HIDE DEF T
  <2> QED
    BY <2>1, Least
<1>2. q # 1 /\ q \in 1 .. h /\ ~(a[q] <= a[1]) /\ \A m \in 1 .. q - 1 : a[m] <= a[1]
  BY <1>1
<1> HIDE DEF T
<1> DEFINE p == q \div 2
<1>3. p \in 1 .. h /\ Under(q, p) /\ p < q
  <2>1. q \in Int /\ 2 \in Nat \ {0}
    BY <1>2
  <2>2. q = 2 * p + (q % 2) /\ q % 2 \in 0 .. 1 /\ p \in Int
    BY <2>1
  <2> HIDE DEF p
  <2> QED
    BY <1>2, <2>2 DEF Under
<1> HIDE DEF p
<1>4. a[q] <= a[p]
  BY <1>2, <1>3 DEF Heap
<1>5. a[p] <= a[1]
  BY <1>2, <1>3
<1>6. a[q] \in Int /\ a[p] \in Int /\ a[1] \in Int
  BY <1>2, <1>3
<1> QED
  BY <1>2, <1>4, <1>5, <1>6

\* A turn of downHeap.
LEMMA SinkIs ==
  ASSUME NEW n \in Nat, NEW lo \in Nat, NEW h \in Nat, lo + h <= n, NEW s \in [d : Data(n), i : 1 .. h]
  PROVE  /\ Sorted!Sink(s, lo, h) \in [d : Data(n), i : 1 .. h]
         /\ Moved(n, s.d, Sorted!Sink(s, lo, h).d, lo, lo + h - 1)
         /\ \A k \in 1 .. s.i : Sinking(Part(s.d, lo, h), k, h, s.i) =>
              LET e == Sorted!Sink(s, lo, h)
              IN /\ Sinking(Part(e.d, lo, h), k, h, e.i)
                 /\ (e.i > s.i /\ ~Heap(Part(s.d, lo, h), k, h)) \/ (e = s /\ Heap(Part(s.d, lo, h), k, h))
                 /\ e.i >= s.i
<1> DEFINE d == s.d
           j == s.i
           a == Part(d, lo, h)
           c == IF 2 * j < h /\ d[lo + 2 * j - 1] < d[lo + (2 * j + 1) - 1] THEN 2 * j + 1 ELSE 2 * j
           e == [d |-> Sorted!Swapped(d, lo + j - 1, lo + c - 1), i |-> c]
<1>1. d \in Data(n) /\ j \in 1 .. h
  OBVIOUS
<1> HIDE DEF d, j
<1>2. a \in [1 .. h -> Int] /\ \A q \in 1 .. h : lo + q - 1 \in 0 .. n - 1 /\ a[q] = d[lo + q - 1]
  <2>1. \A q \in 1 .. h : lo + q - 1 \in 0 .. n - 1
    OBVIOUS
  <2> QED
    BY <1>1, <2>1, DataIs DEF Part
<1> HIDE DEF a
<1>3. Sorted!Sink(s, lo, h) = IF 2 * j > h \/ d[lo + j - 1] >= d[lo + c - 1] THEN s ELSE e
  <2>1. s.i > h \div 2 <=> 2 * j > h
    BY <1>1, HalfIs DEF j
  <2> QED
    BY <2>1 DEF Sorted!Sink, d, j
<1> HIDE DEF e
<1>4. /\ Under(c, j) /\ c \in Nat /\ \A o \in 1 .. h : Under(o, j) => 2 * j <= h
      /\ 2 * j <= h => c \in 1 .. h /\ \A o \in 1 .. h : Under(o, j) => a[o] <= a[c]
  <2>1. 2 * j \in Nat /\ 2 * j + 1 \in Nat /\ 2 * j > 0
    BY <1>1
  <2>2. Under(c, j) /\ c \in Nat /\ \A o \in 1 .. h : Under(o, j) => 2 * j <= h
    BY <2>1 DEF Under
  <2>3. ASSUME 2 * j <= h PROVE c \in 1 .. h /\ \A o \in 1 .. h : Under(o, j) => a[o] <= a[c]
    <3>1. 2 * j \in 1 .. h /\ (2 * j < h => 2 * j + 1 \in 1 .. h) /\ (2 * j + 1 <= h => 2 * j < h)
      BY <2>1, <2>3
    <3>2. a[2 * j] = d[lo + 2 * j - 1] /\ a[2 * j] \in Int
      BY <1>2, <3>1
    <3>3. 2 * j < h => a[2 * j + 1] = d[lo + (2 * j + 1) - 1] /\ a[2 * j + 1] \in Int
      BY <1>2, <3>1
    <3>4. \A o \in 1 .. h : Under(o, j) => o = 2 * j \/ (o = 2 * j + 1 /\ 2 * j < h)
      BY <2>1 DEF Under
    <3>5. CASE 2 * j < h /\ a[2 * j] < a[2 * j + 1]
      <4>1. c = 2 * j + 1
        BY <3>2, <3>3, <3>5
      <4> HIDE DEF c
      <4> QED
        BY <3>1, <3>2, <3>3, <3>4, <3>5, <4>1
    <3>6. CASE ~(2 * j < h /\ a[2 * j] < a[2 * j + 1])
      <4>1. c = 2 * j
        BY <3>2, <3>3, <3>6
      <4> HIDE DEF c
      <4> QED
        BY <3>1, <3>2, <3>3, <3>4, <3>6, <4>1
    <3> QED
      BY <3>5, <3>6
  <2> HIDE DEF c
  <2> QED
    BY <2>2, <2>3
<1> HIDE DEF c
<1>5. CASE 2 * j > h \/ d[lo + j - 1] >= d[lo + c - 1]
  <2>1. Sorted!Sink(s, lo, h) = s
    BY <1>3, <1>5
  <2>2. Moved(n, d, d, lo, lo + h - 1)
    BY <1>1, MovedNot
  <2>3. ASSUME NEW k \in 1 .. j, Sinking(a, k, h, j) PROVE Heap(a, k, h)
    <3>1. ASSUME NEW o \in 1 .. h, Under(o, j) PROVE a[o] <= a[j]
      <4>1. 2 * j <= h
        BY <1>4, <3>1
      <4>2. c \in 1 .. h /\ a[o] <= a[c]
        BY <1>4, <3>1, <4>1
      <4>3. a[c] <= a[j]
        BY <1>1, <1>2, <1>5, <4>1, <4>2
      <4>4. a[o] \in Int /\ a[c] \in Int /\ a[j] \in Int
        BY <1>1, <1>2, <4>1, <4>2
      <4> QED
        BY <4>2, <4>3, <4>4
    <3> QED
      BY <2>3, <3>1 DEF Heap, Sinking
  <2> QED
    BY <1>1, <2>1, <2>2, <2>3 DEF a, d, j
<1>6. CASE ~(2 * j > h \/ d[lo + j - 1] >= d[lo + c - 1])
  <2>1. Sorted!Sink(s, lo, h) = e
    BY <1>3, <1>6
  <2>2. c \in 1 .. h /\ \A o \in 1 .. h : Under(o, j) => a[o] <= a[c]
    BY <1>1, <1>4, <1>6
  <2>3. c > j
    <3>1. j \in Nat \ {0}
      BY <1>1
    <3> QED
      BY <1>4, <3>1, UnderIs
  <2> DEFINE x == lo + j - 1
             y == lo + c - 1
             u == Sorted!Swapped(d, x, y)
             b == Part(u, lo, h)
             hi == lo + h - 1
  <2>4. x \in 0 .. n - 1 /\ y \in 0 .. n - 1 /\ x \in lo .. hi /\ y \in lo .. hi /\ hi \in Int /\ lo \in Int
    BY <1>1, <2>2
  <2>5. a[j] = d[x] /\ a[c] = d[y] /\ d[x] < d[y]
    <3>1. a[j] = d[x] /\ a[j] \in Int
      BY <1>1, <1>2
    <3>2. a[c] = d[y] /\ a[c] \in Int
      BY <1>2, <2>2
    <3> QED
      BY <1>6, <3>1, <3>2
  <2>6. \A q \in 1 .. h : (lo + q - 1 = x <=> q = j) /\ (lo + q - 1 = y <=> q = c)
    BY <1>1, <2>2
  <2>7. e \in [d : {u}, i : {c}] /\ e.d = u /\ e.i = c
    BY DEF e
  <2> HIDE DEF x, y, hi
  <2>8. /\ Moved(n, d, u, lo, hi) /\ u \in Data(n)
        /\ \A i \in 0 .. n - 1 : u[i] = IF i = x THEN d[y] ELSE IF i = y THEN d[x] ELSE d[i]
    <3>1. Moved(n, d, u, lo, hi) /\ Swaps(n, d, u, x, y)
      BY <1>1, <2>4, SwappedMoves
    <3> HIDE DEF u
    <3> QED
      BY <3>1 DEF Swaps
  <2> HIDE DEF u
  <2>9. b \in [1 .. h -> Int] /\ \A q \in 1 .. h : b[q] = u[lo + q - 1]
    BY <1>2, <2>8, DataIs DEF Part
  <2> HIDE DEF b
  <2>10. ASSUME NEW q \in 1 .. h PROVE b[q] = IF q = j THEN a[c] ELSE IF q = c THEN a[j] ELSE a[q]
    <3>1. lo + q - 1 \in 0 .. n - 1 /\ a[q] = d[lo + q - 1] /\ b[q] = u[lo + q - 1]
      BY <1>2, <2>9
    <3> QED
      BY <2>5, <2>6, <2>8, <3>1
  <2>11. ASSUME NEW k \in 1 .. j, Sinking(a, k, h, j) PROVE Sinking(b, k, h, c)
    <3>1. k \in 1 .. h /\ j \in k .. h
      BY <1>1, <2>2
    <3> QED
      BY <1>2, <1>4, <2>2, <2>5, <2>9, <2>10, <2>11, <3>1, SinkingKept
  <2>12. e \in [d : Data(n), i : 1 .. h]
    BY <2>2, <2>7, <2>8
  <2>13. c > s.i /\ c >= s.i
    BY <1>1, <2>2, <2>3 DEF j
  <2>14. ASSUME NEW k \in 1 .. j PROVE ~Heap(a, k, h)
    <3>1. j \in k .. h /\ c \in 1 .. h /\ Under(c, j)
      BY <1>1, <1>4, <2>2
    <3>2. a[j] < a[c] /\ a[j] \in Int /\ a[c] \in Int
      BY <1>1, <1>2, <2>2, <2>5
    <3> QED
      BY <3>1, <3>2 DEF Heap
  <2> QED
    BY <2>1, <2>7, <2>8, <2>11, <2>12, <2>13, <2>14 DEF a, b, d, j, hi
<1> QED
  BY <1>5, <1>6

\* An item of a heap that may be too small finds its place.
LEMMA DownHeapIs ==
  ASSUME NEW n \in Nat, NEW d \in Data(n), NEW lo \in Nat, NEW h \in Nat, lo + h <= n, NEW k \in 1 .. h
  PROVE  /\ Moved(n, d, Sorted!downHeap(d, lo, k, h), lo, lo + h - 1)
         /\ Heap(Part(d, lo, h), k + 1, h) => Heap(Part(Sorted!downHeap(d, lo, k, h), lo, h), k, h)
<1> DEFINE b == [d |-> d, i |-> k]
           S == [d : Data(n), i : 1 .. h]
           Solves(g) == g = [q \in 0 .. h |-> IF q = 0 THEN b ELSE Sorted!Sink(g[q - 1], lo, h)]
           turn == CHOOSE g : Solves(g)
           t == [q \in 0 + 1 .. h |-> [s \in S |-> Sorted!Sink(s, lo, h)]]
           hi == lo + h - 1
           P == Heap(Part(d, lo, h), k + 1, h)
<1>1. b \in S /\ b.d = d /\ b.i = k
  OBVIOUS
<1>2. ASSUME NEW s \in S
      PROVE  /\ Sorted!Sink(s, lo, h) \in S
             /\ Moved(n, s.d, Sorted!Sink(s, lo, h).d, lo, hi)
             /\ k <= s.i /\ Sinking(Part(s.d, lo, h), k, h, s.i) =>
                  LET e == Sorted!Sink(s, lo, h)
                  IN /\ Sinking(Part(e.d, lo, h), k, h, e.i)
                     /\ (e.i > s.i /\ ~Heap(Part(s.d, lo, h), k, h)) \/ (e = s /\ Heap(Part(s.d, lo, h), k, h))
                     /\ e.i >= s.i
  <2>1. k <= s.i => k \in 1 .. s.i
    OBVIOUS
  <2> QED
    BY <2>1, SinkIs
<1> HIDE DEF S, b
<1>3. turn[0] = b /\ \A q \in 1 .. h : turn[q] = Sorted!Sink(turn[q - 1], lo, h)
  <2>1. t \in Loops(0, h, S)
    BY <1>2 DEF Loops
  <2>2. PICK g : Follows(g, 0, h, S, b, t)
    <3> HIDE DEF t
    <3>1. 0 \in Int /\ h \in Int /\ 0 <= h /\ b \in S
      BY <1>1
    <3> HIDE DEF S
    <3> QED
      BY <2>1, <3>1, Turns
  <2>3. \A q \in 1 .. h : q - 1 \in 0 .. h /\ q \in 0 .. h /\ q # 0 /\ q \in 0 + 1 .. h
    OBVIOUS
  <2>4. \A q \in 1 .. h : g[q] = Sorted!Sink(g[q - 1], lo, h)
    <3>1. g \in [0 .. h -> S] /\ \A q \in 0 + 1 .. h : g[q] = t[q][g[q - 1]]
      BY <2>2 DEF Follows
    <3> QED
      BY <2>3, <3>1
  <2>5. \A q \in 0 .. h : q = 0 \/ q \in 1 .. h
    OBVIOUS
  <2>6. g \in [0 .. h -> S] /\ \A q \in 0 .. h : g[q] = IF q = 0 THEN b ELSE Sorted!Sink(g[q - 1], lo, h)
    BY <2>2, <2>4, <2>5 DEF Follows
  <2>7. Solves(g)
    BY <2>6
  <2>8. Solves(turn)
    <3> HIDE DEF Solves
    <3> QED
      BY <2>7
  <2> HIDE DEF turn
  <2>9. 0 \in 0 .. h
    OBVIOUS
  <2> QED
    BY <2>3, <2>8, <2>9
<1>4. Sorted!downHeap(d, lo, k, h) = turn[h].d
  BY DEF Sorted!downHeap, turn, b
<1> HIDE DEF turn
<1> DEFINE T == {q \in 0 .. h : /\ turn[q] \in S
                                /\ Moved(n, d, turn[q].d, lo, hi)
                                /\ P => /\ k <= turn[q].i
                                        /\ Sinking(Part(turn[q].d, lo, h), k, h, turn[q].i)
                                        /\ turn[q].i >= k + q \/ Heap(Part(turn[q].d, lo, h), k, h)}
<1>5. 0 \in T
  <2>1. P => Sinking(Part(d, lo, h), k, h, k)
    <3>1. \A p \in k .. h : (p # k => p \in k + 1 .. h) /\ p \in Nat \ {0} /\ p >= k
      OBVIOUS
    <3>2. \A p \in k .. h : ~Under(k, p)
      BY <3>1, UnderIs
    <3> QED
      BY <3>1, <3>2 DEF Heap, Sinking
  <2>2. Moved(n, d, d, lo, hi)
    BY MovedNot
  <2>3. k <= k /\ k >= k + 0 /\ 0 \in 0 .. h
    OBVIOUS
  <2> HIDE DEF hi, P
  <2> QED
    BY <1>1, <1>3, <2>1, <2>2, <2>3
<1>6. ASSUME NEW q \in 0 + 1 .. h, q - 1 \in T PROVE q \in T
  <2> DEFINE s == turn[q - 1]
             e == turn[q]
  <2>1. /\ s \in S /\ Moved(n, d, s.d, lo, hi)
        /\ P => /\ k <= s.i /\ Sinking(Part(s.d, lo, h), k, h, s.i)
                /\ s.i >= k + (q - 1) \/ Heap(Part(s.d, lo, h), k, h)
    BY <1>6
  <2>2. e = Sorted!Sink(s, lo, h) /\ q \in 0 .. h
    BY <1>3
  <2> HIDE DEF s, e, P
  <2>3. e \in S /\ Moved(n, s.d, e.d, lo, hi)
    BY <1>2, <2>1, <2>2
  <2>4. s.i \in Int /\ e.i \in Int /\ s.d \in Data(n)
    BY <2>1, <2>3 DEF S
  <2>5. Moved(n, d, e.d, lo, hi)
    BY <2>1, <2>3, <2>4, MovedTwice
  <2>6. ASSUME P
        PROVE  /\ k <= e.i /\ Sinking(Part(e.d, lo, h), k, h, e.i)
               /\ e.i >= k + q \/ Heap(Part(e.d, lo, h), k, h)
    <3>1. /\ Sinking(Part(e.d, lo, h), k, h, e.i)
          /\ (e.i > s.i /\ ~Heap(Part(s.d, lo, h), k, h)) \/ (e = s /\ Heap(Part(s.d, lo, h), k, h))
          /\ e.i >= s.i
      BY <1>2, <2>1, <2>2, <2>6
    <3>2. k <= e.i
      BY <2>1, <2>4, <2>6, <3>1
    <3>3. CASE e.i > s.i /\ ~Heap(Part(s.d, lo, h), k, h)
      BY <2>1, <2>4, <2>6, <3>1, <3>2, <3>3
    <3>4. CASE e = s /\ Heap(Part(s.d, lo, h), k, h)
      BY <3>1, <3>2, <3>4
    <3> QED
      BY <3>1, <3>3, <3>4
  <2> QED
    BY <2>2, <2>3, <2>5, <2>6 DEF e
<1>7. h \in T
  <2> HIDE DEF T
  <2>1. \A q \in 0 .. h : q \in T
    BY <1>5, <1>6, InductUpTo
  <2> QED
    BY <2>1
<1>8. turn[h].i \in 1 .. h /\ k \in Nat \ {0}
  BY <1>7 DEF S
<1>9. ~(turn[h].i >= k + h)
  BY <1>8
<1> HIDE DEF S
<1> QED
  BY <1>4, <1>7, <1>9

LEMMA HeapedIs ==
  ASSUME NEW n \in Nat, NEW d \in Data(n), NEW lo \in Nat, NEW h \in Nat, lo + h <= n
  PROVE  /\ Moved(n, d, Sorted!Heaped(d, lo, h \div 2, h), lo, lo + h - 1)
         /\ Heap(Part(Sorted!Heaped(d, lo, h \div 2, h), lo, h), 1, h)
<1> DEFINE m == h \div 2
           hi == lo + h - 1
           Step(s, q) == Sorted!downHeap(s, lo, m + 1 - q, h)
           Solves(g) == g = [q \in 0 .. m |-> IF q = 0 THEN d ELSE Step(g[q - 1], q)]
           turn == CHOOSE g : Solves(g)
           S == Data(n)
           t == [q \in 0 + 1 .. m |-> [s \in S |-> Step(s, q)]]
<1>1. m \in Nat /\ m <= h /\ hi \in Int /\ \A i \in Int : i > m => 2 * i > h
  BY HalfIs
<1>2. Sorted!Heaped(d, lo, m, h) = turn[m]
  BY DEF Sorted!Heaped, turn
<1> HIDE DEF m
<1>3. ASSUME NEW q \in 1 .. m, NEW s \in S
      PROVE  /\ Moved(n, s, Step(s, q), lo, hi) /\ Step(s, q) \in S
             /\ Heap(Part(s, lo, h), m + 2 - q, h) => Heap(Part(Step(s, q), lo, h), m + 1 - q, h)
  <2> DEFINE k == m + 1 - q
  <2>1. k \in 1 .. h /\ k + 1 = m + 2 - q
    BY <1>1
  <2> HIDE DEF k
  <2>2. Moved(n, s, Sorted!downHeap(s, lo, k, h), lo, hi)
    BY <2>1, DownHeapIs
  <2>3. Heap(Part(s, lo, h), k + 1, h) => Heap(Part(Sorted!downHeap(s, lo, k, h), lo, h), k, h)
    BY <2>1, DownHeapIs
  <2> HIDE DEF hi
  <2>4. Sorted!downHeap(s, lo, k, h) \in S
    BY <1>1, <2>2, MovedIs
  <2> QED
    BY <2>1, <2>2, <2>3, <2>4 DEF k
<1> HIDE DEF Step, hi
<1>4. turn[0] = d /\ \A q \in 1 .. m : turn[q] = Step(turn[q - 1], q)
  <2>1. t \in Loops(0, m, S)
    BY <1>3 DEF Loops
  <2>2. PICK g : Follows(g, 0, m, S, d, t)
    <3> HIDE DEF t
    <3>1. 0 \in Int /\ m \in Int /\ 0 <= m /\ d \in S
      BY <1>1
    <3> HIDE DEF S
    <3> QED
      BY <2>1, <3>1, Turns
  <2>3. \A q \in 1 .. m : q - 1 \in 0 .. m /\ q \in 0 .. m /\ q # 0 /\ q \in 0 + 1 .. m
    BY <1>1
  <2>4. \A q \in 1 .. m : g[q] = Step(g[q - 1], q)
    <3>1. g \in [0 .. m -> S] /\ \A q \in 0 + 1 .. m : g[q] = t[q][g[q - 1]]
      BY <2>2 DEF Follows
    <3> QED
      BY <2>3, <3>1
  <2>5. \A q \in 0 .. m : q = 0 \/ q \in 1 .. m
    BY <1>1
  <2>6. g \in [0 .. m -> S] /\ \A q \in 0 .. m : g[q] = IF q = 0 THEN d ELSE Step(g[q - 1], q)
    BY <2>2, <2>4, <2>5 DEF Follows
  <2>7. Solves(g)
    BY <2>6
  <2>8. Solves(turn)
    <3> HIDE DEF Solves
    <3> QED
      BY <2>7
  <2> HIDE DEF turn
  <2>9. 0 \in 0 .. m
    BY <1>1
  <2> QED
    BY <2>3, <2>8, <2>9
<1> HIDE DEF turn
<1> DEFINE T == {q \in 0 .. m : /\ turn[q] \in S /\ Moved(n, d, turn[q], lo, hi)
                                /\ Heap(Part(turn[q], lo, h), m + 1 - q, h)}
<1>5. 0 \in T
  <2>1. Moved(n, d, d, lo, hi)
    BY <1>1, MovedNot
  <2>2. Heap(Part(d, lo, h), m + 1 - 0, h)
    <3>1. \A p \in m + 1 - 0 .. h : p \in Nat \ {0} /\ 2 * p > h
      BY <1>1
    <3>2. \A p \in m + 1 - 0 .. h : \A c \in 1 .. h : ~Under(c, p)
      BY <3>1 DEF Under
    <3> QED
      BY <3>2 DEF Heap
  <2>3. 0 \in 0 .. m
    BY <1>1
  <2> QED
    BY <1>4, <2>1, <2>2, <2>3
<1>6. ASSUME NEW q \in 0 + 1 .. m, q - 1 \in T PROVE q \in T
  <2> DEFINE s == turn[q - 1]
  <2>1. s \in S /\ Moved(n, d, s, lo, hi) /\ Heap(Part(s, lo, h), m + 1 - (q - 1), h)
    BY <1>6
  <2>2. m + 1 - (q - 1) = m + 2 - q /\ q \in 0 .. m /\ q \in 1 .. m
    BY <1>1
  <2>3. turn[q] = Step(s, q)
    BY <1>4, <2>2
  <2> HIDE DEF s
  <2>4. turn[q] \in S /\ Moved(n, s, turn[q], lo, hi) /\ Heap(Part(turn[q], lo, h), m + 1 - q, h)
    BY <1>3, <2>1, <2>2, <2>3
  <2>5. Moved(n, d, turn[q], lo, hi)
    BY <1>1, <2>1, <2>4, MovedTwice
  <2> QED
    BY <2>2, <2>4, <2>5
<1>7. m \in T
  <2> HIDE DEF T
  <2>1. \A q \in 0 .. m : q \in T
    BY <1>1, <1>5, <1>6, InductUpTo
  <2> QED
    BY <1>1, <2>1
<1>8. m + 1 - m = 1
  BY <1>1
<1> QED
  BY <1>2, <1>7, <1>8 DEF m, hi

\* The last q items that follow lo are the greatest, in order, and the others a heap.
Draining(d, lo, m, q) ==
  /\ Heap(Part(d, lo, m + 1 - q), 1, m + 1 - q)
  /\ \A i \in lo .. lo + m, j \in lo + m + 1 - q .. lo + m : i <= j => d[i] <= d[j]

LEMMA DrainStep ==
  ASSUME NEW n \in Nat, NEW d \in Data(n), NEW lo \in Nat, NEW m \in Nat, lo + m < n, NEW q \in 1 .. m
  PROVE  LET e == Sorted!downHeap(Sorted!Swapped(d, lo, lo + m + 1 - q), lo, 1, m + 1 - q)
         IN /\ Moved(n, d, e, lo, lo + m)
            /\ Draining(d, lo, m, q - 1) => Draining(e, lo, m, q)
<1> DEFINE h == m + 1 - q
           top == lo + m + 1 - q
           hi == lo + m
           u == Sorted!Swapped(d, lo, top)
           e == Sorted!downHeap(u, lo, 1, h)
           S == 0 .. n - 1
<1>1. h \in 1 .. m /\ h \in Nat /\ top = lo + h /\ top \in lo + 1 .. hi /\ hi \in S /\ hi \in Int /\ lo \in S /\ top \in S /\ lo + h <= n /\ 1 \in 1 .. h
  OBVIOUS
<1>2. m + 1 - (q - 1) = h + 1 /\ lo + m + 1 - (q - 1) = top + 1
  OBVIOUS
<1> HIDE DEF h, top, hi
<1>3. Moved(n, d, u, lo, hi) /\ Swaps(n, d, u, lo, top)
  <2>1. lo \in Int /\ lo \in lo .. hi /\ top \in lo .. hi
    BY <1>1
  <2> QED
    BY <1>1, <2>1, SwappedMoves
<1> HIDE DEF u
<1>4. u \in Data(n) /\ \A i \in S : u[i] = IF i = lo THEN d[top] ELSE IF i = top THEN d[lo] ELSE d[i]
  BY <1>3 DEF Swaps
<1>5. Moved(n, u, e, lo, lo + h - 1)
  BY <1>1, <1>4, DownHeapIs
<1>6. Heap(Part(u, lo, h), 2, h) => Heap(Part(e, lo, h), 1, h)
  <2>1. 1 + 1 = 2
    OBVIOUS
  <2>2. Heap(Part(u, lo, h), 1 + 1, h) => Heap(Part(e, lo, h), 1, h)
    BY <1>1, <1>4, DownHeapIs
  <2> QED
    BY <2>1, <2>2
<1> HIDE DEF e
<1>7. Moved(n, d, e, lo, hi)
  <2>1. lo <= lo /\ lo + h - 1 <= hi /\ lo + h - 1 \in Int /\ lo \in Int
    BY <1>1
  <2>2. Moved(n, u, e, lo, hi)
    BY <1>1, <1>5, <2>1, MovedWider
  <2> QED
    BY <1>1, <1>3, <2>1, <2>2, MovedTwice
<1>8. ASSUME Draining(d, lo, m, q - 1) PROVE Draining(e, lo, m, q)
  <2>1. Heap(Part(d, lo, h + 1), 1, h + 1) /\ \A i \in lo .. hi, j \in top + 1 .. hi : i <= j => d[i] <= d[j]
    BY <1>2, <1>8 DEF Draining, hi
  <2>2. \A i \in S : d[i] \in Int
    BY DataIs
  <2> DEFINE a == Part(d, lo, h + 1)
             b == Part(u, lo, h)
  <2>3. \A k \in 1 .. h + 1 : lo + k - 1 \in S
    BY <1>1
  <2>4. a \in [1 .. h + 1 -> Int] /\ \A k \in 1 .. h + 1 : a[k] = d[lo + k - 1]
    BY <2>2, <2>3 DEF Part
  <2>5. \A i \in lo .. top : d[i] <= d[lo]
    <3>1. h + 1 \in Nat
      BY <1>1
    <3> HIDE DEF a
    <3>2. \A k \in 1 .. h + 1 : a[k] <= a[1]
      BY <2>1, <2>4, <3>1, RootIsGreatest DEF a
    <3> SUFFICES ASSUME NEW i \in lo .. top PROVE d[i] <= d[lo]
      OBVIOUS
    <3>3. i - lo + 1 \in 1 .. h + 1 /\ lo + (i - lo + 1) - 1 = i /\ 1 \in 1 .. h + 1 /\ lo + 1 - 1 = lo
      BY <1>1
    <3>4. a[i - lo + 1] <= a[1]
      BY <3>2, <3>3
    <3> QED
      BY <2>4, <3>3, <3>4
  <2>6. Heap(b, 2, h)
    <3> SUFFICES ASSUME NEW p \in 2 .. h, NEW c \in 1 .. h, Under(c, p) PROVE b[c] <= b[p]
      BY DEF Heap
    <3>1. p \in Nat \ {0} /\ c \in Nat /\ p \in 1 .. h + 1 /\ c \in 1 .. h + 1 /\ p \in 1 .. h
      BY <1>1
    <3>2. c > p
      BY <3>1, UnderIs
    <3>3. lo + p - 1 \in S /\ lo + p - 1 # lo /\ lo + p - 1 # top /\ lo + c - 1 \in S /\ lo + c - 1 # lo /\ lo + c - 1 # top
      BY <1>1, <3>2
    <3>4. u[lo + p - 1] = d[lo + p - 1] /\ u[lo + c - 1] = d[lo + c - 1]
      BY <1>4, <3>3
    <3>5. b[p] = u[lo + p - 1] /\ b[c] = u[lo + c - 1]
      BY <3>1 DEF Part
    <3> HIDE DEF a, b
    <3>6. a[c] <= a[p]
      BY <2>1, <3>1 DEF Heap, a
    <3> QED
      BY <2>4, <3>1, <3>4, <3>5, <3>6
  <2>7. Heap(Part(e, lo, m + 1 - q), 1, m + 1 - q)
    BY <1>6, <2>6 DEF h
  <2>8. /\ \A i \in S : i \notin lo .. lo + h - 1 => e[i] = u[i]
        /\ \A i \in S : i \in lo .. lo + h - 1 => \E j \in S : j \in lo .. lo + h - 1 /\ e[i] = u[j]
    <3>1. lo \in Int /\ lo + h - 1 \in Int
      BY <1>1
    <3> QED
      BY <1>4, <1>5, <3>1, MovedIs
  <2>9. ASSUME NEW i \in lo .. top - 1 PROVE \E x \in lo .. top : e[i] = d[x]
    <3>1. i \in S /\ i \in lo .. lo + h - 1
      BY <1>1
    <3>2. PICK j \in S : j \in lo .. lo + h - 1 /\ e[i] = u[j]
      BY <2>8, <3>1
    <3>3. j \in lo .. top /\ j # top /\ top \in lo .. top
      BY <1>1, <3>2
    <3>4. u[j] = d[top] \/ u[j] = d[j]
      BY <1>4, <3>3
    <3> QED
      BY <3>2, <3>3, <3>4
  <2>10. e[top] = d[lo]
    <3>1. top \notin lo .. lo + h - 1 /\ top # lo
      BY <1>1
    <3> QED
      BY <1>1, <1>4, <2>8, <3>1
  <2>11. ASSUME NEW i \in top + 1 .. hi PROVE e[i] = d[i]
    <3>1. i \in S /\ i # lo /\ i # top /\ i \notin lo .. lo + h - 1
      BY <1>1
    <3> QED
      BY <1>4, <2>8, <3>1
  <2>12. ASSUME NEW i \in lo .. hi, NEW j \in top .. hi, i <= j PROVE e[i] <= e[j]
    <3>1. \E x \in lo .. hi : e[i] = d[x] /\ x <= j /\ (i <= top => x \in lo .. top)
      <4>1. CASE i < top
        <5>1. i \in lo .. top - 1
          BY <1>1, <4>1
        <5>2. PICK x \in lo .. top : e[i] = d[x]
          BY <2>9, <5>1
        <5>3. x \in lo .. hi /\ x <= j
          BY <1>1
        <5> QED
          BY <5>2, <5>3
      <4>2. CASE i = top
        <5>1. lo \in lo .. hi /\ lo <= j /\ lo \in lo .. top
          BY <1>1
        <5> QED
          BY <2>10, <4>2, <5>1
      <4>3. CASE i > top
        <5>1. i \in top + 1 .. hi /\ ~(i <= top)
          BY <1>1, <4>3
        <5> QED
          BY <2>11, <2>12, <5>1
      <4> QED
        BY <1>1, <4>1, <4>2, <4>3
    <3>2. PICK x \in lo .. hi : e[i] = d[x] /\ x <= j /\ (i <= top => x \in lo .. top)
      BY <3>1
    <3>3. CASE j = top
      <4>1. x \in lo .. top
        BY <2>12, <3>2, <3>3
      <4> QED
        BY <2>5, <2>10, <3>2, <3>3, <4>1
    <3>4. CASE j # top
      <4>1. j \in top + 1 .. hi
        BY <1>1, <3>4
      <4> QED
        BY <2>1, <2>11, <3>2, <4>1
    <3> QED
      BY <3>3, <3>4
  <2> QED
    BY <2>7, <2>12 DEF Draining, hi, top
<1> QED
  BY <1>7, <1>8 DEF e, u, h, top, hi

LEMMA DrainedIs ==
  ASSUME NEW n \in Nat, NEW d \in Data(n), NEW lo \in Nat, NEW m \in Nat, lo + m < n
  PROVE  /\ Moved(n, d, Sorted!Drained(d, lo, m), lo, lo + m)
         /\ Heap(Part(d, lo, m + 1), 1, m + 1) => Ordered(Sorted!Drained(d, lo, m), lo, lo + m)
<1> DEFINE hi == lo + m
           Step(s, q) == Sorted!downHeap(Sorted!Swapped(s, lo, lo + m + 1 - q), lo, 1, m + 1 - q)
           Solves(g) == g = [q \in 0 .. m |-> IF q = 0 THEN d ELSE Step(g[q - 1], q)]
           turn == CHOOSE g : Solves(g)
           S == Data(n)
           P == Heap(Part(d, lo, m + 1), 1, m + 1)
           t == [q \in 0 + 1 .. m |-> [s \in S |-> Step(s, q)]]
<1>1. m \in Nat /\ hi \in Int /\ lo \in Int
  OBVIOUS
<1>2. Sorted!Drained(d, lo, m) = turn[m]
  BY DEF Sorted!Drained, turn
<1>3. ASSUME NEW q \in 1 .. m, NEW s \in S
      PROVE  /\ Moved(n, s, Step(s, q), lo, hi) /\ Step(s, q) \in S
             /\ Draining(s, lo, m, q - 1) => Draining(Step(s, q), lo, m, q)
  <2>1. Moved(n, s, Step(s, q), lo, hi) /\ (Draining(s, lo, m, q - 1) => Draining(Step(s, q), lo, m, q))
    BY DrainStep
  <2> HIDE DEF hi, Step
  <2>2. Step(s, q) \in S
    BY <1>1, <2>1, MovedIs
  <2> QED
    BY <2>1, <2>2
<1> HIDE DEF Step, hi
<1>4. turn[0] = d /\ \A q \in 1 .. m : turn[q] = Step(turn[q - 1], q)
  <2>1. t \in Loops(0, m, S)
    BY <1>3 DEF Loops
  <2>2. PICK g : Follows(g, 0, m, S, d, t)
    <3> HIDE DEF t
    <3>1. 0 \in Int /\ m \in Int /\ 0 <= m /\ d \in S
      BY <1>1
    <3> HIDE DEF S
    <3> QED
      BY <2>1, <3>1, Turns
  <2>3. \A q \in 1 .. m : q - 1 \in 0 .. m /\ q \in 0 .. m /\ q # 0 /\ q \in 0 + 1 .. m
    BY <1>1
  <2>4. \A q \in 1 .. m : g[q] = Step(g[q - 1], q)
    <3>1. g \in [0 .. m -> S] /\ \A q \in 0 + 1 .. m : g[q] = t[q][g[q - 1]]
      BY <2>2 DEF Follows
    <3> QED
      BY <2>3, <3>1
  <2>5. \A q \in 0 .. m : q = 0 \/ q \in 1 .. m
    BY <1>1
  <2>6. g \in [0 .. m -> S] /\ \A q \in 0 .. m : g[q] = IF q = 0 THEN d ELSE Step(g[q - 1], q)
    BY <2>2, <2>4, <2>5 DEF Follows
  <2>7. Solves(g)
    BY <2>6
  <2>8. Solves(turn)
    <3> HIDE DEF Solves
    <3> QED
      BY <2>7
  <2> HIDE DEF turn
  <2>9. 0 \in 0 .. m
    BY <1>1
  <2> QED
    BY <2>3, <2>8, <2>9
<1> HIDE DEF turn, P
<1> DEFINE T == {q \in 0 .. m : /\ turn[q] \in S /\ Moved(n, d, turn[q], lo, hi)
                                /\ P => Draining(turn[q], lo, m, q)}
<1>5. 0 \in T
  <2>1. Moved(n, d, d, lo, hi)
    BY <1>1, MovedNot
  <2>2. P => Draining(d, lo, m, 0)
    <3>1. m + 1 - 0 = m + 1 /\ lo + m + 1 - 0 .. lo + m = {}
      OBVIOUS
    <3> QED
      BY <3>1 DEF Draining, P
  <2>3. 0 \in 0 .. m
    BY <1>1
  <2> QED
    BY <1>4, <2>1, <2>2, <2>3
<1>6. ASSUME NEW q \in 0 + 1 .. m, q - 1 \in T PROVE q \in T
  <2> DEFINE s == turn[q - 1]
  <2>1. s \in S /\ Moved(n, d, s, lo, hi) /\ (P => Draining(s, lo, m, q - 1))
    BY <1>6
  <2>2. q \in 0 .. m /\ q \in 1 .. m
    BY <1>1
  <2>3. turn[q] = Step(s, q)
    BY <1>4, <2>2
  <2> HIDE DEF s
  <2>4. turn[q] \in S /\ Moved(n, s, turn[q], lo, hi) /\ (P => Draining(turn[q], lo, m, q))
    BY <1>3, <2>1, <2>2, <2>3
  <2>5. Moved(n, d, turn[q], lo, hi)
    BY <1>1, <2>1, <2>4, MovedTwice
  <2> QED
    BY <2>2, <2>4, <2>5
<1>7. m \in T
  <2> HIDE DEF T
  <2>1. \A q \in 0 .. m : q \in T
    BY <1>1, <1>5, <1>6, InductUpTo
  <2> QED
    BY <1>1, <2>1
<1>8. ASSUME P PROVE Ordered(turn[m], lo, hi)
  <2>1. \A i \in lo .. lo + m, j \in lo + m + 1 - m .. lo + m : i <= j => turn[m][i] <= turn[m][j]
    BY <1>7, <1>8 DEF Draining
  <2> SUFFICES ASSUME NEW i \in lo .. hi, NEW j \in lo .. hi, i <= j PROVE turn[m][i] <= turn[m][j]
    BY DEF Ordered
  <2>2. i \in lo .. lo + m /\ j \in lo .. lo + m
    BY DEF hi
  <2>3. CASE j = lo
    <3>1. i = j /\ i \in 0 .. n - 1
      BY <2>2, <2>3
    <3>2. turn[m][i] \in Int
      BY <1>7, <3>1, DataIs
    <3> QED
      BY <3>1, <3>2
  <2>4. CASE j # lo
    <3>1. j \in lo + m + 1 - m .. lo + m
      BY <2>2, <2>4
    <3> QED
      BY <2>1, <2>2, <3>1
  <2> QED
    BY <2>3, <2>4
<1> QED
  BY <1>2, <1>7, <1>8 DEF hi, P

LEMMA HeapSorts ==
  ASSUME NEW n \in Nat, NEW d \in Data(n), NEW lo \in Nat, NEW h \in Nat \ {0}, lo + h <= n
  PROVE  Sorts(n, d, Sorted!heapSortSpan(d, lo, h), lo, lo + h - 1)
<1> DEFINE e == Sorted!Heaped(d, lo, h \div 2, h)
           m == h - 1
<1>1. Moved(n, d, e, lo, lo + h - 1) /\ Heap(Part(e, lo, h), 1, h)
  BY HeapedIs
<1>2. m \in Nat /\ lo + m = lo + h - 1 /\ lo + m < n /\ m + 1 = h /\ lo + h - 1 \in Int /\ lo \in Int
  OBVIOUS
<1>3. Sorted!heapSortSpan(d, lo, h) = Sorted!Drained(e, lo, m)
  BY DEF Sorted!heapSortSpan
<1> HIDE DEF e, m
<1>4. e \in Data(n)
  BY <1>1, <1>2, MovedIs
<1>5. Moved(n, e, Sorted!Drained(e, lo, m), lo, lo + m) /\ Ordered(Sorted!Drained(e, lo, m), lo, lo + m)
  BY <1>1, <1>2, <1>4, DrainedIs
<1>6. Moved(n, d, Sorted!Drained(e, lo, m), lo, lo + h - 1)
  BY <1>1, <1>2, <1>5, MovedTwice
<1> QED
  BY <1>2, <1>3, <1>5, <1>6 DEF Sorts

\* The items at a and b in order, and the others as they were.
Compared(n, d, e, a, b) ==
  /\ e \in Data(n) /\ e[a] <= e[b]
  /\ (e[a] = d[a] /\ e[b] = d[b]) \/ (e[a] = d[b] /\ e[b] = d[a])
  /\ \A i \in 0 .. n - 1 : i # a /\ i # b => e[i] = d[i]

LEMMA SwapIfGreaterIs ==
  ASSUME NEW n \in Nat, NEW d \in Data(n), NEW lo \in Int, NEW hi \in Int,
         NEW a \in 0 .. n - 1, NEW b \in 0 .. n - 1, a \in lo .. hi, b \in lo .. hi, a # b
  PROVE  Moved(n, d, Sorted!swapIfGreater(d, a, b), lo, hi) /\ Compared(n, d, Sorted!swapIfGreater(d, a, b), a, b)
<1> DEFINE e == Sorted!Swapped(d, a, b)
<1>1. Moved(n, d, e, lo, hi) /\ Swaps(n, d, e, a, b)
  BY SwappedMoves
<1>2. Sorted!swapIfGreater(d, a, b) = IF d[a] > d[b] THEN e ELSE d
  BY DEF Sorted!swapIfGreater
<1> HIDE DEF e
<1>3. d[a] \in Int /\ d[b] \in Int
  BY DataIs
<1>4. CASE d[a] > d[b]
  BY <1>1, <1>2, <1>3, <1>4 DEF Swaps, Compared
<1>5. CASE ~(d[a] > d[b])
  <2>1. Moved(n, d, d, lo, hi)
    BY MovedNot
  <2> QED
    BY <1>2, <1>3, <1>5, <2>1 DEF Compared
<1> QED
  BY <1>4, <1>5

\* Three items in order.
LEMMA ThreeAre ==
  ASSUME NEW n \in Nat, NEW d \in Data(n), NEW lo \in Int, NEW hi \in Int,
         NEW a \in 0 .. n - 1, NEW b \in 0 .. n - 1, NEW c \in 0 .. n - 1,
         a \in lo .. hi, b \in lo .. hi, c \in lo .. hi, a # b, a # c, b # c
  PROVE  LET e == Sorted!swapIfGreater(Sorted!swapIfGreater(Sorted!swapIfGreater(d, a, b), a, c), b, c)
         IN Moved(n, d, e, lo, hi) /\ e \in Data(n) /\ e[a] <= e[b] /\ e[b] <= e[c]
<1> DEFINE d1 == Sorted!swapIfGreater(d, a, b)
           d2 == Sorted!swapIfGreater(d1, a, c)
           d3 == Sorted!swapIfGreater(d2, b, c)
<1>1. Moved(n, d, d1, lo, hi) /\ Compared(n, d, d1, a, b)
  BY SwapIfGreaterIs
<1>2. d1 \in Data(n)
  BY <1>1 DEF Compared
<1> HIDE DEF d1
<1>3. Moved(n, d1, d2, lo, hi) /\ Compared(n, d1, d2, a, c)
  BY <1>2, SwapIfGreaterIs
<1>4. d2 \in Data(n)
  BY <1>3 DEF Compared
<1> HIDE DEF d2
<1>5. Moved(n, d2, d3, lo, hi) /\ Compared(n, d2, d3, b, c)
  BY <1>4, SwapIfGreaterIs
<1> HIDE DEF d3
<1>6. Moved(n, d, d3, lo, hi)
  <2>1. Moved(n, d, d2, lo, hi)
    BY <1>1, <1>3, MovedTwice
  <2> QED
    BY <1>5, <2>1, MovedTwice
<1>7. d1[a] <= d1[b] /\ d2[b] = d1[b] /\ d2[a] <= d2[c] /\ (d2[a] = d1[a] \/ (d2[a] = d1[c] /\ d2[c] = d1[a]))
  BY <1>1, <1>3 DEF Compared
<1>8. /\ d1[a] \in Int /\ d1[b] \in Int /\ d1[c] \in Int
      /\ d2[a] \in Int /\ d2[b] \in Int /\ d2[c] \in Int
  BY <1>2, <1>4, DataIs
<1>9. d2[a] <= d2[b] /\ d2[a] <= d2[c]
  BY <1>7, <1>8
<1>10. d3[a] = d2[a] /\ (d3[b] = d2[b] \/ d3[b] = d2[c]) /\ d3[b] <= d3[c] /\ d3 \in Data(n)
  BY <1>5 DEF Compared
<1>11. d3[a] <= d3[b]
  BY <1>9, <1>10
<1> QED
  BY <1>6, <1>10, <1>11 DEF d1, d2, d3

\* Up to left nothing is greater than the pivot, which is at hi - 1, and from right
\* on nothing is less; when they have met, left has the place of the pivot.
Parting(s, lo, hi, v) ==
  /\ s.d[hi - 1] = v
  /\ s.left < s.right => (\A i \in lo .. s.left : s.d[i] <= v) /\ \A i \in s.right .. hi : v <= s.d[i]
  /\ s.left >= s.right => s.left > lo /\ (\A i \in lo .. s.left - 1 : s.d[i] <= v) /\ \A i \in s.left .. hi : v <= s.d[i]

Partings(n, lo, hi) == [d : Data(n), left : lo .. hi - 1, right : lo .. hi - 1]

LEMMA UpwardsIs ==
  ASSUME NEW n \in Nat, NEW d \in Data(n), NEW lo \in Nat, NEW hi \in Int, lo < hi, hi < n,
         NEW left \in lo .. hi - 1, left < hi - 1
  PROVE  LET l == Sorted!Upwards(d, left, hi)
         IN /\ l \in left + 1 .. hi - 1 /\ (l = hi - 1 \/ d[hi - 1] < d[l])
            /\ \A j \in left + 1 .. l - 1 : ~(d[hi - 1] < d[j])
<1> DEFINE Ends(k) == (k = hi - 1 \/ d[hi - 1] < d[k]) /\ \A j \in left + 1 .. k - 1 : ~(d[hi - 1] < d[j])
           T == {k \in left + 1 .. hi - 1 : k = hi - 1 \/ d[hi - 1] < d[k]}
<1>1. T \in SUBSET Nat /\ hi - 1 \in T
  OBVIOUS
<1>2. PICK k \in T : \A m \in T : k <= m
  <2> HIDE DEF T
  <2> QED
    BY <1>1, Least
<1>3. \A j \in left + 1 .. k - 1 : ~(d[hi - 1] < d[j])
  <2> SUFFICES ASSUME NEW j \in left + 1 .. k - 1, d[hi - 1] < d[j] PROVE FALSE
    OBVIOUS
  <2>1. j \in left + 1 .. hi - 1 /\ ~(k <= j)
    OBVIOUS
  <2>2. j \in T
    BY <2>1
  <2> QED
    BY <1>2, <2>1, <2>2
<1>4. k \in left + 1 .. hi - 1 /\ Ends(k)
  BY <1>3
<1>5. Sorted!Upwards(d, left, hi) = CHOOSE q \in left + 1 .. hi - 1 : Ends(q)
  BY DEF Sorted!Upwards
<1>6. Sorted!Upwards(d, left, hi) \in left + 1 .. hi - 1 /\ Ends(Sorted!Upwards(d, left, hi))
  <2> HIDE DEF Ends, T
  <2> QED
    BY <1>4, <1>5
<1> QED
  BY <1>6

LEMMA DownwardsIs ==
  ASSUME NEW n \in Nat, NEW d \in Data(n), NEW lo \in Nat, NEW hi \in Int, lo < hi, hi < n,
         NEW right \in lo .. hi - 1, right > lo, NEW v
  PROVE  LET r == Sorted!Downwards(d, right, lo, v)
         IN /\ r \in lo .. right - 1 /\ (r = lo \/ d[r] < v)
            /\ \A j \in r + 1 .. right - 1 : ~(d[j] < v)
<1> DEFINE Ends(k) == (k = lo \/ d[k] < v) /\ \A j \in k + 1 .. right - 1 : ~(d[j] < v)
           T == {x \in Nat : right - 1 - x \in lo .. right - 1 /\ (right - 1 - x = lo \/ d[right - 1 - x] < v)}
<1>1. T \in SUBSET Nat /\ right - 1 - lo \in T
  OBVIOUS
<1>2. PICK x \in T : \A m \in T : x <= m
  <2> HIDE DEF T
  <2> QED
    BY <1>1, Least
<1> DEFINE k == right - 1 - x
<1>3. x \in Nat /\ k \in lo .. right - 1 /\ (k = lo \/ d[k] < v)
  OBVIOUS
<1>4. \A j \in k + 1 .. right - 1 : ~(d[j] < v)
  <2> SUFFICES ASSUME NEW j \in k + 1 .. right - 1, d[j] < v PROVE FALSE
    OBVIOUS
  <2>1. right - 1 - j \in Nat /\ right - 1 - (right - 1 - j) = j /\ j \in lo .. right - 1 /\ ~(x <= right - 1 - j)
    BY <1>3
  <2>2. right - 1 - j \in T
    BY <2>1
  <2> QED
    BY <1>2, <2>1, <2>2
<1> HIDE DEF k
<1>5. k \in lo .. right - 1 /\ Ends(k)
  BY <1>3, <1>4
<1>6. Sorted!Downwards(d, right, lo, v) = CHOOSE q \in lo .. right - 1 : Ends(q)
  BY DEF Sorted!Downwards
<1>7. Sorted!Downwards(d, right, lo, v) \in lo .. right - 1 /\ Ends(Sorted!Downwards(d, right, lo, v))
  <2> HIDE DEF Ends, T
  <2> QED
    BY <1>5, <1>6
<1> QED
  BY <1>7

LEMMA PartitionIs ==
  ASSUME NEW n \in Nat, NEW lo \in Nat, NEW hi \in Int, lo < hi, hi < n, NEW s \in Partings(n, lo, hi)
  PROVE  LET e == Sorted!Partition(s, lo, hi)
         IN /\ e \in Partings(n, lo, hi) /\ Moved(n, s.d, e.d, lo, hi)
            /\ \A v \in Int : Parting(s, lo, hi, v) => Parting(e, lo, hi, v)
            /\ e.left > s.left \/ (e = s /\ s.left >= s.right)
<1> DEFINE d == s.d
           w == d[hi - 1]
           l == Sorted!Upwards(d, s.left, hi)
           r == Sorted!Downwards(d, s.right, lo, w)
           u == IF l >= r THEN d ELSE Sorted!Swapped(d, l, r)
           e == Sorted!Partition(s, lo, hi)
<1>1. d \in Data(n) /\ s.left \in lo .. hi - 1 /\ s.right \in lo .. hi - 1
  BY DEF Partings
<1>2. e = IF s.left >= s.right THEN s ELSE [d |-> u, left |-> l, right |-> r]
  BY DEF Sorted!Partition
<1>3. CASE s.left >= s.right
  <2>1. e = s
    BY <1>2, <1>3
  <2> HIDE DEF e
  <2>2. Moved(n, s.d, s.d, lo, hi)
    BY <1>1, MovedNot
  <2> QED
    BY <1>3, <2>1, <2>2 DEF e
<1>4. CASE ~(s.left >= s.right)
  <2>1. e.d = u /\ e.left = l /\ e.right = r /\ e = [d |-> u, left |-> l, right |-> r]
    BY <1>2, <1>4
  <2>2. s.left < s.right /\ s.left < hi - 1 /\ s.right > lo
    BY <1>1, <1>4
  <2> HIDE DEF e, d
  <2>3. /\ l \in s.left + 1 .. hi - 1 /\ (l = hi - 1 \/ w < d[l])
        /\ \A j \in s.left + 1 .. l - 1 : ~(w < d[j])
    BY <1>1, <2>2, UpwardsIs
  <2> HIDE DEF w, l
  <2>4. /\ r \in lo .. s.right - 1 /\ (r = lo \/ d[r] < w)
        /\ \A j \in r + 1 .. s.right - 1 : ~(d[j] < w)
    BY <1>1, <2>2, DownwardsIs
  <2> HIDE DEF r
  <2>5. l \in lo + 1 .. hi - 1 /\ l \in 0 .. n - 1 /\ l \in lo .. hi /\ r \in 0 .. n - 1 /\ r \in lo .. hi - 1 /\ r \in lo .. hi
    BY <1>1, <2>3, <2>4
  <2>6. hi - 1 \in 0 .. n - 1 /\ lo \in Int /\ \A i \in lo .. hi : i \in 0 .. n - 1
    OBVIOUS
  <2>7. w \in Int /\ \A i \in 0 .. n - 1 : d[i] \in Int
    BY <1>1, <2>6, DataIs DEF w
  <2>8. CASE l >= r
    <3>1. u = d
      BY <2>8
    <3> HIDE DEF u
    <3>2. Moved(n, d, d, lo, hi)
      BY <1>1, <2>6, MovedNot
    <3>3. ASSUME NEW v \in Int, Parting(s, lo, hi, v) PROVE Parting(e, lo, hi, v)
      <4>1. v = w /\ (\A i \in lo .. s.left : d[i] <= v) /\ \A i \in s.right .. hi : v <= d[i]
        BY <2>2, <3>3 DEF Parting, w, d
      <4>2. \A i \in lo .. l - 1 : d[i] <= v
        <5> SUFFICES ASSUME NEW i \in lo .. l - 1 PROVE d[i] <= v
          OBVIOUS
        <5>1. i \in lo .. s.left \/ i \in s.left + 1 .. l - 1
          BY <1>1, <2>5
        <5>2. d[i] \in Int
          BY <2>5, <2>7
        <5> QED
          BY <2>3, <2>7, <4>1, <5>1, <5>2
      <4>3. \A i \in l .. hi : v <= d[i]
        <5> SUFFICES ASSUME NEW i \in l .. hi PROVE v <= d[i]
          OBVIOUS
        <5>1. d[i] \in Int
          BY <2>5, <2>6, <2>7
        <5>2. CASE i = l
          BY <2>3, <2>7, <4>1, <5>1, <5>2 DEF w
        <5>3. CASE i # l
          <6>1. i \in r + 1 .. s.right - 1 \/ i \in s.right .. hi
            BY <1>1, <2>5, <2>8, <5>3
          <6> QED
            BY <2>4, <2>7, <4>1, <5>1, <6>1
        <5> QED
          BY <5>2, <5>3
      <4>4. ~(e.left < e.right) /\ e.left > lo /\ e.d = d /\ e.left = l
        BY <2>1, <2>5, <2>8, <3>1
      <4>5. e.d[hi - 1] = v
        BY <4>1, <4>4 DEF w
      <4> QED
        BY <4>2, <4>3, <4>4, <4>5 DEF Parting
    <3>4. e \in Partings(n, lo, hi) /\ e.left > s.left
      BY <1>1, <2>1, <2>3, <2>5, <3>1 DEF Partings
    <3> QED
      BY <2>1, <3>1, <3>2, <3>3, <3>4 DEF e, d
  <2>9. CASE ~(l >= r)
    <3>1. u = Sorted!Swapped(d, l, r)
      BY <2>9
    <3> HIDE DEF u
    <3>2. Moved(n, d, u, lo, hi) /\ Swaps(n, d, u, l, r)
      BY <1>1, <2>5, <2>6, <3>1, SwappedMoves
    <3>3. u \in Data(n) /\ \A i \in 0 .. n - 1 : u[i] = IF i = l THEN d[r] ELSE IF i = r THEN d[l] ELSE d[i]
      BY <3>2 DEF Swaps
    <3>4. l < r /\ r < hi - 1 /\ l # hi - 1 /\ r # lo /\ r # hi - 1
      BY <1>1, <2>4, <2>5, <2>9
    <3>5. ASSUME NEW v \in Int, Parting(s, lo, hi, v) PROVE Parting(e, lo, hi, v)
      <4>1. v = w /\ (\A i \in lo .. s.left : d[i] <= v) /\ \A i \in s.right .. hi : v <= d[i]
        BY <2>2, <3>5 DEF Parting, w, d
      <4>2. \A i \in lo .. l : u[i] <= v
        <5> SUFFICES ASSUME NEW i \in lo .. l PROVE u[i] <= v
          OBVIOUS
        <5>1. i \in 0 .. n - 1 /\ i # r
          BY <2>5, <3>4
        <5>2. CASE i = l
          <6>1. u[i] = d[r] /\ d[r] < w /\ d[r] \in Int
            BY <2>4, <2>5, <2>7, <3>3, <3>4, <5>1, <5>2
          <6> QED
            BY <2>7, <4>1, <6>1
        <5>3. CASE i # l
          <6>1. i \in lo .. s.left \/ i \in s.left + 1 .. l - 1
            BY <1>1, <2>5, <5>3
          <6>2. u[i] = d[i] /\ d[i] \in Int
            BY <2>7, <3>3, <5>1, <5>3
          <6> QED
            BY <2>3, <2>7, <4>1, <6>1, <6>2
        <5> QED
          BY <5>2, <5>3
      <4>3. \A i \in r .. hi : v <= u[i]
        <5> SUFFICES ASSUME NEW i \in r .. hi PROVE v <= u[i]
          OBVIOUS
        <5>1. i \in 0 .. n - 1 /\ i # l
          BY <2>5, <3>4
        <5>2. CASE i = r
          <6>1. u[i] = d[l] /\ w < d[l] /\ d[l] \in Int
            BY <2>3, <2>5, <2>7, <3>3, <3>4, <5>1, <5>2
          <6> QED
            BY <2>7, <4>1, <6>1
        <5>3. CASE i # r
          <6>1. i \in r + 1 .. s.right - 1 \/ i \in s.right .. hi
            BY <1>1, <2>5, <5>3
          <6>2. u[i] = d[i] /\ d[i] \in Int
            BY <2>7, <3>3, <5>1, <5>3
          <6> QED
            BY <2>4, <2>7, <4>1, <6>1, <6>2
        <5> QED
          BY <5>2, <5>3
      <4>4. u[hi - 1] = w
        BY <2>6, <3>3, <3>4 DEF w
      <4>5. e.left < e.right /\ ~(e.left >= e.right)
        BY <2>1, <2>5, <3>4
      <4> QED
        BY <2>1, <4>1, <4>2, <4>3, <4>4, <4>5 DEF Parting
    <3>6. e \in Partings(n, lo, hi) /\ e.left > s.left
      BY <1>1, <2>1, <2>3, <2>5, <3>3 DEF Partings
    <3> QED
      BY <2>1, <3>2, <3>5, <3>6 DEF e, d
  <2> QED
    BY <2>8, <2>9
<1> QED
  BY <1>3, <1>4

LEMMA MiddleIs ==
  ASSUME NEW lo \in Int, NEW hi \in Int, lo <= hi
  PROVE  /\ Sorted!getMiddleIndex(lo, hi) \in lo .. hi
         /\ hi - lo >= 3 => Sorted!getMiddleIndex(lo, hi) \in lo + 1 .. hi - 1
<1> DEFINE k == hi - lo
           x == k \div 2
<1>1. k \in Nat
  OBVIOUS
<1>2. Sorted!getMiddleIndex(lo, hi) = lo + x
  BY DEF Sorted!getMiddleIndex
<1> HIDE DEF k
<1>3. k = 2 * x + (k % 2) /\ k % 2 \in 0 .. 1 /\ x \in Int
  BY <1>1, DivMod
<1> HIDE DEF x
<1>4. x \in 0 .. k /\ (k >= 3 => x \in 1 .. k - 1)
  BY <1>1, <1>3
<1> QED
  BY <1>2, <1>4 DEF k

\* A pivot with nothing greater before it and nothing less behind it.
LEMMA PivotIs ==
  ASSUME NEW n \in Nat, NEW d \in Data(n), NEW lo \in Nat, NEW hi \in Int, hi < n, hi - lo >= 3
  PROVE  LET p == Sorted!pickPivotAndPartition(d, lo, hi)
         IN /\ p.at \in lo + 1 .. hi - 1
            /\ Moved(n, d, p.d, lo, hi)
            /\ \A i \in lo .. p.at - 1 : p.d[i] <= p.d[p.at]
            /\ \A i \in p.at + 1 .. hi : p.d[p.at] <= p.d[i]
<1> DEFINE mid == Sorted!getMiddleIndex(lo, hi)
           e == Sorted!swapIfGreater(Sorted!swapIfGreater(Sorted!swapIfGreater(d, lo, mid), lo, hi), mid, hi)
           f == Sorted!Swapped(e, mid, hi - 1)
           m == hi - lo
           b == [d |-> f, left |-> lo, right |-> hi - 1]
           Solves(g) == g = [k \in 0 .. m |-> IF k = 0 THEN b ELSE Sorted!Partition(g[k - 1], lo, hi)]
           turn == CHOOSE g : Solves(g)
           last == turn[m]
           S == Partings(n, lo, hi)
           v == f[hi - 1]
           t == [k \in 0 + 1 .. m |-> [s \in S |-> Sorted!Partition(s, lo, hi)]]
           p == Sorted!pickPivotAndPartition(d, lo, hi)
<1>1. /\ lo \in Int /\ lo \in 0 .. n - 1 /\ hi \in 0 .. n - 1 /\ hi - 1 \in 0 .. n - 1 /\ m \in Nat
      /\ lo \in lo .. hi /\ hi \in lo .. hi /\ hi - 1 \in lo .. hi /\ lo \in lo .. hi - 1 /\ hi - 1 \in lo .. hi - 1
      /\ lo <= hi /\ lo < hi /\ lo # hi /\ lo < hi - 1
  OBVIOUS
<1>2. mid \in lo + 1 .. hi - 1 /\ mid \in 0 .. n - 1 /\ mid \in lo .. hi /\ mid # lo /\ mid # hi
  <2>1. mid \in lo + 1 .. hi - 1
    BY <1>1, MiddleIs
  <2> HIDE DEF mid
  <2> QED
    BY <2>1
<1>3. p = [d |-> Sorted!Swapped(last.d, last.left, hi - 1), at |-> last.left]
  BY DEF Sorted!pickPivotAndPartition
<1> HIDE DEF mid, p
<1>4. Moved(n, d, e, lo, hi) /\ e \in Data(n) /\ e[lo] <= e[mid] /\ e[mid] <= e[hi]
  BY <1>1, <1>2, ThreeAre
<1> HIDE DEF e
<1>5. Moved(n, e, f, lo, hi) /\ Swaps(n, e, f, mid, hi - 1)
  BY <1>1, <1>2, <1>4, SwappedMoves
<1>6. f \in Data(n) /\ \A i \in 0 .. n - 1 : f[i] = IF i = mid THEN e[hi - 1] ELSE IF i = hi - 1 THEN e[mid] ELSE e[i]
  BY <1>5 DEF Swaps
<1> HIDE DEF f
<1>7. b \in S /\ Parting(b, lo, hi, v) /\ b.left = lo /\ b.d = f /\ v \in Int
  <2>1. b \in S /\ b.left = lo /\ b.d = f /\ b.right = hi - 1
    BY <1>1, <1>6 DEF Partings
  <2>2. f[lo] = e[lo] /\ f[hi] = e[hi] /\ v = e[mid] /\ v \in Int
    <3>1. f[lo] = e[lo]
      BY <1>1, <1>2, <1>6
    <3>2. f[hi] = e[hi]
      <4>1. hi # hi - 1
        OBVIOUS
      <4> QED
        BY <1>1, <1>2, <1>6, <4>1
    <3>3. f[hi - 1] = e[mid]
      BY <1>1, <1>2, <1>6
    <3>4. v \in Int
      BY <1>1, <1>6, DataIs
    <3> QED
      BY <3>1, <3>2, <3>3, <3>4
  <2> HIDE DEF b
  <2>3. \A i \in lo .. b.left : b.d[i] <= v
    <3>1. \A i \in lo .. lo : i = lo
      OBVIOUS
    <3> QED
      BY <1>4, <2>1, <2>2, <3>1
  <2>4. \A i \in b.right .. hi : v <= b.d[i]
    <3>1. \A i \in hi - 1 .. hi : i = hi - 1 \/ i = hi
      OBVIOUS
    <3>2. v <= v
      BY <2>2
    <3> QED
      BY <1>4, <2>1, <2>2, <3>1, <3>2
  <2>5. ~(b.left >= b.right)
    BY <1>1, <2>1
  <2> QED
    BY <2>1, <2>2, <2>3, <2>4, <2>5 DEF Parting
<1> HIDE DEF b
<1>8. ASSUME NEW s \in S
      PROVE  LET u == Sorted!Partition(s, lo, hi)
             IN /\ u \in S /\ Moved(n, s.d, u.d, lo, hi)
                /\ Parting(s, lo, hi, v) => Parting(u, lo, hi, v)
                /\ u.left > s.left \/ (u = s /\ s.left >= s.right)
  BY <1>1, <1>7, PartitionIs
<1> HIDE DEF v
<1>9. turn[0] = b /\ \A q \in 1 .. m : turn[q] = Sorted!Partition(turn[q - 1], lo, hi)
  <2> HIDE DEF m
  <2>1. t \in Loops(0, m, S)
    BY <1>8 DEF Loops
  <2>2. PICK g : Follows(g, 0, m, S, b, t)
    <3> HIDE DEF t
    <3>1. 0 \in Int /\ m \in Int /\ 0 <= m /\ b \in S
      BY <1>1, <1>7
    <3> HIDE DEF S
    <3> QED
      BY <2>1, <3>1, Turns
  <2>3. \A q \in 1 .. m : q - 1 \in 0 .. m /\ q \in 0 .. m /\ q # 0 /\ q \in 0 + 1 .. m
    BY <1>1
  <2>4. \A q \in 1 .. m : g[q] = Sorted!Partition(g[q - 1], lo, hi)
    <3>1. g \in [0 .. m -> S] /\ \A q \in 0 + 1 .. m : g[q] = t[q][g[q - 1]]
      BY <2>2 DEF Follows
    <3> QED
      BY <2>3, <3>1
  <2>5. \A q \in 0 .. m : q = 0 \/ q \in 1 .. m
    BY <1>1
  <2>6. g \in [0 .. m -> S] /\ \A q \in 0 .. m : g[q] = IF q = 0 THEN b ELSE Sorted!Partition(g[q - 1], lo, hi)
    BY <2>2, <2>4, <2>5 DEF Follows
  <2>7. Solves(g)
    BY <2>6
  <2>8. Solves(turn)
    <3> HIDE DEF Solves
    <3> QED
      BY <2>7
  <2> HIDE DEF turn
  <2>9. 0 \in 0 .. m
    BY <1>1
  <2> QED
    BY <2>3, <2>8, <2>9
<1> HIDE DEF turn, S
<1> DEFINE T == {q \in 0 .. m : /\ turn[q] \in S /\ Moved(n, f, turn[q].d, lo, hi)
                                /\ Parting(turn[q], lo, hi, v)
                                /\ turn[q].left >= lo + q \/ turn[q].left >= turn[q].right}
<1>10. 0 \in T
  <2>1. Moved(n, f, f, lo, hi)
    BY <1>1, <1>6, MovedNot
  <2>2. 0 \in 0 .. m /\ lo >= lo + 0
    BY <1>1
  <2> HIDE DEF m
  <2> QED
    BY <1>7, <1>9, <2>1, <2>2
<1>11. ASSUME NEW q \in 0 + 1 .. m, q - 1 \in T PROVE q \in T
  <2> DEFINE s == turn[q - 1]
             u == turn[q]
  <2>1. /\ s \in S /\ Moved(n, f, s.d, lo, hi) /\ Parting(s, lo, hi, v)
        /\ s.left >= lo + (q - 1) \/ s.left >= s.right
    BY <1>11
  <2>2. u = Sorted!Partition(s, lo, hi) /\ q \in 0 .. m
    BY <1>9
  <2> HIDE DEF s, u
  <2>3. /\ u \in S /\ Moved(n, s.d, u.d, lo, hi) /\ Parting(u, lo, hi, v)
        /\ u.left > s.left \/ (u = s /\ s.left >= s.right)
    BY <1>8, <2>1, <2>2
  <2>4. s.d \in Data(n) /\ s.left \in Int /\ u.left \in Int /\ s.right \in Int /\ u.right \in Int
    BY <2>1, <2>3 DEF S, Partings
  <2>5. Moved(n, f, u.d, lo, hi)
    BY <1>1, <1>6, <2>1, <2>3, MovedTwice
  <2>6. u.left >= lo + q \/ u.left >= u.right
    <3>1. CASE u = s /\ s.left >= s.right
      BY <3>1
    <3>2. CASE ~(u = s /\ s.left >= s.right)
      <4>1. u.left > s.left
        BY <2>3, <3>2
      <4>2. CASE s.left >= s.right
        <5>1. u = s
          BY <1>3, <2>2, <4>2 DEF Sorted!Partition
        <5> QED
          BY <3>2, <4>2, <5>1
      <4>3. CASE ~(s.left >= s.right)
        <5>1. s.left >= lo + (q - 1)
          BY <2>1, <4>3
        <5> QED
          BY <2>4, <4>1, <5>1
      <4> QED
        BY <4>2, <4>3
    <3> QED
      BY <3>1, <3>2
  <2> QED
    BY <2>2, <2>3, <2>5, <2>6 DEF u
<1>12. m \in T
  <2> HIDE DEF T, m
  <2>1. \A q \in 0 .. m : q \in T
    BY <1>1, <1>10, <1>11, InductUpTo
  <2> QED
    BY <1>1, <2>1
<1>13. /\ last.d \in Data(n) /\ last.left \in lo .. hi - 1 /\ last.right \in lo .. hi - 1
       /\ Moved(n, f, last.d, lo, hi) /\ Parting(last, lo, hi, v)
       /\ last.left >= last.right
  <2>1. last \in S /\ Moved(n, f, last.d, lo, hi) /\ Parting(last, lo, hi, v) /\ (last.left >= lo + m \/ last.left >= last.right)
    BY <1>12
  <2>2. last.d \in Data(n) /\ last.left \in lo .. hi - 1 /\ last.right \in lo .. hi - 1
    BY <2>1 DEF S, Partings
  <2>3. ~(last.left >= lo + m)
    BY <2>2
  <2> QED
    BY <2>1, <2>2, <2>3
<1> HIDE DEF last, m
<1> DEFINE at == last.left
           g == last.d
           w == Sorted!Swapped(g, at, hi - 1)
<1>14. /\ at \in lo + 1 .. hi - 1 /\ at \in 0 .. n - 1 /\ at \in lo .. hi
       /\ g[hi - 1] = v /\ (\A i \in lo .. at - 1 : g[i] <= v) /\ \A i \in at .. hi : v <= g[i]
  BY <1>1, <1>13 DEF Parting
<1>15. Moved(n, g, w, lo, hi) /\ Swaps(n, g, w, at, hi - 1)
  BY <1>1, <1>13, <1>14, SwappedMoves
<1>16. p.d = w /\ p.at = at
  BY <1>3
<1> HIDE DEF w, at, g
<1>17. g \in Data(n) /\ Moved(n, f, g, lo, hi)
  BY <1>13 DEF g
<1>18. Moved(n, d, w, lo, hi)
  <2>1. Moved(n, d, f, lo, hi)
    BY <1>1, <1>4, <1>5, MovedTwice
  <2>2. Moved(n, d, g, lo, hi)
    BY <1>1, <2>1, <1>17, MovedTwice
  <2> QED
    BY <1>1, <1>15, <2>2, MovedTwice
<1>19. \A i \in 0 .. n - 1 : w[i] = IF i = at THEN g[hi - 1] ELSE IF i = hi - 1 THEN g[at] ELSE g[i]
  BY <1>15 DEF Swaps
<1>20. w[at] = v
  BY <1>14, <1>19
<1>21. ASSUME NEW i \in lo .. at - 1 PROVE w[i] <= v
  <2>1. i \in 0 .. n - 1 /\ i # at /\ i # hi - 1
    BY <1>14
  <2> QED
    BY <1>14, <1>19, <2>1
<1>22. ASSUME NEW i \in at + 1 .. hi PROVE v <= w[i]
  <2>1. i \in 0 .. n - 1 /\ i # at /\ i \in at .. hi /\ at \in at .. hi
    BY <1>14
  <2>2. w[i] = g[at] \/ w[i] = g[i]
    BY <1>19, <2>1
  <2> QED
    BY <1>14, <2>1, <2>2
<1> QED
  BY <1>14, <1>16, <1>18, <1>20, <1>21, <1>22 DEF p

\* Both sides of a pivot in order.
LEMMA SidesSort ==
  ASSUME NEW n \in Nat, NEW d \in Data(n), NEW g, NEW r, NEW e, NEW lo \in Nat, NEW hi \in Int, hi < n,
         NEW at \in lo + 1 .. hi - 1, Moved(n, d, g, lo, hi),
         \A i \in lo .. at - 1 : g[i] <= g[at], \A i \in at + 1 .. hi : g[at] <= g[i],
         Sorts(n, g, r, at + 1, hi), Sorts(n, r, e, lo, at - 1)
  PROVE  Sorts(n, d, e, lo, hi)
<1>1. lo \in Int /\ at \in Int /\ at + 1 \in Int /\ at - 1 \in Int /\ lo <= at + 1 /\ at - 1 <= hi /\ hi <= hi /\ lo <= lo
  OBVIOUS
<1>2. Moved(n, g, r, at + 1, hi) /\ Ordered(r, at + 1, hi) /\ Moved(n, r, e, lo, at - 1) /\ Ordered(e, lo, at - 1)
  BY DEF Sorts
<1>3. g \in Data(n)
  BY <1>1, MovedIs
<1>4. /\ r \in Data(n) /\ \A i \in 0 .. n - 1 : i \notin at + 1 .. hi => r[i] = g[i]
      /\ \A i \in 0 .. n - 1 : i \in at + 1 .. hi => \E j \in 0 .. n - 1 : j \in at + 1 .. hi /\ r[i] = g[j]
  BY <1>1, <1>2, <1>3, MovedIs
<1>5. /\ e \in Data(n) /\ \A i \in 0 .. n - 1 : i \notin lo .. at - 1 => e[i] = r[i]
      /\ \A i \in 0 .. n - 1 : i \in lo .. at - 1 => \E j \in 0 .. n - 1 : j \in lo .. at - 1 /\ e[i] = r[j]
  BY <1>1, <1>2, <1>4, MovedIs
<1>6. Moved(n, d, e, lo, hi)
  <2>1. Moved(n, g, r, lo, hi)
    BY <1>1, <1>2, MovedWider
  <2>2. Moved(n, r, e, lo, hi)
    BY <1>1, <1>2, MovedWider
  <2>3. Moved(n, d, r, lo, hi)
    BY <1>1, <2>1, MovedTwice
  <2> QED
    BY <1>1, <2>2, <2>3, MovedTwice
<1> DEFINE v == g[at]
<1>7. ASSUME NEW i \in lo .. at - 1 PROVE e[i] <= v
  <2>1. i \in 0 .. n - 1
    OBVIOUS
  <2>2. PICK j \in 0 .. n - 1 : j \in lo .. at - 1 /\ e[i] = r[j]
    BY <1>5, <2>1
  <2>3. j \notin at + 1 .. hi
    BY <2>2
  <2> QED
    BY <1>4, <2>2, <2>3
<1>8. e[at] = v
  <2>1. at \in 0 .. n - 1 /\ at \notin at + 1 .. hi /\ at \notin lo .. at - 1
    OBVIOUS
  <2> QED
    BY <1>4, <1>5, <2>1
<1>9. ASSUME NEW i \in at + 1 .. hi PROVE e[i] = r[i] /\ v <= e[i]
  <2>1. i \in 0 .. n - 1 /\ i \notin lo .. at - 1
    OBVIOUS
  <2>2. PICK j \in 0 .. n - 1 : j \in at + 1 .. hi /\ r[i] = g[j]
    BY <1>4, <2>1
  <2> QED
    BY <1>5, <2>1, <2>2
<1>10. v \in Int /\ \A i \in lo .. hi : e[i] \in Int
  <2>1. at \in 0 .. n - 1 /\ \A i \in lo .. hi : i \in 0 .. n - 1
    OBVIOUS
  <2> QED
    BY <1>3, <1>5, <2>1, DataIs
<1> HIDE DEF v
<1>11. ASSUME NEW i \in lo .. hi, NEW j \in lo .. hi, i <= j PROVE e[i] <= e[j]
  <2>1. CASE j \in lo .. at - 1
    <3>1. i \in lo .. at - 1
      BY <1>11, <2>1
    <3> QED
      BY <1>2, <1>11, <2>1, <3>1 DEF Ordered
  <2>2. CASE i \in at + 1 .. hi
    <3>1. j \in at + 1 .. hi
      BY <1>11, <2>2
    <3>2. r[i] <= r[j]
      BY <1>2, <1>11, <2>2, <3>1 DEF Ordered
    <3> QED
      BY <1>9, <2>2, <3>1, <3>2
  <2>3. CASE j \notin lo .. at - 1 /\ i \notin at + 1 .. hi
    <3>1. e[i] <= v
      <4>1. i \in lo .. at - 1 \/ i = at
        BY <2>3
      <4> QED
        BY <1>7, <1>8, <1>10, <4>1
    <3>2. v <= e[j]
      <4>1. j \in at + 1 .. hi \/ j = at
        BY <2>3
      <4> QED
        BY <1>8, <1>9, <1>10, <4>1
    <3> QED
      BY <1>10, <3>1, <3>2
  <2> QED
    BY <2>1, <2>2, <2>3
<1> QED
  BY <1>6, <1>11 DEF Sorts, Ordered

Calls(n) == [d : Data(n), lo : Int, hi : Int]

\* A way to sort whatever part of a span.
Sorting(n, sort) == \A c \in Calls(n) : c.lo \in Nat /\ c.hi < n => Sorts(n, c.d, sort[c], c.lo, c.hi)

LEMMA IntroSortedIs ==
  ASSUME NEW n \in Nat, NEW c \in Calls(n), c.lo \in Nat, c.hi < n, NEW depth \in Nat, NEW sort,
         depth # 0 => Sorting(n, sort)
  PROVE  Sorts(n, c.d, Sorted!IntroSorted(c, depth, sort), c.lo, c.hi)
<1> DEFINE d == c.d
           lo == c.lo
           hi == c.hi
           size == hi - lo + 1
           e == Sorted!IntroSorted(c, depth, sort)
<1>1. d \in Data(n) /\ lo \in Nat /\ lo \in Int /\ hi \in Int /\ hi < n
  BY DEF Calls
<1>2. /\ size <= 1 => e = d
      /\ size = 2 => e = Sorted!swapIfGreater(d, lo, hi)
      /\ size = 3 => e = Sorted!swapIfGreater(Sorted!swapIfGreater(Sorted!swapIfGreater(d, lo, hi - 1), lo, hi), hi - 1, hi)
      /\ size > 3 /\ size <= PartitionSizeTreshold => e = Sorted!insertionSort(d, lo, hi)
      /\ size > 3 /\ ~(size <= PartitionSizeTreshold) /\ depth = 0 => e = Sorted!heapSortSpan(d, lo, size)
  BY <1>1, SpansAssumption DEF Sorted!IntroSorted
<1>3. size > 3 /\ ~(size <= PartitionSizeTreshold) /\ depth # 0 =>
        LET split == Sorted!pickPivotAndPartition(d, lo, hi)
            right == sort[[d |-> split.d, lo |-> split.at + 1, hi |-> hi]]
        IN e = sort[[d |-> right, lo |-> lo, hi |-> split.at - 1]]
  BY <1>1, SpansAssumption DEF Sorted!IntroSorted
<1> HIDE DEF d, lo, hi, e
<1>4. size \in Int
  BY <1>1
<1>5. CASE size <= 1
  <2>1. Moved(n, d, d, lo, hi)
    BY <1>1, MovedNot
  <2>2. ASSUME NEW i \in lo .. hi, NEW j \in lo .. hi PROVE d[i] <= d[j]
    <3>1. i = j /\ i \in 0 .. n - 1
      BY <1>1, <1>5
    <3>2. d[i] \in Int
      BY <1>1, <3>1, DataIs
    <3> QED
      BY <3>1, <3>2
  <2> QED
    BY <1>2, <1>5, <2>1, <2>2 DEF Sorts, Ordered, d, lo, hi, e
<1>6. CASE size = 2
  <2>1. /\ hi = lo + 1 /\ lo \in 0 .. n - 1 /\ hi \in 0 .. n - 1 /\ lo \in lo .. hi /\ hi \in lo .. hi /\ lo # hi
        /\ \A i \in lo .. hi : i = lo \/ i = hi
    BY <1>1, <1>6
  <2> HIDE DEF size
  <2>2. Moved(n, d, e, lo, hi) /\ Compared(n, d, e, lo, hi)
    BY <1>1, <1>2, <1>6, <2>1, SwapIfGreaterIs
  <2>3. e \in Data(n) /\ e[lo] <= e[hi]
    BY <2>2 DEF Compared
  <2>4. e[lo] \in Int /\ e[hi] \in Int
    BY <2>1, <2>3, DataIs
  <2>5. ASSUME NEW i \in lo .. hi, NEW j \in lo .. hi, i <= j PROVE e[i] <= e[j]
    <3>1. (i = lo \/ i = hi) /\ (j = lo \/ j = hi) /\ ~(i = hi /\ j = lo)
      BY <1>1, <2>1, <2>5
    <3> QED
      BY <2>3, <2>4, <3>1
  <2> QED
    BY <2>2, <2>5 DEF Sorts, Ordered, d, lo, hi, e
<1>7. CASE size = 3
  <2> DEFINE mid == hi - 1
  <2>1. /\ lo \in 0 .. n - 1 /\ hi \in 0 .. n - 1 /\ mid \in 0 .. n - 1
        /\ lo \in lo .. hi /\ hi \in lo .. hi /\ mid \in lo .. hi /\ lo < mid /\ mid < hi
        /\ lo # mid /\ lo # hi /\ mid # hi
        /\ \A i \in lo .. hi : i = lo \/ i = mid \/ i = hi
    BY <1>1, <1>7
  <2>2. e = Sorted!swapIfGreater(Sorted!swapIfGreater(Sorted!swapIfGreater(d, lo, mid), lo, hi), mid, hi)
    BY <1>2, <1>7
  <2> HIDE DEF size, mid
  <2>3. Moved(n, d, e, lo, hi) /\ e \in Data(n) /\ e[lo] <= e[mid] /\ e[mid] <= e[hi]
    BY <1>1, <2>1, <2>2, ThreeAre
  <2>4. e[lo] \in Int /\ e[mid] \in Int /\ e[hi] \in Int
    BY <2>1, <2>3, DataIs
  <2>5. ASSUME NEW i \in lo .. hi, NEW j \in lo .. hi, i <= j PROVE e[i] <= e[j]
    <3>1. (i = lo \/ i = mid \/ i = hi) /\ (j = lo \/ j = mid \/ j = hi)
      BY <2>1
    <3>2. ~(i = hi /\ j = lo) /\ ~(i = hi /\ j = mid) /\ ~(i = mid /\ j = lo)
      BY <1>1, <2>1, <2>5
    <3> QED
      BY <2>3, <2>4, <3>1, <3>2
  <2> QED
    BY <2>3, <2>5 DEF Sorts, Ordered, d, lo, hi, e
<1>8. CASE size > 3 /\ size <= PartitionSizeTreshold
  <2>1. Sorts(n, d, Sorted!insertionSort(d, lo, hi), lo, hi)
    BY <1>1, InsertionSorts
  <2> QED
    BY <1>2, <1>8, <2>1 DEF d, lo, hi, e
<1>9. CASE size > 3 /\ ~(size <= PartitionSizeTreshold) /\ depth = 0
  <2>1. size \in Nat \ {0} /\ lo + size <= n /\ lo + size - 1 = hi
    BY <1>1, <1>9
  <2>2. e = Sorted!heapSortSpan(d, lo, size)
    BY <1>2, <1>9
  <2> HIDE DEF size
  <2>3. Sorts(n, d, Sorted!heapSortSpan(d, lo, size), lo, lo + size - 1)
    BY <1>1, <2>1, HeapSorts
  <2> QED
    BY <2>1, <2>2, <2>3 DEF d, lo, hi, e
<1>10. CASE size > 3 /\ ~(size <= PartitionSizeTreshold) /\ depth # 0
  <2> DEFINE split == Sorted!pickPivotAndPartition(d, lo, hi)
             g == split.d
             at == split.at
             b == [d |-> g, lo |-> at + 1, hi |-> hi]
             r == sort[b]
             a == [d |-> r, lo |-> lo, hi |-> at - 1]
  <2>1. hi - lo >= 3
    BY <1>1, <1>10
  <2>2. /\ at \in lo + 1 .. hi - 1 /\ Moved(n, d, g, lo, hi)
        /\ \A i \in lo .. at - 1 : g[i] <= g[at]
        /\ \A i \in at + 1 .. hi : g[at] <= g[i]
    BY <1>1, <2>1, PivotIs
  <2>3. e = sort[a]
    BY <1>3, <1>10
  <2> HIDE DEF split, g, at
  <2>4. g \in Data(n) /\ at + 1 \in Nat /\ at - 1 \in Int /\ at - 1 < n /\ at + 1 \in Int
    <3>1. g \in Data(n)
      BY <1>1, <2>2, MovedIs
    <3> QED
      BY <1>1, <2>2, <3>1
  <2>5. b \in Calls(n) /\ b.d = g /\ b.lo = at + 1 /\ b.hi = hi
    BY <1>1, <2>4 DEF Calls
  <2> HIDE DEF b
  <2>6. Sorts(n, g, r, at + 1, hi)
    <3>1. Sorts(n, b.d, sort[b], b.lo, b.hi)
      BY <1>1, <1>10, <2>4, <2>5 DEF Sorting
    <3> QED
      BY <2>5, <3>1
  <2> HIDE DEF r
  <2>7. r \in Data(n)
    BY <1>1, <2>4, <2>6, MovedIs DEF Sorts
  <2>8. a \in Calls(n) /\ a.d = r /\ a.lo = lo /\ a.hi = at - 1
    BY <1>1, <2>4, <2>7 DEF Calls
  <2> HIDE DEF a
  <2>9. Sorts(n, r, e, lo, at - 1)
    <3>1. Sorts(n, a.d, sort[a], a.lo, a.hi)
      BY <1>1, <1>10, <2>4, <2>8 DEF Sorting
    <3> QED
      BY <2>3, <2>8, <3>1
  <2>10. Sorts(n, d, e, lo, hi)
    BY <1>1, <2>2, <2>6, <2>9, SidesSort
  <2> QED
    BY <2>10 DEF d, lo, hi, e
<1> QED
  BY <1>4, <1>5, <1>6, <1>7, <1>8, <1>9, <1>10, SpansAssumption

\* Without a level left, what it would call does not matter.
LEMMA LastLevel ==
  ASSUME NEW n \in Nat, NEW c \in Calls(n), NEW s, NEW t
  PROVE  Sorted!IntroSorted(c, 0, s) = Sorted!IntroSorted(c, 0, t)
<1> DEFINE size == c.hi - c.lo + 1
<1>1. size \in Int
  BY DEF Calls
<1>2. size <= 1 \/ size = 2 \/ size = 3 \/ (size > 3 /\ size <= PartitionSizeTreshold) \/ (size > 3 /\ size > PartitionSizeTreshold)
  BY <1>1, SpansAssumption
<1> QED
  BY <1>1, <1>2, SpansAssumption DEF Sorted!IntroSorted

LEMMA IntroSorts ==
  ASSUME NEW n \in Nat, NEW d \in Data(n), NEW lo \in Nat, NEW hi \in Int, hi < n, NEW depth \in Nat
  PROVE  Sorts(n, d, Sorted!introSort(d, lo, hi, depth), lo, hi)
<1> DEFINE C == Calls(n)
           F(k, s) == [c \in C |-> Sorted!IntroSorted(c, k, s)]
           Solves(g) == g = [k \in 0 .. depth |-> F(k, g[k - 1])]
           sort == CHOOSE g : Solves(g)
           b == [d |-> d, lo |-> lo, hi |-> hi]
<1>1. DOMAIN d = 0 .. n - 1
  BY DEF Data
<1>2. Sorted!introSort(d, lo, hi, depth) = sort[depth][b]
  BY <1>1 DEF Sorted!introSort, Calls, Data
<1>3. b \in C /\ b.d = d /\ b.lo = lo /\ b.hi = hi
  BY DEF Calls
<1> HIDE DEF b
<1>4. \A s, t : F(0, s) = F(0, t)
  BY LastLevel
<1>5. ASSUME NEW k \in Nat, NEW s, k # 0 => Sorting(n, s) PROVE Sorting(n, F(k, s))
  <2> SUFFICES ASSUME NEW c \in C, c.lo \in Nat, c.hi < n PROVE Sorts(n, c.d, F(k, s)[c], c.lo, c.hi)
    BY DEF Sorting
  <2>1. Sorts(n, c.d, Sorted!IntroSorted(c, k, s), c.lo, c.hi)
    BY <1>5, IntroSortedIs
  <2> QED
    BY <2>1
<1> HIDE DEF F, C
<1> DEFINE Runs(g, m) == g = [k \in 0 .. m |-> F(k, g[k - 1])]
           R == {m \in 0 .. depth : \E g : Runs(g, m)}
<1>6. 0 \in R
  <2> DEFINE g == [k \in 0 .. 0 |-> F(0, {})]
  <2>1. \A k \in 0 .. 0 : g[k] = F(k, g[k - 1])
    <3>1. \A k \in 0 .. 0 : k = 0 /\ g[k] = F(0, {})
      OBVIOUS
    <3> HIDE DEF g
    <3> QED
      BY <1>4, <3>1
  <2>2. g = [k \in 0 .. 0 |-> g[k]]
    OBVIOUS
  <2> HIDE DEF g
  <2>3. Runs(g, 0)
    BY <2>1, <2>2
  <2> HIDE DEF Runs
  <2> QED
    BY <2>3
<1>7. ASSUME NEW m \in 0 + 1 .. depth, m - 1 \in R PROVE m \in R
  <2>1. PICK g : Runs(g, m - 1)
    BY <1>7
  <2> DEFINE v == F(m, g[m - 1])
             f == [k \in 0 .. m |-> IF k = m THEN v ELSE g[k]]
  <2>2. m - 1 \in 0 .. m /\ m - 1 # m /\ m \in 0 .. depth
    OBVIOUS
  <2> HIDE DEF v
  <2>3. \A k \in 0 .. m : f[k] = IF k = m THEN v ELSE g[k]
    OBVIOUS
  <2>4. f = [k \in 0 .. m |-> f[k]]
    OBVIOUS
  <2> HIDE DEF f
  <2>5. ASSUME NEW k \in 0 .. m PROVE f[k] = F(k, f[k - 1])
    <3>1. CASE k = m
      <4>1. f[k - 1] = g[m - 1]
        BY <2>2, <2>3, <3>1
      <4> QED
        BY <2>3, <3>1, <4>1 DEF v
    <3>2. CASE k # m
      <4>1. k \in 0 .. m - 1
        BY <3>2
      <4>2. f[k] = F(k, g[k - 1])
        BY <2>1, <2>3, <3>2, <4>1
      <4>3. CASE k = 0
        BY <1>4, <4>2, <4>3
      <4>4. CASE k # 0
        <5>1. k - 1 \in 0 .. m /\ k - 1 # m
          BY <4>1, <4>4
        <5>2. f[k - 1] = g[k - 1]
          BY <2>3, <5>1
        <5> QED
          BY <4>2, <5>2
      <4> QED
        BY <4>3, <4>4
    <3> QED
      BY <3>1, <3>2
  <2>6. Runs(f, m)
    BY <2>4, <2>5
  <2> HIDE DEF Runs
  <2> QED
    BY <2>2, <2>6
<1>8. \E g : Solves(g)
  <2> HIDE DEF R
  <2>1. \A m \in 0 .. depth : m \in R
    BY <1>6, <1>7, InductUpTo
  <2>2. depth \in R
    BY <2>1
  <2> QED
    BY <2>2 DEF R
<1>9. Solves(sort)
  <2> HIDE DEF Solves
  <2> QED
    BY <1>8
<1> HIDE DEF sort, R, Runs
<1>10. \A k \in 0 .. depth : sort[k] = F(k, sort[k - 1])
  BY <1>9
<1> DEFINE T == {k \in 0 .. depth : Sorting(n, sort[k])}
<1>11. 0 \in T
  BY <1>5, <1>10
<1>12. ASSUME NEW k \in 0 + 1 .. depth, k - 1 \in T PROVE k \in T
  <2>1. k \in Nat /\ k \in 0 .. depth
    OBVIOUS
  <2>2. Sorting(n, sort[k - 1])
    BY <1>12
  <2> QED
    BY <1>5, <1>10, <2>1, <2>2
<1>13. Sorting(n, sort[depth])
  <2>1. \A k \in 0 .. depth : k \in T
    <3> HIDE DEF T
    <3> QED
      BY <1>11, <1>12, InductUpTo
  <2> QED
    BY <2>1
<1>14. Sorts(n, b.d, sort[depth][b], b.lo, b.hi)
  BY <1>3, <1>13 DEF Sorting, C
<1> QED
  BY <1>2, <1>3, <1>14

LEMMA SizeIs ==
  ASSUME NEW n \in 0 .. MaxSize, NEW d \in Data(n)
  PROVE  Sorted!Size(d) = n
<1>1. DOMAIN d = 0 .. n - 1 /\ MaxSize \in Nat
  BY SpansAssumption DEF Data
<1>2. CASE n = 0
  <2>1. DOMAIN d = {}
    BY <1>1, <1>2
  <2> QED
    BY <1>2, <2>1 DEF Sorted!Size
<1>3. CASE n # 0
  <2>1. DOMAIN d # {} /\ n \in 1 .. MaxSize + 1
    <3>1. 0 \in 0 .. n - 1
      BY <1>1, <1>3
    <3>2. DOMAIN d # {}
      BY <1>1, <3>1, Zenon
    <3>3. n \in 1 .. MaxSize + 1
      BY <1>1, <1>3
    <3> QED
      BY <3>2, <3>3
  <2>2. \A k \in 1 .. MaxSize + 1 : 0 .. k - 1 = 0 .. n - 1 => k = n
    <3> SUFFICES ASSUME NEW k \in 1 .. MaxSize + 1, 0 .. k - 1 = 0 .. n - 1 PROVE k = n
      OBVIOUS
    <3>1. k - 1 \in 0 .. k - 1 /\ n - 1 \in 0 .. n - 1
      BY <1>1, <2>1
    <3>2. k - 1 \in 0 .. n - 1 /\ n - 1 \in 0 .. k - 1
      BY <3>1
    <3> QED
      BY <1>1, <2>1, <3>2
  <2> DEFINE Q(k) == DOMAIN d = 0 .. k - 1
  <2>3. Q(n) /\ \A k \in 1 .. MaxSize + 1 : Q(k) => k = n
    BY <1>1, <2>2
  <2>4. Sorted!Size(d) = CHOOSE k \in 1 .. MaxSize + 1 : Q(k)
    BY <2>1 DEF Sorted!Size
  <2> HIDE DEF Q
  <2> QED
    BY <2>1, <2>3, <2>4
<1> QED
  BY <1>2, <1>3

LEMMA SortSpanSorts ==
  ASSUME NEW n \in 0 .. MaxSize, NEW d \in Data(n)
  PROVE  Sorts(n, d, Sorted!sortSpan(d), 0, n - 1)
<1>1. Sorted!Size(d) = n /\ n \in Nat /\ n - 1 \in Int /\ n - 1 < n
  BY SizeIs, SpansAssumption
<1>2. CASE n <= 1
  <2>1. Sorted!sortSpan(d) = d
    BY <1>1, <1>2 DEF Sorted!sortSpan
  <2>2. Moved(n, d, d, 0, n - 1)
    BY <1>1, MovedNot
  <2>3. ASSUME NEW i \in 0 .. n - 1, NEW j \in 0 .. n - 1 PROVE d[i] <= d[j]
    <3>1. i = j
      BY <1>1, <1>2
    <3>2. d[i] \in Int
      BY <1>1, DataIs
    <3> QED
      BY <3>1, <3>2
  <2> QED
    BY <2>1, <2>2, <2>3 DEF Sorts, Ordered
<1>3. CASE ~(n <= 1)
  <2>1. Sorted!sortSpan(d) = Sorted!introSort(d, 0, n - 1, 2 * Sorted!log2Floor(n))
    BY <1>1, <1>3 DEF Sorted!sortSpan
  <2>2. Sorted!log2Floor(n) \in Nat
    <3>1. ASSUME NEW U, U \in SUBSET (1 .. n) PROVE Sorted!Cardinality(U) \in Nat
      <4>1. IsFiniteSet(U)
        <5>1. IsFiniteSet(1 .. n)
          BY <1>1, FS_Interval
        <5> QED
          BY <3>1, <5>1, FS_Subset
      <4>2. Cardinality(U) \in Nat
        BY <4>1, FS_CardinalityType
      <4>3. Sorted!Cardinality(U) = Cardinality(U)
        BY DEF Sorted!Cardinality, Cardinality
      <4> HIDE DEF Cardinality
      <4> QED
        BY <4>2, <4>3
    <3> DEFINE half == CHOOSE g : g = [k \in 0 .. n |-> IF k = 0 THEN n ELSE g[k - 1] \div 2]
               U == {k \in 1 .. n : half[k] > 0}
    <3>2. Sorted!log2Floor(n) = Sorted!Cardinality(U)
      BY DEF Sorted!log2Floor
    <3> HIDE DEF half
    <3>3. U \in SUBSET (1 .. n)
      OBVIOUS
    <3> HIDE DEF U
    <3> QED
      BY <3>1, <3>2, <3>3
  <2> DEFINE depth == 2 * Sorted!log2Floor(n)
  <2>3. depth \in Nat
    BY <2>2
  <2> HIDE DEF depth
  <2>4. 0 \in Nat
    OBVIOUS
  <2>5. Sorts(n, d, Sorted!introSort(d, 0, n - 1, depth), 0, n - 1)
    BY <1>1, <2>3, <2>4, IntroSorts
  <2> QED
    BY <2>1, <2>5 DEF depth
<1> QED
  BY <1>1, <1>2, <1>3

\* What is before the range is less than the item, what is behind it is greater.
Narrowed(d, n, s, item) ==
  /\ s.lo <= s.hi + 1
  /\ \A j \in 0 .. s.lo - 1 : d[j] < item
  /\ \A j \in s.hi + 1 .. n - 1 : d[j] > item

Ranges(n) == [lo : 0 .. n, hi : -1 .. n - 1]
Found(s, d, item) == s.lo <= s.hi /\ d[Sorted!getMiddleIndex(s.lo, s.hi)] = item

LEMMA SearchIs ==
  ASSUME NEW n \in Nat, NEW d \in Data(n), Ordered(d, 0, n - 1), NEW item \in Int, NEW s \in Ranges(n), Narrowed(d, n, s, item)
  PROVE  LET e == Sorted!Search(s, d, item)
         IN /\ e \in Ranges(n) /\ Narrowed(d, n, e, item)
            /\ \/ e = s /\ (s.lo > s.hi \/ Found(s, d, item))
               \/ e.hi - e.lo < s.hi - s.lo
<1> DEFINE i == Sorted!getMiddleIndex(s.lo, s.hi)
           e == Sorted!Search(s, d, item)
<1>1. s.lo \in 0 .. n /\ s.hi \in -1 .. n - 1 /\ s = [lo |-> s.lo, hi |-> s.hi]
  BY DEF Ranges
<1>2. CASE s.lo > s.hi \/ d[i] = item
  <2>1. e = s
    BY <1>2 DEF Sorted!Search
  <2>2. s.lo > s.hi \/ Found(s, d, item)
    BY <1>1, <1>2 DEF Found
  <2> HIDE DEF e
  <2> QED
    BY <2>1, <2>2 DEF e
<1>3. CASE ~(s.lo > s.hi \/ d[i] = item)
  <2>1. e = IF d[i] < item THEN [s EXCEPT !.lo = i + 1] ELSE [s EXCEPT !.hi = i - 1]
    BY <1>3 DEF Sorted!Search
  <2>2. i \in s.lo .. s.hi
    BY <1>1, <1>3, MiddleIs
  <2>3. d[i] # item
    BY <1>3
  <2> HIDE DEF i, e
  <2>4. i \in 0 .. n - 1 /\ \A j \in 0 .. n - 1 : d[j] \in Int
    BY <1>1, <2>2, DataIs
  <2>5. CASE d[i] < item
    <3>1. e = [lo |-> i + 1, hi |-> s.hi]
      <4>1. [s EXCEPT !.lo = i + 1] = [lo |-> i + 1, hi |-> s.hi]
        BY <1>1
      <4> QED
        BY <2>1, <2>5, <4>1
    <3>2. e.lo = i + 1 /\ e.hi = s.hi /\ e \in Ranges(n)
      BY <1>1, <2>4, <3>1 DEF Ranges
    <3>3. \A j \in 0 .. e.lo - 1 : d[j] < item
      <4> SUFFICES ASSUME NEW j \in 0 .. i PROVE d[j] < item
        BY <2>4, <3>2
      <4>1. j \in 0 .. n - 1 /\ j <= i
        BY <2>4
      <4>2. d[j] <= d[i]
        BY <2>4, <4>1 DEF Ordered
      <4> QED
        BY <2>4, <2>5, <4>1, <4>2
    <3>4. e.lo <= e.hi + 1 /\ e.hi - e.lo < s.hi - s.lo
      BY <1>1, <2>2, <3>2
    <3> QED
      BY <3>2, <3>3, <3>4 DEF Narrowed, e
  <2>6. CASE ~(d[i] < item)
    <3>1. e = [lo |-> s.lo, hi |-> i - 1]
      <4>1. [s EXCEPT !.hi = i - 1] = [lo |-> s.lo, hi |-> i - 1]
        BY <1>1
      <4> QED
        BY <2>1, <2>6, <4>1
    <3>2. e.lo = s.lo /\ e.hi = i - 1 /\ e \in Ranges(n)
      BY <1>1, <2>4, <3>1 DEF Ranges
    <3>3. \A j \in e.hi + 1 .. n - 1 : d[j] > item
      <4> SUFFICES ASSUME NEW j \in i .. n - 1 PROVE d[j] > item
        BY <2>4, <3>2
      <4>1. j \in 0 .. n - 1 /\ i <= j
        BY <2>4
      <4>2. d[i] <= d[j]
        BY <2>4, <4>1 DEF Ordered
      <4> QED
        BY <2>3, <2>4, <2>6, <4>1, <4>2
    <3>4. e.lo <= e.hi + 1 /\ e.hi - e.lo < s.hi - s.lo
      BY <1>1, <2>2, <3>2
    <3> QED
      BY <3>2, <3>3, <3>4 DEF Narrowed, e
  <2> QED
    BY <2>5, <2>6
<1> QED
  BY <1>2, <1>3

LEMMA Finds ==
  ASSUME NEW n \in 0 .. MaxSize, NEW d \in Data(n), Ordered(d, 0, n - 1), NEW item \in Int
  PROVE  LET place == Sorted!binarySearchInSpan(d, item)
         IN IF place >= 0 THEN d[place] = item
            ELSE /\ \A i \in 0 .. -place - 2 : d[i] < item
                 /\ \A i \in -place - 1 .. n - 1 : d[i] > item
<1> DEFINE b == [lo |-> 0, hi |-> n - 1]
           S == {s \in Ranges(n) : Narrowed(d, n, s, item)}
           Solves(g) == g = [k \in 0 .. n |-> IF k = 0 THEN b ELSE Sorted!Search(g[k - 1], d, item)]
           turn == CHOOSE g : Solves(g)
           last == turn[n]
           t == [k \in 0 + 1 .. n |-> [s \in S |-> Sorted!Search(s, d, item)]]
           place == Sorted!binarySearchInSpan(d, item)
           mid == Sorted!getMiddleIndex(last.lo, last.hi)
<1>1. Sorted!Size(d) = n /\ n \in Nat
  BY SizeIs, SpansAssumption
<1>2. place = IF last.lo > last.hi THEN -last.lo - 1 ELSE mid
  BY <1>1 DEF Sorted!binarySearchInSpan
<1>3. b \in S /\ b.lo = 0 /\ b.hi = n - 1
  BY <1>1 DEF Ranges, Narrowed
<1>4. ASSUME NEW s \in S
      PROVE  LET e == Sorted!Search(s, d, item)
             IN /\ e \in S
                /\ (e = s /\ (s.lo > s.hi \/ Found(s, d, item))) \/ e.hi - e.lo < s.hi - s.lo
  <2>1. s \in Ranges(n) /\ Narrowed(d, n, s, item)
    OBVIOUS
  <2> QED
    BY <1>1, <2>1, SearchIs
<1> HIDE DEF b, S, place, mid
<1>5. turn[0] = b /\ \A q \in 1 .. n : turn[q] = Sorted!Search(turn[q - 1], d, item)
  <2>1. t \in Loops(0, n, S)
    BY <1>4 DEF Loops
  <2>2. PICK g : Follows(g, 0, n, S, b, t)
    <3> HIDE DEF t
    <3>1. 0 \in Int /\ n \in Int /\ 0 <= n /\ b \in S
      BY <1>1, <1>3
    <3> QED
      BY <2>1, <3>1, Turns
  <2>3. \A q \in 1 .. n : q - 1 \in 0 .. n /\ q \in 0 .. n /\ q # 0 /\ q \in 0 + 1 .. n
    BY <1>1
  <2>4. \A q \in 1 .. n : g[q] = Sorted!Search(g[q - 1], d, item)
    <3>1. g \in [0 .. n -> S] /\ \A q \in 0 + 1 .. n : g[q] = t[q][g[q - 1]]
      BY <2>2 DEF Follows
    <3> QED
      BY <2>3, <3>1
  <2>5. \A q \in 0 .. n : q = 0 \/ q \in 1 .. n
    BY <1>1
  <2>6. g \in [0 .. n -> S] /\ \A q \in 0 .. n : g[q] = IF q = 0 THEN b ELSE Sorted!Search(g[q - 1], d, item)
    BY <2>2, <2>4, <2>5 DEF Follows
  <2>7. Solves(g)
    BY <2>6
  <2>8. Solves(turn)
    <3> HIDE DEF Solves
    <3> QED
      BY <2>7
  <2> HIDE DEF turn
  <2>9. 0 \in 0 .. n
    BY <1>1
  <2> QED
    BY <2>3, <2>8, <2>9
<1> HIDE DEF turn
<1> DEFINE Ends(s) == s.lo > s.hi \/ Found(s, d, item)
           T == {q \in 0 .. n : turn[q] \in S /\ (Ends(turn[q]) \/ turn[q].hi - turn[q].lo + 1 <= n - q)}
<1>6. 0 \in T
  <2>1. 0 \in 0 .. n /\ n - 1 - 0 + 1 <= n - 0
    BY <1>1
  <2> QED
    BY <1>3, <1>5, <2>1
<1>7. ASSUME NEW q \in 0 + 1 .. n, q - 1 \in T PROVE q \in T
  <2> DEFINE s == turn[q - 1]
             e == turn[q]
  <2>1. s \in S /\ (Ends(s) \/ s.hi - s.lo + 1 <= n - (q - 1))
    BY <1>7
  <2>2. e = Sorted!Search(s, d, item) /\ q \in 0 .. n
    BY <1>1, <1>5
  <2> HIDE DEF s, e
  <2>3. e \in S /\ ((e = s /\ Ends(s)) \/ e.hi - e.lo < s.hi - s.lo)
    BY <1>4, <2>1, <2>2
  <2>4. s.lo \in Int /\ s.hi \in Int /\ e.lo \in Int /\ e.hi \in Int
    BY <1>1, <2>1, <2>3 DEF S, Ranges
  <2>5. Ends(e) \/ e.hi - e.lo + 1 <= n - q
    <3>1. CASE e = s /\ Ends(s)
      BY <3>1
    <3>2. CASE ~(e = s /\ Ends(s))
      <4>1. e.hi - e.lo < s.hi - s.lo
        BY <2>3, <3>2
      <4>2. ~Ends(s)
        <5>1. Ends(s) => e = s
          BY <2>2 DEF Sorted!Search, Found
        <5> QED
          BY <3>2, <5>1
      <4>3. s.hi - s.lo + 1 <= n - (q - 1)
        BY <2>1, <4>2
      <4> QED
        BY <1>1, <2>4, <4>1, <4>3
    <3> QED
      BY <3>1, <3>2
  <2> QED
    BY <2>2, <2>3, <2>5 DEF e
<1>8. last \in S /\ Ends(last)
  <2> HIDE DEF T
  <2>1. \A q \in 0 .. n : q \in T
    BY <1>1, <1>6, <1>7, InductUpTo
  <2>2. n \in T
    BY <1>1, <2>1
  <2>3. last \in S /\ (Ends(last) \/ last.hi - last.lo + 1 <= n - n)
    BY <2>2 DEF T
  <2>4. last.lo \in Int /\ last.hi \in Int
    BY <1>1, <2>3 DEF S, Ranges
  <2> QED
    BY <1>1, <2>3, <2>4
<1> HIDE DEF last
<1>9. last.lo \in 0 .. n /\ last.hi \in -1 .. n - 1 /\ Narrowed(d, n, last, item)
  BY <1>8 DEF S, Ranges
<1>10. CASE last.lo > last.hi
  <2>1. last.lo = last.hi + 1
    BY <1>1, <1>9, <1>10 DEF Narrowed
  <2>2. place = -last.lo - 1 /\ ~(place >= 0) /\ -place - 2 = last.lo - 1 /\ -place - 1 = last.hi + 1
    BY <1>1, <1>2, <1>9, <1>10, <2>1
  <2> QED
    BY <1>9, <2>2 DEF Narrowed, place
<1>11. CASE ~(last.lo > last.hi)
  <2>1. mid \in last.lo .. last.hi
    <3>1. last.lo \in Int /\ last.hi \in Int /\ last.lo <= last.hi
      BY <1>1, <1>9, <1>11
    <3> QED
      BY <3>1, MiddleIs DEF mid
  <2>2. d[mid] = item
    BY <1>8, <1>11 DEF Found, mid
  <2>3. place = mid /\ place >= 0
    BY <1>1, <1>2, <1>9, <1>11, <2>1
  <2> QED
    BY <2>2, <2>3 DEF place
<1> QED
  BY <1>10, <1>11

LEMMA SortsBelow ==
  ASSUME NEW n \in 0 .. MaxSize, NEW d \in Data(n), NEW e, Sorts(n, d, e, 0, n - 1)
  PROVE  Sorted!SortedBelow(e, n - 1) /\ Sorted!SameItems(d, e)
<1>1. n \in Nat /\ 0 \in Int /\ n - 1 \in Int
  BY SpansAssumption
<1>2. Moved(n, d, e, 0, n - 1) /\ Ordered(e, 0, n - 1)
  BY DEF Sorts
<1>3. Sorted!SameItems(d, e)
  BY <1>1, <1>2, MovedSame
<1>4. ASSUME NEW i \in 1 .. n - 1 PROVE e[i - 1] <= e[i]
  <2>1. i - 1 \in 0 .. n - 1 /\ i \in 0 .. n - 1 /\ i - 1 <= i
    BY <1>1
  <2> QED
    BY <1>2, <2>1 DEF Ordered
<1> QED
  BY <1>3, <1>4 DEF Sorted!SortedBelow

SomeData(d) == \E n \in 0 .. MaxSize : d \in Data(n)

LEMMA SortsAll ==
  ASSUME SomeData(span)
  PROVE  Sorted!SortsAndSearches
<1>1. PICK n \in 0 .. MaxSize : span \in Data(n)
  BY DEF SomeData
<1>2. Sorted!Size(span) = n /\ n \in Nat /\ n - 1 \in Int /\ n - 1 < n /\ 0 \in Nat
  BY <1>1, SizeIs, SpansAssumption
<1> DEFINE sorted == Sorted!sortSpan(span)
<1>3. Sorts(n, span, sorted, 0, n - 1)
  BY <1>1, SortSpanSorts
<1> HIDE DEF sorted
<1>4. sorted \in Data(n) /\ Ordered(sorted, 0, n - 1)
  <2>1. 0 \in Int
    OBVIOUS
  <2> QED
    BY <1>1, <1>2, <1>3, <2>1, MovedIs DEF Sorts
<1>5. ASSUME NEW d \in {Sorted!introSort(span, 0, n - 1, depth) : depth \in 0 .. n} \cup {Sorted!insertionSort(span, 0, n - 1), sorted}
      PROVE  Sorted!SortedBelow(d, n - 1) /\ Sorted!SameItems(span, d)
  <2>1. Sorts(n, span, d, 0, n - 1)
    <3>1. CASE d \in {Sorted!introSort(span, 0, n - 1, depth) : depth \in 0 .. n}
      <4>1. PICK depth \in 0 .. n : d = Sorted!introSort(span, 0, n - 1, depth)
        BY <3>1
      <4>2. depth \in Nat
        BY <1>2
      <4> QED
        BY <1>1, <1>2, <4>1, <4>2, IntroSorts
    <3>2. CASE d = Sorted!insertionSort(span, 0, n - 1)
      BY <1>1, <1>2, <3>2, InsertionSorts
    <3>3. CASE d = sorted
      BY <1>3, <3>3
    <3> QED
      BY <3>1, <3>2, <3>3
  <2> QED
    BY <1>1, <2>1, SortsBelow
<1>6. ASSUME NEW x \in Numbers
      PROVE  LET place == Sorted!binarySearchInSpan(sorted, x)
             IN IF place >= 0 THEN sorted[place] = x
                ELSE /\ \A i \in 0 .. -place - 2 : sorted[i] < x
                     /\ \A i \in -place - 1 .. n - 1 : sorted[i] > x
  <2>1. x \in Int
    BY SpansAssumption
  <2> QED
    BY <1>4, <2>1, Finds
<1> QED
  BY <1>2, <1>5, <1>6 DEF Sorted!SortsAndSearches, sorted

LEMMA SpanInit ==
  ASSUME Init
  PROVE  SomeData(span)
BY DEF Init, Sorted!Init, SomeData, Data

LEMMA SpanStep ==
  ASSUME SomeData(span), [Next]_vars
  PROVE  SomeData(span')
<1>1. PICK n \in 0 .. MaxSize : span \in Data(n)
  BY DEF SomeData
<1>2. n \in Nat /\ n - 1 \in Int /\ 0 \in Int /\ Sorted!Size(span) = n
  BY <1>1, SizeIs, SpansAssumption
<1>3. span' = span \/ span' = Sorted!sortSpan(span) \/ span' = Sorted!reverseSpan(span)
  BY DEF Next, vars, mapVars, listVars, arrayVars, bitVars, spanVars, digestVars, textVars, Sorted!SortNext, Sorted!FlatNext
<1>4. CASE span' = span
  BY <1>1, <1>4 DEF SomeData
<1>5. CASE span' = Sorted!sortSpan(span)
  <2>1. Sorts(n, span, span', 0, n - 1)
    BY <1>1, <1>5, SortSpanSorts
  <2>2. span' \in Data(n)
    BY <1>1, <1>2, <2>1, MovedIs DEF Sorts
  <2> QED
    BY <2>2 DEF SomeData
<1>6. CASE span' = Sorted!reverseSpan(span)
  <2>1. span' = [i \in 0 .. n - 1 |-> span[n - 1 - i]]
    BY <1>1, <1>2, <1>6 DEF Sorted!reverseSpan, Data
  <2>2. \A i \in 0 .. n - 1 : n - 1 - i \in 0 .. n - 1
    BY <1>2
  <2>3. span' \in Data(n)
    BY <1>1, <2>1, <2>2 DEF Data
  <2> QED
    BY <2>3 DEF SomeData
<1> QED
  BY <1>3, <1>4, <1>5, <1>6

\* Sorting orders the items of every span and keeps each, by insertion, down to
\* the heap or by partitions, whatever the depth and the threshold, and searching
\* what is sorted finds an item or where it belongs (Sorting.h, BinarySearch.h).
THEOREM SortsAndFinds == Spec => []SortsAndSearches
<1>1. Init => SomeData(span)
  BY SpanInit
<1>2. SomeData(span) /\ [Next]_vars => SomeData(span)'
  <2>1. SomeData(span)' = SomeData(span')
    BY DEF SomeData
  <2> QED
    BY <2>1, SpanStep
<1>3. SomeData(span) => SortsAndSearches
  BY SortsAll DEF SortsAndSearches
<1> QED
  BY <1>1, <1>2, <1>3, PTL DEF Spec
==============================================================================
