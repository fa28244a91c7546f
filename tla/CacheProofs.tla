---- MODULE CacheProofs ----
(***************************************************************************)
(* The cache, for every geometry and every sequence of reads: no line is   *)
(* lost, no block is cached twice, under LRU the lines of a set are the    *)
(* blocks read last, a read returns what memory holds, and no block is     *)
(* replaced in a set that is not full.                                     *)
(***************************************************************************)
EXTENDS CacheProperties, NatLemmas, TLAPS

(* The loop of get_shift_and_mask counts the bits below the highest. *)
LEMMA ShiftOf ==
    \A v \in Nat : shift_of[v] = IF v > 1 THEN 1 + shift_of[v \div 2] ELSE 0
  <1> DEFINE Is(f) == f = [value \in Nat |-> IF value > 1 THEN 1 + f[value \div 2] ELSE 0]
             Bit(v) == CHOOSE k \in Nat : 2 ^ k <= v /\ v < 2 ^ (k + 1)
             g == [v \in Nat |-> IF v > 1 THEN Bit(v) ELSE 0]
  <1>1. \A v \in Nat \ {0} : Bit(v) \in Nat /\ 2 ^ Bit(v) <= v /\ v < 2 ^ (Bit(v) + 1)
    BY Bits
  <1>2. \A v \in Nat : g[v] = IF v > 1 THEN Bit(v) ELSE 0
    OBVIOUS
  <1> HIDE DEF Bit
  <1>3. \A v \in Nat \ {0} : g[v] = Bit(v)
    <2>1. Bit(1) = 0
      <3>1. 2 ^ 0 <= 1 /\ 1 < 2 ^ (0 + 1)
        <4>1. 2 ^ (0 + 1) = 2 * 2 ^ 0
          BY TwoTo
        <4> QED BY <4>1, TwoToZero
      <3>2. Bit(1) \in Nat /\ 2 ^ Bit(1) <= 1 /\ 1 < 2 ^ (Bit(1) + 1)
        BY <1>1
      <3>3. 0 \in Nat /\ 1 \in Nat
        OBVIOUS
      <3> QED BY <3>1, <3>2, <3>3, BitsOnce, Zenon
    <2> QED BY <1>2, <2>1
  <1>4. ASSUME NEW v \in Nat, v > 1 PROVE g[v] = 1 + g[v \div 2]
    <2> DEFINE w == v \div 2
               k == Bit(w)
    <2>1. w \in Nat \ {0} /\ 2 * w <= v /\ v < 2 * (w + 1)
      BY <1>4
    <2> HIDE DEF w
    <2>2. k \in Nat /\ 2 ^ k <= w /\ w < 2 ^ (k + 1)
      BY <1>1, <2>1
    <2> HIDE DEF k
    <2>3. /\ 2 ^ k \in Nat /\ 2 ^ (k + 1) \in Nat
          /\ 2 ^ (k + 1) = 2 * 2 ^ k /\ 2 ^ (k + 1 + 1) = 2 * 2 ^ (k + 1)
      <3>1. k + 1 \in Nat
        BY <2>2
      <3> QED BY <2>2, <3>1, TwoTo
    <2>4. 2 ^ (k + 1) <= v /\ v < 2 ^ (k + 1 + 1)
      BY <2>1, <2>2, <2>3
    <2>5. Bit(v) \in Nat /\ 2 ^ Bit(v) <= v /\ v < 2 ^ (Bit(v) + 1)
      BY <1>1, <1>4
    <2>6. Bit(v) = k + 1
      <3>1. k + 1 \in Nat
        BY <2>2
      <3> QED BY <2>4, <2>5, <3>1, BitsOnce
    <2>7. g[v] = Bit(v) /\ g[w] = k
      BY <1>3, <1>4, <2>1 DEF k
    <2> QED BY <2>2, <2>6, <2>7 DEF w
  <1>5. Is(g)
    <2>1. \A v \in Nat : g[v] = IF v > 1 THEN 1 + g[v \div 2] ELSE 0
      BY <1>2, <1>4
    <2>2. g = [v \in Nat |-> g[v]]
      OBVIOUS
    <2> HIDE DEF g
    <2> QED BY <2>1, <2>2
  <1>6. shift_of = CHOOSE f : Is(f)
    BY DEF shift_of
  <1> HIDE DEF Is, g
  <1>7. Is(shift_of)
    BY <1>5, <1>6
  <1> QED BY <1>7 DEF Is

LEMMA ShiftInNat == \A v \in Nat : shift_of[v] \in Nat
  <1> DEFINE S == {v \in Nat : shift_of[v] \in Nat}
  <1>1. 0 \in S /\ 1 \in S
    BY ShiftOf
  <1>2. \A v \in Nat : v > 1 /\ v \div 2 \in S => v \in S
    BY ShiftOf
  <1> HIDE DEF S
  <1>3. Nat \subseteq S
    BY <1>1, <1>2, HalfInduction
  <1> QED BY <1>3 DEF S

LEMMA MaskOf ==
    \A v \in Nat : mask_of[v] = IF v > 1 THEN 2 * mask_of[v \div 2] + 1 ELSE 0
  <1> DEFINE Is(f) == f = [value \in Nat |-> IF value > 1 THEN 2 * f[value \div 2] + 1 ELSE 0]
             g == [v \in Nat |-> 2 ^ shift_of[v] - 1]
  <1>1. ASSUME NEW v \in Nat PROVE g[v] = IF v > 1 THEN 2 * g[v \div 2] + 1 ELSE 0
    <2>1. CASE v > 1
      <3> DEFINE w == v \div 2
                 s == shift_of[w]
      <3>1. w \in Nat /\ s \in Nat /\ shift_of[v] = 1 + s
        BY <2>1, ShiftOf, ShiftInNat
      <3> HIDE DEF w, s
      <3>2. 2 ^ s \in Nat /\ 2 ^ (s + 1) = 2 * 2 ^ s /\ 1 + s = s + 1
        BY <3>1, TwoTo
      <3>3. g[v] = 2 ^ (s + 1) - 1 /\ g[w] = 2 ^ s - 1
        BY <3>1, <3>2 DEF s
      <3>4. g[v] = 2 * g[w] + 1
        BY <3>2, <3>3
      <3> QED BY <2>1, <3>4 DEF w
    <2>2. CASE ~(v > 1)
      <3>1. shift_of[v] = 0
        BY <2>2, ShiftOf
      <3>2. 2 ^ shift_of[v] = 1
        BY <3>1, TwoToZero, Zenon
      <3> QED BY <2>2, <3>2
    <2> QED BY <2>1, <2>2
  <1>2. Is(g)
    <2>1. g = [v \in Nat |-> g[v]]
      OBVIOUS
    <2> HIDE DEF g
    <2> QED BY <1>1, <2>1
  <1>3. mask_of = CHOOSE f : Is(f)
    BY DEF mask_of
  <1> HIDE DEF Is, g
  <1>4. Is(mask_of)
    BY <1>2, <1>3
  <1> QED BY <1>4 DEF Is

(* The mask has as many ones as the shift has bits, and is below value.    *)
LEMMA ShiftAndMask ==
    ASSUME NEW v \in Nat \ {0}
    PROVE  /\ shift_of[v] \in Nat
           /\ mask_of[v] + 1 = 2 ^ shift_of[v]
           /\ mask_of[v] \in Nat /\ mask_of[v] + 1 <= v
  <1> DEFINE S == {n \in Nat : /\ mask_of[n] \in Nat
                               /\ mask_of[n] + 1 = 2 ^ shift_of[n]
                               /\ n # 0 => mask_of[n] + 1 <= n}
  <1>1. 0 \in S /\ 1 \in S
    <2>1. /\ shift_of[0] = 0 /\ shift_of[1] = 0
          /\ mask_of[0] = 0 /\ mask_of[1] = 0
      BY ShiftOf, MaskOf
    <2>2. 2 ^ shift_of[0] = 1 /\ 2 ^ shift_of[1] = 1
      BY <2>1, TwoToZero, Zenon
    <2>3. \A n \in {0, 1} : mask_of[n] + 1 = 1 /\ mask_of[n] \in Nat
      BY <2>1
    <2>4. \A n \in {0, 1} : mask_of[n] + 1 = 2 ^ shift_of[n]
      BY <2>2, <2>3, Zenon
    <2>5. \A n \in {0, 1} : n # 0 => mask_of[n] + 1 <= n
      BY <2>1
    <2> QED BY <2>3, <2>4, <2>5
  <1>2. ASSUME NEW n \in Nat, n > 1, n \div 2 \in S PROVE n \in S
    <2> DEFINE w == n \div 2
    <2>1. w \in Nat \ {0} /\ 2 * w <= n
      BY <1>2
    <2>2. mask_of[w] \in Nat /\ mask_of[w] + 1 = 2 ^ shift_of[w] /\ mask_of[w] + 1 <= w
      BY <1>2, <2>1
    <2>3. mask_of[n] = 2 * mask_of[w] + 1 /\ shift_of[n] = 1 + shift_of[w]
      BY <1>2, MaskOf, ShiftOf
    <2> HIDE DEF w
    <2>4. shift_of[w] \in Nat /\ 1 + shift_of[w] = shift_of[w] + 1
      BY <2>1, ShiftInNat
    <2>5. 2 ^ (shift_of[w] + 1) = 2 * 2 ^ shift_of[w]
      BY <2>4, TwoTo
    <2>6. mask_of[n] + 1 = 2 ^ shift_of[n]
      BY <2>2, <2>3, <2>4, <2>5
    <2>7. mask_of[n] \in Nat /\ mask_of[n] + 1 <= n
      BY <2>1, <2>2, <2>3
    <2> QED BY <2>6, <2>7
  <1> HIDE DEF S
  <1>3. Nat \subseteq S
    BY <1>1, <1>2, HalfInduction
  <1> QED BY <1>3, ShiftInNat DEF S

----
(* A block and the sets, by their widths: the offset, the index and the tag *)
(* are digits of the address.                                              *)
Width(c) == c.block_offset_mask + 1
Rows(c) == c.cache_index_mask + 1

LEMMA FieldsFacts ==
    ASSUME NEW c \in {Fields(args) : args \in Caches}
    PROVE  /\ Width(c) \in Nat \ {0} /\ Rows(c) \in Nat \ {0}
           /\ c.block_size \in Nat /\ Width(c) <= c.block_size
           /\ c.num_sets \in Nat /\ Rows(c) <= c.num_sets
           /\ c.associativity \in Nat \ {0}
           /\ \A addr : /\ Offset(c, addr) = addr % Width(c)
                        /\ Index(c, addr) = (addr \div Width(c)) % Rows(c)
                        /\ Tag(c, addr) = addr \div (Width(c) * Rows(c))
  <1>1. PICK args \in Caches : c = Fields(args)
    OBVIOUS
  <1> DEFINE b == args.block_size
             n == args.num_blocks \div args.associativity
  <1>2. /\ args.associativity \in Nat \ {0} /\ args.num_blocks \in Nat
        /\ args.num_blocks >= args.associativity /\ b \in Nat \ {0}
    BY CacheAssumption
  <1>3. n \in Nat \ {0}
    <2>1. \A x \in Nat, y \in Nat \ {0} : x >= y => x \div y \in Nat \ {0}
      OBVIOUS
    <2> QED BY <1>2, <2>1
  <1>4. /\ c.block_size = b /\ c.num_sets = n /\ c.associativity = args.associativity
        /\ c.cache_index_shift = shift_of[b] /\ c.block_offset_mask = mask_of[b]
        /\ c.tag_shift = shift_of[b] + shift_of[n] /\ c.cache_index_mask = mask_of[n]
    BY <1>1 DEF Fields
  <1> HIDE DEF b, n
  <1>5. /\ shift_of[b] \in Nat /\ mask_of[b] + 1 = 2 ^ shift_of[b]
        /\ mask_of[b] \in Nat /\ mask_of[b] + 1 <= b
        /\ shift_of[n] \in Nat /\ mask_of[n] + 1 = 2 ^ shift_of[n]
        /\ mask_of[n] \in Nat /\ mask_of[n] + 1 <= n
    BY <1>2, <1>3, ShiftAndMask
  <1>6. 2 ^ (shift_of[b] + shift_of[n]) = 2 ^ shift_of[b] * 2 ^ shift_of[n]
    BY <1>5, TwoToSum
  <1>7. /\ Width(c) = 2 ^ c.cache_index_shift
        /\ Width(c) * Rows(c) = 2 ^ c.tag_shift
    BY <1>4, <1>5, <1>6, Zenon DEF Width, Rows
  <1>8. /\ Width(c) \in Nat \ {0} /\ Rows(c) \in Nat \ {0}
        /\ Width(c) <= b /\ Rows(c) <= n
    BY <1>4, <1>5 DEF Width, Rows
  <1>9. \A addr : /\ Offset(c, addr) = addr % Width(c)
                  /\ Index(c, addr) = (addr \div Width(c)) % Rows(c)
                  /\ Tag(c, addr) = addr \div (Width(c) * Rows(c))
    BY <1>7, Zenon DEF Offset, Index, Tag, And, Shift, Width, Rows
  <1> QED BY <1>2, <1>3, <1>4, <1>8, <1>9

(* The index is that of a set. *)
LEMMA IndexInSets ==
    ASSUME NEW c \in {Fields(args) : args \in Caches}, NEW addr \in Nat
    PROVE  Index(c, addr) \in 0 .. c.num_sets - 1
  <1> DEFINE q == addr \div Width(c)
  <1>1. /\ Width(c) \in Nat \ {0} /\ Rows(c) \in Nat \ {0}
        /\ c.num_sets \in Nat /\ Rows(c) <= c.num_sets
        /\ Index(c, addr) = q % Rows(c)
    BY FieldsFacts
  <1>2. q \in Nat
    BY <1>1, Divided
  <1> HIDE DEF q
  <1>3. q % Rows(c) \in 0 .. Rows(c) - 1
    BY <1>1, <1>2, Divided
  <1> QED BY <1>1, <1>3

(* Index and tag tell the blocks of the memory apart. *)
LEMMA SameBlock ==
    ASSUME NEW c \in {Fields(args) : args \in Caches},
           NEW a \in Nat, NEW b \in Nat, Index(c, a) = Index(c, b), Tag(c, a) = Tag(c, b)
    PROVE  Block(c, a) = Block(c, b)
  <1> DEFINE w == Width(c)
             r == Rows(c)
             p == a \div w
             q == b \div w
  <1>1. w \in Nat \ {0} /\ r \in Nat \ {0}
    BY FieldsFacts
  <1>2. /\ Offset(c, a) = a % w /\ Offset(c, b) = b % w
        /\ p % r = q % r /\ a \div (w * r) = b \div (w * r)
    BY FieldsFacts
  <1> HIDE DEF w, r
  <1>3. /\ p \in Nat /\ a % w \in 0 .. w - 1 /\ a = w * p + (a % w)
        /\ q \in Nat /\ b % w \in 0 .. w - 1 /\ b = w * q + (b % w)
    BY <1>1, Divided
  <1>4. p \div r = a \div (w * r) /\ q \div r = b \div (w * r)
    <2>1. a \in Int /\ b \in Int
      OBVIOUS
    <2> QED BY <1>1, <2>1, DividedTwice, Zenon
  <1> HIDE DEF p, q
  <1>5. p = r * (p \div r) + (p % r) /\ q = r * (q \div r) + (q % r)
    BY <1>1, <1>3, Divided
  <1>6. p = q
    BY <1>2, <1>4, <1>5, Zenon
  <1>7. a - (a % w) = w * p /\ b - (b % w) = w * p
    <2>1. w * p \in Int
      BY <1>1, <1>3
    <2> QED BY <1>3, <1>6, <2>1
  <1>8. a - Offset(c, a) = b - Offset(c, b)
    BY <1>2, <1>7, Zenon
  <1>9. \A x : Block(c, x) = [o \in 0 .. c.block_size - 1 |-> mem[x - Offset(c, x) + o]]
    BY DEF Block, Offset
  <1> QED BY <1>8, <1>9, Zenon

(* The long at an address lies in its block, byte for byte. *)
LEMMA LongInBlock ==
    ASSUME NEW c \in {Fields(args) : args \in Caches}, NEW addr \in Addresses,
           NEW i \in 0 .. sizeof_long - 1
    PROVE  /\ Block(c, addr)[Offset(c, addr) + i] = mem[addr + i]
           /\ mem[addr + i] \in 0 .. 255
  <1> DEFINE w == Width(c)
             L == sizeof_long
             off == addr % w
             first == addr - off
  <1>1. /\ w \in Nat \ {0} /\ c.block_size \in Nat /\ w <= c.block_size
        /\ Offset(c, addr) = off /\ L \in Nat \ {0} /\ addr \in Nat
    BY FieldsFacts, MemoryAssumption
  <1>2. /\ w % L = 0 /\ addr % L = 0
        /\ first .. first + c.block_size - 1 \subseteq DOMAIN mem
    BY <1>1, BlockAssumption DEF Width
  <1> HIDE DEF w, L
  <1> DEFINE q == addr \div w
             x == w \div L
             y == addr \div L
             z == y - x * q
  <1>3. q \in Nat /\ off \in 0 .. w - 1 /\ addr = w * q + off
    BY <1>1, Divided
  <1>4. x \in Nat /\ w = L * x /\ y \in Nat /\ addr = L * y
    <2>1. x \in Nat /\ w = L * x + (w % L)
      <3>1. w \in Nat
        BY <1>1
      <3> QED BY <1>1, <3>1, Divided, Zenon
    <2>2. y \in Nat /\ addr = L * y + (addr % L)
      BY <1>1, Divided, Zenon
    <2> HIDE DEF x, y
    <2>3. L * x \in Int /\ L * y \in Int
      BY <1>1, <2>1, <2>2
    <2> QED BY <1>2, <2>1, <2>2, <2>3
  <1> HIDE DEF off, q, x, y
  <1>5. z \in Int /\ off = L * z
    <2>1. z \in Int
      BY <1>3, <1>4
    <2>2. \A l, u, v, t \in Nat : l * (v - u * t) = l * v - (l * u) * t
      OBVIOUS
    <2>3. L * z = L * y - (L * x) * q
      BY <1>1, <1>3, <1>4, <2>2
    <2>4. L * z = addr - w * q /\ w * q \in Int
      BY <1>1, <1>3, <1>4, <2>3
    <2> HIDE DEF z
    <2> QED BY <1>3, <2>1, <2>4
  <1> HIDE DEF z
  <1>6. off + L <= w
    <2>1. L * z < L * x
      BY <1>3, <1>4, <1>5
    <2>2. z < x
      <3>1. ASSUME x <= z PROVE FALSE
        <4>1. L * x <= L * z
          BY <1>1, <1>4, <1>5, <3>1, Times
        <4>2. L * x \in Int /\ L * z \in Int
          BY <1>1, <1>4, <1>5
        <4> QED BY <2>1, <4>1, <4>2
      <3> QED BY <1>4, <1>5, <3>1
    <2>3. L * (z + 1) <= L * x
      <3>1. z + 1 \in Int /\ z + 1 <= x /\ x \in Int /\ L \in Nat
        BY <1>1, <1>4, <1>5, <2>2
      <3> QED BY <3>1, Times
    <2>4. L * (z + 1) = L * z + L
      BY <1>1, <1>5
    <2> QED BY <1>1, <1>4, <1>5, <2>3, <2>4
  <1>7. off + i \in 0 .. c.block_size - 1
    BY <1>1, <1>3, <1>6 DEF L
  <1>8. first + (off + i) = addr + i
    BY <1>1, <1>3, <1>7 DEF L
  <1>9. Block(c, addr)[off + i] = mem[first + (off + i)]
    <2>1. Block(c, addr) = [o \in 0 .. c.block_size - 1 |-> mem[addr - Offset(c, addr) + o]]
      BY DEF Block, Offset
    <2>2. addr - Offset(c, addr) = first
      BY <1>1
    <2> HIDE DEF first
    <2> QED BY <1>7, <2>1, <2>2
  <1>10. addr + i \in DOMAIN mem
    <2>1. first + (off + i) \in first .. first + c.block_size - 1
      <3>1. first \in Int
        BY <1>1, <1>3
      <3> HIDE DEF first
      <3> QED BY <1>1, <1>7, <3>1
    <2> QED BY <1>2, <1>8, <2>1
  <1>11. mem[addr + i] \in 0 .. 255
    BY <1>10, MemoryAssumption
  <1> HIDE DEF first
  <1> QED BY <1>1, <1>8, <1>9, <1>11

LEMMA NextPlace ==
    ASSUME NEW m \in Nat
    PROVE  2 ^ m \in Nat /\ 2 ^ (m + 8) = 256 * 2 ^ m
  <1>1. \A k \in Nat : 2 ^ k \in Nat /\ 2 ^ (k + 1) = 2 * 2 ^ k
    BY TwoTo
  <1>2. \A k \in Nat : 2 ^ (k + 2) = 4 * 2 ^ k
    <2> SUFFICES ASSUME NEW k \in Nat PROVE 2 ^ (k + 2) = 4 * 2 ^ k
      OBVIOUS
    <2>1. k + 1 \in Nat /\ k + 1 + 1 = k + 2
      OBVIOUS
    <2>2. 2 ^ (k + 1 + 1) = 2 * 2 ^ (k + 1) /\ 2 ^ (k + 1) = 2 * 2 ^ k /\ 2 ^ k \in Nat
      BY <1>1, <2>1
    <2>3. 2 ^ (k + 2) = 2 * 2 ^ (k + 1)
      BY <2>1, <2>2, Zenon
    <2> QED BY <2>2, <2>3
  <1>3. 2 ^ (m + 4) = 16 * 2 ^ m
    <2>1. m + 2 \in Nat /\ m + 2 + 2 = m + 4
      OBVIOUS
    <2>2. 2 ^ (m + 2 + 2) = 4 * 2 ^ (m + 2) /\ 2 ^ (m + 2) = 4 * 2 ^ m /\ 2 ^ m \in Nat
      BY <1>1, <1>2, <2>1
    <2>3. 2 ^ (m + 4) = 4 * 2 ^ (m + 2)
      BY <2>1, <2>2, Zenon
    <2> QED BY <2>2, <2>3
  <1>4. 2 ^ (m + 8) = 16 * 2 ^ (m + 4)
    <2>1. m + 4 \in Nat /\ m + 6 \in Nat /\ m + 4 + 2 = m + 6 /\ m + 6 + 2 = m + 8
      OBVIOUS
    <2>2. /\ 2 ^ (m + 6 + 2) = 4 * 2 ^ (m + 6) /\ 2 ^ (m + 4 + 2) = 4 * 2 ^ (m + 4)
          /\ 2 ^ (m + 4) \in Nat
      BY <1>1, <1>2, <2>1
    <2>3. 2 ^ (m + 8) = 4 * 2 ^ (m + 6) /\ 2 ^ (m + 6) = 4 * 2 ^ (m + 4)
      BY <2>1, <2>2, Zenon
    <2> QED BY <2>2, <2>3
  <1> QED BY <1>1, <1>3, <1>4

(* Reading the bytes from the highest down gives the sum of the bytes, each *)
(* at its place.                                                            *)
LEMMA Retrieved ==
    ASSUME NEW line, NEW offset \in Int, NEW addr,
           \A i \in 0 .. sizeof_long - 1 :
              line.data[offset + i] = mem[addr + i] /\ mem[addr + i] \in 0 .. 255
    PROVE  cache_line_retrieve_data(line, offset) = LongAt(addr)
  <1> DEFINE L == sizeof_long
             Low(n) == line.data[offset + (L - n)]
             f == Places(addr)
             s == Sums(f, L)
             Is(h) == h = [n \in 0 .. L |-> IF n = 0 THEN 0 ELSE 256 * h[n - 1] + Low(n)]
             t == CHOOSE h : Is(h)
  <1>1. L \in Nat \ {0}
    BY MemoryAssumption
  <1>2. \A n \in 1 .. L : Low(n) = mem[addr + (L - n)] /\ Low(n) \in Int
    <2> SUFFICES ASSUME NEW n \in 1 .. L
                 PROVE  Low(n) = mem[addr + (L - n)] /\ Low(n) \in Int
      OBVIOUS
    <2>1. L - n \in 0 .. L - 1
      BY <1>1
    <2> QED BY <2>1
  <1>3. cache_line_retrieve_data(line, offset) = t[L] /\ LongAt(addr) = s[L]
    BY DEF cache_line_retrieve_data, LongAt, Sums
  <1>4. \A i \in 0 .. L - 1 :
           /\ mem[addr + i] \in Int /\ 2 ^ (8 * i) \in Int
           /\ f[i] = mem[addr + i] * 2 ^ (8 * i) /\ f[i] \in Int
    <2> SUFFICES ASSUME NEW i \in 0 .. L - 1
                 PROVE  /\ mem[addr + i] \in Int /\ 2 ^ (8 * i) \in Int
                        /\ f[i] = mem[addr + i] * 2 ^ (8 * i) /\ f[i] \in Int
      OBVIOUS
    <2>1. mem[addr + i] \in Int
      OBVIOUS
    <2>2. 8 * i \in Nat
      OBVIOUS
    <2>3. 2 ^ (8 * i) \in Int
      BY <2>2, TwoTo
    <2>4. f[i] = mem[addr + i] * 2 ^ (8 * i)
      BY DEF Places
    <2> QED BY <2>1, <2>3, <2>4
  <1> HIDE DEF L, f, Low
  <1>5. s \in [0 .. L -> Int] /\ Adds(f, s, L)
    BY <1>1, <1>4, SumsAdd
  <1>6. Is(t)
    <2> DEFINE step == [p \in (0 .. L - 1) \X Int |-> 256 * p[2] + Low(p[1] + 1)]
    <2>1. step \in [(0 .. L - 1) \X Int -> Int]
      BY <1>1, <1>2
    <2>2. \A k \in 0 .. L - 1, x \in Int : step[<<k, x>>] = 256 * x + Low(k + 1)
      OBVIOUS
    <2> HIDE DEF step
    <2>3. PICK h \in [0 .. L -> Int] :
              h[0] = 0 /\ \A k \in 0 .. L - 1 : h[k + 1] = step[<<k, h[k]>>]
      <3>1. 0 \in Int /\ L \in Nat
        BY <1>1
      <3> QED BY <2>1, <3>1, StepsExist
    <2>4. ASSUME NEW n \in 0 .. L, n # 0 PROVE h[n] = 256 * h[n - 1] + Low(n)
      <3> DEFINE k == n - 1
      <3>1. k \in 0 .. L - 1 /\ k + 1 = n /\ h[k] \in Int
        BY <1>1, <2>3, <2>4
      <3> HIDE DEF k
      <3>2. h[k + 1] = step[<<k, h[k]>>]
        BY <2>3, <3>1
      <3>3. step[<<k, h[k]>>] = 256 * h[k] + Low(k + 1)
        BY <2>2, <3>1
      <3>4. h[n] = 256 * h[k] + Low(n)
        BY <3>1, <3>2, <3>3, Zenon
      <3> QED BY <3>4 DEF k
    <2>5. \A n \in 0 .. L : h[n] = IF n = 0 THEN 0 ELSE 256 * h[n - 1] + Low(n)
      BY <2>3, <2>4
    <2>6. Is(h)
      BY <2>3, <2>5
    <2> HIDE DEF Is
    <2> QED BY <2>6
  <1> HIDE DEF s, t
  <1>7. t[0] = 0 /\ \A n \in 1 .. L : t[n] = 256 * t[n - 1] + Low(n)
    BY <1>1, <1>6
  <1> HIDE DEF Is
  <1> DEFINE w(n) == 2 ^ (8 * (L - n))
             S == {n \in Nat : n <= L => t[n] \in Int /\ s[L - n] + w(n) * t[n] = s[L]}
  <1>8. 0 \in S
    <2>1. s[L] \in Int /\ L - 0 = L /\ w(0) \in Int
      <3>1. L - 0 = L /\ 8 * (L - 0) \in Nat
        BY <1>1
      <3> QED BY <1>1, <1>5, <3>1, TwoTo
    <2> HIDE DEF w
    <2> QED BY <1>7, <2>1
  <1>9. ASSUME NEW n \in Nat, n \in S, n + 1 <= L PROVE n + 1 \in S
    <2> DEFINE j == L - (n + 1)
               x == t[n]
               b == mem[addr + j]
    <2>1. j \in 0 .. L - 1 /\ j + 1 = L - n /\ n + 1 \in 1 .. L /\ n + 1 - 1 = n
      BY <1>1, <1>9
    <2>2. x \in Int /\ s[j + 1] + w(n) * x = s[L]
      <3>1. n <= L
        BY <1>1, <1>9
      <3> HIDE DEF w
      <3>2. t[n] \in Int /\ s[L - n] + w(n) * t[n] = s[L]
        BY <1>9, <3>1
      <3> QED BY <2>1, <3>2, Zenon
    <2>3. s[j + 1] = s[j] + b * 2 ^ (8 * j) /\ s[j] \in Int /\ b \in Int
      <3>1. s[j + 1] = s[j] + f[j]
        BY <1>5, <2>1 DEF Adds
      <3>2. s[j] \in Int
        BY <1>1, <1>5, <2>1
      <3> QED BY <1>4, <2>1, <3>1, <3>2
    <2>4. t[n + 1] = 256 * x + b
      <3>1. Low(n + 1) = b
        BY <1>2, <2>1
      <3> QED BY <1>7, <2>1, <3>1
    <2>5. w(n) = 256 * 2 ^ (8 * j) /\ w(n + 1) = 2 ^ (8 * j) /\ 2 ^ (8 * j) \in Int
      <3>1. 8 * j \in Nat /\ 8 * (L - n) = 8 * j + 8
        BY <1>1, <2>1
      <3>2. 2 ^ (8 * j + 8) = 256 * 2 ^ (8 * j) /\ 2 ^ (8 * j) \in Nat
        BY <3>1, NextPlace
      <3> QED BY <3>1, <3>2
    <2> DEFINE y == 2 ^ (8 * j)
               u == s[j]
               v == s[L]
    <2>6. u + y * (256 * x + b) = v
      <3>1. u \in Int /\ y \in Int /\ x \in Int /\ b \in Int
        BY <2>2, <2>3, <2>5
      <3>2. (u + b * y) + (256 * y) * x = v
        BY <2>2, <2>3, <2>5, Zenon
      <3> HIDE DEF u, y, x, b, v
      <3>3. y * (256 * x + b) = b * y + (256 * y) * x /\ b * y \in Int /\ (256 * y) * x \in Int
        BY <3>1
      <3> QED BY <3>1, <3>2, <3>3
    <2>7. s[L - (n + 1)] + w(n + 1) * t[n + 1] = s[L]
      BY <2>4, <2>5, <2>6, Zenon
    <2>8. t[n + 1] \in Int
      BY <2>2, <2>3, <2>4
    <2> HIDE DEF w
    <2> QED BY <2>7, <2>8
  <1>10. L \in S
    <2>1. \A n \in Nat : n \in S => n + 1 \in S
      <3> SUFFICES ASSUME NEW n \in Nat, n \in S, ~(n + 1 <= L) PROVE n + 1 \in S
        BY <1>9
      <3> HIDE DEF w
      <3> QED BY <1>1
    <2> HIDE DEF S
    <2> QED BY <1>1, <1>8, <2>1, SetInduction
  <1>11. t[L] = s[L]
    <2>1. t[L] \in Int /\ s[L - L] + w(L) * t[L] = s[L]
      BY <1>1, <1>10
    <2>2. L - L = 0 /\ 8 * (L - L) = 0
      BY <1>1
    <2>3. s[0] = 0
      BY <1>5 DEF Adds
    <2>4. w(L) = 1
      BY <2>2, TwoToZero, Zenon
    <2>5. s[L - L] = 0
      BY <2>2, <2>3
    <2> HIDE DEF w
    <2>6. 0 + 1 * t[L] = s[L]
      BY <2>1, <2>4, <2>5, Zenon
    <2> QED BY <2>1, <2>6
  <1> QED BY <1>3, <1>11

----
(* A set of n lines. *)
IsSet(set, n) ==
    /\ set.cache_lines \in [0 .. n - 1 -> 0 .. n - 1]
    /\ DOMAIN set.line = 0 .. n - 1
    /\ \A w \in 0 .. n - 1 : set.line[w].is_valid \in {0, 1}

(* The position a line had before the line at position i was moved to the   *)
(* front.                                                                   *)
Before(i, k) == IF k = 0 THEN i ELSE IF k <= i THEN k - 1 ELSE k

(* Moving line i to the front rotates the positions 0 .. i.                 *)
LEMMA BeforeFacts ==
    ASSUME NEW n \in Nat \ {0}, NEW i \in 0 .. n - 1
    PROVE  /\ \A k \in 0 .. n - 1 : Before(i, k) \in 0 .. n - 1
           /\ \A k, l \in 0 .. n - 1 : k # l => Before(i, k) # Before(i, l)
           /\ \A k, l \in 0 .. n - 1 : 0 < k /\ k < l => Before(i, k) < Before(i, l)
           /\ \A k \in 0 .. n - 1 : 0 < k => Before(i, k) # i
           /\ \A j \in 0 .. n - 1 : \E k \in 0 .. n - 1 : Before(i, k) = j
  <1>1. \A k \in 0 .. n - 1 : Before(i, k) \in 0 .. n - 1
    BY DEF Before
  <1>2. \A k, l \in 0 .. n - 1 : k # l => Before(i, k) # Before(i, l)
    BY DEF Before
  <1>3. \A k, l \in 0 .. n - 1 : 0 < k /\ k < l => Before(i, k) < Before(i, l)
    BY DEF Before
  <1>4. \A k \in 0 .. n - 1 : 0 < k => Before(i, k) # i
    BY DEF Before
  <1>5. ASSUME NEW j \in 0 .. n - 1 PROVE \E k \in 0 .. n - 1 : Before(i, k) = j
    <2>1. CASE j = i
      <3>1. 0 \in 0 .. n - 1 /\ Before(i, 0) = j
        BY <2>1 DEF Before
      <3> QED BY <3>1
    <2>2. CASE j < i
      <3>1. j + 1 \in 0 .. n - 1 /\ Before(i, j + 1) = j
        BY <2>2 DEF Before
      <3> QED BY <3>1
    <2>3. CASE j > i
      <3>1. Before(i, j) = j
        BY <2>3 DEF Before
      <3> QED BY <3>1
    <2> QED BY <2>1, <2>2, <2>3
  <1> QED BY <1>1, <1>2, <1>3, <1>4, <1>5

(* cache_line_make_mru permutes the pointers and touches no line.           *)
LEMMA MadeMru ==
    ASSUME NEW n \in Nat \ {0}, NEW set, IsSet(set, n), NEW i \in 0 .. n - 1
    PROVE  LET m == cache_line_make_mru(set, i)
           IN  /\ IsSet(m, n)
               /\ \A k \in 0 .. n - 1 : LineAt(m, k) = LineAt(set, Before(i, k))
               /\ \A k \in 0 .. n - 1 : m.cache_lines[k] = set.cache_lines[Before(i, k)]
  <1> DEFINE m == cache_line_make_mru(set, i)
  <1>1. m.line = set.line
    BY DEF cache_line_make_mru
  <1>2. m.cache_lines = [k \in 0 .. n - 1 |-> IF k = 0 THEN set.cache_lines[i]
                                              ELSE IF k <= i THEN set.cache_lines[k - 1]
                                              ELSE set.cache_lines[k]]
    BY DEF cache_line_make_mru, Positions, IsSet
  <1>3. \A k \in 0 .. n - 1 : m.cache_lines[k] = set.cache_lines[Before(i, k)]
    BY <1>2 DEF Before
  <1>4. m.cache_lines \in [0 .. n - 1 -> 0 .. n - 1]
    <2>1. \A k \in 0 .. n - 1 : set.cache_lines[Before(i, k)] \in 0 .. n - 1
      BY BeforeFacts DEF IsSet
    <2>2. DOMAIN m.cache_lines = 0 .. n - 1
      BY <1>2
    <2> QED BY <1>2, <1>3, <2>1, <2>2
  <1> HIDE DEF m
  <1>5. IsSet(m, n)
    BY <1>1, <1>4 DEF IsSet
  <1> QED BY <1>1, <1>3, <1>5 DEF LineAt, m

(* m is the set after the line at position i went to the front with tag t.  *)
Moved(set, m, n, i, t) ==
    /\ \A k \in 0 .. n - 1 : m.cache_lines[k] = set.cache_lines[Before(i, k)]
    /\ \A k \in 0 .. n - 1 : k > 0 => LineAt(m, k) = LineAt(set, Before(i, k))
    /\ LineAt(m, 0).is_valid = 1 /\ LineAt(m, 0).tag = t

(* What the move does to the valid lines and their tags. *)
AfterMove(set, m, n, i, t) ==
    /\ SetSound(m)
    /\ 0 \in Valid(m) /\ TagAt(m, 0) = t
    /\ \A k \in 0 .. n - 1 : k > 0 =>
          /\ k \in Valid(m) <=> Before(i, k) \in Valid(set)
          /\ TagAt(m, k) = TagAt(set, Before(i, k))
    /\ CachedTags(m) = {TagAt(set, j) : j \in Valid(set) \ {i}} \cup {t}

(* The move keeps a set sound if the lines before i were valid and no other *)
(* line had the tag t.                                                      *)
LEMMA MovedSound ==
    ASSUME NEW n \in Nat \ {0}, NEW set, IsSet(set, n), SetSound(set),
           NEW i \in 0 .. n - 1, \A j \in 0 .. n - 1 : j < i => j \in Valid(set),
           NEW t, \A j \in Valid(set) : j # i => TagAt(set, j) # t,
           NEW m, IsSet(m, n), Moved(set, m, n, i, t)
    PROVE  AfterMove(set, m, n, i, t)
  <1>1. Positions(set) = 0 .. n - 1 /\ Positions(m) = 0 .. n - 1 /\ 0 \in 0 .. n - 1
    BY DEF IsSet, Positions
  <1>2. /\ \A k \in 0 .. n - 1 : Before(i, k) \in 0 .. n - 1
        /\ \A k, l \in 0 .. n - 1 : k # l => Before(i, k) # Before(i, l)
        /\ \A k, l \in 0 .. n - 1 : 0 < k /\ k < l => Before(i, k) < Before(i, l)
        /\ \A k \in 0 .. n - 1 : 0 < k => Before(i, k) # i
        /\ \A j \in 0 .. n - 1 : \E k \in 0 .. n - 1 : Before(i, k) = j
    BY BeforeFacts
  <1>3. 0 \in Valid(m) /\ TagAt(m, 0) = t
    BY <1>1 DEF Moved, Valid, TagAt
  <1>4. ASSUME NEW k \in 0 .. n - 1, k > 0
        PROVE  /\ k \in Valid(m) <=> Before(i, k) \in Valid(set)
               /\ TagAt(m, k) = TagAt(set, Before(i, k))
    <2>1. LineAt(m, k) = LineAt(set, Before(i, k)) /\ Before(i, k) \in 0 .. n - 1
      BY <1>2, <1>4 DEF Moved
    <2>2. k \in Valid(m) <=> LineAt(m, k).is_valid = 1
      BY <1>1 DEF Valid
    <2>3. Before(i, k) \in Valid(set) <=> LineAt(set, Before(i, k)).is_valid = 1
      BY <1>1, <2>1 DEF Valid
    <2> QED BY <2>1, <2>2, <2>3 DEF TagAt
  <1>5. ASSUME NEW k \in Positions(m), NEW l \in Positions(m), k # l
        PROVE  m.cache_lines[k] # m.cache_lines[l]
    <2>1. \A j, h \in 0 .. n - 1 : j # h => set.cache_lines[j] # set.cache_lines[h]
      BY <1>1 DEF SetSound
    <2>2. Before(i, k) # Before(i, l) /\ Before(i, k) \in 0 .. n - 1
          /\ Before(i, l) \in 0 .. n - 1
      BY <1>1, <1>2, <1>5
    <2> QED BY <2>1, <2>2, <1>1 DEF Moved
  <1>6. ASSUME NEW k \in Positions(m), NEW l \in Positions(m), k < l, l \in Valid(m)
        PROVE  k \in Valid(m)
    <2>1. CASE k = 0
      BY <2>1, <1>3
    <2>2. CASE k > 0
      <3>1. l > 0 /\ Before(i, l) \in Valid(set)
        BY <2>2, <1>1, <1>4, <1>6
      <3>2. Before(i, k) \in Valid(set)
        BY <2>2, <3>1, <1>1, <1>2, <1>6 DEF SetSound
      <3> QED BY <2>2, <3>2, <1>1, <1>4
    <2> QED BY <2>1, <2>2, <1>1
  <1>7. ASSUME NEW k \in Valid(m), k > 0
        PROVE  TagAt(m, k) # t
    <2>1. k \in 0 .. n - 1
      BY <1>1 DEF Valid
    <2>2. Before(i, k) \in Valid(set) /\ Before(i, k) # i
      BY <2>1, <1>2, <1>4, <1>7
    <2> QED BY <2>1, <2>2, <1>4, <1>7
  <1>8. ASSUME NEW k \in Valid(m), NEW l \in Valid(m), k # l
        PROVE  TagAt(m, k) # TagAt(m, l)
    <2>1. k \in 0 .. n - 1 /\ l \in 0 .. n - 1
      BY <1>1 DEF Valid
    <2>2. CASE k = 0
      BY <2>1, <2>2, <1>3, <1>7, <1>8
    <2>3. CASE l = 0
      BY <2>1, <2>3, <1>3, <1>7, <1>8
    <2>4. CASE k > 0 /\ l > 0
      BY <2>1, <2>4, <1>2, <1>4, <1>8 DEF SetSound
    <2> QED BY <2>1, <2>2, <2>3, <2>4
  <1>9. SetSound(m)
    BY <1>5, <1>6, <1>8 DEF SetSound
  <1>10. CachedTags(m) = {TagAt(set, j) : j \in Valid(set) \ {i}} \cup {t}
    <2>1. ASSUME NEW k \in Valid(m)
          PROVE  TagAt(m, k) \in {TagAt(set, j) : j \in Valid(set) \ {i}} \cup {t}
      <3>1. k \in 0 .. n - 1
        BY <1>1 DEF Valid
      <3>2. CASE k = 0
        BY <3>2, <1>3
      <3>3. CASE k > 0
        BY <3>1, <3>3, <1>2, <1>4
      <3> QED BY <3>1, <3>2, <3>3
    <2>2. ASSUME NEW j \in Valid(set) \ {i}
          PROVE  TagAt(set, j) \in CachedTags(m)
      <3>1. PICK k \in 0 .. n - 1 : Before(i, k) = j
        BY <1>1, <1>2 DEF Valid
      <3>2. k > 0
        BY <3>1 DEF Before
      <3>3. k \in Valid(m) /\ TagAt(m, k) = TagAt(set, j)
        BY <3>1, <3>2, <1>4
      <3> QED BY <3>3 DEF CachedTags
    <2> QED BY <2>1, <2>2, <1>3 DEF CachedTags
  <1> QED BY <1>3, <1>4, <1>9, <1>10 DEF AfterMove

(* The move keeps the valid lines in the order of their last reads, t being *)
(* the newest tag.                                                          *)
LEMMA MovedOrdered ==
    ASSUME NEW n \in Nat \ {0}, NEW set, IsSet(set, n), SetSound(set),
           NEW i \in 0 .. n - 1, \A j \in 0 .. n - 1 : j < i => j \in Valid(set),
           NEW t, \A j \in Valid(set) : j # i => TagAt(set, j) # t,
           NEW m, IsSet(m, n), Moved(set, m, n, i, t),
           NEW S, NEW N, CachedTags(set) \subseteq S,
           \A j, k \in Valid(set) : j < k => <<TagAt(set, j), TagAt(set, k)>> \in N
    PROVE  \A k, l \in Valid(m) :
              k < l => <<TagAt(m, k), TagAt(m, l)>> \in MakeNewest(t, S, N)
  <1>1. Positions(set) = 0 .. n - 1 /\ Positions(m) = 0 .. n - 1
    BY DEF IsSet, Positions
  <1>2. /\ SetSound(m) /\ 0 \in Valid(m) /\ TagAt(m, 0) = t
        /\ \A k \in 0 .. n - 1 : k > 0 =>
              /\ k \in Valid(m) <=> Before(i, k) \in Valid(set)
              /\ TagAt(m, k) = TagAt(set, Before(i, k))
    <2>1. AfterMove(set, m, n, i, t)
      BY MovedSound
    <2> QED BY <2>1 DEF AfterMove
  <1>3. \A k, l \in 0 .. n - 1 : 0 < k /\ k < l => Before(i, k) < Before(i, l)
    BY BeforeFacts
  <1>4. SUFFICES ASSUME NEW k \in Valid(m), NEW l \in Valid(m), k < l
                 PROVE  <<TagAt(m, k), TagAt(m, l)>> \in MakeNewest(t, S, N)
    OBVIOUS
  <1>5. k \in 0 .. n - 1 /\ l \in 0 .. n - 1 /\ l > 0
    BY <1>1, <1>4 DEF Valid
  <1>6. TagAt(m, l) # t
    BY <1>2, <1>4, <1>5 DEF SetSound
  <1>7. CASE k = 0
    <2>1. TagAt(m, l) \in S
      BY <1>2, <1>5 DEF CachedTags
    <2> QED BY <2>1, <1>2, <1>6, <1>7 DEF MakeNewest
  <1>8. CASE k > 0
    <2>1. <<TagAt(m, k), TagAt(m, l)>> \in N
      BY <1>2, <1>3, <1>4, <1>5, <1>8
    <2> QED BY <2>1, <1>6 DEF MakeNewest
  <1> QED BY <1>5, <1>7, <1>8

(* What is true of one set between two reads: S are the tags read so far, N *)
(* the order of their last reads.                                           *)
SetInv(set, n, S, N, policies) ==
    /\ IsSet(set, n) /\ SetSound(set)
    /\ CachedTags(set) \subseteq S
    /\ ReplacementPolicy(policies) = CACHE_REPLACEMENTPOLICY_LRU => RecencyOrdered(set, S, N)

(* A tag that is cached moves to the front. *)
LEMMA HitSet ==
    ASSUME NEW n \in Nat \ {0}, NEW S, NEW N, NEW policies,
           NEW set, SetInv(set, n, S, N, policies),
           NEW t, NEW i \in First(Matching(set, t))
    PROVE  LET m == cache_line_make_mru(set, i)
           IN  /\ SetInv(m, n, S \cup {t}, MakeNewest(t, S, N), policies)
               /\ CachedTags(m) = CachedTags(set) /\ t \in CachedTags(set)
  <1> DEFINE m == cache_line_make_mru(set, i)
  <1>1. IsSet(set, n) /\ SetSound(set) /\ CachedTags(set) \subseteq S
        /\ Positions(set) = 0 .. n - 1
    BY DEF SetInv, IsSet, Positions
  <1>2. i \in 0 .. n - 1 /\ i \in Valid(set) /\ TagAt(set, i) = t
    BY <1>1 DEF First, Matching, cache_line_check_validity_and_tag, Valid, TagAt
  <1>3. \A j \in 0 .. n - 1 : j < i => j \in Valid(set)
    BY <1>1, <1>2 DEF SetSound
  <1>4. \A j \in Valid(set) : j # i => TagAt(set, j) # t
    BY <1>1, <1>2 DEF SetSound
  <1>5. /\ IsSet(m, n)
        /\ \A k \in 0 .. n - 1 : LineAt(m, k) = LineAt(set, Before(i, k))
        /\ \A k \in 0 .. n - 1 : m.cache_lines[k] = set.cache_lines[Before(i, k)]
    BY <1>1, <1>2, MadeMru
  <1> HIDE DEF m
  <1>6. Moved(set, m, n, i, t)
    <2>1. 0 \in 0 .. n - 1 /\ Before(i, 0) = i
      BY DEF Before
    <2>2. LineAt(set, i).is_valid = 1 /\ LineAt(set, i).tag = t
      BY <1>2 DEF Valid, TagAt
    <2> QED BY <2>1, <2>2, <1>5 DEF Moved
  <1>7. AfterMove(set, m, n, i, t)
    BY <1>1, <1>2, <1>3, <1>4, <1>5, <1>6, MovedSound
  <1>8. CachedTags(m) = CachedTags(set) /\ t \in CachedTags(set) /\ t \in S
    BY <1>1, <1>2, <1>7 DEF AfterMove, CachedTags
  <1>9. ASSUME RecencyOrdered(set, S, N)
        PROVE  RecencyOrdered(m, S \cup {t}, MakeNewest(t, S, N))
    <2>1. \A k, l \in Valid(m) :
              k < l => <<TagAt(m, k), TagAt(m, l)>> \in MakeNewest(t, S, N)
      <3>1. \A j, k \in Valid(set) : j < k => <<TagAt(set, j), TagAt(set, k)>> \in N
        BY <1>9 DEF RecencyOrdered
      <3> QED BY <3>1, <1>1, <1>2, <1>3, <1>4, <1>5, <1>6, MovedOrdered
    <2>2. ASSUME NEW u \in (S \cup {t}) \ CachedTags(m), NEW k \in Positions(m)
          PROVE  k \in Valid(m) /\ <<TagAt(m, k), u>> \in MakeNewest(t, S, N)
      <3>1. k \in 0 .. n - 1 /\ u \in S \ CachedTags(set) /\ u # t
        BY <2>2, <1>2, <1>5, <1>8 DEF IsSet, Positions, CachedTags
      <3>2. CASE k = 0
        BY <3>1, <3>2, <1>7 DEF AfterMove, MakeNewest
      <3>3. CASE k > 0
        <4>1. Before(i, k) \in 0 .. n - 1
          BY <3>1, <1>2, BeforeFacts
        <4>2. Before(i, k) \in Valid(set) /\ <<TagAt(set, Before(i, k)), u>> \in N
          BY <4>1, <3>1, <1>1, <1>9 DEF RecencyOrdered
        <4> QED BY <4>2, <3>1, <3>3, <1>7 DEF AfterMove, MakeNewest
      <3> QED BY <3>1, <3>2, <3>3
    <2> QED BY <2>1, <2>2 DEF RecencyOrdered
  <1>10. SetInv(m, n, S \cup {t}, MakeNewest(t, S, N), policies)
    BY <1>1, <1>5, <1>7, <1>8, <1>9 DEF SetInv, AfterMove
  <1> QED BY <1>8, <1>10 DEF m

(* The position find_available_cache_line chooses: behind valid lines only, *)
(* and the last one if the set is full and the policy LRU.                  *)
LEMMA AvailableFacts ==
    ASSUME NEW n \in Nat \ {0}, NEW policies,
           NEW set, IsSet(set, n), SetSound(set),
           NEW i \in Available(set, n, policies)
    PROVE  /\ i \in 0 .. n - 1
           /\ \A j \in 0 .. n - 1 : j < i => j \in Valid(set)
           /\ \/ i \notin Valid(set)
              \/ /\ Valid(set) = 0 .. n - 1
                 /\ ReplacementPolicy(policies) = CACHE_REPLACEMENTPOLICY_LRU => i = n - 1
  <1>1. Positions(set) = 0 .. n - 1
    BY DEF IsSet, Positions
  <1>2. \A j \in 0 .. n - 1 : LineAt(set, j).is_valid \in {0, 1}
    BY DEF IsSet, LineAt
  <1>3. \A j \in 0 .. n - 1 : j \in Valid(set) <=> j \notin Unused(set)
    BY <1>1, <1>2 DEF Valid, Unused
  <1>4. CASE Unused(set) # {}
    <2>1. i \in Unused(set) /\ \A j \in Unused(set) : i <= j
      BY <1>4 DEF Available, First
    <2>2. i \in 0 .. n - 1
      BY <2>1, <1>1 DEF Unused
    <2> QED BY <2>1, <2>2, <1>3
  <1>5. CASE Unused(set) = {}
    <2>1. Valid(set) = 0 .. n - 1
      BY <1>1, <1>3, <1>5 DEF Valid
    <2>2. CASE ReplacementPolicy(policies) = CACHE_REPLACEMENTPOLICY_LRU
      <3>1. i = n - 1
        BY <2>2, <1>5 DEF Available
      <3> QED BY <3>1, <2>1
    <2>3. CASE ReplacementPolicy(policies) # CACHE_REPLACEMENTPOLICY_LRU
      <3>1. PICK r \in Rands : i = r % n
        BY <2>3, <1>5 DEF Available
      <3>2. r \in Nat
        BY RandAssumption
      <3>3. i \in 0 .. n - 1
        BY <3>1, <3>2
      <3> QED BY <3>3, <2>1, <2>3
    <2> QED BY <2>2, <2>3
  <1> QED BY <1>4, <1>5

(* cache_set_add changes the line it moves to the front, and no other. *)
LEMMA Added ==
    ASSUME NEW n \in Nat \ {0}, NEW set, IsSet(set, n), SetSound(set),
           NEW i \in 0 .. n - 1, NEW t, NEW d
    PROVE  LET m == cache_set_add(set, i, t, d)
           IN  /\ IsSet(m, n)
               /\ \A k \in 0 .. n - 1 : m.cache_lines[k] = set.cache_lines[Before(i, k)]
               /\ LineAt(m, 0) = [is_valid |-> 1, tag |-> t, data |-> d]
               /\ \A k \in 0 .. n - 1 : k > 0 => LineAt(m, k) = LineAt(set, Before(i, k))
  <1> DEFINE v == cache_line_make_mru(set, i)
             m == cache_set_add(set, i, t, d)
  <1>1. Positions(set) = 0 .. n - 1
    BY DEF IsSet, Positions
  <1>2. /\ IsSet(v, n)
        /\ \A k \in 0 .. n - 1 : LineAt(v, k) = LineAt(set, Before(i, k))
        /\ \A k \in 0 .. n - 1 : v.cache_lines[k] = set.cache_lines[Before(i, k)]
    BY MadeMru
  <1>3. /\ m.cache_lines = v.cache_lines
        /\ m.line = [v.line EXCEPT ![v.cache_lines[0]] =
                        [is_valid |-> 1, tag |-> t, data |-> d]]
    BY DEF cache_set_add
  <1> HIDE DEF v, m
  <1>4. 0 \in 0 .. n - 1 /\ v.cache_lines[0] \in 0 .. n - 1
        /\ v.cache_lines[0] = set.cache_lines[i]
    <2>1. 0 \in 0 .. n - 1 /\ Before(i, 0) = i
      BY DEF Before
    <2> QED BY <2>1, <1>2 DEF IsSet
  <1>5. IsSet(m, n)
    <2>1. m.cache_lines \in [0 .. n - 1 -> 0 .. n - 1] /\ DOMAIN m.line = 0 .. n - 1
      BY <1>2, <1>3 DEF IsSet
    <2>2. ASSUME NEW w \in 0 .. n - 1 PROVE m.line[w].is_valid \in {0, 1}
      <3>1. CASE w = v.cache_lines[0]
        <4>1. m.line[w] = [is_valid |-> 1, tag |-> t, data |-> d]
          BY <3>1, <1>2, <1>3, <1>4 DEF IsSet
        <4> QED BY <4>1
      <3>2. CASE w # v.cache_lines[0]
        <4>1. m.line[w] = v.line[w]
          BY <3>2, <1>2, <1>3 DEF IsSet
        <4> QED BY <4>1, <1>2 DEF IsSet
      <3> QED BY <3>1, <3>2
    <2> QED BY <2>1, <2>2 DEF IsSet
  <1>6. LineAt(m, 0) = [is_valid |-> 1, tag |-> t, data |-> d]
    BY <1>2, <1>3, <1>4 DEF LineAt, IsSet
  <1>7. ASSUME NEW k \in 0 .. n - 1, k > 0
        PROVE  LineAt(m, k) = LineAt(set, Before(i, k))
    <2>1. Before(i, k) \in 0 .. n - 1 /\ Before(i, k) # i
      BY <1>7, BeforeFacts
    <2>2. v.cache_lines[k] # v.cache_lines[0]
      BY <2>1, <1>1, <1>2, <1>4, <1>7 DEF SetSound
    <2>3. v.cache_lines[k] \in 0 .. n - 1
      BY <1>2, <1>7 DEF IsSet
    <2>4. LineAt(m, k) = LineAt(v, k)
      BY <2>2, <2>3, <1>2, <1>3 DEF LineAt, IsSet
    <2> QED BY <2>4, <1>2
  <1>8. \A k \in 0 .. n - 1 : m.cache_lines[k] = set.cache_lines[Before(i, k)]
    BY <1>2, <1>3
  <1> QED BY <1>5, <1>6, <1>7, <1>8 DEF m

(* A tag that is not cached takes the chosen line, which moves to the front. *)
LEMMA MissSet ==
    ASSUME NEW n \in Nat \ {0}, NEW S, NEW N, NEW policies,
           NEW set, SetInv(set, n, S, N, policies),
           NEW t, Matching(set, t) = {}, NEW i \in Available(set, n, policies), NEW d
    PROVE  LET m == cache_set_add(set, i, t, d)
           IN  /\ SetInv(m, n, S \cup {t}, MakeNewest(t, S, N), policies)
               /\ CachedTags(m) = {TagAt(set, j) : j \in Valid(set) \ {i}} \cup {t}
               /\ \A j \in Valid(set) : TagAt(set, j) # t
  <1> DEFINE m == cache_set_add(set, i, t, d)
  <1>1. IsSet(set, n) /\ SetSound(set) /\ CachedTags(set) \subseteq S
        /\ Positions(set) = 0 .. n - 1
    BY DEF SetInv, IsSet, Positions
  <1>2. /\ i \in 0 .. n - 1
        /\ \A j \in 0 .. n - 1 : j < i => j \in Valid(set)
        /\ \/ i \notin Valid(set)
           \/ /\ Valid(set) = 0 .. n - 1
              /\ ReplacementPolicy(policies) = CACHE_REPLACEMENTPOLICY_LRU => i = n - 1
    BY <1>1, AvailableFacts
  <1>3. \A j \in Valid(set) : TagAt(set, j) # t
    BY DEF Matching, cache_line_check_validity_and_tag, Valid, TagAt
  <1>4. /\ IsSet(m, n)
        /\ \A k \in 0 .. n - 1 : m.cache_lines[k] = set.cache_lines[Before(i, k)]
        /\ LineAt(m, 0) = [is_valid |-> 1, tag |-> t, data |-> d]
        /\ \A k \in 0 .. n - 1 : k > 0 => LineAt(m, k) = LineAt(set, Before(i, k))
    BY <1>1, <1>2, Added
  <1> HIDE DEF m
  <1>5. Moved(set, m, n, i, t)
    BY <1>4 DEF Moved
  <1>6. AfterMove(set, m, n, i, t)
    BY <1>1, <1>2, <1>3, <1>4, <1>5, MovedSound
  <1>7. CachedTags(m) \subseteq S \cup {t}
    BY <1>1, <1>6 DEF AfterMove, CachedTags
  <1>8. ASSUME RecencyOrdered(set, S, N),
                ReplacementPolicy(policies) = CACHE_REPLACEMENTPOLICY_LRU
         PROVE  RecencyOrdered(m, S \cup {t}, MakeNewest(t, S, N))
    <2>1. \A k, l \in Valid(m) :
              k < l => <<TagAt(m, k), TagAt(m, l)>> \in MakeNewest(t, S, N)
      <3>1. \A j, k \in Valid(set) : j < k => <<TagAt(set, j), TagAt(set, k)>> \in N
        BY <1>8 DEF RecencyOrdered
      <3> QED BY <3>1, <1>1, <1>2, <1>3, <1>4, <1>5, MovedOrdered
    <2>2. ASSUME NEW u \in (S \cup {t}) \ CachedTags(m), NEW k \in Positions(m)
          PROVE  k \in Valid(m) /\ <<TagAt(m, k), u>> \in MakeNewest(t, S, N)
      <3>1. k \in 0 .. n - 1 /\ u \in S /\ u # t
        BY <2>2, <1>4, <1>6 DEF IsSet, Positions, AfterMove
      <3>2. Valid(set) = 0 .. n - 1 /\ i = n - 1
        <4>1. CASE u \in CachedTags(set)
          <5>1. i \in Valid(set)
            BY <4>1, <2>2, <1>6 DEF AfterMove, CachedTags
          <5> QED BY <5>1, <1>2, <1>8
        <4>2. CASE u \notin CachedTags(set)
          <5>1. i \in Valid(set)
            BY <4>2, <3>1, <1>1, <1>2, <1>8 DEF RecencyOrdered
          <5> QED BY <5>1, <1>2, <1>8
        <4> QED BY <4>1, <4>2
      <3>3. CASE k = 0
        BY <3>1, <3>3, <1>6 DEF AfterMove, MakeNewest
      <3>4. CASE k > 0
        <4>1. Before(i, k) \in 0 .. n - 1 /\ Before(i, k) = k - 1
          BY <3>1, <3>2, <3>4 DEF Before
        <4>2. k \in Valid(m) /\ TagAt(m, k) = TagAt(set, k - 1)
          BY <4>1, <3>1, <3>2, <3>4, <1>6 DEF AfterMove
        <4>3. <<TagAt(set, k - 1), u>> \in N
          <5>1. CASE u \in CachedTags(set)
            <6>1. u = TagAt(set, i)
              BY <5>1, <2>2, <1>6 DEF AfterMove, CachedTags
            <6>2. k - 1 \in Valid(set) /\ i \in Valid(set) /\ k - 1 < i
              BY <4>1, <3>1, <3>2
            <6> QED BY <6>1, <6>2, <1>8 DEF RecencyOrdered
          <5>2. CASE u \notin CachedTags(set)
            BY <5>2, <4>1, <3>1, <1>1, <1>8 DEF RecencyOrdered
          <5> QED BY <5>1, <5>2
        <4> QED BY <4>2, <4>3, <3>1 DEF MakeNewest
      <3> QED BY <3>1, <3>3, <3>4
    <2> QED BY <2>1, <2>2 DEF RecencyOrdered
  <1>9. SetInv(m, n, S \cup {t}, MakeNewest(t, S, N), policies)
    BY <1>1, <1>4, <1>6, <1>7, <1>8 DEF SetInv, AfterMove
  <1>10. CachedTags(m) = {TagAt(set, j) : j \in Valid(set) \ {i}} \cup {t}
    BY <1>6 DEF AfterMove
  <1> QED BY <1>3, <1>9, <1>10 DEF m

----
(* The inductive invariant. *)
HInv ==
    /\ TypeOK
    /\ DOMAIN seen = DOMAIN sets /\ DOMAIN newer = DOMAIN sets
    /\ \A s \in DOMAIN sets :
          SetInv(sets[s], cache.associativity, seen[s], newer[s], cache.policies)

(* Every cache has at least one line per set. *)
LEMMA Lines ==
    ASSUME cache \in {Fields(args) : args \in Caches}
    PROVE  cache.associativity \in Nat \ {0}
  BY CacheAssumption DEF Fields

(* A new set holds nothing. *)
LEMMA NewSet ==
    ASSUME NEW n \in Nat \ {0}, NEW size, NEW policies
    PROVE  LET set == cache_set_init(n, size)
           IN  SetInv(set, n, {}, {}, policies) /\ Valid(set) = {}
  <1> DEFINE set == cache_set_init(n, size)
  <1>1. /\ set.cache_lines = [k \in 0 .. n - 1 |-> k]
        /\ DOMAIN set.line = 0 .. n - 1
        /\ \A w \in 0 .. n - 1 : set.line[w].is_valid = 0
    BY DEF cache_set_init
  <1> HIDE DEF set
  <1>2. IsSet(set, n)
    BY <1>1 DEF IsSet
  <1>3. Valid(set) = {}
    <2>1. \A k \in 0 .. n - 1 : LineAt(set, k).is_valid = 0
      BY <1>1 DEF LineAt
    <2> QED BY <2>1, <1>1 DEF Valid, Positions
  <1>4. SetSound(set)
    BY <1>1, <1>3 DEF SetSound, Positions
  <1>5. CachedTags(set) = {} /\ RecencyOrdered(set, {}, {})
    BY <1>3 DEF CachedTags, RecencyOrdered
  <1> QED BY <1>2, <1>3, <1>4, <1>5 DEF SetInv, set

(* A new cache satisfies the invariant. *)
LEMMA InitHInv ==
    ASSUME HInit PROVE HInv
  <1> DEFINE n == cache.associativity
  <1>1. cache \in {Fields(args) : args \in Caches} /\ n \in Nat \ {0}
    BY Lines DEF HInit, Init
  <1>2. /\ sets = [s \in 0 .. cache.num_sets - 1 |-> cache_set_init(n, cache.block_size)]
        /\ access_count = 0 /\ miss_count = 0 /\ returned = NothingRead
        /\ seen = [s \in DOMAIN sets |-> {}] /\ newer = [s \in DOMAIN sets |-> {}]
    BY DEF HInit, Init, CacheInit
  <1>3. \A s \in DOMAIN sets : sets[s] = cache_set_init(n, cache.block_size)
    BY <1>2
  <1> HIDE DEF n
  <1>4. \A s \in DOMAIN sets : SetInv(sets[s], n, seen[s], newer[s], cache.policies)
    BY <1>1, <1>2, <1>3, NewSet
  <1>5. TypeOK
    <2>1. returned.address = -1
      BY <1>2 DEF NothingRead
    <2>2. access_count \in 0 .. MaxReads /\ miss_count \in 0 .. access_count
      BY <1>2, MemoryAssumption
    <2>3. DOMAIN sets = 0 .. cache.num_sets - 1
      BY <1>2
    <2> QED BY <2>1, <2>2, <2>3, <1>1, <1>4 DEF TypeOK, SetInv, IsSet, n
  <1> QED BY <1>2, <1>4, <1>5 DEF HInv, n

(* Every read preserves the invariant. *)
LEMMA NextHInv ==
    ASSUME HInv, [HNext]_hvars PROVE HInv'
  <1> DEFINE n == cache.associativity
  <1>1. cache \in {Fields(args) : args \in Caches} /\ n \in Nat \ {0}
        /\ DOMAIN seen = DOMAIN sets /\ DOMAIN newer = DOMAIN sets
    BY Lines DEF HInv, TypeOK
  <1>2. ASSUME NEW addr \in Addresses, access_count < MaxReads,
               cache_read(addr), Remember(addr)
        PROVE  HInv'
    <2> DEFINE x == Index(cache, addr)
               t == Tag(cache, addr)
               S == seen[x]
               N == newer[x]
    <2>1. /\ seen' = [seen EXCEPT ![x] = S \cup {t}]
          /\ newer' = [newer EXCEPT ![x] = MakeNewest(t, S, N)]
      BY <1>2 DEF Remember
    <2>2. ASSUME NEW new, Finish(addr, new), miss_count' \in {miss_count, miss_count + 1},
                 x \in DOMAIN sets => SetInv(new, n, S \cup {t}, MakeNewest(t, S, N),
                                             cache.policies)
          PROVE  HInv'
      <3>1. /\ cache' = cache /\ access_count' = access_count + 1
            /\ sets' = [sets EXCEPT ![x] = new]
            /\ returned'.address = addr
        BY <2>2 DEF Finish
      <3>2. DOMAIN sets' = DOMAIN sets /\ DOMAIN seen' = DOMAIN sets
            /\ DOMAIN newer' = DOMAIN sets
        BY <1>1, <2>1, <3>1
      <3>3. ASSUME NEW s \in DOMAIN sets
            PROVE  SetInv(sets'[s], n, seen'[s], newer'[s], cache.policies)
        <4>1. CASE s = x
          <5>1. sets'[s] = new /\ seen'[s] = S \cup {t} /\ newer'[s] = MakeNewest(t, S, N)
            BY <4>1, <1>1, <2>1, <3>1
          <5> QED BY <5>1, <4>1, <2>2
        <4>2. CASE s # x
          <5>1. sets'[s] = sets[s] /\ seen'[s] = seen[s] /\ newer'[s] = newer[s]
            BY <4>2, <1>1, <2>1, <3>1
          <5> QED BY <5>1 DEF HInv
        <4> QED BY <4>1, <4>2
      <3>4. TypeOK'
        <4>1. \A s \in DOMAIN sets : IsSet(sets'[s], n)
          BY <3>3 DEF SetInv
        <4>2. access_count' \in 0 .. MaxReads /\ miss_count' \in 0 .. access_count'
          BY <1>2, <2>2, <3>1, MemoryAssumption DEF HInv, TypeOK
        <4>3. DOMAIN sets' = 0 .. cache'.num_sets - 1
          BY <3>1, <3>2 DEF HInv, TypeOK
        <4>4. cache' \in {Fields(args) : args \in Caches}
          BY <1>1, <3>1
        <4> QED BY <4>1, <4>2, <4>3, <4>4, <3>1, <3>2 DEF TypeOK, IsSet
      <3> QED BY <3>1, <3>2, <3>3, <3>4 DEF HInv
    <2>3. x \in DOMAIN sets => SetInv(sets[x], n, S, N, cache.policies)
      BY DEF HInv
    <2>4. CASE ReadHit(addr)
      <3>1. PICK i \in First(Matching(sets[x], t)) :
                Finish(addr, cache_line_make_mru(sets[x], i))
        BY <2>4 DEF ReadHit
      <3>2. x \in DOMAIN sets =>
                SetInv(cache_line_make_mru(sets[x], i), n, S \cup {t},
                       MakeNewest(t, S, N), cache.policies)
        BY <1>1, <2>3, HitSet
      <3> QED BY <3>1, <3>2, <2>2, <2>4 DEF ReadHit
    <2>5. CASE ReadMiss(addr)
      <3>1. /\ Matching(sets[x], t) = {}
            /\ \E i \in Available(sets[x], n, cache.policies) :
                  Finish(addr, cache_set_add(sets[x], i, t, Block(cache, addr)))
        BY <2>5 DEF ReadMiss
      <3>2. PICK i \in Available(sets[x], n, cache.policies) :
                  Finish(addr, cache_set_add(sets[x], i, t, Block(cache, addr)))
        BY <3>1
      <3>3. x \in DOMAIN sets =>
                SetInv(cache_set_add(sets[x], i, t, Block(cache, addr)), n, S \cup {t},
                       MakeNewest(t, S, N), cache.policies)
        BY <1>1, <2>3, <3>1, MissSet
      <3> QED BY <3>2, <3>3, <2>2, <2>5 DEF ReadMiss
    <2> QED BY <2>4, <2>5, <1>2 DEF cache_read
  <1>3. CASE UNCHANGED hvars
    BY <1>3 DEF HInv, TypeOK, hvars, vars
  <1> QED BY <1>2, <1>3 DEF HNext

(* In every cache and after every sequence of reads the sets are sound.     *)
THEOREM CacheSafety == HSpec => []HInv
  <1>1. HInit => HInv
    BY InitHInv
  <1>2. HInv /\ [HNext]_hvars => HInv'
    BY NextHInv
  <1> QED BY <1>1, <1>2, PTL DEF HSpec

(* The variables of the cache keep their types: no miss is counted that was *)
(* not a read, and cache_lines points to lines of its set.                  *)
THEOREM CacheTypeOK == HSpec => []TypeOK
  <1>1. HInv => TypeOK
    BY DEF HInv
  <1> QED BY <1>1, CacheSafety, PTL

(* No line is lost or duplicated, valid lines come first, and no block is   *)
(* cached twice, under either policy.                                       *)
THEOREM CacheSetsSound == HSpec => []SetsSound
  <1>1. HInv => SetsSound
    BY DEF HInv, SetInv, SetsSound
  <1> QED BY <1>1, CacheSafety, PTL

(* Under LRU a set holds the blocks read last, most recently read first.    *)
THEOREM CacheLruOrder == HSpec => []LruOrder
  <1>1. HInv => LruOrder
    BY DEF HInv, SetInv, LruOrder
  <1> QED BY <1>1, CacheSafety, PTL

----
(* A valid line of set x holds the block its tag and x name. *)
Holds(c, x, set) ==
    \A k \in Valid(set), a \in Addresses :
        Index(c, a) = x /\ Tag(c, a) = TagAt(set, k) => LineAt(set, k).data = Block(c, a)

ReadInv == (\A x \in DOMAIN sets : Holds(cache, x, sets[x])) /\ ReadsReturnMemory

(* The sets between two reads, S and N telling what was read. *)
SetsInv(S, N) ==
    /\ cache \in {Fields(args) : args \in Caches}
    /\ DOMAIN sets = 0 .. cache.num_sets - 1
    /\ \A x \in DOMAIN sets :
          SetInv(sets[x], cache.associativity, S[x], N[x], cache.policies)

LEMMA HInvSets ==
    ASSUME HInv PROVE SetsInv(seen, newer)
  BY DEF HInv, TypeOK, SetsInv

(* What a read finds and leaves, in the set the address belongs to: the     *)
(* block is in front, and the other lines are lines the set had.           *)
LEMMA ReadLines ==
    ASSUME NEW S, NEW N, SetsInv(S, N), NEW addr \in Addresses, cache_read(addr)
    PROVE  LET x == Index(cache, addr)
           IN  /\ x \in DOMAIN sets
               /\ \E new : /\ Finish(addr, new)
                           /\ IsSet(new, cache.associativity)
                           /\ \/ \E i \in Valid(sets[x]) :
                                    /\ LineAt(new, 0) = LineAt(sets[x], i)
                                    /\ TagAt(sets[x], i) = Tag(cache, addr)
                              \/ LineAt(new, 0) = [is_valid |-> 1, tag |-> Tag(cache, addr),
                                                   data |-> Block(cache, addr)]
                           /\ \A k \in 0 .. cache.associativity - 1 : k > 0 =>
                                 \E j \in Positions(sets[x]) :
                                    LineAt(new, k) = LineAt(sets[x], j)
  <1> DEFINE n == cache.associativity
             x == Index(cache, addr)
             t == Tag(cache, addr)
  <1>1. cache \in {Fields(args) : args \in Caches} /\ n \in Nat \ {0} /\ addr \in Nat
        /\ DOMAIN sets = 0 .. cache.num_sets - 1
    BY Lines, MemoryAssumption DEF SetsInv
  <1>2. x \in DOMAIN sets
    BY <1>1, IndexInSets
  <1>3. SetInv(sets[x], n, S[x], N[x], cache.policies)
    BY <1>2 DEF SetsInv
  <1> DEFINE set == sets[x]
  <1>4. IsSet(set, n) /\ SetSound(set) /\ Positions(set) = 0 .. n - 1
    BY <1>3 DEF SetInv, IsSet, Positions
  <1> HIDE DEF n
  <1>5. CASE ReadHit(addr)
    <2>1. PICK i \in First(Matching(set, t)) : Finish(addr, cache_line_make_mru(set, i))
      BY <1>5 DEF ReadHit
    <2> DEFINE m == cache_line_make_mru(set, i)
    <2>2. i \in 0 .. n - 1 /\ i \in Valid(set) /\ TagAt(set, i) = t
      BY <1>4 DEF First, Matching, cache_line_check_validity_and_tag, Valid, TagAt
    <2>3. IsSet(m, n) /\ \A k \in 0 .. n - 1 : LineAt(m, k) = LineAt(set, Before(i, k))
      BY <1>1, <1>4, <2>2, MadeMru
    <2> HIDE DEF m, x, t
    <2>4. \A k \in 0 .. n - 1 : Before(i, k) \in Positions(set)
      BY <1>1, <1>4, <2>2, BeforeFacts
    <2>5. LineAt(m, 0) = LineAt(set, i)
      <3>1. 0 \in 0 .. n - 1 /\ Before(i, 0) = i
        BY <1>1 DEF Before
      <3> QED BY <2>3, <3>1
    <2>6. Finish(addr, m)
      BY <2>1 DEF m, x
    <2> QED BY <1>2, <2>2, <2>3, <2>4, <2>5, <2>6 DEF x, t, n
  <1>6. CASE ReadMiss(addr)
    <2>1. PICK i \in Available(set, n, cache.policies) :
              Finish(addr, cache_set_add(set, i, t, Block(cache, addr)))
      BY <1>6 DEF ReadMiss, n
    <2> DEFINE m == cache_set_add(set, i, t, Block(cache, addr))
    <2>2. i \in 0 .. n - 1
      BY <1>1, <1>4, AvailableFacts
    <2>3. /\ IsSet(m, n)
          /\ LineAt(m, 0) = [is_valid |-> 1, tag |-> t, data |-> Block(cache, addr)]
          /\ \A k \in 0 .. n - 1 : k > 0 => LineAt(m, k) = LineAt(set, Before(i, k))
      BY <1>1, <1>4, <2>2, Added
    <2> HIDE DEF m, x, t
    <2>4. \A k \in 0 .. n - 1 : Before(i, k) \in Positions(set)
      BY <1>1, <1>4, <2>2, BeforeFacts
    <2>5. Finish(addr, m)
      BY <2>1 DEF m, x, t
    <2> QED BY <1>2, <2>3, <2>4, <2>5 DEF x, t, n
  <1> QED BY <1>5, <1>6 DEF cache_read

(* A read leaves right blocks in the lines and returns the long in memory. *)
LEMMA ReadRight ==
    ASSUME NEW S, NEW N, SetsInv(S, N), ReadInv, NEW addr \in Addresses, cache_read(addr)
    PROVE  ReadInv'
  <1> DEFINE n == cache.associativity
             x == Index(cache, addr)
             t == Tag(cache, addr)
             set == sets[x]
  <1>1. cache \in {Fields(args) : args \in Caches} /\ n \in Nat \ {0} /\ addr \in Nat
    BY Lines, MemoryAssumption DEF SetsInv
  <1>2. x \in DOMAIN sets
    BY ReadLines
  <1>3. PICK new : /\ Finish(addr, new)
                   /\ IsSet(new, n)
                   /\ \/ \E i \in Valid(set) : /\ LineAt(new, 0) = LineAt(set, i)
                                               /\ TagAt(set, i) = t
                      \/ LineAt(new, 0) = [is_valid |-> 1, tag |-> t,
                                           data |-> Block(cache, addr)]
                   /\ \A k \in 0 .. n - 1 : k > 0 =>
                         \E j \in Positions(set) : LineAt(new, k) = LineAt(set, j)
    BY ReadLines
  <1>4. Holds(cache, x, set)
    BY <1>2 DEF ReadInv
  <1> HIDE DEF n, x, t, set
  <1>5. LineAt(new, 0).data = Block(cache, addr) /\ LineAt(new, 0).tag = t
    <2>1. ASSUME NEW i \in Valid(set), LineAt(new, 0) = LineAt(set, i), TagAt(set, i) = t
          PROVE  LineAt(new, 0).data = Block(cache, addr) /\ LineAt(new, 0).tag = t
      BY <1>4, <2>1 DEF Holds, TagAt, x, t
    <2> QED BY <1>3, <2>1
  <1>6. Holds(cache, x, new)
    <2>1. SUFFICES ASSUME NEW k \in Valid(new), NEW a \in Addresses,
                          Index(cache, a) = x, Tag(cache, a) = TagAt(new, k)
                   PROVE  LineAt(new, k).data = Block(cache, a)
      BY DEF Holds
    <2>2. k \in 0 .. n - 1 /\ LineAt(new, k).is_valid = 1
      BY <1>3 DEF Valid, Positions, IsSet
    <2>3. CASE k = 0
      <3>1. Index(cache, a) = Index(cache, addr) /\ Tag(cache, a) = Tag(cache, addr)
        BY <1>5, <2>1, <2>3 DEF TagAt, x, t
      <3>2. a \in Nat
        BY MemoryAssumption
      <3>3. Block(cache, a) = Block(cache, addr)
        BY <1>1, <3>1, <3>2, SameBlock
      <3> QED BY <1>5, <2>3, <3>3
    <2>4. CASE k > 0
      <3>1. PICK j \in Positions(set) : LineAt(new, k) = LineAt(set, j)
        BY <1>3, <2>2, <2>4
      <3>2. j \in Valid(set) /\ TagAt(set, j) = TagAt(new, k)
        BY <2>2, <3>1 DEF Valid, TagAt
      <3> QED BY <1>4, <2>1, <3>1, <3>2 DEF Holds
    <2> QED BY <1>1, <2>2, <2>3, <2>4
  <1>7. /\ cache' = cache /\ sets' = [sets EXCEPT ![x] = new]
        /\ returned' = [address |-> addr,
                        value |-> cache_line_retrieve_data(LineAt(new, 0),
                                                           Offset(cache, addr))]
    BY <1>3 DEF Finish, x
  <1>8. cache_line_retrieve_data(LineAt(new, 0), Offset(cache, addr)) = LongAt(addr)
    <2> DEFINE line == LineAt(new, 0)
               off == Offset(cache, addr)
    <2>1. off \in Int
      <3>1. Width(cache) \in Nat \ {0} /\ off = addr % Width(cache)
        BY <1>1, FieldsFacts
      <3>2. addr % Width(cache) \in 0 .. Width(cache) - 1
        BY <1>1, <3>1, Divided
      <3> QED BY <3>1, <3>2
    <2>2. line.data = Block(cache, addr)
      BY <1>5
    <2> HIDE DEF line, off
    <2>3. \A i \in 0 .. sizeof_long - 1 :
             line.data[off + i] = mem[addr + i] /\ mem[addr + i] \in 0 .. 255
      BY <1>1, <2>2, LongInBlock DEF off
    <2>4. cache_line_retrieve_data(line, off) = LongAt(addr)
      BY <2>1, <2>3, Retrieved
    <2> QED BY <2>4 DEF line, off
  <1>9. ReadsReturnMemory'
    BY <1>7, <1>8 DEF ReadsReturnMemory, LongAt, Places
  <1>10. ASSUME NEW y \in DOMAIN sets' PROVE Holds(cache, y, sets'[y])
    <2>1. y \in DOMAIN sets /\ sets'[y] = IF y = x THEN new ELSE sets[y]
      BY <1>7
    <2> QED BY <1>6, <2>1 DEF ReadInv
  <1>11. ReadInv'
    BY <1>7, <1>9, <1>10 DEF ReadInv, Holds, Index, Tag, Block, And, Shift, TagAt, LineAt,
                             Valid, Positions
  <1> QED BY <1>11

(* A new cache holds nothing and has returned nothing. *)
LEMMA InitRight ==
    ASSUME CacheInit PROVE ReadInv
  <1>1. returned = NothingRead
    BY DEF CacheInit
  <1>2. \A x \in DOMAIN sets : Valid(sets[x]) = {}
    BY DEF CacheInit, cache_set_init, Valid, Positions, LineAt
  <1> QED BY <1>1, <1>2 DEF ReadInv, ReadsReturnMemory, Holds

LEMMA CacheRight == HSpec => [](HInv /\ ReadInv)
  <1>1. ASSUME HInv, ReadInv, [HNext]_hvars PROVE (HInv /\ ReadInv)'
    <2>1. HInv'
      BY <1>1, NextHInv
    <2>2. CASE HNext
      BY <1>1, <2>1, <2>2, HInvSets, ReadRight DEF HNext
    <2>3. CASE UNCHANGED hvars
      <3>1. ReadInv'
        BY <1>1, <2>3 DEF ReadInv, ReadsReturnMemory, LongAt, Places, hvars, vars, Holds,
                          Index, Tag, Block, And, Shift, TagAt, LineAt, Valid, Positions
      <3> QED BY <2>1, <3>1
    <2> QED BY <1>1, <2>2, <2>3
  <1>2. HInit => HInv /\ ReadInv
    BY InitHInv, InitRight DEF HInit, Init
  <1> QED BY <1>1, <1>2, PTL DEF HSpec

(* cache_read returns what memory holds at the address, hit or miss, for    *)
(* every geometry, also where get_shift_and_mask rounds a width down to a   *)
(* power of two.                                                            *)
THEOREM CacheReadsReturnMemory == HSpec => []ReadsReturnMemory
  <1>1. ReadInv => ReadsReturnMemory
    BY DEF ReadInv
  <1> QED BY <1>1, CacheRight, PTL

----
(* The blocks read so far, and what the misses and the lines have to do     *)
(* with them: a set that was not asked for more blocks than it has lines    *)
(* holds all of them.                                                      *)
Blocks == UNION {{<<x, t>> : t \in seen[x]} : x \in DOMAIN sets}

CountInv ==
    /\ IsFiniteSet(Blocks) /\ NoNeedlessMiss
    /\ \A x \in DOMAIN sets :
          /\ IsFiniteSet(seen[x])
          /\ Cardinality(seen[x]) <= cache.associativity => CachedTags(sets[x]) = seen[x]

(* A set whose lines are all valid holds as many tags as it has lines. *)
LEMMA FullSet ==
    ASSUME NEW n \in Nat, NEW set, SetSound(set), Valid(set) = 0 .. n - 1
    PROVE  IsFiniteSet(CachedTags(set)) /\ Cardinality(CachedTags(set)) = n
  <1> DEFINE f == [i \in 0 .. n - 1 |-> TagAt(set, i)]
             D == 0 .. n - 1
             R == CachedTags(set)
  <1>1. f \in [D -> R] /\ \A y \in R : \E i \in D : f[i] = y
    BY DEF CachedTags
  <1>2. \A i, j \in D : f[i] = f[j] => i = j
    BY DEF SetSound
  <1> HIDE DEF f, R
  <1>3. f \in Bijection(D, R)
    <2>1. f \in Injection(D, R)
      BY <1>1, <1>2 DEF Injection, IsInjective
    <2>2. f \in Surjection(D, R)
      BY <1>1 DEF Surjection
    <2> QED BY <2>1, <2>2 DEF Bijection
  <1>4. ExistsBijection(D, R)
    BY <1>3 DEF ExistsBijection
  <1>5. IsFiniteSet(D) /\ Cardinality(D) = n
    <2>1. 0 \in Int /\ n - 1 \in Int
      OBVIOUS
    <2>2. IsFiniteSet(D) /\ Cardinality(D) = IF 0 > n - 1 THEN 0 ELSE n - 1 - 0 + 1
      BY <2>1, FS_Interval
    <2> QED BY <2>2
  <1> HIDE DEF D
  <1>6. IsFiniteSet(R) /\ Cardinality(R) = n
    BY <1>4, <1>5, FS_Bijection
  <1> QED BY <1>6 DEF R

(* The tag is one more of those its set was asked for. *)
LEMMA BlocksGrow ==
    ASSUME NEW x \in DOMAIN sets, NEW t, DOMAIN sets' = DOMAIN sets,
           DOMAIN seen = DOMAIN sets, seen' = [seen EXCEPT ![x] = @ \cup {t}]
    PROVE  /\ Blocks' = Blocks \cup {<<x, t>>}
           /\ <<x, t>> \in Blocks <=> t \in seen[x]
           /\ \A y \in DOMAIN sets : seen'[y] = IF y = x THEN seen[x] \cup {t} ELSE seen[y]
  <1>1. \A y \in DOMAIN sets : seen'[y] = IF y = x THEN seen[x] \cup {t} ELSE seen[y]
    OBVIOUS
  <1>2. \A y, u : <<y, u>> \in Blocks <=> y \in DOMAIN sets /\ u \in seen[y]
    BY DEF Blocks
  <1>3. \A p : p \in Blocks => \E y, u : p = <<y, u>>
    BY DEF Blocks
  <1>4. \A y, u : <<y, u>> \in Blocks' <=> y \in DOMAIN sets /\ u \in seen'[y]
    BY DEF Blocks
  <1>5. \A p : p \in Blocks' => \E y, u : p = <<y, u>>
    BY DEF Blocks
  <1>6. Blocks' = Blocks \cup {<<x, t>>}
    <2>1. \A y, u : <<y, u>> \in Blocks' <=> <<y, u>> \in Blocks \/ <<y, u>> = <<x, t>>
      <3> SUFFICES ASSUME NEW y, NEW u
                   PROVE  <<y, u>> \in Blocks' <=> <<y, u>> \in Blocks \/ (y = x /\ u = t)
        OBVIOUS
      <3>1. CASE y = x
        BY <1>1, <1>2, <1>4, <3>1
      <3>2. CASE y # x
        BY <1>1, <1>2, <1>4, <3>2
      <3> QED BY <3>1, <3>2
    <2>2. \A p : p \in Blocks' <=> p \in Blocks \cup {<<x, t>>}
      BY <1>3, <1>5, <2>1
    <2> QED BY <2>2
  <1> QED BY <1>1, <1>2, <1>6

(* A miss is counted for each block that is read first, and, while no set   *)
(* was asked for more blocks than it has lines, for no other.               *)
LEMMA ReadCounts ==
    ASSUME HInv, CountInv, HInv', NEW addr \in Addresses, cache_read(addr), Remember(addr)
    PROVE  CountInv'
  <1> DEFINE n == cache.associativity
             x == Index(cache, addr)
             t == Tag(cache, addr)
             set == sets[x]
             C == Cardinality(Blocks)
  <1>1. n \in Nat \ {0} /\ x \in DOMAIN sets /\ DOMAIN seen = DOMAIN sets
    BY Lines, HInvSets, ReadLines DEF HInv, TypeOK
  <1>2. SetInv(set, n, seen[x], newer[x], cache.policies)
    BY <1>1 DEF HInv
  <1>3. seen' = [seen EXCEPT ![x] = @ \cup {t}]
    BY DEF Remember
  <1>4. PICK new : /\ cache' = cache /\ sets' = [sets EXCEPT ![x] = new]
                   /\ \/ /\ miss_count' = miss_count
                         /\ CachedTags(new) = CachedTags(set) /\ t \in CachedTags(set)
                      \/ /\ miss_count' = miss_count + 1
                         /\ t \notin CachedTags(set)
                         /\ \E i \in Available(set, n, cache.policies) :
                               CachedTags(new) =
                                   {TagAt(set, j) : j \in Valid(set) \ {i}} \cup {t}
    <2>1. CASE ReadHit(addr)
      <3>1. PICK i \in First(Matching(set, t)) : Finish(addr, cache_line_make_mru(set, i))
        BY <2>1 DEF ReadHit
      <3>2. /\ CachedTags(cache_line_make_mru(set, i)) = CachedTags(set)
            /\ t \in CachedTags(set)
        <4> DEFINE S == seen[x]
                   N == newer[x]
                   policies == cache.policies
        <4>1. /\ SetInv(set, n, S, N, policies) /\ n \in Nat \ {0}
              /\ i \in First(Matching(set, t))
          BY <1>1, <1>2
        <4> HIDE DEF n, x, t, set, S, N, policies
        <4>2. /\ SetInv(cache_line_make_mru(set, i), n, S \cup {t}, MakeNewest(t, S, N), policies)
              /\ CachedTags(cache_line_make_mru(set, i)) = CachedTags(set)
              /\ t \in CachedTags(set)
          BY <4>1, HitSet
        <4> QED BY <4>2
      <3> QED BY <2>1, <3>1, <3>2 DEF ReadHit, Finish
    <2>2. CASE ReadMiss(addr)
      <3>1. PICK i \in Available(set, n, cache.policies) :
                Finish(addr, cache_set_add(set, i, t, Block(cache, addr)))
        BY <2>2 DEF ReadMiss
      <3>2. Matching(set, t) = {} /\ miss_count' = miss_count + 1
        BY <2>2 DEF ReadMiss
      <3>3. /\ CachedTags(cache_set_add(set, i, t, Block(cache, addr))) =
                   {TagAt(set, j) : j \in Valid(set) \ {i}} \cup {t}
            /\ \A j \in Valid(set) : TagAt(set, j) # t
        <4> DEFINE S == seen[x]
                   N == newer[x]
                   policies == cache.policies
                   d == Block(cache, addr)
        <4>1. /\ SetInv(set, n, S, N, policies) /\ n \in Nat \ {0}
              /\ i \in Available(set, n, policies)
          BY <1>1, <1>2
        <4> HIDE DEF n, x, t, set, S, N, policies
        <4>2. SUFFICES /\ CachedTags(cache_set_add(set, i, t, d)) =
                              {TagAt(set, j) : j \in Valid(set) \ {i}} \cup {t}
                       /\ \A j \in Valid(set) : TagAt(set, j) # t
          OBVIOUS
        <4> HIDE DEF d
        <4>3. LET m == cache_set_add(set, i, t, d)
              IN  /\ SetInv(m, n, S \cup {t}, MakeNewest(t, S, N), policies)
                  /\ CachedTags(m) = {TagAt(set, j) : j \in Valid(set) \ {i}} \cup {t}
                  /\ \A j \in Valid(set) : TagAt(set, j) # t
          BY <3>2, <4>1, MissSet
        <4> QED BY <4>3
      <3>4. t \notin CachedTags(set)
        BY <3>3 DEF CachedTags
      <3> QED BY <3>1, <3>2, <3>3, <3>4 DEF Finish
    <2> QED BY <2>1, <2>2 DEF cache_read
  <1> HIDE DEF n, x, t, set
  <1>5. DOMAIN sets' = DOMAIN sets /\ sets'[x] = new /\ set = sets[x]
        /\ \A y \in DOMAIN sets : y # x => sets'[y] = sets[y]
    BY <1>1, <1>4 DEF set
  <1>6. /\ Blocks' = Blocks \cup {<<x, t>>}
        /\ <<x, t>> \in Blocks <=> t \in seen[x]
        /\ \A y \in DOMAIN sets : seen'[y] = IF y = x THEN seen[x] \cup {t} ELSE seen[y]
    BY <1>1, <1>3, <1>5, BlocksGrow
  <1>7. IsFiniteSet(Blocks) /\ \A y \in DOMAIN sets : IsFiniteSet(seen[y])
    BY DEF CountInv
  <1> DEFINE a == Cardinality(seen[x])
             b == Cardinality(seen[x] \cup {t})
  <1>8. /\ C \in Nat /\ a \in Nat /\ b \in {a, a + 1}
        /\ IsFiniteSet(Blocks') /\ IsFiniteSet(seen[x]) /\ IsFiniteSet(seen[x] \cup {t})
        /\ t \in seen[x] => Cardinality(Blocks') = C
        /\ t \notin seen[x] => Cardinality(Blocks') = C + 1 /\ b = a + 1
    <2>1. IsFiniteSet(seen[x]) /\ IsFiniteSet(Blocks)
      BY <1>1, <1>7
    <2>2. C \in Nat /\ a \in Nat
      BY <2>1, FS_CardinalityType
    <2>3. /\ IsFiniteSet(seen[x] \cup {t})
          /\ b = IF t \in seen[x] THEN a ELSE a + 1
      BY <2>1, FS_AddElement
    <2>4. /\ IsFiniteSet(Blocks')
          /\ Cardinality(Blocks') = IF t \in seen[x] THEN C ELSE C + 1
      <3>1. IsFiniteSet(Blocks \cup {<<x, t>>})
            /\ Cardinality(Blocks \cup {<<x, t>>}) =
                  IF <<x, t>> \in Blocks THEN C ELSE C + 1
        BY <2>1, FS_AddElement
      <3> QED BY <1>6, <3>1
    <2> QED BY <2>1, <2>2, <2>3, <2>4
  <1>9. CachedTags(set) \subseteq seen[x]
    BY <1>2 DEF SetInv
  <1>10. /\ miss_count >= C
         /\ (\A y \in DOMAIN sets : Cardinality(seen[y]) <= n) => miss_count = C
         /\ miss_count \in Nat
    BY DEF CountInv, NoNeedlessMiss, Blocks, n, HInv, TypeOK
  <1>11. a <= n => CachedTags(set) = seen[x]
    BY <1>1, <1>5 DEF CountInv, n
  <1> HIDE DEF C, a, b
  <1>12. /\ miss_count' >= Cardinality(Blocks')
         /\ (\A y \in DOMAIN sets : Cardinality(seen'[y]) <= n)
               => miss_count' = Cardinality(Blocks')
    <2>1. (\A y \in DOMAIN sets : Cardinality(seen'[y]) <= n)
              => (\A y \in DOMAIN sets : Cardinality(seen[y]) <= n)
      <3> SUFFICES ASSUME \A y \in DOMAIN sets : Cardinality(seen'[y]) <= n,
                          NEW y \in DOMAIN sets
                   PROVE  Cardinality(seen[y]) <= n
        OBVIOUS
      <3>1. CASE y = x
        <4>1. b <= n
          BY <1>1, <1>6 DEF b
        <4>2. a <= n
          BY <1>1, <1>8, <4>1
        <4> QED BY <3>1, <4>2 DEF a
      <3>2. CASE y # x
        BY <1>6, <3>2
      <3> QED BY <3>1, <3>2
    <2>2. CASE miss_count' = miss_count /\ t \in CachedTags(set)
      <3>1. t \in seen[x]
        BY <1>9, <2>2
      <3> QED BY <1>8, <1>10, <2>1, <2>2, <3>1
    <2>3. CASE miss_count' = miss_count + 1 /\ t \notin CachedTags(set)
      <3>1. (\A y \in DOMAIN sets : Cardinality(seen'[y]) <= n) => t \notin seen[x]
        <4>1. (\A y \in DOMAIN sets : Cardinality(seen'[y]) <= n) => a <= n
          BY <1>1, <2>1 DEF a
        <4> QED BY <1>11, <2>3, <4>1
      <3> QED BY <1>8, <1>10, <2>1, <2>3, <3>1
    <2> QED BY <1>4, <2>2, <2>3
  <1>13. ASSUME Cardinality(seen'[x]) <= n PROVE CachedTags(new) = seen'[x]
    <2>1. /\ seen'[x] = seen[x] \cup {t} /\ a <= n
          /\ t \notin seen[x] => a < n
      <3>1. seen'[x] = seen[x] \cup {t} /\ b <= n
        BY <1>1, <1>6, <1>13 DEF b
      <3> QED BY <1>1, <1>8, <3>1
    <2>2. CachedTags(set) = seen[x]
      BY <1>11, <2>1
    <2>3. CASE CachedTags(new) = CachedTags(set) /\ t \in CachedTags(set)
      BY <2>1, <2>2, <2>3
    <2>4. CASE t \notin CachedTags(set) /\ \E i \in Available(set, n, cache.policies) :
                   CachedTags(new) = {TagAt(set, j) : j \in Valid(set) \ {i}} \cup {t}
      <3>1. PICK i \in Available(set, n, cache.policies) :
                CachedTags(new) = {TagAt(set, j) : j \in Valid(set) \ {i}} \cup {t}
        BY <2>4
      <3>2. i \notin Valid(set)
        <4>1. IsSet(set, n) /\ SetSound(set)
          BY <1>2 DEF SetInv
        <4>2. i \notin Valid(set) \/ Valid(set) = 0 .. n - 1
          BY <1>1, <4>1, AvailableFacts
        <4>3. ASSUME Valid(set) = 0 .. n - 1 PROVE FALSE
          <5>1. Cardinality(CachedTags(set)) = n
            BY <1>1, <4>1, <4>3, FullSet
          <5>2. a = n /\ a < n
            BY <2>1, <2>2, <2>4, <5>1 DEF a
          <5> QED BY <1>1, <5>2
        <4> QED BY <4>2, <4>3
      <3>3. CachedTags(new) = CachedTags(set) \cup {t}
        BY <3>1, <3>2 DEF CachedTags
      <3> QED BY <2>1, <2>2, <3>3
    <2> QED BY <1>4, <2>3, <2>4
  <1>14. ASSUME NEW y \in DOMAIN sets
         PROVE  /\ IsFiniteSet(seen'[y])
                /\ Cardinality(seen'[y]) <= n => CachedTags(sets'[y]) = seen'[y]
    <2>1. CASE y = x
      BY <1>5, <1>6, <1>8, <1>13, <2>1
    <2>2. CASE y # x
      BY <1>5, <1>6, <2>2 DEF CountInv, n
    <2> QED BY <2>1, <2>2
  <1>15. NoNeedlessMiss'
    BY <1>4, <1>5, <1>12 DEF NoNeedlessMiss, Blocks, n
  <1>16. \A y \in DOMAIN sets' : /\ IsFiniteSet(seen'[y])
                                 /\ Cardinality(seen'[y]) <= cache'.associativity
                                       => CachedTags(sets'[y]) = seen'[y]
    BY <1>4, <1>5, <1>14 DEF n
  <1> QED BY <1>8, <1>15, <1>16 DEF CountInv, CachedTags, Valid, TagAt, LineAt, Positions

LEMMA InitCounts ==
    ASSUME HInit PROVE CountInv
  <1>1. miss_count = 0 /\ \A x \in DOMAIN sets : seen[x] = {}
    BY DEF HInit, Init, CacheInit
  <1>2. Blocks = {}
    BY <1>1 DEF Blocks
  <1>3. IsFiniteSet({}) /\ Cardinality({}) = 0
    BY FS_EmptySet
  <1>4. \A x \in DOMAIN sets : CachedTags(sets[x]) = {}
    BY DEF HInit, Init, CacheInit, cache_set_init, CachedTags, Valid, Positions, LineAt
  <1>5. NoNeedlessMiss
    BY <1>1, <1>2, <1>3 DEF NoNeedlessMiss, Blocks
  <1> QED BY <1>1, <1>2, <1>3, <1>4, <1>5 DEF CountInv

LEMMA CacheCounts == HSpec => [](HInv /\ CountInv)
  <1>1. ASSUME HInv, CountInv, [HNext]_hvars PROVE (HInv /\ CountInv)'
    <2>1. HInv'
      BY <1>1, NextHInv
    <2>2. CASE HNext
      BY <1>1, <2>1, <2>2, ReadCounts DEF HNext
    <2>3. CASE UNCHANGED hvars
      <3>1. CountInv'
        BY <1>1, <2>3 DEF CountInv, NoNeedlessMiss, Blocks, hvars, vars, CachedTags, Valid,
                          TagAt, LineAt, Positions
      <3> QED BY <2>1, <3>1
    <2> QED BY <1>1, <2>2, <2>3
  <1> QED BY <1>1, InitHInv, InitCounts, PTL DEF HSpec

(* Under either policy there are at least as many misses as blocks read,    *)
(* and exactly as many while no set was asked for more blocks than it has   *)
(* lines: no line is replaced before its set is full.                       *)
THEOREM CacheNoNeedlessMiss == HSpec => []NoNeedlessMiss
  <1>1. CountInv => NoNeedlessMiss
    BY DEF CountInv
  <1> QED BY <1>1, CacheCounts, PTL
====
