---- MODULE CacheTestProofs ----
(***************************************************************************)
(* The experiments, for every size of the array and every cache: the loops *)
(* of sumA, sumB and sumC read every element once, and the reasons         *)
(* README.txt gives for its miss rates are right.                          *)
(***************************************************************************)
EXTENDS CacheTest, CacheProofs

(* The array, by rows and columns. *)
Elems(x) == 0 .. x.rows * x.cols - 1
Row(x, e) == e \div x.cols
Col(x, e) == e % x.cols

(* What the loops have read before the iteration of row r and column c. *)
Past(x, r, c) ==
    {e \in Elems(x) :
        IF x.sum = "sumA"
        THEN Row(x, e) < r \/ (Row(x, e) = r /\ Col(x, e) < c)
        ELSE Col(x, e) < c \/ (Col(x, e) < c + Stride(x) /\ Row(x, e) < r)}

(* Where an iteration may start, and where the loops end. *)
Whole(x, n) == x.sum = "sumC" => n % 2 = 0
Inside(x, r, c) ==
    r \in 0 .. x.rows - 1 /\ c \in 0 .. x.cols - 1 /\ Whole(x, r) /\ Whole(x, c)

LEMMA ExperimentFacts ==
    ASSUME NEW x \in Experiments
    PROVE  /\ x.sum \in {"sumA", "sumB", "sumC"}
           /\ x.rows \in Nat \ {0} /\ x.cols \in Nat \ {0}
           /\ Whole(x, x.rows) /\ Whole(x, x.cols)
           /\ x.args \in Caches
           /\ \A e \in Elems(x) : e * sizeof_long \in Addresses
           /\ Stride(x) = IF x.sum = "sumC" THEN 2 ELSE 1
  BY ExperimentAssumption DEF Whole, Stride, Elems

(* An element is the one in its row and column. *)
LEMMA PlaceOf ==
    ASSUME NEW x \in Experiments, NEW e \in Elems(x)
    PROVE  /\ Row(x, e) \in 0 .. x.rows - 1 /\ Col(x, e) \in 0 .. x.cols - 1
           /\ e = Row(x, e) * x.cols + Col(x, e)
  <1>1. x.rows \in Nat \ {0} /\ x.cols \in Nat \ {0} /\ e \in Nat
        /\ e < x.rows * x.cols /\ x.rows * x.cols \in Nat
    BY ExperimentFacts DEF Elems
  <1> DEFINE m == x.rows
             n == x.cols
             q == e \div n
  <1>2. /\ q \in Nat /\ e % n \in 0 .. n - 1 /\ e = n * q + (e % n)
    BY <1>1, Divided
  <1>3. e < m * n /\ m \in Nat /\ n \in Nat \ {0} /\ m * n \in Nat
    BY <1>1
  <1> HIDE DEF m, n, q
  <1>4. q < m
    <2> SUFFICES ASSUME m <= q PROVE FALSE
      BY <1>2, <1>3
    <2>1. n * m <= n * q
      BY <1>2, <1>3, Times
    <2>2. n * m = m * n /\ n * q \in Int
      BY <1>2, <1>3
    <2> QED BY <1>2, <1>3, <2>1, <2>2
  <1>5. e = q * n + (e % n)
    <2>1. n * q = q * n
      BY <1>2, <1>3
    <2> QED BY <1>2, <2>1
  <1> QED BY <1>2, <1>3, <1>4, <1>5 DEF Row, Col, m, n, q

LEMMA ElementAt ==
    ASSUME NEW x \in Experiments, NEW r \in 0 .. x.rows - 1, NEW c \in 0 .. x.cols - 1
    PROVE  /\ r * x.cols + c \in Elems(x)
           /\ Row(x, r * x.cols + c) = r /\ Col(x, r * x.cols + c) = c
  <1>1. x.rows \in Nat \ {0} /\ x.cols \in Nat \ {0}
    BY ExperimentFacts
  <1>2. r * x.cols + c \in Elems(x)
    BY <1>1, PlaceBound DEF Elems
  <1>3. x.cols * r = r * x.cols
    BY <1>1
  <1>4. (x.cols * r + c) \div x.cols = r /\ (x.cols * r + c) % x.cols = c
    <2> DEFINE n == x.cols
    <2>1. n \in Nat \ {0} /\ r \in Int /\ c \in 0 .. n - 1
      BY <1>1
    <2> HIDE DEF n
    <2>2. (n * r + c) \div n = r /\ (n * r + c) % n = c
      BY <2>1, DividedOnce
    <2> QED BY <2>2 DEF n
  <1> QED BY <1>2, <1>3, <1>4 DEF Row, Col

(* An iteration reads a square of elements. *)
LEMMA ElementsAre ==
    ASSUME NEW x \in Experiments, NEW r, NEW c, Inside(x, r, c)
    PROVE  /\ Elements(x, r, c) =
                {e \in Elems(x) : /\ Row(x, e) \in r .. r + Stride(x) - 1
                                  /\ Col(x, e) \in c .. c + Stride(x) - 1}
           /\ r + Stride(x) <= x.rows /\ c + Stride(x) <= x.cols
           /\ Elements(x, r, c) # {}
  <1>1. /\ x.sum \in {"sumA", "sumB", "sumC"}
        /\ x.rows \in Nat \ {0} /\ x.cols \in Nat \ {0}
        /\ Whole(x, x.rows) /\ Whole(x, x.cols)
        /\ Stride(x) = IF x.sum = "sumC" THEN 2 ELSE 1
    BY ExperimentFacts
  <1>2. r \in 0 .. x.rows - 1 /\ c \in 0 .. x.cols - 1 /\ Whole(x, r) /\ Whole(x, c)
    BY DEF Inside
  <1>3. r + Stride(x) <= x.rows /\ c + Stride(x) <= x.cols
    BY <1>1, <1>2 DEF Whole
  <1> DEFINE at(p, q) == p * x.cols + q
  <1>4. \A p \in 0 .. x.rows - 1, q \in 0 .. x.cols - 1 :
           at(p, q) \in Elems(x) /\ Row(x, at(p, q)) = p /\ Col(x, at(p, q)) = q
    BY ElementAt
  <1>5. \A e \in Elems(x) :
           /\ Row(x, e) \in 0 .. x.rows - 1 /\ Col(x, e) \in 0 .. x.cols - 1
           /\ e = at(Row(x, e), Col(x, e))
    BY PlaceOf
  <1>6. CASE x.sum # "sumC"
    <2>1. Elements(x, r, c) = {at(r, c)} /\ Stride(x) = 1
      BY <1>1, <1>6 DEF Elements
    <2> HIDE DEF at
    <2>2. ASSUME NEW e \in Elems(x), Row(x, e) \in r .. r + 1 - 1, Col(x, e) \in c .. c + 1 - 1
          PROVE  e = at(r, c)
      <3>1. Row(x, e) = r /\ Col(x, e) = c
        BY <1>2, <1>5, <2>2
      <3> QED BY <1>5, <3>1
    <2>3. at(r, c) \in Elems(x) /\ Row(x, at(r, c)) = r /\ Col(x, at(r, c)) = c
      BY <1>2, <1>4
    <2> QED BY <1>2, <1>3, <2>1, <2>2, <2>3
  <1>7. CASE x.sum = "sumC"
    <2>1. /\ Elements(x, r, c) =
                {at(r, c), at(r + 1, c), at(r, c) + 1, at(r + 1, c) + 1}
          /\ Stride(x) = 2
      BY <1>1, <1>7 DEF Elements
    <2>2. at(r, c) + 1 = at(r, c + 1) /\ at(r + 1, c) + 1 = at(r + 1, c + 1)
      BY <1>1, <1>2
    <2> HIDE DEF at
    <2>3. r \in 0 .. x.rows - 1 /\ r + 1 \in 0 .. x.rows - 1
          /\ c \in 0 .. x.cols - 1 /\ c + 1 \in 0 .. x.cols - 1
      BY <1>1, <1>2, <1>3, <2>1
    <2>4. ASSUME NEW e \in Elems(x), Row(x, e) \in r .. r + 2 - 1, Col(x, e) \in c .. c + 2 - 1
          PROVE  e \in {at(r, c), at(r + 1, c), at(r, c + 1), at(r + 1, c + 1)}
      <3>1. Row(x, e) \in {r, r + 1} /\ Col(x, e) \in {c, c + 1}
        BY <1>2, <1>5, <2>4
      <3> QED BY <1>5, <3>1
    <2>5. ASSUME NEW e \in {at(r, c), at(r + 1, c), at(r, c + 1), at(r + 1, c + 1)}
          PROVE  /\ e \in Elems(x)
                 /\ Row(x, e) \in {r, r + 1} /\ Col(x, e) \in {c, c + 1}
      BY <1>4, <2>3, <2>5
    <2>6. \A e \in {at(r, c), at(r + 1, c), at(r, c + 1), at(r + 1, c + 1)} :
             Row(x, e) \in r .. r + 2 - 1 /\ Col(x, e) \in c .. c + 2 - 1
      BY <2>3, <2>5
    <2> QED BY <1>3, <2>1, <2>2, <2>4, <2>5, <2>6
  <1> QED BY <1>3, <1>6, <1>7

(* The loops begin with nothing behind them, ... *)
LEMMA BeginsEmpty ==
    ASSUME NEW x \in Experiments
    PROVE  Inside(x, 0, 0) /\ Past(x, 0, 0) = {}
  <1>1. x.rows \in Nat \ {0} /\ x.cols \in Nat \ {0}
    BY ExperimentFacts
  <1>2. Inside(x, 0, 0)
    BY <1>1 DEF Inside, Whole
  <1>3. ASSUME NEW e \in Elems(x) PROVE e \notin Past(x, 0, 0)
    <2>1. Row(x, e) \in 0 .. x.rows - 1 /\ Col(x, e) \in 0 .. x.cols - 1
      BY PlaceOf
    <2> QED BY <2>1, <1>1 DEF Past
  <1> QED BY <1>2, <1>3 DEF Past

(* ... never read what they have read, ... *)
LEMMA ReadsNew ==
    ASSUME NEW x \in Experiments, NEW r, NEW c, Inside(x, r, c),
           NEW e \in Elements(x, r, c)
    PROVE  e \in Elems(x) /\ e \notin Past(x, r, c)
  <1>1. /\ e \in Elems(x) /\ Row(x, e) \in r .. r + Stride(x) - 1
        /\ Col(x, e) \in c .. c + Stride(x) - 1
    BY ElementsAre
  <1>2. Row(x, e) \in Nat /\ Col(x, e) \in Nat
    <2>1. x.rows \in Nat /\ x.cols \in Nat
      BY ExperimentFacts
    <2> QED BY <1>1, <2>1, PlaceOf
  <1>3. /\ r \in Nat /\ c \in Nat /\ Stride(x) \in {1, 2}
        /\ x.sum = "sumA" => Stride(x) = 1
    BY ExperimentFacts DEF Inside
  <1> QED BY <1>1, <1>2, <1>3 DEF Past

(* ... go on after every iteration with the next, and end when they have    *)
(* read everything.                                                         *)
LEMMA GoesOn ==
    ASSUME NEW x \in Experiments, NEW r, NEW c, Inside(x, r, c)
    PROVE  LET next == Advance(x, r, c)
               after == Past(x, r, c) \cup Elements(x, r, c)
           IN  /\ next[1] \in Nat /\ next[2] \in Nat
               /\ Over(x, next[1], next[2]) => after = Elems(x)
               /\ ~Over(x, next[1], next[2]) =>
                     Inside(x, next[1], next[2]) /\ Past(x, next[1], next[2]) = after
  <1> DEFINE d == Stride(x)
             p == Advance(x, r, c)[1]
             q == Advance(x, r, c)[2]
             after == Past(x, r, c) \cup Elements(x, r, c)
  <1>1. /\ x.sum \in {"sumA", "sumB", "sumC"}
        /\ x.rows \in Nat \ {0} /\ x.cols \in Nat \ {0}
        /\ Whole(x, x.rows) /\ Whole(x, x.cols)
        /\ d = IF x.sum = "sumC" THEN 2 ELSE 1
    BY ExperimentFacts
  <1>2. r \in 0 .. x.rows - 1 /\ c \in 0 .. x.cols - 1 /\ Whole(x, r) /\ Whole(x, c)
    BY DEF Inside
  <1>3. /\ Elements(x, r, c) = {e \in Elems(x) : /\ Row(x, e) \in r .. r + d - 1
                                                 /\ Col(x, e) \in c .. c + d - 1}
        /\ r + d <= x.rows /\ c + d <= x.cols
    BY ElementsAre
  <1>4. \A e \in Elems(x) :
           Row(x, e) \in 0 .. x.rows - 1 /\ Col(x, e) \in 0 .. x.cols - 1
    BY PlaceOf
  <1>5. /\ p = IF x.sum = "sumA" THEN IF c + 1 < x.cols THEN r ELSE r + 1
               ELSE IF r + d < x.rows THEN r + d ELSE 0
        /\ q = IF x.sum = "sumA" THEN IF c + 1 < x.cols THEN c + 1 ELSE 0
               ELSE IF r + d < x.rows THEN c ELSE c + d
    BY DEF Advance
  <1> HIDE DEF d, p, q
  <1>6. p \in Nat /\ q \in Nat
    BY <1>1, <1>2, <1>5
  <1>7. Whole(x, p) /\ Whole(x, q)
    BY <1>1, <1>2, <1>5 DEF Whole
  <1>8. ASSUME Over(x, p, q) PROVE after = Elems(x)
    <2>1. ASSUME NEW e \in Elems(x) PROVE e \in after
      BY <1>1, <1>2, <1>3, <1>4, <1>5, <1>8 DEF Over, Past, d
    <2>2. after \subseteq Elems(x)
      BY <1>3 DEF Past
    <2> QED BY <2>1, <2>2
  <1>9. ASSUME ~Over(x, p, q) PROVE Inside(x, p, q) /\ Past(x, p, q) = after
    <2>1. Inside(x, p, q)
      BY <1>1, <1>6, <1>7, <1>9 DEF Over, Inside
    <2>2. ASSUME NEW e \in Elems(x) PROVE e \in Past(x, p, q) <=> e \in after
      BY <1>1, <1>2, <1>3, <1>4, <1>5, <1>9 DEF Over, Past, d
    <2> QED BY <1>3, <2>1, <2>2 DEF Past
  <1> QED BY <1>6, <1>8, <1>9 DEF p, q

----
(* The array in memory: the long at an element's address is fillArray's.    *)
LEMMA ElementInMemory ==
    ASSUME NEW x \in Experiments, NEW e \in Elems(x)
    PROVE  fillArray(e) \in Nat /\ LongAt(e * sizeof_long) = fillArray(e)
  <1> DEFINE n == sizeof_long
             a == e * n
             v == fillArray(e)
             f == Places(a)
             s == Sums(f, n)
  <1>1. /\ n \in Nat /\ n >= 2 /\ MAX_SIZE \in Nat \ {0} /\ ArrayLength \in Nat
        /\ mem = ArrayBytes(ArrayLength) /\ x.rows * x.cols <= ArrayLength
    BY MemoryAssumption, ArrayAssumption
  <1>2. e \in 0 .. ArrayLength - 1
    <2>1. x.rows * x.cols \in Nat
      BY ExperimentFacts
    <2> QED BY <1>1, <2>1 DEF Elems
  <1>3. v \in Nat
    <2>1. e \in Nat /\ MAX_SIZE \in Nat \ {0}
      BY <1>1, <1>2
    <2>2. e \div MAX_SIZE \in Nat /\ e % MAX_SIZE \in Nat
      BY <2>1
    <2> QED BY <2>2 DEF fillArray
  <1> HIDE DEF v
  <1> DEFINE hi == v \div 256
             lo == v % 256
  <1>4. hi \in Nat /\ lo \in 0 .. 255 /\ v = 256 * hi + lo
    BY <1>3
  <1>5. ASSUME NEW k \in 0 .. n - 1
        PROVE  mem[a + k] = IF k = 0 THEN lo ELSE IF k = 1 THEN hi ELSE 0
    <2>1. a + k \in 0 .. ArrayLength * n - 1
      BY <1>1, <1>2, PlaceBound
    <2>2. (a + k) \div n = e /\ (a + k) % n = k
      <3>1. n * e = a /\ n \in Nat \ {0} /\ e \in Int
        BY <1>1, <1>2
      <3>2. (n * e + k) \div n = e /\ (n * e + k) % n = k
        BY <3>1, DividedOnce
      <3> QED BY <3>1, <3>2
    <2> HIDE DEF a
    <2>3. mem[a + k] = LET w == fillArray((a + k) \div n)
                           m == (a + k) % n
                       IN  IF m = 0 THEN w % 256 ELSE IF m = 1 THEN w \div 256 ELSE 0
      BY <1>1, <2>1 DEF ArrayBytes
    <2> QED BY <2>2, <2>3 DEF v
  <1> HIDE DEF hi, lo, a
  <1> DEFINE place(k) == 2 ^ (8 * k)
  <1>6. \A k \in 0 .. n - 1 :
           f[k] = (IF k = 0 THEN lo ELSE IF k = 1 THEN hi ELSE 0) * place(k)
    BY <1>5 DEF Places
  <1>7. \A k \in 0 .. n - 1 : place(k) \in Nat
    <2> SUFFICES ASSUME NEW k \in 0 .. n - 1 PROVE 2 ^ (8 * k) \in Nat
      OBVIOUS
    <2>1. 8 * k \in Nat
      BY <1>1
    <2> QED BY <2>1, TwoTo
  <1>8. f[0] = lo /\ f[1] = 256 * hi
    <2>1. 2 ^ (0 + 8) = 256 * 2 ^ 0 /\ 2 ^ 0 = 1
      BY NextPlace, TwoToZero
    <2>2. place(0) = 1 /\ place(1) = 256
      <3>1. 8 * 0 = 0 /\ 8 * 1 = 0 + 8
        OBVIOUS
      <3> QED BY <2>1, <3>1
    <2>3. 0 \in 0 .. n - 1 /\ 1 \in 0 .. n - 1
      BY <1>1
    <2> HIDE DEF f, place
    <2>4. f[0] = lo * place(0) /\ f[1] = hi * place(1)
      BY <1>6, <2>3
    <2> QED BY <1>4, <2>2, <2>4
  <1> HIDE DEF place
  <1>9. \A k \in 2 .. n - 1 : f[k] = 0
    <2> SUFFICES ASSUME NEW k \in 2 .. n - 1 PROVE f[k] = 0
      OBVIOUS
    <2>1. k \in 0 .. n - 1 /\ k # 0 /\ k # 1
      BY <1>1
    <2> HIDE DEF f
    <2>2. f[k] = 0 * place(k) /\ place(k) \in Nat
      BY <1>6, <1>7, <2>1
    <2> QED BY <2>2
  <1>10. Adds(f, s, n)
    <2>1. \A k \in 0 .. n - 1 : f[k] \in Int
      <3> SUFFICES ASSUME NEW k \in 0 .. n - 1 PROVE f[k] \in Int
        OBVIOUS
      <3>1. k = 0 \/ k = 1 \/ k \in 2 .. n - 1
        BY <1>1
      <3> HIDE DEF f
      <3> QED BY <1>4, <1>8, <1>9, <3>1
    <2> HIDE DEF f
    <2> QED BY <1>1, <2>1, SumsAdd
  <1> HIDE DEF f
  <1> DEFINE S == {k \in Nat : 2 <= k /\ k <= n => s[k] = v}
  <1> HIDE DEF s
  <1>11. s[2] = v
    <2>1. s[0] = 0 /\ s[0 + 1] = s[0] + f[0] /\ s[1 + 1] = s[1] + f[1]
      BY <1>1, <1>10 DEF Adds
    <2> QED BY <1>4, <1>8, <2>1
  <1>12. ASSUME NEW k \in Nat, k \in S PROVE k + 1 \in S
    <2>1. ASSUME 2 <= k + 1, k + 1 <= n PROVE s[k + 1] = v
      <3>1. CASE k = 1
        BY <3>1, <1>11
      <3>2. CASE k # 1
        <4>1. k \in 2 .. n - 1 /\ k \in 0 .. n - 1
          BY <1>1, <2>1, <3>2
        <4>2. s[k + 1] = s[k] + f[k]
          BY <1>10, <4>1 DEF Adds
        <4>3. f[k] = 0
          BY <1>9, <4>1
        <4>4. s[k] = v
          BY <1>1, <1>12, <4>1
        <4> QED BY <1>3, <4>2, <4>3, <4>4
      <3> QED BY <3>1, <3>2
    <2> QED BY <2>1
  <1>13. 0 \in S
    OBVIOUS
  <1> HIDE DEF S
  <1>14. n \in S
    BY <1>1, <1>12, <1>13, SetInduction
  <1>15. s[n] = v
    BY <1>1, <1>14 DEF S
  <1>16. LongAt(a) = s[n]
    BY DEF LongAt, Sums, s, f
  <1> QED BY <1>3, <1>15, <1>16 DEF v, a

(* A read, hit or miss: the counters, what it returns, and the one set it   *)
(* changes, where the block is the newest.                                  *)
LEMMA ReadElement ==
    ASSUME NEW S, NEW N, SetsInv(S, N), ReadInv, NEW addr \in Addresses, cache_read(addr)
    PROVE  LET x == Index(cache, addr)
               t == Tag(cache, addr)
           IN  /\ x \in DOMAIN sets /\ DOMAIN sets' = DOMAIN sets /\ cache' = cache
               /\ \A y \in DOMAIN sets : y # x => sets'[y] = sets[y]
               /\ SetInv(sets'[x], cache.associativity, S[x] \cup {t},
                         MakeNewest(t, S[x], N[x]), cache.policies)
               /\ t \in CachedTags(sets'[x])
               /\ ReadInv' /\ returned'.value = LongAt(addr)
               /\ access_count' = access_count + 1
               /\ miss_count' = IF t \in CachedTags(sets[x]) THEN miss_count
                                ELSE miss_count + 1
  <1> DEFINE n == cache.associativity
             x == Index(cache, addr)
             t == Tag(cache, addr)
             set == sets[x]
             policies == cache.policies
             Sx == S[x]
             Nx == N[x]
             d == Block(cache, addr)
             S2 == Sx \cup {t}
             N2 == MakeNewest(t, Sx, Nx)
  <1>1. /\ cache \in {Fields(args) : args \in Caches} /\ n \in Nat \ {0} /\ addr \in Nat
        /\ DOMAIN sets = 0 .. cache.num_sets - 1
    BY Lines, MemoryAssumption DEF SetsInv
  <1>2. x \in DOMAIN sets
    BY <1>1, IndexInSets
  <1>3. SetInv(set, n, Sx, Nx, policies)
    BY <1>2 DEF SetsInv
  <1>4. ReadInv'
    BY ReadRight
  <1>5. PICK new : /\ Finish(addr, new)
                   /\ SetInv(new, n, S2, N2, policies)
                   /\ t \in CachedTags(new)
                   /\ miss_count' = IF t \in CachedTags(set) THEN miss_count
                                    ELSE miss_count + 1
    <2>1. CASE ReadHit(addr)
      <3>1. PICK k \in First(Matching(set, t)) : Finish(addr, cache_line_make_mru(set, k))
        BY <2>1 DEF ReadHit
      <3>2. miss_count' = miss_count
        BY <2>1 DEF ReadHit
      <3> DEFINE m == cache_line_make_mru(set, k)
      <3>3. /\ SetInv(m, n, S2, N2, policies)
            /\ CachedTags(m) = CachedTags(set) /\ t \in CachedTags(set)
        <4> HIDE DEF n, x, t, set, policies, Sx, Nx
        <4> QED BY <1>1, <1>3, HitSet
      <3> HIDE DEF m, S2, N2, n, t, set, policies
      <3>4. t \in CachedTags(m)
        BY <3>3
      <3>5. Finish(addr, m)
        BY <3>1 DEF m
      <3> QED BY <3>2, <3>3, <3>4, <3>5
    <2>2. CASE ReadMiss(addr)
      <3>1. PICK k \in Available(set, n, policies) :
                Finish(addr, cache_set_add(set, k, t, d))
        BY <2>2 DEF ReadMiss
      <3>2. Matching(set, t) = {} /\ miss_count' = miss_count + 1
        BY <2>2 DEF ReadMiss
      <3> DEFINE m == cache_set_add(set, k, t, d)
      <3>3. /\ SetInv(m, n, S2, N2, policies)
            /\ CachedTags(m) = {TagAt(set, l) : l \in Valid(set) \ {k}} \cup {t}
            /\ \A l \in Valid(set) : TagAt(set, l) # t
        <4> HIDE DEF n, x, t, set, policies, Sx, Nx, d
        <4> QED BY <1>1, <1>3, <3>1, <3>2, MissSet
      <3>4. Finish(addr, m)
        BY <3>1 DEF m
      <3> HIDE DEF m, S2, N2, n, t, set, policies
      <3>5. t \in CachedTags(m)
        BY <3>3
      <3>6. t \notin CachedTags(set)
        BY <3>3 DEF CachedTags
      <3> QED BY <3>2, <3>3, <3>4, <3>5, <3>6
    <2> QED BY <2>1, <2>2 DEF cache_read
  <1>6. /\ cache' = cache /\ access_count' = access_count + 1
        /\ sets' = [sets EXCEPT ![x] = new]
        /\ returned'.address = addr
    BY <1>5 DEF Finish
  <1>7. returned'.value = LongAt(addr)
    <2>1. returned' # NothingRead
      <3>1. addr # -1
        BY <1>1
      <3> QED BY <1>6, <3>1 DEF NothingRead
    <2> QED BY <1>4, <1>6, <2>1 DEF ReadInv, ReadsReturnMemory, LongAt, Places
  <1>8. sets'[x] = new /\ DOMAIN sets' = DOMAIN sets
        /\ \A y \in DOMAIN sets : y # x => sets'[y] = sets[y]
    BY <1>2, <1>6
  <1> HIDE DEF x, t
  <1> QED BY <1>2, <1>4, <1>5, <1>6, <1>7, <1>8 DEF x, t

----
(* Where the loops are, and what they have read. *)
LoopInv ==
    /\ experiment \in Experiments
    /\ i \in Nat /\ j \in Nat
    /\ IF Over(experiment, i, j) THEN todo = {}
       ELSE /\ Inside(experiment, i, j)
            /\ todo \subseteq Elements(experiment, i, j) /\ todo # {}

Visited ==
    IF Over(experiment, i, j) THEN Elems(experiment)
    ELSE Past(experiment, i, j) \cup (Elements(experiment, i, j) \ todo)

(* Where there is something to do the loops are not over. *)
LEMMA NotOver ==
    ASSUME LoopInv
    PROVE  /\ todo # {} => /\ ~Over(experiment, i, j) /\ Inside(experiment, i, j)
                           /\ todo \subseteq Elements(experiment, i, j)
           /\ todo = {} => Over(experiment, i, j)
  BY DEF LoopInv

(* What Read does to the loops. *)
Steps(e) ==
    /\ experiment' = experiment
    /\ IF todo # {e}
       THEN todo' = todo \ {e} /\ i' = i /\ j' = j
       ELSE LET next == Advance(experiment, i, j)
            IN  /\ i' = next[1] /\ j' = next[2]
                /\ todo' = IF Over(experiment, i', j') THEN {}
                           ELSE Elements(experiment, i', j')

(* Every read is of an element that was not read before. *)
LEMMA LoopStep ==
    ASSUME LoopInv, NEW e \in todo, Steps(e)
    PROVE  /\ LoopInv'
           /\ e \in Elems(experiment) /\ e \notin Visited
           /\ Visited' = Visited \cup {e}
  <1> DEFINE x == experiment
  <1>1. /\ x \in Experiments /\ ~Over(x, i, j) /\ Inside(x, i, j)
        /\ todo \subseteq Elements(x, i, j)
    BY NotOver DEF LoopInv
  <1>2. Visited = Past(x, i, j) \cup (Elements(x, i, j) \ todo)
    BY <1>1 DEF Visited
  <1>3. e \in Elems(x) /\ e \notin Past(x, i, j)
    BY <1>1, ReadsNew
  <1>4. e \notin Visited
    BY <1>2, <1>3
  <1>5. CASE todo # {e}
    <2>1. x' = x /\ todo' = todo \ {e} /\ i' = i /\ j' = j
      BY <1>5 DEF Steps
    <2>2. todo' # {} /\ todo' \subseteq Elements(x, i, j)
      BY <1>1, <1>5, <2>1
    <2>3. LoopInv'
      BY <1>1, <2>1, <2>2 DEF LoopInv
    <2>4. Visited' = Past(x, i, j) \cup (Elements(x, i, j) \ (todo \ {e}))
      BY <1>1, <2>1 DEF Visited
    <2>5. e \in Elements(x, i, j)
      BY <1>1
    <2> QED BY <1>2, <1>3, <1>4, <2>3, <2>4, <2>5
  <1>6. CASE todo = {e}
    <2> DEFINE p == Advance(x, i, j)[1]
               q == Advance(x, i, j)[2]
               after == Past(x, i, j) \cup Elements(x, i, j)
    <2>1. /\ x' = x /\ i' = p /\ j' = q
          /\ todo' = IF Over(x, p, q) THEN {} ELSE Elements(x, p, q)
      BY <1>6 DEF Steps
    <2>2. /\ p \in Nat /\ q \in Nat
          /\ Over(x, p, q) => after = Elems(x)
          /\ ~Over(x, p, q) => Inside(x, p, q) /\ Past(x, p, q) = after
      BY <1>1, GoesOn
    <2>3. ~Over(x, p, q) => Elements(x, p, q) # {}
      BY <1>1, <2>2, ElementsAre
    <2> HIDE DEF p, q, x
    <2>4. LoopInv'
      BY <1>1, <2>1, <2>2, <2>3 DEF LoopInv, x
    <2>5. Visited' = after
      <3>1. CASE Over(x, p, q)
        BY <2>1, <2>2, <3>1 DEF Visited, x
      <3>2. CASE ~Over(x, p, q)
        <4>1. Visited' = Past(x, p, q) \cup (Elements(x, p, q) \ todo')
          BY <2>1, <3>2 DEF Visited, x
        <4> QED BY <2>1, <2>2, <3>2, <4>1
      <3> QED BY <3>1, <3>2
    <2>6. after = Visited \cup {e}
      BY <1>1, <1>2, <1>6
    <2> QED BY <1>3, <1>4, <2>4, <2>5, <2>6 DEF x
  <1> QED BY <1>5, <1>6

(* What has been added up, and how often. *)
Gathered(x, V) ==
    Sums([e \in Elems(x) |-> IF e \in V THEN fillArray(e) ELSE 0],
         x.rows * x.cols)[x.rows * x.cols]

SumInv ==
    /\ access_count = Cardinality(Visited)
    /\ sum = Gathered(experiment, Visited)

TestInv ==
    /\ LoopInv /\ SumInv /\ ReadInv
    /\ cache = Fields(experiment.args)
    /\ \E S, N : SetsInv(S, N)

LEMMA VisitedElems ==
    ASSUME LoopInv
    PROVE  Visited \subseteq Elems(experiment) /\ IsFiniteSet(Visited)
  <1>1. experiment \in Experiments
    BY DEF LoopInv
  <1>2. Visited \subseteq Elems(experiment)
    <2>1. CASE Over(experiment, i, j)
      BY <2>1 DEF Visited
    <2>2. CASE ~Over(experiment, i, j)
      <3>1. Inside(experiment, i, j)
        BY <2>2 DEF LoopInv
      <3>2. Elements(experiment, i, j) \subseteq Elems(experiment)
        BY <1>1, <3>1, ReadsNew
      <3> QED BY <2>2, <3>2 DEF Visited, Past
    <2> QED BY <2>1, <2>2
  <1>3. IsFiniteSet(Elems(experiment))
    <2>1. experiment.rows * experiment.cols - 1 \in Int
      BY <1>1, ExperimentFacts
    <2> QED BY <2>1, FS_Interval DEF Elems
  <1> QED BY <1>2, <1>3, FS_Subset

(* One more element. *)
LEMMA GatheredOne ==
    ASSUME NEW x \in Experiments, NEW V, NEW e \in Elems(x), e \notin V
    PROVE  Gathered(x, V \cup {e}) = Gathered(x, V) + fillArray(e)
  <1> DEFINE n == x.rows * x.cols
             f == [k \in 0 .. n - 1 |-> IF k \in V THEN fillArray(k) ELSE 0]
             g == [k \in 0 .. n - 1 |-> IF k \in V \cup {e} THEN fillArray(k) ELSE 0]
             w == fillArray(e)
  <1>1. n \in Nat /\ e \in 0 .. n - 1
    BY ExperimentFacts DEF Elems
  <1>2. \A k \in 0 .. n - 1 : fillArray(k) \in Nat
    BY ElementInMemory DEF Elems
  <1>3. w \in Int
    BY <1>1, <1>2
  <1> HIDE DEF n
  <1>4. ASSUME NEW k \in 0 .. n - 1
        PROVE  /\ f[k] \in Int
               /\ k = e => g[k] = f[k] + w
               /\ k # e => g[k] = f[k]
    <2>1. f[k] = (IF k \in V THEN fillArray(k) ELSE 0)
          /\ g[k] = (IF k \in V \/ k = e THEN fillArray(k) ELSE 0)
      OBVIOUS
    <2>2. fillArray(k) \in Nat
      BY <1>2
    <2> HIDE DEF f, g
    <2>3. CASE k = e
      BY <2>1, <2>2, <2>3
    <2>4. CASE k # e
      BY <2>1, <2>2, <2>4
    <2> QED BY <2>3, <2>4
  <1> HIDE DEF w, f, g
  <1>5. Sums(g, n)[n] = Sums(f, n)[n] + w
    BY <1>1, <1>3, <1>4, SumsOne
  <1> QED BY <1>5 DEF Gathered, Elems, n, f, g, w

(* Nothing, and everything. *)
LEMMA GatheredEnds ==
    ASSUME NEW x \in Experiments
    PROVE  /\ Gathered(x, {}) = 0
           /\ Gathered(x, Elems(x)) =
                 Total([r \in 0 .. x.rows - 1 |-> SumOfRow(x, r)], x.rows)
  <1> DEFINE n == x.rows * x.cols
  <1>1. n \in Nat /\ x.rows \in Nat /\ x.cols \in Nat
    BY ExperimentFacts
  <1>2. \A k \in 0 .. n - 1 : fillArray(k) \in Nat
    BY ElementInMemory DEF Elems
  <1>3. Gathered(x, {}) = 0
    <2> DEFINE z == [k \in 0 .. n - 1 |-> IF k \in {} THEN fillArray(k) ELSE 0]
               s == Sums(z, n)
               T == {k \in Nat : k <= n => s[k] = 0}
    <2>1. \A k \in 0 .. n - 1 : z[k] = 0
      OBVIOUS
    <2>2. Gathered(x, {}) = s[n]
      BY DEF Gathered, Elems
    <2> HIDE DEF n, z
    <2>3. Adds(z, s, n)
      BY <1>1, <2>1, SumsAdd
    <2> HIDE DEF s
    <2>4. 0 \in T
      BY <2>3 DEF Adds
    <2>5. ASSUME NEW k \in Nat, k \in T, k + 1 <= n PROVE s[k + 1] = 0
      <3>1. k \in 0 .. n - 1 /\ s[k] = 0
        BY <1>1, <2>5
      <3> QED BY <2>1, <2>3, <3>1 DEF Adds
    <2>6. \A k \in Nat : k \in T => k + 1 \in T
      BY <2>5
    <2> HIDE DEF T
    <2>7. n \in T
      BY <1>1, <2>4, <2>6, SetInduction
    <2> QED BY <1>1, <2>2, <2>7 DEF T
  <1>4. Gathered(x, Elems(x)) = Total([r \in 0 .. x.rows - 1 |-> SumOfRow(x, r)], x.rows)
    <2> DEFINE f == [k \in 0 .. n - 1 |-> IF k \in 0 .. n - 1 THEN fillArray(k) ELSE 0]
               g == [r \in 0 .. x.rows - 1 |-> SumOfRow(x, r)]
               row == [r \in 0 .. x.rows - 1 |->
                          [c \in 0 .. x.cols - 1 |-> fillArray(r * x.cols + c)]]
    <2>1. \A k \in 0 .. n - 1 : f[k] = fillArray(k)
      OBVIOUS
    <2>2. Gathered(x, Elems(x)) = Sums(f, n)[n]
      BY DEF Gathered, Elems
    <2>3. /\ \A r \in 0 .. x.rows - 1, c \in 0 .. x.cols - 1 :
                row[r][c] = f[r * x.cols + c]
          /\ \A r \in 0 .. x.rows - 1 : g[r] = Sums(row[r], x.cols)[x.cols]
      <3>1. \A r \in 0 .. x.rows - 1, c \in 0 .. x.cols - 1 : r * x.cols + c \in 0 .. n - 1
        BY <1>1, PlaceBound
      <3>2. \A r \in 0 .. x.rows - 1, c \in 0 .. x.cols - 1 :
               row[r][c] = fillArray(r * x.cols + c)
        OBVIOUS
      <3>3. ASSUME NEW r \in 0 .. x.rows - 1 PROVE g[r] = Sums(row[r], x.cols)[x.cols]
        <4>1. g[r] = SumOfRow(x, r)
              /\ row[r] = [c \in 0 .. x.cols - 1 |-> fillArray(r * x.cols + c)]
          OBVIOUS
        <4>2. SumOfRow(x, r) =
                 Sums([c \in 0 .. x.cols - 1 |-> fillArray(r * x.cols + c)], x.cols)[x.cols]
          BY DEF SumOfRow, Total, Sums
        <4> QED BY <4>1, <4>2
      <3> HIDE DEF f, row, g
      <3> QED BY <2>1, <3>1, <3>2, <3>3
    <2>4. \A k \in 0 .. n - 1 : f[k] \in Int
      BY <1>2, <2>1
    <2> HIDE DEF f, g, row
    <2>5. Sums(f, n)[n] = Sums(g, x.rows)[x.rows]
      <3> DEFINE R == x.rows
                 C == x.cols
      <3>1. /\ R \in Nat /\ C \in Nat
            /\ \A k \in 0 .. n - 1 : f[k] \in Int
            /\ RowSums(f, row, g, R, C, n)
        BY <1>1, <2>3, <2>4 DEF RowSums
      <3> HIDE DEF R, C, n
      <3>2. Sums(f, n)[n] = Sums(g, R)[R]
        BY <3>1, SumsRows
      <3> QED BY <3>2 DEF R, C
    <2>6. Total(g, x.rows) = Sums(g, x.rows)[x.rows]
      BY DEF Total, Sums
    <2> QED BY <2>2, <2>5, <2>6 DEF g
  <1> QED BY <1>3, <1>4

(* A new cache and the first iteration. *)
LEMMA TestStarts ==
    ASSUME TestInit
    PROVE  /\ TestInv /\ Visited = {}
           /\ SetsInv([s \in DOMAIN sets |-> {}], [s \in DOMAIN sets |-> {}])
           /\ \A s \in DOMAIN sets : CachedTags(sets[s]) = {}
  <1> DEFINE x == experiment
             none == [s \in DOMAIN sets |-> {}]
  <1>1. /\ x \in Experiments /\ cache = Fields(x.args) /\ i = 0 /\ j = 0
        /\ todo = Elements(x, 0, 0) /\ sum = 0 /\ access_count = 0
    BY DEF TestInit, CacheInit
  <1>2. Inside(x, 0, 0) /\ Past(x, 0, 0) = {} /\ Elements(x, 0, 0) # {}
    BY <1>1, BeginsEmpty, ElementsAre
  <1>3. ~Over(x, 0, 0)
    <2>1. x.rows \in Nat \ {0} /\ x.cols \in Nat \ {0}
      BY <1>1, ExperimentFacts
    <2> QED BY <2>1 DEF Over
  <1>4. LoopInv
    BY <1>1, <1>2, <1>3 DEF LoopInv
  <1>5. Visited = {}
    BY <1>1, <1>2, <1>3 DEF Visited
  <1>6. SumInv
    BY <1>1, <1>5, FS_EmptySet, GatheredEnds DEF SumInv
  <1>7. ReadInv
    BY InitRight DEF TestInit
  <1>8. cache \in {Fields(args) : args \in Caches} /\ cache.associativity \in Nat \ {0}
    <2>1. cache \in {Fields(args) : args \in Caches}
      BY <1>1, ExperimentFacts
    <2> QED BY <2>1, Lines
  <1>9. sets = [s \in 0 .. cache.num_sets - 1 |->
                   cache_set_init(cache.associativity, cache.block_size)]
    BY DEF TestInit, CacheInit
  <1>10. \A s \in DOMAIN sets :
            /\ SetInv(sets[s], cache.associativity, {}, {}, cache.policies)
            /\ Valid(sets[s]) = {}
    BY <1>8, <1>9, NewSet
  <1>11. SetsInv(none, none)
    BY <1>8, <1>9, <1>10 DEF SetsInv
  <1>12. \A s \in DOMAIN sets : CachedTags(sets[s]) = {}
    BY <1>10 DEF CachedTags
  <1> HIDE DEF none
  <1>13. TestInv
    BY <1>1, <1>4, <1>6, <1>7, <1>11 DEF TestInv
  <1> QED BY <1>5, <1>11, <1>12, <1>13 DEF none

(* A read, with what it makes of the tags read and their order. *)
LEMMA TestRead ==
    ASSUME TestInv, NEW S, NEW N, SetsInv(S, N), NEW e \in todo, Read(e)
    PROVE  LET a == e * sizeof_long
               x == Index(cache, a)
               t == Tag(cache, a)
           IN  /\ TestInv' /\ Steps(e)
               /\ e \in Elems(experiment) /\ e \notin Visited /\ Visited' = Visited \cup {e}
               /\ x \in DOMAIN sets /\ DOMAIN sets' = DOMAIN sets /\ cache' = cache
               /\ \A y \in DOMAIN sets : y # x => sets'[y] = sets[y]
               /\ t \in CachedTags(sets'[x])
               /\ miss_count' = IF t \in CachedTags(sets[x]) THEN miss_count
                                ELSE miss_count + 1
               /\ access_count' = access_count + 1
               /\ \E S2, N2 :
                     /\ SetsInv(S2, N2)'
                     /\ S2[x] = S[x] \cup {t} /\ N2[x] = MakeNewest(t, S[x], N[x])
                     /\ \A y \in DOMAIN sets : y # x => S2[y] = S[y] /\ N2[y] = N[y]
  <1> DEFINE a == e * sizeof_long
             x == Index(cache, a)
             t == Tag(cache, a)
  <1>1. /\ LoopInv /\ SumInv /\ ReadInv /\ experiment \in Experiments
        /\ cache = Fields(experiment.args)
    BY DEF TestInv, LoopInv
  <1>2. Steps(e) /\ cache_read(a) /\ sum' = sum + returned'.value
    BY DEF Read, Steps
  <1>3. /\ LoopInv'
        /\ e \in Elems(experiment) /\ e \notin Visited
        /\ Visited' = Visited \cup {e}
    BY <1>1, <1>2, LoopStep
  <1>4. a \in Addresses /\ LongAt(a) = fillArray(e)
    BY <1>1, <1>3, ExperimentFacts, ElementInMemory
  <1> HIDE DEF a
  <1>5. /\ x \in DOMAIN sets /\ DOMAIN sets' = DOMAIN sets /\ cache' = cache
        /\ \A y \in DOMAIN sets : y # x => sets'[y] = sets[y]
        /\ SetInv(sets'[x], cache.associativity, S[x] \cup {t},
                  MakeNewest(t, S[x], N[x]), cache.policies)
        /\ t \in CachedTags(sets'[x])
        /\ ReadInv' /\ returned'.value = LongAt(a)
        /\ access_count' = access_count + 1
        /\ miss_count' = IF t \in CachedTags(sets[x]) THEN miss_count ELSE miss_count + 1
    BY <1>1, <1>2, <1>4, ReadElement
  <1> HIDE DEF x, t
  <1>6. experiment' = experiment
    BY <1>2 DEF Steps
  <1>7. SumInv'
    <2>1. access_count' = Cardinality(Visited')
      <3>1. IsFiniteSet(Visited)
        BY <1>1, VisitedElems
      <3>2. Cardinality(Visited \cup {e}) = Cardinality(Visited) + 1
        BY <1>3, <3>1, FS_AddElement
      <3> QED BY <1>1, <1>3, <1>5, <3>2 DEF SumInv
    <2>2. sum' = Gathered(experiment, Visited')
      <3>1. Gathered(experiment, Visited \cup {e}) =
                Gathered(experiment, Visited) + fillArray(e)
        BY <1>1, <1>3, GatheredOne
      <3> QED BY <1>1, <1>2, <1>3, <1>4, <1>5, <3>1 DEF SumInv
    <2> QED BY <1>6, <2>1, <2>2 DEF SumInv
  <1> DEFINE S2 == [y \in DOMAIN sets |-> IF y = x THEN S[x] \cup {t} ELSE S[y]]
             N2 == [y \in DOMAIN sets |-> IF y = x THEN MakeNewest(t, S[x], N[x]) ELSE N[y]]
  <1>8. /\ S2[x] = S[x] \cup {t} /\ N2[x] = MakeNewest(t, S[x], N[x])
        /\ \A y \in DOMAIN sets : y # x => S2[y] = S[y] /\ N2[y] = N[y]
    BY <1>5
  <1> HIDE DEF S2, N2
  <1>9. \A y \in DOMAIN sets' :
           SetInv(sets'[y], cache'.associativity, S2[y], N2[y], cache'.policies)
    BY <1>5, <1>8 DEF SetsInv
  <1>10. cache' \in {Fields(args) : args \in Caches} /\ DOMAIN sets' = 0 .. cache'.num_sets - 1
    BY <1>5 DEF SetsInv
  <1>11. \E S3, N3 :
            /\ SetsInv(S3, N3)'
            /\ S3[x] = S[x] \cup {t} /\ N3[x] = MakeNewest(t, S[x], N[x])
            /\ \A y \in DOMAIN sets : y # x => S3[y] = S[y] /\ N3[y] = N[y]
    <2> DEFINE Is(S3, N3) ==
                  /\ cache' \in {Fields(args) : args \in Caches}
                  /\ DOMAIN sets' = 0 .. cache'.num_sets - 1
                  /\ \A y \in DOMAIN sets' :
                        SetInv(sets'[y], cache'.associativity, S3[y], N3[y], cache'.policies)
    <2>1. \A S3, N3 : Is(S3, N3) => SetsInv(S3, N3)'
      BY DEF SetsInv
    <2>2. Is(S2, N2)
      BY <1>9, <1>10
    <2> HIDE DEF Is
    <2>3. PICK S3, N3 : S3 = S2 /\ N3 = N2
      OBVIOUS
    <2>4. SetsInv(S3, N3)'
      BY <2>1, <2>2, <2>3
    <2> QED BY <1>8, <2>3, <2>4
  <1>12. TestInv'
    <2>1. \E S3, N3 : SetsInv(S3, N3)'
      BY <1>11
    <2>2. cache' = Fields(experiment'.args)
      BY <1>1, <1>5, <1>6
    <2> QED BY <1>3, <1>5, <1>7, <2>1, <2>2 DEF TestInv
  <1> QED BY <1>2, <1>3, <1>5, <1>11, <1>12 DEF x, t, a

(* What happens when nothing happens. *)
LEMMA TestWaits ==
    ASSUME UNCHANGED tvars
    PROVE  /\ TestInv => TestInv'
           /\ \A S, N : SetsInv(S, N) => SetsInv(S, N)'
           /\ Visited' = Visited
  <1>1. /\ cache' = cache /\ sets' = sets /\ access_count' = access_count
        /\ miss_count' = miss_count /\ returned' = returned
        /\ experiment' = experiment /\ i' = i /\ j' = j /\ todo' = todo /\ sum' = sum
    BY DEF tvars, vars
  <1>2. \A S, N : SetsInv(S, N) => SetsInv(S, N)'
    BY <1>1 DEF SetsInv
  <1>3. Visited' = Visited
    BY <1>1 DEF Visited
  <1>4. LoopInv => LoopInv'
    BY <1>1 DEF LoopInv
  <1>5. SumInv => SumInv'
    BY <1>1, <1>3 DEF SumInv
  <1>6. ReadInv => ReadInv'
    BY <1>1 DEF ReadInv, ReadsReturnMemory, LongAt, Places, Holds, Index, Tag, Block, And,
                Shift, TagAt, LineAt, Valid, Positions
  <1> QED BY <1>1, <1>2, <1>3, <1>4, <1>5, <1>6 DEF TestInv

LEMMA TestSafety == TestSpec => []TestInv
  <1>1. TestInit => TestInv
    BY TestStarts
  <1>2. TestInv /\ [TestNext]_tvars => TestInv'
    <2> SUFFICES ASSUME TestInv, [TestNext]_tvars PROVE TestInv'
      OBVIOUS
    <2>1. CASE TestNext
      <3>1. PICK e \in todo : Read(e)
        BY <2>1 DEF TestNext
      <3>2. PICK S, N : SetsInv(S, N)
        BY DEF TestInv
      <3> QED BY <3>1, <3>2, TestRead
    <2>2. CASE UNCHANGED tvars
      BY <2>2, TestWaits
    <2> QED BY <2>1, <2>2
  <1> QED BY <1>1, <1>2, PTL DEF TestSpec

(* The loops of sumA, sumB and sumC read each element of the array once,    *)
(* whatever its size, the cache and the order of evaluation: when they are  *)
(* done the sum is that of the array.                                       *)
THEOREM CacheTestSumOfArray == TestSpec => []SumOfArray
  <1>1. TestInv => SumOfArray
    <2> SUFFICES ASSUME TestInv, Done
                 PROVE  /\ access_count = experiment.rows * experiment.cols
                        /\ sum = Total([r \in 0 .. experiment.rows - 1 |->
                                           SumOfRow(experiment, r)], experiment.rows)
      BY DEF SumOfArray
    <2>1. LoopInv /\ SumInv /\ experiment \in Experiments
      BY DEF TestInv, LoopInv
    <2>2. Visited = Elems(experiment)
      BY <2>1, NotOver DEF Done, Visited
    <2>3. Cardinality(Elems(experiment)) = experiment.rows * experiment.cols
      <3>1. experiment.rows * experiment.cols \in Nat
        BY <2>1, ExperimentFacts
      <3> DEFINE n == experiment.rows * experiment.cols
      <3> HIDE DEF n
      <3>2. n \in Nat /\ Elems(experiment) = 0 .. n - 1
        BY <3>1 DEF Elems, n
      <3>3. Cardinality(0 .. n - 1) = n
        BY <3>2, FS_Interval
      <3> QED BY <3>2, <3>3 DEF n
    <2> QED BY <2>1, <2>2, <2>3, GatheredEnds DEF SumInv
  <1> QED BY <1>1, TestSafety, PTL

----
LEMMA FirstMany ==
    ASSUME NEW n \in Nat
    PROVE  IsFiniteSet(0 .. n - 1) /\ Cardinality(0 .. n - 1) = n
  <1>1. 0 \in Int /\ n - 1 \in Int
    OBVIOUS
  <1>2. IsFiniteSet(0 .. n - 1)
        /\ Cardinality(0 .. n - 1) = IF 0 > n - 1 THEN 0 ELSE n - 1 - 0 + 1
    BY <1>1, FS_Interval
  <1> QED BY <1>2

(* Under LRU a tag that as many others are newer than as there are lines is *)
(* not cached: g tells the tags of F apart, ...                             *)
LEMMA LruEvicts ==
    ASSUME NEW n \in Nat \ {0}, NEW S, NEW N, NEW policies,
           NEW set, SetInv(set, n, S, N, policies),
           ReplacementPolicy(policies) = CACHE_REPLACEMENTPOLICY_LRU,
           NEW t, NEW F, IsFiniteSet(F), Cardinality(F) >= n, NEW g,
           \A p \in F : g[p] \in S /\ g[p] # t /\ <<t, g[p]>> \notin N,
           \A p, q \in F : p # q => g[p] # g[q]
    PROVE  t \notin CachedTags(set)
  <1>1. SUFFICES ASSUME t \in CachedTags(set) PROVE FALSE
    OBVIOUS
  <1>2. PICK k \in Valid(set) : TagAt(set, k) = t
    BY <1>1 DEF CachedTags
  <1>3. Positions(set) = 0 .. n - 1 /\ k \in 0 .. n - 1 /\ RecencyOrdered(set, S, N)
    BY <1>2 DEF SetInv, IsSet, Positions, Valid
  <1>4. ASSUME NEW p \in F
        PROVE  \E l \in 0 .. k - 1 : l \in Valid(set) /\ TagAt(set, l) = g[p]
    <2>1. g[p] \in CachedTags(set)
      BY <1>2, <1>3 DEF RecencyOrdered
    <2>2. PICK l \in Valid(set) : TagAt(set, l) = g[p]
      BY <2>1 DEF CachedTags
    <2>3. l \in 0 .. n - 1
      BY <1>3 DEF Valid
    <2>4. l # k /\ ~(k < l)
      BY <1>2, <1>3, <2>2 DEF RecencyOrdered
    <2> QED BY <1>3, <2>2, <2>3, <2>4
  <1> DEFINE h == [p \in F |-> CHOOSE l \in 0 .. k - 1 :
                                  l \in Valid(set) /\ TagAt(set, l) = g[p]]
  <1>5. \A p \in F : h[p] \in 0 .. k - 1 /\ TagAt(set, h[p]) = g[p]
    BY <1>4
  <1>6. h \in [F -> 0 .. k - 1]
    BY <1>5
  <1>7. k \in Nat /\ IsFiniteSet(0 .. k - 1) /\ Cardinality(0 .. k - 1) = k
    <2>1. k \in Nat
      BY <1>3
    <2> QED BY <2>1, FirstMany
  <1>8. Cardinality(0 .. k - 1) < Cardinality(F)
    <2>1. Cardinality(F) \in Nat
      BY FS_CardinalityType
    <2> QED BY <1>3, <1>7, <2>1
  <1> HIDE DEF h
  <1>9. PICK p, q \in F : p # q /\ h[p] = h[q]
    <2> DEFINE T == 0 .. k - 1
    <2>1. h \in [F -> T] /\ IsFiniteSet(T) /\ Cardinality(T) < Cardinality(F)
      BY <1>6, <1>7, <1>8
    <2> HIDE DEF T
    <2> QED BY <2>1, FS_PigeonHole
  <1> QED BY <1>5, <1>9

(* ... and one that fewer are newer than is. *)
LEMMA LruKeeps ==
    ASSUME NEW n \in Nat \ {0}, NEW S, NEW N, NEW policies,
           NEW set, SetInv(set, n, S, N, policies),
           ReplacementPolicy(policies) = CACHE_REPLACEMENTPOLICY_LRU,
           NEW t \in S, NEW F, IsFiniteSet(F), Cardinality(F) < n, NEW g,
           \A u \in S : u # t /\ <<u, t>> \in N => \E p \in F : u = g[p]
    PROVE  t \in CachedTags(set)
  <1>1. SUFFICES ASSUME t \notin CachedTags(set) PROVE FALSE
    OBVIOUS
  <1>2. Positions(set) = 0 .. n - 1 /\ RecencyOrdered(set, S, N) /\ SetSound(set)
    BY DEF SetInv, IsSet, Positions
  <1>3. \A k \in 0 .. n - 1 :
           /\ k \in Valid(set) /\ TagAt(set, k) \in S \ {t}
           /\ <<TagAt(set, k), t>> \in N
    BY <1>1, <1>2 DEF RecencyOrdered, SetInv, CachedTags
  <1> DEFINE h == [k \in 0 .. n - 1 |-> CHOOSE p \in F : TagAt(set, k) = g[p]]
  <1>4. \A k \in 0 .. n - 1 : h[k] \in F /\ TagAt(set, k) = g[h[k]]
    BY <1>3
  <1>5. h \in [0 .. n - 1 -> F]
    BY <1>4
  <1>6. IsFiniteSet(0 .. n - 1) /\ Cardinality(0 .. n - 1) = n
    BY FirstMany
  <1>7. Cardinality(F) < Cardinality(0 .. n - 1)
    BY <1>6
  <1> HIDE DEF h
  <1>8. PICK k, l \in 0 .. n - 1 : k # l /\ h[k] = h[l]
    <2> DEFINE T == 0 .. n - 1
    <2>1. h \in [T -> F] /\ IsFiniteSet(T) /\ Cardinality(F) < Cardinality(T)
      BY <1>5, <1>6, <1>7
    <2> HIDE DEF T
    <2>2. \E k, l \in T : k # l /\ h[k] = h[l]
      BY <2>1, FS_PigeonHole
    <2> QED BY <2>2 DEF T
  <1>9. TagAt(set, k) = TagAt(set, l)
    BY <1>4, <1>8
  <1>10. k \in Valid(set) /\ l \in Valid(set)
    BY <1>3
  <1> QED BY <1>2, <1>8, <1>9, <1>10 DEF SetSound

----
(* A row is made of blocks: the block of an element, and block b of row q.  *)
(* Block m is in set m % NumSets with tag m \div NumSets.                   *)
BlocksPerRow(x) == x.cols \div LongsPerBlock(x)
BlockOf(x, e) == e \div LongsPerBlock(x)
BlockAt(x, q, b) == q * BlocksPerRow(x) + b
NumSets(x) == Rows(Fields(x.args))
Blocked(x) == x \in Experiments /\ x.cols % LongsPerBlock(x) = 0

LEMMA RowsOfBlocks ==
    ASSUME NEW x, Blocked(x)
    PROVE  /\ LongsPerBlock(x) \in Nat \ {0} /\ BlocksPerRow(x) \in Nat \ {0}
           /\ x.cols = LongsPerBlock(x) * BlocksPerRow(x)
           /\ Width(Fields(x.args)) = sizeof_long * LongsPerBlock(x)
           /\ NumSets(x) \in Nat \ {0} /\ sizeof_long \in Nat \ {0}
  <1> DEFINE c == Fields(x.args)
             w == Width(c)
             s == sizeof_long
             L == LongsPerBlock(x)
             B == BlocksPerRow(x)
  <1>1. x \in Experiments /\ x.args \in Caches /\ x.cols \in Nat \ {0} /\ x.cols % L = 0
    BY ExperimentFacts DEF Blocked
  <1>2. w \in Nat \ {0} /\ NumSets(x) \in Nat \ {0} /\ s \in Nat \ {0} /\ w % s = 0
    BY <1>1, FieldsFacts, MemoryAssumption, BlockAssumption DEF Width, NumSets
  <1>3. L = w \div s
    BY DEF LongsPerBlock, Width
  <1> HIDE DEF w, c, L, s
  <1>4. w = s * L /\ L \in Nat
    <2>1. w \in Nat /\ w = s * L + (w % s) /\ L \in Nat
      BY <1>2, <1>3, Divided
    <2>2. s * L \in Nat
      BY <1>2, <2>1
    <2> QED BY <1>2, <2>1, <2>2
  <1>5. L # 0
    BY <1>2, <1>4
  <1>6. B = x.cols \div L
    BY DEF BlocksPerRow, L
  <1>7. x.cols = L * B /\ B \in Nat
    <2> DEFINE C == x.cols
    <2>1. C \in Nat /\ C % L = 0 /\ L \in Nat \ {0} /\ B = C \div L
      BY <1>1, <1>4, <1>5, <1>6
    <2> HIDE DEF C, B
    <2>2. C = L * B + (C % L) /\ B \in Nat
      BY <2>1, Divided
    <2>3. L * B \in Nat
      BY <2>1, <2>2
    <2>4. C = L * B
      BY <2>1, <2>2, <2>3
    <2> QED BY <2>2, <2>4 DEF C
  <1> HIDE DEF B
  <1>8. B # 0
    BY <1>1, <1>4, <1>7
  <1> QED BY <1>2, <1>4, <1>5, <1>7, <1>8 DEF w, c, s, L, B

(* Where the element of a row and column is. *)
LEMMA BlockOfPlace ==
    ASSUME NEW x, Blocked(x), NEW r \in Nat, NEW k \in 0 .. x.cols - 1
    PROVE  /\ BlockOf(x, r * x.cols + k) = BlockAt(x, r, k \div LongsPerBlock(x))
           /\ k \div LongsPerBlock(x) \in 0 .. BlocksPerRow(x) - 1
           /\ BlockAt(x, r, k \div LongsPerBlock(x)) \in Nat
  <1> DEFINE L == LongsPerBlock(x)
             B == BlocksPerRow(x)
             C == x.cols
             b == k \div L
             l == k % L
  <1>1. L \in Nat \ {0} /\ B \in Nat \ {0} /\ C = L * B /\ k \in 0 .. C - 1
    BY RowsOfBlocks
  <1> HIDE DEF L, B, C
  <1>2. k \in Nat /\ L * B \in Nat
    BY <1>1
  <1>3. b \in Nat /\ l \in 0 .. L - 1 /\ k = L * b + l
    BY <1>1, <1>2, Divided
  <1> HIDE DEF b, l
  <1>4. b < B
    <2> SUFFICES ASSUME B <= b PROVE FALSE
      BY <1>1, <1>3
    <2>1. L * B <= L * b
      BY <1>1, <1>3, Times
    <2>2. L * b \in Int
      BY <1>1, <1>3
    <2> QED BY <1>1, <1>2, <1>3, <2>1, <2>2
  <1>5. r * C + k = L * (r * B + b) + l /\ r * B + b \in Nat
    <2>1. r * C = L * (r * B) /\ r * B \in Nat
      BY <1>1
    <2>2. L * (r * B + b) = L * (r * B) + L * b
      BY <1>1, <1>3, <2>1
    <2>3. L * (r * B) \in Nat /\ L * b \in Nat
      BY <1>1, <1>3, <2>1
    <2> QED BY <1>3, <2>1, <2>2, <2>3
  <1> DEFINE n == r * B + b
  <1> HIDE DEF n
  <1>6. (L * n + l) \div L = n
    <2>1. n \in Int
      BY <1>5 DEF n
    <2> QED BY <1>1, <1>3, <2>1, DividedOnce, Zenon
  <1>7. (r * C + k) \div L = n
    BY <1>5, <1>6 DEF n
  <1>8. b \in 0 .. B - 1
    BY <1>1, <1>3, <1>4
  <1> QED BY <1>5, <1>7, <1>8 DEF BlockOf, BlockAt, n, L, B, C, b

(* The cache puts the element where its block belongs. *)
LEMMA PlaceOfBlock ==
    ASSUME NEW x, Blocked(x), NEW e \in Nat
    PROVE  LET c == Fields(x.args)
           IN  /\ Index(c, e * sizeof_long) = BlockOf(x, e) % NumSets(x)
               /\ Tag(c, e * sizeof_long) = BlockOf(x, e) \div NumSets(x)
               /\ BlockOf(x, e) \in Nat
  <1> DEFINE c == Fields(x.args)
             L == LongsPerBlock(x)
             s == sizeof_long
             w == Width(c)
             R == Rows(c)
             a == e * s
             m == e \div L
  <1>1. L \in Nat \ {0} /\ s \in Nat \ {0} /\ w = s * L /\ R \in Nat \ {0}
    BY RowsOfBlocks DEF NumSets
  <1>2. Index(c, a) = (a \div w) % R /\ Tag(c, a) = a \div (w * R)
    BY ExperimentFacts, FieldsFacts DEF Blocked
  <1> HIDE DEF c, L, s, w, R, a
  <1>3. w \in Nat \ {0}
    BY <1>1
  <1>4. a \in Nat /\ a \div s = e
    <2>1. a = s * e + 0 /\ a \in Nat /\ s * e \in Nat
      BY <1>1 DEF a
    <2>2. 0 \in 0 .. s - 1
      BY <1>1
    <2>3. (s * e + 0) \div s = e
      BY <1>1, <2>2, DividedOnce
    <2> QED BY <2>1, <2>3
  <1>5. a \div w = m
    <2>1. a \in Int
      BY <1>4
    <2>2. (a \div s) \div L = a \div (s * L)
      BY <1>1, <2>1, DividedTwice, Zenon
    <2> QED BY <1>1, <1>4, <2>2 DEF m
  <1>6. m \in Nat
    BY <1>1, Divided
  <1> HIDE DEF m
  <1>7. a \div (w * R) = m \div R
    <2>1. a \in Int
      BY <1>4
    <2>2. (a \div w) \div R = a \div (w * R)
      BY <1>1, <1>3, <2>1, DividedTwice, Zenon
    <2> QED BY <1>5, <2>2
  <1> QED BY <1>2, <1>5, <1>6, <1>7 DEF BlockOf, NumSets, m, a, s, L, R, c

(* The element is in the block of its row and column. *)
LEMMA BlockOfElement ==
    ASSUME NEW x, Blocked(x), NEW e \in Elems(x)
    PROVE  /\ BlockOf(x, e) = BlockAt(x, Row(x, e), Col(x, e) \div LongsPerBlock(x))
           /\ Col(x, e) \div LongsPerBlock(x) \in 0 .. BlocksPerRow(x) - 1
  <1>1. /\ Row(x, e) \in 0 .. x.rows - 1 /\ Col(x, e) \in 0 .. x.cols - 1
        /\ e = Row(x, e) * x.cols + Col(x, e)
    BY PlaceOf DEF Blocked
  <1>2. Row(x, e) \in Nat
    BY <1>1, ExperimentFacts DEF Blocked
  <1> QED BY <1>1, <1>2, BlockOfPlace

(* Set and tag tell the blocks apart. *)
LEMMA BlockOnce ==
    ASSUME NEW n \in Nat \ {0}, NEW a \in Nat, NEW b \in Nat,
           a % n = b % n, a \div n = b \div n
    PROVE  a = b
  <1>1. a = n * (a \div n) + (a % n) /\ b = n * (b \div n) + (b % n)
    BY Divided
  <1> QED BY <1>1

LEMMA ShiftedSame ==
    ASSUME NEW n \in Nat \ {0}, NEW a \in Int, NEW b \in Int, NEW c \in Int, a % n = b % n
    PROVE  (a + c) % n = (b + c) % n
  <1> DEFINE r == (b + c) % n
             q == (b + c) \div n
             u == a \div n
             v == b \div n
             w == a % n
  <1>1. r \in 0 .. n - 1 /\ q \in Int /\ b + c = n * q + r
    BY DividedInt
  <1>2. u \in Int /\ v \in Int /\ w \in Int /\ a = n * u + w /\ b = n * v + w
    BY DividedInt
  <1> HIDE DEF r, q, u, v, w
  <1>3. n * (u - v + q) = n * u - n * v + n * q
    BY <1>1, <1>2
  <1>4. a + c = n * (u - v + q) + r
    <2>1. n * u \in Int /\ n * v \in Int /\ n * q \in Int
      BY <1>1, <1>2
    <2> QED BY <1>1, <1>2, <1>3, <2>1
  <1> DEFINE k == u - v + q
  <1>5. k \in Int
    BY <1>1, <1>2
  <1> HIDE DEF k
  <1>6. (n * k + r) % n = r
    BY <1>1, <1>5, DividedOnce
  <1> QED BY <1>4, <1>6 DEF k, r

(* Rows that begin in the same set share the sets of all their blocks.      *)
LEMMA SharedSets ==
    ASSUME NEW x, Blocked(x), NEW q \in 0 .. x.rows - 1, NEW p \in 0 .. x.rows - 1,
           NEW b \in 0 .. BlocksPerRow(x) - 1
    PROVE  BlockAt(x, q, b) % NumSets(x) = BlockAt(x, p, b) % NumSets(x)
              <=> IndexOfRow(x, q) = IndexOfRow(x, p)
  <1> DEFINE B == BlocksPerRow(x)
             R == NumSets(x)
             L == LongsPerBlock(x)
  <1>1. /\ L \in Nat \ {0} /\ B \in Nat \ {0} /\ R \in Nat \ {0}
        /\ x.rows \in Nat \ {0} /\ x.cols \in Nat \ {0}
    BY RowsOfBlocks, ExperimentFacts DEF Blocked
  <1>2. ASSUME NEW r \in Nat PROVE IndexOfRow(x, r) = (r * B) % R /\ r * B \in Nat
    <2>1. 0 \in 0 .. x.cols - 1 /\ r * x.cols \in Nat /\ r * x.cols + 0 = r * x.cols
      BY <1>1
    <2>2. BlockOf(x, r * x.cols + 0) = BlockAt(x, r, 0 \div L)
      BY <2>1, BlockOfPlace
    <2>3. Index(Fields(x.args), r * x.cols * sizeof_long) = BlockOf(x, r * x.cols) % R
      BY <2>1, PlaceOfBlock
    <2>4. 0 \div L = 0
      <3>1. 0 = L * 0 + 0 /\ 0 \in 0 .. L - 1
        BY <1>1
      <3> QED BY <1>1, <3>1, DividedOnce
    <2> HIDE DEF B, R, L
    <2>5. BlockAt(x, r, 0) = r * B /\ r * B \in Nat
      BY <1>1 DEF BlockAt, B
    <2> QED BY <2>1, <2>2, <2>3, <2>4, <2>5 DEF IndexOfRow
  <1> HIDE DEF B, R, L
  <1> DEFINE u == q * B
             v == p * B
  <1>3. IndexOfRow(x, q) = u % R /\ IndexOfRow(x, p) = v % R /\ u \in Int /\ v \in Int
    <2>1. q \in Nat /\ p \in Nat
      BY <1>1
    <2> QED BY <1>2, <2>1
  <1>4. BlockAt(x, q, b) = u + b /\ BlockAt(x, p, b) = v + b
    BY DEF BlockAt, B
  <1>5. b \in Int /\ 0 - b \in Int
    BY <1>1 DEF B
  <1> HIDE DEF u, v
  <1>6. ASSUME u % R = v % R PROVE (u + b) % R = (v + b) % R
    BY <1>1, <1>3, <1>5, <1>6, ShiftedSame
  <1>7. ASSUME (u + b) % R = (v + b) % R PROVE u % R = v % R
    <2> DEFINE y == u + b
               z == v + b
               d == 0 - b
    <2>1. y \in Int /\ z \in Int /\ d \in Int /\ y % R = z % R /\ y + d = u /\ z + d = v
      BY <1>3, <1>5, <1>7
    <2> HIDE DEF y, z, d
    <2>2. (y + d) % R = (z + d) % R
      BY <1>1, <2>1, ShiftedSame
    <2> QED BY <2>1, <2>2
  <1> QED BY <1>3, <1>4, <1>6, <1>7 DEF R

----
(* The blocks read, where the cache keeps them, and whether it holds them.  *)
BlocksRead == {BlockOf(experiment, e) : e \in Visited}
SetFor(m) == m % NumSets(experiment)
TagFor(m) == m \div NumSets(experiment)
Cached(m) == TagFor(m) \in CachedTags(sets[SetFor(m)])

(* Of two blocks of a set, which was read last. *)
Known(S) ==
    \A s \in DOMAIN sets :
        \A t : t \in S[s] <=> \E m \in BlocksRead : SetFor(m) = s /\ TagFor(m) = t

After(N) ==
    {p \in BlocksRead \X BlocksRead :
        /\ p[1] # p[2] /\ SetFor(p[1]) = SetFor(p[2])
        /\ <<TagFor(p[1]), TagFor(p[2])>> \in N[SetFor(p[2])]}

Recent(A) == \E S, N : SetsInv(S, N) /\ Known(S) /\ A = After(N)

(* A becomes the order in which the blocks were read last when m is read.   *)
Newest(m, A) ==
    {p \in A : p[2] # m}
        \cup {<<m, n>> : n \in {n \in BlocksRead : n # m /\ SetFor(n) = SetFor(m)}}

LEMMA BlocksAre ==
    ASSUME TestInv, Blocked(experiment)
    PROVE  /\ BlocksRead \subseteq Nat
           /\ \A m \in Nat : SetFor(m) \in DOMAIN sets
           /\ \A m, n \in Nat : SetFor(m) = SetFor(n) /\ TagFor(m) = TagFor(n) => m = n
  <1> DEFINE x == experiment
             R == NumSets(x)
  <1>1. R \in Nat \ {0}
    BY RowsOfBlocks
  <1>2. Visited \subseteq Nat
    BY VisitedElems DEF TestInv, Elems
  <1>3. BlocksRead \subseteq Nat
    BY <1>2, PlaceOfBlock DEF BlocksRead
  <1>4. ASSUME NEW m \in Nat PROVE SetFor(m) \in DOMAIN sets
    <2>1. /\ cache = Fields(x.args) /\ DOMAIN sets = 0 .. cache.num_sets - 1
          /\ cache \in {Fields(args) : args \in Caches}
      BY DEF TestInv, SetsInv
    <2>2. cache.num_sets \in Nat /\ R <= cache.num_sets
      BY <2>1, FieldsFacts DEF NumSets
    <2> HIDE DEF R
    <2>3. m % R \in 0 .. R - 1
      BY <1>1, Divided
    <2> QED BY <1>1, <2>1, <2>2, <2>3 DEF SetFor, R
  <1>5. \A m, n \in Nat : m % R = n % R /\ m \div R = n \div R => m = n
    <2> HIDE DEF R
    <2> QED BY <1>1, BlockOnce
  <1> QED BY <1>3, <1>4, <1>5 DEF SetFor, TagFor

LEMMA SetsAre ==
    ASSUME TestInv, Blocked(experiment), NEW S, NEW N, SetsInv(S, N), NEW m \in Nat
    PROVE  LET s == SetFor(m)
           IN  /\ SetInv(sets[s], experiment.args.associativity, S[s], N[s],
                         experiment.args.policies)
               /\ experiment.args.associativity \in Nat \ {0}
  <1>1. cache = Fields(experiment.args) /\ cache \in {Fields(args) : args \in Caches}
    BY DEF TestInv, SetsInv
  <1>2. /\ cache.associativity = experiment.args.associativity
        /\ cache.policies = experiment.args.policies
    BY <1>1 DEF Fields
  <1>3. SetFor(m) \in DOMAIN sets
    BY BlocksAre
  <1> QED BY <1>1, <1>2, <1>3, Lines DEF SetsInv

(* A block is not cached when as many of its set were read after it as the  *)
(* set has lines, ...                                                       *)
LEMMA BlockEvicted ==
    ASSUME TestInv, Blocked(experiment), Lru(experiment), NEW A, Recent(A),
           NEW m \in BlocksRead, NEW F \in SUBSET BlocksRead, IsFiniteSet(F),
           Cardinality(F) >= experiment.args.associativity,
           \A f \in F : f # m /\ SetFor(f) = SetFor(m) /\ <<m, f>> \notin A
    PROVE  ~Cached(m)
  <1> DEFINE s == SetFor(m)
             n == experiment.args.associativity
             g == [f \in F |-> TagFor(f)]
             t == TagFor(m)
             policies == experiment.args.policies
  <1>1. PICK S, N : SetsInv(S, N) /\ Known(S) /\ A = After(N)
    BY DEF Recent
  <1> DEFINE Ss == S[s]
             Ns == N[s]
             set == sets[s]
  <1>2. /\ BlocksRead \subseteq Nat /\ s \in DOMAIN sets
        /\ \A k, l \in BlocksRead : SetFor(k) = SetFor(l) /\ TagFor(k) = TagFor(l) => k = l
    BY BlocksAre
  <1>3. SetInv(set, n, Ss, Ns, policies) /\ n \in Nat \ {0}
    BY <1>1, <1>2, SetsAre
  <1>4. ASSUME NEW f \in F PROVE g[f] \in Ss /\ g[f] # t /\ <<t, g[f]>> \notin Ns
    <2>1. f \in BlocksRead /\ f # m /\ SetFor(f) = s /\ g[f] = TagFor(f)
      OBVIOUS
    <2>2. TagFor(f) \in Ss
      BY <1>1, <1>2, <2>1 DEF Known
    <2>3. TagFor(f) # t
      BY <1>2, <2>1
    <2>4. <<t, TagFor(f)>> \notin Ns
      <3>1. <<m, f>> \in BlocksRead \X BlocksRead /\ <<m, f>> \notin After(N)
        BY <1>1, <2>1
      <3> DEFINE pair == <<m, f>>
      <3>2. pair[1] = m /\ pair[2] = f
        OBVIOUS
      <3> HIDE DEF pair
      <3>3. pair \in BlocksRead \X BlocksRead /\ pair \notin After(N)
        BY <3>1 DEF pair
      <3> QED BY <2>1, <3>2, <3>3 DEF After
    <2> QED BY <2>1, <2>2, <2>3, <2>4
  <1>5. ASSUME NEW k \in F, NEW l \in F, k # l PROVE g[k] # g[l]
    BY <1>2, <1>5
  <1>6. ReplacementPolicy(policies) = CACHE_REPLACEMENTPOLICY_LRU
    BY DEF Lru
  <1> HIDE DEF g, t, set, Ss, Ns, n, policies
  <1>7. Cardinality(F) >= n
    BY DEF n
  <1>8. t \notin CachedTags(set)
    BY <1>3, <1>4, <1>5, <1>6, <1>7, LruEvicts
  <1> QED BY <1>8 DEF Cached, set, t

(* ... and is when fewer were. *)
LEMMA BlockKept ==
    ASSUME TestInv, Blocked(experiment), Lru(experiment), NEW A, Recent(A),
           NEW m \in BlocksRead, NEW F, IsFiniteSet(F),
           Cardinality(F) < experiment.args.associativity,
           \A f : <<f, m>> \in A => f \in F
    PROVE  Cached(m)
  <1> DEFINE s == SetFor(m)
             n == experiment.args.associativity
             g == [f \in F |-> TagFor(f)]
             t == TagFor(m)
             policies == experiment.args.policies
  <1>1. PICK S, N : SetsInv(S, N) /\ Known(S) /\ A = After(N)
    BY DEF Recent
  <1> DEFINE Ss == S[s]
             Ns == N[s]
             set == sets[s]
  <1>2. BlocksRead \subseteq Nat /\ s \in DOMAIN sets
    BY BlocksAre
  <1>3. SetInv(set, n, Ss, Ns, policies) /\ n \in Nat \ {0}
    BY <1>1, <1>2, SetsAre
  <1>4. t \in Ss
    BY <1>1, <1>2 DEF Known
  <1>5. ASSUME NEW u \in Ss, <<u, t>> \in Ns, u # t PROVE \E f \in F : u = g[f]
    <2>1. PICK f \in BlocksRead : SetFor(f) = s /\ TagFor(f) = u
      BY <1>1, <1>2 DEF Known
    <2> DEFINE pair == <<f, m>>
    <2>2. pair[1] = f /\ pair[2] = m /\ pair \in BlocksRead \X BlocksRead
      BY <2>1
    <2>3. f # m
      BY <1>5, <2>1
    <2> HIDE DEF pair
    <2>4. pair \in After(N)
      BY <1>5, <2>1, <2>2, <2>3 DEF After
    <2>5. f \in F
      BY <1>1, <2>4 DEF pair
    <2> QED BY <2>1, <2>5
  <1>6. ReplacementPolicy(policies) = CACHE_REPLACEMENTPOLICY_LRU
    BY DEF Lru
  <1>7. Cardinality(F) < n
    OBVIOUS
  <1> HIDE DEF g, t, set, Ss, Ns, n, policies
  <1>8. t \in CachedTags(set)
    BY <1>3, <1>4, <1>5, <1>6, <1>7, LruKeeps
  <1> QED BY <1>8 DEF Cached, set, t

(* A read, in terms of blocks. *)
LEMMA BlockRead ==
    ASSUME TestInv, Blocked(experiment), NEW A, Recent(A), NEW e \in todo, Read(e),
           NEW m, m = BlockOf(experiment, e)
    PROVE  /\ TestInv' /\ Steps(e) /\ e \in Elems(experiment) /\ m \in Nat
           /\ BlocksRead' = BlocksRead \cup {m} /\ Visited' = Visited \cup {e}
           /\ Cached(m)'
           /\ \A n \in Nat : SetFor(n) # SetFor(m) /\ Cached(n) => Cached(n)'
           /\ m \notin BlocksRead => ~Cached(m)
           /\ miss_count' = IF Cached(m) THEN miss_count ELSE miss_count + 1
           /\ access_count' = access_count + 1
           /\ \E A2 : A2 = Newest(m, A) /\ Recent(A2)'
  <1> DEFINE x == experiment
             s == SetFor(m)
             t == TagFor(m)
             a == e * sizeof_long
  <1>1. PICK S, N : SetsInv(S, N) /\ Known(S) /\ A = After(N)
    BY DEF Recent
  <1>2. LoopInv /\ cache = Fields(x.args) /\ x \in Experiments
    BY DEF TestInv, LoopInv
  <1>3. e \in Elems(x)
    <2>1. Steps(e)
      BY <1>1, TestRead
    <2> QED BY <1>2, <2>1, LoopStep
  <1>4. Index(cache, a) = s /\ Tag(cache, a) = t /\ m \in Nat
    <2>1. e \in Nat
      BY <1>3 DEF Elems
    <2> QED BY <1>2, <2>1, PlaceOfBlock DEF SetFor, TagFor
  <1>5. /\ TestInv' /\ Steps(e) /\ Visited' = Visited \cup {e}
        /\ s \in DOMAIN sets /\ DOMAIN sets' = DOMAIN sets
        /\ \A y \in DOMAIN sets : y # s => sets'[y] = sets[y]
        /\ t \in CachedTags(sets'[s])
        /\ miss_count' = IF t \in CachedTags(sets[s]) THEN miss_count ELSE miss_count + 1
        /\ access_count' = access_count + 1
        /\ \E S2, N2 :
              /\ SetsInv(S2, N2)'
              /\ S2[s] = S[s] \cup {t} /\ N2[s] = MakeNewest(t, S[s], N[s])
              /\ \A y \in DOMAIN sets : y # s => S2[y] = S[y] /\ N2[y] = N[y]
    <2> HIDE DEF a
    <2> DEFINE Result(y, u) ==
                /\ TestInv' /\ Steps(e) /\ Visited' = Visited \cup {e}
                /\ y \in DOMAIN sets /\ DOMAIN sets' = DOMAIN sets
                /\ \A z \in DOMAIN sets : z # y => sets'[z] = sets[z]
                /\ u \in CachedTags(sets'[y])
                /\ miss_count' = IF u \in CachedTags(sets[y]) THEN miss_count
                                 ELSE miss_count + 1
                /\ access_count' = access_count + 1
                /\ \E S2, N2 :
                      /\ SetsInv(S2, N2)'
                      /\ S2[y] = S[y] \cup {u} /\ N2[y] = MakeNewest(u, S[y], N[y])
                      /\ \A z \in DOMAIN sets : z # y => S2[z] = S[z] /\ N2[z] = N[z]
    <2>1. Result(Index(cache, a), Tag(cache, a))
      BY <1>1, TestRead DEF a
    <2> HIDE DEF Result
    <2>2. Result(s, t)
      BY <1>4, <2>1
    <2> QED BY <2>2 DEF Result
  <1>6. x' = x
    BY <1>5 DEF Steps
  <1>7. \A n : SetFor(n)' = SetFor(n) /\ TagFor(n)' = TagFor(n)
    BY <1>6 DEF SetFor, TagFor
  <1>8. BlocksRead' = BlocksRead \cup {m}
    BY <1>5, <1>6 DEF BlocksRead
  <1>9. Cached(m)'
    BY <1>5, <1>7 DEF Cached
  <1>10. BlocksRead \subseteq Nat /\ \A n \in Nat : SetFor(n) \in DOMAIN sets
         /\ \A k, l \in Nat : SetFor(k) = SetFor(l) /\ TagFor(k) = TagFor(l) => k = l
    BY BlocksAre
  <1>11. \A n \in Nat : SetFor(n) # s /\ Cached(n) => Cached(n)'
    BY <1>5, <1>7, <1>10 DEF Cached
  <1>12. ASSUME m \notin BlocksRead PROVE ~Cached(m)
    <2>1. t \notin S[s]
      BY <1>1, <1>4, <1>5, <1>10, <1>12 DEF Known
    <2>2. CachedTags(sets[s]) \subseteq S[s]
      BY <1>1, <1>5 DEF SetsInv, SetInv
    <2> QED BY <2>1, <2>2 DEF Cached
  <1>13. PICK S2, N2 :
            /\ SetsInv(S2, N2)'
            /\ S2[s] = S[s] \cup {t} /\ N2[s] = MakeNewest(t, S[s], N[s])
            /\ \A y \in DOMAIN sets : y # s => S2[y] = S[y] /\ N2[y] = N[y]
    BY <1>5
  <1>14. ASSUME NEW y \in DOMAIN sets, NEW u
         PROVE  u \in S2[y] <=> \E n \in BlocksRead \cup {m} : SetFor(n) = y /\ TagFor(n) = u
    <2>1. u \in S[y] <=> \E n \in BlocksRead : SetFor(n) = y /\ TagFor(n) = u
      BY <1>1 DEF Known
    <2>2. CASE y = s
      BY <1>13, <2>1, <2>2
    <2>3. CASE y # s
      BY <1>13, <2>1, <2>3
    <2> QED BY <2>2, <2>3
  <1>15. Known(S2)'
    BY <1>5, <1>7, <1>8, <1>14 DEF Known
  <1>16. After(N2)' = Newest(m, A)
    <2> DEFINE Is(p) == /\ p[1] # p[2] /\ SetFor(p[1]) = SetFor(p[2])
                        /\ <<TagFor(p[1]), TagFor(p[2])>> \in N2[SetFor(p[2])]
               Was(p) == /\ p[1] # p[2] /\ SetFor(p[1]) = SetFor(p[2])
                         /\ <<TagFor(p[1]), TagFor(p[2])>> \in N[SetFor(p[2])]
               Two == BlocksRead \cup {m}
    <2>1. After(N2)' = {p \in Two \X Two : Is(p)}
      BY <1>7, <1>8 DEF After
    <2>2. A = {p \in BlocksRead \X BlocksRead : Was(p)}
      BY <1>1 DEF After
    <2>3. ASSUME NEW k \in Two, NEW l \in Two
          PROVE  Is(<<k, l>>) <=> \/ l # m /\ k \in BlocksRead /\ l \in BlocksRead
                                     /\ Was(<<k, l>>)
                                  \/ k = m /\ l \in BlocksRead /\ l # m
                                     /\ SetFor(l) = SetFor(m)
      <3> DEFINE p == <<TagFor(k), TagFor(l)>>
                 y == SetFor(l)
                 New == {<<t, u>> : u \in S[s] \ {t}}
      <3>1. k \in Nat /\ l \in Nat /\ y \in DOMAIN sets
        BY <1>4, <1>10
      <3>2. /\ Is(<<k, l>>) <=> k # l /\ SetFor(k) = y /\ p \in N2[y]
            /\ Was(<<k, l>>) <=> k # l /\ SetFor(k) = y /\ p \in N[y]
        OBVIOUS
      <3> HIDE DEF Is, Was
      <3>3. CASE y # s
        <4>1. N2[y] = N[y] /\ l # m
          BY <1>13, <3>1, <3>3
        <4>2. ASSUME SetFor(k) = y PROVE k # m
          BY <3>3, <4>2
        <4> QED BY <3>2, <3>3, <4>1, <4>2
      <3>4. CASE y = s
        <4>1. N2[y] = {q \in N[y] : q[2] # t} \cup New
          BY <1>13, <3>4 DEF MakeNewest
        <4>2. p[1] = TagFor(k) /\ p[2] = TagFor(l)
          OBVIOUS
        <4>3. p \in New <=> TagFor(k) = t /\ TagFor(l) \in S[s] /\ TagFor(l) # t
          OBVIOUS
        <4> HIDE DEF p, New
        <4>4. p \in N2[y] <=> \/ p \in N[y] /\ TagFor(l) # t
                              \/ TagFor(k) = t /\ TagFor(l) \in S[s] /\ TagFor(l) # t
          BY <4>1, <4>2, <4>3
        <4>5. TagFor(l) = t <=> l = m
          BY <1>4, <1>10, <3>1, <3>4
        <4>6. SetFor(k) = y => (TagFor(k) = t <=> k = m)
          BY <1>4, <1>10, <3>1, <3>4
        <4>7. l # m => l \in BlocksRead /\ TagFor(l) \in S[s]
          BY <1>1, <1>5, <3>4 DEF Known
        <4>8. k # m => k \in BlocksRead
          OBVIOUS
        <4>9. m \in BlocksRead \/ m \notin BlocksRead
          OBVIOUS
        <4>10. ASSUME k = m, m \notin BlocksRead PROVE SetFor(m) = y
          BY <3>4
        <4> QED BY <3>2, <3>4, <4>4, <4>5, <4>6, <4>7, <4>8, <4>10
      <3> QED BY <3>3, <3>4
    <2> HIDE DEF Is, Was
    <2>4. Newest(m, A) = {p \in A : p[2] # m}
             \cup {<<m, n>> : n \in {n \in BlocksRead : n # m /\ SetFor(n) = SetFor(m)}}
      BY DEF Newest
    <2>5. ASSUME NEW p \in After(N2)' PROVE p \in Newest(m, A)
      <3>1. p \in Two \X Two /\ Is(p)
        BY <2>1
      <3>2. PICK k \in Two, l \in Two : p = <<k, l>>
        BY <3>1
      <3>3. CASE l # m /\ k \in BlocksRead /\ l \in BlocksRead /\ Was(<<k, l>>)
        <4>1. p \in A /\ p[2] # m
          BY <2>2, <3>2, <3>3
        <4> QED BY <2>4, <4>1
      <3>4. CASE k = m /\ l \in BlocksRead /\ l # m /\ SetFor(l) = SetFor(m)
        BY <2>4, <3>2, <3>4
      <3> QED BY <2>3, <3>1, <3>2, <3>3, <3>4
    <2>6. ASSUME NEW p \in Newest(m, A) PROVE p \in After(N2)'
      <3>1. CASE p \in A /\ p[2] # m
        <4>1. p \in BlocksRead \X BlocksRead /\ Was(p)
          BY <2>2, <3>1
        <4>2. PICK k \in BlocksRead, l \in BlocksRead : p = <<k, l>>
          BY <4>1
        <4>3. Is(<<k, l>>)
          BY <2>3, <3>1, <4>1, <4>2
        <4> QED BY <2>1, <4>2, <4>3
      <3>2. CASE p \in {<<m, n>> : n \in {n \in BlocksRead : n # m /\ SetFor(n) = SetFor(m)}}
        <4>1. PICK l \in BlocksRead : l # m /\ SetFor(l) = SetFor(m) /\ p = <<m, l>>
          BY <3>2
        <4>2. Is(<<m, l>>)
          BY <2>3, <4>1
        <4> QED BY <2>1, <4>1, <4>2
      <3> QED BY <2>4, <3>1, <3>2
    <2> QED BY <2>5, <2>6
  <1>17. \E A2 : A2 = Newest(m, A) /\ Recent(A2)'
    <2>1. PICK A2 : A2 = Newest(m, A)
      OBVIOUS
    <2>2. Recent(A2)'
      BY <1>13, <1>15, <1>16, <2>1 DEF Recent
    <2> QED BY <2>1, <2>2
  <1> QED BY <1>3, <1>4, <1>5, <1>8, <1>9, <1>11, <1>12, <1>17 DEF Cached

----
(* Block b of row q is in the block column b, and of no other row.          *)
LEMMA BlockAtOnce ==
    ASSUME NEW x, Blocked(x), NEW b \in 0 .. BlocksPerRow(x) - 1, NEW q \in Nat
    PROVE  /\ BlockAt(x, q, b) \in Nat
           /\ BlockAt(x, q, b) % BlocksPerRow(x) = b
           /\ BlockAt(x, q, b) \div BlocksPerRow(x) = q
  <1> DEFINE B == BlocksPerRow(x)
  <1>1. B \in Nat \ {0}
    BY RowsOfBlocks
  <1> HIDE DEF B
  <1>2. b \in 0 .. B - 1 /\ BlockAt(x, q, b) = q * B + b
    BY DEF B, BlockAt
  <1>3. q * B = B * q /\ B * q \in Nat
    BY <1>1
  <1>4. (B * q + b) \div B = q /\ (B * q + b) % B = b
    <2>1. q \in Int /\ b \in 0 .. B - 1
      BY <1>2
    <2> QED BY <1>1, <2>1, DividedOnce
  <1> DEFINE m == q * B + b
  <1>5. m \in Nat
    BY <1>1, <1>2, <1>3
  <1>6. m = B * q + b
    BY <1>3
  <1> HIDE DEF m
  <1>7. m \div B = q /\ m % B = b
    BY <1>4, <1>6
  <1> QED BY <1>2, <1>5, <1>7 DEF B, m

(* As many blocks as rows. *)
LEMMA BlocksOfRows ==
    ASSUME NEW x, Blocked(x), NEW b \in 0 .. BlocksPerRow(x) - 1,
           NEW G \in SUBSET Nat, IsFiniteSet(G)
    PROVE  LET F == {BlockAt(x, p, b) : p \in G}
           IN  IsFiniteSet(F) /\ Cardinality(F) = Cardinality(G)
  <1> DEFINE F == {BlockAt(x, p, b) : p \in G}
             f == [p \in G |-> BlockAt(x, p, b)]
  <1>1. \A p, q \in G : f[p] = f[q] => p = q
    BY BlockAtOnce
  <1>2. f \in [G -> F] /\ \A y \in F : \E p \in G : f[p] = y
    OBVIOUS
  <1> HIDE DEF F, f
  <1>3. f \in Bijection(G, F)
    <2>1. f \in Injection(G, F)
      BY <1>1, <1>2 DEF Injection, IsInjective
    <2>2. f \in Surjection(G, F)
      BY <1>2 DEF Surjection
    <2> QED BY <2>1, <2>2 DEF Bijection
  <1>4. ExistsBijection(G, F)
    BY <1>3 DEF ExistsBijection
  <1>5. IsFiniteSet(F) /\ Cardinality(F) = Cardinality(G)
    BY <1>4, FS_Bijection
  <1> QED BY <1>5 DEF F

(* The rows that share their sets with row q. *)
LEMMA SharingFinite ==
    ASSUME NEW x \in Experiments, NEW q \in 0 .. x.rows - 1
    PROVE  LET G == Sharing(x, q) \ {q}
           IN  /\ G \in SUBSET Nat /\ IsFiniteSet(G)
               /\ Cardinality(Sharing(x, q)) \in Nat
               /\ Cardinality(G) = Cardinality(Sharing(x, q)) - 1
  <1> DEFINE H == Sharing(x, q)
  <1>1. x.rows \in Nat
    BY ExperimentFacts
  <1>2. IsFiniteSet(0 .. x.rows - 1)
    BY <1>1, FirstMany
  <1>3. H \subseteq 0 .. x.rows - 1 /\ q \in H
    BY DEF Sharing
  <1> HIDE DEF H
  <1>4. IsFiniteSet(H)
    BY <1>2, <1>3, FS_Subset
  <1>5. Cardinality(H) \in Nat
    BY <1>4, FS_CardinalityType
  <1>6. IsFiniteSet(H \ {q}) /\ Cardinality(H \ {q}) = Cardinality(H) - 1
    BY <1>3, <1>4, FS_RemoveElement
  <1> QED BY <1>1, <1>3, <1>5, <1>6 DEF H

(* In an iteration of sumC the two columns are in the same block column. *)
Aligned(x) == Blocked(x) /\ (x.sum = "sumC" => LongsPerBlock(x) % 2 = 0)

LEMMA OneColumn ==
    ASSUME NEW x, Aligned(x), NEW r, NEW c, Inside(x, r, c),
           NEW k \in c .. c + Stride(x) - 1
    PROVE  k \div LongsPerBlock(x) = c \div LongsPerBlock(x)
  <1> DEFINE L == LongsPerBlock(x)
             b == c \div L
             l == c % L
  <1>1. /\ L \in Nat \ {0} /\ x \in Experiments /\ c \in Nat
        /\ Stride(x) = IF x.sum = "sumC" THEN 2 ELSE 1
        /\ x.sum = "sumC" => L % 2 = 0 /\ c % 2 = 0
    BY RowsOfBlocks, ExperimentFacts DEF Aligned, Blocked, Inside, Whole
  <1> HIDE DEF L
  <1>2. b \in Nat /\ l \in 0 .. L - 1 /\ c = L * b + l
    BY <1>1, Divided
  <1> HIDE DEF b, l
  <1>3. CASE k = c
    BY <1>3 DEF b
  <1>4. CASE k # c
    <2>1. x.sum = "sumC" /\ k = c + 1
      BY <1>1, <1>4
    <2>2. l + 1 \in 0 .. L - 1
      <3>1. L % 2 = 0 /\ c % 2 = 0
        BY <1>1, <2>1
      <3>2. PICK u \in Nat : L = 2 * u
        <4>1. L = 2 * (L \div 2) + (L % 2) /\ L \div 2 \in Nat
          BY <1>1
        <4> QED BY <3>1, <4>1
      <3>3. PICK v \in Nat : c = 2 * v
        <4>1. c = 2 * (c \div 2) + (c % 2) /\ c \div 2 \in Nat
          BY <1>1
        <4> QED BY <3>1, <4>1
      <3> SUFFICES ASSUME l + 1 = L PROVE FALSE
        <4>1. l \in Int /\ 0 <= l /\ l <= L - 1
          BY <1>1, <1>2
        <4> QED BY <1>1, <4>1
      <3>4. L * b = 2 * (u * b) /\ u * b \in Nat
        BY <1>2, <3>2
      <3>5. 2 * v = 2 * (u * b) + 2 * u - 1
        BY <1>2, <3>2, <3>3, <3>4
      <3> DEFINE w == u * b
      <3>6. w \in Nat /\ 2 * v = 2 * w + 2 * u - 1
        BY <3>4, <3>5
      <3> HIDE DEF w
      <3> QED BY <3>2, <3>3, <3>6
    <2> DEFINE h == l + 1
    <2>3. k = L * b + h
      <3>1. L * b \in Int
        BY <1>1, <1>2
      <3> QED BY <1>2, <2>1, <3>1
    <2>4. h \in 0 .. L - 1 /\ b \in Int
      BY <1>2, <2>2
    <2> HIDE DEF h
    <2>5. (L * b + h) \div L = b
      BY <1>1, <2>4, DividedOnce
    <2> QED BY <2>3, <2>5 DEF b, L
  <1> QED BY <1>3, <1>4 DEF L, b

----
(* The block column of the iteration, and the rows read in this column.     *)
Group == j \div LongsPerBlock(experiment)
Touched ==
    {q \in 0 .. experiment.rows - 1 :
        \/ q < i
        \/ \E d \in Elements(experiment, i, j) \ todo : Row(experiment, d) = q}

(* The next element, its block, and the blocks read before it. *)
LEMMA NextBlock ==
    ASSUME LoopInv, Aligned(experiment), NEW e \in todo
    PROVE  /\ e \in Elems(experiment)
           /\ Row(experiment, e) \in i .. i + Stride(experiment) - 1
           /\ Row(experiment, e) \in 0 .. experiment.rows - 1
           /\ Group \in 0 .. BlocksPerRow(experiment) - 1
           /\ BlockOf(experiment, e) = BlockAt(experiment, Row(experiment, e), Group)
  <1> DEFINE x == experiment
  <1>1. /\ x \in Experiments /\ Inside(x, i, j)
        /\ e \in Elements(x, i, j)
    BY NotOver DEF LoopInv
  <1>2. /\ e \in Elems(x) /\ Row(x, e) \in i .. i + Stride(x) - 1
        /\ Col(x, e) \in j .. j + Stride(x) - 1
    BY <1>1, ElementsAre
  <1>3. Row(x, e) \in 0 .. x.rows - 1
    BY <1>1, <1>2, PlaceOf
  <1>4. Col(x, e) \div LongsPerBlock(x) = Group
    BY <1>1, <1>2, OneColumn DEF Group
  <1> QED BY <1>2, <1>3, <1>4, BlockOfElement DEF Aligned

(* The rows of an iteration, each with the same columns. *)
LEMMA RowsOfIteration ==
    ASSUME NEW x \in Experiments, NEW r, NEW c, Inside(x, r, c)
    PROVE  /\ \A d \in Elements(x, r, c) : d \in Elems(x) /\ Row(x, d) \in r .. r + Stride(x) - 1
           /\ \A q \in r .. r + Stride(x) - 1 :
                 q \in 0 .. x.rows - 1 /\ \E d \in Elements(x, r, c) : Row(x, d) = q
  <1> DEFINE at(q) == q * x.cols + c
  <1>1. /\ Elements(x, r, c) =
                {e \in Elems(x) : /\ Row(x, e) \in r .. r + Stride(x) - 1
                                  /\ Col(x, e) \in c .. c + Stride(x) - 1}
        /\ r + Stride(x) <= x.rows
    BY ElementsAre
  <1>2. /\ x.rows \in Nat /\ r \in 0 .. x.rows - 1 /\ c \in 0 .. x.cols - 1
        /\ x.cols \in Nat /\ Stride(x) \in {1, 2}
    BY ExperimentFacts DEF Inside
  <1>3. ASSUME NEW q \in r .. r + Stride(x) - 1
        PROVE  q \in 0 .. x.rows - 1 /\ \E d \in Elements(x, r, c) : Row(x, d) = q
    <2>1. q \in 0 .. x.rows - 1
      BY <1>1, <1>2
    <2>2. at(q) \in Elems(x) /\ Row(x, at(q)) = q /\ Col(x, at(q)) = c
      BY <1>2, <2>1, ElementAt
    <2>3. c \in c .. c + Stride(x) - 1
      BY <1>2
    <2> HIDE DEF at
    <2>4. at(q) \in Elements(x, r, c)
      BY <1>1, <2>2, <2>3
    <2> QED BY <2>1, <2>2, <2>4
  <1> QED BY <1>1, <1>3

(* A read touches its row; after the last row the columns begin anew.       *)
LEMMA TouchedStep ==
    ASSUME LoopInv, experiment.sum # "sumA", NEW e \in todo, Steps(e),
           ~Over(experiment, i, j)'
    PROVE  LET now == Touched \cup {Row(experiment, e)}
           IN  \/ todo # {e} /\ i' = i /\ j' = j /\ Touched' = now
               \/ /\ todo = {e} /\ i' = i + Stride(experiment) /\ j' = j
                  /\ Touched' = now /\ \A q \in Touched' : q < i'
               \/ /\ todo = {e} /\ j' = j + Stride(experiment) /\ Touched' = {}
                  /\ now = 0 .. experiment.rows - 1
  <1> DEFINE x == experiment
             d == Stride(x)
             q0 == Row(x, e)
             now == Touched \cup {q0}
             M == 0 .. x.rows - 1
  <1>1. /\ x \in Experiments /\ Inside(x, i, j) /\ todo \subseteq Elements(x, i, j)
        /\ x' = x
    BY NotOver DEF LoopInv, Steps
  <1>2. /\ \A f \in Elements(x, i, j) : Row(x, f) \in i .. i + d - 1
        /\ \A q \in i .. i + d - 1 : q \in M /\ \E f \in Elements(x, i, j) : Row(x, f) = q
    BY <1>1, RowsOfIteration
  <1>3. x.rows \in Nat /\ i \in M /\ d \in {1, 2}
    BY <1>1, ExperimentFacts DEF Inside
  <1>4. q0 \in i .. i + d - 1 /\ q0 \in M
    BY <1>1, <1>2
  <1>5. CASE todo # {e}
    <2>1. todo' = todo \ {e} /\ i' = i /\ j' = j
      BY <1>5 DEF Steps
    <2>2. Touched' = {q \in M : \/ q < i
                                \/ \E f \in Elements(x, i, j) \ (todo \ {e}) : Row(x, f) = q}
      BY <1>1, <2>1 DEF Touched
    <2>3. e \in Elements(x, i, j)
      BY <1>1
    <2> HIDE DEF M
    <2>4. \A q \in M : (\E f \in Elements(x, i, j) \ (todo \ {e}) : Row(x, f) = q)
                          <=> \/ \E f \in Elements(x, i, j) \ todo : Row(x, f) = q
                              \/ q = q0
      BY <2>3
    <2>5. Touched = {q \in M : \/ q < i
                               \/ \E f \in Elements(x, i, j) \ todo : Row(x, f) = q}
      BY DEF Touched, M
    <2>6. Touched' = now
      BY <1>4, <2>2, <2>4, <2>5
    <2> QED BY <1>5, <2>1, <2>6
  <1>6. CASE todo = {e}
    <2>1. /\ i' = Advance(x, i, j)[1] /\ j' = Advance(x, i, j)[2]
          /\ todo' = IF Over(x, i', j') THEN {} ELSE Elements(x, i', j')
      BY <1>6 DEF Steps
    <2>2. Advance(x, i, j) = IF i + d < x.rows THEN <<i + d, j>> ELSE <<0, j + d>>
      BY DEF Advance
    <2>3. ~Over(x, i', j')
      BY <1>1 DEF Over
    <2>4. todo' = Elements(x, i', j')
      BY <2>1, <2>3
    <2>5. Touched' = {q \in M : q < i'}
      BY <1>1, <2>4 DEF Touched
    <2>6. now = {q \in M : q < i + d}
      <3>1. ASSUME NEW q \in now PROVE q \in M /\ q < i + d
        <4>1. CASE q = q0
          BY <1>3, <1>4, <4>1
        <4>2. CASE q \in Touched
          <5>1. q \in M
            BY <4>2 DEF Touched
          <5>2. q < i \/ q \in i .. i + d - 1
            BY <1>2, <4>2 DEF Touched
          <5> QED BY <1>3, <5>1, <5>2
        <4> QED BY <4>1, <4>2
      <3>2. ASSUME NEW q \in M, q < i + d PROVE q \in now
        <4>1. CASE q < i
          BY <4>1 DEF Touched
        <4>2. CASE ~(q < i)
          <5>1. q \in i .. i + d - 1
            BY <1>3, <3>2, <4>2
          <5>2. PICK f \in Elements(x, i, j) : Row(x, f) = q
            BY <1>2, <5>1
          <5> QED BY <1>6, <5>2 DEF Touched
        <4> QED BY <4>1, <4>2
      <3> HIDE DEF now
      <3> QED BY <3>1, <3>2
    <2> HIDE DEF now, M, d
    <2>7. CASE i + d < x.rows
      <3>1. i' = i + d /\ j' = j
        BY <2>1, <2>2, <2>7
      <3>2. Touched' = now /\ \A q \in Touched' : q < i'
        BY <2>5, <2>6, <3>1
      <3> QED BY <1>6, <3>1, <3>2 DEF now, d
    <2>8. CASE ~(i + d < x.rows)
      <3>1. i' = 0 /\ j' = j + d
        BY <2>1, <2>2, <2>8
      <3>2. Touched' = {}
        BY <2>5, <3>1 DEF M
      <3>3. now = M
        BY <1>3, <2>6, <2>8 DEF M
      <3> QED BY <1>6, <3>1, <3>2, <3>3 DEF now, M, d
    <2> QED BY <2>7, <2>8
  <1> QED BY <1>5, <1>6

(* Column by column: nothing read is beyond the block column, ... *)
LEMMA ReadSoFar ==
    ASSUME LoopInv, Aligned(experiment), experiment.sum # "sumA",
           ~Over(experiment, i, j), NEW d \in Visited
    PROVE  /\ d \in Elems(experiment)
           /\ Row(experiment, d) \in 0 .. experiment.rows - 1
           /\ Col(experiment, d) \in 0 .. experiment.cols - 1
           /\ Col(experiment, d) \div LongsPerBlock(experiment) <= Group
           /\ BlockOf(experiment, d) =
                 BlockAt(experiment, Row(experiment, d),
                         Col(experiment, d) \div LongsPerBlock(experiment))
           /\ Row(experiment, d) \in Touched \/ Col(experiment, d) < j
  <1> DEFINE x == experiment
             q == Row(x, d)
             c == Col(x, d)
             L == LongsPerBlock(x)
  <1>1. x \in Experiments /\ Inside(x, i, j) /\ Blocked(x)
    BY DEF LoopInv, Aligned
  <1>2. d \in Elems(x)
    BY VisitedElems
  <1>3. q \in 0 .. x.rows - 1 /\ c \in 0 .. x.cols - 1 /\ c \in Nat
    <2>1. x.cols \in Nat
      BY <1>1, ExperimentFacts
    <2> QED BY <1>1, <1>2, <2>1, PlaceOf
  <1>4. \/ c < j
        \/ c < j + Stride(x) /\ q < i
        \/ d \in Elements(x, i, j) \ todo
    BY <1>2 DEF Visited, Past
  <1>5. d \in Elements(x, i, j) => c \in j .. j + Stride(x) - 1
    BY <1>1, ElementsAre
  <1>6. j \in Nat /\ L \in Nat \ {0} /\ Stride(x) \in {1, 2}
    BY <1>1, RowsOfBlocks, ExperimentFacts DEF Inside
  <1>7. c < j \/ c \in j .. j + Stride(x) - 1
    <2> HIDE DEF c
    <2> QED BY <1>3, <1>4, <1>5, <1>6
  <1>8. c \div L <= Group
    <2>1. CASE c < j
      <3> HIDE DEF c, L
      <3>1. c \div L <= j \div L
        BY <1>3, <1>6, <2>1, DividedMore
      <3> QED BY <3>1 DEF Group, L
    <2>2. CASE c \in j .. j + Stride(x) - 1
      <3>1. c \div L = j \div L /\ j \div L \in Int
        BY <1>1, <1>6, <2>2, OneColumn, DividedInt
      <3> QED BY <3>1 DEF Group
    <2> QED BY <1>7, <2>1, <2>2
  <1>9. q \in Touched \/ c < j
    BY <1>3, <1>4 DEF Touched
  <1> QED BY <1>1, <1>2, <1>3, <1>8, <1>9, BlockOfElement

(* ... so that a new one begins with nothing read of it, ... *)
LEMMA NewGroup ==
    ASSUME LoopInv, Aligned(experiment), experiment.sum # "sumA",
           NEW e \in todo, Steps(e), ~Over(experiment, i, j)', Group' # Group,
           NEW n \in BlocksRead \cup {BlockOf(experiment, e)}
    PROVE  n % BlocksPerRow(experiment) # Group'
  <1> DEFINE x == experiment
             L == LongsPerBlock(x)
             B == BlocksPerRow(x)
  <1>1. /\ x \in Experiments /\ ~Over(x, i, j) /\ Inside(x, i, j) /\ Blocked(x)
        /\ x' = x /\ L \in Nat \ {0} /\ x.rows \in Nat /\ j \in Nat
        /\ Stride(x) \in {1, 2}
    BY NotOver, ExperimentFacts, RowsOfBlocks DEF LoopInv, Steps, Aligned, Inside
  <1>2. Group' = j' \div L /\ Group = j \div L
    BY <1>1 DEF Group
  <1>3. j' \in Nat /\ j <= j'
    <2>1. j' = j \/ j' = j + Stride(x)
      BY TouchedStep
    <2> QED BY <1>1, <2>1
  <1>4. Group < Group' /\ Group \in Int /\ Group' \in Int
    <2> HIDE DEF L
    <2>1. j \div L <= j' \div L
      <3>1. j \in Int /\ j' \in Int /\ j <= j' /\ L \in Nat \ {0}
        BY <1>1, <1>3
      <3> QED BY <3>1, DividedMore, Zenon
    <2>2. j \div L \in Int /\ j' \div L \in Int
      BY <1>1, <1>3, DividedInt
    <2> HIDE DEF x
    <2> QED BY <1>2, <2>1, <2>2
  <1>5. \E p \in Nat, b \in 0 .. B - 1 : n = BlockAt(x, p, b) /\ b <= Group
    <2>1. CASE n \in BlocksRead
      <3>1. PICK d \in Visited : n = BlockOf(x, d)
        BY <2>1 DEF BlocksRead
      <3>2. /\ d \in Elems(x) /\ Row(x, d) \in 0 .. x.rows - 1
            /\ Col(x, d) \div L <= Group
            /\ BlockOf(x, d) = BlockAt(x, Row(x, d), Col(x, d) \div L)
        BY <1>1, ReadSoFar
      <3>3. Col(x, d) \div L \in 0 .. B - 1
        BY <1>1, <3>2, BlockOfElement
      <3>4. Row(x, d) \in Nat
        BY <1>1, <3>2
      <3> QED BY <3>1, <3>2, <3>3, <3>4
    <2>2. CASE n = BlockOf(x, e)
      <3>1. /\ Row(x, e) \in 0 .. x.rows - 1 /\ Group \in 0 .. B - 1
            /\ BlockOf(x, e) = BlockAt(x, Row(x, e), Group)
        BY NextBlock
      <3>2. Row(x, e) \in Nat /\ Group <= Group
        BY <1>1, <1>4, <3>1
      <3> QED BY <2>2, <3>1, <3>2
    <2> QED BY <2>1, <2>2
  <1>6. PICK p \in Nat, b \in 0 .. B - 1 : n = BlockAt(x, p, b) /\ b <= Group
    BY <1>5
  <1>7. n % B = b
    BY <1>1, <1>6, BlockAtOnce
  <1>8. b \in Int
    <2>1. B \in Nat
      BY <1>1, RowsOfBlocks
    <2> QED BY <1>6, <2>1
  <1> HIDE DEF B
  <1> QED BY <1>4, <1>6, <1>7, <1>8 DEF B

(* ... and has been read for all rows before a row is read again.           *)
LEMMA AllRead ==
    ASSUME LoopInv, Aligned(experiment), experiment.sum # "sumA",
           ~Over(experiment, i, j), NEW q \in 0 .. experiment.rows - 1, q \notin Touched,
           Group \in 0 .. BlocksPerRow(experiment) - 1,
           BlockAt(experiment, q, Group) \in BlocksRead,
           NEW p \in 0 .. experiment.rows - 1
    PROVE  BlockAt(experiment, p, Group) \in BlocksRead
  <1> DEFINE x == experiment
             L == LongsPerBlock(x)
             B == BlocksPerRow(x)
  <1>1. x \in Experiments /\ Blocked(x) /\ x.rows \in Nat /\ Inside(x, i, j)
    BY ExperimentFacts DEF LoopInv, Aligned
  <1>2. PICK d \in Visited : BlockOf(x, d) = BlockAt(x, q, Group)
    BY DEF BlocksRead
  <1> DEFINE c == Col(x, d)
  <1>3. /\ d \in Elems(x) /\ Row(x, d) \in 0 .. x.rows - 1
        /\ c \in 0 .. x.cols - 1
        /\ BlockOf(x, d) = BlockAt(x, Row(x, d), c \div L)
        /\ Row(x, d) \in Touched \/ c < j
    BY ReadSoFar
  <1>4. c \div L \in 0 .. B - 1
    BY <1>1, <1>3, BlockOfElement
  <1>5. Row(x, d) = q /\ c \div L = Group
    <2>1. q \in Nat /\ Row(x, d) \in Nat
      BY <1>1, <1>3
    <2> DEFINE m == BlockOf(x, d)
    <2>2. m % B = Group /\ m \div B = q
      BY <1>1, <1>2, <2>1, BlockAtOnce
    <2>3. m % B = c \div L /\ m \div B = Row(x, d)
      BY <1>1, <1>3, <1>4, <2>1, BlockAtOnce
    <2> QED BY <2>2, <2>3
  <1>6. c < j
    BY <1>3, <1>5
  <1> DEFINE f == p * x.cols + c
  <1>7. f \in Elems(x) /\ Row(x, f) = p /\ Col(x, f) = c
    BY <1>1, <1>3, ElementAt
  <1> HIDE DEF f
  <1>8. f \in Visited
    BY <1>6, <1>7 DEF Visited, Past
  <1>9. BlockOf(x, f) = BlockAt(x, p, Group)
    BY <1>1, <1>5, <1>7, BlockOfElement
  <1> QED BY <1>8, <1>9 DEF BlocksRead

----
(* Where each block is missed once: what the next read looks for is cached  *)
(* when it was read before.                                                 *)
Fewest == IsFiniteSet(BlocksRead) /\ miss_count = Cardinality(BlocksRead)
Found ==
    \A f \in todo : BlockOf(experiment, f) \in BlocksRead => Cached(BlockOf(experiment, f))

LEMMA FewestStep ==
    ASSUME TestInv, Blocked(experiment), NEW A, Recent(A), NEW e \in todo, Read(e),
           Fewest, Found
    PROVE  Fewest'
  <1>1. PICK m : m = BlockOf(experiment, e)
    OBVIOUS
  <1>2. /\ BlocksRead' = BlocksRead \cup {m}
        /\ m \notin BlocksRead => ~Cached(m)
        /\ miss_count' = IF Cached(m) THEN miss_count ELSE miss_count + 1
    BY <1>1, BlockRead
  <1>3. Cached(m) <=> m \in BlocksRead
    BY <1>1, <1>2 DEF Found
  <1>4. /\ IsFiniteSet(BlocksRead \cup {m})
        /\ Cardinality(BlocksRead \cup {m}) =
              IF m \in BlocksRead THEN Cardinality(BlocksRead) ELSE Cardinality(BlocksRead) + 1
    BY FS_AddElement DEF Fewest
  <1> QED BY <1>2, <1>3, <1>4 DEF Fewest

(* Then one long of each block is missed. *)
LEMMA FewestEnds ==
    ASSUME TestInv, Blocked(experiment), Fewest, Done
    PROVE  miss_count * LongsPerBlock(experiment) = access_count
  <1> DEFINE x == experiment
             L == LongsPerBlock(x)
             B == BlocksPerRow(x)
             R == x.rows
  <1>1. /\ x \in Experiments /\ LoopInv
        /\ R \in Nat \ {0} /\ L \in Nat \ {0} /\ B \in Nat \ {0} /\ x.cols = L * B
    BY ExperimentFacts, RowsOfBlocks DEF TestInv, LoopInv
  <1>2. Visited = Elems(x) /\ access_count = Cardinality(Elems(x))
    BY NotOver DEF TestInv, SumInv, Done, Visited
  <1>3. Elems(x) = 0 .. R * (L * B) - 1
    BY <1>1 DEF Elems
  <1>4. BlocksRead = {BlockOf(x, e) : e \in Elems(x)}
    BY <1>2 DEF BlocksRead
  <1>5. ASSUME NEW e \in Elems(x) PROVE BlockOf(x, e) \in 0 .. R * B - 1
    <2>1. /\ Row(x, e) \in 0 .. R - 1 /\ Col(x, e) \div L \in 0 .. B - 1
          /\ BlockOf(x, e) = BlockAt(x, Row(x, e), Col(x, e) \div L)
      BY <1>1, PlaceOf, BlockOfElement
    <2> DEFINE q == Row(x, e)
               b == Col(x, e) \div L
    <2> HIDE DEF q, b, R, B
    <2>2. q * B + b \in 0 .. R * B - 1
      BY <1>1, <2>1, PlaceBound DEF q, b
    <2> QED BY <2>1, <2>2 DEF BlockAt, q, b, B
  <1>6. ASSUME NEW m \in 0 .. R * B - 1 PROVE \E e \in Elems(x) : BlockOf(x, e) = m
    <2> HIDE DEF R, B, L
    <2>1. R * B \in Nat /\ L * (R * B) = R * (L * B) /\ R * (L * B) \in Nat
      BY <1>1
    <2> DEFINE n == R * B
               N == R * (L * B)
    <2>2. n \in Nat /\ L * n = N /\ m \in 0 .. n - 1
      BY <2>1
    <2> HIDE DEF n, N
    <2>3. m * L + 0 \in 0 .. n * L - 1
      <3>1. 0 \in 0 .. L - 1 /\ L \in Nat
        BY <1>1
      <3> QED BY <2>2, <3>1, PlaceBound
    <2>4. n * L = L * n /\ m * L + 0 = L * m + 0 /\ L * m \in Int
      BY <1>1, <2>2
    <2>5. (L * m + 0) \div L = m
      <3>1. 0 \in 0 .. L - 1 /\ m \in Int
        BY <1>1, <2>2
      <3> QED BY <1>1, <3>1, DividedOnce
    <2>6. L * m + 0 \in 0 .. N - 1
      BY <2>2, <2>3, <2>4
    <2> DEFINE e == L * m + 0
    <2>7. e \in Elems(x) /\ e \div L = m
      BY <1>3, <2>5, <2>6 DEF N
    <2> HIDE DEF e
    <2> QED BY <2>7 DEF BlockOf, L
  <1>7. BlocksRead = 0 .. R * B - 1
    <2> HIDE DEF R, B
    <2> QED BY <1>4, <1>5, <1>6
  <1> HIDE DEF L, B, R
  <1>8. R * B \in Nat /\ R * (L * B) \in Nat /\ (R * B) * L = R * (L * B)
    BY <1>1
  <1>9. Cardinality(0 .. R * B - 1) = R * B
    <2> DEFINE n == R * B
    <2>1. n \in Nat
      BY <1>8
    <2> HIDE DEF n
    <2>2. Cardinality(0 .. n - 1) = n
      BY <2>1, FirstMany
    <2> QED BY <2>2 DEF n
  <1>10. Cardinality(0 .. R * (L * B) - 1) = R * (L * B)
    <2> DEFINE n == R * (L * B)
    <2>1. n \in Nat
      BY <1>8
    <2> HIDE DEF n
    <2>2. Cardinality(0 .. n - 1) = n
      BY <2>1, FirstMany
    <2> QED BY <2>2 DEF n
  <1>11. miss_count = R * B /\ access_count = R * (L * B)
    BY <1>2, <1>3, <1>7, <1>9, <1>10 DEF Fewest
  <1> QED BY <1>8, <1>11 DEF L

(* sumA goes through the memory upwards, ... *)
LEMMA Upwards ==
    ASSUME NEW x \in Experiments, x.sum = "sumA", NEW r, NEW c, Inside(x, r, c)
    PROVE  /\ \E e \in Elems(x) : Elements(x, r, c) = {e}
           /\ \A e \in Elements(x, r, c), d \in Past(x, r, c) : d < e
  <1> DEFINE at == r * x.cols + c
  <1>1. Elements(x, r, c) = {at}
    BY DEF Elements
  <1>2. /\ r \in 0 .. x.rows - 1 /\ c \in 0 .. x.cols - 1
        /\ x.rows \in Nat \ {0} /\ x.cols \in Nat \ {0}
    BY ExperimentFacts DEF Inside
  <1>3. at \in Elems(x)
    BY <1>2, ElementAt
  <1>4. ASSUME NEW d \in Past(x, r, c) PROVE d < at
    <2> DEFINE q == Row(x, d)
               k == Col(x, d)
               C == x.cols
    <2>1. d \in Elems(x) /\ (q < r \/ (q = r /\ k < c))
      BY DEF Past
    <2>2. q \in 0 .. x.rows - 1 /\ k \in 0 .. C - 1 /\ d = q * C + k
      BY <2>1, PlaceOf
    <2>3. at = r * C + c /\ r \in Nat /\ c \in 0 .. C - 1 /\ C \in Nat \ {0} /\ q \in Nat
      BY <1>2, <2>2
    <2> HIDE DEF q, k, C, at
    <2>4. CASE q = r /\ k < c
      <3>1. r * C \in Int
        BY <2>3
      <3> QED BY <2>2, <2>3, <2>4, <3>1
    <2>5. CASE q < r
      <3>1. C * (q + 1) <= C * r
        BY <2>3, <2>5, Times
      <3>2. C * (q + 1) = q * C + C /\ C * r = r * C /\ q * C \in Int /\ r * C \in Int
        BY <2>3
      <3> QED BY <2>2, <2>3, <3>1, <3>2
    <2> QED BY <2>1, <2>4, <2>5
  <1> QED BY <1>1, <1>3, <1>4

(* ... so that it goes on in the block it read last, or in a new one.       *)
LEMMA FoundByRows ==
    ASSUME TestInv, Blocked(experiment), NEW A, Recent(A), NEW e \in todo, Read(e),
           experiment.sum = "sumA"
    PROVE  Found'
  <1> DEFINE x == experiment
             L == LongsPerBlock(x)
  <1>1. PICK m : m = BlockOf(x, e)
    OBVIOUS
  <1>2. /\ TestInv' /\ Steps(e) /\ e \in Elems(x) /\ m \in Nat /\ Cached(m)'
        /\ BlocksRead' = BlocksRead \cup {m} /\ Visited' = Visited \cup {e}
    BY <1>1, BlockRead
  <1>3. LoopInv /\ LoopInv' /\ x \in Experiments /\ x' = x /\ L \in Nat \ {0}
    BY <1>2, RowsOfBlocks DEF TestInv, LoopInv, Steps
  <1>4. Inside(x, i, j) /\ ~Over(x, i, j) /\ todo \subseteq Elements(x, i, j)
    BY <1>3, NotOver
  <1>5. todo = {e}
    BY <1>3, <1>4, Upwards
  <1> SUFFICES ASSUME NEW f \in todo', BlockOf(x, f) \in BlocksRead'
               PROVE  Cached(BlockOf(x, f))'
    BY <1>3 DEF Found
  <1>6. Inside(x, i', j') /\ ~Over(x, i', j') /\ todo' = Elements(x, i', j')
    BY <1>2, <1>3, <1>5 DEF LoopInv, Steps
  <1>7. Visited' = Past(x, i', j')
    BY <1>3, <1>6 DEF Visited
  <1>8. f \in Elems(x) /\ e < f /\ \A d \in Visited' : d < f
    BY <1>2, <1>3, <1>6, <1>7, Upwards
  <1>9. PICK d \in Visited' : BlockOf(x, d) = BlockOf(x, f)
    BY <1>3 DEF BlocksRead
  <1>10. d \in Nat /\ d <= e /\ e \in Nat /\ f \in Nat
    <2>1. \A k \in Elems(x) : k \in Nat
      BY DEF Elems
    <2>2. d = e \/ (d \in Past(x, i, j) /\ d < e)
      BY <1>2, <1>3, <1>4, <1>5, <1>9, Upwards DEF Visited
    <2>3. d \in Elems(x)
      BY <1>2, <2>2 DEF Past
    <2> QED BY <1>2, <1>8, <2>1, <2>2, <2>3
  <1>11. BlockOf(x, f) = m
    <2> HIDE DEF L
    <2>1. d \in Int /\ e \in Int /\ f \in Int /\ e <= f /\ L \in Nat \ {0}
      BY <1>3, <1>8, <1>10
    <2>2. d \div L <= e \div L /\ e \div L <= f \div L
      BY <1>10, <2>1, DividedMore
    <2>3. d \div L \in Int /\ e \div L \in Int
      BY <2>1, DividedInt
    <2>4. d \div L = f \div L
      BY <1>9 DEF BlockOf, L
    <2>5. e \div L = f \div L
      BY <2>2, <2>3, <2>4
    <2> QED BY <1>1, <2>5 DEF BlockOf, L
  <1> QED BY <1>2, <1>3, <1>11 DEF Cached, TagFor, SetFor

----
(* sumB reads no other block column before it is done with one: what was    *)
(* read after a block of this column is of this column, ...                 *)
Ordered(A) ==
    ~Over(experiment, i, j) =>
        \A p \in A : p[2] % BlocksPerRow(experiment) = Group
                        => p[1] % BlocksPerRow(experiment) = Group

LEMMA OrderedStep ==
    ASSUME LoopInv, Aligned(experiment), experiment.sum # "sumA",
           NEW e \in todo, Steps(e), NEW A, Ordered(A),
           NEW m, m = BlockOf(experiment, e), BlocksRead' = BlocksRead \cup {m},
           NEW A2, A2 = Newest(m, A), A2 \subseteq BlocksRead' \X BlocksRead'
    PROVE  Ordered(A2)'
  <1> DEFINE x == experiment
             B == BlocksPerRow(x)
  <1>1. ~Over(x, i, j) /\ x' = x /\ x.rows \in Nat /\ Blocked(x) /\ B' = B
    BY NotOver, ExperimentFacts DEF LoopInv, Steps, Aligned
  <1>2. m % B = Group
    <2>1. /\ Row(x, e) \in 0 .. x.rows - 1 /\ Group \in 0 .. B - 1
          /\ m = BlockAt(x, Row(x, e), Group)
      BY NextBlock
    <2>2. Row(x, e) \in Nat
      BY <1>1, <2>1
    <2> QED BY <1>1, <2>1, <2>2, BlockAtOnce
  <1> SUFFICES ASSUME ~Over(x, i, j)', NEW p \in A2, p[2] % B = Group'
               PROVE  p[1] % B = Group'
    BY <1>1 DEF Ordered
  <1>3. CASE Group' # Group
    <2>1. p[2] \in BlocksRead \cup {m}
      OBVIOUS
    <2>2. p[2] % B # Group'
      BY <1>3, <2>1, NewGroup
    <2> QED BY <2>2
  <1>4. CASE Group' = Group
    <2>1. CASE p \in A
      BY <1>1, <1>4, <2>1 DEF Ordered
    <2>2. CASE p \notin A
      <3>1. p[1] = m
        BY <2>2 DEF Newest
      <3> QED BY <1>2, <1>4, <3>1
    <2> QED BY <2>1, <2>2
  <1> QED BY <1>3, <1>4

(* ... and no set is asked for more blocks of it than it has lines.         *)
LEMMA FoundByColumns ==
    ASSUME TestInv, Aligned(experiment), experiment.sum # "sumA",
           Lru(experiment), Roomy(experiment), NEW A, Recent(A), Ordered(A)
    PROVE  Found
  <1> DEFINE x == experiment
             B == BlocksPerRow(x)
  <1> SUFFICES ASSUME NEW e \in todo, BlockOf(x, e) \in BlocksRead
               PROVE  Cached(BlockOf(x, e))
    BY DEF Found
  <1> DEFINE m == BlockOf(x, e)
             q == Row(x, e)
             G == Sharing(x, q) \ {q}
             F == {BlockAt(x, p, Group) : p \in G}
  <1>1. LoopInv /\ x \in Experiments /\ Blocked(x) /\ x.rows \in Nat
    BY ExperimentFacts DEF TestInv, LoopInv, Aligned
  <1>2. ~Over(x, i, j) /\ Inside(x, i, j)
    BY <1>1, NotOver
  <1>3. q \in 0 .. x.rows - 1 /\ Group \in 0 .. B - 1 /\ m = BlockAt(x, q, Group)
    BY <1>1, NextBlock
  <1>4. /\ G \in SUBSET Nat /\ IsFiniteSet(G) /\ Cardinality(Sharing(x, q)) \in Nat
        /\ Cardinality(G) = Cardinality(Sharing(x, q)) - 1
    BY <1>1, <1>3, SharingFinite
  <1>5. IsFiniteSet(F) /\ Cardinality(F) = Cardinality(G)
    <2> HIDE DEF G
    <2> QED BY <1>1, <1>3, <1>4, BlocksOfRows
  <1>6. x.args.associativity \in Nat /\ Cardinality(Sharing(x, q)) <= x.args.associativity
    BY <1>1, <1>3, ExperimentFacts, CacheAssumption DEF Roomy
  <1>7. Cardinality(F) < x.args.associativity
    BY <1>4, <1>5, <1>6
  <1>8. ASSUME NEW f, <<f, m>> \in A PROVE f \in F
    <2> DEFINE pair == <<f, m>>
    <2>1. pair[1] = f /\ pair[2] = m /\ pair \in A
      BY <1>8
    <2> HIDE DEF pair
    <2>2. f \in BlocksRead /\ f # m /\ SetFor(f) = SetFor(m)
      BY <2>1 DEF Recent, After
    <2>3. m % B = Group
      <3>1. q \in Nat
        BY <1>1, <1>3
      <3> QED BY <1>1, <1>3, <3>1, BlockAtOnce
    <2>4. f % B = Group
      BY <1>2, <2>1, <2>3 DEF Ordered
    <2>5. PICK d \in Visited : f = BlockOf(x, d)
      BY <2>2 DEF BlocksRead
    <2> DEFINE p == Row(x, d)
               b == Col(x, d) \div LongsPerBlock(x)
    <2>6. d \in Elems(x) /\ p \in 0 .. x.rows - 1 /\ f = BlockAt(x, p, b)
      BY <1>1, <1>2, <2>5, ReadSoFar
    <2>7. b \in 0 .. B - 1
      BY <1>1, <2>6, BlockOfElement
    <2> HIDE DEF p, b
    <2>8. b = Group
      <3>1. p \in Nat
        BY <1>1, <2>6
      <3>2. f % B = b
        BY <1>1, <2>6, <2>7, <3>1, BlockAtOnce
      <3> QED BY <2>4, <3>2
    <2>9. IndexOfRow(x, p) = IndexOfRow(x, q)
      BY <1>1, <1>3, <2>2, <2>6, <2>8, SharedSets DEF SetFor
    <2>10. p \in G
      BY <1>3, <2>2, <2>6, <2>8, <2>9 DEF Sharing
    <2> QED BY <2>6, <2>8, <2>10
  <1> HIDE DEF m, F
  <1>9. m \in BlocksRead
    BY DEF m
  <1>10. Cached(m)
    BY <1>1, <1>5, <1>7, <1>8, <1>9, BlockKept
  <1> QED BY <1>10 DEF m

----
(* Where more rows share each set than it has lines.  The two rows of an    *)
(* iteration of sumC do not.                                                *)
Apart(x) ==
    x.sum = "sumC" =>
        \A r \in 0 .. x.rows - 2 : r % 2 = 0 => IndexOfRow(x, r) # IndexOfRow(x, r + 1)

Hard(x) == Aligned(x) /\ x.sum # "sumA" /\ Lru(x) /\ Crowded(x) /\ Apart(x)

(* Of two rows the one read last, when those of W were read in this column. *)
Later(W, p, q) == IF p \in W THEN q \notin W \/ q < p ELSE q \notin W /\ q < p

(* Of two blocks of a set the one of the later row is never the older one.  *)
InTurn(A) ==
    ~Over(experiment, i, j) =>
        \A p, q \in 0 .. experiment.rows - 1 :
            LET b == BlockAt(experiment, p, Group)
                c == BlockAt(experiment, q, Group)
            IN  (/\ p # q /\ Later(Touched, p, q) /\ SetFor(b) = SetFor(c)
                 /\ b \in BlocksRead /\ c \in BlocksRead)
                    => <<c, b>> \notin A

(* What the rows of the iteration have read already is still cached. *)
Hot ==
    ~Over(experiment, i, j) =>
        \A q \in Touched : q >= i => Cached(BlockAt(experiment, q, Group))

(* Two rows of an iteration never share a set. *)
LEMMA RowsApart ==
    ASSUME LoopInv, Hard(experiment), ~Over(experiment, i, j),
           NEW p \in i .. i + Stride(experiment) - 1,
           NEW q \in i .. i + Stride(experiment) - 1, p # q
    PROVE  /\ p \in 0 .. experiment.rows - 1 /\ q \in 0 .. experiment.rows - 1
           /\ IndexOfRow(experiment, p) # IndexOfRow(experiment, q)
  <1> DEFINE x == experiment
  <1>1. x \in Experiments /\ Inside(x, i, j)
    BY DEF LoopInv
  <1>2. /\ Stride(x) = IF x.sum = "sumC" THEN 2 ELSE 1
        /\ x.rows \in Nat /\ i \in 0 .. x.rows - 1 /\ i + Stride(x) <= x.rows
        /\ x.sum = "sumC" => i % 2 = 0
    BY <1>1, ExperimentFacts, ElementsAre DEF Inside, Whole
  <1>3. p \in 0 .. x.rows - 1 /\ q \in 0 .. x.rows - 1
    BY <1>2
  <1>4. x.sum = "sumC" /\ i \in 0 .. x.rows - 2 /\ i % 2 = 0
    BY <1>2
  <1>5. IndexOfRow(x, i) # IndexOfRow(x, i + 1)
    BY <1>4 DEF Hard, Apart
  <1>6. (p = i /\ q = i + 1) \/ (p = i + 1 /\ q = i)
    BY <1>2, <1>4
  <1> QED BY <1>3, <1>5, <1>6

(* A row that begins a column finds nothing. *)
LEMMA FirstMisses ==
    ASSUME TestInv, Hard(experiment), NEW A, Recent(A), InTurn(A),
           NEW e \in todo, Row(experiment, e) \notin Touched,
           BlockOf(experiment, e) \in BlocksRead
    PROVE  ~Cached(BlockOf(experiment, e))
  <1> DEFINE x == experiment
             B == BlocksPerRow(x)
             m == BlockOf(x, e)
             q == Row(x, e)
             G == Sharing(x, q) \ {q}
             F == {BlockAt(x, p, Group) : p \in G}
  <1>1. LoopInv /\ x \in Experiments /\ Blocked(x) /\ Aligned(x) /\ x.rows \in Nat /\ x.sum # "sumA"
        /\ Lru(x)
    BY ExperimentFacts DEF TestInv, LoopInv, Aligned, Hard
  <1>2. ~Over(x, i, j) /\ Inside(x, i, j)
    BY <1>1, NotOver
  <1>3. /\ q \in 0 .. x.rows - 1 /\ Group \in 0 .. B - 1 /\ m = BlockAt(x, q, Group)
        /\ q \in i .. i + Stride(x) - 1
    BY <1>1, NextBlock
  <1>4. /\ G \in SUBSET Nat /\ IsFiniteSet(G) /\ Cardinality(Sharing(x, q)) \in Nat
        /\ Cardinality(G) = Cardinality(Sharing(x, q)) - 1
    BY <1>1, <1>3, SharingFinite
  <1>5. IsFiniteSet(F) /\ Cardinality(F) = Cardinality(G)
    <2> HIDE DEF G
    <2> QED BY <1>1, <1>3, <1>4, BlocksOfRows
  <1>6. x.args.associativity \in Nat /\ Cardinality(Sharing(x, q)) > x.args.associativity
    BY <1>1, <1>3, ExperimentFacts, CacheAssumption DEF Hard, Crowded
  <1>7. Cardinality(F) >= x.args.associativity
    BY <1>4, <1>5, <1>6
  <1>8. ASSUME NEW p \in G
        PROVE  LET f == BlockAt(x, p, Group)
               IN  /\ f \in BlocksRead /\ f # m /\ SetFor(f) = SetFor(m)
                   /\ <<m, f>> \notin A
    <2> DEFINE f == BlockAt(x, p, Group)
    <2>1. /\ p \in 0 .. x.rows - 1 /\ p # q /\ IndexOfRow(x, p) = IndexOfRow(x, q)
          /\ p \in Nat /\ q \in Nat
      BY <1>1, <1>3 DEF Sharing
    <2>2. f \in BlocksRead
      BY <1>1, <1>2, <1>3, <2>1, AllRead
    <2>3. SetFor(f) = SetFor(m)
      BY <1>1, <1>3, <2>1, SharedSets DEF SetFor
    <2>4. f # m
      BY <1>1, <1>3, <2>1, BlockAtOnce
    <2>5. Later(Touched, p, q)
      <3>1. CASE p \in Touched
        BY <3>1 DEF Later
      <3>2. CASE p \notin Touched
        <4>1. ~(p < i)
          BY <2>1, <3>2 DEF Touched
        <4>2. p \notin i .. i + Stride(x) - 1
          BY <1>1, <1>2, <1>3, <2>1, RowsApart
        <4>3. i \in Nat /\ Stride(x) \in {1, 2}
          BY <1>1, ExperimentFacts DEF LoopInv
        <4>4. q < p
          BY <1>3, <2>1, <4>1, <4>2, <4>3
        <4> QED BY <3>2, <4>4 DEF Later
      <3> QED BY <3>1, <3>2
    <2>6. <<m, f>> \notin A
      BY <1>2, <1>3, <2>1, <2>2, <2>3, <2>5 DEF InTurn
    <2> QED BY <2>2, <2>3, <2>4, <2>6
  <1> HIDE DEF m, G
  <1>9. /\ m \in BlocksRead /\ F \in SUBSET BlocksRead
        /\ \A f \in F : f # m /\ SetFor(f) = SetFor(m) /\ <<m, f>> \notin A
    <2>1. m \in BlocksRead
      BY DEF m
    <2>2. ASSUME NEW f \in F
          PROVE  f \in BlocksRead /\ f # m /\ SetFor(f) = SetFor(m) /\ <<m, f>> \notin A
      <3>1. PICK p \in G : f = BlockAt(x, p, Group)
        OBVIOUS
      <3> QED BY <1>8, <3>1
    <2> QED BY <2>1, <2>2
  <1> HIDE DEF F
  <1>10. ~Cached(m)
    BY <1>1, <1>5, <1>7, <1>9, BlockEvicted
  <1> QED BY <1>10 DEF m

LEMMA ColumnInRow ==
    ASSUME NEW x, Blocked(x), NEW r, NEW c, Inside(x, r, c)
    PROVE  c \div LongsPerBlock(x) \in 0 .. BlocksPerRow(x) - 1
  <1>1. 0 \in Nat /\ c \in 0 .. x.cols - 1
    BY DEF Inside
  <1> QED BY <1>1, BlockOfPlace

(* A row of the iteration that was read, and where the iteration's rows are. *)
LEMMA TouchedRows ==
    ASSUME LoopInv, ~Over(experiment, i, j), NEW q \in Touched, q >= i
    PROVE  q \in i .. i + Stride(experiment) - 1
  <1> DEFINE x == experiment
  <1>1. x \in Experiments /\ Inside(x, i, j) /\ x.rows \in Nat /\ i \in Nat
    BY ExperimentFacts DEF LoopInv
  <1>2. q \in 0 .. x.rows - 1
    BY DEF Touched
  <1>3. ~(q < i)
    BY <1>1, <1>2
  <1>4. PICK d \in Elements(x, i, j) : Row(x, d) = q
    BY <1>3 DEF Touched
  <1> QED BY <1>1, <1>4, RowsOfIteration

(* The rows keep their turns: ... *)
LEMMA InTurnStep ==
    ASSUME LoopInv, LoopInv', Hard(experiment), NEW e \in todo, Steps(e), NEW A, InTurn(A),
           NEW m, m = BlockOf(experiment, e), BlocksRead' = BlocksRead \cup {m},
           NEW A2, A2 = Newest(m, A)
    PROVE  InTurn(A2)'
  <1> DEFINE x == experiment
             B == BlocksPerRow(x)
             M == 0 .. x.rows - 1
             q0 == Row(x, e)
             now == Touched \cup {q0}
  <1>1. /\ x \in Experiments /\ ~Over(x, i, j) /\ Inside(x, i, j) /\ x' = x
        /\ x.rows \in Nat /\ Aligned(x) /\ Blocked(x) /\ x.sum # "sumA"
        /\ i \in Nat /\ Stride(x) \in {1, 2}
    BY NotOver, ExperimentFacts DEF LoopInv, Steps, Hard, Aligned
  <1>2. /\ q0 \in M /\ q0 \in i .. i + Stride(x) - 1
        /\ Group \in 0 .. B - 1 /\ m = BlockAt(x, q0, Group)
    BY <1>1, NextBlock
  <1> SUFFICES ASSUME ~Over(x, i, j)', NEW p \in M, NEW q \in M, p # q,
                      Later(Touched', p, q),
                      NEW b, b = BlockAt(x, p, Group'), NEW c, c = BlockAt(x, q, Group'),
                      SetFor(b) = SetFor(c),
                      b \in BlocksRead \cup {m}, c \in BlocksRead \cup {m}
               PROVE  <<c, b>> \notin A2
    BY <1>1 DEF InTurn, Later, SetFor
  <1>3. p \in Nat /\ q \in Nat /\ q0 \in Nat
    BY <1>1, <1>2
  <1>4. CASE Group' # Group
    <2>1. b % B # Group'
      BY <1>1, <1>4, NewGroup
    <2>2. Inside(x, i', j') /\ Group' = j' \div LongsPerBlock(x)
      BY <1>1 DEF LoopInv, Group
    <2>3. Group' \in 0 .. B - 1
      BY <1>1, <2>2, ColumnInRow
    <2>4. b % B = Group'
      BY <1>1, <1>3, <2>3, BlockAtOnce
    <2> QED BY <2>1, <2>4
  <1>5. CASE Group' = Group
    <2>1. Later(now, p, q)
      <3>1. Touched' = now \/ (Touched' = {} /\ now = M)
        BY <1>1, TouchedStep
      <3> HIDE DEF now
      <3> QED BY <3>1 DEF Later
    <2>2. b = BlockAt(x, p, Group) /\ c = BlockAt(x, q, Group)
      BY <1>5
    <2>3. /\ b = m <=> p = q0
          /\ c = m <=> q = q0
      BY <1>1, <1>2, <1>3, <2>2, BlockAtOnce
    <2>4. <<c, b>> \in A2 => /\ b # m
                             /\ <<c, b>> \in A \/ c = m
      <3> DEFINE pair == <<c, b>>
      <3>1. pair[1] = c /\ pair[2] = b
        OBVIOUS
      <3> HIDE DEF pair
      <3>2. pair \in A2 => \/ pair \in A /\ pair[2] # m
                           \/ \E n : n # m /\ pair = <<m, n>>
        BY DEF Newest
      <3> QED BY <3>1, <3>2 DEF pair
    <2>5. CASE p = q0
      BY <2>3, <2>4, <2>5
    <2>6. CASE q = q0
      <3>1. p \in Touched /\ q0 < p
        BY <2>1, <2>6 DEF Later
      <3>2. p >= i
        BY <1>1, <1>2, <1>3, <3>1
      <3>3. p \in i .. i + Stride(x) - 1
        BY <1>1, <3>1, <3>2, TouchedRows
      <3>4. IndexOfRow(x, p) # IndexOfRow(x, q)
        BY <1>1, <1>2, <2>6, <3>3, RowsApart
      <3>5. IndexOfRow(x, p) = IndexOfRow(x, q)
        BY <1>1, <1>2, <2>2, SharedSets DEF SetFor
      <3> QED BY <3>4, <3>5
    <2>7. CASE p # q0 /\ q # q0
      <3>1. Later(Touched, p, q)
        BY <2>1, <2>7 DEF Later
      <3>2. b \in BlocksRead /\ c \in BlocksRead
        BY <2>3, <2>7
      <3>3. <<c, b>> \notin A
        BY <1>1, <2>2, <3>1, <3>2 DEF InTurn
      <3> QED BY <2>3, <2>4, <2>7, <3>3
    <2> QED BY <2>5, <2>6, <2>7
  <1> QED BY <1>4, <1>5

(* ... and what an iteration has read once it finds again. *)
LEMMA HotStep ==
    ASSUME LoopInv, Hard(experiment), NEW e \in todo, Steps(e), Hot,
           NEW m, m = BlockOf(experiment, e), Cached(m)',
           \A n \in Nat : SetFor(n) # SetFor(m) /\ Cached(n) => Cached(n)'
    PROVE  Hot'
  <1> DEFINE x == experiment
             B == BlocksPerRow(x)
             q0 == Row(x, e)
  <1>1. /\ x \in Experiments /\ ~Over(x, i, j) /\ Inside(x, i, j) /\ x' = x
        /\ x.rows \in Nat /\ Aligned(x) /\ Blocked(x) /\ x.sum # "sumA"
        /\ i \in Nat /\ Stride(x) \in {1, 2}
    BY NotOver, ExperimentFacts DEF LoopInv, Steps, Hard, Aligned
  <1>2. /\ q0 \in i .. i + Stride(x) - 1
        /\ Group \in 0 .. B - 1 /\ m = BlockAt(x, q0, Group)
    BY <1>1, NextBlock
  <1> SUFFICES ASSUME ~Over(x, i, j)', NEW q \in Touched', q >= i',
                      NEW n, n = BlockAt(x, q, Group')
               PROVE  Cached(n)'
    BY <1>1 DEF Hot
  <1>3. i' = i /\ j' = j /\ Touched' = Touched \cup {q0}
    <2>1. \A r \in Touched' : r \in Nat
      BY <1>1 DEF Touched
    <2>2. \/ i' = i /\ j' = j /\ Touched' = Touched \cup {q0}
          \/ i' \in Nat /\ \A r \in Touched' : r < i'
          \/ Touched' = {}
      BY <1>1, TouchedStep
    <2> QED BY <2>1, <2>2
  <1>4. Group' = Group
    BY <1>1, <1>3 DEF Group
  <1>5. CASE q = q0
    BY <1>2, <1>4, <1>5
  <1>6. CASE q # q0
    <2>1. q \in Touched /\ q >= i
      BY <1>3, <1>6
    <2>2. q \in i .. i + Stride(x) - 1
      BY <1>1, <2>1, TouchedRows
    <2>3. /\ q \in 0 .. x.rows - 1 /\ q0 \in 0 .. x.rows - 1
          /\ IndexOfRow(x, q) # IndexOfRow(x, q0)
      BY <1>1, <1>2, <1>6, <2>2, RowsApart
    <2>4. n = BlockAt(x, q, Group) /\ Cached(n)
      BY <1>1, <1>4, <2>1 DEF Hot
    <2>5. SetFor(n) # SetFor(m)
      BY <1>1, <1>2, <2>3, <2>4, SharedSets DEF SetFor
    <2>6. n \in Nat
      <3>1. q \in Nat
        BY <1>1, <2>3
      <3> QED BY <1>1, <1>2, <2>4, <3>1, BlockAtOnce
    <2> QED BY <2>4, <2>5, <2>6
  <1> QED BY <1>5, <1>6

(* sumC reads two elements of each row. *)
LEMMA TwoOfRow ==
    ASSUME NEW x \in Experiments, x.sum = "sumC", NEW r, NEW c, Inside(x, r, c),
           NEW e \in Elements(x, r, c)
    PROVE  \E f \in Elements(x, r, c) :
              /\ f # e /\ Row(x, f) = Row(x, e)
              /\ \A d \in Elements(x, r, c) : Row(x, d) = Row(x, e) => d \in {e, f}
  <1> DEFINE q == Row(x, e)
             at(k) == q * x.cols + k
  <1>1. /\ Elements(x, r, c) =
                {d \in Elems(x) : /\ Row(x, d) \in r .. r + Stride(x) - 1
                                  /\ Col(x, d) \in c .. c + Stride(x) - 1}
        /\ c + Stride(x) <= x.cols
    BY ElementsAre
  <1>2. /\ Stride(x) = 2 /\ c \in Nat /\ x.cols \in Nat
    BY ExperimentFacts DEF Inside
  <1>3. ASSUME NEW d \in Elements(x, r, c)
        PROVE  /\ Row(x, d) \in 0 .. x.rows - 1 /\ Row(x, d) \in r .. r + 1
               /\ Col(x, d) \in {c, c + 1} /\ d = Row(x, d) * x.cols + Col(x, d)
    <2>1. /\ d \in Elems(x) /\ Row(x, d) \in r .. r + 2 - 1 /\ Col(x, d) \in c .. c + 2 - 1
      BY <1>1, <1>2
    <2>2. Row(x, d) \in 0 .. x.rows - 1 /\ d = Row(x, d) * x.cols + Col(x, d)
      BY <2>1, PlaceOf
    <2>3. c + 2 - 1 = c + 1 /\ r + 2 - 1 = r + 1
      <3>1. r \in Nat
        BY ExperimentFacts DEF Inside
      <3> QED BY <1>2, <3>1
    <2> QED BY <1>2, <2>1, <2>2, <2>3
  <1>4. ASSUME NEW k \in {c, c + 1}
        PROVE  at(k) \in Elements(x, r, c) /\ Row(x, at(k)) = q /\ Col(x, at(k)) = k
    <2>1. k \in 0 .. x.cols - 1
      BY <1>1, <1>2
    <2>2. at(k) \in Elems(x) /\ Row(x, at(k)) = q /\ Col(x, at(k)) = k
      BY <1>3, <2>1, ElementAt
    <2>3. k \in c .. c + 2 - 1
      BY <1>2
    <2>4. q \in r .. r + 2 - 1
      BY <1>1, <1>2
    <2> HIDE DEF at, q
    <2> QED BY <1>1, <1>2, <2>2, <2>3, <2>4
  <1>5. \A d \in Elements(x, r, c) : Row(x, d) = q => d \in {at(c), at(c + 1)}
    BY <1>3
  <1>6. at(c) # at(c + 1)
    <2>1. c # c + 1
      BY <1>2
    <2> HIDE DEF at
    <2> QED BY <1>4, <2>1
  <1>7. e \in {at(c), at(c + 1)}
    BY <1>5
  <1> HIDE DEF at
  <1> QED BY <1>4, <1>5, <1>6, <1>7

(* Of the elements of an iteration, those in rows it has read from already. *)
Pending == {f \in todo : Row(experiment, f) \in Touched}

(* Each miss is charged to all elements of its row in the iteration. *)
Charged ==
    /\ miss_count \in Nat
    /\ Stride(experiment) * miss_count = access_count + Cardinality(Pending)

LEMMA PendingStep ==
    ASSUME LoopInv, LoopInv', Hard(experiment), NEW e \in todo, Steps(e)
    PROVE  LET q0 == Row(experiment, e)
           IN  /\ IsFiniteSet(Pending)
               /\ q0 \in Touched => Pending' = Pending \ {e} /\ e \in Pending
               /\ q0 \notin Touched /\ experiment.sum # "sumC" => Pending' = Pending
               /\ q0 \notin Touched /\ experiment.sum = "sumC" =>
                     \E f : f \notin Pending /\ Pending' = Pending \cup {f}
  <1> DEFINE x == experiment
             q0 == Row(x, e)
  <1>1. /\ x \in Experiments /\ ~Over(x, i, j) /\ Inside(x, i, j) /\ x' = x
        /\ x.rows \in Nat /\ x.sum # "sumA" /\ i \in Nat
        /\ todo \subseteq Elements(x, i, j)
    BY NotOver, ExperimentFacts DEF LoopInv, Steps, Hard
  <1>2. IsFiniteSet(Pending)
    <2>1. Pending \subseteq Elems(x)
      BY <1>1, RowsOfIteration DEF Pending
    <2>2. x.rows * x.cols \in Nat
      BY <1>1, ExperimentFacts
    <2>3. IsFiniteSet(Elems(x))
      BY <2>2, FirstMany DEF Elems
    <2> QED BY <2>1, <2>3, FS_Subset
  <1>3. ASSUME todo # {e}
        PROVE  Pending' = {f \in todo \ {e} : Row(x, f) \in Touched \cup {q0}}
    <2>1. todo' = todo \ {e} /\ i' = i /\ j' = j
      BY <1>3 DEF Steps
    <2>2. ~Over(x, i, j)'
      BY <1>1, <2>1
    <2>3. Touched' = Touched \cup {q0}
      BY <1>1, <1>3, <2>2, TouchedStep
    <2> QED BY <1>1, <2>1, <2>3 DEF Pending
  <1>4. ASSUME todo = {e} PROVE Pending' = {}
    <2>1. CASE Over(x, i, j)'
      <3>1. todo' = {}
        BY <2>1 DEF LoopInv
      <3> QED BY <3>1 DEF Pending
    <2>2. CASE ~Over(x, i, j)'
      <3>1. /\ Inside(x, i', j') /\ todo' \subseteq Elements(x, i', j')
            /\ i' \in Nat
        BY <1>1, <2>2 DEF LoopInv
      <3>2. \A f \in todo' : Row(x, f) \in i' .. i' + Stride(x) - 1
        BY <1>1, <3>1, RowsOfIteration
      <3>3. \A q \in Touched' : q < i'
        BY <1>1, <1>4, <2>2, TouchedStep
      <3>4. \A f \in todo' : ~(Row(x, f) < i')
        BY <3>1, <3>2
      <3> QED BY <1>1, <3>3, <3>4 DEF Pending
    <2> QED BY <2>1, <2>2
  <1>5. CASE q0 \in Touched
    <2>1. e \in Pending
      BY <1>5 DEF Pending
    <2>2. Pending' = Pending \ {e}
      <3>1. CASE todo # {e}
        BY <1>3, <1>5, <3>1 DEF Pending
      <3>2. CASE todo = {e}
        BY <1>4, <3>2 DEF Pending
      <3> QED BY <3>1, <3>2
    <2> QED BY <1>2, <1>5, <2>1, <2>2
  <1>6. CASE q0 \notin Touched /\ x.sum # "sumC"
    <2>1. \E d : Elements(x, i, j) = {d}
      BY <1>6 DEF Elements
    <2>2. todo = {e}
      BY <1>1, <2>1
    <2>3. Pending = {}
      BY <1>6, <2>2 DEF Pending
    <2> QED BY <1>2, <1>4, <1>6, <2>2, <2>3
  <1>7. CASE q0 \notin Touched /\ x.sum = "sumC"
    <2>1. e \in Elements(x, i, j)
      BY <1>1
    <2>2. PICK f \in Elements(x, i, j) :
             /\ f # e /\ Row(x, f) = q0
             /\ \A d \in Elements(x, i, j) : Row(x, d) = q0 => d \in {e, f}
      BY <1>1, <1>7, <2>1, TwoOfRow
    <2>3. f \in todo
      <3>1. q0 \in 0 .. x.rows - 1
        BY <1>1, <2>1, RowsOfIteration, PlaceOf
      <3> QED BY <1>7, <2>2, <3>1 DEF Touched
    <2>4. Pending' = {d \in todo \ {e} : Row(x, d) \in Touched \cup {q0}}
      BY <1>3, <2>2, <2>3
    <2>5. f \notin Pending
      BY <1>7, <2>2 DEF Pending
    <2>6. Pending' = Pending \cup {f}
      BY <1>1, <1>7, <2>2, <2>3, <2>4 DEF Pending
    <2> QED BY <1>2, <1>7, <2>5, <2>6
  <1> QED BY <1>5, <1>6, <1>7

LEMMA ChargedStep ==
    ASSUME LoopInv, LoopInv', Hard(experiment), NEW e \in todo, Steps(e), Charged,
           access_count \in Nat, access_count' = access_count + 1,
           miss_count' = IF Row(experiment, e) \in Touched THEN miss_count
                         ELSE miss_count + 1
    PROVE  Charged'
  <1> DEFINE x == experiment
             q0 == Row(x, e)
             d == Stride(x)
             n == Cardinality(Pending)
  <1>1. d = (IF x.sum = "sumC" THEN 2 ELSE 1) /\ Stride(x)' = d
    <2>1. x \in Experiments /\ x' = x
      BY DEF LoopInv, Steps
    <2> QED BY <2>1, ExperimentFacts
  <1>2. /\ IsFiniteSet(Pending)
        /\ q0 \in Touched => Pending' = Pending \ {e} /\ e \in Pending
        /\ q0 \notin Touched /\ x.sum # "sumC" => Pending' = Pending
        /\ q0 \notin Touched /\ x.sum = "sumC" =>
              \E f : f \notin Pending /\ Pending' = Pending \cup {f}
    BY PendingStep
  <1>3. n \in Nat
    BY <1>2, FS_CardinalityType
  <1>4. miss_count \in Nat /\ d * miss_count = access_count + n
    BY DEF Charged
  <1>5. Cardinality(Pending') = IF q0 \in Touched THEN n - 1
                                ELSE IF x.sum = "sumC" THEN n + 1 ELSE n
    <2>1. CASE q0 \in Touched
      <3>1. Cardinality(Pending \ {e}) = Cardinality(Pending) - 1
        BY <1>2, <2>1, FS_RemoveElement
      <3> QED BY <1>2, <2>1, <3>1
    <2>2. CASE q0 \notin Touched /\ x.sum # "sumC"
      BY <1>2, <2>2
    <2>3. CASE q0 \notin Touched /\ x.sum = "sumC"
      <3>1. PICK f : f \notin Pending /\ Pending' = Pending \cup {f}
        BY <1>2, <2>3
      <3>2. Cardinality(Pending \cup {f}) = Cardinality(Pending) + 1
        BY <1>2, <3>1, FS_AddElement
      <3> QED BY <2>3, <3>1, <3>2
    <2> QED BY <2>1, <2>2, <2>3
  <1> HIDE DEF n, d
  <1>6. miss_count' \in Nat /\ d * miss_count' = access_count' + Cardinality(Pending')
    <2>1. CASE q0 \in Touched
      BY <1>3, <1>4, <1>5, <2>1
    <2>2. CASE q0 \notin Touched /\ x.sum # "sumC"
      BY <1>1, <1>3, <1>4, <1>5, <2>2
    <2>3. CASE q0 \notin Touched /\ x.sum = "sumC"
      BY <1>1, <1>3, <1>4, <1>5, <2>3
    <2> QED BY <2>1, <2>2, <2>3
  <1> QED BY <1>1, <1>6 DEF Charged

----
(* The three cases of README.txt's analysis, and the invariant of each.     *)
ByRows(x) == Blocked(x) /\ x.sum = "sumA" /\ x.rate = <<1, LongsPerBlock(x)>>
Easy(x) ==
    Aligned(x) /\ x.sum = "sumB" /\ Lru(x) /\ Roomy(x) /\ x.rate = <<1, LongsPerBlock(x)>>
Worst(x) == Hard(x) /\ x.rate = <<1, Stride(x)>>

RateInv(A) ==
    /\ TestInv /\ Recent(A)
    /\ \/ ByRows(experiment) /\ Fewest /\ Found
       \/ Easy(experiment) /\ Fewest /\ Ordered(A)
       \/ Worst(experiment) /\ InTurn(A) /\ Hot /\ Charged

LEMMA AnalysedCases ==
    ASSUME NEW x \in Experiments, Analysed(x)
    PROVE  ByRows(x) \/ Easy(x) \/ Worst(x)
  <1>1. Blocked(x)
    BY DEF Analysed, Blocked
  <1>2. Stride(x) = IF x.sum = "sumC" THEN 2 ELSE 1
    BY DEF Stride
  <1>3. CASE x.sum = "sumA"
    BY <1>1, <1>3 DEF Analysed, ByRows
  <1>4. CASE x.sum = "sumB"
    BY <1>1, <1>2, <1>4 DEF Analysed, Easy, Worst, Hard, Aligned, Apart
  <1>5. CASE x.sum = "sumC"
    BY <1>1, <1>2, <1>5 DEF Analysed, Worst, Hard, Aligned, Apart
  <1> QED BY <1>3, <1>4, <1>5, ExperimentFacts

LEMMA RateStarts ==
    ASSUME TestInit, Analysed(experiment)
    PROVE  \E A : RateInv(A)
  <1> DEFINE x == experiment
             none == [s \in DOMAIN sets |-> {}]
  <1>1. /\ TestInv /\ Visited = {} /\ SetsInv(none, none)
        /\ x \in Experiments /\ LoopInv
    BY TestStarts DEF TestInv, LoopInv
  <1>2. BlocksRead = {}
    BY <1>1 DEF BlocksRead
  <1>3. Known(none)
    BY <1>2 DEF Known
  <1>4. PICK A : A = After(none)
    OBVIOUS
  <1>5. Recent(A) /\ A = {}
    <2>1. Recent(A)
      <3> HIDE DEF none
      <3> QED BY <1>1, <1>3, <1>4 DEF Recent
    <2>2. A = {}
      BY <1>2, <1>4 DEF After
    <2> QED BY <2>1, <2>2
  <1>6. miss_count = 0 /\ access_count = 0 /\ i = 0 /\ j = 0 /\ todo = Elements(x, i, j)
    BY DEF TestInit, CacheInit
  <1>7. Fewest /\ Found
    BY <1>2, <1>6, FS_EmptySet DEF Fewest, Found
  <1>8. Ordered(A) /\ InTurn(A)
    <2>1. \A p : p \notin A
      BY <1>5
    <2>2. Ordered(A)
      BY <2>1 DEF Ordered
    <2>3. InTurn(A)
      BY <2>1 DEF InTurn
    <2> QED BY <2>2, <2>3
  <1>9. Touched = {}
    <2>1. x.rows \in Nat
      BY <1>1, ExperimentFacts
    <2> QED BY <1>6, <2>1 DEF Touched
  <1>10. Hot /\ Pending = {}
    BY <1>9 DEF Hot, Pending
  <1>11. Charged
    <2>1. Stride(x) \in {1, 2}
      BY DEF Stride
    <2> QED BY <1>6, <1>10, <2>1, FS_EmptySet DEF Charged
  <1> QED BY <1>1, <1>5, <1>7, <1>8, <1>10, <1>11, AnalysedCases DEF RateInv

LEMMA RateStep ==
    ASSUME NEW A, RateInv(A), NEW e \in todo, Read(e)
    PROVE  \E A2 : RateInv(A2)'
  <1> DEFINE x == experiment
             q0 == Row(x, e)
  <1>1. PICK m : m = BlockOf(x, e)
    OBVIOUS
  <1>2. TestInv /\ Recent(A) /\ LoopInv /\ x \in Experiments /\ Blocked(x)
    BY DEF RateInv, TestInv, LoopInv, ByRows, Easy, Worst, Hard, Aligned
  <1>3. /\ TestInv' /\ Steps(e) /\ e \in Elems(x) /\ m \in Nat
        /\ BlocksRead' = BlocksRead \cup {m}
        /\ Cached(m)'
        /\ \A n \in Nat : SetFor(n) # SetFor(m) /\ Cached(n) => Cached(n)'
        /\ m \notin BlocksRead => ~Cached(m)
        /\ miss_count' = IF Cached(m) THEN miss_count ELSE miss_count + 1
        /\ access_count' = access_count + 1
        /\ \E A2 : A2 = Newest(m, A) /\ Recent(A2)'
    BY <1>1, <1>2, BlockRead
  <1>4. PICK A2 : A2 = Newest(m, A) /\ Recent(A2)'
    BY <1>3
  <1>5. LoopInv' /\ x' = x
    BY <1>3 DEF TestInv, Steps
  <1>6. A2 \subseteq BlocksRead' \X BlocksRead'
    BY <1>4 DEF Recent, After
  <1>7. /\ ByRows(x)' <=> ByRows(x)
        /\ Easy(x)' <=> Easy(x)
        /\ Worst(x)' <=> Worst(x)
    BY <1>5 DEF ByRows, Easy, Worst, Hard, Aligned, Blocked, Lru, Roomy, Crowded, Apart,
                Sharing, IndexOfRow, LongsPerBlock, Stride, Index, And, Shift
  <1>8. CASE ByRows(x) /\ Fewest /\ Found
    <2>1. Fewest'
      BY <1>2, <1>8, FewestStep
    <2>2. Found'
      BY <1>2, <1>8, FoundByRows DEF ByRows
    <2> QED BY <1>3, <1>4, <1>7, <1>8, <2>1, <2>2 DEF RateInv
  <1>9. CASE Easy(x) /\ Fewest /\ Ordered(A)
    <2>1. Aligned(x) /\ x.sum # "sumA" /\ Lru(x) /\ Roomy(x)
      BY <1>9 DEF Easy
    <2>2. Found
      BY <1>2, <1>9, <2>1, FoundByColumns
    <2>3. Fewest'
      BY <1>2, <1>9, <2>2, FewestStep
    <2>4. Ordered(A2)'
      BY <1>1, <1>2, <1>3, <1>4, <1>6, <1>9, <2>1, OrderedStep
    <2> QED BY <1>3, <1>4, <1>7, <1>9, <2>3, <2>4 DEF RateInv
  <1>10. CASE Worst(x) /\ InTurn(A) /\ Hot /\ Charged
    <2>1. Hard(x) /\ Aligned(x)
      BY <1>10 DEF Worst, Hard
    <2>2. ~Over(x, i, j) /\ Group \in 0 .. BlocksPerRow(x) - 1 /\ m = BlockAt(x, q0, Group)
          /\ q0 \in i .. i + Stride(x) - 1
      BY <1>1, <1>2, <2>1, NextBlock, NotOver
    <2>3. Cached(m) <=> q0 \in Touched
      <3>1. CASE q0 \in Touched
        <4>1. i \in Nat /\ Stride(x) \in {1, 2}
          BY <1>2, ExperimentFacts DEF LoopInv
        <4>2. q0 >= i
          BY <2>2, <4>1
        <4> QED BY <1>10, <2>2, <3>1, <4>2 DEF Hot
      <3>2. CASE q0 \notin Touched
        <4>1. CASE m \in BlocksRead
          BY <1>1, <1>2, <1>10, <2>1, <3>2, <4>1, FirstMisses
        <4>2. CASE m \notin BlocksRead
          BY <1>3, <3>2, <4>2
        <4> QED BY <3>2, <4>1, <4>2
      <3> QED BY <3>1, <3>2
    <2>4. InTurn(A2)'
      BY <1>1, <1>2, <1>3, <1>4, <1>5, <1>10, <2>1, InTurnStep
    <2>5. Hot'
      BY <1>1, <1>2, <1>3, <1>10, <2>1, HotStep
    <2>6. access_count \in Nat
      BY <1>2, VisitedElems, FS_CardinalityType DEF TestInv, SumInv
    <2>7. Charged'
      BY <1>2, <1>3, <1>5, <1>10, <2>1, <2>3, <2>6, ChargedStep
    <2> QED BY <1>3, <1>4, <1>7, <1>10, <2>4, <2>5, <2>7 DEF RateInv
  <1> QED BY <1>8, <1>9, <1>10 DEF RateInv

LEMMA RateWaits ==
    ASSUME NEW A, RateInv(A), UNCHANGED tvars
    PROVE  RateInv(A)'
  <1>1. /\ experiment' = experiment /\ i' = i /\ j' = j /\ todo' = todo /\ sets' = sets
        /\ miss_count' = miss_count /\ access_count' = access_count
    BY DEF tvars, vars
  <1>2. TestInv' /\ Visited' = Visited
    BY TestWaits DEF RateInv
  <1>3. BlocksRead' = BlocksRead /\ Group' = Group /\ Touched' = Touched /\ Pending' = Pending
    BY <1>1, <1>2 DEF BlocksRead, Group, Touched, Pending
  <1>4. \A n : SetFor(n)' = SetFor(n) /\ TagFor(n)' = TagFor(n)
    BY <1>1 DEF SetFor, TagFor
  <1>5. \A n : Cached(n)' <=> Cached(n)
    BY <1>1, <1>4 DEF Cached
  <1>6. Recent(A)'
    <2>1. PICK S, N : SetsInv(S, N) /\ Known(S) /\ A = After(N)
      BY DEF RateInv, Recent
    <2>2. SetsInv(S, N)'
      BY <2>1, TestWaits
    <2>3. Known(S)'
      BY <1>1, <1>3, <1>4, <2>1 DEF Known
    <2>4. After(N)' = After(N)
      BY <1>3, <1>4 DEF After
    <2> QED BY <2>1, <2>2, <2>3, <2>4 DEF Recent
  <1>7. (Fewest => Fewest') /\ (Charged => Charged')
    BY <1>1, <1>3 DEF Fewest, Charged
  <1>8. Found => Found'
    BY <1>1, <1>3, <1>5 DEF Found
  <1>9. (Ordered(A) => Ordered(A)') /\ (InTurn(A) => InTurn(A)')
    BY <1>1, <1>3, <1>4 DEF Ordered, InTurn
  <1>10. Hot => Hot'
    BY <1>1, <1>3, <1>5 DEF Hot
  <1> QED BY <1>1, <1>2, <1>6, <1>7, <1>8, <1>9, <1>10 DEF RateInv

(* README.txt's miss rates follow from the reasons it gives for them, for   *)
(* every size of the array and of the cache: when more rows share each set  *)
(* than it has lines the columns of sumB miss always and those of sumC half *)
(* the time, and otherwise one long of each block is missed.                *)
THEOREM CacheTestRates ==
    ASSUME \A x \in Experiments : Analysed(x)
    PROVE  TestSpec => []MissRateAsPredicted
  <1> DEFINE Inv == \E A : RateInv(A)
  <1>1. TestInit => Inv
    <2> SUFFICES ASSUME TestInit PROVE Inv
      OBVIOUS
    <2>1. Analysed(experiment)
      BY DEF TestInit
    <2> QED BY <2>1, RateStarts
  <1>2. Inv /\ [TestNext]_tvars => Inv'
    <2> SUFFICES ASSUME NEW A, RateInv(A), [TestNext]_tvars PROVE \E A2 : RateInv(A2)'
      OBVIOUS
    <2>1. CASE TestNext
      <3>1. PICK e \in todo : Read(e)
        BY <2>1 DEF TestNext
      <3> QED BY <3>1, RateStep
    <2>2. CASE UNCHANGED tvars
      BY <2>2, RateWaits
    <2> QED BY <2>1, <2>2
  <1>3. Inv => MissRateAsPredicted
    <2> DEFINE x == experiment
    <2> SUFFICES ASSUME NEW A, RateInv(A), Done
                 PROVE  miss_count * x.rate[2] = access_count * x.rate[1]
      BY DEF MissRateAsPredicted
    <2>1. TestInv /\ LoopInv /\ access_count \in Nat
      BY VisitedElems, FS_CardinalityType DEF RateInv, TestInv, SumInv
    <2>2. CASE (ByRows(x) \/ Easy(x)) /\ Fewest
      <3>1. Blocked(x) /\ x.rate = <<1, LongsPerBlock(x)>>
        BY <2>2 DEF ByRows, Easy, Aligned
      <3>2. miss_count * LongsPerBlock(x) = access_count
        BY <2>1, <2>2, <3>1, FewestEnds
      <3> QED BY <2>1, <3>1, <3>2
    <2>3. CASE Worst(x) /\ Charged
      <3>1. x.rate = <<1, Stride(x)>> /\ Stride(x) \in {1, 2}
        BY <2>3 DEF Worst, Stride
      <3>2. Pending = {}
        BY DEF Done, Pending
      <3>3. miss_count \in Nat /\ Stride(x) * miss_count = access_count + 0
        BY <2>3, <3>2, FS_EmptySet DEF Charged
      <3>4. miss_count * Stride(x) = access_count
        BY <2>1, <3>1, <3>3
      <3> QED BY <2>1, <3>1, <3>4
    <2> QED BY <2>2, <2>3 DEF RateInv
  <1> HIDE DEF Inv
  <1> QED BY <1>1, <1>2, <1>3, PTL DEF TestSpec
====
