---- MODULE NatLemmas ----
(***************************************************************************)
(* Induction over the numbers, for sets instead of operators, and what it  *)
(* gives: a function that is defined by recursion over the numbers exists, *)
(* and so the recursive sums of the models are what they say.  At the end, *)
(* quotients and remainders by a divisor that is not a constant.           *)
(***************************************************************************)
EXTENDS Integers, NaturalsInduction, WellFoundedInduction, FiniteSetTheorems, TLAPS

(* A set of numbers that is not empty has a least member. *)
LEMMA NatLeast ==
    ASSUME NEW T \in SUBSET Nat, T # {}
    PROVE  \E n \in T : \A m \in T : n <= m
  <1>1. IsWellFoundedOn(OpToRel(<, Nat), Nat)
    BY NatLessThanWellFounded
  <1>2. PICK n \in T : \A m \in T : ~(<<m, n>> \in OpToRel(<, Nat))
    BY <1>1, WFMin
  <1>3. \A m \in T : ~(m < n)
    BY <1>2 DEF OpToRel
  <1> QED BY <1>3

(* A set that holds 0, and with a number the next, holds all numbers.      *)
LEMMA SetInduction ==
    ASSUME NEW S, 0 \in S, \A n \in Nat : n \in S => n + 1 \in S
    PROVE  Nat \subseteq S
  <1>1. SUFFICES ASSUME Nat \ S # {} PROVE FALSE
    OBVIOUS
  <1>2. PICK n \in Nat \ S : \A m \in Nat \ S : n <= m
    BY <1>1, NatLeast
  <1>3. n # 0 /\ n - 1 \in Nat /\ n - 1 \notin Nat \ S
    BY <1>2
  <1>4. n - 1 + 1 \in S
    BY <1>3
  <1> QED BY <1>2, <1>4

(* A set that holds 0 and 1, and with half of a number the number. *)
LEMMA HalfInduction ==
    ASSUME NEW S, 0 \in S, 1 \in S,
           \A n \in Nat : n > 1 /\ n \div 2 \in S => n \in S
    PROVE  Nat \subseteq S
  <1>1. SUFFICES ASSUME Nat \ S # {} PROVE FALSE
    OBVIOUS
  <1>2. PICK n \in Nat \ S : \A m \in Nat \ S : n <= m
    BY <1>1, NatLeast
  <1>3. n > 1
    BY <1>2
  <1>4. n \div 2 \in Nat /\ n \div 2 < n
    BY <1>3
  <1> QED BY <1>2, <1>3, <1>4

----
(* The sums of the first cells of f, of which there are n. *)
Sums(f, n) ==
    LET sum[k \in 0 .. n] == IF k = 0 THEN 0 ELSE sum[k - 1] + f[k - 1]
    IN  sum

Adds(f, s, n) == s[0] = 0 /\ \A k \in 0 .. n - 1 : s[k + 1] = s[k] + f[k]

LEMMA SumsExist ==
    ASSUME NEW n \in Nat, NEW f, \A k \in 0 .. n - 1 : f[k] \in Int
    PROVE  \E s \in [0 .. n -> Int] : Adds(f, s, n)
  <1> DEFINE S == {m \in Nat : m <= n => \E s \in [0 .. m -> Int] : Adds(f, s, m)}
  <1>1. 0 \in S
    <2>1. [k \in 0 .. 0 |-> 0] \in [0 .. 0 -> Int] /\ Adds(f, [k \in 0 .. 0 |-> 0], 0)
      BY DEF Adds
    <2> QED BY <2>1
  <1>2. ASSUME NEW m \in Nat, m \in S, m + 1 <= n
        PROVE  \E s \in [0 .. m + 1 -> Int] : Adds(f, s, m + 1)
    <2>1. PICK s \in [0 .. m -> Int] : Adds(f, s, m)
      BY <1>2
    <2>2. f[m] \in Int
      BY <1>2
    <2> DEFINE t == [k \in 0 .. m + 1 |-> IF k = m + 1 THEN s[m] + f[m] ELSE s[k]]
    <2>3. t \in [0 .. m + 1 -> Int]
      BY <2>2
    <2>4. Adds(f, t, m + 1)
      BY <2>1 DEF Adds
    <2> QED BY <2>3, <2>4
  <1>3. \A m \in Nat : m \in S => m + 1 \in S
    BY <1>2
  <1> HIDE DEF S
  <1>4. n \in S
    BY <1>1, <1>3, SetInduction
  <1> QED BY <1>4 DEF S

(* The recursive definition adds one cell after the other. *)
LEMMA SumsAdd ==
    ASSUME NEW n \in Nat, NEW f, \A k \in 0 .. n - 1 : f[k] \in Int
    PROVE  Sums(f, n) \in [0 .. n -> Int] /\ Adds(f, Sums(f, n), n)
  <1> DEFINE Is(s) == s = [k \in 0 .. n |-> IF k = 0 THEN 0 ELSE s[k - 1] + f[k - 1]]
  <1>1. PICK s \in [0 .. n -> Int] : Adds(f, s, n)
    BY SumsExist
  <1>2. Is(s)
    <2>1. \A k \in 0 .. n : s[k] = IF k = 0 THEN 0 ELSE s[k - 1] + f[k - 1]
      <3> SUFFICES ASSUME NEW k \in 0 .. n, k # 0 PROVE s[k] = s[k - 1] + f[k - 1]
        BY <1>1 DEF Adds
      <3>1. k - 1 \in 0 .. n - 1 /\ k - 1 + 1 = k
        OBVIOUS
      <3> QED BY <1>1, <3>1 DEF Adds
    <2> QED BY <2>1
  <1>3. Sums(f, n) = CHOOSE t : Is(t)
    BY DEF Sums
  <1> HIDE DEF Is
  <1>4. Is(Sums(f, n))
    BY <1>2, <1>3
  <1> DEFINE t == Sums(f, n)
  <1>5. t = [k \in 0 .. n |-> IF k = 0 THEN 0 ELSE t[k - 1] + f[k - 1]]
    BY <1>4 DEF Is
  <1> HIDE DEF t
  <1>6. Adds(f, t, n)
    <2>1. t[0] = 0
      BY <1>5
    <2>2. ASSUME NEW k \in 0 .. n - 1 PROVE t[k + 1] = t[k] + f[k]
      BY <1>5
    <2> QED BY <2>1, <2>2 DEF Adds
  <1>7. \A k \in 0 .. n : t[k] \in Int
    <2> DEFINE S == {k \in Nat : k <= n => t[k] \in Int}
    <2>1. 0 \in S
      BY <1>6 DEF Adds
    <2>2. ASSUME NEW k \in Nat, k \in S, k + 1 <= n PROVE t[k + 1] \in Int
      <3>1. k \in 0 .. n - 1 /\ t[k] \in Int
        BY <2>2
      <3>2. t[k + 1] = t[k] + f[k]
        BY <3>1, <1>6 DEF Adds
      <3>3. f[k] \in Int
        BY <3>1
      <3> QED BY <3>1, <3>2, <3>3
    <2>3. \A k \in Nat : k \in S => k + 1 \in S
      BY <2>2
    <2> HIDE DEF S
    <2>4. Nat \subseteq S
      BY <2>1, <2>3, SetInduction
    <2> QED BY <2>4 DEF S
  <1>8. t \in [0 .. n -> Int]
    BY <1>5, <1>7
  <1> QED BY <1>6, <1>8 DEF t

(* It depends on the cells only. *)
LEMMA SumsSame ==
    ASSUME NEW n \in Nat, NEW f, NEW g,
           \A k \in 0 .. n - 1 : f[k] \in Int /\ g[k] = f[k]
    PROVE  Sums(f, n)[n] = Sums(g, n)[n]
  <1> DEFINE s == Sums(f, n)
             t == Sums(g, n)
  <1>1. Adds(f, s, n) /\ Adds(g, t, n)
    BY SumsAdd
  <1> HIDE DEF s, t
  <1> DEFINE S == {k \in Nat : k <= n => s[k] = t[k]}
  <1>2. 0 \in S
    BY <1>1 DEF Adds
  <1>3. \A k \in Nat : k \in S => k + 1 \in S
    BY <1>1 DEF Adds
  <1> HIDE DEF S
  <1>4. Nat \subseteq S
    BY <1>2, <1>3, SetInduction
  <1> QED BY <1>4 DEF S, s, t

----
(* A product grows with its factor. *)
LEMMA Times ==
    ASSUME NEW n \in Nat, NEW a \in Int, NEW b \in Int, a <= b
    PROVE  n * a <= n * b
  OBVIOUS

(* Quotient and remainder, ... *)
LEMMA Divided ==
    ASSUME NEW n \in Nat \ {0}, NEW k \in Nat
    PROVE  /\ k \div n \in Nat /\ k % n \in 0 .. n - 1
           /\ k = n * (k \div n) + (k % n)
  OBVIOUS

(* ... for any number, ... *)
LEMMA DividedInt ==
    ASSUME NEW n \in Nat \ {0}, NEW k \in Int
    PROVE  /\ k \div n \in Int /\ k % n \in 0 .. n - 1
           /\ k = n * (k \div n) + (k % n)
  OBVIOUS

(* ... of which there is one pair only. *)
LEMMA DividedOnce ==
    ASSUME NEW n \in Nat \ {0}, NEW i \in Int, NEW j \in 0 .. n - 1
    PROVE  (n * i + j) \div n = i /\ (n * i + j) % n = j
  <1> DEFINE k == n * i + j
             q == k \div n
             r == k % n
  <1>1. n * i \in Int /\ k \in Int
    OBVIOUS
  <1>2. k = n * i + j
    OBVIOUS
  <1> HIDE DEF k
  <1>3. q \in Int /\ r \in 0 .. n - 1 /\ k = n * q + r
    BY <1>1, DividedInt
  <1> HIDE DEF q, r
  <1>4. n * q \in Int
    BY <1>3
  <1>5. ~(q > i)
    <2> SUFFICES ASSUME q > i PROVE FALSE
      OBVIOUS
    <2>1. n * (i + 1) <= n * q
      BY <1>3, Times
    <2>2. n * (i + 1) = n * i + n
      OBVIOUS
    <2> QED BY <1>1, <1>2, <1>3, <1>4, <2>1, <2>2
  <1>6. ~(q < i)
    <2> SUFFICES ASSUME q < i PROVE FALSE
      OBVIOUS
    <2>1. n * (q + 1) <= n * i
      BY <1>3, Times
    <2>2. n * (q + 1) = n * q + n
      BY <1>3
    <2> QED BY <1>1, <1>2, <1>3, <1>4, <2>1, <2>2
  <1>7. q = i
    BY <1>3, <1>5, <1>6
  <1>8. r = j
    BY <1>1, <1>2, <1>3, <1>7
  <1> QED BY <1>7, <1>8 DEF q, r, k

(* A larger number has no smaller quotient. *)
LEMMA DividedMore ==
    ASSUME NEW n \in Nat \ {0}, NEW a \in Int, NEW b \in Int, a <= b
    PROVE  a \div n <= b \div n
  <1> DEFINE p == a \div n
             q == b \div n
             r == a % n
             s == b % n
  <1>1. p \in Int /\ r \in 0 .. n - 1 /\ a = n * p + r
    BY DividedInt
  <1>2. q \in Int /\ s \in 0 .. n - 1 /\ b = n * q + s
    BY DividedInt
  <1> HIDE DEF p, q, r, s
  <1>3. ASSUME p > q PROVE FALSE
    <2>1. n * (q + 1) <= n * p
      BY <1>1, <1>2, <1>3, Times
    <2>2. n * (q + 1) = n * q + n /\ n * q \in Int /\ n * p \in Int
      BY <1>1, <1>2
    <2> QED BY <1>1, <1>2, <2>1, <2>2
  <1>4. p <= q
    BY <1>1, <1>2, <1>3
  <1> QED BY <1>4 DEF p, q

(* Row i, column j of m rows of n, in a row. *)
LEMMA PlaceBound ==
    ASSUME NEW m \in Nat, NEW n \in Nat, NEW i \in 0 .. m - 1, NEW j \in 0 .. n - 1
    PROVE  i * n + j \in 0 .. m * n - 1
  <1>1. i * n \in Nat /\ i * n = n * i
    OBVIOUS
  <1>2. n * i <= n * (m - 1)
    BY Times
  <1>3. n * (m - 1) = m * n - n /\ m * n \in Int
    OBVIOUS
  <1> QED BY <1>1, <1>2, <1>3

(* One cell that grows makes the sum grow by as much. *)
LEMMA SumsOne ==
    ASSUME NEW n \in Nat, NEW f, NEW g, NEW e \in 0 .. n - 1, NEW w \in Int,
           \A k \in 0 .. n - 1 : f[k] \in Int,
           g[e] = f[e] + w, \A k \in 0 .. n - 1 : k # e => g[k] = f[k]
    PROVE  Sums(g, n)[n] = Sums(f, n)[n] + w
  <1> DEFINE s == Sums(f, n)
             t == Sums(g, n)
  <1>1. \A k \in 0 .. n - 1 : g[k] \in Int
    OBVIOUS
  <1>2. Adds(f, s, n) /\ Adds(g, t, n) /\ s \in [0 .. n -> Int]
    BY <1>1, SumsAdd
  <1> HIDE DEF s, t
  <1> DEFINE S == {k \in Nat : k <= n => t[k] = IF e < k THEN s[k] + w ELSE s[k]}
  <1>3. 0 \in S
    BY <1>2 DEF Adds
  <1>4. ASSUME NEW k \in Nat, k \in S PROVE k + 1 \in S
    <2> SUFFICES ASSUME k + 1 <= n
                 PROVE  t[k + 1] = IF e < k + 1 THEN s[k + 1] + w ELSE s[k + 1]
      OBVIOUS
    <2>1. t[k] = IF e < k THEN s[k] + w ELSE s[k]
      BY <1>4
    <2>2. k \in 0 .. n - 1 /\ t[k + 1] = t[k] + g[k] /\ s[k + 1] = s[k] + f[k]
      BY <1>2 DEF Adds
    <2>3. s[k] \in Int /\ f[k] \in Int /\ g[k] = IF k = e THEN f[k] + w ELSE f[k]
      BY <1>2, <2>2
    <2> QED BY <2>1, <2>2, <2>3
  <1> HIDE DEF S
  <1>5. Nat \subseteq S
    BY <1>3, <1>4, SetInduction
  <1> QED BY <1>5 DEF S, s, t

(* The sum over m rows of n cells is that of the sums of the rows. *)
RowSums(f, row, g, m, n, N) ==
    /\ N = m * n
    /\ \A r \in 0 .. m - 1, c \in 0 .. n - 1 : row[r][c] = f[r * n + c]
    /\ \A r \in 0 .. m - 1 : g[r] = Sums(row[r], n)[n]

LEMMA SumsRows ==
    ASSUME NEW m \in Nat, NEW n \in Nat, NEW N,
           NEW f, \A k \in 0 .. N - 1 : f[k] \in Int,
           NEW row, NEW g, RowSums(f, row, g, m, n, N)
    PROVE  Sums(f, N)[N] = Sums(g, m)[m]
  <1> DEFINE s == Sums(f, N)
             t == Sums(g, m)
             q(r) == Sums(row[r], n)
  <1>1. N \in Nat /\ N = m * n
    BY DEF RowSums
  <1>2. Adds(f, s, N) /\ s \in [0 .. N -> Int]
    BY <1>1, SumsAdd
  <1>3. ASSUME NEW r \in 0 .. m - 1
        PROVE  /\ Adds(row[r], q(r), n) /\ q(r) \in [0 .. n -> Int]
               /\ \A c \in 0 .. n - 1 : r * n + c \in 0 .. N - 1
    <2>1. \A c \in 0 .. n - 1 : r * n + c \in 0 .. N - 1
      BY <1>1, PlaceBound
    <2>2. \A c \in 0 .. n - 1 : row[r][c] \in Int
      BY <2>1 DEF RowSums
    <2> QED BY <2>1, <2>2, SumsAdd
  <1>4. ASSUME NEW r \in 0 .. m - 1 PROVE g[r] \in Int /\ g[r] = q(r)[n]
    <2>1. g[r] = q(r)[n]
      BY DEF RowSums
    <2>2. q(r) \in [0 .. n -> Int]
      BY <1>3
    <2> HIDE DEF q
    <2> QED BY <2>1, <2>2
  <1>5. Adds(g, t, m)
    BY <1>4, SumsAdd
  <1> DEFINE S == {r \in Nat : r <= m => s[r * n] = t[r]}
  <1> HIDE DEF s, t, q
  <1>6. 0 \in S
    <2>1. 0 * n = 0
      OBVIOUS
    <2> QED BY <1>2, <1>5, <2>1 DEF Adds
  <1>7. ASSUME NEW r \in Nat, r \in S, r + 1 <= m PROVE s[(r + 1) * n] = t[r + 1]
    <2> DEFINE b == r * n
               T == {k \in Nat : k <= n => s[b + k] = s[b] + q(r)[k]}
    <2>1. r \in 0 .. m - 1 /\ b \in Nat
      BY <1>7
    <2>13. (r + 1) * n = b + n
      OBVIOUS
    <2>2. s[b] = t[r]
      BY <1>7
    <2>3. /\ Adds(row[r], q(r), n) /\ q(r) \in [0 .. n -> Int]
          /\ \A c \in 0 .. n - 1 : b + c \in 0 .. N - 1
      BY <1>3, <2>1
    <2>4. \A c \in 0 .. n - 1 : row[r][c] = f[b + c]
      BY <2>1 DEF RowSums
    <2> HIDE DEF b
    <2>5. b \in 0 .. N
      <3>1. CASE n = 0
        BY <3>1, <1>1 DEF b
      <3>2. CASE n > 0
        <4>1. b + 0 \in 0 .. N - 1
          BY <3>2, <2>3
        <4> QED BY <4>1, <2>1, <1>1
      <3> QED BY <3>1, <3>2
    <2>6. s[b] \in Int
      BY <1>2, <2>5
    <2>7. 0 \in T
      BY <2>1, <2>3, <2>6 DEF Adds
    <2>8. ASSUME NEW k \in Nat, k \in T, k + 1 <= n
          PROVE  s[b + (k + 1)] = s[b] + q(r)[k + 1]
      <3>1. k \in 0 .. n - 1
        BY <2>8
      <3>2. b + k \in 0 .. N - 1
        BY <2>3, <3>1
      <3>3. b + (k + 1) = (b + k) + 1
        BY <2>1
      <3>4. s[b + k] = s[b] + q(r)[k]
        BY <2>8
      <3>5. s[(b + k) + 1] = s[b + k] + f[b + k] /\ q(r)[k + 1] = q(r)[k] + f[b + k]
        BY <1>2, <2>3, <2>4, <3>1, <3>2 DEF Adds
      <3>6. q(r)[k] \in Int /\ f[b + k] \in Int
        BY <1>1, <2>3, <3>1, <3>2
      <3> QED BY <2>6, <3>3, <3>4, <3>5, <3>6
    <2>9. \A k \in Nat : k \in T => k + 1 \in T
      BY <2>8
    <2> HIDE DEF T
    <2>10. n \in T
      BY <2>7, <2>9, SetInduction
    <2>11. s[b + n] = s[b] + q(r)[n]
      BY <2>10 DEF T
    <2>12. t[r + 1] = t[r] + g[r] /\ g[r] = q(r)[n]
      BY <1>4, <1>5, <2>1 DEF Adds
    <2> QED BY <2>2, <2>11, <2>12, <2>13
  <1>8. ASSUME NEW r \in Nat, r \in S PROVE r + 1 \in S
    <2>1. r + 1 \in Nat
      OBVIOUS
    <2>2. r + 1 <= m => s[(r + 1) * n] = t[r + 1]
      BY <1>7, <1>8
    <2> QED BY <2>1, <2>2, Zenon
  <1> HIDE DEF S
  <1>9. m \in S
    BY <1>6, <1>8, SetInduction
  <1> QED BY <1>1, <1>9 DEF S, s, t

----
(* The powers of two, from the subsets of a set of n. *)
LEMMA TwoTo ==
    ASSUME NEW n \in Nat
    PROVE  2 ^ n \in Nat \ {0} /\ 2 ^ (n + 1) = 2 * 2 ^ n
  <1> DEFINE A == SUBSET (1 .. n)
             C == SUBSET (1 .. n + 1)
             B == {X \cup {n + 1} : X \in A}
  <1>1. IsFiniteSet(1 .. n) /\ Cardinality(1 .. n) = n
        /\ IsFiniteSet(1 .. n + 1) /\ Cardinality(1 .. n + 1) = n + 1
    <2>1. n + 1 \in Nat
      OBVIOUS
    <2> QED BY <2>1, FS_Interval
  <1>2. IsFiniteSet(A) /\ Cardinality(A) = 2 ^ n /\ Cardinality(C) = 2 ^ (n + 1)
    BY <1>1, FS_SUBSET
  <1>3. 2 ^ n \in Nat
    BY <1>2, FS_CardinalityType
  <1>4. C = A \cup B
    <2>1. 1 .. n + 1 = (1 .. n) \cup {n + 1} /\ n + 1 \notin 1 .. n
      OBVIOUS
    <2>2. ASSUME NEW X \in C PROVE X \in A \cup B
      <3>1. CASE n + 1 \in X
        <4> DEFINE Y == X \ {n + 1}
        <4>1. Y \in A
          BY <2>1, <2>2
        <4>2. X = Y \cup {n + 1}
          BY <3>1
        <4> QED BY <4>1, <4>2
      <3>2. CASE n + 1 \notin X
        BY <2>1, <2>2, <3>2
      <3> QED BY <3>1, <3>2
    <2>3. A \subseteq C /\ B \subseteq C
      BY <2>1
    <2> QED BY <2>2, <2>3
  <1>5. A \cap B = {}
    OBVIOUS
  <1>6. IsFiniteSet(B) /\ Cardinality(B) = Cardinality(A)
    <2> DEFINE f == [X \in A |-> X \cup {n + 1}]
    <2>1. n + 1 \notin 1 .. n
      OBVIOUS
    <2>2. f \in [A -> B]
      OBVIOUS
    <2>6. ASSUME NEW Y \in B PROVE \E X \in A : f[X] = Y
      <3>1. PICK X \in A : Y = X \cup {n + 1}
        OBVIOUS
      <3> QED BY <3>1
    <2>3. ASSUME NEW X \in A, NEW Y \in A, f[X] = f[Y] PROVE X = Y
      <3>1. X \cup {n + 1} = Y \cup {n + 1} /\ n + 1 \notin X /\ n + 1 \notin Y
        BY <2>1, <2>3
      <3> QED BY <3>1
    <2> HIDE DEF f, A, B
    <2>4. f \in Bijection(A, B)
      <3>1. f \in Injection(A, B)
        BY <2>2, <2>3 DEF Injection, IsInjective
      <3>2. f \in Surjection(A, B)
        BY <2>2, <2>6 DEF Surjection
      <3> QED BY <3>1, <3>2 DEF Bijection
    <2>5. ExistsBijection(A, B)
      BY <2>4 DEF ExistsBijection
    <2> QED BY <1>2, <2>5, FS_Bijection
  <1> HIDE DEF A, B, C
  <1>7. Cardinality(C) = Cardinality(A) + Cardinality(B)
    <2>1. Cardinality(A \cap B) = 0 /\ Cardinality(A) \in Nat
      BY <1>2, <1>3, <1>5, FS_EmptySet
    <2>2. Cardinality(A \cup B) = Cardinality(A) + Cardinality(B) - Cardinality(A \cap B)
      BY <1>2, <1>6, FS_Union
    <2> QED BY <1>4, <1>6, <2>1, <2>2
  <1>8. 2 ^ n # 0
    <2>1. A # {}
      BY DEF A
    <2> QED BY <1>2, <2>1, FS_EmptySet
  <1> QED BY <1>2, <1>3, <1>6, <1>7, <1>8

LEMMA TwoToZero == 2 ^ 0 = 1
  OBVIOUS

LEMMA TwoToSum ==
    ASSUME NEW m \in Nat, NEW n \in Nat
    PROVE  2 ^ (m + n) = 2 ^ m * 2 ^ n
  <1> DEFINE S == {k \in Nat : 2 ^ (m + k) = 2 ^ m * 2 ^ k}
  <1>1. 0 \in S
    <2>1. 2 ^ m \in Nat /\ m + 0 = m
      BY TwoTo
    <2> QED BY <2>1, TwoToZero
  <1>2. ASSUME NEW k \in Nat, k \in S PROVE k + 1 \in S
    <2>1. 2 ^ (m + k) = 2 ^ m * 2 ^ k
      BY <1>2
    <2>2. 2 ^ (m + k + 1) = 2 * 2 ^ (m + k) /\ 2 ^ (k + 1) = 2 * 2 ^ k
          /\ 2 ^ m \in Nat /\ 2 ^ k \in Nat
      BY TwoTo
    <2>3. \A x, y \in Nat : 2 * (x * y) = x * (2 * y)
      OBVIOUS
    <2>4. 2 ^ (m + k + 1) = 2 ^ m * 2 ^ (k + 1)
      BY <2>1, <2>2, <2>3
    <2>5. m + k + 1 = m + (k + 1)
      OBVIOUS
    <2> QED BY <2>4, <2>5
  <1> HIDE DEF S
  <1>3. n \in S
    BY <1>1, <1>2, SetInduction
  <1> QED BY <1>3 DEF S

(* A power is no smaller than one before it. *)
LEMMA TwoToMore ==
    ASSUME NEW m \in Nat, NEW n \in Nat, m <= n
    PROVE  2 ^ m <= 2 ^ n
  <1> DEFINE d == n - m
  <1>1. d \in Nat /\ m + d = n
    OBVIOUS
  <1> HIDE DEF d
  <1>2. 2 ^ n = 2 ^ m * 2 ^ d
    BY <1>1, TwoToSum
  <1>3. 2 ^ m \in Nat /\ 2 ^ d \in Nat \ {0}
    BY <1>1, TwoTo
  <1>4. \A x \in Nat, y \in Nat \ {0} : x <= x * y
    OBVIOUS
  <1> QED BY <1>2, <1>3, <1>4

LEMMA TwoToBeyond ==
    ASSUME NEW n \in Nat
    PROVE  n < 2 ^ n
  <1> DEFINE S == {k \in Nat : k < 2 ^ k}
  <1>1. 0 \in S
    BY TwoToZero
  <1>2. ASSUME NEW k \in Nat, k \in S PROVE k + 1 \in S
    <2>1. 2 ^ (k + 1) = 2 * 2 ^ k /\ 2 ^ k \in Nat /\ k < 2 ^ k
      BY <1>2, TwoTo
    <2> QED BY <2>1
  <1> HIDE DEF S
  <1>3. n \in S
    BY <1>1, <1>2, SetInduction
  <1> QED BY <1>3 DEF S

(* A number lies between two powers ... *)
LEMMA Bits ==
    ASSUME NEW v \in Nat \ {0}
    PROVE  \E k \in Nat : 2 ^ k <= v /\ v < 2 ^ (k + 1)
  <1> DEFINE T == {k \in Nat : v < 2 ^ (k + 1)}
  <1>1. v \in T
    <2>1. v < 2 ^ v /\ 2 ^ (v + 1) = 2 * 2 ^ v /\ 2 ^ v \in Nat
      BY TwoToBeyond, TwoTo
    <2> QED BY <2>1
  <1>2. PICK k \in T : \A m \in T : k <= m
    <2> HIDE DEF T
    <2>1. T # {} /\ T \in SUBSET Nat
      BY <1>1 DEF T
    <2> QED BY <2>1, NatLeast
  <1>3. 2 ^ k <= v
    <2>1. CASE k = 0
      BY <2>1, TwoToZero
    <2>2. CASE k # 0
      <3>1. k - 1 \in Nat /\ k - 1 \notin T /\ k - 1 + 1 = k
        BY <1>2, <2>2
      <3>2. 2 ^ k \in Nat
        BY TwoTo
      <3> QED BY <3>1, <3>2
    <2> QED BY <2>1, <2>2
  <1> QED BY <1>3

(* ... and only there. *)
LEMMA BitsOnce ==
    ASSUME NEW v \in Nat, NEW k \in Nat, NEW m \in Nat,
           2 ^ k <= v, v < 2 ^ (k + 1), 2 ^ m <= v, v < 2 ^ (m + 1)
    PROVE  k = m
  <1>1. 2 ^ k \in Nat /\ 2 ^ m \in Nat /\ 2 ^ (k + 1) \in Nat /\ 2 ^ (m + 1) \in Nat
    BY TwoTo
  <1>2. ASSUME k < m PROVE FALSE
    <2>1. 2 ^ (k + 1) <= 2 ^ m
      BY <1>2, TwoToMore
    <2> QED BY <1>1, <2>1
  <1>3. ASSUME m < k PROVE FALSE
    <2>1. 2 ^ (m + 1) <= 2 ^ k
      BY <1>3, TwoToMore
    <2> QED BY <1>1, <2>1
  <1> QED BY <1>2, <1>3

(* Dividing twice divides by the product. *)
LEMMA DividedTwice ==
    ASSUME NEW a \in Int, NEW m \in Nat \ {0}, NEW n \in Nat \ {0}
    PROVE  (a \div m) \div n = a \div (m * n)
  <1> DEFINE q == a \div m
             r == a % m
             p == q \div n
             s == q % n
  <1>1. q \in Int /\ r \in 0 .. m - 1 /\ a = m * q + r
    BY DividedInt
  <1> HIDE DEF q, r
  <1>2. p \in Int /\ s \in 0 .. n - 1 /\ q = n * p + s
    BY <1>1, DividedInt
  <1> HIDE DEF p, s
  <1>3. m * s + r \in 0 .. m * n - 1
    <2>1. s * m + r \in 0 .. n * m - 1
      BY <1>1, <1>2, PlaceBound
    <2>2. s * m = m * s /\ n * m = m * n
      BY <1>2
    <2> QED BY <2>1, <2>2
  <1>4. a = (m * n) * p + (m * s + r)
    <2>1. m * (n * p + s) = (m * n) * p + m * s
      BY <1>2
    <2>2. (m * n) * p \in Int /\ m * s \in Int
      BY <1>2
    <2> QED BY <1>1, <1>2, <2>1, <2>2
  <1>5. m * n \in Nat \ {0} /\ m * s + r \in Int
    BY <1>3
  <1>6. ((m * n) * p + (m * s + r)) \div (m * n) = p
    <2> DEFINE x == m * n
               y == m * s + r
    <2>1. x \in Nat \ {0} /\ y \in 0 .. x - 1 /\ p \in Int
      BY <1>2, <1>3, <1>5
    <2> HIDE DEF x, y
    <2>2. (x * p + y) \div x = p
      BY <2>1, DividedOnce
    <2> QED BY <2>2 DEF x, y
  <1>7. a \div (m * n) = p
    BY <1>4, <1>6, Zenon
  <1> QED BY <1>7 DEF p, q

----
(* A function that is given step by step, and where it starts, exists.     *)
LEMMA StepsExist ==
    ASSUME NEW n \in Nat, NEW a \in Int, NEW step \in [(0 .. n - 1) \X Int -> Int]
    PROVE  \E h \in [0 .. n -> Int] :
              h[0] = a /\ \A k \in 0 .. n - 1 : h[k + 1] = step[<<k, h[k]>>]
  <1> DEFINE Is(h, m) == h[0] = a /\ \A k \in 0 .. m - 1 : h[k + 1] = step[<<k, h[k]>>]
             T == {m \in Nat : m <= n => \E h \in [0 .. m -> Int] : Is(h, m)}
  <1>1. 0 \in T
    <2>1. [k \in 0 .. 0 |-> a] \in [0 .. 0 -> Int] /\ Is([k \in 0 .. 0 |-> a], 0)
      OBVIOUS
    <2> QED BY <2>1
  <1>2. ASSUME NEW m \in Nat, m \in T, m + 1 <= n
        PROVE  \E h \in [0 .. m + 1 -> Int] : Is(h, m + 1)
    <2>1. PICK g \in [0 .. m -> Int] : Is(g, m)
      BY <1>2
    <2> DEFINE next == step[<<m, g[m]>>]
               h == [k \in 0 .. m + 1 |-> IF k = m + 1 THEN next ELSE g[k]]
    <2>2. next \in Int
      <3>1. m \in 0 .. n - 1 /\ g[m] \in Int
        BY <1>2
      <3> QED BY <3>1
    <2> HIDE DEF next
    <2>3. h \in [0 .. m + 1 -> Int]
      BY <2>2
    <2>4. h[0] = a
      BY <2>1
    <2>5. ASSUME NEW k \in 0 .. m + 1 - 1 PROVE h[k + 1] = step[<<k, h[k]>>]
      <3>1. k \in 0 .. m /\ k + 1 \in 0 .. m + 1
        OBVIOUS
      <3>2. h[k] = g[k] /\ h[k + 1] = IF k = m THEN next ELSE g[k + 1]
        BY <3>1
      <3> HIDE DEF h
      <3>3. CASE k = m
        BY <3>2, <3>3 DEF next
      <3>4. CASE k # m
        <4>1. k \in 0 .. m - 1
          BY <3>1, <3>4
        <4> QED BY <2>1, <3>2, <3>4, <4>1
      <3> QED BY <3>3, <3>4
    <2> HIDE DEF h
    <2>6. Is(h, m + 1)
      BY <2>4, <2>5
    <2> HIDE DEF Is
    <2> QED BY <2>3, <2>6
  <1>3. \A m \in Nat : m \in T => m + 1 \in T
    <2> HIDE DEF Is
    <2> QED BY <1>2
  <1> HIDE DEF T
  <1>4. n \in T
    BY <1>1, <1>3, SetInduction
  <1> QED BY <1>4 DEF T
====
