---- MODULE CacheTest ----
(***************************************************************************)
(* The experiments of Cache-Implementation/cache-test.c: a cache is        *)
(* created and the longs of an array are summed through it, by rows (sumA),*)
(* by columns (sumB) or in squares of four (sumC).  README.txt predicts    *)
(* their miss rates.                                                       *)
(***************************************************************************)
EXTENDS Cache, FiniteSets

CONSTANTS Experiments,  \* [sum, rows, cols, args of cache_new, predicted rate]
          MAX_SIZE,     \* of fillArray
          ArrayLength   \* the elements the experiments may read

(* The loops have something to read, and sumC whole squares, of longs below *)
(* 2 ^ 16: its sum is an int.                                               *)
ASSUME ExperimentAssumption ==
    \A x \in Experiments :
        /\ x.sum \in {"sumA", "sumB", "sumC"}
        /\ x.rows \in Nat \ {0} /\ x.cols \in Nat \ {0}
        /\ x.sum = "sumC" =>
              x.rows % 2 = 0 /\ x.cols % 2 = 0 /\ x.rows * x.cols <= 2 ^ 15
        /\ x.args \in Caches
        /\ \A e \in 0 .. x.rows * x.cols - 1 : e * sizeof_long \in Addresses

VARIABLES experiment,
          i, j,         \* the loop variables
          todo,         \* the elements still to be read in this iteration
          sum

tvars == <<vars, experiment, i, j, todo, sum>>

(* fillArray: the long it stores in element e. *)
fillArray(e) == ((e \div MAX_SIZE) + 1) * 256 + (e % MAX_SIZE) + 1

(* The bytes of the first n elements; their longs have two nonzero bytes. *)
ArrayBytes(n) ==
    [b \in 0 .. n * sizeof_long - 1 |->
        LET v == fillArray(b \div sizeof_long)
            k == b % sizeof_long
        IN  IF k = 0 THEN v % 256 ELSE IF k = 1 THEN v \div 256 ELSE 0]

(* fillArray has filled the array, and its longs have no more bytes. *)
ASSUME ArrayAssumption ==
    /\ MAX_SIZE \in Nat \ {0} /\ sizeof_long >= 2
    /\ ArrayLength \in Nat /\ mem = ArrayBytes(ArrayLength)
    /\ \A x \in Experiments : x.rows * x.cols <= ArrayLength

Elements_M(x, r, c) ==  \* sumC without the second column
    IF x.sum = "sumC"
    THEN {r * x.cols + c, (r + 1) * x.cols + c}
    ELSE {r * x.cols + c}

(* The elements one iteration reads.  C leaves the order in which sumC      *)
(* evaluates its four calls of cache_read to the compiler.                  *)
Elements(x, r, c) ==
    IF x.sum = "sumC"
    THEN {r * x.cols + c, (r + 1) * x.cols + c, r * x.cols + c + 1, (r + 1) * x.cols + c + 1}
    ELSE {r * x.cols + c}

Stride(x) == IF x.sum = "sumC" THEN 2 ELSE 1

(* The two loops: the inner variable, then the outer one. *)
Advance(x, r, c) ==
    IF x.sum = "sumA"
    THEN IF c + 1 < x.cols THEN <<r, c + 1>> ELSE <<r + 1, 0>>
    ELSE IF r + Stride(x) < x.rows THEN <<r + Stride(x), c>> ELSE <<0, c + Stride(x)>>

Over(x, r, c) ==
    r >= x.rows \/ c >= x.cols

Done == todo = {}

TestInit ==
    /\ experiment \in Experiments
    /\ cache = Fields(experiment.args)
    /\ CacheInit
    /\ i = 0 /\ j = 0 /\ sum = 0
    /\ todo = Elements(experiment, 0, 0)

(* One call of cache_read, and the loop's increments after the last one.    *)
Read(e) ==
    /\ cache_read(e * sizeof_long)
    /\ sum' = sum + returned'.value
    /\ IF todo # {e}
       THEN todo' = todo \ {e} /\ UNCHANGED <<i, j>>
       ELSE LET next == Advance(experiment, i, j)
            IN  /\ i' = next[1] /\ j' = next[2]
                /\ todo' = IF Over(experiment, i', j') THEN {}
                           ELSE Elements(experiment, i', j')
    /\ UNCHANGED experiment

TestNext == \E e \in todo : Read(e)

TestSpec == TestInit /\ [][TestNext]_tvars

----
(* The sum of the first n cells of f. *)
Total(f, n) ==
    LET sums[k \in 0 .. n] == IF k = 0 THEN 0 ELSE sums[k - 1] + f[k - 1]
    IN  sums[n]

SumOfRow(x, r) == Total([c \in 0 .. x.cols - 1 |-> fillArray(r * x.cols + c)], x.cols)

(* The loops read every element of the array once and no other, whatever    *)
(* the order of evaluation: the sum is that of the array.                   *)
SumOfArray ==
    Done =>
        /\ access_count = experiment.rows * experiment.cols
        /\ sum = Total([r \in 0 .. experiment.rows - 1 |-> SumOfRow(experiment, r)],
                       experiment.rows)

(* README.txt predicts the miss rate of each experiment (items a to e, and  *)
(* g), for every order of evaluation.                                       *)
MissRateAsPredicted ==
    Done => miss_count * experiment.rate[2] = access_count * experiment.rate[1]

(* The reasons README.txt gives, for any sizes.  L longs make a block, and  *)
(* a row is made of blocks: sumA misses the first long of each block; the   *)
(* columns of sumB miss always when more rows share a set than it has lines *)
(* (b, d, e), and like sumA when none does (g); sumC then still finds the   *)
(* second of two longs that lie side by side (c).                           *)
LongsPerBlock(x) == (Fields(x.args).block_offset_mask + 1) \div sizeof_long
IndexOfRow(x, r) == Index(Fields(x.args), r * x.cols * sizeof_long)
Sharing(x, r) == {q \in 0 .. x.rows - 1 : IndexOfRow(x, q) = IndexOfRow(x, r)}

Lru(x) == ReplacementPolicy(x.args.policies) = CACHE_REPLACEMENTPOLICY_LRU
Crowded(x) == \A r \in 0 .. x.rows - 1 : Cardinality(Sharing(x, r)) > x.args.associativity
Roomy(x) == \A r \in 0 .. x.rows - 1 : Cardinality(Sharing(x, r)) <= x.args.associativity

Analysed(x) ==
    LET L == LongsPerBlock(x)
    IN  /\ x.cols % L = 0
        /\ \/ x.sum = "sumA" /\ x.rate = <<1, L>>
           \/ x.sum = "sumB" /\ Lru(x) /\ Roomy(x) /\ x.rate = <<1, L>>
           \/ x.sum = "sumB" /\ Lru(x) /\ Crowded(x) /\ x.rate = <<1, 1>>
           \/ /\ x.sum = "sumC" /\ Lru(x) /\ Crowded(x) /\ x.rate = <<1, 2>>
              /\ L % 2 = 0
              /\ \A r \in 0 .. x.rows - 2 :
                    r % 2 = 0 => IndexOfRow(x, r) # IndexOfRow(x, r + 1)
====
