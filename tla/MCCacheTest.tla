---- MODULE MCCacheTest ----
(* Constants for running the experiments with TLC. *)
EXTENDS CacheTest

LRU == CACHE_REPLACEMENTPOLICY_LRU
Args(blocks, size, ways, policies) ==
    [num_blocks |-> blocks, block_size |-> size, associativity |-> ways,
     policies |-> policies]
Experiment(fun, rows, cols, args, rate) ==
    [sum |-> fun, rows |-> rows, cols |-> cols, args |-> args, rate |-> rate]

(* README.txt a, b, c, d, e, g, at their real sizes. *)
Predicted ==
    {Experiment("sumA", 6, 256, Args(64, 64, 2, LRU), <<1, 8>>),
     Experiment("sumB", 6, 256, Args(64, 64, 1, LRU), <<1, 1>>),
     Experiment("sumC", 6, 256, Args(64, 64, 1, LRU), <<1, 2>>),
     Experiment("sumB", 6, 256, Args(64, 64, 2, LRU), <<1, 1>>),
     Experiment("sumB", 6, 256, Args(64, 64, 4, LRU), <<1, 1>>),
     Experiment("sumB", 6, 240, Args(64, 64, 1, LRU), <<1, 8>>)}

(* Each of them is one the reasons apply to. *)
ASSUME PredictedAnalysed == \A x \in Experiments : Analysed(x)

ArgsOf == {x.args : x \in Experiments}
Array == ArrayBytes(ArrayLength)
AllLongs == {e * sizeof_long : e \in 0 .. ArrayLength - 1}
====
