---- MODULE MCCache ----
(* Constants for checking the cache with TLC. *)
EXTENDS CacheProperties

Geometry(blocks, size, ways, policies) ==
    [num_blocks |-> blocks, block_size |-> size, associativity |-> ways,
     policies |-> policies]

(* Fully associative with three lines, two sets of two, direct mapped, and  *)
(* sizes that are not powers of two; policies with a bit of another policy. *)
SmallCaches ==
    {Geometry(3, 4, 3, 0), Geometry(3, 4, 3, 1),
     Geometry(4, 4, 2, 2), Geometry(5, 4, 2, 3),
     Geometry(2, 4, 1, 0), Geometry(7, 7, 2, 1)}

(* Longs of two bytes at even offsets. *)
Bytes == [o \in 0 .. 41 |-> (3 * o + 1) % 256]
Reads == {0, 2, 4, 8, 14, 24, 32}
====
