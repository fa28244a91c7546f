---- MODULE HeapLayout ----
(***************************************************************************)
(* Where heap_create of implicit.c puts a heap in the bytes that sbrk has  *)
(* given it, from address base: struct heap first, then the blocks.        *)
(* Lengths are in bytes, as in the code; module Heap counts words of       *)
(* HEADER_SIZE bytes from heap_start.                                      *)
(***************************************************************************)
EXTENDS Integers

HEADER_SIZE == 4
PAYLOAD_ALIGN == 8
sizeof_heap == 32

delta_M(base) == (PAYLOAD_ALIGN - ((base + sizeof_heap) % PAYLOAD_ALIGN)) % PAYLOAD_ALIGN

(* The bytes left unused so that a header ends where a payload may begin.   *)
delta(base) ==
    LET d == PAYLOAD_ALIGN - HEADER_SIZE - ((base + sizeof_heap) % PAYLOAD_ALIGN)
    IN  IF d < 0 THEN d + PAYLOAD_ALIGN ELSE d

heap_start(base) == base + sizeof_heap + delta(base)

(* What is left for blocks, rounded down to whole ones.  The remainder is   *)
(* that of an unsigned number, also where there is less than two headers.   *)
heap_size(base, size) ==
    LET left == size - sizeof_heap - delta(base)
    IN  left - ((left - 2 * HEADER_SIZE) % PAYLOAD_ALIGN)
====
