---- MODULE Cache ----
(***************************************************************************)
(* The set-associative read cache of Cache-Implementation/cache.c, in      *)
(* front of a memory of bytes.  Addresses are byte offsets from the start  *)
(* of the array the program reads, which is aligned (cache-test.c).        *)
(*                                                                         *)
(* cache_write does nothing and the program fills the array before it      *)
(* creates a cache, so the memory is a constant.                           *)
(***************************************************************************)
EXTENDS CacheSet

CONSTANTS Caches,       \* the arguments cache_new may be given
          sizeof_long,  \* bytes in a long
          mem,          \* [byte offset -> byte]
          Addresses,    \* the longs the program reads
          JunkTag, JunkByte,  \* what a line holds before it is set
          MaxReads      \* bound on the number of reads

(* Blocks and sets are not empty. *)
ASSUME CacheAssumption ==
    \A c \in Caches :
        /\ c.associativity \in Nat \ {0}
        /\ c.num_blocks \in Nat /\ c.num_blocks >= c.associativity
        /\ c.block_size \in Nat \ {0}
        /\ c.policies \in Nat
ASSUME MemoryAssumption ==
    /\ sizeof_long \in Nat \ {0}
    /\ Addresses \subseteq Nat
    /\ MaxReads \in Nat
    /\ \A o \in DOMAIN mem : mem[o] \in 0 .. 255

VARIABLES cache,         \* the fields of cache_t that cache_new fixes
          sets,          \* cache->sets
          access_count, miss_count,
          returned       \* the last address read and the long read there

vars == <<cache, sets, access_count, miss_count, returned>>

NothingRead == [address |-> -1, value |-> 0]

----
(* get_shift_and_mask: the bits of value below its highest one. *)
shift_of[value \in Nat] == IF value > 1 THEN 1 + shift_of[value \div 2] ELSE 0
mask_of[value \in Nat] == IF value > 1 THEN 2 * mask_of[value \div 2] + 1 ELSE 0

(* addr & mask, for a mask of ones. *)
And(addr, mask) == addr % (mask + 1)
Shift(addr, bits) == addr \div (2 ^ bits)

Fields(args) ==
    LET num_sets == args.num_blocks \div args.associativity
        index_shift == shift_of[args.block_size]
    IN  [policies |-> args.policies,
         block_size |-> args.block_size,
         associativity |-> args.associativity,
         num_sets |-> num_sets,
         cache_index_shift |-> index_shift,
         block_offset_mask |-> mask_of[args.block_size],
         tag_shift |-> index_shift + shift_of[num_sets],
         cache_index_mask |-> mask_of[num_sets]]

Offset(c, addr) == And(addr, c.block_offset_mask)
Index(c, addr) == And(Shift(addr, c.cache_index_shift), c.cache_index_mask)
Tag(c, addr) == Shift(addr, c.tag_shift)

(* An aligned long lies in one block, and a block in the memory. *)
ASSUME BlockAssumption ==
    \A args \in Caches : LET c == Fields(args) IN
        /\ (c.block_offset_mask + 1) % sizeof_long = 0
        /\ \A addr \in Addresses :
              /\ addr % sizeof_long = 0
              /\ LET first == addr - Offset(c, addr)
                 IN  first .. first + c.block_size - 1 \subseteq DOMAIN mem

(* memcpy of the block addr lies in. *)
Block(c, addr) ==
    [o \in 0 .. c.block_size - 1 |-> mem[addr - And(addr, c.block_offset_mask) + o]]

(* The long whose bytes start at offset; data[n] is what its n highest      *)
(* bytes make.                                                              *)
cache_line_retrieve_data(line, offset) ==
    LET data[n \in 0 .. sizeof_long] ==
            IF n = 0 THEN 0
            ELSE 256 * data[n - 1] + line.data[offset + (sizeof_long - n)]
    IN  data[sizeof_long]

----
(* Lines come from malloc: only is_valid is set. *)
cache_set_init(associativity, block_size) ==
    [cache_lines |-> [i \in 0 .. associativity - 1 |-> i],
     line |-> [i \in 0 .. associativity - 1 |->
                  [is_valid |-> 0, tag |-> JunkTag,
                   data |-> [o \in 0 .. block_size - 1 |-> JunkByte]]]]

(* cache_new, for a cache whose fixed fields are set. *)
CacheInit ==
    /\ sets = [s \in 0 .. cache.num_sets - 1 |->
                  cache_set_init(cache.associativity, cache.block_size)]
    /\ access_count = 0 /\ miss_count = 0
    /\ returned = NothingRead

Init == (\E args \in Caches : cache = Fields(args)) /\ CacheInit

Finish_M(addr, new) ==  \* does not count the access
    /\ sets' = [sets EXCEPT ![Index(cache, addr)] = new]
    /\ returned' = [address |-> addr,
                    value |-> cache_line_retrieve_data(LineAt(new, 0), Offset(cache, addr))]
    /\ UNCHANGED <<cache, access_count>>

(* What cache_read does once it knows the set's new contents. *)
Finish(addr, new) ==
    /\ sets' = [sets EXCEPT ![Index(cache, addr)] = new]
    /\ returned' = [address |-> addr,
                    value |-> cache_line_retrieve_data(LineAt(new, 0), Offset(cache, addr))]
    /\ access_count' = access_count + 1
    /\ UNCHANGED cache

ReadHit(addr) ==
    LET set == sets[Index(cache, addr)]
    IN  \E i \in First(Matching(set, Tag(cache, addr))) :
           /\ Finish(addr, cache_line_make_mru(set, i))
           /\ UNCHANGED miss_count

ReadMiss(addr) ==
    LET set == sets[Index(cache, addr)]
    IN  /\ Matching(set, Tag(cache, addr)) = {}
        /\ \E i \in Available(set, cache.associativity, cache.policies) :
              Finish(addr, cache_set_add(set, i, Tag(cache, addr), Block(cache, addr)))
        /\ miss_count' = miss_count + 1

cache_read(addr) == ReadHit(addr) \/ ReadMiss(addr)

Next == access_count < MaxReads /\ \E addr \in Addresses : cache_read(addr)

Spec == Init /\ [][Next]_vars
====
