---- MODULE CacheProperties ----
(***************************************************************************)
(* What must be true of the cache of module Cache.  Two history variables  *)
(* remember, per set, which tags were read and in which order they were    *)
(* last read; the cache does not look at them.                             *)
(***************************************************************************)
EXTENDS Cache, FiniteSets

VARIABLES seen,   \* [set -> the tags read so far]
          newer   \* [set -> pairs <<t, u>>: t was read since u was last read]

hvars == <<vars, seen, newer>>

(* t becomes the newest of the tags S read so far. *)
MakeNewest(t, S, N) == {p \in N : p[2] # t} \cup {<<t, u>> : u \in S \ {t}}

Remember(addr) ==
    LET s == Index(cache, addr)
        t == Tag(cache, addr)
    IN  /\ seen' = [seen EXCEPT ![s] = @ \cup {t}]
        /\ newer' = [newer EXCEPT ![s] = MakeNewest(t, seen[s], @)]

HInit ==
    /\ Init
    /\ seen = [s \in DOMAIN sets |-> {}]
    /\ newer = [s \in DOMAIN sets |-> {}]

HNext ==
    /\ access_count < MaxReads
    /\ \E addr \in Addresses : cache_read(addr) /\ Remember(addr)

HSpec == HInit /\ [][HNext]_hvars

----
(* The contents of one set. *)
Valid(set) == {i \in Positions(set) : LineAt(set, i).is_valid = 1}
TagAt(set, i) == LineAt(set, i).tag
CachedTags(set) == {TagAt(set, i) : i \in Valid(set)}

TypeOK ==
    /\ cache \in {Fields(args) : args \in Caches}
    /\ DOMAIN sets = 0 .. cache.num_sets - 1
    /\ \A s \in DOMAIN sets :
          LET Ways == 0 .. cache.associativity - 1
          IN  /\ sets[s].cache_lines \in [Ways -> Ways]
              /\ DOMAIN sets[s].line = Ways
              /\ \A w \in Ways : sets[s].line[w].is_valid \in {0, 1}
    /\ access_count \in 0 .. MaxReads /\ miss_count \in 0 .. access_count
    /\ returned.address \in Addresses \cup {-1}

(* cache_line_make_mru loses no line and duplicates none, the valid lines   *)
(* stay in front of the others (its comment), and no block is in a set      *)
(* twice, so that every read finds the one copy there is.                   *)
SetSound(set) ==
    /\ \A i, j \in Positions(set) :
          i # j => set.cache_lines[i] # set.cache_lines[j]
    /\ \A i, j \in Positions(set) : i < j /\ j \in Valid(set) => i \in Valid(set)
    /\ \A i, j \in Valid(set) : i # j => TagAt(set, i) # TagAt(set, j)

SetsSound == \A s \in DOMAIN sets : SetSound(sets[s])

(* The little-endian long at addr: the sum of its bytes, each at its place. *)
Places(addr) == [i \in 0 .. sizeof_long - 1 |-> mem[addr + i] * 2 ^ (8 * i)]
LongAt(addr) ==
    LET sum[n \in 0 .. sizeof_long] ==
            IF n = 0 THEN 0 ELSE sum[n - 1] + Places(addr)[n - 1]
    IN  sum[sizeof_long]

(* cache_read returns what memory holds at the address, whether it hits or  *)
(* misses, for every geometry: also when the block size or the number of    *)
(* sets is not a power of two and get_shift_and_mask rounds it down.        *)
ReadsReturnMemory ==
    returned # NothingRead => returned.value = LongAt(returned.address)

(* The lines of a set are the blocks read last, most recent first: of the   *)
(* tags S read so far, with the order N of their last reads, those not      *)
(* cached are older than all that are.                                      *)
RecencyOrdered(set, S, N) ==
    /\ \A i, j \in Valid(set) : i < j => <<TagAt(set, i), TagAt(set, j)>> \in N
    /\ \A t \in S \ CachedTags(set) :
          \A i \in Positions(set) : i \in Valid(set) /\ <<TagAt(set, i), t>> \in N

(* Under LRU each set holds the blocks of the set read last, most recently  *)
(* read first; what was evicted is older than all of them.                  *)
LruOrder ==
    ReplacementPolicy(cache.policies) = CACHE_REPLACEMENTPOLICY_LRU =>
        \A s \in DOMAIN sets : RecencyOrdered(sets[s], seen[s], newer[s])

(* While no set has been asked for more blocks than it has lines, each      *)
(* block is missed once, when it is read first, under either policy; after  *)
(* that there are at least as many misses as blocks read.                   *)
NoNeedlessMiss ==
    LET blocks == UNION {{<<s, t>> : t \in seen[s]} : s \in DOMAIN sets}
    IN  /\ miss_count >= Cardinality(blocks)
        /\ (\A s \in DOMAIN sets : Cardinality(seen[s]) <= cache.associativity)
              => miss_count = Cardinality(blocks)
====
