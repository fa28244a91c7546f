---- MODULE CacheSet ----
(***************************************************************************)
(* One set of the cache of Cache-Implementation/cache.c: an array of       *)
(* pointers to lines, most recently used first.                            *)
(*                                                                         *)
(* A set is a record: cache_lines maps a position to the line it points    *)
(* to, line maps a line to its contents.                                   *)
(***************************************************************************)
EXTENDS Integers

CONSTANT Rands   \* the values rand() may return
ASSUME RandAssumption == Rands \subseteq Nat /\ Rands # {}

CACHE_REPLACEMENTPOLICY_RANDOM == 0
CACHE_REPLACEMENTPOLICY_LRU == 1
(* policies & CACHE_REPLACEMENTPOLICY_MASK *)
ReplacementPolicy(policies) == policies % 2

Positions(set) == DOMAIN set.cache_lines
LineAt(set, i) == set.line[set.cache_lines[i]]

(* The positions of S no smaller position of S precedes: at most one. *)
First(S) == {i \in S : \A j \in S : i <= j}

cache_line_check_validity_and_tag_M(line, tag) == tag = line.tag
cache_line_check_validity_and_tag(line, tag) ==
    tag = line.tag /\ line.is_valid = 1

Matching(set, tag) ==
    {i \in Positions(set) : cache_line_check_validity_and_tag(LineAt(set, i), tag)}
Unused(set) == {i \in Positions(set) : LineAt(set, i).is_valid = 0}

cache_line_make_mru_M(set, line_index) ==  \* shifts one position too few
    [cache_lines |-> [i \in Positions(set) |->
                         IF i = 0 THEN set.cache_lines[line_index]
                         ELSE IF i < line_index THEN set.cache_lines[i - 1]
                         ELSE set.cache_lines[i]],
     line |-> set.line]

cache_line_make_mru_M2(set, line_index) ==  \* swaps with the first
    [cache_lines |-> [i \in Positions(set) |->
                         IF i = 0 THEN set.cache_lines[line_index]
                         ELSE IF i = line_index THEN set.cache_lines[0]
                         ELSE set.cache_lines[i]],
     line |-> set.line]

cache_line_make_mru(set, line_index) ==
    [cache_lines |-> [i \in Positions(set) |->
                         IF i = 0 THEN set.cache_lines[line_index]
                         ELSE IF i <= line_index THEN set.cache_lines[i - 1]
                         ELSE set.cache_lines[i]],
     line |-> set.line]

Available_M(set, associativity, policies) ==  \* replaces before the set is full
    IF ReplacementPolicy(policies) = CACHE_REPLACEMENTPOLICY_LRU
    THEN {associativity - 1}
    ELSE Positions(set)

(* The positions find_available_cache_line may choose.                      *)
Available(set, associativity, policies) ==
    IF Unused(set) # {} THEN First(Unused(set))
    ELSE IF ReplacementPolicy(policies) = CACHE_REPLACEMENTPOLICY_LRU
    THEN {associativity - 1}
    ELSE {r % associativity : r \in Rands}

(* The line chosen at position i becomes the first and holds the block.     *)
cache_set_add(set, i, tag, data) ==
    LET moved == cache_line_make_mru(set, i)
    IN  [cache_lines |-> moved.cache_lines,
         line |-> [moved.line EXCEPT ![moved.cache_lines[0]] =
                      [is_valid |-> 1, tag |-> tag, data |-> data]]]
====
