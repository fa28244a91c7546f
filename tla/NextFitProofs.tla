---- MODULE NextFitProofs ----
(***************************************************************************)
(* The heap under next fit, for every heap size and every set of requests. *)
(*                                                                         *)
(* A heap_free that merges the block h->next points at into its            *)
(* predecessor leaves h->next at a word that is no header any more, and    *)
(* what happens from there on is up to the words it meets.  The invariant  *)
(* NextInv holds even then: it says what the code keeps true of the        *)
(* memory, of h->next and of the search whatever state the heap is in.     *)
(* From it follow that no other step spoils the heap, that NULL misses the *)
(* first block only, and that a client that never frees that block while   *)
(* its predecessor is free has a sound heap for ever.                      *)
(***************************************************************************)
EXTENDS HeapProofs

(* Next fit is the only algorithm. *)
NextOnly == SearchAlgs \subseteq {NEXTFIT}

(* A search in progress.  It is at the end of the heap only after it has   *)
(* wrapped, and then, whatever the blocks are, those it has passed since   *)
(* do not fit.                                                             *)
Searching ==
    /\ user_size \in Requests /\ realSize = get_size_to_allocate(user_size)
    /\ blk \in Nat
    /\ ~flag => blk # HeapSize
    /\ flag =>
          /\ hnext = 0
          /\ \A B \in SUBSET Headers(mem) : Tiling(mem, B) =>
                /\ blk \in B \cup {HeapSize}
                /\ \A c \in B : 0 < c /\ c < blk /\ ~mem[c].used
                                    => mem[c].size < realSize

(* What holds in every state, those of a spoilt heap included. *)
NextInv ==
    /\ search_alg = NEXTFIT
    /\ mem \in Memory /\ mem[-1] # Junk /\ mem[0] # Junk
    /\ hnext \in Words
    /\ DOMAIN live \subseteq 1 .. HeapSize
    /\ pc = "scan" => Searching

----
(* The operators keep a memory a memory, and a tag at the start of the     *)
(* heap and in front of it, wherever the block they are given lies.        *)

(* A memory whose first word, and the one in front of it, are tags. *)
Typed(m) == m \in Memory /\ m[-1] # Junk /\ m[0] # Junk

LEMMA SetHeaderTyped ==
    ASSUME NEW m, Typed(m), NEW b \in Int, NEW s \in Nat, NEW u \in BOOLEAN
    PROVE  Typed(set_block_header(m, b, s, u))
  <1> DEFINE n == set_block_header(m, b, s, u)
  <1>1. Tag(s, u) \in Tags /\ Tag(s, u) # Junk
    BY TagFacts, MarkAssumption
  <1>2. \A o \in -1 .. HeapSize - 1 : n[o] = Tag(s, u) \/ n[o] = m[o]
    BY DEF Typed, Memory, set_block_header, HEADER_SIZE
  <1>3. n \in Memory
    BY <1>1 DEF Typed, Memory, set_block_header, HEADER_SIZE
  <1>4. -1 \in -1 .. HeapSize - 1 /\ 0 \in -1 .. HeapSize - 1
    BY SizeAssumption DEF HEADER_SIZE
  <1> HIDE DEF n
  <1>5. n[-1] # Junk /\ n[0] # Junk
    BY <1>1, <1>2, <1>4 DEF Typed
  <1> QED BY <1>3, <1>5 DEF Typed, n

(* A word of a memory that is not Junk is a tag. *)
LEMMA WordTyped ==
    ASSUME NEW m, Typed(m), NEW b \in Words, m[b] # Junk
    PROVE  m[b] \in Tags /\ m[b].size \in Nat /\ m[b].used \in BOOLEAN
  <1>1. b \in -1 .. HeapSize - 1
    BY SizeAssumption DEF Words
  <1>2. m[b] \in Tags
    BY <1>1 DEF Typed, Memory
  <1> QED BY <1>2 DEF Tags

LEMMA CoalesceTyped ==
    ASSUME NEW m, Typed(m), NEW b \in Words, CoalesceDefined(m, b)
    PROVE  Typed(coalesce(m, b))
  <1> DEFINE n == b + m[b].size
  <1>1. m[b] # Junk /\ b \in Int
    BY DEF CoalesceDefined, Words
  <1>2. CASE n \in Words
    <2>1. m[n] # Junk
      BY <1>2 DEF CoalesceDefined, get_next_block, get_block_size, is_within_heap_range
    <2>2. m[b].size \in Nat /\ m[n].size \in Nat
      BY <1>1, <1>2, <2>1, WordTyped
    <2>3. m[b].size + m[n].size \in Nat
      BY <2>2
    <2>4. Typed(set_block_header(m, b, m[b].size + m[n].size, FALSE))
      BY <1>1, <2>3, SetHeaderTyped
    <2> QED BY <2>4 DEF coalesce, get_next_block, get_block_size
  <1>3. CASE n \notin Words
    BY <1>3 DEF coalesce, get_next_block, get_block_size, is_within_heap_range
  <1> QED BY <1>2, <1>3

(* heap_free, when it reads tags only. *)
LEMMA MergeTyped ==
    ASSUME NEW m, Typed(m), NEW b \in Words, m[b] # Junk, NEW p,
           MergeDefined(MarkFree(m, b), b, p)
    PROVE  Typed(MergeAround(MarkFree(m, b), b, p))
  <1> DEFINE f == MarkFree(m, b)
             j == coalesce(f, b)
  <1>1. m[b].size \in Nat /\ b \in Int
    BY WordTyped DEF Words
  <1>2. Typed(f)
    BY <1>1, SetHeaderTyped DEF MarkFree, get_block_size
  <1> HIDE DEF f
  <1>3. CoalesceDefined(f, b) /\ (p \in Words => CoalesceDefined(j, p))
    BY DEF MergeDefined, is_within_heap_range, f
  <1>4. Typed(j)
    BY <1>2, <1>3, CoalesceTyped
  <1> HIDE DEF j
  <1>5. CASE p \in Words
    <2>1. Typed(coalesce(j, p))
      BY <1>3, <1>4, <1>5, CoalesceTyped
    <2> QED BY <2>1, <1>5 DEF MergeAround, is_within_heap_range, j, f
  <1>6. CASE p \notin Words
    BY <1>4, <1>6 DEF MergeAround, is_within_heap_range, j, f
  <1> QED BY <1>5, <1>6

(* prepare_block_for_use splits a block only where it ends. *)
LEMMA PrepareTyped ==
    ASSUME NEW m, Typed(m), NEW b \in Words, m[b] # Junk,
           NEW r \in Nat, r <= m[b].size
    PROVE  Typed(HandOver(prepare_block_for_use(m, b, r), b))
  <1> DEFINE s == m[b].size
             n == prepare_block_for_use(m, b, r)
  <1>1. s \in Nat /\ b \in Int /\ b >= 0 /\ HeapSize \in Nat
    BY WordTyped, SizeAssumption DEF Words
  <1>2. Typed(n)
    <2>1. CASE Splits(s, r)
      <3>1. Typed(set_block_header(m, b, r, TRUE))
        BY <1>1, SetHeaderTyped
      <3>2. s - r \in Nat /\ b + r \in Int
        BY <1>1
      <3> DEFINE k == set_block_header(m, b, r, TRUE)
      <3>3. n = set_block_header(k, b + r, s - r, FALSE)
        BY <2>1 DEF prepare_block_for_use, get_block_size
      <3> HIDE DEF k, n, s
      <3>4. Typed(k)
        BY <3>1 DEF k
      <3> QED BY <3>2, <3>3, <3>4, SetHeaderTyped
    <2>2. CASE ~Splits(s, r)
      <3>1. Typed(set_block_header(m, b, s, TRUE))
        BY <1>1, SetHeaderTyped
      <3> QED BY <3>1, <2>2 DEF prepare_block_for_use, get_block_size
    <2> QED BY <2>1, <2>2
  <1> HIDE DEF n
  <1>3. HandOver(n, b) \in Memory
    BY <1>2 DEF HandOver, Typed, Memory
  <1>4. -1 \notin PayloadWords(n, b) /\ 0 \notin PayloadWords(n, b)
    <2>1. \A k \in PayloadWords(n, b) : k >= b + 1
      BY <1>1 DEF PayloadWords, HEADER_SIZE
    <2> QED BY <2>1, <1>1
  <1>5. -1 \in -1 .. HeapSize - 1 /\ 0 \in -1 .. HeapSize - 1
    BY SizeAssumption DEF HEADER_SIZE
  <1>6. HandOver(n, b)[-1] = n[-1] /\ HandOver(n, b)[0] = n[0]
    BY <1>2, <1>4, <1>5 DEF HandOver, Typed, Memory
  <1> QED BY <1>2, <1>3, <1>6 DEF Typed, n

----
(* The invariant holds of the heap heap_create leaves. *)
LEMMA InitNextInv ==
    ASSUME NextOnly, Init
    PROVE  NextInv
  <1>1. IInv
    BY InitIInv
  <1>2. search_alg = NEXTFIT /\ pc = "idle" /\ DOMAIN live = {}
    BY DEF NextOnly, Init
  <1>3. mem[0] # Junk
    <2>1. PICK B : Blocks(mem, B)
      BY <1>1, TheBlocks
    <2>2. 0 \in B
      BY <2>1, <1>1, FirstBlock DEF IInv, TypeOK
    <2> QED BY <2>1, <2>2 DEF Blocks, Headers
  <1> QED BY <1>1, <1>2, <1>3 DEF IInv, TypeOK, FitInvariant, NextInv

(* heap_malloc starts its search at h->next. *)
LEMMA NextFitMallocStep ==
    ASSUME NextInv, NEW u \in Requests, heap_malloc(u)
    PROVE  NextInv'
  <1>1. /\ user_size' = u /\ realSize' = get_size_to_allocate(u)
        /\ blk' = hnext /\ flag' = FALSE
        /\ UNCHANGED <<search_alg, mem, hnext, live>>
    BY DEF heap_malloc, NextInv
  <1>2. hnext \in Nat /\ hnext # HeapSize
    BY SizeAssumption DEF NextInv, Words
  <1> QED BY <1>1, <1>2 DEF NextInv, Searching

(* Next fit returns the block it is at. *)
LEMMA NextFitTakeStep ==
    ASSUME NextInv, NextFitTake
    PROVE  NextInv'
  <1>1. /\ pc = "scan" /\ blk \in Words /\ mem[blk] # Junk
        /\ mem[blk].size >= realSize
        /\ ReturnBlock(blk) /\ hnext' = blk /\ UNCHANGED search_alg
    BY DEF NextFitTake, Scanning, AtBlock, BlkFits, get_block_size, is_within_heap_range
  <1>2. user_size \in Requests /\ realSize \in Nat
    BY <1>1, SizeToAllocate DEF NextInv, Searching
  <1>3. Typed(mem) /\ mem[blk].size \in Nat
    BY <1>1, WordTyped DEF NextInv, Typed
  <1>4. realSize <= mem[blk].size
    BY <1>1, <1>2, <1>3
  <1>5. Typed(mem')
    BY <1>1, <1>2, <1>3, <1>4, PrepareTyped DEF ReturnBlock
  <1>6. pc' = "idle" /\ DOMAIN live' = DOMAIN live \cup {blk + 1}
    BY <1>1 DEF ReturnBlock, Return, get_payload, HEADER_SIZE
  <1>7. blk + 1 \in 1 .. HeapSize
    BY <1>1, SizeAssumption DEF Words
  <1> QED BY <1>1, <1>5, <1>6, <1>7 DEF NextInv, Typed

(* The search wraps to the block after the first. *)
LEMMA NextFitWrapStep ==
    ASSUME NextInv, NextFitWrap
    PROVE  NextInv'
  <1>1. /\ pc = "scan" /\ flag' = TRUE /\ hnext' = 0 /\ blk' = 0 + mem[0].size
        /\ UNCHANGED <<search_alg, mem, live, pc, user_size, realSize>>
    BY DEF NextFitWrap, Scanning, get_next_block, get_block_size
  <1>2. 0 \in Words
    BY SizeAssumption DEF Words, HEADER_SIZE
  <1>3. Typed(mem) /\ mem[0].size \in Nat
    BY <1>2, WordTyped DEF NextInv, Typed
  <1>4. blk' \in Nat
    BY <1>1, <1>3
  <1>5. ASSUME NEW B \in SUBSET Headers(mem), Tiling(mem, B)
        PROVE  /\ blk' \in B \cup {HeapSize}
               /\ \A c \in B : ~(0 < c /\ c < blk')
    <2>1. Blocks(mem, B) /\ mem \in Memory
      BY <1>3, <1>5 DEF Blocks, Typed
    <2>2. 0 \in B
      BY <2>1, FirstBlock
    <2>3. \A c \in B : c \in Int
      BY <2>1, HeaderFacts DEF Blocks
    <2>4. \A c \in B : 0 < c => 0 + mem[0].size <= c
      BY <2>2, <1>5 DEF Tiling
    <2>5. 0 + mem[0].size \in B \cup {HeapSize}
      BY <2>1, <2>2, NextBlock
    <2> QED BY <2>3, <2>4, <2>5, <1>1, <1>3
  <1> QED BY <1>1, <1>2, <1>4, <1>5 DEF NextInv, Searching

(* The search passes a block. *)
LEMMA NextFitPassStep ==
    ASSUME NextInv, NextFitPass
    PROVE  NextInv'
  <1>1. /\ pc = "scan" /\ blk \in Words /\ mem[blk] # Junk /\ ~BlkFits
        /\ blk' = blk + mem[blk].size
        /\ blk' # HeapSize \/ flag
        /\ UNCHANGED <<search_alg, mem, hnext, live, pc, user_size, realSize, flag>>
    BY DEF NextFitPass, Scanning, AtBlock, StepOver, get_next_block, get_block_size,
           is_within_heap_range
  <1>2. Typed(mem) /\ mem[blk].size \in Nat /\ Searching
    BY <1>1, WordTyped DEF NextInv, Typed
  <1>3. blk' \in Nat
    BY <1>1, <1>2 DEF Words
  <1>4. ASSUME flag, NEW B \in SUBSET Headers(mem), Tiling(mem, B)
        PROVE  /\ blk' \in B \cup {HeapSize}
               /\ \A c \in B : 0 < c /\ c < blk' /\ ~mem[c].used
                                   => mem[c].size < realSize
    <2>1. Blocks(mem, B) /\ mem \in Memory
      BY <1>2, <1>4 DEF Blocks, Typed
    <2>2. blk \in B
      BY <1>1, <1>2, <1>4, SizeAssumption DEF Searching, Words
    <2>3. blk' \in B \cup {HeapSize}
      BY <2>1, <2>2, <1>1, NextBlock
    <2>4. \A c \in B : c \in Int /\ mem[c].size \in Nat
      BY <2>1, HeaderFacts DEF Blocks
    <2>5. realSize \in Nat
      BY <1>2, SizeToAllocate DEF Searching
    <2>6. ASSUME NEW c \in B, 0 < c, c < blk', ~mem[c].used PROVE mem[c].size < realSize
      <3>1. CASE c < blk
        BY <3>1, <2>6, <1>2, <1>4 DEF Searching
      <3>2. CASE c = blk
        BY <3>2, <2>4, <2>5, <2>6, <1>1 DEF BlkFits, get_block_size, block_is_in_use
      <3>3. CASE c > blk
        <4>1. blk + mem[blk].size <= c
          BY <3>3, <2>2, <1>4 DEF Tiling
        <4> QED BY <4>1, <2>2, <2>4, <2>6, <1>1
      <3> QED BY <3>1, <3>2, <3>3, <2>2, <2>4
    <2> QED BY <2>3, <2>6
  <1> QED BY <1>1, <1>2, <1>3, <1>4 DEF NextInv, Searching

(* heap_free, whatever it finds: it goes on with words that are tags only. *)
LEMMA NextFitFreeStep ==
    ASSUME NextInv, NEW payload \in DOMAIN live, heap_free(payload)
    PROVE  NextInv'
  <1> DEFINE b == get_block_start(payload)
  <1>1. b \in Words
    BY SizeAssumption DEF NextInv, Words, get_block_start, HEADER_SIZE
  <1>2. 0 \in Words /\ pc = "idle" /\ UNCHANGED search_alg
    BY SizeAssumption DEF Words, HEADER_SIZE, heap_free
  <1>3. CASE FreeDefined(b)
    <2>1. /\ pc' = "idle" /\ hnext' = AdjustNext(get_next_block(mem, b))
          /\ mem' = MergeAround(MarkFree(mem, b), b, get_previous_block(mem, b))
          /\ DOMAIN live' = DOMAIN live \ {payload}
      BY <1>2, <1>3 DEF heap_free
    <2>2. hnext' \in Words
      BY <2>1, <1>2 DEF AdjustNext, is_within_heap_range, NextInv
    <2>3. mem[b] # Junk /\ MergeDefined(MarkFree(mem, b), b, get_previous_block(mem, b))
      BY <1>3 DEF FreeDefined
    <2>4. Typed(mem)
      BY DEF NextInv, Typed
    <2> HIDE DEF b
    <2>5. Typed(mem')
      BY <2>1, <2>3, <2>4, <1>1, MergeTyped
    <2> QED BY <2>1, <2>2, <2>5, <1>2 DEF NextInv, Typed
  <1>4. CASE ~FreeDefined(b)
    <2>1. pc' = "undefined" /\ UNCHANGED <<mem, hnext, live>>
      BY <1>4 DEF heap_free
    <2> QED BY <2>1, <1>2 DEF NextInv
  <1> QED BY <1>3, <1>4

(* Every step preserves the invariant. *)
LEMMA NextNextInv ==
    ASSUME NextInv, [Next]_vars
    PROVE  NextInv'
  <1>1. CASE \E u \in Requests : heap_malloc(u)
    BY <1>1, NextFitMallocStep
  <1>2. CASE NextFitTake
    BY <1>2, NextFitTakeStep
  <1>3. CASE NextFitWrap
    BY <1>3, NextFitWrapStep
  <1>4. CASE NextFitPass
    BY <1>4, NextFitPassStep
  <1>5. CASE NextFitFail
    BY <1>5 DEF NextFitFail, Scanning, ReturnNull, Return, NextInv
  <1>6. CASE ScanUndefined
    BY <1>6 DEF ScanUndefined, NextInv
  <1>7. CASE \E payload \in DOMAIN live : heap_free(payload)
    BY <1>7, NextFitFreeStep
  <1>8. CASE UNCHANGED vars
    BY <1>8 DEF vars, locals, NextInv, Searching, Headers, Tiling
  <1>9. CASE \/ FirstFitTake \/ FirstFitPass \/ FirstFitFail
             \/ BestFitStep \/ BestFitTake \/ BestFitFail
    BY <1>9 DEF FirstFitTake, FirstFitPass, FirstFitFail, BestFitStep, BestFitTake,
                BestFitFail, Scanning, NextInv, FIRSTFIT, BESTFIT, NEXTFIT
  <1> QED BY <1>1, <1>2, <1>3, <1>4, <1>5, <1>6, <1>7, <1>8, <1>9 DEF Next, Search

(* In every state of a next-fit heap, a spoilt one included, the words are *)
(* words, h->next points into the heap, and a search that has wrapped has  *)
(* missed no block that fits but the first.                                *)
THEOREM NextFitSafety ==
    ASSUME NextOnly
    PROVE  Spec => []NextInv
  <1>1. Init => NextInv
    BY InitNextInv
  <1>2. NextInv /\ [Next]_vars => NextInv'
    BY NextNextInv
  <1> QED BY <1>1, <1>2, PTL DEF Spec

----
(* The merge that spoils the heap: heap_free of the block h->next points   *)
(* at, whose predecessor is free.                                          *)
Spoils ==
    \E p \in DOMAIN live \ DOMAIN live' :
       /\ hnext = get_block_start(p)
       /\ hnext # 0
       /\ ~mem[hnext - HEADER_SIZE].used

(* What a sound heap and NextInv say of the blocks. *)
LEMMA SoundBlocks ==
    ASSUME NextInv, NextFitConsistent
    PROVE  /\ mem \in Memory
           /\ \E B : /\ Blocks(mem, B) /\ Merged(mem, B) /\ Owned(mem, B)
                    /\ NextFitStructure(B) /\ SearchSound(B)
  <1>1. PICK B \in SUBSET Headers(mem) : NextFitStructure(B)
    BY DEF NextFitConsistent
  <1>2. Blocks(mem, B) /\ Merged(mem, B) /\ Owned(mem, B)
    BY <1>1 DEF NextFitStructure, Structure, Blocks
  <1>3. SearchSound(B)
    BY <1>1 DEF NextInv, Searching, NextFitStructure, SearchSound,
                FIRSTFIT, NEXTFIT, BESTFIT
  <1> QED BY <1>1, <1>2, <1>3 DEF NextInv

(* The heap is sound after a step if its blocks are. *)
LEMMA SoundNext ==
    ASSUME NEW B, Blocks(mem', B), Merged(mem', B), Owned(mem, B)', hnext' \in B,
           pc' = "scan" => blk' \in B \cup {HeapSize}
    PROVE  NextFitConsistent'
  <1>1. B \in SUBSET Headers(mem') /\ Tiling(mem', B)
    BY DEF Blocks
  <1>2. NextFitStructure(B)'
    BY <1>1 DEF NextFitStructure, Structure
  <1> QED BY <1>1, <1>2 DEF NextFitConsistent

(* The search keeps to the blocks: h->next is one, and so is where the     *)
(* search wraps to.                                                        *)
LEMMA SearchKeepsSound ==
    ASSUME NextInv, NextFitConsistent,
           \/ \E u \in Requests : heap_malloc(u)
           \/ NextFitWrap \/ NextFitPass \/ NextFitFail
    PROVE  NextFitConsistent'
  <1>1. PICK B : /\ Blocks(mem, B) /\ Merged(mem, B) /\ Owned(mem, B)
                 /\ NextFitStructure(B)
    BY SoundBlocks
  <1>2. mem \in Memory /\ 0 \in B /\ hnext \in B
    BY <1>1, SoundBlocks, FirstBlock DEF NextFitStructure
  <1>3. UNCHANGED <<mem, live>>
    BY DEF heap_malloc, NextFitWrap, NextFitPass, NextFitFail, StepOver, ReturnNull
  <1>4. Blocks(mem', B) /\ Merged(mem', B) /\ Owned(mem, B)'
    BY <1>1, <1>3 DEF Owned
  <1>5. CASE \E u \in Requests : heap_malloc(u)
    BY <1>2, <1>4, <1>5, SoundNext DEF heap_malloc, NextInv
  <1>6. CASE NextFitWrap
    <2>1. hnext' = 0 /\ blk' = 0 + mem[0].size
      BY <1>6 DEF NextFitWrap, get_next_block, get_block_size
    <2>2. blk' \in B \cup {HeapSize}
      BY <2>1, <1>1, <1>2, NextBlock
    <2> QED BY <2>1, <2>2, <1>2, <1>4, SoundNext
  <1>7. CASE NextFitPass
    <2>1. /\ pc = "scan" /\ blk \in Words /\ hnext' = hnext /\ blk' = blk + mem[blk].size
      BY <1>7 DEF NextFitPass, Scanning, AtBlock, StepOver, get_next_block,
                  get_block_size, is_within_heap_range
    <2>2. blk \in B
      BY <2>1, <1>1, SizeAssumption DEF NextFitStructure, Words
    <2>3. blk' \in B \cup {HeapSize}
      BY <2>1, <2>2, <1>1, <1>2, NextBlock
    <2> QED BY <2>1, <2>3, <1>2, <1>4, SoundNext
  <1>8. CASE NextFitFail
    <2>1. hnext' = hnext /\ pc' = "idle"
      BY <1>8 DEF NextFitFail, ReturnNull, Return
    <2> QED BY <2>1, <1>2, <1>4, SoundNext
  <1> QED BY <1>5, <1>6, <1>7, <1>8

(* In a sound heap the search stands on a block, and takes it if it fits. *)
LEMMA TakenBlock ==
    ASSUME NextInv, NextFitTake,
           NEW B, Blocks(mem, B), NextFitStructure(B)
    PROVE  /\ pc = "scan" /\ blk \in B /\ ~mem[blk].used /\ realSize <= mem[blk].size
           /\ user_size \in Requests /\ realSize = get_size_to_allocate(user_size)
           /\ ReturnBlock(blk) /\ hnext' = blk /\ UNCHANGED search_alg
  <1>1. /\ pc = "scan" /\ blk \in Words /\ mem[blk].size >= realSize /\ ~mem[blk].used
        /\ ReturnBlock(blk) /\ hnext' = blk /\ UNCHANGED search_alg
    BY DEF NextFitTake, Scanning, AtBlock, BlkFits, get_block_size, block_is_in_use,
           is_within_heap_range
  <1>2. blk \in B
    BY <1>1, SizeAssumption DEF NextFitStructure, Words
  <1>3. user_size \in Requests /\ realSize = get_size_to_allocate(user_size)
    BY <1>1 DEF NextInv, Searching
  <1>4. realSize <= mem[blk].size
    BY <1>1, <1>2, <1>3, HeaderFacts, SizeToAllocate DEF NextInv, Blocks
  <1> QED BY <1>1, <1>2, <1>3, <1>4

(* Taking a block leaves the other blocks where they were. *)
LEMMA TakeKeepsSound ==
    ASSUME NextInv, NextFitConsistent, NextFitTake
    PROVE  NextFitConsistent'
  <1>1. PICK B : /\ Blocks(mem, B) /\ Merged(mem, B) /\ Owned(mem, B)
                 /\ NextFitStructure(B)
    BY SoundBlocks
  <1>2. /\ blk \in B /\ ~mem[blk].used /\ realSize <= mem[blk].size
        /\ user_size \in Requests /\ realSize = get_size_to_allocate(user_size)
        /\ ReturnBlock(blk) /\ hnext' = blk
    BY <1>1, TakenBlock
  <1>3. mem \in Memory /\ blk \in Int
    BY <1>1, <1>2, HeaderFacts DEF NextInv, Blocks
  <1>4. realSize \in Nat /\ realSize >= 2 /\ realSize % 2 = 0
    BY <1>2, SizeToAllocate
  <1> DEFINE q == HandOver(prepare_block_for_use(mem, blk, realSize), blk)
  <1>5. Given(mem, q, B, blk, realSize)
    BY <1>1, <1>2, <1>3, <1>4, Prepared
  <1>6. mem' = q /\ pc' = "idle"
    BY <1>2 DEF ReturnBlock, Return
  <1> HIDE DEF q
  <1>7. PICK C : /\ Blocks(mem', C) /\ Merged(mem', C) /\ B \subseteq C
                 /\ SameTags(mem, mem', B \ {blk})
                 /\ \A c \in C \ B : ~mem'[c].used
    BY <1>5, <1>6 DEF Given
  <1>8. mem'[blk].used
    BY <1>5, <1>6 DEF Given
  <1>9. Owned(mem, C)'
    BY <1>1, <1>2, <1>3, <1>7, <1>8, OwnedAfterTake
  <1> QED BY <1>2, <1>6, <1>7, <1>9, SoundNext

(* Freeing a block leaves h->next at a block, unless it spoils the heap:   *)
(* the test in heap_free mends h->next when it points at the next block,   *)
(* and no other block than the freed one is merged into its predecessor.   *)
LEMMA FreeKeepsSound ==
    ASSUME NextInv, NextFitConsistent, NEW payload \in DOMAIN live, heap_free(payload),
           ~Spoils
    PROVE  NextFitConsistent'
  <1> DEFINE b == get_block_start(payload)
             n == b + mem[b].size
             k == MergeAround(MarkFree(mem, b), b, get_previous_block(mem, b))
  <1>1. PICK B : /\ Blocks(mem, B) /\ Merged(mem, B) /\ Owned(mem, B)
                 /\ NextFitStructure(B)
    BY SoundBlocks
  <1>2. mem \in Memory /\ mem[-1] # Junk /\ hnext \in B
    BY <1>1 DEF NextInv, NextFitStructure
  <1>3. b \in B /\ mem[b].used
    BY <1>1 DEF Owned
  <1>4. /\ mem[b] # Junk /\ mem[b - HEADER_SIZE] # Junk
        /\ MergeDefined(MarkFree(mem, b), b, get_previous_block(mem, b))
        /\ k \in Memory /\ k[-1] = mem[-1]
        /\ \E D \in SUBSET B :
              /\ Blocks(k, D) /\ Merged(k, D)
              /\ SameBlocks(mem, k, {c \in B : mem[c].used} \ {b})
              /\ {d \in D : k[d].used} = {c \in B : mem[c].used} \ {b}
              /\ \A c \in B : c # b /\ c # b + mem[b].size => c \in D
              /\ b \notin D => b # 0 /\ ~mem[b - HEADER_SIZE].used
    BY <1>1, <1>2, <1>3, FreedBlock
  <1>5. FreeDefined(b)
    BY <1>1, <1>2, <1>4 DEF FreeDefined, Blocks, Headers
  <1>6. /\ pc' = "idle" /\ mem' = k /\ hnext' = AdjustNext(get_next_block(mem, b))
        /\ live' = [p \in DOMAIN live \ {payload} |-> live[p]]
    BY <1>5 DEF heap_free
  <1> HIDE DEF k
  <1>7. PICK D \in SUBSET B :
              /\ Blocks(mem', D) /\ Merged(mem', D)
              /\ {d \in D : mem'[d].used} = {c \in B : mem[c].used} \ {b}
              /\ \A c \in B : c # b /\ c # n => c \in D
              /\ b \notin D => b # 0 /\ ~mem[b - HEADER_SIZE].used
    BY <1>4, <1>6
  <1>8. DOMAIN live \subseteq Int
    BY DEF NextInv
  <1>9. Owned(mem, D)'
    BY <1>1, <1>6, <1>7, <1>8, OwnedAfterFree
  <1>10. hnext' = IF n = hnext
                  THEN IF n + mem[n].size \in Words THEN n + mem[n].size ELSE 0
                  ELSE hnext
    BY <1>6 DEF AdjustNext, get_next_block, get_block_size, is_within_heap_range, NextInv
  <1>11. hnext' \in D
    <2>1. CASE n = hnext
      <3>1. n \in B /\ n + mem[n].size \in B \cup {HeapSize}
        BY <2>1, <1>1, <1>2, NextBlock
      <3>2. /\ b \in Int /\ mem[b].size \in Nat /\ mem[b].size >= 2
            /\ n \in Int /\ mem[n].size \in Nat /\ mem[n].size >= 2
        BY <3>1, <1>1, <1>2, <1>3, HeaderFacts DEF Blocks
      <3>3. n + mem[n].size # b /\ n + mem[n].size # n
        BY <3>2
      <3>4. mem' \in Memory
        BY <1>4, <1>6
      <3>5. 0 \in D
        BY <3>4, <1>7, FirstBlock
      <3>6. CASE n + mem[n].size \in Words
        <4>1. n + mem[n].size \in B
          BY <3>1, <3>6, SizeAssumption DEF Words
        <4> QED BY <4>1, <3>3, <3>6, <2>1, <1>7, <1>10
      <3>7. CASE n + mem[n].size \notin Words
        BY <3>5, <3>7, <2>1, <1>10
      <3> QED BY <3>6, <3>7
    <2>2. CASE n # hnext /\ hnext # b
      BY <2>2, <1>2, <1>7, <1>10
    <2>3. CASE n # hnext /\ hnext = b
      <3>1. payload \in DOMAIN live \ DOMAIN live'
        BY <1>6
      <3>2. b \in D
        BY <3>1, <2>3, <1>7 DEF Spoils
      <3> QED BY <3>2, <2>3, <1>10
    <2> QED BY <2>1, <2>2, <2>3
  <1> QED BY <1>6, <1>7, <1>9, <1>11, SoundNext

(* A step that does not spoil a sound heap leaves it sound. *)
LEMMA StaysSound ==
    ASSUME NextInv, NextFitConsistent, [Next]_vars, ~Spoils
    PROVE  NextFitConsistent'
  <1>1. CASE \/ \E u \in Requests : heap_malloc(u)
             \/ NextFitWrap \/ NextFitPass \/ NextFitFail
    BY <1>1, SearchKeepsSound
  <1>2. CASE NextFitTake
    BY <1>2, TakeKeepsSound
  <1>3. CASE \E payload \in DOMAIN live : heap_free(payload)
    BY <1>3, FreeKeepsSound
  <1>4. CASE ScanUndefined
    <2>1. PICK B : Blocks(mem, B) /\ NextFitStructure(B)
      BY SoundBlocks
    <2>2. pc = "scan" /\ blk \in Words /\ mem[blk] = Junk
      BY <1>4 DEF ScanUndefined, is_within_heap_range
    <2>3. blk \in B
      BY <2>1, <2>2, SizeAssumption DEF NextFitStructure, Words
    <2> QED BY <2>1, <2>2, <2>3 DEF Blocks, Headers
  <1>5. CASE UNCHANGED vars
    BY <1>5 DEF vars, locals, NextFitConsistent, NextFitStructure, Structure, Headers,
                Tiling, Merged, Owned
  <1>6. CASE \/ FirstFitTake \/ FirstFitPass \/ FirstFitFail
             \/ BestFitStep \/ BestFitTake \/ BestFitFail
    BY <1>6 DEF FirstFitTake, FirstFitPass, FirstFitFail, BestFitStep, BestFitTake,
                BestFitFail, Scanning, NextInv, FIRSTFIT, BESTFIT, NEXTFIT
  <1> QED BY <1>1, <1>2, <1>3, <1>4, <1>5, <1>6 DEF Next, Search

(* Only that merge spoils a next-fit heap, in whatever state it is.        *)
THEOREM NextFitSpoiltOnlyByMerge ==
    ASSUME NextOnly
    PROVE  Spec => SpoiltOnlyByMerge
  <1> DEFINE Safe == NextFitConsistent /\ ~NextFitConsistent' => Spoils
  <1>1. NextInv /\ [Next]_vars => [Safe]_vars
    BY StaysSound
  <1>2. SpoiltOnlyByMerge <=> [][Safe]_vars
    BY DEF SpoiltOnlyByMerge, Spoils
  <1> HIDE DEF Safe
  <1>3. Spec => [][Safe]_vars
    BY <1>1, NextFitSafety, PTL DEF Spec
  <1> QED BY <1>2, <1>3

(* When the search gives up, the blocks it has passed since the wrap are   *)
(* all but the first.                                                      *)
LEMMA NullMisses ==
    ASSUME NextInv, NextFitConsistent, NextFitFail
    PROVE  /\ mem \in Memory /\ hnext' = 0
           /\ user_size \in Requests /\ realSize = get_size_to_allocate(user_size)
           /\ \E B : /\ Blocks(mem, B) /\ Merged(mem, B) /\ Owned(mem, B)
                    /\ NextFitStructure(B)
                    /\ \A c \in B : ~mem[c].used /\ mem[c].size >= realSize => c = 0
  <1>1. PICK B : /\ Blocks(mem, B) /\ Merged(mem, B) /\ Owned(mem, B)
                 /\ NextFitStructure(B)
    BY SoundBlocks
  <1>2. /\ pc = "scan" /\ blk \notin Words /\ hnext' = hnext
        /\ mem \in Memory /\ Searching
    BY DEF NextFitFail, AtEnd, is_within_heap_range, Scanning, NextInv
  <1>3. \A c \in B : /\ c \in Words /\ c \in Int /\ 0 <= c /\ c < HeapSize
                     /\ mem[c].size \in Nat
    BY <1>1, <1>2, HeaderFacts, SizeAssumption DEF Blocks, Words
  <1>4. blk = HeapSize
    BY <1>1, <1>2, <1>3 DEF NextFitStructure
  <1>5. flag /\ hnext = 0
    BY <1>2, <1>4 DEF Searching
  <1>6. B \in SUBSET Headers(mem) /\ Tiling(mem, B)
    BY <1>1 DEF Blocks
  <1>7. \A c \in B : 0 < c /\ c < HeapSize /\ ~mem[c].used => mem[c].size < realSize
    BY <1>2, <1>4, <1>5, <1>6 DEF Searching
  <1>8. user_size \in Requests /\ realSize = get_size_to_allocate(user_size)
        /\ realSize \in Nat
    BY <1>2, SizeToAllocate DEF Searching
  <1>9. \A c \in B : ~mem[c].used /\ mem[c].size >= realSize => c = 0
    BY <1>3, <1>7, <1>8
  <1> QED BY <1>1, <1>2, <1>5, <1>8, <1>9

(* In a sound heap NULL is returned only if no free block but the first    *)
(* fits, and leaves h->next at h->start for the next search.               *)
THEOREM NextFitNullMissesOnlyFirst ==
    ASSUME NextOnly
    PROVE  Spec => NullMissesOnlyFirst
  <1> DEFINE Misses ==
        NextFitConsistent /\ pc = "scan" /\ pc' = "idle" /\ live' = live =>
          /\ \E B \in SUBSET Headers(mem) : NextFitStructure(B) /\
                \A c \in B : ~mem[c].used /\ mem[c].size >= realSize => c = 0
          /\ hnext' = 0
  <1>1. ASSUME NextInv, [Next]_vars, NextFitConsistent,
               pc = "scan", pc' = "idle", live' = live
        PROVE  /\ \E B \in SUBSET Headers(mem) : NextFitStructure(B) /\
                    \A c \in B : ~mem[c].used /\ mem[c].size >= realSize => c = 0
               /\ hnext' = 0
    <2>1. ~NextFitTake
      <3>1. SUFFICES ASSUME NextFitTake PROVE FALSE
        OBVIOUS
      <3>2. PICK B : Blocks(mem, B) /\ Owned(mem, B) /\ NextFitStructure(B)
        BY <1>1, SoundBlocks
      <3>3. blk \in B /\ ~mem[blk].used /\ ReturnBlock(blk)
        BY <3>1, <3>2, <1>1, TakenBlock
      <3>4. blk \in Int
        BY <3>2, <3>3, <1>1, HeaderFacts DEF Blocks, NextInv
      <3>5. blk + 1 \in DOMAIN live
        BY <3>3, <1>1 DEF ReturnBlock, get_payload, HEADER_SIZE
      <3>6. get_block_start(blk + 1) = blk
        BY <3>4 DEF get_block_start, HEADER_SIZE
      <3>7. mem[blk].used
        BY <3>5, <3>6, <3>2 DEF Owned
      <3> QED BY <3>3, <3>7
    <2>2. NextFitFail
      BY <1>1, <2>1 DEF Next, Search, heap_malloc, NextFitWrap, NextFitPass, StepOver,
         ScanUndefined, heap_free, vars, locals, FirstFitTake, FirstFitPass, FirstFitFail,
         BestFitStep, BestFitTake, BestFitFail, Scanning, NextInv, FIRSTFIT, BESTFIT, NEXTFIT
    <2> QED BY <1>1, <2>2, NullMisses DEF Blocks
  <1>2. NextInv /\ [Next]_vars => [Misses]_vars
    BY <1>1
  <1>3. NullMissesOnlyFirst <=> [][Misses]_vars
    BY DEF NullMissesOnlyFirst
  <1> HIDE DEF Misses
  <1>4. Spec => [][Misses]_vars
    BY <1>2, NextFitSafety, PTL DEF Spec
  <1> QED BY <1>3, <1>4

----
(* No step from a sound heap disturbs the payload of another block.        *)

(* Block b holds a payload of at least u words, and nothing else.          *)
Intact(m, b, u) ==
    m[b] # Junk /\ u <= get_payload_size(m, b) /\ ClientOnly(m, b)

LEMMA IntactClient ==
    PayloadsIntact <=> \A p \in DOMAIN live : Intact(mem, get_block_start(p), live[p])
  BY DEF PayloadsIntact, Intact, ClientOnly

LEMMA IntactClientNext ==
    PayloadsIntact' <=> \A p \in DOMAIN live' : Intact(mem', get_block_start(p), live'[p])
  BY DEF PayloadsIntact, Intact, ClientOnly

(* A block whose words did not change is still intact. *)
LEMMA StillIntact ==
    ASSUME NEW m \in Memory, NEW m2 \in Memory, NEW B, Blocks(m, B), NEW b \in B,
           NEW S, SameBlocks(m, m2, S), b \in S, NEW u, Intact(m, b, u)
    PROVE  Intact(m2, b, u)
  <1>1. b \in Words /\ m[b].size \in Nat /\ b + m[b].size <= HeapSize
    BY HeaderFacts DEF Blocks
  <1>2. m2[b] = m[b] /\ \A o \in Words : b <= o /\ o < b + m[b].size => m2[o] = m[o]
    BY DEF SameBlocks
  <1>3. PayloadWords(m2, b) = PayloadWords(m, b)
    BY <1>2 DEF PayloadWords, get_block_size
  <1>4. ASSUME NEW o \in PayloadWords(m, b) PROVE m2[o] = Junk
    <2>1. o \in Words /\ b <= o /\ o < b + m[b].size
      BY <1>1, SizeAssumption DEF PayloadWords, get_block_size, HEADER_SIZE, Words
    <2>2. m[o] = Junk
      BY DEF Intact, ClientOnly
    <2> QED BY <2>1, <2>2, <1>2
  <1>5. ClientOnly(m2, b)
    BY <1>3, <1>4 DEF ClientOnly
  <1> QED BY <1>2, <1>5 DEF Intact, get_payload_size, get_block_size

(* heap_malloc rewrites the words of the block it returns only. *)
LEMMA TakeKeepsPayloads ==
    ASSUME NextInv, NextFitConsistent, NextFitTake, PayloadsIntact
    PROVE  PayloadsIntact'
  <1>1. PICK B : /\ Blocks(mem, B) /\ Merged(mem, B) /\ Owned(mem, B)
                 /\ NextFitStructure(B)
    BY SoundBlocks
  <1>2. /\ blk \in B /\ ~mem[blk].used /\ realSize <= mem[blk].size
        /\ user_size \in Requests /\ realSize = get_size_to_allocate(user_size)
        /\ ReturnBlock(blk)
    BY <1>1, TakenBlock
  <1>3. /\ mem \in Memory /\ blk \in Words /\ blk \in Int /\ mem[blk].size \in Nat
        /\ blk + mem[blk].size \in Int
    BY <1>1, <1>2, HeaderFacts DEF NextInv, Blocks
  <1>4. /\ realSize \in Nat /\ realSize >= 2 /\ realSize % 2 = 0
        /\ realSize >= user_size + 2 /\ user_size \in Nat
    BY <1>2, SizeToAllocate, RequestAssumption
  <1> DEFINE q == HandOver(prepare_block_for_use(mem, blk, realSize), blk)
  <1>5. Given(mem, q, B, blk, realSize)
    BY <1>1, <1>2, <1>3, <1>4, Prepared
  <1>6. mem' = q
    BY <1>2 DEF ReturnBlock
  <1> HIDE DEF q
  <1>7. /\ mem' \in Memory /\ realSize <= mem'[blk].size /\ ClientOnly(mem', blk)
        /\ SameOutside(mem, mem', blk, blk + mem[blk].size)
        /\ \E C : Blocks(mem', C) /\ B \subseteq C
    BY <1>5, <1>6 DEF Given
  <1>8. SameBlocks(mem, mem', B \ {blk})
    <2>1. \A c \in B \ {blk} : c + mem[c].size <= blk \/ blk + mem[blk].size <= c
      BY <1>1, <1>2, <1>3, Apart
    <2> QED BY <2>1, <1>1, <1>2, <1>3, <1>7, Untouched
  <1>9. /\ DOMAIN live' = DOMAIN live \cup {blk + 1}
        /\ live'[blk + 1] = user_size
        /\ \A p \in DOMAIN live : p # blk + 1 => live'[p] = live[p]
    BY <1>2 DEF ReturnBlock, get_payload, HEADER_SIZE
  <1>10. ASSUME NEW p \in DOMAIN live'
         PROVE  Intact(mem', get_block_start(p), live'[p])
    <2>1. CASE p = blk + 1
      <3>1. get_block_start(p) = blk /\ live'[p] = user_size
        BY <2>1, <1>3, <1>9 DEF get_block_start, HEADER_SIZE
      <3>2. mem'[blk] # Junk /\ mem'[blk].size \in Nat
        BY <1>2, <1>7, HeaderFacts DEF Blocks, Headers
      <3>3. user_size <= get_payload_size(mem', blk)
        BY <3>2, <1>4, <1>7 DEF get_payload_size, get_block_size, HEADER_SIZE
      <3> QED BY <3>1, <3>2, <3>3, <1>7 DEF Intact
    <2>2. CASE p # blk + 1
      <3>1. p \in DOMAIN live /\ live'[p] = live[p]
        BY <2>2, <1>9
      <3>2. get_block_start(p) \in B \ {blk}
        <4>1. get_block_start(p) \in {c \in B : mem[c].used}
          BY <3>1, <1>1 DEF Owned
        <4> QED BY <4>1, <1>2
      <3>3. Intact(mem, get_block_start(p), live[p])
        BY <3>1, IntactClient
      <3> QED BY <3>1, <3>2, <3>3, <1>1, <1>3, <1>7, <1>8, StillIntact
    <2> QED BY <2>1, <2>2
  <1> QED BY <1>10, IntactClientNext

(* heap_free leaves the blocks in use alone, whichever it merges. *)
LEMMA FreeKeepsPayloads ==
    ASSUME NextInv, NextFitConsistent, NEW payload \in DOMAIN live, heap_free(payload),
           PayloadsIntact
    PROVE  PayloadsIntact'
  <1> DEFINE b == get_block_start(payload)
             k == MergeAround(MarkFree(mem, b), b, get_previous_block(mem, b))
  <1>1. PICK B : /\ Blocks(mem, B) /\ Merged(mem, B) /\ Owned(mem, B)
                 /\ NextFitStructure(B)
    BY SoundBlocks
  <1>2. /\ mem \in Memory /\ mem[-1] # Junk /\ hnext \in B
        /\ \A p \in DOMAIN live : p \in Int
    BY <1>1 DEF NextInv, NextFitStructure
  <1>3. b \in B /\ mem[b].used
    BY <1>1 DEF Owned
  <1>4. /\ mem[b] # Junk /\ mem[b - HEADER_SIZE] # Junk
        /\ MergeDefined(MarkFree(mem, b), b, get_previous_block(mem, b))
        /\ k \in Memory
        /\ SameBlocks(mem, k, {c \in B : mem[c].used} \ {b})
    BY <1>1, <1>2, <1>3, FreedBlock
  <1>5. FreeDefined(b)
    BY <1>1, <1>2, <1>4 DEF FreeDefined, Blocks, Headers
  <1>6. mem' = k /\ live' = [p \in DOMAIN live \ {payload} |-> live[p]]
    BY <1>5 DEF heap_free
  <1> HIDE DEF k
  <1>7. ASSUME NEW p \in DOMAIN live'
        PROVE  Intact(mem', get_block_start(p), live'[p])
    <2>1. p \in DOMAIN live /\ p # payload /\ live'[p] = live[p]
      BY <1>6
    <2>2. get_block_start(p) # b
      BY <2>1, <1>2 DEF get_block_start, HEADER_SIZE
    <2>3. get_block_start(p) \in {c \in B : mem[c].used} \ {b}
      BY <2>1, <2>2, <1>1 DEF Owned
    <2>4. Intact(mem, get_block_start(p), live[p])
      BY <2>1, IntactClient
    <2> QED BY <2>1, <2>3, <2>4, <1>1, <1>2, <1>4, <1>6, StillIntact
  <1> QED BY <1>7, IntactClientNext

LEMMA KeepsPayloads ==
    ASSUME NextInv, [Next]_vars, NextFitConsistent, PayloadsIntact
    PROVE  PayloadsIntact'
  <1>1. CASE NextFitTake
    BY <1>1, TakeKeepsPayloads
  <1>2. CASE \E payload \in DOMAIN live : heap_free(payload)
    BY <1>2, FreeKeepsPayloads
  <1>3. CASE UNCHANGED <<mem, live>>
    BY <1>3 DEF PayloadsIntact
  <1>4. CASE \/ \E u \in Requests : heap_malloc(u)
             \/ NextFitWrap \/ NextFitPass \/ NextFitFail \/ ScanUndefined
    BY <1>3, <1>4 DEF heap_malloc, NextFitWrap, NextFitPass, NextFitFail, StepOver,
       ReturnNull, Return, ScanUndefined
  <1>5. CASE UNCHANGED vars
    BY <1>3, <1>5 DEF vars
  <1>6. CASE \/ FirstFitTake \/ FirstFitPass \/ FirstFitFail
             \/ BestFitStep \/ BestFitTake \/ BestFitFail
    BY <1>6 DEF FirstFitTake, FirstFitPass, FirstFitFail, BestFitStep, BestFitTake,
                BestFitFail, Scanning, NextInv, FIRSTFIT, BESTFIT, NEXTFIT
  <1> QED BY <1>1, <1>2, <1>4, <1>5, <1>6 DEF Next, Search

(* No step from a sound heap, the merge that spoils h->next included, puts *)
(* a header or a footer into a payload the client holds.                   *)
THEOREM NextFitPayloadsKept ==
    ASSUME NextOnly
    PROVE  Spec => PayloadsKept
  <1> DEFINE Keeps == NextFitConsistent /\ PayloadsIntact => PayloadsIntact'
  <1>1. NextInv /\ [Next]_vars => [Keeps]_vars
    BY KeepsPayloads
  <1>2. PayloadsKept <=> [][Keeps]_vars
    BY DEF PayloadsKept
  <1> HIDE DEF Keeps
  <1>3. Spec => [][Keeps]_vars
    BY <1>1, NextFitSafety, PTL DEF Spec
  <1> QED BY <1>2, <1>3

----
(* A client that avoids the merge.  Then IInv, the invariant of first fit  *)
(* and best fit, holds under next fit too: its search knows nothing of     *)
(* what it has passed, but stands on a block.                              *)
Careful == [][~Spoils]_vars

CarefulInv == NextInv /\ NextFitConsistent /\ IInv

LEMMA CarefulInit ==
    ASSUME NextOnly, Init
    PROVE  CarefulInv
  <1>1. NextInv /\ IInv
    BY InitNextInv, InitIInv
  <1>2. PICK B \in SUBSET Headers(mem) : Structure(B)
    BY <1>1 DEF IInv, FitInvariant
  <1>3. Blocks(mem, B)
    BY <1>2 DEF Structure, Blocks
  <1>4. 0 \in B
    BY <1>1, <1>3, FirstBlock DEF NextInv
  <1>5. NextFitStructure(B)
    BY <1>2, <1>4 DEF NextFitStructure, Init
  <1> QED BY <1>1, <1>2, <1>5 DEF CarefulInv, NextFitConsistent

(* The search of next fit, but for the step that returns a block, leaves   *)
(* the blocks alone.                                                       *)
LEMMA SearchKeepsIInv ==
    ASSUME CarefulInv, NextInv', NextFitConsistent',
           \/ \E u \in Requests : heap_malloc(u)
           \/ NextFitWrap \/ NextFitPass \/ NextFitFail
    PROVE  IInv'
  <1>1. PICK B : /\ Blocks(mem', B) /\ Merged(mem', B) /\ Owned(mem, B)'
                 /\ NextFitStructure(B)' /\ SearchSound(B)'
    <2>1. PICK B \in SUBSET Headers(mem') : NextFitStructure(B)'
      BY DEF NextFitConsistent
    <2>2. Blocks(mem', B) /\ Merged(mem', B) /\ Owned(mem, B)'
      BY <2>1 DEF NextFitStructure, Structure, Blocks
    <2>3. SearchSound(B)'
      BY <2>1 DEF NextInv, Searching, NextFitStructure, SearchSound,
                  FIRSTFIT, NEXTFIT, BESTFIT
    <2> QED BY <2>1, <2>2, <2>3
  <1>2. UNCHANGED <<search_alg, mem, live>> /\ pc' \in {"idle", "scan"}
    BY DEF heap_malloc, NextFitWrap, NextFitPass, NextFitFail, StepOver, ReturnNull,
           Return, Scanning
  <1>3. TypeOK'
    <2>1. HeapSize \in Nat /\ SizeModulus - 1 \in Nat
      BY SizeAssumption DEF HEADER_SIZE
    <2>2. user_size' \in Nat /\ realSize' \in Nat /\ flag' \in BOOLEAN
          /\ minBlk' \in Words \cup {NULL} /\ minBlkSize' \in Nat
      <3>1. \A u \in Requests : u \in Nat /\ get_size_to_allocate(u) \in Nat
        BY SizeToAllocate, RequestAssumption
      <3>2. CASE \E u \in Requests : heap_malloc(u)
        BY <3>1, <3>2, <2>1 DEF heap_malloc
      <3>3. CASE NextFitWrap \/ NextFitPass
        BY <3>3 DEF CarefulInv, IInv, TypeOK, NextFitWrap, NextFitPass, StepOver
      <3>4. CASE NextFitFail
        BY <3>4 DEF NextFitFail, ReturnNull, Return
      <3> QED BY <3>2, <3>3, <3>4
    <2>3. blk' \in 0 .. HeapSize
      <3>1. CASE pc' = "scan"
        <4>1. blk' \in B \cup {HeapSize}
          BY <3>1, <1>1 DEF NextFitStructure
        <4>2. \A c \in B : c \in 0 .. HeapSize
          BY <1>1, <1>2, <2>1, HeaderFacts DEF NextInv, Blocks, Words
        <4> QED BY <4>1, <4>2, <2>1
      <3>2. CASE pc' # "scan"
        BY <3>2, <2>1 DEF heap_malloc, NextFitWrap, NextFitPass, NextFitFail, StepOver,
           ReturnNull, Return, Scanning
      <3> QED BY <3>1, <3>2
    <2> QED BY <2>2, <2>3, <1>2 DEF CarefulInv, IInv, TypeOK, NextInv
  <1>4. FitInvariant'
    <2>1. B \in SUBSET Headers(mem') /\ Structure(B)'
      BY <1>1 DEF Blocks, NextFitStructure
    <2> QED BY <2>1, <1>1, <1>2 DEF FitInvariant, NextInv
  <1>5. PayloadsIntact' /\ WasteBounded'
    BY <1>2 DEF CarefulInv, IInv, PayloadsIntact, WasteBounded
  <1> QED BY <1>3, <1>4, <1>5 DEF IInv

(* Every step of a careful client's heap preserves the invariant. *)
LEMMA CarefulNext ==
    ASSUME CarefulInv, [Next]_vars, [~Spoils]_vars
    PROVE  CarefulInv'
  <1>1. NextInv'
    BY NextNextInv DEF CarefulInv
  <1>2. NextFitConsistent'
    <2>1. CASE ~Spoils
      BY <2>1, StaysSound DEF CarefulInv
    <2>2. CASE UNCHANGED vars
      BY <2>2 DEF CarefulInv, vars, locals, NextFitConsistent, NextFitStructure, Structure,
                  Headers, Tiling, Merged, Owned
    <2> QED BY <2>1, <2>2
  <1>3. IInv'
    <2>1. CASE \/ \E u \in Requests : heap_malloc(u)
               \/ NextFitWrap \/ NextFitPass \/ NextFitFail
      BY <1>1, <1>2, <2>1, SearchKeepsIInv
    <2>2. CASE NextFitTake
      <3>1. PICK B : /\ Blocks(mem, B) /\ Merged(mem, B) /\ Owned(mem, B)
                     /\ NextFitStructure(B)
        BY SoundBlocks DEF CarefulInv
      <3>2. /\ blk \in B /\ ~mem[blk].used /\ realSize <= mem[blk].size
            /\ user_size \in Requests /\ realSize = get_size_to_allocate(user_size)
            /\ ReturnBlock(blk) /\ hnext' = blk /\ UNCHANGED search_alg
        BY <2>2, <3>1, TakenBlock DEF CarefulInv
      <3>3. hnext' \in Words
        BY <1>1 DEF NextInv
      <3> QED BY <3>1, <3>2, <3>3, ReturnBlockStep DEF CarefulInv
    <2>3. CASE \E payload \in DOMAIN live : heap_free(payload)
      BY <2>3, FreeStep DEF CarefulInv
    <2>4. CASE ScanUndefined
      BY <2>4, NeverUndefined DEF CarefulInv
    <2>5. CASE UNCHANGED vars
      BY <2>5 DEF CarefulInv, IInv, TypeOK, FitInvariant, Structure, Tiling, Merged, Owned,
         Headers, SearchSound, PayloadsIntact, WasteBounded, vars, locals,
         get_payload_size, get_block_size, PayloadWords
    <2>6. CASE \/ FirstFitTake \/ FirstFitPass \/ FirstFitFail
               \/ BestFitStep \/ BestFitTake \/ BestFitFail
      BY <2>6 DEF CarefulInv, FirstFitTake, FirstFitPass, FirstFitFail, BestFitStep,
         BestFitTake, BestFitFail, Scanning, NextInv, FIRSTFIT, BESTFIT, NEXTFIT
    <2> QED BY <2>1, <2>2, <2>3, <2>4, <2>5, <2>6 DEF Next, Search
  <1> QED BY <1>1, <1>2, <1>3 DEF CarefulInv

(* The case heap_free's comment warns of is the only thing wrong with next *)
(* fit: a client that never makes it happen has, for ever, a heap as sound *)
(* as under the other searches, with payloads that share no word with each *)
(* other or with a header, no more waste than prepare_block_for_use        *)
(* allows, and no undefined step.                                          *)
THEOREM NextFitCarefulClient ==
    ASSUME NextOnly
    PROVE  Spec /\ Careful =>
             [](/\ NextFitConsistent /\ HeapConsistent /\ LivePayloadsDisjoint
                /\ PayloadsIntact /\ WasteBounded /\ TypeOK /\ pc # "undefined")
  <1> DEFINE Sound == /\ NextFitConsistent /\ HeapConsistent /\ LivePayloadsDisjoint
                      /\ PayloadsIntact /\ WasteBounded /\ TypeOK /\ pc # "undefined"
  <1>1. Init => CarefulInv
    BY CarefulInit
  <1>2. CarefulInv /\ [Next]_vars /\ [~Spoils]_vars => CarefulInv'
    BY CarefulNext
  <1>3. CarefulInv => Sound
    BY PayloadsApart DEF CarefulInv, IInv, FitInvariant, HeapConsistent
  <1> HIDE DEF Sound
  <1>4. Spec /\ Careful => []Sound
    BY <1>1, <1>2, <1>3, PTL DEF Spec, Careful
  <1> QED BY <1>4 DEF Sound

----
(* The allocator's client sees of such a heap what it would see of one     *)
(* that searches from the start, but for the block the wrap steps over:    *)
(* a request for u words may be refused although the words at the start of *)
(* the heap would do, and all vacant runs that would are a part of those.  *)
RefuseAllButFirst(u) ==
    /\ Pending = {u} /\ Pending' = {}
    /\ Granted' = Granted
    /\ \A b \in Words :
          b + get_size_to_allocate(u) <= HeapSize /\ A!Vacant(b, get_size_to_allocate(u))
              => A!Vacant(0, b + get_size_to_allocate(u))

LEMMA NextFitRefuses ==
    ASSUME NextInv, NextFitConsistent, NextFitFail
    PROVE  user_size \in Requests /\ RefuseAllButFirst(user_size)
  <1>1. /\ mem \in Memory
        /\ user_size \in Requests /\ realSize = get_size_to_allocate(user_size)
    BY NullMisses
  <1>2. PICK B : /\ Blocks(mem, B) /\ Merged(mem, B) /\ Owned(mem, B)
                 /\ \A c \in B : ~mem[c].used /\ mem[c].size >= realSize => c = 0
    BY NullMisses
  <1>3. realSize \in Nat /\ realSize >= 2
    BY <1>1, SizeToAllocate
  <1>4. \A c \in B : c \in Int /\ 0 <= c /\ mem[c].size \in Nat
    BY <1>1, <1>2, HeaderFacts DEF Blocks
  <1>5. ASSUME NEW b \in Words, b + realSize <= HeapSize, A!Vacant(b, realSize)
        PROVE  A!Vacant(0, b + realSize)
    <2>1. PICK c \in B : /\ ~mem[c].used /\ mem[c].size >= realSize
                         /\ b + realSize <= c + mem[c].size
      BY <1>1, <1>2, <1>3, <1>5, VacantRunInFreeBlock
    <2>2. c = 0
      BY <1>2, <2>1
    <2>3. ASSUME NEW d \in DOMAIN Granted
          PROVE  0 + (b + realSize) <= d
      <3>1. d \in B /\ mem[d].used
        BY <1>2, GrantedBlocks
      <3>2. d # 0 /\ (0 + mem[0].size <= d \/ d + mem[d].size <= 0)
        BY <3>1, <2>1, <2>2, <1>1, <1>2, Apart
      <3>3. mem[d].size >= 2
        BY <3>1, <1>1, <1>2, HeaderFacts DEF Blocks
      <3>4. mem[0].size \in Nat /\ mem[d].size \in Nat /\ d \in Int /\ 0 <= d
        BY <3>1, <2>1, <2>2, <1>4
      <3> QED BY <3>2, <3>3, <3>4, <2>1, <2>2, <1>3, SizeAssumption DEF Words
    <2> QED BY <2>3 DEF A!Vacant
  <1>6. Pending = {user_size} /\ Pending' = {} /\ Granted' = Granted
    BY DEF Pending, Granted, NextFitFail, Scanning, ReturnNull, Return
  <1> QED BY <1>1, <1>5, <1>6 DEF RefuseAllButFirst

LEMMA CarefulRefines ==
    ASSUME CarefulInv, CarefulInv', [Next]_vars
    PROVE  \/ A!Next \/ \E u \in Requests : RefuseAllButFirst(u)
           \/ UNCHANGED <<Granted, Pending>>
  <1>1. CASE \E u \in Requests : heap_malloc(u)
    BY <1>1, MallocRefines DEF A!Next
  <1>2. CASE NextFitTake
    <2>1. PICK B : /\ Blocks(mem, B) /\ Merged(mem, B) /\ Owned(mem, B)
                   /\ NextFitStructure(B)
      BY SoundBlocks DEF CarefulInv
    <2>2. /\ pc = "scan" /\ blk \in B /\ ~mem[blk].used /\ realSize <= mem[blk].size
          /\ user_size \in Requests /\ realSize = get_size_to_allocate(user_size)
          /\ ReturnBlock(blk)
      BY <1>2, <2>1, TakenBlock DEF CarefulInv
    <2> QED BY <2>1, <2>2, BlockRefines DEF A!Next, CarefulInv
  <1>3. CASE NextFitWrap \/ NextFitPass
    BY <1>3, SearchRefines DEF NextFitWrap, NextFitPass, StepOver
  <1>4. CASE NextFitFail
    BY <1>4, NextFitRefuses DEF CarefulInv
  <1>5. CASE \E payload \in DOMAIN live : heap_free(payload)
    BY <1>5, FreeRefines DEF A!Next, CarefulInv, IInv, FitInvariant
  <1>6. CASE ScanUndefined
    BY <1>6, NeverUndefined DEF CarefulInv
  <1>7. CASE UNCHANGED vars
    BY <1>7, SearchRefines DEF vars, locals
  <1>8. CASE \/ FirstFitTake \/ FirstFitPass \/ FirstFitFail
             \/ BestFitStep \/ BestFitTake \/ BestFitFail
    BY <1>8 DEF CarefulInv, FirstFitTake, FirstFitPass, FirstFitFail, BestFitStep,
       BestFitTake, BestFitFail, Scanning, NextInv, FIRSTFIT, BESTFIT, NEXTFIT
  <1> QED BY <1>1, <1>2, <1>3, <1>4, <1>5, <1>6, <1>7, <1>8 DEF Next, Search

(* Under next fit, the heap of a client that avoids the merge grants and   *)
(* releases blocks as an allocator does, and refuses a request only when   *)
(* all the room there is for it is at the start of the heap.               *)
THEOREM NextFitAllocates ==
    ASSUME NextOnly
    PROVE  Spec /\ Careful =>
             /\ A!Init
             /\ [][A!Next \/ \E u \in Requests : RefuseAllButFirst(u)]_<<Granted, Pending>>
  <1> DEFINE Allocates == A!Next \/ \E u \in Requests : RefuseAllButFirst(u)
  <1>1. Init => CarefulInv /\ A!Init
    BY CarefulInit, InitRefines
  <1>2. CarefulInv /\ [Next]_vars /\ [~Spoils]_vars => CarefulInv'
    BY CarefulNext
  <1>3. CarefulInv /\ CarefulInv' /\ [Next]_vars => [Allocates]_<<Granted, Pending>>
    BY CarefulRefines
  <1> HIDE DEF Allocates
  <1>4. Spec /\ Careful => A!Init /\ [][Allocates]_<<Granted, Pending>>
    BY <1>1, <1>2, <1>3, PTL DEF Spec, Careful
  <1> QED BY <1>4 DEF Allocates

----
(* Searches end, even those of a spoilt heap, which may follow tags that    *)
(* are no headers: every tag leads forward.  The heap takes less than a     *)
(* quarter of the sizes there are, so that no sum in Splits wraps.          *)
SmallHeap ==
    /\ 4 * HeapSize <= SizeModulus
    /\ 2 * HeapSize + MAX_UNUSED_BYTES < SizeModulus

(* A tag is not empty, and where it leads from has a bound. *)
Forward(m) ==
    \A o \in Words : m[o] # Junk => m[o].size >= 1 /\ o + m[o].size < 2 * HeapSize

ForwardInv ==
    /\ Forward(mem)
    /\ pc = "scan" => realSize >= 1

LEMMA SetHeaderForward ==
    ASSUME NEW m, Typed(m), Forward(m), NEW b \in Nat, NEW s \in Nat, s >= 1,
           b + s < 2 * HeapSize, NEW u \in BOOLEAN
    PROVE  Forward(set_block_header(m, b, s, u))
  <1> DEFINE n == set_block_header(m, b, s, u)
  <1>1. HeapSize \in Nat /\ Tag(s, u).size = s
    BY SizeAssumption, TagFacts
  <1>2. \A o \in Words : \/ n[o] = m[o]
                         \/ n[o] = Tag(s, u) /\ (o = b \/ o = b + s - 1)
    BY SizeAssumption DEF Typed, Memory, Words, set_block_header, HEADER_SIZE
  <1> HIDE DEF n
  <1>3. SUFFICES ASSUME NEW o \in Words, n[o] # Junk
                 PROVE  n[o].size >= 1 /\ o + n[o].size < 2 * HeapSize
    BY DEF Forward, n
  <1>4. o \in Nat /\ o <= HeapSize - 1
    BY <1>1 DEF Words
  <1>5. CASE n[o] = m[o]
    BY <1>3, <1>5 DEF Forward
  <1>6. CASE n[o] = Tag(s, u) /\ o = b
    BY <1>1, <1>6
  <1>7. CASE n[o] = Tag(s, u) /\ o = b + s - 1
    <2>1. s <= o + 1
      BY <1>7
    <2> QED BY <1>1, <1>4, <1>7, <2>1
  <1> QED BY <1>2, <1>5, <1>6, <1>7

LEMMA CoalesceForward ==
    ASSUME NEW m, Typed(m), Forward(m), NEW b \in Words, CoalesceDefined(m, b)
    PROVE  Forward(coalesce(m, b))
  <1> DEFINE n == b + m[b].size
  <1>1. m[b] # Junk /\ b \in Nat
    BY DEF CoalesceDefined, Words
  <1>2. CASE n \in Words
    <2>1. m[n] # Junk
      BY <1>2 DEF CoalesceDefined, get_next_block, get_block_size, is_within_heap_range
    <2>2. m[b].size \in Nat /\ m[n].size \in Nat
      BY <1>1, <1>2, <2>1, WordTyped
    <2>3. m[b].size >= 1 /\ n + m[n].size < 2 * HeapSize
      BY <1>1, <1>2, <2>1 DEF Forward
    <2> DEFINE k == m[b].size + m[n].size
    <2>4. k \in Nat /\ k >= 1 /\ b + k < 2 * HeapSize
      BY <1>1, <2>2, <2>3, SizeAssumption
    <2> HIDE DEF k
    <2>5. Forward(set_block_header(m, b, k, FALSE))
      BY <1>1, <2>4, SetHeaderForward
    <2> QED BY <2>5 DEF coalesce, get_next_block, get_block_size, k
  <1>3. CASE n \notin Words
    BY <1>3 DEF coalesce, get_next_block, get_block_size, is_within_heap_range
  <1> QED BY <1>2, <1>3

LEMMA MergeForward ==
    ASSUME NEW m, Typed(m), Forward(m), NEW b \in Words, m[b] # Junk, NEW p,
           MergeDefined(MarkFree(m, b), b, p)
    PROVE  Forward(MergeAround(MarkFree(m, b), b, p))
  <1> DEFINE f == MarkFree(m, b)
             j == coalesce(f, b)
  <1>1. /\ m[b].size \in Nat /\ b \in Nat /\ b \in Int
        /\ m[b].size >= 1 /\ b + m[b].size < 2 * HeapSize
    BY WordTyped DEF Words, Forward
  <1>2. Typed(f) /\ Forward(f)
    BY <1>1, SetHeaderTyped, SetHeaderForward DEF MarkFree, get_block_size
  <1> HIDE DEF f
  <1>3. CoalesceDefined(f, b) /\ (p \in Words => CoalesceDefined(j, p))
    BY DEF MergeDefined, is_within_heap_range, f
  <1>4. Typed(j) /\ Forward(j)
    BY <1>2, <1>3, CoalesceTyped, CoalesceForward
  <1> HIDE DEF j
  <1>5. CASE p \in Words
    <2>1. Forward(coalesce(j, p))
      BY <1>3, <1>4, <1>5, CoalesceForward
    <2> QED BY <2>1, <1>5 DEF MergeAround, is_within_heap_range, j, f
  <1>6. CASE p \notin Words
    BY <1>4, <1>6 DEF MergeAround, is_within_heap_range, j, f
  <1> QED BY <1>5, <1>6

(* A block that is split leaves something behind the part that is used.     *)
LEMMA PrepareForward ==
    ASSUME SmallHeap, NEW m, Typed(m), Forward(m), NEW b \in Words, m[b] # Junk,
           NEW r \in Nat, r >= 1, r <= m[b].size
    PROVE  Forward(HandOver(prepare_block_for_use(m, b, r), b))
  <1> DEFINE s == m[b].size
             n == prepare_block_for_use(m, b, r)
  <1>1. /\ s \in Nat /\ b \in Nat /\ s >= 1 /\ b + s < 2 * HeapSize
        /\ HeapSize \in Nat /\ SizeModulus \in Nat
        /\ MAX_UNUSED_BYTES \in Nat /\ MAX_UNUSED_BYTES >= 2
    BY WordTyped, SizeAssumption DEF Words, Forward, HEADER_SIZE
  <1>2. Typed(n) /\ Forward(n)
    <2>1. CASE Splits(s, r)
      <3>1. Wrap(2 * r) = 2 * r /\ Wrap(r + MAX_UNUSED_BYTES) = r + MAX_UNUSED_BYTES
        BY <1>1 DEF SmallHeap, Wrap
      <3>2. s > 2 * r \/ s > r + MAX_UNUSED_BYTES
        BY <2>1, <3>1 DEF Splits
      <3> DEFINE k == set_block_header(m, b, r, TRUE)
      <3>3. n = set_block_header(k, b + r, s - r, FALSE)
        BY <2>1 DEF prepare_block_for_use, get_block_size
      <3> HIDE DEF n, s
      <3>4. r <= s
        BY DEF s
      <3>5. /\ b + r < 2 * HeapSize /\ b \in Int
            /\ b + r \in Nat /\ b + r \in Int
            /\ s - r \in Nat /\ s - r >= 1 /\ (b + r) + (s - r) < 2 * HeapSize
        BY <1>1, <3>2, <3>4
      <3>6. Typed(k) /\ Forward(k)
        BY <1>1, <3>5, SetHeaderTyped, SetHeaderForward
      <3> HIDE DEF k
      <3>7. Typed(n)
        BY <3>3, <3>5, <3>6, SetHeaderTyped
      <3>8. Forward(n)
        BY <3>3, <3>5, <3>6, SetHeaderForward
      <3> QED BY <3>7, <3>8
    <2>2. CASE ~Splits(s, r)
      <3>1. b \in Int
        BY <1>1
      <3>2. Typed(set_block_header(m, b, s, TRUE)) /\ Forward(set_block_header(m, b, s, TRUE))
        BY <1>1, <3>1, SetHeaderTyped, SetHeaderForward
      <3> QED BY <3>2, <2>2 DEF prepare_block_for_use, get_block_size
    <2> QED BY <2>1, <2>2
  <1> HIDE DEF n
  <1>3. \A o \in Words : HandOver(n, b)[o] # Junk => HandOver(n, b)[o] = n[o]
    <2>1. Words \subseteq DOMAIN n
      BY <1>1, <1>2 DEF Typed, Memory, Words
    <2> QED BY <2>1 DEF HandOver
  <1>4. Forward(HandOver(n, b))
    BY <1>2, <1>3 DEF Forward
  <1> QED BY <1>4 DEF n

LEMMA InitForward ==
    ASSUME Init PROVE ForwardInv
  <1>1. HeapSize \in Nat /\ HeapSize >= 2
    BY SizeAssumption DEF HEADER_SIZE
  <1>2. ASSUME NEW o \in Words, mem[o] # Junk PROVE mem[o] = Tag(HeapSize, FALSE)
    <2>1. o \in -1 .. HeapSize - 1 /\ o # -1
      BY <1>1 DEF Words
    <2> QED BY <1>2, <2>1 DEF Init
  <1>3. \A o \in Words : o \in Int /\ o < HeapSize
    BY <1>1 DEF Words
  <1>4. Tag(HeapSize, FALSE).size = HeapSize
    BY <1>1, TagFacts
  <1>5. ASSUME NEW o \in Words, mem[o] # Junk
        PROVE  mem[o].size >= 1 /\ o + mem[o].size < 2 * HeapSize
    <2>1. mem[o].size = HeapSize
      BY <1>2, <1>4, <1>5
    <2> QED BY <1>1, <1>3, <2>1
  <1> QED BY <1>5 DEF Init, ForwardInv, Forward

LEMMA NextForward ==
    ASSUME SmallHeap, NextInv, ForwardInv, [Next]_vars
    PROVE  ForwardInv'
  <1>1. Typed(mem)
    BY DEF NextInv, Typed
  <1>2. CASE \E u \in Requests : heap_malloc(u)
    <2>1. PICK u \in Requests : heap_malloc(u)
      BY <1>2
    <2>2. mem' = mem /\ realSize' = get_size_to_allocate(u)
      BY <2>1 DEF heap_malloc
    <2>3. realSize' >= 1
      BY <2>2, SizeToAllocate
    <2> QED BY <2>2, <2>3 DEF ForwardInv, Forward
  <1>3. CASE NextFitTake
    <2>1. /\ pc = "scan" /\ blk \in Words /\ mem[blk] # Junk
          /\ mem[blk].size >= realSize /\ ReturnBlock(blk)
      BY <1>3 DEF NextFitTake, Scanning, AtBlock, BlkFits, get_block_size,
                  is_within_heap_range
    <2>2. realSize \in Nat /\ realSize >= 1 /\ mem[blk].size \in Nat
      BY <1>1, <2>1, WordTyped, SizeToAllocate DEF NextInv, Searching, ForwardInv
    <2>3. Forward(HandOver(prepare_block_for_use(mem, blk, realSize), blk))
      <3>1. realSize <= mem[blk].size
        BY <2>1, <2>2
      <3> QED BY <1>1, <2>1, <2>2, <3>1, PrepareForward DEF ForwardInv
    <2>4. pc' = "idle" /\ mem' = HandOver(prepare_block_for_use(mem, blk, realSize), blk)
      BY <2>1 DEF ReturnBlock, Return
    <2> QED BY <2>3, <2>4 DEF ForwardInv
  <1>4. CASE \E payload \in DOMAIN live : heap_free(payload)
    <2>1. PICK payload \in DOMAIN live : heap_free(payload)
      BY <1>4
    <2> DEFINE b == get_block_start(payload)
    <2>2. b \in Words
      BY SizeAssumption DEF NextInv, Words, get_block_start, HEADER_SIZE
    <2>3. pc' \in {"idle", "undefined"}
      BY <2>1 DEF heap_free
    <2>4. CASE FreeDefined(b)
      <3>1. /\ mem[b] # Junk
            /\ MergeDefined(MarkFree(mem, b), b, get_previous_block(mem, b))
        BY <2>4 DEF FreeDefined
      <3>2. mem' = MergeAround(MarkFree(mem, b), b, get_previous_block(mem, b))
        BY <2>1, <2>4 DEF heap_free
      <3> HIDE DEF b
      <3>3. Forward(mem')
        BY <1>1, <2>2, <3>1, <3>2, MergeForward DEF ForwardInv
      <3> QED BY <2>3, <3>3 DEF ForwardInv
    <2>5. CASE ~FreeDefined(b)
      <3>1. mem' = mem
        BY <2>1, <2>5 DEF heap_free
      <3> QED BY <2>3, <3>1 DEF ForwardInv, Forward
    <2> QED BY <2>4, <2>5
  <1>5. CASE NextFitWrap \/ NextFitPass \/ NextFitFail \/ ScanUndefined \/ UNCHANGED vars
    <2>1. mem' = mem /\ (pc' = "scan" => pc = "scan" /\ realSize' = realSize)
      BY <1>5 DEF NextFitWrap, NextFitPass, NextFitFail, ScanUndefined, StepOver, ReturnNull,
                  Return, vars, locals
    <2> QED BY <2>1 DEF ForwardInv, Forward
  <1>6. CASE \/ FirstFitTake \/ FirstFitPass \/ FirstFitFail
             \/ BestFitStep \/ BestFitTake \/ BestFitFail
    BY <1>6 DEF FirstFitTake, FirstFitPass, FirstFitFail, BestFitStep, BestFitTake,
                BestFitFail, Scanning, NextInv, FIRSTFIT, BESTFIT, NEXTFIT
  <1> QED BY <1>2, <1>3, <1>4, <1>5, <1>6 DEF Next, Search

(* Even in a spoilt heap a search goes forward through the heap, and starts *)
(* over once at most: it has at most twice HeapSize iterations, whatever    *)
(* words it meets.                                                          *)
THEOREM NextFitSearchAdvances ==
    ASSUME NextOnly, SmallHeap
    PROVE  Spec => [][pc = "scan" /\ pc' = "scan" =>
                         /\ blk \in Words
                         /\ \/ ~flag /\ flag'
                            \/ flag' = flag /\ blk < blk']_vars
  <1>1. ASSUME NextInv, ForwardInv, Next, pc = "scan", pc' = "scan"
        PROVE  /\ blk \in Words
               /\ \/ ~flag /\ flag'
                  \/ flag' = flag /\ blk < blk'
    <2>1. CASE NextFitWrap
      BY <2>1 DEF NextFitWrap, Scanning, AtBlock, is_within_heap_range
    <2>2. CASE NextFitPass
      <3>1. /\ blk \in Words /\ mem[blk] # Junk /\ flag' = flag
            /\ blk' = blk + mem[blk].size
        BY <2>2 DEF NextFitPass, Scanning, AtBlock, StepOver, get_next_block, get_block_size,
                    is_within_heap_range
      <3>2. mem[blk].size \in Nat /\ mem[blk].size >= 1 /\ blk \in Int
        BY <1>1, <3>1, WordTyped DEF NextInv, Typed, ForwardInv, Forward, Words
      <3> QED BY <3>1, <3>2
    <2>3. \/ NextFitWrap \/ NextFitPass
          \/ FirstFitTake \/ FirstFitPass \/ FirstFitFail
          \/ BestFitStep \/ BestFitTake \/ BestFitFail
      <3>1. ~NextFitTake /\ ~NextFitFail /\ ~ScanUndefined
        BY <1>1 DEF NextFitTake, NextFitFail, ScanUndefined, ReturnBlock, ReturnNull, Return
      <3>2. /\ \A u \in Requests : ~heap_malloc(u)
            /\ \A payload \in DOMAIN live : ~heap_free(payload)
        BY <1>1 DEF heap_malloc, heap_free
      <3> QED BY <1>1, <3>1, <3>2 DEF Next, Search
    <2>4. CASE \/ FirstFitTake \/ FirstFitPass \/ FirstFitFail
               \/ BestFitStep \/ BestFitTake \/ BestFitFail
      BY <1>1, <2>4 DEF FirstFitTake, FirstFitPass, FirstFitFail, BestFitStep, BestFitTake,
                  BestFitFail, Scanning, NextInv, FIRSTFIT, BESTFIT, NEXTFIT
    <2> QED BY <2>1, <2>2, <2>3, <2>4
  <1>2. Init => ForwardInv
    BY InitForward
  <1>3. NextInv /\ ForwardInv /\ [Next]_vars => ForwardInv'
    BY NextForward
  <1>4. NextInv /\ ForwardInv /\ [Next]_vars =>
           [pc = "scan" /\ pc' = "scan" =>
               /\ blk \in Words
               /\ \/ ~flag /\ flag'
                  \/ flag' = flag /\ blk < blk']_vars
    BY <1>1
  <1> QED BY <1>2, <1>3, <1>4, NextFitSafety, PTL DEF Spec
====
