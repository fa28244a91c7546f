---- MODULE Heap ----
(***************************************************************************)
(* The boundary-tag heap of Heap-Implementation/implicit.c.                *)
(*                                                                         *)
(* The unit of length is the header word (4 bytes), so HEADER_SIZE is 1    *)
(* and PAYLOAD_ALIGN is 2; addresses are offsets from h->start.  `mem' is  *)
(* the heap area, word by word, with the word in front of it: a word the   *)
(* allocator wrote as a header or a footer holds a tag, every other word   *)
(* is Junk.  A payload becomes Junk when it is handed to the client, who   *)
(* may store anything there; nothing else erases an old tag.  Code that    *)
(* reads Junk as a tag has left the program's defined behaviour.           *)
(*                                                                         *)
(* heap_malloc is modelled one loop iteration at a time, heap_free whole.  *)
(***************************************************************************)
EXTENDS Integers

CONSTANTS HeapSize,          \* h->size, in words
          MAX_UNUSED_BYTES,  \* in words
          SizeModulus,       \* block_size_t counts modulo this
          Requests,          \* the sizes the client asks for, in words
          SearchAlgs,        \* the search algorithms heap_create may be given
          GuardSizes,        \* what the word before h->start reads as a size
          Junk, NULL

HEADER_SIZE == 1
PAYLOAD_ALIGN == 2

FIRSTFIT == "HEAP_FIRSTFIT"
NEXTFIT == "HEAP_NEXTFIT"
BESTFIT == "HEAP_BESTFIT"

Tags == [size : Nat, used : BOOLEAN]
Tag(n, in_use) == [size |-> n, used |-> in_use]

(* The heap is a whole number of aligned blocks and sums of two sizes do   *)
(* not wrap; a request leaves room for its headers and its padding.        *)
ASSUME SizeAssumption ==
    /\ HeapSize \in Nat /\ HeapSize >= 2 * HEADER_SIZE
    /\ HeapSize % PAYLOAD_ALIGN = 0
    /\ MAX_UNUSED_BYTES \in Nat /\ MAX_UNUSED_BYTES >= 2 * HEADER_SIZE
    /\ SizeModulus \in Nat
    /\ 2 * HeapSize < SizeModulus /\ HeapSize + MAX_UNUSED_BYTES < SizeModulus
ASSUME RequestAssumption ==
    /\ Requests \subseteq Nat
    /\ \A u \in Requests : u + 2 * HEADER_SIZE + PAYLOAD_ALIGN < SizeModulus
ASSUME GuardAssumption == GuardSizes \subseteq Nat
ASSUME AlgAssumption == SearchAlgs \subseteq {FIRSTFIT, NEXTFIT, BESTFIT}
ASSUME MarkAssumption == Junk \notin Tags /\ NULL \notin Int

Words == 0 .. HeapSize - 1

VARIABLES search_alg, mem,
          hnext,         \* h->next
          live,          \* client: [payload it holds -> size it asked for]
          pc,            \* "idle", "scan" (inside heap_malloc), "undefined"
          user_size, realSize, blk, flag, minBlk, minBlkSize  \* malloc's locals

locals == <<user_size, realSize, blk, flag, minBlk, minBlkSize>>
vars == <<search_alg, mem, hnext, live, pc, locals>>

----
(* Helpers of implicit.c, over a memory m. *)

(* Sums of two sizes in block_size_t. *)
Wrap(n) == IF n >= SizeModulus THEN n - SizeModulus ELSE n

block_is_in_use(m, b) == m[b].used
get_block_size(m, b) == m[b].size
get_payload_size(m, b) == get_block_size(m, b) - 2 * HEADER_SIZE
get_block_start(payload) == payload - HEADER_SIZE
get_payload(b) == b + HEADER_SIZE
(* Operators named ..._M hold a mistake a programmer could make in the      *)
(* operator of that name; no specification uses them.  They show that the   *)
(* properties notice the mistake.                                           *)
get_next_block_M(m, b) == b + get_payload_size(m, b)  \* forgets the headers
get_next_block_M2(m, b) == b + get_block_size(m, b) + HEADER_SIZE
get_next_block(m, b) == b + get_block_size(m, b)
get_previous_block_M(m, b) == b - get_block_size(m, b)  \* own size
get_previous_block(m, b) == b - get_block_size(m, b - HEADER_SIZE)
is_within_heap_range(addr) == addr \in Words

set_block_header(m, b, block_size, in_use) ==
    [m EXCEPT ![b] = Tag(block_size, in_use),
              ![b + block_size - HEADER_SIZE] = Tag(block_size, in_use)]

coalesce_M(m, first) ==  \* does not ask whether the next block is in use
    LET next == get_next_block(m, first)
    IN  IF is_within_heap_range(next)
        THEN set_block_header(m, first,
                 get_block_size(m, first) + get_block_size(m, next), FALSE)
        ELSE m

coalesce(m, first) ==
    LET next == get_next_block(m, first)
    IN  IF /\ is_within_heap_range(next)
           /\ ~block_is_in_use(m, next)
           /\ ~block_is_in_use(m, first)
        THEN set_block_header(m, first,
                 get_block_size(m, first) + get_block_size(m, next), FALSE)
        ELSE m

(* Every word coalesce(m, first) reads as a tag is one. *)
CoalesceDefined(m, first) ==
    /\ m[first] # Junk
    /\ LET next == get_next_block(m, first)
       IN  is_within_heap_range(next) => m[next] # Junk

get_size_to_allocate_M(size) ==  \* room for one header, not two
    LET excess == (size + HEADER_SIZE) % PAYLOAD_ALIGN
    IN  Wrap(size + HEADER_SIZE
                  + (IF excess = 0 THEN 0 ELSE PAYLOAD_ALIGN - excess))

get_size_to_allocate(size) ==
    LET excess == size % PAYLOAD_ALIGN
    IN  Wrap(size + 2 * HEADER_SIZE
                  + (IF excess = 0 THEN 0 ELSE PAYLOAD_ALIGN - excess))

Splits_M(blkSize, real) == blkSize > Wrap(2 * real)
Splits(blkSize, real) ==
    \/ blkSize > Wrap(2 * real)
    \/ blkSize > Wrap(real + MAX_UNUSED_BYTES)

prepare_block_for_use(m, b, real) ==
    LET blkSize == get_block_size(m, b)
    IN  IF Splits(blkSize, real)
        THEN set_block_header(set_block_header(m, b, real, TRUE),
                              b + real, blkSize - real, FALSE)
        ELSE set_block_header(m, b, blkSize, TRUE)

(* The words of the payload of block b. *)
PayloadWords(m, b) == b + HEADER_SIZE .. b + get_block_size(m, b) - 2 * HEADER_SIZE

(* The client may now write anything into the payload of block b. *)
HandOver(m, b) ==
    [o \in DOMAIN m |-> IF o \in PayloadWords(m, b) THEN Junk ELSE m[o]]

----
(* heap_create: one free block; h->next at it; the word before it is        *)
(* padding (zero) or the end of the heap header.                            *)
Init ==
    /\ search_alg \in SearchAlgs
    /\ \E g \in GuardSizes :
          mem = [o \in -1 .. HeapSize - 1 |->
                    IF o = -1 THEN Tag(g, FALSE)
                    ELSE IF o = 0 \/ o = HeapSize - HEADER_SIZE
                    THEN Tag(HeapSize, FALSE)
                    ELSE Junk]
    /\ hnext = 0
    /\ live = [p \in {} |-> 0]
    /\ pc = "idle"
    /\ user_size = 0 /\ realSize = 0 /\ blk = 0 /\ flag = FALSE
    /\ minBlk = NULL /\ minBlkSize = 0

(* heap_malloc returns: its locals are gone. *)
Return ==
    /\ pc' = "idle"
    /\ user_size' = 0 /\ realSize' = 0 /\ blk' = 0 /\ flag' = FALSE
    /\ minBlk' = NULL /\ minBlkSize' = 0

ReturnNull == Return /\ UNCHANGED <<mem, live>>

ReturnBlock(b) ==
    /\ Return
    /\ mem' = HandOver(prepare_block_for_use(mem, b, realSize), b)
    /\ live' = [p \in DOMAIN live \cup {get_payload(b)} |->
                   IF p = get_payload(b) THEN user_size ELSE live[p]]

(* heap_malloc up to the first test of its search loop. *)
heap_malloc(u) ==
    /\ pc = "idle"
    /\ pc' = "scan"
    /\ user_size' = u
    /\ realSize' = get_size_to_allocate(u)
    /\ blk' = IF search_alg = NEXTFIT THEN hnext ELSE 0
    /\ flag' = FALSE
    /\ minBlk' = NULL
    /\ minBlkSize' = SizeModulus - 1
    /\ UNCHANGED <<search_alg, mem, hnext, live>>

Scanning(alg) == pc = "scan" /\ search_alg = alg /\ UNCHANGED search_alg
AtBlock == is_within_heap_range(blk) /\ mem[blk] # Junk
AtEnd == ~is_within_heap_range(blk)
BlkFits_M == get_block_size(mem, blk) > realSize /\ ~block_is_in_use(mem, blk)
BlkFits == get_block_size(mem, blk) >= realSize /\ ~block_is_in_use(mem, blk)

StepOver ==
    /\ blk' = get_next_block(mem, blk)
    /\ UNCHANGED <<mem, live, pc, user_size, realSize>>

FirstFitTake ==
    /\ Scanning(FIRSTFIT) /\ AtBlock /\ BlkFits
    /\ ReturnBlock(blk)
    /\ UNCHANGED hnext

FirstFitPass ==
    /\ Scanning(FIRSTFIT) /\ AtBlock /\ ~BlkFits
    /\ StepOver
    /\ UNCHANGED <<hnext, flag, minBlk, minBlkSize>>

FirstFitFail ==
    /\ Scanning(FIRSTFIT) /\ AtEnd
    /\ ReturnNull
    /\ UNCHANGED hnext

BestFitStep_M ==  \* remembers the last block that fits
    /\ Scanning(BESTFIT) /\ AtBlock
    /\ minBlk' = IF BlkFits THEN blk ELSE minBlk
    /\ minBlkSize' = minBlkSize
    /\ StepOver
    /\ UNCHANGED <<hnext, flag>>

BestFitStep ==
    /\ Scanning(BESTFIT) /\ AtBlock
    /\ LET better == BlkFits /\ get_block_size(mem, blk) < minBlkSize
       IN  /\ minBlk' = IF better THEN blk ELSE minBlk
           /\ minBlkSize' = IF better THEN get_block_size(mem, blk)
                                      ELSE minBlkSize
    /\ StepOver
    /\ UNCHANGED <<hnext, flag>>

BestFitTake ==
    /\ Scanning(BESTFIT) /\ AtEnd /\ minBlk # NULL
    /\ ReturnBlock(minBlk)
    /\ UNCHANGED hnext

BestFitFail ==
    /\ Scanning(BESTFIT) /\ AtEnd /\ minBlk = NULL
    /\ ReturnNull
    /\ UNCHANGED hnext

NextFitTake ==
    /\ Scanning(NEXTFIT) /\ AtBlock /\ BlkFits
    /\ ReturnBlock(blk)
    /\ hnext' = blk

NextFitWrap_M ==  \* leaves h->next where it was
    /\ Scanning(NEXTFIT) /\ AtBlock /\ ~BlkFits
    /\ get_next_block(mem, blk) = HeapSize /\ ~flag
    /\ flag' = TRUE
    /\ blk' = get_next_block(mem, 0)
    /\ UNCHANGED <<hnext, mem, live, pc, user_size, realSize, minBlk, minBlkSize>>

NextFitWrap_M2 ==  \* does not remember having wrapped
    /\ Scanning(NEXTFIT) /\ AtBlock /\ ~BlkFits
    /\ get_next_block(mem, blk) = HeapSize /\ ~flag
    /\ hnext' = 0
    /\ blk' = get_next_block(mem, 0)
    /\ UNCHANGED <<flag, mem, live, pc, user_size, realSize, minBlk, minBlkSize>>

(* The last block does not fit and the search has not wrapped yet: blk is  *)
(* set to h->start, and the loop's own increment moves it past that block. *)
NextFitWrap ==
    /\ Scanning(NEXTFIT) /\ AtBlock /\ ~BlkFits
    /\ get_next_block(mem, blk) = HeapSize /\ ~flag
    /\ flag' = TRUE
    /\ hnext' = 0
    /\ blk' = get_next_block(mem, 0)
    /\ UNCHANGED <<mem, live, pc, user_size, realSize, minBlk, minBlkSize>>

NextFitPass ==
    /\ Scanning(NEXTFIT) /\ AtBlock /\ ~BlkFits
    /\ get_next_block(mem, blk) # HeapSize \/ flag
    /\ StepOver
    /\ UNCHANGED <<hnext, flag, minBlk, minBlkSize>>

NextFitFail ==
    /\ Scanning(NEXTFIT) /\ AtEnd
    /\ ReturnNull
    /\ UNCHANGED hnext

(* The search loop reads a word that is not a header. *)
ScanUndefined ==
    /\ pc = "scan"
    /\ is_within_heap_range(blk) /\ mem[blk] = Junk
    /\ pc' = "undefined"
    /\ UNCHANGED <<search_alg, mem, hnext, live, locals>>

----
AdjustNext_M(next) == hnext
(* Where heap_free leaves h->next. *)
AdjustNext(next) ==
    IF search_alg = NEXTFIT /\ next = hnext
    THEN LET after == get_next_block(mem, next)
         IN  IF is_within_heap_range(after) THEN after ELSE 0
    ELSE hnext

(* Block b has just been marked free; it is joined with its neighbours.     *)
MergeAround(m, b, prev) ==
    IF is_within_heap_range(prev) THEN coalesce(coalesce(m, b), prev)
                                  ELSE coalesce(m, b)

MergeDefined(m, b, prev) ==
    /\ CoalesceDefined(m, b)
    /\ is_within_heap_range(prev) => CoalesceDefined(coalesce(m, b), prev)

MarkFree(m, b) == set_block_header(m, b, get_block_size(m, b), FALSE)

(* Every word heap_free reads as a tag when it frees block b is one. *)
FreeDefined(b) ==
    /\ mem[b] # Junk
    /\ mem[b - HEADER_SIZE] # Junk
    /\ search_alg = NEXTFIT /\ get_next_block(mem, b) = hnext => mem[hnext] # Junk
    /\ MergeDefined(MarkFree(mem, b), b, get_previous_block(mem, b))

heap_free(payload) ==
    LET blkStart == get_block_start(payload)
    IN  /\ pc = "idle"
        /\ payload \in DOMAIN live
        /\ \/ /\ FreeDefined(blkStart)
              /\ mem' = MergeAround(MarkFree(mem, blkStart), blkStart,
                                    get_previous_block(mem, blkStart))
              /\ hnext' = AdjustNext(get_next_block(mem, blkStart))
              /\ live' = [p \in DOMAIN live \ {payload} |-> live[p]]
              /\ UNCHANGED pc
           \/ /\ ~FreeDefined(blkStart)
              /\ pc' = "undefined"
              /\ UNCHANGED <<mem, hnext, live>>
        /\ UNCHANGED <<search_alg, locals>>

Search ==
    \/ FirstFitTake \/ FirstFitPass \/ FirstFitFail
    \/ BestFitStep \/ BestFitTake \/ BestFitFail
    \/ NextFitTake \/ NextFitWrap \/ NextFitPass \/ NextFitFail
    \/ ScanUndefined

Next ==
    \/ \E u \in Requests : heap_malloc(u)
    \/ Search
    \/ \E payload \in DOMAIN live : heap_free(payload)

Spec == Init /\ [][Next]_vars

(* A call that was made runs to its end; the client need not call again. *)
FairSpec == Spec /\ WF_vars(Search)
====
