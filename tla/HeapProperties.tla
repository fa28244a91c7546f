---- MODULE HeapProperties ----
(***************************************************************************)
(* What must be true of the boundary-tag heap of module Heap.              *)
(***************************************************************************)
EXTENDS Heap

CONSTANTS Bases,     \* the addresses sbrk may return
          Regions    \* the sizes heap_create may be given, in bytes

ASSUME RegionAssumption == Bases \subseteq Nat /\ Regions \subseteq Nat

Layout == INSTANCE HeapLayout

Memory == [-1 .. HeapSize - 1 -> Tags \cup {Junk}]

(* Offsets of a memory m that look like the header of a block: a tag, an   *)
(* equal footer where the tag says it is, and an aligned payload.          *)
Headers(m) ==
    {b \in Words :
        /\ m[b] # Junk
        /\ m[b].size >= 2 * HEADER_SIZE
        /\ b + m[b].size <= HeapSize
        /\ m[b + m[b].size - HEADER_SIZE] = m[b]
        /\ b % PAYLOAD_ALIGN = 0}

(* The blocks of B cover every word of the heap exactly once.              *)
Tiling(m, B) ==
    /\ \A b, c \in B : b < c => b + m[b].size <= c
    /\ \A o \in Words : \E b \in B : b <= o /\ o < b + m[b].size

(* No two neighbours are both free. *)
Merged(m, B) ==
    \A b, c \in B : c = b + m[b].size => m[b].used \/ m[c].used

(* The blocks in use are those the client holds. *)
Owned(m, B) ==
    {b \in B : m[b].used} = {get_block_start(p) : p \in DOMAIN live}

(* B is the heap's list of blocks, in a state the allocator may leave.     *)
Structure(B) ==
    Tiling(mem, B) /\ Merged(mem, B) /\ Owned(mem, B)

----
TypeOK ==
    /\ search_alg \in SearchAlgs
    /\ mem \in Memory
    /\ hnext \in Words
    /\ DOMAIN live \subseteq Words /\ \A p \in DOMAIN live : live[p] \in Requests
    /\ pc \in {"idle", "scan", "undefined"}
    /\ user_size \in Nat /\ realSize \in Nat
    /\ blk \in 0 .. HeapSize
    /\ flag \in BOOLEAN
    /\ minBlk \in Words \cup {NULL} /\ minBlkSize \in Nat

(* The headers and footers partition the heap into blocks, neighbours are  *)
(* never both free (coalesce, heap_free), and the blocks marked in use are *)
(* exactly those the client holds: no block is lost, none given out twice. *)
HeapConsistent == \E B \in SUBSET Headers(mem) : Structure(B)

(* The allocator never stores a header or a footer in a payload the client *)
(* holds, and the payload is as long as the client asked for.              *)
PayloadsIntact ==
    \A p \in DOMAIN live :
        LET b == get_block_start(p)
        IN  /\ mem[b] # Junk
            /\ live[p] <= get_payload_size(mem, b)
            /\ \A o \in PayloadWords(mem, b) : mem[o] = Junk

(* The address of the o-th word of a heap laid out from base. *)
Address(base, o) == Layout!heap_start(base) + Layout!HEADER_SIZE * o

(* Wherever sbrk has put the heap, a payload is aligned for any type, does  *)
(* not overlap the struct heap in front of the blocks, and ends, footer     *)
(* included, within the bytes sbrk has given.                               *)
PayloadsPlaced ==
    \A base \in Bases, size \in Regions, p \in DOMAIN live :
        Layout!heap_size(base, size) = Layout!HEADER_SIZE * HeapSize =>
            /\ Address(base, p) % Layout!PAYLOAD_ALIGN = 0
            /\ Address(base, get_block_start(p)) >= base + Layout!sizeof_heap
            /\ Address(base, p + live[p] + HEADER_SIZE) <= base + size

(* prepare_block_for_use leaves no more unused words in a block than its   *)
(* comment allows, and later frees and merges do not change that.          *)
WasteBounded ==
    \A p \in DOMAIN live :
        LET b == get_block_start(p)
            real == get_size_to_allocate(live[p])
        IN  /\ mem[b].size <= 2 * real
            /\ mem[b].size <= real + MAX_UNUSED_BYTES

(* When the client has freed everything, the heap is one free block again, *)
(* in whatever order the blocks were freed.                                *)
AllFreedIsOneBlock ==
    pc = "idle" /\ DOMAIN live = {} => mem[0] = Tag(HeapSize, FALSE)

(* A block just handed out, against every free block that would do. *)
RightBlockTaken ==
    \A p \in DOMAIN live' \ DOMAIN live :
       \E B \in SUBSET Headers(mem) : Structure(B) /\
          LET b == get_block_start(p)
          IN  \A c \in B :
                 ~mem[c].used /\ mem[c].size >= realSize =>
                    /\ search_alg = FIRSTFIT => b <= c
                    /\ search_alg = BESTFIT => mem[b].size <= mem[c].size

(* First fit takes the lowest free block that fits, best fit a smallest     *)
(* one: the position or size of the taken block against every candidate.   *)
TakesRightBlock == [][RightBlockTaken]_vars

(* Every call of heap_malloc returns: the search reaches the end of the    *)
(* heap whatever blocks it meets.                                          *)
MallocReturns == pc = "scan" ~> pc = "idle"

----
(* Next fit.  B is the list of blocks, and h->next and the search point at  *)
(* blocks of it.                                                            *)
NextFitStructure(B) ==
    /\ Structure(B)
    /\ hnext \in B
    /\ pc = "scan" => blk \in B \cup {HeapSize}

NextFitConsistent == \E B \in SUBSET Headers(mem) : NextFitStructure(B)

(* The only step that spoils a next-fit heap is a heap_free that merges the *)
(* very block h->next points at into its free predecessor: the case its     *)
(* comment warns of.  The test in the code repairs h->next only when it     *)
(* points at the block after the freed one.                                 *)
SpoiltOnlyByMerge ==
    [][NextFitConsistent /\ ~NextFitConsistent' =>
          \E p \in DOMAIN live \ DOMAIN live' :
             /\ hnext = get_block_start(p)
             /\ hnext # 0
             /\ ~mem[hnext - HEADER_SIZE].used]_vars

(* In a sound heap next fit returns NULL only if no free block other than   *)
(* the first fits (the wrap steps over h->start), and then h->next is       *)
(* h->start, so that a retry looks at that block too.                       *)
NullMissesOnlyFirst ==
    [][NextFitConsistent /\ pc = "scan" /\ pc' = "idle" /\ live' = live =>
          /\ \E B \in SUBSET Headers(mem) : NextFitStructure(B) /\
                \A c \in B : ~mem[c].used /\ mem[c].size >= realSize => c = 0
          /\ hnext' = 0]_vars

(* No step from a sound heap stores a header or a footer in a payload the   *)
(* client holds, not even the merge that spoils h->next.  (A heap that was  *)
(* spoilt before may have stored one, and may look sound again later.)      *)
PayloadsKept ==
    [][NextFitConsistent /\ PayloadsIntact => PayloadsIntact']_vars

(* The search of heap_malloc ends, even one that starts from a stale        *)
(* h->next: it returns, or reads a word that never was a header.            *)
SearchEnds == pc = "scan" ~> pc # "scan"

(* heap_free's comment (implicit.c:251-253) asks it to beware of h->next    *)
(* pointing to a block to be coalesced, so that the heap stays sound:       *)
(* two payloads the client holds never share a word.                        *)
LivePayloadsDisjoint ==
    \A p, q \in DOMAIN live :
        p # q => (p .. p + live[p] - 1) \cap (q .. q + live[q] - 1) = {}

(* implicit.c:327-328: "Return NULL if no block large enough to satisfy     *)
(* the request exists", so NULL is never returned while one exists.         *)
NullOnlyIfNoneFits ==
    [][NextFitConsistent /\ pc = "scan" /\ pc' = "idle" /\ live' = live =>
          \E B \in SUBSET Headers(mem) : NextFitStructure(B) /\
             \A c \in B : mem[c].used \/ mem[c].size < realSize]_vars

----
(* The loop invariant of the two searches: what first fit has passed does   *)
(* not fit, and best fit holds a smallest block among those it has passed.  *)
SearchSound(B) ==
    pc = "scan" =>
       /\ user_size \in Requests
       /\ realSize = get_size_to_allocate(user_size)
       /\ blk \in B \cup {HeapSize}
       /\ search_alg = FIRSTFIT =>
             \A c \in B : c < blk /\ ~mem[c].used => mem[c].size < realSize
       /\ search_alg = BESTFIT /\ minBlk = NULL =>
             /\ minBlkSize = SizeModulus - 1
             /\ \A c \in B : c < blk /\ ~mem[c].used => mem[c].size < realSize
       /\ search_alg = BESTFIT /\ minBlk # NULL =>
             /\ minBlk \in B /\ ~mem[minBlk].used
             /\ minBlkSize = mem[minBlk].size /\ minBlkSize >= realSize
             /\ \A c \in B : c < blk /\ ~mem[c].used /\ mem[c].size >= realSize
                    => minBlkSize <= mem[c].size

(* Why first fit and best fit keep the heap sound: the blocks are sound,    *)
(* the search in progress knows what it claims to know, the word in front   *)
(* of the heap still reads as a footer, and no step was undefined.          *)
FitInvariant ==
    /\ pc # "undefined"
    /\ mem[-1] # Junk
    /\ \E B \in SUBSET Headers(mem) : Structure(B) /\ SearchSound(B)

----
(* The client's view: the blocks it holds and the request being served.    *)
Granted == [b \in {get_block_start(p) : p \in DOMAIN live} |-> mem[b].size]
Pending == IF pc = "scan" THEN {user_size} ELSE {}

A == INSTANCE Allocator WITH Need <- get_size_to_allocate,
                             granted <- Granted, pending <- Pending

(* The heap is an allocator: what it grants is vacant and long enough, and *)
(* NULL is returned only if no run of free words is long enough.           *)
ImplementsAllocator == A!Spec
====
