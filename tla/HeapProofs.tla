---- MODULE HeapProofs ----
(***************************************************************************)
(* The safety of the heap under first fit and best fit, for every heap     *)
(* size, every set of requests and every word in front of the heap, and    *)
(* that it implements the allocator of module Allocator: what it grants is *)
(* vacant and long enough, and it refuses a request only when no run of    *)
(* vacant words is long enough.  The lemmas on the steps of heap_malloc    *)
(* and heap_free hold under next fit too, and NextFitProofs uses them.     *)
(*                                                                         *)
(* First come lemmas about the memory and the operators that rewrite it:   *)
(* they mention neither the search algorithm nor the client.               *)
(***************************************************************************)
EXTENDS HeapProperties, TLAPS

(* The blocks of m are B. *)
Blocks(m, B) == B \subseteq Headers(m) /\ Tiling(m, B)

(* m2 differs from m only in the words lo .. hi - 1. *)
SameOutside(m, m2, lo, hi) ==
    \A o \in -1 .. HeapSize - 1 : o < lo \/ hi <= o => m2[o] = m[o]

(* The headers in S are the same in m2 as in m. *)
SameTags(m, m2, S) == \A c \in S : m2[c] = m[c]

(* The blocks in S are the same in m2 as in m, payloads included. *)
SameBlocks(m, m2, S) ==
    \A c \in S : /\ m2[c] = m[c]
                 /\ \A o \in Words : c <= o /\ o < c + m[c].size => m2[o] = m[o]

(* Two free neighbours of B are b and a neighbour of b. *)
MergedBut(m, B, b) ==
    \A c, d \in B :
        c # b /\ d # b /\ d = c + m[c].size => m[c].used \/ m[d].used

(* Block b of m has s words and is in use, or not. *)
TagAt(m, b, s, u) == m[b] = Tag(s, u)

(* Nothing of the allocator is left in the payload of block b. *)
ClientOnly(m, b) == \A o \in PayloadWords(m, b) : m[o] = Junk

----
(* Facts about a memory and its blocks. *)

LEMMA TagFacts ==
    ASSUME NEW s \in Nat, NEW u \in BOOLEAN
    PROVE  Tag(s, u) \in Tags /\ Tag(s, u).size = s /\ Tag(s, u).used = u
  BY DEF Tag, Tags

(* What a header says: a block of at least two words, inside the heap, with *)
(* its footer at its end.                                                   *)
LEMMA HeaderFacts ==
    ASSUME NEW m \in Memory, NEW b \in Headers(m)
    PROVE  /\ b \in Words /\ b \in Int /\ b >= 0
           /\ m[b] \in Tags /\ m[b].size \in Nat /\ m[b].used \in BOOLEAN
           /\ m[b].size >= 2 /\ b + m[b].size <= HeapSize
           /\ m[b + m[b].size - 1] = m[b]
           /\ b % 2 = 0
  BY SizeAssumption DEF Headers, Memory, Tags, Words, HEADER_SIZE, PAYLOAD_ALIGN

(* What set_block_header changes, and that it leaves a memory. *)
LEMMA SetHeader ==
    ASSUME NEW m \in Memory, NEW b \in Words, NEW s \in Nat, s >= 2,
           b + s <= HeapSize, NEW u \in BOOLEAN
    PROVE  LET m2 == set_block_header(m, b, s, u)
           IN  /\ m2 \in Memory
               /\ m2[b] = Tag(s, u)
               /\ m2[b + s - 1] = Tag(s, u)
               /\ \A o \in -1 .. HeapSize - 1 :
                     o # b /\ o # b + s - 1 => m2[o] = m[o]
  BY SizeAssumption DEF set_block_header, Memory, Tags, Words, HEADER_SIZE, Tag

(* The next block of a block is a block, or the end of the heap. *)
LEMMA NextBlock ==
    ASSUME NEW m \in Memory, NEW B, Blocks(m, B), NEW b \in B
    PROVE  b + m[b].size \in B \cup {HeapSize}
  <1>1. b \in Words /\ m[b].size \in Nat /\ m[b].size >= 2
        /\ b + m[b].size <= HeapSize
    BY HeaderFacts DEF Blocks
  <1>2. CASE b + m[b].size = HeapSize
    BY <1>2
  <1>3. CASE b + m[b].size # HeapSize
    <2>1. b + m[b].size \in Words
      BY <1>1, <1>3, SizeAssumption DEF Words
    <2>2. PICK c \in B : c <= b + m[b].size /\ b + m[b].size < c + m[c].size
      BY <2>1 DEF Blocks, Tiling
    <2>3. c \in Words /\ m[c].size \in Nat /\ m[c].size >= 2
      BY HeaderFacts DEF Blocks
    <2>4. c > b
      <3>1. SUFFICES ASSUME c <= b PROVE FALSE
        BY <1>1, <2>3 DEF Words
      <3>2. c # b
        BY <2>2, <2>3, <1>1 DEF Words
      <3>3. c + m[c].size <= b
        BY <3>1, <3>2, <1>1, <2>3 DEF Blocks, Tiling, Words
      <3> QED BY <3>3, <2>2, <2>3, <1>1 DEF Words
    <2>5. b + m[b].size <= c
      BY <2>4, <1>1, <2>3 DEF Blocks, Tiling
    <2> QED BY <2>5, <2>2, <1>1, <2>3 DEF Words
  <1> QED BY <1>2, <1>3

(* The first word of the heap is a header. *)
LEMMA FirstBlock ==
    ASSUME NEW m \in Memory, NEW B, Blocks(m, B)
    PROVE  0 \in B
  <1>1. 0 \in Words
    BY SizeAssumption DEF Words, HEADER_SIZE
  <1>2. PICK c \in B : c <= 0
    BY <1>1 DEF Blocks, Tiling
  <1>3. c \in Words
    BY HeaderFacts DEF Blocks
  <1> QED BY <1>2, <1>3 DEF Words

(* The word in front of a block other than the first is the footer of the *)
(* block that ends there, so get_previous_block finds that block.         *)
LEMMA PreviousBlock ==
    ASSUME NEW m \in Memory, NEW B, Blocks(m, B), NEW b \in B, b # 0
    PROVE  LET p == get_previous_block(m, b)
           IN  /\ p \in B /\ p < b /\ p + m[p].size = b
               /\ m[b - 1] = m[p]
  <1>1. b \in Words /\ b \in Int /\ b > 0
    BY HeaderFacts DEF Blocks, Words
  <1>2. b - 1 \in Words
    BY <1>1, SizeAssumption DEF Words
  <1>3. PICK c \in B : c <= b - 1 /\ b - 1 < c + m[c].size
    BY <1>2 DEF Blocks, Tiling
  <1>4. c \in Words /\ c \in Int /\ m[c].size \in Nat /\ m[c + m[c].size - 1] = m[c]
    BY HeaderFacts DEF Blocks
  <1>5. c + m[c].size <= b
    BY <1>1, <1>3, <1>4 DEF Blocks, Tiling
  <1>6. c + m[c].size = b
    BY <1>1, <1>3, <1>4, <1>5
  <1>7. m[b - 1] = m[c]
    BY <1>4, <1>6
  <1>8. get_previous_block(m, b) = c
    BY <1>1, <1>4, <1>6, <1>7 DEF get_previous_block, get_block_size, HEADER_SIZE
  <1> QED BY <1>1, <1>3, <1>4, <1>6, <1>7, <1>8

(* Two blocks do not overlap. *)
LEMMA Apart ==
    ASSUME NEW m \in Memory, NEW B, Blocks(m, B), NEW b \in B, NEW c \in B, b # c
    PROVE  b + m[b].size <= c \/ c + m[c].size <= b
  <1>1. b \in Int /\ c \in Int
    BY HeaderFacts DEF Blocks
  <1> QED BY <1>1 DEF Blocks, Tiling

(* A block outside the words lo .. hi - 1 survives a change of those words. *)
LEMMA Kept ==
    ASSUME NEW m \in Memory, NEW m2 \in Memory, NEW c \in Headers(m),
           NEW lo \in Int, NEW hi \in Int,
           SameOutside(m, m2, lo, hi),
           c + m[c].size <= lo \/ hi <= c
    PROVE  c \in Headers(m2) /\ m2[c] = m[c]
  <1>1. /\ c \in Words /\ m[c] # Junk /\ m[c].size \in Nat /\ m[c].size >= 2
        /\ c + m[c].size <= HeapSize /\ m[c + m[c].size - 1] = m[c] /\ c % 2 = 0
    BY HeaderFacts DEF Headers
  <1>2. c \in -1 .. HeapSize - 1 /\ c + m[c].size - 1 \in -1 .. HeapSize - 1
    BY <1>1, SizeAssumption DEF Words
  <1>3. m2[c] = m[c]
    BY <1>1, <1>2 DEF Words, SameOutside
  <1>4. m2[c + m[c].size - 1] = m[c + m[c].size - 1]
    BY <1>1, <1>2 DEF Words, SameOutside
  <1> QED BY <1>1, <1>3, <1>4 DEF Headers, HEADER_SIZE, PAYLOAD_ALIGN

(* A new header on an aligned block that fits is a header. *)
LEMMA NewHeader ==
    ASSUME NEW m \in Memory, NEW b \in Words, NEW s \in Nat, s >= 2,
           b + s <= HeapSize, b % 2 = 0, NEW u \in BOOLEAN,
           m[b] = Tag(s, u), m[b + s - 1] = Tag(s, u)
    PROVE  b \in Headers(m)
  <1>1. m[b] \in Tags
    BY DEF Tags, Tag
  <1>2. m[b] # Junk
    BY <1>1, MarkAssumption
  <1> QED BY <1>2 DEF Headers, HEADER_SIZE, PAYLOAD_ALIGN, Tag

----
(* The three ways the allocator rewrites headers. *)

(* Marking a block, in use or free, keeps the blocks. *)
LEMMA Mark ==
    ASSUME NEW m \in Memory, NEW B, Blocks(m, B), NEW b \in B, NEW u \in BOOLEAN
    PROVE  LET m2 == set_block_header(m, b, m[b].size, u)
           IN  /\ m2 \in Memory
               /\ Blocks(m2, B)
               /\ TagAt(m2, b, m[b].size, u)
               /\ SameTags(m, m2, B \ {b})
               /\ SameOutside(m, m2, b, b + m[b].size)
  <1> DEFINE s == m[b].size
             m2 == set_block_header(m, b, s, u)
  <1>1. b \in Words /\ b \in Int /\ s \in Nat /\ s >= 2 /\ b + s <= HeapSize /\ b % 2 = 0
    BY HeaderFacts DEF Blocks
  <1>2. /\ m2 \in Memory
        /\ m2[b] = Tag(s, u) /\ m2[b + s - 1] = Tag(s, u)
        /\ \A o \in -1 .. HeapSize - 1 : o # b /\ o # b + s - 1 => m2[o] = m[o]
    BY <1>1, SetHeader
  <1> HIDE DEF m2
  <1>o. SameOutside(m, m2, b, b + s)
    BY <1>1, <1>2 DEF SameOutside
  <1>3. b \in Headers(m2)
    BY <1>1, <1>2, NewHeader
  <1>4. ASSUME NEW c \in B, c # b PROVE c \in Headers(m2) /\ m2[c] = m[c]
    <2>1. c + m[c].size <= b \/ b + s <= c
      BY <1>4, Apart
    <2>2. c \in Headers(m)
      BY DEF Blocks
    <2>3. b \in Int /\ b + s \in Int
      BY <1>1
    <2> HIDE DEF s
    <2> QED BY <2>1, <2>2, <2>3, <1>o, <1>2, Kept
  <1>5. \A c \in B : m2[c].size = m[c].size
    BY <1>2, <1>4 DEF Tag
  <1>6. Blocks(m2, B)
    BY <1>3, <1>4, <1>5 DEF Blocks, Tiling
  <1>7. SameTags(m, m2, B \ {b})
    BY <1>4 DEF SameTags
  <1> QED BY <1>2, <1>o, <1>6, <1>7 DEF m2, TagAt

(* Joining a block and the next one removes the next one's header. *)
LEMMA Join ==
    ASSUME NEW m \in Memory, NEW B, Blocks(m, B), NEW b \in B,
           b + m[b].size \in B, NEW u \in BOOLEAN
    PROVE  LET n  == b + m[b].size
               m2 == set_block_header(m, b, m[b].size + m[n].size, u)
           IN  /\ m2 \in Memory
               /\ Blocks(m2, B \ {n})
               /\ TagAt(m2, b, m[b].size + m[n].size, u)
               /\ SameTags(m, m2, B \ {b, n})
               /\ SameOutside(m, m2, b, n + m[n].size)
  <1> DEFINE n  == b + m[b].size
             s  == m[b].size + m[n].size
             m2 == set_block_header(m, b, s, u)
  <1>1. /\ b \in Words /\ b \in Int /\ b % 2 = 0
        /\ m[b].size \in Nat /\ m[b].size >= 2
        /\ n \in B /\ n \in Int /\ m[n].size \in Nat /\ m[n].size >= 2
        /\ n + m[n].size <= HeapSize
    BY HeaderFacts DEF Blocks
  <1>2. s \in Nat /\ s >= 2 /\ b + s = n + m[n].size /\ b + s <= HeapSize
    BY <1>1
  <1>3. /\ m2 \in Memory
        /\ m2[b] = Tag(s, u) /\ m2[b + s - 1] = Tag(s, u)
        /\ \A o \in -1 .. HeapSize - 1 : o # b /\ o # b + s - 1 => m2[o] = m[o]
    BY <1>1, <1>2, SetHeader
  <1>n. n = b + m[b].size
    OBVIOUS
  <1> HIDE DEF m2, s, n
  <1>o. SameOutside(m, m2, b, b + s)
    BY <1>1, <1>2, <1>3 DEF SameOutside
  <1>4. b \in Headers(m2)
    BY <1>1, <1>2, <1>3, NewHeader
  <1>5. ASSUME NEW c \in B, c # b, c # n PROVE c \in Headers(m2) /\ m2[c] = m[c]
    <2>1. c \in Headers(m) /\ c \in Int /\ m[c].size \in Nat /\ m[c].size >= 2
      BY HeaderFacts DEF Blocks
    <2>2. c + m[c].size <= b \/ n <= c
      BY <1>5, <1>n, Apart
    <2>3. c + m[c].size <= n \/ n + m[n].size <= c
      BY <1>1, <1>5, Apart
    <2>4. c + m[c].size <= b \/ b + s <= c
      BY <2>1, <2>2, <2>3, <1>1, <1>2, <1>5
    <2>6. b + s \in Int
      BY <1>1, <1>2
    <2> QED BY <2>1, <2>4, <2>6, <1>o, <1>1, <1>3, Kept
  <1>6. B \ {n} \subseteq Headers(m2)
    BY <1>4, <1>5
  <1>7. ASSUME NEW c \in B \ {n}, NEW d \in B \ {n}, c < d
        PROVE  c + m2[c].size <= d
    <2>1. c \in Int /\ d \in Int /\ m[c].size \in Nat /\ m[d].size \in Nat /\ m[d].size >= 2
      BY HeaderFacts DEF Blocks
    <2>2. CASE c # b
      BY <2>2, <1>5, <1>7 DEF Blocks, Tiling
    <2>3. CASE c = b
      <3>1. n <= d
        BY <2>3, <1>7, <1>n DEF Blocks, Tiling
      <3>2. n + m[n].size <= d
        BY <3>1, <2>1, <1>1, <1>7 DEF Blocks, Tiling
      <3> QED BY <3>2, <2>3, <1>2, <1>3 DEF Tag
    <2> QED BY <2>2, <2>3
  <1>8. ASSUME NEW o \in Words
        PROVE  \E c \in B \ {n} : c <= o /\ o < c + m2[c].size
    <2>1. PICK c \in B : c <= o /\ o < c + m[c].size
      BY DEF Blocks, Tiling
    <2>2. CASE c # b /\ c # n
      BY <2>1, <2>2, <1>5
    <2>3. CASE c = b \/ c = n
      <3>1. b <= o /\ o < b + s /\ b # n
        BY <2>1, <2>3, <1>1, <1>2, <1>n DEF Words
      <3> QED BY <3>1, <1>3 DEF Tag
    <2> QED BY <2>2, <2>3
  <1>9. Blocks(m2, B \ {n})
    BY <1>6, <1>7, <1>8 DEF Blocks, Tiling
  <1>10. SameTags(m, m2, B \ {b, n}) /\ SameOutside(m, m2, b, n + m[n].size)
    BY <1>2, <1>5, <1>o DEF SameTags
  <1> QED BY <1>3, <1>9, <1>10 DEF m2, s, n, TagAt

(* Splitting a block adds one header. *)
LEMMA Split ==
    ASSUME NEW m \in Memory, NEW B, Blocks(m, B), NEW b \in B,
           NEW r \in Nat, r >= 2, r % 2 = 0, m[b].size >= r + 2
    PROVE  LET e  == b + r
               m2 == set_block_header(set_block_header(m, b, r, TRUE),
                                      e, m[b].size - r, FALSE)
           IN  /\ m2 \in Memory
               /\ Blocks(m2, B \cup {e})
               /\ e \notin B
               /\ TagAt(m2, b, r, TRUE)
               /\ TagAt(m2, e, m[b].size - r, FALSE)
               /\ SameTags(m, m2, B \ {b})
               /\ SameOutside(m, m2, b, b + m[b].size)
  <1> DEFINE e  == b + r
             s  == m[b].size
             t  == s - r
             m1 == set_block_header(m, b, r, TRUE)
             m2 == set_block_header(m1, e, t, FALSE)
  <1>1. /\ b \in Words /\ b \in Int /\ b >= 0 /\ b % 2 = 0
        /\ s \in Nat /\ b + s <= HeapSize /\ HeapSize \in Nat
    BY HeaderFacts, SizeAssumption DEF Blocks
  <1>2. /\ e \in Int /\ e > b /\ t \in Nat /\ t >= 2 /\ e + t = b + s
        /\ b + r <= HeapSize /\ e + t <= HeapSize
    BY <1>1
  <1>3. e % 2 = 0
    BY <1>1
  <1>4. e \in Words
    BY <1>1, <1>2 DEF Words
  <1>5. /\ m1 \in Memory
        /\ m1[b] = Tag(r, TRUE)
        /\ m1[b + r - 1] = Tag(r, TRUE)
        /\ \A o \in -1 .. HeapSize - 1 : o # b /\ o # b + r - 1 => m1[o] = m[o]
    BY <1>1, <1>2, SetHeader
  <1> HIDE DEF m1
  <1>6. /\ m2 \in Memory
        /\ m2[e] = Tag(t, FALSE)
        /\ m2[e + t - 1] = Tag(t, FALSE)
        /\ \A o \in -1 .. HeapSize - 1 : o # e /\ o # e + t - 1 => m2[o] = m1[o]
    BY <1>2, <1>4, <1>5, SetHeader
  <1>e. e = b + r
    OBVIOUS
  <1> HIDE DEF m2, e, t
  <1>7. m2[b] = Tag(r, TRUE) /\ m2[b + r - 1] = Tag(r, TRUE)
    <2>1. b \in -1 .. HeapSize - 1 /\ b # e /\ b # e + t - 1
      BY <1>1, <1>2
    <2>2. b + r - 1 \in -1 .. HeapSize - 1 /\ b + r - 1 # e /\ b + r - 1 # e + t - 1
      BY <1>1, <1>2, <1>e
    <2> QED BY <2>1, <2>2, <1>5, <1>6
  <1>8. b \in Headers(m2) /\ e \in Headers(m2)
    BY <1>1, <1>2, <1>3, <1>4, <1>6, <1>7, NewHeader
  <1>9. SameOutside(m, m2, b, b + s)
    BY <1>1, <1>2, <1>5, <1>6, <1>e DEF SameOutside
  <1>10. ASSUME NEW c \in B, c # b PROVE c \in Headers(m2) /\ m2[c] = m[c]
    <2>1. c \in Headers(m) /\ b + s \in Int
      BY <1>1 DEF Blocks
    <2>2. c + m[c].size <= b \/ b + s <= c
      BY <1>10, Apart
    <2> QED BY <2>1, <2>2, <1>1, <1>6, <1>9, Kept
  <1>11. e \notin B
    <2>1. SUFFICES ASSUME e \in B PROVE FALSE
      OBVIOUS
    <2>2. b + s <= e
      BY <2>1, <1>2 DEF Blocks, Tiling
    <2> QED BY <2>2, <1>1, <1>2
  <1>12. B \cup {e} \subseteq Headers(m2)
    BY <1>8, <1>10
  <1>13. ASSUME NEW c \in B \cup {e}, NEW d \in B \cup {e}, c < d
         PROVE  c + m2[c].size <= d
    <2>1. \A x \in B : x \in Int /\ m[x].size \in Nat /\ m[x].size >= 2
      BY HeaderFacts DEF Blocks
    <2>2. CASE c \in B /\ d \in B /\ c # b
      BY <2>2, <1>10, <1>13 DEF Blocks, Tiling
    <2>3. CASE c = b /\ d \in B
      <3>1. b + s <= d
        BY <2>3, <1>13 DEF Blocks, Tiling
      <3>2. m2[b].size = r
        BY <1>7 DEF Tag
      <3>3. b + r <= b + s
        BY <1>1, <1>2, <1>e
      <3>4. b + r <= d
        BY <3>1, <3>3, <2>1, <2>3, <1>1
      <3> QED BY <3>2, <3>4, <2>3
    <2>4. CASE c = b /\ d = e
      BY <2>4, <1>7, <1>e, <1>1, <1>2 DEF Tag
    <2>5. CASE c \in B /\ c # b /\ d = e
      <3>1. c + m[c].size <= b \/ b + s <= c
        BY <2>5, Apart
      <3>2. c < b
        BY <2>1, <2>5, <3>1, <1>1, <1>2, <1>13
      <3>3. c + m[c].size <= b
        BY <3>2, <2>5 DEF Blocks, Tiling
      <3> QED BY <3>3, <2>1, <2>5, <1>1, <1>2, <1>10
    <2>6. CASE c = e /\ d \in B
      <3>1. b + s <= d
        BY <2>6, <1>13, <1>1, <1>2, <2>1 DEF Blocks, Tiling
      <3> QED BY <3>1, <2>6, <2>1, <1>1, <1>2, <1>6 DEF Tag
    <2>7. CASE c = e /\ d = e
      BY <2>7, <1>13, <1>2
    <2> QED BY <2>2, <2>3, <2>4, <2>5, <2>6, <2>7
  <1>14. ASSUME NEW o \in Words
         PROVE  \E c \in B \cup {e} : c <= o /\ o < c + m2[c].size
    <2>1. PICK c \in B : c <= o /\ o < c + m[c].size
      BY DEF Blocks, Tiling
    <2>2. CASE c # b
      BY <2>1, <2>2, <1>10
    <2>3. CASE c = b /\ o < e
      BY <2>1, <2>3, <1>7, <1>e DEF Tag
    <2>4. CASE c = b /\ e <= o
      BY <2>1, <2>4, <1>6, <1>2, <1>1 DEF Words, Tag
    <2>5. o \in Int
      BY DEF Words
    <2> QED BY <2>2, <2>3, <2>4, <2>5, <1>2
  <1>15. Blocks(m2, B \cup {e})
    BY <1>12, <1>13, <1>14 DEF Blocks, Tiling
  <1>16. SameTags(m, m2, B \ {b})
    BY <1>10 DEF SameTags
  <1>17. TagAt(m2, b, r, TRUE) /\ TagAt(m2, e, t, FALSE)
    BY <1>6, <1>7 DEF TagAt
  <1> QED BY <1>6, <1>9, <1>11, <1>15, <1>16, <1>17 DEF m1, m2, e, t

----
(* The operations. *)

(* Every request needs an even number of words, at least two, and enough   *)
(* for the payload and its two headers.                                    *)
LEMMA SizeToAllocate ==
    ASSUME NEW u \in Requests
    PROVE  LET r == get_size_to_allocate(u)
           IN  r \in Nat /\ r >= 2 /\ r % 2 = 0 /\ r >= u + 2
  <1>1. u \in Nat /\ u + 4 < SizeModulus /\ SizeModulus \in Nat
    BY RequestAssumption, SizeAssumption DEF HEADER_SIZE, PAYLOAD_ALIGN
  <1>2. CASE u % 2 = 0
    BY <1>1, <1>2 DEF get_size_to_allocate, Wrap, HEADER_SIZE, PAYLOAD_ALIGN
  <1>3. CASE u % 2 = 1
    BY <1>1, <1>3 DEF get_size_to_allocate, Wrap, HEADER_SIZE, PAYLOAD_ALIGN
  <1> QED BY <1>1, <1>2, <1>3

(* Giving a block's payload to the client leaves the blocks as they are. *)
LEMMA HandedOver ==
    ASSUME NEW m \in Memory, NEW B, Blocks(m, B), NEW b \in B
    PROVE  LET m2 == HandOver(m, b)
           IN  /\ m2 \in Memory
               /\ Blocks(m2, B)
               /\ SameTags(m, m2, B)
               /\ SameOutside(m, m2, b, b + m[b].size)
               /\ ClientOnly(m2, b)
  <1> DEFINE m2 == HandOver(m, b)
             s  == m[b].size
  <1>1. /\ b \in Words /\ b \in Int /\ b >= 0 /\ b % 2 = 0 /\ m[b] \in Tags
        /\ s \in Nat /\ s >= 2 /\ b + s <= HeapSize /\ HeapSize \in Nat
        /\ m[b + s - 1] = m[b]
    BY HeaderFacts, SizeAssumption DEF Blocks
  <1>2. /\ m2 \in Memory
        /\ \A o \in -1 .. HeapSize - 1 :
              m2[o] = IF b + 1 <= o /\ o <= b + s - 2 THEN Junk ELSE m[o]
    BY <1>1 DEF HandOver, PayloadWords, Memory, get_block_size, HEADER_SIZE
  <1> HIDE DEF m2
  <1>3. m2[b] = m[b] /\ m2[b + s - 1] = m[b]
    BY <1>1, <1>2
  <1>4. b \in Headers(m2)
    BY <1>1, <1>3, MarkAssumption DEF Headers, HEADER_SIZE, PAYLOAD_ALIGN
  <1>5. SameOutside(m, m2, b, b + s)
    BY <1>1, <1>2 DEF SameOutside
  <1>6. ASSUME NEW c \in B, c # b PROVE c \in Headers(m2) /\ m2[c] = m[c]
    <2>1. c \in Headers(m) /\ b + s \in Int
      BY <1>1 DEF Blocks
    <2>2. c + m[c].size <= b \/ b + s <= c
      BY <1>6, Apart
    <2>3. m2 \in Memory
      BY <1>2
    <2> QED BY <2>1, <2>2, <2>3, <1>1, <1>5, Kept
  <1>7. \A c \in B : m2[c] = m[c]
    BY <1>3, <1>6
  <1>8. Blocks(m2, B)
    BY <1>4, <1>6, <1>7 DEF Blocks, Tiling
  <1>9. ClientOnly(m2, b)
    BY <1>1, <1>2, <1>3 DEF ClientOnly, PayloadWords, get_block_size, HEADER_SIZE
  <1>10. SameTags(m, m2, B)
    BY <1>7 DEF SameTags
  <1> QED BY <1>2, <1>5, <1>8, <1>9, <1>10 DEF m2

(* m2 is m after free block b of B was given to a client who needs r words: *)
(* b is in use, not larger than the splitting rule allows, and the blocks   *)
(* are still merged.                                                        *)
Given(m, m2, B, b, r) ==
    /\ m2 \in Memory
    /\ m2[b].used /\ r <= m2[b].size
    /\ m2[b].size <= 2 * r /\ m2[b].size <= r + MAX_UNUSED_BYTES
    /\ SameOutside(m, m2, b, b + m[b].size)
    /\ ClientOnly(m2, b)
    /\ \E C : /\ Blocks(m2, C) /\ Merged(m2, C)
              /\ B \subseteq C
              /\ SameTags(m, m2, B \ {b})
              /\ \A c \in C \ B : ~m2[c].used

(* Preparing a free block that is large enough, and handing it over. *)
LEMMA Prepared ==
    ASSUME NEW m \in Memory, NEW B, Blocks(m, B), Merged(m, B), NEW b \in B,
           ~m[b].used, NEW r \in Nat, r >= 2, r % 2 = 0, r <= m[b].size
    PROVE  Given(m, HandOver(prepare_block_for_use(m, b, r), b), B, b, r)
  <1> DEFINE s  == m[b].size
             m1 == prepare_block_for_use(m, b, r)
             m2 == HandOver(m1, b)
  <1>1. /\ b \in Words /\ b \in Int /\ b >= 0 /\ s \in Nat /\ s >= 2
        /\ b + s <= HeapSize /\ HeapSize \in Nat /\ MAX_UNUSED_BYTES \in Nat
        /\ MAX_UNUSED_BYTES >= 2
    BY HeaderFacts, SizeAssumption DEF Blocks, HEADER_SIZE
  <1>2. Splits(s, r) <=> s > 2 * r \/ s > r + MAX_UNUSED_BYTES
    BY <1>1, SizeAssumption DEF Splits, Wrap
  <1>3. CASE ~Splits(s, r)
    <2> DEFINE mk == set_block_header(m, b, m[b].size, TRUE)
    <2>1. /\ mk \in Memory /\ Blocks(mk, B)
          /\ TagAt(mk, b, m[b].size, TRUE)
          /\ SameTags(m, mk, B \ {b})
          /\ SameOutside(m, mk, b, b + m[b].size)
      BY Mark
    <2>2. m1 = mk
      BY <1>3 DEF prepare_block_for_use, get_block_size
    <2> HIDE DEF m1, mk
    <2>3. /\ m2 \in Memory /\ Blocks(m2, B)
          /\ SameTags(m1, m2, B)
          /\ SameOutside(m1, m2, b, b + m1[b].size)
          /\ ClientOnly(m2, b)
      BY <2>1, <2>2, HandedOver
    <2> HIDE DEF m2
    <2>4. SameOutside(m, m2, b, b + s)
      BY <2>1, <2>2, <2>3, <1>1 DEF SameOutside, TagAt, Tag
    <2>5. m2[b] = Tag(s, TRUE) /\ SameTags(m, m2, B \ {b})
      BY <2>1, <2>2, <2>3 DEF SameTags, TagAt
    <2>6. Merged(m2, B)
      BY <2>5 DEF Merged, SameTags, Tag
    <2>7. s <= 2 * r /\ s <= r + MAX_UNUSED_BYTES
      BY <1>1, <1>2, <1>3
    <2>8. \E C : /\ Blocks(m2, C) /\ Merged(m2, C) /\ B \subseteq C
                /\ SameTags(m, m2, B \ {b})
                /\ \A c \in C \ B : ~m2[c].used
      BY <2>3, <2>5, <2>6
    <2> QED BY <2>3, <2>4, <2>5, <2>7, <2>8 DEF m1, m2, Given, Tag
  <1>4. CASE Splits(s, r)
    <2> DEFINE e == b + r
               C == B \cup {e}
    <2>1. s >= r + 2
      BY <1>1, <1>2, <1>4
    <2> DEFINE sp == set_block_header(set_block_header(m, b, r, TRUE),
                                      e, m[b].size - r, FALSE)
    <2>2. /\ sp \in Memory /\ Blocks(sp, B \cup {e}) /\ e \notin B
          /\ TagAt(sp, b, r, TRUE)
          /\ TagAt(sp, e, m[b].size - r, FALSE)
          /\ SameTags(m, sp, B \ {b})
          /\ SameOutside(m, sp, b, b + m[b].size)
      BY <2>1, Split
    <2>3. m1 = sp
      BY <1>4 DEF prepare_block_for_use, get_block_size
    <2> HIDE DEF m1, sp
    <2>4. b \in C
      OBVIOUS
    <2> HIDE DEF C
    <2>5. /\ m2 \in Memory /\ Blocks(m2, C)
          /\ SameTags(m1, m2, C)
          /\ SameOutside(m1, m2, b, b + m1[b].size)
          /\ ClientOnly(m2, b)
      BY <2>2, <2>3, <2>4, HandedOver DEF C
    <2> HIDE DEF m2
    <2>6. SameOutside(m, m2, b, b + s)
      BY <2>1, <2>2, <2>3, <2>5, <1>1 DEF SameOutside, TagAt, Tag
    <2>7. /\ m2[b].size = r /\ m2[b].used
          /\ m2[e].size = s - r /\ ~m2[e].used
          /\ SameTags(m, m2, B \ {b})
      BY <2>2, <2>3, <2>5 DEF C, SameTags, TagAt, Tag
    <2>8. ASSUME NEW c \in C, NEW d \in C, d = c + m2[c].size
          PROVE  m2[c].used \/ m2[d].used
      <3>1. CASE c = b \/ d = b
        BY <3>1, <2>7 DEF Tag
      <3>2. CASE c = e
        <4>1. d = b + s
          BY <2>7, <2>8, <3>2, <1>1 DEF Tag
        <4>2. d \in B
          BY <4>1, <1>1, <2>1 DEF C
        <4>3. m[d].used
          BY <4>1, <4>2 DEF Merged
        <4>4. d # b
          BY <4>1, <1>1
        <4> QED BY <4>2, <4>3, <4>4, <2>7 DEF SameTags
      <3>3. CASE c # b /\ c # e /\ d = e
        <4>1. c \in B
          BY <3>3 DEF C
        <4>2. c \in Int /\ m[c].size \in Nat /\ m[c].size >= 2
          BY <4>1, HeaderFacts DEF Blocks
        <4>3. c + m[c].size <= b \/ b + s <= c
          BY <4>1, <3>3, Apart
        <4>4. c + m[c].size = e
          BY <4>1, <3>3, <2>7, <2>8 DEF SameTags
        <4> QED BY <4>2, <4>3, <4>4, <2>1, <1>1
      <3>4. CASE c # b /\ c # e /\ d # b /\ d # e
        <4>1. c \in B /\ d \in B
          BY <3>4 DEF C
        <4> QED BY <4>1, <3>4, <2>7, <2>8 DEF Merged, SameTags
      <3> QED BY <3>1, <3>2, <3>3, <3>4
    <2>9. Merged(m2, C)
      BY <2>8 DEF Merged
    <2>10. \E D : /\ Blocks(m2, D) /\ Merged(m2, D) /\ B \subseteq D
                 /\ SameTags(m, m2, B \ {b})
                 /\ \A c \in D \ B : ~m2[c].used
      <3>1. B \subseteq C /\ \A c \in C \ B : ~m2[c].used
        BY <2>7 DEF C, Tag
      <3> QED BY <3>1, <2>5, <2>7, <2>9
    <2>11. r <= 2 * r /\ r <= r + MAX_UNUSED_BYTES /\ r <= r
      BY <1>1
    <2> QED BY <2>5, <2>6, <2>7, <2>10, <2>11 DEF m1, m2, Given, Tag
  <1> QED BY <1>3, <1>4

(* coalesce is defined on every block; it joins a free block with a free   *)
(* next block and otherwise does nothing.                                  *)
LEMMA Coalesce ==
    ASSUME NEW m \in Memory, NEW B, Blocks(m, B), NEW b \in B
    PROVE  /\ CoalesceDefined(m, b)
           /\ \/ /\ b + m[b].size \in B
                 /\ ~m[b + m[b].size].used /\ ~m[b].used
                 /\ coalesce(m, b) =
                      set_block_header(m, b, m[b].size + m[b + m[b].size].size, FALSE)
              \/ /\ \/ b + m[b].size = HeapSize
                    \/ b + m[b].size \in B /\ (m[b + m[b].size].used \/ m[b].used)
                 /\ coalesce(m, b) = m
  <1> DEFINE n == b + m[b].size
  <1>1. n \in B \cup {HeapSize}
    BY NextBlock
  <1>2. HeapSize \notin Words /\ B \subseteq Words
    BY SizeAssumption, HeaderFacts DEF Words, Blocks
  <1>3. \A c \in B : m[c] # Junk
    BY DEF Blocks, Headers
  <1>4. n \in Words <=> n \in B
    BY <1>1, <1>2
  <1>5. CoalesceDefined(m, b)
    BY <1>3, <1>4 DEF CoalesceDefined, get_next_block, get_block_size,
                      is_within_heap_range
  <1>6. coalesce(m, b) = IF n \in B /\ ~m[n].used /\ ~m[b].used
                         THEN set_block_header(m, b, m[b].size + m[n].size, FALSE)
                         ELSE m
    BY <1>4 DEF coalesce, get_next_block, get_block_size, is_within_heap_range,
                block_is_in_use
  <1> QED BY <1>1, <1>5, <1>6

(* A block that survives a change outside its words. *)
LEMMA Untouched ==
    ASSUME NEW m \in Memory, NEW m2 \in Memory, NEW B, Blocks(m, B),
           NEW lo \in Int, NEW hi \in Int, SameOutside(m, m2, lo, hi), NEW S,
           S \subseteq B, \A c \in S : c + m[c].size <= lo \/ hi <= c
    PROVE  SameBlocks(m, m2, S)
  <1>1. ASSUME NEW c \in S
        PROVE  /\ m2[c] = m[c]
               /\ \A o \in Words : c <= o /\ o < c + m[c].size => m2[o] = m[o]
    <2>1. c \in Words /\ m[c].size \in Nat /\ m[c].size >= 2 /\ HeapSize \in Nat
      BY HeaderFacts, SizeAssumption DEF Blocks
    <2>2. ASSUME NEW o \in Words, c <= o, o < c + m[c].size PROVE m2[o] = m[o]
      BY <2>1, <2>2 DEF SameOutside, Words
    <2>3. m2[c] = m[c]
      BY <2>1, <2>2 DEF Words
    <2> QED BY <2>2, <2>3
  <1> QED BY <1>1 DEF SameBlocks

(* heap_free, first half: the block just marked free is joined with the    *)
(* next one if that is free.                                               *)
LEMMA JoinedNext ==
    ASSUME NEW m \in Memory, NEW B, Blocks(m, B), NEW b \in B, ~m[b].used,
           MergedBut(m, B, b)
    PROVE  LET j == coalesce(m, b)
           IN  /\ j \in Memory /\ j[-1] = m[-1]
               /\ \E C \in SUBSET B :
                     /\ Blocks(j, C) /\ MergedBut(j, C, b)
                     /\ b \in C /\ ~j[b].used
                     /\ \A c \in B : c < b => c \in C
                     /\ \A c \in B : m[c].used => c \in C
                     /\ \A c \in B : c # b + m[b].size => c \in C
                     /\ SameBlocks(m, j, C \ {b})
                     /\ b + j[b].size \in C => j[b + j[b].size].used
  <1> DEFINE n == b + m[b].size
             j == coalesce(m, b)
  <1>1. CASE n \in B /\ ~m[n].used
    <2> DEFINE C == B \ {n}
    <2>1. j = set_block_header(m, b, m[b].size + m[n].size, FALSE)
      <3>1. n \in Words
        BY <1>1, HeaderFacts DEF Blocks
      <3>2. n # HeapSize
        BY <3>1, SizeAssumption DEF Words
      <3> QED BY <1>1, <3>2, Coalesce
    <2> HIDE DEF j
    <2>2. /\ j \in Memory /\ Blocks(j, C)
          /\ TagAt(j, b, m[b].size + m[n].size, FALSE)
          /\ SameTags(m, j, B \ {b, n})
          /\ SameOutside(m, j, b, n + m[n].size)
      BY <1>1, <2>1, Join
    <2>3. /\ b \in Int /\ b >= 0 /\ m[b].size \in Nat /\ m[b].size >= 2
          /\ n \in Int /\ m[n].size \in Nat /\ m[n].size >= 2
          /\ HeapSize \in Nat
      BY <1>1, HeaderFacts, SizeAssumption DEF Blocks
    <2>4. j[b].size = m[b].size + m[n].size /\ ~j[b].used
      BY <2>2 DEF TagAt, Tag
    <2>5. j[-1] = m[-1]
      BY <2>2, <2>3 DEF SameOutside
    <2>6. b \in C
      BY <2>3
    <2>7. \A c \in C \ {b} : c + m[c].size <= b \/ n + m[n].size <= c
      <3>1. TAKE c \in C \ {b}
      <3>2. c \in Int /\ m[c].size \in Nat /\ m[c].size >= 2
        BY HeaderFacts DEF Blocks
      <3>3. c + m[c].size <= b \/ n <= c
        BY Apart
      <3>4. c + m[c].size <= n \/ n + m[n].size <= c
        BY <1>1, Apart
      <3> QED BY <3>2, <3>3, <3>4, <2>3
    <2>8. SameBlocks(m, j, C \ {b})
      <3>1. b \in Int /\ n + m[n].size \in Int
        BY <2>3
      <3> QED BY <3>1, <2>2, <2>7, Untouched
    <2>9. MergedBut(j, C, b)
      BY <2>8 DEF MergedBut, SameBlocks
    <2>10. ASSUME b + j[b].size \in C PROVE j[b + j[b].size].used
      <3>1. b + j[b].size = n + m[n].size
        BY <2>3, <2>4
      <3>2. n + m[n].size \in B /\ n # b /\ n + m[n].size # b /\ n + m[n].size # n
        BY <2>3, <2>10, <3>1
      <3>3. m[n + m[n].size].used
        BY <1>1, <3>2 DEF MergedBut
      <3> QED BY <3>1, <3>2, <3>3, <2>8 DEF SameBlocks
    <2>11. \A c \in B : (c < b \/ m[c].used) => c \in C
      <3>1. TAKE c \in B
      <3>2. CASE c = n
        BY <3>2, <1>1, <2>3
      <3> QED BY <3>2
    <2>13. \A c \in B : c # b + m[b].size => c \in C
      OBVIOUS
    <2> HIDE DEF C
    <2>12. C \in SUBSET B
      BY DEF C
    <2> QED BY <2>2, <2>4, <2>5, <2>6, <2>8, <2>9, <2>10, <2>11, <2>12, <2>13 DEF j
  <1>2. CASE ~(n \in B /\ ~m[n].used)
    <2>1. j = m
      BY <1>2, Coalesce
    <2>2. n \in B => m[n].used
      BY <1>2
    <2>3. SameBlocks(m, m, B \ {b})
      BY DEF SameBlocks
    <2> HIDE DEF j
    <2> QED BY <2>1, <2>2, <2>3 DEF j
  <1> QED BY <1>1, <1>2

(* heap_free, second half: the block in front is joined with it, if free. *)
LEMMA JoinedPrevious ==
    ASSUME NEW j \in Memory, NEW C, Blocks(j, C), NEW b \in C, ~j[b].used,
           MergedBut(j, C, b),
           b + j[b].size \in C => j[b + j[b].size].used,
           NEW p \in C, p + j[p].size = b
    PROVE  LET k == coalesce(j, p)
           IN  /\ k \in Memory /\ k[-1] = j[-1]
               /\ \E D \in SUBSET C :
                     /\ Blocks(k, D) /\ Merged(k, D)
                     /\ SameBlocks(j, k, {c \in C : j[c].used})
                     /\ {d \in D : k[d].used} = {c \in C : j[c].used}
                     /\ \A c \in C : c # b \/ j[p].used => c \in D
  <1> DEFINE k == coalesce(j, p)
  <1>1. /\ p \in Words /\ b \in Words
        /\ p \in Int /\ p >= 0 /\ j[p].size \in Nat /\ j[p].size >= 2
        /\ b \in Int /\ j[b].size \in Nat /\ j[b].size >= 2
        /\ HeapSize \in Nat /\ b < HeapSize
    BY HeaderFacts, SizeAssumption DEF Blocks, Words
  <1>2. p # b /\ p < b /\ b # HeapSize
    BY <1>1
  <1>3. CASE j[p].used
    <2>1. k = j
      BY <1>3, <1>2, Coalesce
    <2>2. ASSUME NEW c \in C, NEW d \in C, d = c + j[c].size
          PROVE  j[c].used \/ j[d].used
      <3>1. CASE c = b
        BY <3>1, <2>2
      <3>2. CASE d = b
        <4>1. c \in Int /\ j[c].size \in Nat /\ j[c].size >= 2
          BY HeaderFacts DEF Blocks
        <4>2. c = p
          <5>1. SUFFICES ASSUME c # p PROVE FALSE
            OBVIOUS
          <5>2. c + j[c].size <= p \/ p + j[p].size <= c
            BY <5>1, Apart
          <5> QED BY <5>2, <4>1, <1>1, <2>2, <3>2
        <4> QED BY <4>2, <1>3
      <3>3. CASE c # b /\ d # b
        BY <3>3, <2>2 DEF MergedBut
      <3> QED BY <3>1, <3>2, <3>3
    <2>3. Merged(j, C)
      BY <2>2 DEF Merged
    <2>4. SameBlocks(j, j, {c \in C : j[c].used})
      BY DEF SameBlocks
    <2> HIDE DEF k
    <2> QED BY <1>3, <2>1, <2>3, <2>4 DEF k
  <1>4. CASE ~j[p].used
    <2> DEFINE D == C \ {b}
    <2>1. k = set_block_header(j, p, j[p].size + j[b].size, FALSE)
      BY <1>4, <1>2, Coalesce
    <2> HIDE DEF k
    <2>2. /\ k \in Memory /\ Blocks(k, D)
          /\ TagAt(k, p, j[p].size + j[b].size, FALSE)
          /\ SameTags(j, k, C \ {p, b})
          /\ SameOutside(j, k, p, b + j[b].size)
      BY <2>1, Join
    <2>3. k[p].size = j[p].size + j[b].size /\ ~k[p].used
      BY <2>2 DEF TagAt, Tag
    <2>4. k[-1] = j[-1]
      BY <2>2, <1>1 DEF SameOutside
    <2>5. \A c \in C \ {p, b} : c + j[c].size <= p \/ b + j[b].size <= c
      <3>1. TAKE c \in C \ {p, b}
      <3>2. c \in Int /\ j[c].size \in Nat /\ j[c].size >= 2
        BY HeaderFacts DEF Blocks
      <3>3. c + j[c].size <= p \/ b <= c
        BY Apart
      <3>4. c + j[c].size <= b \/ b + j[b].size <= c
        BY Apart
      <3> QED BY <3>2, <3>3, <3>4, <1>1
    <2>6. SameBlocks(j, k, C \ {p, b})
      <3>1. p \in Int /\ b + j[b].size \in Int
        BY <1>1
      <3> QED BY <3>1, <2>2, <2>5, Untouched
    <2>7. ASSUME NEW c \in D, NEW d \in D, d = c + k[c].size
          PROVE  k[c].used \/ k[d].used
      <3>1. CASE c = p
        <4>1. d = b + j[b].size
          BY <3>1, <2>3, <2>7, <1>1
        <4>2. j[d].used /\ d # p
          BY <4>1, <1>1
        <4> QED BY <4>2, <2>6 DEF SameBlocks
      <3>2. CASE c # p /\ d = p
        <4>1. k[c] = j[c]
          BY <3>2, <2>6 DEF SameBlocks
        <4>2. j[c].used
          BY <4>1, <3>2, <2>7, <1>2, <1>4 DEF MergedBut
        <4> QED BY <4>1, <4>2
      <3>3. CASE c # p /\ d # p
        BY <3>3, <2>6, <2>7 DEF MergedBut, SameBlocks
      <3> QED BY <3>1, <3>2, <3>3
    <2>8. Merged(k, D)
      BY <2>7 DEF Merged
    <2>9. SameBlocks(j, k, {c \in C : j[c].used})
      BY <2>6, <1>4 DEF SameBlocks
    <2>10. {d \in D : k[d].used} = {c \in C : j[c].used}
      BY <2>3, <2>6, <1>4 DEF SameBlocks
    <2>12. \A c \in C : c # b \/ j[p].used => c \in D
      BY <1>4
    <2> HIDE DEF D
    <2>11. D \in SUBSET C
      BY DEF D
    <2> QED BY <2>2, <2>4, <2>8, <2>9, <2>10, <2>11, <2>12 DEF k
  <1> QED BY <1>3, <1>4

(* heap_free is defined on every block in use; afterwards the blocks in    *)
(* use are the others, with their words untouched, and no two neighbours   *)
(* are free.  A block goes only if it is merged into the one before it.    *)
LEMMA FreedBlock ==
    ASSUME NEW m \in Memory, m[-1] # Junk, NEW B, Blocks(m, B), Merged(m, B),
           NEW b \in B, m[b].used
    PROVE  LET f == MarkFree(m, b)
               p == get_previous_block(m, b)
               k == MergeAround(f, b, p)
           IN  /\ m[b] # Junk /\ m[b - HEADER_SIZE] # Junk
               /\ MergeDefined(f, b, p)
               /\ k \in Memory /\ k[-1] = m[-1]
               /\ \E D \in SUBSET B :
                     /\ Blocks(k, D) /\ Merged(k, D)
                     /\ SameBlocks(m, k, {c \in B : m[c].used} \ {b})
                     /\ {d \in D : k[d].used} = {c \in B : m[c].used} \ {b}
                     /\ \A c \in B : c # b /\ c # b + m[b].size => c \in D
                     /\ b \notin D => b # 0 /\ ~m[b - HEADER_SIZE].used
  <1> DEFINE f == MarkFree(m, b)
             p == get_previous_block(m, b)
             j == coalesce(f, b)
             k == MergeAround(f, b, p)
             U == {c \in B : m[c].used} \ {b}
  <1>1. /\ b \in Words /\ b \in Int /\ b >= 0 /\ m[b].size \in Nat /\ m[b].size >= 2
        /\ m[b] # Junk /\ HeapSize \in Nat
    BY HeaderFacts, SizeAssumption DEF Blocks, Headers
  <1>2. f = set_block_header(m, b, m[b].size, FALSE)
    BY DEF MarkFree, get_block_size
  <1> HIDE DEF f
  <1>3. /\ f \in Memory /\ Blocks(f, B) /\ TagAt(f, b, m[b].size, FALSE)
        /\ SameTags(m, f, B \ {b}) /\ SameOutside(m, f, b, b + m[b].size)
    BY <1>2, Mark
  <1>4. SameBlocks(m, f, B \ {b})
    <2>1. \A c \in B \ {b} : c + m[c].size <= b \/ b + m[b].size <= c
      BY Apart
    <2>2. b + m[b].size \in Int
      BY <1>1
    <2> QED BY <2>1, <2>2, <1>1, <1>3, Untouched
  <1>5. f[b].size = m[b].size /\ ~f[b].used /\ f[-1] = m[-1]
    BY <1>1, <1>3 DEF TagAt, Tag, SameOutside
  <1>6. MergedBut(f, B, b)
    BY <1>4 DEF MergedBut, Merged, SameBlocks
  <1>7. /\ j \in Memory /\ j[-1] = f[-1]
        /\ \E C \in SUBSET B :
              /\ Blocks(j, C) /\ MergedBut(j, C, b)
              /\ b \in C /\ ~j[b].used
              /\ \A c \in B : c < b => c \in C
              /\ \A c \in B : f[c].used => c \in C
              /\ \A c \in B : c # b + f[b].size => c \in C
              /\ SameBlocks(f, j, C \ {b})
              /\ b + j[b].size \in C => j[b + j[b].size].used
    BY <1>3, <1>5, <1>6, JoinedNext
  <1> HIDE DEF j
  <1>8. PICK C \in SUBSET B :
              /\ Blocks(j, C) /\ MergedBut(j, C, b)
              /\ b \in C /\ ~j[b].used
              /\ \A c \in B : c < b => c \in C
              /\ \A c \in B : f[c].used => c \in C
              /\ \A c \in B : c # b + f[b].size => c \in C
              /\ SameBlocks(f, j, C \ {b})
              /\ b + j[b].size \in C => j[b + j[b].size].used
    BY <1>7
  <1>9. U = {c \in C : j[c].used}
    BY <1>4, <1>5, <1>8 DEF SameBlocks
  <1>10. SameBlocks(m, j, U)
    BY <1>4, <1>5, <1>8 DEF SameBlocks
  <1>11. CoalesceDefined(f, b)
    BY <1>3, Coalesce
  <1>12. CASE b = 0
    <2>1. m[b - HEADER_SIZE] # Junk
      BY <1>1, <1>12 DEF HEADER_SIZE
    <2>2. m[-1] \in Tags
      BY SizeAssumption DEF Memory
    <2>3. p = 0 \/ p \notin Words
      BY <2>2, <1>12 DEF get_previous_block, get_block_size, HEADER_SIZE, Tags, Words
    <2>4. coalesce(j, b) = j /\ CoalesceDefined(j, b)
      BY <1>7, <1>8, Coalesce
    <2>5. k = j /\ MergeDefined(f, b, p)
      BY <2>3, <2>4, <1>11, <1>12 DEF MergeAround, MergeDefined, is_within_heap_range, j
    <2>6. ASSUME NEW c \in C, NEW d \in C, d = c + j[c].size
          PROVE  j[c].used \/ j[d].used
      <3>1. c \in Int /\ c >= 0 /\ j[c].size \in Nat /\ j[c].size >= 2
        BY <1>7, <1>8, HeaderFacts DEF Blocks
      <3>2. d # b
        BY <3>1, <2>6, <1>12
      <3> QED BY <3>2, <2>6, <1>8 DEF MergedBut
    <2>7. Merged(j, C)
      BY <2>6 DEF Merged
    <2> HIDE DEF k, p, U
    <2> QED BY <2>1, <2>5, <2>7, <1>1, <1>5, <1>7, <1>8, <1>9, <1>10 DEF k, p, f, U
  <1>13. CASE b # 0
    <2>1. p \in B /\ p < b /\ p + m[p].size = b /\ m[b - 1] = m[p]
      BY <1>13, PreviousBlock
    <2>2. m[b - HEADER_SIZE] # Junk
      BY <2>1 DEF Blocks, Headers, HEADER_SIZE
    <2> HIDE DEF p
    <2>3. p \in Int /\ p \in Words
      BY <2>1, HeaderFacts DEF Blocks
    <2>4. p \in C /\ p # b
      BY <2>1, <2>3, <1>1, <1>8
    <2>5. j[p] = m[p]
      BY <2>1, <2>4, <1>4, <1>8 DEF SameBlocks
    <2>6. p + j[p].size = b
      BY <2>1, <2>5
    <2>7. k = coalesce(j, p) /\ MergeDefined(f, b, p)
      <3>1. CoalesceDefined(j, p)
        BY <2>4, <1>7, <1>8, Coalesce
      <3> QED BY <3>1, <2>3, <1>11 DEF MergeAround, MergeDefined, is_within_heap_range, j
    <2> HIDE DEF k
    <2> DEFINE q == coalesce(j, p)
    <2>8. /\ q \in Memory /\ q[-1] = j[-1]
          /\ \E D \in SUBSET C :
                /\ Blocks(q, D) /\ Merged(q, D)
                /\ SameBlocks(j, q, {c \in C : j[c].used})
                /\ {d \in D : q[d].used} = {c \in C : j[c].used}
                /\ \A c \in C : c # b \/ j[p].used => c \in D
      <3>1. /\ Blocks(j, C) /\ b \in C /\ ~j[b].used /\ MergedBut(j, C, b)
            /\ b + j[b].size \in C => j[b + j[b].size].used
        BY <1>8
      <3>2. j \in Memory
        BY <1>7
      <3> QED BY ONLY <3>1, <3>2, <2>4, <2>6, JoinedPrevious
    <2> HIDE DEF q
    <2>9. k = q
      BY <2>7 DEF q
    <2>10. SameBlocks(m, q, U)
      BY <2>8, <1>9, <1>10 DEF SameBlocks
    <2> HIDE DEF U
    <2>11. PICK D \in SUBSET C :
                /\ Blocks(q, D) /\ Merged(q, D)
                /\ {d \in D : q[d].used} = {c \in C : j[c].used}
                /\ \A c \in C : c # b \/ j[p].used => c \in D
      BY <2>8
    <2>12. \A c \in B : c # b /\ c # b + m[b].size => c \in D
      BY <2>11, <1>5, <1>8
    <2>13. b \notin D => b # 0 /\ ~m[b - HEADER_SIZE].used
      BY <2>1, <2>5, <2>11, <1>8, <1>13 DEF HEADER_SIZE
    <2>14. D \in SUBSET B /\ {d \in D : q[d].used} = U
      BY <2>11, <1>8, <1>9
    <2> QED BY <2>2, <2>7, <2>8, <2>9, <2>10, <2>11, <2>12, <2>13, <2>14, <1>1, <1>5, <1>7
            DEF k, p, f, U
  <1> QED BY <1>12, <1>13

----
(* The inductive invariant.  PayloadsIntact and WasteBounded speak of the  *)
(* blocks the client holds; that those blocks exist, and that a rewritten  *)
(* header never lies in one, comes from the tiling in FitInvariant.        *)
IInv == TypeOK /\ FitInvariant /\ PayloadsIntact /\ WasteBounded

(* The block at offset b serves a request of u words. *)
Serves(m, b, u) ==
    /\ m[b] # Junk
    /\ u <= get_payload_size(m, b)
    /\ ClientOnly(m, b)
    /\ m[b].size <= 2 * get_size_to_allocate(u)
    /\ m[b].size <= get_size_to_allocate(u) + MAX_UNUSED_BYTES

(* The invariants about the client's blocks, one block at a time. *)
LEMMA ServesClient ==
    (\A p \in DOMAIN live : Serves(mem, get_block_start(p), live[p]))
        <=> PayloadsIntact /\ WasteBounded
  BY DEF Serves, PayloadsIntact, WasteBounded, ClientOnly

(* The same after a step. *)
LEMMA ServesClientNext ==
    (\A p \in DOMAIN live' : Serves(mem', get_block_start(p), live'[p]))
        <=> PayloadsIntact' /\ WasteBounded'
  BY DEF Serves, PayloadsIntact, WasteBounded, ClientOnly

(* A block whose words did not change still serves its request. *)
LEMMA StillServes ==
    ASSUME NEW m \in Memory, NEW m2 \in Memory, NEW B, Blocks(m, B), NEW b \in B,
           NEW S, SameBlocks(m, m2, S), b \in S, NEW u, Serves(m, b, u)
    PROVE  Serves(m2, b, u)
  <1>1. /\ b \in Words /\ m[b].size \in Nat /\ b + m[b].size <= HeapSize
        /\ HeapSize \in Nat
    BY HeaderFacts, SizeAssumption DEF Blocks
  <1>2. m2[b] = m[b] /\ \A o \in Words : b <= o /\ o < b + m[b].size => m2[o] = m[o]
    BY DEF SameBlocks
  <1>3. ClientOnly(m2, b)
    <2>1. PayloadWords(m2, b) = PayloadWords(m, b)
      BY <1>2 DEF PayloadWords, get_block_size
    <2>2. ASSUME NEW o \in PayloadWords(m, b) PROVE m2[o] = Junk
      <3>1. o \in Words /\ b <= o /\ o < b + m[b].size
        BY <1>1 DEF PayloadWords, get_block_size, HEADER_SIZE, Words
      <3>2. m[o] = Junk
        BY DEF Serves, ClientOnly
      <3> QED BY <3>1, <3>2, <1>2
    <2> QED BY <2>1, <2>2 DEF ClientOnly
  <1> QED BY <1>2, <1>3 DEF Serves, get_payload_size, get_block_size

----
(* The heap heap_create leaves satisfies the invariant. *)
LEMMA InitIInv ==
    ASSUME Init PROVE IInv
  <1>1. PICK g \in GuardSizes :
            mem = [o \in -1 .. HeapSize - 1 |->
                      IF o = -1 THEN Tag(g, FALSE)
                      ELSE IF o = 0 \/ o = HeapSize - HEADER_SIZE
                      THEN Tag(HeapSize, FALSE)
                      ELSE Junk]
    BY DEF Init
  <1>2. HeapSize \in Nat /\ HeapSize >= 2 /\ g \in Nat
    BY SizeAssumption, GuardAssumption DEF HEADER_SIZE
  <1>3. Tag(g, FALSE) \in Tags /\ Tag(HeapSize, FALSE) \in Tags
    BY <1>2 DEF Tag, Tags
  <1>4. mem \in Memory
    BY <1>1, <1>3 DEF Memory
  <1>5. mem[0] = Tag(HeapSize, FALSE) /\ mem[HeapSize - 1] = Tag(HeapSize, FALSE)
        /\ mem[-1] = Tag(g, FALSE)
    <2>1. 0 \in -1 .. HeapSize - 1 /\ HeapSize - 1 \in -1 .. HeapSize - 1
          /\ -1 \in -1 .. HeapSize - 1 /\ HeapSize - 1 # -1 /\ HeapSize - 1 # 0
      BY <1>2
    <2> QED BY <2>1, <1>1 DEF HEADER_SIZE
  <1>6. mem[0].size = HeapSize /\ mem[0].used = FALSE
    BY <1>2, <1>5 DEF Tag
  <1>7. 0 \in Words
    BY <1>2 DEF Words
  <1>8. 0 \in Headers(mem)
    <2>1. mem[0] # Junk
      BY <1>3, <1>5, MarkAssumption
    <2>2. mem[0 + mem[0].size - 1] = mem[0]
      <3>1. 0 + mem[0].size - 1 = HeapSize - 1
        BY <1>2, <1>6
      <3> QED BY <3>1, <1>5
    <2> QED BY <2>1, <2>2, <1>2, <1>6, <1>7 DEF Headers, HEADER_SIZE, PAYLOAD_ALIGN
  <1>9. Tiling(mem, {0})
    BY <1>2, <1>6 DEF Tiling, Words
  <1>10. Merged(mem, {0})
    BY <1>2, <1>6 DEF Merged
  <1>11. Owned(mem, {0})
    BY <1>6 DEF Owned, Init
  <1>12. FitInvariant
    <2>1. {0} \in SUBSET Headers(mem)
      BY <1>8
    <2>2. Structure({0}) /\ SearchSound({0})
      BY <1>9, <1>10, <1>11 DEF Structure, SearchSound, Init
    <2> QED BY <2>1, <2>2, <1>3, <1>5, MarkAssumption DEF FitInvariant, Init
  <1>13. TypeOK
    BY <1>2, <1>4, <1>7 DEF TypeOK, Init
  <1>14. PayloadsIntact /\ WasteBounded
    BY DEF PayloadsIntact, WasteBounded, Init
  <1> QED BY <1>12, <1>13, <1>14 DEF IInv

----
(* What IInv says of the blocks, in the form the steps use. *)
LEMMA TheBlocks ==
    ASSUME IInv
    PROVE  /\ mem \in Memory /\ mem[-1] # Junk /\ pc # "undefined"
           /\ \A p \in DOMAIN live : p \in Words /\ live[p] \in Requests
           /\ \A p \in DOMAIN live : Serves(mem, get_block_start(p), live[p])
           /\ \E B : Blocks(mem, B) /\ Merged(mem, B) /\ Owned(mem, B) /\ SearchSound(B)
  <1>1. mem \in Memory /\ \A p \in DOMAIN live : p \in Words /\ live[p] \in Requests
    BY DEF IInv, TypeOK
  <1>2. \A p \in DOMAIN live : Serves(mem, get_block_start(p), live[p])
    BY ServesClient DEF IInv
  <1>3. PICK B \in SUBSET Headers(mem) : Structure(B) /\ SearchSound(B)
    BY DEF IInv, FitInvariant
  <1>4. Blocks(mem, B) /\ Merged(mem, B) /\ Owned(mem, B) /\ SearchSound(B)
    BY <1>3 DEF Structure, Blocks
  <1> QED BY <1>1, <1>2, <1>4 DEF IInv, FitInvariant

(* A step that leaves the memory and the client alone preserves IInv if    *)
(* the locals keep their types and the search stays sound.                 *)
LEMMA SearchStep ==
    ASSUME IInv, UNCHANGED <<search_alg, mem, hnext, live>>,
           NEW B, Blocks(mem, B), Merged(mem, B), Owned(mem, B),
           SearchSound(B)',
           pc' \in {"idle", "scan"}, user_size' \in Nat, realSize' \in Nat,
           blk' \in 0 .. HeapSize, flag' \in BOOLEAN,
           minBlk' \in Words \cup {NULL}, minBlkSize' \in Nat
    PROVE  IInv'
  <1>1. TypeOK'
    BY DEF IInv, TypeOK
  <1>2. Structure(B)' /\ B \in SUBSET Headers(mem')
    BY DEF Structure, Blocks, Owned
  <1>3. FitInvariant'
    BY <1>2 DEF FitInvariant, IInv
  <1>4. PayloadsIntact' /\ WasteBounded'
    BY DEF IInv, PayloadsIntact, WasteBounded
  <1> QED BY <1>1, <1>3, <1>4 DEF IInv

(* The block heap_malloc returns is the one block newly in use. *)
LEMMA OwnedAfterTake ==
    ASSUME NEW B, Owned(mem, B), NEW b \in B, b \in Int, ReturnBlock(b), NEW C,
           B \subseteq C, mem'[b].used, SameTags(mem, mem', B \ {b}),
           \A c \in C \ B : ~mem'[c].used
    PROVE  Owned(mem, C)'
  <1>1. DOMAIN live' = DOMAIN live \cup {b + 1}
    BY DEF ReturnBlock, get_payload, HEADER_SIZE
  <1>2. {c \in C : mem'[c].used} = {c \in B : mem[c].used} \cup {b}
    BY DEF SameTags
  <1>3. {get_block_start(p) : p \in DOMAIN live'}
           = {get_block_start(p) : p \in DOMAIN live} \cup {b}
    <2>1. get_block_start(b + 1) = b
      BY DEF get_block_start, HEADER_SIZE
    <2> QED BY <1>1, <2>1
  <1> QED BY <1>2, <1>3 DEF Owned

(* heap_malloc returns a free block b that is large enough. *)
LEMMA ReturnBlockStep ==
    ASSUME IInv, NEW B, Blocks(mem, B), Merged(mem, B), Owned(mem, B),
           NEW b \in B, ~mem[b].used,
           user_size \in Requests, realSize = get_size_to_allocate(user_size),
           realSize <= mem[b].size,
           ReturnBlock(b), UNCHANGED search_alg, hnext' \in Words
    PROVE  IInv'
  <1>1. /\ mem \in Memory /\ mem[-1] # Junk
        /\ \A p \in DOMAIN live : p \in Words /\ live[p] \in Requests
        /\ \A p \in DOMAIN live : Serves(mem, get_block_start(p), live[p])
    BY TheBlocks
  <1>2. /\ b \in Words /\ b \in Int /\ b >= 0 /\ mem[b].size \in Nat
        /\ mem[b].size >= 2 /\ b + mem[b].size <= HeapSize /\ HeapSize \in Nat
    BY HeaderFacts, SizeAssumption, <1>1 DEF Blocks
  <1>3. /\ realSize \in Nat /\ realSize >= 2 /\ realSize % 2 = 0
        /\ realSize >= user_size + 2 /\ user_size \in Nat
    BY SizeToAllocate, RequestAssumption
  <1> DEFINE q == HandOver(prepare_block_for_use(mem, b, realSize), b)
  <1>4. mem' = q
    BY DEF ReturnBlock
  <1>q. Given(mem, q, B, b, realSize)
    BY <1>1, <1>3, Prepared
  <1> HIDE DEF q
  <1>5. /\ mem' \in Memory
        /\ mem'[b].used /\ realSize <= mem'[b].size
        /\ mem'[b].size <= 2 * realSize /\ mem'[b].size <= realSize + MAX_UNUSED_BYTES
        /\ SameOutside(mem, mem', b, b + mem[b].size)
        /\ ClientOnly(mem', b)
        /\ \E C : /\ Blocks(mem', C) /\ Merged(mem', C) /\ B \subseteq C
                  /\ SameTags(mem, mem', B \ {b})
                  /\ \A c \in C \ B : ~mem'[c].used
    BY <1>4, <1>q DEF Given
  <1>6. PICK C : /\ Blocks(mem', C) /\ Merged(mem', C) /\ B \subseteq C
                 /\ SameTags(mem, mem', B \ {b})
                 /\ \A c \in C \ B : ~mem'[c].used
    BY <1>5
  <1>7. SameBlocks(mem, mem', B \ {b})
    <2>1. \A c \in B \ {b} : c + mem[c].size <= b \/ b + mem[b].size <= c
      BY <1>1, Apart
    <2>2. b + mem[b].size \in Int
      BY <1>2
    <2> QED BY <2>1, <2>2, <1>1, <1>2, <1>5, Untouched
  <1>8. /\ DOMAIN live' = DOMAIN live \cup {b + 1}
        /\ live'[b + 1] = user_size
        /\ \A p \in DOMAIN live : p # b + 1 => live'[p] = live[p]
    BY DEF ReturnBlock, get_payload, HEADER_SIZE
  <1>9. Owned(mem, C)'
    BY <1>2, <1>5, <1>6, OwnedAfterTake
  <1>10. pc' = "idle"
    BY DEF ReturnBlock, Return
  <1>11. FitInvariant'
    <2>1. C \in SUBSET Headers(mem') /\ Tiling(mem', C)
      BY <1>6 DEF Blocks
    <2>2. Structure(C)' /\ SearchSound(C)'
      BY <2>1, <1>6, <1>9, <1>10 DEF Structure, SearchSound
    <2>3. mem'[-1] = mem[-1]
      BY <1>2, <1>5 DEF SameOutside
    <2> QED BY <2>1, <2>2, <2>3, <1>1, <1>10 DEF FitInvariant
  <1>12. \A p \in DOMAIN live' : p \in Words /\ live'[p] \in Requests
    <2>1. b + 1 \in Words
      BY <1>2 DEF Words
    <2> QED BY <2>1, <1>1, <1>8
  <1>13. TypeOK'
    <2>1. user_size' = 0 /\ realSize' = 0 /\ blk' = 0 /\ flag' = FALSE
          /\ minBlk' = NULL /\ minBlkSize' = 0
      BY DEF ReturnBlock, Return
    <2>2. search_alg \in SearchAlgs
      BY DEF IInv, TypeOK
    <2>3. DOMAIN live' \subseteq Words
      BY <1>12
    <2>4. \A p \in DOMAIN live' : live'[p] \in Requests
      BY <1>12
    <2>5. search_alg' \in SearchAlgs /\ hnext' \in Words
      BY <2>2
    <2>6. blk' \in 0 .. HeapSize /\ minBlk' \in Words \cup {NULL}
      BY <2>1, <1>2
    <2> QED BY <2>1, <2>3, <2>4, <2>5, <2>6, <1>5, <1>10 DEF TypeOK
  <1>14. ASSUME NEW p \in DOMAIN live'
         PROVE  Serves(mem', get_block_start(p), live'[p])
    <2>1. CASE p = b + 1
      <3>1. get_block_start(p) = b /\ live'[p] = user_size
        BY <2>1, <1>2, <1>8 DEF get_block_start, HEADER_SIZE
      <3>2. mem'[b] # Junk /\ mem'[b].size \in Nat
        BY <1>5, <1>6, HeaderFacts DEF Blocks, Headers
      <3>3. user_size <= get_payload_size(mem', b)
        BY <3>2, <1>3, <1>5 DEF get_payload_size, get_block_size, HEADER_SIZE
      <3> QED BY <3>1, <3>2, <3>3, <1>5 DEF Serves
    <2>2. CASE p # b + 1
      <3>1. p \in DOMAIN live /\ live'[p] = live[p] /\ p \in Words
        BY <2>2, <1>1, <1>8
      <3>2. get_block_start(p) \in B \ {b}
        <4>1. get_block_start(p) \in {c \in B : mem[c].used}
          BY <3>1 DEF Owned
        <4> QED BY <4>1
      <3>3. Serves(mem, get_block_start(p), live[p])
        BY <3>1, <1>1
      <3> QED BY <3>1, <3>2, <3>3, <1>1, <1>5, <1>7, StillServes
    <2> QED BY <2>1, <2>2
  <1>15. PayloadsIntact' /\ WasteBounded'
    BY <1>14, ServesClientNext
  <1> QED BY <1>11, <1>13, <1>15 DEF IInv

(* heap_malloc starts its search. *)
LEMMA MallocStep ==
    ASSUME IInv, NEW u \in Requests, heap_malloc(u), search_alg \in {FIRSTFIT, BESTFIT}
    PROVE  IInv'
  <1>1. PICK B : Blocks(mem, B) /\ Merged(mem, B) /\ Owned(mem, B) /\ SearchSound(B)
    BY TheBlocks
  <1>2. mem \in Memory /\ HeapSize \in Nat /\ SizeModulus \in Nat /\ SizeModulus > 2
    BY TheBlocks, SizeAssumption DEF HEADER_SIZE
  <1>3. blk' = 0 /\ user_size' = u /\ realSize' = get_size_to_allocate(u)
        /\ flag' = FALSE /\ minBlk' = NULL /\ minBlkSize' = SizeModulus - 1
        /\ pc' = "scan" /\ UNCHANGED <<search_alg, mem, hnext, live>>
    BY DEF heap_malloc, FIRSTFIT, BESTFIT, NEXTFIT
  <1>4. 0 \in B /\ \A c \in B : c >= 0 /\ c \in Int
    BY <1>1, <1>2, FirstBlock, HeaderFacts DEF Blocks
  <1>5. SearchSound(B)'
    BY <1>3, <1>4 DEF SearchSound
  <1>6. realSize' \in Nat /\ user_size' \in Nat
    BY <1>3, SizeToAllocate, RequestAssumption
  <1>7. 0 \in 0 .. HeapSize /\ SizeModulus - 1 \in Nat
    BY <1>2
  <1>8. blk' \in 0 .. HeapSize
    BY <1>3, <1>7
  <1>9. minBlkSize' \in Nat
    BY <1>3, <1>7
  <1>10. pc' \in {"idle", "scan"} /\ flag' \in BOOLEAN /\ minBlk' \in Words \cup {NULL}
    BY <1>3
  <1> QED BY <1>1, <1>3, <1>5, <1>6, <1>8, <1>9, <1>10, SearchStep

(* The search of first fit passes a block that does not fit. *)
LEMMA FirstFitPassStep ==
    ASSUME IInv, FirstFitPass
    PROVE  IInv'
  <1>1. PICK B : Blocks(mem, B) /\ Merged(mem, B) /\ Owned(mem, B) /\ SearchSound(B)
    BY TheBlocks
  <1>2. mem \in Memory /\ HeapSize \in Nat
    BY TheBlocks, SizeAssumption
  <1>3. /\ pc = "scan" /\ search_alg = FIRSTFIT /\ blk \in Words /\ ~BlkFits
        /\ blk' = blk + mem[blk].size
        /\ UNCHANGED <<search_alg, mem, hnext, live, pc, user_size, realSize, flag,
                       minBlk, minBlkSize>>
    BY DEF FirstFitPass, Scanning, AtBlock, StepOver, get_next_block, get_block_size,
           is_within_heap_range
  <1>4. blk \in B
    BY <1>1, <1>2, <1>3 DEF SearchSound, Words
  <1>5. blk' \in B \cup {HeapSize}
    BY <1>1, <1>2, <1>3, <1>4, NextBlock
  <1>6. \A c \in B : c \in Int /\ c >= 0 /\ c < HeapSize /\ mem[c].size \in Nat
    BY <1>1, <1>2, HeaderFacts DEF Blocks, Words
  <1>7. ASSUME NEW c \in B, c < blk', ~mem[c].used PROVE mem[c].size < realSize
    <2>1. CASE c < blk
      BY <2>1, <1>1, <1>3, <1>7 DEF SearchSound
    <2>2. CASE c = blk
      BY <2>2, <1>3, <1>6, <1>7 DEF BlkFits, get_block_size, block_is_in_use, IInv, TypeOK
    <2>3. CASE c > blk
      <3>1. blk + mem[blk].size <= c
        BY <2>3, <1>1, <1>4, <1>6 DEF Blocks, Tiling
      <3> QED BY <3>1, <1>3, <1>4, <1>6, <1>7
    <2> QED BY <2>1, <2>2, <2>3, <1>4, <1>6
  <1>8. SearchSound(B)'
    BY <1>1, <1>3, <1>5, <1>7 DEF SearchSound, FIRSTFIT, BESTFIT
  <1>9. blk' \in 0 .. HeapSize
    BY <1>2, <1>5, <1>6
  <1>10. pc' \in {"idle", "scan"} /\ user_size' \in Nat /\ realSize' \in Nat
         /\ flag' \in BOOLEAN /\ minBlk' \in Words \cup {NULL} /\ minBlkSize' \in Nat
    BY <1>3 DEF IInv, TypeOK
  <1> QED BY <1>1, <1>3, <1>8, <1>9, <1>10, SearchStep

(* The search of best fit looks at a block. *)
LEMMA BestFitScanStep ==
    ASSUME IInv, BestFitStep
    PROVE  IInv'
  <1>1. PICK B : Blocks(mem, B) /\ Merged(mem, B) /\ Owned(mem, B) /\ SearchSound(B)
    BY TheBlocks
  <1>2. mem \in Memory /\ HeapSize \in Nat /\ HeapSize < SizeModulus - 1
        /\ SizeModulus \in Nat
    BY TheBlocks, SizeAssumption DEF HEADER_SIZE
  <1> DEFINE better == BlkFits /\ mem[blk].size < minBlkSize
  <1>3. /\ pc = "scan" /\ search_alg = BESTFIT /\ blk \in Words
        /\ blk' = blk + mem[blk].size
        /\ UNCHANGED <<search_alg, mem, hnext, live, pc, user_size, realSize, flag>>
        /\ minBlk' = IF better THEN blk ELSE minBlk
        /\ minBlkSize' = IF better THEN mem[blk].size ELSE minBlkSize
    BY DEF BestFitStep, Scanning, AtBlock, StepOver, get_next_block, get_block_size,
           is_within_heap_range
  <1>4. blk \in B
    BY <1>1, <1>2, <1>3 DEF SearchSound, Words
  <1>5. blk' \in B \cup {HeapSize}
    BY <1>1, <1>2, <1>3, <1>4, NextBlock
  <1>6. \A c \in B : /\ c \in Int /\ c >= 0 /\ c < HeapSize /\ c \in Words
                     /\ mem[c].size \in Nat /\ mem[c].size <= HeapSize
    BY <1>1, <1>2, HeaderFacts DEF Blocks, Words
  <1>7. realSize \in Nat /\ minBlkSize \in Nat /\ minBlk \in Words \cup {NULL}
        /\ NULL \notin Words
    BY MarkAssumption DEF IInv, TypeOK, Words
  <1>8. ASSUME NEW c \in B, c < blk' PROVE c < blk \/ c = blk
    <2>1. SUFFICES ASSUME c > blk PROVE FALSE
      BY <1>4, <1>6
    <2>2. blk + mem[blk].size <= c
      BY <2>1, <1>1, <1>4, <1>6 DEF Blocks, Tiling
    <2> QED BY <2>2, <1>3, <1>4, <1>6, <1>8
  <1>9. BlkFits <=> mem[blk].size >= realSize /\ ~mem[blk].used
    BY DEF BlkFits, get_block_size, block_is_in_use
  <1>10. ASSUME SearchSound(B)', minBlk' \in Words \cup {NULL}, minBlkSize' \in Nat
         PROVE  IInv'
    <2>1. blk' \in 0 .. HeapSize
      BY <1>2, <1>5, <1>6
    <2>2. pc' \in {"idle", "scan"} /\ user_size' \in Nat /\ realSize' \in Nat
          /\ flag' \in BOOLEAN
      BY <1>3 DEF IInv, TypeOK
    <2> QED BY <2>1, <2>2, <1>1, <1>3, <1>10, SearchStep
  <1>11. CASE better
    <2>1. minBlk' = blk /\ minBlkSize' = mem[blk].size /\ minBlk' # NULL
      BY <1>3, <1>4, <1>6, <1>7, <1>11
    <2>2. ASSUME NEW c \in B, c < blk', ~mem[c].used, mem[c].size >= realSize
          PROVE  minBlkSize' <= mem[c].size
      <3>1. CASE c = blk
        BY <3>1, <2>1, <1>6
      <3>2. CASE c < blk
        <4>1. minBlk # NULL
          BY <3>2, <2>2, <1>1, <1>3, <1>6, <1>7 DEF SearchSound
        <4>2. minBlkSize <= mem[c].size
          BY <4>1, <3>2, <2>2, <1>1, <1>3 DEF SearchSound
        <4> QED BY <4>2, <2>1, <1>4, <1>6, <1>7, <1>11
      <3> QED BY <3>1, <3>2, <2>2, <1>8
    <2>3. blk' \in B \cup {HeapSize} /\ ~mem[blk].used /\ mem[blk].size >= realSize
      BY <1>5, <1>9, <1>11
    <2>4. SearchSound(B)'
      BY <2>1, <2>2, <2>3, <1>1, <1>3, <1>4 DEF SearchSound, FIRSTFIT, BESTFIT
    <2>5. minBlk' \in Words \cup {NULL} /\ minBlkSize' \in Nat
      BY <2>1, <1>4, <1>6
    <2> QED BY <2>4, <2>5, <1>10
  <1>12. CASE ~better
    <2>1. minBlk' = minBlk /\ minBlkSize' = minBlkSize
      BY <1>3, <1>12
    <2>2. ASSUME minBlk = NULL, NEW c \in B, c < blk', ~mem[c].used
          PROVE  mem[c].size < realSize
      <3>1. CASE c < blk
        BY <3>1, <2>2, <1>1, <1>3 DEF SearchSound
      <3>2. CASE c = blk
        <4>1. minBlkSize = SizeModulus - 1
          BY <2>2, <1>1, <1>3 DEF SearchSound
        <4>2. mem[blk].size < minBlkSize
          BY <4>1, <1>2, <1>4, <1>6
        <4> QED BY <4>2, <3>2, <2>2, <1>6, <1>7, <1>9, <1>12
      <3> QED BY <3>1, <3>2, <2>2, <1>8
    <2>3. ASSUME minBlk # NULL, NEW c \in B, c < blk', ~mem[c].used, mem[c].size >= realSize
          PROVE  minBlkSize <= mem[c].size
      <3>1. CASE c < blk
        BY <3>1, <2>3, <1>1, <1>3 DEF SearchSound
      <3>2. CASE c = blk
        BY <3>2, <2>3, <1>6, <1>7, <1>9, <1>12
      <3> QED BY <3>1, <3>2, <2>3, <1>8
    <2>4. SearchSound(B)'
      BY <2>1, <2>2, <2>3, <1>1, <1>3, <1>5 DEF SearchSound, FIRSTFIT, BESTFIT
    <2>5. minBlk' \in Words \cup {NULL} /\ minBlkSize' \in Nat
      BY <2>1, <1>7
    <2> QED BY <2>4, <2>5, <1>10
  <1> QED BY <1>11, <1>12

(* The searches return NULL. *)
LEMMA ReturnNullStep ==
    ASSUME IInv, ReturnNull, UNCHANGED <<search_alg, hnext>>
    PROVE  IInv'
  <1>1. PICK B : Blocks(mem, B) /\ Merged(mem, B) /\ Owned(mem, B) /\ SearchSound(B)
    BY TheBlocks
  <1>2. /\ pc' = "idle" /\ user_size' = 0 /\ realSize' = 0 /\ blk' = 0
        /\ flag' = FALSE /\ minBlk' = NULL /\ minBlkSize' = 0
        /\ UNCHANGED <<search_alg, mem, hnext, live>>
    BY DEF ReturnNull, Return
  <1>3. SearchSound(B)'
    BY <1>2 DEF SearchSound
  <1>4. 0 \in 0 .. HeapSize /\ 0 \in Nat
    BY SizeAssumption
  <1>5. blk' \in 0 .. HeapSize
    BY <1>2, <1>4
  <1>6. pc' \in {"idle", "scan"} /\ user_size' \in Nat /\ realSize' \in Nat
        /\ flag' \in BOOLEAN /\ minBlk' \in Words \cup {NULL} /\ minBlkSize' \in Nat
    BY <1>2, <1>4
  <1> QED BY <1>1, <1>2, <1>3, <1>5, <1>6, SearchStep

(* First fit returns the block it is at. *)
LEMMA FirstFitTakeStep ==
    ASSUME IInv, FirstFitTake
    PROVE  IInv'
  <1>1. PICK B : Blocks(mem, B) /\ Merged(mem, B) /\ Owned(mem, B) /\ SearchSound(B)
    BY TheBlocks
  <1>2. /\ pc = "scan" /\ blk \in Words /\ HeapSize \in Nat
        /\ mem[blk].size >= realSize /\ ~mem[blk].used
        /\ ReturnBlock(blk) /\ UNCHANGED <<search_alg, hnext>>
    BY SizeAssumption DEF FirstFitTake, Scanning, AtBlock, BlkFits, get_block_size,
           block_is_in_use, is_within_heap_range
  <1>3. blk \in B /\ user_size \in Requests /\ realSize = get_size_to_allocate(user_size)
    BY <1>1, <1>2 DEF SearchSound, Words
  <1>4. realSize <= mem[blk].size
    BY <1>1, <1>2, <1>3, TheBlocks, HeaderFacts DEF Blocks, IInv, TypeOK
  <1>5. hnext' \in Words
    BY <1>2 DEF IInv, TypeOK
  <1> QED BY <1>1, <1>2, <1>3, <1>4, <1>5, ReturnBlockStep

(* Best fit returns the block it remembers. *)
LEMMA BestFitTakeStep ==
    ASSUME IInv, BestFitTake
    PROVE  IInv'
  <1>1. PICK B : Blocks(mem, B) /\ Merged(mem, B) /\ Owned(mem, B) /\ SearchSound(B)
    BY TheBlocks
  <1>2. /\ pc = "scan" /\ search_alg = BESTFIT /\ minBlk # NULL
        /\ ReturnBlock(minBlk) /\ UNCHANGED <<search_alg, hnext>>
    BY DEF BestFitTake, Scanning
  <1>3. /\ minBlk \in B /\ ~mem[minBlk].used
        /\ minBlkSize = mem[minBlk].size /\ minBlkSize >= realSize
        /\ user_size \in Requests /\ realSize = get_size_to_allocate(user_size)
    BY <1>1, <1>2 DEF SearchSound
  <1>4. realSize <= mem[minBlk].size
    BY <1>3 DEF IInv, TypeOK
  <1>5. hnext' \in Words
    BY <1>2 DEF IInv, TypeOK
  <1> QED BY <1>1, <1>2, <1>3, <1>4, <1>5, ReturnBlockStep

(* A search never meets a word that is not a header. *)
LEMMA NeverUndefined ==
    ASSUME IInv
    PROVE  ~ScanUndefined
  <1>1. PICK B : Blocks(mem, B) /\ Merged(mem, B) /\ Owned(mem, B) /\ SearchSound(B)
    BY TheBlocks
  <1>2. SUFFICES ASSUME pc = "scan", blk \in Words PROVE mem[blk] # Junk
    BY DEF ScanUndefined, is_within_heap_range
  <1>3. blk \in B
    BY <1>1, <1>2, SizeAssumption DEF SearchSound, Words
  <1> QED BY <1>1, <1>3 DEF Blocks, Headers

(* The block heap_free is given is the one block no longer in use. *)
LEMMA OwnedAfterFree ==
    ASSUME NEW B, Owned(mem, B), DOMAIN live \subseteq Int,
           NEW payload \in DOMAIN live, NEW D,
           {d \in D : mem'[d].used}
               = {c \in B : mem[c].used} \ {get_block_start(payload)},
           live' = [p \in DOMAIN live \ {payload} |-> live[p]]
    PROVE  Owned(mem, D)'
  <1>1. ASSUME NEW p \in DOMAIN live, p # payload
        PROVE  get_block_start(p) # get_block_start(payload)
    BY <1>1 DEF get_block_start, HEADER_SIZE
  <1>2. {get_block_start(p) : p \in DOMAIN live'} =
           {get_block_start(p) : p \in DOMAIN live} \ {get_block_start(payload)}
    BY <1>1
  <1> QED BY <1>2 DEF Owned

(* heap_free reads headers only, and leaves the other blocks as they were. *)
LEMMA FreeStep ==
    ASSUME IInv, NEW payload \in DOMAIN live, heap_free(payload)
    PROVE  IInv'
  <1> DEFINE b == get_block_start(payload)
             k == MergeAround(MarkFree(mem, b), b, get_previous_block(mem, b))
  <1>1. PICK B : Blocks(mem, B) /\ Merged(mem, B) /\ Owned(mem, B) /\ SearchSound(B)
    BY TheBlocks
  <1>2. /\ mem \in Memory /\ mem[-1] # Junk
        /\ \A p \in DOMAIN live : p \in Words /\ live[p] \in Requests
        /\ \A p \in DOMAIN live : Serves(mem, get_block_start(p), live[p])
    BY TheBlocks
  <1>3. b \in B /\ mem[b].used
    BY <1>1 DEF Owned
  <1>4. /\ mem[b] # Junk /\ mem[b - HEADER_SIZE] # Junk
        /\ MergeDefined(MarkFree(mem, b), b, get_previous_block(mem, b))
        /\ k \in Memory /\ k[-1] = mem[-1]
        /\ \E D \in SUBSET B :
              /\ Blocks(k, D) /\ Merged(k, D)
              /\ SameBlocks(mem, k, {c \in B : mem[c].used} \ {b})
              /\ {d \in D : k[d].used} = {c \in B : mem[c].used} \ {b}
              /\ \A c \in B : c # b /\ c # b + mem[b].size => c \in D
              /\ b \notin D => b # 0 /\ ~mem[b - HEADER_SIZE].used
    BY <1>1, <1>2, <1>3, FreedBlock
  <1>5. get_next_block(mem, b) = hnext => mem[hnext] # Junk
    <2>1. b + mem[b].size \in B \cup {HeapSize}
      BY <1>1, <1>2, <1>3, NextBlock
    <2>2. hnext \in Words /\ HeapSize \notin Words
      BY SizeAssumption DEF IInv, TypeOK, Words
    <2> QED BY <2>1, <2>2, <1>1 DEF get_next_block, get_block_size, Blocks, Headers
  <1>6. FreeDefined(b)
    BY <1>4, <1>5 DEF FreeDefined
  <1>7. /\ pc = "idle" /\ pc' = "idle" /\ mem' = k
        /\ hnext' = AdjustNext(get_next_block(mem, b))
        /\ live' = [p \in DOMAIN live \ {payload} |-> live[p]]
        /\ UNCHANGED <<search_alg, locals>>
    BY <1>6 DEF heap_free
  <1>h. hnext' \in Words
    <2>1. 0 \in Words /\ hnext \in Words
      BY SizeAssumption DEF IInv, TypeOK, Words, HEADER_SIZE
    <2> QED BY <2>1, <1>7 DEF AdjustNext, is_within_heap_range
  <1> HIDE DEF k
  <1>8. PICK D \in SUBSET B :
              /\ Blocks(mem', D) /\ Merged(mem', D)
              /\ SameBlocks(mem, mem', {c \in B : mem[c].used} \ {b})
              /\ {d \in D : mem'[d].used} = {c \in B : mem[c].used} \ {b}
    BY <1>4, <1>7
  <1>9. \A p \in DOMAIN live' : p \in DOMAIN live /\ p # payload /\ live'[p] = live[p]
    BY <1>7
  <1>10. ASSUME NEW p \in DOMAIN live, p # payload
         PROVE  get_block_start(p) \in {c \in B : mem[c].used} \ {b}
    <2>1. get_block_start(p) # b
      BY <1>2, <1>10 DEF get_block_start, HEADER_SIZE, Words
    <2> QED BY <2>1, <1>1 DEF Owned
  <1>11. Owned(mem, D)'
    BY <1>1, <1>2, <1>7, <1>8, OwnedAfterFree DEF Words
  <1>12. FitInvariant'
    <2>1. D \in SUBSET Headers(mem') /\ Tiling(mem', D)
      BY <1>8 DEF Blocks
    <2>2. Structure(D)' /\ SearchSound(D)'
      BY <2>1, <1>7, <1>8, <1>11 DEF Structure, SearchSound
    <2> QED BY <2>1, <2>2, <1>2, <1>4, <1>7 DEF FitInvariant
  <1>13. TypeOK'
    <2>1. DOMAIN live' \subseteq Words /\ \A p \in DOMAIN live' : live'[p] \in Requests
      BY <1>2, <1>9
    <2>2. mem' \in Memory
      BY <1>4, <1>7
    <2> QED BY <2>1, <2>2, <1>7, <1>h DEF IInv, TypeOK, locals
  <1>14. ASSUME NEW p \in DOMAIN live'
         PROVE  Serves(mem', get_block_start(p), live'[p])
    <2>1. p \in DOMAIN live /\ p # payload /\ live'[p] = live[p]
      BY <1>9
    <2>2. get_block_start(p) \in {c \in B : mem[c].used} \ {b}
      BY <2>1, <1>10
    <2>3. mem' \in Memory /\ Serves(mem, get_block_start(p), live[p])
      BY <2>1, <1>2, <1>4, <1>7
    <2> QED BY <2>1, <2>2, <2>3, <1>1, <1>2, <1>8, StillServes
  <1>15. PayloadsIntact' /\ WasteBounded'
    BY <1>14, ServesClientNext
  <1> QED BY <1>12, <1>13, <1>15 DEF IInv

----
(* Under first fit and best fit. *)
FitOnly == SearchAlgs \subseteq {FIRSTFIT, BESTFIT}

(* Every step preserves the invariant, whichever of the two searches runs. *)
LEMMA NextIInv ==
    ASSUME FitOnly, IInv, [Next]_vars
    PROVE  IInv'
  <1>1. search_alg \in {FIRSTFIT, BESTFIT}
    BY DEF FitOnly, IInv, TypeOK
  <1>2. CASE \E u \in Requests : heap_malloc(u)
    BY <1>1, <1>2, MallocStep
  <1>3. CASE FirstFitTake
    BY <1>3, FirstFitTakeStep
  <1>4. CASE FirstFitPass
    BY <1>4, FirstFitPassStep
  <1>5. CASE FirstFitFail \/ BestFitFail
    BY <1>5, ReturnNullStep DEF FirstFitFail, BestFitFail, Scanning
  <1>6. CASE BestFitStep
    BY <1>6, BestFitScanStep
  <1>7. CASE BestFitTake
    BY <1>7, BestFitTakeStep
  <1>8. CASE NextFitTake \/ NextFitWrap \/ NextFitPass \/ NextFitFail
    BY <1>1, <1>8 DEF NextFitTake, NextFitWrap, NextFitPass, NextFitFail, Scanning,
                      FIRSTFIT, BESTFIT, NEXTFIT
  <1>9. CASE ScanUndefined
    BY <1>9, NeverUndefined
  <1>10. CASE \E payload \in DOMAIN live : heap_free(payload)
    BY <1>10, FreeStep
  <1>11. CASE UNCHANGED vars
    BY <1>11 DEF IInv, TypeOK, FitInvariant, Structure, Tiling, Merged, Owned, Headers,
         SearchSound, PayloadsIntact, WasteBounded, vars, locals, get_payload_size,
         get_block_size, PayloadWords
  <1> QED BY <1>2, <1>3, <1>4, <1>5, <1>6, <1>7, <1>8, <1>9, <1>10, <1>11 DEF Next, Search

(* Under first fit and best fit the heap is always sound: its blocks tile   *)
(* it, the client's payloads hold no header, and no search or free reads a  *)
(* word that is not one.                                                    *)
THEOREM HeapSafety ==
    ASSUME FitOnly
    PROVE  Spec => []IInv
  <1>1. Init => IInv
    BY InitIInv
  <1>2. IInv /\ [Next]_vars => IInv'
    BY NextIInv
  <1> QED BY <1>1, <1>2, PTL DEF Spec

(* The variables of the heap keep their types. *)
THEOREM HeapTypeOK ==
    ASSUME FitOnly
    PROVE  Spec => []TypeOK
  <1>1. IInv => TypeOK
    BY DEF IInv
  <1> QED BY <1>1, HeapSafety, PTL

(* The invariant of the searches that the runs check. *)
THEOREM HeapFitInvariant ==
    ASSUME FitOnly
    PROVE  Spec => []FitInvariant
  <1>1. IInv => FitInvariant
    BY DEF IInv
  <1> QED BY <1>1, HeapSafety, PTL

(* The blocks tile the heap, free neighbours are merged, and the blocks in  *)
(* use are those the client holds.                                          *)
THEOREM HeapIsConsistent ==
    ASSUME FitOnly
    PROVE  Spec => []HeapConsistent
  <1>1. IInv => HeapConsistent
    BY DEF IInv, FitInvariant, HeapConsistent
  <1> QED BY <1>1, HeapSafety, PTL

(* No header or footer is ever stored in a payload the client holds.        *)
THEOREM HeapPayloadsIntact ==
    ASSUME FitOnly
    PROVE  Spec => []PayloadsIntact
  <1>1. IInv => PayloadsIntact
    BY DEF IInv
  <1> QED BY <1>1, HeapSafety, PTL

(* A block is never more than the two bounds of prepare_block_for_use       *)
(* larger than what was asked for.                                          *)
THEOREM HeapWasteBounded ==
    ASSUME FitOnly
    PROVE  Spec => []WasteBounded
  <1>1. IInv => WasteBounded
    BY DEF IInv
  <1> QED BY <1>1, HeapSafety, PTL

(* Payloads lie in blocks of a tiling, without their headers.               *)
LEMMA PayloadsApart ==
    ASSUME IInv PROVE LivePayloadsDisjoint
  <1>1. PICK B : Blocks(mem, B) /\ Owned(mem, B)
    BY TheBlocks
  <1>2. SUFFICES ASSUME NEW p \in DOMAIN live, NEW q \in DOMAIN live, p # q,
                        NEW o \in p .. p + live[p] - 1, o \in q .. q + live[q] - 1
                 PROVE  FALSE
    BY DEF LivePayloadsDisjoint
  <1>3. mem \in Memory /\ p \in Words /\ q \in Words
        /\ live[p] \in Nat /\ live[q] \in Nat
    BY TheBlocks, RequestAssumption
  <1>4. p - 1 \in B /\ q - 1 \in B /\ p - 1 # q - 1
    <2>1. get_block_start(p) \in B /\ get_block_start(q) \in B
      BY <1>1 DEF Owned
    <2> QED BY <2>1, <1>3, <1>2 DEF get_block_start, HEADER_SIZE, Words
  <1>5. live[p] <= mem[p - 1].size - 2 /\ live[q] <= mem[q - 1].size - 2
    BY TheBlocks DEF Serves, get_block_start, get_payload_size, get_block_size, HEADER_SIZE
  <1>6. mem[p - 1].size \in Nat /\ mem[q - 1].size \in Nat
    BY <1>1, <1>3, <1>4, HeaderFacts DEF Blocks
  <1>7. p - 1 + mem[p - 1].size <= q - 1 \/ q - 1 + mem[q - 1].size <= p - 1
    BY <1>1, <1>3, <1>4, Apart
  <1> QED BY <1>2, <1>3, <1>5, <1>6, <1>7 DEF Words

(* What next fit may do to its client, first fit and best fit never do: two *)
(* payloads the client holds share no word.                                 *)
THEOREM HeapPayloadsDisjoint ==
    ASSUME FitOnly
    PROVE  Spec => []LivePayloadsDisjoint
  <1>1. IInv => LivePayloadsDisjoint
    BY PayloadsApart
  <1> QED BY <1>1, HeapSafety, PTL

(* Every step of a search goes to the next block, to the end of the heap:   *)
(* it has at most half as many iterations as the heap has words.            *)
THEOREM HeapSearchAdvances ==
    ASSUME FitOnly
    PROVE  Spec => [][pc = "scan" /\ pc' = "scan" =>
                         blk + 2 * HEADER_SIZE <= blk' /\ blk' <= HeapSize]_vars
  <1>1. ASSUME IInv, Next, pc = "scan", pc' = "scan"
        PROVE  blk + 2 * HEADER_SIZE <= blk' /\ blk' <= HeapSize
    <2>1. PICK B : Blocks(mem, B) /\ SearchSound(B)
      BY <1>1, TheBlocks
    <2>2. mem \in Memory /\ search_alg \in {FIRSTFIT, BESTFIT} /\ HeapSize \in Nat
      BY <1>1, SizeAssumption DEF FitOnly, IInv, TypeOK
    <2>3. FirstFitPass \/ BestFitStep
      <3>1. /\ ~FirstFitTake /\ ~FirstFitFail /\ ~BestFitTake /\ ~BestFitFail
            /\ ~ScanUndefined
        BY <1>1 DEF FirstFitTake, FirstFitFail, BestFitTake, BestFitFail, ScanUndefined,
                    ReturnBlock, ReturnNull, Return
      <3>2. ~NextFitTake /\ ~NextFitWrap /\ ~NextFitPass /\ ~NextFitFail
        BY <2>2 DEF NextFitTake, NextFitWrap, NextFitPass, NextFitFail, Scanning,
                    FIRSTFIT, BESTFIT, NEXTFIT
      <3>3. /\ \A u \in Requests : ~heap_malloc(u)
            /\ \A payload \in DOMAIN live : ~heap_free(payload)
        BY <1>1 DEF heap_malloc, heap_free
      <3> QED BY <1>1, <3>1, <3>2, <3>3 DEF Next, Search
    <2>4. blk \in Words /\ blk' = blk + mem[blk].size
      BY <2>3 DEF FirstFitPass, BestFitStep, Scanning, AtBlock, StepOver, get_next_block,
                  get_block_size, is_within_heap_range
    <2>5. blk \in B
      BY <1>1, <2>1, <2>2, <2>4 DEF SearchSound, Words
    <2>6. mem[blk].size \in Nat /\ mem[blk].size >= 2 /\ blk + mem[blk].size <= HeapSize
      BY <2>1, <2>2, <2>5, HeaderFacts DEF Blocks
    <2> QED BY <2>2, <2>4, <2>6 DEF HEADER_SIZE, Words
  <1>2. IInv /\ [Next]_vars =>
           [pc = "scan" /\ pc' = "scan" =>
               blk + 2 * HEADER_SIZE <= blk' /\ blk' <= HeapSize]_vars
    BY <1>1
  <1> QED BY <1>2, HeapSafety, PTL DEF Spec

(* Freeing everything, in any order, gives back the one block of            *)
(* heap_create.                                                             *)
THEOREM HeapAllFreedIsOneBlock ==
    ASSUME FitOnly
    PROVE  Spec => []AllFreedIsOneBlock
  <1>1. ASSUME IInv PROVE AllFreedIsOneBlock
    <2>1. SUFFICES ASSUME DOMAIN live = {} PROVE mem[0] = Tag(HeapSize, FALSE)
      BY DEF AllFreedIsOneBlock
    <2>2. PICK B : Blocks(mem, B) /\ Merged(mem, B) /\ Owned(mem, B)
      BY <1>1, TheBlocks
    <2>3. mem \in Memory /\ HeapSize \in Nat
      BY <1>1, TheBlocks, SizeAssumption
    <2>4. 0 \in B /\ mem[0] \in Tags /\ mem[0].size \in Nat
      BY <2>2, <2>3, FirstBlock, HeaderFacts DEF Blocks
    <2>5. \A b \in B : ~mem[b].used
      BY <2>1, <2>2 DEF Owned
    <2>6. 0 + mem[0].size \in B \cup {HeapSize}
      BY <2>2, <2>3, <2>4, NextBlock
    <2>7. 0 + mem[0].size \notin B
      BY <2>2, <2>4, <2>5 DEF Merged
    <2>8. mem[0].size = HeapSize /\ mem[0].used = FALSE
      BY <2>3, <2>4, <2>5, <2>6, <2>7 DEF Tags
    <2> QED BY <2>4, <2>8 DEF Tags, Tag
  <1> QED BY <1>1, HeapSafety, PTL

(* First fit hands out the lowest block that fits, best fit a smallest one. *)
THEOREM HeapTakesRightBlock ==
    ASSUME FitOnly
    PROVE  Spec => TakesRightBlock
  <1>1. ASSUME IInv, [Next]_vars PROVE [RightBlockTaken]_vars
    <2>1. PICK B : Blocks(mem, B) /\ Merged(mem, B) /\ Owned(mem, B) /\ SearchSound(B)
      BY <1>1, TheBlocks
    <2>2. B \in SUBSET Headers(mem) /\ Structure(B)
      BY <2>1 DEF Blocks, Structure
    <2>3. \A c \in B : c \in Int /\ 0 <= c /\ c < HeapSize /\ mem[c].size \in Nat
      BY <2>1, <1>1, TheBlocks, HeaderFacts, SizeAssumption DEF Blocks, Words
    <2>4. realSize \in Nat /\ blk \in Int /\ search_alg \in SearchAlgs
      BY <1>1, SizeAssumption DEF IInv, TypeOK
    <2>5. CASE FirstFitTake
      <3>1. pc = "scan" /\ search_alg = FIRSTFIT /\ DOMAIN live' = DOMAIN live \cup {blk + 1}
        BY <2>5 DEF FirstFitTake, Scanning, ReturnBlock, get_payload, HEADER_SIZE
      <3>2. ASSUME NEW p \in DOMAIN live' \ DOMAIN live PROVE get_block_start(p) = blk
        BY <3>1, <3>2, <2>4 DEF get_block_start, HEADER_SIZE
      <3>3. \A c \in B : ~mem[c].used /\ mem[c].size >= realSize => blk <= c
        BY <3>1, <2>1, <2>3, <2>4 DEF SearchSound
      <3> QED BY <3>1, <3>2, <3>3, <2>2 DEF RightBlockTaken, FIRSTFIT, BESTFIT
    <2>6. CASE BestFitTake
      <3>1. /\ pc = "scan" /\ search_alg = BESTFIT /\ minBlk # NULL
            /\ DOMAIN live' = DOMAIN live \cup {minBlk + 1}
            /\ ~is_within_heap_range(blk)
        BY <2>6 DEF BestFitTake, Scanning, AtEnd, ReturnBlock, get_payload, HEADER_SIZE
      <3>2. /\ minBlk \in B /\ minBlkSize = mem[minBlk].size
            /\ blk \in B \cup {HeapSize}
            /\ \A c \in B : c < blk /\ ~mem[c].used /\ mem[c].size >= realSize
                   => minBlkSize <= mem[c].size
        BY <3>1, <2>1 DEF SearchSound
      <3>3. blk = HeapSize
        BY <3>1, <3>2, <2>3, SizeAssumption DEF is_within_heap_range, Words
      <3>4. ASSUME NEW p \in DOMAIN live' \ DOMAIN live PROVE get_block_start(p) = minBlk
        BY <3>1, <3>2, <3>4, <2>3 DEF get_block_start, HEADER_SIZE
      <3>5. \A c \in B : ~mem[c].used /\ mem[c].size >= realSize
                             => mem[minBlk].size <= mem[c].size
        BY <3>2, <3>3, <2>3
      <3> QED BY <3>1, <3>4, <3>5, <2>2 DEF RightBlockTaken, FIRSTFIT, BESTFIT
    <2>7. CASE DOMAIN live' \subseteq DOMAIN live
      BY <2>7 DEF RightBlockTaken
    <2>8. CASE \E payload \in DOMAIN live : heap_free(payload)
      <3>1. DOMAIN live' \subseteq DOMAIN live
        BY <2>8 DEF heap_free
      <3> QED BY <3>1, <2>7
    <2>9. CASE UNCHANGED vars
      BY <2>9 DEF vars
    <2>10. CASE \E u \in Requests : heap_malloc(u)
      BY <2>10, <2>7 DEF heap_malloc
    <2>11. CASE NextFitTake
      BY <1>1, <2>4, <2>11 DEF FitOnly, NextFitTake, Scanning, FIRSTFIT, BESTFIT, NEXTFIT
    <2> QED
      BY <1>1, <2>5, <2>6, <2>7, <2>8, <2>9, <2>10, <2>11
      DEF Next, Search, FirstFitPass, FirstFitFail, BestFitStep, BestFitFail,
          NextFitWrap, NextFitPass, NextFitFail, ScanUndefined, StepOver, ReturnNull
  <1>2. IInv /\ [Next]_vars => [RightBlockTaken]_vars
    BY <1>1
  <1> QED BY <1>2, HeapSafety, PTL DEF Spec, TakesRightBlock

----
(* The arithmetic of heap_create: payloads are aligned, the blocks follow   *)
(* struct heap and end within the region, and at most 14 bytes are lost.    *)
LEMMA DeltaFacts ==
    ASSUME NEW base \in Nat
    PROVE  /\ Layout!delta(base) \in 0 .. 7
           /\ (base + 32 + Layout!delta(base) + 4) % 8 = 0
  BY DEF Layout!delta, Layout!PAYLOAD_ALIGN, Layout!HEADER_SIZE, Layout!sizeof_heap

(* heap_create gives the heap what module Heap assumes of it, for every     *)
(* region with room for one block: a whole number of aligned blocks, a      *)
(* first payload that is aligned, and no byte outside the region.           *)
THEOREM LayoutSound ==
    ASSUME NEW base \in Nat, NEW size \in Nat
    PROVE  /\ Layout!heap_start(base) \in Nat /\ Layout!heap_size(base, size) \in Int
           /\ Layout!heap_start(base) >= base + Layout!sizeof_heap
           /\ (Layout!heap_start(base) + Layout!HEADER_SIZE) % Layout!PAYLOAD_ALIGN = 0
           /\ Layout!heap_size(base, size) % Layout!PAYLOAD_ALIGN = 0
           /\ Layout!heap_start(base) + Layout!heap_size(base, size) <= base + size
           /\ size - Layout!sizeof_heap - Layout!heap_size(base, size) <= 14
           /\ size >= Layout!sizeof_heap + 15
                  => Layout!heap_size(base, size) >= 2 * Layout!HEADER_SIZE
  <1>1. /\ Layout!delta(base) \in 0 .. 7
        /\ (base + 32 + Layout!delta(base) + 4) % 8 = 0
    BY DeltaFacts
  <1> DEFINE d == Layout!delta(base)
             left == size - 32 - d
             rounded == left - ((left - 8) % 8)
  <1>2. d \in Int /\ 0 <= d /\ d <= 7 /\ left \in Int
    BY <1>1
  <1>3. rounded % 8 = 0 /\ rounded \in Int /\ rounded <= left /\ left - 7 <= rounded
    <2> HIDE DEF left
    <2> QED BY <1>2
  <1>4. Layout!heap_size(base, size) = rounded
    BY DEF Layout!heap_size, Layout!PAYLOAD_ALIGN, Layout!HEADER_SIZE, Layout!sizeof_heap
  <1>5. Layout!heap_start(base) = base + 32 + d
    BY DEF Layout!heap_start, Layout!sizeof_heap
  <1>6. size >= 47 => rounded >= 8
    <2>1. size >= 47 => left >= 8
      BY <1>2
    <2> HIDE DEF left
    <2> QED BY <2>1, <1>2, <1>3
  <1>7. /\ base + 32 + d \in Nat /\ base + 32 + d >= base + 32
        /\ base + 32 + d + rounded <= base + size
        /\ size - 32 - rounded <= 14
    <2>1. left = size - 32 - d
      OBVIOUS
    <2> HIDE DEF left, rounded, d
    <2> QED BY <2>1, <1>2, <1>3
  <1> HIDE DEF d, rounded
  <1>8. (base + 32 + d + 4) % 8 = 0
    BY <1>1 DEF d
  <1> QED
    BY <1>3, <1>4, <1>5, <1>6, <1>7, <1>8
    DEF Layout!PAYLOAD_ALIGN, Layout!HEADER_SIZE, Layout!sizeof_heap

(* Four times an even offset keeps an aligned address aligned. *)
LEMMA EightDivides ==
    ASSUME NEW x \in Int, x % 8 = 0, NEW y \in Int, y % 2 = 0
    PROVE  (x + 4 * y) % 8 = 0
  <1>1. x = 8 * (x \div 8) /\ x \div 8 \in Int
    OBVIOUS
  <1>2. y = 2 * (y \div 2) /\ y \div 2 \in Int
    OBVIOUS
  <1>3. \A a, b \in Int : (8 * a + 8 * b) % 8 = 0
    <2>1. \A c \in Int : (8 * c) % 8 = 0
      OBVIOUS
    <2>2. \A a, b \in Int : 8 * a + 8 * b = 8 * (a + b) /\ a + b \in Int
      OBVIOUS
    <2> QED BY <2>1, <2>2
  <1>4. x + 4 * y = 8 * (x \div 8) + 8 * (y \div 2)
    BY <1>1, <1>2
  <1> QED BY <1>1, <1>2, <1>3, <1>4

(* Every payload the client ever holds is aligned, behind struct heap and   *)
(* within the bytes sbrk has given, wherever those begin.                   *)
THEOREM HeapPayloadsPlaced ==
    ASSUME FitOnly
    PROVE  Spec => []PayloadsPlaced
  <1>1. ASSUME IInv PROVE PayloadsPlaced
    <2> SUFFICES ASSUME NEW base \in Bases, NEW size \in Regions, NEW p \in DOMAIN live,
                        Layout!heap_size(base, size) = 4 * HeapSize
                 PROVE  /\ Address(base, p) % 8 = 0
                        /\ Address(base, get_block_start(p)) >= base + 32
                        /\ Address(base, p + live[p] + HEADER_SIZE) <= base + size
      BY DEF PayloadsPlaced, Layout!PAYLOAD_ALIGN, Layout!HEADER_SIZE, Layout!sizeof_heap
    <2> DEFINE start == Layout!heap_start(base)
               b == get_block_start(p)
    <2>1. /\ start \in Int /\ start >= base + 32 /\ (start + 4) % 8 = 0
          /\ start + 4 * HeapSize <= base + size
          /\ base \in Int /\ size \in Int
      BY LayoutSound, RegionAssumption
      DEF Layout!PAYLOAD_ALIGN, Layout!HEADER_SIZE, Layout!sizeof_heap
    <2>2. PICK B : Blocks(mem, B) /\ Merged(mem, B) /\ Owned(mem, B) /\ SearchSound(B)
      BY <1>1, TheBlocks
    <2>3. b \in B
      BY <2>2 DEF Owned
    <2>4. /\ b \in Int /\ b >= 0 /\ b % 2 = 0 /\ mem[b].size \in Int
          /\ b + mem[b].size <= HeapSize /\ HeapSize \in Int
      <3> HIDE DEF start, b
      <3>1. b \in Headers(mem) /\ mem \in Memory
        BY <2>2, <2>3, <1>1 DEF Blocks, IInv, TypeOK
      <3>2. b \in Words /\ mem[b].size \in Nat /\ b + mem[b].size <= HeapSize
        BY <3>1, HeaderFacts
      <3>3. b % 2 = 0
        BY <3>1 DEF Headers, PAYLOAD_ALIGN
      <3> QED BY <3>2, <3>3, SizeAssumption DEF Words
    <2>5. p = b + 1 /\ p \in Int
      BY <1>1, SizeAssumption DEF IInv, TypeOK, Words, get_block_start, HEADER_SIZE
    <2>6. live[p] \in Int /\ live[p] <= mem[b].size - 2
      <3>1. live[p] \in Int
        <4>1. live[p] \in Requests
          BY <1>1 DEF IInv, TypeOK
        <4>2. Requests \subseteq Nat
          BY RequestAssumption
        <4>3. live[p] \in Nat
          BY <4>1, <4>2, Zenon
        <4> QED BY <4>3
      <3>2. live[p] <= get_payload_size(mem, b)
        BY <1>1 DEF IInv, PayloadsIntact
      <3> QED BY <3>1, <3>2 DEF get_payload_size, get_block_size, HEADER_SIZE
    <2>7. /\ Address(base, p) = start + 4 * p
          /\ Address(base, b) = start + 4 * b
          /\ Address(base, p + live[p] + HEADER_SIZE) = start + 4 * (p + live[p] + 1)
      BY DEF Address, HEADER_SIZE, Layout!HEADER_SIZE
    <2> HIDE DEF start, b
    <2>8. start + 4 * p = start + 4 + 4 * b
      BY <2>1, <2>4, <2>5
    <2>9. (start + 4 + 4 * b) % 8 = 0
      <3>1. start + 4 \in Int
        BY <2>1
      <3> QED BY <3>1, <2>1, <2>4, EightDivides
    <2>10. start + 4 * b >= base + 32
      BY <2>1, <2>4
    <2>11. start + 4 * (p + live[p] + 1) <= base + size
      <3>1. p + live[p] + 1 <= HeapSize
        BY <2>4, <2>5, <2>6
      <3> QED BY <3>1, <2>1, <2>4, <2>5, <2>6
    <2> QED BY <2>7, <2>8, <2>9, <2>10, <2>11 DEF b
  <1> QED BY <1>1, HeapSafety, PTL

----
(* The heap implements the allocator of module Allocator, step by step. *)

(* The blocks the client holds are the blocks in use, at their sizes. *)
LEMMA GrantedBlocks ==
    ASSUME NEW B, Owned(mem, B)
    PROVE  /\ DOMAIN Granted = {b \in B : mem[b].used}
           /\ \A b \in DOMAIN Granted : Granted[b] = mem[b].size
  BY DEF Granted, Owned

(* The heap heap_create leaves is an allocator that granted nothing. *)
LEMMA InitRefines ==
    ASSUME Init PROVE A!Init
  <1>1. {get_block_start(p) : p \in DOMAIN live} = {}
    BY DEF Init
  <1>2. Granted = [c \in {} |-> 0]
    BY <1>1 DEF Granted
  <1>3. Pending = {}
    BY DEF Pending, Init
  <1> QED BY <1>2, <1>3 DEF A!Init

(* heap_malloc is called. *)
LEMMA MallocRefines ==
    ASSUME NEW u \in Requests, heap_malloc(u)
    PROVE  A!Request(u)
  <1>1. Pending = {} /\ Pending' = {u} /\ Granted' = Granted
    BY DEF heap_malloc, Pending, Granted
  <1> QED BY <1>1 DEF A!Request

(* The search moves on: nothing the client sees. *)
LEMMA SearchRefines ==
    ASSUME UNCHANGED <<mem, live, pc, user_size>>
    PROVE  UNCHANGED <<Granted, Pending>>
  BY DEF Granted, Pending

(* A run of n vacant words lies inside one free block. *)
LEMMA VacantRunInFreeBlock ==
    ASSUME mem \in Memory, NEW B, Blocks(mem, B), Merged(mem, B), Owned(mem, B),
           NEW b \in Words, NEW n \in Nat, n > 0, b + n <= HeapSize, A!Vacant(b, n)
    PROVE  \E c \in B : /\ ~mem[c].used /\ mem[c].size >= n
                       /\ c <= b /\ b + n <= c + mem[c].size
  <1>1. \A c \in B : c \in Int /\ 0 <= c /\ mem[c].size \in Nat /\ mem[c].size >= 2
    BY HeaderFacts DEF Blocks
  <1>2. HeapSize \in Nat /\ b \in Int
    BY SizeAssumption DEF Words
  <1>3. PICK c \in B : c <= b /\ b < c + mem[c].size
    BY DEF Blocks, Tiling
  <1>4. ASSUME NEW d \in B, mem[d].used PROVE b + n <= d \/ d + mem[d].size <= b
    BY <1>4, GrantedBlocks DEF A!Vacant
  <1>5. ~mem[c].used
    BY <1>1, <1>2, <1>3, <1>4
  <1>6. CASE b + n <= c + mem[c].size
    BY <1>1, <1>2, <1>3, <1>5, <1>6
  <1>7. CASE b + n > c + mem[c].size
    <2>1. c + mem[c].size \in B
      BY <1>1, <1>2, <1>3, <1>7, NextBlock
    <2>2. mem[c + mem[c].size].used
      BY <2>1, <1>3, <1>5 DEF Merged
    <2> QED BY <2>1, <2>2, <1>1, <1>2, <1>3, <1>4, <1>7
  <1> QED BY <1>1, <1>2, <1>3, <1>6, <1>7

(* NULL is returned only when no run of vacant words is long enough. *)
LEMMA NullRefines ==
    ASSUME IInv, FirstFitFail \/ BestFitFail
    PROVE  user_size \in Requests /\ A!Refuse(user_size)
  <1>1. PICK B : Blocks(mem, B) /\ Merged(mem, B) /\ Owned(mem, B) /\ SearchSound(B)
    BY TheBlocks
  <1>2. mem \in Memory /\ HeapSize \in Nat
    BY TheBlocks, SizeAssumption
  <1>3. /\ pc = "scan" /\ pc' = "idle" /\ UNCHANGED <<mem, live>>
        /\ ~is_within_heap_range(blk)
        /\ search_alg = FIRSTFIT \/ (search_alg = BESTFIT /\ minBlk = NULL)
    BY DEF FirstFitFail, BestFitFail, Scanning, AtEnd, ReturnNull, Return
  <1>4. user_size \in Requests /\ realSize = get_size_to_allocate(user_size)
    BY <1>1, <1>3 DEF SearchSound
  <1>5. realSize \in Nat /\ realSize >= 2
    BY <1>4, SizeToAllocate
  <1>6. \A c \in B : c \in Int /\ 0 <= c /\ c < HeapSize /\ mem[c].size \in Nat
    BY <1>1, <1>2, HeaderFacts DEF Blocks, Words
  <1>7. blk = HeapSize
    BY <1>1, <1>2, <1>3, <1>6 DEF SearchSound, is_within_heap_range, Words
  <1>8. \A c \in B : ~mem[c].used => mem[c].size < realSize
    BY <1>1, <1>3, <1>6, <1>7 DEF SearchSound
  <1>9. ASSUME A!HasRoom(realSize) PROVE FALSE
    <2>1. PICK b \in Words : b + realSize <= HeapSize /\ A!Vacant(b, realSize)
      BY <1>9 DEF A!HasRoom, A!Words, Words
    <2>2. PICK c \in B : ~mem[c].used /\ mem[c].size >= realSize
      BY <2>1, <1>1, <1>2, <1>5, VacantRunInFreeBlock
    <2> QED BY <2>2, <1>5, <1>6, <1>8
  <1>10. Pending = {user_size} /\ Pending' = {} /\ Granted' = Granted
    BY <1>3 DEF Pending, Granted
  <1> QED BY <1>4, <1>9, <1>10 DEF A!Refuse

(* The block heap_malloc returns was vacant and is long enough. *)
LEMMA BlockRefines ==
    ASSUME IInv, NEW B, Blocks(mem, B), Merged(mem, B), Owned(mem, B),
           NEW b \in B, ~mem[b].used, pc = "scan",
           user_size \in Requests, realSize = get_size_to_allocate(user_size),
           realSize <= mem[b].size, ReturnBlock(b)
    PROVE  A!Grant(user_size)
  <1>1. /\ mem \in Memory
        /\ \A p \in DOMAIN live : p \in Words /\ live[p] \in Requests
    BY TheBlocks
  <1>2. /\ b \in Words /\ b \in Int /\ b >= 0 /\ mem[b].size \in Nat
        /\ b + mem[b].size <= HeapSize /\ HeapSize \in Nat
    BY HeaderFacts, SizeAssumption, <1>1 DEF Blocks
  <1>3. realSize \in Nat /\ realSize >= 2 /\ realSize % 2 = 0
    BY SizeToAllocate
  <1> DEFINE q == HandOver(prepare_block_for_use(mem, b, realSize), b)
  <1>4. mem' = q
    BY DEF ReturnBlock
  <1>q. Given(mem, q, B, b, realSize)
    BY <1>1, <1>3, Prepared
  <1> HIDE DEF q
  <1> DEFINE n == mem'[b].size
  <1>5. /\ mem' \in Memory /\ realSize <= n
        /\ \E C : Blocks(mem', C) /\ B \subseteq C /\ SameTags(mem, mem', B \ {b})
    BY <1>4, <1>q DEF Given
  <1>6. PICK C : Blocks(mem', C) /\ B \subseteq C /\ SameTags(mem, mem', B \ {b})
    BY <1>5
  <1>7. n \in Nat /\ b + n <= HeapSize
    BY <1>5, <1>6, HeaderFacts DEF Blocks
  <1>8. b \in A!Words /\ n \in 1 .. HeapSize
    BY <1>2, <1>3, <1>5, <1>7 DEF A!Words, Words
  <1>9. A!Vacant(b, n)
    <2>1. SUFFICES ASSUME NEW c \in DOMAIN Granted
                   PROVE  b + n <= c \/ c + Granted[c] <= b
      BY DEF A!Vacant
    <2>2. c \in B \ {b} /\ Granted[c] = mem[c].size /\ mem'[c] = mem[c]
      BY <1>6, GrantedBlocks DEF SameTags
    <2>3. b + n <= c \/ c + mem'[c].size <= b
      BY <2>2, <1>5, <1>6, Apart
    <2> QED BY <2>2, <2>3
  <1>10. Granted' = [c \in DOMAIN Granted \cup {b} |-> IF c = b THEN n ELSE Granted[c]]
    <2>1. DOMAIN live' = DOMAIN live \cup {b + 1}
      BY DEF ReturnBlock, get_payload, HEADER_SIZE
    <2>2. {get_block_start(p) : p \in DOMAIN live'}
             = {get_block_start(p) : p \in DOMAIN live} \cup {b}
      <3>1. get_block_start(b + 1) = b
        BY <1>2 DEF get_block_start, HEADER_SIZE
      <3> QED BY <3>1, <2>1
    <2>3. DOMAIN Granted = {get_block_start(p) : p \in DOMAIN live}
          /\ Granted' = [c \in {get_block_start(p) : p \in DOMAIN live'} |-> mem'[c].size]
      BY DEF Granted
    <2>4. \A c \in DOMAIN Granted : Granted[c] = mem'[c].size
      BY <1>6, GrantedBlocks DEF SameTags
    <2> QED BY <2>2, <2>3, <2>4
  <1>11. Pending = {user_size} /\ Pending' = {}
    BY DEF Pending, ReturnBlock, Return
  <1> HIDE DEF n
  <1> QED BY <1>3, <1>5, <1>7, <1>8, <1>9, <1>10, <1>11 DEF A!Grant

(* Both searches return such a block. *)
LEMMA TakeRefines ==
    ASSUME IInv, FirstFitTake \/ BestFitTake
    PROVE  user_size \in Requests /\ A!Grant(user_size)
  <1>1. PICK B : Blocks(mem, B) /\ Merged(mem, B) /\ Owned(mem, B) /\ SearchSound(B)
    BY TheBlocks
  <1>2. \A c \in B : c \in Int /\ c < HeapSize /\ mem[c].size \in Nat
    BY <1>1, TheBlocks, HeaderFacts, SizeAssumption DEF Blocks, Words
  <1>3. pc = "scan"
    BY DEF FirstFitTake, BestFitTake, Scanning
  <1>4. user_size \in Requests /\ realSize = get_size_to_allocate(user_size)
        /\ realSize \in Nat
    BY <1>1, <1>3, SizeToAllocate DEF SearchSound
  <1>5. CASE FirstFitTake
    <2>1. blk \in Words /\ mem[blk].size >= realSize /\ ~mem[blk].used /\ ReturnBlock(blk)
      BY <1>5 DEF FirstFitTake, AtBlock, BlkFits, get_block_size, block_is_in_use,
                  is_within_heap_range
    <2>2. blk \in B
      BY <2>1, <1>1, <1>3, SizeAssumption DEF SearchSound, Words
    <2>3. realSize <= mem[blk].size
      BY <2>1, <2>2, <1>2, <1>4
    <2> QED BY <2>1, <2>2, <2>3, <1>1, <1>3, <1>4, BlockRefines
  <1>6. CASE BestFitTake
    <2>1. minBlk # NULL /\ search_alg = BESTFIT /\ ReturnBlock(minBlk)
      BY <1>6 DEF BestFitTake, Scanning
    <2>2. /\ minBlk \in B /\ ~mem[minBlk].used
          /\ minBlkSize = mem[minBlk].size /\ minBlkSize >= realSize
      BY <2>1, <1>1, <1>3 DEF SearchSound
    <2>3. realSize <= mem[minBlk].size
      BY <2>2, <1>2, <1>4
    <2> QED BY <2>1, <2>2, <2>3, <1>1, <1>3, <1>4, BlockRefines
  <1> QED BY <1>5, <1>6

(* heap_free gives one block back and changes no other. *)
LEMMA FreeRefines ==
    ASSUME IInv, NEW payload \in DOMAIN live, heap_free(payload),
           pc' # "undefined"
    PROVE  get_block_start(payload) \in A!Words /\ A!Release(get_block_start(payload))
  <1> DEFINE b == get_block_start(payload)
             k == MergeAround(MarkFree(mem, b), b, get_previous_block(mem, b))
  <1>1. PICK B : Blocks(mem, B) /\ Merged(mem, B) /\ Owned(mem, B) /\ SearchSound(B)
    BY TheBlocks
  <1>2. /\ mem \in Memory /\ mem[-1] # Junk
        /\ \A p \in DOMAIN live : p \in Words
    BY TheBlocks
  <1>3. b \in B /\ mem[b].used
    BY <1>1 DEF Owned
  <1>4. /\ mem[b] # Junk /\ mem[b - HEADER_SIZE] # Junk
        /\ MergeDefined(MarkFree(mem, b), b, get_previous_block(mem, b))
        /\ SameBlocks(mem, k, {c \in B : mem[c].used} \ {b})
    BY <1>1, <1>2, <1>3, FreedBlock
  <1>5. FreeDefined(b)
    BY DEF heap_free
  <1>6. /\ pc = "idle" /\ pc' = "idle" /\ mem' = k
        /\ live' = [p \in DOMAIN live \ {payload} |-> live[p]]
    BY <1>5 DEF heap_free
  <1> HIDE DEF k
  <1>7. \A c \in {c \in B : mem[c].used} \ {b} : mem'[c] = mem[c]
    BY <1>4, <1>6 DEF SameBlocks
  <1>8. DOMAIN Granted = {c \in B : mem[c].used}
        /\ \A c \in DOMAIN Granted : Granted[c] = mem[c].size
    BY <1>1, GrantedBlocks
  <1>9. Granted' = [c \in DOMAIN Granted \ {b} |-> Granted[c]]
    <2>1. ASSUME NEW p \in DOMAIN live, p # payload PROVE get_block_start(p) # b
      BY <2>1, <1>2 DEF get_block_start, HEADER_SIZE, Words
    <2>2. {get_block_start(p) : p \in DOMAIN live'} =
             {get_block_start(p) : p \in DOMAIN live} \ {b}
      BY <2>1, <1>6
    <2>3. DOMAIN Granted = {get_block_start(p) : p \in DOMAIN live}
          /\ Granted' = [c \in {get_block_start(p) : p \in DOMAIN live'} |-> mem'[c].size]
      BY DEF Granted
    <2> QED BY <2>2, <2>3, <1>7, <1>8
  <1>10. Pending = {} /\ Pending' = {}
    BY <1>6 DEF Pending
  <1>11. b \in A!Words
    BY <1>1, <1>2, <1>3 DEF Blocks, Headers, A!Words, Words
  <1> QED BY <1>3, <1>8, <1>9, <1>10, <1>11 DEF A!Release

(* Every step of the heap is a step of the allocator or changes nothing    *)
(* the client sees.                                                        *)
LEMMA NextRefines ==
    ASSUME FitOnly, IInv, [Next]_vars
    PROVE  A!Next \/ UNCHANGED <<Granted, Pending>>
  <1>1. search_alg \in {FIRSTFIT, BESTFIT}
    BY DEF FitOnly, IInv, TypeOK
  <1>2. CASE \E u \in Requests : heap_malloc(u)
    BY <1>2, MallocRefines DEF A!Next
  <1>3. CASE FirstFitTake \/ BestFitTake
    BY <1>3, TakeRefines DEF A!Next
  <1>4. CASE FirstFitFail \/ BestFitFail
    BY <1>4, NullRefines DEF A!Next
  <1>5. CASE FirstFitPass \/ BestFitStep
    BY <1>5, SearchRefines DEF FirstFitPass, BestFitStep, StepOver
  <1>6. CASE NextFitTake \/ NextFitWrap \/ NextFitPass \/ NextFitFail
    BY <1>1, <1>6 DEF NextFitTake, NextFitWrap, NextFitPass, NextFitFail, Scanning,
                      FIRSTFIT, BESTFIT, NEXTFIT
  <1>7. CASE ScanUndefined
    BY <1>7, NeverUndefined
  <1>8. CASE \E payload \in DOMAIN live : heap_free(payload)
    BY <1>8, FreeRefines, NextIInv DEF A!Next, IInv, FitInvariant
  <1>9. CASE UNCHANGED vars
    BY <1>9, SearchRefines DEF vars, locals
  <1> QED BY <1>2, <1>3, <1>4, <1>5, <1>6, <1>7, <1>8, <1>9 DEF Next, Search

(* Under first fit and best fit the heap is an allocator, for every heap   *)
(* size, every set of requests and every word in front of the heap.        *)
THEOREM HeapImplementsAllocator ==
    ASSUME FitOnly
    PROVE  Spec => ImplementsAllocator
  <1>1. Init => A!Init
    BY InitRefines
  <1>2. IInv /\ [Next]_vars => [A!Next]_A!vars
    BY NextRefines DEF A!vars
  <1> QED BY <1>1, <1>2, HeapSafety, PTL DEF Spec, ImplementsAllocator, A!Spec
====
