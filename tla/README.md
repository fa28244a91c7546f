# A verification project for CPSC261-Labs

The repository holds three C programs that share no code: a boundary-tag heap
allocator, a set-associative cache simulator with an image-mask benchmark, and
a read-only ext2 file system served through FUSE.  This directory models them
in TLA+, checks the models with TLC and proves the most important results with
TLAPS.  `PROJECT.json` lists the runs, the mutants that show each property can
fail, the source lines behind each definition, the findings, the hazards and
the theorems.

    tlc -workers 2 -config MCHeap_fit.cfg MCHeap
    tlapm HeapProofs.tla

Source paths below are short for `Heap-Implementation/implicit.c`,
`Cache-Implementation/{cache,cache-test,mask,timemask}.c` and
`EXT2-FS-Implementation/{ext2,ext2fs}.c`.

## 1. Inventory

### Boundary-tag heap (`implicit.c`, `implicit.h`)
*State*: the words of the heap, in which each block carries its size and an
in-use bit in a header and again in a footer; `h->search_alg`; `h->next`, the
roving pointer of next fit.
*Operations*: `heap_create`, `heap_malloc` (first, next or best fit), `heap_free`
with `coalesce`; `heap_print` and `heap_find_avg_free_block_size` only read.
*Interaction*: the client (`implicit-test.c`) writes its payloads between the
headers; one stray header destroys both sides.
*Hard*: the list of blocks exists only as arithmetic over words; `heap_free`
merges in both directions; `h->next` outlives the block it points at; the wrap
of next fit happens in the middle of a loop.
*Correct if* the blocks partition the heap, no two neighbours are free, the
blocks in use are those the client holds, no header is written into a payload,
NULL is returned only if nothing fits, the search takes the block its name
promises, every search ends, and everything freed is one block again.

### Heap test program (`implicit-test.c`)
The client: allocates, frees in several orders, prints.  No state of its own
that matters beyond the pointers it holds.

### Cache simulator (`cache.c`, `cache.h`)
*State*: per set an array of line pointers, kept in order of use; per line a
valid bit, a tag and a block of bytes; the counters of accesses and misses; the
shifts and masks that split an address.
*Operations*: `cache_new`, `cache_read`; `cache_write` is an empty function.
*Interaction*: reads the program's memory at block boundaries.
*Hard*: the rotation in `cache_line_make_mru`; the two replacement policies
share the order of the array; lines start uninitialised; sizes that are not
powers of two are rounded down by a shift loop.
*Correct if* no line is lost, no block is cached twice, LRU evicts the block
used least recently, a read returns what memory holds, and nothing is missed
that had to be there.

### Cache experiments (`cache-test.c`, `README.txt`)
`sumA`, `sumB` and `sumC` read an array through the cache by rows, by columns
and by squares; `README.txt` predicts their miss rates by hand.  `sumC` leaves
the order of four calls to the compiler.

### Image mask (`mask.c`, `mask.h`) and its timing program (`timemask.c`)
*State*: two N x N arrays of longs, an array of weights, a checksum.
*Operations*: `baseMask` and six versions of it that must give the same image.
*Hard*: edges and corners, each version treating them by different loop bounds,
tests or regions; the result array is filled with garbage before each trial.
*Correct if* every cell becomes the weighted average of itself and the
neighbours it has, each counted once, and nothing else is written.
`timemask.c` reads the image from a PGM file, keeps `baseMask`'s answer, repeats
trials of `baseMask` and of the optimized version on a result array filled with
garbage, compares each result with the answer and saves the last.
*Hard*: files that end early or hold two bytes a pixel, whose order of reading C
leaves open; comments in the header; a number of trials that is 0 or negative.
*Correct if* a sound file is read, timed and saved to a file that reads back as
the image of averages, and a right version is never reported as wrong.

### ext2 volume (`ext2.c`, `ext2.h`)
*State*: an open file descriptor, the superblock, the group descriptors; none
of it changes between `open_volume_file` and `close_volume_file`.
*Operations*: these two, `read_block`, `read_inode`, `get_inode_block_no` (direct, single-,
double- and triple-indirect blocks), `read_file_block`, `read_file_content`.
*Hard*: index arithmetic at the borders of the block map; holes; blocks that do
not follow one another; a read that fails half-way; 32-bit addresses; the number
of groups and the place of their descriptors, which depend on the block size.
*Correct if* the groups are those the volume has, and what is returned is the
content of the file.

### ext2 directories and paths (`ext2.c`)
*State*: none, except `strtok`'s static pointer, shared by all threads.
*Operations*: `follow_directory_entries` (a callback per entry),
`find_file_in_directory`, `find_file_from_path`.
*Hard*: interleaved walks; the copy of the path has no NUL and is freed while
`strtok` may still point into it; removed entries; reads that fail on the way,
those of inodes without anybody looking at the result.
*Correct if* a path leads to the inode it names, or to 0 if there is none.

### FUSE file system (`ext2fs.c`)
*State*: the volume handle, opened in `main` and closed in `ext2_destroy`.
*Operations*: `getattr`, `readdir`, `open`, `read`, `readlink` (and `init`,
`destroy`, `release`), called by the threads of `fuse_main`.
*Hard*: what the handlers answer is built on a walk that other threads and
failing reads may have led astray.
*Correct if* each handler succeeds just for files it is for, answers about the
file the path names, and answers at all.

### ext2 test program (`ext2test.c`)
Prints what the functions of `ext2.c` return.  Not modelled: its only state is
the indentation of the listing.

## 2. Modules

| module | models | of |
|---|---|---|
| `Allocator` | what a heap promises: grants, refusals, releases | abstract |
| `Heap` | `heap_malloc` and `heap_free`, word by word | `implicit.c` |
| `HeapLayout` | where `heap_create` puts the heap in the bytes of `sbrk` | `implicit.c` |
| `HeapProperties` | what must be true of it; the refinement mapping | |
| `HeapProofs`, `NextFitProofs` | theorems about it: first and best fit with the refinement, next fit | |
| `CacheSet` | one set: matching, replacement, order of use | `cache.c` |
| `Cache` | the address split and `cache_read` over the sets | `cache.c` |
| `CacheProperties`, `CacheProofs` | properties with two history variables; theorems | |
| `CacheTest` | the three sums driving `Cache`, the predicted rates and the reasons for them | `cache-test.c` |
| `CacheTestProofs` | theorems about the sums and the rates | |
| `Mask` | a call of `baseMask` or of `mask1` to `mask6` | `timemask.c`, `mask.c` |
| `TimeMask` | the program around these calls, from the image file to the saved one | `timemask.c` |
| `MaskProperties`, `MaskProofs` | what must be true of both; theorems | |
| `Ext2File`, `Ext2FileProperties`, `Ext2FileProofs` | the block map and `read_file_content` under `ext2_read`; theorems | `ext2.c`, `ext2fs.c` |
| `Ext2FS`, `Ext2FSProperties`, `Ext2FSProofs` | threads, path walks over `strtok`, handlers; theorems | `ext2.c`, `ext2fs.c` |
| `Ext2Main` | `main`, opening and closing the volume, around the file system (theorems in `Ext2FSProofs`) | `ext2.c`, `ext2fs.c` |
| `NatLemmas` | induction over sets of numbers, recursive sums, powers of two, division: what several proofs need | |
| `MC*` | constants for TLC | |

`CacheTest` composes the client loops with `Cache`, which uses `CacheSet`;
`HeapProperties` instantiates `Allocator` on the state of `Heap`, and
`HeapLayout` for the addresses of its words.  `TimeMask` makes the calls of `Mask`.
`Ext2Main` runs `Ext2FS` between the opening and the closing of the volume.  `Ext2FS`
takes the content of a file as given, `Ext2File` the inode as found: an
`ext2_read` is the walk of one followed by the loop of the other.

Definitions ending in `_M` or `_M2` are mutated forms, used by nothing else:
with one of them in place of its original, the property it is listed for fails.

### Heap
Addresses are offsets in words; a header or footer is a record
`[size, used]`, every other word is `Junk` (what the client writes there).
Reading a size from `Junk` is undefined behaviour, and the model then stops in
`pc = "undefined"`.  `mem[-1]` is the word in front of the heap, which
`get_previous_block` reads for the first block: padding or the last word of the
heap header, whose in-use bit is 0 (`GuardSizes` lists what it may read as).
`heap_malloc(u)` starts a call, each iteration of a search is a step, and
`Return...` ends the call; `heap_free(p)` is one step, both merges and the
repair of `h->next` included.  The client asks only between calls.

### HeapLayout
`delta`, `heap_start` and `heap_size` are the arithmetic of `heap_create` in bytes,
for any address `base` that `sbrk` returns.  `sizeof_heap` is 32, as on a 64-bit
machine.  `PayloadsPlaced` ties the words of `Heap` to these addresses.

### Cache
`cache` is the record of fields `cache_new` computes, `sets` maps each set to its
lines and to the array that orders them.  A read is one step, `ReadHit` or
`ReadMiss`, with the choice of `rand()` under the random policy; `returned`
holds the address and the value for the properties.  `Rands` bounds `rand()`:
what matters is its value modulo the associativity.  A fresh line holds
`JunkTag` and `JunkByte`, so that a stale match would be seen.

### Mask and TimeMask
A step of `Mask` is a loop nest; within one, a cell depends on `oldImage` and
itself only.  Reading or writing outside the arrays, and dividing by 0, lead to
`pc = "undefined"`.

`phase` is where `main` of `TimeMask` is.  A file is its kind, the tokens of its
header and the bytes behind it.  `readImage` takes a step for the magic number, one
for each token (`SkipComment`, `readPBMNumber`; `HeaderEnds` when there is none,
where `fscanf` leaves `str` as it was) and one for the pixels, with either order of
the two `fgetc` of a 16-bit pixel.  Every trial calls one version on garbage of
`Fills` (`Trial`), compares (`CheckTrial`), and after the last main divides by their
number (`TrialsOver`) and goes on.  `saved` is the output file, or nothing if none was
asked for or it cannot be opened.  `baseImage` and `trialImage` are one variable: no version writes
its input.  One version is tested per program, as `MASK_VERSION` is a macro.

### Ext2File
Lengths are in 4-byte words, the size of a block number.  `disk` is the volume
file; `pread` stops at its end.  One iteration of `read_file_content` is a
step: it reads something (`ReadBlockData`), nothing (`ReadNothing`) or fails
(`ReadFails`, and the tables of a `"failing"` medium).  `buf` is the caller's
buffer, `Unset` where nothing was stored.  Block addresses wrap at
`AddressModulus` as `uint32_t` does.

### Ext2FS
`pc[t]` is where thread `t` is in `find_file_from_path`; each call of `strtok`
and each directory lookup is a step.  `olds` is `strtok`'s static pointer: whose
copy of a path it is in, and the names left there.  Following it into a freed
copy is `"undefined"`.  `Copies` is what the copied path reads as, for there is
no NUL behind it: `Stale` holds the names stale bytes may turn the last one into.
A request arrives (`Start`), is answered (`Found` runs the handler) and returned.
`follow_directory_entries` walks the entries by `de_rec_len` and stops at one
without an inode, as the code does.

A `pread` may fail (`Faults`), and what follows depends on what it was for:
- an `"inode"`: the buffer stays as it was, `Unread` for fresh memory, at the root, and
  else the inode of the directory the walk is in, since nobody looks at the result of
  `read_inode`;
- the `"content"` of a directory or a file: `read_file_content` gives -1.  A lookup
  finds nothing (`Misfinds`), a listing ends where it is, `ext2_read` and
  `ext2_readlink` give `EIO` (`Misread`);
- a `"table"` of an inode that needs one (`HasTable`: the file is larger than
  `direct_size`): `read_ind_block_entry` gives the invalid block number, at whose
  address there is nothing to read, and `read_file_content` gives 0, not -1.
  `ext2_read` and `ext2_readlink` succeed without bytes.  A directory walk calls the
  callback with the entry before once more and goes on by its length (`Stumbling`),
  perhaps into the middle of an entry, which may read as one of `Garbled`.

Within one step the reads that fail are of one kind; any number of tables may.  The history variable
`misread` remembers per thread what could not be read: on the way `"inode"`,
`"content"`, `"table"` and `"path"` (a copy that reads as another path), of the file
itself `"data"` and `"map"`.  `disturbed` says whether another thread has called
`strtok` during the walk.

`AnswerRight` compares the answer with the tree.  `Promised` is the full answer and
`NotFound` the one for a missing file, for each operation one (`getattr` gives
`ENOSYS` where its comment says `ENOENT`).  `FallsShort` lists, by what could not be
read, what may be answered instead about a file that is there; a walk that finds
nothing needs a directory that could not be read, or one with a removed entry.

### Ext2Main
`Open` is `open_volume_file`: no volume if the file cannot be opened or the superblock
not read, a division by zero (`"crashed"`) if the superblock has no blocks in a
group, descriptors of fresh memory if they cannot be read (`"undefined"`: nobody looks
at the result, and the model does not follow what is served then), and else `volume`, the descriptors read from `groups_place` for `num_groups`
groups.  A volume file gives for each byte what is found there, so that a wrong place
gives wrong tables.  The file system steps while `main = "mounted"`; `Unmount` is
`fuse_main` calling `ext2_destroy`.

## 3. Runs, and what they show

| run | shows |
|---|---|
| `heap_fit` | first and best fit: structure, payloads, waste, choice of block, termination, refinement of `Allocator`; alignment and place of payloads in the bytes of `sbrk` |
| `heap_next` | next fit: the only step that spoils the heap, what NULL may miss, termination |
| `heap_next_overlap` | **finding**: two payloads come to share words |
| `heap_next_null` | **finding**: NULL while the first block fits |
| `cache` | six geometries, both policies: sets sound, LRU order, right values, no needless miss |
| `cache_rates` | experiments a to e and g of `README.txt` at their real sizes: sums and miss rates, and (`PredictedAnalysed`) that its reasons apply to each |
| `mask` | from the image file to the saved one: all seven functions compute the same averages on whatever the arrays held, no trial is reported to differ, what is saved reads back; `mask6` is undefined only on thin images |
| `ext2_read` | what a read gets right, and that it ends |
| `ext2_read_span` | **finding**: bytes of other blocks are returned |
| `ext2_read_hole` | **finding**: 0 in the middle of a file |
| `ext2_serve` | from opening the volume to the unmount, two threads and failing reads: the groups are the volume's, undisturbed requests are answered rightly, or with less for one of the reasons known, handlers fit the kind of file, every request ends |
| `ext2_threads` | **finding**: a walk ends at another thread's file |

### Findings
1. *`implicit.c:265`.*  `heap_free` moves `h->next` only when it points at the
   block after the freed one.  When it points at the freed block itself and the
   block before is free, `coalesce` swallows it and `h->next` is left inside a
   free block.  A later search starts there and takes what it finds, a stale header or
   what the client has written since, for a block.  `SpoiltOnlyByMerge` shows that this is the only way in which next fit
   goes wrong; `NextFitCarefulClient` and `NextFitAllocates` that a client who avoids
   it has a sound allocator, and `HeapPayloadsDisjoint` that first and best fit never
   do this.
2. *`implicit.c:346`.*  The wrap sets `blk` to `h->start`, and the loop's increment
   steps over it.  `NullMissesOnlyFirst` shows that only that block is missed, and
   that a retry looks at it.
3. *`ext2.c:261`.*  `read_file_block` does not limit the request to its block; the
   content is right only as far as blocks follow one another (`RightWords`); where
   each file is one run of blocks it is always right (`FileReturnsContent`).
4. *`ext2.c:290`.*  A hole counts as the end, and what was read before it is lost.
   Without holes, triple-indirect blocks and attributes an answer is short only at
   the end of the file (`FileShortOnlyAtEnd`).
5. *`ext2.c:446`.*  `strtok` is shared by the threads of `fuse_main`.  With one
   thread and no failing reads `LookupFindsFile` holds (`FSLookupFindsFile`).

Read in the code and not the subject of a run: the triple-indirect index at
`ext2.c:229` divides by the wrong number (`RightWords` and `SolidIsServed`
exclude such blocks); an entry with inode 0 ends the directory walk at
`ext2.c:338`; `ext2_getattr` returns `-ENOSYS` where its comment says `-ENOENT`
(`ext2fs.c:93-94`, 121; the model's `NotFound`); a table that cannot be read makes
`ext2_read` and `ext2_readlink` succeed without bytes, where `ext2fs.c:267` and 320 have
`-EIO`, and a directory walk meet the entry before a second time (`FallsShort` allows
it); a link's target that is kept in blocks is ended at the end of the caller's buffer
only, not behind its last byte (`ext2fs.c:341-342`), and a shorter one is copied with
the length of that buffer, not its own (line 349); the short-read test at `ext2fs.c:295` looks at
`i_file_acl`; the type test `0x4000` also accepts sockets and block devices;
`open_volume_file` does not check `s_magic` (`ext2.c:28-30`), divides by zero on a
superblock of zeros (`ext2.c:59`) and does not see that the descriptors could not be
read (lines 69 and 72), and `close_volume_file` does not free the groups;
`find_file_from_path` ignores the result of `read_inode` (`ext2.c:419`, 445), so that
a walk may go on in the directory it should have left, where `ext2.c:408-410` says it
returns 0; `mask6` reads row or column -1 on an image with only one
(`UndefinedOnlyIfThin`); `mask.c` never frees its weights; `timemask.c` divides by
zero for 0 trials (lines 291 and 325), saves a black image for a negative number,
looks for the end of a comment for ever if the file ends in it (line 177), takes
pixels behind the end of a file for -1 (line 223), and saves a 16-bit image with one
byte a pixel under a header that says two (line 337); `block_size_t` cannot hold the size of a heap
of 4 GB.

### Bounds, and why they are enough
- *Heap*: 12 words for first and best fit, 10 for next fit, where stale headers
  multiply the states.  Requests 0, 1 and 4 make blocks of 2, 4 and 6 words: up
  to six blocks, every pattern of neighbours for `coalesce`, splits that succeed
  and that are refused by each of the two tests of `prepare_block_for_use`
  (`MAX_UNUSED_BYTES` is 4 words), a full heap and a heap with room in pieces
  only.  `SizeModulus` only provides the "infinity" best fit starts from:
  requests stay far below it, so that no size wraps.
- *Cache*: up to three lines a set and up to three sets, seven addresses, six reads
  (`MaxReads`): enough to fill a set, hit every position of it, evict and come back.
  The geometry (7, 7, 2) has sizes that are no powers of two.
- *Experiments*: the real sizes, 1536 or 1440 reads of an array of 1536 longs
  (`ArrayLength`); every order of `sumC`'s four calls, though `sumC` has only one
  geometry.  The `sum` of `sumC` is an `int`: its arrays have at most 2^15 longs below
  2^16 (`ExperimentAssumption`), so that it does not overflow.
- *Layout*: eight consecutive addresses and sixteen sizes give every remainder of both
  modulo the alignment.
- *Mask*: image files from 0 x 0 to 3 x 4 have every combination of middle, sides and
  corners, present, shared or missing, in arrays of 5 x 5; the images with one cell
  set separate the weights, the others rounding; `Fills` is the garbage.  The files in
  `Odd` reach each error of `readImage`, comments, 16-bit pixels in both orders and
  pixels missing (-1).  Sides weigh the same, and so do corners: that one is not weighed
  for another shows in the sums, of images whose pixels differ (`EveryNeighbourOnce`
  asks for one set of neighbours that explains both the weight and the sum).  One trial shows what a version leaves, two that a trial does not
  depend on the one before, 0 and -1 are the borders of the loop.
- *Ext2File*: blocks of two words, so that a file of 26 blocks reaches every level
  of the block map; six files (in one run, in the order a volume is filled, with
  holes and missing tables, triple-indirect, with attributes, written backwards at
  the end of the volume), every offset, seven sizes up to more than a file.
- *Ext2FS* and *Ext2Main*: two threads and six requests, one per operation (`open` for
  reading and for writing), in two inode groups.  `/d` and the root need no table and
  have no removed entry, so that a request through them must be answered in full if
  nothing fails; `/v` needs a table, and a removed entry is in front of its last name.
  `/v/g` and the link, whose target is kept in blocks, need tables, too.  `Garbled` has
  an entry to go on with and one that ends the walk.  Two threads suffice for one walk to move the pointer, or free the
  copy, of another at every point of it.  Fresh memory may read as a part of another
  directory (`Unread`).  `VolumeFiles` has volumes of 1, 2 and 4 KiB blocks, whose last
  group is full or not, one whose descriptors cannot be read, and three files that are
  none.

`CHECK_DEADLOCK FALSE` is set where the system stops: after `MaxReads` reads or the
last read of a sum, when the timing program has ended, when no thread can go on from
`"undefined"`, and when a next-fit heap is.

### Fairness
`FairSpec` of `Heap` and of `Ext2File` gives weak fairness to the steps of a call
in progress (`Search`, `Read`), that of `TimeMask` to the program, which nobody
waits for, and `FairMSpec` of `Ext2Main` to each thread's steps: a C function runs
until it returns, and the threads of a process are all scheduled.
The client and the kernel are not fair: they need not call, nor unmount.  So
`MallocReturns`, `SearchEnds`, `Answered` and `Served` say that loops end, not that
anyone asks; `MainSucceeds` says that the timing program gets through.  `Served`
leaves out walks with an inode that could not be read: such a walk stays in its
directory, and may find there the names of other threads' paths for ever.

## 4. What is proved

Every safety invariant and action property that the passing runs check is a theorem.
For the findings the converse is one: under which conditions the property they refute
does hold.  Theorems named `...Advances` are the safety core of what TLC checks of
termination: each iteration makes progress that is bounded.  The assumptions on
constants are named in the modules, and TLC evaluates them in every run that uses
them.

### The heap
For every heap size, every set of requests, every `MAX_UNUSED_BYTES` and every
history (`HeapProofs`, under `FitOnly`: the algorithms are first and best fit, for
under next fit the results are false):

- `HeapTypeOK`, `HeapFitInvariant`, `HeapIsConsistent`, `HeapPayloadsIntact`,
  `HeapWasteBounded`, `HeapAllFreedIsOneBlock`, `HeapTakesRightBlock`;
- `HeapPayloadsDisjoint`: no two payloads the client holds share a word;
- `HeapSearchAdvances`: each step of a search goes on by a block at least, and not
  beyond the end;
- `HeapImplementsAllocator`: every step of the heap is a step of `Allocator` or a
  stutter.

The inductive invariant is `IInv`: the types, `FitInvariant`, `PayloadsIntact` and
`WasteBounded`.  Consistency alone is not inductive: a search must know that the
block it is at belongs to the list (`SearchSound`), best fit that the block it
remembers is free and the smallest so far, and `heap_free` that the footer it reads
belongs to the block before, which needs `mem[-1]` to read as a footer.
`HeapProofs` first proves that splitting, allocating and merging keep a tiling of the
words, then has one lemma per action.  The assumptions are those of
`Heap`: sizes are aligned and the arithmetic does not wrap.

`LayoutSound` shows that `heap_create` establishes the first of these, for every
address and every region with room for a block: whole blocks, an aligned first
payload, no byte outside.  `HeapPayloadsPlaced` follows from it and
`HeapPayloadsIntact`'s invariant: a block starts at an even word, so that its payload
lies at a multiple of eight bytes (`EightDivides`).

### Next fit
`NextFitProofs`, under `NextOnly` (next fit alone).  A next-fit heap may be spoilt
(finding 1), so its invariant cannot say that the heap is sound.  `NextInv` says what
the code keeps true whatever the words are: they are tags or client data, the words
-1 and 0 are tags, `h->next` is in the heap, and (`Searching`) a search that has
wrapped has passed no free block that fits but the first, in *any* tiling the words
may be read as.  On it rest:

- `NextFitSpoiltOnlyByMerge`: from a sound heap, only a `heap_free` that merges the
  block `h->next` points at into its predecessor leads to one that is not;
- `NextFitNullMissesOnlyFirst`: NULL misses at most the first block, and a retry
  starts there;
- `NextFitPayloadsKept`: no step from a sound heap puts a tag into a payload;
- `NextFitCarefulClient`: for a client that never frees that block while its
  predecessor is free (`Careful`, the case the comment of `heap_free` is about), the
  heap is consistent for ever, payloads are intact, waste is bounded and nothing is
  undefined: the missing case is all that is wrong;
- `NextFitAllocates`: for that client every step is one of `Allocator`, but that a
  request may be refused when the only room for it is the first block;
- `NextFitSearchAdvances`: even in a spoilt heap a search goes forward and wraps once
  at most.  This one is for heaps below a quarter of the sizes there are
  (`SmallHeap`), so that adding a size to an address does not wrap.

`PayloadsKept` is an action property, since the invariant that looks simpler, that
payloads are intact in every sound state, is false: with 14 words and requests for 0,
2, 4 and 6 a spoilt heap comes to look sound again with an old tag within a payload.

### The cache
For every geometry, memory, address set and policy (`CacheProofs`), along three
invariants, one on top of the other:

- `CacheTypeOK`, `CacheSetsSound`, `CacheLruOrder`, from `SetInv` for each set: its
  array is a permutation, its valid lines come first with different tags that have
  been read, and, under LRU, are in order of their last reads; `MadeMru` proves what
  the rotation does, position by position;
- `CacheReadsReturnMemory`, from `ReadInv`: a valid line holds the block of memory
  that its set and its tag name (`Holds`).  `FieldsFacts` turns the shifts and masks of
  `get_shift_and_mask` into quotients and remainders by powers of two, `SameBlock`
  shows that two addresses of one set and one tag lie in one block.  Nothing supposes
  that the sizes are powers of two: where they are not, the code rounds down, and
  the theorem holds of what it rounds to;
- `CacheNoNeedlessMiss`, from `CountInv`: while a set was asked for no more blocks than
  it has lines, it holds all it was asked for.  The step needs that a set whose lines
  are all valid holds as many tags as lines (`FullSet`), and that a miss is for a
  block not counted yet (`BlocksGrow`).

Assumed: sizes as `cache_new` needs them (`CacheAssumption`), memory of bytes
(`MemoryAssumption`), aligned addresses whose whole blocks are in memory
(`BlockAssumption`).

### The experiments
`CacheTestProofs` is about `sumA`, `sumB` and `sumC` over arrays and caches of any
size, and any order in which the compiler evaluates the four calls of `sumC`.

`CacheTestSumOfArray`: the sum is that of the array, read once.  The invariant
`TestInv` says where the loops are (`LoopInv`), that `sum` is what the elements passed
so far add up to (`SumInv`, in the order of the rows, which is not that of the reads),
and `ReadInv` and the sets' invariant of `CacheProofs`, by which a read returns what
`fillArray` stored.  `LoopStep` shows that each read is of an element not read before,
`SumsRows` that the rows' sums make the whole.

`CacheTestRates`: the miss rates `README.txt` predicts, from the reasons it gives.
They are the hypothesis, `Analysed`: rows are made of whole blocks, and either the
loop goes by rows, or under LRU no set is asked for the same column of more rows than
it has lines (`Roomy`), or every set is (`Crowded`) and, for `sumC`, two neighbouring
rows are in different sets and blocks hold an even number of longs.  TLC evaluates it
for the real experiments.

Reads are seen as reads of blocks (`BlockRead`), with a ghost relation that says which
of two blocks was read later (`Recent`).  `LruEvicts` and `LruKeeps` are what LRU comes
to: a block is evicted once as many others of its set as there are lines were read after
it, and kept as long as they are fewer.  `RateInv` has one invariant for each reason:

- by rows (`Fewest`, `Found`): a block is missed when its first long is read, and its
  other longs follow at once;
- roomy (`Ordered`): nothing of another column of blocks was read after a block that is
  still needed, so that it is kept;
- crowded (`InTurn`, `Hot`, `Charged`): in a set the rows come in turn, so that a block
  is evicted before its next column is read, but the second of two longs side by side
  is still there.  `sumC` reads these in any order; each miss is charged to all the
  elements of its row in the iteration, read or not.

### The mask
For arrays of any size, any image file and any number of trials (`MaskProofs`):
`MaskTypeOK`, `MaskWeightedAverage`, `MaskEveryNeighbourOnce`,
`MaskUndefinedOnlyIfThin`, `MaskOutsideUntouched` and `MaskSavedReadsBack`.  The
inductive invariant is `IInv == ProgramInv /\ CallInv`.

`EveryNeighbourOnce` is about both arrays: since the pixels may be any numbers, a cell
that holds the sum of its neighbours for every image holds each of them once.
`CallInv` is about a call: after each nest a cell has been weighed with the neighbours
of the nests done, each once, and with no others (`NestsInv`).  So a version is
right if the neighbours of its nests, put together, are all the neighbours, which is shown for
passes (`NestsAll`), tests (`TestedExact`) and the nine regions of `mask6`
(`RegionsCover`, `RegionExact`, which needs two rows and two columns).  `TotalSums`
shows that the checksum is the sum of the averages.

`ProgramInv` is about the program around it: what the tokens left of the header say
(`Marks`), that pixels are bytes when the file is whole, that the result of the last
trial stays until it is saved.  That a saved file reads back needs that an average of
bytes is a byte (`AverageByte`) and that the header that is written is the one
`readImage` understands.

### Reading a file
For every volume, block map and request (`Ext2FileProofs`), whether reads fail or not:
`FileTypeOK`, `FileAllOrNothing`, `FileNothingBehindEnd`.  The invariant adds to these
that `max_size` is what the file can give to the request (`Clamped`), that the buffer
is untouched from there on (`Unstored`) and that there is no answer while the loop
runs (`Unanswered`).  `ReadBlockBounds` bounds what one `read_block` returns;
`BlockNoOfInode` shows that every path through the tables ends in a block number.
Assumed: a volume file whose end can be addressed (`VolumeAssumption`), natural
numbers in inodes and requests (`FileAssumption`, `RequestAssumption`).

On top of it `RightInv` gives `FileRightWords`, that the words read in the run of
consecutive blocks the request starts in are the file's, and `FileSolidIsServed`, that
a request without holes is answered in full.  `LookupRight` follows
`get_inode_block_no` through the direct, single- and double-indirect tables to the
block `Where` names, `TurnsToRight` shows that an iteration continues at the right
place.  Assumed: the tables on the volume are those of `Where`, and its blocks lie in
the volume (`PlacesAssumption`).  As in the properties, triple-indirect blocks are
left out, for there the code is wrong.

From these follow `FileRunIsContent` (a request within one run of blocks is answered
with the file's words, whatever the rest of the volume is like), `FileReturnsContent`
and `FileShortOnlyAtEnd` (the converses of findings 3 and 4) and `FileAdvances` (an
iteration that does not answer reads something, within the request).

### The file system
For any number of threads and every interleaving of their walks (`Ext2FSProofs`):
`FSTypeOK`, `FSUndefinedOnlyByOverlap`, `FSHandlerFitsKind`.  The invariant
says that a walk nobody disturbed has `olds` and its token in its own copy
(`OwnCopy`), that a token in a copy is a name (`TokenIsName`), that the inode is
the one of the number (`InodeMatches`), and that `ext2_open` lets only requests to
read into a walk (`WalkHasRequest`).  Assumed: the inode tables hold the tree with
the modes of its kinds (`TreeAssumption`), directories name inodes of the tree
(`EntriesAssumption`), requests are those of `ext2fs.c` over names that exist
(`OpsAssumption`, `NamesAssumption`).

`FSAnswerRight`: whatever the other threads do, a request that none disturbed and for
which every inode and table on the way could be read is answered about the file its
path names, in full or as `FallsShort` allows.  `FoundAnswered` has the cases:
`FoundPromised` for a file that can be read, `MisreadShort` and `CutListing` for one
that cannot.  On top of
the invariant above `RightInv` says of such a walk that it is at some name of its path, that
`strtok` has the names behind that one left, and that `inode_no` is where the names
before it lead (`OnPath`).  `WalkLists` shows that the walk over `de_rec_len` meets each
entry of a directory once and ends behind the last, `LookUpSteps` that the name looked
up is found if it is there.  Assumed besides: directories are well made
(`DirectoriesAssumption`): entries fill the directory without gaps, none of length 0,
those with an inode have different names.  Without that the walk need not end
(`ext2.c:356`); nor need one that has lost a table and reads the middle of an entry, so
that `Garbled` is assumed to have no entry of length 0 (`GarbledAssumption`).

`FSUndisturbedFindsFile`: such a walk ends at the inode its path names, or at 0 if
there is none; `FSLookupFindsFile` is its case of one thread and no failing reads.
Both leave out paths through a directory with a removed entry, where the code stops
early.

For every volume file: `MainImplementsFS`, the whole program is a
file system in the sense of `HSpec`, so that the four theorems above hold of it
(`MainServesSafely`), and `MainMountedRight`.  The latter needs two facts of
arithmetic: the descriptors are in the block after the superblock's
(`PlaceIsNextBlock`), and a quotient rounded up counts the groups that have a block
(`RoundedUp`).  Assumed: a file whose superblock counts groups is the volume
(`VolumeFilesAssumption`).

### Induction over data
The library's induction theorems take a predicate as an operator, which no backend can
instantiate.  `SetInduction` (`NatLemmas`) takes the *set* of the numbers for which the
predicate holds instead, and is proved from the fact that `<` is well-founded.  With
it, a function defined by recursion is shown to exist, and so to satisfy its equation:
sums over cells (`SumsExist`), shifts (`ShiftOf`), the walk over a directory, from its
end to its beginning (`WalkExists`), the steps along a path (`StepsAlongExist`).

### Only model-checked
- Liveness under fairness (`MallocReturns`, `SearchEnds`, `MainSucceeds`, `Answered`,
  `Served`): `tlapm` does not reason about `ENABLED`.
- The properties of the five findings, which are false.

## 5. Not modelled

- Heaps of 4 GB and requests near 2^32, for which sizes wrap (assumed away by
  `RequestAssumption`); `sbrk` failing, where `heap_create` returns NULL; a client that
  frees what it does not hold or writes outside its payloads.
- `heap_print` and `heap_find_avg_free_block_size`, which change nothing.
- Printing, times, `ext2test.c`.
- Corrupted volumes, apart from superblocks without groups; a superblock or descriptors
  of which only a part can be read, and what is served when the descriptors cannot be
  read at all; offsets behind the end of a file, which the kernel does not ask for; how
  a link's target is cut to the caller's buffer, and where it is ended.
- A content and a table that both fail in one walk of one directory; an entry without a length that a walk
  without its table may read, at which it stays for ever.
- A call of `strtok` is one step; its own race would only add outcomes.
- Random replacement's best case (`README.txt` f).

## 6. Plan

Done: `Heap` with its abstract specification, `Cache`, `CacheTest`, `Ext2File`,
`Ext2FS`, `Mask`, `TimeMask` around it, `HeapLayout`, failing reads in `Ext2FS`,
`Ext2Main`; the proofs of all safety properties, last those of the experiments, and of
the converses of the findings.

Next, in this order:
1. An abstract file system (a request returns the content of the file its path
   names) that one-threaded `Ext2FS` with `Ext2File` implements where blocks follow
   one another.
2. Requests that wrap, with a modulus small enough to reach.
