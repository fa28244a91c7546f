---- MODULE Ext2File ----
(***************************************************************************)
(* Reading a file of an ext2 volume: ext2_read of ext2fs.c, once the inode *)
(* is found, and read_file_content, read_file_block, get_inode_block_no    *)
(* and read_block of ext2.c under it.                                      *)
(*                                                                         *)
(* The unit of length is the 4-byte word, the size of a block number, so   *)
(* an indirect block has block_size entries; disk holds the words of the   *)
(* volume file.  The volume is never written and one call reads nothing    *)
(* another call left behind, so requests are modelled one at a time.       *)
(***************************************************************************)
EXTENDS Integers

CONSTANTS block_size,      \* volume->block_size, in words
          disk, DiskSize,  \* the volume file and its length
          AddressModulus,  \* byte addresses are 32 bits wide: 2^32 bytes
          Files,           \* the inodes of regular files on the volume
          Offsets, Sizes,  \* of the requests
          Disks,           \* "sound", and "failing" if pread may fail
          Unset            \* a word of the buffer nobody has written

ASSUME VolumeAssumption ==
    /\ block_size \in Nat \ {0}
    /\ DiskSize \in Nat /\ disk \in [0 .. DiskSize - 1 -> Nat]
    /\ AddressModulus \in Nat /\ DiskSize + block_size <= AddressModulus
    /\ Disks \subseteq {"sound", "failing"}
    /\ Unset \notin Nat
ASSUME FileAssumption ==
    \A f \in Files :
        /\ f.i_block \in [0 .. 11 -> Nat]
        /\ f.i_block_1ind \in Nat /\ f.i_block_2ind \in Nat /\ f.i_block_3ind \in Nat
        /\ f.i_size \in Nat /\ f.i_file_acl \in Nat
ASSUME RequestAssumption == Offsets \subseteq Nat /\ Sizes \subseteq Nat

VARIABLES medium,           \* one of Disks
          pc,               \* "idle", "reading", "answered"
          inode, offset, size,         \* the request
          max_size, read_so_far,       \* read_file_content's locals
          buf,              \* [position -> word], the buffer of size words
          answer            \* what ext2_read returns, in words

vars == <<medium, pc, inode, offset, size, max_size, read_so_far, buf, answer>>

EIO == -5
sizeof_uint32_t == 4

----
(* uint32_t arithmetic: block numbers and byte addresses. *)
EXT2_INVALID_BLOCK_NUMBER == sizeof_uint32_t * AddressModulus - 1
Address(block_no, off) == (block_size * block_no + off) % AddressModulus

(* The number of words pread gets: it stops at the end of the volume file.  *)
pread(n, address) ==
    IF address >= DiskSize THEN 0
    ELSE IF n <= DiskSize - address THEN n ELSE DiskSize - address

(* What read_block returns.  A hole is answered with zeros, and returns 0.  *)
read_block(block_no, off, n) ==
    IF block_no = 0 THEN 0 ELSE pread(n, Address(block_no, off))

read_ind_block_entry(ind_block_no, index) ==
    IF read_block(ind_block_no, index, 1) > 0
    THEN disk[Address(ind_block_no, index)]
    ELSE EXT2_INVALID_BLOCK_NUMBER

single_ind_entries == block_size
double_ind_entries == single_ind_entries * single_ind_entries
triple_ind_entries == single_ind_entries * single_ind_entries * single_ind_entries
single_ind_start_idx == 12
double_ind_start_idx == single_ind_start_idx + single_ind_entries
triple_ind_start_idx == double_ind_start_idx + double_ind_entries
max_block_idx == triple_ind_start_idx + triple_ind_entries - 1

DoubleIndirect_M(f, block_idx) ==  \* counts from the first indirect block
    LET ind_block_idx == (block_idx - single_ind_start_idx) \div single_ind_entries
        ind_block_no == read_ind_block_entry(f.i_block_2ind, ind_block_idx)
    IN  read_ind_block_entry(ind_block_no,
            (block_idx - double_ind_start_idx) % single_ind_entries)

DoubleIndirect(f, block_idx) ==
    LET ind_block_idx == (block_idx - single_ind_start_idx) \div single_ind_entries - 1
        ind_block_no == read_ind_block_entry(f.i_block_2ind, ind_block_idx)
    IN  read_ind_block_entry(ind_block_no,
            (block_idx - double_ind_start_idx) % single_ind_entries)

(* The index into the middle table divides by the entries of a whole       *)
(* double-indirect block, as the code does.                                *)
TripleIndirect(f, block_idx) ==
    LET from_double == block_idx - double_ind_start_idx
        double_ind_block_no ==
            read_ind_block_entry(f.i_block_3ind, from_double \div double_ind_entries - 1)
        single_ind_block_no ==
            read_ind_block_entry(double_ind_block_no,
                (from_double \div double_ind_entries) % single_ind_entries)
    IN  read_ind_block_entry(single_ind_block_no, from_double % single_ind_entries)

get_inode_block_no(f, block_idx) ==
    IF block_idx < 12 THEN f.i_block[block_idx]
    ELSE IF block_idx < double_ind_start_idx
    THEN read_ind_block_entry(f.i_block_1ind, block_idx - single_ind_start_idx)
    ELSE IF block_idx < triple_ind_start_idx THEN DoubleIndirect(f, block_idx)
    ELSE IF block_idx <= max_block_idx THEN TripleIndirect(f, block_idx)
    ELSE EXT2_INVALID_BLOCK_NUMBER

(* i_dir_acl, the upper half of the size, is 0 on a volume this small.      *)
inode_file_size(f) == f.i_size

----
Init ==
    /\ medium \in Disks
    /\ pc = "idle"
    /\ inode \in Files
    /\ offset = 0 /\ size = 0 /\ max_size = 0 /\ read_so_far = 0
    /\ buf = [k \in {} |-> Unset]
    /\ answer = 0

Clamp_M(f, o, n) == n  \* no regard for the end of the file

(* read_file_content's first test: no more than the file has.               *)
Clamp(f, o, n) ==
    IF o + n > inode_file_size(f) THEN inode_file_size(f) - o ELSE n

(* The kernel asks for no data past the end of the file.                    *)
ext2_read(f, o, n) ==
    /\ pc = "idle"
    /\ o <= inode_file_size(f)
    /\ pc' = "reading"
    /\ inode' = f /\ offset' = o /\ size' = n
    /\ max_size' = Clamp(f, o, n)
    /\ read_so_far' = 0
    /\ buf' = [k \in 0 .. n - 1 |-> Unset]
    /\ UNCHANGED <<medium, answer>>

(* ext2_read has the result of read_file_content. *)
Answer(bytes_read) ==
    /\ pc' = "answered"
    /\ answer' = IF \/ bytes_read = -1
                    \/ /\ bytes_read < size
                       /\ inode.i_file_acl >= sizeof_uint32_t * (size + offset)
                 THEN EIO
                 ELSE bytes_read

Position == offset + read_so_far

(* The block read_file_block turns to; a table that cannot be read gives    *)
(* the invalid block number.                                                *)
BlockNos ==
    LET block_idx == Position \div block_size
    IN  {get_inode_block_no(inode, block_idx)}
          \cup (IF medium = "failing" /\ block_idx >= single_ind_start_idx
                THEN {EXT2_INVALID_BLOCK_NUMBER} ELSE {})

ReadMore == pc = "reading" /\ read_so_far < max_size

(* The words from position first on become the words of the volume file     *)
(* from address on.                                                         *)
Copied(first, n, address) ==
    [k \in DOMAIN buf |->
        IF k >= first /\ k < first + n THEN disk[address + (k - first)] ELSE buf[k]]

ReadBlockData_M ==  \* asks for max_size words again
    /\ ReadMore
    /\ \E block_no \in BlockNos :
          LET off == Position % block_size
              rv == read_block(block_no, off, max_size)
          IN  /\ rv > 0
              /\ read_so_far' = read_so_far + rv
              /\ buf' = Copied(read_so_far, rv, Address(block_no, off))
    /\ UNCHANGED <<medium, pc, inode, offset, size, max_size, answer>>

(* One iteration: read_file_block asks for all that is left, from one block. *)
ReadBlockData ==
    /\ ReadMore
    /\ \E block_no \in BlockNos :
          LET off == Position % block_size
              rv == read_block(block_no, off, max_size - read_so_far)
          IN  /\ rv > 0
              /\ read_so_far' = read_so_far + rv
              /\ buf' = Copied(read_so_far, rv, Address(block_no, off))
    /\ UNCHANGED <<medium, pc, inode, offset, size, max_size, answer>>

ReadNothing_M ==  \* goes on after a result of 0
    /\ ReadMore
    /\ \E block_no \in BlockNos :
          /\ read_block(block_no, Position % block_size, max_size - read_so_far) = 0
          /\ buf' = IF block_no = 0
                    THEN [k \in DOMAIN buf |->
                             IF k >= read_so_far /\ k < max_size THEN 0 ELSE buf[k]]
                    ELSE buf
    /\ UNCHANGED <<medium, pc, answer, inode, offset, size, max_size, read_so_far>>

(* A hole, or a block past the end of the volume: the loop returns 0, and   *)
(* what it read before does not count.                                      *)
ReadNothing ==
    /\ ReadMore
    /\ \E block_no \in BlockNos :
          /\ read_block(block_no, Position % block_size, max_size - read_so_far) = 0
          /\ buf' = IF block_no = 0
                    THEN [k \in DOMAIN buf |->
                             IF k >= read_so_far /\ k < max_size THEN 0 ELSE buf[k]]
                    ELSE buf
    /\ Answer(0)
    /\ UNCHANGED <<medium, inode, offset, size, max_size, read_so_far>>

(* pread fails on the block itself. *)
ReadFails ==
    /\ ReadMore
    /\ medium = "failing"
    /\ \E block_no \in BlockNos : block_no # 0
    /\ Answer(-1)
    /\ UNCHANGED <<medium, inode, offset, size, max_size, read_so_far, buf>>

ReadDone_M ==  \* reports what was asked for
    /\ pc = "reading" /\ read_so_far >= max_size
    /\ Answer(size)
    /\ UNCHANGED <<medium, inode, offset, size, max_size, read_so_far, buf>>

ReadDone ==
    /\ pc = "reading" /\ read_so_far >= max_size
    /\ Answer(read_so_far)
    /\ UNCHANGED <<medium, inode, offset, size, max_size, read_so_far, buf>>

(* The answer is handed over and its buffer is gone. *)
Return ==
    /\ pc = "answered"
    /\ pc' = "idle"
    /\ offset' = 0 /\ size' = 0 /\ max_size' = 0 /\ read_so_far' = 0
    /\ buf' = [k \in {} |-> Unset]
    /\ answer' = 0
    /\ UNCHANGED <<medium, inode>>

Read == ReadBlockData \/ ReadNothing \/ ReadFails \/ ReadDone

Next ==
    \/ \E f \in Files, o \in Offsets, n \in Sizes : ext2_read(f, o, n)
    \/ Read
    \/ Return

Spec == Init /\ [][Next]_vars

(* A request being served is served to its end. *)
FairSpec == Spec /\ WF_vars(Read)
====
