---- MODULE Ext2FileProperties ----
(***************************************************************************)
(* What must be true of reading a file (module Ext2File).  Where is the    *)
(* reference: it says for each file which block of the volume each of its  *)
(* blocks was put in when the volume was made, 0 for a hole, independently *)
(* of the tables the code looks them up in.                                *)
(***************************************************************************)
EXTENDS Ext2File

CONSTANT Where   \* [file -> [index of a block of the file -> its block]]

(* The k-th block number in a table, 0 where there is no table; a block     *)
(* number is 0 or that of a block of the volume.                            *)
Entry(table, k) == IF table = 0 THEN 0 ELSE disk[block_size * table + k]
InVolume(b) == b \in Nat /\ (b = 0 \/ block_size * (b + 1) <= DiskSize)

(* The volume is well made: the inode and the tables it names say, where    *)
(* the layout of ext2 puts it, where each block is.                         *)
ASSUME PlacesAssumption ==
    \A f \in Files :
        LET E == 0 .. block_size - 1
            second(k) == Entry(f.i_block_2ind, k)
        IN  /\ \A i \in 0 .. 11 : Where[f][i] = f.i_block[i]
            /\ \A k \in E : Where[f][12 + k] = Entry(f.i_block_1ind, k)
            /\ \A k, l \in E :
                  Where[f][12 + block_size + (block_size * k + l)] = Entry(second(k), l)
            /\ InVolume(f.i_block_1ind) /\ InVolume(f.i_block_2ind)
            /\ \A k \in E : InVolume(second(k))
            /\ \A i \in 0 .. 11 + block_size + block_size * block_size : InVolume(Where[f][i])

(* The blocks of f that hold the words o .. o + n - 1. *)
BlocksOf(o, n) == o \div block_size .. (o + n - 1) \div block_size

(* Word o of file f. *)
Word(f, o) ==
    LET b == Where[f][o \div block_size]
    IN  IF b = 0 THEN 0 ELSE disk[block_size * b + (o % block_size)]

(* The words the request can be given. *)
Expected == IF offset + size > inode.i_size THEN inode.i_size - offset ELSE size

(* The file's blocks that hold the words o .. o + n - 1 follow one another  *)
(* on the volume, and neither a hole nor a triple-indirect block is among   *)
(* them.                                                                    *)
InOneRun(f, o, n) ==
    LET first == o \div block_size
    IN  \A i \in BlocksOf(o, n) :
           /\ i < triple_ind_start_idx
           /\ Where[f][first] # 0
           /\ Where[f][i] = Where[f][first] + (i - first)

(* No hole, and no triple-indirect block, among them. *)
Solid(f, o, n) ==
    \A i \in BlocksOf(o, n) : i < triple_ind_start_idx /\ Where[f][i] # 0

----
TypeOK ==
    /\ medium \in Disks
    /\ pc \in {"idle", "reading", "answered"}
    /\ inode \in Files
    /\ offset \in Offsets \cup {0} /\ size \in Sizes \cup {0}
    /\ max_size \in 0 .. size
    /\ read_so_far \in 0 .. max_size
    /\ buf \in [0 .. size - 1 -> Nat \cup {Unset}]
    /\ answer \in 0 .. size \cup {EIO}

(* Whatever the layout of the file, each word read so far that lies in the  *)
(* run of consecutive blocks the request starts in is the file's word at    *)
(* that place, in the direct, single- and double-indirect range.            *)
RightWords ==
    \A k \in 0 .. read_so_far - 1 :
        InOneRun(inode, offset, k + 1) => buf[k] = Word(inode, offset + k)

(* ext2_read answers with everything it was asked for, up to the end of     *)
(* the file, or with nothing, or with -EIO: never with a part, even if a    *)
(* later iteration of the loop finds a hole or fails.                       *)
AllOrNothing ==
    pc = "answered" => answer \in {Expected, 0, EIO}

(* Nothing is stored behind the end of the file or of the request.          *)
NothingBehindEnd ==
    \A k \in DOMAIN buf : k >= Expected => buf[k] = Unset

(* If no read of the volume fails, a request that meets neither a hole nor  *)
(* a triple-indirect block, and whose file has no block of extended         *)
(* attributes, is answered in full.                                         *)
SolidIsServed ==
    /\ pc = "answered"
    /\ medium = "sound"
    /\ Solid(inode, offset, Expected)
    /\ inode.i_file_acl = 0
    => answer = Expected

(* Every request is answered: each iteration reads something or returns.    *)
Answered == pc = "reading" ~> pc = "answered"

----
(* ext2.c:264-266 says read_file_content returns "the content of a specific *)
(* file" and "May need to read more than one block, with data not           *)
(* necessarily stored in contiguous blocks": what is returned for blocks    *)
(* that are all present is the content of the file.                         *)
ReturnsFileContent ==
    pc = "answered" /\ Solid(inode, offset, Expected) =>
        \A k \in 0 .. answer - 1 : buf[k] = Word(inode, offset + k)

(* ext2fs.c:260-262: the number of bytes returned "may be smaller than      *)
(* size, or even zero, if (and only if) offset+size is beyond the end of    *)
(* the file".                                                               *)
ShortOnlyAtEnd ==
    pc = "answered" /\ answer # EIO /\ answer < size =>
        offset + size > inode.i_size
====
