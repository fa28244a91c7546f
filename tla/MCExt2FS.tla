---- MODULE MCExt2FS ----
(* A small tree for checking the file system with TLC.                     *)
EXTENDS Ext2Main

(* /d  /d/f  /v  /v/g  /f  and the symbolic link /l.  The inodes are in two *)
(* groups of four; /v/g lies behind an entry that was removed.  /v, /v/g    *)
(* and /l need tables.                                                      *)
Inode(mode, block, size) == [i_mode |-> mode, i_block |-> block, i_size |-> size]
SmallTree ==
    [n \in 2 .. 8 |->
        CASE n = 2 -> Inode(S_IFDIR, 30, 7)
          [] n = 3 -> Inode(S_IFDIR, 31, 6)
          [] n = 4 -> Inode(S_IFDIR, 32, 11)
          [] n = 5 -> Inode(S_IFREG, 33, 1)
          [] n = 6 -> Inode(S_IFLNK, 34, 60)
          [] n = 7 -> Inode(S_IFREG, 35, 7)
          [] n = 8 -> Inode(S_IFREG, 36, 9)]
Direct == 8
(* Fresh memory reads as what an earlier walk has left: a part of /d. *)
SomeUnread == {Inode(S_IFDIR, 31, 4)}
Kinds ==
    [n \in DOMAIN SmallTree |->
        IF n \in {2, 3, 4} THEN "directory" ELSE IF n = 6 THEN "link" ELSE "file"]

Entry(n, name, len) == [de_inode_no |-> n, de_name |-> name, de_rec_len |-> len]
Laid(at, entries) == [o \in Range(at) |-> entries[CHOOSE k \in DOMAIN at : at[k] = o]]
Lists ==
    [b \in {30, 31, 32} |->
        CASE b = 30 -> Laid(<<0, 1, 2, 3, 5, 6>>,
                            <<Entry(2, ".", 1), Entry(2, "..", 1), Entry(3, "d", 1),
                              Entry(5, "f", 2), Entry(6, "l", 1), Entry(4, "v", 1)>>)
          [] b = 31 -> Laid(<<0, 2, 4>>, <<Entry(3, ".", 2), Entry(2, "..", 2), Entry(7, "f", 2)>>)
          [] b = 32 -> Laid(<<0, 3, 7, 8, 9>>,
                            <<Entry(4, ".", 3), Entry(2, "..", 4), Entry(7, "f", 1),
                              Entry(0, "x", 1), Entry(8, "g", 2)>>)]
AllNames == {".", "..", "d", "f", "g", "l", "v", "x"}
(* The middle of an entry reads as another one, or as the end. *)
SomeGarbled == {Entry(7, "l", 1), Entry(0, "x", 1)}

(* The inode tables of the two groups, at 100 and 200; an inode takes 3.    *)
Tables == [g \in 0 .. 1 |-> 100 + 100 * g]
Places == [a \in {103, 106, 109, 200, 203, 206, 209} |->
    SmallTree[CASE a = 103 -> 2 [] a = 106 -> 3 [] a = 109 -> 4 [] a = 200 -> 5
                [] a = 203 -> 6 [] a = 206 -> 7 [] a = 209 -> 8]]

(* The volume with blocks of 1, 2 and 4 KiB, the last group full or not; a  *)
(* wrong place holds other numbers.  Then one whose descriptors cannot be   *)
(* read, and files that are no volume.                                      *)
VolumeFile(log, blocks, place) ==
    [opens |-> TRUE,
     super |-> [s_log_block_size |-> log, s_blocks_count |-> blocks, s_blocks_per_group |-> 20],
     descriptors |-> [a \in {1024, 2048, 3072, 4096} |->
                         [g \in 0 .. 3 |-> IF a = place /\ g < 2 THEN Tables[g] ELSE 0]]]
SomeFiles ==
    {VolumeFile(0, 40, 2048), VolumeFile(0, 39, 2048), VolumeFile(1, 21, 2048),
     VolumeFile(2, 40, 4096),
     [VolumeFile(0, 40, 2048) EXCEPT !.descriptors = NULL],
     [opens |-> FALSE, super |-> NULL], [opens |-> TRUE, super |-> NULL],
     [opens |-> TRUE, super |-> [s_log_block_size |-> 0, s_blocks_count |-> 0,
                                 s_blocks_per_group |-> 0]]}

Request(op, path) == [op |-> op, path |-> path]
SomeRequests ==
    {Request("readdir", <<"v">>), Request("open", <<"d", "f">>), Request("read", <<"v", "g">>),
     Request("readlink", <<"l">>), Request("getattr", <<"x">>),
     Request("open for writing", <<"f">>)}
====
