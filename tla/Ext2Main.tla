---- MODULE Ext2Main ----
(***************************************************************************)
(* The life of the program around the file system of module Ext2FS: main   *)
(* of ext2fs.c opens the volume file with open_volume_file of ext2.c and   *)
(* calls fuse_main, which serves requests until the unmount closes it.     *)
(* The superblock is accepted as it is read: s_magic is not looked at.     *)
(***************************************************************************)
EXTENDS Ext2FSProperties

CONSTANT VolumeFiles   \* [opens, super, descriptors]: the files main is given;
                       \* descriptors: what pread gets, by the byte it starts at,
                       \* NULL if it fails

EXT2_OFFSET_SUPERBLOCK == 1024
block_size(super) == 1024 * 2 ^ super.s_log_block_size

BlockSizes == {1024, 2048, 4096, 8192, 16384, 32768, 65536}

(* By the format, the descriptors fill the block after the superblock's,    *)
(* one for every group that has a block.                                    *)
DescriptorTable(file) ==
    LET super == file.super
        place == (EXT2_OFFSET_SUPERBLOCK \div block_size(super) + 1) * block_size(super)
    IN  [g \in {k \in 0 .. super.s_blocks_count : k * super.s_blocks_per_group < super.s_blocks_count} |->
            file.descriptors[place][g]]

(* A file whose superblock can be read and counts groups is the volume.     *)
ASSUME VolumeFilesAssumption ==
    \A file \in VolumeFiles :
        /\ file.opens \in BOOLEAN
        /\ file.super # NULL =>
              /\ block_size(file.super) \in BlockSizes
              /\ file.super.s_blocks_count \in Nat
              /\ file.super.s_blocks_per_group \in Nat
              /\ file.super.s_blocks_per_group # 0 /\ file.descriptors # NULL =>
                    DescriptorTable(file) = bg_inode_table

VARIABLES main,    \* "starting", "exited", "crashed", "undefined", "mounted",
                   \* "unmounted"
          volume   \* volume->groups; NULL without a volume

mainVars == <<main, volume>>
mvars == <<hvars, mainVars>>

MInit == HInit /\ main = "starting" /\ volume = NULL

num_groups_M(super) ==  \* forgets the last group when it is not full
    super.s_blocks_count \div super.s_blocks_per_group

num_groups(super) ==
    IF super.s_blocks_count % super.s_blocks_per_group = 0
    THEN super.s_blocks_count \div super.s_blocks_per_group
    ELSE super.s_blocks_count \div super.s_blocks_per_group + 1

groups_place(super) ==
    IF block_size(super) >= EXT2_OFFSET_SUPERBLOCK + 1024 THEN block_size(super)
    ELSE EXT2_OFFSET_SUPERBLOCK + block_size(super)

(* open_volume_file gives no volume, divides by zero, or reads the table.   *)
(* When that fails, nobody notices: the volume is mounted with descriptors  *)
(* that were never written, and what it serves is undefined.                *)
Open(file) ==
    /\ main = "starting"
    /\ IF ~file.opens \/ file.super = NULL
       THEN main' = "exited" /\ UNCHANGED volume
       ELSE IF file.super.s_blocks_per_group = 0
       THEN main' = "crashed" /\ UNCHANGED volume
       ELSE IF file.descriptors = NULL
       THEN main' = "undefined" /\ UNCHANGED volume
       ELSE /\ main' = "mounted"
            /\ volume' = [g \in 0 .. num_groups(file.super) - 1 |->
                             file.descriptors[groups_place(file.super)][g]]
    /\ UNCHANGED hvars

(* fuse_main calls ext2_destroy, which closes the volume, when no request   *)
(* is being served.                                                         *)
Unmount ==
    /\ main = "mounted"
    /\ \A t \in Threads : pc[t] = "idle"
    /\ main' = "unmounted"
    /\ volume' = NULL
    /\ UNCHANGED hvars

MNext ==
    \/ \E file \in VolumeFiles : Open(file)
    \/ main = "mounted" /\ HNext /\ UNCHANGED mainVars
    \/ Unmount

MSpec == MInit /\ [][MNext]_mvars
FairMSpec == MSpec /\ \A t \in Threads : WF_vars(Serve(t))

----
(* Whatever the block size and however full the last group, the groups that *)
(* read_inode looks in are those the volume has, each with its own table,   *)
(* if the descriptors could be read.                                        *)
MountedRight == main = "mounted" => volume = bg_inode_table
====
