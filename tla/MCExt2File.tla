---- MODULE MCExt2File ----
(* A small volume, with blocks of two words, for checking with TLC.        *)
EXTENDS Ext2FileProperties, TLC

Words == 2           \* entries of an indirect block
Hole == 0
None == 0

(* A file on the volume: where its blocks are, and where its tables are,    *)
(* named <<1>>, <<2>>, <<2, k>>, <<3>>, <<3, k>>, <<3, k, l>>.              *)
File(blocks, place, tables, length, acl) ==
    [blocks |-> blocks, place |-> place, tables |-> tables, length |-> length, acl |-> acl]

At(x, i) == IF i < x.blocks THEN x.place[i] ELSE Hole
Table(x, t) == IF t \in DOMAIN x.tables THEN x.tables[t] ELSE None

(* The words of the tables of x: <<word of the volume, block number>>.      *)
Entries(x) ==
    LET W == 0 .. Words - 1
        In(t, k, b) == IF Table(x, t) = None THEN {} ELSE {<<Words * Table(x, t) + k, b>>}
    IN  UNION ({In(<<1>>, k, At(x, 12 + k)) : k \in W}
               \cup {In(<<2>>, k, Table(x, <<2, k>>)) : k \in W}
               \cup {In(<<2, k>>, l, At(x, 14 + 2 * k + l)) : k, l \in W}
               \cup {In(<<3>>, k, Table(x, <<3, k>>)) : k \in W}
               \cup {In(<<3, k>>, l, Table(x, <<3, k, l>>)) : k, l \in W}
               \cup {In(<<3, k, l>>, m, At(x, 18 + 4 * k + 2 * l + m)) : k, l, m \in W})

Inode(x) ==
    [i_block |-> [i \in 0 .. 11 |-> At(x, i)],
     i_block_1ind |-> Table(x, <<1>>),
     i_block_2ind |-> Table(x, <<2>>),
     i_block_3ind |-> Table(x, <<3>>),
     i_size |-> x.length, i_file_acl |-> x.acl]

Singles(t) == <<1>> :> t
Doubles(t) == <<2>> :> t @@ <<2, 0>> :> t + 1 @@ <<2, 1>> :> t + 2
Triples(t) == <<3>> :> t @@ <<3, 0>> :> t + 1 @@ <<3, 1>> :> t + 2
                @@ [n \in {3} \X {0, 1} \X {0, 1} |-> t + 3 + 2 * n[2] + n[3]]

(* Tables in front, data in one run of blocks; the last block is half full. *)
InARow == File(18, [i \in 0 .. 17 |-> 6 + i], Singles(2) @@ Doubles(3), 35, 0)
(* As a volume is usually filled: a table in front of the blocks it lists.  *)
AsFilled == File(18, [i \in 0 .. 17 |-> IF i < 12 THEN 24 + i
                                       ELSE IF i < 14 THEN 25 + i
                                       ELSE IF i < 16 THEN 27 + i ELSE 28 + i],
                 <<1>> :> 36 @@ <<2>> :> 39 @@ <<2, 0>> :> 40 @@ <<2, 1>> :> 43, 36, 0)
(* Holes: two blocks, a single-indirect table, one of the second level.     *)
Sparse == File(18, [i \in 0 .. 17 |-> IF i \in {1, 12, 13, 15, 16, 17} THEN Hole ELSE 46 + i],
               <<2>> :> 61 @@ <<2, 0>> :> 62, 36, 0)
(* Triple-indirect blocks. *)
Long == File(26, [i \in 0 .. 25 |-> 64 + i], Singles(90) @@ Doubles(91) @@ Triples(94), 52, 0)
(* Extended attributes, in a block whose number exceeds small requests.     *)
WithAcl == File(2, [i \in 0 .. 1 |-> 102 + i], [t \in {} |-> None], 3, 23)
(* Written backwards, at the end of the volume. *)
Backwards == File(3, [i \in 0 .. 2 |-> 106 - i], [t \in {} |-> None], 5, 0)

AllFiles == {InARow, AsFilled, Sparse, Long, WithAcl, Backwards}
Size == 2 * 107
TableWords == UNION {Entries(x) : x \in AllFiles}

(* A table word holds a block number; any other word its own address,      *)
(* above every block number, so that no two words are the same.            *)
Volume ==
    [a \in 0 .. Size - 1 |->
        IF \E e \in TableWords : e[1] = a
        THEN (CHOOSE e \in TableWords : e[1] = a)[2]
        ELSE 1000 + a]

Inodes == {Inode(x) : x \in AllFiles}
Places == [f \in Inodes |-> LET x == CHOOSE y \in AllFiles : Inode(y) = f
                            IN  [i \in 0 .. 26 |-> At(x, i)]]
Starts == 0 .. 52
====
