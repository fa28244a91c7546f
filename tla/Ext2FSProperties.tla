---- MODULE Ext2FSProperties ----
(***************************************************************************)
(* What must be true of the file system of module Ext2FS.  Tree and Kind   *)
(* are the reference: what inode each number names, and what it is.        *)
(* The history variables remember, per thread, whether another thread has  *)
(* moved strtok's pointer during its walk, and what it could not read: on  *)
(* the way its "path", an "inode", the "content" or a "table" of a         *)
(* directory; at the end the "data" or the "map" (a table) of the file.    *)
(***************************************************************************)
EXTENDS Ext2FS

CONSTANTS Tree,   \* [inode number -> inode]
          Kind    \* [inode number -> "directory", "file", "link"]

(* The volume: the inode tables hold the tree, the modes are those of the   *)
(* kinds of file, and the directories name inodes of the tree.              *)
ASSUME TreeAssumption ==
    /\ EXT2_ROOT_INO \in DOMAIN Tree /\ 0 \notin DOMAIN Tree
    /\ \A n \in DOMAIN Tree :
          /\ read_inode(n) = Tree[n]
          /\ IsDirectory(Tree[n].i_mode) <=> Kind[n] = "directory"
          /\ IsSymlink(Tree[n].i_mode) <=> Kind[n] = "link"
(* The entries of a directory fill it without a gap, and those that name    *)
(* inodes have different names.                                             *)
WellMade(entries, size) ==
    /\ size \in Nat /\ DOMAIN entries \subseteq 0 .. size - 1
    /\ 0 \in DOMAIN entries \cup {size}
    /\ \A o \in DOMAIN entries :
          LET end == o + entries[o].de_rec_len
          IN  /\ entries[o].de_rec_len \in Nat \ {0}
              /\ end \in DOMAIN entries \cup {size}
              /\ \A p \in DOMAIN entries : p <= o \/ p >= end
    /\ \A o, p \in DOMAIN entries :
          entries[o].de_inode_no # 0 /\ entries[p].de_inode_no # 0
          /\ entries[o].de_name = entries[p].de_name => o = p
ASSUME DirectoriesAssumption ==
    \A n \in DOMAIN Tree :
        Kind[n] = "directory" => WellMade(Directories[Tree[n].i_block], Tree[n].i_size)
ASSUME EntriesAssumption ==
    \A i \in Range(Tree) \cup Unread, name \in Names :
        /\ find_file_in_directory(i, name) \in DOMAIN Tree \cup {0}
        /\ Misfinds(i, name, "table") \subseteq DOMAIN Tree \cup {0}
ASSUME OpsAssumption ==
    \A r \in Requests :
        /\ r.op \in {"getattr", "readdir", "open", "read", "readlink", "open for writing"}
        /\ r.path \in Seq(Names)

VARIABLES disturbed, misread

hvars == <<vars, disturbed, misread>>

InWalk(t) == pc[t] \in {"walk", "next"}

HInit ==
    /\ Init
    /\ disturbed = [t \in Threads |-> FALSE]
    /\ misread = [t \in Threads |-> {}]

HStart(t, r, fault) ==
    /\ Start(t, r, fault)
    /\ misread' = [misread EXCEPT ![t] =
          {f \in {fault} : f # "none"}
            \cup {f \in {"path"} : path_editable'[t] \notin {<<>>, r.path}}]
    /\ UNCHANGED disturbed

HToken(t) ==
    /\ FirstToken(t) \/ NextToken(t)
    /\ disturbed' = [u \in Threads |-> disturbed[u] \/ (u # t /\ InWalk(u))]
    /\ UNCHANGED misread

(* What the thread reads on its way, and of the file at the end of it. *)
HLookUp(t, fault) ==
    /\ LookUp(t, fault)
    /\ misread' = [misread EXCEPT ![t] = @ \cup {f \in {fault} : f # "none"}]
    /\ UNCHANGED disturbed

HFound(t, fault) ==
    /\ Found(t, fault)
    /\ misread' = [misread EXCEPT ![t] = @ \cup {f \in {"data"} : fault = "content"}
                                          \cup {f \in {"map"} : fault = "table"}]
    /\ UNCHANGED disturbed

HReturn(t) ==
    /\ Return(t)
    /\ disturbed' = [disturbed EXCEPT ![t] = FALSE]
    /\ misread' = [misread EXCEPT ![t] = {}]

HNext ==
    \E t \in Threads :
        \/ \E r \in Requests, fault \in {"none"} \cup Faults : HStart(t, r, fault)
        \/ HToken(t)
        \/ \E fault \in {"none"} \cup Faults : HLookUp(t, fault) \/ HFound(t, fault)
        \/ HReturn(t)

HSpec == HInit /\ [][HNext]_hvars

----
(* The entries of directory n that name an inode. *)
Entries(n) ==
    IF n # 0 /\ Kind[n] = "directory"
    THEN {e \in Range(Directories[Tree[n].i_block]) : e.de_inode_no # 0}
    ELSE {}

Named(n, name) == {e \in Entries(n) : e.de_name = name}

(* The inode numbers a path leads through, from the root; 0 when it does    *)
(* not exist.                                                               *)
Through(path) ==
    LET R[k \in 0 .. Len(path)] ==
            IF k = 0 THEN EXT2_ROOT_INO
            ELSE IF Named(R[k - 1], path[k]) = {} THEN 0
            ELSE (CHOOSE e \in Named(R[k - 1], path[k]) : TRUE).de_inode_no
    IN  R

Resolve(path) == Through(path)[Len(path)]

(* Directory n has an entry that no longer names an inode. *)
HasVacated(n) ==
    /\ n # 0 /\ Kind[n] = "directory"
    /\ \E e \in Range(Directories[Tree[n].i_block]) : e.de_inode_no = 0

(* One of the directories the names of the path are looked up in has one.   *)
MeetsVacated(path) == \E k \in 0 .. Len(path) - 1 : HasVacated(Through(path)[k])

(* The thread's walk was its own, over the path it was given, and the       *)
(* inodes and the tables on the way could be read.                          *)
Proper(t) == ~disturbed[t] /\ misread[t] \subseteq {"content", "data", "map"}

----
TypeOK ==
    /\ pc \in [Threads -> {"idle", "copied", "walk", "next", "found", "answered", "undefined"}]
    /\ request \in [Threads -> Requests \cup {NoRequest}]
    /\ path_editable \in [Threads -> Seq(Names)]
    /\ token \in [Threads -> [name : Names \cup {NULL}, buffer : Threads \cup {NULL}]]
    /\ inode_no \in [Threads -> DOMAIN Tree \cup {0}]
    /\ inode \in [Threads -> Range(Tree) \cup Unread]
    /\ DOMAIN answer = Threads
    /\ olds \in [buffer : Threads \cup {NULL}, rest : Seq(Names)]

(* What a request should be answered about file n, the names of a directory *)
(* in any order.                                                            *)
Promised(op, n, a) ==
    CASE op = "getattr" -> a = Success(<<n, Tree[n].i_mode, Tree[n].i_size>>)
      [] op = "readdir" ->
            IF Kind[n] = "directory"
            THEN /\ a.code = 0 /\ IsInjective(a.data)
                 /\ Range(a.data) = {e.de_name : e \in Entries(n)}
            ELSE a = Error(ENOENT)
      [] op = "open" -> a = IF Kind[n] = "directory" THEN Error(EISDIR) ELSE Success(<<n>>)
      [] op = "read" -> a = IF Kind[n] = "directory" THEN Error(EISDIR)
                            ELSE Success(<<Tree[n].i_block, Tree[n].i_size>>)
      [] op = "readlink" -> a = IF Kind[n] = "link" THEN Success(<<Tree[n].i_block>>)
                                ELSE Error(EINVAL)
      [] OTHER -> FALSE

(* What a request about a missing file is answered; getattr not with the    *)
(* ENOENT its comment promises (ext2fs.c:93-94).                            *)
NotFound(op) == IF op = "getattr" THEN Error(ENOSYS) ELSE Error(ENOENT)

(* What it may be answered instead about file n, of which data or map could *)
(* not be read, or which is a directory with a removed entry, behind which  *)
(* no walk looks.  Only without its map is a listing not one of different   *)
(* names of the directory.                                                  *)
FallsShort(op, n, missed, a) ==
    \/ /\ \/ op = "read" /\ Kind[n] # "directory"
          \/ op = "readlink" /\ Kind[n] = "link"
       /\ \/ "data" \in missed /\ a = Error(EIO)
          \/ "map" \in missed /\ a = Success(<<>>)
    \/ /\ op = "readdir" /\ Kind[n] = "directory" /\ a.code = 0
       /\ \/ "map" \in missed
          \/ /\ "data" \in missed \/ HasVacated(n)
             /\ IsInjective(a.data)
             /\ Range(a.data) \subseteq {e.de_name : e \in Entries(n)}

(* From the path to the answer: if nobody disturbed the walk and its inodes *)
(* and tables could be read, the answer is about the file the path names,   *)
(* in full unless that file itself could not be read.  Nothing is found     *)
(* only if there is nothing, if one of the path's directories cannot be     *)
(* read as far as the name, or if a removed entry ends a walk before it.    *)
AnswerRight ==
    \A t \in Threads : pc[t] = "answered" /\ Proper(t) =>
        LET path == request[t].path
            op == request[t].op
            n == Resolve(path)
            a == answer[t]
            cut == "content" \in misread[t] \/ MeetsVacated(path)
        IN  IF op = "open for writing" THEN a = Error(EACCES)
            ELSE \/ n # 0 /\ (Promised(op, n, a) \/ FallsShort(op, n, misread[t], a))
                 \/ a = NotFound(op) /\ (n = 0 \/ cut)

(* Only another thread's strtok can make a walk read a copy that was freed. *)
UndefinedOnlyByOverlap ==
    \A t \in Threads : pc[t] = "undefined" => disturbed[t]

(* What may be done with a file of each kind. *)
Allowed(op, kind) ==
    CASE op = "getattr" -> TRUE
      [] op = "readdir" -> kind = "directory"
      [] op \in {"open", "read"} -> kind # "directory"
      [] op = "readlink" -> kind = "link"
      [] OTHER -> FALSE

Fits(op, n) == n # 0 /\ Allowed(op, Kind[n])

(* A handler succeeds just for the files its operation is for, whatever     *)
(* the other threads do: it looks at the inode the walk has found.  When    *)
(* such a file cannot be read, read and readlink alone may give an error,   *)
(* which is EIO; a listing, and reading without a table, still succeed.     *)
HandlerFitsKind ==
    \A t \in Threads : pc[t] = "answered" /\ "inode" \notin misread[t] =>
        LET op == request[t].op
            code == answer[t].code
        IN  /\ code = 0 => Fits(op, inode_no[t])
            /\ Fits(op, inode_no[t]) =>
                  \/ code = 0
                  \/ op \in {"read", "readlink"} /\ "data" \in misread[t] /\ code = EIO

(* Every request is answered, or has left the program's defined behaviour,  *)
(* unless an inode cannot be read: then the walk stays in its directory and *)
(* may go on with the names of other threads' paths for ever.               *)
Served ==
    \A t \in Threads :
        pc[t] = "copied" ~> pc[t] \in {"answered", "undefined"} \/ "inode" \in misread[t]

----
(* ext2.c:408-410: find_file_from_path returns "the inode number associated *)
(* to the file" if the file exists, and 0 if it does not; so it does when   *)
(* fuse_main calls it from several threads.                                 *)
LookupFindsFile ==
    \A t \in Threads :
        pc[t] = "found" /\ path_editable[t] = request[t].path
        /\ ~MeetsVacated(request[t].path)
            => inode_no[t] = Resolve(request[t].path)
====
