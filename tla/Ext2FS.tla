---- MODULE Ext2FS ----
(***************************************************************************)
(* The FUSE file system of ext2fs.c over the directories of ext2.c: the    *)
(* threads of fuse_main serve requests at the same time, and each request  *)
(* starts with find_file_from_path, which splits the path with strtok.     *)
(* strtok keeps its place in one static pointer for all threads.           *)
(*                                                                         *)
(* A path is the sequence of its names.  What files contain is the subject *)
(* of module Ext2File; here the contents of a file are named by its inode. *)
(*                                                                         *)
(* A pread may fail: that of an inode, whose result nobody looks at; one   *)
(* for the contents of a directory or a file; or that of a table with the  *)
(* numbers of its further blocks.  The last looks like a read of no bytes: *)
(* the number that is missing is taken for a block behind the volume.      *)
(***************************************************************************)
EXTENDS Integers, SequencesExt

CONSTANTS Threads,
          Names,              \* the file names there are
          Requests,           \* [op, path] the kernel may send
          InodeTable,         \* [place on the volume -> inode]
          bg_inode_table,     \* [block group -> place of its inode table]
          s_inodes_per_group,
          s_inode_size,
          Directories,        \* [inode_no -> its entries, by their offset]
          direct_size,        \* what the blocks hold that need no table
          Garbled,            \* entries the middle of an entry may read as
          Stale,              \* names stale bytes may turn a name into
          Unread,             \* inodes that fresh memory may read as
          Faults,             \* what may fail to be read: "inode", "content", "table"
          NULL

ASSUME SuperblockAssumption ==
    /\ s_inodes_per_group \in Nat \ {0}
    /\ s_inode_size \in Nat \ {0}
ASSUME FaultsAssumption == Faults \subseteq {"inode", "content", "table"}
(* An entry the walk could stay at for ever is left out. *)
ASSUME GarbledAssumption ==
    /\ direct_size \in Nat \ {0}
    /\ \A e \in Garbled : e.de_rec_len \in Nat \ {0}
ASSUME NamesAssumption == Stale \subseteq Names /\ NULL \notin Names \cup Threads

EXT2_ROOT_INO == 2
ENOENT == -2
EIO == -5
EACCES == -13
EISDIR == -21
EINVAL == -22
ENOSYS == -38

VARIABLES pc,          \* per thread: "idle", "copied", "walk", "next",
                       \* "found", "answered", "undefined"
          request,     \* per thread: what it serves
          path_editable,  \* per thread: the names its copy of the path reads as
          token,       \* per thread: [name, buffer], the name and whose copy it is in
          inode_no, inode,  \* per thread: find_file_from_path's
          answer,      \* per thread
          olds         \* strtok's static pointer: [buffer, rest]

vars == <<pc, request, path_editable, token, inode_no, inode, answer, olds>>

----
(* The type of a file is the high digit of i_mode. *)
S_IFDIR == 4
S_IFREG == 8
S_IFLNK == 10
Bit(mode, b) == (mode \div b) % 2 = 1
IsDirectory(mode) == Bit(mode, 4)               \* (i_mode & 0x4000) == 0x4000
IsSymlink(mode) == Bit(mode, 8) /\ Bit(mode, 2) \* (i_mode & 0xA000) == 0xA000

read_inode(n) ==
    InodeTable[bg_inode_table[(n - 1) \div s_inodes_per_group]
                  + ((n - 1) % s_inodes_per_group) * s_inode_size]

(* The entries f is called with, if the names it returns non-zero for are   *)
(* wanted: the walk ends at such a name, at the end of the directory, and   *)
(* at an entry that holds no inode.                                         *)
follow_directory_entries(dir, wanted) ==
    LET entries == Directories[dir.i_block]
        From[file_offset \in DOMAIN entries \cup {o \in Nat : o >= dir.i_size}] ==
            IF file_offset >= dir.i_size THEN <<>>
            ELSE LET entry == entries[file_offset]
                 IN  IF entry.de_inode_no = 0 THEN <<>>
                     ELSE IF entry.de_name \in wanted THEN <<entry>>
                     ELSE <<entry>> \o From[file_offset + entry.de_rec_len]
    IN  IF IsDirectory(dir.i_mode) THEN From[0] ELSE <<>>

HasTable(i) == i.i_size > direct_size

(* The calls of f when reads of tables fail.  Such a read leaves dir as it  *)
(* is, so that f is called with the entry before again, whose length then   *)
(* leads on, perhaps into the middle of an entry.                           *)
Stumbling(dir, wanted) ==
    LET entries == Directories[dir.i_block]
        Holds(o, last) ==
            (IF o \in DOMAIN entries THEN {entries[o]} ELSE Garbled)
              \cup {e \in {last} : o >= direct_size}
        From[o \in Nat, last \in Range(entries) \cup Garbled \cup {NULL}] ==
            IF o >= dir.i_size THEN {<<>>}
            ELSE UNION {IF e.de_inode_no = 0 THEN {<<>>}
                        ELSE IF e.de_name \in wanted THEN {<<e>>}
                        ELSE {<<e>> \o s : s \in From[o + e.de_rec_len, e]}
                        : e \in Holds(o, last)}
    IN  IF IsDirectory(dir.i_mode) /\ HasTable(dir) THEN From[0, NULL] ELSE {}

find_file_in_directory_M(dir, name) ==  \* the last entry when none matches
    LET called == follow_directory_entries(dir, {name})
    IN  IF called # <<>> THEN Last(called).de_inode_no ELSE 0

find_file_in_directory(dir, name) ==
    LET called == follow_directory_entries(dir, {name})
    IN  IF called # <<>> /\ Last(called).de_name = name
        THEN Last(called).de_inode_no
        ELSE 0

(* What it finds when a read fails: nothing if the directory cannot be read *)
(* as far as the name; without a table, what the walk stumbles on.          *)
Misfinds(dir, name, fault) ==
    CASE fault = "content" -> {n \in {0} : IsDirectory(dir.i_mode)}
      [] fault = "table" -> {IF called # <<>> /\ Last(called).de_name = name
                             THEN Last(called).de_inode_no
                             ELSE 0 : called \in Stumbling(dir, {name})}
      [] OTHER -> {}

(* The copy of the path has no NUL of its own.  Either the byte behind it   *)
(* is one, or stale bytes are read as part of the last name.                *)
Copies(path) ==
    {path} \cup {Front(IF path = <<>> THEN <<NULL>> ELSE path) \o <<s>> : s \in Stale}

----
NoRequest == [op |-> "none", path |-> <<>>]
NoToken == [name |-> NULL, buffer |-> NULL]
Root == read_inode(EXT2_ROOT_INO)
Error(code) == [code |-> code, data |-> <<>>]
Success(data) == [code |-> 0, data |-> data]

Init ==
    /\ pc = [t \in Threads |-> "idle"]
    /\ request = [t \in Threads |-> NoRequest]
    /\ path_editable = [t \in Threads |-> <<>>]
    /\ token = [t \in Threads |-> NoToken]
    /\ inode_no = [t \in Threads |-> 0]
    /\ inode = [t \in Threads |-> Root]
    /\ answer = [t \in Threads |-> NULL]
    /\ olds = [buffer |-> NULL, rest |-> <<>>]

Goto(t, label) == pc' = [pc EXCEPT ![t] = label]

(* A request arrives.  ext2_open refuses to open for writing before it      *)
(* looks at the path; every other handler, and ext2_open for reading,       *)
(* starts find_file_from_path, which reads the root into fresh memory and   *)
(* copies the path.                                                         *)
Start(t, r, fault) ==
    /\ pc[t] = "idle"
    /\ fault \in {"none", "inode"}
    /\ request' = [request EXCEPT ![t] = r]
    /\ IF r.op = "open for writing"
       THEN /\ fault = "none"
            /\ Goto(t, "answered")
            /\ answer' = [answer EXCEPT ![t] = Error(EACCES)]
            /\ UNCHANGED <<path_editable, inode_no, inode>>
       ELSE /\ Goto(t, "copied")
            /\ \E copy \in Copies(r.path) : path_editable' = [path_editable EXCEPT ![t] = copy]
            /\ inode_no' = [inode_no EXCEPT ![t] = EXT2_ROOT_INO]
            /\ \E i \in IF fault = "inode" THEN Unread ELSE {Root} :
                  inode' = [inode EXCEPT ![t] = i]
            /\ UNCHANGED answer
    /\ UNCHANGED <<token, olds>>

(* strtok, on the names rest of the copy of thread owner: the next token,   *)
(* or NULL, which ends the path.                                            *)
strtok(t, owner, rest) ==
    /\ token' = [token EXCEPT ![t] = IF rest = <<>> THEN NoToken
                                     ELSE [name |-> Head(rest), buffer |-> owner]]
    /\ olds' = [buffer |-> owner, rest |-> IF rest = <<>> THEN <<>> ELSE Tail(rest)]
    /\ Goto(t, IF rest = <<>> THEN "found" ELSE "walk")

FirstToken_M(t) ==  \* frees the copy once the first token is known
    /\ pc[t] = "copied"
    /\ token' = [token EXCEPT ![t] = IF path_editable[t] = <<>> THEN NoToken
                     ELSE [name |-> Head(path_editable[t]), buffer |-> t]]
    /\ olds' = [buffer |-> NULL, rest |-> <<>>]
    /\ Goto(t, IF path_editable[t] = <<>> THEN "found" ELSE "walk")
    /\ UNCHANGED <<request, path_editable, inode_no, inode, answer>>

FirstToken(t) ==
    /\ pc[t] = "copied"
    /\ strtok(t, t, path_editable[t])
    /\ UNCHANGED <<request, path_editable, inode_no, inode, answer>>

(* strtok(NULL, ...) goes on where the last call of any thread stopped.     *)
NextToken(t) ==
    /\ pc[t] = "next"
    /\ IF olds.buffer = NULL
       THEN Goto(t, "undefined") /\ UNCHANGED <<token, olds>>
       ELSE strtok(t, olds.buffer, olds.rest)
    /\ UNCHANGED <<request, path_editable, inode_no, inode, answer>>

LookUp_M(t, fault) ==  \* tries again where the code breaks out of the loop
    /\ pc[t] = "walk" /\ fault = "none"
    /\ \E n \in {find_file_in_directory(inode[t], token[t].name)} :
          /\ inode_no' = [inode_no EXCEPT ![t] = n]
          /\ inode' = [inode EXCEPT ![t] = IF n = 0 THEN Root ELSE read_inode(n)]
          /\ Goto(t, IF n = 0 THEN "walk" ELSE "next")
    /\ UNCHANGED <<request, path_editable, token, answer, olds>>

LookUp_M2(t, fault) ==  \* -1 for a missing file, as read_inode answers
    /\ pc[t] = "walk" /\ fault = "none"
    /\ \E n \in {find_file_in_directory(inode[t], token[t].name)} :
          /\ inode_no' = [inode_no EXCEPT ![t] = IF n = 0 THEN -1 ELSE n]
          /\ inode' = [inode EXCEPT ![t] = IF n = 0 THEN @ ELSE read_inode(n)]
          /\ Goto(t, IF n = 0 THEN "found" ELSE "next")
    /\ UNCHANGED <<request, path_editable, token, answer, olds>>

(* find_file_in_directory and, if it finds the token, read_inode.  When the *)
(* second fails, the inode of the directory stays where it is.              *)
LookUp(t, fault) ==
    /\ pc[t] = "walk"
    /\ IF token[t].buffer = NULL
       THEN fault = "none" /\ Goto(t, "undefined") /\ UNCHANGED <<inode_no, inode>>
       ELSE \E n \in IF fault \in {"none", "inode"}
                     THEN {find_file_in_directory(inode[t], token[t].name)}
                     ELSE Misfinds(inode[t], token[t].name, fault) :
              /\ fault = "inode" => n # 0
              /\ inode_no' = [inode_no EXCEPT ![t] = n]
              /\ inode' = [inode EXCEPT ![t] =
                              IF n = 0 \/ fault = "inode" THEN @ ELSE read_inode(n)]
              /\ Goto(t, IF n = 0 THEN "found" ELSE "next")
    /\ UNCHANGED <<request, path_editable, token, answer, olds>>

(* What the handlers answer once the inode, if any, is known. *)
ext2_getattr(n, i) ==
    IF n # 0 THEN Success(<<n, i.i_mode, i.i_size>>) ELSE Error(ENOSYS)

Listing(called) == Success([k \in DOMAIN called |-> called[k].de_name])

ext2_readdir(n, i) ==
    IF n = 0 \/ ~IsDirectory(i.i_mode) THEN Error(ENOENT)
    ELSE Listing(follow_directory_entries(i, {}))

ext2_open(n, i) ==
    IF n = 0 THEN Error(ENOENT)
    ELSE IF IsDirectory(i.i_mode) THEN Error(EISDIR)
    ELSE Success(<<n>>)

ext2_read_M(n, i) ==  \* reads directories
    IF n = 0 THEN Error(ENOENT) ELSE Success(<<i.i_block, i.i_size>>)

ext2_read(n, i) ==
    IF n = 0 THEN Error(ENOENT)
    ELSE IF IsDirectory(i.i_mode) THEN Error(EISDIR)
    ELSE Success(<<i.i_block, i.i_size>>)

ext2_readlink(n, i) ==
    IF n = 0 THEN Error(ENOENT)
    ELSE IF ~IsSymlink(i.i_mode) THEN Error(EINVAL)
    ELSE Success(<<i.i_block>>)

Reply(op, n, i) ==
    CASE op = "getattr" -> ext2_getattr(n, i)
      [] op = "readdir" -> ext2_readdir(n, i)
      [] op = "open" -> ext2_open(n, i)
      [] op = "read" -> ext2_read(n, i)
      [] op = "readlink" -> ext2_readlink(n, i)

(* What they answer when a read of the file itself fails; getattr and open  *)
(* read nothing more.  ext2_readdir ends the listing at a content it cannot *)
(* read, and stumbles without a table.  ext2_read and, for a target kept in *)
(* blocks, ext2_readlink give EIO for a content, but without a table they   *)
(* succeed with no bytes.  (A file with attributes: module Ext2File.)       *)
Misread(op, n, i, fault) ==
    LET sound == Reply(op, n, i)
        reads == op = "read" \/ (op = "readlink" /\ i.i_size >= 60)
    IN  IF sound.code # 0 THEN {}
        ELSE CASE fault = "content" /\ op = "readdir" ->
                    {Success(SubSeq(sound.data, 1, k)) : k \in 0 .. Len(sound.data) - 1}
               [] fault = "content" /\ reads -> {Error(EIO)}
               [] fault = "table" /\ op = "readdir" ->
                    {Listing(called) : called \in Stumbling(i, {})}
               [] fault = "table" /\ reads /\ HasTable(i) -> {Success(<<>>)}
               [] OTHER -> {}

(* find_file_from_path frees its copy of the path, whoever still points     *)
(* into it, and the handler answers.                                        *)
Found(t, fault) ==
    /\ pc[t] = "found"
    /\ \E reply \in IF fault = "none" THEN {Reply(request[t].op, inode_no[t], inode[t])}
                    ELSE Misread(request[t].op, inode_no[t], inode[t], fault) :
          answer' = [answer EXCEPT ![t] = reply]
    /\ path_editable' = [path_editable EXCEPT ![t] = <<>>]
    /\ token' = [u \in Threads |-> IF token[u].buffer = t THEN NoToken ELSE token[u]]
    /\ olds' = IF olds.buffer = t THEN [buffer |-> NULL, rest |-> <<>>] ELSE olds
    /\ Goto(t, "answered")
    /\ UNCHANGED <<request, inode_no, inode>>

(* The kernel has the answer. *)
Return(t) ==
    /\ pc[t] = "answered"
    /\ Goto(t, "idle")
    /\ request' = [request EXCEPT ![t] = NoRequest]
    /\ token' = [token EXCEPT ![t] = NoToken]
    /\ inode_no' = [inode_no EXCEPT ![t] = 0]
    /\ inode' = [inode EXCEPT ![t] = Root]
    /\ answer' = [answer EXCEPT ![t] = NULL]
    /\ UNCHANGED <<path_editable, olds>>

Serve(t) ==
    \/ FirstToken(t)
    \/ NextToken(t)
    \/ LookUp(t, "none") \/ Found(t, "none")
    \/ \E fault \in Faults : LookUp(t, fault) \/ Found(t, fault)

Next ==
    \E t \in Threads :
        \/ \E r \in Requests, fault \in {"none"} \cup Faults : Start(t, r, fault)
        \/ Serve(t)
        \/ Return(t)

Spec == Init /\ [][Next]_vars

(* Every thread of fuse_main gets to run; the kernel need not send requests. *)
FairSpec == Spec /\ \A t \in Threads : WF_vars(Serve(t))
====
