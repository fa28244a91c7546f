---- MODULE Ext2FSProofs ----
(***************************************************************************)
(* Theorems about the file system of module Ext2FS, for any number of      *)
(* threads, any volume and any interleaving of the path walks; and about   *)
(* the program of module Ext2Main: it implements that file system, and     *)
(* mounts the groups the volume has.                                       *)
(***************************************************************************)
EXTENDS Ext2Main, NatLemmas, TLAPS

Labels == {"idle", "copied", "walk", "next", "found", "answered", "undefined"}

(* In find_file_from_path, or in a handler that has not answered yet. *)
Walking == {"copied", "walk", "next", "found"}

DisturbedOK == disturbed \in [Threads -> BOOLEAN]
Marks == {"inode", "content", "table", "path", "data", "map"}
MisreadOK == misread \in [Threads -> SUBSET Marks]

(* A walk nobody disturbed has strtok's pointer, and its token, in its copy. *)
OwnCopy ==
    \A t \in Threads : ~disturbed[t] =>
        /\ pc[t] = "walk" => token[t].buffer = t
        /\ pc[t] \in {"walk", "next"} => olds.buffer = t
        /\ pc[t] # "undefined"

(* A token that still points into a copy is a name. *)
TokenIsName ==
    \A t \in Threads : token[t].buffer # NULL => token[t].name \in Names

(* The inode is the one of the number unless one could not be read, and     *)
(* there is none between requests.                                          *)
InodeMatches ==
    \A t \in Threads :
        /\ inode_no[t] # 0 /\ "inode" \notin misread[t] => inode[t] = Tree[inode_no[t]]
        /\ pc[t] = "idle" => inode_no[t] = 0

(* ext2_open has turned away the requests to open for writing. *)
WalkHasRequest ==
    \A t \in Threads : pc[t] \in Walking =>
        request[t] \in Requests /\ request[t].op # "open for writing"

WalkInv == DisturbedOK /\ OwnCopy
KindInv == MisreadOK /\ TokenIsName /\ InodeMatches /\ WalkHasRequest /\ HandlerFitsKind
IInv == TypeOK /\ WalkInv /\ KindInv

----
(* What the copied path reads as is a sequence of names, stale bytes or not. *)
LEMMA CopiesAreNames ==
    ASSUME NEW path \in Seq(Names), NEW copy \in Copies(path)
    PROVE  copy \in Seq(Names)
<1>1. CASE copy = path
  BY <1>1
<1>2. CASE path = <<>> /\ copy # path
  <2>1. PICK s \in Stale : copy = Front(<<NULL>>) \o <<s>>
    BY <1>2 DEF Copies
  <2>2. Front(<<NULL>>) = <<>>
    BY DEF Front
  <2>3. s \in Names
    BY NamesAssumption
  <2> QED BY <2>1, <2>2, <2>3
<1>3. CASE path # <<>> /\ copy # path
  <2>1. PICK s \in Stale : copy = Front(path) \o <<s>>
    BY <1>3 DEF Copies
  <2>2. Len(path) \in Nat /\ Len(path) >= 1
    BY <1>3
  <2>3. Front(path) \in Seq(Names)
    BY <2>2 DEF Front
  <2>4. s \in Names
    BY NamesAssumption
  <2> QED BY <2>1, <2>3, <2>4
<1> QED BY <1>1, <1>2, <1>3

(* read_inode(EXT2_ROOT_INO) gives the root of the tree. *)
LEMMA RootInTree ==
    /\ EXT2_ROOT_INO \in DOMAIN Tree
    /\ Root = Tree[EXT2_ROOT_INO]
    /\ Root \in Range(Tree)
BY TreeAssumption DEF Root, Range

(* One directory lookup, whatever fails, finds nothing or an inode number   *)
(* of the tree, whose inode read_inode then gives.                          *)
LEMMA LookUpInTree ==
    ASSUME NEW i \in Range(Tree) \cup Unread, NEW name \in Names,
           NEW fault, NEW n,
           n = find_file_in_directory(i, name) \/ n \in Misfinds(i, name, fault)
    PROVE  /\ n \in DOMAIN Tree \cup {0}
           /\ n # 0 => read_inode(n) = Tree[n] /\ read_inode(n) \in Range(Tree)
<1>1. n \in DOMAIN Tree \cup {0}
  <2>1. CASE n = find_file_in_directory(i, name)
    BY <2>1, EntriesAssumption
  <2>2. CASE n \in Misfinds(i, name, fault) /\ fault = "table"
    BY <2>2, EntriesAssumption
  <2>3. CASE n \in Misfinds(i, name, fault) /\ fault # "table"
    BY <2>3 DEF Misfinds
  <2> QED BY <2>1, <2>2, <2>3
<1> QED BY <1>1, TreeAssumption DEF Range

(* The codes of the errors are not 0. *)
LEMMA ErrorIsNoSuccess ==
    /\ Error(ENOENT).code # 0 /\ Error(ENOSYS).code # 0
    /\ Error(EISDIR).code # 0 /\ Error(EINVAL).code # 0
<1>1. \A code : Error(code).code = code
  BY DEF Error
<1>2. ENOENT # 0 /\ ENOSYS # 0 /\ EISDIR # 0 /\ EINVAL # 0
  BY DEF ENOENT, ENOSYS, EISDIR, EINVAL
<1> QED BY <1>1, <1>2

(* The handlers succeed for the files their operations are for. *)
LEMMA ReplyFitsKind ==
    ASSUME NEW r \in Requests, r.op # "open for writing",
           NEW n \in DOMAIN Tree \cup {0}, NEW i,
           n # 0 => i = Tree[n]
    PROVE  Reply(r.op, n, i).code = 0 <=> Fits(r.op, n)
<1> DEFINE op == r.op
<1>1. op \in {"getattr", "readdir", "open", "read", "readlink"}
  BY OpsAssumption
<1>2. n # 0 => /\ IsDirectory(i.i_mode) <=> Kind[n] = "directory"
               /\ IsSymlink(i.i_mode) <=> Kind[n] = "link"
  BY TreeAssumption
<1>3. /\ \A data : Success(data).code = 0
      /\ \A called : Listing(called).code = 0
  BY DEF Success, Listing
<1>4. /\ Error(ENOENT).code # 0 /\ Error(ENOSYS).code # 0
      /\ Error(EISDIR).code # 0 /\ Error(EINVAL).code # 0
  BY ErrorIsNoSuccess
<1> HIDE DEF op
<1>5. CASE op = "getattr"
  BY <1>5, <1>3, <1>4 DEF Reply, Fits, Allowed, ext2_getattr, op
<1>6. CASE op = "readdir"
  BY <1>6, <1>2, <1>3, <1>4 DEF Reply, Fits, Allowed, ext2_readdir, op
<1>7. CASE op = "open"
  BY <1>7, <1>2, <1>3, <1>4 DEF Reply, Fits, Allowed, ext2_open, op
<1>8. CASE op = "read"
  BY <1>8, <1>2, <1>3, <1>4 DEF Reply, Fits, Allowed, ext2_read, op
<1>9. CASE op = "readlink"
  BY <1>9, <1>2, <1>3, <1>4 DEF Reply, Fits, Allowed, ext2_readlink, op
<1> QED BY <1>1, <1>5, <1>6, <1>7, <1>8, <1>9

----
(* What a handler answers when the file cannot be read is a success like    *)
(* the sound one, but EIO from read and readlink at a content.              *)
LEMMA MisreadFitsKind ==
    ASSUME NEW op, NEW n, NEW i, NEW fault, NEW a \in Misread(op, n, i, fault)
    PROVE  /\ Reply(op, n, i).code = 0 /\ fault # "inode"
           /\ \/ a.code = 0
              \/ fault = "content" /\ op \in {"read", "readlink"} /\ a.code = EIO
<1>1. Reply(op, n, i).code = 0
  BY DEF Misread
<1>2. /\ \A data : Success(data).code = 0
      /\ \A code : Error(code).code = code
      /\ \A called : Listing(called).code = 0
  BY DEF Success, Error, Listing
<1>3. fault \in {"content", "table"}
  BY <1>1 DEF Misread
<1>4. CASE fault = "content"
  BY <1>1, <1>2, <1>4 DEF Misread
<1>5. CASE fault = "table"
  BY <1>1, <1>2, <1>5 DEF Misread
<1> QED BY <1>1, <1>3, <1>4, <1>5

(* The volume is mounted and no request has come. *)
LEMMA InitEstablishes == HInit => IInv
<1> SUFFICES ASSUME HInit PROVE IInv
  OBVIOUS
<1> USE DEF HInit, Init
<1>1. TypeOK
  <2>1. inode_no \in [Threads -> DOMAIN Tree \cup {0}] /\ inode \in [Threads -> Range(Tree) \cup Unread]
    BY RootInTree
  <2>2. <<>> \in Seq(Names)
    OBVIOUS
  <2> QED BY <2>1, <2>2 DEF TypeOK, NoRequest, NoToken
<1>2. WalkInv
  BY DEF WalkInv, DisturbedOK, OwnCopy
<1>3. KindInv
  BY DEF KindInv, MisreadOK, TokenIsName, InodeMatches, WalkHasRequest, HandlerFitsKind, Walking, NoToken
<1> QED BY <1>1, <1>2, <1>3 DEF IInv

(* A request that arrives touches nobody else. *)
LEMMA StartPreserves ==
    ASSUME IInv, NEW t \in Threads, NEW r \in Requests, NEW fault \in {"none"} \cup Faults,
           HStart(t, r, fault)
    PROVE  IInv'
<1> USE DEF IInv
<1>a. /\ Start(t, r, fault) /\ UNCHANGED disturbed
      /\ misread' = [misread EXCEPT ![t] =
            {f \in {fault} : f # "none"}
              \cup {f \in {"path"} : path_editable'[t] \notin {<<>>, r.path}}]
  BY DEF HStart
<1>b. /\ MisreadOK'
      /\ fault # "none" => fault \in misread'[t]
      /\ \A u \in Threads \ {t} : misread'[u] = misread[u]
  BY <1>a, FaultsAssumption DEF KindInv, MisreadOK, Marks
<1> USE <1>a
<1>1. TypeOK'
  <2>1. path_editable' \in [Threads -> Seq(Names)]
    <3>1. r.path \in Seq(Names)
      BY OpsAssumption
    <3>2. \A copy \in Copies(r.path) : copy \in Seq(Names)
      BY <3>1, CopiesAreNames
    <3> QED BY <3>2 DEF TypeOK, Start
  <2>2. /\ inode_no' \in [Threads -> DOMAIN Tree \cup {0}]
        /\ inode' \in [Threads -> Range(Tree) \cup Unread]
    BY RootInTree DEF TypeOK, Start
  <2>3. /\ pc' \in [Threads -> Labels]
        /\ request' \in [Threads -> Requests \cup {NoRequest}]
        /\ DOMAIN answer' = Threads
    BY DEF TypeOK, Start, Goto, Labels
  <2> QED BY <2>1, <2>2, <2>3 DEF TypeOK, Start, Labels
<1>2. WalkInv'
  <2>1. DisturbedOK'
    BY DEF WalkInv, DisturbedOK
  <2>2. \A u \in Threads :
            /\ u = t => pc'[u] \in {"copied", "answered"}
            /\ u # t => pc'[u] = pc[u] /\ disturbed'[u] = disturbed[u]
    BY DEF WalkInv, DisturbedOK, TypeOK, Start, Goto
  <2>3. token' = token /\ olds' = olds
    BY DEF Start
  <2>4. OwnCopy'
    <3> SUFFICES ASSUME NEW u \in Threads, ~disturbed'[u]
                 PROVE  /\ pc'[u] = "walk" => token'[u].buffer = u
                        /\ pc'[u] \in {"walk", "next"} => olds'.buffer = u
                        /\ pc'[u] # "undefined"
      BY DEF OwnCopy
    <3>1. CASE u = t
      BY <3>1, <2>2
    <3>2. CASE u # t
      BY <3>2, <2>2, <2>3 DEF WalkInv, OwnCopy
    <3> QED BY <3>1, <3>2
  <2> QED BY <2>1, <2>4 DEF WalkInv
<1>3. InodeMatches'
  <2>1. \A u \in Threads \ {t} :
            pc'[u] = pc[u] /\ inode'[u] = inode[u] /\ inode_no'[u] = inode_no[u]
    BY DEF TypeOK, Start, Goto
  <2>2. pc'[t] # "idle"
    BY DEF TypeOK, Start, Goto
  <2>3. CASE r.op = "open for writing"
    BY <1>b, <2>1, <2>2, <2>3 DEF KindInv, InodeMatches, Start
  <2>4. CASE r.op # "open for writing"
    <3>1. inode_no'[t] = EXT2_ROOT_INO /\ (fault # "inode" => inode'[t] = Root)
      BY <2>4 DEF TypeOK, Start
    <3> QED BY <1>b, <2>1, <2>2, <3>1, RootInTree DEF KindInv, InodeMatches
  <2> QED BY <2>3, <2>4
<1>4. WalkHasRequest' /\ TokenIsName'
  BY DEF KindInv, WalkHasRequest, TokenIsName, TypeOK, Start, Goto, Walking
<1>5. HandlerFitsKind'
  <2>1. pc'[t] = "answered" => answer'[t] = Error(EACCES) /\ inode_no'[t] = 0
    BY DEF Start, Goto, TypeOK, KindInv, InodeMatches
  <2>2. Error(EACCES).code # 0 /\ ~Fits(request'[t].op, 0)
    BY DEF Error, EACCES, Fits
  <2>3. \A u \in Threads \ {t} :
            /\ pc'[u] = pc[u] /\ answer'[u] = answer[u]
            /\ inode_no'[u] = inode_no[u] /\ request'[u] = request[u]
    BY DEF Start, Goto, TypeOK
  <2> QED BY <1>b, <2>1, <2>2, <2>3 DEF KindInv, HandlerFitsKind
<1> QED BY <1>b, <1>1, <1>2, <1>3, <1>4, <1>5 DEF KindInv

(* strtok leaves a token and a rest that are names of the copy it works in. *)
LEMMA StrtokTyped ==
    ASSUME TypeOK, TokenIsName,
           NEW t \in Threads, NEW owner \in Threads, NEW rest \in Seq(Names),
           strtok(t, owner, rest),
           UNCHANGED <<request, path_editable, inode_no, inode, answer>>
    PROVE  TypeOK' /\ TokenIsName'
<1> DEFINE new == IF rest = <<>> THEN NoToken ELSE [name |-> Head(rest), buffer |-> owner]
           left == IF rest = <<>> THEN <<>> ELSE Tail(rest)
<1>1. /\ token' = [token EXCEPT ![t] = new]
      /\ olds' = [buffer |-> owner, rest |-> left]
      /\ Goto(t, IF rest = <<>> THEN "found" ELSE "walk")
  BY DEF strtok
<1>2. /\ new \in [name : Names \cup {NULL}, buffer : Threads \cup {NULL}]
      /\ new.buffer # NULL => new.name \in Names
  BY DEF NoToken
<1>3. left \in Seq(Names)
  OBVIOUS
<1> HIDE DEF new, left
<1>4. /\ token' \in [Threads -> [name : Names \cup {NULL}, buffer : Threads \cup {NULL}]]
      /\ olds' \in [buffer : Threads \cup {NULL}, rest : Seq(Names)]
  BY <1>1, <1>2, <1>3 DEF TypeOK
<1>5. pc' \in [Threads -> Labels]
  BY <1>1 DEF TypeOK, Goto, Labels
<1>6. TypeOK'
  BY <1>4, <1>5 DEF TypeOK, Labels
<1>7. TokenIsName'
  BY <1>1, <1>2 DEF TokenIsName, TypeOK
<1> QED BY <1>6, <1>7

(* strtok's first call starts a walk and moves the pointer of the others. *)
LEMMA FirstTokenPreserves ==
    ASSUME IInv, NEW t \in Threads, FirstToken(t), UNCHANGED misread,
           disturbed' = [u \in Threads |-> disturbed[u] \/ (u # t /\ InWalk(u))]
    PROVE  IInv'
<1> USE DEF IInv
<1> DEFINE rest == path_editable[t]
<1>1. /\ rest \in Seq(Names)
      /\ pc[t] = "copied"
      /\ strtok(t, t, rest)
      /\ UNCHANGED <<request, path_editable, inode_no, inode, answer>>
  BY DEF FirstToken, TypeOK
<1> HIDE DEF rest
<1>2. TypeOK' /\ TokenIsName'
  BY <1>1, StrtokTyped DEF KindInv, TypeOK
<1>3. \A u \in Threads \ {t} : pc'[u] = pc[u] /\ token'[u] = token[u]
  BY <1>1 DEF strtok, Goto, TypeOK
<1>4. /\ pc'[t] \in {"walk", "found"}
      /\ pc'[t] = "walk" => token'[t].buffer = t
      /\ olds'.buffer = t
  BY <1>1 DEF strtok, Goto, TypeOK
<1>5. DisturbedOK'
  BY DEF WalkInv, DisturbedOK
<1>6. OwnCopy'
  <2>1. \A u \in Threads \ {t} : ~disturbed'[u] => ~disturbed[u] /\ ~InWalk(u)
    BY DEF WalkInv, DisturbedOK
  <2> QED BY <1>3, <1>4, <2>1 DEF WalkInv, OwnCopy, InWalk
<1>7. MisreadOK' /\ InodeMatches' /\ WalkHasRequest' /\ HandlerFitsKind'
  BY <1>1, <1>3, <1>4 DEF KindInv, MisreadOK, InodeMatches, WalkHasRequest, HandlerFitsKind, Walking
<1> QED BY <1>2, <1>5, <1>6, <1>7 DEF WalkInv, KindInv

(* strtok's later calls do the same in the copy the pointer is in, whoever  *)
(* it belongs to; if the walk was not disturbed, that is the thread's own.  *)
LEMMA NextTokenPreserves ==
    ASSUME IInv, NEW t \in Threads, NextToken(t), UNCHANGED misread,
           disturbed' = [u \in Threads |-> disturbed[u] \/ (u # t /\ InWalk(u))]
    PROVE  IInv'
<1> USE DEF IInv
<1> DEFINE owner == olds.buffer
           rest == olds.rest
<1>1. /\ pc[t] = "next"
      /\ UNCHANGED <<request, path_editable, inode_no, inode, answer>>
  BY DEF NextToken
<1>2. DisturbedOK'
  BY DEF WalkInv, DisturbedOK
<1>3. \A u \in Threads \ {t} : ~disturbed'[u] => ~disturbed[u] /\ ~InWalk(u)
  BY DEF WalkInv, DisturbedOK
<1>4. ~disturbed'[t] => ~disturbed[t]
  BY DEF WalkInv, DisturbedOK
<1>5. CASE owner = NULL
  <2>1. Goto(t, "undefined") /\ UNCHANGED <<token, olds>>
    BY <1>5 DEF NextToken
  <2>2. disturbed[t]
    BY <1>1, <1>5, NamesAssumption DEF WalkInv, OwnCopy
  <2>3. TypeOK'
    BY <1>1, <2>1 DEF TypeOK, Goto
  <2>4. /\ pc'[t] = "undefined"
        /\ \A u \in Threads \ {t} : pc'[u] = pc[u]
    BY <2>1 DEF Goto, TypeOK
  <2>5. OwnCopy'
    BY <1>3, <1>4, <2>1, <2>2, <2>4 DEF WalkInv, OwnCopy
  <2>6. KindInv'
    BY <1>1, <2>1, <2>4
       DEF KindInv, MisreadOK, TokenIsName, InodeMatches, WalkHasRequest, HandlerFitsKind, Walking
  <2> QED BY <1>2, <2>3, <2>5, <2>6 DEF WalkInv
<1>6. CASE owner # NULL
  <2>1. /\ strtok(t, owner, rest)
        /\ owner \in Threads
        /\ rest \in Seq(Names)
    BY <1>6 DEF NextToken, TypeOK
  <2>2. ~disturbed[t] => owner = t
    BY <1>1 DEF WalkInv, OwnCopy
  <2> HIDE DEF owner, rest
  <2>3. TypeOK' /\ TokenIsName'
    BY <1>1, <2>1, StrtokTyped DEF KindInv, TypeOK
  <2>4. \A u \in Threads \ {t} : pc'[u] = pc[u] /\ token'[u] = token[u]
    BY <2>1 DEF strtok, Goto, TypeOK
  <2>5. /\ pc'[t] \in {"walk", "found"}
        /\ pc'[t] = "walk" => token'[t].buffer = owner
        /\ olds'.buffer = owner
    BY <2>1 DEF strtok, Goto, TypeOK
  <2>6. OwnCopy'
    BY <1>3, <1>4, <2>2, <2>4, <2>5 DEF WalkInv, OwnCopy, InWalk
  <2>7. MisreadOK' /\ InodeMatches' /\ WalkHasRequest' /\ HandlerFitsKind'
    BY <1>1, <2>4, <2>5 DEF KindInv, MisreadOK, InodeMatches, WalkHasRequest, HandlerFitsKind, Walking
  <2> QED BY <1>2, <2>3, <2>6, <2>7 DEF WalkInv, KindInv
<1> QED BY <1>5, <1>6

(* What a read of a thread adds to what it could not read. *)
LEMMA MisreadGrows ==
    ASSUME MisreadOK, NEW t \in Threads, NEW fault \in {"none"} \cup Faults,
           misread' = [misread EXCEPT ![t] = @ \cup {f \in {fault} : f # "none"}]
    PROVE  /\ MisreadOK'
           /\ fault # "none" => fault \in misread'[t]
           /\ misread[t] \subseteq misread'[t]
           /\ \A u \in Threads \ {t} : misread'[u] = misread[u]
BY FaultsAssumption DEF MisreadOK, Marks

(* The same at the end of the walk, where the file itself is read. *)
LEMMA MisreadAtEnd ==
    ASSUME MisreadOK, NEW t \in Threads, NEW fault,
           misread' = [misread EXCEPT ![t] = @ \cup {f \in {"data"} : fault = "content"}
                                               \cup {f \in {"map"} : fault = "table"}]
    PROVE  /\ MisreadOK'
           /\ fault = "content" => "data" \in misread'[t]
           /\ fault = "table" => "map" \in misread'[t]
           /\ misread[t] \subseteq misread'[t]
           /\ misread'[t] \subseteq misread[t] \cup {"data", "map"}
           /\ \A u \in Threads \ {t} : misread'[u] = misread[u]
BY DEF MisreadOK, Marks

(* A lookup moves no pointer; a token that was freed is read only after a   *)
(* disturbance.                                                             *)
LEMMA LookUpPreserves ==
    ASSUME IInv, NEW t \in Threads, NEW fault \in {"none"} \cup Faults,
           LookUp(t, fault), UNCHANGED disturbed,
           misread' = [misread EXCEPT ![t] = @ \cup {f \in {fault} : f # "none"}]
    PROVE  IInv'
<1> USE DEF IInv
<1>1. /\ pc[t] = "walk"
      /\ UNCHANGED <<request, path_editable, token, answer, olds, disturbed>>
  BY DEF LookUp
<1>2. /\ MisreadOK'
      /\ fault # "none" => fault \in misread'[t]
      /\ misread[t] \subseteq misread'[t]
      /\ \A u \in Threads \ {t} : misread'[u] = misread[u]
  BY MisreadGrows DEF KindInv
<1>3. CASE token[t].buffer = NULL
  <2>1. Goto(t, "undefined") /\ UNCHANGED <<inode_no, inode>>
    BY <1>3 DEF LookUp
  <2>2. disturbed[t]
    BY <1>1, <1>3, NamesAssumption DEF WalkInv, OwnCopy
  <2>3. TypeOK'
    BY <1>1, <2>1 DEF TypeOK, Goto
  <2>4. /\ pc'[t] = "undefined"
        /\ \A u \in Threads \ {t} : pc'[u] = pc[u]
    BY <2>1 DEF Goto, TypeOK
  <2>5. WalkInv'
    BY <1>1, <2>2, <2>4 DEF WalkInv, DisturbedOK, OwnCopy
  <2>6. TokenIsName' /\ WalkHasRequest'
    BY <1>1, <2>1, <2>4 DEF KindInv, TokenIsName, WalkHasRequest, Walking
  <2>7. InodeMatches'
    BY <1>1, <1>2, <2>1, <2>4 DEF KindInv, InodeMatches
  <2>8. HandlerFitsKind'
    BY <1>1, <1>2, <2>1, <2>4 DEF KindInv, HandlerFitsKind
  <2> QED BY <1>2, <2>3, <2>5, <2>6, <2>7, <2>8 DEF KindInv
<1>4. CASE token[t].buffer # NULL
  <2>1. PICK n \in IF fault \in {"none", "inode"}
                   THEN {find_file_in_directory(inode[t], token[t].name)}
                   ELSE Misfinds(inode[t], token[t].name, fault) :
            /\ inode_no' = [inode_no EXCEPT ![t] = n]
            /\ inode' = [inode EXCEPT ![t] =
                            IF n = 0 \/ fault = "inode" THEN @ ELSE read_inode(n)]
            /\ Goto(t, IF n = 0 THEN "found" ELSE "next")
    BY <1>4 DEF LookUp
  <2>2. inode[t] \in Range(Tree) \cup Unread /\ token[t].name \in Names
    BY <1>4 DEF TypeOK, KindInv, TokenIsName
  <2>3. \/ n = find_file_in_directory(inode[t], token[t].name)
        \/ n \in Misfinds(inode[t], token[t].name, fault)
    BY <2>1
  <2>4. /\ n \in DOMAIN Tree \cup {0}
        /\ n # 0 => read_inode(n) = Tree[n] /\ read_inode(n) \in Range(Tree)
    BY <2>2, <2>3, LookUpInTree
  <2>5. /\ inode_no' \in [Threads -> DOMAIN Tree \cup {0}]
        /\ inode' \in [Threads -> Range(Tree) \cup Unread]
        /\ pc' \in [Threads -> Labels]
    BY <2>1, <2>2, <2>4 DEF TypeOK, Goto, Labels
  <2>6. TypeOK'
    BY <1>1, <2>5 DEF TypeOK, Labels
  <2>7. \A u \in Threads \ {t} :
            pc'[u] = pc[u] /\ inode'[u] = inode[u] /\ inode_no'[u] = inode_no[u]
    BY <2>1 DEF Goto, TypeOK
  <2>8. /\ pc'[t] \in {"found", "next"}
        /\ inode_no'[t] = n
        /\ n # 0 /\ fault # "inode" => inode'[t] = read_inode(n)
    BY <2>1 DEF Goto, TypeOK
  <2>9. WalkInv'
    BY <1>1, <2>7, <2>8 DEF WalkInv, DisturbedOK, OwnCopy
  <2>10. InodeMatches'
    BY <1>2, <2>4, <2>7, <2>8 DEF KindInv, InodeMatches
  <2>11. TokenIsName' /\ WalkHasRequest'
    BY <1>1, <2>7, <2>8 DEF KindInv, TokenIsName, WalkHasRequest, Walking
  <2>12. HandlerFitsKind'
    BY <1>1, <1>2, <2>7, <2>8 DEF KindInv, HandlerFitsKind
  <2> QED BY <1>2, <2>6, <2>9, <2>10, <2>11, <2>12 DEF KindInv
<1> QED BY <1>3, <1>4

(* Freeing a copy hurts only walks that are in it, which were disturbed; and *)
(* the handler answers from the inode that was found.                       *)
LEMMA FoundPreserves ==
    ASSUME IInv, NEW t \in Threads, NEW fault \in {"none"} \cup Faults,
           Found(t, fault), UNCHANGED disturbed,
           misread' = [misread EXCEPT ![t] = @ \cup {f \in {"data"} : fault = "content"}
                                               \cup {f \in {"map"} : fault = "table"}]
    PROVE  IInv'
<1> USE DEF IInv
<1> DEFINE op == request[t].op
           n == inode_no[t]
           i == inode[t]
<1>1. /\ pc[t] = "found"
      /\ UNCHANGED <<request, inode_no, inode, disturbed>>
      /\ \A u \in Threads \ {t} : pc'[u] = pc[u] /\ answer'[u] = answer[u]
      /\ pc'[t] = "answered"
      /\ answer'[t] \in IF fault = "none" THEN {Reply(op, n, i)} ELSE Misread(op, n, i, fault)
  BY DEF Found, Goto, TypeOK
<1>2. \A u \in Threads :
          token'[u] = IF token[u].buffer = t THEN NoToken ELSE token[u]
  BY DEF Found
<1>3. olds' = IF olds.buffer = t THEN [buffer |-> NULL, rest |-> <<>>] ELSE olds
  BY DEF Found
<1> HIDE DEF op, n, i
<1>4. TypeOK'
  <2>1. token' \in [Threads -> [name : Names \cup {NULL}, buffer : Threads \cup {NULL}]]
    BY DEF Found, TypeOK, NoToken
  <2>2. olds' \in [buffer : Threads \cup {NULL}, rest : Seq(Names)]
    BY <1>3 DEF TypeOK
  <2>3. path_editable' \in [Threads -> Seq(Names)]
    <3>1. <<>> \in Seq(Names)
      OBVIOUS
    <3> QED BY <3>1 DEF Found, TypeOK
  <2>4. pc' \in [Threads -> Labels] /\ DOMAIN answer' = Threads
    BY DEF Found, Goto, TypeOK, Labels
  <2> QED BY <1>1, <2>1, <2>2, <2>3, <2>4 DEF TypeOK, Labels
<1>5. WalkInv'
  BY <1>1, <1>2, <1>3 DEF WalkInv, DisturbedOK, OwnCopy
<1>6. TokenIsName'
  BY <1>2 DEF KindInv, TokenIsName, NoToken
<1>7. /\ MisreadOK'
      /\ fault = "content" => "data" \in misread'[t]
      /\ misread[t] \subseteq misread'[t]
      /\ \A u \in Threads \ {t} : misread'[u] = misread[u]
  BY MisreadAtEnd DEF KindInv
<1>8. InodeMatches' /\ WalkHasRequest'
  BY <1>1, <1>7 DEF KindInv, InodeMatches, WalkHasRequest, Walking
<1>9. ASSUME "inode" \notin misread'[t]
      PROVE  /\ answer'[t].code = 0 => Fits(op, n)
             /\ Fits(op, n) =>
                   \/ answer'[t].code = 0
                   \/ op \in {"read", "readlink"} /\ "data" \in misread'[t] /\ answer'[t].code = EIO
  <2>1. /\ request[t] \in Requests /\ request[t].op # "open for writing"
        /\ n \in DOMAIN Tree \cup {0}
        /\ n # 0 => i = Tree[n]
    BY <1>1, <1>7, <1>9 DEF KindInv, WalkHasRequest, InodeMatches, Walking, TypeOK, n, i
  <2>2. Reply(op, n, i).code = 0 <=> Fits(op, n)
    BY <2>1, ReplyFitsKind DEF op
  <2>3. CASE fault # "none"
    <3>1. answer'[t] \in Misread(op, n, i, fault)
      BY <1>1, <2>3
    <3>2. /\ Fits(op, n)
          /\ \/ answer'[t].code = 0
             \/ fault = "content" /\ op \in {"read", "readlink"} /\ answer'[t].code = EIO
      BY <2>2, <3>1, MisreadFitsKind
    <3> QED BY <1>7, <3>2
  <2>4. CASE fault = "none"
    BY <1>1, <2>2, <2>4
  <2> QED BY <2>3, <2>4
<1>10. HandlerFitsKind'
  BY <1>1, <1>7, <1>9 DEF KindInv, HandlerFitsKind, op, n
<1> QED BY <1>4, <1>5, <1>6, <1>7, <1>8, <1>10 DEF KindInv

(* The thread is ready for the next request. *)
LEMMA ReturnPreserves ==
    ASSUME IInv, NEW t \in Threads, HReturn(t)
    PROVE  IInv'
<1> USE DEF IInv
<1>1. \A u \in Threads \ {t} :
          /\ pc'[u] = pc[u] /\ request'[u] = request[u] /\ token'[u] = token[u]
          /\ inode_no'[u] = inode_no[u] /\ inode'[u] = inode[u] /\ answer'[u] = answer[u]
  BY DEF HReturn, Return, Goto, TypeOK
<1>2. pc'[t] = "idle" /\ token'[t].buffer = NULL /\ inode_no'[t] = 0
  BY DEF HReturn, Return, Goto, TypeOK, NoToken
<1>3. olds' = olds /\ path_editable' = path_editable
  BY DEF HReturn, Return
<1>4. TypeOK'
  <2>1. inode' \in [Threads -> Range(Tree) \cup Unread]
    BY RootInTree DEF HReturn, Return, TypeOK
  <2>2. /\ pc' \in [Threads -> Labels]
        /\ request' \in [Threads -> Requests \cup {NoRequest}]
        /\ inode_no' \in [Threads -> DOMAIN Tree \cup {0}]
        /\ DOMAIN answer' = Threads
    BY DEF HReturn, Return, Goto, TypeOK, Labels
  <2>3. token' \in [Threads -> [name : Names \cup {NULL}, buffer : Threads \cup {NULL}]]
    BY DEF HReturn, Return, TypeOK, NoToken
  <2> QED BY <1>3, <2>1, <2>2, <2>3 DEF TypeOK, Labels
<1>5. /\ DisturbedOK' /\ MisreadOK'
      /\ \A u \in Threads \ {t} : disturbed'[u] = disturbed[u] /\ misread'[u] = misread[u]
  BY DEF HReturn, WalkInv, DisturbedOK, KindInv, MisreadOK
<1>6. WalkInv'
  BY <1>1, <1>2, <1>3, <1>5 DEF WalkInv, OwnCopy
<1>7. TokenIsName' /\ InodeMatches'
  BY <1>1, <1>2, <1>5 DEF KindInv, TokenIsName, InodeMatches
<1>8. WalkHasRequest' /\ HandlerFitsKind'
  BY <1>1, <1>2, <1>5 DEF KindInv, WalkHasRequest, HandlerFitsKind, Walking
<1> QED BY <1>4, <1>5, <1>6, <1>7, <1>8 DEF KindInv

(* A step that changes nothing keeps the invariant. *)
LEMMA StutterPreserves == ASSUME IInv, UNCHANGED hvars PROVE IInv'
<1>1. /\ UNCHANGED <<pc, request, path_editable, token, inode_no, inode, answer, olds>>
      /\ UNCHANGED <<disturbed, misread>>
  BY DEF hvars, vars
<1>2. TypeOK'
  BY <1>1 DEF IInv, TypeOK
<1>3. WalkInv'
  BY <1>1 DEF IInv, WalkInv, DisturbedOK, OwnCopy
<1>4. MisreadOK' /\ TokenIsName' /\ InodeMatches' /\ WalkHasRequest'
  BY <1>1 DEF IInv, KindInv, MisreadOK, TokenIsName, InodeMatches, WalkHasRequest
<1>5. HandlerFitsKind'
  BY <1>1 DEF IInv, KindInv, HandlerFitsKind
<1> QED BY <1>2, <1>3, <1>4, <1>5 DEF IInv, KindInv

----
(* The invariant holds throughout. *)
THEOREM FSSafety == HSpec => []IInv
<1>1. IInv /\ [HNext]_hvars => IInv'
  <2> SUFFICES ASSUME IInv, [HNext]_hvars PROVE IInv'
    OBVIOUS
  <2>1. CASE HNext
    <3>1. ASSUME NEW t \in Threads, NEW r \in Requests, NEW fault \in {"none"} \cup Faults,
                 HStart(t, r, fault)
          PROVE  IInv'
      BY <3>1, StartPreserves
    <3>2. ASSUME NEW t \in Threads, HToken(t)
          PROVE  IInv'
      BY <3>2, FirstTokenPreserves, NextTokenPreserves DEF HToken
    <3>3. ASSUME NEW t \in Threads, NEW fault \in {"none"} \cup Faults, HLookUp(t, fault)
          PROVE  IInv'
      BY <3>3, LookUpPreserves DEF HLookUp
    <3>4. ASSUME NEW t \in Threads, NEW fault \in {"none"} \cup Faults, HFound(t, fault)
          PROVE  IInv'
      BY <3>4, FoundPreserves DEF HFound
    <3>5. ASSUME NEW t \in Threads, HReturn(t)
          PROVE  IInv'
      BY <3>5, ReturnPreserves
    <3> QED BY <2>1, <3>1, <3>2, <3>3, <3>4, <3>5 DEF HNext
  <2>2. CASE UNCHANGED hvars
    BY <2>2, StutterPreserves
  <2> QED BY <2>1, <2>2
<1> QED BY <1>1, InitEstablishes, PTL DEF HSpec

(* The threads' variables keep their types: every inode looked at is one of *)
(* the volume's, every token a name, however the walks interleave.          *)
THEOREM FSTypeOK == HSpec => []TypeOK
<1>1. IInv => TypeOK
  BY DEF IInv
<1> QED BY <1>1, FSSafety, PTL

(* No walk reads a freed copy of a path unless another thread's strtok has  *)
(* moved the pointer meanwhile.                                             *)
THEOREM FSUndefinedOnlyByOverlap == HSpec => []UndefinedOnlyByOverlap
<1>1. IInv => UndefinedOnlyByOverlap
  BY DEF IInv, WalkInv, OwnCopy, UndefinedOnlyByOverlap
<1> QED BY <1>1, FSSafety, PTL

(* Whatever the other threads do, a handler succeeds just for an inode of   *)
(* the kind its operation is for, or it is read or readlink, did not get    *)
(* the data of such a file, and says EIO.                                   *)
THEOREM FSHandlerFitsKind == HSpec => []HandlerFitsKind
<1>1. IInv => HandlerFitsKind
  BY DEF IInv, KindInv
<1> QED BY <1>1, FSSafety, PTL

----
(* Listings of directories.                                                *)

Offsets(entries, size) == DOMAIN entries \cup {o \in Nat : o >= size}

(* What the walk lists from offset o on, if f is what it lists behind it.   *)
ListsFrom(entries, size, wanted, f, o) ==
    IF o >= size THEN <<>>
    ELSE LET entry == entries[o]
         IN  IF entry.de_inode_no = 0 THEN <<>>
             ELSE IF entry.de_name \in wanted THEN <<entry>>
             ELSE <<entry>> \o f[o + entry.de_rec_len]

Walks(entries, size, wanted, f) ==
    f = [o \in Offsets(entries, size) |-> ListsFrom(entries, size, wanted, f, o)]

(* follow_directory_entries starts its walk at the first entry.             *)
LEMMA FollowWalks ==
    ASSUME NEW dir, IsDirectory(dir.i_mode), NEW wanted
    PROVE  follow_directory_entries(dir, wanted) =
              (CHOOSE f : Walks(Directories[dir.i_block], dir.i_size, wanted, f))[0]
BY DEF follow_directory_entries, Walks, ListsFrom, Offsets

(* The end of an entry is an offset behind its own.                         *)
LEMMA OffsetsGrow ==
    ASSUME NEW entries, NEW size, WellMade(entries, size),
           NEW o \in Offsets(entries, size), ~(o >= size)
    PROVE  /\ size \in Nat /\ o \in DOMAIN entries /\ o \in Nat
           /\ o + entries[o].de_rec_len \in Offsets(entries, size)
           /\ entries[o].de_rec_len \in Nat \ {0}
<1>1. size \in Nat /\ DOMAIN entries \subseteq 0 .. size - 1
  BY DEF WellMade
<1>2. o \in DOMAIN entries
  BY DEF Offsets
<1>3. /\ entries[o].de_rec_len \in Nat \ {0}
      /\ o + entries[o].de_rec_len \in DOMAIN entries \cup {size}
  BY <1>2 DEF WellMade
<1> QED BY <1>1, <1>2, <1>3 DEF Offsets

(* What is listed depends on what is listed behind it only.                 *)
LEMMA ListsFromBehind ==
    ASSUME NEW entries, NEW size, WellMade(entries, size), NEW wanted,
           NEW o \in Offsets(entries, size), NEW f, NEW g,
           \A p \in Offsets(entries, size) : p > o => f[p] = g[p]
    PROVE  ListsFrom(entries, size, wanted, f, o) = ListsFrom(entries, size, wanted, g, o)
<1>1. CASE o >= size
  BY <1>1 DEF ListsFrom
<1>2. CASE ~(o >= size)
  <2> DEFINE next == o + entries[o].de_rec_len
  <2>1. next \in Offsets(entries, size) /\ next > o
    BY <1>2, OffsetsGrow
  <2>2. f[next] = g[next]
    BY <2>1
  <2> QED BY <2>2 DEF ListsFrom
<1> QED BY <1>1, <1>2

(* There is such a walk: every step of it goes on, and the directory ends.  *)
LEMMA WalkExists ==
    ASSUME NEW entries, NEW size, WellMade(entries, size), NEW wanted
    PROVE  \E f : Walks(entries, size, wanted, f)
<1> DEFINE D == Offsets(entries, size)
           Lists(f, o) == ListsFrom(entries, size, wanted, f, o)
           Is(f, m) == \A o \in D : o + m >= size => f[o] = Lists(f, o)
           T == {m \in Nat : \E f : DOMAIN f = D /\ f = [o \in D |-> f[o]] /\ Is(f, m)}
<1>1. size \in Nat /\ D \subseteq Nat
  BY DEF WellMade, Offsets
<1>2. 0 \in T
  <2> DEFINE f == [o \in D |-> <<>>]
  <2>1. Is(f, 0)
    BY <1>1 DEF ListsFrom
  <2> HIDE DEF Is
  <2> QED BY <2>1
<1>3. ASSUME NEW m \in Nat, NEW f, Is(f, m)
      PROVE  Is([o \in D |-> IF o + m >= size THEN f[o] ELSE Lists(f, o)], m + 1)
  <2> DEFINE g == [o \in D |-> IF o + m >= size THEN f[o] ELSE Lists(f, o)]
  <2>1. ASSUME NEW o \in D, o + (m + 1) >= size PROVE g[o] = Lists(g, o)
    <3>1. g[o] = Lists(f, o)
      BY <1>3
    <3>2. \A p \in D : p > o => f[p] = g[p]
      BY <1>1, <2>1
    <3> HIDE DEF g
    <3>3. Lists(f, o) = Lists(g, o)
      BY <3>2, ListsFromBehind
    <3> QED BY <3>1, <3>3
  <2> QED BY <2>1
<1>4. \A m \in Nat : m \in T => m + 1 \in T
  <2> SUFFICES ASSUME NEW m \in Nat, m \in T PROVE m + 1 \in T
    OBVIOUS
  <2> HIDE DEF Is
  <2>1. PICK f : Is(f, m)
    OBVIOUS
  <2> DEFINE g == [o \in D |-> IF o + m >= size THEN f[o] ELSE Lists(f, o)]
  <2>2. Is(g, m + 1)
    BY <1>3, <2>1
  <2>3. DOMAIN g = D /\ g = [o \in D |-> g[o]]
    OBVIOUS
  <2> HIDE DEF g
  <2> QED BY <2>2, <2>3
<1>5. size \in T
  <2> HIDE DEF T
  <2> QED BY <1>1, <1>2, <1>4, SetInduction
<1>6. PICK f : f = [o \in D |-> f[o]] /\ Is(f, size)
  BY <1>5
<1>7. \A o \in D : f[o] = Lists(f, o)
  BY <1>1, <1>6
<1>8. f = [o \in D |-> Lists(f, o)]
  BY <1>6, <1>7
<1> QED BY <1>8 DEF Walks

(* What is listed from offset o on: entries there that name inodes, each    *)
(* name once; and all of them, unless the walk has met a wanted name, or an *)
(* entry of the directory names no inode.                                   *)
ListedOnce(entries, s, o) ==
    /\ \A k \in 1 .. Len(s) : \E p \in DOMAIN entries :
          p >= o /\ s[k] = entries[p] /\ entries[p].de_inode_no # 0
    /\ \A j, k \in 1 .. Len(s) : s[j].de_name = s[k].de_name => j = k

AllListed(entries, wanted, s, o) ==
    \/ \E p \in DOMAIN entries : entries[p].de_inode_no = 0
    \/ s # <<>> /\ s[Len(s)].de_name \in wanted
    \/ \A p \in DOMAIN entries : p >= o =>
          \E k \in 1 .. Len(s) : s[k] = entries[p] /\ entries[p].de_name \notin wanted

Listed(entries, wanted, s, o) ==
    /\ s \in Seq({entries[p] : p \in DOMAIN entries})
    /\ ListedOnce(entries, s, o)
    /\ AllListed(entries, wanted, s, o)

(* An entry in front of a listing. *)
LEMMA EntryInFront ==
    ASSUME NEW E, NEW e \in E, NEW s \in Seq(E)
    PROVE  /\ <<e>> \o s \in Seq(E) /\ Len(<<e>> \o s) = Len(s) + 1 /\ Len(s) \in Nat
           /\ <<e>> \o s # <<>>
           /\ (<<e>> \o s)[1] = e
           /\ \A k \in 1 .. Len(s) : (<<e>> \o s)[k + 1] = s[k]
           /\ \A k \in 2 .. Len(s) + 1 : (<<e>> \o s)[k] = s[k - 1] /\ k - 1 \in 1 .. Len(s)
OBVIOUS

LEMMA ListedInFront ==
    ASSUME NEW entries, NEW size, WellMade(entries, size), NEW wanted,
           NEW o \in DOMAIN entries, entries[o].de_inode_no # 0,
           entries[o].de_name \notin wanted,
           NEW s, Listed(entries, wanted, s, o + entries[o].de_rec_len)
    PROVE  Listed(entries, wanted, <<entries[o]>> \o s, o)
<1> DEFINE E == {entries[p] : p \in DOMAIN entries}
           e == entries[o]
           next == o + e.de_rec_len
           r == <<e>> \o s
<1>1. /\ DOMAIN entries \subseteq Nat /\ o \in Nat /\ next \in Nat /\ next > o
      /\ \A p \in DOMAIN entries : p <= o \/ p >= next
      /\ \A p, q \in DOMAIN entries :
            entries[p].de_inode_no # 0 /\ entries[q].de_inode_no # 0
            /\ entries[p].de_name = entries[q].de_name => p = q
  BY DEF WellMade
<1>2. e \in E /\ s \in Seq(E) /\ ListedOnce(entries, s, next) /\ AllListed(entries, wanted, s, next)
  BY DEF Listed
<1> HIDE DEF E
<1>3. /\ r \in Seq(E) /\ Len(r) = Len(s) + 1 /\ Len(s) \in Nat /\ r # <<>> /\ r[1] = e
      /\ \A k \in 1 .. Len(s) : r[k + 1] = s[k]
      /\ \A k \in 2 .. Len(s) + 1 : r[k] = s[k - 1] /\ k - 1 \in 1 .. Len(s)
  BY <1>2, EntryInFront
<1> HIDE DEF next, r
<1>4. \A k \in 1 .. Len(s) : \E p \in DOMAIN entries :
          p >= next /\ s[k] = entries[p] /\ entries[p].de_inode_no # 0
  BY <1>2 DEF ListedOnce
<1>5. \A k \in 1 .. Len(r) : k = 1 \/ k \in 2 .. Len(s) + 1
  BY <1>3
<1>6. \A k \in 1 .. Len(s) : s[k].de_name # e.de_name
  <2> SUFFICES ASSUME NEW k \in 1 .. Len(s), s[k].de_name = e.de_name PROVE FALSE
    OBVIOUS
  <2>1. PICK p \in DOMAIN entries :
            p >= next /\ s[k] = entries[p] /\ entries[p].de_inode_no # 0
    BY <1>4
  <2>2. p = o
    BY <1>1, <2>1
  <2> QED BY <1>1, <2>1, <2>2
<1> HIDE DEF e
<1>7. ListedOnce(entries, r, o)
  <2>1. ASSUME NEW k \in 1 .. Len(r)
        PROVE  \E p \in DOMAIN entries :
                  p >= o /\ r[k] = entries[p] /\ entries[p].de_inode_no # 0
    <3>1. CASE k = 1
      BY <1>1, <1>3, <3>1 DEF e
    <3>2. CASE k # 1
      <4>1. r[k] = s[k - 1] /\ k - 1 \in 1 .. Len(s)
        BY <1>3, <1>5, <3>2
      <4>2. PICK p \in DOMAIN entries :
                p >= next /\ s[k - 1] = entries[p] /\ entries[p].de_inode_no # 0
        BY <1>4, <4>1
      <4>3. p >= o
        BY <1>1, <4>2
      <4> QED BY <4>1, <4>2, <4>3
    <3> QED BY <3>1, <3>2
  <2>2. ASSUME NEW j \in 1 .. Len(r), NEW k \in 1 .. Len(r), r[j].de_name = r[k].de_name
        PROVE  j = k
    <3>1. CASE j = 1 /\ k # 1
      BY <1>3, <1>5, <1>6, <2>2, <3>1
    <3>2. CASE j # 1 /\ k = 1
      BY <1>3, <1>5, <1>6, <2>2, <3>2
    <3>3. CASE j # 1 /\ k # 1
      <4>1. /\ r[j] = s[j - 1] /\ j - 1 \in 1 .. Len(s)
            /\ r[k] = s[k - 1] /\ k - 1 \in 1 .. Len(s)
        BY <1>3, <1>5, <3>3
      <4>2. j - 1 = k - 1
        BY <1>2, <2>2, <4>1 DEF ListedOnce
      <4> QED BY <4>2
    <3> QED BY <3>1, <3>2, <3>3
  <2> QED BY <2>1, <2>2 DEF ListedOnce
<1>8. AllListed(entries, wanted, r, o)
  <2>1. CASE \E p \in DOMAIN entries : entries[p].de_inode_no = 0
    BY <2>1 DEF AllListed
  <2>2. CASE s # <<>> /\ s[Len(s)].de_name \in wanted
    <3>1. Len(s) \in 1 .. Len(s)
      BY <1>2, <1>3, <2>2
    <3>2. r[Len(r)] = s[Len(s)]
      BY <1>3, <3>1
    <3> QED BY <1>3, <2>2, <3>2 DEF AllListed
  <2>3. CASE \A p \in DOMAIN entries : p >= next =>
                \E k \in 1 .. Len(s) : s[k] = entries[p] /\ entries[p].de_name \notin wanted
    <3>1. ASSUME NEW p \in DOMAIN entries, p >= o
          PROVE  \E k \in 1 .. Len(r) : r[k] = entries[p] /\ entries[p].de_name \notin wanted
      <4>1. CASE p = o
        <5>1. 1 \in 1 .. Len(r) /\ r[1] = entries[p] /\ entries[p].de_name \notin wanted
          BY <1>3, <4>1 DEF e
        <5> QED BY <5>1
      <4>2. CASE p # o
        <5>1. p >= next
          BY <1>1, <3>1, <4>2
        <5>2. PICK k \in 1 .. Len(s) : s[k] = entries[p] /\ entries[p].de_name \notin wanted
          BY <2>3, <5>1
        <5>3. k + 1 \in 1 .. Len(r) /\ r[k + 1] = entries[p]
          BY <1>3, <5>2
        <5> QED BY <5>2, <5>3
      <4> QED BY <4>1, <4>2
    <3> QED BY <3>1 DEF AllListed
  <2> QED BY <1>2, <2>1, <2>2, <2>3 DEF AllListed
<1> QED BY <1>3, <1>7, <1>8 DEF Listed, E, r, e

(* By induction over the distance to the end of the directory.              *)
LEMMA WalkLists ==
    ASSUME NEW entries, NEW size, WellMade(entries, size), NEW wanted,
           NEW f, Walks(entries, size, wanted, f)
    PROVE  \A o \in Offsets(entries, size) : Listed(entries, wanted, f[o], o)
<1> DEFINE D == Offsets(entries, size)
           T == {m \in Nat : \A o \in D : o + m >= size => Listed(entries, wanted, f[o], o)}
<1>1. size \in Nat /\ D \subseteq Nat /\ DOMAIN entries \subseteq 0 .. size - 1
  BY DEF WellMade, Offsets
<1>2. \A o \in D : f[o] = ListsFrom(entries, size, wanted, f, o)
  BY DEF Walks
<1>3. ASSUME NEW o \in D, o >= size PROVE Listed(entries, wanted, f[o], o)
  <2>1. f[o] = <<>>
    BY <1>2, <1>3 DEF ListsFrom
  <2>2. \A p \in DOMAIN entries : ~(p >= o)
    BY <1>1, <1>3
  <2> QED BY <2>1, <2>2 DEF Listed, ListedOnce, AllListed
<1>4. 0 \in T
  BY <1>1, <1>3
<1>5. ASSUME NEW m \in Nat, m \in T, NEW o \in D, o + (m + 1) >= size
      PROVE  Listed(entries, wanted, f[o], o)
  <2>1. CASE o >= size
    BY <1>3, <2>1
  <2>2. CASE ~(o >= size)
    <3>1. /\ o \in DOMAIN entries /\ o \in Nat /\ entries[o].de_rec_len \in Nat \ {0}
          /\ o + entries[o].de_rec_len \in D
      BY <2>2, OffsetsGrow
    <3>2. CASE entries[o].de_inode_no = 0
      <4>1. f[o] = <<>>
        BY <1>2, <2>2, <3>2 DEF ListsFrom
      <4> QED BY <3>1, <3>2, <4>1 DEF Listed, ListedOnce, AllListed
    <3>3. CASE entries[o].de_inode_no # 0 /\ entries[o].de_name \in wanted
      <4>1. f[o] = <<entries[o]>>
        BY <1>2, <2>2, <3>3 DEF ListsFrom
      <4>2. /\ <<entries[o]>> \in Seq({entries[p] : p \in DOMAIN entries})
            /\ Len(<<entries[o]>>) = 1 /\ <<entries[o]>>[1] = entries[o]
            /\ <<entries[o]>> # <<>>
        BY <3>1
      <4>3. ListedOnce(entries, f[o], o)
        BY <3>1, <3>3, <4>1, <4>2 DEF ListedOnce
      <4>4. AllListed(entries, wanted, f[o], o)
        BY <3>3, <4>1, <4>2 DEF AllListed
      <4> QED BY <4>1, <4>2, <4>3, <4>4 DEF Listed
    <3>4. CASE entries[o].de_inode_no # 0 /\ entries[o].de_name \notin wanted
      <4> DEFINE next == o + entries[o].de_rec_len
      <4>1. f[o] = <<entries[o]>> \o f[next]
        BY <1>2, <2>2, <3>4 DEF ListsFrom
      <4>2. next + m >= size
        BY <1>1, <1>5, <3>1
      <4>3. Listed(entries, wanted, f[next], next)
        BY <1>5, <3>1, <4>2
      <4> QED BY <3>1, <3>4, <4>1, <4>3, ListedInFront
    <3> QED BY <3>2, <3>3, <3>4
  <2> QED BY <2>1, <2>2
<1>6. \A m \in Nat : m \in T => m + 1 \in T
  BY <1>5
<1>7. size \in T
  <2> HIDE DEF T
  <2> QED BY <1>1, <1>4, <1>6, SetInduction
<1> QED BY <1>1, <1>7

(* follow_directory_entries lists a directory of the volume so, from its    *)
(* first entry on.                                                          *)
LEMMA DirectoryListed ==
    ASSUME NEW n \in DOMAIN Tree, Kind[n] = "directory", NEW wanted
    PROVE  LET entries == Directories[Tree[n].i_block]
           IN  /\ DOMAIN entries \subseteq Nat
               /\ WellMade(entries, Tree[n].i_size)
               /\ Listed(entries, wanted, follow_directory_entries(Tree[n], wanted), 0)
<1> DEFINE entries == Directories[Tree[n].i_block]
           size == Tree[n].i_size
           f == CHOOSE f : Walks(entries, size, wanted, f)
<1>1. WellMade(entries, size)
  BY DirectoriesAssumption
<1>2. 0 \in Offsets(entries, size) /\ DOMAIN entries \subseteq Nat
  BY <1>1 DEF WellMade, Offsets
<1>3. IsDirectory(Tree[n].i_mode)
  BY TreeAssumption
<1>4. follow_directory_entries(Tree[n], wanted) = f[0]
  BY <1>3, FollowWalks
<1> HIDE DEF entries, size
<1>5. Walks(entries, size, wanted, f)
  BY <1>1, WalkExists
<1> HIDE DEF f
<1>6. Listed(entries, wanted, f[0], 0)
  BY <1>1, <1>2, <1>5, WalkLists
<1> QED BY <1>1, <1>2, <1>4, <1>6 DEF entries, size

----
(* Paths through the directories.                                          *)

(* The file one name of a path leads to, from file n; 0 if there is none.   *)
Step(n, name) ==
    IF Named(n, name) = {} THEN 0
    ELSE (CHOOSE e \in Named(n, name) : TRUE).de_inode_no

(* find_file_in_directory takes such a step, or an entry of the directory   *)
(* names no inode.                                                          *)
LEMMA LookUpSteps ==
    ASSUME NEW n \in DOMAIN Tree, NEW name, NEW m, m = find_file_in_directory(Tree[n], name)
    PROVE  /\ m # 0 => m = Step(n, name)
           /\ m = 0 => Step(n, name) = 0 \/ HasVacated(n)
<1> DEFINE called == follow_directory_entries(Tree[n], {name})
           entries == Directories[Tree[n].i_block]
<1>0. n # 0
  BY TreeAssumption
<1>1. CASE Kind[n] # "directory"
  <2>1. called = <<>>
    BY <1>1, TreeAssumption DEF follow_directory_entries
  <2>2. m = 0
    BY <2>1 DEF find_file_in_directory
  <2>3. Named(n, name) = {}
    BY <1>1 DEF Named, Entries
  <2> QED BY <2>2, <2>3 DEF Step
<1>2. CASE Kind[n] = "directory"
  <2>1. /\ WellMade(entries, Tree[n].i_size) /\ DOMAIN entries \subseteq Nat
        /\ Listed(entries, {name}, called, 0)
    BY <1>2, DirectoryListed
  <2>2. m = IF called # <<>> /\ Last(called).de_name = name
            THEN Last(called).de_inode_no ELSE 0
    BY DEF find_file_in_directory
  <2>3. \A e : e \in Named(n, name) <=>
            /\ \E p \in DOMAIN entries : e = entries[p]
            /\ e.de_inode_no # 0 /\ e.de_name = name
    BY <1>0, <1>2 DEF Named, Entries, Range
  <2>4. HasVacated(n) <=> \E p \in DOMAIN entries : entries[p].de_inode_no = 0
    BY <1>0, <1>2 DEF HasVacated, Range
  <2>5. \A d, e \in Named(n, name) : d = e
    BY <2>1, <2>3 DEF WellMade
  <2> HIDE DEF called, entries
  <2>6. called = <<>> \/ Len(called) \in 1 .. Len(called)
    BY <2>1 DEF Listed
  <2>7. CASE called # <<>> /\ Last(called).de_name = name
    <3> DEFINE e == Last(called)
    <3>1. e = called[Len(called)]
      BY DEF Last
    <3>2. e \in Named(n, name) /\ e.de_inode_no # 0
      BY <2>1, <2>3, <2>6, <2>7, <3>1 DEF Listed, ListedOnce
    <3>3. (CHOOSE d \in Named(n, name) : TRUE) = e
      <4> HIDE DEF e
      <4>1. (CHOOSE d \in Named(n, name) : TRUE) \in Named(n, name)
        BY <3>2
      <4> QED BY <2>5, <3>2, <4>1
    <3>4. Step(n, name) = e.de_inode_no
      BY <3>2, <3>3 DEF Step
    <3> QED BY <2>2, <2>7, <3>2, <3>4
  <2>8. CASE ~(called # <<>> /\ Last(called).de_name = name)
    <3>1. m = 0
      BY <2>2, <2>8
    <3>2. \/ \E p \in DOMAIN entries : entries[p].de_inode_no = 0
          \/ \A p \in DOMAIN entries : entries[p].de_name # name
      BY <2>1, <2>8 DEF Listed, AllListed, Last
    <3>3. (\A p \in DOMAIN entries : entries[p].de_name # name) => Named(n, name) = {}
      BY <2>3
    <3> QED BY <2>4, <3>1, <3>2, <3>3 DEF Step
  <2> QED BY <2>7, <2>8
<1> QED BY <1>1, <1>2

(* Through takes the steps of the path, one after the other.                *)
StepsAlong(path, R, m) ==
    /\ R[0] = EXT2_ROOT_INO
    /\ \A k \in 1 .. m : R[k] = Step(R[k - 1], path[k])

LEMMA StepsAlongExist ==
    ASSUME NEW path, NEW n \in Nat
    PROVE  \E R : StepsAlong(path, R, n)
<1> DEFINE T == {m \in Nat : \E R : StepsAlong(path, R, m)}
<1>1. 0 \in T
  <2>1. StepsAlong(path, [k \in {0} |-> EXT2_ROOT_INO], 0)
    BY DEF StepsAlong
  <2> QED BY <2>1
<1>2. ASSUME NEW m \in Nat, NEW R, StepsAlong(path, R, m)
      PROVE  \E S : StepsAlong(path, S, m + 1)
  <2> DEFINE S == [k \in 0 .. m + 1 |->
                      IF k = m + 1 THEN Step(R[m], path[m + 1]) ELSE R[k]]
  <2>1. S[0] = EXT2_ROOT_INO
    BY <1>2 DEF StepsAlong
  <2>2. ASSUME NEW k \in 1 .. m + 1 PROVE S[k] = Step(S[k - 1], path[k])
    <3>1. k - 1 \in 0 .. m /\ k \in 0 .. m + 1
      OBVIOUS
    <3>2. S[k - 1] = R[k - 1]
      BY <3>1
    <3>3. CASE k = m + 1
      <4>1. S[k] = Step(R[m], path[m + 1]) /\ k - 1 = m
        BY <3>1, <3>3
      <4> QED BY <3>2, <3>3, <4>1
    <3>4. CASE k # m + 1
      <4>1. S[k] = R[k] /\ k \in 1 .. m
        BY <3>1, <3>4
      <4>2. R[k] = Step(R[k - 1], path[k])
        BY <1>2, <4>1 DEF StepsAlong
      <4> QED BY <3>2, <4>1, <4>2
    <3> QED BY <3>3, <3>4
  <2> HIDE DEF S
  <2> QED BY <2>1, <2>2 DEF StepsAlong
<1>3. \A m \in Nat : m \in T => m + 1 \in T
  BY <1>2
<1>4. n \in T
  <2> HIDE DEF T
  <2> QED BY <1>1, <1>3, SetInduction
<1> QED BY <1>4

ThroughIs(path, R) ==
    R = [k \in 0 .. Len(path) |->
            IF k = 0 THEN EXT2_ROOT_INO
            ELSE IF Named(R[k - 1], path[k]) = {} THEN 0
            ELSE (CHOOSE e \in Named(R[k - 1], path[k]) : TRUE).de_inode_no]

LEMMA ThroughSteps ==
    ASSUME NEW path \in Seq(Names)
    PROVE  StepsAlong(path, Through(path), Len(path))
<1> DEFINE n == Len(path)
<1>1. n \in Nat
  OBVIOUS
<1>2. Through(path) = CHOOSE R : ThroughIs(path, R)
  BY DEF Through, ThroughIs
<1>3. PICK S : StepsAlong(path, S, n)
  BY <1>1, StepsAlongExist
<1> DEFINE R == [k \in 0 .. n |-> S[k]]
<1>4. ThroughIs(path, R)
  <2>1. ASSUME NEW k \in 0 .. n
        PROVE  R[k] = IF k = 0 THEN EXT2_ROOT_INO ELSE Step(R[k - 1], path[k])
    <3>1. CASE k = 0
      BY <1>1, <1>3, <3>1 DEF StepsAlong
    <3>2. CASE k # 0
      <4>1. k \in 1 .. n /\ k - 1 \in 0 .. n
        BY <1>1, <3>2
      <4> QED BY <1>3, <3>2, <4>1 DEF StepsAlong
    <3> QED BY <3>1, <3>2
  <2>2. R = [k \in 0 .. n |-> IF k = 0 THEN EXT2_ROOT_INO ELSE Step(R[k - 1], path[k])]
    <3>1. R = [k \in 0 .. n |-> R[k]]
      OBVIOUS
    <3> HIDE DEF R
    <3> QED BY <2>1, <3>1
  <2> HIDE DEF R
  <2> QED BY <2>2 DEF ThroughIs, Step
<1> HIDE DEF R
<1>5. ThroughIs(path, Through(path))
  BY <1>2, <1>4
<1> DEFINE H == Through(path)
<1>6. H = [k \in 0 .. n |-> IF k = 0 THEN EXT2_ROOT_INO ELSE Step(H[k - 1], path[k])]
  BY <1>5 DEF ThroughIs, Step
<1> HIDE DEF H
<1>7. H[0] = EXT2_ROOT_INO
  <2>1. 0 \in 0 .. n
    BY <1>1
  <2> QED BY <1>6, <2>1
<1>8. ASSUME NEW k \in 1 .. n PROVE H[k] = Step(H[k - 1], path[k])
  <2>1. k \in 0 .. n /\ k # 0
    BY <1>1
  <2> QED BY <1>6, <2>1
<1> QED BY <1>7, <1>8 DEF StepsAlong, H

(* A path that has left the tree does not come back.                        *)
LEMMA NothingBeyond ==
    ASSUME NEW path \in Seq(Names), NEW k \in 1 .. Len(path), Through(path)[k] = 0
    PROVE  Resolve(path) = 0
<1> DEFINE n == Len(path)
           R == Through(path)
           T == {m \in Nat : k + m <= n => R[k + m] = 0}
<1>1. n \in Nat /\ k \in Nat /\ k <= n /\ StepsAlong(path, R, n)
  BY ThroughSteps
<1>2. 0 \in T
  BY <1>1
<1>3. \A name : Step(0, name) = 0
  BY DEF Step, Named, Entries
<1>4. ASSUME NEW m \in Nat, m \in T, k + (m + 1) <= n PROVE R[k + (m + 1)] = 0
  <2>1. R[k + m] = 0
    BY <1>1, <1>4
  <2>2. k + (m + 1) \in 1 .. n /\ k + (m + 1) - 1 = k + m
    BY <1>1, <1>4
  <2> HIDE DEF R, n
  <2>3. R[k + (m + 1)] = Step(R[k + m], path[k + (m + 1)])
    BY <1>1, <2>2 DEF StepsAlong
  <2> QED BY <1>3, <2>1, <2>3
<1>5. \A m \in Nat : m \in T => m + 1 \in T
  BY <1>4
<1>6. n - k \in T
  <2>1. n - k \in Nat
    BY <1>1
  <2> HIDE DEF T
  <2> QED BY <1>2, <1>5, <2>1, SetInduction
<1>7. R[n] = 0
  BY <1>1, <1>6
<1> QED BY <1>7 DEF Resolve

----
(* Answers.                                                                *)

NamesIn(n) == {e.de_name : e \in Entries(n)}

(* A listing has the names of its directory, each once; all of them, unless *)
(* an entry names no inode.                                                 *)
LEMMA ListingRight ==
    ASSUME NEW n \in DOMAIN Tree, Kind[n] = "directory",
           NEW data, data = ext2_readdir(n, Tree[n]).data
    PROVE  /\ ext2_readdir(n, Tree[n]) = Success(data)
           /\ \E length \in Nat : DOMAIN data = 1 .. length /\ data \in Seq(Range(data))
           /\ IsInjective(data) /\ Range(data) \subseteq NamesIn(n)
           /\ HasVacated(n) \/ Range(data) = NamesIn(n)
<1> DEFINE called == follow_directory_entries(Tree[n], {})
           entries == Directories[Tree[n].i_block]
<1>1. n # 0 /\ IsDirectory(Tree[n].i_mode)
  BY TreeAssumption
<1>2. DOMAIN entries \subseteq Nat /\ Listed(entries, {}, called, 0)
  BY DirectoryListed
<1>3. ext2_readdir(n, Tree[n]) = Success([k \in DOMAIN called |-> called[k].de_name])
  BY <1>1 DEF ext2_readdir, Listing
<1>4. data = [k \in DOMAIN called |-> called[k].de_name]
  BY <1>3 DEF Success
<1>5. \A e : e \in Entries(n) <=>
          (\E p \in DOMAIN entries : e = entries[p]) /\ e.de_inode_no # 0
  BY <1>1 DEF Entries, Range
<1>6. HasVacated(n) <=> \E p \in DOMAIN entries : entries[p].de_inode_no = 0
  BY <1>1 DEF HasVacated, Range
<1> HIDE DEF called, entries
<1>7. Len(called) \in Nat /\ DOMAIN called = 1 .. Len(called)
  BY <1>2 DEF Listed
<1>8. DOMAIN data = 1 .. Len(called) /\ \A k \in 1 .. Len(called) : data[k] = called[k].de_name
  BY <1>4, <1>7
<1>9. data \in Seq(Range(data))
  <2>1. \A k \in 1 .. Len(called) : data[k] \in Range(data)
    BY <1>8 DEF Range
  <2> HIDE DEF Range
  <2>2. data = [k \in 1 .. Len(called) |-> data[k]]
    BY <1>4, <1>7, <1>8
  <2> QED BY <1>7, <1>8, <2>1, <2>2
<1>10. IsInjective(data)
  BY <1>2, <1>8 DEF Listed, ListedOnce, IsInjective
<1>11. Range(data) \subseteq NamesIn(n)
  <2> SUFFICES ASSUME NEW k \in 1 .. Len(called) PROVE called[k].de_name \in NamesIn(n)
    BY <1>8 DEF Range
  <2>1. called[k] \in Entries(n)
    BY <1>2, <1>5 DEF Listed, ListedOnce
  <2> QED BY <2>1 DEF NamesIn
<1>12. HasVacated(n) \/ NamesIn(n) \subseteq Range(data)
  <2> SUFFICES ASSUME ~HasVacated(n), NEW e \in Entries(n) PROVE e.de_name \in Range(data)
    BY DEF NamesIn
  <2>1. PICK p \in DOMAIN entries : e = entries[p]
    BY <1>5
  <2>2. \E k \in 1 .. Len(called) : called[k] = entries[p]
    BY <1>2, <1>6, <2>1 DEF Listed, AllListed
  <2> QED BY <1>8, <2>1, <2>2 DEF Range
<1> QED BY <1>3, <1>4, <1>7, <1>8, <1>9, <1>10, <1>11, <1>12

(* A listing that is cut short has no other names, and none twice.          *)
LEMMA CutListing ==
    ASSUME NEW S, NEW data \in Seq(S), NEW k \in 0 .. Len(data) - 1
    PROVE  /\ Range(SubSeq(data, 1, k)) \subseteq Range(data)
           /\ IsInjective(data) => IsInjective(SubSeq(data, 1, k))
<1>1. DOMAIN SubSeq(data, 1, k) = 1 .. k /\ DOMAIN data = 1 .. Len(data) /\ Len(data) \in Nat
  OBVIOUS
<1>2. \A j \in 1 .. k : SubSeq(data, 1, k)[j] = data[j] /\ j \in 1 .. Len(data)
  BY <1>1
<1>3. Range(SubSeq(data, 1, k)) \subseteq Range(data)
  BY <1>1, <1>2 DEF Range
<1>4. IsInjective(data) => IsInjective(SubSeq(data, 1, k))
  BY <1>1, <1>2 DEF IsInjective
<1> QED BY <1>3, <1>4

(* Why a file that exists may not be found. *)
Cut(path, missed) == "content" \in missed \/ MeetsVacated(path)

(* What AnswerRight says of one answer. *)
Answers(op, path, missed, a) ==
    IF op = "open for writing" THEN a = Error(EACCES)
    ELSE \/ /\ Resolve(path) # 0
            /\ Promised(op, Resolve(path), a) \/ FallsShort(op, Resolve(path), missed, a)
         \/ a = NotFound(op) /\ (Resolve(path) = 0 \/ Cut(path, missed))

(* What find_file_from_path has found at the end.                           *)
Ends(path, n, missed) ==
    \/ n # 0 /\ n = Resolve(path)
    \/ n = 0 /\ (Resolve(path) = 0 \/ Cut(path, missed))

(* The handlers answer right about what was found.                          *)
LEMMA NothingFound ==
    ASSUME NEW r \in Requests, r.op # "open for writing", NEW i, NEW missed,
           Ends(r.path, 0, missed)
    PROVE  /\ Answers(r.op, r.path, missed, Reply(r.op, 0, i))
           /\ \A fault : Misread(r.op, 0, i, fault) = {}
<1> DEFINE op == r.op
           a == Reply(op, 0, i)
<1>1. op \in {"getattr", "readdir", "open", "read", "readlink"}
  BY OpsAssumption
<1> HIDE DEF op
<1>2. a = NotFound(op)
  BY <1>1 DEF NotFound, Reply, ext2_getattr, ext2_readdir, ext2_open, ext2_read, ext2_readlink
<1>3. a.code # 0
  <2> HIDE DEF a
  <2> QED BY <1>2, ErrorIsNoSuccess DEF NotFound
<1> HIDE DEF a
<1>4. Answers(op, r.path, missed, a)
  BY <1>1, <1>2 DEF Answers, Ends
<1>5. \A fault : Misread(op, 0, i, fault) = {}
  BY <1>3 DEF Misread, a
<1> QED BY <1>4, <1>5 DEF a, op

LEMMA FoundPromised ==
    ASSUME NEW r \in Requests, r.op # "open for writing", r.op # "readdir",
           NEW n \in DOMAIN Tree
    PROVE  Promised(r.op, n, Reply(r.op, n, Tree[n]))
<1> DEFINE op == r.op
<1>1. op \in {"getattr", "open", "read", "readlink"}
  BY OpsAssumption
<1>2. /\ n # 0
      /\ IsDirectory(Tree[n].i_mode) <=> Kind[n] = "directory"
      /\ IsSymlink(Tree[n].i_mode) <=> Kind[n] = "link"
  BY TreeAssumption
<1> SUFFICES Promised(op, n, Reply(op, n, Tree[n]))
  OBVIOUS
<1> HIDE DEF op
<1>3. CASE op = "getattr"
  <2>1. Reply(op, n, Tree[n]) = Success(<<n, Tree[n].i_mode, Tree[n].i_size>>)
    BY <1>2, <1>3 DEF Reply, ext2_getattr
  <2> QED BY <1>3, <2>1 DEF Promised
<1>4. CASE op = "open"
  <2>1. Reply(op, n, Tree[n]) = IF Kind[n] = "directory" THEN Error(EISDIR) ELSE Success(<<n>>)
    BY <1>2, <1>4 DEF Reply, ext2_open
  <2> QED BY <1>4, <2>1 DEF Promised
<1>5. CASE op = "read"
  <2>1. Reply(op, n, Tree[n]) = IF Kind[n] = "directory" THEN Error(EISDIR)
                                ELSE Success(<<Tree[n].i_block, Tree[n].i_size>>)
    BY <1>2, <1>5 DEF Reply, ext2_read
  <2> QED BY <1>5, <2>1 DEF Promised
<1>6. CASE op = "readlink"
  <2>1. Reply(op, n, Tree[n]) = IF Kind[n] = "link" THEN Success(<<Tree[n].i_block>>)
                                ELSE Error(EINVAL)
    BY <1>2, <1>6 DEF Reply, ext2_readlink
  <2> QED BY <1>6, <2>1 DEF Promised
<1> QED BY <1>1, <1>3, <1>4, <1>5, <1>6 DEF op

(* A handler that cannot read its file falls short only in the ways that    *)
(* are known.                                                               *)
LEMMA MisreadShort ==
    ASSUME NEW r \in Requests, r.op # "open for writing", r.op # "readdir",
           NEW n \in DOMAIN Tree, NEW missed, NEW fault,
           fault = "content" => "data" \in missed,
           fault = "table" => "map" \in missed,
           NEW a \in Misread(r.op, n, Tree[n], fault)
    PROVE  FallsShort(r.op, n, missed, a)
<1> DEFINE op == r.op
           i == Tree[n]
<1>1. Fits(op, n)
  <2>1. a \in Misread(op, n, i, fault)
    OBVIOUS
  <2>2. Reply(op, n, i).code = 0
    <3> HIDE DEF op, i
    <3> QED BY <2>1, MisreadFitsKind
  <2> QED BY <2>2, ReplyFitsKind
<1> HIDE DEF op
<1>2. op = "read" \/ op = "readlink"
  BY DEF Misread, op
<1>3. \/ fault = "content" /\ a = Error(EIO)
      \/ fault = "table" /\ a = Success(<<>>)
  BY <1>2 DEF Misread, op
<1>4. \/ op = "read" /\ Kind[n] # "directory"
      \/ op = "readlink" /\ Kind[n] = "link"
  BY <1>1, <1>2 DEF Fits, Allowed
<1> QED BY <1>3, <1>4 DEF FallsShort, op

LEMMA FoundAnswered ==
    ASSUME NEW r \in Requests, r.op # "open for writing",
           NEW n \in DOMAIN Tree, n = Resolve(r.path), NEW missed
    PROVE  /\ Answers(r.op, r.path, missed, Reply(r.op, n, Tree[n]))
           /\ \A fault : \A a \in Misread(r.op, n, Tree[n], fault) :
                 /\ fault = "content" => "data" \in missed
                 /\ fault = "table" => "map" \in missed
                 => Answers(r.op, r.path, missed, a)
<1> DEFINE op == r.op
           path == r.path
<1>1. n # 0
  BY TreeAssumption
<1>2. CASE op # "readdir"
  <2>1. Answers(op, path, missed, Reply(op, n, Tree[n]))
    BY <1>1, <1>2, FoundPromised DEF Answers
  <2>2. ASSUME NEW fault, NEW a \in Misread(op, n, Tree[n], fault),
               fault = "content" => "data" \in missed,
               fault = "table" => "map" \in missed
        PROVE  Answers(op, path, missed, a)
    <3>1. FallsShort(op, n, missed, a)
      BY <1>2, <2>2, MisreadShort
    <3> QED BY <1>1, <3>1 DEF Answers
  <2> QED BY <2>1, <2>2
<1>3. CASE op = "readdir" /\ Kind[n] # "directory"
  <2>1. Reply(op, n, Tree[n]) = Error(ENOENT)
    BY <1>3, TreeAssumption DEF Reply, ext2_readdir
  <2>2. Promised(op, n, Error(ENOENT))
    BY <1>3 DEF Promised
  <2>3. \A fault : Misread(op, n, Tree[n], fault) = {}
    BY <2>1, ErrorIsNoSuccess DEF Misread
  <2> QED BY <1>1, <1>3, <2>1, <2>2, <2>3 DEF Answers
<1>4. CASE op = "readdir" /\ Kind[n] = "directory"
  <2> DEFINE sound == ext2_readdir(n, Tree[n])
             data == sound.data
  <2>1. Reply(op, n, Tree[n]) = sound
    BY <1>4 DEF Reply
  <2>2. /\ sound = Success(data) /\ data \in Seq(Range(data))
        /\ IsInjective(data) /\ Range(data) \subseteq NamesIn(n)
        /\ HasVacated(n) \/ Range(data) = NamesIn(n)
    BY <1>4, ListingRight
  <2> HIDE DEF sound
  <2>3. \A d : Success(d).code = 0 /\ Success(d).data = d
    BY DEF Success
  <2>4. sound.code = 0
    BY <2>2, <2>3
  <2>5. Answers(op, path, missed, sound)
    <3>1. CASE Range(data) = NamesIn(n)
      <4>1. Promised(op, n, sound)
        BY <1>4, <2>2, <2>4, <3>1 DEF Promised, NamesIn
      <4> QED BY <1>1, <1>4, <4>1 DEF Answers
    <3>2. CASE HasVacated(n)
      <4>1. FallsShort(op, n, missed, sound)
        BY <1>4, <2>2, <2>4, <3>2 DEF FallsShort, NamesIn
      <4> QED BY <1>1, <1>4, <4>1 DEF Answers
    <3> QED BY <2>2, <3>1, <3>2
  <2>6. ASSUME NEW fault, NEW a \in Misread(op, n, Tree[n], fault),
               fault = "content" => "data" \in missed,
               fault = "table" => "map" \in missed
        PROVE  Answers(op, path, missed, a)
    <3>1. a.code = 0 /\ fault \in {"content", "table"}
      <4>1. a.code = 0
        BY <1>4, <2>6, MisreadFitsKind
      <4>2. fault \in {"content", "table"}
        BY <2>6 DEF Misread
      <4> QED BY <4>1, <4>2
    <3>2. CASE fault = "table"
      <4>1. FallsShort(op, n, missed, a)
        BY <1>4, <2>6, <3>1, <3>2 DEF FallsShort
      <4> QED BY <1>1, <1>4, <4>1 DEF Answers
    <3>3. CASE fault = "content"
      <4>1. PICK k \in 0 .. Len(data) - 1 : a = Success(SubSeq(data, 1, k))
        BY <1>4, <2>1, <2>4, <2>6, <3>3 DEF Misread
      <4>2. a.data = SubSeq(data, 1, k)
        BY <2>3, <4>1
      <4>3. Range(a.data) \subseteq Range(data) /\ IsInjective(a.data)
        <5> DEFINE S == Range(data)
                   d == data
        <5>1. d \in Seq(S) /\ k \in 0 .. Len(d) - 1 /\ IsInjective(d)
          BY <2>2, <4>1
        <5> HIDE DEF S, d
        <5>2. Range(SubSeq(d, 1, k)) \subseteq Range(d) /\ IsInjective(SubSeq(d, 1, k))
          BY <5>1, CutListing
        <5> QED BY <4>2, <5>2 DEF d
      <4>4. FallsShort(op, n, missed, a)
        BY <1>4, <2>2, <2>6, <3>1, <3>3, <4>3 DEF FallsShort, NamesIn
      <4> QED BY <1>1, <1>4, <4>4 DEF Answers
    <3> QED BY <3>1, <3>2, <3>3
  <2> QED BY <2>1, <2>5, <2>6
<1> QED BY <1>2, <1>3, <1>4

----
(* Walks nobody disturbs.                                                  *)

(* The names behind the first k of a path. *)
Remains(path, rest, k) ==
    /\ Len(rest) = Len(path) - k
    /\ \A j \in 1 .. Len(rest) : rest[j] = path[k + j]

(* Where find_file_from_path is on its path, by the label of its thread.    *)
OnPath(label, path, copy, name, rest, n, missed) ==
    /\ label = "copied" => copy = path /\ n = EXT2_ROOT_INO
    /\ label = "walk" => \E k \in 1 .. Len(path) :
          /\ name = path[k] /\ Remains(path, rest, k)
          /\ n = Through(path)[k - 1] /\ n # 0
    /\ label = "next" => \E k \in 1 .. Len(path) :
          Remains(path, rest, k) /\ n = Through(path)[k] /\ n # 0
    /\ label = "found" => Ends(path, n, missed)

WalksRight ==
    \A t \in Threads : Proper(t) =>
        OnPath(pc[t], request[t].path, path_editable[t], token[t].name, olds.rest,
               inode_no[t], misread[t])

AnswersRight ==
    \A t \in Threads : pc[t] = "answered" /\ Proper(t) =>
        Answers(request[t].op, request[t].path, misread[t], answer[t])

RightInv == WalksRight /\ AnswersRight

LEMMA RemainsNext ==
    ASSUME NEW path \in Seq(Names), NEW rest \in Seq(Names),
           NEW k \in 0 .. Len(path), Remains(path, rest, k)
    PROVE  /\ rest = <<>> => k = Len(path)
           /\ rest # <<>> => /\ k + 1 \in 1 .. Len(path) /\ Head(rest) = path[k + 1]
                             /\ Remains(path, Tail(rest), k + 1)
<1>1. Len(path) \in Nat /\ Len(rest) \in Nat /\ k \in Nat /\ k <= Len(path)
  OBVIOUS
<1>2. /\ Len(rest) = Len(path) - k
      /\ \A j \in 1 .. Len(rest) : rest[j] = path[k + j]
  BY DEF Remains
<1>3. CASE rest = <<>>
  BY <1>1, <1>2, <1>3
<1>4. CASE rest # <<>>
  <2>1. /\ Len(rest) >= 1 /\ Head(rest) = rest[1] /\ Len(Tail(rest)) = Len(rest) - 1
        /\ \A j \in 1 .. Len(rest) - 1 : Tail(rest)[j] = rest[j + 1]
    BY <1>4
  <2>2. k + 1 \in 1 .. Len(path) /\ Head(rest) = path[k + 1]
    BY <1>1, <1>2, <2>1
  <2>3. Len(Tail(rest)) = Len(path) - (k + 1)
    BY <1>1, <1>2, <2>1
  <2>4. ASSUME NEW j \in 1 .. Len(Tail(rest)) PROVE Tail(rest)[j] = path[k + 1 + j]
    <3>1. j \in 1 .. Len(rest) - 1 /\ j + 1 \in 1 .. Len(rest) /\ k + (j + 1) = k + 1 + j
      BY <1>1, <2>1
    <3> QED BY <1>2, <2>1, <3>1
  <2> QED BY <1>4, <2>2, <2>3, <2>4 DEF Remains
<1> QED BY <1>3, <1>4

LEMMA RemainsAll ==
    ASSUME NEW path \in Seq(Names)
    PROVE  Remains(path, path, 0) /\ 0 \in 0 .. Len(path)
<1>1. Len(path) \in Nat
  OBVIOUS
<1> QED BY <1>1 DEF Remains

(* A step of another thread leaves a walk and an answer right, if it        *)
(* disturbs the walk or leaves strtok's rest alone.                         *)
LEMMA OthersRight ==
    ASSUME RightInv, NEW u \in Threads,
           pc'[u] = pc[u], request'[u] = request[u], answer'[u] = answer[u],
           path_editable'[u] = path_editable[u], inode_no'[u] = inode_no[u],
           misread'[u] = misread[u], Proper(u)' => Proper(u),
           Proper(u)' /\ pc[u] = "walk" => token'[u] = token[u],
           Proper(u)' /\ InWalk(u) => olds'.rest = olds.rest
    PROVE  /\ Proper(u)' => OnPath(pc[u], request[u].path, path_editable[u], token[u].name,
                                   olds.rest, inode_no[u], misread[u])'
           /\ pc'[u] = "answered" /\ Proper(u)' =>
                 Answers(request[u].op, request[u].path, misread[u], answer[u])'
<1> SUFFICES ASSUME Proper(u)'
             PROVE  /\ OnPath(pc'[u], request'[u].path, path_editable'[u], token'[u].name,
                              olds'.rest, inode_no'[u], misread'[u])
                    /\ pc'[u] = "answered" =>
                          Answers(request'[u].op, request'[u].path, misread'[u], answer'[u])
  OBVIOUS
<1>1. OnPath(pc[u], request[u].path, path_editable[u], token[u].name, olds.rest,
             inode_no[u], misread[u])
  BY DEF RightInv, WalksRight
<1>2. OnPath(pc'[u], request'[u].path, path_editable'[u], token'[u].name, olds'.rest,
             inode_no'[u], misread'[u])
  BY <1>1 DEF OnPath, InWalk
<1>3. pc[u] = "answered" => Answers(request[u].op, request[u].path, misread[u], answer[u])
  BY DEF RightInv, AnswersRight
<1> QED BY <1>2, <1>3

(* A request starts at the root, with the path it came with.                *)
LEMMA StartRight ==
    ASSUME IInv, RightInv, NEW t \in Threads, NEW r \in Requests,
           NEW fault \in {"none"} \cup Faults, HStart(t, r, fault)
    PROVE  RightInv'
<1>a. /\ Start(t, r, fault) /\ disturbed' = disturbed
      /\ misread' = [misread EXCEPT ![t] =
            {f \in {fault} : f # "none"}
              \cup {f \in {"path"} : path_editable'[t] \notin {<<>>, r.path}}]
  BY DEF HStart
<1>b. TypeOK /\ misread \in [Threads -> SUBSET Marks]
  BY DEF IInv, KindInv, MisreadOK
<1>1. ASSUME NEW u \in Threads, u # t
      PROVE  /\ Proper(u)' => OnPath(pc[u], request[u].path, path_editable[u], token[u].name,
                                     olds.rest, inode_no[u], misread[u])'
             /\ pc'[u] = "answered" /\ Proper(u)' =>
                   Answers(request[u].op, request[u].path, misread[u], answer[u])'
  <2>1. /\ pc'[u] = pc[u] /\ request'[u] = request[u] /\ answer'[u] = answer[u]
        /\ path_editable'[u] = path_editable[u] /\ inode_no'[u] = inode_no[u]
        /\ misread'[u] = misread[u] /\ token' = token /\ olds' = olds
    BY <1>a, <1>b, <1>1 DEF Start, Goto, TypeOK
  <2>2. Proper(u)' => Proper(u)
    BY <1>a, <2>1 DEF Proper
  <2> QED BY <2>1, <2>2, OthersRight
<1>2. CASE r.op = "open for writing"
  <2>1. pc'[t] = "answered" /\ request'[t] = r /\ answer'[t] = Error(EACCES)
    BY <1>a, <1>b, <1>2 DEF Start, Goto, TypeOK
  <2>2. Answers(r.op, r.path, misread'[t], Error(EACCES))
    BY <1>2 DEF Answers
  <2>3. Proper(t)' => OnPath(pc[t], request[t].path, path_editable[t], token[t].name,
                             olds.rest, inode_no[t], misread[t])'
    BY <2>1 DEF OnPath
  <2> QED BY <1>1, <2>1, <2>2, <2>3 DEF RightInv, WalksRight, AnswersRight
<1>3. CASE r.op # "open for writing"
  <2>1. /\ pc'[t] = "copied" /\ request'[t] = r
        /\ path_editable'[t] \in Copies(r.path) /\ inode_no'[t] = EXT2_ROOT_INO
    BY <1>a, <1>b, <1>3 DEF Start, Goto, TypeOK
  <2>2. ASSUME Proper(t)' PROVE path_editable'[t] = r.path
    <3>1. "path" \notin misread'[t]
      BY <2>2 DEF Proper
    <3>2. path_editable'[t] \in {<<>>, r.path}
      BY <1>a, <1>b, <3>1
    <3>3. path_editable'[t] = <<>> => r.path = <<>>
      <4>1. ASSUME NEW s \in Stale, NEW p \in Seq(Names) PROVE p \o <<s>> # <<>>
        <5>1. Len(p \o <<s>>) = Len(p) + 1 /\ Len(p) \in Nat
          BY NamesAssumption
        <5> QED BY <5>1
      <4>2. Front(IF r.path = <<>> THEN <<NULL>> ELSE r.path) \in Seq(Names)
        <5>1. Front(<<NULL>>) = <<>> /\ <<>> \in Seq(Names)
          BY DEF Front
        <5>2. ASSUME NEW p \in Seq(Names), p # <<>> PROVE Front(p) \in Seq(Names)
          <6>1. Len(p) \in Nat /\ Len(p) >= 1
            BY <5>2
          <6> QED BY <6>1 DEF Front
        <5>3. r.path \in Seq(Names)
          BY OpsAssumption
        <5> QED BY <5>1, <5>2, <5>3
      <4> QED BY <2>1, <4>1, <4>2 DEF Copies
    <3> QED BY <3>2, <3>3
  <2>3. Proper(t)' => OnPath(pc[t], request[t].path, path_editable[t], token[t].name,
                             olds.rest, inode_no[t], misread[t])'
    BY <2>1, <2>2 DEF OnPath
  <2> QED BY <1>1, <2>1, <2>3 DEF RightInv, WalksRight, AnswersRight
<1> QED BY <1>2, <1>3

(* strtok gives the walk it belongs to the next name of its path.           *)
LEMMA TokenRight ==
    ASSUME IInv, RightInv, NEW t \in Threads, HToken(t)
    PROVE  RightInv'
<1> DEFINE path == request[t].path
           n == inode_no[t]
<1>a. /\ disturbed' = [u \in Threads |-> disturbed[u] \/ (u # t /\ InWalk(u))]
      /\ UNCHANGED <<misread, request, path_editable, inode_no, inode, answer>>
      /\ pc[t] \in {"copied", "next"}
  BY DEF HToken, FirstToken, NextToken
<1>b. TypeOK /\ DisturbedOK /\ OwnCopy
  BY DEF IInv, WalkInv
<1>1. \A u \in Threads : Proper(u)' => Proper(u) /\ (u # t => ~InWalk(u))
  BY <1>a, <1>b DEF Proper, DisturbedOK
<1>2. \A u \in Threads \ {t} : pc'[u] = pc[u] /\ token'[u] = token[u]
  BY <1>b DEF HToken, FirstToken, NextToken, strtok, Goto, TypeOK
<1>3. ASSUME NEW u \in Threads, u # t
      PROVE  /\ Proper(u)' => OnPath(pc[u], request[u].path, path_editable[u], token[u].name,
                                     olds.rest, inode_no[u], misread[u])'
             /\ pc'[u] = "answered" /\ Proper(u)' =>
                   Answers(request[u].op, request[u].path, misread[u], answer[u])'
  BY <1>a, <1>1, <1>2, <1>3, OthersRight
<1>4. ASSUME Proper(t)'
      PROVE  /\ pc'[t] \in {"walk", "found"}
             /\ OnPath(pc'[t], path, path_editable'[t], token'[t].name, olds'.rest, n, misread'[t])
  <2>1. Proper(t) /\ ~disturbed[t]
    BY <1>1, <1>4 DEF Proper
  <2>2. path \in Seq(Names)
    BY <1>a, OpsAssumption DEF IInv, KindInv, WalkHasRequest, Walking
  <2>3. OnPath(pc[t], path, path_editable[t], token[t].name, olds.rest, n, misread[t])
    BY <2>1 DEF RightInv, WalksRight
  <2> HIDE DEF path, n
  <2>4. PICK rest \in Seq(Names), k \in 0 .. Len(path) :
            /\ Remains(path, rest, k) /\ n = Through(path)[k] /\ n # 0
            /\ strtok(t, t, rest)
    <3>1. CASE pc[t] = "copied"
      <4>1. path_editable[t] = path /\ n = EXT2_ROOT_INO
        BY <2>3, <3>1 DEF OnPath
      <4>2. strtok(t, t, path)
        BY <3>1, <4>1 DEF HToken, FirstToken, NextToken
      <4>3. Through(path)[0] = EXT2_ROOT_INO /\ EXT2_ROOT_INO # 0
        BY <2>2, ThroughSteps DEF StepsAlong, EXT2_ROOT_INO
      <4> QED BY <2>2, <4>1, <4>2, <4>3, RemainsAll
    <3>2. CASE pc[t] = "next"
      <4>1. olds.buffer = t /\ olds.rest \in Seq(Names)
        BY <1>b, <2>1, <3>2 DEF OwnCopy, TypeOK
      <4>2. olds.buffer # NULL
        BY <4>1, NamesAssumption
      <4>3. strtok(t, t, olds.rest)
        BY <3>2, <4>1, <4>2 DEF HToken, FirstToken, NextToken
      <4>4. PICK k \in 1 .. Len(path) :
                Remains(path, olds.rest, k) /\ n = Through(path)[k] /\ n # 0
        BY <2>3, <3>2 DEF OnPath
      <4>5. k \in 0 .. Len(path)
        OBVIOUS
      <4> QED BY <4>1, <4>3, <4>4, <4>5
    <3> QED BY <1>a, <3>1, <3>2
  <2>5. /\ token'[t] = IF rest = <<>> THEN NoToken ELSE [name |-> Head(rest), buffer |-> t]
        /\ olds'.rest = IF rest = <<>> THEN <<>> ELSE Tail(rest)
        /\ pc'[t] = IF rest = <<>> THEN "found" ELSE "walk"
    BY <1>b, <2>4 DEF strtok, Goto, TypeOK
  <2>6. CASE rest = <<>>
    <3>1. k = Len(path)
      BY <2>2, <2>4, <2>6, RemainsNext
    <3>2. Ends(path, n, misread'[t])
      BY <2>4, <3>1 DEF Ends, Resolve
    <3> QED BY <2>5, <2>6, <3>2 DEF OnPath
  <2>7. CASE rest # <<>>
    <3>1. /\ k + 1 \in 1 .. Len(path) /\ Head(rest) = path[k + 1]
          /\ Remains(path, Tail(rest), k + 1)
      BY <2>2, <2>4, <2>7, RemainsNext
    <3>2. n = Through(path)[k + 1 - 1]
      BY <2>4
    <3> DEFINE j == k + 1
    <3>3. /\ j \in 1 .. Len(path) /\ token'[t].name = path[j] /\ Remains(path, olds'.rest, j)
          /\ n = Through(path)[j - 1] /\ n # 0
      BY <2>4, <2>5, <2>7, <3>1, <3>2
    <3> HIDE DEF j
    <3> QED BY <2>5, <2>7, <3>3 DEF OnPath
  <2> QED BY <2>6, <2>7
<1>5. Proper(t)' => OnPath(pc[t], request[t].path, path_editable[t], token[t].name,
                           olds.rest, inode_no[t], misread[t])'
  BY <1>a, <1>4
<1>6. pc'[t] = "answered" /\ Proper(t)' =>
          Answers(request[t].op, request[t].path, misread[t], answer[t])'
  BY <1>4
<1> QED BY <1>3, <1>5, <1>6 DEF RightInv, WalksRight, AnswersRight

(* A lookup takes the step, or finds nothing there for a good reason.       *)
LEMMA LookUpRight ==
    ASSUME IInv, RightInv, NEW t \in Threads, NEW fault \in {"none"} \cup Faults,
           LookUp(t, fault), UNCHANGED disturbed,
           misread' = [misread EXCEPT ![t] = @ \cup {f \in {fault} : f # "none"}]
    PROVE  RightInv'
<1> DEFINE path == request[t].path
           old == inode_no[t]
           name == token[t].name
<1>a. /\ pc[t] = "walk"
      /\ UNCHANGED <<request, path_editable, token, answer, olds, disturbed>>
  BY DEF LookUp
<1>b. TypeOK /\ OwnCopy /\ InodeMatches /\ MisreadOK
  BY DEF IInv, WalkInv, KindInv
<1>c. /\ fault # "none" => fault \in misread'[t]
      /\ misread[t] \subseteq misread'[t]
      /\ \A u \in Threads \ {t} : misread'[u] = misread[u]
  BY <1>b, MisreadGrows
<1>1. \A u \in Threads : Proper(u)' => Proper(u)
  BY <1>a, <1>c DEF Proper
<1>2. \A u \in Threads \ {t} : pc'[u] = pc[u] /\ inode_no'[u] = inode_no[u]
  BY <1>b DEF LookUp, Goto, TypeOK
<1>3. ASSUME NEW u \in Threads, u # t
      PROVE  /\ Proper(u)' => OnPath(pc[u], request[u].path, path_editable[u], token[u].name,
                                     olds.rest, inode_no[u], misread[u])'
             /\ pc'[u] = "answered" /\ Proper(u)' =>
                   Answers(request[u].op, request[u].path, misread[u], answer[u])'
  BY <1>a, <1>c, <1>1, <1>2, <1>3, OthersRight
<1>4. ASSUME Proper(t)'
      PROVE  /\ pc'[t] \in {"next", "found"}
             /\ OnPath(pc'[t], path, path_editable'[t], token'[t].name, olds'.rest,
                       inode_no'[t], misread'[t])
  <2>1. Proper(t) /\ ~disturbed[t] /\ "inode" \notin misread[t] /\ fault \in {"none", "content"}
    BY <1>c, <1>1, <1>4, FaultsAssumption DEF Proper
  <2>2. path \in Seq(Names)
    BY <1>a, OpsAssumption DEF IInv, KindInv, WalkHasRequest, Walking
  <2>3. PICK k \in 1 .. Len(path) :
            /\ name = path[k] /\ Remains(path, olds.rest, k)
            /\ old = Through(path)[k - 1] /\ old # 0
    BY <1>a, <2>1 DEF RightInv, WalksRight, OnPath
  <2>4. inode[t] = Tree[old] /\ old \in DOMAIN Tree
    BY <1>b, <2>1, <2>3 DEF InodeMatches, TypeOK
  <2>5. token[t].buffer # NULL
    BY <1>a, <1>b, <2>1, NamesAssumption DEF OwnCopy
  <2> DEFINE found == find_file_in_directory(inode[t], name)
  <2>6. PICK n : /\ n = IF fault = "content" THEN 0 ELSE found
                 /\ inode_no' = [inode_no EXCEPT ![t] = n]
                 /\ Goto(t, IF n = 0 THEN "found" ELSE "next")
    BY <2>1, <2>5 DEF LookUp, Misfinds
  <2>7. /\ found # 0 => found = Step(old, name)
        /\ found = 0 => Step(old, name) = 0 \/ HasVacated(old)
    BY <2>4, LookUpSteps
  <2> HIDE DEF found, path, old, name
  <2>8. inode_no'[t] = n /\ pc'[t] = IF n = 0 THEN "found" ELSE "next"
    BY <1>b, <2>6 DEF Goto, TypeOK
  <2>9. Through(path)[k] = Step(old, name)
    BY <2>2, <2>3, ThroughSteps DEF StepsAlong
  <2>10. CASE n # 0
    <3>1. n = Through(path)[k]
      BY <2>6, <2>7, <2>9, <2>10
    <3>2. Remains(path, olds'.rest, k)
      BY <1>a, <2>3
    <3> QED BY <2>8, <2>10, <3>1, <3>2 DEF OnPath
  <2>11. CASE n = 0
    <3>1. Ends(path, 0, misread'[t])
      <4>1. CASE fault = "content"
        BY <1>c, <4>1 DEF Ends, Cut
      <4>2. CASE fault # "content" /\ Step(old, name) = 0
        <5>1. Resolve(path) = 0
          BY <2>2, <2>9, <4>2, NothingBeyond
        <5> QED BY <5>1 DEF Ends
      <4>3. CASE fault # "content" /\ HasVacated(old)
        <5>1. Len(path) \in Nat
          BY <2>2
        <5>2. k - 1 \in 0 .. Len(path) - 1
          BY <5>1
        <5>3. MeetsVacated(path)
          BY <2>3, <4>3, <5>2 DEF MeetsVacated
        <5> QED BY <5>3 DEF Ends, Cut
      <4> QED BY <2>6, <2>7, <2>11, <4>1, <4>2, <4>3
    <3> QED BY <2>8, <2>11, <3>1 DEF OnPath
  <2> QED BY <2>8, <2>10, <2>11
<1>5. Proper(t)' => OnPath(pc[t], request[t].path, path_editable[t], token[t].name,
                           olds.rest, inode_no[t], misread[t])'
  BY <1>a, <1>4
<1>6. pc'[t] = "answered" /\ Proper(t)' =>
          Answers(request[t].op, request[t].path, misread[t], answer[t])'
  BY <1>4
<1> QED BY <1>3, <1>5, <1>6 DEF RightInv, WalksRight, AnswersRight

(* What could not be read excuses an answer, also if more cannot be.        *)
LEMMA EndsStill ==
    ASSUME NEW path, NEW n, NEW missed, Ends(path, n, missed), NEW more, missed \subseteq more
    PROVE  Ends(path, n, more)
BY DEF Ends, Cut

(* The handler answers about the file that was found.                       *)
LEMMA FoundRight ==
    ASSUME IInv, RightInv, NEW t \in Threads, NEW fault \in {"none"} \cup Faults,
           Found(t, fault), UNCHANGED disturbed,
           misread' = [misread EXCEPT ![t] = @ \cup {f \in {"data"} : fault = "content"}
                                               \cup {f \in {"map"} : fault = "table"}]
    PROVE  RightInv'
<1> DEFINE n == inode_no[t]
           i == inode[t]
           r == request[t]
<1>a. /\ pc[t] = "found"
      /\ UNCHANGED <<request, inode_no, inode, disturbed>>
  BY DEF Found
<1>b. TypeOK /\ OwnCopy /\ InodeMatches /\ MisreadOK /\ WalkHasRequest
  BY DEF IInv, WalkInv, KindInv
<1>c. /\ fault = "content" => "data" \in misread'[t]
      /\ fault = "table" => "map" \in misread'[t]
      /\ misread[t] \subseteq misread'[t]
      /\ \A u \in Threads \ {t} : misread'[u] = misread[u]
  BY <1>b, MisreadAtEnd
<1>1. \A u \in Threads : Proper(u)' => Proper(u)
  BY <1>a, <1>c DEF Proper
<1>2. \A u \in Threads \ {t} :
          pc'[u] = pc[u] /\ answer'[u] = answer[u] /\ path_editable'[u] = path_editable[u]
  BY <1>b DEF Found, Goto, TypeOK
<1>3. ASSUME NEW u \in Threads, u # t
      PROVE  /\ Proper(u)' => OnPath(pc[u], request[u].path, path_editable[u], token[u].name,
                                     olds.rest, inode_no[u], misread[u])'
             /\ pc'[u] = "answered" /\ Proper(u)' =>
                   Answers(request[u].op, request[u].path, misread[u], answer[u])'
  <2>1. Proper(u)' /\ pc[u] = "walk" => token'[u] = token[u]
    BY <1>b, <1>1, <1>3, NamesAssumption DEF Found, OwnCopy, Proper
  <2>2. Proper(u)' /\ InWalk(u) => olds'.rest = olds.rest
    BY <1>b, <1>1, <1>3 DEF Found, OwnCopy, Proper, InWalk
  <2> QED BY <1>a, <1>c, <1>1, <1>2, <1>3, <2>1, <2>2, OthersRight
<1>4. /\ pc'[t] = "answered"
      /\ answer'[t] \in IF fault = "none" THEN {Reply(r.op, n, i)} ELSE Misread(r.op, n, i, fault)
  BY <1>b DEF Found, Goto, TypeOK
<1>5. ASSUME Proper(t)'
      PROVE  Answers(r.op, r.path, misread'[t], answer'[t])
  <2>1. Proper(t) /\ "inode" \notin misread[t]
    BY <1>1, <1>5 DEF Proper
  <2>2. r \in Requests /\ r.op # "open for writing"
    BY <1>a, <1>b DEF WalkHasRequest, Walking
  <2>3. n \in DOMAIN Tree \cup {0} /\ (n # 0 => i = Tree[n])
    BY <1>b, <2>1 DEF TypeOK, InodeMatches
  <2>4. Ends(r.path, n, misread[t])
    BY <1>a, <2>1 DEF RightInv, WalksRight, OnPath
  <2>5. Ends(r.path, n, misread'[t])
    BY <1>c, <2>4, EndsStill
  <2> DEFINE missed == misread'[t]
  <2>6. (fault = "content" => "data" \in missed) /\ (fault = "table" => "map" \in missed)
    BY <1>c
  <2> HIDE DEF n, i, r, missed
  <2>7. CASE n = 0
    <3>1. Answers(r.op, r.path, missed, Reply(r.op, 0, i)) /\ Misread(r.op, 0, i, fault) = {}
      BY <2>2, <2>5, <2>7, NothingFound DEF missed
    <3> QED BY <1>4, <2>7, <3>1 DEF missed
  <2>8. CASE n # 0
    <3>1. n \in DOMAIN Tree /\ n = Resolve(r.path) /\ i = Tree[n]
      BY <2>3, <2>5, <2>8 DEF Ends
    <3>2. /\ Answers(r.op, r.path, missed, Reply(r.op, n, Tree[n]))
          /\ \A a \in Misread(r.op, n, Tree[n], fault) : Answers(r.op, r.path, missed, a)
      BY <2>2, <2>6, <3>1, FoundAnswered
    <3> QED BY <1>4, <2>6, <3>1, <3>2 DEF missed
  <2> QED BY <2>7, <2>8
<1>6. pc'[t] = "answered" /\ Proper(t)' =>
          Answers(request[t].op, request[t].path, misread[t], answer[t])'
  BY <1>a, <1>5
<1>7. Proper(t)' => OnPath(pc[t], request[t].path, path_editable[t], token[t].name,
                           olds.rest, inode_no[t], misread[t])'
  BY <1>4 DEF OnPath
<1> QED BY <1>3, <1>6, <1>7 DEF RightInv, WalksRight, AnswersRight

(* The thread that has returned has nothing to be right about.              *)
LEMMA ReturnRight ==
    ASSUME IInv, RightInv, NEW t \in Threads, HReturn(t)
    PROVE  RightInv'
<1>1. TypeOK /\ DisturbedOK /\ MisreadOK
  BY DEF IInv, WalkInv, KindInv
<1>2. /\ \A u \in Threads \ {t} :
             /\ pc'[u] = pc[u] /\ request'[u] = request[u] /\ token'[u] = token[u]
             /\ inode_no'[u] = inode_no[u] /\ answer'[u] = answer[u]
             /\ disturbed'[u] = disturbed[u] /\ misread'[u] = misread[u]
      /\ path_editable' = path_editable /\ olds' = olds
      /\ pc'[t] = "idle"
  BY <1>1 DEF HReturn, Return, Goto, TypeOK, DisturbedOK, MisreadOK
<1>3. ASSUME NEW u \in Threads, u # t
      PROVE  /\ Proper(u)' => OnPath(pc[u], request[u].path, path_editable[u], token[u].name,
                                     olds.rest, inode_no[u], misread[u])'
             /\ pc'[u] = "answered" /\ Proper(u)' =>
                   Answers(request[u].op, request[u].path, misread[u], answer[u])'
  <2>1. Proper(u)' => Proper(u)
    BY <1>2, <1>3 DEF Proper
  <2> QED BY <1>2, <1>3, <2>1, OthersRight
<1>4. /\ Proper(t)' => OnPath(pc[t], request[t].path, path_editable[t], token[t].name,
                              olds.rest, inode_no[t], misread[t])'
      /\ pc'[t] # "answered"
  BY <1>2 DEF OnPath
<1> QED BY <1>2, <1>3, <1>4 DEF RightInv, WalksRight, AnswersRight

LEMMA NextRight ==
    ASSUME IInv, RightInv, [HNext]_hvars
    PROVE  RightInv'
<1>1. ASSUME NEW t \in Threads, NEW r \in Requests, NEW fault \in {"none"} \cup Faults,
             HStart(t, r, fault)
      PROVE  RightInv'
  BY <1>1, StartRight
<1>2. ASSUME NEW t \in Threads, HToken(t) PROVE RightInv'
  BY <1>2, TokenRight
<1>3. ASSUME NEW t \in Threads, NEW fault \in {"none"} \cup Faults, HLookUp(t, fault)
      PROVE  RightInv'
  BY <1>3, LookUpRight DEF HLookUp
<1>4. ASSUME NEW t \in Threads, NEW fault \in {"none"} \cup Faults, HFound(t, fault)
      PROVE  RightInv'
  BY <1>4, FoundRight DEF HFound
<1>5. ASSUME NEW t \in Threads, HReturn(t) PROVE RightInv'
  BY <1>5, ReturnRight
<1>6. CASE UNCHANGED hvars
  <2>1. /\ UNCHANGED <<pc, request, path_editable, token, inode_no, inode, answer, olds>>
        /\ UNCHANGED <<disturbed, misread>>
    BY <1>6 DEF hvars, vars
  <2> QED BY <2>1 DEF RightInv, WalksRight, AnswersRight, Proper
<1> QED BY <1>1, <1>2, <1>3, <1>4, <1>5, <1>6 DEF HNext

LEMMA FSRight == HSpec => [](IInv /\ RightInv)
<1>1. HInit => RightInv
  BY DEF HInit, Init, RightInv, WalksRight, AnswersRight, OnPath
<1>2. IInv /\ RightInv /\ [HNext]_hvars => RightInv'
  BY NextRight
<1> QED BY <1>1, <1>2, FSSafety, PTL DEF HSpec

(* However the threads interleave: a request whose walk no other has        *)
(* disturbed, and whose inodes and tables on the way could be read, is      *)
(* answered about the file its path names, and as its handler promises      *)
(* where the file can be read and names no removed entries; otherwise it    *)
(* falls short in the ways AnswerRight lists and no other.                  *)
THEOREM FSAnswerRight == HSpec => []AnswerRight
<1>1. RightInv => AnswerRight
  BY DEF RightInv, AnswersRight, AnswerRight, Answers, Cut
<1> QED BY <1>1, FSRight, PTL

----
(* When find_file_from_path does what its comment says.                     *)

(* On the way a read that may not fail has not, and a path misread is not   *)
(* the one the request came with.                                           *)
Excused ==
    \A t \in Threads : pc[t] \in Walking =>
        /\ misread[t] \subseteq Faults \cup {"path"}
        /\ "path" \in misread[t] => path_editable[t] # request[t].path

LEMMA ExcusedStays ==
    ASSUME TypeOK, MisreadOK, Excused, [HNext]_hvars PROVE Excused'
<1>1. ASSUME NEW t \in Threads, NEW r \in Requests, NEW fault \in {"none"} \cup Faults,
             HStart(t, r, fault)
      PROVE  Excused'
  <2>1. /\ Start(t, r, fault)
        /\ misread' = [misread EXCEPT ![t] =
              {f \in {fault} : f # "none"}
                \cup {f \in {"path"} : path_editable'[t] \notin {<<>>, r.path}}]
    BY <1>1 DEF HStart
  <2>2. \A u \in Threads \ {t} :
           /\ misread'[u] = misread[u] /\ pc'[u] = pc[u]
           /\ path_editable'[u] = path_editable[u] /\ request'[u] = request[u]
    BY <2>1 DEF Start, Goto, TypeOK, MisreadOK
  <2>3. /\ misread'[t] \subseteq Faults \cup {"path"}
        /\ "path" \in misread'[t] => path_editable'[t] # r.path
        /\ request'[t] = r
    BY <2>1, FaultsAssumption DEF Start, TypeOK, MisreadOK
  <2> QED BY <2>2, <2>3 DEF Excused
<1>2. ASSUME NEW t \in Threads, HToken(t) PROVE Excused'
  <2>1. UNCHANGED <<misread, request, path_editable>>
    BY <1>2 DEF HToken, FirstToken, NextToken
  <2>2. pc[t] \in Walking /\ \A u \in Threads \ {t} : pc'[u] = pc[u]
    BY <1>2 DEF HToken, FirstToken, NextToken, strtok, Goto, TypeOK, Walking
  <2> QED BY <2>1, <2>2 DEF Excused
<1>3. ASSUME NEW t \in Threads, NEW fault \in {"none"} \cup Faults, HLookUp(t, fault)
      PROVE  Excused'
  <2>1. /\ pc[t] \in Walking /\ UNCHANGED <<request, path_editable>>
        /\ \A u \in Threads \ {t} : pc'[u] = pc[u]
    BY <1>3 DEF HLookUp, LookUp, Goto, TypeOK, Walking
  <2>2. misread' = [misread EXCEPT ![t] = @ \cup {f \in {fault} : f # "none"}]
    BY <1>3 DEF HLookUp
  <2>3. /\ \A u \in Threads \ {t} : misread'[u] = misread[u]
        /\ misread'[t] \subseteq Faults \cup misread[t]
        /\ "path" \in misread'[t] => "path" \in misread[t]
    BY <2>2, FaultsAssumption DEF MisreadOK
  <2>4. \A u \in Threads : pc'[u] \in Walking => pc[u] \in Walking
    BY <2>1
  <2> QED BY <2>1, <2>3, <2>4 DEF Excused
<1>4. ASSUME NEW t \in Threads, NEW fault \in {"none"} \cup Faults, HFound(t, fault)
      PROVE  Excused'
  <2>1. /\ pc'[t] = "answered" /\ UNCHANGED request
        /\ \A u \in Threads \ {t} : pc'[u] = pc[u] /\ path_editable'[u] = path_editable[u]
    BY <1>4 DEF HFound, Found, Goto, TypeOK
  <2>2. \A u \in Threads \ {t} : misread'[u] = misread[u]
    BY <1>4 DEF HFound, MisreadOK
  <2> QED BY <2>1, <2>2 DEF Excused, Walking
<1>5. ASSUME NEW t \in Threads, HReturn(t) PROVE Excused'
  <2>1. /\ misread' = [misread EXCEPT ![t] = {}] /\ UNCHANGED path_editable
        /\ \A u \in Threads \ {t} : pc'[u] = pc[u] /\ request'[u] = request[u]
    BY <1>5 DEF HReturn, Return, Goto, TypeOK
  <2> QED BY <2>1 DEF Excused, MisreadOK
<1>6. CASE UNCHANGED hvars
  BY <1>6 DEF hvars, vars, Excused
<1> QED BY <1>1, <1>2, <1>3, <1>4, <1>5, <1>6 DEF HNext

(* What LookupFindsFile says of one thread. *)
FindsFile(t) ==
    pc[t] = "found" /\ path_editable[t] = request[t].path
    /\ ~MeetsVacated(request[t].path)
        => inode_no[t] = Resolve(request[t].path)

(* However many threads there are: find_file_from_path returns the inode    *)
(* number of the file if it exists, and 0 if not, to a thread whose walk no *)
(* other has disturbed and whose reads have not failed.                     *)
THEOREM FSUndisturbedFindsFile ==
    HSpec => [](\A t \in Threads :
                   ~disturbed[t] /\ misread[t] \cap Faults = {} => FindsFile(t))
<1>1. HInit => Excused
  BY DEF HInit, Excused
<1>2. IInv /\ Excused /\ [HNext]_hvars => Excused'
  BY ExcusedStays DEF IInv, KindInv
<1>3. ASSUME RightInv, Excused, NEW t \in Threads, ~disturbed[t], misread[t] \cap Faults = {}
      PROVE  FindsFile(t)
  <2>1. SUFFICES ASSUME pc[t] = "found", path_editable[t] = request[t].path,
                        ~MeetsVacated(request[t].path)
                 PROVE  inode_no[t] = Resolve(request[t].path)
    BY DEF FindsFile
  <2>2. misread[t] = {}
    BY <1>3, <2>1 DEF Excused, Walking
  <2>3. Ends(request[t].path, inode_no[t], misread[t])
    BY <1>3, <2>1, <2>2 DEF RightInv, WalksRight, Proper, OnPath
  <2> QED BY <2>1, <2>2, <2>3 DEF Ends, Cut
<1>4. IInv /\ RightInv /\ Excused
         => \A t \in Threads :
               ~disturbed[t] /\ misread[t] \cap Faults = {} => FindsFile(t)
  BY <1>3
<1> QED BY <1>1, <1>2, <1>4, FSRight, PTL DEF HSpec

(* A thread that is alone is not disturbed: if fuse_main runs one thread,   *)
(* and no read fails, LookupFindsFile, which several threads refute, holds. *)
THEOREM FSLookupFindsFile ==
    ASSUME \A t, u \in Threads : t = u, Faults = {}
    PROVE  HSpec => []LookupFindsFile
<1> DEFINE Calm == \A t \in Threads : ~disturbed[t]
<1>1. HInit => Calm
  BY DEF HInit
<1>2. IInv /\ Calm /\ [HNext]_hvars => Calm'
  <2> SUFFICES ASSUME DisturbedOK, Calm, [HNext]_hvars PROVE Calm'
    BY DEF IInv, WalkInv
  <2>1. ASSUME NEW t \in Threads, HToken(t) PROVE Calm'
    <3>1. disturbed' = [u \in Threads |-> disturbed[u] \/ (u # t /\ InWalk(u))]
      BY <2>1 DEF HToken
    <3> QED BY <3>1
  <2>2. ASSUME NEW t \in Threads, HReturn(t) PROVE Calm'
    BY <2>2 DEF HReturn, DisturbedOK
  <2>3. CASE UNCHANGED disturbed
    BY <2>3
  <2> QED BY <2>1, <2>2, <2>3 DEF HNext, HStart, HLookUp, HFound, hvars
<1>3. Calm /\ (\A t \in Threads :
                   ~disturbed[t] /\ misread[t] \cap Faults = {} => FindsFile(t))
         => LookupFindsFile
  BY DEF FindsFile, LookupFindsFile
<1>4. HSpec => []IInv
  BY FSSafety
<1> QED BY <1>1, <1>2, <1>3, <1>4, FSUndisturbedFindsFile, PTL DEF HSpec

----
(* The program.                                                            *)

(* The descriptors are read from the block after the one that holds the     *)
(* superblock.                                                              *)
LEMMA PlaceIsNextBlock ==
    ASSUME NEW super, block_size(super) \in BlockSizes
    PROVE  groups_place(super) =
               (EXT2_OFFSET_SUPERBLOCK \div block_size(super) + 1) * block_size(super)
<1> DEFINE size == block_size(super)
<1>1. size \in BlockSizes
  OBVIOUS
<1>2. groups_place(super) = IF size >= 2048 THEN size ELSE 1024 + size
  BY <1>1 DEF groups_place, EXT2_OFFSET_SUPERBLOCK, BlockSizes
<1> HIDE DEF size
<1>3. CASE size = 1024
  BY <1>2, <1>3 DEF EXT2_OFFSET_SUPERBLOCK, size
<1>4. CASE size \in BlockSizes \ {1024}
  <2>1. size \in Nat /\ size >= 2048
    BY <1>4 DEF BlockSizes
  <2>2. 1024 \div size = 0
    BY <2>1
  <2>3. groups_place(super) = size
    BY <1>2, <2>1
  <2> QED BY <2>1, <2>2, <2>3 DEF EXT2_OFFSET_SUPERBLOCK, size
<1> QED BY <1>1, <1>3, <1>4

(* A quotient rounded up counts the multiples below the number. *)
LEMMA RoundedUp ==
    ASSUME NEW b \in Nat, NEW per \in Nat \ {0}, NEW k \in Nat
    PROVE  LET groups == IF b % per = 0 THEN b \div per ELSE b \div per + 1
           IN  k < groups <=> k * per < b
<1> DEFINE q == b \div per
           r == b % per
<1>1. q \in Nat /\ r \in 0 .. per - 1 /\ b = q * per + r
  OBVIOUS
<1> HIDE DEF q, r
<1>2. CASE k < q
  <2>1. PICK d \in Nat : q = k + 1 + d
    <3>1. q - k - 1 \in Nat /\ q = k + 1 + (q - k - 1)
      BY <1>1, <1>2
    <3> QED BY <3>1
  <2>2. q * per = k * per + per + d * per
    BY <2>1
  <2>3. d * per \in Nat /\ k * per \in Nat
    OBVIOUS
  <2>4. k * per < b
    BY <1>1, <2>2, <2>3
  <2>5. k < q /\ k < q + 1
    BY <1>1, <1>2
  <2> QED BY <2>4, <2>5 DEF q, r
<1>3. CASE k = q
  <2>1. k * per < b <=> r # 0
    BY <1>1, <1>3
  <2> QED BY <1>1, <1>3, <2>1 DEF q, r
<1>4. CASE k > q
  <2>1. PICK d \in Nat : k = q + 1 + d
    <3>1. k - q - 1 \in Nat /\ k = q + 1 + (k - q - 1)
      BY <1>1, <1>4
    <3> QED BY <3>1
  <2>2. k * per = q * per + per + d * per
    BY <1>1, <2>1
  <2>3. d * per \in Nat /\ q * per \in Nat
    BY <1>1
  <2>4. ~(k * per < b)
    BY <1>1, <2>2, <2>3
  <2>5. ~(k < q) /\ ~(k < q + 1)
    BY <1>1, <1>4
  <2> QED BY <2>4, <2>5 DEF q, r
<1> QED BY <1>1, <1>2, <1>3, <1>4

(* num_groups counts every group that has a block, the last one in part.    *)
LEMMA GroupsAreCounted ==
    ASSUME NEW super, super.s_blocks_count \in Nat, super.s_blocks_per_group \in Nat \ {0}
    PROVE  0 .. num_groups(super) - 1 =
               {k \in 0 .. super.s_blocks_count :
                   k * super.s_blocks_per_group < super.s_blocks_count}
<1> DEFINE b == super.s_blocks_count
           per == super.s_blocks_per_group
           groups == num_groups(super)
<1>1. b \in Nat /\ per \in Nat \ {0}
  OBVIOUS
<1>2. groups = IF b % per = 0 THEN b \div per ELSE b \div per + 1
  BY DEF num_groups
<1> HIDE DEF b, per, groups
<1>3. groups \in Nat
  BY <1>1, <1>2
<1>4. \A k \in Nat : k < groups <=> k * per < b
  BY <1>1, <1>2, RoundedUp
<1>5. \A k \in Nat : k * per < b => k <= b
  <2> SUFFICES ASSUME NEW k \in Nat, k * per < b PROVE k <= b
    OBVIOUS
  <2>1. PICK d \in Nat : per = 1 + d
    <3>1. per - 1 \in Nat /\ per = 1 + (per - 1)
      BY <1>1
    <3> QED BY <3>1
  <2>2. k * per = k + k * d /\ k * d \in Nat
    BY <2>1
  <2> QED BY <1>1, <2>2
<1>6. ASSUME NEW k
      PROVE  k \in 0 .. groups - 1 <=> k \in 0 .. b /\ k * per < b
  <2>1. k \in 0 .. groups - 1 <=> k \in Nat /\ k < groups
    BY <1>3
  <2>2. k \in 0 .. b <=> k \in Nat /\ k <= b
    BY <1>1
  <2> QED BY <1>4, <1>5, <2>1, <2>2
<1>7. 0 .. groups - 1 = {k \in 0 .. b : k * per < b}
  BY <1>6
<1> QED BY <1>7 DEF b, per, groups

----
(* The program serves requests the way the file system of Ext2FS does: all  *)
(* that is proved of HSpec holds from the mount to the unmount.             *)
THEOREM MainImplementsFS == MSpec => HSpec
<1>1. MInit => HInit
  BY DEF MInit
<1>2. [MNext]_mvars => [HNext]_hvars
  <2>1. CASE MNext
    <3>1. (\E file \in VolumeFiles : Open(file)) \/ Unmount => UNCHANGED hvars
      BY DEF Open, Unmount
    <3> QED BY <2>1, <3>1 DEF MNext
  <2>2. CASE UNCHANGED mvars
    BY <2>2 DEF mvars
  <2> QED BY <2>1, <2>2
<1> QED BY <1>1, <1>2, PTL DEF MSpec, HSpec

(* In the whole program, threads keep their types, undefined behaviour      *)
(* comes from overlapping walks alone, handlers fit the kind of file, and   *)
(* a request nobody disturbs is answered about the file its path names, in  *)
(* full unless AnswerRight has a reason for less.                           *)
THEOREM MainServesSafely ==
    MSpec => [](TypeOK /\ UndefinedOnlyByOverlap /\ HandlerFitsKind /\ AnswerRight)
BY MainImplementsFS, FSTypeOK, FSUndefinedOnlyByOverlap, FSHandlerFitsKind, FSAnswerRight, PTL

(* Whatever its block size and the blocks in its last group, the volume is  *)
(* mounted with the descriptors of all its groups and no others.            *)
THEOREM MainMountedRight == MSpec => []MountedRight
<1>1. MInit => MountedRight
  BY DEF MInit, MountedRight
<1>2. MountedRight /\ [MNext]_mvars => MountedRight'
  <2> SUFFICES ASSUME MountedRight, [MNext]_mvars PROVE MountedRight'
    OBVIOUS
  <2>1. ASSUME NEW file \in VolumeFiles, Open(file), main' = "mounted"
        PROVE  volume' = bg_inode_table
    <3> DEFINE super == file.super
               count == num_groups(super)
               place == groups_place(super)
    <3>1. super # NULL /\ super.s_blocks_per_group # 0 /\ file.descriptors # NULL
      BY <2>1 DEF Open
    <3>2. /\ block_size(super) \in BlockSizes
          /\ super.s_blocks_count \in Nat /\ super.s_blocks_per_group \in Nat \ {0}
          /\ DescriptorTable(file) = bg_inode_table
      BY <3>1, VolumeFilesAssumption
    <3>3. volume' = [g \in 0 .. count - 1 |-> file.descriptors[place][g]]
      BY <2>1, <3>1 DEF Open
    <3>4. place = (EXT2_OFFSET_SUPERBLOCK \div block_size(super) + 1) * block_size(super)
      BY <3>2, PlaceIsNextBlock
    <3>5. 0 .. count - 1 = {k \in 0 .. super.s_blocks_count :
                               k * super.s_blocks_per_group < super.s_blocks_count}
      BY <3>2, GroupsAreCounted
    <3> HIDE DEF count, place
    <3>6. volume' = DescriptorTable(file)
      BY <3>3, <3>4, <3>5 DEF DescriptorTable
    <3> QED BY <3>2, <3>6
  <2>2. CASE \E file \in VolumeFiles : Open(file)
    BY <2>1, <2>2 DEF MountedRight
  <2>3. CASE main = "mounted" /\ HNext /\ UNCHANGED mainVars
    BY <2>3 DEF MountedRight, mainVars
  <2>4. CASE Unmount
    BY <2>4 DEF MountedRight, Unmount
  <2>5. CASE UNCHANGED mvars
    BY <2>5 DEF MountedRight, mvars, mainVars
  <2> QED BY <2>2, <2>3, <2>4, <2>5 DEF MNext
<1> QED BY <1>1, <1>2, PTL DEF MSpec
====
