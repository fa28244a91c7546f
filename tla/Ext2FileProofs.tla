---- MODULE Ext2FileProofs ----
(***************************************************************************)
(* Theorems about reading a file (modules Ext2File and                     *)
(* Ext2FileProperties), for every volume, every block map and every        *)
(* request: what a call stores and answers, whatever it reads.             *)
(***************************************************************************)
EXTENDS Ext2FileProperties, NatLemmas

(* max_size is what the request can be given (between two calls, the empty  *)
(* request), and nothing is stored behind it.                              *)
Clamped == max_size = Expected
Unstored == \A k \in DOMAIN buf : k >= max_size => buf[k] = Unset

(* There is no answer before there is one. *)
Unanswered == pc # "answered" => answer = 0

(* The inductive invariant. *)
IInv == TypeOK /\ Clamped /\ Unstored /\ Unanswered /\ AllOrNothing

----
(* An address is below the modulus. *)
LEMMA AddressInRange ==
    ASSUME NEW b \in Nat, NEW off \in Int
    PROVE  Address(b, off) \in Nat
  <1>1. AddressModulus \in Nat /\ AddressModulus > 0 /\ block_size \in Nat
    BY VolumeAssumption
  <1>2. block_size * b + off \in Int
    BY <1>1
  <1>3. \A x \in Int : x % AddressModulus \in Nat
    BY <1>1
  <1> QED BY <1>2, <1>3 DEF Address

(* read_block returns no more words than were asked for, and all of them    *)
(* are words of the volume.                                                *)
LEMMA ReadBlockBounds ==
    ASSUME NEW b \in Nat, NEW off \in Int, NEW n \in Nat
    PROVE  /\ read_block(b, off, n) \in 0 .. n
           /\ read_block(b, off, n) > 0 =>
                 Address(b, off) + read_block(b, off, n) <= DiskSize
  <1>1. Address(b, off) \in Nat /\ DiskSize \in Nat
    BY AddressInRange, VolumeAssumption
  <1> QED BY <1>1 DEF read_block, pread

(* Whatever a table holds, looking up an entry gives a block number. *)
LEMMA EntryIsBlockNo ==
    ASSUME NEW b \in Nat, NEW index \in Int
    PROVE  read_ind_block_entry(b, index) \in Nat
  <1>1. EXT2_INVALID_BLOCK_NUMBER \in Nat
    BY VolumeAssumption DEF EXT2_INVALID_BLOCK_NUMBER, sizeof_uint32_t
  <1>2. CASE read_block(b, index, 1) > 0
    <2>0. /\ Address(b, index) \in Nat /\ DiskSize \in Nat
          /\ read_block(b, index, 1) \in 0 .. 1
          /\ Address(b, index) + read_block(b, index, 1) <= DiskSize
      BY <1>2, AddressInRange, ReadBlockBounds, VolumeAssumption
    <2>1. Address(b, index) \in 0 .. DiskSize - 1
      BY <1>2, <2>0
    <2> QED BY <1>2, <2>1, VolumeAssumption DEF read_ind_block_entry
  <1>3. CASE ~(read_block(b, index, 1) > 0)
    BY <1>1, <1>3 DEF read_ind_block_entry
  <1> QED BY <1>2, <1>3

(* get_inode_block_no gives a block number for every block of a file. *)
LEMMA BlockNoOfInode ==
    ASSUME NEW f \in Files, NEW block_idx \in Nat
    PROVE  get_inode_block_no(f, block_idx) \in Nat
  <1>1. /\ f.i_block \in [0 .. 11 -> Nat]
        /\ f.i_block_1ind \in Nat /\ f.i_block_2ind \in Nat /\ f.i_block_3ind \in Nat
    BY FileAssumption
  <1> DEFINE n == single_ind_entries
  <1>2. n \in Nat /\ n > 0 /\ n * n \in Nat /\ n * n > 0
    BY VolumeAssumption DEF single_ind_entries
  <1>3. double_ind_start_idx \in Int /\ double_ind_entries \in Nat /\ double_ind_entries > 0
    BY <1>2 DEF double_ind_start_idx, single_ind_start_idx, double_ind_entries
  <1>4. EXT2_INVALID_BLOCK_NUMBER \in Nat
    BY VolumeAssumption DEF EXT2_INVALID_BLOCK_NUMBER, sizeof_uint32_t
  <1>5. \A x \in Int, d \in Nat : d > 0 => x \div d \in Int /\ x % d \in Int
    OBVIOUS
  <1>6. DoubleIndirect(f, block_idx) \in Nat
    <2>1. (block_idx - single_ind_start_idx) \div n - 1 \in Int
      BY <1>2, <1>5 DEF single_ind_start_idx
    <2>2. (block_idx - double_ind_start_idx) % n \in Int
      BY <1>2, <1>3, <1>5
    <2> QED BY <1>1, <2>1, <2>2, EntryIsBlockNo DEF DoubleIndirect
  <1>7. TripleIndirect(f, block_idx) \in Nat
    <2> DEFINE from_double == block_idx - double_ind_start_idx
    <2>1. from_double \in Int
      BY <1>3
    <2> HIDE DEF from_double
    <2>2. from_double \div double_ind_entries - 1 \in Int
      BY <1>3, <1>5, <2>1
    <2>3. (from_double \div double_ind_entries) % n \in Int /\ from_double % n \in Int
      BY <1>2, <1>3, <1>5, <2>1
    <2>4. DEFINE middle == read_ind_block_entry(f.i_block_3ind,
                               from_double \div double_ind_entries - 1)
    <2>5. middle \in Nat
      BY <1>1, <2>2, EntryIsBlockNo
    <2>6. DEFINE last == read_ind_block_entry(middle,
                             (from_double \div double_ind_entries) % n)
    <2>7. last \in Nat
      BY <2>3, <2>5, EntryIsBlockNo
    <2>8. read_ind_block_entry(last, from_double % n) \in Nat
      BY <2>3, <2>7, EntryIsBlockNo
    <2> QED BY <2>8 DEF TripleIndirect, from_double
  <1>8. CASE block_idx < 12
    BY <1>1, <1>8 DEF get_inode_block_no
  <1>9. CASE ~(block_idx < 12)
    <2>1. block_idx - single_ind_start_idx \in Int
      BY DEF single_ind_start_idx
    <2>2. read_ind_block_entry(f.i_block_1ind, block_idx - single_ind_start_idx) \in Nat
      BY <1>1, <2>1, EntryIsBlockNo
    <2> QED BY <1>4, <1>6, <1>7, <1>9, <2>2 DEF get_inode_block_no
  <1> QED BY <1>8, <1>9

----
(* What Clamp leaves of a request is no more than the request. *)
LEMMA ClampBounds ==
    ASSUME NEW f \in Files, NEW o \in Nat, NEW n \in Nat, o <= inode_file_size(f)
    PROVE  Clamp(f, o, n) \in 0 .. n
  <1>1. inode_file_size(f) \in Nat
    BY FileAssumption DEF inode_file_size
  <1> QED BY <1>1 DEF Clamp

(* The parts of the type invariant that the loop needs. *)
LEMMA LoopFacts ==
    ASSUME IInv, ReadMore
    PROVE  /\ max_size \in Nat /\ max_size <= size /\ size \in Nat
           /\ read_so_far \in Nat /\ read_so_far < max_size
           /\ offset \in Nat /\ inode \in Files
           /\ buf \in [0 .. size - 1 -> Nat \cup {Unset}]
           /\ Position \in Nat /\ Position % block_size \in Int
           /\ BlockNos \subseteq Nat
  <1>1. /\ max_size \in 0 .. size /\ size \in Nat /\ read_so_far \in 0 .. max_size
        /\ offset \in Nat /\ inode \in Files
        /\ buf \in [0 .. size - 1 -> Nat \cup {Unset}]
    BY RequestAssumption DEF IInv, TypeOK
  <1>2. max_size \in Nat /\ read_so_far \in Nat /\ read_so_far < max_size /\ max_size <= size
    BY <1>1 DEF ReadMore
  <1>3. Position \in Nat
    BY <1>1, <1>2 DEF Position
  <1>4. Position % block_size \in Int /\ Position \div block_size \in Nat
    BY <1>3, VolumeAssumption
  <1>5. get_inode_block_no(inode, Position \div block_size) \in Nat
    BY <1>1, <1>4, BlockNoOfInode
  <1>6. EXT2_INVALID_BLOCK_NUMBER \in Nat
    BY VolumeAssumption DEF EXT2_INVALID_BLOCK_NUMBER, sizeof_uint32_t
  <1>7. BlockNos \subseteq Nat
    BY <1>5, <1>6 DEF BlockNos
  <1> QED BY <1>1, <1>2, <1>3, <1>4, <1>7

LEMMA InitIInv ==
    ASSUME Init PROVE IInv
  <1>1. TypeOK
    BY DEF Init, TypeOK
  <1>2. inode.i_size \in Nat
    BY FileAssumption DEF Init
  <1>3. Clamped
    BY <1>2 DEF Init, Clamped, Expected
  <1> QED BY <1>1, <1>3 DEF Init, IInv, Unstored, Unanswered, AllOrNothing

(* A request starts with nothing read and nothing stored. *)
LEMMA RequestStep ==
    ASSUME IInv, NEW f \in Files, NEW o \in Offsets, NEW n \in Sizes, ext2_read(f, o, n)
    PROVE  IInv'
  <1>1. /\ o \in Nat /\ n \in Nat /\ inode_file_size(f) \in Nat
        /\ o <= inode_file_size(f)
    BY RequestAssumption, FileAssumption DEF ext2_read, inode_file_size
  <1>2. Clamp(f, o, n) \in 0 .. n
    BY <1>1, ClampBounds
  <1>3. /\ pc' = "reading" /\ inode' = f /\ offset' = o /\ size' = n
        /\ max_size' = Clamp(f, o, n) /\ read_so_far' = 0
        /\ buf' = [k \in 0 .. n - 1 |-> Unset]
        /\ medium' = medium /\ answer' = answer /\ pc = "idle"
    BY DEF ext2_read
  <1>4. answer = 0 /\ medium \in Disks
    BY <1>3 DEF IInv, Unanswered, TypeOK
  <1>5. TypeOK'
    BY <1>1, <1>2, <1>3, <1>4 DEF TypeOK
  <1>6. Clamped'
    BY <1>3 DEF Clamped, Expected, Clamp, inode_file_size
  <1>7. Unstored' /\ Unanswered' /\ AllOrNothing'
    BY <1>3, <1>4 DEF Unstored, Unanswered, AllOrNothing
  <1> QED BY <1>5, <1>6, <1>7 DEF IInv

(* An iteration that reads something stores words of the volume, no more    *)
(* than were asked for, behind what is there.                              *)
LEMMA ReadBlockDataStep ==
    ASSUME IInv, ReadBlockData PROVE IInv'
  <1> DEFINE off == Position % block_size
  <1>0. ReadMore
    BY DEF ReadBlockData
  <1>1. /\ max_size \in Nat /\ max_size <= size /\ size \in Nat
        /\ read_so_far \in Nat /\ read_so_far < max_size
        /\ buf \in [0 .. size - 1 -> Nat \cup {Unset}]
        /\ off \in Int /\ BlockNos \subseteq Nat
    BY <1>0, LoopFacts
  <1>2. PICK block_no \in BlockNos :
            LET rv == read_block(block_no, off, max_size - read_so_far)
            IN  /\ rv > 0
                /\ read_so_far' = read_so_far + rv
                /\ buf' = Copied(read_so_far, rv, Address(block_no, off))
    BY DEF ReadBlockData
  <1> DEFINE rv == read_block(block_no, off, max_size - read_so_far)
             addr == Address(block_no, off)
  <1>3. /\ rv > 0 /\ read_so_far' = read_so_far + rv
        /\ buf' = Copied(read_so_far, rv, addr)
    BY <1>2
  <1>4. block_no \in Nat /\ max_size - read_so_far \in Nat
    BY <1>1
  <1>5. /\ rv \in 0 .. max_size - read_so_far
        /\ addr \in Nat /\ addr + rv <= DiskSize
    BY <1>1, <1>3, <1>4, ReadBlockBounds, AddressInRange
  <1>6. UNCHANGED <<medium, pc, inode, offset, size, max_size, answer>>
    BY DEF ReadBlockData
  <1> HIDE DEF off, rv, addr
  <1>7. \A k \in 0 .. size - 1 :
           k >= read_so_far /\ k < read_so_far + rv
              => disk[addr + (k - read_so_far)] \in Nat
    <2>1. DiskSize \in Nat /\ disk \in [0 .. DiskSize - 1 -> Nat]
      BY VolumeAssumption
    <2> QED BY <1>1, <1>5, <2>1
  <1>8. buf' = [k \in 0 .. size - 1 |->
                   IF k >= read_so_far /\ k < read_so_far + rv
                   THEN disk[addr + (k - read_so_far)] ELSE buf[k]]
    BY <1>1, <1>3 DEF Copied
  <1>9. buf' \in [0 .. size - 1 -> Nat \cup {Unset}]
    BY <1>1, <1>7, <1>8
  <1>10. read_so_far' \in 0 .. max_size
    BY <1>1, <1>3, <1>5
  <1>11. TypeOK'
    BY <1>6, <1>9, <1>10 DEF IInv, TypeOK
  <1>12. Unstored'
    <2>1. \A k \in 0 .. size - 1 : k >= max_size => buf'[k] = buf[k]
      BY <1>1, <1>5, <1>8
    <2>2. DOMAIN buf = 0 .. size - 1 /\ DOMAIN buf' = 0 .. size - 1
      BY <1>1, <1>8
    <2> QED BY <1>6, <2>1, <2>2 DEF IInv, Unstored
  <1>13. Clamped' /\ Unanswered' /\ AllOrNothing'
    BY <1>0, <1>6 DEF IInv, Clamped, Unanswered, AllOrNothing, Expected, ReadMore
  <1> QED BY <1>11, <1>12, <1>13 DEF IInv

(* A call that answers 0, -1 or max_size, and has stored nothing behind     *)
(* max_size, keeps the invariant.                                          *)
LEMMA AnswerStep ==
    ASSUME IInv, pc = "reading", NEW result \in {0, -1, max_size}, Answer(result),
           UNCHANGED <<medium, inode, offset, size, max_size, read_so_far>>,
           buf' \in [0 .. size - 1 -> Nat \cup {Unset}], Unstored'
    PROVE  IInv'
  <1>1. max_size \in 0 .. size /\ size \in Nat /\ max_size = Expected
    BY RequestAssumption DEF IInv, TypeOK, Clamped
  <1>2. /\ pc' = "answered"
        /\ answer' \in {result, EIO}
        /\ result = -1 => answer' = EIO
    BY DEF Answer
  <1>3. answer' \in {0, max_size, EIO}
    BY <1>2
  <1>4. TypeOK'
    BY <1>1, <1>2, <1>3 DEF IInv, TypeOK
  <1>5. Expected' = Expected
    BY DEF Expected
  <1>6. Clamped' /\ Unanswered' /\ AllOrNothing'
    BY <1>1, <1>2, <1>3, <1>5 DEF Clamped, Unanswered, AllOrNothing
  <1> QED BY <1>4, <1>6 DEF IInv

(* A hole is filled with zeros up to max_size; the answer is 0. *)
LEMMA ReadNothingStep ==
    ASSUME IInv, ReadNothing PROVE IInv'
  <1>0. ReadMore
    BY DEF ReadNothing
  <1>1. /\ max_size \in Nat /\ size \in Nat /\ read_so_far \in Nat
        /\ buf \in [0 .. size - 1 -> Nat \cup {Unset}]
    BY <1>0, LoopFacts
  <1>2. \/ buf' = buf
        \/ buf' = [k \in DOMAIN buf |->
                      IF k >= read_so_far /\ k < max_size THEN 0 ELSE buf[k]]
    BY DEF ReadNothing
  <1>3. buf' \in [0 .. size - 1 -> Nat \cup {Unset}]
    BY <1>1, <1>2
  <1>4. UNCHANGED <<medium, inode, offset, size, max_size, read_so_far>> /\ Answer(0)
    BY DEF ReadNothing
  <1>5. \A k \in 0 .. size - 1 : k >= max_size => buf'[k] = buf[k]
    BY <1>1, <1>2
  <1>6. Unstored'
    BY <1>1, <1>3, <1>4, <1>5 DEF IInv, Unstored
  <1>7. pc = "reading"
    BY <1>0 DEF ReadMore
  <1> QED BY <1>3, <1>4, <1>6, <1>7, AnswerStep

(* The last two ways to answer: an error, and everything asked for. *)
LEMMA ReadEndStep ==
    ASSUME IInv, ReadFails \/ ReadDone PROVE IInv'
  <1>1. /\ pc = "reading"
        /\ UNCHANGED <<medium, inode, offset, size, max_size, read_so_far, buf>>
        /\ Answer(-1) \/ (read_so_far >= max_size /\ Answer(read_so_far))
    BY DEF ReadFails, ReadDone, ReadMore
  <1>2. /\ max_size \in 0 .. size /\ size \in Nat /\ read_so_far \in 0 .. max_size
        /\ buf \in [0 .. size - 1 -> Nat \cup {Unset}]
    BY RequestAssumption DEF IInv, TypeOK
  <1>3. read_so_far >= max_size => read_so_far = max_size
    BY <1>2
  <1>4. PICK result \in {0, -1, max_size} : Answer(result)
    BY <1>1, <1>3
  <1>5. Unstored'
    BY <1>1 DEF IInv, Unstored
  <1>6. buf' \in [0 .. size - 1 -> Nat \cup {Unset}]
    BY <1>1, <1>2
  <1> QED BY <1>1, <1>4, <1>5, <1>6, AnswerStep

LEMMA ReturnStep ==
    ASSUME IInv, Return PROVE IInv'
  <1>1. TypeOK'
    BY DEF IInv, TypeOK, Return
  <1>2. inode \in Files
    BY DEF IInv, TypeOK
  <1>3. inode.i_size \in Nat
    BY <1>2, FileAssumption
  <1>4. Clamped'
    BY <1>3 DEF Return, Clamped, Expected
  <1> QED BY <1>1, <1>4 DEF Return, IInv, Unstored, Unanswered, AllOrNothing

LEMMA NextIInv ==
    ASSUME IInv, [Next]_vars PROVE IInv'
  <1>1. CASE \E f \in Files, o \in Offsets, n \in Sizes : ext2_read(f, o, n)
    BY <1>1, RequestStep
  <1>2. CASE Read
    BY <1>2, ReadBlockDataStep, ReadNothingStep, ReadEndStep DEF Read
  <1>3. CASE Return
    BY <1>3, ReturnStep
  <1>4. CASE UNCHANGED vars
    BY <1>4 DEF vars, IInv, TypeOK, Clamped, Unstored, Unanswered, AllOrNothing, Expected
  <1> QED BY <1>1, <1>2, <1>3, <1>4 DEF Next

----
(* The invariant of every behaviour. *)
THEOREM FileSafety == Spec => []IInv
  <1> QED BY InitIInv, NextIInv, PTL DEF Spec

(* The variables keep their types: in particular no iteration reads more    *)
(* than is left of the request, and the loop stops at max_size.             *)
THEOREM FileTypeOK == Spec => []TypeOK
  <1>1. IInv => TypeOK
    BY DEF IInv
  <1> QED BY <1>1, FileSafety, PTL

(* Whatever a file's tables hold and whichever reads fail, ext2_read        *)
(* answers with all that can be given, with nothing or with an error.       *)
THEOREM FileAllOrNothing == Spec => []AllOrNothing
  <1>1. IInv => AllOrNothing
    BY DEF IInv
  <1> QED BY <1>1, FileSafety, PTL

(* Nothing is stored behind the end of the file or of the request. *)
THEOREM FileNothingBehindEnd == Spec => []NothingBehindEnd
  <1>1. IInv => NothingBehindEnd
    BY DEF IInv, Clamped, Unstored, NothingBehindEnd
  <1> QED BY <1>1, FileSafety, PTL

----
(* On a volume that is well made, the tables are read as they were written. *)
LEMMA Lengths ==
    /\ block_size \in Nat \ {0} /\ DiskSize \in Nat /\ AddressModulus \in Nat \ {0}
    /\ DiskSize + block_size <= AddressModulus
    /\ disk \in [0 .. DiskSize - 1 -> Nat]
BY VolumeAssumption

(* A block of the volume has its address, without wrapping. *)
LEMMA AddressInVolume ==
    ASSUME NEW b, InVolume(b), b # 0, NEW off \in 0 .. block_size - 1
    PROVE  Address(b, off) = block_size * b + off /\ Address(b, off) \in 0 .. DiskSize - 1
  <1> DEFINE x == block_size * b + off
             m == AddressModulus
  <1>1. x \in Nat /\ x <= DiskSize - 1 /\ x <= m - 1
    <2>1. block_size * (b + 1) = block_size * b + block_size /\ block_size * b \in Nat
      BY Lengths DEF InVolume
    <2> QED BY <2>1, Lengths DEF InVolume
  <1>2. Address(b, off) = x % m
    BY DEF Address
  <1>3. m \in Nat \ {0} /\ DiskSize \in Nat
    BY Lengths
  <1> HIDE DEF x, m
  <1>4. (m * 0 + x) % m = x
    BY <1>1, <1>3, DividedOnce
  <1>5. m * 0 + x = x
    BY <1>1, <1>3
  <1>6. Address(b, off) = x /\ x \in 0 .. DiskSize - 1
    BY <1>1, <1>2, <1>3, <1>4, <1>5
  <1> QED BY <1>6 DEF x

(* The block of an invalid number lies behind the volume: nothing is read.  *)
LEMMA NothingInvalid ==
    ASSUME NEW off \in 0 .. block_size - 1, NEW n
    PROVE  read_block(EXT2_INVALID_BLOCK_NUMBER, off, n) = 0
  <1> DEFINE w == block_size
             m == AddressModulus
             i == EXT2_INVALID_BLOCK_NUMBER
             x == m - w + off
  <1>1. i = 4 * m - 1
    BY DEF EXT2_INVALID_BLOCK_NUMBER, sizeof_uint32_t
  <1>2. w \in Nat \ {0} /\ m \in Nat \ {0} /\ DiskSize \in Nat /\ DiskSize + w <= m
        /\ off \in 0 .. w - 1 /\ x = m - w + off
    BY Lengths
  <1>3. Address(i, off) = (w * i + off) % m
    BY DEF Address
  <1> HIDE DEF w, m, i, x
  <1>4. x \in 0 .. m - 1 /\ x >= DiskSize
    BY <1>2
  <1>5. w * i + off = m * (4 * w - 1) + x
    <2>1. w * (4 * m - 1) = 4 * (w * m) - w /\ m * (4 * w - 1) = 4 * (w * m) - m
          /\ w * m \in Int
      BY <1>2
    <2> QED BY <1>1, <1>2, <2>1
  <1>6. Address(i, off) = x
    <2>1. 4 * w - 1 \in Int
      BY <1>2
    <2>2. (m * (4 * w - 1) + x) % m = x
      BY <1>2, <1>4, <2>1, DividedOnce
    <2> QED BY <1>3, <1>5, <2>2
  <1>7. pread(n, Address(i, off)) = 0
    BY <1>4, <1>6 DEF pread
  <1>8. read_block(i, off, n) = 0
    BY <1>7 DEF read_block
  <1> QED BY <1>8 DEF i

LEMMA EntryRead ==
    ASSUME NEW table, InVolume(table), NEW k \in 0 .. block_size - 1, Entry(table, k) # 0
    PROVE  read_ind_block_entry(table, k) = Entry(table, k)
  <1>1. table # 0 /\ Entry(table, k) = disk[block_size * table + k]
    BY DEF Entry
  <1>2. /\ Address(table, k) = block_size * table + k
        /\ Address(table, k) \in 0 .. DiskSize - 1
    BY <1>1, AddressInVolume
  <1>3. read_block(table, k, 1) = 1
    BY <1>1, <1>2, Lengths DEF read_block, pread
  <1> QED BY <1>1, <1>2, <1>3 DEF read_ind_block_entry

(* get_inode_block_no finds every direct, single- and double-indirect block *)
(* where it was put.                                                        *)
LEMMA LookupRight ==
    ASSUME NEW f \in Files, NEW i \in Nat, i < triple_ind_start_idx, Where[f][i] # 0
    PROVE  get_inode_block_no(f, i) = Where[f][i] /\ InVolume(Where[f][i])
  <1> DEFINE n == block_size
             d == i - (12 + n)
  <1>1. n \in Nat \ {0} /\ n * n \in Nat /\ i < 12 + n + n * n
    BY Lengths DEF triple_ind_start_idx, double_ind_start_idx, single_ind_start_idx,
                   single_ind_entries, double_ind_entries
  <1>2. InVolume(Where[f][i])
    <2>1. i \in 0 .. 11 + n + n * n
      BY <1>1
    <2> QED BY <2>1, PlacesAssumption
  <1>3. CASE i < 12
    <2>1. get_inode_block_no(f, i) = f.i_block[i]
      BY <1>3 DEF get_inode_block_no
    <2>2. i \in 0 .. 11
      BY <1>3
    <2> QED BY <1>2, <2>1, <2>2, PlacesAssumption
  <1>4. CASE i >= 12 /\ i < 12 + n
    <2> DEFINE k == i - 12
    <2>1. get_inode_block_no(f, i) = read_ind_block_entry(f.i_block_1ind, k)
      BY <1>1, <1>4 DEF get_inode_block_no, double_ind_start_idx, single_ind_start_idx,
                        single_ind_entries
    <2>2. k \in 0 .. n - 1 /\ 12 + k = i
      BY <1>1, <1>4
    <2> HIDE DEF k
    <2>3. Where[f][i] = Entry(f.i_block_1ind, k) /\ InVolume(f.i_block_1ind)
      BY <2>2, PlacesAssumption
    <2> QED BY <1>2, <2>1, <2>2, <2>3, EntryRead
  <1>5. CASE i >= 12 + n
    <2> DEFINE k == d \div n
               l == d % n
               second == Entry(f.i_block_2ind, k)
    <2>1. get_inode_block_no(f, i) = DoubleIndirect(f, i)
      BY <1>1, <1>5 DEF get_inode_block_no, double_ind_start_idx, single_ind_start_idx,
                        single_ind_entries
    <2>2. d \in Nat /\ d < n * n /\ i = 12 + n + d /\ i - 12 = d + n
      BY <1>1, <1>5
    <2>3. DoubleIndirect(f, i) =
              read_ind_block_entry(read_ind_block_entry(f.i_block_2ind, (i - 12) \div n - 1), l)
      BY DEF DoubleIndirect, double_ind_start_idx, single_ind_start_idx, single_ind_entries
    <2> HIDE DEF d
    <2>4. k \in Nat /\ l \in 0 .. n - 1 /\ d = n * k + l
      BY <1>1, <2>2, Divided
    <2> HIDE DEF k, l, n
    <2>5. k \in 0 .. n - 1
      <3>1. ASSUME k >= n PROVE FALSE
        <4>1. n * n <= n * k
          BY <1>1, <2>4, <3>1, Times
        <4>2. n * n \in Int /\ n * k \in Int /\ l \in Nat
          BY <1>1, <2>4
        <4>3. d < n * n /\ d = n * k + l
          BY <2>2, <2>4 DEF n
        <4> QED BY <4>1, <4>2, <4>3
      <3> QED BY <1>1, <2>4, <3>1
    <2>6. (i - 12) \div n - 1 = k
      <3>1. n * (k + 1) = n * k + n /\ n * k \in Int
        BY <1>1, <2>4
      <3>2. i - 12 = n * (k + 1) + l
        BY <1>1, <2>2, <2>4, <3>1
      <3>3. (n * (k + 1) + l) \div n = k + 1
        <4>1. n \in Nat \ {0} /\ k + 1 \in Int /\ l \in 0 .. n - 1
          BY <1>1, <2>4
        <4> QED BY <4>1, DividedOnce, Zenon
      <3>4. (i - 12) \div n = k + 1
        BY <3>2, <3>3, Zenon
      <3> HIDE DEF k
      <3> QED BY <2>4, <3>4
    <2>7. /\ Where[f][i] = Entry(second, l)
          /\ InVolume(f.i_block_2ind) /\ InVolume(second)
      <3>1. i = 12 + n + (n * k + l)
        BY <2>2, <2>4
      <3> QED BY <2>4, <2>5, <3>1, PlacesAssumption DEF n
    <2>8. second # 0
      BY <2>7 DEF Entry
    <2> HIDE DEF second
    <2>9. read_ind_block_entry(f.i_block_2ind, k) = second
      BY <2>5, <2>7, <2>8, EntryRead DEF n, second
    <2>10. read_ind_block_entry(second, l) = Entry(second, l)
      BY <2>4, <2>7, EntryRead DEF n
    <2> QED BY <1>2, <2>1, <2>3, <2>6, <2>7, <2>9, <2>10
  <1> QED BY <1>1, <1>3, <1>4, <1>5

----
(* What is read is right: the word the loop stores at place k of the buffer *)
(* is the file's.                                                           *)
RightInv == RightWords /\ SolidIsServed

(* The block the loop turns to, if it lies below the triple-indirect ones   *)
(* and is no hole, is found, and can be read if the volume can.             *)
LEMMA TurnsToRight ==
    ASSUME IInv, ReadMore, NEW block_no \in BlockNos, NEW n \in Nat \ {0},
           Position \div block_size < triple_ind_start_idx,
           Where[inode][Position \div block_size] # 0,
           \/ read_block(block_no, Position % block_size, n) > 0
           \/ medium = "sound"
    PROVE  /\ block_no = Where[inode][Position \div block_size]
           /\ Address(block_no, Position % block_size) =
                  block_size * block_no + (Position % block_size)
           /\ read_block(block_no, Position % block_size, n) > 0
  <1> DEFINE i == Position \div block_size
             off == Position % block_size
  <1>1. Position \in Nat /\ inode \in Files
    BY LoopFacts
  <1>2. i \in Nat /\ off \in 0 .. block_size - 1
    BY <1>1, Lengths, Divided
  <1>3. /\ read_block(block_no, off, n) > 0 \/ medium = "sound"
        /\ Where[inode][i] # 0 /\ i < triple_ind_start_idx
    OBVIOUS
  <1>4. block_no = get_inode_block_no(inode, i)
        \/ (medium = "failing" /\ block_no = EXT2_INVALID_BLOCK_NUMBER)
    BY DEF BlockNos
  <1> HIDE DEF i, off
  <1>5. block_no # EXT2_INVALID_BLOCK_NUMBER \/ medium # "failing"
    <2>1. SUFFICES ASSUME block_no = EXT2_INVALID_BLOCK_NUMBER, medium = "failing"
                   PROVE  FALSE
      OBVIOUS
    <2>2. read_block(block_no, off, n) = 0
      BY <1>2, <2>1, NothingInvalid
    <2> QED BY <1>3, <2>1, <2>2
  <1>6. get_inode_block_no(inode, i) = Where[inode][i] /\ InVolume(Where[inode][i])
    BY <1>1, <1>2, <1>3, LookupRight
  <1>7. block_no = Where[inode][i] /\ InVolume(block_no) /\ block_no # 0
    BY <1>3, <1>4, <1>5, <1>6
  <1>8. /\ Address(block_no, off) = block_size * block_no + off
        /\ Address(block_no, off) \in 0 .. DiskSize - 1
    BY <1>2, <1>7, AddressInVolume
  <1>9. read_block(block_no, off, n) > 0
    BY <1>7, <1>8, Lengths DEF read_block, pread
  <1> QED BY <1>7, <1>8, <1>9 DEF i, off

(* A word that one iteration stores, in the run the request starts in.      *)
LEMMA ReadPlace ==
    ASSUME IInv, ReadMore, NEW block_no \in BlockNos, NEW n \in Nat \ {0},
           read_block(block_no, Position % block_size, n) > 0,
           NEW k \in Nat, k >= read_so_far, InOneRun(inode, offset, k + 1)
    PROVE  disk[Address(block_no, Position % block_size) + (k - read_so_far)] =
               Word(inode, offset + k)
  <1> DEFINE bs == block_size
             W == Where[inode]
             p == Position
             q == offset + k
             first == offset \div bs
             i == p \div bs
             j == q \div bs
             off == p % bs
  <1>1. /\ offset \in Nat /\ read_so_far \in Nat /\ inode \in Files
        /\ p = offset + read_so_far
    BY LoopFacts DEF Position
  <1>2. offset <= p /\ p <= q /\ p \in Nat /\ q \in Nat /\ bs \in Nat \ {0}
        /\ q = p + (k - read_so_far) /\ offset + (k + 1) - 1 = q
    BY <1>1, Lengths
  <1>3. read_block(block_no, off, n) > 0
    OBVIOUS
  <1>4. \A x \in first .. j : /\ x < triple_ind_start_idx
                              /\ W[first] # 0
                              /\ W[x] = W[first] + (x - first)
    <2>1. BlocksOf(offset, k + 1) = first .. j
      BY <1>2 DEF BlocksOf
    <2> QED BY <2>1 DEF InOneRun
  <1>5. Word(inode, q) = IF W[j] = 0 THEN 0 ELSE disk[bs * W[j] + (q % bs)]
    BY DEF Word
  <1> HIDE DEF bs, W, p, q
  <1>6. first \in Nat /\ i \in Nat /\ j \in Nat /\ first <= i /\ i <= j
    <2>1. first \in Nat /\ i \in Nat /\ j \in Nat
      BY <1>1, <1>2, Divided
    <2>2. offset \in Int /\ p \in Int /\ q \in Int
      BY <1>1, <1>2
    <2> HIDE DEF p, q
    <2>3. first <= i
      BY <1>2, <2>2, DividedMore
    <2>4. i <= j
      BY <1>2, <2>2, DividedMore
    <2> QED BY <2>1, <2>3, <2>4
  <1>7. p = bs * i + off /\ q = bs * j + (q % bs)
        /\ off \in 0 .. bs - 1 /\ q % bs \in 0 .. bs - 1
    BY <1>2, Divided
  <1> HIDE DEF first, i, j, off
  <1>8. first < triple_ind_start_idx /\ W[first] # 0 /\ W[first] \in Nat
    <2>1. first < triple_ind_start_idx /\ W[first] # 0
      BY <1>4, <1>6
    <2>2. InVolume(W[first])
      BY <1>1, <1>6, <2>1, LookupRight DEF W
    <2> QED BY <2>1, <2>2 DEF InVolume
  <1>9. /\ W[i] = W[first] + (i - first) /\ i < triple_ind_start_idx
        /\ W[j] = W[first] + (j - first)
    BY <1>4, <1>6
  <1>10. W[i] \in Nat /\ W[i] # 0 /\ W[j] \in Nat /\ W[j] # 0 /\ W[j] = W[i] + (j - i)
    BY <1>6, <1>8, <1>9
  <1>11. Address(block_no, off) = bs * W[i] + off
    BY <1>3, <1>9, <1>10, TurnsToRight DEF bs, W, p, i, off
  <1>12. bs * W[i] + off + (k - read_so_far) = bs * W[j] + (q % bs)
    <2>1. bs * W[j] = bs * W[i] + (bs * j - bs * i)
      BY <1>2, <1>6, <1>10
    <2>2. bs * W[i] \in Int /\ bs * j \in Int /\ bs * i \in Int
      BY <1>2, <1>6, <1>10
    <2>3. off \in Int /\ q % bs \in Int /\ k - read_so_far \in Int
      BY <1>1, <1>2, <1>7
    <2> QED BY <1>2, <1>7, <2>1, <2>2, <2>3
  <1>13. disk[Address(block_no, off) + (k - read_so_far)] = Word(inode, q)
    BY <1>5, <1>10, <1>11, <1>12
  <1> QED BY <1>13 DEF p, q, bs, off

LEMMA InitRight ==
    ASSUME Init PROVE RightInv
BY DEF Init, RightInv, RightWords, SolidIsServed

LEMMA ReadBlockDataRight ==
    ASSUME IInv, RightInv, ReadBlockData PROVE RightInv'
  <1> DEFINE off == Position % block_size
             n == max_size - read_so_far
  <1>0. ReadMore
    BY DEF ReadBlockData
  <1>1. /\ max_size \in Nat /\ max_size <= size /\ size \in Nat
        /\ read_so_far \in Nat /\ read_so_far < max_size
        /\ DOMAIN buf = 0 .. size - 1
        /\ off \in Int /\ BlockNos \subseteq Nat
    BY <1>0, LoopFacts
  <1>2. PICK block_no \in BlockNos :
            LET rv == read_block(block_no, off, n)
            IN  /\ rv > 0
                /\ read_so_far' = read_so_far + rv
                /\ buf' = Copied(read_so_far, rv, Address(block_no, off))
    BY DEF ReadBlockData
  <1> DEFINE rv == read_block(block_no, off, n)
  <1>3. /\ rv > 0 /\ read_so_far' = read_so_far + rv
        /\ buf' = Copied(read_so_far, rv, Address(block_no, off))
    BY <1>2
  <1>4. UNCHANGED <<medium, pc, inode, offset, size, max_size, answer>> /\ pc # "answered"
    BY <1>0 DEF ReadBlockData, ReadMore
  <1>5. n \in Nat \ {0} /\ block_no \in Nat
    BY <1>1
  <1>6. rv \in 0 .. n
    BY <1>1, <1>5, ReadBlockBounds
  <1>7. \A k \in Nat : k >= read_so_far /\ InOneRun(inode, offset, k + 1)
           => disk[Address(block_no, off) + (k - read_so_far)] = Word(inode, offset + k)
    BY <1>0, <1>3, <1>5, ReadPlace
  <1> HIDE DEF off, rv
  <1>8. \A k \in 0 .. size - 1 :
           buf'[k] = IF k >= read_so_far /\ k < read_so_far + rv
                     THEN disk[Address(block_no, off) + (k - read_so_far)] ELSE buf[k]
    BY <1>1, <1>3 DEF Copied
  <1>9. RightWords'
    <2>1. SUFFICES ASSUME NEW k \in 0 .. read_so_far' - 1, InOneRun(inode, offset, k + 1)
                   PROVE  buf'[k] = Word(inode, offset + k)
      BY <1>4 DEF RightWords, InOneRun, Word, BlocksOf
    <2>2. k \in 0 .. size - 1 /\ k \in Nat /\ k < read_so_far + rv
      BY <1>1, <1>3, <1>6
    <2>3. CASE k >= read_so_far
      BY <1>7, <1>8, <2>1, <2>2, <2>3
    <2>4. CASE k < read_so_far
      <3>1. buf[k] = Word(inode, offset + k)
        BY <1>1, <2>1, <2>2, <2>4 DEF RightInv, RightWords
      <3>2. buf'[k] = buf[k]
        BY <1>1, <1>8, <2>2, <2>4
      <3> QED BY <3>1, <3>2
    <2> QED BY <1>1, <2>2, <2>3, <2>4
  <1>10. SolidIsServed'
    BY <1>4 DEF SolidIsServed
  <1> QED BY <1>9, <1>10 DEF RightInv

(* No hole is met among the blocks of a solid request. *)
LEMMA ReadNothingRight ==
    ASSUME IInv, RightInv, ReadNothing PROVE RightInv'
  <1> DEFINE off == Position % block_size
             n == max_size - read_so_far
  <1>0. ReadMore
    BY DEF ReadNothing
  <1>1. /\ max_size \in Nat /\ max_size <= size /\ size \in Nat
        /\ read_so_far \in Nat /\ read_so_far < max_size /\ offset \in Nat
        /\ DOMAIN buf = 0 .. size - 1 /\ Position = offset + read_so_far
    BY <1>0, LoopFacts DEF Position
  <1>2. UNCHANGED <<medium, inode, offset, size, max_size, read_so_far>>
    BY DEF ReadNothing
  <1>3. \A k \in 0 .. read_so_far - 1 : buf'[k] = buf[k]
    <2>1. \/ buf' = buf
          \/ buf' = [k \in DOMAIN buf |->
                        IF k >= read_so_far /\ k < max_size THEN 0 ELSE buf[k]]
      BY DEF ReadNothing
    <2> QED BY <1>1, <2>1
  <1>4. RightWords'
    <2>1. SUFFICES ASSUME NEW k \in 0 .. read_so_far - 1, InOneRun(inode, offset, k + 1)
                   PROVE  buf'[k] = Word(inode, offset + k)
      BY <1>2 DEF RightWords, InOneRun, Word, BlocksOf
    <2> QED BY <1>3, <2>1 DEF RightInv, RightWords
  <1>5. SolidIsServed'
    <2>1. SUFFICES ASSUME medium = "sound", Solid(inode, offset, max_size) PROVE FALSE
      <3>1. max_size = Expected /\ Expected' = Expected
        BY <1>2 DEF IInv, Clamped, Expected
      <3>2. Solid(inode, offset, Expected)' => Solid(inode, offset, max_size)
        BY <1>2, <3>1 DEF Solid, BlocksOf
      <3> QED BY <1>2, <3>1, <3>2 DEF SolidIsServed
    <2>2. PICK block_no \in BlockNos : read_block(block_no, off, n) = 0
      BY DEF ReadNothing
    <2>3. /\ Position \div block_size \in BlocksOf(offset, max_size)
          /\ n \in Nat \ {0}
      <3>1. /\ offset \div block_size <= Position \div block_size
            /\ Position \div block_size <= (offset + max_size - 1) \div block_size
        BY <1>1, Lengths, DividedMore
      <3>2. /\ Position \div block_size \in Int /\ offset \div block_size \in Int
            /\ (offset + max_size - 1) \div block_size \in Int
        BY <1>1, Lengths, DividedInt
      <3> QED BY <1>1, <3>1, <3>2 DEF BlocksOf
    <2>4. /\ Position \div block_size < triple_ind_start_idx
          /\ Where[inode][Position \div block_size] # 0
      BY <2>1, <2>3 DEF Solid
    <2>5. read_block(block_no, off, n) > 0
      BY <1>0, <2>1, <2>3, <2>4, TurnsToRight
    <2> QED BY <2>2, <2>5
  <1> QED BY <1>4, <1>5 DEF RightInv

(* Everything asked for is read: it is what can be given. *)
LEMMA ReadEndRight ==
    ASSUME IInv, RightInv, ReadFails \/ ReadDone PROVE RightInv'
  <1>1. UNCHANGED <<medium, inode, offset, size, max_size, read_so_far, buf>>
    BY DEF ReadFails, ReadDone
  <1>2. RightWords'
    BY <1>1 DEF RightInv, RightWords, InOneRun, Word, BlocksOf
  <1>3. CASE ReadFails
    BY <1>1, <1>2, <1>3 DEF ReadFails, RightInv, SolidIsServed
  <1>4. CASE ReadDone
    <2>1. /\ max_size \in 0 .. size /\ size \in Nat /\ read_so_far \in 0 .. max_size
          /\ offset \in Nat /\ max_size = Expected /\ Expected' = Expected
      BY <1>1, RequestAssumption DEF IInv, TypeOK, Clamped, Expected
    <2>2. read_so_far = max_size /\ Answer(read_so_far)
      BY <1>4, <2>1 DEF ReadDone
    <2>3. inode.i_file_acl = 0 => answer' = max_size
      BY <2>1, <2>2 DEF Answer, sizeof_uint32_t
    <2>4. SolidIsServed'
      BY <1>1, <2>1, <2>3 DEF SolidIsServed
    <2> QED BY <1>2, <2>4 DEF RightInv
  <1> QED BY <1>3, <1>4

LEMMA NextRight ==
    ASSUME IInv, RightInv, [Next]_vars PROVE RightInv'
  <1>1. CASE \E f \in Files, o \in Offsets, n \in Sizes : ext2_read(f, o, n)
    BY <1>1 DEF ext2_read, RightInv, RightWords, SolidIsServed
  <1>2. CASE Read
    BY <1>2, ReadBlockDataRight, ReadNothingRight, ReadEndRight DEF Read
  <1>3. CASE Return
    BY <1>3 DEF Return, RightInv, RightWords, SolidIsServed
  <1>4. CASE UNCHANGED vars
    BY <1>4 DEF vars, RightInv, RightWords, InOneRun, Word, BlocksOf, SolidIsServed,
                Solid, Expected
  <1> QED BY <1>1, <1>2, <1>3, <1>4 DEF Next

LEMMA FileRight == Spec => [](IInv /\ RightInv)
  <1>1. IInv /\ RightInv /\ [Next]_vars => (IInv /\ RightInv)'
    BY NextIInv, NextRight
  <1> QED BY <1>1, InitIInv, InitRight, PTL DEF Spec

(* On a volume that is well made, each word read so far in the run of       *)
(* consecutive blocks the request starts in is the file's, in the direct,   *)
(* single- and double-indirect range, for every block size and every        *)
(* layout of the file.                                                      *)
THEOREM FileRightWords == Spec => []RightWords
  <1>1. RightInv => RightWords
    BY DEF RightInv
  <1> QED BY <1>1, FileRight, PTL

(* If no read fails, a request that meets neither a hole nor a triple-      *)
(* indirect block, for a file without extended attributes, is answered in   *)
(* full.                                                                    *)
THEOREM FileSolidIsServed == Spec => []SolidIsServed
  <1>1. RightInv => SolidIsServed
    BY DEF RightInv
  <1> QED BY <1>1, FileRight, PTL

----
(* When ext2_read does what the comments say.  A request lies in its file,  *)
(* and what is answered has been read.                                      *)
AnswerIsRead ==
    /\ offset <= inode.i_size
    /\ pc = "answered" /\ answer > 0 => read_so_far = max_size

LEMMA AnswerIsReadStays ==
    ASSUME IInv, AnswerIsRead, [Next]_vars PROVE AnswerIsRead'
  <1>1. /\ max_size \in Nat /\ read_so_far \in 0 .. max_size
    BY RequestAssumption DEF IInv, TypeOK
  <1>2. CASE \E f \in Files, o \in Offsets, n \in Sizes : ext2_read(f, o, n)
    BY <1>2 DEF ext2_read, AnswerIsRead, inode_file_size
  <1>3. CASE ReadBlockData
    BY <1>3 DEF ReadBlockData, ReadMore, AnswerIsRead
  <1>4. CASE ReadNothing \/ ReadFails
    <2>1. UNCHANGED <<inode, offset>> /\ (Answer(0) \/ Answer(-1))
      BY <1>4 DEF ReadNothing, ReadFails
    <2>2. ~(answer' > 0)
      BY <2>1 DEF Answer, EIO
    <2> QED BY <2>1, <2>2 DEF AnswerIsRead
  <1>5. CASE ReadDone
    BY <1>1, <1>5 DEF ReadDone, AnswerIsRead
  <1>6. CASE Return
    <2>1. inode.i_size \in Nat
      BY FileAssumption DEF IInv, TypeOK
    <2> QED BY <1>6, <2>1 DEF Return, AnswerIsRead
  <1>7. CASE UNCHANGED vars
    BY <1>7 DEF vars, AnswerIsRead
  <1> QED BY <1>2, <1>3, <1>4, <1>5, <1>6, <1>7 DEF Next, Read

LEMMA FileReads == Spec => [](IInv /\ RightInv /\ AnswerIsRead)
  <1>1. Init => AnswerIsRead
    BY FileAssumption DEF Init, AnswerIsRead
  <1>2. IInv /\ AnswerIsRead /\ [Next]_vars => AnswerIsRead'
    BY AnswerIsReadStays
  <1> QED BY <1>1, <1>2, FileRight, PTL DEF Spec

(* What an answered request is about. *)
LEMMA ExpectedInFile ==
    ASSUME IInv, AnswerIsRead
    PROVE  /\ inode \in Files /\ inode.i_size \in Nat /\ offset \in Nat /\ size \in Nat
           /\ Expected \in 0 .. size /\ offset + Expected <= inode.i_size
           /\ Expected # size => offset + size > inode.i_size
  <1>1. inode \in Files /\ offset \in Nat /\ size \in Nat /\ offset <= inode.i_size
    BY RequestAssumption DEF IInv, TypeOK, AnswerIsRead
  <1>2. inode.i_size \in Nat
    BY <1>1, FileAssumption
  <1> QED BY <1>1, <1>2 DEF Expected

(* A part of what words o .. o + n - 1 lie in.                              *)
LEMMA BlocksInside ==
    ASSUME NEW o \in Nat, NEW n \in Nat, NEW start \in Nat, start <= o,
           NEW m \in Nat, o + n <= start + m
    PROVE  BlocksOf(o, n) \subseteq BlocksOf(start, m)
  <1>1. start \div block_size <= o \div block_size
    BY Lengths, DividedMore
  <1>2. (o + n - 1) \div block_size <= (start + m - 1) \div block_size
    BY Lengths, DividedMore
  <1>3. /\ start \div block_size \in Int /\ o \div block_size \in Int
        /\ (o + n - 1) \div block_size \in Int /\ (start + m - 1) \div block_size \in Int
    BY Lengths, DividedInt
  <1> QED BY <1>1, <1>2, <1>3 DEF BlocksOf

(* Whatever the rest of the volume holds: a request for words whose blocks  *)
(* follow one another, in the direct, single- and double-indirect range, is *)
(* answered with the file's words.                                          *)
THEOREM FileRunIsContent ==
    Spec => [](pc = "answered" /\ InOneRun(inode, offset, Expected) =>
                  \A k \in 0 .. answer - 1 : buf[k] = Word(inode, offset + k))
  <1>1. ASSUME IInv, RightInv, AnswerIsRead, pc = "answered",
               InOneRun(inode, offset, Expected), NEW k \in 0 .. answer - 1
        PROVE  buf[k] = Word(inode, offset + k)
    <2>1. offset \in Nat /\ Expected \in Nat
      BY <1>1, ExpectedInFile
    <2>2. answer \in {Expected, 0, EIO}
      BY <1>1 DEF IInv, AllOrNothing
    <2>3. answer = Expected /\ k \in 0 .. Expected - 1 /\ answer > 0
      BY <2>1, <2>2 DEF EIO
    <2>4. read_so_far = Expected
      BY <1>1, <2>3 DEF AnswerIsRead, IInv, Clamped
    <2>5. BlocksOf(offset, k + 1) \subseteq BlocksOf(offset, Expected)
      <3>1. k + 1 \in Nat /\ offset <= offset /\ offset + (k + 1) <= offset + Expected
        BY <2>1, <2>3
      <3> QED BY <2>1, <3>1, BlocksInside
    <2>6. InOneRun(inode, offset, k + 1)
      BY <1>1, <2>5 DEF InOneRun
    <2> QED BY <1>1, <2>3, <2>4, <2>6 DEF RightInv, RightWords
  <1>2. IInv /\ RightInv /\ AnswerIsRead =>
           (pc = "answered" /\ InOneRun(inode, offset, Expected) =>
               \A k \in 0 .. answer - 1 : buf[k] = Word(inode, offset + k))
    BY <1>1
  <1> QED BY <1>2, FileReads, PTL

(* On a volume whose files each lie in one run of blocks, every answer is   *)
(* the content of the file: what refutes ReturnsFileContent is a file that  *)
(* is not written in one piece, or a triple-indirect block.                 *)
THEOREM FileReturnsContent ==
    ASSUME \A f \in Files : InOneRun(f, 0, f.i_size)
    PROVE  Spec => []ReturnsFileContent
  <1>1. ASSUME IInv, AnswerIsRead PROVE InOneRun(inode, offset, Expected)
    <2> DEFINE W == Where[inode]
               first == offset \div block_size
    <2>1. /\ inode \in Files /\ inode.i_size \in Nat /\ offset \in Nat
          /\ Expected \in Nat /\ offset + Expected <= inode.i_size
      BY <1>1, ExpectedInFile
    <2>2. /\ 0 \div block_size = 0 /\ first \in Nat
          /\ (offset + Expected - 1) \div block_size \in Int
      <3>1. block_size \in Nat \ {0} /\ offset + Expected - 1 \in Int
        BY <2>1, Lengths
      <3>2. 0 \div block_size = 0
        BY <3>1
      <3>3. first \in Nat
        BY <2>1, <3>1, Divided
      <3>4. (offset + Expected - 1) \div block_size \in Int
        BY <3>1, DividedInt
      <3> QED BY <3>2, <3>3, <3>4
    <2>3. BlocksOf(offset, Expected) \subseteq BlocksOf(0, inode.i_size)
      BY <2>1, BlocksInside
    <2>4. SUFFICES ASSUME NEW i \in BlocksOf(offset, Expected)
                   PROVE  /\ i < triple_ind_start_idx
                          /\ W[first] # 0
                          /\ W[i] = W[first] + (i - first)
      BY DEF InOneRun
    <2> HIDE DEF W
    <2>5. \A x \in BlocksOf(0, inode.i_size) :
             x < triple_ind_start_idx /\ W[0] # 0 /\ W[x] = W[0] + (x - 0)
      BY <2>1, <2>2 DEF InOneRun, W
    <2>6. i \in Int /\ first <= i /\ first \in BlocksOf(offset, Expected)
      BY <2>2 DEF BlocksOf
    <2> HIDE DEF first
    <2>7. /\ i < triple_ind_start_idx /\ W[0] # 0
          /\ W[i] = W[0] + (i - 0) /\ W[first] = W[0] + (first - 0)
      BY <2>3, <2>5, <2>6
    <2>8. W[0] \in Nat
      <3>1. 0 < triple_ind_start_idx
        <4> DEFINE n == block_size
                   m == n * n
        <4>1. n \in Nat /\ m \in Nat
          BY Lengths
        <4>2. triple_ind_start_idx = 12 + n + m
          BY DEF triple_ind_start_idx, double_ind_start_idx, single_ind_start_idx,
                 single_ind_entries, double_ind_entries
        <4> HIDE DEF n, m
        <4> QED BY <4>1, <4>2
      <3>2. InVolume(W[0])
        <4>1. 0 \in Nat /\ Where[inode][0] # 0
          BY <2>7 DEF W
        <4> QED BY <2>1, <3>1, <4>1, LookupRight DEF W
      <3> QED BY <3>2 DEF InVolume
    <2> QED BY <2>2, <2>6, <2>7, <2>8
  <1>2. IInv /\ AnswerIsRead /\
        (pc = "answered" /\ InOneRun(inode, offset, Expected) =>
            \A k \in 0 .. answer - 1 : buf[k] = Word(inode, offset + k))
        => ReturnsFileContent
    BY <1>1 DEF ReturnsFileContent
  <1> QED BY <1>2, FileReads, FileRunIsContent, PTL

(* On a volume that can be read, whose files have no holes, no triple-      *)
(* indirect blocks and no extended attributes, an answer is short only      *)
(* where the file ends: what refutes ShortOnlyAtEnd is one of these.        *)
THEOREM FileShortOnlyAtEnd ==
    ASSUME Disks = {"sound"},
           \A f \in Files : Solid(f, 0, f.i_size) /\ f.i_file_acl = 0
    PROVE  Spec => []ShortOnlyAtEnd
  <1>1. ASSUME IInv, RightInv, AnswerIsRead, pc = "answered", answer < size
        PROVE  offset + size > inode.i_size
    <2>1. /\ inode \in Files /\ inode.i_size \in Nat /\ offset \in Nat
          /\ Expected \in Nat /\ offset + Expected <= inode.i_size
          /\ Expected # size => offset + size > inode.i_size
      BY <1>1, ExpectedInFile
    <2>2. BlocksOf(offset, Expected) \subseteq BlocksOf(0, inode.i_size)
      BY <2>1, BlocksInside
    <2>3. Solid(inode, offset, Expected) /\ inode.i_file_acl = 0
      BY <2>1, <2>2 DEF Solid
    <2>4. medium = "sound" /\ size \in Nat
      BY <1>1, RequestAssumption DEF IInv, TypeOK
    <2>5. answer = Expected
      BY <1>1, <2>3, <2>4 DEF RightInv, SolidIsServed
    <2> QED BY <1>1, <2>1, <2>4, <2>5
  <1>2. IInv /\ RightInv /\ AnswerIsRead => ShortOnlyAtEnd
    BY <1>1 DEF ShortOnlyAtEnd
  <1> QED BY <1>2, FileReads, PTL

(* Every iteration that does not answer has read something, and no more     *)
(* than is left of the request: a call is answered within max_size          *)
(* iterations.                                                              *)
THEOREM FileAdvances ==
    Spec => [][pc = "reading" /\ pc' = "reading" =>
                  /\ UNCHANGED <<inode, offset, size, max_size>>
                  /\ read_so_far < read_so_far' /\ read_so_far' <= max_size]_vars
  <1>1. ASSUME IInv, Next, pc = "reading", pc' = "reading"
        PROVE  /\ UNCHANGED <<inode, offset, size, max_size>>
               /\ read_so_far < read_so_far' /\ read_so_far' <= max_size
    <2>1. ReadBlockData
      <3>1. /\ ~ReadNothing /\ ~ReadFails /\ ~ReadDone
            /\ \A f \in Files, o \in Offsets, n \in Sizes : ~ext2_read(f, o, n)
        BY <1>1 DEF ext2_read, ReadNothing, ReadFails, ReadDone, Answer
      <3>2. ~Return
        BY <1>1 DEF Return
      <3> QED BY <1>1, <3>1, <3>2 DEF Next, Read
    <2>2. /\ read_so_far \in Nat /\ max_size \in Nat /\ read_so_far < max_size
          /\ BlockNos \subseteq Nat /\ Position % block_size \in Int
      <3>1. ReadMore /\ IInv
        BY <1>1, <2>1 DEF ReadBlockData
      <3> QED BY <3>1, LoopFacts
    <2>3. PICK block_no \in BlockNos :
              LET rv == read_block(block_no, Position % block_size, max_size - read_so_far)
              IN  rv > 0 /\ read_so_far' = read_so_far + rv
      BY <2>1 DEF ReadBlockData
    <2>4. read_block(block_no, Position % block_size, max_size - read_so_far)
             \in 0 .. max_size - read_so_far
      <3>1. max_size - read_so_far \in Nat /\ block_no \in Nat
        BY <2>2
      <3> QED BY <2>2, <3>1, ReadBlockBounds
    <2> QED BY <2>1, <2>2, <2>3, <2>4 DEF ReadBlockData
  <1>2. IInv /\ [Next]_vars =>
           [pc = "reading" /\ pc' = "reading" =>
               /\ UNCHANGED <<inode, offset, size, max_size>>
               /\ read_so_far < read_so_far' /\ read_so_far' <= max_size]_vars
    BY <1>1
  <1> QED BY <1>2, FileReads, PTL DEF Spec
====
