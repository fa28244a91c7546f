---- MODULE MaskProperties ----
(***************************************************************************)
(* What every version of the mask must do (module Mask): mask.c:10 asks of *)
(* all versions "a correct result", which is baseMask's; and of the program  *)
(* that times them (module TimeMask).                                      *)
(***************************************************************************)
EXTENDS TimeMask

(* The neighbours a cell has in the image. *)
InImage(c) == {d \in Sides \cup Corners : Neighbour(c, d) \in Image}

(* What a correct result weighs a cell with, and what it sets it to.        *)
FullWeight(c) == WEIGHT_CENTRE + WeightOf(InImage(c))
Average(c) == Quotient(Centre(c) + Sum(c, InImage(c)), FullWeight(c))

(* A cell holds itself and the neighbours ds, but is not divided yet. *)
Weighed(c, ds) ==
    weight[c] = WEIGHT_CENTRE + WeightOf(ds) /\ newImage[c] = Centre(c) + Sum(c, ds)

(* mask6 is written for images of two rows and two columns or more.         *)
Thin == version = "mask6" /\ (rows < 2 \/ cols < 2)

KeepsOutside ==
    \A c \in Array \ Image : newImage'[c] = newImage[c] /\ weight'[c] = weight[c]

----
(* How many values white may have: what two bytes hold. *)
Whites == 65536

TypeOK ==
    /\ version \in Versions \cup {"baseMask"}
    /\ rows \in 0 .. N /\ cols \in 0 .. N
    /\ oldImage \in [Array -> Int]
    /\ newImage \in [Array -> Int]
    /\ weight \in [Array -> 0 .. WEIGHT_CENTRE + 4 * WEIGHT_SIDE + 4 * WEIGHT_CORNER]
    /\ check \in Int
    /\ step \in 0 .. 9
    /\ pc \in {"idle", "nests", "divide", "done", "undefined"}
    /\ \E c \in Commands : file = c.file /\ ntrials = c.ntrials
    /\ white \in Nat /\ white < Whites
    /\ baseAnswer \in [Array -> Int]
    /\ phase \in {"open", "header", "loops", "pixels", "image", "answer", "base", "mask",
                  "save", "exit"}
    /\ trial \in Nat
    /\ problems \in BOOLEAN
    /\ status \in {Running, "-2", "0", "divided by zero"}

(* Every version leaves in each cell the weighted average of the cell and   *)
(* the neighbours it has, whatever newImage held before, and returns the    *)
(* sum of the cells.                                                        *)
WeightedAverage ==
    pc = "done" /\ ~Thin =>
        /\ \A c \in Image : newImage[c] = Average(c)
        /\ check = Total([c \in Image |-> Average(c)])

(* At every step, a cell that has been set holds itself and some of its     *)
(* neighbours in the image, the same ones in its sum and in its weight and  *)
(* each of them once; after the last nest, these are all it has.  (Sides    *)
(* weigh the same, and so do corners: the weight tells how many there are,  *)
(* and the sum, in images whose pixels differ, which.)                      *)
EveryNeighbourOnce ==
    pc \in {"nests", "divide"} /\ ~Thin => \A c \in Image :
        /\ weight[c] = 0 \/ \E ds \in SUBSET InImage(c) : Weighed(c, ds)
        /\ pc = "divide" => Weighed(c, InImage(c))

(* No step of a call writes outside the image, neither to newImage nor to   *)
(* the weights: what memset has left there stays.                           *)
OutsideUntouched ==
    [][~Thin /\ pc \in {"nests", "divide"} => KeepsOutside]_vars

(* Only mask6 reads or writes outside the arrays or divides by 0, and only  *)
(* on an image with fewer than two rows or columns.                         *)
UndefinedOnlyIfThin == pc = "undefined" => Thin

----
(* The header of f is the tokens at p, columns, rows and white, among       *)
(* comments.                                                                *)
Marks(f, p) ==
    /\ p \in [1 .. 3 -> DOMAIN f.header] /\ p[1] < p[2] /\ p[2] < p[3]
    /\ \A i \in 1 .. 3 : f.header[p[i]] \in [number : Nat]
    /\ \A t \in DOMAIN f.header :
          t \in {p[1], p[2], p[3]} \/ f.header[t] = [text |-> Comment]

(* A file that holds what its header says, a byte for each pixel. *)
Whole(f) ==
    /\ f.kind = "P5" /\ f.space
    /\ \E p \in [1 .. 3 -> DOMAIN f.header] :
          LET said(i) == f.header[p[i]].number
          IN  /\ Marks(f, p)
              /\ said(1) <= N /\ said(2) <= N /\ said(3) < 256
              /\ Len(f.bytes) >= said(1) * said(2)

(* What is saved after at least one trial, read back by the program, is the *)
(* image of averages: rows, columns and pixels are where readImage looks    *)
(* for them, and no average is lost in a byte.                              *)
SavedReadsBack ==
    ntrials > 0 /\ Whole(file) /\ ~Thin => \A f \in saved :
        /\ Whole(f)
        /\ <<f.header[1].number, f.header[2].number>> = <<cols, rows>>
        /\ \A c \in Image : f.bytes[c[1] * cols + c[2] + 1] = Average(c)

(* With such a file, a number of trials other than 0 and a version written  *)
(* for its size, main gets to its end, and no trial is reported to differ   *)
(* from the answer though each begins on other garbage.                     *)
MainSucceeds ==
    Whole(file) /\ ntrials # 0 => <>(Thin \/ (status = "0" /\ ~problems))
====
