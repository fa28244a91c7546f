---- MODULE Mask ----
(***************************************************************************)
(* The 3x3 mask over an image: baseMask of timemask.c and its versions     *)
(* mask1 to mask6 of mask.c, which must produce the same image.            *)
(*                                                                         *)
(* The steps are the loop nests.  Within a nest a cell is computed from    *)
(* oldImage and from itself only, so the order of the loops, in which the  *)
(* versions differ too, cannot be told from the result.                    *)
(***************************************************************************)
EXTENDS Integers, FiniteSets

CONSTANTS N,         \* the arrays are N x N, whatever the size of the image
          Versions   \* what MASK_VERSION may name; mask0 is baseMask

ASSUME SizeAssumption == N \in Nat \ {0}
ASSUME VersionsAssumption ==
    Versions \subseteq {"baseMask", "mask1", "mask2", "mask3", "mask4", "mask5", "mask6"}

VARIABLES version, rows, cols, oldImage,  \* the call
          newImage, weight, check,        \* its result and its locals
          step,                           \* the loop nests done
          pc  \* "idle" between calls, "nests", "divide", "done", "undefined"

call == <<version, rows, cols, oldImage>>
maskVars == <<call, newImage, weight, check, step, pc>>

WEIGHT_CENTRE == 4
WEIGHT_SIDE == 2
WEIGHT_CORNER == 1

Array == (0 .. N - 1) \X (0 .. N - 1)
Image == (0 .. rows - 1) \X (0 .. cols - 1)

(* Where the eight neighbours of a cell are. *)
Up == <<-1, 0>>
Down == <<1, 0>>
Left == <<0, -1>>
Right == <<0, 1>>
UpLeft == <<-1, -1>>
UpRight == <<-1, 1>>
DownLeft == <<1, -1>>
DownRight == <<1, 1>>
Sides == {Up, Down, Left, Right}
Corners == {UpLeft, UpRight, DownLeft, DownRight}

Neighbour(c, d) == <<c[1] + d[1], c[2] + d[2]>>

(* What the neighbours ds add to a cell, and to its weight. *)
Sum(c, ds) ==
    LET At(d) == IF d \in ds THEN oldImage[Neighbour(c, d)] ELSE 0
    IN  WEIGHT_SIDE * (At(Up) + At(Down) + At(Left) + At(Right))
          + WEIGHT_CORNER * (At(UpLeft) + At(UpRight) + At(DownLeft) + At(DownRight))

WeightOf_M(ds) ==  \* corners weighed like sides
    WEIGHT_SIDE * Cardinality(ds)

WeightOf(ds) ==
    LET One(d) == IF d \in ds THEN 1 ELSE 0
    IN  WEIGHT_SIDE * (One(Up) + One(Down) + One(Left) + One(Right))
          + WEIGHT_CORNER * (One(UpLeft) + One(UpRight) + One(DownLeft) + One(DownRight))

(* C divides towards zero. *)
Quotient(a, b) == IF a >= 0 THEN a \div b ELSE -((-a) \div b)

----
(* The arrays are static, so that they begin as zeros. *)
Zeros == [c \in Array |-> 0]

Idle ==
    /\ version = "baseMask" /\ rows = 0 /\ cols = 0
    /\ oldImage = Zeros /\ newImage = Zeros /\ weight = Zeros
    /\ check = 0 /\ step = 0 /\ pc = "idle"

(* A call of function v, with an image and with what newImage holds.        *)
Call(v, image, held) ==
    /\ pc = "idle"
    /\ version' = v
    /\ oldImage' = image
    /\ newImage' = held
    /\ weight' = Zeros
    /\ check' = 0
    /\ step' = 0
    /\ pc' = "nests"
    /\ UNCHANGED <<rows, cols>>

(* Nest number step leaves new and total in the cells of the image and of   *)
(* the weights, which reads cells; elsewhere they are undefined.            *)
Nest(cells, read, new(_), total(_), last) ==
    /\ IF cells \cup read \subseteq Array
       THEN /\ newImage' = [c \in Array |-> IF c \in cells THEN new(c) ELSE newImage[c]]
            /\ weight' = [c \in Array |-> IF c \in cells THEN total(c) ELSE weight[c]]
            /\ pc' = IF step = last THEN "divide" ELSE "nests"
            /\ step' = step + 1
       ELSE pc' = "undefined" /\ UNCHANGED <<newImage, weight, step>>
    /\ UNCHANGED <<call, check>>

(* What every version sets a cell to before its neighbours are added.       *)
Centre(c) == WEIGHT_CENTRE * oldImage[c]
Read(cells, ds) == {Neighbour(c, d) : c \in cells, d \in ds}

----
(* baseMask, mask1 and mask2: one nest for the centres, then one for each   *)
(* neighbour, in this order, over the cells the loop bounds give.           *)
Nests ==
    << [toward |-> UpLeft, cells |-> (1 .. rows - 1) \X (1 .. cols - 1)],
       [toward |-> Up, cells |-> (1 .. rows - 1) \X (0 .. cols - 1)],
       [toward |-> UpRight, cells |-> (1 .. rows - 1) \X (0 .. cols - 2)],
       [toward |-> Left, cells |-> (0 .. rows - 1) \X (1 .. cols - 1)],
       [toward |-> Right, cells |-> (0 .. rows - 1) \X (0 .. cols - 2)],
       [toward |-> DownLeft, cells |-> (0 .. rows - 2) \X (1 .. cols - 1)],
       [toward |-> Down, cells |-> (0 .. rows - 2) \X (0 .. cols - 1)],
       [toward |-> DownRight, cells |-> (0 .. rows - 2) \X (0 .. cols - 2)] >>

SetCentres_M ==  \* of the arrays, not of the image
    step = 0 /\ Nest(Array, {}, Centre, LAMBDA c : WEIGHT_CENTRE, 8)

SetCentres ==
    step = 0 /\ Nest(Image, {}, Centre, LAMBDA c : WEIGHT_CENTRE, 8)

AddNeighbours_M ==  \* the nest of Right is a copy of that of Left
    /\ step \in 1 .. 8
    /\ LET n == Nests[IF step = 5 THEN 4 ELSE step]
           ds == {n.toward}
       IN  Nest(n.cells, Read(n.cells, ds),
                LAMBDA c : newImage[c] + Sum(c, ds),
                LAMBDA c : weight[c] + WeightOf(ds), 8)

AddNeighbours ==
    /\ step \in 1 .. 8
    /\ LET n == Nests[step]
           ds == {n.toward}
       IN  Nest(n.cells, Read(n.cells, ds),
                LAMBDA c : newImage[c] + Sum(c, ds),
                LAMBDA c : weight[c] + WeightOf(ds), 8)

baseMask == pc = "nests" /\ version = "baseMask" /\ (SetCentres \/ AddNeighbours)
mask1 == pc = "nests" /\ version = "mask1" /\ (SetCentres \/ AddNeighbours)
mask2 == pc = "nests" /\ version = "mask2" /\ (SetCentres \/ AddNeighbours)

----
Tested_M(c) == Sides \cup Corners  \* no tests

(* mask3 and mask4: one nest, with a test for each neighbour.               *)
Tested(c) ==
    LET i == c[1]
        j == c[2]
    IN  {d \in Sides \cup Corners :
            CASE d = UpLeft -> i - 1 >= 0 /\ j - 1 >= 0
              [] d = Up -> i - 1 >= 0
              [] d = UpRight -> i - 1 >= 0 /\ j + 1 < cols
              [] d = Left -> j - 1 >= 0
              [] d = Right -> j + 1 < cols
              [] d = DownLeft -> i + 1 < rows /\ j - 1 >= 0
              [] d = Down -> i + 1 < rows
              [] d = DownRight -> i + 1 < rows /\ j + 1 < cols}

TestedInside_M(c) ==  \* the test of the row forgotten for one corner
    LET i == c[1]
        j == c[2]
        Both(side, inside, corner, further) ==
            IF inside THEN IF further THEN {side, corner} ELSE {side} ELSE {}
    IN  Both(Up, i - 1 >= 0, UpRight, j + 1 < cols)
          \cup Both(Left, j - 1 >= 0, UpLeft, i - 1 >= 0)
          \cup Both(Right, j + 1 < cols, DownRight, TRUE)
          \cup Both(Down, i + 1 < rows, DownLeft, j - 1 >= 0)

(* mask5: each corner is tested where a side next to it is known to be.     *)
TestedInside(c) ==
    LET i == c[1]
        j == c[2]
        Both(side, inside, corner, further) ==
            IF inside THEN IF further THEN {side, corner} ELSE {side} ELSE {}
    IN  Both(Up, i - 1 >= 0, UpRight, j + 1 < cols)
          \cup Both(Left, j - 1 >= 0, UpLeft, i - 1 >= 0)
          \cup Both(Right, j + 1 < cols, DownRight, i + 1 < rows)
          \cup Both(Down, i + 1 < rows, DownLeft, j - 1 >= 0)

CellByCell(tested(_)) ==
    /\ pc = "nests"
    /\ Nest(Image, UNION {Read({c}, tested(c)) : c \in Image},
            LAMBDA c : Centre(c) + Sum(c, tested(c)),
            LAMBDA c : WEIGHT_CENTRE + WeightOf(tested(c)), 0)

mask3 == version = "mask3" /\ CellByCell(Tested)
mask4 == version = "mask4" /\ CellByCell(Tested)
mask5 == version = "mask5" /\ CellByCell(TestedInside)

----
(* mask6: no tests, but a nest for the middle, the four sides and the four  *)
(* corners of the image; sides and corners are how many of each it weighs.  *)
Regions ==
    LET Part(cells, ds, sides, corners) ==
            [cells |-> cells, ds |-> ds,
             weight |-> WEIGHT_CENTRE + sides * WEIGHT_SIDE + corners * WEIGHT_CORNER]
    IN  << Part((1 .. rows - 2) \X (1 .. cols - 2), Sides \cup Corners, 4, 4),
           Part({rows - 1} \X (1 .. cols - 2), {Left, Up, Right, UpLeft, UpRight}, 3, 2),
           Part({0} \X (1 .. cols - 2), {Left, Down, Right, DownLeft, DownRight}, 3, 2),
           Part((1 .. rows - 2) \X {0}, {Up, Right, Down, UpRight, DownRight}, 3, 2),
           Part((1 .. rows - 2) \X {cols - 1}, {Up, Left, Down, UpLeft, DownLeft}, 3, 2),
           Part({<<0, 0>>}, {DownRight, Right, Down}, 2, 1),
           Part({<<0, cols - 1>>}, {DownLeft, Left, Down}, 2, 1),
           Part({<<rows - 1, 0>>}, {UpRight, Right, Up}, 2, 1),
           Part({<<rows - 1, cols - 1>>}, {UpLeft, Left, Up}, 2, 1) >>

mask6 ==
    /\ pc = "nests" /\ version = "mask6"
    /\ LET r == Regions[step + 1]
       IN  Nest(r.cells, Read(r.cells, r.ds),
                LAMBDA c : Centre(c) + Sum(c, r.ds), LAMBDA c : r.weight, 8)

----
(* The k-th cell of the image, from 0, and the sum of its cells, row by row. *)
Cell(k) == <<k \div cols, k % cols>>

Total(image) ==
    LET n == rows * cols
        cells == [k \in 0 .. n - 1 |-> image[Cell(k)]]
        sum[k \in 0 .. n] == IF k = 0 THEN 0 ELSE sum[k - 1] + cells[k - 1]
    IN  sum[n]

Divide_M ==  \* adds a cell to the sum before it is divided
    /\ pc = "divide"
    /\ newImage' = [c \in Array |-> IF c \in Image
                                   THEN Quotient(newImage[c], weight[c]) ELSE newImage[c]]
    /\ check' = Total(newImage)
    /\ pc' = "done"
    /\ UNCHANGED <<call, weight, step>>

(* The last nest of every version: the weighted average, and its sum.       *)
Divide ==
    /\ pc = "divide"
    /\ IF \E c \in Image : weight[c] = 0
       THEN pc' = "undefined" /\ UNCHANGED <<newImage, check>>
       ELSE /\ newImage' = [c \in Array |-> IF c \in Image
                                            THEN Quotient(newImage[c], weight[c])
                                            ELSE newImage[c]]
            /\ check' = Total(newImage')
            /\ pc' = "done"
    /\ UNCHANGED <<call, weight, step>>

mask == mask1 \/ mask2 \/ mask3 \/ mask4 \/ mask5 \/ mask6

Compute == baseMask \/ mask \/ Divide
====
