---- MODULE MaskProofs ----
(***************************************************************************)
(* Theorems about the mask and the program that times it, for arrays of    *)
(* any size, any file and any number of trials: that all versions leave    *)
(* the same image, the weighted averages, without a step outside the       *)
(* arrays, and that the file the program saves is that image.              *)
(*                                                                         *)
(* CallInv is the inductive invariant of a call: between two nests, a cell *)
(* is weighed with the neighbours that the nests behind have added to it,  *)
(* or with all of them.  ProgramInv is the program's around it: what the   *)
(* tokens left of the header mark, that the pixels are bytes when the file *)
(* is whole, and that the last result stays until it is saved.             *)
(***************************************************************************)
EXTENDS MaskProperties, NatLemmas, TLAPS

(* The directions, and an image that fits into the arrays. *)
Neighbours == Sides \cup Corners
Dims == rows \in 0 .. N /\ cols \in 0 .. N

(* The eight directions are eight. *)
LEMMA Directions ==
    /\ Neighbours = {Up, Down, Left, Right, UpLeft, UpRight, DownLeft, DownRight}
    /\ Up # Down /\ Up # Left /\ Up # Right /\ Up # UpLeft /\ Up # UpRight
    /\ Up # DownLeft /\ Up # DownRight /\ Down # Left /\ Down # Right
    /\ Down # UpLeft /\ Down # UpRight /\ Down # DownLeft /\ Down # DownRight
    /\ Left # Right /\ Left # UpLeft /\ Left # UpRight /\ Left # DownLeft
    /\ Left # DownRight /\ Right # UpLeft /\ Right # UpRight /\ Right # DownLeft
    /\ Right # DownRight /\ UpLeft # UpRight /\ UpLeft # DownLeft /\ UpLeft # DownRight
    /\ UpRight # DownLeft /\ UpRight # DownRight /\ DownLeft # DownRight
<1>1. Neighbours = {Up, Down, Left, Right, UpLeft, UpRight, DownLeft, DownRight}
  BY DEF Neighbours, Sides, Corners
<1> QED BY <1>1 DEF Up, Down, Left, Right, UpLeft, UpRight, DownLeft, DownRight

(* A weight is a number, and a neighbour more adds its own to it. *)
LEMMA WeightOfRange ==
    ASSUME NEW ds
    PROVE  WeightOf(ds) \in 0 .. 12
BY DEF WeightOf, WEIGHT_SIDE, WEIGHT_CORNER

LEMMA WeightOfNone == WeightOf({}) = 0
BY DEF WeightOf, WEIGHT_SIDE, WEIGHT_CORNER

LEMMA WeightOfOneMore ==
    ASSUME NEW ds, NEW d \in Neighbours, d \notin ds
    PROVE  WeightOf(ds \cup {d}) = WeightOf(ds) + WeightOf({d})
<1> DEFINE One(e, es) == IF e \in es THEN 1 ELSE 0
<1>1. \A e, es : One(e, es) \in {0, 1}
  OBVIOUS
<1>2. \A e : One(e, ds \cup {d}) = One(e, ds) + One(e, {d})
  OBVIOUS
<1>3. \A es : WeightOf(es) = 2 * (One(Up, es) + One(Down, es) + One(Left, es) + One(Right, es))
                  + 1 * (One(UpLeft, es) + One(UpRight, es) + One(DownLeft, es) + One(DownRight, es))
  BY DEF WeightOf, WEIGHT_SIDE, WEIGHT_CORNER
<1> HIDE DEF One
<1> QED BY <1>1, <1>2, <1>3

(* The same of the pixels. *)
Pixels(c, ds) == \A d \in ds \cap Neighbours : oldImage[Neighbour(c, d)] \in Int

LEMMA SumInt ==
    ASSUME NEW c, NEW ds, Pixels(c, ds)
    PROVE  Sum(c, ds) \in Int
<1> DEFINE At(e) == IF e \in ds THEN oldImage[Neighbour(c, e)] ELSE 0
<1>1. \A e \in Neighbours : At(e) \in Int
  BY DEF Pixels
<1>2. Sum(c, ds) = 2 * (At(Up) + At(Down) + At(Left) + At(Right))
                    + 1 * (At(UpLeft) + At(UpRight) + At(DownLeft) + At(DownRight))
  BY DEF Sum, WEIGHT_SIDE, WEIGHT_CORNER
<1> HIDE DEF At
<1> QED BY <1>1, <1>2, Directions

LEMMA SumOfNone == ASSUME NEW c PROVE Sum(c, {}) = 0
BY DEF Sum, WEIGHT_SIDE, WEIGHT_CORNER

LEMMA SumOneMore ==
    ASSUME NEW c, NEW ds, NEW d \in Neighbours, d \notin ds, Pixels(c, ds \cup {d})
    PROVE  Sum(c, ds \cup {d}) = Sum(c, ds) + Sum(c, {d})
<1> DEFINE At(e, es) == IF e \in es THEN oldImage[Neighbour(c, e)] ELSE 0
<1>1. \A e \in Neighbours : At(e, ds) \in Int /\ At(e, {d}) \in Int
  BY DEF Pixels
<1>2. \A e \in Neighbours : At(e, ds \cup {d}) = At(e, ds) + At(e, {d})
  BY DEF Pixels
<1>3. \A es : Sum(c, es) = 2 * (At(Up, es) + At(Down, es) + At(Left, es) + At(Right, es))
                  + 1 * (At(UpLeft, es) + At(UpRight, es) + At(DownLeft, es) + At(DownRight, es))
  BY DEF Sum, WEIGHT_SIDE, WEIGHT_CORNER
<1> HIDE DEF At
<1> QED BY <1>1, <1>2, <1>3, Directions

----
(* Every nest of the first versions adds a neighbour to the cells that have *)
(* it, ...                                                                  *)
LEMMA NestExact ==
    ASSUME Dims, NEW k \in 1 .. 8, NEW c \in Image
    PROVE  c \in Nests[k].cells <=> Nests[k].toward \in InImage(c)
<1>1. Nests[k].toward \in Sides \cup Corners
  BY DEF Nests, Sides, Corners
<1>2. c \in Nests[k].cells <=> Neighbour(c, Nests[k].toward) \in Image
  BY DEF Dims, Nests, Image, Neighbour, Up, Down, Left, Right,
         UpLeft, UpRight, DownLeft, DownRight
<1> QED BY <1>1, <1>2 DEF InImage

(* ... all eight of them, one after the other. *)
LEMMA NestsAll ==
    /\ {Nests[k].toward : k \in 1 .. 8} = Neighbours
    /\ \A k, j \in 1 .. 8 : k # j => Nests[k].toward # Nests[j].toward
<1>1. /\ Nests[1].toward = UpLeft /\ Nests[2].toward = Up /\ Nests[3].toward = UpRight
      /\ Nests[4].toward = Left /\ Nests[5].toward = Right
      /\ Nests[6].toward = DownLeft /\ Nests[7].toward = Down /\ Nests[8].toward = DownRight
  BY DEF Nests
<1> DEFINE t(k) == Nests[k].toward
<1>2. /\ t(1) = UpLeft /\ t(2) = Up /\ t(3) = UpRight /\ t(4) = Left /\ t(5) = Right
      /\ t(6) = DownLeft /\ t(7) = Down /\ t(8) = DownRight
  BY <1>1
<1> HIDE DEF t
<1>3. 1 .. 8 = {1, 2, 3, 4, 5, 6, 7, 8}
  OBVIOUS
<1>4. {t(k) : k \in {1, 2, 3, 4, 5, 6, 7, 8}} = Neighbours
  BY <1>2, Directions
<1>5. \A k, j \in {1, 2, 3, 4, 5, 6, 7, 8} : k # j => t(k) # t(j)
  BY <1>2, Directions
<1> QED BY <1>3, <1>4, <1>5 DEF t

(* The neighbours a cell has, by its row and its column. *)
Within(c, d) ==
    /\ 0 <= c[1] + d[1] /\ c[1] + d[1] < rows
    /\ 0 <= c[2] + d[2] /\ c[2] + d[2] < cols

LEMMA HasWithin ==
    ASSUME Dims, NEW c \in Image
    PROVE  /\ c[1] \in 0 .. rows - 1 /\ c[2] \in 0 .. cols - 1
           /\ InImage(c) = {d \in Neighbours : Within(c, d)}
<1>1. c = <<c[1], c[2]>> /\ c[1] \in 0 .. rows - 1 /\ c[2] \in 0 .. cols - 1
  BY DEF Image
<1>2. ASSUME NEW d \in Neighbours
      PROVE  Neighbour(c, d) \in Image <=> Within(c, d)
  <2>1. d[1] \in Int /\ d[2] \in Int
    BY DEF Neighbours, Sides, Corners, Up, Down, Left, Right,
           UpLeft, UpRight, DownLeft, DownRight
  <2> QED BY <1>1, <2>1 DEF Dims, Image, Neighbour, Within
<1> QED BY <1>1, <1>2 DEF InImage, Neighbours

(* The tests let through the neighbours a cell has, ... *)
LEMMA TestedExact ==
    ASSUME Dims, NEW c \in Image
    PROVE  Tested(c) = InImage(c)
<1>1. c[1] \in 0 .. rows - 1 /\ c[2] \in 0 .. cols - 1
  BY HasWithin
<1>2. ASSUME NEW d \in Neighbours
      PROVE  d \in Tested(c) <=> Within(c, d)
  <2>e. d \in Sides \cup Corners
    BY DEF Neighbours
  <2>1. CASE d = Up
    <3>1. d \in Tested(c) <=> c[1] - 1 >= 0
      BY <2>e, <2>1, Directions DEF Tested
    <3> QED BY <1>1, <3>1, <2>1 DEF Dims, Within, Up
  <2>2. CASE d = Down
    <3>1. d \in Tested(c) <=> c[1] + 1 < rows
      BY <2>e, <2>2, Directions DEF Tested
    <3> QED BY <1>1, <3>1, <2>2 DEF Dims, Within, Down
  <2>3. CASE d = Left
    <3>1. d \in Tested(c) <=> c[2] - 1 >= 0
      BY <2>e, <2>3, Directions DEF Tested
    <3> QED BY <1>1, <3>1, <2>3 DEF Dims, Within, Left
  <2>4. CASE d = Right
    <3>1. d \in Tested(c) <=> c[2] + 1 < cols
      BY <2>e, <2>4, Directions DEF Tested
    <3> QED BY <1>1, <3>1, <2>4 DEF Dims, Within, Right
  <2>5. CASE d = UpLeft
    <3>1. d \in Tested(c) <=> c[1] - 1 >= 0 /\ c[2] - 1 >= 0
      BY <2>e, <2>5, Directions DEF Tested
    <3> QED BY <1>1, <3>1, <2>5 DEF Dims, Within, UpLeft
  <2>6. CASE d = UpRight
    <3>1. d \in Tested(c) <=> c[1] - 1 >= 0 /\ c[2] + 1 < cols
      BY <2>e, <2>6, Directions DEF Tested
    <3> QED BY <1>1, <3>1, <2>6 DEF Dims, Within, UpRight
  <2>7. CASE d = DownLeft
    <3>1. d \in Tested(c) <=> c[1] + 1 < rows /\ c[2] - 1 >= 0
      BY <2>e, <2>7, Directions DEF Tested
    <3> QED BY <1>1, <3>1, <2>7 DEF Dims, Within, DownLeft
  <2>8. CASE d = DownRight
    <3>1. d \in Tested(c) <=> c[1] + 1 < rows /\ c[2] + 1 < cols
      BY <2>e, <2>8, Directions DEF Tested
    <3> QED BY <1>1, <3>1, <2>8 DEF Dims, Within, DownRight
  <2> QED BY <2>1, <2>2, <2>3, <2>4, <2>5, <2>6, <2>7, <2>8, Directions
<1>3. Tested(c) \subseteq Neighbours
  BY DEF Tested, Neighbours
<1> QED BY <1>2, <1>3, HasWithin

(* ... also where mask5 has nested them, ... *)
LEMMA TestedInsideExact ==
    ASSUME Dims, NEW c \in Image
    PROVE  TestedInside(c) = InImage(c)
<1>1. c[1] \in 0 .. rows - 1 /\ c[2] \in 0 .. cols - 1
  BY HasWithin
<1>2. ASSUME NEW d \in Neighbours
      PROVE  d \in TestedInside(c) <=> Within(c, d)
  <2>e. d \in Sides \cup Corners
    BY DEF Neighbours
  <2>1. CASE d = Up
    <3>1. d \in TestedInside(c) <=> c[1] - 1 >= 0
      BY <2>e, <2>1, Directions DEF TestedInside
    <3> QED BY <1>1, <3>1, <2>1 DEF Dims, Within, Up
  <2>2. CASE d = Down
    <3>1. d \in TestedInside(c) <=> c[1] + 1 < rows
      BY <2>e, <2>2, Directions DEF TestedInside
    <3> QED BY <1>1, <3>1, <2>2 DEF Dims, Within, Down
  <2>3. CASE d = Left
    <3>1. d \in TestedInside(c) <=> c[2] - 1 >= 0
      BY <2>e, <2>3, Directions DEF TestedInside
    <3> QED BY <1>1, <3>1, <2>3 DEF Dims, Within, Left
  <2>4. CASE d = Right
    <3>1. d \in TestedInside(c) <=> c[2] + 1 < cols
      BY <2>e, <2>4, Directions DEF TestedInside
    <3> QED BY <1>1, <3>1, <2>4 DEF Dims, Within, Right
  <2>5. CASE d = UpLeft
    <3>1. d \in TestedInside(c) <=> c[1] - 1 >= 0 /\ c[2] - 1 >= 0
      BY <2>e, <2>5, Directions DEF TestedInside
    <3> QED BY <1>1, <3>1, <2>5 DEF Dims, Within, UpLeft
  <2>6. CASE d = UpRight
    <3>1. d \in TestedInside(c) <=> c[1] - 1 >= 0 /\ c[2] + 1 < cols
      BY <2>e, <2>6, Directions DEF TestedInside
    <3> QED BY <1>1, <3>1, <2>6 DEF Dims, Within, UpRight
  <2>7. CASE d = DownLeft
    <3>1. d \in TestedInside(c) <=> c[1] + 1 < rows /\ c[2] - 1 >= 0
      BY <2>e, <2>7, Directions DEF TestedInside
    <3> QED BY <1>1, <3>1, <2>7 DEF Dims, Within, DownLeft
  <2>8. CASE d = DownRight
    <3>1. d \in TestedInside(c) <=> c[1] + 1 < rows /\ c[2] + 1 < cols
      BY <2>e, <2>8, Directions DEF TestedInside
    <3> QED BY <1>1, <3>1, <2>8 DEF Dims, Within, DownRight
  <2> QED BY <2>1, <2>2, <2>3, <2>4, <2>5, <2>6, <2>7, <2>8, Directions
<1>3. TestedInside(c) \subseteq Neighbours
  BY DEF TestedInside, Neighbours, Sides, Corners
<1> QED BY <1>2, <1>3, HasWithin

(* ... and so does mask6 without tests, by the region, with its weight, if  *)
(* the image has two rows and two columns at least.                         *)
LEMMA RegionExact ==
    ASSUME Dims, rows >= 2, cols >= 2, NEW k \in 1 .. 9, NEW c \in Regions[k].cells
    PROVE  /\ c \in Image /\ Regions[k].ds = InImage(c)
           /\ Regions[k].weight = FullWeight(c)
<1> DEFINE ds == Regions[k].ds
<1>1. c \in Image
  BY DEF Dims, Regions, Image
<1>2. ASSUME NEW d \in Neighbours
      PROVE  d \in ds <=> Within(c, d)
  <2> USE DEF Dims, Regions, Within
  <2>e. d \in {Up, Down, Left, Right, UpLeft, UpRight, DownLeft, DownRight}
    BY Directions
  <2>d. k \in {1, 2, 3, 4, 5, 6, 7, 8, 9}
    OBVIOUS
  <2>1. CASE k = 1
    <3>1. ds = Regions[1].ds /\ c \in Regions[1].cells
      BY <2>1
    <3> QED BY <3>1, <2>e, Directions DEF Sides, Corners, Up, Down, Left, Right, UpLeft, UpRight, DownLeft, DownRight
  <2>2. CASE k = 2
    <3>1. ds = Regions[2].ds /\ c \in Regions[2].cells
      BY <2>2
    <3> QED BY <3>1, <2>e, Directions DEF Sides, Corners, Up, Down, Left, Right, UpLeft, UpRight, DownLeft, DownRight
  <2>3. CASE k = 3
    <3>1. ds = Regions[3].ds /\ c \in Regions[3].cells
      BY <2>3
    <3> QED BY <3>1, <2>e, Directions DEF Sides, Corners, Up, Down, Left, Right, UpLeft, UpRight, DownLeft, DownRight
  <2>4. CASE k = 4
    <3>1. ds = Regions[4].ds /\ c \in Regions[4].cells
      BY <2>4
    <3> QED BY <3>1, <2>e, Directions DEF Sides, Corners, Up, Down, Left, Right, UpLeft, UpRight, DownLeft, DownRight
  <2>5. CASE k = 5
    <3>1. ds = Regions[5].ds /\ c \in Regions[5].cells
      BY <2>5
    <3> QED BY <3>1, <2>e, Directions DEF Sides, Corners, Up, Down, Left, Right, UpLeft, UpRight, DownLeft, DownRight
  <2>6. CASE k = 6
    <3>1. ds = Regions[6].ds /\ c \in Regions[6].cells
      BY <2>6
    <3> QED BY <3>1, <2>e, Directions DEF Sides, Corners, Up, Down, Left, Right, UpLeft, UpRight, DownLeft, DownRight
  <2>7. CASE k = 7
    <3>1. ds = Regions[7].ds /\ c \in Regions[7].cells
      BY <2>7
    <3> QED BY <3>1, <2>e, Directions DEF Sides, Corners, Up, Down, Left, Right, UpLeft, UpRight, DownLeft, DownRight
  <2>8. CASE k = 8
    <3>1. ds = Regions[8].ds /\ c \in Regions[8].cells
      BY <2>8
    <3> QED BY <3>1, <2>e, Directions DEF Sides, Corners, Up, Down, Left, Right, UpLeft, UpRight, DownLeft, DownRight
  <2>9. CASE k = 9
    <3>1. ds = Regions[9].ds /\ c \in Regions[9].cells
      BY <2>9
    <3> QED BY <3>1, <2>e, Directions DEF Sides, Corners, Up, Down, Left, Right, UpLeft, UpRight, DownLeft, DownRight
  <2> QED BY <2>d, <2>1, <2>2, <2>3, <2>4, <2>5, <2>6, <2>7, <2>8, <2>9
<1>3. ds \subseteq Neighbours
  BY DEF Regions, Neighbours, Sides, Corners
<1>4. ds = InImage(c)
  BY <1>1, <1>2, <1>3, HasWithin
<1>5. Regions[k].weight = WEIGHT_CENTRE + WeightOf(ds)
  <2>d. k \in {1, 2, 3, 4, 5, 6, 7, 8, 9}
    OBVIOUS
  <2>1. CASE k = 1
    <3>1. ds = Sides \cup Corners /\ Regions[k].weight = 16
      BY <2>1 DEF Regions, WEIGHT_CENTRE, WEIGHT_SIDE, WEIGHT_CORNER
    <3> HIDE DEF ds
    <3>2. WeightOf(ds) = 12
      BY <3>1, Directions DEF WeightOf, WEIGHT_SIDE, WEIGHT_CORNER, Sides, Corners
    <3> QED BY <3>1, <3>2 DEF WEIGHT_CENTRE
  <2>2. CASE k = 2
    <3>1. ds = {Left, Up, Right, UpLeft, UpRight} /\ Regions[k].weight = 12
      BY <2>2 DEF Regions, WEIGHT_CENTRE, WEIGHT_SIDE, WEIGHT_CORNER
    <3> HIDE DEF ds
    <3>2. WeightOf(ds) = 8
      BY <3>1, Directions DEF WeightOf, WEIGHT_SIDE, WEIGHT_CORNER
    <3> QED BY <3>1, <3>2 DEF WEIGHT_CENTRE
  <2>3. CASE k = 3
    <3>1. ds = {Left, Down, Right, DownLeft, DownRight} /\ Regions[k].weight = 12
      BY <2>3 DEF Regions, WEIGHT_CENTRE, WEIGHT_SIDE, WEIGHT_CORNER
    <3> HIDE DEF ds
    <3>2. WeightOf(ds) = 8
      BY <3>1, Directions DEF WeightOf, WEIGHT_SIDE, WEIGHT_CORNER
    <3> QED BY <3>1, <3>2 DEF WEIGHT_CENTRE
  <2>4. CASE k = 4
    <3>1. ds = {Up, Right, Down, UpRight, DownRight} /\ Regions[k].weight = 12
      BY <2>4 DEF Regions, WEIGHT_CENTRE, WEIGHT_SIDE, WEIGHT_CORNER
    <3> HIDE DEF ds
    <3>2. WeightOf(ds) = 8
      BY <3>1, Directions DEF WeightOf, WEIGHT_SIDE, WEIGHT_CORNER
    <3> QED BY <3>1, <3>2 DEF WEIGHT_CENTRE
  <2>5. CASE k = 5
    <3>1. ds = {Up, Left, Down, UpLeft, DownLeft} /\ Regions[k].weight = 12
      BY <2>5 DEF Regions, WEIGHT_CENTRE, WEIGHT_SIDE, WEIGHT_CORNER
    <3> HIDE DEF ds
    <3>2. WeightOf(ds) = 8
      BY <3>1, Directions DEF WeightOf, WEIGHT_SIDE, WEIGHT_CORNER
    <3> QED BY <3>1, <3>2 DEF WEIGHT_CENTRE
  <2>6. CASE k = 6
    <3>1. ds = {DownRight, Right, Down} /\ Regions[k].weight = 9
      BY <2>6 DEF Regions, WEIGHT_CENTRE, WEIGHT_SIDE, WEIGHT_CORNER
    <3> HIDE DEF ds
    <3>2. WeightOf(ds) = 5
      BY <3>1, Directions DEF WeightOf, WEIGHT_SIDE, WEIGHT_CORNER
    <3> QED BY <3>1, <3>2 DEF WEIGHT_CENTRE
  <2>7. CASE k = 7
    <3>1. ds = {DownLeft, Left, Down} /\ Regions[k].weight = 9
      BY <2>7 DEF Regions, WEIGHT_CENTRE, WEIGHT_SIDE, WEIGHT_CORNER
    <3> HIDE DEF ds
    <3>2. WeightOf(ds) = 5
      BY <3>1, Directions DEF WeightOf, WEIGHT_SIDE, WEIGHT_CORNER
    <3> QED BY <3>1, <3>2 DEF WEIGHT_CENTRE
  <2>8. CASE k = 8
    <3>1. ds = {UpRight, Right, Up} /\ Regions[k].weight = 9
      BY <2>8 DEF Regions, WEIGHT_CENTRE, WEIGHT_SIDE, WEIGHT_CORNER
    <3> HIDE DEF ds
    <3>2. WeightOf(ds) = 5
      BY <3>1, Directions DEF WeightOf, WEIGHT_SIDE, WEIGHT_CORNER
    <3> QED BY <3>1, <3>2 DEF WEIGHT_CENTRE
  <2>9. CASE k = 9
    <3>1. ds = {UpLeft, Left, Up} /\ Regions[k].weight = 9
      BY <2>9 DEF Regions, WEIGHT_CENTRE, WEIGHT_SIDE, WEIGHT_CORNER
    <3> HIDE DEF ds
    <3>2. WeightOf(ds) = 5
      BY <3>1, Directions DEF WeightOf, WEIGHT_SIDE, WEIGHT_CORNER
    <3> QED BY <3>1, <3>2 DEF WEIGHT_CENTRE
  <2> QED BY <2>d, <2>1, <2>2, <2>3, <2>4, <2>5, <2>6, <2>7, <2>8, <2>9
<1> QED BY <1>1, <1>4, <1>5 DEF FullWeight

(* Together they make up the image. *)
LEMMA RegionsCover ==
    ASSUME Dims, NEW c \in Image
    PROVE  \E k \in 1 .. 9 : c \in Regions[k].cells
<1>1. /\ c = <<c[1], c[2]>>
      /\ c[1] \in 0 .. rows - 1 /\ c[2] \in 0 .. cols - 1
  BY DEF Image
<1>2. c \in Regions[1].cells <=> c[1] \in 1 .. rows - 2 /\ c[2] \in 1 .. cols - 2
  BY <1>1 DEF Regions
<1>3. /\ c \in Regions[2].cells <=> c[1] = rows - 1 /\ c[2] \in 1 .. cols - 2
      /\ c \in Regions[3].cells <=> c[1] = 0 /\ c[2] \in 1 .. cols - 2
  BY <1>1 DEF Regions
<1>4. /\ c \in Regions[4].cells <=> c[1] \in 1 .. rows - 2 /\ c[2] = 0
      /\ c \in Regions[5].cells <=> c[1] \in 1 .. rows - 2 /\ c[2] = cols - 1
  BY <1>1 DEF Regions
<1>5. /\ c \in Regions[6].cells <=> c[1] = 0 /\ c[2] = 0
      /\ c \in Regions[7].cells <=> c[1] = 0 /\ c[2] = cols - 1
      /\ c \in Regions[8].cells <=> c[1] = rows - 1 /\ c[2] = 0
      /\ c \in Regions[9].cells <=> c[1] = rows - 1 /\ c[2] = cols - 1
  BY <1>1 DEF Regions
<1>6. /\ c[1] = 0 \/ c[1] = rows - 1 \/ c[1] \in 1 .. rows - 2
      /\ c[2] = 0 \/ c[2] = cols - 1 \/ c[2] \in 1 .. cols - 2
  BY <1>1 DEF Dims
<1> DEFINE In(k) == c \in Regions[k].cells
<1>7. In(1) \/ In(2) \/ In(3) \/ In(4) \/ In(5) \/ In(6) \/ In(7) \/ In(8) \/ In(9)
  BY <1>2, <1>3, <1>4, <1>5, <1>6
<1> HIDE DEF In
<1>8. \E k \in 1 .. 9 : In(k)
  BY <1>7
<1> QED BY <1>8 DEF In

----
(* The image as a row of cells. *)
(* The k-th cell is one of the image. *)
LEMMA CellInImage ==
    ASSUME Dims, NEW k \in 0 .. rows * cols - 1
    PROVE  Cell(k) \in Image
<1>1. rows \in Nat /\ cols \in Nat
  BY DEF Dims
<1>2. cols # 0 /\ k \in Nat /\ k < rows * cols
  <2>1. rows * 0 = 0
    BY <1>1
  <2>2. rows * cols \in Nat /\ 0 <= k /\ k <= rows * cols - 1
    BY <1>1
  <2> QED BY <2>1, <2>2
<1> DEFINE q == k \div cols
           r == k % cols
<1>3. q \in Nat /\ r \in 0 .. cols - 1 /\ k = cols * q + r
  BY <1>1, <1>2, Divided
<1> HIDE DEF q, r
<1>4. q < rows
  <2> SUFFICES ASSUME rows <= q PROVE FALSE
    BY <1>1, <1>3
  <2>1. cols * rows <= cols * q
    BY <1>1, <1>3, Times
  <2>2. cols * rows = rows * cols
    BY <1>1
  <2>3. cols * q \in Nat /\ rows * cols \in Nat
    BY <1>1, <1>3
  <2> QED BY <1>2, <1>3, <2>1, <2>2, <2>3
<1>5. Cell(k) = <<q, r>>
  BY DEF Cell, q, r
<1> QED BY <1>1, <1>3, <1>4, <1>5 DEF Image

Cells(image) == [k \in 0 .. rows * cols - 1 |-> image[Cell(k)]]

(* The sum of an image is that of its cells in a row. *)
LEMMA TotalSums ==
    ASSUME NEW image
    PROVE  Total(image) = Sums(Cells(image), rows * cols)[rows * cols]
BY DEF Total, Sums, Cells

LEMMA TotalInt ==
    ASSUME Dims, NEW image, \A c \in Image : image[c] \in Int
    PROVE  Total(image) \in Int
<1>1. rows * cols \in Nat
  BY DEF Dims
<1>2. \A k \in 0 .. rows * cols - 1 : Cells(image)[k] \in Int
  BY CellInImage DEF Cells
<1> DEFINE n == rows * cols
<1> HIDE DEF n
<1>3. Sums(Cells(image), n) \in [0 .. n -> Int]
  BY <1>1, <1>2, SumsAdd DEF n
<1> QED BY <1>1, <1>3, TotalSums DEF n

LEMMA TotalSame ==
    ASSUME Dims, NEW image, NEW other,
           \A c \in Image : image[c] \in Int /\ other[c] = image[c]
    PROVE  Total(image) = Total(other)
<1> DEFINE n == rows * cols
<1>1. n \in Nat
  BY DEF Dims
<1>2. \A k \in 0 .. n - 1 : Cells(image)[k] \in Int /\ Cells(other)[k] = Cells(image)[k]
  BY CellInImage DEF Cells
<1> HIDE DEF n
<1>3. Sums(Cells(image), n)[n] = Sums(Cells(other), n)[n]
  BY <1>1, <1>2, SumsSame
<1> QED BY <1>3, TotalSums DEF n

----
(* Where a call is. *)
Passes == {"baseMask", "mask1", "mask2"}
Tests == {"mask3", "mask4", "mask5"}

(* The neighbours the nests before nest s have added to a cell. *)
AddedBefore(s, c) == {Nests[k].toward : k \in {j \in 1 .. s - 1 : c \in Nests[j].cells}}

(* A cell that is not set yet, or holds some of its neighbours. *)
PartlyWeighed(c) == weight[c] = 0 \/ \E ds \in SUBSET InImage(c) : Weighed(c, ds)

(* One nest more adds its own direction, and the eight add all. *)
LEMMA AddedNext ==
    ASSUME Dims, NEW s \in 1 .. 8, NEW c \in Image
    PROVE  LET d == Nests[s].toward
           IN  /\ c \in Nests[s].cells =>
                     /\ AddedBefore(s + 1, c) = AddedBefore(s, c) \cup {d}
                     /\ d \in InImage(c) /\ d \notin AddedBefore(s, c)
               /\ c \notin Nests[s].cells => AddedBefore(s + 1, c) = AddedBefore(s, c)
<1> DEFINE d == Nests[s].toward
<1>1. 1 .. s + 1 - 1 = (1 .. s - 1) \cup {s}
  OBVIOUS
<1>2. c \in Nests[s].cells => AddedBefore(s + 1, c) = AddedBefore(s, c) \cup {d}
  BY <1>1 DEF AddedBefore
<1>3. c \notin Nests[s].cells => AddedBefore(s + 1, c) = AddedBefore(s, c)
  BY <1>1 DEF AddedBefore
<1>4. d \notin AddedBefore(s, c)
  <2>1. \A j \in 1 .. s - 1 : j \in 1 .. 8 /\ j # s
    OBVIOUS
  <2> QED BY <2>1, NestsAll DEF AddedBefore
<1> QED BY <1>2, <1>3, <1>4, NestExact

LEMMA AddedInImage ==
    ASSUME Dims, NEW s \in 1 .. 9, NEW c \in Image
    PROVE  AddedBefore(s, c) \subseteq InImage(c)
<1>1. \A j \in 1 .. s - 1 : j \in 1 .. 8
  OBVIOUS
<1> QED BY <1>1, NestExact DEF AddedBefore

LEMMA AddedAll ==
    ASSUME Dims, NEW c \in Image
    PROVE  AddedBefore(9, c) = InImage(c) /\ AddedBefore(1, c) = {}
<1>1. ASSUME NEW d \in InImage(c) PROVE d \in AddedBefore(9, c)
  <2>1. d \in Neighbours
    BY DEF InImage, Neighbours
  <2>2. PICK k \in 1 .. 8 : d = Nests[k].toward
    BY <2>1, NestsAll
  <2>3. c \in Nests[k].cells
    BY <2>2, NestExact
  <2>4. k \in 1 .. 9 - 1
    OBVIOUS
  <2> QED BY <2>2, <2>3, <2>4 DEF AddedBefore
<1>2. AddedBefore(9, c) \subseteq InImage(c)
  BY AddedInImage
<1>3. AddedBefore(1, c) = {}
  BY DEF AddedBefore
<1> QED BY <1>1, <1>2, <1>3

(* The neighbours a cell has are cells, and have pixels. *)
LEMMA HasPixels ==
    ASSUME Dims, oldImage \in [Array -> Int], NEW c \in Image, NEW ds \in SUBSET InImage(c)
    PROVE  /\ c \in Array /\ Pixels(c, ds) /\ Sum(c, ds) \in Int
           /\ Centre(c) \in Int /\ Read({c}, ds) \subseteq Image
<1>1. Image \subseteq Array
  BY SizeAssumption DEF Dims, Image, Array
<1>2. \A d \in ds : Neighbour(c, d) \in Image
  BY DEF InImage
<1>3. Pixels(c, ds)
  BY <1>1, <1>2 DEF Pixels
<1> QED BY <1>1, <1>2, <1>3, SumInt DEF Centre, Read, WEIGHT_CENTRE

NestsInv ==
    /\ version \in Passes =>
          /\ step \in 0 .. 8
          /\ step > 0 => \A c \in Image : Weighed(c, AddedBefore(step, c))
    /\ version \in Tests => step = 0
    /\ version = "mask6" =>
          /\ step \in 0 .. 8
          /\ ~Thin => \A k \in 1 .. step : \A c \in Regions[k].cells : Weighed(c, InImage(c))

CallInv ==
    /\ oldImage \in [Array -> Int] /\ newImage \in [Array -> Int]
    /\ weight \in [Array -> 0 .. 16] /\ check \in Int /\ step \in 0 .. 9
    /\ pc = "nests" => NestsInv
    /\ pc = "divide" /\ ~Thin => \A c \in Image : Weighed(c, InImage(c))
    /\ EveryNeighbourOnce /\ WeightedAverage /\ UndefinedOnlyIfThin

(* A version computes with the call unchanged. *)
LEMMA CallStays ==
    ASSUME UNCHANGED call
    PROVE  /\ UNCHANGED <<version, rows, cols, oldImage>>
           /\ Image' = Image /\ Nests' = Nests /\ Regions' = Regions /\ Thin' = Thin
           /\ \A c : /\ InImage(c)' = InImage(c) /\ FullWeight(c)' = FullWeight(c)
                    /\ Centre(c)' = Centre(c) /\ Average(c)' = Average(c)
           /\ \A c, ds : Sum(c, ds)' = Sum(c, ds)
           /\ \A s, c : AddedBefore(s, c)' = AddedBefore(s, c)
<1>1. UNCHANGED <<version, rows, cols, oldImage>>
  BY DEF call
<1>2. Image' = Image /\ Nests' = Nests /\ Regions' = Regions /\ Thin' = Thin
  BY <1>1 DEF Image, Nests, Regions, Thin
<1>3. \A c : InImage(c)' = InImage(c)
  BY <1>2 DEF InImage
<1>4. \A c, ds : Sum(c, ds)' = Sum(c, ds)
  BY <1>1 DEF Sum
<1>5. \A c : FullWeight(c)' = FullWeight(c) /\ Centre(c)' = Centre(c)
  BY <1>1, <1>3 DEF FullWeight, Centre
<1>6. \A c : Average(c)' = Average(c)
  BY <1>3, <1>4, <1>5 DEF Average
<1>7. \A s, c : AddedBefore(s, c)' = AddedBefore(s, c)
  BY <1>2 DEF AddedBefore
<1> QED BY <1>1, <1>2, <1>3, <1>4, <1>5, <1>6, <1>7

(* What the nests leave, when none but the last step divides. *)
LEMMA NestsLeave ==
    ASSUME Dims, CallInv, UNCHANGED <<call, check>>, ~Thin,
           newImage' \in [Array -> Int], weight' \in [Array -> 0 .. 16], step' \in 0 .. 9,
           pc' \in {"nests", "divide"}, pc' = "nests" => NestsInv',
           \A c \in Image : PartlyWeighed(c)',
           pc' = "divide" => \A c \in Image : Weighed(c, InImage(c))'
    PROVE  CallInv'
<1>1. Image' = Image /\ Thin' = Thin /\ oldImage' = oldImage /\ check' = check
  BY CallStays
<1>2. EveryNeighbourOnce'
  BY <1>1 DEF EveryNeighbourOnce, PartlyWeighed
<1>3. WeightedAverage' /\ UndefinedOnlyIfThin'
  BY DEF WeightedAverage, UndefinedOnlyIfThin
<1> QED BY <1>1, <1>2, <1>3 DEF CallInv

(* baseMask, mask1 and mask2: the centres are set before all else, then a   *)
(* neighbour more is added wherever there is one.                           *)
LEMMA PassesPreserve ==
    ASSUME Dims, CallInv, pc = "nests", version \in Passes, SetCentres \/ AddNeighbours
    PROVE  CallInv' /\ KeepsOutside
<1>1. /\ UNCHANGED <<call, check>>
      /\ newImage \in [Array -> Int] /\ weight \in [Array -> 0 .. 16]
      /\ oldImage \in [Array -> Int]
  BY DEF CallInv, SetCentres, AddNeighbours, Nest
<1>2. /\ UNCHANGED <<version, oldImage>> /\ Image' = Image
      /\ ~Thin /\ version # "mask6" /\ version \notin Tests
      /\ \A s, c : AddedBefore(s, c)' = AddedBefore(s, c)
      /\ \A c : InImage(c)' = InImage(c) /\ Centre(c)' = Centre(c)
      /\ \A c, ds : Sum(c, ds)' = Sum(c, ds)
  BY <1>1, CallStays DEF Passes, Tests, Thin
<1>3. Image \subseteq Array
  BY HasPixels, <1>1
<1>4. CASE SetCentres
  <2>1. /\ step = 0 /\ step' = 1 /\ pc' = "nests"
        /\ weight' = [c \in Array |-> IF c \in Image THEN 4 ELSE weight[c]]
        /\ newImage' = [c \in Array |-> IF c \in Image THEN Centre(c) ELSE newImage[c]]
    BY <1>3, <1>4 DEF SetCentres, Nest, WEIGHT_CENTRE
  <2>2. \A c \in Image : Centre(c) \in Int
    BY <1>1, HasPixels
  <2>3. \A c \in Image : /\ AddedBefore(1, c) = {} /\ WeightOf({}) = 0 /\ Sum(c, {}) = 0
                        /\ weight'[c] = 4 /\ newImage'[c] = Centre(c)
    BY <1>3, <2>1, AddedAll, WeightOfNone, SumOfNone
  <2> DEFINE none(c) == AddedBefore(1, c)
  <2>a. \A c \in Image : /\ weight'[c] = WEIGHT_CENTRE + WeightOf(none(c))
                        /\ newImage'[c] = Centre(c) + Sum(c, none(c))
    BY <2>2, <2>3 DEF WEIGHT_CENTRE
  <2> HIDE DEF none
  <2>4. \A c \in Image : Weighed(c, AddedBefore(step, c))'
    BY <1>2, <2>1, <2>a DEF Weighed, none
  <2>5. newImage' \in [Array -> Int] /\ weight' \in [Array -> 0 .. 16]
    BY <1>1, <2>1, <2>2
  <2>6. NestsInv'
    BY <1>2, <2>1, <2>4 DEF NestsInv
  <2>7. \A c \in Image : PartlyWeighed(c)'
    BY <1>2, <2>a, <2>3 DEF PartlyWeighed, Weighed, none
  <2>8. CallInv'
    BY <1>1, <1>2, <2>1, <2>5, <2>6, <2>7, NestsLeave
  <2>9. KeepsOutside
    BY <2>1 DEF KeepsOutside
  <2> QED BY <2>8, <2>9
<1>5. CASE AddNeighbours
  <2> DEFINE cells == Nests[step].cells
             d == Nests[step].toward
             before(c) == AddedBefore(step, c)
             after(c) == AddedBefore(step + 1, c)
  <2>1. step \in 1 .. 8
    BY <1>5 DEF AddNeighbours
  <2>2. \A c \in Image : Weighed(c, before(c))
    BY <1>2, <2>1 DEF CallInv, NestsInv
  <2>3. cells \subseteq Image /\ Read(cells, {d}) \subseteq Image /\ d \in Neighbours
    <3>1. cells \subseteq Image
      BY <2>1 DEF Dims, Nests, Image
    <3>2. \A c \in cells : Neighbour(c, d) \in Image
      BY <2>1, <3>1, NestExact DEF InImage
    <3>3. Read(cells, {d}) \subseteq Image
      BY <3>2 DEF Read
    <3>4. d \in Neighbours
      BY <2>1, NestsAll
    <3> QED BY <3>1, <3>3, <3>4
  <2>4. /\ step' = step + 1 /\ pc' = IF step = 8 THEN "divide" ELSE "nests"
        /\ weight' = [c \in Array |-> IF c \in cells THEN weight[c] + WeightOf({d}) ELSE weight[c]]
        /\ newImage' = [c \in Array |-> IF c \in cells
                            THEN newImage[c] + Sum(c, {d}) ELSE newImage[c]]
    <3>1. cells \cup Read(cells, {d}) \subseteq Array
      BY <1>3, <2>3
    <3> QED BY <1>5, <3>1 DEF AddNeighbours, Nest
  <2>5. ASSUME NEW c \in Image
        PROVE  /\ after(c) \subseteq InImage(c) /\ Pixels(c, after(c))
               /\ c \in cells => /\ after(c) = before(c) \cup {d} /\ d \notin before(c)
                                /\ Pixels(c, {d}) /\ Pixels(c, before(c))
               /\ c \notin cells => after(c) = before(c) /\ Pixels(c, before(c))
    <3>1. /\ c \in cells => /\ after(c) = before(c) \cup {d} /\ d \notin before(c)
          /\ c \notin cells => after(c) = before(c)
      BY <2>1, AddedNext
    <3>2. after(c) \subseteq InImage(c)
      BY <2>1, AddedInImage
    <3>3. Pixels(c, after(c))
      BY <1>1, <3>2, HasPixels
    <3> QED BY <3>1, <3>2, <3>3 DEF Pixels
  <2> HIDE DEF cells, d, before, after
  <2>6. ASSUME NEW c \in Image
        PROVE  /\ weight'[c] = WEIGHT_CENTRE + WeightOf(after(c))
               /\ newImage'[c] = Centre(c) + Sum(c, after(c))
    <3>1. /\ weight[c] = 4 + WeightOf(before(c)) /\ newImage[c] = Centre(c) + Sum(c, before(c))
      BY <2>2 DEF Weighed, WEIGHT_CENTRE
    <3>2. /\ weight'[c] = IF c \in cells THEN weight[c] + WeightOf({d}) ELSE weight[c]
          /\ newImage'[c] = IF c \in cells THEN newImage[c] + Sum(c, {d}) ELSE newImage[c]
      BY <1>3, <2>4
    <3>3. Centre(c) \in Int
      BY <1>1, HasPixels
    <3>4. CASE c \in cells
      <4>1. WeightOf(after(c)) = WeightOf(before(c)) + WeightOf({d})
        BY <2>3, <2>5, <3>4, WeightOfOneMore
      <4>2. Sum(c, after(c)) = Sum(c, before(c)) + Sum(c, {d})
        BY <2>3, <2>5, <3>4, SumOneMore
      <4>3. Sum(c, before(c)) \in Int /\ Sum(c, {d}) \in Int
        BY <2>5, <3>4, SumInt
      <4>4. WeightOf(before(c)) \in Int /\ WeightOf({d}) \in Int
        BY WeightOfRange
      <4> QED BY <3>1, <3>2, <3>3, <3>4, <4>1, <4>2, <4>3, <4>4 DEF WEIGHT_CENTRE
    <3>5. CASE c \notin cells
      BY <2>5, <3>1, <3>2, <3>5 DEF WEIGHT_CENTRE
    <3> QED BY <3>4, <3>5
  <2>7. \A c \in Image : /\ weight'[c] \in 0 .. 16 /\ newImage'[c] \in Int
                        /\ PartlyWeighed(c)'
    <3> SUFFICES ASSUME NEW c \in Image
                 PROVE  /\ weight'[c] \in 0 .. 16 /\ newImage'[c] \in Int
                        /\ PartlyWeighed(c)'
      OBVIOUS
    <3>1. Centre(c) \in Int /\ Sum(c, after(c)) \in Int
      BY <1>1, <2>5, HasPixels
    <3>2. WeightOf(after(c)) \in 0 .. 12
      BY WeightOfRange
    <3>3. PartlyWeighed(c)'
      BY <1>2, <2>5, <2>6 DEF PartlyWeighed, Weighed
    <3> QED BY <2>6, <3>1, <3>2, <3>3 DEF WEIGHT_CENTRE
  <2>8. newImage' \in [Array -> Int] /\ weight' \in [Array -> 0 .. 16]
    <3>1. \A c \in Array \ Image : weight'[c] = weight[c] /\ newImage'[c] = newImage[c]
      BY <2>3, <2>4
    <3>2. \A c \in Array : weight'[c] \in 0 .. 16 /\ newImage'[c] \in Int
      BY <1>1, <2>7, <3>1
    <3> QED BY <2>4, <3>2
  <2>9. \A c \in Image : Weighed(c, AddedBefore(step, c))'
    BY <1>2, <2>4, <2>6 DEF Weighed, after
  <2>10. pc' = "nests" => NestsInv'
    BY <1>2, <2>1, <2>4, <2>9 DEF NestsInv
  <2>11. pc' = "divide" => \A c \in Image : Weighed(c, InImage(c))'
    <3>1. pc' = "divide" => \A c \in Image : after(c) = InImage(c)
      BY <2>1, <2>4, AddedAll DEF after
    <3> QED BY <1>2, <2>6, <3>1 DEF Weighed
  <2>12. CallInv'
    <3>1. step' \in 0 .. 9 /\ pc' \in {"nests", "divide"}
      BY <2>1, <2>4
    <3> QED BY <1>1, <1>2, <2>7, <2>8, <2>10, <2>11, <3>1, NestsLeave
  <2>13. KeepsOutside
    BY <2>3, <2>4 DEF KeepsOutside
  <2> QED BY <2>12, <2>13
<1> QED BY <1>4, <1>5

(* The other versions set a cell once and for all: those they have set      *)
(* carry all neighbours.                                                    *)
LEMMA CellsWeighed ==
    ASSUME Dims, CallInv, UNCHANGED call, pc \in {"nests", "divide"}, ~Thin,
           NEW cells \in SUBSET Image,
           \A c \in cells : /\ weight'[c] = FullWeight(c)
                           /\ newImage'[c] = Centre(c) + Sum(c, InImage(c)),
           weight' = [c \in Array |-> IF c \in cells THEN weight'[c] ELSE weight[c]],
           newImage' = [c \in Array |-> IF c \in cells THEN newImage'[c] ELSE newImage[c]]
    PROVE  /\ newImage' \in [Array -> Int] /\ weight' \in [Array -> 0 .. 16]
           /\ \A c \in Image : PartlyWeighed(c)'
           /\ \A c \in cells : Weighed(c, InImage(c))'
           /\ \A c \in Image \ cells : weight'[c] = weight[c] /\ newImage'[c] = newImage[c]
           /\ KeepsOutside
<1>1. /\ newImage \in [Array -> Int] /\ weight \in [Array -> 0 .. 16]
      /\ oldImage \in [Array -> Int]
      /\ \A c \in Image : c \in Array /\ PartlyWeighed(c)
  <2>1. \A c \in Image : c \in Array
    BY HasPixels DEF CallInv
  <2> QED BY <2>1 DEF CallInv, EveryNeighbourOnce, PartlyWeighed
<1>2. \A c \in Image : FullWeight(c) \in 0 .. 16 /\ Centre(c) + Sum(c, InImage(c)) \in Int
  <2> SUFFICES ASSUME NEW c \in Image
               PROVE  FullWeight(c) \in 0 .. 16 /\ Centre(c) + Sum(c, InImage(c)) \in Int
    OBVIOUS
  <2>1. Centre(c) \in Int /\ Sum(c, InImage(c)) \in Int
    BY <1>1, HasPixels
  <2>2. WeightOf(InImage(c)) \in 0 .. 12
    BY WeightOfRange
  <2> QED BY <2>1, <2>2 DEF FullWeight, WEIGHT_CENTRE
<1>3. \A c \in Array \ cells : weight'[c] = weight[c] /\ newImage'[c] = newImage[c]
  OBVIOUS
<1>4. \A c \in Array : weight'[c] \in 0 .. 16 /\ newImage'[c] \in Int
  BY <1>1, <1>2, <1>3
<1>5. newImage' \in [Array -> Int] /\ weight' \in [Array -> 0 .. 16]
  BY <1>4
<1>6. \A c \in cells : Weighed(c, InImage(c))'
  BY CallStays DEF Weighed, FullWeight
<1>7. \A c \in Image : PartlyWeighed(c)'
  <2> SUFFICES ASSUME NEW c \in Image PROVE PartlyWeighed(c)'
    OBVIOUS
  <2>1. CASE c \in cells
    BY <1>6, <2>1 DEF PartlyWeighed
  <2>2. CASE c \notin cells
    <3>1. weight'[c] = weight[c] /\ newImage'[c] = newImage[c] /\ PartlyWeighed(c)
      BY <1>1, <1>3, <2>2
    <3> QED BY <3>1, CallStays DEF PartlyWeighed, Weighed
  <2> QED BY <2>1, <2>2
<1> QED BY <1>1, <1>3, <1>5, <1>6, <1>7 DEF KeepsOutside

(* mask3, mask4 and mask5 do so in one nest.                                *)
LEMMA TestsPreserve ==
    ASSUME Dims, CallInv, version \in Tests, CellByCell(Tested) \/ CellByCell(TestedInside)
    PROVE  CallInv' /\ KeepsOutside
<1>1. /\ pc = "nests" /\ step = 0 /\ UNCHANGED <<call, check>> /\ ~Thin
      /\ oldImage \in [Array -> Int]
  BY DEF CellByCell, CallInv, NestsInv, Tests, Nest, Thin
<1>2. Image' = Image
  BY <1>1, CallStays
<1>3. /\ Image \subseteq Array
      /\ \A c \in Image : Read({c}, InImage(c)) \subseteq Image
  BY <1>1, HasPixels
<1>5. /\ pc' = "divide" /\ step' = 1
      /\ weight' = [c \in Array |-> IF c \in Image THEN FullWeight(c) ELSE weight[c]]
      /\ newImage' = [c \in Array |-> IF c \in Image
                          THEN Centre(c) + Sum(c, InImage(c)) ELSE newImage[c]]
  <2>1. CASE CellByCell(Tested)
    <3>1. \A c \in Image : Tested(c) = InImage(c)
      BY TestedExact
    <3>2. Image \cup UNION {Read({c}, Tested(c)) : c \in Image} \subseteq Array
      BY <1>3, <3>1
    <3>3. /\ pc' = "divide" /\ step' = 1
          /\ weight' = [c \in Array |-> IF c \in Image
                            THEN WEIGHT_CENTRE + WeightOf(Tested(c)) ELSE weight[c]]
          /\ newImage' = [c \in Array |-> IF c \in Image
                              THEN Centre(c) + Sum(c, Tested(c)) ELSE newImage[c]]
      BY <1>1, <2>1, <3>2 DEF CellByCell, Nest
    <3> QED BY <3>1, <3>3 DEF FullWeight
  <2>2. CASE CellByCell(TestedInside)
    <3>1. \A c \in Image : TestedInside(c) = InImage(c)
      BY TestedInsideExact
    <3>2. Image \cup UNION {Read({c}, TestedInside(c)) : c \in Image} \subseteq Array
      BY <1>3, <3>1
    <3>3. /\ pc' = "divide" /\ step' = 1
          /\ weight' = [c \in Array |-> IF c \in Image
                            THEN WEIGHT_CENTRE + WeightOf(TestedInside(c)) ELSE weight[c]]
          /\ newImage' = [c \in Array |-> IF c \in Image
                              THEN Centre(c) + Sum(c, TestedInside(c)) ELSE newImage[c]]
      BY <1>1, <2>2, <3>2 DEF CellByCell, Nest
    <3> QED BY <3>1, <3>3 DEF FullWeight
  <2> QED BY <2>1, <2>2
<1>6. \A c \in Image : /\ weight'[c] = FullWeight(c)
                      /\ newImage'[c] = Centre(c) + Sum(c, InImage(c))
  BY <1>3, <1>5
<1>7. /\ weight' = [c \in Array |-> IF c \in Image THEN weight'[c] ELSE weight[c]]
      /\ newImage' = [c \in Array |-> IF c \in Image THEN newImage'[c] ELSE newImage[c]]
  BY <1>5
<1>8. /\ newImage' \in [Array -> Int] /\ weight' \in [Array -> 0 .. 16]
      /\ \A c \in Image : PartlyWeighed(c)'
      /\ \A c \in Image : Weighed(c, InImage(c))'
      /\ KeepsOutside
  BY <1>1, <1>6, <1>7, CellsWeighed
<1>9. CallInv'
  BY <1>1, <1>2, <1>5, <1>8, NestsLeave
<1> QED BY <1>8, <1>9

(* mask6 sets one region after the other. *)
LEMMA RegionsPreserve ==
    ASSUME Dims, CallInv, mask6
    PROVE  CallInv' /\ (~Thin => KeepsOutside)
<1> DEFINE k == step + 1
           cells == Regions[k].cells
           ds == Regions[k].ds
           w == Regions[k].weight
<1>1. /\ pc = "nests" /\ version = "mask6" /\ step \in 0 .. 8 /\ UNCHANGED <<call, check>>
      /\ oldImage \in [Array -> Int]
  BY DEF mask6, CallInv, NestsInv, Nest, Passes, Tests
<1>2. /\ version' = version /\ Image' = Image /\ Regions' = Regions /\ Thin' = Thin
      /\ oldImage' = oldImage /\ rows' = rows /\ cols' = cols
      /\ \A c : InImage(c)' = InImage(c) /\ Centre(c)' = Centre(c)
      /\ \A c, e : Sum(c, e)' = Sum(c, e)
      /\ version \notin Passes /\ version \notin Tests
  BY <1>1, CallStays DEF Passes, Tests
<1>3. Image \subseteq Array
  BY <1>1, HasPixels
<1>4. IF cells \cup Read(cells, ds) \subseteq Array
      THEN /\ weight' = [c \in Array |-> IF c \in cells THEN w ELSE weight[c]]
           /\ newImage' = [c \in Array |-> IF c \in cells
                               THEN Centre(c) + Sum(c, ds) ELSE newImage[c]]
           /\ pc' = (IF step = 8 THEN "divide" ELSE "nests")
           /\ step' = step + 1
      ELSE pc' = "undefined" /\ UNCHANGED <<newImage, weight, step>>
  BY DEF mask6, Nest
<1>5. CASE Thin
  <2>1. w \in 0 .. 16
    BY <1>1 DEF Regions, WEIGHT_CENTRE, WEIGHT_SIDE, WEIGHT_CORNER
  <2>2. /\ newImage \in [Array -> Int] /\ weight \in [Array -> 0 .. 16] /\ check \in Int
    BY DEF CallInv
  <2>3. ASSUME NEW c \in cells, cells \cup Read(cells, ds) \subseteq Array
        PROVE  Centre(c) + Sum(c, ds) \in Int
    <3>1. c \in Array
      BY <2>3
    <3>2. \A d \in ds : Neighbour(c, d) \in Array
      BY <2>3 DEF Read
    <3>3. Pixels(c, ds)
      BY <1>1, <3>2 DEF Pixels
    <3>4. Centre(c) \in Int /\ Sum(c, ds) \in Int
      BY <1>1, <3>1, <3>3, SumInt DEF Centre, WEIGHT_CENTRE
    <3> QED BY <3>4
  <2> HIDE DEF cells, ds, w
  <2>4. newImage' \in [Array -> Int] /\ weight' \in [Array -> 0 .. 16]
    BY <1>4, <2>1, <2>2, <2>3
  <2>5. pc' = "nests" => NestsInv'
    BY <1>1, <1>2, <1>4, <1>5 DEF NestsInv
  <2>6. EveryNeighbourOnce' /\ WeightedAverage' /\ UndefinedOnlyIfThin'
    BY <1>2, <1>5 DEF EveryNeighbourOnce, WeightedAverage, UndefinedOnlyIfThin
  <2>7. step' \in 0 .. 9
    BY <1>1, <1>4
  <2> QED BY <1>1, <1>2, <1>5, <2>2, <2>4, <2>5, <2>6, <2>7 DEF CallInv
<1>6. CASE ~Thin
  <2>1. rows >= 2 /\ cols >= 2 /\ k \in 1 .. 9
    BY <1>1, <1>6 DEF Thin, Dims
  <2>2. \A c \in cells : c \in Image /\ ds = InImage(c) /\ w = FullWeight(c)
    BY <2>1, RegionExact
  <2>3. cells \cup Read(cells, ds) \subseteq Array
    BY <1>3, <2>2 DEF Read, InImage
  <2>4. /\ pc' = (IF step = 8 THEN "divide" ELSE "nests") /\ step' = k
        /\ weight' = [c \in Array |-> IF c \in cells THEN FullWeight(c) ELSE weight[c]]
        /\ newImage' = [c \in Array |-> IF c \in cells
                            THEN Centre(c) + Sum(c, InImage(c)) ELSE newImage[c]]
    BY <1>4, <2>2, <2>3
  <2>5. \A j \in 1 .. step : \A c \in Regions[j].cells : Weighed(c, InImage(c))
    BY <1>1, <1>6 DEF CallInv, NestsInv
  <2>6. \A j \in 1 .. 9 : Regions[j].cells \subseteq Image
    BY <2>1, RegionExact
  <2> HIDE DEF cells, ds, w
  <2>7. \A c \in cells : /\ weight'[c] = FullWeight(c)
                        /\ newImage'[c] = Centre(c) + Sum(c, InImage(c))
    BY <1>3, <2>2, <2>4
  <2>8. /\ weight' = [c \in Array |-> IF c \in cells THEN weight'[c] ELSE weight[c]]
        /\ newImage' = [c \in Array |-> IF c \in cells THEN newImage'[c] ELSE newImage[c]]
    BY <2>4
  <2>9. /\ newImage' \in [Array -> Int] /\ weight' \in [Array -> 0 .. 16]
        /\ \A c \in Image : PartlyWeighed(c)'
        /\ \A c \in cells : Weighed(c, InImage(c))'
        /\ \A c \in Image \ cells : weight'[c] = weight[c] /\ newImage'[c] = newImage[c]
        /\ KeepsOutside
    BY <1>1, <1>6, <2>2, <2>7, <2>8, CellsWeighed
  <2>10. \A j \in 1 .. k : \A c \in Regions[j].cells : Weighed(c, InImage(c))'
    <3> SUFFICES ASSUME NEW j \in 1 .. k, NEW c \in Regions[j].cells
                 PROVE  Weighed(c, InImage(c))'
      OBVIOUS
    <3>1. c \in Image
      BY <1>1, <2>6
    <3>2. CASE c \in cells
      BY <2>9, <3>2
    <3>3. CASE c \notin cells
      <4>1. j \in 1 .. step
        BY <1>1, <3>3 DEF cells
      <4>2. Weighed(c, InImage(c))
        BY <2>5, <4>1
      <4>3. weight'[c] = weight[c] /\ newImage'[c] = newImage[c]
        BY <2>9, <3>1, <3>3
      <4> QED BY <1>2, <4>2, <4>3 DEF Weighed
    <3> QED BY <3>2, <3>3
  <2>11. pc' = "nests" => NestsInv'
    BY <1>1, <1>2, <2>4, <2>10 DEF NestsInv
  <2>12. pc' = "divide" => \A c \in Image : Weighed(c, InImage(c))'
    BY <1>1, <2>4, <2>10, RegionsCover
  <2>13. step' \in 0 .. 9 /\ pc' \in {"nests", "divide"}
    BY <1>1, <2>4
  <2>14. CallInv'
    BY <1>1, <1>6, <2>9, <2>11, <2>12, <2>13, NestsLeave
  <2> QED BY <2>9, <2>14
<1> QED BY <1>5, <1>6

(* The sum of the averages is the call's, whatever the nests do. *)
LEMMA TotalStays ==
    ASSUME UNCHANGED call
    PROVE  Total([c \in Image |-> Average(c)])' = Total([c \in Image |-> Average(c)])
<1> DEFINE f == [c \in Image |-> Average(c)]
<1>1. rows' = rows /\ cols' = cols /\ f' = f
  BY CallStays
<1> HIDE DEF f
<1>2. Total(f)' = Sums(Cells(f)', rows' * cols')[rows' * cols']
  BY DEF Total, Sums, Cells
<1>3. Cells(f)' = Cells(f)
  BY <1>1 DEF Cells, Cell
<1>4. Total(f)' = Total(f)
  BY <1>1, <1>2, <1>3, TotalSums
<1> QED BY <1>4 DEF f

LEMMA QuotientInt ==
    ASSUME NEW a \in Int, NEW b \in 1 .. 16
    PROVE  Quotient(a, b) \in Int
<1>1. \A x \in Nat : x \div b \in Int
  BY Divided
<1> QED BY <1>1 DEF Quotient

(* The last nest divides what the others have left, by no weight of 0, and  *)
(* sums it up.                                                              *)
LEMMA DividePreserves ==
    ASSUME Dims, CallInv, Divide
    PROVE  CallInv' /\ (~Thin => KeepsOutside)
<1>1. pc = "divide" /\ UNCHANGED <<call, weight, step>>
  BY DEF Divide
<1>2. /\ rows' = rows /\ cols' = cols /\ version' = version /\ oldImage' = oldImage
      /\ Image' = Image /\ Thin' = Thin /\ \A c : Average(c)' = Average(c)
  BY <1>1, CallStays
<1>3. /\ newImage \in [Array -> Int] /\ weight \in [Array -> 0 .. 16]
      /\ oldImage \in [Array -> Int] /\ check \in Int /\ step \in 0 .. 9
      /\ Image \subseteq Array
      /\ ~Thin => \A c \in Image : Weighed(c, InImage(c))
  <2>1. oldImage \in [Array -> Int]
    BY DEF CallInv
  <2> QED BY <1>1, <2>1, HasPixels DEF CallInv
<1>4. CASE \E c \in Image : weight[c] = 0
  <2>1. pc' = "undefined" /\ UNCHANGED <<newImage, check>>
    BY <1>4 DEF Divide
  <2>2. Thin
    <3> SUFFICES ASSUME ~Thin, NEW c \in Image, weight[c] = 0 PROVE FALSE
      BY <1>4
    <3>1. weight[c] = 4 + WeightOf(InImage(c)) /\ WeightOf(InImage(c)) \in 0 .. 12
      BY <1>3, WeightOfRange DEF Weighed, WEIGHT_CENTRE
    <3> QED BY <3>1
  <2> QED BY <1>1, <1>2, <1>3, <2>1, <2>2 DEF CallInv, EveryNeighbourOnce, WeightedAverage,
         UndefinedOnlyIfThin
<1>5. CASE ~(\E c \in Image : weight[c] = 0)
  <2>1. /\ pc' = "done" /\ check' = Total(newImage')
        /\ newImage' = [c \in Array |-> IF c \in Image
                                       THEN Quotient(newImage[c], weight[c]) ELSE newImage[c]]
    BY <1>5 DEF Divide
  <2>2. \A c \in Image : newImage'[c] = Quotient(newImage[c], weight[c]) /\ newImage'[c] \in Int
    <3> SUFFICES ASSUME NEW c \in Image
                 PROVE  newImage'[c] = Quotient(newImage[c], weight[c]) /\ newImage'[c] \in Int
      OBVIOUS
    <3>1. weight[c] \in 1 .. 16 /\ newImage[c] \in Int /\ c \in Array
      BY <1>3, <1>5
    <3> QED BY <2>1, <3>1, QuotientInt
  <2>3. newImage' \in [Array -> Int]
    BY <1>3, <2>1, <2>2
  <2>4. check' \in Int
    BY <2>1, <2>2, TotalInt
  <2>5. ASSUME ~Thin
        PROVE  /\ \A c \in Image : newImage'[c] = Average(c)
               /\ check' = Total([c \in Image |-> Average(c)])
    <3>1. \A c \in Image : newImage'[c] = Average(c)
      BY <1>3, <2>2, <2>5 DEF Weighed, Average, FullWeight
    <3>2. Total(newImage') = Total([c \in Image |-> Average(c)])
      BY <2>2, <3>1, TotalSame
    <3> QED BY <2>1, <3>1, <3>2
  <2>6. Total([c \in Image |-> Average(c)])' = Total([c \in Image |-> Average(c)])
    BY <1>1, TotalStays
  <2>7. WeightedAverage'
    BY <1>2, <2>5, <2>6 DEF WeightedAverage
  <2>8. EveryNeighbourOnce' /\ UndefinedOnlyIfThin'
    BY <2>1 DEF EveryNeighbourOnce, UndefinedOnlyIfThin
  <2>9. CallInv'
    BY <1>1, <1>2, <1>3, <2>1, <2>3, <2>4, <2>7, <2>8 DEF CallInv
  <2>10. KeepsOutside
    BY <1>1, <2>1 DEF KeepsOutside
  <2> QED BY <2>9, <2>10
<1> QED BY <1>4, <1>5

----
(* What the program knows of the file it reads. *)
Tokens == [number : Nat] \cup [text : {Word, Comment, Open}]

Started == \E c \in Commands : file = c.file /\ ntrials = c.ntrials

ReadTypes ==
    /\ Started
    /\ tokens \in Seq(Tokens)
    /\ numbers \in Seq(Nat)
    /\ white \in Nat /\ white < Whites

MainTypes ==
    /\ Dims
    /\ version \in Versions \cup {"baseMask"}
    /\ pc \in {"idle", "nests", "divide", "done", "undefined"}
    /\ baseAnswer \in [Array -> Int]
    /\ phase \in {"open", "header", "loops", "pixels", "image", "answer", "base", "mask",
                  "save", "exit"}
    /\ trial \in Nat
    /\ problems \in BOOLEAN
    /\ status \in {Running, "-2", "0", "divided by zero"}

(* No call is under way while the image is read or saved.                   *)
IdleInv == phase \in {"open", "header", "loops", "pixels", "save", "exit"} => pc = "idle"

ProgramTypes == ReadTypes /\ MainTypes /\ IdleInv

(* The tokens left are the last ones of the header, and the numbers read    *)
(* are those it marks before them.                                          *)
ReadSoFar(p) ==
    LET at == Len(file.header) - Len(tokens)
    IN  /\ at \in Nat
        /\ \A i \in 1 .. Len(tokens) : tokens[i] = file.header[at + i]
        /\ \A i \in 1 .. 3 : i <= Len(numbers) <=> p[i] <= at

Agree(p) == \A i \in 1 .. Len(numbers) : numbers[i] = file.header[p[i]].number

HeaderInv ==
    /\ phase \in {"open", "header"} => Len(numbers) < 3
    /\ phase = "pixels" => /\ Len(numbers) = 3 /\ numbers[1] <= N /\ numbers[2] <= N
                           /\ numbers[3] < Whites
    /\ \A p : Marks(file, p) =>
          /\ phase \in {"open", "header"} => ReadSoFar(p) /\ Agree(p)
          /\ phase = "pixels" => Agree(p)

(* Every pixel of a whole file is one byte. *)
PixelInv ==
    Whole(file) /\ phase \in {"image", "answer", "base", "mask", "save"} =>
        white < 256 /\ \A c \in Image : oldImage[c] \in 0 .. 255

(* What a trial has left is there until the next one begins, or is saved.   *)
ResultInv ==
    /\ phase \in {"open", "header", "loops", "pixels", "image", "answer"} => trial = 0
    /\ \/ phase \in {"base", "mask"} /\ pc = "idle" /\ trial > 0
       \/ phase = "save" /\ ntrials > 0
       => (~Thin => \A c \in Image : newImage[c] = Average(c))

SavedInv == SavedReadsBack /\ (saved # {} => phase = "exit")

ProgramInv == ProgramTypes /\ HeaderInv /\ PixelInv /\ ResultInv /\ SavedInv

IInv == ProgramInv /\ CallInv

(* What the program is started with. *)
LEMMA FileTyped ==
    ASSUME Started
    PROVE  /\ file.header \in Seq(Tokens) /\ file.bytes \in Seq(0 .. 255)
           /\ ntrials \in Int
<1>1. PICK c \in Commands : file = c.file /\ ntrials = c.ntrials
  BY DEF Started
<1>2. /\ c.ntrials \in Int /\ c.file.bytes \in Seq(0 .. 255)
      /\ c.file.header \in Seq([number : Nat] \cup [text : {Word, Comment, Open}])
  BY CommandsAssumption, Zenon
<1>3. c.file.header \in Seq(Tokens)
  BY <1>2, Zenon DEF Tokens
<1> QED BY <1>1, <1>2, <1>3

----
(* The file read back: a pixel is where its row and column say, ...         *)
LEMMA PlaceOfCell ==
    ASSUME Dims, NEW c \in Image
    PROVE  LET k == c[1] * cols + c[2]
           IN  k \in 0 .. rows * cols - 1 /\ Cell(k) = c
<1> DEFINE i == c[1]
           j == c[2]
           k == c[1] * cols + c[2]
<1>1. i \in 0 .. rows - 1 /\ j \in 0 .. cols - 1 /\ rows \in Nat /\ cols \in Nat \ {0}
      /\ c = <<i, j>>
  BY DEF Dims, Image
<1>2. k = i * cols + j
  OBVIOUS
<1> HIDE DEF i, j, k
<1>3. k \in 0 .. rows * cols - 1
  BY <1>1, <1>2, PlaceBound
<1>4. k = cols * i + j
  BY <1>1, <1>2
<1>5. k \div cols = i /\ k % cols = j
  BY <1>1, <1>4, DividedOnce
<1>6. Cell(k) = c
  BY <1>1, <1>5 DEF Cell
<1> QED BY <1>3, <1>6 DEF k

(* ... and an average of bytes is a byte. *)
LEMMA AverageByte ==
    ASSUME Dims, oldImage \in [Array -> Int], \A c \in Image : oldImage[c] \in 0 .. 255,
           NEW c \in Image
    PROVE  Average(c) \in 0 .. 255
<1> DEFINE At(d) == IF d \in InImage(c) THEN oldImage[Neighbour(c, d)] ELSE 0
           One(d) == IF d \in InImage(c) THEN 1 ELSE 0
           a == Centre(c) + Sum(c, InImage(c))
           b == FullWeight(c)
<1>1. \A d : At(d) \in 0 .. 255 /\ One(d) \in {0, 1} /\ At(d) <= 255 * One(d)
  BY DEF InImage
<1>2. Sum(c, InImage(c)) = 2 * (At(Up) + At(Down) + At(Left) + At(Right))
          + 1 * (At(UpLeft) + At(UpRight) + At(DownLeft) + At(DownRight))
  BY DEF Sum, WEIGHT_SIDE, WEIGHT_CORNER
<1>3. WeightOf(InImage(c)) = 2 * (One(Up) + One(Down) + One(Left) + One(Right))
          + 1 * (One(UpLeft) + One(UpRight) + One(DownLeft) + One(DownRight))
  BY DEF WeightOf, WEIGHT_SIDE, WEIGHT_CORNER
<1>4. Centre(c) \in 0 .. 4 * 255
  BY DEF Centre, WEIGHT_CENTRE
<1> HIDE DEF At, One
<1>5. a \in Nat /\ b \in 1 .. 16 /\ a <= 255 * b
  <2> DEFINE u == At(Up) + At(Down) + At(Left) + At(Right)
             v == At(UpLeft) + At(UpRight) + At(DownLeft) + At(DownRight)
             x == One(Up) + One(Down) + One(Left) + One(Right)
             y == One(UpLeft) + One(UpRight) + One(DownLeft) + One(DownRight)
  <2>2. /\ u \in Nat /\ x \in 0 .. 4 /\ u <= 255 * x
        /\ v \in Nat /\ y \in 0 .. 4 /\ v <= 255 * y
    <3>1. /\ At(Up) \in 0 .. 255 /\ At(Down) \in 0 .. 255 /\ At(Left) \in 0 .. 255
          /\ At(Right) \in 0 .. 255 /\ At(UpLeft) \in 0 .. 255 /\ At(UpRight) \in 0 .. 255
          /\ At(DownLeft) \in 0 .. 255 /\ At(DownRight) \in 0 .. 255
      BY <1>1
    <3>2. /\ One(Up) \in 0 .. 1 /\ One(Down) \in 0 .. 1 /\ One(Left) \in 0 .. 1
          /\ One(Right) \in 0 .. 1 /\ One(UpLeft) \in 0 .. 1 /\ One(UpRight) \in 0 .. 1
          /\ One(DownLeft) \in 0 .. 1 /\ One(DownRight) \in 0 .. 1
      <4>1. \A d : One(d) \in 0 .. 1
        BY <1>1
      <4> QED BY <4>1
    <3>3. /\ At(Up) <= 255 * One(Up) /\ At(Down) <= 255 * One(Down)
          /\ At(Left) <= 255 * One(Left) /\ At(Right) <= 255 * One(Right)
          /\ At(UpLeft) <= 255 * One(UpLeft) /\ At(UpRight) <= 255 * One(UpRight)
          /\ At(DownLeft) <= 255 * One(DownLeft) /\ At(DownRight) <= 255 * One(DownRight)
      BY <1>1
    <3>4. u \in Nat /\ x \in 0 .. 4 /\ u <= 255 * x
      <4> DEFINE p == At(Up)   e == One(Up)
                 q == At(Down)   f == One(Down)
                 r == At(Left)   g == One(Left)
                 s == At(Right)   h == One(Right)
      <4>1. /\ p \in 0 .. 255 /\ q \in 0 .. 255 /\ r \in 0 .. 255 /\ s \in 0 .. 255
            /\ e \in 0 .. 1 /\ f \in 0 .. 1 /\ g \in 0 .. 1 /\ h \in 0 .. 1
            /\ p <= 255 * e /\ q <= 255 * f /\ r <= 255 * g /\ s <= 255 * h
        BY <3>1, <3>2, <3>3
      <4>2. u = p + q + r + s /\ x = e + f + g + h
        OBVIOUS
      <4> HIDE DEF p, q, r, s, e, f, g, h, u, x
      <4> QED BY <4>1, <4>2
    <3>5. v \in Nat /\ y \in 0 .. 4 /\ v <= 255 * y
      <4> DEFINE p == At(UpLeft)   e == One(UpLeft)
                 q == At(UpRight)   f == One(UpRight)
                 r == At(DownLeft)   g == One(DownLeft)
                 s == At(DownRight)   h == One(DownRight)
      <4>1. /\ p \in 0 .. 255 /\ q \in 0 .. 255 /\ r \in 0 .. 255 /\ s \in 0 .. 255
            /\ e \in 0 .. 1 /\ f \in 0 .. 1 /\ g \in 0 .. 1 /\ h \in 0 .. 1
            /\ p <= 255 * e /\ q <= 255 * f /\ r <= 255 * g /\ s <= 255 * h
        BY <3>1, <3>2, <3>3
      <4>2. v = p + q + r + s /\ y = e + f + g + h
        OBVIOUS
      <4> HIDE DEF p, q, r, s, e, f, g, h, v, y
      <4> QED BY <4>1, <4>2
    <3> QED BY <3>4, <3>5
  <2>3. Sum(c, InImage(c)) = 2 * u + 1 * v /\ WeightOf(InImage(c)) = 2 * x + 1 * y
    BY <1>2, <1>3
  <2>4. a = Centre(c) + Sum(c, InImage(c)) /\ b = 4 + WeightOf(InImage(c))
    BY DEF FullWeight, WEIGHT_CENTRE
  <2> HIDE DEF u, v, x, y, a, b
  <2> QED BY <1>4, <2>2, <2>3, <2>4
<1> HIDE DEF a, b
<1>6. a = b * (a \div b) + (a % b) /\ a \div b \in Nat /\ a % b \in 0 .. b - 1
  BY <1>5, Divided
<1> DEFINE q == a \div b
           r == a % b
<1>7. a = b * q + r /\ q \in Nat /\ r \in 0 .. b - 1
  BY <1>6
<1>8. Average(c) = q
  BY <1>5 DEF Average, Quotient, a, b
<1> HIDE DEF q, r
<1>9. q <= 255
  <2> SUFFICES ASSUME q >= 256 PROVE FALSE
    BY <1>7
  <2>1. b * 256 <= b * q
    BY <1>5, <1>7, Times
  <2> QED BY <1>5, <1>7, <2>1
<1> QED BY <1>7, <1>8, <1>9
----
(* Between calls, nothing of the last one matters but its result. *)
LEMMA IdleKeeps ==
    ASSUME oldImage' \in [Array -> Int], newImage' \in [Array -> Int],
           weight' \in [Array -> 0 .. 16], check' \in Int, step' \in 0 .. 9, pc' = "idle"
    PROVE  CallInv'
BY DEF CallInv, EveryNeighbourOnce, WeightedAverage, UndefinedOnlyIfThin

(* A call begins with nothing weighed. *)
LEMMA CallEstablishes ==
    ASSUME Dims, NEW v, NEW image \in [Array -> Int], NEW held \in [Array -> Int],
           Call(v, image, held)
    PROVE  CallInv' /\ Dims' /\ version' = v /\ pc' = "nests"
<1>1. /\ pc' = "nests" /\ step' = 0 /\ weight' = Zeros /\ version' = v /\ check' = 0
      /\ rows' = rows /\ cols' = cols /\ oldImage' = image /\ newImage' = held
  BY DEF Call
<1>2. weight' \in [Array -> 0 .. 16]
  BY <1>1 DEF Zeros
<1>3. NestsInv'
  BY <1>1 DEF NestsInv
<1>4. \A c \in Image' : weight'[c] = 0
  BY <1>1, SizeAssumption DEF Zeros, Image, Array, Dims
<1>5. EveryNeighbourOnce'
  BY <1>1, <1>4 DEF EveryNeighbourOnce
<1>6. WeightedAverage' /\ UndefinedOnlyIfThin'
  BY <1>1 DEF WeightedAverage, UndefinedOnlyIfThin
<1> QED BY <1>1, <1>2, <1>3, <1>5, <1>6 DEF CallInv, Dims

(* No file is saved before the end. *)
LEMMA NoneSaved ==
    ASSUME SavedInv, phase # "exit", UNCHANGED saved
    PROVE  SavedInv'
BY DEF SavedInv, SavedReadsBack

(* The steps before the image is there leave what the calls work on alone.  *)
LEMMA OpenFilePreserves ==
    ASSUME IInv, OpenFile
    PROVE  IInv'
<1>1. /\ phase = "open" /\ UNCHANGED <<maskVars, file, ntrials, tokens, numbers, white>>
      /\ UNCHANGED <<baseAnswer, trial, problems, saved>>
      /\ phase' \in {"header", "exit"} /\ status' \in {status, "-2"}
  BY DEF OpenFile, Exit, inputVars, readVars
<1>2. UNCHANGED <<version, rows, cols, oldImage, newImage, weight, check, step, pc>>
  BY <1>1 DEF maskVars, call
<1>3. ProgramTypes /\ HeaderInv /\ ResultInv /\ SavedInv /\ CallInv
  BY DEF IInv, ProgramInv
<1>4. pc = "idle" /\ ReadTypes /\ MainTypes
  BY <1>1, <1>3 DEF ProgramTypes, IdleInv
<1>5. CallInv'
  BY <1>2, <1>3, <1>4, IdleKeeps DEF CallInv
<1>6. ProgramTypes'
  <2>1. ReadTypes'
    BY <1>1, <1>4 DEF ReadTypes, Started
  <2>2. MainTypes'
    BY <1>1, <1>2, <1>4 DEF MainTypes, Dims
  <2>3. IdleInv'
    BY <1>2, <1>4 DEF IdleInv
  <2> QED BY <2>1, <2>2, <2>3 DEF ProgramTypes
<1>7. HeaderInv'
  BY <1>1, <1>3 DEF HeaderInv, ReadSoFar, Agree
<1>8. PixelInv' /\ ResultInv'
  BY <1>1, <1>3 DEF PixelInv, ResultInv
<1>9. SavedInv'
  BY <1>1, <1>3, NoneSaved
<1> QED BY <1>5, <1>6, <1>7, <1>8, <1>9 DEF IInv, ProgramInv
(* A token of the header is a number or a text, not both. *)
LEMMA NumberOrText ==
    ASSUME NEW token, token \in [number : Nat], NEW texts
    PROVE  token \notin [text : texts]
<1>1. DOMAIN token = {"number"}
  OBVIOUS
<1>2. token \in [text : texts] => DOMAIN token = {"text"}
  OBVIOUS
<1> QED BY <1>1, <1>2

(* The three numbers of a header, in their order. *)
LEMMA MarksSay ==
    ASSUME NEW f, f.header \in Seq(Tokens), NEW p, Marks(f, p)
    PROVE  /\ \A i \in 1 .. 3 : p[i] \in 1 .. Len(f.header) /\ f.header[p[i]] \in [number : Nat]
           /\ \A i, j \in 1 .. 3 : i < j => p[i] < p[j]
           /\ \A t \in 1 .. Len(f.header) :
                 f.header[t] \in [number : Nat] => \E i \in 1 .. 3 : t = p[i]
<1>1. /\ p \in [1 .. 3 -> DOMAIN f.header] /\ p[1] < p[2] /\ p[2] < p[3]
      /\ \A i \in 1 .. 3 : f.header[p[i]] \in [number : Nat]
      /\ \A t \in DOMAIN f.header :
            t \in {p[1], p[2], p[3]} \/ f.header[t] = [text |-> Comment]
  BY Zenon DEF Marks
<1>2. DOMAIN f.header = 1 .. Len(f.header) /\ Len(f.header) \in Nat
  OBVIOUS
<1>3. p[1] \in Nat /\ p[2] \in Nat /\ p[3] \in Nat
  BY <1>1, <1>2
<1>4. \A i, j \in 1 .. 3 : i < j => p[i] < p[j]
  BY <1>1, <1>3
<1>5. \A t \in DOMAIN f.header :
          f.header[t] \in [number : Nat] => \E i \in 1 .. 3 : t = p[i]
  <2> SUFFICES ASSUME NEW t \in DOMAIN f.header, f.header[t] \in [number : Nat]
               PROVE  \E i \in 1 .. 3 : t = p[i]
    BY Zenon
  <2>1. f.header[t] # [text |-> Comment]
    <3>1. [text |-> Comment] \in [text : {Comment}]
      OBVIOUS
    <3> QED BY <3>1, NumberOrText
  <2>2. t \in {p[1], p[2], p[3]}
    BY <1>1, <2>1, Zenon
  <2>3. 1 \in 1 .. 3 /\ 2 \in 1 .. 3 /\ 3 \in 1 .. 3
    OBVIOUS
  <2> QED BY <2>2, <2>3, Zenon
<1> QED BY <1>1, <1>2, <1>4, <1>5

(* What is read is what the header marks: a comment is none of the numbers, *)
(* and a number is the next of them.                                        *)
LEMMA CommentRead ==
    ASSUME ReadTypes, NEW p, Marks(file, p), ReadSoFar(p), Agree(p),
           tokens # <<>>, Head(tokens) \in [text : {Comment, Open}],
           tokens' = Tail(tokens), UNCHANGED <<file, numbers>>
    PROVE  ReadSoFar(p)' /\ Agree(p)'
<1> DEFINE at == Len(file.header) - Len(tokens)
<1>1. file.header \in Seq(Tokens) /\ tokens \in Seq(Tokens) /\ numbers \in Seq(Nat)
  BY FileTyped DEF ReadTypes
<1>2. /\ at \in Nat /\ tokens[1] = file.header[at + 1]
      /\ \A i \in 1 .. Len(tokens) : tokens[i] = file.header[at + i]
      /\ \A i \in 1 .. 3 : i <= Len(numbers) <=> p[i] <= at
  BY <1>1 DEF ReadSoFar
<1>3. /\ Len(tokens') = Len(tokens) - 1 /\ Len(tokens) \in Nat \ {0} /\ Len(file.header) \in Nat
      /\ \A i \in 1 .. Len(tokens) - 1 : tokens'[i] = tokens[i + 1]
  BY <1>1
<1>4. \A i \in 1 .. 3 : p[i] \in Nat /\ p[i] # at + 1
  <2>1. file.header[at + 1] \notin [number : Nat]
    <3>1. tokens[1] = Head(tokens)
      BY <1>1, SMT
    <3>2. file.header[at + 1] = Head(tokens)
      BY <1>2, <3>1, Zenon
    <3> QED BY <3>2, NumberOrText, Zenon
  <2> QED BY <1>1, <2>1, MarksSay
<1> HIDE DEF at
<1> DEFINE next == Len(file.header) - Len(tokens')
<1>5. next = at + 1 /\ file' = file /\ numbers' = numbers
  BY <1>3 DEF at
<1>6. ReadSoFar(p)' <=>
        /\ next \in Nat
        /\ \A i \in 1 .. Len(tokens') : tokens'[i] = file.header[next + i]
        /\ \A i \in 1 .. 3 : i <= Len(numbers) <=> p[i] <= next
  BY <1>5 DEF ReadSoFar
<1> HIDE DEF next
<1>7. \A i \in 1 .. Len(tokens') : tokens'[i] = file.header[next + i]
  <2> SUFFICES ASSUME NEW i \in 1 .. Len(tokens')
               PROVE  tokens'[i] = file.header[next + i]
    OBVIOUS
  <2>1. i + 1 \in 1 .. Len(tokens) /\ tokens'[i] = tokens[i + 1] /\ at + (i + 1) = next + i
    BY <1>2, <1>3, <1>5
  <2> QED BY <1>2, <2>1
<1>8. \A i \in 1 .. 3 : i <= Len(numbers) <=> p[i] <= next
  <2> SUFFICES ASSUME NEW i \in 1 .. 3
               PROVE  i <= Len(numbers) <=> p[i] <= next
    OBVIOUS
  <2>1. p[i] \in Nat /\ p[i] # at + 1 /\ (i <= Len(numbers) <=> p[i] <= at)
    BY <1>2, <1>4
  <2> QED BY <1>2, <1>5, <2>1
<1>9. ReadSoFar(p)'
  BY <1>2, <1>5, <1>6, <1>7, <1>8
<1> QED BY <1>5, <1>9 DEF Agree

(* A number read is the next one the header marks. *)
LEMMA NumberRead ==
    ASSUME ReadTypes, NEW p, Marks(file, p), ReadSoFar(p), Agree(p),
           tokens # <<>>, Head(tokens) \in [number : Nat], Len(numbers) < 3,
           tokens' = Tail(tokens), numbers' = Append(numbers, Head(tokens).number),
           UNCHANGED file
    PROVE  ReadSoFar(p)' /\ Agree(p)'
<1> DEFINE at == Len(file.header) - Len(tokens)
           k == Len(numbers) + 1
<1>1. /\ file.header \in Seq(Tokens) /\ tokens \in Seq(Tokens) /\ numbers \in Seq(Nat)
      /\ k \in 1 .. 3
  BY FileTyped DEF ReadTypes
<1>2. /\ at \in Nat /\ tokens[1] = file.header[at + 1]
      /\ \A i \in 1 .. Len(tokens) : tokens[i] = file.header[at + i]
      /\ \A i \in 1 .. 3 : i <= k - 1 <=> p[i] <= at
  BY <1>1 DEF ReadSoFar
<1>3. /\ Len(tokens') = Len(tokens) - 1 /\ Len(tokens) \in Nat \ {0} /\ Len(file.header) \in Nat
      /\ \A i \in 1 .. Len(tokens) - 1 : tokens'[i] = tokens[i + 1]
  BY <1>1
<1>4. at + 1 \in DOMAIN file.header
  BY <1>1, <1>2, <1>3
<1>5. /\ \A i \in 1 .. 3 : p[i] \in Nat
      /\ \A i, j \in 1 .. 3 : i < j => p[i] < p[j]
      /\ \E i \in 1 .. 3 : at + 1 = p[i]
  <2>1. file.header[at + 1] \in [number : Nat]
    <3>1. tokens[1] = Head(tokens)
      BY <1>1, SMT
    <3> QED BY <1>2, <3>1, Zenon
  <2>2. at + 1 \in 1 .. Len(file.header)
    BY <1>1, <1>4
  <2> HIDE DEF at
  <2>3. /\ \A i \in 1 .. 3 : p[i] \in 1 .. Len(file.header)
        /\ \A i, j \in 1 .. 3 : i < j => p[i] < p[j]
        /\ \A t \in 1 .. Len(file.header) :
              file.header[t] \in [number : Nat] => \E i \in 1 .. 3 : t = p[i]
    BY <1>1, MarksSay
  <2>4. \A i \in 1 .. 3 : p[i] \in Nat
    BY <2>3
  <2>5. \E i \in 1 .. 3 : at + 1 = p[i]
    BY <2>1, <2>2, <2>3, Zenon
  <2> QED BY <2>3, <2>4, <2>5, Zenon
<1> HIDE DEF at, k
<1>6. p[k] = at + 1
  <2>1. PICK i \in 1 .. 3 : at + 1 = p[i]
    BY <1>5
  <2>2. ~(i <= k - 1)
    BY <1>2, <2>1
  <2>3. ~(k < i)
    <3>1. k \in 1 .. 3 /\ p[k] \in Nat /\ ~(p[k] <= at)
      BY <1>1, <1>2, <1>5
    <3>2. k < i => p[k] < at + 1
      BY <1>5, <2>1, <3>1
    <3> QED BY <1>2, <3>1, <3>2
  <2>4. i = k
    BY <1>1, <2>1, <2>2, <2>3
  <2> QED BY <2>1, <2>4
<1> DEFINE next == Len(file.header) - Len(tokens')
<1>7. /\ next = at + 1 /\ file' = file /\ Len(numbers') = k
      /\ numbers'[k] = file.header[at + 1].number
      /\ \A i \in 1 .. k - 1 : numbers'[i] = numbers[i]
  BY <1>1, <1>2, <1>3 DEF at, k
<1>8. ReadSoFar(p)' <=>
        /\ next \in Nat
        /\ \A i \in 1 .. Len(tokens') : tokens'[i] = file.header[next + i]
        /\ \A i \in 1 .. 3 : i <= k <=> p[i] <= next
  BY <1>7 DEF ReadSoFar
<1> HIDE DEF next
<1>9. \A i \in 1 .. Len(tokens') : tokens'[i] = file.header[next + i]
  <2> SUFFICES ASSUME NEW i \in 1 .. Len(tokens')
               PROVE  tokens'[i] = file.header[next + i]
    OBVIOUS
  <2>1. i + 1 \in 1 .. Len(tokens) /\ tokens'[i] = tokens[i + 1] /\ at + (i + 1) = next + i
    BY <1>2, <1>3, <1>7
  <2> QED BY <1>2, <2>1
<1>10. \A i \in 1 .. 3 : i <= k <=> p[i] <= next
  <2> SUFFICES ASSUME NEW i \in 1 .. 3 PROVE i <= k <=> p[i] <= next
    OBVIOUS
  <2>1. p[i] \in Nat /\ (i <= k - 1 <=> p[i] <= at)
    BY <1>2, <1>5
  <2>2. k < i => p[i] > at + 1
    BY <1>1, <1>2, <1>5, <1>6
  <2>3. i = k => p[i] = at + 1
    BY <1>6
  <2> QED BY <1>1, <1>2, <1>7, <2>1, <2>2, <2>3
<1>11. ReadSoFar(p)'
  BY <1>2, <1>7, <1>8, <1>9, <1>10
<1>12. \A i \in 1 .. k : numbers'[i] = file.header[p[i]].number
  <2> SUFFICES ASSUME NEW i \in 1 .. k PROVE numbers'[i] = file.header[p[i]].number
    OBVIOUS
  <2>1. i = k \/ i \in 1 .. k - 1
    BY <1>1
  <2>2. \A j \in 1 .. k - 1 : numbers[j] = file.header[p[j]].number
    BY DEF Agree, k
  <2> QED BY <1>6, <1>7, <2>1, <2>2
<1> QED BY <1>7, <1>11, <1>12 DEF Agree
(* A step that leaves an idle call alone. *)
LEMMA IdleStays ==
    ASSUME CallInv, pc = "idle", UNCHANGED maskVars
    PROVE  CallInv' /\ UNCHANGED <<version, rows, cols, oldImage, newImage, pc>>
<1>1. UNCHANGED <<version, rows, cols, oldImage, newImage, weight, check, step, pc>>
  BY DEF maskVars, call
<1> QED BY <1>1, IdleKeeps DEF CallInv

(* Where a header is read, nothing is left but to follow it.                *)
LEMMA HeaderFollowed ==
    ASSUME ProgramTypes, HeaderInv, phase = "header", ~(Len(numbers) >= 3),
           tokens' \in Seq(Tokens), numbers' \in Seq(Nat), UNCHANGED file,
           phase' \in {"header", "pixels", "loops", "exit"},
           phase' = "header" => Len(numbers') < 3,
           phase' = "pixels" => /\ Len(numbers') = 3 /\ numbers'[1] <= N
                                /\ numbers'[2] <= N /\ numbers'[3] < Whites,
           \A p : Marks(file, p) /\ ReadSoFar(p) /\ Agree(p) /\ phase' \in {"header", "pixels"}
                    => ReadSoFar(p)' /\ Agree(p)'
    PROVE  HeaderInv'
<1>1. \A p : Marks(file, p) => ReadSoFar(p) /\ Agree(p)
  BY DEF HeaderInv
<1>2. \A p : Marks(file, p) /\ phase' \in {"header", "pixels"} => ReadSoFar(p)' /\ Agree(p)'
  BY <1>1
<1>3. \A p : Marks(file', p) =>
          /\ phase' \in {"open", "header"} => ReadSoFar(p)' /\ Agree(p)'
          /\ phase' = "pixels" => Agree(p)'
  BY <1>2
<1> QED BY <1>3 DEF HeaderInv

(* A token that is no comment is a word or a number. *)
LEMMA TokenRead ==
    ASSUME NEW token \in Tokens, token \notin [text : {Comment, Open}]
    PROVE  token \in [number : Nat] \/ token = [text |-> Word]
<1>1. token \in [number : Nat] \/ token \in [text : {Word, Comment, Open}]
  BY DEF Tokens
<1>2. CASE token \in [text : {Word, Comment, Open}]
  <2>1. PICK w \in {Word, Comment, Open} : token = [text |-> w]
    BY <1>2
  <2>2. w \notin {Comment, Open}
    BY <2>1
  <2> QED BY <2>1, <2>2
<1> QED BY <1>1, <1>2

(* An element of a sequence, and how many it has. *)
LEMMA ElementOf ==
    ASSUME NEW S, NEW s \in Seq(S), NEW i \in 1 .. Len(s)
    PROVE  s[i] \in S
OBVIOUS

LEMMA LengthNat ==
    ASSUME NEW S, NEW s \in Seq(S)
    PROVE  Len(s) \in Nat
OBVIOUS

(* One token of the header, or its end. *)
LEMMA ReadHeaderPreserves ==
    ASSUME IInv, ReadHeader
    PROVE  IInv'
<1>1. /\ phase = "header" /\ UNCHANGED maskVars
      /\ HeaderEnds \/ SkipComment \/ readPBMNumber
      /\ UNCHANGED <<file, ntrials, white, baseAnswer, trial, problems, saved>>
  BY DEF ReadHeader, inputVars
<1>2. ProgramTypes /\ HeaderInv /\ ResultInv /\ SavedInv /\ CallInv
  BY DEF IInv, ProgramInv
<1>3. pc = "idle" /\ ReadTypes /\ MainTypes
  BY <1>1, <1>2 DEF ProgramTypes, IdleInv
<1>4. CallInv' /\ UNCHANGED <<version, rows, cols, oldImage, newImage, pc>>
  BY <1>1, <1>2, <1>3, IdleStays
<1>5. /\ tokens \in Seq(Tokens) /\ numbers \in Seq(Nat) /\ Len(numbers) \in Nat
      /\ Len(numbers) < 3
  BY <1>1, <1>2, <1>3 DEF ReadTypes, HeaderInv
<1>6. /\ tokens' \in Seq(Tokens) /\ numbers' \in Seq(Nat)
      /\ phase' \in {"header", "pixels", "loops", "exit"} /\ status' \in {status, "-2"}
      /\ HeaderInv'
  <2>1. CASE HeaderEnds
    <3>1. /\ UNCHANGED <<tokens, numbers>> /\ phase' \in {"loops", "exit"}
          /\ status' \in {status, "-2"}
      BY <2>1 DEF HeaderEnds, Exit
    <3> QED BY <1>1, <1>2, <1>5, <3>1, HeaderFollowed
  <2>2. CASE SkipComment
    <3>1. /\ tokens # <<>> /\ tokens' = Tail(tokens) /\ numbers' = numbers
          /\ Head(tokens) \in [text : {Comment, Open}]
          /\ phase' \in {"loops", "header"} /\ status' = status
      BY <2>2 DEF SkipComment
    <3>2. tokens' \in Seq(Tokens)
      BY <1>5, <3>1
    <3>3. \A p : Marks(file, p) /\ ReadSoFar(p) /\ Agree(p) => ReadSoFar(p)' /\ Agree(p)'
      BY <1>1, <1>3, <3>1, CommentRead
    <3> QED BY <1>1, <1>2, <1>5, <3>1, <3>2, <3>3, HeaderFollowed
  <2>3. CASE readPBMNumber
    <3> DEFINE token == Head(tokens)
    <3>1. /\ tokens' = Tail(tokens) /\ tokens # <<>> /\ token \notin [text : {Comment, Open}]
      BY <2>3 DEF readPBMNumber
    <3>2. tokens' \in Seq(Tokens) /\ token \in Tokens
      BY <1>5, <3>1
    <3>3. CASE token = [text |-> Word]
      <4>1. phase' = "exit" /\ status' = "-2" /\ numbers' = numbers
        BY <2>3, <3>3 DEF readPBMNumber, Exit
      <4> QED BY <1>1, <1>2, <1>5, <3>2, <4>1, HeaderFollowed
    <3>4. CASE token # [text |-> Word]
      <4>1. token \in [number : Nat]
        BY <3>1, <3>2, <3>4, TokenRead
      <4>2. /\ numbers' = Append(numbers, token.number)
            /\ IF Len(numbers') < 3
               THEN phase' = "header" /\ UNCHANGED status
               ELSE IF numbers'[3] >= 65536 \/ ~file.space \/ numbers'[1] > N \/ numbers'[2] > N
                    THEN Exit("-2")
                    ELSE phase' = "pixels" /\ UNCHANGED status
        BY <2>3, <3>4 DEF readPBMNumber
      <4>3. token.number \in Nat
        BY <4>1
      <4> HIDE DEF token
      <4>4. numbers' \in Seq(Nat) /\ Len(numbers') = Len(numbers) + 1
        BY <1>5, <4>2, <4>3
      <4>5. /\ phase' \in {"header", "pixels", "exit"} /\ status' \in {status, "-2"}
            /\ phase' = "header" => Len(numbers') < 3
            /\ phase' = "pixels" => /\ Len(numbers') >= 3 /\ ~(numbers'[1] > N)
                                    /\ ~(numbers'[2] > N) /\ ~(numbers'[3] >= Whites)
        <5>1. Len(numbers') \in Nat
          BY <1>5, <4>4
        <5>2. CASE Len(numbers') < 3
          BY <4>2, <5>2
        <5>3. CASE ~(Len(numbers') < 3)
          <6>1. Len(numbers') >= 3
            BY <5>1, <5>3
          <6>2. CASE Exit("-2")
            BY <6>2 DEF Exit
          <6>3. CASE ~Exit("-2")
            BY <4>2, <5>3, <6>1, <6>3 DEF Whites
          <6> QED BY <6>2, <6>3
        <5> QED BY <5>2, <5>3
      <4>6. phase' = "pixels" => /\ Len(numbers') = 3 /\ numbers'[1] <= N
                                 /\ numbers'[2] <= N /\ numbers'[3] < Whites
        <5> SUFFICES ASSUME phase' = "pixels"
                     PROVE  /\ Len(numbers') = 3 /\ numbers'[1] <= N
                            /\ numbers'[2] <= N /\ numbers'[3] < Whites
          OBVIOUS
        <5>1. Len(numbers') = 3
          BY <1>5, <4>4, <4>5
        <5> DEFINE ns == numbers'
        <5>2. ns \in Seq(Nat) /\ Len(ns) = 3
          BY <4>4, <5>1
        <5>3. ~(ns[1] > N) /\ ~(ns[2] > N) /\ ~(ns[3] >= Whites)
          BY <4>5, SMT
        <5> HIDE DEF ns
        <5>4. ns[1] \in Nat /\ ns[2] \in Nat /\ ns[3] \in Nat
          <6>1. \A i \in 1 .. Len(ns) : ns[i] \in Nat
            BY <5>2, ElementOf, Zenon
          <6>2. 1 \in 1 .. 3 /\ 2 \in 1 .. 3 /\ 3 \in 1 .. 3
            OBVIOUS
          <6> QED BY <5>2, <6>1, <6>2, Zenon
        <5>5. ns[1] <= N /\ ns[2] <= N /\ ns[3] < Whites
          <6>1. N \in Int
            BY SizeAssumption
          <6>2. ns[1] <= N
            BY <5>3, <5>4, <6>1
          <6>3. ns[2] <= N
            BY <5>3, <5>4, <6>1
          <6>4. ns[3] < Whites
            BY <5>3, <5>4 DEF Whites
          <6> QED BY <6>2, <6>3, <6>4
        <5> QED BY <5>1, <5>5, SMT DEF ns
      <4>7. \A p : Marks(file, p) /\ ReadSoFar(p) /\ Agree(p) => ReadSoFar(p)' /\ Agree(p)'
        BY <1>1, <1>3, <1>5, <3>1, <4>1, <4>2, NumberRead DEF token
      <4> QED BY <1>1, <1>2, <1>5, <3>2, <4>4, <4>5, <4>6, <4>7, HeaderFollowed
    <3> QED BY <3>3, <3>4
  <2> QED BY <1>1, <2>1, <2>2, <2>3
<1>7. ProgramTypes'
  <2>1. ReadTypes'
    BY <1>1, <1>3, <1>6 DEF ReadTypes, Started
  <2>2. MainTypes'
    BY <1>1, <1>3, <1>4, <1>6 DEF MainTypes, Dims
  <2>3. IdleInv'
    BY <1>3, <1>4 DEF IdleInv
  <2> QED BY <2>1, <2>2, <2>3 DEF ProgramTypes
<1>8. PixelInv' /\ ResultInv'
  BY <1>1, <1>2, <1>6 DEF PixelInv, ResultInv
<1>9. SavedInv'
  BY <1>1, <1>2, NoneSaved
<1> QED BY <1>4, <1>6, <1>7, <1>8, <1>9 DEF IInv, ProgramInv
(* Every pixel is read as a number, and one of a whole file as its byte.    *)
LEMMA PixelInt ==
    ASSUME Started, NEW k \in Nat, NEW maximum, NEW highFirst \in BOOLEAN
    PROVE  Pixel(k, maximum, highFirst) \in Int
<1>1. \A i \in Nat \ {0} : fgetc(i) \in Int
  <2> SUFFICES ASSUME NEW i \in Nat \ {0} PROVE fgetc(i) \in Int
    OBVIOUS
  <2>1. i <= Len(file.bytes) => file.bytes[i] \in 0 .. 255
    <3>1. file.bytes \in Seq(0 .. 255)
      BY FileTyped
    <3>2. i <= Len(file.bytes) => i \in 1 .. Len(file.bytes)
      BY <3>1
    <3> QED BY <3>1, <3>2, ElementOf, Zenon
  <2>2. i <= Len(file.bytes) => file.bytes[i] \in Int
    <3>1. \A x \in 0 .. 255 : x \in Int
      OBVIOUS
    <3> QED BY <2>1, <3>1, Zenon
  <2>3. EOF \in Int
    BY DEF EOF
  <2> QED BY <2>2, <2>3 DEF fgetc
<1>2. \A a, b \in Int : Or(a, b) \in Int
  BY DEF Or, EOF
<1>3. fgetc(k + 1) \in Int /\ fgetc(2 * k + 1) \in Int /\ fgetc(2 * k + 2) \in Int
  BY <1>1
<1> QED BY <1>2, <1>3 DEF Pixel

LEMMA PixelByte ==
    ASSUME Started, NEW k \in Nat, k + 1 <= Len(file.bytes),
           NEW maximum, maximum < 256, NEW highFirst
    PROVE  Pixel(k, maximum, highFirst) \in 0 .. 255
<1>1. file.bytes \in Seq(0 .. 255)
  BY FileTyped
<1>2. k + 1 \in 1 .. Len(file.bytes)
  BY <1>1
<1>3. file.bytes[k + 1] \in 0 .. 255
  BY <1>1, <1>2, ElementOf, Zenon
<1>4. Pixel(k, maximum, highFirst) = file.bytes[k + 1]
  BY DEF Pixel, fgetc
<1> QED BY <1>3, <1>4

(* The image read has the rows and columns of the header. *)
LEMMA ReadPixelsPreserves ==
    ASSUME IInv, ReadPixels
    PROVE  IInv'
<1>1. /\ phase = "pixels" /\ phase' = "image"
      /\ UNCHANGED <<version, newImage, weight, check, step, pc>>
      /\ UNCHANGED <<file, ntrials, tokens, numbers>>
      /\ UNCHANGED <<baseAnswer, trial, problems, status, saved>>
      /\ cols' = numbers[1] /\ rows' = numbers[2] /\ white' = numbers[3]
  BY DEF ReadPixels, inputVars
<1>2. PICK highFirst \in BOOLEAN :
          oldImage' = [c \in Array |-> IF c \in Image'
                                      THEN Pixel(c[1] * cols' + c[2], white', highFirst) ELSE 0]
  BY DEF ReadPixels
<1>3. ProgramTypes /\ HeaderInv /\ ResultInv /\ SavedInv /\ CallInv
  BY DEF IInv, ProgramInv
<1>4. pc = "idle" /\ ReadTypes /\ MainTypes /\ Started
  BY <1>1, <1>3 DEF ProgramTypes, IdleInv, ReadTypes
<1>5. /\ cols' \in Nat /\ rows' \in Nat /\ white' \in Nat
      /\ cols' <= N /\ rows' <= N /\ white' < Whites /\ Len(numbers) = 3
  <2>1. /\ numbers \in Seq(Nat) /\ Len(numbers) = 3 /\ numbers[1] <= N /\ numbers[2] <= N
        /\ numbers[3] < Whites
    BY <1>1, <1>3, <1>4 DEF HeaderInv, ReadTypes
  <2>2. 1 \in 1 .. 3 /\ 2 \in 1 .. 3 /\ 3 \in 1 .. 3
    OBVIOUS
  <2>3. numbers[1] \in Nat /\ numbers[2] \in Nat /\ numbers[3] \in Nat
    BY <2>1, <2>2, ElementOf, Zenon
  <2> QED BY <1>1, <2>1, <2>3
<1>6. Dims'
  BY <1>5, SizeAssumption DEF Dims
<1>7. \A c \in Image' : c[1] * cols' + c[2] \in 0 .. rows' * cols' - 1
  <2> SUFFICES ASSUME NEW c \in Image' PROVE c[1] * cols' + c[2] \in 0 .. rows' * cols' - 1
    OBVIOUS
  <2>1. c[1] \in 0 .. rows' - 1 /\ c[2] \in 0 .. cols' - 1
    BY DEF Image
  <2> QED BY <1>5, <2>1, PlaceBound
<1>8. oldImage' \in [Array -> Int]
  <2>1. \A c \in Image' : Pixel(c[1] * cols' + c[2], white', highFirst) \in Int
    BY <1>4, <1>7, PixelInt
  <2> QED BY <1>2, <2>1
<1>9. CallInv'
  BY <1>1, <1>3, <1>4, <1>8, IdleKeeps DEF CallInv
<1>10. ProgramTypes'
  <2>1. ReadTypes'
    BY <1>1, <1>4, <1>5 DEF ReadTypes, Started
  <2>2. MainTypes'
    BY <1>1, <1>4, <1>6 DEF MainTypes
  <2>3. IdleInv'
    BY <1>1, <1>4 DEF IdleInv
  <2> QED BY <2>1, <2>2, <2>3 DEF ProgramTypes
<1>11. PixelInv'
  <2> SUFFICES ASSUME Whole(file)
               PROVE  white' < 256 /\ \A c \in Image' : oldImage'[c] \in 0 .. 255
    BY <1>1 DEF PixelInv
  <2>1. PICK p \in [1 .. 3 -> DOMAIN file.header] :
            /\ Marks(file, p) /\ file.header[p[3]].number < 256
            /\ Len(file.bytes) >= file.header[p[1]].number * file.header[p[2]].number
    BY DEF Whole
  <2>2. \A i \in 1 .. 3 : numbers[i] = file.header[p[i]].number
    BY <1>1, <1>3, <1>5, <2>1 DEF HeaderInv, Agree
  <2>3. white' < 256 /\ Len(file.bytes) >= cols' * rows'
    BY <1>1, <2>1, <2>2
  <2>4. cols' * rows' = rows' * cols' /\ rows' * cols' \in Nat /\ Len(file.bytes) \in Nat
    <3>1. Len(file.bytes) \in Nat
      BY <1>4, FileTyped, LengthNat, Zenon
    <3>2. \A a, b \in Nat : a * b = b * a /\ b * a \in Nat
      OBVIOUS
    <3>3. cols' \in Nat /\ rows' \in Nat
      BY <1>5
    <3> QED BY <3>1, <3>2, <3>3, Zenon
  <2>5. ASSUME NEW c \in Image'
        PROVE  oldImage'[c] \in 0 .. 255
    <3> DEFINE k == c[1] * cols' + c[2]
               n == rows' * cols'
    <3>1. k \in 0 .. n - 1 /\ Len(file.bytes) >= n /\ n \in Nat
      BY <1>7, <2>3, <2>4
    <3>2. c \in Array
      BY <1>5, <1>6, SizeAssumption DEF Image, Array, Dims
    <3>3. oldImage'[c] = Pixel(k, white', highFirst)
      BY <1>2, <3>2
    <3> HIDE DEF k, n
    <3>4. k \in Nat /\ k + 1 <= Len(file.bytes)
      BY <2>4, <3>1
    <3> QED BY <1>4, <2>3, <3>3, <3>4, PixelByte
  <2> QED BY <2>3, <2>5
<1>12. HeaderInv' /\ ResultInv'
  BY <1>1, <1>3 DEF HeaderInv, ResultInv
<1>13. SavedInv'
  BY <1>1, <1>3, NoneSaved
<1> QED BY <1>9, <1>10, <1>11, <1>12, <1>13 DEF IInv, ProgramInv
----
(* main: a call begins with the image read, and what it leaves is compared  *)
(* and kept until the next one.                                             *)
LEMMA BeginsCall ==
    ASSUME IInv, NEW v \in Versions \cup {"baseMask"}, NEW held \in [Array -> Int],
           Call(v, oldImage, held), phase' \in {"answer", "base", "mask"},
           phase \in {"image", "base", "mask"}, phase' = "answer" => trial = 0,
           UNCHANGED <<inputVars, readVars, baseAnswer, trial, problems, status, saved>>
    PROVE  IInv'
<1>1. ProgramTypes /\ HeaderInv /\ PixelInv /\ SavedInv /\ CallInv
  BY DEF IInv, ProgramInv
<1>2. ReadTypes /\ MainTypes /\ Dims /\ oldImage \in [Array -> Int]
  BY <1>1 DEF ProgramTypes, MainTypes, CallInv
<1>3. /\ CallInv' /\ Dims' /\ version' = v /\ pc' = "nests"
      /\ oldImage' = oldImage /\ rows' = rows /\ cols' = cols
  BY <1>2, CallEstablishes DEF Call
<1>4. UNCHANGED <<file, ntrials, tokens, numbers, white>>
  BY DEF inputVars, readVars
<1>5. ProgramTypes'
  <2>1. ReadTypes'
    BY <1>2, <1>4 DEF ReadTypes, Started
  <2>2. MainTypes'
    BY <1>2, <1>3 DEF MainTypes
  <2>3. IdleInv'
    BY DEF IdleInv
  <2> QED BY <2>1, <2>2, <2>3 DEF ProgramTypes
<1>6. HeaderInv' /\ ResultInv'
  BY <1>3 DEF HeaderInv, ResultInv
<1>7. PixelInv'
  BY <1>1, <1>3, <1>4 DEF PixelInv, Image
<1>8. SavedInv'
  BY <1>1, NoneSaved
<1> QED BY <1>3, <1>5, <1>6, <1>7, <1>8 DEF IInv, ProgramInv

LEMMA ZerosTyped == Zeros \in [Array -> Int]
BY DEF Zeros

LEMMA AskBaseMaskPreserves ==
    ASSUME IInv, AskBaseMask
    PROVE  IInv'
<1>1. phase = "image" /\ trial = 0
  BY DEF AskBaseMask, IInv, ProgramInv, ResultInv
<1> QED BY <1>1, BeginsCall, ZerosTyped DEF AskBaseMask

LEMMA TrialPreserves ==
    ASSUME IInv, Trial
    PROVE  IInv'
<1>1. version \in Versions \cup {"baseMask"}
  BY DEF IInv, ProgramInv, ProgramTypes, MainTypes
<1>2. /\ phase \in {"base", "mask"} /\ phase' = phase
      /\ UNCHANGED <<inputVars, readVars, baseAnswer, trial, problems, status, saved>>
  BY DEF Trial, timeVars
<1>3. PICK v \in Versions \cup {"baseMask"}, garbage \in Fills :
          Call(v, oldImage, [c \in Array |-> garbage])
  BY <1>1 DEF Trial
<1>4. [c \in Array |-> garbage] \in [Array -> Int]
  BY FillsAssumption
<1> QED BY <1>2, <1>3, <1>4, BeginsCall

(* What a call leaves is the image of averages. *)
LEMMA EndsCall ==
    ASSUME IInv, phase \in {"answer", "base", "mask"}, pc = "done",
           UNCHANGED <<call, weight, check, step>>, pc' = "idle",
           newImage' \in [Array -> Int], baseAnswer' \in [Array -> Int],
           \/ newImage' = newImage
           \/ trial' = 0,
           trial' \in Nat, problems' \in BOOLEAN, phase' \in {"base", "mask"},
           UNCHANGED <<inputVars, readVars, status, saved>>
    PROVE  IInv'
<1>1. ProgramTypes /\ HeaderInv /\ PixelInv /\ SavedInv /\ CallInv
  BY DEF IInv, ProgramInv
<1>2. ReadTypes /\ MainTypes
  BY <1>1 DEF ProgramTypes
<1>3. /\ UNCHANGED <<version, rows, cols, oldImage>> /\ Image' = Image /\ Thin' = Thin
      /\ \A c : Average(c)' = Average(c)
  BY CallStays
<1>4. UNCHANGED <<file, ntrials, tokens, numbers, white>>
  BY DEF inputVars, readVars
<1>5. CallInv'
  BY <1>1, <1>3, IdleKeeps DEF CallInv
<1>6. ProgramTypes'
  <2>1. ReadTypes'
    BY <1>2, <1>4 DEF ReadTypes, Started
  <2>2. MainTypes'
    BY <1>2, <1>3 DEF MainTypes, Dims
  <2>3. IdleInv'
    BY DEF IdleInv
  <2> QED BY <2>1, <2>2, <2>3 DEF ProgramTypes
<1>7. HeaderInv' /\ PixelInv'
  BY <1>1, <1>3, <1>4 DEF HeaderInv, PixelInv
<1>8. ResultInv'
  <2>1. ~Thin => \A c \in Image : newImage[c] = Average(c)
    BY <1>1 DEF CallInv, WeightedAverage
  <2>2. CASE newImage' = newImage
    BY <1>3, <2>1, <2>2 DEF ResultInv
  <2>3. CASE trial' = 0
    BY <2>3 DEF ResultInv
  <2> QED BY <2>2, <2>3
<1>9. SavedInv'
  BY <1>1, NoneSaved
<1> QED BY <1>5, <1>6, <1>7, <1>8, <1>9 DEF IInv, ProgramInv

LEMMA KeepAnswerPreserves ==
    ASSUME IInv, KeepAnswer
    PROVE  IInv'
<1>1. newImage \in [Array -> Int] /\ MainTypes
  BY DEF IInv, CallInv, ProgramInv, ProgramTypes
<1>2. trial = 0
  BY DEF KeepAnswer, IInv, ProgramInv, ResultInv
<1> QED BY <1>1, <1>2, EndsCall, ZerosTyped DEF KeepAnswer, MainTypes

LEMMA CheckTrialPreserves ==
    ASSUME IInv, CheckTrial
    PROVE  IInv'
<1>1. newImage \in [Array -> Int] /\ MainTypes
  BY DEF IInv, CallInv, ProgramInv, ProgramTypes
<1>2. trial' \in Nat
  <2>1. trial' = trial + 1
    BY Zenon DEF CheckTrial
  <2>2. trial \in Nat
    BY <1>1, Zenon DEF MainTypes
  <2> QED BY <2>1, <2>2
<1>3. problems' \in BOOLEAN
  BY Zenon DEF CheckTrial
<1> QED BY <1>1, <1>2, <1>3, EndsCall DEF CheckTrial, MainTypes

(* After the trials, the last result is still there. *)
LEMMA TrialsOverPreserves ==
    ASSUME IInv, TrialsOver
    PROVE  IInv'
<1>1. /\ phase \in {"base", "mask"} /\ pc = "idle" /\ trial >= ntrials /\ trial' = 0
      /\ IF ntrials = 0 THEN phase' = "exit" /\ status' = "divided by zero"
         ELSE phase' = (IF phase = "base" THEN "mask" ELSE "save") /\ UNCHANGED status
      /\ UNCHANGED <<maskVars, file, ntrials, tokens, numbers, white>>
      /\ UNCHANGED <<baseAnswer, problems, saved>>
  BY DEF TrialsOver, Exit, inputVars, readVars
<1>2. ProgramTypes /\ HeaderInv /\ PixelInv /\ ResultInv /\ SavedInv /\ CallInv
  BY DEF IInv, ProgramInv
<1>3. ReadTypes /\ MainTypes /\ Started /\ trial \in Nat /\ ntrials \in Int
  BY <1>2, FileTyped DEF ProgramTypes, ReadTypes, MainTypes
<1>4. CallInv' /\ UNCHANGED <<version, rows, cols, oldImage, newImage, pc>>
  BY <1>1, <1>2, IdleStays
<1>5. ProgramTypes'
  <2>1. ReadTypes'
    BY <1>1, <1>3 DEF ReadTypes, Started
  <2>2. MainTypes'
    BY <1>1, <1>3, <1>4 DEF MainTypes, Dims
  <2>3. IdleInv'
    BY <1>1, <1>4 DEF IdleInv
  <2> QED BY <2>1, <2>2, <2>3 DEF ProgramTypes
<1>6. HeaderInv'
  BY <1>1 DEF HeaderInv
<1>7. PixelInv'
  BY <1>1, <1>2, <1>4 DEF PixelInv, Image
<1>8. ResultInv'
  <2>1. ASSUME phase' = "save", ntrials > 0, ~Thin
        PROVE  \A c \in Image : newImage[c] = Average(c)
    <3>1. trial > 0
      BY <1>1, <1>3, <2>1
    <3> QED BY <1>1, <1>2, <2>1, <3>1 DEF ResultInv
  <2>2. Thin' = Thin /\ Image' = Image /\ \A c : Average(c)' = Average(c)
    BY <1>4, CallStays DEF call
  <2>3. phase' \in {"base", "mask", "save", "exit"}
    BY <1>1, Zenon
  <2>4. ~(0 > 0)
    OBVIOUS
  <2> QED BY <1>1, <1>4, <2>1, <2>2, <2>3, <2>4 DEF ResultInv
<1>9. SavedInv'
  BY <1>1, <1>2, NoneSaved
<1> QED BY <1>4, <1>5, <1>6, <1>7, <1>8, <1>9 DEF IInv, ProgramInv
(* The file saved holds what its header says, and what the averages are.    *)
LEMMA SavedWhole ==
    ASSUME Dims, newImage \in [Array -> Int], white \in Nat, white < 256
    PROVE  Whole(SavedFile)
<1> DEFINE f == SavedFile
           p == [i \in 1 .. 3 |-> i]
           n == rows * cols
<1>1. /\ f.kind = "P5" /\ f.space
      /\ f.header = << [number |-> cols], [number |-> rows], [number |-> white] >>
      /\ f.bytes = [k \in 1 .. rows * cols |-> newImage[Cell(k - 1)] % 256]
  BY DEF SavedFile
<1>2. /\ rows \in Nat /\ cols \in Nat /\ rows <= N /\ cols <= N
      /\ cols * rows = rows * cols /\ rows * cols \in Nat
  BY SizeAssumption DEF Dims
<1>3. /\ DOMAIN f.header = 1 .. 3 /\ f.header[1] = [number |-> cols]
      /\ f.header[2] = [number |-> rows] /\ f.header[3] = [number |-> white]
  BY <1>1
<1>4. Len(f.bytes) = rows * cols
  BY <1>1, <1>2
<1> HIDE DEF f
<1>5. p \in [1 .. 3 -> DOMAIN f.header] /\ p[1] = 1 /\ p[2] = 2 /\ p[3] = 3
  BY <1>3
<1> HIDE DEF p
<1>6. /\ \A i \in 1 .. 3 : f.header[p[i]] \in [number : Nat]
      /\ f.header[p[1]].number = cols /\ f.header[p[2]].number = rows
      /\ f.header[p[3]].number = white
  BY <1>2, <1>3, <1>5
<1>7. Marks(f, p)
  <2>1. \A t \in DOMAIN f.header : t \in {p[1], p[2], p[3]}
    BY <1>3, <1>5
  <2> QED BY <1>5, <1>6, <2>1 DEF Marks
<1>8. Whole(f)
  BY <1>1, <1>2, <1>4, <1>5, <1>6, <1>7 DEF Whole
<1> QED BY <1>8 DEF f

(* A pixel of it is the average of its cell. *)
LEMMA SavedAverages ==
    ASSUME IInv, phase = "save", ntrials > 0, Whole(file), ~Thin, NEW c \in Image
    PROVE  SavedFile.bytes[c[1] * cols + c[2] + 1] = Average(c)
<1> DEFINE k == c[1] * cols + c[2]
           n == rows * cols
<1>1. /\ Dims /\ oldImage \in [Array -> Int] /\ newImage[c] = Average(c)
      /\ \A d \in Image : oldImage[d] \in 0 .. 255
  BY DEF IInv, ProgramInv, ProgramTypes, MainTypes, CallInv, ResultInv, PixelInv
<1>2. k \in 0 .. n - 1 /\ Cell(k) = c
  BY <1>1, PlaceOfCell
<1>3. SavedFile.bytes = [i \in 1 .. n |-> newImage[Cell(i - 1)] % 256]
  BY DEF SavedFile
<1>4. Average(c) \in 0 .. 255
  BY <1>1, AverageByte
<1>5. n \in Nat
  BY <1>1 DEF Dims
<1> HIDE DEF k, n
<1>6. k + 1 \in 1 .. n /\ (k + 1) - 1 = k
  BY <1>2, <1>5
<1>7. SavedFile.bytes[k + 1] = Average(c) % 256
  BY <1>1, <1>2, <1>3, <1>6
<1>8. \A a \in 0 .. 255 : a % 256 = a
  OBVIOUS
<1> QED BY <1>4, <1>7, <1>8 DEF k

LEMMA SavePreserves ==
    ASSUME IInv, Save
    PROVE  IInv'
<1>1. /\ phase = "save" /\ phase' = "exit" /\ status' = "0"
      /\ saved' \in {{}, {SavedFile}}
      /\ UNCHANGED <<maskVars, file, ntrials, tokens, numbers, white>>
      /\ UNCHANGED <<baseAnswer, trial, problems>>
  BY DEF Save, Exit, inputVars, readVars
<1>2. ProgramTypes /\ HeaderInv /\ PixelInv /\ ResultInv /\ SavedInv /\ CallInv
  BY DEF IInv, ProgramInv
<1>3. ReadTypes /\ MainTypes /\ Dims /\ pc = "idle"
  BY <1>1, <1>2 DEF ProgramTypes, MainTypes, IdleInv
<1>4. CallInv' /\ UNCHANGED <<version, rows, cols, oldImage, newImage, pc>>
  BY <1>1, <1>2, <1>3, IdleStays
<1>5. ProgramTypes'
  <2>1. ReadTypes'
    BY <1>1, <1>3 DEF ReadTypes, Started
  <2>2. MainTypes'
    BY <1>1, <1>3, <1>4 DEF MainTypes, Dims
  <2>3. IdleInv'
    BY <1>3, <1>4 DEF IdleInv
  <2> QED BY <2>1, <2>2, <2>3 DEF ProgramTypes
<1>6. HeaderInv' /\ PixelInv' /\ ResultInv'
  BY <1>1 DEF HeaderInv, PixelInv, ResultInv
<1>7. SavedReadsBack'
  <2>1. Thin' = Thin /\ Image' = Image /\ \A c : Average(c)' = Average(c)
    BY <1>4, CallStays DEF call
  <2>2. ASSUME ntrials > 0, Whole(file), ~Thin
        PROVE  /\ Whole(SavedFile)
               /\ <<SavedFile.header[1].number, SavedFile.header[2].number>> = <<cols, rows>>
               /\ \A c \in Image : SavedFile.bytes[c[1] * cols + c[2] + 1] = Average(c)
    <3>1. white \in Nat /\ white < 256 /\ newImage \in [Array -> Int]
      BY <1>1, <1>2, <1>3, <2>2 DEF PixelInv, ReadTypes, CallInv
    <3>2. SavedFile.header = << [number |-> cols], [number |-> rows], [number |-> white] >>
      BY DEF SavedFile
    <3> QED BY <1>1, <1>3, <2>2, <3>1, <3>2, SavedWhole, SavedAverages
  <2> DEFINE s == SavedFile
  <2>3. \A f \in saved' : f = s
    BY <1>1
  <2> HIDE DEF s
  <2>4. ASSUME ntrials > 0, Whole(file), ~Thin, NEW f \in saved'
        PROVE  /\ Whole(f)
               /\ <<f.header[1].number, f.header[2].number>> = <<cols, rows>>
               /\ \A c \in Image : f.bytes[c[1] * cols + c[2] + 1] = Average(c)
    BY <2>2, <2>3, <2>4 DEF s
  <2> QED BY <1>1, <1>4, <2>1, <2>4 DEF SavedReadsBack
<1> QED BY <1>1, <1>4, <1>5, <1>6, <1>7 DEF IInv, ProgramInv, SavedInv

(* A step of a call leaves the program around it alone. *)
LEMMA ComputePreserves ==
    ASSUME IInv, Compute, UNCHANGED timeVars
    PROVE  IInv' /\ (~Thin => KeepsOutside)
<1>1. ProgramTypes /\ HeaderInv /\ PixelInv /\ ResultInv /\ SavedInv /\ CallInv
  BY DEF IInv, ProgramInv
<1>2. ReadTypes /\ MainTypes /\ Dims /\ IdleInv
  BY <1>1 DEF ProgramTypes, MainTypes
<1>3. CallInv' /\ (~Thin => KeepsOutside)
  <2>1. ASSUME baseMask \/ mask1 \/ mask2
        PROVE  CallInv' /\ KeepsOutside
    BY <1>1, <1>2, <2>1, PassesPreserve DEF baseMask, mask1, mask2, Passes
  <2>2. ASSUME mask3 \/ mask4 \/ mask5
        PROVE  CallInv' /\ KeepsOutside
    BY <1>1, <1>2, <2>2, TestsPreserve DEF mask3, mask4, mask5, Tests
  <2> QED BY <1>1, <1>2, <2>1, <2>2, RegionsPreserve, DividePreserves DEF Compute, mask
<1>4. UNCHANGED call /\ pc \in {"nests", "divide"}
      /\ pc' \in {"nests", "divide", "done", "undefined"}
  BY DEF Compute, mask, baseMask, mask1, mask2, mask3, mask4, mask5, mask6, Divide,
         SetCentres, AddNeighbours, CellByCell, Nest
<1>5. /\ UNCHANGED <<version, rows, cols, oldImage>> /\ Image' = Image
  BY <1>4, CallStays
<1>6. /\ UNCHANGED <<file, ntrials, tokens, numbers, white>>
      /\ UNCHANGED <<baseAnswer, phase, trial, problems, status, saved>>
  BY DEF timeVars, inputVars, readVars
<1>7. phase \notin {"open", "header", "loops", "pixels", "save", "exit"}
  BY <1>2, <1>4 DEF IdleInv
<1>8. ProgramTypes'
  <2>1. ReadTypes'
    BY <1>2, <1>6 DEF ReadTypes, Started
  <2>2. MainTypes'
    BY <1>2, <1>4, <1>5, <1>6 DEF MainTypes, Dims
  <2>3. IdleInv'
    BY <1>6, <1>7 DEF IdleInv
  <2> QED BY <2>1, <2>2, <2>3 DEF ProgramTypes
<1>9. HeaderInv'
  BY <1>6, <1>7 DEF HeaderInv
<1>10. PixelInv'
  BY <1>1, <1>5, <1>6 DEF PixelInv
<1>11. ResultInv'
  BY <1>1, <1>4, <1>6, <1>7 DEF ResultInv
<1>12. SavedInv'
  BY <1>1, <1>6, <1>7, NoneSaved
<1> QED BY <1>3, <1>8, <1>9, <1>10, <1>11, <1>12 DEF IInv, ProgramInv
(* Nothing changes when nothing does. *)
LEMMA StutterPreserves ==
    ASSUME IInv, UNCHANGED vars
    PROVE  IInv'
<1>1. UNCHANGED maskVars /\ UNCHANGED timeVars
  BY DEF vars
<1>2. /\ UNCHANGED call /\ UNCHANGED <<newImage, weight, check, step, pc>>
      /\ UNCHANGED <<file, ntrials, tokens, numbers, white>>
      /\ UNCHANGED <<baseAnswer, phase, trial, problems, status, saved>>
  BY <1>1 DEF maskVars, timeVars, inputVars, readVars
<1>3. /\ UNCHANGED <<version, rows, cols, oldImage>>
      /\ Image' = Image /\ Regions' = Regions /\ Thin' = Thin
      /\ \A c : /\ InImage(c)' = InImage(c) /\ FullWeight(c)' = FullWeight(c)
               /\ Centre(c)' = Centre(c) /\ Average(c)' = Average(c)
      /\ \A c, ds : Sum(c, ds)' = Sum(c, ds)
      /\ \A s, c : AddedBefore(s, c)' = AddedBefore(s, c)
      /\ Total([c \in Image |-> Average(c)])' = Total([c \in Image |-> Average(c)])
  BY <1>2, CallStays, TotalStays
<1>4. ProgramTypes /\ HeaderInv /\ PixelInv /\ ResultInv /\ SavedInv /\ CallInv
  BY DEF IInv, ProgramInv
<1>5. ReadTypes /\ MainTypes /\ IdleInv
  BY <1>4 DEF ProgramTypes
<1>6. ProgramTypes'
  <2>1. ReadTypes'
    BY <1>2, <1>5 DEF ReadTypes, Started
  <2>2. MainTypes'
    BY <1>2, <1>3, <1>5 DEF MainTypes, Dims
  <2>3. IdleInv'
    BY <1>2, <1>5 DEF IdleInv
  <2> QED BY <2>1, <2>2, <2>3 DEF ProgramTypes
<1>7. HeaderInv'
  BY <1>2, <1>4 DEF HeaderInv, ReadSoFar, Agree
<1>8. PixelInv' /\ ResultInv'
  BY <1>2, <1>3, <1>4 DEF PixelInv, ResultInv
<1>9. SavedInv'
  BY <1>2, <1>3, <1>4 DEF SavedInv, SavedReadsBack
<1>10. CallInv'
  <2>1. \A c, ds : Weighed(c, ds)' <=> Weighed(c, ds)
    BY <1>2, <1>3 DEF Weighed
  <2>2. NestsInv => NestsInv'
    <3>1. \A s, c : Weighed(c, AddedBefore(s, c))' <=> Weighed(c, AddedBefore(s, c))
      BY <1>2, <1>3 DEF Weighed
    <3>2. \A c : Weighed(c, InImage(c))' <=> Weighed(c, InImage(c))
      BY <1>2, <1>3 DEF Weighed
    <3> QED BY <1>2, <1>3, <3>1, <3>2 DEF NestsInv
  <2>3. \A c : Weighed(c, InImage(c))' <=> Weighed(c, InImage(c))
    BY <1>2, <1>3 DEF Weighed
  <2>4. EveryNeighbourOnce' /\ UndefinedOnlyIfThin'
    <3>1. \A c : PartlyWeighed(c)' <=> PartlyWeighed(c)
      BY <1>2, <1>3, <2>1 DEF PartlyWeighed
    <3>2. EveryNeighbourOnce'
      BY <1>2, <1>3, <1>4, <2>3, <3>1 DEF CallInv, EveryNeighbourOnce, PartlyWeighed
    <3> QED BY <1>2, <1>3, <1>4, <3>2 DEF CallInv, UndefinedOnlyIfThin
  <2>5. WeightedAverage'
    BY <1>2, <1>3, <1>4 DEF CallInv, WeightedAverage
  <2> QED BY <1>2, <1>3, <1>4, <2>2, <2>3, <2>4, <2>5 DEF CallInv
<1> QED BY <1>6, <1>7, <1>8, <1>9, <1>10 DEF IInv, ProgramInv

----
(* The program begins before any call, with the header before it. *)
LEMMA InitEstablishes == Init => IInv
<1> SUFFICES ASSUME Init PROVE IInv
  OBVIOUS
<1>1. /\ version = "baseMask" /\ rows = 0 /\ cols = 0
      /\ oldImage = Zeros /\ newImage = Zeros /\ weight = Zeros
      /\ check = 0 /\ step = 0 /\ pc = "idle"
  BY DEF Init, Idle
<1>2. /\ Started /\ tokens = file.header /\ numbers = <<>> /\ white = 0 /\ baseAnswer = Zeros
      /\ phase = "open" /\ trial = 0 /\ problems = FALSE /\ status = Running /\ saved = {}
  BY DEF Init, Started
<1>3. file.header \in Seq(Tokens)
  BY <1>2, FileTyped
<1>4. Zeros \in [Array -> 0 .. 16] /\ Zeros \in [Array -> Int]
  BY DEF Zeros
<1>5. CallInv
  BY <1>1, <1>4 DEF CallInv, EveryNeighbourOnce, WeightedAverage, UndefinedOnlyIfThin
<1>6. ProgramTypes
  <2>1. ReadTypes
    <3>1. 0 < Whites
      BY DEF Whites
    <3> QED BY <1>2, <1>3, <3>1 DEF ReadTypes
  <2>2. MainTypes
    <3>1. Dims
      BY <1>1, SizeAssumption DEF Dims
    <3>2. /\ version \in Versions \cup {"baseMask"} /\ baseAnswer \in [Array -> Int]
          /\ pc \in {"idle", "nests", "divide", "done", "undefined"}
          /\ problems \in BOOLEAN /\ status \in {Running, "-2", "0", "divided by zero"}
          /\ phase \in {"open", "header", "loops", "pixels", "image", "answer", "base", "mask",
                        "save", "exit"}
      BY <1>1, <1>2, <1>4, Zenon
    <3>3. trial \in Nat
      BY <1>2
    <3> QED BY <3>1, <3>2, <3>3, Zenon DEF MainTypes
  <2>3. IdleInv
    BY <1>1 DEF IdleInv
  <2> QED BY <2>1, <2>2, <2>3 DEF ProgramTypes
<1>7. HeaderInv
  <2>1. \A p : Marks(file, p) => ReadSoFar(p) /\ Agree(p)
    <3> SUFFICES ASSUME NEW p, Marks(file, p) PROVE ReadSoFar(p) /\ Agree(p)
      OBVIOUS
    <3>1. Len(tokens) \in Nat /\ Len(file.header) - Len(tokens) = 0 /\ Len(numbers) = 0
      BY <1>2, <1>3
    <3>2. \A i \in 1 .. Len(tokens) : tokens[i] = file.header[0 + i]
      BY <1>2
    <3>3. \A i \in 1 .. 3 : p[i] \in Nat \ {0}
      BY <1>3, MarksSay
    <3>4. \A i \in 1 .. 3 : ~(i <= 0) /\ ~(p[i] <= 0)
      BY <3>3
    <3> QED BY <3>1, <3>2, <3>4 DEF ReadSoFar, Agree
  <2>2. Len(numbers) < 3 /\ phase = "open"
    BY <1>2
  <2> QED BY <2>1, <2>2 DEF HeaderInv
<1>8. PixelInv /\ ResultInv /\ SavedInv
  BY <1>2 DEF PixelInv, ResultInv, SavedInv, SavedReadsBack
<1> QED BY <1>5, <1>6, <1>7, <1>8 DEF IInv, ProgramInv

(* Every step of the program keeps the invariant. *)
LEMMA StepPreserves == IInv /\ [Next]_vars => IInv'
BY OpenFilePreserves, ReadHeaderPreserves, ReadPixelsPreserves, AskBaseMaskPreserves,
   KeepAnswerPreserves, TrialPreserves, CheckTrialPreserves, TrialsOverPreserves,
   SavePreserves, ComputePreserves, StutterPreserves DEF Next

(* The invariant holds throughout. *)
THEOREM MaskSafety == Spec => []IInv
BY InitEstablishes, StepPreserves, PTL DEF Spec

(* The variables of every version and of the program around it keep their   *)
(* types.                                                                   *)
THEOREM MaskTypeOK == Spec => []TypeOK
<1>1. IInv => TypeOK
  <2> SUFFICES ASSUME IInv PROVE TypeOK
    OBVIOUS
  <2>1. ReadTypes /\ MainTypes /\ CallInv
    BY DEF IInv, ProgramInv, ProgramTypes
  <2>2. weight \in [Array -> 0 .. WEIGHT_CENTRE + 4 * WEIGHT_SIDE + 4 * WEIGHT_CORNER]
    <3>1. WEIGHT_CENTRE + 4 * WEIGHT_SIDE + 4 * WEIGHT_CORNER = 16
      BY DEF WEIGHT_CENTRE, WEIGHT_SIDE, WEIGHT_CORNER
    <3> QED BY <2>1, <3>1 DEF CallInv
  <2>3. white \in Nat /\ white < Whites
    BY <2>1, Zenon DEF ReadTypes
  <2>4. \E c \in Commands : file = c.file /\ ntrials = c.ntrials
    BY <2>1, Zenon DEF ReadTypes, Started
  <2>5. /\ rows \in 0 .. N /\ cols \in 0 .. N
        /\ version \in Versions \cup {"baseMask"} /\ baseAnswer \in [Array -> Int]
        /\ pc \in {"idle", "nests", "divide", "done", "undefined"}
        /\ phase \in {"open", "header", "loops", "pixels", "image", "answer", "base", "mask",
                      "save", "exit"}
        /\ trial \in Nat /\ problems \in BOOLEAN
        /\ status \in {Running, "-2", "0", "divided by zero"}
    BY <2>1, Zenon DEF MainTypes, Dims
  <2>6. /\ oldImage \in [Array -> Int] /\ newImage \in [Array -> Int]
        /\ check \in Int /\ step \in 0 .. 9
    BY <2>1, Zenon DEF CallInv
  <2> QED BY <2>2, <2>3, <2>4, <2>5, <2>6, Zenon DEF TypeOK
<1> QED BY <1>1, MaskSafety, PTL

(* For every image that fits the arrays, every version leaves the weighted  *)
(* averages and returns their sum, whatever newImage held: all agree.       *)
THEOREM MaskWeightedAverage == Spec => []WeightedAverage
<1>1. IInv => WeightedAverage
  BY DEF IInv, CallInv
<1> QED BY <1>1, MaskSafety, PTL

(* No version forgets a neighbour, or counts one twice or for another. *)
THEOREM MaskEveryNeighbourOnce == Spec => []EveryNeighbourOnce
<1>1. IInv => EveryNeighbourOnce
  BY DEF IInv, CallInv
<1> QED BY <1>1, MaskSafety, PTL

(* No version but mask6 on a thin image reads or writes outside the arrays  *)
(* or divides by a weight of 0.                                             *)
THEOREM MaskUndefinedOnlyIfThin == Spec => []UndefinedOnlyIfThin
<1>1. IInv => UndefinedOnlyIfThin
  BY DEF IInv, CallInv
<1> QED BY <1>1, MaskSafety, PTL

(* The file that is saved is the image of averages, for the program's own   *)
(* reader, whatever the header of the file read looked like.                *)
THEOREM MaskSavedReadsBack == Spec => []SavedReadsBack
<1>1. IInv => SavedReadsBack
  BY DEF IInv, ProgramInv, SavedInv
<1> QED BY <1>1, MaskSafety, PTL

(* No step of a call writes outside the image. *)
THEOREM MaskOutsideUntouched == Spec => OutsideUntouched
<1>1. IInv /\ [Next]_vars
        => [~Thin /\ pc \in {"nests", "divide"} => KeepsOutside]_vars
  <2> SUFFICES ASSUME IInv, Next, ~Thin, pc \in {"nests", "divide"}
               PROVE  KeepsOutside
    BY DEF vars
  <2>1. CASE Compute /\ UNCHANGED timeVars
    BY <2>1, ComputePreserves
  <2>2. CASE ~(Compute /\ UNCHANGED timeVars)
    <3>1. phase \notin {"open", "header", "pixels", "save"}
      BY DEF IInv, ProgramInv, ProgramTypes, IdleInv
    <3>2. ~(OpenFile \/ ReadHeader \/ ReadPixels \/ Save)
      BY <3>1 DEF OpenFile, ReadHeader, ReadPixels, Save
    <3>3. ~(AskBaseMask \/ KeepAnswer \/ Trial \/ CheckTrial \/ TrialsOver)
      BY DEF AskBaseMask, KeepAnswer, Trial, CheckTrial, TrialsOver, Call
    <3> QED BY <2>2, <3>2, <3>3 DEF Next
  <2> QED BY <2>1, <2>2
<1>2. Spec => [][~Thin /\ pc \in {"nests", "divide"} => KeepsOutside]_vars
  BY <1>1, MaskSafety, PTL DEF Spec
<1> QED BY <1>2 DEF OutsideUntouched
====
