---- MODULE MCMask ----
(* Small images for checking the mask and its timing program with TLC.     *)
EXTENDS MaskProperties

Side == 5   \* the arrays

(* An image file of r x c pixels, the k-th of them, from 0, pixel(k).       *)
Picture(r, c, pixel(_)) ==
    [kind |-> "P5", space |-> TRUE,
     header |-> << [number |-> c], [number |-> r], [number |-> 255] >>,
     bytes |-> [k \in 1 .. r * c |-> pixel(k - 1)]]

(* Images of up to 3 x 4 cells: the pixel of one cell set, all of them set, *)
(* and all different.                                                       *)
Pictures ==
    UNION {{Picture(r, c, LAMBDA k : IF k = q THEN 255 ELSE 0) : q \in 0 .. r * c - 1}
               \cup {Picture(r, c, LAMBDA k : 255),
                     Picture(r, c, LAMBDA k : (7 + 10 * k * k + 61 * (k % 3)) % 256)}
              : r \in 0 .. 3, c \in 0 .. 4}

(* The others: pixels of two bytes, a comment, a file that ends within the  *)
(* pixels or the header, and headers that are refused or never end.         *)
Sample == Picture(2, 3, LAMBDA k : 40 * k + 3)
Number(n) == [number |-> n]
Remark == [text |-> Comment]

Odd ==
    {[Sample EXCEPT !.header = <<Number(1), Number(2), Number(300)>>, !.bytes = <<1, 2, 0, 200>>],
     [Sample EXCEPT !.header = <<Number(2), Number(2), Number(300)>>, !.bytes = <<1, 2, 3, 200, 0>>],
     [Sample EXCEPT !.header = <<Remark, Number(3), Remark, Number(2), Number(255)>>],
     [Sample EXCEPT !.bytes = <<9, 8, 7>>],
     [Sample EXCEPT !.header[1] = Number(Side + 1)],
     [Sample EXCEPT !.header[2] = Number(Side + 1)],
     [Sample EXCEPT !.header[3] = Number(65536)],
     [Sample EXCEPT !.header[2] = [text |-> Word]],
     [Sample EXCEPT !.header = <<Number(3), [text |-> Open]>>, !.bytes = <<>>],
     [Sample EXCEPT !.header = <<Number(3)>>, !.bytes = <<>>],
     [Sample EXCEPT !.space = FALSE, !.bytes = <<>>],
     [Sample EXCEPT !.kind = "other"],
     [Sample EXCEPT !.kind = "missing"]}

CommandLines ==
    [file : Pictures \cup Odd, ntrials : {1}] \cup [file : {Sample}, ntrials : {-1, 0, 2}]
====
