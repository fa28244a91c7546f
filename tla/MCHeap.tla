---- MODULE MCHeap ----
(* Constants for checking the heap with TLC. *)
EXTENDS HeapProperties

FitAlgs == {FIRSTFIT, BESTFIT}
NextFitOnly == {NEXTFIT}

(* Blocks of 2, 4 and 6 words. *)
SmallRequests == {0, 1, 4}
(* Padding in front of the heap, or the end of the heap header. *)
EitherGuard == {0, 1}

(* Every alignment of what sbrk returns, and sizes with every remainder     *)
(* that leave room for a heap of as many words as the run's.                *)
AllBases == 4096 .. 4103
AllRegions == 4 * HeapSize + 32 .. 4 * HeapSize + 47
====
