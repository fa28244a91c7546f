---- MODULE Allocator ----
(***************************************************************************)
(* What a heap promises its client, whatever its data structure: a granted *)
(* block is a run of words nobody else holds, long enough for the request  *)
(* and its two headers, it stays the client's until the client frees it,   *)
(* and a request is refused only when no run of free words is long enough. *)
(* A block is named by the offset of its header word.                      *)
(***************************************************************************)
EXTENDS Integers

CONSTANTS HeapSize,    \* words of the heap
          Requests,    \* sizes a client may ask for
          Need(_)      \* words a block must have to satisfy a request

VARIABLES granted,     \* [header offset of a granted block -> its words]
          pending      \* the request being served: at most one

vars == <<granted, pending>>

Words == 0 .. HeapSize - 1

(* The words b .. b + n - 1 are all outside the granted blocks. *)
Vacant(b, n) ==
    \A c \in DOMAIN granted : b + n <= c \/ c + granted[c] <= b

(* Some run of n consecutive words is vacant. *)
HasRoom(n) == \E b \in Words : b + n <= HeapSize /\ Vacant(b, n)

Init == granted = [c \in {} |-> 0] /\ pending = {}

Request(u) ==
    /\ pending = {}
    /\ pending' = {u}
    /\ UNCHANGED granted

Grant(u) ==
    /\ pending = {u}
    /\ \E b \in Words : \E n \in 1 .. HeapSize :
          /\ n >= Need(u)
          /\ b + n <= HeapSize
          /\ Vacant(b, n)
          /\ granted' = [c \in DOMAIN granted \cup {b} |->
                            IF c = b THEN n ELSE granted[c]]
    /\ pending' = {}

Refuse(u) ==
    /\ pending = {u}
    /\ ~HasRoom(Need(u))
    /\ pending' = {}
    /\ UNCHANGED granted

Release(b) ==
    /\ pending = {}
    /\ b \in DOMAIN granted
    /\ granted' = [c \in DOMAIN granted \ {b} |-> granted[c]]
    /\ UNCHANGED pending

Next ==
    \/ \E u \in Requests : Request(u) \/ Grant(u) \/ Refuse(u)
    \/ \E b \in Words : Release(b)

Spec == Init /\ [][Next]_vars
====
