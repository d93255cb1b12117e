------------------------------- MODULE MCHeap -------------------------------
(***************************************************************************)
(* Small instances of Heap: 9 units of 2 bytes.  Requests take 2, 3 and 5  *)
(* units, so that blocks fit exactly or are split, the last two cannot     *)
(* both be repeated, and holes form in several places; one request is for  *)
(* nothing, one for more than any heap, the largest that does not wrap.    *)
(***************************************************************************)
EXTENDS Heap

MCRequests == {0, 1, 3, 8, SizeMod - HeaderBytes}
=============================================================================
