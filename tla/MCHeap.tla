------------------------------- MODULE MCHeap -------------------------------
(* Sizes in units of 8 bytes: the two headers are 3 units, the alignment    *)
(* and its record 2; a page is 16 units and a major block at least 6 pages, *)
(* which hold 3 blocks of the smallest size.  The largest request needs 16  *)
(* pages, the least number of pages that is itself page aligned.            *)
EXTENDS Heap

SmallAndLarge == {20, 43, 45, 241}
=============================================================================
