------------------------------- MODULE MCHeap -------------------------------
(***************************************************************************)
(* Heap for TLC: words of four bytes and the source's sizes.  The sizes    *)
(* are one too small for kheap_init and heaps of two to nine small blocks. *)
(* The requests include perfect fits, rests just below and above what is   *)
(* split off, more than the heap, and 1022 (0xFFFFFFF8 bytes), whose       *)
(* rounding wraps to 0.  The product of the third array wraps to 176       *)
(* words; that of the last passes kcalloc's test and wraps when rounded.   *)
(***************************************************************************)
EXTENDS Heap

MCSizes == {15, 16, 31, 44}
MCRequests == {1, 4, 8, 16, 26, 31, 36, 60, 1022}
MCArrays == {<<0, 4>>, <<2, 4>>, <<3, 400>>, <<1, 1022>>}
=============================================================================
