----------------------------- MODULE MCDesktop -----------------------------
(***************************************************************************)
(* Desktop with three windows open at a time out of four ever created, so  *)
(* that an order can be disturbed in the middle, and an input queue that   *)
(* is full after three events: enough for a drag or for a complete click.  *)
(* The three applications are one, so that they share a pool of states.    *)
(***************************************************************************)
EXTENDS Desktop
=============================================================================
