--------------------------- MODULE MCSharedQueue ---------------------------
(***************************************************************************)
(* SharedQueue with one client task and the server task: two messages are  *)
(* enough for an increment and a decrement of count to overlap.            *)
(***************************************************************************)
EXTENDS SharedQueue
=============================================================================
