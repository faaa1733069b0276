----------------------------- MODULE MCLibraries -----------------------------
(***************************************************************************)
(* Three libraries of the kernel for TLC: the message queue, the frames    *)
(* and the heap of MCHeap.  None of them calls another or shares a         *)
(* variable with it, so TLC explores the calls of one while the others are *)
(* as they began.                                                          *)
(*                                                                         *)
(* The queue has 3 slots and 2 messages: the indices wrap many times and   *)
(* it is filled and emptied at every position of the indices.  Up to six   *)
(* frames are room for two separate runs of two frames and for a run that  *)
(* ends with the last frame.                                               *)
(***************************************************************************)
EXTENDS MessageQueue, Pmm, MCHeap

LibrariesInit == QueueInit /\ Init /\ HeapInit

QueueMoves == Init /\ HeapInit /\ QueueNext /\ UNCHANGED <<vars, heapVars>>
FramesMove == QueueInit /\ HeapInit /\ Next /\ UNCHANGED <<queueVars, heapVars>>
HeapMoves == QueueInit /\ Init /\ HeapNext /\ UNCHANGED <<queueVars, vars>>

LibrariesNext == QueueMoves \/ FramesMove \/ HeapMoves

LibrariesSpec ==
  LibrariesInit /\ [][LibrariesNext]_<<queueVars, vars, heapVars>>
=============================================================================
