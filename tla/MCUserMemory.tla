---------------------------- MODULE MCUserMemory ----------------------------
(***************************************************************************)
(* UserMemory for TLC: five pages, two of the kernel, two user pages and   *)
(* the last one, which is always refused; two directory slots; two regions *)
(* of shared memory; three heap blocks for directories, tables and         *)
(* regions, so that each use meets a heap that the others filled.          *)
(***************************************************************************)
EXTENDS UserMemory, TLC

CONSTANTS B1, B2, B3

MCBlock == {B1, B2, B3}
MCSymmetry == Permutations(MCBlock)
=============================================================================
