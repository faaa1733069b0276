------------------------------- MODULE MCVmm --------------------------------
(***************************************************************************)
(* Vmm for TLC: directories of two user tables and one kernel table, two   *)
(* pages per table, and three frames besides those of the kernel, for the  *)
(* first table and two tables or pages, so that allocations of two pages   *)
(* fail at the first, the second and between a page and its table.         *)
(***************************************************************************)
EXTENDS Vmm, TLC

CONSTANTS d1, d2

MCDirs == {d1, d2}
MCDevices == {99}
MCCallPages == {1, 2, 4}
MCDevicePages == {2}
Symmetric == Permutations(MCDirs)
=============================================================================
