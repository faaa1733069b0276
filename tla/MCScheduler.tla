---------------------------- MODULE MCScheduler -----------------------------
(***************************************************************************)
(* Scheduler for TLC: four entries, three tasks (a task may be added more   *)
(* than once), two levels and a priority out of range.                     *)
(***************************************************************************)
EXTENDS Scheduler, TLC

CONSTANTS t1, t2, t3

MCTasks == {t1, t2, t3}
MCPriorities == {0, 5}
MCSleeps == {2}
Symmetric == Permutations(MCTasks)
=============================================================================
