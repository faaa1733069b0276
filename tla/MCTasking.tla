----------------------------- MODULE MCTasking -----------------------------
(***************************************************************************)
(* Tasking with three tasks, four process identifiers (so that a creation  *)
(* may fail before, between and after those that succeed) and mailboxes of *)
(* one or two messages, which are soon full.                               *)
(***************************************************************************)
EXTENDS Tasking

MCMessage == [sender_pid : Pid, type : Type \union {InputType}]
=============================================================================
