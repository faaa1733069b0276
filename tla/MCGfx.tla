------------------------------- MODULE MCGfx --------------------------------
(***************************************************************************)
(* Gfx for TLC: the server and one application, an inbox of two messages   *)
(* and two windows.                                                        *)
(***************************************************************************)
EXTENDS Gfx

MCProcess == {0, 1}
=============================================================================
