--------------------------- MODULE MCDesktopDraw ---------------------------
(***************************************************************************)
(* DesktopDraw with two windows, of one application or of two, that change *)
(* places and focus, close and open while they are drawn.  Room for one    *)
(* button in the taskbar leaves a window without one.                      *)
(***************************************************************************)
EXTENDS DesktopDraw
=============================================================================
