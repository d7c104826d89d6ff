--------------------------- MODULE MCDesktopAction ---------------------------
(* One task with a few actions on one desktop node.                         *)
EXTENDS DesktopAction
===============================================================================
