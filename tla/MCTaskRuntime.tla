---------------------------- MODULE MCTaskRuntime ----------------------------
(* One task with a few actions, one of them to be approved.                 *)
EXTENDS TaskRuntime
===============================================================================
