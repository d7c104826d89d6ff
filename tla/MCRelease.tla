------------------------------- MODULE MCRelease -------------------------------
(* Two requests, a daemon that is stopped once, two faults of processes.        *)
EXTENDS Release
================================================================================
