----------------------------- MODULE MCManagerLock -----------------------------
(* Instances of ManagerLock for model checking.                              *)
EXTENDS ManagerLock

CONSTANTS g1, g2, g3
================================================================================
