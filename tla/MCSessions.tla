------------------------------- MODULE MCSessions ------------------------------
(* Instances of Sessions for model checking.                                 *)
EXTENDS Sessions, TLC

CONSTANTS s1, d1, p1, p2, p3, k1, k2, k3

\* Explores no further once updates have overlapped or failed.
Calm == disturbed = {}

CallsAlike == Permutations(Procs)

AllAlike == Permutations(Procs) \cup Permutations(Clients)
================================================================================
