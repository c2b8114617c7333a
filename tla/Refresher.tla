------------------------------- MODULE Refresher -------------------------------
(***************************************************************************)
(* What the two loaders of the dashboard promise to those who call them    *)
(* (loadMessages and loadOverview of                                       *)
(* src/apps/web/src/components/dashboard-client.tsx): at most one request  *)
(* is out, and whoever asks while it is out gets one more run that starts  *)
(* after the asking, however the running one ends.                         *)
(***************************************************************************)

VARIABLES
  running,    \* a request is out
  again       \* somebody has asked since it started

vars == <<running, again>>

Init == running = FALSE /\ again = FALSE

\* A call that finds the loader idle.
Start == ~running /\ running' = TRUE /\ UNCHANGED again

\* A call that finds a request out: it shares that one and books another.
Join == running /\ again' = TRUE /\ UNCHANGED running

\* The request has been answered or has failed; if it was joined the next one starts.
Finish == running /\ running' = again /\ again' = FALSE

Next == Start \/ Join \/ Finish

Spec == Init /\ [][Next]_vars /\ WF_vars(Finish)
================================================================================
