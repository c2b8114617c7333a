------------------------------- MODULE MCTimeline ------------------------------
(* An instance of Timeline for model checking.                               *)
EXTENDS Timeline

CONSTANTS c1, c2

World(set, m, n) == [has |-> set, most |-> [c \in Conversations |-> IF c = c1 THEN m ELSE n]]

MCWorlds ==
  {World({"send", "socket"}, 1, 1), World({"arrive", "socket", "turn"}, 1, 1),
   World({"arrive", "socket", "cut"}, 1, 1), World({"ack", "socket", "leave"}, 1, 1),
   World({"arrive", "prefetch"}, 1, 0), World({"recover", "fail"}, 1, 1),
   World({"older", "fail"}, 2, 0), World({"older", "arrive", "socket"}, 3, 0)}

\* loadMessages runs one request at a time per conversation, and whoever asks gets a run
\* that starts after the asking, whether it is the user, an interval, a timer or an effect
\* that asks and whether the request fails or not.  TLC takes one conversation at a time.
Loader1 == INSTANCE Refresher WITH running <- load[c1].phase # "idle", again <- c1 \in again

SingleFlight == Loader1!Spec
================================================================================
