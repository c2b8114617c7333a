--------------------------------- MODULE MCHub ---------------------------------
(* Instances of Hub for model checking.                                      *)
EXTENDS Hub, TLC

CONSTANTS h1, h2, c1, c2, s1, e1, e2

\* The second client, if there is one, is on the last instance.
HomeOf == [x \in Clients \cup Streams |-> IF x = c2 /\ h2 \in Hubs THEN h2 ELSE h1]

\* Every broadcast is made at the first instance.
AllAtFirst == [e \in Events |-> h1]

\* Redis may accept the first event twice.
RetryFirst == [e \in Events |-> IF e = e1 THEN 2 ELSE 1]
NoRetry == [e \in Events |-> 1]
================================================================================
