---------------------------- MODULE MCConversations ----------------------------
(* Instances of Conversations for model checking.                            *)
EXTENDS Conversations, TLC

CONSTANTS c1, c2, m1, m2, r1, p1, p2, p3

\* All messages are in the first chat.
InFirst == [m \in Messages |-> c1]

CallsAlike == Permutations(Procs)
================================================================================
