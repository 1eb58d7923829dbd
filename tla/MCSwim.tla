------------------------------- MODULE MCSwim -------------------------------
(* An instance of Swim: nodes are numbers, and each one pings its peers in  *)
(* ascending order from its own number on.                                  *)
EXTENDS Swim

CONSTANT Size

MCNode == 1..Size
MCPingOrder == [n \in MCNode |-> [i \in 1..Size - 1 |-> ((n + i - 1) % Size) + 1]]

\* Bound: a fault and a restart happen in different behaviours.
OneMishap == faults + restarts =< 1
=============================================================================
