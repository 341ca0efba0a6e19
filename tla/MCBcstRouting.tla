--------------------------- MODULE MCBcstRouting ---------------------------
(* BcstRouting with the tracker and three more nodes: a chain, a fork, and a  *)
(* node above which two others relay from each other.                         *)
EXTENDS BcstRouting

CONSTANTS t, a, b, c

Chain == [n \in Nodes |-> CASE n = t -> None [] n = a -> t [] n = b -> a [] n = c -> b]
Fork == [n \in Nodes |-> CASE n = t -> None [] n = a -> t [] n = b -> a [] n = c -> a]
Circle == [n \in Nodes |-> CASE n = t -> None [] n = a -> b [] n = b -> c [] n = c -> b]
AllArrangements == {Chain, Fork, Circle}
=============================================================================
