-------------------------- MODULE MCChainFollower --------------------------
(* A small block tree with a fork: g - a1 - a2 - a3 - a4, and b1 - b2 - b3 on g. *)
EXTENDS ChainFollower

CONSTANTS g, a1, a2, a3, a4, b1, b2, b3

ForkBlocks == {g, a1, a2, a3, a4, b1, b2, b3}

ForkParent == [b \in ForkBlocks |->
  CASE b = g -> NoBlock [] b \in {a1, b1} -> g [] b = a2 -> a1 [] b = a3 -> a2
    [] b = a4 -> a3 [] b = b2 -> b1 [] b = b3 -> b2]

ForkHeight == [b \in ForkBlocks |->
  CASE b = g -> 0 [] b \in {a1, b1} -> 1 [] b \in {a2, b2} -> 2 [] b \in {a3, b3} -> 3
    [] b = a4 -> 4]
=============================================================================
