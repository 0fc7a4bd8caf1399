---------------------------- MODULE MCBlockManager ----------------------------
(* A chain of two blocks above the genesis block and an invalid block.    *)
EXTENDS BlockManager, TLC

CONSTANTS g, b2, b3, x3

MCParent == [k \in Block |-> ((g :> g) @@ (b2 :> g) @@ (b3 :> b2) @@ (x3 :> b2))[k]]

MCHeight == [k \in Block |-> ((g :> 1) @@ (b2 :> 2) @@ (b3 :> 3) @@ (x3 :> 3))[k]]

MCTimestamp == [k \in Block |-> 3 * MCHeight[k]]

MCValid == Block \ {g, x3}

=============================================================================
