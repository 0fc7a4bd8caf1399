------------------------------ MODULE MCBlockPool ------------------------------
(* Two branches of two and three blocks above a common block.             *)
EXTENDS BlockPool, TLC

CONSTANTS g, a, b, c, d, e, f

MCParent ==
  (g :> g) @@ (a :> g) @@ (b :> a) @@ (c :> b) @@ (d :> a) @@ (e :> d) @@ (f :> e)

MCHeight == (g :> 1) @@ (a :> 2) @@ (b :> 3) @@ (c :> 4) @@ (d :> 3) @@ (e :> 4) @@ (f :> 5)

MCTimestamp == [k \in Block |-> 3 * MCHeight[k]]

=============================================================================
