----------------------------- MODULE MCDownload -----------------------------
(***************************************************************************)
(* A chain g - a2 - a3 - a4 and a fork b3 of a2.  Peers follow either.     *)
(***************************************************************************)
EXTENDS Download

CONSTANTS g, a2, a3, a4, b3

MCBlock == {g, a2, a3, a4, b3}

MCParentHash ==
  [b \in MCBlock |-> CASE b = g -> g [] b = a2 -> g [] b = a3 -> a2 [] b = a4 -> a3 [] b = b3 -> a2]

MCHeight ==
  [b \in MCBlock |-> CASE b = g -> 1 [] b = a2 -> 2 [] b = a3 -> 3 [] b = a4 -> 4 [] b = b3 -> 3]

MCTimestamp ==
  [b \in MCBlock |-> CASE b = g -> 0 [] b = a2 -> 3 [] b = a3 -> 6 [] b = a4 -> 9 [] b = b3 -> 9]

\* The target's children are not among the blocks of this instance, so with
\* Depth = 1 the LIB stays below the target.
MCBroadcast == {a4}

MCTails == {a4, b3}

\* A fresh node, and one that followed the fork.
MCStarts == {g, b3}

\* The next blocks of a node that is not behind.
MCNewest == {a2, a3}

=============================================================================
