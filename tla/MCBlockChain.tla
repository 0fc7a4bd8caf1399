---------------------------- MODULE MCBlockChain ----------------------------
(***************************************************************************)
(* A small universe of blocks for TLC, with dynasties of two slots: a main *)
(* branch whose blocks a3 and a4 share a dynasty, so that a3 becomes       *)
(* irreversible; a fork of the genesis block that is the higher branch for *)
(* a while and whose b2 and b3 make b2 irreversible; a fork above b2; and  *)
(* a block that fails its height check.  A configuration picks the blocks  *)
(* that exist in its run.                                                  *)
(***************************************************************************)
EXTENDS BlockChain, TLC

CONSTANTS g, a2, a3, a4, b2, b3, b4, c3, c4, x

\* The eight blocks of the largest run, as tables that TLC only looks up.
CrashParent ==
  (g :> g) @@ (a2 :> g) @@ (a3 :> a2) @@ (a4 :> a3) @@ (b2 :> g) @@ (b3 :> b2)
    @@ (c3 :> b2) @@ (c4 :> c3)

CrashHeight ==
  (g :> 1) @@ (a2 :> 2) @@ (a3 :> 3) @@ (a4 :> 4) @@ (b2 :> 2) @@ (b3 :> 3)
    @@ (c3 :> 3) @@ (c4 :> 4)

\* Three seconds a slot.
CrashTimestamp ==
  (g :> 0) @@ (a2 :> 9) @@ (a3 :> 12) @@ (a4 :> 15) @@ (b2 :> 12) @@ (b3 :> 15)
    @@ (c3 :> 21) @@ (c4 :> 24)

\* Those and two more, for the runs that pick a few of them.
MCParent == [b \in Block |-> (CrashParent @@ (b4 :> b3) @@ (x :> a2))[b]]

MCHeight == [b \in Block |-> (CrashHeight @@ (b4 :> 4) @@ (x :> 4))[b]]

MCTimestamp == [b \in Block |-> (CrashTimestamp @@ (b4 :> 18) @@ (x :> 18))[b]]

MCExecutable == Block \ {g}

=============================================================================
