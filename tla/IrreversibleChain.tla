-------------------------- MODULE IrreversibleChain --------------------------
(***************************************************************************)
(* What a node's chain promises to whoever reads it: there is one head and *)
(* one final block.  The head may move to another branch, but only to a    *)
(* higher block, and never to one that leaves the final block behind; the  *)
(* final block only moves towards the head.                                *)
(***************************************************************************)
EXTENDS BlockTree

VARIABLES
  head,    \* the main tail
  final    \* the last irreversible block

Init == head = Genesis /\ final = Genesis

Switch ==
  /\ head' \in {b \in Block : Height[b] > Height[head] /\ final \in Ancestors[b]}
  /\ UNCHANGED final

Finalize ==
  /\ final' \in {b \in Ancestors[head] : final \in Ancestors[b]}
  /\ UNCHANGED head

Next == Switch \/ Finalize

Spec == Init /\ [][Next]_<<head, final>>

=============================================================================
