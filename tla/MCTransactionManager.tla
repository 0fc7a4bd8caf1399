------------------------- MODULE MCTransactionManager -------------------------
(* Two accounts.  Alice's first transaction has a replacement, for which   *)
(* Bob pays.  The nonces 5 and 6 stand for nonces that string() maps to    *)
(* the same character.                                                     *)
EXTENDS TransactionManager, TLC

CONSTANTS alice, bob, a1, r1, a2, a3, b1, b5, b6

MCFrom == [t \in Tx |-> IF t \in {b1, b5, b6} THEN bob ELSE alice]

MCPayer == [t \in Tx |-> IF t \in {r1, b1, b5, b6} THEN bob ELSE alice]

MCNonce ==
  [t \in Tx |-> CASE t \in {a1, r1, b1} -> 1 [] t = a2 -> 2 [] t = a3 -> 3
                   [] t = b5 -> 5 [] t = b6 -> 6]

MCBandwidth == [t \in Tx |-> IF t = r1 THEN 2 ELSE 1]

MCPointChange == [t \in Tx |-> CASE t = a1 -> -1 [] t = b1 -> 1 [] OTHER -> 0]

=============================================================================
