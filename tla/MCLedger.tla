------------------------------ MODULE MCLedger ------------------------------
(***************************************************************************)
(* Two accounts, one of which is a block producer from genesis on and also *)
(* signs as a payer.                                                       *)
(***************************************************************************)
EXTENDS Ledger, TLC

CONSTANTS alice, bob, n1

MCAccounts == {alice, bob}
MCSponsors == {alice}
MCGenesis == (alice :> 6) @@ (bob :> 3)
MCGenesisAlias == (alice :> n1) @@ (bob :> None)
=============================================================================
