------------------------------ MODULE MCStaking ------------------------------
(* Staking on two users and the two system accounts.  Only the users       *)
(* receive bandwidth; the amounts include the invalid ones.                *)
EXTENDS Staking, TLC

CONSTANTS alice, bob

MCAccounts == {alice, bob, Stake}
MCSystem == {Stake}
MCReceivers == {alice, bob}
MCAmounts == -1 .. 1
MCEndowment == (alice :> 2) @@ (bob :> 1) @@ (Stake :> 0)
MCUnbacked == -1 .. 1
==============================================================================
