------------------------------ MODULE MCNameBids ------------------------------
(* Two names and two bidders, with amounts around a raise of one tenth.    *)
EXTENDS NameBids, TLC

CONSTANTS alice, bob, com, org

MCNames == {com, org}
MCBidders == {alice, bob}
MCBids == {0, 1, 10, 11, 12, 14}
MCFunds == (alice :> 13) @@ (bob :> 24)
===============================================================================
