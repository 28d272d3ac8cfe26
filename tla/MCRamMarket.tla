----------------------------- MODULE MCRamMarket -----------------------------
(* Two traders on a market of a few bytes and tokens, with every kind of   *)
(* refused amount, and a word so small that the growth wraps around.       *)
EXTENDS RamMarket, TLC

CONSTANTS alice, bob

MCAccounts == {alice, bob, Ram, RamFee}
MCSystem == {Ram, RamFee}
MCTraders == {alice, bob}
MCRamSizes == {4, 11}
MCRates == {0, 3}
MCQuantities == {0, 1, 2, 3, 5}
MCByteCounts == {0, 1, 3, 8}
MCEndowment == (alice :> 7) @@ (bob :> 4) @@ (Ram :> 0) @@ (RamFee :> 0)
==============================================================================
