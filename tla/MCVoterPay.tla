------------------------------ MODULE MCVoterPay ------------------------------
(* Two voters, each of which may be the other's proxy, and one producer    *)
(* that is enough to earn a reward.                                        *)
EXTENDS VoterPay, TLC

CONSTANTS alice, bob, p1, fees, saving, vpay, bpay

MCVoters == {alice, bob}
MCHolders == {alice, bob, fees, saving, vpay, bpay}
MCEndowment == [a \in Holders |-> IF a = fees THEN 7 ELSE 0]
MCFactor == [e \in 0 .. MaxEpoch |-> 2 * (e + 1)]
MCDeltas == {-1, 1}
MCSymmetry == Permutations(MCVoters)
================================================================================
