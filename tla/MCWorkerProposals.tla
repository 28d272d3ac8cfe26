-------------------------- MODULE MCWorkerProposals --------------------------
(* Two voters and one proposer, before a committee with one reviewer.  A   *)
(* day is one step; the proposer asks for two instalments, which do not    *)
(* divide the goal.  The settings can change at any time.                  *)
EXTENDS WorkerProposals, TLC

CONSTANTS alice, bob, carol, board, rev

MCVoters == {alice, bob}
MCProposers == {carol}
MCCommittees == {board}
MCReviewers == {rev}
MCEnvs == {[percent |-> 50, voting |-> 2, funding |-> 2],
           [percent |-> 20, voting |-> 1, funding |-> 2]}
MCPlans == {[duration |-> 2, goal |-> 3, iterations |-> 2]}
MCWpsStakes == {1}
MCFactor == [t \in 0 .. MaxTime |-> IF t < 2 THEN 1 ELSE 2]
MCDeltas == {-1, 1}
MCSymmetry == Permutations(MCVoters)
================================================================================
