------------------------------- MODULE MCVoting -------------------------------
(* Three accounts, one of which can have a proxy that has a proxy, and     *)
(* three producers for two seats, so that somebody may be left out and an  *)
(* election may fall short; the factor doubles once.                       *)
EXTENDS Voting, TLC

CONSTANTS alice, bob, carol, p1, p2, p3

MCVoters == {alice, bob, carol}
MCProducers == {p1, p2, p3}
MCFactor == (0 :> 2) @@ (1 :> 4)
MCDeltas == {-1, 1}
MCSymmetry == Permutations(MCVoters) \cup Permutations(MCProducers)
================================================================================
