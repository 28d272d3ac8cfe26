------------------------------- MODULE MCPowerup -------------------------------
(* Room for two orders of an account that is yet to be created, paid for   *)
(* by one that exists from genesis.                                        *)
EXTENDS Powerup, TLC

CONSTANTS alice, eosio, reserv, fees, s1, s2

MCAccounts == {alice, eosio, reserv, fees}
MCRenters == {alice}
MCSlots == {s1, s2}
MCFunds == [a \in Accounts |-> IF a = eosio THEN 9 ELSE 0]

(* A flat curve, one that shrinks the ratio, and one that goes on from     *)
(* there.                                                                  *)
Args(current, target, assumed, until) ==
  [current |-> current, target |-> target, assumed |-> assumed, until |-> until]
Both(x) == [k \in Bandwidth |-> x]
MCCurves == {Both(Args(2, 2, 3, Absent)), Both(Args(4, 2, 3, 3)),
             Both(Args(Absent, 1, Absent, 2))}

Pair(n, c) == [k \in Bandwidth |-> IF k = "net" THEN n ELSE c]
MCFracs == {Pair(2, 0), Pair(1, 3)}
MCDeltas == {Pair(1, 0), Pair(-1, 0)}
MCValues == {Absent, 0}
MCPeriods == {Absent, 2}
SlotsAlike == Permutations(Slots)
=============================================================================
