-------------------------------- MODULE Ledger --------------------------------
(***************************************************************************)
(* What a token promises, without tables, rows, payers or authorisations:  *)
(* units are issued to a holder, retired from a holder, or moved from one  *)
(* holder to another, and every unit issued is held by somebody.           *)
(***************************************************************************)
EXTENDS Sums

CONSTANT Accounts

VARIABLES holding, issued

Init == holding = [a \in Accounts |-> 0] /\ issued = 0

Mint(a, q) ==
  /\ holding' = [holding EXCEPT ![a] = @ + q]
  /\ issued' = issued + q

Burn(a, q) ==
  /\ q <= holding[a]
  /\ holding' = [holding EXCEPT ![a] = @ - q]
  /\ issued' = issued - q

Move(a, b, q) ==
  /\ a # b
  /\ q <= holding[a]
  /\ holding' = [holding EXCEPT ![a] = @ - q, ![b] = @ + q]
  /\ UNCHANGED issued

(* The amounts are those the step itself shows, so that the checker does   *)
(* not enumerate the natural numbers.                                      *)
Next ==
  \/ \E a \in Accounts :
       \/ issued' > issued /\ Mint(a, issued' - issued)
       \/ issued' < issued /\ Burn(a, issued - issued')
  \/ \E a, b \in Accounts :
       holding'[a] < holding[a] /\ Move(a, b, holding[a] - holding'[a])

Spec == Init /\ [][Next]_<<holding, issued>>
=============================================================================
