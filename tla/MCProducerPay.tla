---------------------------- MODULE MCProducerPay ----------------------------
(* Two producers, one of which was there before producers2, and a user     *)
(* whose tokens become fees.                                               *)
EXTENDS ProducerPay, TLC

CONSTANTS p1, p2, user, fees, saving, vpay, bpay

MCHolders == {p1, p2, user, fees, saving, vpay, bpay}
MCEndowment == [a \in Holders |-> IF a = user THEN 3 ELSE 0]
MCChanges == {(p1 :> 1), (p1 :> -1) @@ (p2 :> 1)}
=============================================================================
