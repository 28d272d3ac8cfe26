------------------------------- MODULE Payments -------------------------------
(***************************************************************************)
(* The inline eosio.token transfers of the system contract: module Token   *)
(* shows what a transfer does in full; the other modules only need who can *)
(* pay and what is left.  A failing transfer undoes the whole action.      *)
(***************************************************************************)
EXTENDS Integers

(* The balances are enough, and nobody pays nothing or pays himself. *)
CanPay(balances, from, to, amount) ==
  /\ from # to
  /\ amount > 0
  /\ amount <= balances[from]

Paid(balances, from, to, amount) ==
  [balances EXCEPT ![from] = @ - amount, ![to] = @ + amount]
==============================================================================
