------------------------------- MODULE Inflation -------------------------------
(***************************************************************************)
(* The tokens behind rewards (fill_buckets of eosio.system).               *)
(*                                                                         *)
(* The supply grows at a continuous rate, but only when somebody claims:   *)
(* what has accrued since the last claim is taken from the fees collected  *)
(* meanwhile, the rest is issued, and fees beyond it are burned.  Two      *)
(* fifths go to savings, two to the voters and one to the producers; the   *)
(* contract keeps what it owes the last two in buckets of its own, apart   *)
(* from the balances that pay them.                                        *)
(***************************************************************************)
EXTENDS Sums, Payments

CONSTANTS
  Holders,       \* accounts that hold tokens
  Fees,          \* fees_account, eosio.fees
  Saving,        \* saving_account
  VotersAccount, \* voters_account
  Bpay,          \* bpay_account
  Users,         \* accounts that pay fees, or claim as voters
  Rate, Year,    \* tokens that accrue per token and time: Rate over Year
  MaxSupply,     \* maximum supply of the token
  Endowment,     \* initial balances
  Incomes,       \* bound: fees paid at once
  MaxTime        \* bound: time

Purses == {Fees, Saving, VotersAccount, Bpay}

ASSUME InflationAssumption ==
  /\ IsFiniteSet(Holders) /\ Purses \subseteq Holders /\ Users \subseteq Holders \ Purses
  /\ Fees \notin {Saving, VotersAccount, Bpay}
  /\ Saving \notin {VotersAccount, Bpay} /\ VotersAccount # Bpay
  /\ Rate \in Nat /\ Year \in Nat \ {0}
  /\ MaxSupply \in Nat /\ MaxTime \in Nat \ {0}
  /\ Endowment \in [Holders -> Nat]
  /\ Incomes \subseteq Nat \ {0}

VARIABLES
  supply,    \* of the token
  liquid,    \* eosio.token balances
  perblock,  \* perblock_bucket
  voters,    \* voters_bucket
  lastFill,  \* last_pervote_bucket_fill, 0 before the presses start
  now        \* time

books == <<supply, liquid, perblock, voters, lastFill>>

InflationInit ==
  /\ liquid = Endowment
  /\ supply = Total(Endowment)
  /\ perblock = 0 /\ voters = 0
  /\ lastFill = 0
  /\ now = 1

Less(m, n) == IF m <= n THEN m ELSE n

-----------------------------------------------------------------------------
(* What has accrued, where it comes from and where it goes.  The slip      *)
(* burns the fees that are used, too.                                      *)
Distributed == (Rate * supply * (now - lastFill)) \div Year
FeesUsed == Less(Distributed, liquid[Fees])
Issued == Distributed - FeesUsed
AllBurned == liquid[Fees]
Burned == liquid[Fees] - FeesUsed

ToPerBlock == Distributed \div 5
ToVoters == 2 * ToPerBlock
ToSavings == Distributed - (ToVoters + ToPerBlock)

(* Nothing happens before the presses start, or twice at the same time.    *)
Fills == now > lastFill /\ lastFill > 0

(* The transfers fail when one of them is of nothing, the issue when there *)
(* would be more than the maximum.                                         *)
CanFill ==
  Fills => ToPerBlock > 0 /\ ToSavings > 0 /\ Issued <= MaxSupply - supply

(* The books after fill_buckets; a claim goes on from there.  The slip     *)
(* passes on what was issued and forgets the fees that were used.          *)
OnlyIssued ==
  [liquid EXCEPT ![Fees] = @ - FeesUsed - Burned,
                 ![Saving] = @ + (Issued - 3 * (Issued \div 5)),
                 ![VotersAccount] = @ + 2 * (Issued \div 5),
                 ![Bpay] = @ + Issued \div 5]
Balances ==
  [liquid EXCEPT ![Fees] = @ - FeesUsed - Burned,
                 ![Saving] = @ + ToSavings,
                 ![VotersAccount] = @ + ToVoters,
                 ![Bpay] = @ + ToPerBlock]

fill_buckets ==
  IF Fills
  THEN [supply |-> supply + Issued - Burned, liquid |-> Balances,
        perblock |-> perblock + ToPerBlock, voters |-> voters + ToVoters]
  ELSE [supply |-> supply, liquid |-> liquid, perblock |-> perblock, voters |-> voters]

LastFillAfter == IF Fills THEN now ELSE lastFill

(* Fees that users of the chain pay.                                       *)
PayFees(from, n) ==
  /\ CanPay(liquid, from, Fees, n)
  /\ liquid' = Paid(liquid, from, Fees, n)
  /\ UNCHANGED <<supply, perblock, voters, lastFill, now>>

Wait ==
  /\ now < MaxTime
  /\ now' = now + 1
  /\ UNCHANGED books

-----------------------------------------------------------------------------
InflationTypeOK ==
  /\ liquid \in [Holders -> Nat] /\ supply \in Nat
  /\ perblock \in Nat /\ voters \in Nat
  /\ now \in 1 .. MaxTime /\ lastFill \in 0 .. now

(* Issuing, collecting, burning and distributing in one claim neither      *)
(* creates nor loses a token, whatever is rounded and wherever the tokens  *)
(* come from; and what the contract owes from each bucket is in the        *)
(* account that pays it.                                                   *)
SupplyHeld == supply = Total(liquid)
BucketsBacked == perblock <= liquid[Bpay] /\ voters <= liquid[VotersAccount]
BooksBalance == SupplyHeld /\ BucketsBacked
================================================================================
