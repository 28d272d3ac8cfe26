------------------------------- MODULE Staking -------------------------------
(***************************************************************************)
(* Staking of tokens for bandwidth (delegate_bandwidth.cpp of              *)
(* eosio.system): delegatebw, undelegatebw, refund and removerefund, with  *)
(* the tables they keep in step:                                           *)
(*   - delband: what each account has staked for each receiver;            *)
(*   - userres and the chain's limits: module Resources;                   *)
(*   - refunds: one pending refund per account, net and cpu apart;         *)
(*   - voters.staked and the total stake of the WPS: one number each;      *)
(*   - the token balances, through the transfers of stake and refunds.     *)
(*                                                                         *)
(* changebw is called with a positive delta by delegatebw and a negative   *)
(* one by undelegatebw.  It ends by recounting the votes of the staker:    *)
(* that part is in the modules on voting, which hold the tables it writes. *)
(* Genesis balances, which undelegatebw also adjusts, are left out: the    *)
(* accounts here have none.                                                *)
(*                                                                         *)
(* Time is kept as ages: the code only ever asks whether a request is at   *)
(* least refund_delay_sec old, so an age stops counting there.             *)
(***************************************************************************)
EXTENDS Resources, Payments

CONSTANTS
  Stake,      \* stake_account, eosio.stake
  B1,         \* the account whose stake vests over ten years
  Receivers,  \* accounts that bandwidth is staked for
  Delay,      \* refund_delay_sec
  Amounts,    \* amounts a caller may pass, negative ones included
  Endowment,  \* initial liquid balance of each account
  Vesting,    \* what B1 must keep staked at the start
  Unbacked    \* bound: values unbacked may take

ASSUME StakingAssumption ==
  /\ Stake \in System
  /\ Delay \in Nat \ {0}
  /\ Amounts \subseteq Int
  /\ Endowment \in [Accounts -> Nat]
  /\ Endowment[Stake] = 0
  /\ Vesting \in Nat
  /\ Receivers \subseteq Accounts
  /\ Unbacked \subseteq Int

VARIABLES
  liquid,      \* eosio.token balance of each account
  delband,     \* delband: staked for each kind and <<from, to>>, 0 = no row
  refunds,     \* refunds: amount of each kind and owner, all 0 = no row
  age,         \* refunds: time since request_time, 0 without a row
  staked,      \* voters.staked
  totalStake,  \* _wps_state.total_stake
  activated,   \* thresh_activated_stake_time is set
  vesting,     \* max_claimable - claimable of validate_b1_vesting
  unbacked,    \* history: stake without tokens behind it, see changebw
  lastUnstake  \* history: time since each account last undelegated

staking == <<delband, refunds, age, staked, totalStake>>
history == <<unbacked, lastUnstake>>
vars == <<resources, liquid, staking, activated, vesting, history>>

Pairs == Accounts \X Accounts

(* The slip counts one kind only. *)
NetOf(delta) == delta["net"]
TotalOf(delta) == delta["net"] + delta["cpu"]

Init ==
  /\ ResourcesInit(Accounts)
  /\ liquid = Endowment
  /\ delband = [k \in Bandwidth |-> [p \in Pairs |-> 0]]
  /\ refunds = [k \in Bandwidth |-> [a \in Accounts |-> 0]]
  /\ age = [a \in Accounts |-> 0]
  /\ staked = [a \in Accounts |-> 0]
  /\ totalStake = 0
  /\ activated = FALSE
  /\ vesting = Vesting
  /\ unbacked = 0
  /\ lastUnstake = [a \in Accounts |-> Delay]

HasRefund(a) == \E k \in Bandwidth : refunds[k][a] > 0

-----------------------------------------------------------------------------
(* The two deltas have the same sign, as changebw checks for itself. *)
Abs(n) == IF n < 0 THEN -n ELSE n
SameSign(delta) ==
  \A k \in Bandwidth : Abs(TotalOf(delta)) >= Abs(delta[k])

Undelegating(delta) == TotalOf(delta) < 0

(* A stake for oneself, and not a gift, is first taken from one's pending  *)
(* refund; an undelegation adds to the refund.  A stake by eosio.stake     *)
(* itself does neither, and moves no tokens.  The slip treats an           *)
(* undelegation from another receiver like a gift.                         *)
OwnStakeOnly(source, owner, receiver, delta, transfer) ==
  source # Stake /\ ~transfer /\ owner = receiver
TouchesRefund(source, owner, receiver, delta, transfer) ==
  /\ source # Stake
  /\ (~transfer /\ owner = receiver) \/ Undelegating(delta)

(* The refund of kind k after delta, and what of delta it does not cover   *)
(* and the staker has to transfer, each kind for itself.  The slips: a     *)
(* refund overdrawn, and one pot of refunds that covers each kind.         *)
Overdrawn(k, owner, delta) == refunds[k][owner] - delta[k]
RefundAfter(k, owner, delta) == Larger(refunds[k][owner] - delta[k], 0)
DueAfterBoth(k, owner, delta) ==
  Larger(delta[k] - (refunds["net"][owner] + refunds["cpu"][owner]), 0)
DueAfter(k, owner, delta) == Larger(delta[k] - refunds[k][owner], 0)

SetRefund(owner, after) ==
  refunds' = [k \in Bandwidth |-> [refunds[k] EXCEPT ![owner] = after[k]]]

(* Undelegating restarts the delay of everything pending, staking from the *)
(* refund does not.  The slip restarts it only for a new request.          *)
AgeOfNew(owner, delta) ==
  IF Undelegating(delta) /\ ~HasRefund(owner) THEN 0 ELSE age[owner]
AgeAfter(owner, delta) == IF Undelegating(delta) THEN 0 ELSE age[owner]

Pay(from, to, amount) ==
  CanPay(liquid, from, to, amount) /\ liquid' = Paid(liquid, from, to, amount)

StakeTransfer(source, amount) ==
  IF source # Stake /\ amount > 0 THEN Pay(source, Stake, amount)
  ELSE UNCHANGED liquid

(* The refunds, their ages and the tokens due. *)
UpdateRefund(source, owner, receiver, delta, transfer) ==
  IF TouchesRefund(source, owner, receiver, delta, transfer)
  THEN /\ SetRefund(owner, [k \in Bandwidth |-> RefundAfter(k, owner, delta)])
       /\ age' = [age EXCEPT ![owner] =
                    IF \A k \in Bandwidth : refunds'[k][owner] = 0 THEN 0
                    ELSE AgeAfter(owner, delta)]
       /\ StakeTransfer(source,
            TotalOf([k \in Bandwidth |-> DueAfter(k, owner, delta)]))
  ELSE /\ UNCHANGED <<refunds, age>>
       /\ StakeTransfer(source, TotalOf(delta))

(* voters.staked and, for b1, what it must keep staked. *)
UpdateVotingPower(voter, total) ==
  /\ staked[voter] + total >= 0
  /\ voter = B1 => vesting <= staked[voter] + total
  /\ staked' = [staked EXCEPT ![voter] = @ + total]

(* What from has staked for receiver: net and cpu may not go below zero.   *)
(* The slip stops at zero instead of refusing.                             *)
DelbandStopsAtZero(from, receiver, delta) ==
  delband' = [k \in Bandwidth |->
                [delband[k] EXCEPT ![<<from, receiver>>] = Larger(@ + delta[k], 0)]]
UpdateDelband(from, receiver, delta) ==
  /\ \A k \in Bandwidth : delband[k][<<from, receiver>>] + delta[k] >= 0
  /\ delband' = [k \in Bandwidth |->
                   [delband[k] EXCEPT ![<<from, receiver>>] = @ + delta[k]]]

(* Source's tokens become the stake of source or, as a gift, of receiver.  *)
changebw(source, receiver, delta, transfer) ==
  LET from == IF transfer THEN receiver ELSE source
      total == TotalOf(delta)
  IN  /\ \E k \in Bandwidth : delta[k] # 0
      /\ SameSign(delta)
      /\ UpdateDelband(from, receiver, delta)
      /\ UpdateTotals(receiver, delta)
      /\ UpdateRefund(source, from, receiver, delta, transfer)
      /\ totalStake' = totalStake + total
      /\ UpdateVotingPower(from, total)
      /\ unbacked' = IF source = Stake THEN unbacked + total ELSE unbacked
      /\ lastUnstake' = IF Undelegating(delta)
                        THEN [lastUnstake EXCEPT ![source] = 0]
                        ELSE lastUnstake
      /\ UNCHANGED <<activated, vesting>>

-----------------------------------------------------------------------------
(* A quantity of each kind, none negative and not both zero. *)
ValidQuantity(q) == (\A k \in Bandwidth : q[k] >= 0) /\ TotalOf(q) > 0

delegatebw(from, receiver, q, transfer) ==
  /\ ValidQuantity(q)
  /\ ~transfer \/ from # receiver
  /\ changebw(from, receiver, q, transfer)

undelegatebw(from, receiver, q) ==
  /\ ValidQuantity(q)
  /\ activated
  /\ changebw(from, receiver, [k \in Bandwidth |-> -q[k]], FALSE)

(* A refund is paid once it has waited. *)
Matured(owner) == HasRefund(owner) /\ age[owner] >= Delay

refund(owner) ==
  /\ Matured(owner)
  /\ Pay(Stake, owner, refunds["net"][owner] + refunds["cpu"][owner])
  /\ SetRefund(owner, [k \in Bandwidth |-> 0])
  /\ age' = [age EXCEPT ![owner] = 0]
  /\ UNCHANGED <<resources, delband, staked, totalStake, activated, vesting,
                 unbacked, lastUnstake>>

(* The contract cancels part of a refund.  No tokens move: those it was to *)
(* pay stay in eosio.stake.                                                *)
removerefund(account, tokens) ==
  LET net == refunds["net"][account]
      cpu == refunds["cpu"][account]
      left == [k \in Bandwidth |->
                 IF k = "net" THEN Larger(net - tokens, 0)
                 ELSE IF net >= tokens THEN cpu ELSE cpu - (tokens - net)]
  IN  /\ HasRefund(account)
      /\ net + cpu >= tokens
      /\ SetRefund(account, left)
      /\ age' = IF net + cpu = tokens THEN [age EXCEPT ![account] = 0] ELSE age
      /\ unbacked' = unbacked - tokens
      /\ UNCHANGED <<resources, liquid, delband, staked, totalStake,
                     activated, vesting, lastUnstake>>

(* Enough votes have been cast for the first time: see update_votes. *)
activate ==
  /\ ~activated
  /\ activated' = TRUE
  /\ UNCHANGED <<resources, liquid, staking, vesting, history>>

Older(t) == IF t < Delay THEN t + 1 ELSE t

(* One unit of time passes; what b1 may claim can grow with it. *)
Tick ==
  /\ age' = [a \in Accounts |-> IF HasRefund(a) THEN Older(age[a]) ELSE 0]
  /\ lastUnstake' = [a \in Accounts |-> Older(lastUnstake[a])]
  /\ vesting' \in {vesting, Larger(vesting - 1, 0)}
  /\ <<age, lastUnstake, vesting>>' # <<age, lastUnstake, vesting>>
  /\ UNCHANGED <<resources, liquid, delband, refunds, staked, totalStake,
                 activated, unbacked>>

Quantities == [Bandwidth -> Amounts]

Next ==
  \/ \E from \in Accounts, receiver \in Receivers, q \in Quantities :
       /\ \/ \E transfer \in BOOLEAN : delegatebw(from, receiver, q, transfer)
          \/ undelegatebw(from, receiver, q)
       /\ unbacked' \in Unbacked
  \/ \E owner \in Accounts : refund(owner)
  \/ \E account \in Accounts, tokens \in Amounts :
       removerefund(account, tokens) /\ unbacked' \in Unbacked
  \/ activate
  \/ Tick

Spec == Init /\ [][Next]_vars

-----------------------------------------------------------------------------
StakeOf(a) ==
  TotalFrom(delband["net"], Accounts, a) + TotalFrom(delband["cpu"], Accounts, a)
RefundOf(a) == refunds["net"][a] + refunds["cpu"][a]
AllStake == Total(delband["net"]) + Total(delband["cpu"])
AllRefunds == Total(refunds["net"]) + Total(refunds["cpu"])

TypeOK ==
  /\ ResourcesTypeOK
  /\ liquid \in [Accounts -> Nat]
  /\ delband \in [Bandwidth -> [Pairs -> Nat]]
  /\ refunds \in [Bandwidth -> [Accounts -> Nat]]
  /\ age \in [Accounts -> 0 .. Delay]
  /\ staked \in [Accounts -> Nat]
  /\ totalStake \in Nat
  /\ activated \in BOOLEAN
  /\ vesting \in Nat
  /\ unbacked \in Int
  /\ lastUnstake \in [Accounts -> 0 .. Delay]

(* Everything staked and everything waiting to be refunded is in           *)
(* eosio.stake, except what eosio.stake itself staked without a transfer,  *)
(* and besides what removerefund left there: so that as long as it has     *)
(* staked nothing itself, no refund can fail for lack of tokens.           *)
StakeBacked == liquid[Stake] + unbacked = AllStake + AllRefunds

(* An account votes with what it has staked, for itself and for others,    *)
(* through every gift, undelegation and partial refund: voters.staked and  *)
(* the delband rows are different tables, written apart.                   *)
VotesMatchStake == \A a \in Accounts : staked[a] = StakeOf(a)

(* The bandwidth of an account is what everybody has staked for it, net    *)
(* and cpu apart.                                                          *)
TotalsMatchStake ==
  \A k \in Bandwidth, a \in Accounts :
    weight[k][a] = TotalTo(delband[k], Accounts, a)

(* The total against which the WPS measures votes is the sum of all stake. *)
WpsTotalMatches == totalStake = AllStake

(* The three kinds of totals, each in a table of its own and changed by    *)
(* code of its own, always agree with the delband rows.                    *)
RecordsMatchStake == VotesMatchStake /\ TotalsMatchStake /\ WpsTotalMatches

(* An account gets tokens back only when it has not undelegated for the    *)
(* whole delay, however it mixes undelegations, stakes out of the refund,  *)
(* gifts from others and partial cancellations.                            *)
NoEarlyExit ==
  [][\A a \in Accounts \ {Stake} :
       liquid'[a] > liquid[a] => lastUnstake[a] = Delay]_vars

(* What an account owns, liquid, staked and awaiting refund, shrinks only  *)
(* when it makes a gift of stake itself, or by removerefund.               *)
Wealth(a) == liquid[a] + StakeOf(a) + RefundOf(a)
Gives(a) ==
  \E receiver \in Receivers, q \in Quantities : delegatebw(a, receiver, q, TRUE)
Cancelled(a) == \E tokens \in Amounts : removerefund(a, tokens)
WealthConsents ==
  [][\A a \in Accounts \ {Stake} :
       Wealth(a)' < Wealth(a) => Gives(a) \/ Cancelled(a)]_vars

(* Somebody who asks for a refund, and asks again when it is too early,    *)
(* gets it, as long as eosio.stake has not staked what it does not have:   *)
(* a request that is never paid is one that its owner keeps renewing by    *)
(* undelegating more.                                                      *)
Fairness == WF_vars(Tick) /\ \A a \in Accounts : WF_vars(refund(a))
FairSpec == Spec /\ Fairness
RefundArrives ==
  \A a \in Accounts : (<>[](HasRefund(a) /\ unbacked <= 0)) => []<>(age[a] = 0)
==============================================================================
