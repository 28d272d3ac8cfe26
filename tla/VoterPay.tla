-------------------------------- MODULE VoterPay --------------------------------
(***************************************************************************)
(* The pay of voters (voting.cpp of eosio.system): what each vote does to  *)
(* the shares, and voterclaim, together with Voting and Inflation.         *)
(*                                                                         *)
(* A voter that votes for enough producers, or through a proxy, earns      *)
(* shares at a rate: its last weight without what is delegated to it.  The *)
(* rate is set at the end of update_votes only, while weights change also  *)
(* when delegators vote, stakes change and proxies come and go.  As for    *)
(* producers, the contract keeps the sums of shares and rates; a claim     *)
(* gets of the bucket what the voter's share is of all shares.             *)
(* Shares are doubles in the code and exact here.                          *)
(***************************************************************************)
EXTENDS Voting, Inflation

CONSTANTS
  MinChoices,  \* 16, the votes that earn a reward
  Unset,       \* values of unpaid_voteshare_change_rate in a new row
  Day          \* useconds_per_day

ASSUME VoterPayAssumption ==
  /\ Voters \subseteq Holders \ Purses
  /\ MinChoices \in Nat \ {0}
  /\ Unset \subseteq Int /\ Unset # {}
  /\ Day \in Nat \ {0}
  /\ \A e, f \in 0 .. MaxEpoch : e <= f => Factor[e] <= Factor[f]

VARIABLES
  share,         \* unpaid_voteshare
  rate,          \* unpaid_voteshare_change_rate
  updated,       \* unpaid_voteshare_last_updated, 0 before the first vote
  claimed,       \* last_claim_time, 0 for never
  totalShare,    \* total_unpaid_voteshare
  totalRate,     \* total_voteshare_change_rate
  totalUpdated   \* total_unpaid_voteshare_last_updated, 0 for never

row == <<share, rate, updated, claimed>>
totals == <<totalShare, totalRate, totalUpdated>>
payVars == <<vars, books, now, row, totals>>

PayInit ==
  /\ Init
  /\ InflationInit
  /\ share = [v \in Voters |-> 0]
  /\ rate \in [Voters -> Unset]
  /\ updated = [v \in Voters |-> 0]
  /\ claimed = [v \in Voters |-> 0]
  /\ totalShare = 0 /\ totalRate = 0 /\ totalUpdated = 0

-----------------------------------------------------------------------------
(* Shares earned since a row, or the sums, were last updated.  Before that *)
(* first happened, nothing was.                                            *)
Since(t) == IF t # 0 /\ t < now THEN now - t ELSE 0
ShareNow(v) == share[v] + rate[v] * Since(updated[v])
TotalShareNow == totalShare + totalRate * Since(totalUpdated)

(* The rate of v after its votes were counted.  The slip counts what is    *)
(* delegated to v for v as well.                                           *)
Earns(v) == Cardinality(choice'[v]) >= MinChoices \/ proxy'[v] # None
WithDelegated(v) == IF Earns(v) THEN w'.last[v] ELSE 0
NewRate(v) == IF Earns(v) THEN w'.last[v] - w'.proxied[v] ELSE 0

update_voter_votepay_share(v) ==
  /\ share' = [share EXCEPT ![v] = ShareNow(v)]
  /\ rate' = [rate EXCEPT ![v] = NewRate(v)]
  /\ updated' = [updated EXCEPT ![v] = now]
  /\ totalShare' = TotalShareNow
  /\ totalRate' = totalRate + (NewRate(v) - rate[v])
  /\ totalUpdated' = now
  /\ UNCHANGED <<claimed, books, now>>

-----------------------------------------------------------------------------
(* The actions of Voting: those that end in update_votes set the rate.     *)
VoteAndEarn(v, q, producers) ==
  /\ voteproducer(v, q, producers)
  /\ update_voter_votepay_share(v)

StakeAndEarn(v, delta) ==
  /\ update_voting_power(v, delta)
  /\ IF HasVoted(v) THEN update_voter_votepay_share(v)
     ELSE UNCHANGED <<row, totals, books, now>>

OtherVoting ==
  /\ \/ \E v \in Voters, isproxy \in BOOLEAN : regproxy(v, isproxy)
     \/ \E p \in Producers : regproducer(p) \/ deactivate(p)
     \/ Tick
  /\ UNCHANGED <<row, totals, books, now>>

(* voterclaim: the part of the bucket for the share of v.  The sums are    *)
(* brought up to date unconditionally, which is the same once any vote has *)
(* been counted.  A share that is more than all shares gets all there is.  *)
Reward(v, bucket) == Less((bucket * ShareNow(v)) \div TotalShareNow, bucket)

(* The slip leaves to the sum what the claim has used up. *)
NotReduced(v) == TotalShareNow
ShareLeft(v) == TotalShareNow - ShareNow(v)

voterclaim(v) ==
  /\ activatedStake >= MinActivated
  /\ v \in hasRow
  /\ updated[v] # 0
  /\ now - claimed[v] > Day
  /\ CanFill
  /\ TotalShareNow > 0
  /\ LET reward == Reward(v, fill_buckets.voters)
     IN  /\ reward > 0
         /\ CanPay(fill_buckets.liquid, VotersAccount, v, reward)
         /\ liquid' = Paid(fill_buckets.liquid, VotersAccount, v, reward)
         /\ voters' = fill_buckets.voters - reward
  /\ supply' = fill_buckets.supply
  /\ perblock' = fill_buckets.perblock
  /\ lastFill' = LastFillAfter
  /\ totalShare' = ShareLeft(v)
  /\ totalUpdated' = now
  /\ share' = [share EXCEPT ![v] = 0]
  /\ updated' = [updated EXCEPT ![v] = now]
  /\ claimed' = [claimed EXCEPT ![v] = now]
  /\ UNCHANGED <<vars, now, rate, totalRate>>

(* onblock starts the presses once the chain is activated. *)
StartPresses ==
  /\ activated /\ lastFill = 0
  /\ lastFill' = now
  /\ UNCHANGED <<vars, supply, liquid, perblock, voters, now, row, totals>>

PayNext ==
  \/ \E v \in Voters :
       \/ \E q \in Voters \cup {None}, producers \in SUBSET Producers :
            VoteAndEarn(v, q, producers)
       \/ \E delta \in Deltas : StakeAndEarn(v, delta)
       \/ voterclaim(v)
  \/ OtherVoting
  \/ StartPresses
  \/ Wait /\ UNCHANGED <<vars, row, totals>>

PaySpec == PayInit /\ [][PayNext]_payVars

-----------------------------------------------------------------------------
PayTypeOK ==
  /\ TypeOK /\ InflationTypeOK
  /\ share \in [Voters -> Int] /\ rate \in [Voters -> Int]
  /\ updated \in [Voters -> 0 .. now] /\ claimed \in [Voters -> 0 .. now]
  /\ totalShare \in Int /\ totalRate \in Int /\ totalUpdated \in 0 .. now

(* What a test calls the invariant of voter pay, after any interleaving of *)
(* votes, stakes, proxies and claims and not only the one it goes through: *)
(* the sums are those of all voters' rates, and of the shares they have    *)
(* and have coming.                                                        *)
Earning == {v \in Voters : updated[v] # 0}
SharesAgree ==
  /\ totalRate = SumOf([v \in Earning |-> rate[v]])
  /\ TotalShareNow = SumOf([v \in Earning |-> ShareNow(v)])

(* Nobody earns more than his own stake is worth now: nothing for stake    *)
(* that others delegate to him, also while they come and go, and nothing   *)
(* for stake that he has taken back.                                       *)
OwnStakeOnly == \A v \in Earning : rate[v] <= stake2vote(staked[v])

(* What a test says of rewards: "same reward for voters in the same        *)
(* condition", here with the same stake, the same vote, counted in the     *)
(* same epoch, and nobody that delegates to either.                        *)
SameCondition(u, v) ==
  /\ staked[u] = staked[v] /\ choice[u] = choice[v] /\ proxy[u] = proxy[v]
  /\ w.cast[u] = w.cast[v]
  /\ \A x \in {u, v} : ~isProxy[x] /\ w.proxied[x] = 0
SameReward == \A u, v \in Earning : SameCondition(u, v) => rate[u] = rate[v]
================================================================================
