------------------------------ MODULE ProducerPay ------------------------------
(***************************************************************************)
(* The pay of producers (producer_pay.cpp of eosio.system, with the shares *)
(* that voting.cpp keeps for them): the count of blocks in onblock,        *)
(* claimrewards, the registration of producers, and what a change of votes *)
(* does to the shares.                                                     *)
(*                                                                         *)
(* A producer that claims gets of the bucket what its blocks are of all    *)
(* unpaid blocks.  Shares for votes are kept besides: each producer's is   *)
(* its votes times the time it had them, up to three days after its last   *)
(* claim.  Only the sums of shares and of their rates are kept up to date  *)
(* all the time; the rows of producers are when something happens to them. *)
(* Votes and shares are doubles in the code and exact here.                *)
(***************************************************************************)
EXTENDS Inflation

CONSTANTS
  Producers,   \* accounts that may register and produce
  Signers,     \* accounts that produce blocks, registered or not
  Old,         \* producers from before there was producers2
  OldClaims,   \* when these claimed last, 0 for never
  Changes,     \* changes of votes that one action brings about
  Day,         \* useconds_per_day
  MaxVotes,    \* bound: votes of a producer
  MaxBlocks    \* bound: unpaid blocks

ASSUME ProducerPayAssumption ==
  /\ IsFiniteSet(Producers) /\ Producers \subseteq Holders \ Purses
  /\ Old \subseteq Producers
  /\ OldClaims \subseteq {0, 1}
  /\ \A d \in Changes : DOMAIN d \subseteq Producers /\ \A p \in DOMAIN d : d[p] \in Int
  /\ Day \in Nat \ {0}
  /\ MaxVotes \in Nat /\ MaxBlocks \in Nat

VARIABLES
  activated,    \* thresh_activated_stake_time is set
  registered,   \* producers with a row in producers
  active,       \* is_active
  unpaid,       \* unpaid_blocks
  claimed,      \* last_claim_time
  votes,        \* total_votes
  totalUnpaid,  \* total_unpaid_blocks
  hasShare,     \* producers with a row in producers2
  share,        \* votepay_share
  updated,      \* last_votepay_share_update
  totalShare,   \* total_producer_votepay_share
  totalRate,    \* total_vpay_share_change_rate
  totalUpdated  \* last_vpay_state_update

producer == <<registered, active, unpaid, claimed, votes>>
shares == <<hasShare, share, updated, totalShare, totalRate, totalUpdated>>
vars == <<books, now, activated, producer, totalUnpaid, shares>>

Init ==
  /\ InflationInit
  /\ activated = FALSE
  /\ registered = Old /\ active = Old
  /\ unpaid = [p \in Producers |-> 0]
  /\ \E c \in OldClaims : claimed = [p \in Producers |-> IF p \in Old THEN c ELSE 0]
  /\ votes = [p \in Producers |-> 0]
  /\ totalUnpaid = 0
  /\ hasShare = {}
  /\ share = [p \in Producers |-> 0]
  /\ updated = [p \in Producers |-> 0]
  /\ totalShare = 0 /\ totalRate = 0 /\ totalUpdated = 0

-----------------------------------------------------------------------------
(* onblock, without what BlockInfo, Voting and NameBids model of it: from  *)
(* activation on blocks count, those of registered producers.              *)
onblock(p) ==
  /\ IF activated
     THEN /\ lastFill' = IF lastFill = 0 THEN now ELSE lastFill
          /\ IF p \in registered
             THEN /\ totalUnpaid < MaxBlocks
                  /\ totalUnpaid' = totalUnpaid + 1
                  /\ unpaid' = [unpaid EXCEPT ![p] = @ + 1]
             ELSE UNCHANGED <<totalUnpaid, unpaid>>
     ELSE UNCHANGED <<lastFill, totalUnpaid, unpaid>>
  /\ UNCHANGED <<supply, liquid, perblock, voters, now, activated, shares,
                 registered, active, claimed, votes>>

-----------------------------------------------------------------------------
(* update_total_votepay_share: the sum of shares has grown at its rate and *)
(* changes by more, the rate by rate; neither falls below nothing.         *)
Accrued(x, rate, from) == IF now > from THEN x + rate * (now - from) ELSE x

update_total_votepay_share(more, rate) ==
  /\ totalShare' = NotBelow0(Accrued(totalShare, totalRate, totalUpdated) + more)
  /\ totalRate' = NotBelow0(totalRate + rate)
  /\ totalUpdated' = now

(* Three days after its last claim the share of a producer expires: it is  *)
(* withdrawn when its row is touched the first time from then on, and not  *)
(* kept until the next claim.                                              *)
Threshold(p) == claimed[p] + 3 * Day
Crossed(p) == Threshold(p) <= now
UpdatedAfter(p) == Threshold(p) <= updated[p]

(* update_producer_votepay_share, with the votes it had until now.         *)
NewShare(p) ==
  IF UpdatedAfter(p) THEN share[p] ELSE Accrued(share[p], votes[p], updated[p])
Expires(p) == Crossed(p) /\ ~UpdatedAfter(p)

(* The loops over producers of update_votes and propagate_weight_change:   *)
(* each producer of d has d[p] more votes.  The slip forgets that an       *)
(* expired share is withdrawn only once.                                   *)
WithdrawnAgain(d, p) == IF ~Crossed(p) THEN d[p] ELSE -votes[p]
RateChange(d, p) ==
  IF ~Crossed(p) THEN d[p] ELSE IF ~UpdatedAfter(p) THEN -votes[p] ELSE 0

ChangeVotes(d) ==
  LET S == DOMAIN d
      T == S \cap hasShare
  IN  /\ S \subseteq registered
      /\ \A p \in S : votes[p] + d[p] \in 0 .. MaxVotes
      /\ votes' = [p \in Producers |-> IF p \in S THEN votes[p] + d[p] ELSE votes[p]]
      /\ share' = [p \in Producers |->
                     IF p \notin T THEN share[p]
                     ELSE IF Expires(p) THEN 0 ELSE NewShare(p)]
      /\ updated' = [p \in Producers |-> IF p \in T THEN now ELSE updated[p]]
      /\ update_total_votepay_share(
           -Total([p \in {q \in T : Expires(q)} |-> NewShare(p)]),
           SumOf([p \in T |-> RateChange(d, p)]))
      /\ UNCHANGED <<books, now, activated, registered, active, unpaid, claimed,
                     totalUnpaid, hasShare>>

-----------------------------------------------------------------------------
register_producer(p) ==
  /\ registered' = registered \cup {p}
  /\ active' = active \cup {p}
  /\ claimed' = IF claimed[p] = 0 THEN [claimed EXCEPT ![p] = now] ELSE claimed
  /\ IF p \in hasShare THEN UNCHANGED shares
     ELSE /\ hasShare' = hasShare \cup {p}
          /\ updated' = [updated EXCEPT ![p] = now]
          /\ UNCHANGED share
          /\ IF p \in registered THEN update_total_votepay_share(0, votes[p])
             ELSE UNCHANGED <<totalShare, totalRate, totalUpdated>>
  /\ UNCHANGED <<books, now, activated, unpaid, votes, totalUnpaid>>

(* By the producer, unregprod, or by the chain, rmvproducer: what it has   *)
(* not claimed waits until it registers again.                             *)
unregprod(p) ==
  /\ p \in registered
  /\ active' = active \ {p}
  /\ UNCHANGED <<books, now, activated, registered, unpaid, claimed, votes,
                 totalUnpaid, shares>>

(* The part of the bucket for the blocks of p.  The slip rounds it up.     *)
RoundedUp(bucket, p) ==
  IF totalUnpaid > 0 THEN -((-(bucket * unpaid[p])) \div totalUnpaid) ELSE 0
PerBlockPay(bucket, p) ==
  IF totalUnpaid > 0 THEN (bucket * unpaid[p]) \div totalUnpaid ELSE 0

(* The slip forgets the blocks that were paid. *)
StillUnpaid(p) == totalUnpaid
LeftUnpaid(p) == totalUnpaid - unpaid[p]

claimrewards(p) ==
  /\ p \in active
  /\ activated
  /\ now - claimed[p] > Day
  /\ CanFill
  /\ LET pay == PerBlockPay(fill_buckets.perblock, p)
         late == p \in hasShare => UpdatedAfter(p)
     IN  /\ supply' = fill_buckets.supply
         /\ perblock' = fill_buckets.perblock - pay
         /\ voters' = fill_buckets.voters
         /\ lastFill' = LastFillAfter
         /\ IF pay > 0
            THEN /\ CanPay(fill_buckets.liquid, Bpay, p, pay)
                 /\ liquid' = Paid(fill_buckets.liquid, Bpay, p, pay)
            ELSE liquid' = fill_buckets.liquid
         /\ update_total_votepay_share(
              -(IF p \in hasShare THEN NewShare(p) ELSE 0),
              IF late THEN votes[p] ELSE 0)
  /\ totalUnpaid' = LeftUnpaid(p)
  /\ unpaid' = [unpaid EXCEPT ![p] = 0]
  /\ claimed' = [claimed EXCEPT ![p] = now]
  /\ hasShare' = hasShare \cup {p}
  /\ share' = [share EXCEPT ![p] = 0]
  /\ updated' = [updated EXCEPT ![p] = now]
  /\ UNCHANGED <<now, activated, registered, active, votes>>

(* What else touches the books: the first votes activate the chain, voters *)
(* claim from their bucket (see VoterPay), users pay fees.                 *)
Activate ==
  /\ ~activated
  /\ activated' = TRUE
  /\ UNCHANGED <<books, now, producer, totalUnpaid, shares>>

voterclaim(reward) ==
  /\ activated
  /\ CanFill
  /\ reward \in 1 .. fill_buckets.voters
  /\ supply' = fill_buckets.supply
  /\ perblock' = fill_buckets.perblock
  /\ voters' = fill_buckets.voters - reward
  /\ lastFill' = LastFillAfter
  /\ \E to \in Users :
       /\ CanPay(fill_buckets.liquid, VotersAccount, to, reward)
       /\ liquid' = Paid(fill_buckets.liquid, VotersAccount, to, reward)
  /\ UNCHANGED <<now, activated, producer, totalUnpaid, shares>>

Next ==
  \/ \E p \in Signers : onblock(p)
  \/ \E p \in Producers : register_producer(p) \/ unregprod(p) \/ claimrewards(p)
  \/ \E d \in Changes : ChangeVotes(d)
  \/ \E n \in Incomes :
       \/ voterclaim(n)
       \/ \E from \in Users :
            PayFees(from, n) /\ UNCHANGED <<activated, producer, totalUnpaid, shares>>
  \/ Activate
  \/ Wait /\ UNCHANGED <<activated, producer, totalUnpaid, shares>>

Spec == Init /\ [][Next]_vars

-----------------------------------------------------------------------------
TypeOK ==
  /\ InflationTypeOK
  /\ activated \in BOOLEAN
  /\ registered \subseteq Producers /\ active \subseteq registered
  /\ unpaid \in [Producers -> Nat] /\ totalUnpaid \in Nat
  /\ claimed \in [Producers -> 0 .. now]
  /\ votes \in [Producers -> 0 .. MaxVotes]
  /\ hasShare \subseteq registered
  /\ share \in [Producers -> Nat] /\ updated \in [Producers -> 0 .. now]
  /\ totalShare \in Nat /\ totalRate \in Nat /\ totalUpdated \in 0 .. now

(* The blocks not paid yet in all are those of all producers, also of such *)
(* that are not active now: no claim takes the blocks of another.          *)
UnpaidAgree == totalUnpaid = Total(unpaid)

(* A claim leaves to the others at least what they would have got for each *)
(* of their blocks just before: pay is rounded down, never up.             *)
OthersNotDiluted ==
  [][totalUnpaid' < totalUnpaid =>
       perblock' * totalUnpaid >= perblock * totalUnpaid']_vars

(* The sum of shares that the contract keeps is the sum of what producers  *)
(* have and have coming, and its rate the votes of those whose share has   *)
(* not expired: withdrawn once, and counted anew by the next claim.        *)
Counted == {p \in hasShare : ~UpdatedAfter(p)}
SharesAgree ==
  /\ totalRate = Total([p \in Counted |-> votes[p]])
  /\ totalShare + totalRate * (now - totalUpdated)
       = Total(share) + Total([p \in Counted |-> votes[p] * (now - updated[p])])
================================================================================
