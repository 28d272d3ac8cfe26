----------------------------- MODULE MCFirstVote ------------------------------
(* Voting with the history of who has voted, for what the code says of the *)
(* first vote.                                                             *)
EXTENDS MCVoting

VARIABLE voted   \* accounts that have voted

FirstVoteInit == Init /\ voted = {}

Votes(v) ==
  \E q \in Voters \cup {None}, producers \in SUBSET Producers :
    voteproducer(v, q, producers)
OtherThanVote ==
  \/ \E v \in Voters :
       \/ \E delta \in Deltas : update_voting_power(v, delta)
       \/ \E isproxy \in BOOLEAN : regproxy(v, isproxy)
  \/ \E p \in Producers : regproducer(p) \/ deactivate(p)
  \/ update_elected_producers
  \/ Tick
FirstVoteNext ==
  \/ \E v \in Voters : Votes(v) /\ voted' = voted \cup {v}
  \/ OtherThanVote /\ UNCHANGED voted
FirstVoteSpec == FirstVoteInit /\ [][FirstVoteNext]_<<vars, voted>>

(* What the comment in update_votes says: that the first vote of anybody   *)
(* activates his stake.                                                    *)
FirstVoteActivates ==
  [][\A v \in voted' \ voted :
       ~activated => activatedStake' = activatedStake + staked'[v]]_<<vars, voted>>
================================================================================
