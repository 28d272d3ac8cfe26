---------------------------- MODULE WorkerProposals ----------------------------
(***************************************************************************)
(* The worker proposal system (wps.cpp of eosio.system): proposers ask for *)
(* funds, reviewers of a committee let a proposal be voted on, voters who  *)
(* together hold a percentage of all stake make it win, reviewers approve  *)
(* it, and the proposer then claims equal instalments, one per interval.   *)
(*                                                                         *)
(* A vote is recorded twice, in the row of the voter and in the total of   *)
(* the proposal.  The two are changed by increments, the total only while  *)
(* the proposal is on vote, and again whenever the stake of the voter      *)
(* changes (update_voting_power of delegate_bandwidth.cpp).                *)
(*                                                                         *)
(* Descriptions, names and members of proposals are left out, and with     *)
(* them editproposer and editreviewer, which change nothing else.  The     *)
(* chain is activated: before, nobody can vote here.  Weights are doubles  *)
(* in the code and exact here.                                             *)
(***************************************************************************)
EXTENDS Sums

CONSTANTS
  Voters,      \* accounts with a row in the voters table
  Proposers,   \* accounts that may propose
  Committees,  \* accounts that may be registered as committees
  Reviewers,   \* accounts that may be registered as reviewers
  None,        \* no committee
  Envs,        \* settings: percent of stake to win, duration of the voting
               \* and longest duration of the funding in days
  Plans,       \* what proposers ask for: duration, goal and iterations
  WpsStakes,   \* totals that setwpsstate may set
  OtherStake,  \* stake of the accounts outside Voters
  Savings,     \* balance of eosio.saving at the start
  Factor,      \* what stake2vote multiplies a stake with, over time
  Deltas,      \* amounts by which a stake may change
  MaxStake,    \* bound: stake of each account
  MaxTime,     \* bound: time
  Day,         \* seconds_per_day
  MinDuration, MinEditDuration,     \* 30 and 1 days
  MinIterations, MinEditIterations, \* 1 and 3
  MaxIterations,                    \* 99
  MaxVotes                          \* 30

ASSUME WpsAssumption ==
  /\ IsFiniteSet(Voters)
  /\ None \notin Committees
  /\ Envs \subseteq [percent : Nat \ {0}, voting : Nat \ {0}, funding : Nat \ {0}]
  /\ Envs # {}
  /\ Plans \subseteq [duration : Nat, goal : Nat, iterations : Nat]
  /\ WpsStakes \subseteq Nat \ {0}
  /\ OtherStake \in Nat /\ Savings \in Nat
  /\ MaxTime \in Nat
  /\ Factor \in [0 .. MaxTime -> Nat \ {0}]
  /\ Deltas \subseteq Int /\ MaxStake \in Nat
  /\ Day \in Nat \ {0}
  /\ MinDuration \in Nat \ {0} /\ MinEditDuration \in Nat \ {0}
  /\ MinIterations \in Nat \ {0} /\ MinEditIterations \in Nat \ {0}
  /\ MaxIterations \in Nat /\ MaxVotes \in Nat

VARIABLES
  env,         \* wpsglobal
  committees,  \* accounts with a row in committees
  oversight,   \* those of them with is_oversight
  reviewerOf,  \* the committee of each reviewer, None without a row
  proposers,   \* accounts with a row in proposers
  proposal,    \* the proposal of each account
  voted,       \* accounts with a row in wpsvoters
  listed,      \* voters: proposals
  last,        \* voters: last_vote_weight
  staked,      \* voters: staked
  isProxy,     \* voters: is_proxy
  totalStake,  \* _wps_state.total_stake
  savings,     \* balance of eosio.saving
  now,         \* time
  paid,        \* history: what each proposal was paid
  cleared      \* history: votes that cleanvotes removed from the records of
               \* voters while a proposal is on vote

registry == <<env, committees, oversight, reviewerOf, proposers>>
ballots == <<voted, listed, last>>
stakes == <<staked, isProxy, totalStake>>
funds == <<savings, paid>>
vars == <<registry, proposal, ballots, stakes, funds, now, cleared>>

Plan(committee, plan) ==
  [committee |-> committee, duration |-> plan.duration, goal |-> plan.goal,
   iterations |-> plan.iterations]
NoPlan == [committee |-> None, duration |-> 0, goal |-> 0, iterations |-> 1]

(* A proposal as it is registered, and none. *)
Proposal(status, plan) ==
  [status |-> status, plan |-> plan, total |-> 0, voteStart |-> 0,
   fundStart |-> 0, iteration |-> 1]
NewProposal(plan) == Proposal("PENDING", plan)
NoProposal == Proposal("NONE", NoPlan)

NoVotes == [v \in Voters |-> 0]

Init ==
  /\ env \in Envs
  /\ committees = {} /\ oversight = {}
  /\ reviewerOf = [r \in Reviewers |-> None]
  /\ proposers = {}
  /\ proposal = [p \in Proposers |-> NoProposal]
  /\ voted = {}
  /\ listed = [v \in Voters |-> {}]
  /\ last = NoVotes
  /\ staked = NoVotes
  /\ isProxy = [v \in Voters |-> FALSE]
  /\ totalStake = OtherStake
  /\ savings = Savings
  /\ now = 0
  /\ paid = [p \in Proposers |-> 0]
  /\ cleared = [p \in Proposers |-> NoVotes]

-----------------------------------------------------------------------------
(* Settings, committees and proposers. *)
setwpsenv(e) ==
  /\ env' = e
  /\ UNCHANGED <<committees, oversight, reviewerOf, proposers, proposal,
                 ballots, stakes, funds, now, cleared>>

setwpsstate(total) ==
  /\ totalStake' = total
  /\ UNCHANGED <<registry, proposal, ballots, staked, isProxy, funds, now,
                 cleared>>

SetOversight(c, isOversight) ==
  oversight' = IF isOversight THEN oversight \cup {c} ELSE oversight \ {c}

regcommittee(c, isOversight) ==
  /\ c \notin committees
  /\ committees' = committees \cup {c}
  /\ SetOversight(c, isOversight)
  /\ UNCHANGED <<env, reviewerOf, proposers, proposal, ballots, stakes, funds,
                 now, cleared>>

edcommittee(c, isOversight) ==
  /\ c \in committees
  /\ SetOversight(c, isOversight)
  /\ UNCHANGED <<env, committees, reviewerOf, proposers, proposal, ballots,
                 stakes, funds, now, cleared>>

(* Its reviewers and its proposals stay. *)
rmvcommittee(c) ==
  /\ c \in committees
  /\ committees' = committees \ {c}
  /\ oversight' = oversight \ {c}
  /\ UNCHANGED <<env, reviewerOf, proposers, proposal, ballots, stakes, funds,
                 now, cleared>>

SetReviewer(r, c) ==
  /\ reviewerOf' = [reviewerOf EXCEPT ![r] = c]
  /\ UNCHANGED <<env, committees, oversight, proposers, proposal, ballots,
                 stakes, funds, now, cleared>>

regreviewer(c, r) ==
  /\ c \in committees /\ reviewerOf[r] = None
  /\ SetReviewer(r, c)

rmvreviewer(c, r) ==
  /\ c \in committees /\ reviewerOf[r] = c
  /\ SetReviewer(r, None)

SetProposers(S) ==
  /\ proposers' = S
  /\ UNCHANGED <<env, committees, oversight, reviewerOf, proposal, ballots,
                 stakes, funds, now, cleared>>

regproposer(p) == p \notin proposers /\ SetProposers(proposers \cup {p})

rmvproposer(p) == p \in proposers /\ SetProposers(proposers \ {p})

-----------------------------------------------------------------------------
(* Proposals before and after the vote. *)
Has(p, status) == proposal[p].status = status

(* What was cleared is remembered as long as the voting lasts. *)
KeepCleared ==
  cleared' = [p \in Proposers |->
                IF proposal'[p].status = "ON_VOTE" THEN cleared[p] ELSE NoVotes]

(* p becomes x. *)
SetProposal(p, x) ==
  /\ proposal' = [proposal EXCEPT ![p] = x]
  /\ KeepCleared
  /\ UNCHANGED <<registry, ballots, stakes, now>>

ValidPlan(c, plan, minDuration, minIterations) ==
  /\ c \in committees
  /\ plan.duration \in minDuration .. env.funding
  /\ plan.goal > 0
  /\ plan.iterations \in minIterations .. MaxIterations

(* The list of proposals of a voter may still name p from an earlier       *)
(* proposal, or from before p proposed anything.                           *)
regproposal(p, c, plan) ==
  /\ ValidPlan(c, plan, MinDuration, MinIterations)
  /\ p \in proposers
  /\ Has(p, "NONE")
  /\ SetProposal(p, NewProposal(Plan(c, plan)))
  /\ paid' = [paid EXCEPT ![p] = 0]
  /\ UNCHANGED savings

Edited(x, plan) == [x EXCEPT !.plan = plan]
editproposal(p, c, plan) ==
  /\ ValidPlan(c, plan, MinEditDuration, MinEditIterations)
  /\ p \in proposers
  /\ Has(p, "PENDING")
  /\ SetProposal(p, Edited(proposal[p], Plan(c, plan)))
  /\ UNCHANGED funds

(* A reviewer of the committee that the proposal names. *)
Reviews(r, p) ==
  /\ reviewerOf[r] # None
  /\ reviewerOf[r] = proposal[p].plan.committee

Accepted(x) == [x EXCEPT !.status = "ON_VOTE", !.voteStart = now]
acceptprop(r, p) ==
  /\ Has(p, "PENDING")
  /\ Reviews(r, p)
  /\ SetProposal(p, Accepted(proposal[p]))
  /\ UNCHANGED funds

Rejected(x) == [x EXCEPT !.status = "REJECTED"]
rejectprop(r, p) ==
  /\ Has(p, "PENDING") \/ Has(p, "ON_VOTE") \/ Has(p, "FINISHED_VOTING")
  /\ Reviews(r, p)
  /\ SetProposal(p, Rejected(proposal[p]))
  /\ UNCHANGED funds

Approved(x) == [x EXCEPT !.status = "APPROVED", !.fundStart = now]
approve(r, p) ==
  /\ Has(p, "FINISHED_VOTING")
  /\ Reviews(r, p)
  /\ SetProposal(p, Approved(proposal[p]))
  /\ UNCHANGED funds

(* By the committee of the proposal, or by one that oversees. *)
rejectfund(c, p) ==
  /\ c \in committees
  /\ c = proposal[p].plan.committee \/ c \in oversight
  /\ Has(p, "APPROVED")
  /\ SetProposal(p, Rejected(proposal[p]))
  /\ UNCHANGED funds

(* rmvreject and rmvcompleted: the votes stay in the rows of the voters.   *)
remove(r, p) ==
  /\ Has(p, "REJECTED") \/ Has(p, "COMPLETED")
  /\ Reviews(r, p)
  /\ SetProposal(p, NoProposal)
  /\ UNCHANGED funds

(* One instalment; what the division leaves over is never paid.  The slip  *)
(* counts intervals from zero.                                             *)
Instalment(x) == x.plan.goal \div x.plan.iterations
Interval(x) == (x.plan.duration * Day) \div x.plan.iterations
DueEarly(x) == now > x.fundStart + (x.iteration - 1) * Interval(x)
Due(x) == now > x.fundStart + x.iteration * Interval(x)

PaidOnce(x) ==
  [x EXCEPT !.iteration = @ + 1,
            !.status = IF x.iteration >= x.plan.iterations
                       THEN "COMPLETED" ELSE @]

claimfunds(p) ==
  LET x == proposal[p]
  IN  /\ p \in proposers
      /\ Has(p, "APPROVED")
      /\ x.iteration <= x.plan.iterations
      /\ Due(x)
      /\ 0 < Instalment(x) /\ Instalment(x) <= savings
      /\ savings' = savings - Instalment(x)
      /\ paid' = [paid EXCEPT ![p] = @ + Instalment(x)]
      /\ SetProposal(p, PaidOnce(x))

-----------------------------------------------------------------------------
(* Votes. *)
stake2vote(stake) == stake * Factor[now]

(* What the votes of v change in the total of p, when they become list     *)
(* with the given weight.                                                  *)
DeltaOf(v, list, weight, p) ==
  (IF p \in list THEN weight ELSE 0) - (IF p \in listed[v] THEN last[v] ELSE 0)

(* The proposals that are looked at: those that gain or lose votes. *)
Touched(v, list) == list \cup (IF last[v] > 0 THEN listed[v] ELSE {})

(* The slip lets the last moment count. *)
VotingOverAfter(x) == now - x.voteStart > env.voting * Day
VotingOver(x) == now - x.voteStart >= env.voting * Day
Wins(total, systemStake) == total * 100 > stake2vote(systemStake) * env.percent

(* A proposal on vote whose total changes by d.  A negative total becomes  *)
(* zero; the slip leaves it.                                               *)
AsIs(n) == n
AtLeastZero(n) == IF n < 0 THEN 0 ELSE n
NewTotal(x, total, wins) ==
  [x EXCEPT !.total = total,
            !.status = IF wins THEN "FINISHED_VOTING" ELSE @]
Counted(x, d, systemStake) ==
  LET total == AtLeastZero(x.total + d)
  IN  IF VotingOver(x) THEN Rejected(x)
      ELSE NewTotal(x, total, Wins(total, systemStake))

(* v votes for list, with the stake it has by now. *)
update_wps_votes(v, list, stake, systemStake) ==
  LET weight == stake2vote(stake)
  IN  /\ systemStake > 0
      /\ Cardinality(list) <= MaxVotes
      /\ ~isProxy[v]
      /\ proposal' = [p \in Proposers |->
           IF p \in Touched(v, list) /\ Has(p, "ON_VOTE")
           THEN Counted(proposal[p], DeltaOf(v, list, weight, p), systemStake)
           ELSE proposal[p]]
      /\ KeepCleared
      /\ voted' = voted \cup {v}
      /\ listed' = [listed EXCEPT ![v] = list]
      /\ last' = [last EXCEPT ![v] = weight]

(* Nothing asks whether the proposals exist or are on vote. *)
voteproposal(v, list) ==
  /\ update_wps_votes(v, list, staked[v], totalStake)
  /\ UNCHANGED <<registry, stakes, funds, now>>

(* The stake of v changes (changebw), and if it has ever voted here its    *)
(* votes are counted again.  The slip recounts only stakes that grow.      *)
RecountsGain(v, delta) == v \in voted /\ delta > 0
Recounts(v, delta) == v \in voted

update_voting_power(v, delta) ==
  /\ staked[v] + delta \in 0 .. MaxStake
  /\ staked' = [staked EXCEPT ![v] = @ + delta]
  /\ totalStake' = totalStake + delta
  /\ IF Recounts(v, delta)
     THEN update_wps_votes(v, listed[v], staked[v] + delta, totalStake + delta)
     ELSE UNCHANGED <<proposal, ballots, cleared>>
  /\ UNCHANGED <<registry, isProxy, funds, now>>

regproxy(v, isproxy) ==
  /\ isproxy # isProxy[v]
  /\ isProxy' = [isProxy EXCEPT ![v] = isproxy]
  /\ UNCHANGED <<registry, proposal, ballots, staked, totalStake, funds, now,
                 cleared>>

(* Any reviewer takes p from the lists of the voters of a range, S. *)
cleanvotes(r, p, S) ==
  /\ reviewerOf[r] # None
  /\ S # {} /\ S \subseteq voted
  /\ listed' = [v \in Voters |-> IF v \in S THEN listed[v] \ {p} ELSE listed[v]]
  /\ cleared' = [cleared EXCEPT ![p] = [v \in Voters |->
       IF Has(p, "ON_VOTE") /\ v \in S /\ p \in listed[v]
       THEN @[v] + last[v] ELSE @[v]]]
  /\ UNCHANGED <<registry, proposal, voted, last, stakes, funds, now>>

Tick ==
  /\ now < MaxTime
  /\ now' = now + 1
  /\ UNCHANGED <<registry, proposal, ballots, stakes, funds, cleared>>

-----------------------------------------------------------------------------
Administer ==
  \/ \E e \in Envs : setwpsenv(e)
  \/ \E total \in WpsStakes : setwpsstate(total)
  \/ \E c \in Committees :
       \/ \E isOversight \in BOOLEAN :
            regcommittee(c, isOversight) \/ edcommittee(c, isOversight)
       \/ rmvcommittee(c)
       \/ \E r \in Reviewers : regreviewer(c, r) \/ rmvreviewer(c, r)

Propose ==
  \E p \in Proposers :
    \/ regproposer(p) \/ rmvproposer(p)
    \/ \E c \in Committees, plan \in Plans :
         regproposal(p, c, plan) \/ editproposal(p, c, plan)
    \/ claimfunds(p)

Review ==
  \E p \in Proposers :
    \/ \E r \in Reviewers :
         \/ acceptprop(r, p) \/ rejectprop(r, p) \/ approve(r, p)
         \/ remove(r, p)
         \/ \E S \in SUBSET Voters : cleanvotes(r, p, S)
    \/ \E c \in Committees : rejectfund(c, p)

Vote ==
  \E v \in Voters :
    \/ \E list \in SUBSET Proposers : voteproposal(v, list)
    \/ \E delta \in Deltas : update_voting_power(v, delta)
    \/ \E isproxy \in BOOLEAN : regproxy(v, isproxy)

Next == Administer \/ Propose \/ Review \/ Vote \/ Tick

Spec == Init /\ [][Next]_vars

-----------------------------------------------------------------------------
Statuses == {"NONE", "PENDING", "REJECTED", "ON_VOTE", "FINISHED_VOTING",
             "APPROVED", "COMPLETED"}
PlanType == [committee : Committees \cup {None}, duration : Nat, goal : Nat,
             iterations : Nat \ {0}]
ProposalType == [status : Statuses, plan : PlanType, total : Nat,
                 voteStart : 0 .. MaxTime, fundStart : 0 .. MaxTime,
                 iteration : Nat \ {0}]

TypeOK ==
  /\ env \in Envs
  /\ committees \subseteq Committees /\ oversight \subseteq committees
  /\ reviewerOf \in [Reviewers -> Committees \cup {None}]
  /\ proposers \subseteq Proposers
  /\ proposal \in [Proposers -> ProposalType]
  /\ voted \subseteq Voters
  /\ listed \in [Voters -> SUBSET Proposers]
  /\ last \in [Voters -> Nat]
  /\ staked \in [Voters -> Nat]
  /\ isProxy \in [Voters -> BOOLEAN]
  /\ totalStake \in Int
  /\ savings \in Nat
  /\ now \in 0 .. MaxTime
  /\ paid \in [Proposers -> Nat]
  /\ cleared \in [Proposers -> [Voters -> Nat]]

(* The votes for p that the rows of the voters account for, together with  *)
(* those that reviewers have cleared from them meanwhile.                  *)
Recorded(p) == [v \in Voters |-> IF p \in listed[v] THEN last[v] ELSE 0]
Plus(f, g) == [v \in Voters |-> f[v] + g[v]]
Accounted(p) == Plus(Recorded(p), cleared[p])

(* No proposal has votes that no stake gave it: what is recorded with a    *)
(* voter is its stake of now, weighed at some time, however often it       *)
(* changed, and the total of a proposal on vote is at most what is         *)
(* recorded or was cleared, though votes are cast before the voting and    *)
(* outlive the proposals they were cast for.                               *)
VotesAreStakes ==
  /\ \A v \in voted : \E t \in 0 .. now : last[v] = staked[v] * Factor[t]
  /\ \A p \in Proposers :
       /\ Has(p, "ON_VOTE") => proposal[p].total <= Total(Accounted(p))
       /\ Has(p, "PENDING") => proposal[p].total = 0

(* The voting on a proposal is won only in time, and only by stakes that   *)
(* are more than the percentage of all stake, those cleared included.      *)
WonBySupport ==
  [][\A p \in Proposers :
       proposal'[p].status = "FINISHED_VOTING" /\ ~Has(p, "FINISHED_VOTING") =>
         /\ Has(p, "ON_VOTE")
         /\ now < proposal[p].voteStart + env.voting * Day
         /\ Wins(Total(Plus(Recorded(p)', cleared[p])), totalStake')]_vars

(* A proposal is paid only after it was approved, one instalment for each  *)
(* interval that has passed since, and never more than its goal.           *)
PaidOnSchedule ==
  \A p \in Proposers :
    LET x == proposal[p]
        n == x.iteration - 1
    IN  /\ ~Has(p, "NONE") => paid[p] = n * Instalment(x)
        /\ ~Has(p, "NONE") => paid[p] <= x.plan.goal
        /\ n > 0 => /\ now > x.fundStart + n * Interval(x)
                    /\ x.status \in {"APPROVED", "COMPLETED", "REJECTED"}
        /\ Has(p, "COMPLETED") => n = x.plan.iterations

(* What the comment in update_wps_votes says of totals below zero: that    *)
(* they come from rounding, so that without it a total changes by as much  *)
(* as the votes recorded for the proposal.                                 *)
NegativeByRoundingOnly ==
  [][\A p \in Proposers :
       Has(p, "ON_VOTE") /\ Has(p, "ON_VOTE")' /\ cleared' = cleared =>
         proposal'[p].total - proposal[p].total
           = Total(Recorded(p)') - Total(Recorded(p))]_vars
================================================================================
