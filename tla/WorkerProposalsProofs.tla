------------------------- MODULE WorkerProposalsProofs -------------------------
(***************************************************************************)
(* Proofs about WorkerProposals: for any voters, proposers, committees and *)
(* plans, the votes of a proposal are backed by stakes, the voting is won  *)
(* by enough of them, and proposals are paid in time and within the goal.  *)
(***************************************************************************)
EXTENDS WorkerProposals, SumLemmas

WpsInv == TypeOK /\ VotesAreStakes /\ PaidOnSchedule

(* What PaidOnSchedule says of one proposal that was paid so much by t.    *)
OnSchedule(x, amount, t) ==
  /\ x.status # "NONE" => amount = (x.iteration - 1) * Instalment(x)
  /\ x.status # "NONE" => amount <= x.plan.goal
  /\ x.iteration - 1 > 0 =>
       /\ t > x.fundStart + (x.iteration - 1) * Interval(x)
       /\ x.status \in {"APPROVED", "COMPLETED", "REJECTED"}
  /\ x.status = "COMPLETED" => x.iteration - 1 = x.plan.iterations

LEMMA ScheduleOfEach ==
  PaidOnSchedule <=>
    \A p \in Proposers : OnSchedule(proposal[p], paid[p], now)
BY DEF PaidOnSchedule, OnSchedule, Has

LEMMA ScheduleOfEachNext ==
  PaidOnSchedule' <=>
    \A p \in Proposers : OnSchedule(proposal'[p], paid'[p], now')
BY DEF PaidOnSchedule, OnSchedule, Has, Instalment, Interval

LEMMA QuotientType ==
  ASSUME NEW g \in Nat, NEW n \in Nat \ {0}
  PROVE  g \div n \in Nat /\ n * (g \div n) <= g
OBVIOUS

(* Instalments and intervals are natural, and as many instalments as were  *)
(* planned do not exceed the goal.                                         *)
LEMMA InstalmentsWithinGoal ==
  ASSUME NEW g \in Nat, NEW n \in Nat \ {0}, NEW k \in Nat, k <= n
  PROVE  g \div n \in Nat /\ k * (g \div n) <= g
<1>1. g \div n \in Nat /\ n * (g \div n) <= g
  BY QuotientType
<1> DEFINE q == g \div n
<1>2. q \in Nat
  BY <1>1
<1>3. k * q <= n * q
  <2> HIDE DEF q
  <2>1. \E d \in Nat : n = k + d
    <3>1. n - k \in Nat /\ n = k + (n - k)
      OBVIOUS
    <3> QED
      BY <3>1
  <2>2. PICK d \in Nat : n = k + d
    BY <2>1
  <2>3. n * q = k * q + d * q /\ d * q \in Nat /\ k * q \in Nat
    BY <1>2, <2>2
  <2> QED
    BY <2>3
<1>4. k * q \in Nat /\ n * q \in Nat
  BY <1>2
<1> QED
  BY <1>1, <1>3, <1>4

LEMMA PlanNumbers ==
  ASSUME WpsAssumption, NEW x \in ProposalType
  PROVE  Instalment(x) \in Nat /\ Interval(x) \in Nat
<1>1. /\ x.plan.goal \in Nat /\ x.plan.iterations \in Nat \ {0}
      /\ x.plan.duration * Day \in Nat
  BY DEF ProposalType, PlanType, WpsAssumption
<1>2. ASSUME NEW a \in Nat, NEW n \in Nat \ {0}
      PROVE  a \div n \in Nat
  BY QuotientType
<1> QED
  BY <1>1, <1>2 DEF Instalment, Interval

(* What each handler changes in a proposal.                                *)
LEMMA EditedFields ==
  ASSUME NEW x \in ProposalType, NEW plan \in PlanType
  PROVE  LET y == Edited(x, plan)
         IN  /\ y \in ProposalType /\ y.plan = plan
             /\ y.status = x.status /\ y.total = x.total /\ y.iteration = x.iteration
BY Zenon DEF ProposalType, Edited

LEMMA AcceptedFields ==
  ASSUME NEW x \in ProposalType, now \in 0 .. MaxTime
  PROVE  LET y == Accepted(x)
         IN  /\ y \in ProposalType /\ y.status = "ON_VOTE"
             /\ y.plan = x.plan /\ y.total = x.total /\ y.iteration = x.iteration
             /\ y.fundStart = x.fundStart
<1>1. "ON_VOTE" \in Statuses
  BY DEF Statuses
<1> QED
  BY <1>1, Zenon DEF ProposalType, Accepted

LEMMA RejectedFields ==
  ASSUME NEW x \in ProposalType
  PROVE  LET y == Rejected(x)
         IN  /\ y \in ProposalType /\ y.status = "REJECTED"
             /\ y.plan = x.plan /\ y.fundStart = x.fundStart /\ y.iteration = x.iteration
<1>1. "REJECTED" \in Statuses
  BY DEF Statuses
<1> QED
  BY <1>1, Zenon DEF ProposalType, Rejected

LEMMA ApprovedFields ==
  ASSUME NEW x \in ProposalType, now \in 0 .. MaxTime
  PROVE  LET y == Approved(x)
         IN  /\ y \in ProposalType /\ y.status = "APPROVED"
             /\ y.plan = x.plan /\ y.iteration = x.iteration
<1>1. "APPROVED" \in Statuses
  BY DEF Statuses
<1> QED
  BY <1>1, Zenon DEF ProposalType, Approved

LEMMA PaidOnceFields ==
  ASSUME NEW x \in ProposalType
  PROVE  LET y == PaidOnce(x)
         IN  /\ y \in ProposalType /\ y.iteration = x.iteration + 1
             /\ y.status = IF x.iteration >= x.plan.iterations
                           THEN "COMPLETED" ELSE x.status
             /\ y.plan = x.plan /\ y.fundStart = x.fundStart
<1> DEFINE n == x.iteration + 1
           status == IF x.iteration >= x.plan.iterations
                     THEN "COMPLETED" ELSE x.status
<1>1. n \in Nat \ {0} /\ status \in Statuses
  BY DEF ProposalType, Statuses
<1>2. PaidOnce(x) = [x EXCEPT !.iteration = n, !.status = status]
  BY Zenon DEF PaidOnce
<1> HIDE DEF n, status
<1>3. LET y == [x EXCEPT !.iteration = n, !.status = status]
      IN  /\ y \in ProposalType /\ y.iteration = n /\ y.status = status
          /\ y.plan = x.plan /\ y.fundStart = x.fundStart
  BY <1>1, Zenon DEF ProposalType
<1> QED
  BY <1>2, <1>3, Zenon DEF n, status

LEMMA NewTotalFields ==
  ASSUME NEW x \in ProposalType, NEW total \in Nat, NEW wins \in BOOLEAN
  PROVE  LET y == NewTotal(x, total, wins)
         IN  /\ y \in ProposalType /\ y.total = total
             /\ y.status = IF wins THEN "FINISHED_VOTING" ELSE x.status
             /\ y.plan = x.plan /\ y.fundStart = x.fundStart
             /\ y.iteration = x.iteration
<1> DEFINE status == IF wins THEN "FINISHED_VOTING" ELSE x.status
<1>1. status \in Statuses
  BY DEF ProposalType, Statuses
<1>2. NewTotal(x, total, wins) = [x EXCEPT !.total = total, !.status = status]
  BY Zenon DEF NewTotal
<1> HIDE DEF status
<1>3. LET y == [x EXCEPT !.total = total, !.status = status]
      IN  /\ y \in ProposalType /\ y.total = total /\ y.status = status
          /\ y.plan = x.plan /\ y.fundStart = x.fundStart
          /\ y.iteration = x.iteration
  BY <1>1, Zenon DEF ProposalType
<1> QED
  BY <1>2, <1>3, Zenon DEF status

(* The schedule of a proposal whose plan, start and instalments stay.      *)
LEMMA SameSchedule ==
  ASSUME NEW x, NEW y, NEW amount, NEW t, OnSchedule(x, amount, t),
         y.plan = x.plan, y.fundStart = x.fundStart, y.iteration = x.iteration,
         x.status # "NONE", y.status # "COMPLETED",
         x.iteration - 1 > 0 => y.status \in {"APPROVED", "REJECTED"}
  PROVE  OnSchedule(y, amount, t)
BY DEF OnSchedule, Instalment, Interval

(* The votes accounted for are finitely many natural numbers.              *)
LEMMA AccountedType ==
  ASSUME WpsAssumption, TypeOK, NEW p \in Proposers
  PROVE  /\ Recorded(p) \in [Voters -> Nat]
         /\ Accounted(p) \in [Voters -> Nat]
         /\ Total(Accounted(p)) \in Nat
<1>1. Recorded(p) \in [Voters -> Nat]
  BY DEF Recorded, TypeOK
<1>2. Accounted(p) \in [Voters -> Nat]
  BY <1>1 DEF Accounted, Plus, TypeOK
<1> QED
  BY <1>1, <1>2, TotalType DEF WpsAssumption

-----------------------------------------------------------------------------
(* The initial states. *)
LEMMA InitEstablishes == ASSUME WpsAssumption, Init PROVE WpsInv
<1>1. NoProposal \in ProposalType
  BY DEF NoProposal, Proposal, NoPlan, ProposalType, PlanType, Statuses,
         WpsAssumption
<1>2. TypeOK
  BY <1>1 DEF Init, TypeOK, NoVotes, WpsAssumption
<1>3. \A p \in Proposers : proposal[p].status = "NONE" /\ proposal[p].iteration = 1
  BY DEF Init, NoProposal, Proposal, NoPlan
<1>4. VotesAreStakes
  BY <1>3 DEF VotesAreStakes, Has, Init
<1>5. PaidOnSchedule
  BY <1>3, ScheduleOfEach DEF OnSchedule
<1> QED
  BY <1>2, <1>4, <1>5 DEF WpsInv

(* A step that changes no proposal, vote, stake or payment. *)
LEMMA QuietStep ==
  ASSUME WpsInv, UNCHANGED <<proposal, ballots, staked, now, paid, cleared>>
  PROVE  VotesAreStakes' /\ PaidOnSchedule'
<1>1. VotesAreStakes'
  BY DEF WpsInv, VotesAreStakes, Has, Accounted, Recorded, Plus, ballots
<1>2. PaidOnSchedule'
  BY ScheduleOfEach, ScheduleOfEachNext DEF WpsInv
<1> QED
  BY <1>1, <1>2

(* Sums of votes. *)
LEMMA PlusType ==
  ASSUME WpsAssumption, NEW f \in [Voters -> Nat], NEW g \in [Voters -> Nat]
  PROVE  Plus(f, g) \in [Voters -> Nat] /\ Total(Plus(f, g)) \in Nat
<1>1. Plus(f, g) \in [Voters -> Nat]
  BY DEF Plus
<1> QED
  BY <1>1, TotalType DEF WpsAssumption

LEMMA AccountedNextType ==
  ASSUME WpsAssumption, NEW p \in Proposers,
         last' \in [Voters -> Nat], cleared' \in [Proposers -> [Voters -> Nat]]
  PROVE  Total(Accounted(p)') \in Nat
<1>1. Recorded(p)' \in [Voters -> Nat]
  BY DEF Recorded
<1> QED
  BY <1>1, PlusType DEF Accounted, Plus

(* A step that changes one proposal, and gives it no votes if it can still *)
(* be voted on, keeps the types and the votes.                             *)
LEMMA ProposalStep ==
  ASSUME WpsAssumption, WpsInv, NEW p \in Proposers, NEW x \in ProposalType,
         SetProposal(p, x),
         x.status \in {"PENDING", "ON_VOTE"} => x.total = 0,
         paid' \in [Proposers -> Nat], savings' \in Nat
  PROVE  TypeOK' /\ VotesAreStakes'
<1>1. cleared' \in [Proposers -> [Voters -> Nat]]
  BY DEF SetProposal, KeepCleared, WpsInv, TypeOK, NoVotes
<1>2. TypeOK'
  BY <1>1 DEF SetProposal, WpsInv, TypeOK, registry, ballots, stakes
<1>3. \A v \in voted' : \E t \in 0 .. now' : last'[v] = staked'[v] * Factor[t]
  BY DEF SetProposal, WpsInv, VotesAreStakes, ballots, stakes
<1>4. ASSUME NEW q \in Proposers
      PROVE  /\ proposal'[q].status = "ON_VOTE" =>
                  proposal'[q].total <= Total(Accounted(q)')
             /\ proposal'[q].status = "PENDING" => proposal'[q].total = 0
  <2>1. Total(Accounted(q)') \in Nat
    BY <1>1, <1>2, AccountedNextType DEF TypeOK
  <2>2. CASE q = p
    <3>1. proposal'[q] = x
      BY <2>2 DEF SetProposal, WpsInv, TypeOK
    <3> QED
      BY <2>1, <3>1
  <2>3. CASE q # p
    <3>1. proposal'[q] = proposal[q]
      BY <2>3 DEF SetProposal, WpsInv, TypeOK
    <3>2. proposal'[q].status = "ON_VOTE" => cleared'[q] = cleared[q]
      BY DEF SetProposal, KeepCleared
    <3>3. proposal'[q].status = "ON_VOTE" => Accounted(q)' = Accounted(q)
      BY <3>2 DEF SetProposal, Accounted, Recorded, Plus, ballots
    <3> QED
      BY <3>1, <3>3 DEF WpsInv, VotesAreStakes, Has
  <2> QED
    BY <2>2, <2>3
<1>5. VotesAreStakes'
  BY <1>3, <1>4 DEF VotesAreStakes, Has
<1> QED
  BY <1>2, <1>5

(* Such a step keeps the schedule if the proposal it changes keeps it.     *)
LEMMA ScheduleStep ==
  ASSUME WpsInv, NEW p \in Proposers, NEW x, NEW amount \in Nat,
         SetProposal(p, x), paid' = [paid EXCEPT ![p] = amount],
         OnSchedule(x, amount, now)
  PROVE  PaidOnSchedule'
<1>1. ASSUME NEW q \in Proposers
      PROVE  OnSchedule(proposal'[q], paid'[q], now')
  <2>1. now' = now
    BY DEF SetProposal
  <2>2. CASE q = p
    BY <2>1, <2>2 DEF SetProposal, WpsInv, TypeOK
  <2>3. CASE q # p
    <3>1. proposal'[q] = proposal[q] /\ paid'[q] = paid[q]
      BY <2>3 DEF SetProposal, WpsInv, TypeOK
    <3> QED
      BY <2>1, <3>1, ScheduleOfEach DEF WpsInv
  <2> QED
    BY <2>2, <2>3
<1> QED
  BY <1>1, ScheduleOfEachNext

-----------------------------------------------------------------------------
(* The actions, one by one.  First those that leave proposals and votes    *)
(* alone.                                                                  *)
LEMMA AdministerKeeps ==
  ASSUME WpsAssumption, WpsInv, Administer PROVE WpsInv'
<1>1. UNCHANGED <<proposal, ballots, staked, now, paid, cleared>>
  BY DEF Administer, setwpsenv, setwpsstate, regcommittee, edcommittee,
         rmvcommittee, regreviewer, rmvreviewer, SetReviewer, stakes, funds
<1>2. TypeOK'
  <2>1. UNCHANGED <<proposers, voted, listed, last, isProxy, savings>>
    BY <1>1 DEF Administer, setwpsenv, setwpsstate, regcommittee, edcommittee,
         rmvcommittee, regreviewer, rmvreviewer, SetReviewer, stakes, funds,
         ballots, registry
  <2> DEFINE Rest == /\ env' \in Envs /\ totalStake' \in Int
                     /\ committees' \subseteq Committees
                     /\ oversight' \subseteq committees'
                     /\ reviewerOf' \in [Reviewers -> Committees \cup {None}]
  <2>2. ASSUME NEW e \in Envs, setwpsenv(e) PROVE Rest
    BY <2>2 DEF setwpsenv, stakes, WpsInv, TypeOK
  <2>3. ASSUME NEW total \in WpsStakes, setwpsstate(total) PROVE Rest
    BY <2>3 DEF setwpsstate, registry, WpsInv, TypeOK, WpsAssumption
  <2>4. ASSUME NEW c \in Committees, NEW isOversight \in BOOLEAN,
               regcommittee(c, isOversight) \/ edcommittee(c, isOversight)
        PROVE  Rest
    BY <2>4 DEF regcommittee, edcommittee, SetOversight, stakes, WpsInv, TypeOK
  <2>5. ASSUME NEW c \in Committees, rmvcommittee(c) PROVE Rest
    BY <2>5 DEF rmvcommittee, stakes, WpsInv, TypeOK
  <2>6. ASSUME NEW c \in Committees, NEW r \in Reviewers,
               regreviewer(c, r) \/ rmvreviewer(c, r)
        PROVE  Rest
    BY <2>6 DEF regreviewer, rmvreviewer, SetReviewer, stakes, WpsInv, TypeOK
  <2>7. Rest
    BY <2>2, <2>3, <2>4, <2>5, <2>6 DEF Administer
  <2> QED
    BY <1>1, <2>1, <2>7 DEF WpsInv, TypeOK
<1> QED
  BY <1>1, <1>2, QuietStep DEF WpsInv

LEMMA ProposersKeep ==
  ASSUME WpsInv, NEW S \in SUBSET Proposers, SetProposers(S) PROVE WpsInv'
<1>1. UNCHANGED <<proposal, ballots, staked, now, paid, cleared>>
  BY DEF SetProposers, stakes, funds
<1>2. TypeOK'
  BY DEF SetProposers, WpsInv, TypeOK, ballots, stakes, funds
<1> QED
  BY <1>1, <1>2, QuietStep DEF WpsInv

LEMMA RegproxyKeeps ==
  ASSUME WpsInv, NEW v \in Voters, NEW isproxy \in BOOLEAN, regproxy(v, isproxy)
  PROVE  WpsInv'
<1>1. UNCHANGED <<proposal, ballots, staked, now, paid, cleared>>
  BY DEF regproxy, funds
<1>2. TypeOK'
  BY DEF regproxy, WpsInv, TypeOK, ballots, funds, registry
<1> QED
  BY <1>1, <1>2, QuietStep DEF WpsInv

(* A proposal that is new, or not approved yet, was paid nothing.          *)
LEMMA PlanIsTyped ==
  ASSUME WpsAssumption, NEW c, NEW plan \in Plans, NEW m \in Nat, NEW n \in Nat \ {0},
         TypeOK, ValidPlan(c, plan, m, n)
  PROVE  Plan(c, plan) \in PlanType
BY DEF WpsAssumption, ValidPlan, Plan, PlanType, TypeOK

LEMMA RegproposalKeeps ==
  ASSUME WpsAssumption, WpsInv, NEW p \in Proposers, NEW c \in Committees,
         NEW plan \in Plans, regproposal(p, c, plan)
  PROVE  WpsInv'
<1> DEFINE x == NewProposal(Plan(c, plan))
<1>1. x \in ProposalType
  <2>1. Plan(c, plan) \in PlanType
    BY PlanIsTyped DEF WpsInv, regproposal, WpsAssumption
  <2> QED
    BY <2>1 DEF NewProposal, Proposal, ProposalType, Statuses, WpsAssumption
<1>2. x.status = "PENDING" /\ x.total = 0 /\ x.iteration = 1 /\ x.plan.goal \in Nat
  BY <1>1 DEF NewProposal, Proposal, ProposalType, PlanType
<1>3. SetProposal(p, x) /\ paid' = [paid EXCEPT ![p] = 0] /\ savings' = savings
  BY DEF regproposal
<1>4. TypeOK' /\ VotesAreStakes'
  BY <1>1, <1>2, <1>3, ProposalStep DEF WpsInv, TypeOK
<1>5. OnSchedule(x, 0, now)
  <2>1. Instalment(x) \in Nat
    BY <1>1, PlanNumbers
  <2> QED
    BY <1>2, <2>1 DEF OnSchedule
<1>6. PaidOnSchedule'
  BY <1>3, <1>5, ScheduleStep
<1> QED
  BY <1>4, <1>6 DEF WpsInv

LEMMA EditproposalKeeps ==
  ASSUME WpsAssumption, WpsInv, NEW p \in Proposers, NEW c \in Committees,
         NEW plan \in Plans, editproposal(p, c, plan)
  PROVE  WpsInv'
<1> DEFINE x == Edited(proposal[p], Plan(c, plan))
<1>1. proposal[p] \in ProposalType /\ proposal[p].status = "PENDING"
  BY DEF editproposal, Has, WpsInv, TypeOK
<1>2. Plan(c, plan) \in PlanType
  BY PlanIsTyped DEF WpsInv, editproposal, WpsAssumption
<1>3. /\ x \in ProposalType /\ x.status = "PENDING" /\ x.plan = Plan(c, plan)
      /\ x.total = proposal[p].total /\ x.iteration = proposal[p].iteration
  BY <1>1, <1>2, EditedFields
<1>4. SetProposal(p, x) /\ paid' = paid /\ savings' = savings
  BY DEF editproposal, funds
<1>5. proposal[p].total = 0
  BY <1>1 DEF WpsInv, VotesAreStakes, Has
<1>6. TypeOK' /\ VotesAreStakes'
  BY <1>3, <1>4, <1>5, ProposalStep DEF WpsInv, TypeOK
<1>7. OnSchedule(x, paid[p], now)
  <2>1. Instalment(x) \in Nat /\ Instalment(proposal[p]) \in Nat
    BY <1>1, <1>3, PlanNumbers
  <2>2. OnSchedule(proposal[p], paid[p], now)
    BY ScheduleOfEach DEF WpsInv
  <2>3. proposal[p].iteration = 1
    <3>1. proposal[p].iteration \in Nat \ {0}
      BY <1>1 DEF ProposalType
    <3>2. ~(proposal[p].iteration - 1 > 0)
      BY <1>1, <2>2 DEF OnSchedule
    <3>3. ASSUME NEW i \in Nat \ {0}, ~(i - 1 > 0)
          PROVE  i = 1
      BY <3>3
    <3> QED
      BY <3>1, <3>2, <3>3, Zenon
  <2>4. paid[p] = 0
    BY <1>1, <2>1, <2>2, <2>3 DEF OnSchedule
  <2>5. x.plan.goal \in Nat
    BY <1>2, <1>3 DEF PlanType
  <2> QED
    BY <1>3, <2>1, <2>3, <2>4, <2>5 DEF OnSchedule
<1>8. PaidOnSchedule'
  <2>1. paid' = [paid EXCEPT ![p] = paid[p]] /\ paid[p] \in Nat
    BY <1>4 DEF WpsInv, TypeOK
  <2> QED
    BY <1>4, <1>7, <2>1, ScheduleStep
<1> QED
  BY <1>6, <1>8 DEF WpsInv

(* The last step is the same for each action that pays nothing.            *)
LEMMA UnpaidStep ==
  ASSUME WpsAssumption, WpsInv, NEW p \in Proposers, NEW x \in ProposalType,
         SetProposal(p, x), UNCHANGED funds,
         x.status \in {"PENDING", "ON_VOTE"} => x.total = 0,
         OnSchedule(x, paid[p], now)
  PROVE  WpsInv'
<1>1. paid' = paid /\ savings' = savings
  BY DEF funds
<1>2. TypeOK' /\ VotesAreStakes'
  BY <1>1, ProposalStep DEF WpsInv, TypeOK
<1>3. paid' = [paid EXCEPT ![p] = paid[p]] /\ paid[p] \in Nat
  BY <1>1 DEF WpsInv, TypeOK
<1>4. PaidOnSchedule'
  BY <1>3, ScheduleStep
<1> QED
  BY <1>2, <1>4 DEF WpsInv

LEMMA AcceptpropKeeps ==
  ASSUME WpsAssumption, WpsInv, NEW p \in Proposers, NEW r \in Reviewers,
         acceptprop(r, p)
  PROVE  WpsInv'
<1> DEFINE x == proposal[p]
           y == Accepted(x)
<1>1. x \in ProposalType /\ x.status = "PENDING" /\ now \in 0 .. MaxTime
  BY DEF acceptprop, Has, WpsInv, TypeOK
<1>2. SetProposal(p, y) /\ UNCHANGED funds
  BY DEF acceptprop
<1>3. /\ y \in ProposalType /\ y.status = "ON_VOTE" /\ y.plan = x.plan
      /\ y.total = x.total /\ y.fundStart = x.fundStart
      /\ y.iteration = x.iteration
  BY <1>1, AcceptedFields
<1>4. x.total = 0 /\ OnSchedule(x, paid[p], now)
  BY <1>1, ScheduleOfEach DEF WpsInv, VotesAreStakes, Has
<1>5. ~(x.iteration - 1 > 0)
  BY <1>1, <1>4 DEF OnSchedule
<1>6. OnSchedule(y, paid[p], now)
  BY <1>1, <1>3, <1>4, <1>5, SameSchedule
<1> QED
  BY <1>2, <1>3, <1>4, <1>6, UnpaidStep

(* rejectprop and rejectfund. *)
LEMMA RejectionKeeps ==
  ASSUME WpsAssumption, WpsInv, NEW p \in Proposers,
         proposal[p].status \in {"PENDING", "ON_VOTE", "FINISHED_VOTING", "APPROVED"},
         SetProposal(p, Rejected(proposal[p])), UNCHANGED funds
  PROVE  WpsInv'
<1> DEFINE x == proposal[p]
           y == Rejected(x)
<1>1. x \in ProposalType /\ x.status # "NONE"
  BY DEF WpsInv, TypeOK
<1>2. /\ y \in ProposalType /\ y.status = "REJECTED" /\ y.plan = x.plan
      /\ y.fundStart = x.fundStart /\ y.iteration = x.iteration
  BY <1>1, RejectedFields
<1>3. SetProposal(p, y)
  OBVIOUS
<1>4. OnSchedule(x, paid[p], now)
  BY ScheduleOfEach DEF WpsInv
<1>5. OnSchedule(y, paid[p], now)
  BY <1>1, <1>2, <1>4, SameSchedule
<1> QED
  BY <1>2, <1>3, <1>5, UnpaidStep

LEMMA ApproveKeeps ==
  ASSUME WpsAssumption, WpsInv, NEW p \in Proposers, NEW r \in Reviewers,
         approve(r, p)
  PROVE  WpsInv'
<1> DEFINE x == proposal[p]
           y == Approved(x)
<1>1. x \in ProposalType /\ x.status = "FINISHED_VOTING" /\ now \in 0 .. MaxTime
  BY DEF approve, Has, WpsInv, TypeOK
<1>2. SetProposal(p, y) /\ UNCHANGED funds
  BY DEF approve
<1>3. /\ y \in ProposalType /\ y.status = "APPROVED" /\ y.plan = x.plan
      /\ y.iteration = x.iteration
  BY <1>1, ApprovedFields
<1>4. OnSchedule(x, paid[p], now)
  BY ScheduleOfEach DEF WpsInv
<1>5. ~(x.iteration - 1 > 0)
  BY <1>1, <1>4 DEF OnSchedule
<1>6. OnSchedule(y, paid[p], now)
  BY <1>1, <1>3, <1>4, <1>5 DEF OnSchedule, Instalment
<1> QED
  BY <1>2, <1>3, <1>6, UnpaidStep

LEMMA RemoveKeeps ==
  ASSUME WpsAssumption, WpsInv, NEW p \in Proposers, NEW r \in Reviewers,
         remove(r, p)
  PROVE  WpsInv'
<1>1. /\ NoProposal \in ProposalType /\ NoProposal.status = "NONE"
      /\ NoProposal.iteration = 1
  BY DEF NoProposal, Proposal, NoPlan, ProposalType, PlanType, Statuses,
         WpsAssumption
<1>2. OnSchedule(NoProposal, paid[p], now)
  BY <1>1 DEF OnSchedule
<1> QED
  BY <1>1, <1>2, UnpaidStep DEF remove

(* The number of instalments paid is less than planned whenever another is *)
(* due, so that all of them together are within the goal.                  *)
LEMMA ClaimfundsKeeps ==
  ASSUME WpsAssumption, WpsInv, NEW p \in Proposers, claimfunds(p)
  PROVE  WpsInv'
<1> DEFINE x == proposal[p]
           status == IF x.iteration >= x.plan.iterations
                     THEN "COMPLETED" ELSE x.status
           n == x.iteration + 1
           y == PaidOnce(x)
           amount == paid[p] + Instalment(x)
<1>1. /\ x \in ProposalType /\ x.status = "APPROVED" /\ paid[p] \in Nat
      /\ x.iteration \in Nat \ {0} /\ x.plan.iterations \in Nat \ {0}
      /\ x.plan.goal \in Nat /\ now \in Nat
  <2>1. x \in ProposalType /\ x.status = "APPROVED" /\ paid[p] \in Nat
    BY DEF claimfunds, Has, WpsInv, TypeOK
  <2>2. now \in 0 .. MaxTime /\ MaxTime \in Nat
    BY DEF WpsInv, TypeOK, WpsAssumption
  <2>3. /\ x.iteration \in Nat \ {0} /\ x.plan.iterations \in Nat \ {0}
        /\ x.plan.goal \in Nat
    BY <2>1 DEF ProposalType, PlanType
  <2> QED
    BY <2>1, <2>2, <2>3
<1>2. /\ SetProposal(p, y) /\ paid' = [paid EXCEPT ![p] = amount]
      /\ savings' = savings - Instalment(x)
      /\ Instalment(x) <= savings /\ 0 < Instalment(x)
      /\ x.iteration <= x.plan.iterations /\ Due(x)
  BY DEF claimfunds
<1>4. /\ y \in ProposalType /\ y.status = status /\ y.plan = x.plan
      /\ y.fundStart = x.fundStart /\ y.iteration = n
  BY <1>1, PaidOnceFields
<1>5. Instalment(x) \in Nat /\ Interval(x) \in Nat
  BY <1>1, PlanNumbers
<1>6. OnSchedule(x, paid[p], now)
  BY ScheduleOfEach DEF WpsInv
<1>7. amount \in Nat /\ savings' \in Nat
  <2>1. paid[p] \in Nat /\ savings \in Nat
    BY DEF WpsInv, TypeOK
  <2>2. ASSUME NEW a \in Nat, NEW b \in Nat, NEW i \in Nat, i <= b
        PROVE  a + i \in Nat /\ b - i \in Nat
    BY <2>2
  <2> HIDE DEF x
  <2> QED
    BY <1>2, <1>5, <2>1, <2>2, Zenon
<1>8. amount = x.iteration * Instalment(x)
  <2>1. paid[p] = (x.iteration - 1) * Instalment(x)
    BY <1>1, <1>6 DEF OnSchedule
  <2>2. \A k \in Nat \ {0}, i \in Nat : (k - 1) * i + i = k * i
    OBVIOUS
  <2> QED
    BY <1>1, <1>5, <2>1, <2>2
<1>9. amount <= x.plan.goal
  <2> DEFINE g == x.plan.goal
             m == x.plan.iterations
             k == x.iteration
  <2>1. g \in Nat /\ m \in Nat \ {0} /\ k \in Nat /\ k <= m
    BY <1>1, <1>2
  <2>2. k * (g \div m) <= g
    BY <2>1, InstalmentsWithinGoal
  <2> QED
    BY <1>8, <2>2 DEF Instalment
<1>10. OnSchedule(y, amount, now)
  <2>1. y.iteration - 1 = x.iteration /\ y.status \in {"APPROVED", "COMPLETED"}
    BY <1>1, <1>4
  <2>2. Instalment(y) = Instalment(x) /\ Interval(y) = Interval(x)
    BY <1>4 DEF Instalment, Interval
  <2>3. now > y.fundStart + (y.iteration - 1) * Interval(y)
    BY <1>2, <1>4, <2>1, <2>2 DEF Due
  <2>4. y.status = "COMPLETED" => y.iteration - 1 = y.plan.iterations
    BY <1>1, <1>2, <1>4, <2>1
  <2> QED
    BY <1>4, <1>8, <1>9, <2>1, <2>2, <2>3, <2>4 DEF OnSchedule
<1>11. PaidOnSchedule'
  BY <1>2, <1>7, <1>10, ScheduleStep
<1>12. paid' \in [Proposers -> Nat]
  BY <1>2, <1>7 DEF WpsInv, TypeOK
<1>13. TypeOK' /\ VotesAreStakes'
  BY <1>1, <1>2, <1>4, <1>7, <1>12, ProposalStep
<1> QED
  BY <1>11, <1>13 DEF WpsInv

-----------------------------------------------------------------------------
(* Votes.  First what a vote does to the sum of those recorded.            *)
LEMMA OneVoteChanges ==
  ASSUME IsFiniteSet(Voters), NEW g \in [Voters -> Nat], NEW v \in Voters,
         NEW m \in Nat
  PROVE  Total([g EXCEPT ![v] = m]) = Total(g) - g[v] + m
BY TotalUpdate, Zenon

LEMMA RecordedChange ==
  ASSUME WpsAssumption, TypeOK, NEW v \in Voters, NEW list \in SUBSET Proposers,
         NEW weight \in Nat, NEW p \in Proposers,
         listed' = [listed EXCEPT ![v] = list], last' = [last EXCEPT ![v] = weight]
  PROVE  /\ DeltaOf(v, list, weight, p) \in Int
         /\ Total(Plus(Recorded(p)', cleared[p])) \in Nat
         /\ Total(Plus(Recorded(p)', cleared[p]))
              = Total(Accounted(p)) + DeltaOf(v, list, weight, p)
<1> DEFINE f == Accounted(p)
           before == IF p \in listed[v] THEN last[v] ELSE 0
           after == IF p \in list THEN weight ELSE 0
           n == after + cleared[p][v]
<1>1. f \in [Voters -> Nat] /\ Total(f) \in Nat
  BY AccountedType
<1>2. before \in Nat /\ after \in Nat /\ cleared[p] \in [Voters -> Nat]
  BY DEF TypeOK
<1>3. n \in Nat
  BY <1>2
<1>4. Plus(Recorded(p)', cleared[p]) = [f EXCEPT ![v] = n]
  BY DEF Accounted, Plus, Recorded, TypeOK
<1>5. f[v] = before + cleared[p][v]
  BY DEF Accounted, Plus, Recorded
<1>6. DeltaOf(v, list, weight, p) = after - before
  BY DEF DeltaOf
<1> HIDE DEF f, before, after, n
<1>7. Total([f EXCEPT ![v] = n]) = Total(f) - f[v] + n
  <2>1. IsFiniteSet(Voters)
    BY DEF WpsAssumption
  <2>2. f \in [Voters -> Nat] /\ n \in Nat
    BY <1>1, <1>3
  <2> QED
    BY <2>1, <2>2, OneVoteChanges, Zenon
<1>8. [f EXCEPT ![v] = n] \in [Voters -> Nat]
  BY <1>1, <1>3
<1>9. Total([f EXCEPT ![v] = n]) \in Nat
  BY <1>8, TotalType DEF WpsAssumption
<1>10. n = after + cleared[p][v] /\ cleared[p][v] \in Nat
  BY <1>2 DEF n
<1>11. Total([f EXCEPT ![v] = n]) = Total(f) + (after - before)
  <2>1. Total(f) \in Nat /\ before \in Nat /\ after \in Nat
    BY <1>1, <1>2 DEF before, after
  <2>3. Total([f EXCEPT ![v] = n])
          = Total(f) - (before + cleared[p][v]) + (after + cleared[p][v])
    BY <1>5, <1>7, <1>10
  <2> DEFINE t == Total(f)
             c == cleared[p][v]
  <2>4. t \in Nat /\ c \in Nat
    BY <2>1, <1>10
  <2>5. Total([f EXCEPT ![v] = n]) = t - (before + c) + (after + c)
    BY <2>3
  <2> HIDE DEF t, c
  <2>6. t - (before + c) + (after + c) = t + (after - before)
    BY <2>1, <2>4
  <2> QED
    BY <2>5, <2>6, Zenon DEF t
<1> QED
  BY <1>2, <1>4, <1>6, <1>9, <1>11 DEF f

(* What counting does to a proposal on vote.                               *)
LEMMA CountedFields ==
  ASSUME NEW x \in ProposalType, x.status = "ON_VOTE",
         NEW d \in Int, NEW systemStake
  PROVE  LET y == Counted(x, d, systemStake)
         IN  /\ y \in ProposalType
             /\ y.plan = x.plan /\ y.fundStart = x.fundStart
             /\ y.iteration = x.iteration
             /\ \/ y.status = "REJECTED"
                \/ /\ y.total = AtLeastZero(x.total + d) /\ ~VotingOver(x)
                   /\ \/ y.status = "ON_VOTE"
                      \/ y.status = "FINISHED_VOTING" /\ Wins(y.total, systemStake)
<1> DEFINE total == AtLeastZero(x.total + d)
           wins == Wins(total, systemStake)
<1>1. total \in Nat
  BY DEF AtLeastZero, ProposalType
<1>2. CASE VotingOver(x)
  BY <1>2, RejectedFields DEF Counted
<1>3. CASE ~VotingOver(x)
  <2>1. Counted(x, d, systemStake) = NewTotal(x, total, wins)
    BY <1>3, Zenon DEF Counted
  <2>2. wins \in BOOLEAN
    BY DEF Wins
  <2> HIDE DEF total, wins
  <2>3. /\ NewTotal(x, total, wins) \in ProposalType
        /\ NewTotal(x, total, wins).total = total
        /\ NewTotal(x, total, wins).status =
             IF wins THEN "FINISHED_VOTING" ELSE x.status
        /\ NewTotal(x, total, wins).plan = x.plan
        /\ NewTotal(x, total, wins).fundStart = x.fundStart
        /\ NewTotal(x, total, wins).iteration = x.iteration
    BY <1>1, <2>2, NewTotalFields
  <2>4. wins = Wins(total, systemStake) /\ total = AtLeastZero(x.total + d)
    BY Zenon DEF total, wins
  <2>5. CASE wins
    <3>1. Wins(total, systemStake)
      BY <2>4, <2>5, Zenon
    <3> QED
      BY <1>3, <2>1, <2>3, <2>4, <2>5, <3>1
  <2>6. CASE ~wins
    BY <1>3, <2>1, <2>3, <2>4, <2>6
  <2> QED
    BY <2>5, <2>6
<1> QED
  BY <1>2, <1>3

(* What a vote does to each proposal: nothing, or it is counted, and then  *)
(* it has at most the votes that are accounted for.                        *)
CountedRight(p, systemStake) ==
  /\ proposal[p].status = "ON_VOTE"
  /\ proposal'[p] \in ProposalType
  /\ proposal'[p].plan = proposal[p].plan
  /\ proposal'[p].fundStart = proposal[p].fundStart
  /\ proposal'[p].iteration = proposal[p].iteration
  /\ \/ proposal'[p].status = "REJECTED"
     \/ /\ proposal'[p].total <= Total(Plus(Recorded(p)', cleared[p]))
        /\ ~VotingOver(proposal[p])
        /\ \/ proposal'[p].status = "ON_VOTE"
           \/ /\ proposal'[p].status = "FINISHED_VOTING"
              /\ Wins(proposal'[p].total, systemStake)

LEMMA VoteEffect ==
  ASSUME WpsAssumption, WpsInv, NEW v \in Voters, NEW list \in SUBSET Proposers,
         NEW stake \in Nat, NEW systemStake,
         update_wps_votes(v, list, stake, systemStake), NEW p \in Proposers
  PROVE  \/ /\ proposal'[p] = proposal[p]
            /\ Has(p, "ON_VOTE") =>
                 proposal[p].total <= Total(Plus(Recorded(p)', cleared[p]))
         \/ CountedRight(p, systemStake)
<1> DEFINE weight == stake2vote(stake)
           x == proposal[p]
           d == DeltaOf(v, list, weight, p)
           sum == Total(Plus(Recorded(p)', cleared[p]))
<1>1. weight \in Nat
  BY DEF stake2vote, WpsInv, TypeOK, WpsAssumption
<1>2. /\ listed' = [listed EXCEPT ![v] = list]
      /\ last' = [last EXCEPT ![v] = weight]
      /\ proposal'[p] = IF p \in Touched(v, list) /\ Has(p, "ON_VOTE")
                        THEN Counted(x, d, systemStake) ELSE x
  BY DEF update_wps_votes
<1>3. x \in ProposalType /\ x.total \in Nat
  BY DEF WpsInv, TypeOK, ProposalType
<1> HIDE DEF weight
<1>4. d \in Int /\ sum \in Nat /\ sum = Total(Accounted(p)) + d
  BY <1>1, <1>2, RecordedChange DEF WpsInv
<1>5. Has(p, "ON_VOTE") => x.total <= Total(Accounted(p))
  BY DEF WpsInv, VotesAreStakes
<1>6. Total(Accounted(p)) \in Nat
  BY AccountedType DEF WpsInv
<1>7. CASE p \in Touched(v, list) /\ Has(p, "ON_VOTE")
  <2> DEFINE y == Counted(x, d, systemStake)
  <2>1. proposal'[p] = y /\ x.status = "ON_VOTE"
    BY <1>2, <1>7 DEF Has
  <2>2. /\ y \in ProposalType
        /\ y.plan = x.plan /\ y.fundStart = x.fundStart
        /\ y.iteration = x.iteration
        /\ \/ y.status = "REJECTED"
           \/ /\ y.total = AtLeastZero(x.total + d) /\ ~VotingOver(x)
              /\ \/ y.status = "ON_VOTE"
                 \/ y.status = "FINISHED_VOTING" /\ Wins(y.total, systemStake)
    BY <1>3, <1>4, <2>1, CountedFields
  <2>3. AtLeastZero(x.total + d) <= sum
    BY <1>3, <1>4, <1>5, <1>6, <1>7 DEF AtLeastZero
  <2> HIDE DEF y, sum, d
  <2>4. \/ y.status = "REJECTED"
        \/ /\ y.total <= sum /\ ~VotingOver(x)
           /\ \/ y.status = "ON_VOTE"
              \/ y.status = "FINISHED_VOTING" /\ Wins(y.total, systemStake)
    BY <2>2, <2>3
  <2> QED
    BY <2>1, <2>2, <2>4 DEF CountedRight, sum
<1>8. CASE ~(p \in Touched(v, list) /\ Has(p, "ON_VOTE"))
  <2>1. proposal'[p] = x
    BY <1>2, <1>8
  <2>2. ASSUME Has(p, "ON_VOTE") PROVE x.total <= sum
    <3>1. p \notin list /\ (p \in listed[v] => last[v] = 0)
      BY <1>8, <2>2 DEF Touched, WpsInv, TypeOK
    <3>2. d = 0
      BY <3>1 DEF DeltaOf
    <3> QED
      BY <1>3, <1>4, <1>5, <1>6, <2>2, <3>2
  <2> QED
    BY <2>1, <2>2
<1> QED
  BY <1>7, <1>8

(* What is accounted for, when nothing of p is cleared from the records.   *)
LEMMA AccountedAfterVote ==
  ASSUME NEW p \in Proposers, KeepCleared, proposal'[p].status = "ON_VOTE"
  PROVE  Accounted(p)' = Plus(Recorded(p)', cleared[p])
<1>1. cleared'[p] = cleared[p]
  BY DEF KeepCleared
<1> QED
  BY <1>1 DEF Accounted, Plus

(* A vote with the stake that the voter has afterwards. *)
LEMMA VoteStep ==
  ASSUME WpsAssumption, WpsInv, NEW v \in Voters, NEW list \in SUBSET Proposers,
         NEW stake \in Nat, NEW systemStake,
         update_wps_votes(v, list, stake, systemStake),
         staked' = [staked EXCEPT ![v] = stake], totalStake' \in Int,
         UNCHANGED <<registry, isProxy, funds, now>>
  PROVE  WpsInv'
<1>1. /\ voted' = voted \cup {v}
      /\ listed' = [listed EXCEPT ![v] = list]
      /\ last' = [last EXCEPT ![v] = stake2vote(stake)]
      /\ KeepCleared
  BY DEF update_wps_votes
<1>2. stake2vote(stake) = stake * Factor[now] /\ stake2vote(stake) \in Nat
  BY DEF stake2vote, WpsInv, TypeOK, WpsAssumption
<1>3. ASSUME NEW p \in Proposers
      PROVE  \/ /\ proposal'[p] = proposal[p]
                /\ Has(p, "ON_VOTE") =>
                     proposal[p].total <= Total(Plus(Recorded(p)', cleared[p]))
             \/ CountedRight(p, systemStake)
  BY VoteEffect
<1>4. proposal' \in [Proposers -> ProposalType]
  <2>1. \A p \in Proposers : proposal'[p] \in ProposalType
    BY <1>3 DEF CountedRight, WpsInv, TypeOK
  <2>2. proposal' = [p \in Proposers |-> proposal'[p]]
    BY DEF update_wps_votes
  <2> QED
    BY <2>1, <2>2, Zenon
<1>5. cleared' \in [Proposers -> [Voters -> Nat]]
  BY <1>1 DEF KeepCleared, NoVotes, WpsInv, TypeOK
<1>6. TypeOK'
  <2>1. /\ voted' \subseteq Voters
        /\ listed' \in [Voters -> SUBSET Proposers]
        /\ last' \in [Voters -> Nat]
        /\ staked' \in [Voters -> Nat]
    BY <1>1, <1>2 DEF WpsInv, TypeOK
  <2> QED
    BY <1>4, <1>5, <2>1 DEF WpsInv, TypeOK, registry, funds
<1>7. ASSUME NEW w \in voted'
      PROVE  \E t \in 0 .. now' : last'[w] = staked'[w] * Factor[t]
  <2>1. CASE w = v
    <3>1. last'[w] = staked'[w] * Factor[now] /\ now \in 0 .. now'
      BY <1>1, <1>2, <2>1 DEF WpsInv, TypeOK
    <3> QED
      BY <3>1
  <2>2. CASE w # v
    <3>1. w \in voted /\ last'[w] = last[w] /\ staked'[w] = staked[w]
      BY <1>1, <1>7, <2>2 DEF WpsInv, TypeOK
    <3> QED
      BY <3>1 DEF WpsInv, VotesAreStakes
  <2> QED
    BY <2>1, <2>2
<1>8. ASSUME NEW p \in Proposers
      PROVE  /\ Has(p, "ON_VOTE")' =>
                  proposal'[p].total <= Total(Accounted(p)')
             /\ Has(p, "PENDING")' => proposal'[p].total = 0
  <2>1. Has(p, "ON_VOTE")' => Accounted(p)' = Plus(Recorded(p)', cleared[p])
    BY <1>1, AccountedAfterVote DEF Has
  <2>2. CASE /\ proposal'[p] = proposal[p]
             /\ Has(p, "ON_VOTE") =>
                  proposal[p].total <= Total(Plus(Recorded(p)', cleared[p]))
    BY <2>1, <2>2 DEF Has, WpsInv, VotesAreStakes
  <2>3. CASE CountedRight(p, systemStake)
    BY <2>1, <2>3 DEF Has, CountedRight
  <2> QED
    BY <1>3, <2>2, <2>3
<1>9. VotesAreStakes'
  BY <1>7, <1>8 DEF VotesAreStakes, Has
<1>10. ASSUME NEW p \in Proposers
       PROVE  OnSchedule(proposal'[p], paid'[p], now')
  <2>1. OnSchedule(proposal[p], paid[p], now) /\ paid' = paid /\ now' = now
    BY ScheduleOfEach DEF WpsInv, funds
  <2>2. CASE proposal'[p] = proposal[p]
    BY <2>1, <2>2
  <2>3. CASE CountedRight(p, systemStake)
    <3>1. ~(proposal[p].iteration - 1 > 0)
      BY <2>1, <2>3 DEF OnSchedule, CountedRight
    <3> QED
      BY <2>1, <2>3, <3>1, SameSchedule DEF CountedRight
  <2> QED
    BY <1>3, <2>2, <2>3
<1>11. PaidOnSchedule'
  BY <1>10, ScheduleOfEachNext
<1> QED
  BY <1>6, <1>9, <1>11 DEF WpsInv

LEMMA VoteproposalKeeps ==
  ASSUME WpsAssumption, WpsInv, NEW v \in Voters, NEW list \in SUBSET Proposers,
         voteproposal(v, list)
  PROVE  WpsInv'
<1>1. update_wps_votes(v, list, staked[v], totalStake)
  BY DEF voteproposal
<1>2. staked[v] \in Nat /\ staked' = [staked EXCEPT ![v] = staked[v]]
  BY DEF voteproposal, stakes, WpsInv, TypeOK
<1>3. totalStake' \in Int /\ UNCHANGED <<registry, isProxy, funds, now>>
  BY DEF voteproposal, stakes, WpsInv, TypeOK
<1> QED
  BY <1>1, <1>2, <1>3, VoteStep

LEMMA UpdateVotingPowerKeeps ==
  ASSUME WpsAssumption, WpsInv, NEW v \in Voters, NEW delta \in Deltas,
         update_voting_power(v, delta)
  PROVE  WpsInv'
<1> DEFINE stake == staked[v] + delta
<1>1. /\ stake \in Nat /\ staked' = [staked EXCEPT ![v] = stake]
      /\ totalStake' \in Int
      /\ UNCHANGED <<registry, isProxy, funds, now>>
  BY DEF update_voting_power, WpsInv, TypeOK, WpsAssumption
<1>2. CASE v \in voted
  <2>1. update_wps_votes(v, listed[v], stake, totalStake + delta)
    BY <1>2 DEF update_voting_power, Recounts
  <2>2. listed[v] \in SUBSET Proposers
    BY DEF WpsInv, TypeOK
  <2> HIDE DEF stake
  <2> QED
    BY <1>1, <2>1, <2>2, VoteStep
<1>3. CASE v \notin voted
  <2>1. UNCHANGED <<proposal, ballots, cleared>>
    BY <1>3 DEF update_voting_power, Recounts
  <2>2. TypeOK'
    BY <1>1, <2>1 DEF WpsInv, TypeOK, registry, ballots, funds
  <2>3. \A w \in voted : staked'[w] = staked[w]
    BY <1>1, <1>3 DEF WpsInv, TypeOK
  <2>4. VotesAreStakes'
    <3>1. \A q \in Proposers : Accounted(q)' = Accounted(q)
      BY <2>1, Zenon DEF Accounted, Recorded, Plus, ballots
    <3>2. last' = last /\ proposal' = proposal /\ voted' = voted /\ now' = now
      BY <1>1, <2>1, Zenon DEF ballots
    <3> QED
      BY <3>1, <3>2, <2>3, Zenon DEF WpsInv, VotesAreStakes, Has
  <2>5. PaidOnSchedule'
    BY <1>1, <2>1, ScheduleOfEach, ScheduleOfEachNext DEF WpsInv, funds
  <2> QED
    BY <2>2, <2>4, <2>5 DEF WpsInv
<1> QED
  BY <1>2, <1>3

LEMMA CleanvotesKeeps ==
  ASSUME WpsAssumption, WpsInv, NEW r \in Reviewers, NEW p \in Proposers,
         NEW S \in SUBSET Voters, cleanvotes(r, p, S)
  PROVE  WpsInv'
<1>1. /\ listed' = [v \in Voters |->
                      IF v \in S THEN listed[v] \ {p} ELSE listed[v]]
      /\ UNCHANGED <<registry, proposal, voted, last, stakes, funds, now>>
  BY DEF cleanvotes
<1> DEFINE at == [v \in Voters |->
                    IF Has(p, "ON_VOTE") /\ v \in S /\ p \in listed[v]
                    THEN cleared[p][v] + last[v] ELSE cleared[p][v]]
<1>2. cleared' = [cleared EXCEPT ![p] = at]
  BY DEF cleanvotes
<1>3. at \in [Voters -> Nat]
  BY DEF WpsInv, TypeOK
<1>4. cleared' \in [Proposers -> [Voters -> Nat]]
  <2> HIDE DEF at
  <2> QED
    BY <1>2, <1>3 DEF WpsInv, TypeOK
<1>5. TypeOK'
  <2>1. listed' \in [Voters -> SUBSET Proposers]
    BY <1>1 DEF WpsInv, TypeOK
  <2> QED
    BY <1>1, <1>4, <2>1 DEF WpsInv, TypeOK, registry, stakes, funds
<1>6. ASSUME NEW q \in Proposers, Has(q, "ON_VOTE")
      PROVE  Accounted(q)' = Accounted(q)
  <2>1. ASSUME NEW v \in Voters
        PROVE  (IF q \in listed'[v] THEN last'[v] ELSE 0) + cleared'[q][v]
                 = (IF q \in listed[v] THEN last[v] ELSE 0) + cleared[q][v]
    <3>1. /\ last'[v] = last[v] /\ last[v] \in Nat /\ cleared[q][v] \in Nat
          /\ listed'[v] = IF v \in S THEN listed[v] \ {p} ELSE listed[v]
      BY <1>1 DEF WpsInv, TypeOK
    <3>2. CASE q = p
      <4>1. cleared'[q][v] = IF v \in S /\ p \in listed[v]
                             THEN cleared[q][v] + last[v] ELSE cleared[q][v]
        BY <1>2, <1>6, <3>2 DEF WpsInv, TypeOK
      <4> QED
        BY <3>1, <3>2, <4>1
    <3>3. CASE q # p
      <4>1. cleared'[q][v] = cleared[q][v]
        BY <1>2, <3>3 DEF WpsInv, TypeOK
      <4> QED
        BY <3>1, <3>3, <4>1
    <3> QED
      BY <3>2, <3>3
  <2> QED
    BY <2>1 DEF Accounted, Recorded, Plus
<1>7. VotesAreStakes'
  <2>1. \A w \in voted' : \E t \in 0 .. now' : last'[w] = staked'[w] * Factor[t]
    BY <1>1 DEF WpsInv, VotesAreStakes, stakes
  <2>2. ASSUME NEW q \in Proposers
        PROVE  /\ Has(q, "ON_VOTE")' =>
                    proposal'[q].total <= Total(Accounted(q)')
               /\ Has(q, "PENDING")' => proposal'[q].total = 0
    BY <1>1, <1>6 DEF WpsInv, VotesAreStakes, Has
  <2> QED
    BY <2>1, <2>2 DEF VotesAreStakes, Has
<1>8. PaidOnSchedule'
  BY <1>1, ScheduleOfEach, ScheduleOfEachNext DEF WpsInv, funds
<1> QED
  BY <1>5, <1>7, <1>8 DEF WpsInv

LEMMA TickKeeps == ASSUME WpsAssumption, WpsInv, Tick PROVE WpsInv'
<1>1. /\ now' = now + 1 /\ now' \in 0 .. MaxTime
      /\ UNCHANGED <<registry, proposal, ballots, stakes, funds, cleared>>
  BY DEF Tick, WpsInv, TypeOK, WpsAssumption
<1>2. TypeOK'
  BY <1>1 DEF WpsInv, TypeOK, registry, ballots, stakes, funds
<1>3. VotesAreStakes'
  <2>1. \A t \in 0 .. now : t \in 0 .. now'
    BY <1>1 DEF WpsInv, TypeOK
  <2>2. \A v \in voted' : \E t \in 0 .. now' : last'[v] = staked'[v] * Factor[t]
    BY <1>1, <2>1 DEF WpsInv, VotesAreStakes, ballots, stakes
  <2>3. \A q \in Proposers : /\ Accounted(q)' = Accounted(q)
                             /\ proposal'[q] = proposal[q]
    BY <1>1 DEF Accounted, Recorded, Plus, ballots
  <2> QED
    BY <2>2, <2>3 DEF WpsInv, VotesAreStakes, Has
<1>4. ASSUME NEW q \in Proposers
      PROVE  OnSchedule(proposal'[q], paid'[q], now')
  <2> DEFINE due == proposal[q].fundStart
                      + (proposal[q].iteration - 1) * Interval(proposal[q])
  <2>1. OnSchedule(proposal[q], paid[q], now)
    BY ScheduleOfEach DEF WpsInv
  <2>2. proposal'[q] = proposal[q] /\ paid'[q] = paid[q]
    BY <1>1 DEF funds
  <2>3. due \in Int
    <3>1. /\ proposal[q].fundStart \in Nat /\ proposal[q].iteration \in Nat
          /\ proposal[q] \in ProposalType
      BY DEF WpsInv, TypeOK, ProposalType
    <3>2. Interval(proposal[q]) \in Nat
      BY <3>1, PlanNumbers
    <3>3. ASSUME NEW s \in Nat, NEW i \in Nat, NEW length \in Nat
          PROVE  s + (i - 1) * length \in Int
      OBVIOUS
    <3> QED
      BY <3>1, <3>2, <3>3, Zenon
  <2>4. now > due => now' > due
    BY <1>1, <2>3 DEF WpsInv, TypeOK
  <2> QED
    BY <2>1, <2>2, <2>4 DEF OnSchedule
<1>5. PaidOnSchedule'
  BY <1>4, ScheduleOfEachNext
<1> QED
  BY <1>2, <1>3, <1>5 DEF WpsInv

-----------------------------------------------------------------------------
LEMMA ProposeKeeps == ASSUME WpsAssumption, WpsInv, Propose PROVE WpsInv'
<1>1. PICK p \in Proposers :
        \/ regproposer(p) \/ rmvproposer(p)
        \/ \E c \in Committees, plan \in Plans :
             regproposal(p, c, plan) \/ editproposal(p, c, plan)
        \/ claimfunds(p)
  BY DEF Propose
<1>2. CASE regproposer(p) \/ rmvproposer(p)
  <2>1. PICK S \in SUBSET Proposers : SetProposers(S)
    BY <1>2 DEF regproposer, rmvproposer, WpsInv, TypeOK
  <2> QED
    BY <2>1, ProposersKeep
<1>3. CASE \E c \in Committees, plan \in Plans :
             regproposal(p, c, plan) \/ editproposal(p, c, plan)
  BY <1>3, RegproposalKeeps, EditproposalKeeps
<1>4. CASE claimfunds(p)
  BY <1>4, ClaimfundsKeeps
<1> QED
  BY <1>1, <1>2, <1>3, <1>4

LEMMA ReviewKeeps == ASSUME WpsAssumption, WpsInv, Review PROVE WpsInv'
<1>1. PICK p \in Proposers :
        \/ \E r \in Reviewers :
             \/ acceptprop(r, p) \/ rejectprop(r, p) \/ approve(r, p)
             \/ remove(r, p)
             \/ \E S \in SUBSET Voters : cleanvotes(r, p, S)
        \/ \E c \in Committees : rejectfund(c, p)
  BY DEF Review
<1>2. ASSUME NEW r \in Reviewers,
             acceptprop(r, p) \/ approve(r, p) \/ remove(r, p)
      PROVE  WpsInv'
  BY <1>2, AcceptpropKeeps, ApproveKeeps, RemoveKeeps
<1>3. ASSUME NEW r \in Reviewers, rejectprop(r, p)
      PROVE  WpsInv'
  BY <1>3, RejectionKeeps DEF rejectprop, Has
<1>4. ASSUME NEW r \in Reviewers, NEW S \in SUBSET Voters, cleanvotes(r, p, S)
      PROVE  WpsInv'
  BY <1>4, CleanvotesKeeps
<1>5. ASSUME NEW c \in Committees, rejectfund(c, p) PROVE WpsInv'
  BY <1>5, RejectionKeeps DEF rejectfund, Has
<1> QED
  BY <1>1, <1>2, <1>3, <1>4, <1>5

LEMMA StutterKeeps == ASSUME WpsInv, UNCHANGED vars PROVE WpsInv'
<1>1. UNCHANGED <<registry, proposal, ballots, stakes, funds, now, cleared>>
  BY DEF vars
<1>2. TypeOK'
  BY <1>1 DEF WpsInv, TypeOK, registry, ballots, stakes, funds
<1>3. UNCHANGED <<proposal, ballots, staked, now, paid, cleared>>
  BY <1>1 DEF stakes, funds
<1> QED
  BY <1>2, <1>3, QuietStep DEF WpsInv

LEMMA StepKeeps == ASSUME WpsAssumption, WpsInv, [Next]_vars PROVE WpsInv'
<1>1. CASE Vote
  BY <1>1, VoteproposalKeeps, UpdateVotingPowerKeeps, RegproxyKeeps DEF Vote
<1> QED
  BY <1>1, AdministerKeeps, ProposeKeeps, ReviewKeeps, TickKeeps, StutterKeeps
     DEF Next

-----------------------------------------------------------------------------
(* Winning.  Only votes end the voting on a proposal with its success.     *)
Finishes(p) ==
  proposal'[p].status = "FINISHED_VOTING" /\ ~Has(p, "FINISHED_VOTING")

LEMMA OnlyVotesFinish ==
  ASSUME WpsAssumption, WpsInv, [Next]_vars, NEW p \in Proposers, Finishes(p)
  PROVE  \E v \in Voters :
           \/ \E list \in SUBSET Proposers : voteproposal(v, list)
           \/ \E delta \in Deltas : update_voting_power(v, delta)
<1>1. proposal' # proposal
  BY DEF Finishes, Has
<1>2. ASSUME NEW q \in Proposers, NEW x, SetProposal(q, x),
             x.status # "FINISHED_VOTING"
      PROVE  FALSE
  BY <1>2 DEF SetProposal, Finishes, Has, WpsInv, TypeOK
<1>3. \A q \in Proposers : /\ proposal[q] \in ProposalType
                           /\ Rejected(proposal[q]).status = "REJECTED"
  BY RejectedFields DEF WpsInv, TypeOK
<1>4. ~Administer
  BY <1>1 DEF Administer, setwpsenv, setwpsstate, regcommittee, edcommittee,
         rmvcommittee, regreviewer, rmvreviewer, SetReviewer
<1>5. ASSUME NEW q \in Proposers, NEW c \in Committees, NEW plan \in Plans
      PROVE  ~regproposal(q, c, plan) /\ ~editproposal(q, c, plan)
  <2>1. NewProposal(Plan(c, plan)).status = "PENDING"
    BY DEF NewProposal, Proposal
  <2>2. ASSUME editproposal(q, c, plan) PROVE FALSE
    <3>1. Plan(c, plan) \in PlanType
      BY <2>2, PlanIsTyped DEF editproposal, WpsInv, WpsAssumption
    <3>2. Edited(proposal[q], Plan(c, plan)).status = "PENDING"
      BY <1>3, <2>2, <3>1, EditedFields DEF editproposal, Has
    <3> QED
      BY <1>2, <2>2, <3>2 DEF editproposal
  <2> QED
    BY <1>2, <2>1, <2>2 DEF regproposal
<1>6. ASSUME NEW q \in Proposers PROVE ~claimfunds(q)
  <2>1. ASSUME claimfunds(q) PROVE FALSE
    <3>1. PaidOnce(proposal[q]).status \in {"APPROVED", "COMPLETED"}
      BY <1>3, <2>1, PaidOnceFields DEF claimfunds, Has
    <3> QED
      BY <1>2, <2>1, <3>1 DEF claimfunds
  <2> QED
    BY <2>1
<1>7. ~Propose
  BY <1>1, <1>5, <1>6 DEF Propose, regproposer, rmvproposer, SetProposers
<1>8. ASSUME NEW q \in Proposers, NEW r \in Reviewers
      PROVE  /\ ~acceptprop(r, q) /\ ~rejectprop(r, q) /\ ~approve(r, q)
             /\ ~remove(r, q)
  <2>1. now \in 0 .. MaxTime
    BY DEF WpsInv, TypeOK
  <2>2. /\ Accepted(proposal[q]).status = "ON_VOTE"
        /\ Approved(proposal[q]).status = "APPROVED"
    BY <1>3, <2>1, AcceptedFields, ApprovedFields
  <2>3. NoProposal.status = "NONE"
    BY DEF NoProposal, Proposal
  <2> QED
    BY <1>2, <1>3, <2>2, <2>3 DEF acceptprop, rejectprop, approve, remove
<1>9. ~Review
  BY <1>1, <1>2, <1>3, <1>8 DEF Review, cleanvotes, rejectfund
<1>10. ~Tick /\ ~UNCHANGED vars /\ \A v \in Voters, b \in BOOLEAN : ~regproxy(v, b)
  BY <1>1 DEF Tick, vars, regproxy
<1> QED
  BY <1>4, <1>7, <1>9, <1>10 DEF Next, Vote

(* More votes win when fewer do.                                           *)
LEMMA WinsMonotone ==
  ASSUME WpsAssumption, TypeOK, NEW systemStake \in Int, NEW less \in Nat,
         NEW more \in Nat, less <= more, Wins(less, systemStake)
  PROVE  Wins(more, systemStake)
<1>1. stake2vote(systemStake) * env.percent \in Int
  BY DEF stake2vote, TypeOK, WpsAssumption
<1> QED
  BY <1>1 DEF Wins

(* What WonBySupport asks of a step, for one proposal.                     *)
Supported(p) ==
  Finishes(p) =>
    /\ Has(p, "ON_VOTE")
    /\ now < proposal[p].voteStart + env.voting * Day
    /\ Wins(Total(Plus(Recorded(p)', cleared[p])), totalStake')

LEMMA StepIsSupported ==
  ASSUME WpsAssumption, WpsInv, [Next]_vars, NEW p \in Proposers
  PROVE  Supported(p)
<1> SUFFICES ASSUME Finishes(p)
             PROVE  /\ Has(p, "ON_VOTE")
                    /\ now < proposal[p].voteStart + env.voting * Day
                    /\ Wins(Total(Plus(Recorded(p)', cleared[p])), totalStake')
  BY DEF Supported
<1>1. proposal' # proposal
  BY DEF Finishes, Has
<1>2. \E v \in Voters, list \in SUBSET Proposers, stake \in Nat :
        update_wps_votes(v, list, stake, totalStake')
  <2>1. ASSUME NEW v \in Voters, NEW list \in SUBSET Proposers,
               voteproposal(v, list)
        PROVE  update_wps_votes(v, list, staked[v], totalStake') /\ staked[v] \in Nat
    BY <2>1 DEF voteproposal, stakes, WpsInv, TypeOK
  <2>2. ASSUME NEW v \in Voters, NEW delta \in Deltas,
               update_voting_power(v, delta)
        PROVE  /\ update_wps_votes(v, listed[v], staked[v] + delta, totalStake')
               /\ staked[v] + delta \in Nat /\ listed[v] \in SUBSET Proposers
    <3>1. totalStake' = totalStake + delta /\ staked[v] + delta \in 0 .. MaxStake
      BY <2>2 DEF update_voting_power
    <3>2. listed[v] \in SUBSET Proposers /\ MaxStake \in Nat
      BY DEF WpsInv, TypeOK, WpsAssumption
    <3>3. update_wps_votes(v, listed[v], staked[v] + delta, totalStake + delta)
      BY <1>1, <2>2 DEF update_voting_power
    <3> QED
      BY <3>1, <3>2, <3>3
  <2> QED
    BY <2>1, <2>2, OnlyVotesFinish
<1>3. PICK v \in Voters, list \in SUBSET Proposers, stake \in Nat :
        update_wps_votes(v, list, stake, totalStake')
  BY <1>2
<1>4. CountedRight(p, totalStake')
  BY <1>3, VoteEffect DEF Finishes, Has
<1>5. /\ proposal[p].voteStart \in Nat /\ now \in Nat
      /\ env.voting * Day \in Nat /\ totalStake' \in Int
  <2>1. totalStake' \in Int
    BY StepKeeps DEF WpsInv, TypeOK
  <2>2. env.voting \in Nat /\ Day \in Nat
    BY DEF WpsInv, TypeOK, WpsAssumption
  <2>3. env.voting * Day \in Nat
    BY <2>2
  <2>4. proposal[p] \in ProposalType /\ now \in 0 .. MaxTime /\ MaxTime \in Nat
    BY DEF WpsInv, TypeOK, WpsAssumption
  <2>5. proposal[p].voteStart \in Nat /\ now \in Nat
    BY <2>4 DEF ProposalType
  <2> QED
    BY <2>1, <2>3, <2>5
<1>6. Total(Plus(Recorded(p)', cleared[p])) \in Nat
  <2>1. last' \in [Voters -> Nat] /\ cleared[p] \in [Voters -> Nat]
    BY StepKeeps DEF WpsInv, TypeOK
  <2>2. Recorded(p)' \in [Voters -> Nat]
    BY <2>1 DEF Recorded
  <2> QED
    BY <2>1, <2>2, PlusType
<1>7. /\ proposal'[p].total \in Nat
      /\ proposal'[p].total <= Total(Plus(Recorded(p)', cleared[p]))
      /\ Wins(proposal'[p].total, totalStake')
      /\ ~VotingOver(proposal[p])
  BY <1>4 DEF CountedRight, Finishes, ProposalType
<1>8. Wins(Total(Plus(Recorded(p)', cleared[p])), totalStake')
  BY <1>5, <1>6, <1>7, WinsMonotone DEF WpsInv
<1>9. now < proposal[p].voteStart + env.voting * Day
  BY <1>5, <1>7 DEF VotingOver
<1> QED
  BY <1>4, <1>8, <1>9, Zenon DEF CountedRight, Has

-----------------------------------------------------------------------------
(* Types, backed votes and payments on schedule are together inductive.    *)
THEOREM WpsInvariant == Spec => []WpsInv
<1>1. Init => WpsInv
  BY WpsAssumption, InitEstablishes
<1>2. WpsInv /\ [Next]_vars => WpsInv'
  BY WpsAssumption, StepKeeps
<1> QED
  BY <1>1, <1>2, PTL DEF Spec

(* Every table keeps its type: no total of votes is negative, and no       *)
(* payment overdraws the savings.                                          *)
THEOREM TypeCorrect == Spec => []TypeOK
<1>1. WpsInv => TypeOK
  BY DEF WpsInv
<1> QED
  BY <1>1, WpsInvariant, PTL

(* No proposal on vote has more votes than stakes gave it.                 *)
THEOREM VotesAreBacked == Spec => []VotesAreStakes
<1>1. WpsInv => VotesAreStakes
  BY DEF WpsInv
<1> QED
  BY <1>1, WpsInvariant, PTL

(* claimfunds pays approved proposals only, one instalment an interval and *)
(* their goal at most.                                                     *)
THEOREM PaymentsOnSchedule == Spec => []PaidOnSchedule
<1>1. WpsInv => PaidOnSchedule
  BY DEF WpsInv
<1> QED
  BY <1>1, WpsInvariant, PTL

(* The voting is won only in time, and by enough of all stake.             *)
THEOREM WinsAreSupported == Spec => WonBySupport
<1>1. WpsInv /\ [Next]_vars => \A p \in Proposers : Supported(p)
  BY WpsAssumption, StepIsSupported
<1>2. (\A p \in Proposers : Supported(p)) =>
        \A p \in Proposers :
          proposal'[p].status = "FINISHED_VOTING" /\ ~Has(p, "FINISHED_VOTING") =>
            /\ Has(p, "ON_VOTE")
            /\ now < proposal[p].voteStart + env.voting * Day
            /\ Wins(Total(Plus(Recorded(p)', cleared[p])), totalStake')
  BY DEF Supported, Finishes
<1> QED
  BY <1>1, <1>2, WpsInvariant, PTL DEF Spec, WonBySupport
==============================================================================
