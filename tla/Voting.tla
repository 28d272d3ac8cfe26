-------------------------------- MODULE Voting --------------------------------
(***************************************************************************)
(* Voting for producers (voting.cpp of eosio.system): voteproducer,        *)
(* regproxy, the registration of producers, the recount of a voter's votes *)
(* when its stake changes, and the election of the schedule in onblock.    *)
(*                                                                         *)
(* A vote weighs the stake of the voter times a factor that grows with     *)
(* time, as of when the vote was last counted.  Who votes through a proxy  *)
(* adds its weight to the proxy's, and each change has to reach the        *)
(* producers that the proxy votes for: propagate_weight_change follows the *)
(* proxies, which may since have stopped being proxies and have taken one  *)
(* themselves.  Nothing is ever recomputed from scratch: the totals are    *)
(* only right if every handler adds and withdraws the same amounts.        *)
(*                                                                         *)
(* Weights are doubles in the code, and here exact: rounding is left out,  *)
(* and with it the small negative totals that update_votes sets to zero.   *)
(* The shares in rewards that the same handlers keep are left out too.     *)
(***************************************************************************)
EXTENDS Sums

CONSTANTS
  Voters,        \* accounts that may stake and vote
  Producers,     \* accounts that may register as producers
  None,          \* no proxy
  Factor,        \* what stake2vote multiplies a stake with, in each epoch
  MaxEpoch,      \* bound: epochs
  MaxStake,      \* bound: stake of each account
  Deltas,        \* amounts by which a stake may change
  MinActivated,  \* min_activated_stake
  MaxChoices,    \* 30, the number of producers one may vote for
  ScheduleSize   \* 21

(* The factor is 2^(weeks since the year 2000 / 13), above 2^100: doubles  *)
(* of that size are multiples of a number far above the change of weight   *)
(* that is too small to be propagated.  Here they are multiples of two.    *)
ASSUME VotingAssumption ==
  /\ IsFiniteSet(Voters) /\ IsFiniteSet(Producers)
  /\ None \notin Voters
  /\ MaxEpoch \in Nat /\ MaxStake \in Nat
  /\ Factor \in [0 .. MaxEpoch -> Nat \ {0}]
  /\ \A e \in 0 .. MaxEpoch : Factor[e] % 2 = 0
  /\ Deltas \subseteq Int
  /\ MinActivated \in Nat \ {0}
  /\ MaxChoices \in Nat /\ ScheduleSize \in Nat

VARIABLES
  hasRow,          \* voters with a row
  staked,          \* voters: staked
  proxy,           \* voters: proxy
  choice,          \* voters: producers
  isProxy,         \* voters: is_proxy
  w,               \* the weights, see Init
  registered,      \* producers with a row
  active,          \* producers: is_active
  activatedStake,  \* total_activated_stake
  activated,       \* thresh_activated_stake_time is set
  schedule,        \* producers proposed for the schedule
  epoch            \* time

voter == <<hasRow, staked, proxy, choice, isProxy>>
producer == <<registered, active>>
activation == <<activatedStake, activated>>
vars == <<voter, w, producer, activation, schedule, epoch>>

Init ==
  /\ hasRow = {}
  /\ staked = [v \in Voters |-> 0]
  /\ proxy = [v \in Voters |-> None]
  /\ choice = [v \in Voters |-> {}]
  /\ isProxy = [v \in Voters |-> FALSE]
  /\ w = [last |-> [v \in Voters |-> 0],        \* last_vote_weight
          proxied |-> [v \in Voters |-> 0],     \* proxied_vote_weight
          votes |-> [p \in Producers |-> 0],    \* total_votes
          total |-> 0,                          \* total_producer_vote_weight
          cast |-> [v \in Voters |-> 0]]        \* history: epoch of last
  /\ registered = {}
  /\ active = {}
  /\ activatedStake = 0
  /\ activated = FALSE
  /\ schedule = {}
  /\ epoch = 0

-----------------------------------------------------------------------------
(* The weight of v, with its stake and role as they are after the action   *)
(* and the weights s as they are by now.                                   *)
stake2vote(stake) == stake * Factor[epoch]
Weight(s, v) ==
  stake2vote(staked'[v]) + (IF isProxy'[v] THEN s.proxied[v] ELSE 0)

Weighed(s, v, weight) == [s EXCEPT !.last[v] = weight, !.cast[v] = epoch]

(* Change the votes of the producers of S by d, and the total with them.   *)
AddVotes(s, S, d) ==
  [s EXCEPT !.votes = [p \in Producers |-> IF p \in S THEN @[p] + d ELSE @[p]],
            !.total = @ + d * Cardinality(S)]

(* One call of propagate_weight_change, for v: the weights after it, and   *)
(* whose weight has to be changed next, None at the end.                   *)
Small(d) == -1 <= d /\ d <= 1
PropagateOne(s, v) ==
  LET d == Weight(s, v) - s.last[v]
      weighed == Weighed(s, v, s.last[v] + d)
  IN  IF Small(d) THEN <<weighed, None>>
      ELSE IF proxy[v] = None THEN <<AddVotes(weighed, choice[v], d), None>>
      ELSE <<[weighed EXCEPT !.proxied[proxy[v]] = @ + d], proxy[v]>>

(* The whole recursion.  Proxies form no cycles (see ChainsEnd), so that   *)
(* it ends after each voter was reached at most once.  The slip stops at   *)
(* the first proxy.                                                        *)
FirstOnly(s, v) == PropagateOne(s, v)[1]
propagate_weight_change(s, v) ==
  LET after[i \in 0 .. Cardinality(Voters)] ==
        IF i = 0 THEN <<s, v>>
        ELSE IF after[i - 1][2] = None THEN after[i - 1]
        ELSE PropagateOne(after[i - 1][1], after[i - 1][2])
  IN  after[Cardinality(Voters)][1]

(* Change what is delegated to q, and whatever depends on it. *)
AddProxied(s, q, d) ==
  propagate_weight_change([s EXCEPT !.proxied[q] = @ + d], q)

(* The votes of v are withdrawn from its old proxy or its old producers... *)
(* The slip withdraws what they weigh now, not what was given.             *)
WithdrawnNow(s, v) ==
  IF proxy[v] = None THEN AddVotes(s, choice[v], -Weight(s, v))
  ELSE IF s.last[v] > 0 THEN AddProxied(s, proxy[v], -Weight(s, v))
  ELSE s
Withdrawn(s, v) ==
  IF proxy[v] = None THEN AddVotes(s, choice[v], -s.last[v])
  ELSE IF s.last[v] > 0 THEN AddProxied(s, proxy[v], -s.last[v])
  ELSE s

(* ... and given, with their present weight, to its new ones. *)
Given(s, q, producers, weight) ==
  IF q = None THEN AddVotes(s, producers, weight) ELSE AddProxied(s, q, weight)

(* The stake of somebody who votes for the first time counts as activated. *)
(* The slip counts it with every vote.                                     *)
AnyVote(v) == ~activated
FirstVote(v) == ~activated /\ w.last[v] <= 0
CountActivated(v) ==
  IF FirstVote(v)
  THEN /\ activatedStake' = activatedStake + staked'[v]
       /\ activated' = (activatedStake' >= MinActivated)
  ELSE UNCHANGED activation

update_votes(v, q, producers) ==
  LET weight == Weight(w, v)
  IN  /\ CountActivated(v)
      /\ w' = Weighed(Given(Withdrawn(w, v), q, producers, weight), v, weight)
      /\ proxy' = [proxy EXCEPT ![v] = q]
      /\ choice' = [choice EXCEPT ![v] = producers]

-----------------------------------------------------------------------------
(* A vote through a proxy, or for producers, as far as anybody may cast it.*)
ValidVote(v, q, producers) ==
  IF q # None
  THEN /\ producers = {}
       /\ q # v
       /\ ~isProxy[v]
       /\ q \in hasRow /\ isProxy[q]
  ELSE /\ Cardinality(producers) <= MaxChoices
       /\ producers \subseteq active

voteproducer(v, q, producers) ==
  /\ v \in hasRow
  /\ ValidVote(v, q, producers)
  /\ UNCHANGED <<hasRow, staked, isProxy>>
  /\ update_votes(v, q, producers)
  /\ UNCHANGED <<producer, schedule, epoch>>

(* The end of changebw: the stake of v changes, and if it has voted its    *)
(* votes are counted again.                                                *)
HasVoted(v) == choice[v] # {} \/ proxy[v] # None

update_voting_power(v, delta) ==
  /\ staked[v] + delta >= 0
  /\ delta < 0 => activated
  /\ staked[v] + delta <= MaxStake
  /\ hasRow' = hasRow \cup {v}
  /\ staked' = [staked EXCEPT ![v] = @ + delta]
  /\ UNCHANGED isProxy
  /\ IF HasVoted(v) THEN update_votes(v, proxy[v], choice[v])
     ELSE UNCHANGED <<w, proxy, choice, activation>>
  /\ UNCHANGED <<producer, schedule, epoch>>

(* The slip lets somebody who uses a proxy become one. *)
MayBeProxied(v) == TRUE
UsesNoProxy(v) == proxy[v] = None

regproxy(v, isproxy) ==
  /\ isProxy' = [isProxy EXCEPT ![v] = isproxy]
  /\ UNCHANGED <<staked, proxy, choice>>
  /\ IF v \in hasRow
     THEN /\ isproxy # isProxy[v]
          /\ isproxy => UsesNoProxy(v)
          /\ w' = propagate_weight_change(w, v)
          /\ UNCHANGED hasRow
     ELSE /\ hasRow' = hasRow \cup {v}
          /\ UNCHANGED w
  /\ UNCHANGED <<producer, activation, schedule, epoch>>

-----------------------------------------------------------------------------
regproducer(p) ==
  /\ registered' = registered \cup {p}
  /\ active' = active \cup {p}
  /\ UNCHANGED <<voter, w, activation, schedule, epoch>>

(* By the producer itself, unregprod, or by the chain, rmvproducer.  Its   *)
(* votes stay.                                                             *)
deactivate(p) ==
  /\ p \in registered
  /\ active' = active \ {p}
  /\ UNCHANGED <<voter, w, registered, activation, schedule, epoch>>

(* The index of the producers that the election reads: active ones first,  *)
(* the most votes before fewer, as by_votes has it.  Rows with one key are *)
(* in the order of their names, and here in any.  The slip sorts all rows  *)
(* by their votes.                                                         *)
MostVotes(p) == -w.votes[p]
by_votes(p) == IF p \in active THEN -w.votes[p] ELSE w.votes[p]

Index ==
  {rows \in [1 .. Cardinality(registered) -> registered] :
     \A i, j \in DOMAIN rows :
       i < j => rows[i] # rows[j] /\ by_votes(rows[i]) <= by_votes(rows[j])}

(* The loop stops at the first row that cannot be elected.                 *)
Electable(p) == p \in active /\ w.votes[p] > 0
TopProducers(rows) ==
  {rows[i] : i \in {i \in DOMAIN rows :
                      i <= ScheduleSize /\ \A j \in 1 .. i : Electable(rows[j])}}

(* onblock, once a minute: the schedule never becomes shorter.  The host   *)
(* may also refuse a schedule, and then nothing changes.                   *)
update_elected_producers ==
  /\ activated
  /\ \E rows \in Index :
       LET top == TopProducers(rows)
       IN  /\ top # {} /\ Cardinality(top) >= Cardinality(schedule)
           /\ schedule' = top
  /\ UNCHANGED <<voter, w, producer, activation, epoch>>

Tick ==
  /\ epoch < MaxEpoch
  /\ epoch' = epoch + 1
  /\ UNCHANGED <<voter, w, producer, activation, schedule>>

Next ==
  \/ \E v \in Voters :
       \/ \E q \in Voters \cup {None}, producers \in SUBSET Producers :
            voteproducer(v, q, producers)
       \/ \E delta \in Deltas : update_voting_power(v, delta)
       \/ \E isproxy \in BOOLEAN : regproxy(v, isproxy)
  \/ \E p \in Producers : regproducer(p) \/ deactivate(p)
  \/ update_elected_producers
  \/ Tick

Spec == Init /\ [][Next]_vars

-----------------------------------------------------------------------------
TypeOK ==
  /\ hasRow \subseteq Voters
  /\ staked \in [Voters -> Nat]
  /\ proxy \in [Voters -> hasRow \cup {None}]
  /\ choice \in [Voters -> SUBSET registered]
  /\ isProxy \in [Voters -> BOOLEAN]
  /\ w.last \in [Voters -> Nat] /\ w.proxied \in [Voters -> Nat]
  /\ w.votes \in [Producers -> Nat] /\ w.total \in Nat
  /\ w.cast \in [Voters -> 0 .. MaxEpoch]
  /\ registered \subseteq Producers /\ active \subseteq registered
  /\ activatedStake \in Nat /\ activated \in BOOLEAN
  /\ schedule \subseteq Producers
  /\ epoch \in 0 .. MaxEpoch

(* The producers that v's stake ends up with: its own choice, or that of   *)
(* its proxy, as long as it is one.                                        *)
Effective(v) ==
  IF proxy[v] = None THEN choice[v]
  ELSE IF isProxy[proxy[v]] THEN choice[proxy[v]] ELSE {}

(* The votes of a producer are the stakes of those whose choice it is,     *)
(* directly or through a proxy, each weighed as when it was last counted:  *)
(* however voters, proxies and former proxies took and left each other,    *)
(* no stake is counted twice and none is lost.  And the totals that the    *)
(* contract keeps instead of adding up agree.                              *)
Backing(p) == Total([v \in Voters |-> IF p \in Effective(v)
                                      THEN staked[v] * Factor[w.cast[v]] ELSE 0])
VotesFromStakes == \A p \in Producers : w.votes[p] = Backing(p)
Delegators(q) == [v \in Voters |-> IF proxy[v] = q THEN w.last[v] ELSE 0]
TotalsAgree ==
  /\ w.total = Total(w.votes)
  /\ \A q \in Voters : w.proxied[q] = Total(Delegators(q))
StakeCountedOnce == VotesFromStakes /\ TotalsAgree

(* Nobody is reached from himself by following proxies, although anybody   *)
(* may stop being a proxy, use one, and be used again: so that the         *)
(* recursion of propagate_weight_change ends.  And no proxy uses a proxy:  *)
(* voting and regproxy check it from both sides.                           *)
ChainsEnd ==
  /\ \A S \in (SUBSET Voters) \ {{}} : \E v \in S : proxy[v] \notin S
  /\ \A v \in Voters : isProxy[v] => proxy[v] = None

(* The chain is activated only when enough tokens are staked, each counted *)
(* once.                                                                   *)
ActivationIsBacked ==
  [][activated' # activated => Total(staked') >= MinActivated]_vars

(* A new schedule has those active producers behind which most stake is,   *)
(* counted from the stakes and not from the totals that the contract keeps:*)
(* although the election stops at the first row it cannot take, nobody who *)
(* could be elected is missed, seats stay empty only when there is nobody, *)
(* and never more of them than before.                                     *)
Candidates == {p \in active : Backing(p) > 0}
ElectedByStakes ==
  [][schedule' # schedule =>
       /\ schedule' \subseteq Candidates
       /\ \A q \in Candidates \ schedule' :
            /\ Cardinality(schedule') = ScheduleSize
            /\ \A p \in schedule' : Backing(q) <= Backing(p)
       /\ Cardinality(schedule') \in Cardinality(schedule) .. ScheduleSize]_vars
================================================================================
