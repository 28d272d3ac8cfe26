-------------------------- MODULE VotesAndBidsProofs --------------------------
(***************************************************************************)
(* Theorems about Voting, for every number of voters and producers, every  *)
(* stake and however often weights grow, and then about NameBids, the      *)
(* auctions that wait for votes to activate the chain, for every set of    *)
(* names and bidders, every amount and however long the auctions last.     *)
(*                                                                         *)
(* The handlers of votes change the totals of others by differences, in up *)
(* to three passes along the proxies: withdrawing a vote, giving it, and   *)
(* setting the weight of the voter itself at the end.  In between, the     *)
(* books are right for another state of things, in which one voter counts  *)
(* for some weight that is not yet (or no more) in its row and votes for   *)
(* what it will vote (or has voted).  Such a view of the books is a record.*)
(***************************************************************************)
EXTENDS VoterPay, NameBids, InflationLemmas

Even(n) == n % 2 = 0
EvenNat == {n \in Nat : Even(n)}
EvenInt == {n \in Int : Even(n)}

Weights ==
  [last : [Voters -> EvenNat], proxied : [Voters -> EvenInt],
   votes : [Producers -> Int], total : Int, cast : [Voters -> 0 .. MaxEpoch]]

(* A view of the books: the voter who, None for none, counts for the       *)
(* weight as, and all vote as proxy and choice say.                        *)
Views ==
  [who : Voters \cup {None}, as : Nat,
   proxy : [Voters -> Voters \cup {None}], choice : [Voters -> SUBSET Producers]]

CountsFor(s, c, u) == IF u = c.who THEN c.as ELSE s.last[u]
Direct(s, c, p) ==
  [u \in Voters |-> IF c.proxy[u] = None /\ p \in c.choice[u]
                    THEN CountsFor(s, c, u) ELSE 0]
Through(s, c, q) ==
  [u \in Voters |-> IF c.proxy[u] = q THEN CountsFor(s, c, u) ELSE 0]

Books(s, c) ==
  /\ \A p \in Producers : s.votes[p] = Total(Direct(s, c, p))
  /\ \A q \in Voters : s.proxied[q] = Total(Through(s, c, q))
  /\ s.total = Total(s.votes)

-----------------------------------------------------------------------------
LEMMA FiniteSets ==
  IsFiniteSet(Voters) /\ IsFiniteSet(Producers) /\ None \notin Voters
BY VotingAssumption

(* Sums and products of even numbers. *)
LEMMA EvenSums ==
  ASSUME NEW m \in EvenInt, NEW n \in EvenInt
  PROVE  m + n \in EvenInt /\ m - n \in EvenInt
BY DEF EvenInt, Even

LEMMA EvenProduct ==
  ASSUME NEW m \in Nat, NEW n \in Nat, Even(n)
  PROVE  m * n \in EvenNat
<1>1. PICK h \in Nat : n = 2 * h
  <2>1. n = 2 * (n \div 2) /\ n \div 2 \in Nat
    BY DEF Even
  <2> QED
    BY <2>1
<1>2. m * n = 2 * (m * h) /\ m * h \in Nat
  BY <1>1
<1>3. \A k \in Nat : 2 * k \in EvenNat
  BY DEF EvenNat, Even
<1> QED
  BY <1>2, <1>3

(* A change of weight that is too small to be propagated is none. *)
LEMMA SmallIsNone ==
  ASSUME NEW d \in EvenInt, Small(d)
  PROVE  d = 0
BY DEF EvenInt, Even, Small

-----------------------------------------------------------------------------
(* What is counted is natural, and so are the totals that the books hold.  *)
LEMMA ViewTypes ==
  ASSUME NEW s \in Weights, NEW c \in Views
  PROVE  /\ \A u \in Voters : CountsFor(s, c, u) \in Nat
         /\ \A p \in Producers : Direct(s, c, p) \in [Voters -> Nat]
         /\ \A q \in Voters : Through(s, c, q) \in [Voters -> Nat]
<1>1. \A u \in Voters : CountsFor(s, c, u) \in Nat
  BY DEF CountsFor, Weights, Views, EvenNat
<1> QED
  BY <1>1 DEF Direct, Through

LEMMA EntryTypes ==
  ASSUME NEW s \in Weights, NEW c \in Views, NEW v \in Voters
  PROVE  /\ \A p \in Producers : Direct(s, c, p)[v] \in Nat
         /\ \A q \in Voters : Through(s, c, q)[v] \in Nat
BY ViewTypes

LEMMA BooksTypes ==
  ASSUME NEW s \in Weights, NEW c \in Views, Books(s, c)
  PROVE  /\ s.votes \in [Producers -> Nat] /\ s.total \in Nat
         /\ s.proxied \in [Voters -> EvenNat]
<1> USE FiniteSets
<1>1. \A p \in Producers : s.votes[p] \in Nat
  BY ViewTypes, TotalType DEF Books
<1>2. \A q \in Voters : s.proxied[q] \in Nat
  BY ViewTypes, TotalType DEF Books
<1>3. s.votes \in [Producers -> Nat] /\ s.proxied \in [Voters -> EvenNat]
  BY <1>1, <1>2 DEF Weights, EvenInt, EvenNat
<1>4. s.total \in Nat
  BY <1>3, TotalType DEF Books
<1> QED
  BY <1>3, <1>4

(* Two views, of two states of the weights, that differ in v only.         *)
SameBut(s, c, r, e, v) ==
  \A u \in Voters \ {v} :
    /\ CountsFor(r, e, u) = CountsFor(s, c, u)
    /\ e.proxy[u] = c.proxy[u] /\ e.choice[u] = c.choice[u]

LEMMA TotalsMove ==
  ASSUME NEW s \in Weights, NEW c \in Views, NEW r \in Weights, NEW e \in Views,
         NEW v \in Voters, SameBut(s, c, r, e, v)
  PROVE  /\ \A p \in Producers :
              /\ Total(Direct(s, c, p)) \in Nat
              /\ Total(Direct(r, e, p))
                   = Total(Direct(s, c, p)) - Direct(s, c, p)[v] + Direct(r, e, p)[v]
         /\ \A q \in Voters :
              /\ Total(Through(s, c, q)) \in Nat
              /\ Total(Through(r, e, q))
                   = Total(Through(s, c, q)) - Through(s, c, q)[v] + Through(r, e, q)[v]
<1> USE FiniteSets
<1>1. ASSUME NEW p \in Producers
      PROVE  /\ Total(Direct(s, c, p)) \in Nat
             /\ Total(Direct(r, e, p))
                  = Total(Direct(s, c, p)) - Direct(s, c, p)[v] + Direct(r, e, p)[v]
  <2>1. Direct(s, c, p) \in [Voters -> Nat] /\ Direct(r, e, p) \in [Voters -> Nat]
    BY ViewTypes
  <2>2. \A u \in Voters \ {v} : Direct(r, e, p)[u] = Direct(s, c, p)[u]
    BY DEF Direct, SameBut
  <2> QED
    BY <2>1, <2>2, TotalChange
<1>2. ASSUME NEW q \in Voters
      PROVE  /\ Total(Through(s, c, q)) \in Nat
             /\ Total(Through(r, e, q))
                  = Total(Through(s, c, q)) - Through(s, c, q)[v] + Through(r, e, q)[v]
  <2>1. Through(s, c, q) \in [Voters -> Nat] /\ Through(r, e, q) \in [Voters -> Nat]
    BY ViewTypes
  <2>2. \A u \in Voters \ {v} : Through(r, e, q)[u] = Through(s, c, q)[u]
    BY DEF Through, SameBut
  <2> QED
    BY <2>1, <2>2, TotalChange
<1> QED
  BY <1>1, <1>2

(* What v adds to the producers of S changes by d, and the contract        *)
(* changes their votes, and the sum of all votes, by as much.              *)
LEMMA DirectChanges ==
  ASSUME NEW s \in Weights, NEW c \in Views, NEW r \in Weights, NEW e \in Views,
         NEW v \in Voters, SameBut(s, c, r, e, v), Books(s, c),
         NEW S \in SUBSET Producers, NEW d \in Int,
         \A p \in Producers : r.votes[p] = s.votes[p] + (IF p \in S THEN d ELSE 0),
         r.total = s.total + d * Cardinality(S),
         r.proxied = s.proxied,
         \A p \in Producers :
           Direct(r, e, p)[v] = Direct(s, c, p)[v] + (IF p \in S THEN d ELSE 0),
         \A q \in Voters : Through(r, e, q)[v] = Through(s, c, q)[v]
  PROVE  Books(r, e)
<1> USE FiniteSets
<1>1. /\ \A p \in Producers : Direct(s, c, p)[v] \in Nat
      /\ \A q \in Voters : Through(s, c, q)[v] \in Nat
  BY EntryTypes
<1>2. \A p \in Producers : r.votes[p] = Total(Direct(r, e, p))
  <2> TAKE p \in Producers
  <2>1. /\ Total(Direct(s, c, p)) \in Nat
        /\ Total(Direct(r, e, p))
             = Total(Direct(s, c, p)) - Direct(s, c, p)[v] + Direct(r, e, p)[v]
    BY TotalsMove
  <2>2. s.votes[p] = Total(Direct(s, c, p))
    BY DEF Books
  <2>3. /\ Direct(s, c, p)[v] \in Nat
        /\ Direct(r, e, p)[v] = Direct(s, c, p)[v] + (IF p \in S THEN d ELSE 0)
        /\ r.votes[p] = s.votes[p] + (IF p \in S THEN d ELSE 0)
    BY <1>1
  <2> QED
    BY <2>1, <2>2, <2>3
<1>3. \A q \in Voters : r.proxied[q] = Total(Through(r, e, q))
  <2> TAKE q \in Voters
  <2>1. /\ Total(Through(s, c, q)) \in Nat
        /\ Total(Through(r, e, q))
             = Total(Through(s, c, q)) - Through(s, c, q)[v] + Through(r, e, q)[v]
    BY TotalsMove
  <2>2. s.proxied[q] = Total(Through(s, c, q))
    BY DEF Books
  <2> QED
    BY <1>1, <2>1, <2>2
<1>4. r.total = Total(r.votes)
  <2>1. s.votes \in [Producers -> Nat] /\ s.total = Total(s.votes)
    BY BooksTypes DEF Books
  <2>2. r.votes \in [Producers -> Nat]
    <3>1. \A p \in Producers : r.votes[p] \in Nat
      BY <1>2, ViewTypes, TotalType
    <3> QED
      BY <3>1 DEF Weights
  <2>3. Total(r.votes) = Total(s.votes) + d * Cardinality(S)
    <3>1. ASSUME NEW f \in [Producers -> Nat], NEW g \in [Producers -> Nat],
                 \A p \in Producers : g[p] = f[p] + (IF p \in S THEN d ELSE 0)
          PROVE  Total(g) = Total(f) + d * Cardinality(S)
      BY <3>1, TotalShift
    <3> QED
      BY <2>1, <2>2, <3>1
  <2> QED
    BY <2>1, <2>3
<1> QED
  BY <1>2, <1>3, <1>4 DEF Books

(* What v adds to the voter q changes by d, and so does its proxied weight.*)
LEMMA ProxiedChanges ==
  ASSUME NEW s \in Weights, NEW c \in Views, NEW r \in Weights, NEW e \in Views,
         NEW v \in Voters, SameBut(s, c, r, e, v), Books(s, c),
         NEW q \in Voters, NEW d \in Int,
         r.votes = s.votes, r.total = s.total,
         \A t \in Voters : r.proxied[t] = s.proxied[t] + (IF t = q THEN d ELSE 0),
         \A p \in Producers : Direct(r, e, p)[v] = Direct(s, c, p)[v],
         \A t \in Voters :
           Through(r, e, t)[v] = Through(s, c, t)[v] + (IF t = q THEN d ELSE 0)
  PROVE  Books(r, e)
<1> USE FiniteSets
<1>1. /\ \A p \in Producers : Direct(s, c, p)[v] \in Nat
      /\ \A t \in Voters : Through(s, c, t)[v] \in Nat
  BY EntryTypes
<1>2. \A p \in Producers : r.votes[p] = Total(Direct(r, e, p))
  <2> TAKE p \in Producers
  <2>1. /\ Total(Direct(s, c, p)) \in Nat
        /\ Total(Direct(r, e, p))
             = Total(Direct(s, c, p)) - Direct(s, c, p)[v] + Direct(r, e, p)[v]
    BY TotalsMove
  <2>2. s.votes[p] = Total(Direct(s, c, p))
    BY DEF Books
  <2> QED
    BY <1>1, <2>1, <2>2
<1>3. \A t \in Voters : r.proxied[t] = Total(Through(r, e, t))
  <2> TAKE t \in Voters
  <2>1. /\ Total(Through(s, c, t)) \in Nat
        /\ Total(Through(r, e, t))
             = Total(Through(s, c, t)) - Through(s, c, t)[v] + Through(r, e, t)[v]
    BY TotalsMove
  <2>2. s.proxied[t] = Total(Through(s, c, t))
    BY DEF Books
  <2>3. /\ Through(s, c, t)[v] \in Nat
        /\ Through(r, e, t)[v] = Through(s, c, t)[v] + (IF t = q THEN d ELSE 0)
        /\ r.proxied[t] = s.proxied[t] + (IF t = q THEN d ELSE 0)
    BY <1>1
  <2> QED
    BY <2>1, <2>2, <2>3
<1> QED
  BY <1>2, <1>3 DEF Books

-----------------------------------------------------------------------------
(* What propagate_weight_change starts from: the stakes and roles that the *)
(* action leaves, the votes as they were before it.                        *)
Setting ==
  /\ proxy \in [Voters -> Voters \cup {None}]
  /\ choice \in [Voters -> SUBSET Producers]
  /\ epoch \in 0 .. MaxEpoch
  /\ staked' \in [Voters -> Nat] /\ isProxy' \in [Voters -> BOOLEAN]

(* The view c tells the votes of all but its own voter as they are. *)
Shows(c) ==
  c \in Views /\ \A u \in Voters \ {c.who} :
                  c.proxy[u] = proxy[u] /\ c.choice[u] = choice[u]

(* The weight of v is what its stake and its delegators make it. *)
Correct(s, v) ==
  s.last[v] = staked'[v] * Factor[s.cast[v]] + (IF isProxy'[v] THEN s.proxied[v] ELSE 0)

(* On the way: the books are right for the view c, and so is the weight of *)
(* everybody who has voted but y, which comes next.                        *)
Halfway(s, c, y) ==
  /\ s \in Weights
  /\ Books(s, c)
  /\ \A u \in Voters \ {c.who, y} : HasVoted(u) => Correct(s, u)

(* From s to r the row of x stays as it is, and nobody with a stake loses  *)
(* all its weight.                                                         *)
Spared(s, r, x) ==
  x \in Voters => r.last[x] = s.last[x] /\ r.proxied[x] = s.proxied[x]
KeepsPositive(s, r) ==
  \A u \in Voters : s.last[u] > 0 /\ staked'[u] > 0 => r.last[u] > 0

LEMMA StakeWeight ==
  ASSUME Setting, NEW v \in Voters
  PROVE  /\ stake2vote(staked'[v]) \in EvenNat
         /\ staked'[v] > 0 => stake2vote(staked'[v]) > 0
<1>1. Factor[epoch] \in Nat \ {0} /\ Even(Factor[epoch])
  BY VotingAssumption DEF Setting, Even
<1>2. staked'[v] \in Nat
  BY DEF Setting
<1>3. \A m, n \in Nat : m > 0 /\ n > 0 => m * n > 0
  OBVIOUS
<1>4. staked'[v] * Factor[epoch] \in EvenNat
  BY <1>1, <1>2, EvenProduct
<1>5. staked'[v] > 0 => staked'[v] * Factor[epoch] > 0
  <2>1. Factor[epoch] \in Nat /\ Factor[epoch] > 0
    BY <1>1
  <2> QED
    BY <1>2, <1>3, <2>1
<1>6. stake2vote(staked'[v]) = staked'[v] * Factor[epoch]
  BY DEF stake2vote
<1> QED
  BY <1>4, <1>5, <1>6

LEMMA WeightType ==
  ASSUME Setting, NEW s \in Weights, NEW c \in Views, Books(s, c), NEW v \in Voters
  PROVE  /\ Weight(s, v) \in EvenNat
         /\ staked'[v] > 0 => Weight(s, v) > 0
<1>1. s.proxied[v] \in EvenNat
  BY BooksTypes
<1>2. \A m, n \in EvenNat : m + n \in EvenNat /\ m + 0 \in EvenNat
  BY DEF EvenNat, Even
<1>3. isProxy'[v] \in BOOLEAN
  BY DEF Setting
<1>4. \A m, n \in EvenNat : m > 0 => m + n > 0 /\ m + 0 > 0
  BY DEF EvenNat
<1> QED
  BY <1>1, <1>2, <1>3, <1>4, StakeWeight DEF Weight

(* The fields of the weights after a row was weighed, and after votes were *)
(* added.                                                                  *)
LEMMA WeighedFields ==
  ASSUME NEW s \in Weights, NEW v \in Voters, NEW n \in EvenNat, epoch \in 0 .. MaxEpoch
  PROVE  /\ Weighed(s, v, n) \in Weights
         /\ Weighed(s, v, n).last = [s.last EXCEPT ![v] = n]
         /\ Weighed(s, v, n).cast = [s.cast EXCEPT ![v] = epoch]
         /\ Weighed(s, v, n).proxied = s.proxied
         /\ Weighed(s, v, n).votes = s.votes
         /\ Weighed(s, v, n).total = s.total
BY DEF Weighed, Weights

VotesAdded(s, S, d, r) ==
  /\ r \in Weights
  /\ r.last = s.last /\ r.cast = s.cast /\ r.proxied = s.proxied
  /\ r.votes = [p \in Producers |-> IF p \in S THEN s.votes[p] + d ELSE s.votes[p]]
  /\ r.total = s.total + d * Cardinality(S)

LEMMA AddVotesFields ==
  ASSUME NEW s \in Weights, NEW S \in SUBSET Producers, NEW d \in Int
  PROVE  VotesAdded(s, S, d, AddVotes(s, S, d))
<1>1. Cardinality(S) \in Nat
  BY FiniteSets, FS_Subset, FS_CardinalityType
<1>2. d * Cardinality(S) \in Int
  BY <1>1
<1>3. s.votes \in [Producers -> Int] /\ s.total \in Int
  BY DEF Weights
<1> DEFINE V == [p \in Producers |-> IF p \in S THEN s.votes[p] + d ELSE s.votes[p]]
           n == s.total + d * Cardinality(S)
<1>4. V \in [Producers -> Int] /\ n \in Int
  BY <1>2, <1>3
<1>5. AddVotes(s, S, d) = [s EXCEPT !.votes = V, !.total = n]
  BY DEF AddVotes
<1> HIDE DEF V, n
<1>6. /\ AddVotes(s, S, d) \in Weights
      /\ AddVotes(s, S, d).last = s.last
      /\ AddVotes(s, S, d).cast = s.cast
      /\ AddVotes(s, S, d).proxied = s.proxied
      /\ AddVotes(s, S, d).votes = V
      /\ AddVotes(s, S, d).total = n
  BY <1>4, <1>5 DEF Weights
<1> QED
  BY <1>6 DEF n, V, VotesAdded

MoreProxied(s, q, d) == [s EXCEPT !.proxied[q] = @ + d]

LEMMA ProxiedFields ==
  ASSUME NEW s \in Weights, NEW q \in Voters, NEW d \in EvenInt,
         NEW r, r = MoreProxied(s, q, d)
  PROVE  /\ r \in Weights
         /\ r.last = s.last /\ r.cast = s.cast
         /\ r.votes = s.votes /\ r.total = s.total
         /\ \A t \in Voters : r.proxied[t] = s.proxied[t] + (IF t = q THEN d ELSE 0)
<1>1. s.proxied \in [Voters -> EvenInt]
  BY DEF Weights
<1>2. s.proxied[q] + d \in EvenInt
  BY <1>1, EvenSums
<1>3. \A t \in Voters : s.proxied[t] \in Int /\ s.proxied[t] + 0 = s.proxied[t]
  BY <1>1 DEF EvenInt
<1>4. r.proxied = [s.proxied EXCEPT ![q] = @ + d]
  BY DEF Weights, MoreProxied
<1> QED
  BY <1>1, <1>2, <1>3, <1>4 DEF Weights, MoreProxied

(* One call of propagate_weight_change: v, whose weight may be wrong, is   *)
(* weighed, and only its proxy may be wrong now.                           *)
LEMMA OneCall ==
  ASSUME Setting, NEW s, NEW c, Shows(c), NEW v \in Voters, v # c.who,
         Halfway(s, c, v), proxy[v] # v, proxy[v] = None \/ proxy[v] # c.who
  PROVE  LET r == PropagateOne(s, v)[1]
             y == PropagateOne(s, v)[2]
         IN  /\ y \in {None, proxy[v]}
             /\ Halfway(r, c, y)
             /\ Spared(s, r, c.who)
             /\ KeepsPositive(s, r)
<1> DEFINE n == Weight(s, v)
           d == n - s.last[v]
           m == Weighed(s, v, n)
<1>1. /\ s \in Weights /\ c \in Views /\ Books(s, c)
      /\ \A u \in Voters \ {c.who, v} : HasVoted(u) => Correct(s, u)
      /\ c.proxy[v] = proxy[v] /\ c.choice[v] = choice[v]
      /\ proxy[v] \in Voters \cup {None} /\ choice[v] \in SUBSET Producers
      /\ epoch \in 0 .. MaxEpoch /\ None \notin Voters
  BY FiniteSets DEF Halfway, Shows, Setting
<1>2. n \in EvenNat /\ (staked'[v] > 0 => n > 0)
  BY <1>1, WeightType
<1>3. s.last \in [Voters -> EvenNat] /\ s.last[v] \in EvenNat
  BY <1>1 DEF Weights
<1>4. d \in EvenInt /\ s.last[v] + d = n /\ s.last[v] \in Nat
  <2>1. n \in EvenInt /\ s.last[v] \in EvenInt
    BY <1>2, <1>3 DEF EvenNat, EvenInt
  <2>2. n \in Int /\ s.last[v] \in Int /\ s.last[v] \in Nat
    BY <1>3, <2>1 DEF EvenInt, EvenNat
  <2> QED
    BY <2>1, <2>2, EvenSums
<1>5. n = staked'[v] * Factor[epoch] + (IF isProxy'[v] THEN s.proxied[v] ELSE 0)
  BY DEF Weight, stake2vote
<1> HIDE DEF n
<1>6. /\ m \in Weights
      /\ m.last = [s.last EXCEPT ![v] = n]
      /\ m.cast = [s.cast EXCEPT ![v] = epoch]
      /\ m.proxied = s.proxied /\ m.votes = s.votes /\ m.total = s.total
  BY <1>1, <1>2, WeighedFields
<1>7. m.last[v] = n /\ m.cast[v] = epoch
      /\ \A u \in Voters \ {v} : m.last[u] = s.last[u] /\ m.cast[u] = s.cast[u]
  BY <1>1, <1>6 DEF Weights
<1>8. PropagateOne(s, v) =
        IF Small(d) THEN <<m, None>>
        ELSE IF proxy[v] = None THEN <<AddVotes(m, choice[v], d), None>>
        ELSE <<MoreProxied(m, proxy[v], d), proxy[v]>>
  BY <1>4 DEF PropagateOne, n, MoreProxied
<1> HIDE DEF d, m
(* What all cases have in common: r has the rows of m, but for proxied.    *)
<1>9. ASSUME NEW r \in Weights, r.last = m.last
      PROVE  SameBut(s, c, r, c, v) /\ KeepsPositive(s, r)
  <2>1. \A u \in Voters \ {v} : r.last[u] = s.last[u]
    BY <1>7, <1>9
  <2>2. SameBut(s, c, r, c, v)
    BY <2>1 DEF SameBut, CountsFor
  <2>3. KeepsPositive(s, r)
    BY <1>2, <1>7, <1>9, <2>1 DEF KeepsPositive
  <2> QED
    BY <2>2, <2>3
<1>10. ASSUME NEW r \in Weights, r.last = m.last
       PROVE  /\ \A p \in Producers :
                   Direct(r, c, p)[v] = Direct(s, c, p)[v]
                     + (IF proxy[v] = None /\ p \in choice[v] THEN d ELSE 0)
              /\ \A t \in Voters :
                   Through(r, c, t)[v] = Through(s, c, t)[v]
                     + (IF proxy[v] = t THEN d ELSE 0)
  <2>1. CountsFor(r, c, v) = s.last[v] + d /\ CountsFor(s, c, v) = s.last[v]
    BY <1>4, <1>7, <1>10 DEF CountsFor
  <2>2. s.last[v] + 0 = s.last[v] /\ 0 + 0 = 0
    BY <1>4
  <2> QED
    BY <1>1, <2>1, <2>2 DEF Direct, Through
<1>11. ASSUME NEW r \in Weights, r.last = m.last, r.cast = m.cast,
              NEW y \in {None, proxy[v]},
              \A u \in Voters \ {y} : r.proxied[u] = s.proxied[u]
       PROVE  \A u \in Voters \ {c.who, y} : HasVoted(u) => Correct(r, u)
  <2> TAKE u \in Voters \ {c.who, y}
  <2>1. r.proxied[u] = s.proxied[u]
    BY <1>11
  <2>2. CASE u = v
    BY <1>5, <1>7, <1>11, <2>1, <2>2 DEF Correct
  <2>3. CASE u # v
    BY <1>1, <1>7, <1>11, <2>1, <2>3 DEF Correct
  <2> QED
    BY <2>2, <2>3
<1>12. CASE Small(d)
  <2>1. d = 0
    BY <1>4, <1>12, SmallIsNone
  <2>2. PropagateOne(s, v)[1] = m /\ PropagateOne(s, v)[2] = None
    BY <1>8, <1>12
  <2>3. /\ SameBut(s, c, m, c, v) /\ KeepsPositive(s, m)
    BY <1>6, <1>9
  <2>4. /\ \A p \in Producers : Direct(m, c, p)[v] = Direct(s, c, p)[v]
        /\ \A t \in Voters : Through(m, c, t)[v] = Through(s, c, t)[v]
    BY <1>1, <1>6, <1>10, <2>1, EntryTypes
  <2>5. Books(m, c)
    <3> DEFINE S == {}
    <3>1. Cardinality(S) = 0 /\ S \in SUBSET Producers
      BY FS_EmptySet
    <3>2. s.votes \in [Producers -> Nat] /\ s.total \in Nat
      BY <1>1, BooksTypes
    <3>3. /\ \A p \in Producers : m.votes[p] = s.votes[p] + (IF p \in S THEN 0 ELSE 0)
          /\ m.total = s.total + 0 * Cardinality(S)
      BY <1>6, <3>1, <3>2
    <3>4. \A p \in Producers :
            Direct(m, c, p)[v] = Direct(s, c, p)[v] + (IF p \in S THEN 0 ELSE 0)
      BY <1>1, <2>4, EntryTypes
    <3> HIDE DEF S
    <3> QED
      BY <1>1, <1>6, <2>3, <2>4, <3>1, <3>3, <3>4, DirectChanges
  <2>6. \A u \in Voters \ {c.who, None} : HasVoted(u) => Correct(m, u)
    BY <1>6, <1>11
  <2>7. Spared(s, m, c.who)
    BY <1>6, <1>7 DEF Spared
  <2> QED
    BY <1>6, <2>2, <2>3, <2>5, <2>6, <2>7 DEF Halfway
<1>13. CASE ~ Small(d) /\ proxy[v] = None
  <2> DEFINE r == AddVotes(m, choice[v], d)
  <2>1. d \in Int
    BY <1>4 DEF EvenInt
  <2>2. /\ r \in Weights
        /\ r.last = m.last /\ r.cast = m.cast /\ r.proxied = s.proxied
        /\ \A p \in Producers :
             r.votes[p] = s.votes[p] + (IF p \in choice[v] THEN d ELSE 0)
        /\ r.total = s.total + d * Cardinality(choice[v])
    <3>1. m \in Weights /\ choice[v] \in SUBSET Producers
      BY <1>1, <1>6
    <3>2. /\ r \in Weights
          /\ r.last = m.last /\ r.cast = m.cast /\ r.proxied = m.proxied
          /\ r.votes = [p \in Producers |-> IF p \in choice[v] THEN m.votes[p] + d
                                            ELSE m.votes[p]]
          /\ r.total = m.total + d * Cardinality(choice[v])
      <4>1. VotesAdded(m, choice[v], d, r)
        BY <2>1, <3>1, AddVotesFields
      <4> HIDE DEF r
      <4> QED
        BY <4>1 DEF VotesAdded
    <3>3. \A p \in Producers : s.votes[p] \in Int
      BY <1>1 DEF Weights
    <3> QED
      BY <1>6, <3>2, <3>3
  <2>3. PropagateOne(s, v)[1] = r /\ PropagateOne(s, v)[2] = None
    BY <1>8, <1>13
  <2> HIDE DEF r
  <2>4. SameBut(s, c, r, c, v) /\ KeepsPositive(s, r)
    BY <1>9, <2>2
  <2>5. /\ \A p \in Producers : Direct(r, c, p)[v] = Direct(s, c, p)[v]
                                    + (IF p \in choice[v] THEN d ELSE 0)
        /\ \A t \in Voters : Through(r, c, t)[v] = Through(s, c, t)[v]
    BY <1>1, <1>10, <1>13, <2>2, EntryTypes
  <2>6. Books(r, c)
    BY <1>1, <2>1, <2>2, <2>4, <2>5, DirectChanges
  <2>7. \A u \in Voters \ {c.who, None} : HasVoted(u) => Correct(r, u)
    BY <1>11, <2>2
  <2>8. Spared(s, r, c.who)
    BY <1>7, <2>2 DEF Spared
  <2> QED
    BY <2>2, <2>3, <2>4, <2>6, <2>7, <2>8 DEF Halfway
<1>14. CASE ~ Small(d) /\ proxy[v] # None
  <2> DEFINE q == proxy[v]
             r == MoreProxied(m, q, d)
  <2>1. d \in Int /\ q \in Voters
    BY <1>1, <1>4, <1>14 DEF EvenInt
  <2>2. /\ r \in Weights
        /\ r.last = m.last /\ r.cast = m.cast
        /\ r.votes = s.votes /\ r.total = s.total
        /\ \A t \in Voters : r.proxied[t] = s.proxied[t] + (IF t = q THEN d ELSE 0)
    <3>1. /\ r \in Weights
          /\ r.last = m.last /\ r.cast = m.cast
          /\ r.votes = m.votes /\ r.total = m.total
          /\ \A t \in Voters : r.proxied[t] = m.proxied[t] + (IF t = q THEN d ELSE 0)
      BY <1>4, <1>6, <2>1, ProxiedFields
    <3> QED
      BY <1>6, <3>1
  <2>3. PropagateOne(s, v)[1] = r /\ PropagateOne(s, v)[2] = q
    BY <1>8, <1>14
  <2> HIDE DEF r
  <2>4. SameBut(s, c, r, c, v) /\ KeepsPositive(s, r)
    BY <1>9, <2>2
  <2>5. /\ \A p \in Producers : Direct(r, c, p)[v] = Direct(s, c, p)[v]
        /\ \A t \in Voters : Through(r, c, t)[v] = Through(s, c, t)[v]
                                 + (IF t = q THEN d ELSE 0)
    BY <1>1, <1>10, <1>14, <2>2, EntryTypes
  <2>6. Books(r, c)
    BY <1>1, <2>1, <2>2, <2>4, <2>5, ProxiedChanges
  <2>7. \A u \in Voters \ {q} : r.proxied[u] = s.proxied[u]
    <3>1. \A t \in Voters : s.proxied[t] \in Int
      BY <1>1 DEF Weights, EvenInt
    <3> QED
      BY <2>2, <3>1
  <2>8. \A u \in Voters \ {c.who, q} : HasVoted(u) => Correct(r, u)
    BY <1>11, <2>2, <2>7
  <2>9. Spared(s, r, c.who)
    BY <1>7, <1>14, <2>2, <2>7 DEF Spared
  <2> QED
    BY <2>2, <2>3, <2>4, <2>6, <2>8, <2>9 DEF Halfway
<1> QED
  BY <1>12, <1>13, <1>14

-----------------------------------------------------------------------------
(* The calls one after the other, from s and v on, n of them: a call that  *)
(* has nobody to go on with is the last.                                   *)
Call(z) == IF z[2] = None THEN z ELSE PropagateOne(z[1], z[2])
IsRun(f, n, s, v) == f = [i \in 0 .. n |-> IF i = 0 THEN <<s, v>> ELSE Call(f[i - 1])]

LEMMA RunExists ==
  ASSUME NEW n \in Nat, NEW s, NEW v
  PROVE  \E f : IsRun(f, n, s, v)
<1> DEFINE Missing == {k \in Nat : ~ \E f : IsRun(f, k, s, v)}
<1>1. SUFFICES ASSUME Missing # {} PROVE FALSE
  OBVIOUS
<1>2. PICK m \in Missing : \A k \in Missing : m <= k
  <2> HIDE DEF Missing
  <2>1. Missing \subseteq Nat
    BY DEF Missing
  <2> QED
    BY <1>1, <2>1, HasLowest
<1>3. m # 0
  <2>1. SUFFICES ASSUME m = 0 PROVE FALSE
    OBVIOUS
  <2> DEFINE f == [i \in 0 .. 0 |-> <<s, v>>]
  <2>2. \A i \in 0 .. 0 : i = 0
    OBVIOUS
  <2>3. IsRun(f, 0, s, v)
    BY <2>2 DEF IsRun
  <2> HIDE DEF f
  <2> QED
    BY <2>1, <2>3
<1>4. m - 1 \in Nat /\ m - 1 \notin Missing
  BY <1>2, <1>3
<1>5. PICK f : IsRun(f, m - 1, s, v)
  BY <1>4
<1> DEFINE g == [i \in 0 .. m |-> IF i = m THEN Call(f[m - 1]) ELSE f[i]]
<1>6. \A i \in 0 .. m : g[i] = IF i = 0 THEN <<s, v>> ELSE Call(g[i - 1])
  <2> TAKE i \in 0 .. m
  <2>1. m \in Nat /\ m # 0
    BY <1>2, <1>3
  <2>2. CASE i = 0
    <3>1. 0 \in 0 .. m - 1 /\ 0 # m /\ 0 \in 0 .. m
      BY <2>1
    <3>2. f[0] = <<s, v>>
      BY <1>5, <3>1 DEF IsRun
    <3> QED
      BY <2>2, <3>1, <3>2
  <2>3. CASE i = m
    <3>1. m - 1 \in 0 .. m /\ m - 1 # m
      BY <2>1
    <3> QED
      BY <2>1, <2>3, <3>1
  <2>4. CASE i # 0 /\ i # m
    <3>1. i \in 0 .. m - 1 /\ i - 1 \in 0 .. m /\ i - 1 # m
      BY <2>1, <2>4
    <3>2. f[i] = Call(f[i - 1])
      BY <1>5, <2>4, <3>1 DEF IsRun
    <3> QED
      BY <2>4, <3>1, <3>2
  <2> QED
    BY <2>2, <2>3, <2>4
<1>7. g = [i \in 0 .. m |-> g[i]]
  OBVIOUS
<1> HIDE DEF g
<1>8. IsRun(g, m, s, v)
  BY <1>6, <1>7 DEF IsRun
<1> QED
  BY <1>2, <1>8

LEMMA PropagateRuns ==
  ASSUME NEW s, NEW v
  PROVE  \E f : /\ IsRun(f, Cardinality(Voters), s, v)
               /\ propagate_weight_change(s, v) = f[Cardinality(Voters)][1]
<1> DEFINE n == Cardinality(Voters)
           f == CHOOSE g : g = [i \in 0 .. n |-> IF i = 0 THEN <<s, v>>
                                                ELSE IF g[i - 1][2] = None THEN g[i - 1]
                                                ELSE PropagateOne(g[i - 1][1], g[i - 1][2])]
<1>1. n \in Nat
  BY FiniteSets, FS_CardinalityType
<1>2. \E g : IsRun(g, n, s, v)
  BY <1>1, RunExists
<1>3. IsRun(f, n, s, v)
  BY <1>2 DEF IsRun, Call
<1>4. propagate_weight_change(s, v) = f[n][1]
  BY DEF propagate_weight_change
<1> QED
  BY <1>3, <1>4

(* What is true after i calls from s on: those called so far, and the      *)
(* voter of the view when the chain began with it, lead to who comes next, *)
(* and they are i at least.  So nobody is called twice, and the voter of   *)
(* the view never.                                                         *)
Acyclic == \A S \in (SUBSET Voters) \ {{}} : \E v \in S : proxy[v] \notin S

LeadTo(A, y, c, i) ==
  /\ y \notin A
  /\ Cardinality(A) >= i
  /\ \A a \in A : proxy[a] \in A \cup {y}
  /\ c.who \in A \/ c.who = None \/ proxy[y] = None

Reached(z, i, s, c) ==
  /\ Halfway(z[1], c, z[2])
  /\ Spared(s, z[1], c.who)
  /\ KeepsPositive(s, z[1])
  /\ z[2] # None =>
       /\ z[2] \in Voters \ {c.who}
       /\ \E A \in SUBSET Voters : LeadTo(A, z[2], c, i)

LEMMA OneMore ==
  ASSUME NEW A \in SUBSET Voters, NEW y \in Voters, y \notin A
  PROVE  /\ Cardinality(A) \in Nat
         /\ Cardinality(A \cup {y}) = Cardinality(A) + 1
         /\ Cardinality(A \cup {y}) <= Cardinality(Voters)
<1>1. IsFiniteSet(A) /\ IsFiniteSet(A \cup {y})
  BY FiniteSets, FS_Subset
<1> QED
  BY <1>1, FiniteSets, FS_CardinalityType, FS_AddElement, FS_Subset

LEMMA CallReaches ==
  ASSUME Setting, Acyclic, NEW s, NEW c, Shows(c), NEW z, NEW i \in Nat,
         Reached(z, i, s, c)
  PROVE  Reached(Call(z), i + 1, s, c)
<1>1. CASE z[2] = None
  BY <1>1 DEF Reached, Call
<1>2. CASE z[2] # None
  <2> DEFINE v == z[2]
             r == Call(z)[1]
             y == Call(z)[2]
  <2>1. v \in Voters /\ v # c.who /\ Halfway(z[1], c, v)
    BY <1>2 DEF Reached
  <2>2. PICK A \in SUBSET Voters : LeadTo(A, v, c, i)
    BY <1>2 DEF Reached
  <2>3. Call(z) = PropagateOne(z[1], v)
    BY <1>2 DEF Call
  <2>4. proxy[v] \in Voters \cup {None} /\ None \notin Voters
    BY <2>1, FiniteSets DEF Setting
  (* The next is neither v nor anybody called before. *)
  <2>5. proxy[v] \notin A \cup {v}
    <3>1. A \cup {v} \in (SUBSET Voters) \ {{}}
      BY <2>1
    <3>2. PICK u \in A \cup {v} : proxy[u] \notin A \cup {v}
      BY <3>1 DEF Acyclic
    <3>3. u \notin A
      BY <2>2, <3>2 DEF LeadTo
    <3> QED
      BY <3>2, <3>3
  <2>6. proxy[v] = None \/ proxy[v] # c.who
    BY <2>2, <2>4, <2>5 DEF LeadTo
  <2>7. /\ y \in {None, proxy[v]}
        /\ Halfway(r, c, y)
        /\ Spared(z[1], r, c.who)
        /\ KeepsPositive(z[1], r)
    <3>1. proxy[v] # v
      BY <2>5
    <3> HIDE DEF v
    <3> QED
      BY <2>1, <2>3, <2>6, <3>1, OneCall
  <2>8. Spared(s, r, c.who) /\ KeepsPositive(s, r)
    <3>1. Spared(s, z[1], c.who) /\ KeepsPositive(s, z[1])
      BY DEF Reached
    <3> HIDE DEF r
    <3> QED
      BY <2>7, <3>1 DEF Spared, KeepsPositive
  <2>9. ASSUME y # None
        PROVE  /\ y \in Voters \ {c.who}
               /\ \E B \in SUBSET Voters : LeadTo(B, y, c, i + 1)
    <3>1. y = proxy[v] /\ proxy[v] # None
      BY <2>7, <2>9
    <3>2. y \in Voters \ {c.who}
      BY <2>4, <2>6, <3>1
    <3> DEFINE B == A \cup {v}
    <3>3. B \in SUBSET Voters /\ y \notin B
      BY <2>1, <2>5, <3>1
    <3>4. Cardinality(B) >= i + 1
      <4>1. v \notin A /\ Cardinality(A) >= i
        BY <2>2 DEF LeadTo
      <4>2. Cardinality(A) \in Nat /\ Cardinality(B) = Cardinality(A) + 1
        BY <2>1, <4>1, OneMore
      <4> QED
        BY <4>1, <4>2
    <3>5. \A a \in B : proxy[a] \in B \cup {y}
      BY <2>2, <3>1 DEF LeadTo
    <3>6. c.who \in B \/ c.who = None
      BY <2>2, <3>1 DEF LeadTo
    <3>7. LeadTo(B, y, c, i + 1)
      BY <3>3, <3>4, <3>5, <3>6 DEF LeadTo
    <3> QED
      BY <3>2, <3>3, <3>7
  <2> HIDE DEF r, y
  <2>10. Call(z)[1] = r /\ Call(z)[2] = y
    BY DEF r, y
  <2> QED
    BY <2>7, <2>8, <2>9, <2>10 DEF Reached
<1> QED
  BY <1>1, <1>2

LEMMA RunReaches ==
  ASSUME Setting, Acyclic, NEW s, NEW c, Shows(c), NEW v, Reached(<<s, v>>, 0, s, c),
         NEW n \in Nat, NEW f, IsRun(f, n, s, v)
  PROVE  \A i \in 0 .. n : Reached(f[i], i, s, c)
<1> DEFINE Failing == {i \in 0 .. n : ~ Reached(f[i], i, s, c)}
<1>1. SUFFICES ASSUME Failing # {} PROVE FALSE
  OBVIOUS
<1>2. PICK m \in Failing : \A i \in Failing : m <= i
  <2>1. Failing \subseteq Nat
    OBVIOUS
  <2> HIDE DEF Failing
  <2> QED
    BY <1>1, <2>1, HasLowest
<1>3. m \in 0 .. n /\ ~ Reached(f[m], m, s, c)
  OBVIOUS
<1>4. m # 0
  <2>1. 0 \in 0 .. n
    OBVIOUS
  <2>2. f[0] = <<s, v>>
    BY <2>1 DEF IsRun
  <2> QED
    BY <1>3, <2>2
<1>5. m - 1 \in 0 .. n /\ m - 1 \in Nat /\ (m - 1) + 1 = m
  BY <1>3, <1>4
<1>6. Reached(f[m - 1], m - 1, s, c)
  BY <1>2, <1>5
<1>7. f[m] = Call(f[m - 1])
  BY <1>3, <1>4 DEF IsRun
<1>8. Reached(Call(f[m - 1]), (m - 1) + 1, s, c)
  BY <1>5, <1>6, CallReaches
<1> QED
  BY <1>3, <1>5, <1>7, <1>8

(* All calls together.  As many as there are voters are enough: one more   *)
(* would reach somebody who is not a voter.                                *)
LEMMA Propagated ==
  ASSUME Setting, Acyclic, NEW s, NEW c, Shows(c), NEW v \in Voters, v # c.who,
         Halfway(s, c, v), c.who = None \/ proxy[c.who] = v \/ proxy[v] = None,
         NEW r, r = propagate_weight_change(s, v)
  PROVE  Halfway(r, c, None) /\ Spared(s, r, c.who) /\ KeepsPositive(s, r)
<1> DEFINE n == Cardinality(Voters)
<1>1. n \in Nat /\ None \notin Voters
  BY FiniteSets, FS_CardinalityType
<1>2. PICK f : IsRun(f, n, s, v) /\ r = f[n][1]
  BY PropagateRuns
<1>3. Reached(<<s, v>>, 0, s, c)
  <2>1. Spared(s, s, c.who) /\ KeepsPositive(s, s)
    BY DEF Spared, KeepsPositive
  <2>2. \E A \in SUBSET Voters : LeadTo(A, v, c, 0)
    <3>1. CASE c.who = None \/ proxy[v] = None
      <4>1. Cardinality({}) >= 0
        BY FS_EmptySet
      <4>2. LeadTo({}, v, c, 0)
        BY <3>1, <4>1 DEF LeadTo
      <4> QED
        BY <4>2
    <3>2. CASE c.who # None /\ proxy[c.who] = v
      <4>1. c.who \in Voters
        BY <3>2 DEF Shows, Views
      <4>2. Cardinality({c.who}) >= 0
        <5>1. Cardinality({c.who}) = 1
          BY FS_Singleton
        <5> QED
          BY <5>1
      <4>3. LeadTo({c.who}, v, c, 0)
        BY <3>2, <4>2 DEF LeadTo
      <4> QED
        BY <4>1, <4>3
    <3> QED
      BY <3>1, <3>2
  <2> QED
    BY <2>1, <2>2 DEF Reached
<1>4. Reached(f[n], n, s, c)
  BY <1>1, <1>2, <1>3, RunReaches
<1>5. f[n][2] = None
  <2>1. SUFFICES ASSUME f[n][2] # None PROVE FALSE
    OBVIOUS
  <2>2. f[n][2] \in Voters
    BY <1>4, <2>1 DEF Reached
  <2>3. PICK A \in SUBSET Voters : LeadTo(A, f[n][2], c, n)
    BY <1>4, <2>1 DEF Reached
  <2>4. f[n][2] \notin A /\ Cardinality(A) >= n
    BY <2>3 DEF LeadTo
  <2>5. Cardinality(A) \in Nat /\ Cardinality(A) + 1 <= n
    BY <2>2, <2>4, OneMore
  <2> QED
    BY <1>1, <2>4, <2>5
<1> QED
  BY <1>2, <1>4, <1>5 DEF Reached

-----------------------------------------------------------------------------
(* The books as they are: nobody counts for anything but his row.          *)
AsIs(x, n) == [who |-> x, as |-> n, proxy |-> proxy, choice |-> choice]

(* The view of the books once v counts for n and votes as given.           *)
Changed(v, n, q, producers) ==
  [who |-> v, as |-> n, proxy |-> [proxy EXCEPT ![v] = q],
   choice |-> [choice EXCEPT ![v] = producers]]

LEMMA ViewsShow ==
  ASSUME Setting, NEW x \in Voters \cup {None}, NEW n \in Nat
  PROVE  /\ Shows(AsIs(x, n))
         /\ x \in Voters =>
              \A q \in Voters \cup {None}, producers \in SUBSET Producers :
                Shows(Changed(x, n, q, producers))
<1>1. Shows(AsIs(x, n))
  BY DEF Setting, Shows, AsIs, Views
<1>2. ASSUME x \in Voters, NEW q \in Voters \cup {None},
             NEW producers \in SUBSET Producers
      PROVE  Shows(Changed(x, n, q, producers))
  <2>1. /\ [proxy EXCEPT ![x] = q] \in [Voters -> Voters \cup {None}]
        /\ [choice EXCEPT ![x] = producers] \in [Voters -> SUBSET Producers]
    BY <1>2 DEF Setting
  <2>2. Changed(x, n, q, producers) \in Views
    BY <1>2, <2>1 DEF Changed, Views
  <2>3. \A u \in Voters \ {x} :
          /\ [proxy EXCEPT ![x] = q][u] = proxy[u]
          /\ [choice EXCEPT ![x] = producers][u] = choice[u]
    BY DEF Setting
  <2> QED
    BY <2>2, <2>3 DEF Shows, Changed
<1> QED
  BY <1>1, <1>2

(* Nothing is halfway when all weights are right. *)
AllCorrect(s, x) == \A u \in Voters \ {x} : HasVoted(u) => Correct(s, u)

LEMMA AddProxiedKeeps ==
  ASSUME Setting, Acyclic, NEW s \in Weights, NEW c, NEW e, Shows(e),
         c \in Views, Books(s, c), AllCorrect(s, e.who),
         NEW q \in Voters, q # e.who, NEW d \in EvenInt,
         Books(MoreProxied(s, q, d), e),
         e.who = None \/ proxy[e.who] = q \/ proxy[q] = None,
         NEW r, r = AddProxied(s, q, d)
  PROVE  Halfway(r, e, None) /\ Spared(s, r, e.who) /\ KeepsPositive(s, r)
<1> DEFINE m == MoreProxied(s, q, d)
<1>1. /\ m \in Weights
      /\ m.last = s.last /\ m.cast = s.cast
      /\ \A t \in Voters : m.proxied[t] = s.proxied[t] + (IF t = q THEN d ELSE 0)
  BY ProxiedFields
<1>2. r = propagate_weight_change(m, q)
  BY DEF AddProxied, MoreProxied
<1>3. \A t \in Voters \ {q} : m.proxied[t] = s.proxied[t]
  <2>1. \A t \in Voters : s.proxied[t] \in Int
    BY DEF Weights, EvenInt
  <2> QED
    BY <1>1, <2>1
<1>4. Books(m, e)
  OBVIOUS
<1> HIDE DEF m
<1>5. Halfway(m, e, q)
  <2>1. \A u \in Voters \ {e.who, q} : HasVoted(u) => Correct(m, u)
    BY <1>1, <1>3 DEF AllCorrect, Correct
  <2> QED
    BY <1>1, <1>4, <2>1 DEF Halfway
<1>6. Halfway(r, e, None) /\ Spared(m, r, e.who) /\ KeepsPositive(m, r)
  BY <1>2, <1>5, Propagated
<1>7. Spared(s, r, e.who)
  BY <1>1, <1>3, <1>6 DEF Spared
<1>8. KeepsPositive(s, r)
  BY <1>1, <1>6 DEF KeepsPositive
<1> QED
  BY <1>6, <1>7, <1>8

LEMMA AddVotesKeeps ==
  ASSUME Setting, NEW s \in Weights, NEW e, AllCorrect(s, e.who),
         NEW S \in SUBSET Producers, NEW d \in Int,
         Books(AddVotes(s, S, d), e)
  PROVE  /\ Halfway(AddVotes(s, S, d), e, None)
         /\ Spared(s, AddVotes(s, S, d), e.who)
         /\ KeepsPositive(s, AddVotes(s, S, d))
<1> DEFINE r == AddVotes(s, S, d)
<1>1. /\ r \in Weights
      /\ r.last = s.last /\ r.cast = s.cast /\ r.proxied = s.proxied
  <2>1. VotesAdded(s, S, d, r)
    BY AddVotesFields
  <2> HIDE DEF r
  <2> QED
    BY <2>1 DEF VotesAdded
<1>2. Books(r, e)
  OBVIOUS
<1> HIDE DEF r
<1>3. Spared(s, r, e.who) /\ KeepsPositive(s, r)
  BY <1>1 DEF Spared, KeepsPositive
<1>4. \A u \in Voters \ {e.who, None} : HasVoted(u) => Correct(r, u)
  BY <1>1 DEF AllCorrect, Correct
<1>5. Halfway(r, e, None)
  BY <1>1, <1>2, <1>4 DEF Halfway
<1> QED
  BY <1>3, <1>5 DEF r

-----------------------------------------------------------------------------
(* The votes of v are withdrawn: the books are right without them. *)
LEMMA WithdrawnKeeps ==
  ASSUME Setting, Acyclic, NEW s \in Weights, Books(s, AsIs(None, 0)),
         NEW v \in Voters, AllCorrect(s, v),
         NEW r, r = Withdrawn(s, v)
  PROVE  Halfway(r, AsIs(v, 0), None) /\ Spared(s, r, v) /\ KeepsPositive(s, r)
<1> DEFINE c == AsIs(None, 0)
           e == AsIs(v, 0)
           q == proxy[v]
<1>1. /\ Shows(c) /\ Shows(e) /\ c \in Views /\ e \in Views
      /\ c.proxy = proxy /\ e.proxy = proxy /\ c.choice = choice /\ e.choice = choice
      /\ c.who = None /\ e.who = v /\ e.as = 0
  <2>1. Shows(c) /\ Shows(e)
    BY ViewsShow
  <2> QED
    BY <2>1 DEF Shows, AsIs
<1>2. /\ q \in Voters \cup {None} /\ choice[v] \in SUBSET Producers
      /\ None \notin Voters /\ Books(s, c)
  BY FiniteSets DEF Setting
<1>3. s.last[v] \in EvenNat /\ s.last[v] \in Nat /\ -s.last[v] \in EvenInt
  <2>1. s.last[v] \in EvenNat
    BY DEF Weights
  <2> QED
    BY <2>1 DEF EvenNat, EvenInt, Even
<1>4. -s.last[v] \in Int /\ s.last[v] + (-s.last[v]) = 0
  BY <1>3
<1> HIDE DEF c, e
<1>5. ASSUME NEW m \in Weights, m.last = s.last
      PROVE  /\ SameBut(s, c, m, e, v)
             /\ CountsFor(s, c, v) = s.last[v] /\ CountsFor(m, e, v) = 0
  <2>1. \A u \in Voters : CountsFor(s, c, u) = s.last[u]
    BY <1>1, <1>2 DEF CountsFor
  <2>2. \A u \in Voters \ {v} : CountsFor(m, e, u) = s.last[u]
    BY <1>1, <1>5 DEF CountsFor
  <2>3. CountsFor(m, e, v) = 0
    BY <1>1 DEF CountsFor
  <2> QED
    BY <1>1, <2>1, <2>2, <2>3 DEF SameBut
<1>6. CASE q = None
  <2> DEFINE d == -s.last[v]
             m == AddVotes(s, choice[v], d)
  <2>1. r = m
    BY <1>6 DEF Withdrawn
  <2> HIDE DEF d
  <2>2. /\ m \in Weights /\ m.last = s.last /\ m.proxied = s.proxied
        /\ m.votes = [p \in Producers |-> IF p \in choice[v] THEN s.votes[p] + d
                                          ELSE s.votes[p]]
        /\ m.total = s.total + d * Cardinality(choice[v])
    <3>1. d \in Int
      BY <1>4 DEF d
    <3>2. VotesAdded(s, choice[v], d, m)
      BY <1>2, <3>1, AddVotesFields
    <3> HIDE DEF m
    <3> QED
      BY <3>2 DEF VotesAdded
  <2> HIDE DEF m
  <2>3. \A p \in Producers :
          m.votes[p] = s.votes[p] + (IF p \in choice[v] THEN d ELSE 0)
    <3>1. d \in Int /\ \A p \in Producers : s.votes[p] \in Int
      BY <1>4 DEF Weights, d
    <3> QED
      BY <2>2, <3>1
  <2>4. SameBut(s, c, m, e, v)
    BY <1>5, <2>2
  <2>5. \A p \in Producers :
          Direct(m, e, p)[v] = Direct(s, c, p)[v]
                               + (IF p \in choice[v] THEN d ELSE 0)
    BY <1>1, <1>4, <1>5, <1>6, <2>2 DEF Direct, d
  <2>6. \A t \in Voters : Through(m, e, t)[v] = Through(s, c, t)[v]
    BY <1>1, <1>2, <1>6 DEF Through
  <2>7. Books(m, e)
    <3>1. d \in Int
      BY <1>4 DEF d
    <3> QED
      BY <1>1, <1>2, <2>2, <2>3, <2>4, <2>5, <2>6, <3>1, DirectChanges
  <2>8. Halfway(m, e, None) /\ Spared(s, m, v) /\ KeepsPositive(s, m)
    <3>1. d \in Int /\ Books(AddVotes(s, choice[v], d), e) /\ AllCorrect(s, e.who)
      BY <1>1, <1>4, <2>7 DEF d, m
    <3> QED
      BY <1>1, <1>2, <3>1, AddVotesKeeps DEF m
  <2> QED
    BY <2>1, <2>8 DEF e
<1>7. CASE q # None /\ s.last[v] > 0
  <2> DEFINE d == -s.last[v]
             m == MoreProxied(s, q, d)
  <2>1. r = AddProxied(s, q, d) /\ d \in EvenInt /\ d \in Int
    BY <1>3, <1>4, <1>7 DEF Withdrawn
  <2> HIDE DEF d
  <2>2. q \in Voters /\ q # v
    <3>1. q # v
      <4>1. {v} \in (SUBSET Voters) \ {{}}
        OBVIOUS
      <4> QED
        BY <4>1 DEF Acyclic
    <3> QED
      BY <1>2, <1>7, <3>1
  <2>3. /\ m \in Weights /\ m.last = s.last
        /\ m.votes = s.votes /\ m.total = s.total
        /\ \A t \in Voters :
             m.proxied[t] = s.proxied[t] + (IF t = q THEN d ELSE 0)
    <3> HIDE DEF q
    <3> QED
      BY <2>1, <2>2, ProxiedFields
  <2> HIDE DEF m
  <2>4. SameBut(s, c, m, e, v)
    BY <1>5, <2>3
  <2>5. \A p \in Producers : Direct(m, e, p)[v] = Direct(s, c, p)[v]
    BY <1>1, <1>7 DEF Direct
  <2>6. \A t \in Voters :
          Through(m, e, t)[v] = Through(s, c, t)[v] + (IF t = q THEN d ELSE 0)
    BY <1>1, <1>4, <1>5, <2>3 DEF Through, d
  <2>7. Books(m, e)
    <3> HIDE DEF q
    <3> QED
      BY <1>1, <1>2, <2>1, <2>2, <2>3, <2>4, <2>5, <2>6, ProxiedChanges
  <2>8. Halfway(r, e, None) /\ Spared(s, r, v) /\ KeepsPositive(s, r)
    <3>1. Books(MoreProxied(s, q, d), e) /\ proxy[e.who] = q
      BY <1>1, <2>7 DEF m
    <3>2. q # e.who /\ AllCorrect(s, e.who)
      BY <1>1, <2>2
    <3> HIDE DEF q
    <3> QED
      BY <1>1, <1>2, <2>1, <2>2, <3>1, <3>2, AddProxiedKeeps
  <2> QED
    BY <2>8 DEF e
<1>8. CASE q # None /\ ~(s.last[v] > 0)
  <2>1. r = s /\ s.last[v] = 0
    BY <1>3, <1>8 DEF Withdrawn
  <2>2. SameBut(s, c, s, e, v)
    BY <1>5
  <2>3. /\ \A p \in Producers : Direct(s, e, p)[v] = Direct(s, c, p)[v]
        /\ \A t \in Voters : Through(s, e, t)[v] = Through(s, c, t)[v]
    BY <1>1, <1>5, <2>1 DEF Direct, Through
  <2>4. Books(s, e)
    <3>1. \A p \in Producers : Total(Direct(s, e, p)) = Total(Direct(s, c, p))
      BY <1>1, <2>2, <2>3, TotalsMove, EntryTypes
    <3>2. \A t \in Voters : Total(Through(s, e, t)) = Total(Through(s, c, t))
      BY <1>1, <2>2, <2>3, TotalsMove, EntryTypes
    <3> QED
      BY <1>2, <3>1, <3>2 DEF Books
  <2>5. Halfway(s, e, None) /\ Spared(s, s, v) /\ KeepsPositive(s, s)
    BY <1>1, <2>4 DEF Halfway, Spared, KeepsPositive, AllCorrect
  <2> QED
    BY <2>1, <2>5 DEF e
<1> QED
  BY <1>6, <1>7, <1>8

(* The votes of v are given, for the weight n that it has not got yet. *)
LEMMA GivenKeeps ==
  ASSUME Setting, Acyclic, NEW s, NEW v \in Voters, Halfway(s, AsIs(v, 0), None),
         NEW n \in EvenNat, NEW q \in Voters \cup {None}, q # v,
         NEW producers \in SUBSET Producers,
         q = None \/ proxy[v] = q \/ proxy[q] = None,
         NEW r, r = Given(s, q, producers, n)
  PROVE  /\ Halfway(r, Changed(v, n, q, producers), None)
         /\ Spared(s, r, v) /\ KeepsPositive(s, r)
<1> DEFINE c == AsIs(v, 0)
           e == Changed(v, n, q, producers)
<1>1. n \in Nat /\ n \in Int /\ n \in EvenInt /\ 0 + n = n
  BY DEF EvenNat, EvenInt
<1>2. /\ Shows(c) /\ Shows(e) /\ c \in Views /\ e \in Views
      /\ c.who = v /\ c.as = 0 /\ e.who = v /\ e.as = n
      /\ e.proxy[v] = q /\ e.choice[v] = producers
      /\ \A u \in Voters \ {v} : e.proxy[u] = c.proxy[u] /\ e.choice[u] = c.choice[u]
  <2>1. Shows(c) /\ Shows(e)
    BY <1>1, ViewsShow
  <2>2. c.who = v /\ c.as = 0 /\ e.who = v /\ e.as = n
    BY DEF AsIs, Changed
  <2>3. e.proxy[v] = q /\ e.choice[v] = producers
    BY DEF Changed, Setting
  <2>4. c \in Views /\ e \in Views
    BY <2>1 DEF Shows
  <2>5. \A u \in Voters \ {v} : e.proxy[u] = c.proxy[u] /\ e.choice[u] = c.choice[u]
    BY <2>1, <2>2 DEF Shows
  <2> QED
    BY <2>1, <2>2, <2>3, <2>4, <2>5
<1>3. s \in Weights /\ Books(s, c) /\ AllCorrect(s, v) /\ None \notin Voters
  <2>1. \A u \in Voters \ {v, None} : HasVoted(u) => Correct(s, u)
    BY <1>2 DEF Halfway
  <2> QED
    BY <2>1, FiniteSets DEF Halfway, AllCorrect
<1> HIDE DEF c, e
<1>4. ASSUME NEW m \in Weights, m.last = s.last
      PROVE  /\ SameBut(s, c, m, e, v)
             /\ CountsFor(s, c, v) = 0 /\ CountsFor(m, e, v) = n
  BY <1>2, <1>4 DEF SameBut, CountsFor
<1>5. CASE q = None
  <2> DEFINE m == AddVotes(s, producers, n)
  <2>1. r = m
    BY <1>5 DEF Given
  <2>2. VotesAdded(s, producers, n, m)
    BY <1>1, <1>3, AddVotesFields
  <2> HIDE DEF m
  <2>3. /\ m \in Weights /\ m.last = s.last /\ m.proxied = s.proxied
        /\ m.total = s.total + n * Cardinality(producers)
    BY <2>2 DEF VotesAdded
  <2>4. \A p \in Producers :
          m.votes[p] = s.votes[p] + (IF p \in producers THEN n ELSE 0)
    <3>1. \A p \in Producers : s.votes[p] \in Int
      BY <1>3 DEF Weights
    <3> QED
      BY <2>2, <3>1 DEF VotesAdded
  <2>5. SameBut(s, c, m, e, v)
    BY <1>4, <2>3
  <2>6. \A p \in Producers :
          Direct(m, e, p)[v] = Direct(s, c, p)[v] + (IF p \in producers THEN n ELSE 0)
    BY <1>1, <1>2, <1>4, <1>5, <2>3 DEF Direct
  <2>7. \A t \in Voters : Through(m, e, t)[v] = Through(s, c, t)[v]
    BY <1>2, <1>3, <1>4, <1>5, <2>3 DEF Through
  <2>8. Books(m, e)
    BY <1>1, <1>2, <1>3, <2>3, <2>4, <2>5, <2>6, <2>7, DirectChanges
  <2>9. Halfway(m, e, None) /\ Spared(s, m, v) /\ KeepsPositive(s, m)
    <3>1. Books(AddVotes(s, producers, n), e) /\ AllCorrect(s, e.who)
      BY <1>2, <1>3, <2>8 DEF m
    <3> QED
      BY <1>1, <1>2, <1>3, <3>1, AddVotesKeeps DEF m
  <2> QED
    BY <2>1, <2>9 DEF e
<1>6. CASE q # None
  <2> DEFINE m == MoreProxied(s, q, n)
  <2>1. r = AddProxied(s, q, n) /\ q \in Voters
    BY <1>6 DEF Given
  <2>2. /\ m \in Weights /\ m.last = s.last
        /\ m.votes = s.votes /\ m.total = s.total
        /\ \A t \in Voters : m.proxied[t] = s.proxied[t] + (IF t = q THEN n ELSE 0)
    BY <1>1, <1>3, <2>1, ProxiedFields
  <2> HIDE DEF m
  <2>3. SameBut(s, c, m, e, v)
    BY <1>4, <2>2
  <2>4. \A p \in Producers : Direct(m, e, p)[v] = Direct(s, c, p)[v]
    BY <1>2, <1>4, <1>6, <2>2 DEF Direct
  <2>5. \A t \in Voters :
          Through(m, e, t)[v] = Through(s, c, t)[v] + (IF t = q THEN n ELSE 0)
    BY <1>1, <1>2, <1>4, <2>2 DEF Through
  <2>6. Books(m, e)
    BY <1>1, <1>2, <1>3, <2>1, <2>2, <2>3, <2>4, <2>5, ProxiedChanges
  <2>7. Halfway(r, e, None) /\ Spared(s, r, v) /\ KeepsPositive(s, r)
    <3>1. Books(MoreProxied(s, q, n), e)
      BY <2>6 DEF m
    <3>2. q # e.who /\ AllCorrect(s, e.who)
          /\ (e.who = None \/ proxy[e.who] = q \/ proxy[q] = None)
      BY <1>2, <1>3, <1>6
    <3> QED
      BY <1>1, <1>2, <1>3, <2>1, <3>1, <3>2, AddProxiedKeeps
  <2> QED
    BY <2>7 DEF e
<1> QED
  BY <1>5, <1>6

-----------------------------------------------------------------------------
(* The types, with those of the weights that the books imply. *)
RowTypes ==
  /\ hasRow \subseteq Voters
  /\ staked \in [Voters -> Nat]
  /\ proxy \in [Voters -> hasRow \cup {None}]
  /\ choice \in [Voters -> SUBSET registered]
  /\ isProxy \in [Voters -> BOOLEAN]
  /\ registered \subseteq Producers /\ active \subseteq registered
  /\ activatedStake \in Nat /\ activated \in BOOLEAN
  /\ schedule \subseteq Producers
  /\ epoch \in 0 .. MaxEpoch
  /\ w \in Weights

RowlessIdle ==
  \A v \in Voters \ hasRow : proxy[v] = None /\ choice[v] = {} /\ ~isProxy[v]

(* The weight of who has voted is that of its stake when it was last       *)
(* counted and, while it is a proxy, what is delegated to it.              *)
WeightsRight ==
  \A v \in Voters :
    HasVoted(v) =>
      w.last[v] = staked[v] * Factor[w.cast[v]] + (IF isProxy[v] THEN w.proxied[v] ELSE 0)

BooksRight == Books(w, AsIs(None, 0))

(* The stakes of those with a weight: what is activated is no more, as     *)
(* long as stakes are counted.                                             *)
Weighing == [v \in Voters |-> IF w.last[v] > 0 THEN staked[v] ELSE 0]
ActivatedBacked == ~activated => activatedStake <= Total(Weighing)

VotingInv ==
  RowTypes /\ RowlessIdle /\ ChainsEnd /\ BooksRight /\ WeightsRight /\ ActivatedBacked

LEMMA InvImpliesAcyclic == VotingInv => Acyclic
BY DEF VotingInv, ChainsEnd, Acyclic

(* A vote is withdrawn, given and weighed. *)
LEMMA UpdateVotesKeeps ==
  ASSUME VotingInv, Setting, NEW v \in Voters,
         NEW q \in Voters \cup {None}, q # v, NEW producers \in SUBSET Producers,
         \A u \in Voters \ {v} : staked'[u] = staked[u],
         isProxy' = isProxy,
         q = None \/ isProxy[q] \/ q = proxy[v],
         update_votes(v, q, producers)
  PROVE  /\ w' \in Weights /\ BooksRight' /\ WeightsRight'
         /\ \A u \in Voters :
              staked'[u] > 0 /\ (w.last[u] > 0 \/ u = v) => w'.last[u] > 0
<1> DEFINE n == Weight(w, v)
           s == Withdrawn(w, v)
           r == Given(s, q, producers, n)
           c == AsIs(None, 0)
           e == Changed(v, n, q, producers)
<1>1. /\ w' = Weighed(r, v, n)
      /\ proxy' = [proxy EXCEPT ![v] = q]
      /\ choice' = [choice EXCEPT ![v] = producers]
  BY DEF update_votes
<1>2. /\ Acyclic /\ w \in Weights /\ Books(w, c) /\ c \in Views
      /\ epoch \in 0 .. MaxEpoch /\ None \notin Voters
  <2>1. Shows(c)
    BY ViewsShow
  <2> QED
    BY <2>1, InvImpliesAcyclic, FiniteSets DEF VotingInv, RowTypes, BooksRight, Shows
<1>3. n \in EvenNat /\ (staked'[v] > 0 => n > 0)
  BY <1>2, WeightType
<1>4. AllCorrect(w, v)
  <2>1. \A u \in Voters \ {v} : HasVoted(u) => Correct(w, u)
    BY DEF VotingInv, WeightsRight, Correct
  <2> QED
    BY <2>1 DEF AllCorrect
<1>5. Halfway(s, AsIs(v, 0), None) /\ Spared(w, s, v) /\ KeepsPositive(w, s)
  <2> HIDE DEF s
  <2>1. s = Withdrawn(w, v)
    BY DEF s
  <2> QED
    BY <1>2, <1>4, <2>1, WithdrawnKeeps
<1>6. q = None \/ proxy[v] = q \/ proxy[q] = None
  BY DEF VotingInv, ChainsEnd
<1> HIDE DEF n, s
<1>7. Halfway(r, e, None) /\ Spared(s, r, v) /\ KeepsPositive(s, r)
  <2> HIDE DEF r
  <2>1. r = Given(s, q, producers, n)
    BY DEF r
  <2> QED
    BY <1>2, <1>3, <1>5, <1>6, <2>1, GivenKeeps
<1>8. e \in Views /\ e.who = v /\ e.as = n /\ e.proxy = proxy' /\ e.choice = choice'
  <2>1. n \in Nat
    BY <1>3 DEF EvenNat
  <2>2. Shows(e)
    BY <2>1, ViewsShow
  <2> QED
    BY <1>1, <2>2 DEF Shows, Changed
<1> HIDE DEF r, e
<1>9. r \in Weights /\ Books(r, e)
  BY <1>7 DEF Halfway
<1>10. /\ w' \in Weights
       /\ w'.last = [r.last EXCEPT ![v] = n]
       /\ w'.cast = [r.cast EXCEPT ![v] = epoch]
       /\ w'.proxied = r.proxied /\ w'.votes = r.votes /\ w'.total = r.total
  BY <1>1, <1>2, <1>3, <1>9, WeighedFields
<1>11. /\ w'.last[v] = n /\ w'.cast[v] = epoch
       /\ \A u \in Voters \ {v} : w'.last[u] = r.last[u] /\ w'.cast[u] = r.cast[u]
  BY <1>9, <1>10 DEF Weights
<1>12. BooksRight'
  <2> DEFINE f == AsIs(None, 0)'
  <2>1. f.who = None /\ f.proxy = proxy' /\ f.choice = choice'
    BY DEF AsIs
  <2> HIDE DEF f
  <2>2. \A u \in Voters : CountsFor(w', f, u) = CountsFor(r, e, u)
    BY <1>2, <1>8, <1>11, <2>1 DEF CountsFor
  <2>3. \A p \in Producers : Direct(w', f, p) = Direct(r, e, p)
    BY <1>8, <2>1, <2>2 DEF Direct
  <2>4. \A t \in Voters : Through(w', f, t) = Through(r, e, t)
    BY <1>8, <2>1, <2>2 DEF Through
  <2>5. Books(w', f)
    BY <1>9, <1>10, <2>3, <2>4 DEF Books
  <2> QED
    BY <2>5 DEF BooksRight, f
<1>13. WeightsRight'
  <2> SUFFICES ASSUME NEW u \in Voters, HasVoted(u)'
               PROVE  w'.last[u] = staked'[u] * Factor[w'.cast[u]]
                                   + (IF isProxy'[u] THEN w'.proxied[u] ELSE 0)
    BY DEF WeightsRight
  <2>1. CASE u = v
    <3>1. r.proxied[v] = w.proxied[v]
      BY <1>5, <1>7 DEF Spared
    <3>2. n = staked'[v] * Factor[epoch] + (IF isProxy'[v] THEN w.proxied[v] ELSE 0)
      BY DEF n, Weight, stake2vote
    <3> QED
      BY <1>10, <1>11, <2>1, <3>1, <3>2
  <2>2. CASE u # v
    <3>1. HasVoted(u)
      BY <1>1, <2>2 DEF HasVoted, Setting
    <3>2. Correct(r, u)
      <4>1. u \in Voters \ {v, None}
        BY <1>2, <2>2
      <4> QED
        BY <1>7, <1>8, <3>1, <4>1 DEF Halfway
    <3> QED
      BY <1>10, <1>11, <2>2, <3>2 DEF Correct
  <2> QED
    BY <2>1, <2>2
<1>14. ASSUME NEW u \in Voters, staked'[u] > 0, w.last[u] > 0 \/ u = v
       PROVE  w'.last[u] > 0
  <2>1. CASE u = v
    BY <1>3, <1>11, <1>14, <2>1
  <2>2. CASE u # v
    <3>1. r.last[u] > 0
      BY <1>5, <1>7, <1>14, <2>2 DEF KeepsPositive
    <3> QED
      BY <1>11, <2>2, <3>1
  <2> QED
    BY <2>1, <2>2
<1> QED
  BY <1>10, <1>12, <1>13, <1>14

-----------------------------------------------------------------------------
(* What no action does to the stakes that are counted as activated. *)
StepBacked ==
  /\ ~activated => activatedStake' <= Total(Weighing)'
  /\ activated => activated'
  /\ activated' # activated => ~activated /\ activatedStake' >= MinActivated

LEMMA WeighingType ==
  /\ RowTypes => Weighing \in [Voters -> Nat]
  /\ (staked \in [Voters -> Nat])' => (Weighing \in [Voters -> Nat])'
BY DEF RowTypes, Weighing

LEMMA WeighingGrows ==
  ASSUME RowTypes, staked' \in [Voters -> Nat],
         \A u \in Voters :
           /\ staked'[u] >= staked[u]
           /\ staked'[u] > 0 /\ w.last[u] > 0 => w'.last[u] > 0
  PROVE  /\ \A u \in Voters : Weighing[u] <= Weighing'[u]
         /\ Total(Weighing) <= Total(Weighing)'
<1>1. Weighing \in [Voters -> Nat] /\ Weighing' \in [Voters -> Nat]
  BY WeighingType
<1>2. ASSUME NEW u \in Voters
      PROVE  Weighing[u] <= Weighing'[u]
  <2>1. /\ staked[u] \in Nat /\ staked'[u] \in Nat /\ staked'[u] >= staked[u]
        /\ staked'[u] > 0 /\ w.last[u] > 0 => w'.last[u] > 0
    BY DEF RowTypes
  <2>2. /\ Weighing[u] = (IF w.last[u] > 0 THEN staked[u] ELSE 0)
        /\ Weighing'[u] = (IF w'.last[u] > 0 THEN staked'[u] ELSE 0)
    BY DEF Weighing
  <2>3. CASE staked'[u] > 0
    BY <2>1, <2>2, <2>3
  <2>4. CASE ~(staked'[u] > 0)
    BY <2>1, <2>2, <2>4
  <2> QED
    BY <2>3, <2>4
<1> QED
  BY <1>1, <1>2, FiniteSets, TotalLeq

(* Without a vote whose stake is counted. *)
LEMMA NoCountBacked ==
  ASSUME VotingInv, staked' \in [Voters -> Nat], UNCHANGED activation,
         ~activated => \A u \in Voters :
                         /\ staked'[u] >= staked[u]
                         /\ staked'[u] > 0 /\ w.last[u] > 0 => w'.last[u] > 0
  PROVE  StepBacked
<1>1. activatedStake' = activatedStake /\ activated' = activated
  BY Zenon DEF activation
<1>2. ASSUME ~activated
      PROVE  activatedStake' <= Total(Weighing)'
  <2>1. Total(Weighing) <= Total(Weighing)'
    BY <1>2, WeighingGrows DEF VotingInv
  <2>2. activatedStake <= Total(Weighing) /\ activatedStake \in Nat
    BY <1>2 DEF VotingInv, ActivatedBacked, RowTypes
  <2>3. Total(Weighing) \in Nat /\ Total(Weighing)' \in Nat
    <3>1. Weighing \in [Voters -> Nat] /\ Weighing' \in [Voters -> Nat]
      BY WeighingType DEF VotingInv
    <3> QED
      BY <3>1, FiniteSets, TotalType
  <2> QED
    BY <1>1, <2>1, <2>2, <2>3
<1> QED
  BY <1>1, <1>2 DEF StepBacked

(* The stake of v is counted if it had no weight before. *)
LEMMA CountBacked ==
  ASSUME VotingInv, staked' \in [Voters -> Nat], NEW v \in Voters, CountActivated(v),
         ~activated => \A u \in Voters : staked'[u] >= staked[u],
         \A u \in Voters :
           staked'[u] > 0 /\ (w.last[u] > 0 \/ u = v) => w'.last[u] > 0
  PROVE  activatedStake' \in Nat /\ activated' \in BOOLEAN /\ StepBacked
<1>1. CASE ~ FirstVote(v)
  <2>1. UNCHANGED activation
    BY <1>1 DEF CountActivated
  <2>2. StepBacked
    BY <2>1, NoCountBacked
  <2>3. activatedStake' = activatedStake /\ activated' = activated
    BY <2>1, Zenon DEF activation
  <2> QED
    BY <2>2, <2>3 DEF VotingInv, RowTypes
<1>2. CASE FirstVote(v)
  <2>1. /\ ~activated /\ w.last[v] <= 0
        /\ activatedStake' = activatedStake + staked'[v]
        /\ activated' = (activatedStake' >= MinActivated)
    BY <1>2, Zenon DEF CountActivated, FirstVote
  <2>2. /\ activatedStake \in Nat /\ staked'[v] \in Nat /\ activatedStake' \in Nat
        /\ activatedStake <= Total(Weighing)
    BY <2>1 DEF VotingInv, ActivatedBacked, RowTypes
  <2>3. Weighing \in [Voters -> Nat] /\ Weighing' \in [Voters -> Nat]
    BY WeighingType DEF VotingInv
  <2>4. \A u \in Voters : Weighing[u] <= Weighing'[u]
    BY <2>1, WeighingGrows DEF VotingInv
  <2>5. Weighing[v] = 0 /\ Weighing'[v] = staked'[v]
    <3>1. w.last[v] \in EvenNat
      BY DEF VotingInv, RowTypes, Weights
    <3>2. Weighing[v] = 0
      BY <2>1, <3>1 DEF Weighing, EvenNat
    <3>3. Weighing'[v] = (IF w'.last[v] > 0 THEN staked'[v] ELSE 0)
      BY DEF Weighing
    <3>4. staked'[v] > 0 => w'.last[v] > 0
      OBVIOUS
    <3> QED
      BY <2>2, <3>2, <3>3, <3>4
  <2> DEFINE counted == [Weighing EXCEPT ![v] = staked'[v]]
  <2>6. Total(counted) = Total(Weighing) - Weighing[v] + staked'[v]
    <3>1. /\ counted \in [Voters -> Nat] /\ counted[v] = staked'[v]
          /\ \A u \in Voters \ {v} : counted[u] = Weighing[u]
      BY <2>2, <2>3
    <3> HIDE DEF counted
    <3> QED
      BY <2>3, <3>1, FiniteSets, TotalChange
  <2>7. Total(counted) <= Total(Weighing')
    <3>1. counted \in [Voters -> Nat] /\ \A u \in Voters : counted[u] <= Weighing'[u]
      BY <2>2, <2>3, <2>4, <2>5
    <3> HIDE DEF counted
    <3> QED
      BY <2>3, <3>1, FiniteSets, TotalLeq
  <2>8. Total(Weighing) \in Nat /\ Total(Weighing') \in Nat
    BY <2>3, FiniteSets, TotalType
  <2>9. activatedStake' <= Total(Weighing')
    <3> HIDE DEF counted
    <3> QED
      BY <2>1, <2>2, <2>5, <2>6, <2>7, <2>8
  <2>10. activated' # activated => activatedStake' >= MinActivated
    BY <2>1, SMT DEF VotingInv, RowTypes
  <2>11. activated' \in BOOLEAN
    BY <2>1, SMT
  <2> QED
    BY <2>1, <2>2, <2>9, <2>10, <2>11, Zenon DEF StepBacked
<1> QED
  BY <1>1, <1>2

(* What has been activated is backed after the step, too. *)
LEMMA BackedAfter == StepBacked => ActivatedBacked'
BY Zenon DEF StepBacked, ActivatedBacked

-----------------------------------------------------------------------------
(* At first nobody has a row, and all books are empty. *)
LEMMA VotingBegins == Init => VotingInv
<1> SUFFICES ASSUME Init PROVE VotingInv
  OBVIOUS
<1> USE FiniteSets
<1>1. w \in Weights
  <2>1. 0 \in EvenNat /\ 0 \in EvenInt /\ 0 \in 0 .. MaxEpoch
    BY VotingAssumption DEF EvenNat, EvenInt, Even
  <2> QED
    BY <2>1 DEF Init, Weights
<1>2. RowTypes
  <2>1. 0 \in 0 .. MaxEpoch
    BY VotingAssumption
  <2> QED
    BY <1>1, <2>1 DEF Init, RowTypes
<1>3. RowlessIdle
  BY DEF Init, RowlessIdle
<1>4. ChainsEnd
  <2>1. \A v \in Voters : proxy[v] = None /\ isProxy[v] = FALSE
    BY DEF Init
  <2> QED
    BY <2>1 DEF ChainsEnd
<1>5. /\ \A v \in Voters : proxy[v] = None /\ choice[v] = {} /\ w.last[v] = 0
      /\ \A v \in Voters : w.proxied[v] = 0
      /\ w.votes = [p \in Producers |-> 0] /\ w.total = 0
  BY DEF Init
<1>6. BooksRight
  <2> DEFINE c == AsIs(None, 0)
  <2>1. /\ c.who = None /\ c.proxy = proxy /\ c.choice = choice
        /\ \A u \in Voters : CountsFor(w, c, u) = 0
    BY <1>5 DEF AsIs, CountsFor
  <2> HIDE DEF c
  <2>2. /\ \A p \in Producers : Direct(w, c, p) = [u \in Voters |-> 0]
        /\ \A q \in Voters : Through(w, c, q) = [u \in Voters |-> 0]
    BY <1>5, <2>1 DEF Direct, Through
  <2>3. Total([u \in Voters |-> 0]) = 0 /\ Total([p \in Producers |-> 0]) = 0
    <3>1. /\ [u \in Voters |-> 0] \in [Voters -> Nat]
          /\ [p \in Producers |-> 0] \in [Producers -> Nat]
      OBVIOUS
    <3> QED
      BY <3>1, TotalZero
  <2>4. Books(w, c)
    BY <1>5, <2>2, <2>3 DEF Books
  <2> QED
    BY <2>4 DEF BooksRight, c
<1>7. WeightsRight
  BY <1>5 DEF WeightsRight, HasVoted
<1>8. ActivatedBacked
  BY <1>2, WeighingType, TotalType DEF Init, ActivatedBacked
<1> QED
  BY <1>2, <1>3, <1>4, <1>6, <1>7, <1>8 DEF VotingInv

-----------------------------------------------------------------------------
(* Each action.  A vote: what it adds to the proxies leads on to nobody,   *)
(* as who is voted through is a proxy and uses none.                       *)
LEMMA VoteproducerKeeps ==
  ASSUME VotingInv, NEW v \in Voters, NEW q \in Voters \cup {None},
         NEW producers \in SUBSET Producers, voteproducer(v, q, producers)
  PROVE  VotingInv' /\ StepBacked
<1>1. /\ v \in hasRow /\ ValidVote(v, q, producers)
      /\ hasRow' = hasRow /\ staked' = staked /\ isProxy' = isProxy
      /\ update_votes(v, q, producers)
      /\ registered' = registered /\ active' = active
      /\ schedule' = schedule /\ epoch' = epoch
  BY DEF voteproducer, producer
<1>2. /\ CountActivated(v)
      /\ proxy' = [proxy EXCEPT ![v] = q]
      /\ choice' = [choice EXCEPT ![v] = producers]
  BY <1>1 DEF update_votes
<1>3. RowTypes /\ RowlessIdle /\ ChainsEnd /\ None \notin Voters
  BY FiniteSets DEF VotingInv
<1>4. /\ q = None => producers \subseteq active
      /\ q # None => /\ producers = {} /\ q # v /\ ~isProxy[v]
                     /\ q \in hasRow /\ isProxy[q]
  BY <1>1 DEF ValidVote
<1>5. Setting
  BY <1>1, <1>3 DEF Setting, RowTypes
<1>6. /\ w' \in Weights /\ BooksRight' /\ WeightsRight'
      /\ \A u \in Voters :
           staked'[u] > 0 /\ (w.last[u] > 0 \/ u = v) => w'.last[u] > 0
  <2>1. q # v /\ (q = None \/ isProxy[q] \/ q = proxy[v])
    BY <1>3, <1>4
  <2> QED
    BY <1>1, <1>5, <2>1, UpdateVotesKeeps
<1>7. activatedStake' \in Nat /\ activated' \in BOOLEAN /\ StepBacked
  <2>1. staked' \in [Voters -> Nat] /\ \A u \in Voters : staked'[u] >= staked[u]
    BY <1>1, <1>3 DEF RowTypes
  <2> QED
    BY <1>2, <1>6, <2>1, CountBacked
<1>8. RowTypes'
  <2>1. producers \subseteq registered
    BY <1>3, <1>4 DEF RowTypes
  <2>2. choice' \in [Voters -> SUBSET registered]
    BY <1>2, <1>3, <2>1 DEF RowTypes
  <2>3. proxy' \in [Voters -> hasRow \cup {None}]
    <3>1. q \in hasRow \cup {None}
      BY <1>4
    <3> QED
      BY <1>2, <1>3, <3>1 DEF RowTypes
  <2> QED
    BY <1>1, <1>3, <1>6, <1>7, <2>2, <2>3 DEF RowTypes
<1>9. RowlessIdle'
  BY <1>1, <1>2, <1>3 DEF RowlessIdle, RowTypes
<1>10. /\ proxy'[v] = q
       /\ \A u \in Voters \ {v} : proxy'[u] = proxy[u]
  BY <1>2, <1>3 DEF RowTypes
<1>11. ASSUME NEW S \in (SUBSET Voters) \ {{}}
       PROVE  \E u \in S : proxy'[u] \notin S
  <2>1. PICK u \in S : proxy[u] \notin S
    BY <1>3 DEF ChainsEnd
  <2>2. CASE v \notin S
    BY <1>10, <2>1, <2>2
  <2>3. CASE v \in S /\ q \notin S
    BY <1>10, <2>3
  <2>4. CASE v \in S /\ q \in S
    <3>1. q \in Voters /\ q # None /\ q # v /\ proxy[q] = None
      BY <1>3, <1>4, <2>4 DEF ChainsEnd
    <3> QED
      BY <1>3, <1>10, <2>4, <3>1
  <2> QED
    BY <2>2, <2>3, <2>4
<1>12. \A u \in Voters : isProxy'[u] => proxy'[u] = None
  BY <1>1, <1>3, <1>4, <1>10 DEF ChainsEnd
<1>13. ChainsEnd'
  BY <1>11, <1>12 DEF ChainsEnd
<1> QED
  BY <1>6, <1>7, <1>8, <1>9, <1>13, BackedAfter DEF VotingInv

(* A change of stake counts the votes of v again, if it has voted. *)
LEMMA UpdateVotingPowerKeeps ==
  ASSUME VotingInv, NEW v \in Voters, NEW delta \in Deltas,
         update_voting_power(v, delta)
  PROVE  VotingInv' /\ StepBacked
<1>1. /\ staked[v] + delta >= 0 /\ (delta < 0 => activated)
      /\ hasRow' = hasRow \cup {v}
      /\ staked' = [staked EXCEPT ![v] = @ + delta]
      /\ isProxy' = isProxy
      /\ IF HasVoted(v) THEN update_votes(v, proxy[v], choice[v])
         ELSE UNCHANGED <<w, proxy, choice, activation>>
      /\ registered' = registered /\ active' = active
      /\ schedule' = schedule /\ epoch' = epoch
  BY DEF update_voting_power, producer
<1>2. RowTypes /\ RowlessIdle /\ ChainsEnd /\ None \notin Voters /\ delta \in Int
  BY FiniteSets, VotingAssumption DEF VotingInv
<1>3. /\ staked' \in [Voters -> Nat]
      /\ staked'[v] = staked[v] + delta
      /\ \A u \in Voters \ {v} : staked'[u] = staked[u]
  <2>1. staked \in [Voters -> Nat] /\ staked[v] + delta \in Nat
    BY <1>1, <1>2 DEF RowTypes
  <2> QED
    BY <1>1, <2>1
<1>4. ~activated => \A u \in Voters : staked'[u] >= staked[u]
  <2>1. \A u \in Voters : staked[u] \in Nat
    BY <1>2 DEF RowTypes
  <2>2. ~activated => delta >= 0
    BY <1>1, <1>2
  <2> QED
    BY <1>2, <1>3, <2>1, <2>2
<1>5. Setting
  BY <1>1, <1>2, <1>3 DEF Setting, RowTypes
<1>6. /\ proxy' = proxy /\ choice' = choice
      /\ w' \in Weights /\ BooksRight' /\ WeightsRight'
      /\ activatedStake' \in Nat /\ activated' \in BOOLEAN /\ StepBacked
  <2>1. CASE HasVoted(v)
    <3>1. update_votes(v, proxy[v], choice[v])
      BY <1>1, <2>1
    <3>2. proxy' = proxy /\ choice' = choice /\ CountActivated(v)
      BY <1>5, <3>1 DEF update_votes, Setting
    <3>3. /\ proxy[v] \in Voters \cup {None} /\ proxy[v] # v
          /\ choice[v] \in SUBSET Producers
      <4>1. {v} \in (SUBSET Voters) \ {{}}
        OBVIOUS
      <4> QED
        BY <1>2, <1>5, <4>1 DEF ChainsEnd, Setting
    <3>4. /\ w' \in Weights /\ BooksRight' /\ WeightsRight'
          /\ \A u \in Voters :
               staked'[u] > 0 /\ (w.last[u] > 0 \/ u = v) => w'.last[u] > 0
      BY <1>1, <1>3, <1>5, <3>1, <3>3, UpdateVotesKeeps
    <3> QED
      BY <1>3, <1>4, <3>2, <3>4, CountBacked
  <2>2. CASE ~ HasVoted(v)
    <3>1. w' = w /\ proxy' = proxy /\ choice' = choice /\ UNCHANGED activation
      BY <1>1, <2>2
    <3>2. StepBacked
      BY <1>3, <1>4, <3>1, NoCountBacked
    <3>3. BooksRight'
      BY <3>1 DEF VotingInv, BooksRight, AsIs
    <3>4. WeightsRight'
      BY <1>1, <1>3, <2>2, <3>1 DEF VotingInv, WeightsRight, HasVoted
    <3>5. activatedStake' = activatedStake /\ activated' = activated
      BY <3>1, Zenon DEF activation
    <3> QED
      BY <1>2, <3>1, <3>2, <3>3, <3>4, <3>5 DEF RowTypes
  <2> QED
    BY <2>1, <2>2
<1>7. RowTypes'
  BY <1>1, <1>2, <1>3, <1>6 DEF RowTypes
<1>8. RowlessIdle' /\ ChainsEnd'
  BY <1>1, <1>2, <1>6 DEF RowlessIdle, ChainsEnd
<1> QED
  BY <1>6, <1>7, <1>8, BackedAfter DEF VotingInv

(* Becoming a proxy, or ceasing to be one, changes the weight of v and     *)
(* whatever depends on it; without a row it has no votes.                  *)
LEMMA RegproxyKeeps ==
  ASSUME VotingInv, NEW v \in Voters, NEW isproxy \in BOOLEAN, regproxy(v, isproxy)
  PROVE  VotingInv' /\ StepBacked
<1>1. /\ isProxy' = [isProxy EXCEPT ![v] = isproxy]
      /\ staked' = staked /\ proxy' = proxy /\ choice' = choice
      /\ registered' = registered /\ active' = active /\ UNCHANGED activation
      /\ schedule' = schedule /\ epoch' = epoch
  BY DEF regproxy, producer
<1>2. /\ hasRow' = hasRow \cup {v}
      /\ v \in hasRow => /\ isproxy => proxy[v] = None
                         /\ w' = propagate_weight_change(w, v)
      /\ v \notin hasRow => w' = w
  BY DEF regproxy, UsesNoProxy
<1>3. RowTypes /\ RowlessIdle /\ ChainsEnd /\ Acyclic /\ None \notin Voters
  BY FiniteSets, InvImpliesAcyclic DEF VotingInv
<1>4. /\ isProxy' \in [Voters -> BOOLEAN] /\ isProxy'[v] = isproxy
      /\ \A u \in Voters \ {v} : isProxy'[u] = isProxy[u]
  BY <1>1, <1>3 DEF RowTypes
<1>5. Setting
  BY <1>1, <1>3, <1>4 DEF Setting, RowTypes
<1>6. /\ w' \in Weights /\ BooksRight' /\ WeightsRight'
      /\ \A u \in Voters : staked'[u] > 0 /\ w.last[u] > 0 => w'.last[u] > 0
  <2>1. CASE v \in hasRow
    <3> DEFINE c == AsIs(None, 0)
    <3>1. Shows(c) /\ c.who = None
      BY <1>5, ViewsShow DEF AsIs
    <3>2. Halfway(w, c, v)
      <4>1. w \in Weights /\ Books(w, c)
        BY <1>3 DEF VotingInv, RowTypes, BooksRight
      <4>2. \A u \in Voters \ {None, v} : HasVoted(u) => Correct(w, u)
        BY <1>1, <1>4 DEF VotingInv, WeightsRight, Correct
      <4> HIDE DEF c
      <4> QED
        BY <3>1, <4>1, <4>2 DEF Halfway
    <3>3. Halfway(w', c, None) /\ KeepsPositive(w, w')
      <4>1. w' = propagate_weight_change(w, v)
        BY <1>2, <2>1
      <4> HIDE DEF c
      <4>2. \A r : r = propagate_weight_change(w, v) =>
                     Halfway(r, c, None) /\ KeepsPositive(w, r)
        BY <1>3, <1>5, <3>1, <3>2, Propagated
      <4> QED
        BY <4>1, <4>2
    <3>4. w' \in Weights /\ BooksRight'
      <4>1. c = AsIs(None, 0)'
        BY <1>1 DEF AsIs
      <4> HIDE DEF c
      <4> QED
        BY <3>3, <4>1 DEF Halfway, BooksRight
    <3>5. WeightsRight'
      <4>1. \A u \in Voters : HasVoted(u) => Correct(w', u)
        <5> HIDE DEF c
        <5> QED
          BY <1>3, <3>1, <3>3 DEF Halfway
      <4> QED
        BY <1>1, <4>1 DEF WeightsRight, Correct, HasVoted
    <3> QED
      BY <3>3, <3>4, <3>5 DEF KeepsPositive
  <2>2. CASE v \notin hasRow
    <3>1. w' = w /\ ~HasVoted(v)
      BY <1>2, <1>3, <2>2 DEF RowlessIdle, HasVoted
    <3>2. BooksRight'
      BY <1>1, <3>1 DEF VotingInv, BooksRight, AsIs
    <3>3. WeightsRight'
      BY <1>1, <1>4, <3>1 DEF VotingInv, WeightsRight, HasVoted
    <3> QED
      BY <1>3, <3>1, <3>2, <3>3 DEF RowTypes
  <2> QED
    BY <2>1, <2>2
<1>7. StepBacked
  <2>1. staked' \in [Voters -> Nat] /\ \A u \in Voters : staked'[u] >= staked[u]
    BY <1>1, <1>3 DEF RowTypes
  <2> QED
    BY <1>1, <1>6, <2>1, NoCountBacked
<1>8. RowTypes'
  <2>1. activatedStake' = activatedStake /\ activated' = activated
    BY <1>1, Zenon DEF activation
  <2> QED
    BY <1>1, <1>2, <1>3, <1>4, <1>6, <2>1 DEF RowTypes
<1>9. RowlessIdle'
  BY <1>1, <1>2, <1>3, <1>4 DEF RowlessIdle
<1>10. ChainsEnd'
  <2>1. isproxy => proxy[v] = None
    BY <1>2, <1>3 DEF RowlessIdle
  <2> QED
    BY <1>1, <1>3, <1>4, <2>1 DEF ChainsEnd
<1> QED
  BY <1>6, <1>7, <1>8, <1>9, <1>10, BackedAfter DEF VotingInv

(* The other actions change no stake and no vote. *)
LEMMA OthersKeep ==
  ASSUME VotingInv,
         \/ \E p \in Producers : regproducer(p) \/ deactivate(p)
         \/ update_elected_producers \/ Tick \/ UNCHANGED vars
  PROVE  VotingInv' /\ StepBacked
<1>1. /\ hasRow' = hasRow /\ staked' = staked /\ proxy' = proxy
      /\ choice' = choice /\ isProxy' = isProxy /\ w' = w
      /\ UNCHANGED activation
  BY DEF regproducer, deactivate, update_elected_producers, Tick, vars, voter
<1>2. /\ registered \subseteq registered' /\ registered' \subseteq Producers
      /\ active' \subseteq registered'
      /\ schedule' \subseteq Producers /\ epoch' \in 0 .. MaxEpoch
  <2>1. \A rows \in Index : TopProducers(rows) \subseteq registered
    BY DEF Index, TopProducers
  <2>2. /\ registered \subseteq Producers /\ schedule \subseteq Producers
        /\ active \subseteq registered /\ epoch \in 0 .. MaxEpoch
    BY DEF VotingInv, RowTypes
  <2>3. schedule' \subseteq Producers
    BY <2>1, <2>2 DEF regproducer, deactivate, update_elected_producers, Tick, vars
  <2> QED
    BY VotingAssumption, <2>2, <2>3 DEF regproducer, deactivate,
         update_elected_producers, Tick, vars, producer
<1>3. RowTypes'
  <2>1. activatedStake' = activatedStake /\ activated' = activated
    BY <1>1, Zenon DEF activation
  <2>2. choice' \in [Voters -> SUBSET registered']
    BY <1>1, <1>2 DEF VotingInv, RowTypes
  <2> QED
    BY <1>1, <1>2, <2>1, <2>2 DEF VotingInv, RowTypes
<1>4. RowlessIdle' /\ ChainsEnd'
  BY <1>1 DEF VotingInv, RowlessIdle, ChainsEnd
<1>5. BooksRight' /\ WeightsRight'
  BY <1>1 DEF VotingInv, BooksRight, AsIs, WeightsRight, HasVoted
<1>6. StepBacked
  <2>1. /\ staked' \in [Voters -> Nat]
        /\ \A u \in Voters : staked'[u] >= staked[u]
                             /\ (staked'[u] > 0 /\ w.last[u] > 0 => w'.last[u] > 0)
    BY <1>1 DEF VotingInv, RowTypes
  <2> QED
    BY <1>1, <2>1, NoCountBacked
<1> QED
  BY <1>3, <1>4, <1>5, <1>6, BackedAfter DEF VotingInv

LEMMA VotingStep ==
  ASSUME VotingInv, [Next]_vars
  PROVE  VotingInv' /\ StepBacked
<1>1. ASSUME NEW v \in Voters, NEW q \in Voters \cup {None},
             NEW producers \in SUBSET Producers, voteproducer(v, q, producers)
      PROVE  VotingInv' /\ StepBacked
  BY <1>1, VoteproducerKeeps
<1>2. ASSUME NEW v \in Voters, NEW delta \in Deltas, update_voting_power(v, delta)
      PROVE  VotingInv' /\ StepBacked
  BY <1>2, UpdateVotingPowerKeeps
<1>3. ASSUME NEW v \in Voters, NEW isproxy \in BOOLEAN, regproxy(v, isproxy)
      PROVE  VotingInv' /\ StepBacked
  BY <1>3, RegproxyKeeps
<1>4. ASSUME \/ \E p \in Producers : regproducer(p) \/ deactivate(p)
             \/ update_elected_producers \/ Tick \/ UNCHANGED vars
      PROVE  VotingInv' /\ StepBacked
  BY <1>4, OthersKeep
<1> QED
  BY <1>1, <1>2, <1>3, <1>4 DEF Next

-----------------------------------------------------------------------------
(* What the invariant says in the terms of Voting.                         *)
LEMMA InvImpliesTypes == VotingInv => TypeOK
<1> SUFFICES ASSUME VotingInv PROVE TypeOK
  OBVIOUS
<1>1. w \in Weights
  BY DEF VotingInv, RowTypes
<1>2. /\ w.votes \in [Producers -> Nat] /\ w.total \in Nat
      /\ w.proxied \in [Voters -> EvenNat]
  <2>1. AsIs(None, 0) \in Views
    BY DEF VotingInv, RowTypes, AsIs, Views
  <2> QED
    BY <1>1, <2>1, BooksTypes DEF VotingInv, BooksRight
<1>3. /\ w.last \in [Voters -> Nat] /\ w.proxied \in [Voters -> Nat]
      /\ w.cast \in [Voters -> 0 .. MaxEpoch]
  <2>1. w.last \in [Voters -> EvenNat] /\ w.cast \in [Voters -> 0 .. MaxEpoch]
    BY <1>1 DEF Weights
  <2>2. EvenNat \subseteq Nat
    BY DEF EvenNat
  <2> QED
    BY <1>2, <2>1, <2>2
<1> QED
  BY <1>2, <1>3 DEF VotingInv, RowTypes, TypeOK

LEMMA InvImpliesTotals == VotingInv => TotalsAgree
<1> SUFFICES ASSUME VotingInv PROVE TotalsAgree
  OBVIOUS
<1>1. ASSUME NEW q \in Voters
      PROVE  Through(w, AsIs(None, 0), q) = Delegators(q)
  <2>1. \A u \in Voters : CountsFor(w, AsIs(None, 0), u) = w.last[u]
    BY FiniteSets DEF CountsFor, AsIs
  <2> QED
    BY <2>1 DEF Through, Delegators, AsIs
<1> QED
  BY <1>1 DEF VotingInv, BooksRight, Books, TotalsAgree

(* Who votes for p himself adds his own stake and, as a proxy, the weights *)
(* of those who use him: grouped by proxy, these are what the books hold   *)
(* as proxied.                                                             *)
LEMMA InvImpliesVotes == VotingInv => VotesFromStakes
<1> SUFFICES ASSUME VotingInv, NEW p \in Producers
             PROVE  w.votes[p] =
                      Total([v \in Voters |-> IF p \in Effective(v)
                                              THEN staked[v] * Factor[w.cast[v]] ELSE 0])
  BY DEF VotesFromStakes, Backing
<1> DEFINE own(v) == staked[v] * Factor[w.cast[v]]
           A == {q \in Voters : proxy[q] = None /\ p \in choice[q] /\ isProxy[q]}
           mine == [v \in Voters |-> IF proxy[v] = None /\ p \in choice[v]
                                     THEN own(v) ELSE 0]
           lent == InGroups(Voters, w.last, proxy, A)
           held == ByGroup(Voters, w.last, proxy, A)
           direct == Direct(w, AsIs(None, 0), p)
           all == [v \in Voters |-> IF p \in Effective(v) THEN own(v) ELSE 0]
<1>1. /\ TypeOK /\ TotalsAgree /\ WeightsRight /\ ChainsEnd
      /\ IsFiniteSet(Voters) /\ None \notin Voters
  BY FiniteSets, InvImpliesTypes, InvImpliesTotals DEF VotingInv
<1>2. /\ w.last \in [Voters -> Nat] /\ w.proxied \in [Voters -> Nat]
      /\ \A v \in Voters : proxy[v] \in Voters \cup {None}
      /\ A \in SUBSET Voters
  BY <1>1 DEF TypeOK
<1>3. \A v \in Voters : own(v) \in Nat
  <2>1. \A v \in Voters : staked[v] \in Nat /\ w.cast[v] \in 0 .. MaxEpoch
    BY <1>1 DEF TypeOK
  <2>2. \A e \in 0 .. MaxEpoch : Factor[e] \in Nat
    BY VotingAssumption
  <2>3. \A m, n \in Nat : m * n \in Nat
    OBVIOUS
  <2> QED
    BY <2>1, <2>2, <2>3
<1>4. \A v \in Voters :
        HasVoted(v) => w.last[v] = own(v) + (IF isProxy[v] THEN w.proxied[v] ELSE 0)
  BY <1>1 DEF WeightsRight
<1> HIDE DEF own
<1>5. /\ mine \in [Voters -> Nat] /\ lent \in [Voters -> Nat]
      /\ held \in [Voters -> Nat]
  <2>1. \A q \in Voters : InGroup(Voters, w.last, proxy, q) \in [Voters -> Nat]
    BY <1>2 DEF InGroup
  <2>2. \A q \in Voters : Total(InGroup(Voters, w.last, proxy, q)) \in Nat
    BY <1>1, <2>1, TotalType
  <2> QED
    BY <1>2, <1>3, <2>2 DEF InGroups, ByGroup
(* What the books hold as proxied is what the groups add up to. *)
<1>6. held = [q \in Voters |-> IF q \in A THEN w.proxied[q] ELSE 0]
  <2>1. \A q \in Voters : w.proxied[q] = Total(InGroup(Voters, w.last, proxy, q))
    BY <1>1 DEF TotalsAgree, Delegators, InGroup
  <2> QED
    BY <2>1 DEF ByGroup
<1>7. Total(held) = Total(lent)
  BY <1>1, <1>2, TotalByGroup
<1>8. direct = [v \in Voters |-> mine[v] + held[v]]
  <2>1. direct = [v \in Voters |-> IF proxy[v] = None /\ p \in choice[v]
                                   THEN w.last[v] ELSE 0]
    BY <1>1 DEF Direct, CountsFor, AsIs
  <2>2. ASSUME NEW v \in Voters
        PROVE  (IF proxy[v] = None /\ p \in choice[v] THEN w.last[v] ELSE 0)
                 = mine[v] + held[v]
    <3>1. own(v) \in Nat /\ w.proxied[v] \in Nat
      BY <1>2, <1>3
    <3>2. /\ mine[v] = (IF proxy[v] = None /\ p \in choice[v] THEN own(v) ELSE 0)
          /\ held[v] = (IF v \in A THEN w.proxied[v] ELSE 0)
      BY <1>6
    <3>3. CASE proxy[v] = None /\ p \in choice[v]
      <4>1. w.last[v] = own(v) + (IF isProxy[v] THEN w.proxied[v] ELSE 0)
        BY <1>4, <3>3 DEF HasVoted
      <4> QED
        BY <3>1, <3>2, <3>3, <4>1
    <3>4. CASE ~(proxy[v] = None /\ p \in choice[v])
      BY <3>2, <3>4
    <3> QED
      BY <3>3, <3>4
  <2> HIDE DEF mine, held, direct
  <2> QED
    BY <2>1, <2>2
<1>9. all = [v \in Voters |-> mine[v] + lent[v]]
  <2>1. ASSUME NEW v \in Voters
        PROVE  (IF p \in Effective(v) THEN own(v) ELSE 0) = mine[v] + lent[v]
    <3>1. own(v) \in Nat /\ w.last[v] \in Nat
      BY <1>2, <1>3
    <3>2. /\ mine[v] = (IF proxy[v] = None /\ p \in choice[v] THEN own(v) ELSE 0)
          /\ lent[v] = (IF proxy[v] \in A THEN w.last[v] ELSE 0)
      BY DEF InGroups
    <3>3. CASE proxy[v] = None
      BY <1>1, <3>1, <3>2, <3>3 DEF Effective
    <3>4. CASE proxy[v] # None
      <4>1. proxy[v] \in Voters
        BY <1>2, <3>4
      <4>2. p \in Effective(v) <=> proxy[v] \in A
        BY <1>1, <3>4, <4>1 DEF Effective, ChainsEnd
      <4>3. w.last[v] = own(v)
        <5>1. ~isProxy[v]
          BY <1>1, <3>4 DEF ChainsEnd
        <5> QED
          BY <1>4, <3>1, <3>4, <5>1 DEF HasVoted
      <4> QED
        BY <3>1, <3>2, <3>4, <4>2, <4>3
    <3> QED
      BY <3>3, <3>4
  <2> HIDE DEF mine, lent
  <2> QED
    BY <2>1
<1>10. Total(direct) = Total(all)
  <2> HIDE DEF mine, held, lent, direct, all
  <2>1. \A f, g \in [Voters -> Nat] :
          Total([v \in Voters |-> f[v] + g[v]]) = Total(f) + Total(g)
    BY <1>1, TotalSum
  <2> QED
    BY <1>5, <1>7, <1>8, <1>9, <2>1
<1>11. w.votes[p] = Total(direct)
  BY DEF VotingInv, BooksRight, Books
<1>12. w.votes[p] = Total(all)
  <2> HIDE DEF direct, all
  <2> QED
    BY <1>10, <1>11
<1> QED
  BY <1>12 DEF own

(* The chain is activated by stakes of which no more than all is counted.  *)
LEMMA ActivationStep ==
  ASSUME VotingInv, VotingInv', StepBacked, activated' # activated
  PROVE  Total(staked') >= MinActivated
<1>1. activatedStake' >= MinActivated /\ activatedStake' <= Total(Weighing)'
  BY Zenon DEF StepBacked
<1>2. staked' \in [Voters -> Nat] /\ activatedStake' \in Nat /\ MinActivated \in Nat
  BY VotingAssumption DEF VotingInv, RowTypes
<1>3. Weighing' \in [Voters -> Nat] /\ \A u \in Voters : Weighing'[u] <= staked'[u]
  BY <1>2 DEF Weighing
<1>4. /\ Total(Weighing') <= Total(staked')
      /\ Total(Weighing') \in Nat /\ Total(staked') \in Nat
  BY <1>2, <1>3, FiniteSets, TotalLeq, TotalType
<1> QED
  BY <1>1, <1>2, <1>4

(* Every producer has its row in the index.                                *)
LEMMA IndexIsFull ==
  ASSUME registered \subseteq Producers, NEW rows \in Index,
         NEW p \in registered
  PROVE  \E i \in DOMAIN rows : rows[i] = p
<1> DEFINE n == Cardinality(registered)
<1>1. IsFiniteSet(registered) /\ n \in Nat
  BY FiniteSets, FS_Subset, FS_CardinalityType
<1>2. rows \in [1 .. n -> registered]
      /\ \A i, j \in 1 .. n : i < j => rows[i] # rows[j]
  BY DEF Index
<1>3. \A i, j \in 1 .. n : i # j => rows[i] # rows[j]
  BY <1>1, <1>2
<1>4. rows \in Injection(1 .. n, registered)
  BY <1>2, <1>3 DEF Injection, IsInjective
<1>5. Cardinality(1 .. n) = n
  BY <1>1, FS_Interval
<1>6. rows \in Surjection(1 .. n, registered)
  BY <1>1, <1>4, <1>5, FS_Injection
<1> QED
  BY <1>2, <1>6 DEF Surjection

(* The rows that are elected are as many as their numbers.                 *)
LEMMA TopSize ==
  ASSUME registered \subseteq Producers, NEW rows \in Index,
         NEW seats \in SUBSET (1 .. ScheduleSize), seats \subseteq DOMAIN rows
  PROVE  /\ Cardinality({rows[i] : i \in seats}) = Cardinality(seats)
         /\ Cardinality(seats) \in 0 .. ScheduleSize
         /\ seats = 1 .. ScheduleSize => Cardinality(seats) = ScheduleSize
<1>1. ScheduleSize \in Nat
  BY VotingAssumption
<1>2. IsFiniteSet(1 .. ScheduleSize) /\ Cardinality(1 .. ScheduleSize) = ScheduleSize
  <2>1. 1 \in Int /\ ScheduleSize \in Int
    BY <1>1
  <2>2. /\ IsFiniteSet(1 .. ScheduleSize)
        /\ Cardinality(1 .. ScheduleSize) =
             IF 1 > ScheduleSize THEN 0 ELSE ScheduleSize - 1 + 1
    BY <2>1, FS_Interval, Zenon
  <2> QED
    BY <1>1, <2>2
<1> DEFINE T == {rows[i] : i \in seats}
           f == [i \in seats |-> rows[i]]
<1>3. /\ IsFiniteSet(seats) /\ Cardinality(seats) \in Nat
      /\ Cardinality(seats) <= ScheduleSize
  BY <1>2, FS_Subset, FS_CardinalityType
<1>4. \A i, j \in seats : i # j => rows[i] # rows[j]
  <2>1. \A i, j \in DOMAIN rows : i < j => rows[i] # rows[j]
    BY DEF Index
  <2> QED
    BY <1>1, <2>1
<1>5. f \in Bijection(seats, T)
  BY <1>4 DEF Bijection, Injection, IsInjective, Surjection
<1>6. Cardinality(T) = Cardinality(seats)
  BY <1>3, <1>5, FS_Bijection DEF ExistsBijection
<1> QED
  BY <1>1, <1>2, <1>3, <1>6

(* The loop stops at the first row that cannot be elected, and misses      *)
(* nobody: inactive rows have keys that are not negative, and come after   *)
(* all that can be elected.                                                *)
LEMMA ElectedAreTop ==
  ASSUME w.votes \in [Producers -> Nat],
         registered \subseteq Producers, active \subseteq registered,
         NEW rows \in Index
  PROVE  /\ TopProducers(rows) \subseteq {p \in active : w.votes[p] > 0}
         /\ Cardinality(TopProducers(rows)) \in 0 .. ScheduleSize
         /\ \A q \in active \ TopProducers(rows) :
              w.votes[q] > 0 =>
                /\ Cardinality(TopProducers(rows)) = ScheduleSize
                /\ \A p \in TopProducers(rows) : w.votes[q] <= w.votes[p]
<1> DEFINE seats == {i \in DOMAIN rows :
                      i <= ScheduleSize /\ \A j \in 1 .. i : Electable(rows[j])}
           n == Cardinality(registered)
<1>1. TopProducers(rows) = {rows[i] : i \in seats}
  BY DEF TopProducers
<1>2. ScheduleSize \in Nat /\ n \in Nat
  BY VotingAssumption, FiniteSets, FS_Subset, FS_CardinalityType
<1>3. /\ DOMAIN rows = 1 .. n /\ \A i \in 1 .. n : rows[i] \in registered
      /\ \A i, j \in 1 .. n : i < j => by_votes(rows[i]) <= by_votes(rows[j])
  BY DEF Index
<1>4. seats \in SUBSET (1 .. ScheduleSize) /\ seats \subseteq DOMAIN rows
  BY <1>2, <1>3
<1>5. /\ Cardinality(TopProducers(rows)) = Cardinality(seats)
      /\ Cardinality(seats) \in 0 .. ScheduleSize
      /\ seats = 1 .. ScheduleSize => Cardinality(seats) = ScheduleSize
  BY <1>1, <1>4, TopSize
<1>6. \A i \in seats : Electable(rows[i])
  BY <1>2, <1>3
<1>7. ASSUME NEW q \in active, q \notin TopProducers(rows), w.votes[q] > 0
      PROVE  /\ Cardinality(TopProducers(rows)) = ScheduleSize
             /\ \A p \in TopProducers(rows) : w.votes[q] <= w.votes[p]
  <2>1. PICK k \in 1 .. n : rows[k] = q
    BY <1>3, IndexIsFull
  <2>2. \A p \in registered : w.votes[p] \in Nat
    OBVIOUS
  (* Who comes before an active row with votes is one with as many. *)
  <2>3. ASSUME NEW j \in 1 .. n, j <= k
        PROVE  Electable(rows[j]) /\ w.votes[q] <= w.votes[rows[j]]
    <3>1. CASE j = k
      BY <1>7, <2>1, <2>2, <3>1 DEF Electable
    <3>2. CASE j < k
      <4>1. by_votes(rows[j]) <= -w.votes[q]
        BY <1>3, <1>7, <2>1, <3>2 DEF by_votes
      <4>2. rows[j] \in registered /\ w.votes[rows[j]] \in Nat /\ w.votes[q] \in Nat
        BY <1>3, <2>2
      <4>3. rows[j] \in active
        BY <1>7, <4>1, <4>2 DEF by_votes
      <4> QED
        BY <1>7, <4>1, <4>2, <4>3 DEF by_votes, Electable
    <3> QED
      BY <1>2, <2>3, <3>1, <3>2
  <2>4. k > ScheduleSize
    <3>1. SUFFICES ASSUME k <= ScheduleSize PROVE FALSE
      BY <1>2
    <3>2. \A j \in 1 .. k : Electable(rows[j])
      BY <1>2, <2>3
    <3> QED
      BY <1>1, <1>3, <1>7, <2>1, <3>1, <3>2
  <2>5. 1 .. ScheduleSize \subseteq seats
    <3> SUFFICES ASSUME NEW i \in 1 .. ScheduleSize PROVE i \in seats
      OBVIOUS
    <3>1. i \in 1 .. n /\ \A j \in 1 .. i : j \in 1 .. n /\ j <= k
      BY <1>2, <2>4
    <3> QED
      BY <1>2, <1>3, <2>3, <3>1
  <2>6. \A p \in TopProducers(rows) : w.votes[q] <= w.votes[p]
    <3>1. \A i \in seats : i \in 1 .. n /\ i <= k
      BY <1>2, <1>3, <2>4
    <3> QED
      BY <1>1, <2>3, <3>1
  <2> QED
    BY <1>4, <1>5, <2>5, <2>6
<1>8. TopProducers(rows) \subseteq {p \in active : w.votes[p] > 0}
  BY <1>1, <1>6 DEF Electable
<1> QED
  BY <1>5, <1>7, <1>8

(* Only update_elected_producers changes the schedule, and the totals that *)
(* it goes by are the stakes behind the producers.                         *)
TakesTheTop ==
  schedule' # schedule =>
    /\ schedule' \subseteq Candidates
    /\ \A q \in Candidates \ schedule' :
         /\ Cardinality(schedule') = ScheduleSize
         /\ \A p \in schedule' : Backing(q) <= Backing(p)
    /\ Cardinality(schedule') \in Cardinality(schedule) .. ScheduleSize

LEMMA ElectionStep ==
  ASSUME VotingInv, [Next]_vars
  PROVE  TakesTheTop
<1> SUFFICES ASSUME schedule' # schedule PROVE TakesTheTop
  BY DEF TakesTheTop
<1>1. update_elected_producers
  BY DEF Next, voteproducer, update_voting_power, regproxy, regproducer, deactivate,
       Tick, vars
<1>2. /\ w.votes \in [Producers -> Nat] /\ schedule \subseteq Producers
      /\ active \subseteq registered /\ registered \subseteq Producers
  BY InvImpliesTypes DEF TypeOK
<1>3. PICK rows \in Index : /\ schedule' = TopProducers(rows)
                            /\ Cardinality(TopProducers(rows)) >= Cardinality(schedule)
  BY <1>1 DEF update_elected_producers
<1>4. /\ schedule' \subseteq {p \in active : w.votes[p] > 0}
      /\ Cardinality(schedule') \in 0 .. ScheduleSize
      /\ \A q \in active \ schedule' :
           w.votes[q] > 0 =>
             /\ Cardinality(schedule') = ScheduleSize
             /\ \A p \in schedule' : w.votes[q] <= w.votes[p]
  BY <1>2, <1>3, ElectedAreTop
<1>5. \A p \in Producers : w.votes[p] = Backing(p)
  BY InvImpliesVotes DEF VotesFromStakes
<1>6. Candidates = {p \in active : w.votes[p] > 0}
  BY <1>2, <1>5 DEF Candidates
<1>7. Cardinality(schedule) \in Nat /\ ScheduleSize \in Nat
  BY <1>2, VotingAssumption, FiniteSets, FS_Subset, FS_CardinalityType
<1>8. \A q \in Candidates \ schedule' :
        /\ Cardinality(schedule') = ScheduleSize
        /\ \A p \in schedule' : Backing(q) <= Backing(p)
  BY <1>2, <1>4, <1>5, <1>6
<1>9. Cardinality(schedule') \in Cardinality(schedule) .. ScheduleSize
  BY <1>3, <1>4, <1>7
<1> QED
  BY <1>4, <1>6, <1>8, <1>9 DEF TakesTheTop

-----------------------------------------------------------------------------
(* The books are right, and everybody who has voted has the weight of its  *)
(* stake and of its delegators, after every transaction.                   *)
THEOREM VotingInvariant == Spec => []VotingInv
<1>1. Init => VotingInv
  BY VotingBegins
<1>2. VotingInv /\ [Next]_vars => VotingInv'
  BY VotingStep
<1> QED
  BY <1>1, <1>2, PTL DEF Spec

(* Every table keeps its type: no total of votes is ever negative.         *)
THEOREM VotingTypes == Spec => []TypeOK
BY VotingInvariant, InvImpliesTypes, PTL

(* However voters and proxies took and left each other, the votes of each  *)
(* producer are the stakes of those who chose it, each counted once.       *)
THEOREM EachStakeOnce == Spec => []StakeCountedOnce
<1>1. VotingInv => StakeCountedOnce
  BY InvImpliesVotes, InvImpliesTotals DEF StakeCountedOnce
<1> QED
  BY <1>1, VotingInvariant, PTL

(* propagate_weight_change ends: proxies form no cycles.                   *)
THEOREM ProxiesEnd == Spec => []ChainsEnd
<1>1. VotingInv => ChainsEnd
  BY DEF VotingInv
<1> QED
  BY <1>1, VotingInvariant, PTL

(* The chain is activated by as many staked tokens as it takes.            *)
THEOREM BackedActivation == Spec => ActivationIsBacked
<1>1. VotingInv /\ [Next]_vars =>
        (activated' # activated => Total(staked') >= MinActivated)
  BY VotingStep, ActivationStep
<1> QED
  BY <1>1, VotingInvariant, PTL DEF Spec, ActivationIsBacked

(* A new schedule has the active producers behind which most stake is,     *)
(* misses nobody although the election stops at the first row it cannot    *)
(* take, and is as long as the one before.                                 *)
THEOREM MostStakeWins == Spec => ElectedByStakes
<1>1. VotingInv /\ [Next]_vars => TakesTheTop
  BY ElectionStep
<1> QED
  BY <1>1, VotingInvariant, PTL DEF Spec, ElectedByStakes, TakesTheTop

(***************************************************************************)
(* The pay of voters.  VoterPay takes the steps of Voting, so that all of  *)
(* the above holds of it, and the books are those of Inflation.  Of its    *)
(* own rows, first what the rate of each voter may be, and then what the   *)
(* rates and shares of all voters sum up to.                               *)
(***************************************************************************)
LEMMA VotersArePaid == \A v \in Voters : v \in Holders \ Purses
BY VoterPayAssumption

LEMMA PayStepVotes == [PayNext]_payVars => [Next]_vars
<1> SUFFICES ASSUME [PayNext]_payVars PROVE [Next]_vars
  OBVIOUS
<1>1. ASSUME NEW v \in Voters, NEW q \in Voters \cup {None},
             NEW producers \in SUBSET Producers, VoteAndEarn(v, q, producers)
      PROVE  Next
  BY <1>1 DEF VoteAndEarn, Next
<1>2. ASSUME NEW v \in Voters, NEW delta \in Deltas, StakeAndEarn(v, delta)
      PROVE  Next
  BY <1>2 DEF StakeAndEarn, Next
<1>3. ASSUME OtherVoting PROVE Next
  BY <1>3 DEF OtherVoting, Next
<1>4. ASSUME \/ \E v \in Voters : voterclaim(v)
             \/ StartPresses
             \/ Wait /\ UNCHANGED <<vars, row, totals>>
             \/ UNCHANGED payVars
      PROVE  UNCHANGED vars
  BY <1>4 DEF voterclaim, StartPresses, payVars
<1> QED
  BY <1>1, <1>2, <1>3, <1>4 DEF PayNext

(* Paying voters changes nothing of what Voting promises.                  *)
THEOREM VoterPayVotes == PaySpec => Spec
<1>1. PayInit => Init
  BY DEF PayInit
<1> QED
  BY <1>1, PayStepVotes, PTL DEF PaySpec, Spec

PayRows ==
  /\ share \in [Voters -> Int] /\ rate \in [Voters -> Int]
  /\ updated \in [Voters -> 0 .. now] /\ claimed \in [Voters -> 0 .. now]
  /\ totalShare \in Int /\ totalRate \in Int /\ totalUpdated \in 0 .. now

PayRowsInv == BooksInv /\ PayRows

(* Shares are numbers, and an update leaves them what they are.            *)
LEMMA SharesAreNumbers ==
  ASSUME PayRowsInv
  PROVE  /\ now \in Nat \ {0} /\ now \in 1 .. MaxTime
         /\ \A t \in 0 .. now : Since(t) \in Nat
         /\ \A v \in Voters : ShareNow(v) \in Int
         /\ TotalShareNow \in Int
<1>1. now \in Nat \ {0} /\ now \in 1 .. MaxTime
  BY InflationAssumption DEF PayRowsInv, BooksInv, InflationTypeOK
<1>2. \A t \in 0 .. now : Since(t) \in Nat
  BY <1>1 DEF Since
<1>3. ASSUME NEW m \in Int, NEW r \in Int, NEW t \in 0 .. now
      PROVE  m + r * Since(t) \in Int
  <2>1. Since(t) \in Int
    BY <1>2
  <2> QED
    BY <2>1
<1>4. \A v \in Voters : ShareNow(v) \in Int
  BY <1>3 DEF PayRowsInv, PayRows, ShareNow
<1>5. TotalShareNow \in Int
  BY <1>3 DEF PayRowsInv, PayRows, TotalShareNow
<1> QED
  BY <1>1, <1>2, <1>4, <1>5

LEMMA RateIsNumber ==
  ASSUME TypeOK', NEW v \in Voters
  PROVE  NewRate(v) \in Int
<1>1. w'.last[v] \in Nat /\ w'.proxied[v] \in Nat
  BY DEF TypeOK
<1> QED
  BY <1>1 DEF NewRate

LEMMA EarnKeepsRows ==
  ASSUME PayRowsInv, TypeOK', NEW v \in Voters, update_voter_votepay_share(v)
  PROVE  PayRowsInv'
<1>1. NewRate(v) \in Int /\ ShareNow(v) \in Int /\ TotalShareNow \in Int
      /\ now \in 1 .. MaxTime /\ now \in 0 .. now
  <2>1. now \in 0 .. now
    BY SharesAreNumbers
  <2> QED
    BY <2>1, RateIsNumber, SharesAreNumbers
<1>2. now' = now /\ lastFill' = lastFill /\ UNCHANGED <<supply, liquid, perblock, voters>>
  BY DEF update_voter_votepay_share, books
<1>3. BooksInv'
  <2>1. now' \in now .. MaxTime /\ lastFill' \in 0 .. now'
    BY <1>1, <1>2 DEF PayRowsInv, BooksInv, InflationTypeOK
  <2> QED
    BY <1>2, <2>1, SameBooks DEF PayRowsInv
<1>4. /\ share' \in [Voters -> Int] /\ rate' \in [Voters -> Int]
      /\ updated' \in [Voters -> 0 .. now] /\ claimed' \in [Voters -> 0 .. now]
  BY <1>1 DEF update_voter_votepay_share, PayRowsInv, PayRows
<1>5. /\ totalShare' \in Int /\ totalUpdated' \in 0 .. now
      /\ totalRate' \in Int
  <2>1. rate[v] \in Int /\ totalRate \in Int
    BY DEF PayRowsInv, PayRows
  <2> QED
    BY <1>1, <2>1 DEF update_voter_votepay_share
<1> QED
  BY <1>2, <1>3, <1>4, <1>5 DEF PayRowsInv, PayRows

(* A claim pays a part of the bucket at most.                              *)
LEMMA RewardInBucket ==
  ASSUME PayRowsInv, NEW v \in Voters, TotalShareNow > 0
  PROVE  /\ Reward(v, fill_buckets.voters) \in Int
         /\ Reward(v, fill_buckets.voters) <= fill_buckets.voters
         /\ fill_buckets.voters \in Nat /\ fill_buckets.perblock \in Nat
<1>1. fill_buckets.voters \in Nat /\ fill_buckets.perblock \in Nat
  BY FilledBooks DEF PayRowsInv, Balanced
<1>2. ShareNow(v) \in Int /\ TotalShareNow \in Nat \ {0}
  BY SharesAreNumbers
<1>3. ASSUME NEW b \in Nat, NEW m \in Int, NEW t \in Nat \ {0}
      PROVE  /\ Less((b * m) \div t, b) \in Int
             /\ Less((b * m) \div t, b) <= b
  <2>1. (b * m) \div t \in Int
    <3>1. b * m \in Int
      OBVIOUS
    <3> QED
      BY <3>1
  <2> QED
    BY <2>1 DEF Less
<1> QED
  BY <1>1, <1>2, <1>3 DEF Reward

LEMMA ClaimKeepsRows ==
  ASSUME PayRowsInv, NEW v \in Voters, voterclaim(v)
  PROVE  PayRowsInv'
<1> DEFINE reward == Reward(v, fill_buckets.voters)
<1>1. /\ TotalShareNow > 0
      /\ reward > 0
      /\ CanPay(fill_buckets.liquid, VotersAccount, v, reward)
      /\ liquid' = Paid(fill_buckets.liquid, VotersAccount, v, reward)
      /\ voters' = fill_buckets.voters - reward
      /\ supply' = fill_buckets.supply /\ perblock' = fill_buckets.perblock
      /\ lastFill' = LastFillAfter /\ now' = now
  BY DEF voterclaim
<1>2. /\ reward \in Int /\ reward <= fill_buckets.voters
      /\ fill_buckets.voters \in Nat /\ fill_buckets.perblock \in Nat
  BY <1>1, RewardInBucket
<1> HIDE DEF reward
<1>3. reward \in Nat
  BY <1>1, <1>2
<1>4. VotersAccount # Bpay /\ v \in Holders \ Purses
  BY PursesAre, VotersArePaid DEF PursesDiffer
<1>5. /\ perblock' = fill_buckets.perblock - (IF VotersAccount = Bpay THEN reward ELSE 0)
      /\ voters' = fill_buckets.voters
                   - (IF VotersAccount = VotersAccount THEN reward ELSE 0)
      /\ perblock' \in Nat /\ voters' \in Nat
  BY <1>1, <1>2, <1>3, <1>4
<1>6. BooksInv'
  BY <1>1, <1>3, <1>4, <1>5, ClaimKeepsBooks DEF PayRowsInv
<1>7. ShareNow(v) \in Int /\ TotalShareNow \in Int /\ now \in 0 .. now
  <2>1. now \in 0 .. now
    BY SharesAreNumbers
  <2> QED
    BY <2>1, SharesAreNumbers
<1>8. /\ share' = [share EXCEPT ![v] = 0] /\ updated' = [updated EXCEPT ![v] = now]
      /\ claimed' = [claimed EXCEPT ![v] = now]
      /\ totalShare' = TotalShareNow - ShareNow(v) /\ totalUpdated' = now
      /\ rate' = rate /\ totalRate' = totalRate
  BY DEF voterclaim, ShareLeft
<1>9. /\ share' \in [Voters -> Int] /\ updated' \in [Voters -> 0 .. now]
      /\ claimed' \in [Voters -> 0 .. now]
  BY <1>7, <1>8 DEF PayRowsInv, PayRows
<1>10. totalShare' \in Int /\ totalUpdated' \in 0 .. now
  BY <1>7, <1>8
<1> QED
  BY <1>1, <1>6, <1>8, <1>9, <1>10 DEF PayRowsInv, PayRows

(* Time passes, the presses start, or nothing of the pay changes.          *)
LEMMA OthersKeepRows ==
  ASSUME PayRowsInv,
         \/ StartPresses
         \/ Wait /\ UNCHANGED <<vars, row, totals>>
         \/ UNCHANGED <<row, totals, books, now>>
  PROVE  PayRowsInv'
<1>1. UNCHANGED <<supply, liquid, perblock, voters>> /\ UNCHANGED <<row, totals>>
  BY DEF StartPresses, Wait, books
<1>2. now' \in now .. MaxTime /\ lastFill' \in 0 .. now'
  BY InflationAssumption, SharesAreNumbers
  DEF StartPresses, Wait, books, PayRowsInv, BooksInv, InflationTypeOK
<1>3. BooksInv'
  BY <1>1, <1>2, SameBooks DEF PayRowsInv
<1>4. 0 .. now \subseteq 0 .. now'
  BY <1>2, SharesAreNumbers
<1>5. /\ share' = share /\ rate' = rate /\ updated' = updated /\ claimed' = claimed
      /\ totalShare' = totalShare /\ totalRate' = totalRate
      /\ totalUpdated' = totalUpdated
  BY <1>1 DEF row, totals
<1> QED
  BY <1>3, <1>4, <1>5 DEF PayRowsInv, PayRows

LEMMA PayRowsBegin == PayInit => PayRowsInv
<1> SUFFICES ASSUME PayInit PROVE PayRowsInv
  OBVIOUS
<1>1. BooksInv
  BY BooksInitially DEF PayInit
<1>2. now = 1
  BY DEF PayInit, InflationInit
<1>3. rate \in [Voters -> Int]
  BY VoterPayAssumption DEF PayInit
<1> QED
  BY <1>1, <1>2, <1>3 DEF PayInit, PayRowsInv, PayRows

LEMMA PayRowsStep ==
  PayRowsInv /\ TypeOK' /\ [PayNext]_payVars => PayRowsInv'
<1> SUFFICES ASSUME PayRowsInv, TypeOK', [PayNext]_payVars PROVE PayRowsInv'
  OBVIOUS
<1>1. ASSUME NEW v \in Voters, NEW q \in Voters \cup {None},
             NEW producers \in SUBSET Producers, VoteAndEarn(v, q, producers)
      PROVE  PayRowsInv'
  BY <1>1, EarnKeepsRows DEF VoteAndEarn
<1>2. ASSUME NEW v \in Voters, NEW delta \in Deltas, StakeAndEarn(v, delta)
      PROVE  PayRowsInv'
  BY <1>2, EarnKeepsRows, OthersKeepRows DEF StakeAndEarn
<1>3. ASSUME NEW v \in Voters, voterclaim(v) PROVE PayRowsInv'
  BY <1>3, ClaimKeepsRows
<1>4. CASE OtherVoting
  BY <1>4, OthersKeepRows DEF OtherVoting
<1>5. CASE StartPresses
  BY <1>5, OthersKeepRows
<1>6. CASE Wait /\ UNCHANGED <<vars, row, totals>>
  BY <1>6, OthersKeepRows
<1>7. CASE UNCHANGED payVars
  BY <1>7, OthersKeepRows DEF payVars
<1> QED
  BY <1>1, <1>2, <1>3, <1>4, <1>5, <1>6, <1>7 DEF PayNext

(* The books balance, and the rows keep their types.                       *)
THEOREM PayRowsInvariant == PaySpec => []PayRowsInv
<1>1. PayInit => PayRowsInv
  BY PayRowsBegin
<1>2. PayRowsInv /\ TypeOK' /\ [PayNext]_payVars => PayRowsInv'
  BY PayRowsStep
<1>3. PaySpec => []TypeOK
  BY VoterPayVotes, VotingTypes, PTL
<1> QED
  BY <1>1, <1>2, <1>3, PTL DEF PaySpec

(* Every table of voting, pay and inflation keeps its type.                *)
THEOREM PayTypes == PaySpec => []PayTypeOK
<1>1. TypeOK /\ PayRowsInv => PayTypeOK
  BY DEF PayRowsInv, PayRows, BooksInv, PayTypeOK
<1>2. PaySpec => []TypeOK
  BY VoterPayVotes, VotingTypes, PTL
<1> QED
  BY <1>1, <1>2, PayRowsInvariant, PTL

-----------------------------------------------------------------------------
(* Who does not vote earns nothing.                                        *)
IdleEarnNothing == \A v \in Earning : ~HasVoted(v) => rate[v] = 0
OwnInv == OwnStakeOnly /\ IdleEarnNothing

(* Who votes is weighed as of now. *)
LEMMA CastNow ==
  ASSUME NEW v \in Voters, w' \in Weights, NEW q, NEW producers,
         update_votes(v, q, producers)
  PROVE  w'.cast[v] = epoch
<1> DEFINE n == Weight(w, v)
           r == Given(Withdrawn(w, v), q, producers, n)
<1>1. w' = Weighed(r, v, n)
  BY DEF update_votes
<1> HIDE DEF n, r
<1>2. w' = [r EXCEPT !.last[v] = n, !.cast[v] = epoch]
  BY <1>1 DEF Weighed
<1>3. DOMAIN w' = DOMAIN r /\ w'.cast = [r.cast EXCEPT ![v] = epoch]
  BY <1>2 DEF Weights
<1>4. w'.cast \in [Voters -> 0 .. MaxEpoch]
  BY DEF Weights
<1>5. DOMAIN w'.cast = Voters
  BY <1>4
<1>6. DOMAIN w'.cast = DOMAIN r.cast
  BY <1>3
<1> QED
  BY <1>3, <1>5, <1>6

(* The new rate is at most what the stake is worth, and zero without votes.*)
LEMMA NewRateBound ==
  ASSUME VotingInv', TypeOK', NEW v \in Voters, w'.cast[v] = epoch, epoch' = epoch
  PROVE  /\ NewRate(v) \in Int
         /\ NewRate(v) <= stake2vote(staked[v])'
         /\ ~HasVoted(v)' => NewRate(v) = 0
<1>1. /\ staked'[v] \in Nat /\ w'.last[v] \in Nat /\ w'.proxied[v] \in Nat
      /\ epoch \in 0 .. MaxEpoch
  BY DEF TypeOK
<1>2. Factor[epoch] \in Nat
  BY <1>1, VotingAssumption
<1>3. staked'[v] * Factor[epoch] \in Nat
  BY <1>1, <1>2, ProductOfNats
<1>4. CASE ~Earns(v)
  BY <1>3, <1>4 DEF NewRate, stake2vote
<1>5. CASE Earns(v)
  <2>1. HasVoted(v)'
    <3>1. CASE proxy'[v] # None
      BY <3>1 DEF HasVoted
    <3>2. CASE proxy'[v] = None
      <4>1. Cardinality(choice'[v]) >= MinChoices
        BY <1>5, <3>2 DEF Earns
      <4>2. choice'[v] # {}
        BY <4>1, VoterPayAssumption, FS_EmptySet
      <4> QED
        BY <4>2 DEF HasVoted
    <3> QED
      BY <3>1, <3>2
  <2>2. w'.last[v] = staked'[v] * Factor[w'.cast[v]]
                     + (IF isProxy'[v] THEN w'.proxied[v] ELSE 0)
    BY <2>1 DEF VotingInv, WeightsRight
  <2>3. NewRate(v) = w'.last[v] - w'.proxied[v]
    BY <1>5 DEF NewRate
  <2>4. NewRate(v) <= staked'[v] * Factor[epoch]
    BY <1>1, <1>3, <2>2, <2>3
  <2> QED
    BY <1>1, <2>1, <2>3, <2>4 DEF stake2vote
<1> QED
  BY <1>4, <1>5

(* A stake is worth more as time goes on.                                  *)
LEMMA WorthGrows ==
  ASSUME TypeOK, epoch' \in epoch .. MaxEpoch, NEW n \in Nat
  PROVE  stake2vote(n) \in Nat /\ stake2vote(n)' \in Nat
         /\ stake2vote(n) <= stake2vote(n)'
<1>1. epoch \in 0 .. MaxEpoch /\ epoch' \in 0 .. MaxEpoch /\ epoch <= epoch'
  BY VotingAssumption DEF TypeOK
<1>2. Factor[epoch] \in Nat /\ Factor[epoch'] \in Nat /\ Factor[epoch] <= Factor[epoch']
  BY <1>1, VotingAssumption, VoterPayAssumption
<1>3. /\ Factor[epoch] * n \in Nat /\ Factor[epoch'] * n \in Nat
      /\ Factor[epoch] * n <= Factor[epoch'] * n
  BY <1>2, LargerFactor, ProductOfNats
<1>4. stake2vote(n) = Factor[epoch] * n /\ stake2vote(n)' = Factor[epoch'] * n
  BY <1>2 DEF stake2vote
<1> QED
  BY <1>3, <1>4

(* A step that sets the rate of v.                                         *)
LEMMA EarnKeepsOwn ==
  ASSUME OwnInv, TypeOK, PayRowsInv, TypeOK', VotingInv', NEW v \in Voters,
         update_voter_votepay_share(v), w'.cast[v] = epoch, epoch' = epoch,
         \A u \in Voters \ {v} : staked'[u] = staked[u] /\ proxy'[u] = proxy[u]
                                 /\ choice'[u] = choice[u]
  PROVE  OwnInv'
<1>1. /\ rate' = [rate EXCEPT ![v] = NewRate(v)]
      /\ updated' = [updated EXCEPT ![v] = now]
      /\ rate \in [Voters -> Int] /\ updated \in [Voters -> 0 .. now]
  BY DEF update_voter_votepay_share, PayRowsInv, PayRows
<1>2. /\ rate'[v] <= stake2vote(staked[v])' /\ (~HasVoted(v)' => rate'[v] = 0)
  BY <1>1, NewRateBound
<1>3. ASSUME NEW u \in Earning', u # v
      PROVE  rate'[u] <= stake2vote(staked[u])' /\ (~HasVoted(u)' => rate'[u] = 0)
  <2>1. u \in Earning /\ u \in Voters \ {v} /\ rate'[u] = rate[u]
    BY <1>1, <1>3 DEF Earning
  <2>2. rate[u] <= stake2vote(staked[u]) /\ (~HasVoted(u) => rate[u] = 0)
    BY <2>1 DEF OwnInv, OwnStakeOnly, IdleEarnNothing
  <2>3. HasVoted(u)' <=> HasVoted(u)
    BY <2>1 DEF HasVoted
  <2> QED
    BY <2>1, <2>2, <2>3 DEF stake2vote
<1>4. \A u \in Earning' :
        rate'[u] <= stake2vote(staked[u])' /\ (~HasVoted(u)' => rate'[u] = 0)
  BY <1>2, <1>3
<1> QED
  BY <1>4 DEF OwnInv, OwnStakeOnly, IdleEarnNothing

(* Any other step sets no rate, and changes the stake only of those        *)
(* without votes.                                                          *)
LEMMA OthersKeepOwn ==
  ASSUME OwnInv, TypeOK, TypeOK', PayRowsInv,
         rate' = rate, Earning' \subseteq Earning,
         proxy' = proxy, choice' = choice, epoch' \in epoch .. MaxEpoch,
         \A u \in Voters : HasVoted(u) => staked'[u] = staked[u]
  PROVE  OwnInv'
<1>1. ASSUME NEW u \in Earning'
      PROVE  rate'[u] <= stake2vote(staked[u])' /\ (~HasVoted(u)' => rate'[u] = 0)
  <2>1. u \in Earning /\ u \in Voters /\ rate'[u] = rate[u] /\ rate[u] \in Int
    BY DEF Earning, PayRowsInv, PayRows
  <2>2. rate[u] <= stake2vote(staked[u]) /\ (~HasVoted(u) => rate[u] = 0)
    BY <2>1 DEF OwnInv, OwnStakeOnly, IdleEarnNothing
  <2>3. HasVoted(u)' <=> HasVoted(u)
    BY DEF HasVoted
  <2>4. staked[u] \in Nat /\ staked'[u] \in Nat
    BY <2>1 DEF TypeOK
  <2>5. CASE HasVoted(u)
    <3>1. staked'[u] = staked[u]
      BY <2>1, <2>5
    <3>2. /\ staked[u] * Factor[epoch] \in Nat /\ staked[u] * Factor[epoch'] \in Nat
          /\ staked[u] * Factor[epoch] <= staked[u] * Factor[epoch']
      BY <2>4, WorthGrows DEF stake2vote
    <3>3. rate[u] <= staked[u] * Factor[epoch]
      BY <2>2 DEF stake2vote
    <3>4. rate[u] <= staked[u] * Factor[epoch']
      BY ONLY <2>1, <3>2, <3>3
    <3> QED
      BY <2>1, <2>3, <2>5, <3>1, <3>4 DEF stake2vote
  <2>6. CASE ~HasVoted(u)
    <3>1. rate'[u] = 0
      BY <2>1, <2>2, <2>6
    <3>2. staked'[u] * Factor[epoch'] \in Nat
      BY <2>4, WorthGrows DEF stake2vote
    <3> QED
      BY <3>1, <3>2 DEF stake2vote
  <2> QED
    BY <2>5, <2>6
<1> QED
  BY <1>1 DEF OwnInv, OwnStakeOnly, IdleEarnNothing

LEMMA OwnStep ==
  OwnInv /\ PayRowsInv /\ TypeOK /\ TypeOK' /\ VotingInv' /\ [PayNext]_payVars => OwnInv'
<1> SUFFICES ASSUME OwnInv, PayRowsInv, TypeOK, TypeOK', VotingInv', [PayNext]_payVars
             PROVE  OwnInv'
  OBVIOUS
<1>1. w' \in Weights /\ epoch \in 0 .. MaxEpoch /\ epoch \in epoch .. MaxEpoch
      /\ MaxEpoch \in Nat /\ staked \in [Voters -> Nat]
      /\ proxy \in [Voters -> hasRow \cup {None}]
      /\ choice \in [Voters -> SUBSET registered]
  BY VotingAssumption DEF VotingInv, RowTypes, TypeOK
<1>2. ASSUME NEW v \in Voters, NEW q \in Voters \cup {None},
             NEW producers \in SUBSET Producers, VoteAndEarn(v, q, producers)
      PROVE  OwnInv'
  <2>1. /\ update_votes(v, q, producers) /\ staked' = staked /\ epoch' = epoch
        /\ update_voter_votepay_share(v)
    BY <1>2 DEF VoteAndEarn, voteproducer
  <2>2. w'.cast[v] = epoch
    BY <1>1, <2>1, CastNow
  <2>3. \A u \in Voters \ {v} : proxy'[u] = proxy[u] /\ choice'[u] = choice[u]
    BY <1>1, <2>1 DEF update_votes
  <2> QED
    BY <2>1, <2>2, <2>3, EarnKeepsOwn
<1>3. ASSUME NEW v \in Voters, NEW delta \in Deltas, StakeAndEarn(v, delta)
      PROVE  OwnInv'
  <2>1. /\ staked' = [staked EXCEPT ![v] = @ + delta] /\ epoch' = epoch
        /\ IF HasVoted(v) THEN update_votes(v, proxy[v], choice[v])
           ELSE UNCHANGED <<w, proxy, choice, activation>>
        /\ IF HasVoted(v) THEN update_voter_votepay_share(v)
           ELSE UNCHANGED <<row, totals, books, now>>
    BY <1>3 DEF StakeAndEarn, update_voting_power
  <2>2. \A u \in Voters \ {v} : staked'[u] = staked[u]
    BY <1>1, <2>1
  <2>3. CASE HasVoted(v)
    <3>1. w'.cast[v] = epoch
      BY <1>1, <2>1, <2>3, CastNow
    <3>2. \A u \in Voters \ {v} : proxy'[u] = proxy[u] /\ choice'[u] = choice[u]
      BY <1>1, <2>1, <2>3 DEF update_votes
    <3> QED
      BY <2>1, <2>2, <2>3, <3>1, <3>2, EarnKeepsOwn
  <2>4. CASE ~HasVoted(v)
    <3>1. rate' = rate /\ Earning' \subseteq Earning /\ proxy' = proxy /\ choice' = choice
      BY <2>1, <2>4 DEF row, Earning
    <3>2. \A u \in Voters : HasVoted(u) => staked'[u] = staked[u]
      BY <2>2, <2>4
    <3> QED
      BY <1>1, <2>1, <3>1, <3>2, OthersKeepOwn
  <2> QED
    BY <2>3, <2>4
<1>4. CASE OtherVoting
  <2>1. /\ staked' = staked /\ proxy' = proxy /\ choice' = choice
        /\ epoch' \in epoch .. MaxEpoch
    BY <1>1, <1>4
    DEF OtherVoting, regproxy, regproducer, deactivate, Tick, voter
  <2>2. rate' = rate /\ Earning' \subseteq Earning
    BY <1>4 DEF OtherVoting, row, Earning
  <2> QED
    BY <2>1, <2>2, OthersKeepOwn
<1>5. ASSUME NEW v \in Voters, voterclaim(v) PROVE OwnInv'
  <2>1. /\ staked' = staked /\ proxy' = proxy /\ choice' = choice /\ epoch' = epoch
        /\ rate' = rate /\ updated' = [updated EXCEPT ![v] = now] /\ updated[v] # 0
    BY <1>5 DEF voterclaim, vars, voter
  <2>2. Earning' \subseteq Earning
    BY <2>1 DEF Earning, PayRowsInv, PayRows
  <2> QED
    BY <1>1, <2>1, <2>2, OthersKeepOwn
<1>6. ASSUME UNCHANGED <<vars, row>> PROVE OwnInv'
  <2>1. /\ staked' = staked /\ proxy' = proxy /\ choice' = choice /\ epoch' = epoch
        /\ rate' = rate /\ Earning' \subseteq Earning
    BY <1>6 DEF vars, voter, row, Earning
  <2> QED
    BY <1>1, <2>1, OthersKeepOwn
<1>7. CASE StartPresses
  BY <1>6, <1>7 DEF StartPresses
<1>8. CASE Wait /\ UNCHANGED <<vars, row, totals>>
  BY <1>6, <1>8
<1>9. CASE UNCHANGED payVars
  BY <1>6, <1>9 DEF payVars
<1> QED
  BY <1>2, <1>3, <1>4, <1>5, <1>7, <1>8, <1>9 DEF PayNext

LEMMA OwnBegins == PayInit => OwnInv
BY DEF PayInit, OwnInv, OwnStakeOnly, IdleEarnNothing, Earning

(* Nobody earns more than his own stake is worth, whoever delegated to     *)
(* him, and nothing for stake that he has taken back.                      *)
THEOREM OwnStakePays == PaySpec => []OwnStakeOnly
<1>1. PayInit => OwnInv
  BY OwnBegins
<1>2. OwnInv /\ PayRowsInv /\ TypeOK /\ TypeOK' /\ VotingInv' /\ [PayNext]_payVars
        => OwnInv'
  BY OwnStep
<1>3. PaySpec => []TypeOK
  BY VoterPayVotes, VotingTypes, PTL
<1>4. PaySpec => []VotingInv
  BY VoterPayVotes, VotingInvariant, PTL
<1>5. PaySpec => []OwnInv
  BY <1>1, <1>2, <1>3, <1>4, PayRowsInvariant, PTL DEF PaySpec
<1>6. OwnInv => OwnStakeOnly
  BY DEF OwnInv
<1> QED
  BY <1>5, <1>6, PTL

-----------------------------------------------------------------------------
(* The sums of rates and shares, over all voters: those who earn nothing   *)
(* yet have neither, if new rows are zero, and the sums are as old as the  *)
(* first vote.                                                             *)
Coming == [v \in Voters |-> ShareNow(v)]

SharesInv ==
  /\ \A v \in Voters \ Earning : rate[v] = 0 /\ share[v] = 0
  /\ totalRate = SumOf(rate)
  /\ TotalShareNow = SumOf(Coming)
  /\ totalUpdated = 0 => Earning = {}

LEMMA ComingType == PayRowsInv => Coming \in [Voters -> Int]
BY SharesAreNumbers DEF Coming

(* Rows that are as old as the time have just what is stored.              *)
LEMMA NothingSince == ASSUME PayRowsInv PROVE Since(now) = 0 /\ Since(0) = 0
BY SharesAreNumbers DEF Since

LEMMA SinceSame == ASSUME now' = now, NEW t PROVE Since(t)' = Since(t)
BY DEF Since

LEMMA EarnKeepsShares ==
  ASSUME SharesInv, PayRowsInv, TypeOK', NEW v \in Voters, update_voter_votepay_share(v)
  PROVE  SharesInv'
<1>1. /\ share' = [share EXCEPT ![v] = ShareNow(v)]
      /\ rate' = [rate EXCEPT ![v] = NewRate(v)]
      /\ updated' = [updated EXCEPT ![v] = now]
      /\ totalShare' = TotalShareNow /\ totalUpdated' = now /\ now' = now
      /\ totalRate' = totalRate + (NewRate(v) - rate[v])
  BY DEF update_voter_votepay_share
<1>2. /\ rate \in [Voters -> Int] /\ updated \in [Voters -> 0 .. now]
      /\ share \in [Voters -> Int] /\ totalRate \in Int
      /\ NewRate(v) \in Int /\ now \in Nat \ {0}
      /\ ShareNow(v) \in Int /\ TotalShareNow \in Int /\ IsFiniteSet(Voters)
  BY RateIsNumber, SharesAreNumbers, VotingAssumption DEF PayRowsInv, PayRows
<1>3. \A u \in Voters \ Earning' : rate'[u] = 0 /\ share'[u] = 0
  <2> SUFFICES ASSUME NEW u \in Voters, u \notin Earning'
               PROVE  rate'[u] = 0 /\ share'[u] = 0
    OBVIOUS
  <2>1. u # v /\ u \notin Earning
    BY <1>1, <1>2 DEF Earning
  <2> QED
    BY <1>1, <1>2, <2>1 DEF SharesInv
<1>4. totalRate' = SumOf(rate')
  <2>1. rate' \in [Voters -> Int] /\ rate'[v] = NewRate(v)
        /\ \A u \in Voters \ {v} : rate'[u] = rate[u]
    BY <1>1, <1>2
  <2>2. SumOf(rate') = SumOf(rate) - rate[v] + rate'[v]
    BY <1>2, <2>1, SumOfChange
  <2>3. totalRate = SumOf(rate) /\ rate[v] \in Int
    BY <1>2 DEF SharesInv
  <2> QED
    BY <1>1, <1>2, <2>1, <2>2, <2>3
<1>5. Coming' = Coming
  <2>1. ASSUME NEW u \in Voters PROVE ShareNow(u)' = ShareNow(u)
    <3>1. CASE u = v
      <4>1. share'[v] = ShareNow(v) /\ updated'[v] = now /\ rate'[v] = NewRate(v)
        BY <1>1, <1>2
      <4>2. Since(now)' = 0
        BY <1>1, NothingSince, SinceSame
      <4>3. ShareNow(v)' = share'[v] + rate'[v] * 0
        BY <1>1, <4>1, <4>2, SinceSame DEF ShareNow, Since
      <4> QED
        BY <1>2, <3>1, <4>1, <4>3
    <3>2. CASE u # v
      BY <1>1, <1>2, <3>2 DEF ShareNow, Since
    <3> QED
      BY <3>1, <3>2
  <2> QED
    BY <2>1 DEF Coming
<1>6. TotalShareNow' = TotalShareNow
  <2>1. totalRate' \in Int
    <3>1. rate[v] \in Int
      BY <1>2
    <3> QED
      BY <1>1, <1>2, <3>1
  <2>2. Since(totalUpdated)' = 0
    BY <1>1, NothingSince DEF Since
  <2> QED
    BY <1>1, <1>2, <2>1, <2>2 DEF TotalShareNow
<1>7. totalUpdated' # 0
  BY <1>1, <1>2
<1> QED
  BY <1>3, <1>4, <1>5, <1>6, <1>7 DEF SharesInv

LEMMA ClaimKeepsShares ==
  ASSUME SharesInv, PayRowsInv, NEW v \in Voters, voterclaim(v), PayRowsInv'
  PROVE  SharesInv'
<1>1. /\ share' = [share EXCEPT ![v] = 0]
      /\ updated' = [updated EXCEPT ![v] = now]
      /\ totalShare' = TotalShareNow - ShareNow(v)
      /\ totalUpdated' = now /\ now' = now
      /\ rate' = rate /\ totalRate' = totalRate /\ updated[v] # 0
  BY DEF voterclaim, ShareLeft
<1>2. /\ rate \in [Voters -> Int] /\ updated \in [Voters -> 0 .. now]
      /\ share \in [Voters -> Int] /\ totalRate \in Int /\ now \in Nat \ {0}
      /\ ShareNow(v) \in Int /\ TotalShareNow \in Int /\ IsFiniteSet(Voters)
  BY SharesAreNumbers, VotingAssumption DEF PayRowsInv, PayRows
<1>3. \A u \in Voters \ Earning' : rate'[u] = 0 /\ share'[u] = 0
  BY <1>1, <1>2 DEF SharesInv, Earning
<1>4. SumOf(Coming') = SumOf(Coming) - ShareNow(v)
  <2>1. Coming \in [Voters -> Int] /\ Coming[v] = ShareNow(v)
    BY ComingType DEF Coming
  <2>2. Coming'[v] = 0
    <3>1. share'[v] = 0 /\ updated'[v] = now /\ rate'[v] \in Int
      BY <1>1, <1>2
    <3>2. Since(now)' = 0
      BY <1>1, NothingSince, SinceSame
    <3>3. ShareNow(v)' = 0 + rate'[v] * 0
      BY <1>1, <3>1, <3>2 DEF ShareNow, Since
    <3> QED
      BY <3>1, <3>3 DEF Coming
  <2>3. \A u \in Voters \ {v} : Coming'[u] = Coming[u]
    BY <1>1, <1>2 DEF Coming, ShareNow, Since
  <2>4. Coming' \in [Voters -> Int]
    <3>1. \A u \in Voters : Coming'[u] \in Int
      BY <2>1, <2>2, <2>3
    <3>2. Coming' = [u \in Voters |-> Coming'[u]]
      BY DEF Coming
    <3> QED
      BY <3>1, <3>2
  <2>5. SumOf(Coming') = SumOf(Coming) - Coming[v] + Coming'[v]
    BY <1>2, <2>1, <2>3, <2>4, SumOfChange
  <2>6. SumOf(Coming) \in Int
    BY <1>2, <2>1, SumOfParts
  <2> QED
    BY <1>2, <2>1, <2>2, <2>5, <2>6
<1>5. TotalShareNow' = TotalShareNow - ShareNow(v)
  <2>1. Since(totalUpdated)' = 0
    BY <1>1, NothingSince DEF Since
  <2> QED
    BY <1>1, <1>2, <2>1 DEF TotalShareNow
<1>6. totalUpdated' # 0
  BY <1>1, <1>2
<1> QED
  BY <1>1, <1>3, <1>4, <1>5, <1>6 DEF SharesInv

(* As time passes every share grows by its rate.                           *)
LEMMA WaitKeepsShares ==
  ASSUME SharesInv, PayRowsInv, Wait, UNCHANGED <<row, totals>>
  PROVE  SharesInv'
<1>1. /\ share' = share /\ rate' = rate /\ updated' = updated /\ now' = now + 1
      /\ totalShare' = totalShare /\ totalRate' = totalRate
      /\ totalUpdated' = totalUpdated
  BY DEF row, totals, Wait
<1>2. /\ rate \in [Voters -> Int] /\ updated \in [Voters -> 0 .. now]
      /\ share \in [Voters -> Int] /\ totalRate \in Int /\ now \in Nat \ {0}
      /\ totalShare \in Int /\ totalUpdated \in 0 .. now
      /\ TotalShareNow \in Int /\ IsFiniteSet(Voters)
  BY SharesAreNumbers, VotingAssumption DEF PayRowsInv, PayRows
<1>3. ASSUME NEW t \in 1 .. now, NEW m \in Int, NEW r \in Int
      PROVE  m + r * Since(t)' = (m + r * Since(t)) + r
  <2>1. Since(t) = now - t /\ Since(t)' = now + 1 - t
    BY <1>1, <1>2, <1>3 DEF Since
  <2>2. r * (now + 1 - t) = r * (now - t) + r
    BY <1>2
  <2>3. r * (now - t) \in Int
    BY <1>2
  <2> QED
    BY <2>1, <2>2, <2>3
<1>4. Coming \in [Voters -> Int]
  BY ComingType
<1>5. \A u \in Voters : Coming'[u] = Coming[u] + rate[u]
  <2> SUFFICES ASSUME NEW u \in Voters PROVE ShareNow(u)' = ShareNow(u) + rate[u]
    BY DEF Coming
  <2>1. rate[u] \in Int /\ share[u] \in Int
    BY <1>2
  <2>2. CASE u \in Earning
    <3>1. updated[u] \in 1 .. now
      BY <1>2, <2>2 DEF Earning
    <3> QED
      BY <1>1, <1>3, <2>1, <3>1 DEF ShareNow, Since
  <2>3. CASE u \notin Earning
    <3>1. rate[u] = 0 /\ share[u] = 0 /\ updated[u] = 0
      BY <2>3 DEF SharesInv, Earning
    <3>2. Since(0) = 0 /\ Since(0)' = 0
      BY DEF Since
    <3> QED
      BY <1>1, <3>1, <3>2 DEF ShareNow, Since
  <2> QED
    BY <2>2, <2>3
<1>6. Coming' \in [Voters -> Int]
  <2>1. \A u \in Voters : Coming'[u] \in Int
    <3> SUFFICES ASSUME NEW u \in Voters PROVE Coming'[u] \in Int
      OBVIOUS
    <3>1. Coming[u] \in Int /\ rate[u] \in Int
      BY <1>2, <1>4
    <3> QED
      BY <1>5, <3>1
  <2>2. Coming' = [u \in Voters |-> Coming'[u]]
    BY DEF Coming
  <2> QED
    BY <2>1, <2>2
<1>7. SumOf(Coming') = SumOf(Coming) + SumOf(rate)
  BY <1>2, <1>4, <1>5, <1>6, SumOfPlus
<1>8. TotalShareNow' = TotalShareNow + totalRate
  <2>1. CASE totalUpdated # 0
    <3>1. totalUpdated \in 1 .. now
      BY <1>2, <2>1
    <3> QED
      BY <1>1, <1>2, <1>3, <3>1 DEF TotalShareNow, Since
  <2>2. CASE totalUpdated = 0
    <3>1. \A u \in Voters : rate[u] = 0
      BY <2>2 DEF SharesInv
    <3>2. IsFiniteSet(Voters) /\ rate \in [Voters -> Int]
      BY <1>2
    <3>3. SumOf(rate) = 0
      BY <3>1, <3>2, SumOfZero
    <3>4. totalRate = 0
      BY <3>3 DEF SharesInv
    <3>5. Since(0) = 0 /\ Since(0)' = 0
      BY DEF Since
    <3> QED
      BY <1>1, <1>2, <2>2, <3>4, <3>5 DEF TotalShareNow, Since
  <2> QED
    BY <2>1, <2>2
<1>9. Earning' = Earning
  BY <1>1 DEF Earning
<1> QED
  BY <1>1, <1>7, <1>8, <1>9 DEF SharesInv

LEMMA SameShares ==
  ASSUME SharesInv, UNCHANGED <<row, totals, now>>
  PROVE  SharesInv'
<1>1. /\ share' = share /\ rate' = rate /\ updated' = updated /\ now' = now
      /\ totalShare' = totalShare /\ totalRate' = totalRate
      /\ totalUpdated' = totalUpdated
  BY DEF row, totals
<1>2. Earning' = Earning /\ Coming' = Coming /\ TotalShareNow' = TotalShareNow
  BY <1>1 DEF Earning, Coming, ShareNow, TotalShareNow, Since
<1> QED
  BY <1>1, <1>2 DEF SharesInv

LEMMA SharesStep ==
  SharesInv /\ PayRowsInv /\ TypeOK' /\ PayRowsInv' /\ [PayNext]_payVars => SharesInv'
<1> SUFFICES ASSUME SharesInv, PayRowsInv, TypeOK', PayRowsInv', [PayNext]_payVars
             PROVE  SharesInv'
  OBVIOUS
<1>1. ASSUME NEW v \in Voters, NEW q \in Voters \cup {None},
             NEW producers \in SUBSET Producers, VoteAndEarn(v, q, producers)
      PROVE  SharesInv'
  BY <1>1, EarnKeepsShares DEF VoteAndEarn
<1>2. ASSUME NEW v \in Voters, NEW delta \in Deltas, StakeAndEarn(v, delta)
      PROVE  SharesInv'
  BY <1>2, EarnKeepsShares, SameShares DEF StakeAndEarn
<1>3. ASSUME NEW v \in Voters, voterclaim(v) PROVE SharesInv'
  BY <1>3, ClaimKeepsShares
<1>4. CASE OtherVoting
  BY <1>4, SameShares DEF OtherVoting
<1>5. CASE StartPresses
  BY <1>5, SameShares DEF StartPresses
<1>6. CASE Wait /\ UNCHANGED <<vars, row, totals>>
  BY <1>6, WaitKeepsShares
<1>7. CASE UNCHANGED payVars
  BY <1>7, SameShares DEF payVars
<1> QED
  BY <1>1, <1>2, <1>3, <1>4, <1>5, <1>6, <1>7 DEF PayNext

LEMMA SharesBegin ==
  ASSUME Unset = {0}, PayInit
  PROVE  SharesInv
<1>1. /\ rate \in [Voters -> Unset] /\ share = [v \in Voters |-> 0]
      /\ updated = [v \in Voters |-> 0]
      /\ totalShare = 0 /\ totalRate = 0 /\ totalUpdated = 0
  BY DEF PayInit
<1>2. \A v \in Voters : rate[v] = 0 /\ share[v] = 0 /\ updated[v] = 0
  BY <1>1
<1>3. Since(0) = 0 /\ 0 + 0 * 0 = 0
  BY DEF Since
<1>4. TotalShareNow = 0
  BY <1>1, <1>3 DEF TotalShareNow
<1>5. \A v \in Voters : ShareNow(v) = 0
  BY <1>2, <1>3 DEF ShareNow
<1>6. IsFiniteSet(Voters)
  BY VotingAssumption
<1>7. SumOf(rate) = 0
  <2>1. rate \in [Voters -> Int]
    BY <1>1
  <2> QED
    BY <1>2, <1>6, <2>1, SumOfZero
<1>8. SumOf(Coming) = 0
  <2>1. Coming \in [Voters -> Int] /\ \A v \in Voters : Coming[v] = 0
    BY <1>5 DEF Coming
  <2> QED
    BY <1>6, <2>1, SumOfZero
<1>9. Earning = {}
  BY <1>2 DEF Earning
<1> QED
  BY <1>1, <1>2, <1>4, <1>7, <1>8, <1>9 DEF SharesInv

LEMMA SumsOfEarning ==
  ASSUME SharesInv, PayRowsInv
  PROVE  SharesAgree
<1>1. rate \in [Voters -> Int] /\ Coming \in [Voters -> Int] /\ Earning \subseteq Voters
  BY ComingType DEF PayRowsInv, PayRows, Earning
<1>2. \A v \in Voters \ Earning : rate[v] = 0 /\ Coming[v] = 0
  <2> SUFFICES ASSUME NEW v \in Voters, v \notin Earning PROVE rate[v] = 0 /\ Coming[v] = 0
    OBVIOUS
  <2>1. rate[v] = 0 /\ share[v] = 0 /\ updated[v] = 0
    BY DEF SharesInv, Earning
  <2> QED
    BY <2>1, NothingSince DEF Coming, ShareNow
<1>3. SumOf([v \in Earning |-> rate[v]]) = SumOf(rate)
  BY <1>1, <1>2, SumOfPadded
<1>4. SumOf([v \in Earning |-> Coming[v]]) = SumOf(Coming)
  BY <1>1, <1>2, SumOfPadded
<1>5. [v \in Earning |-> Coming[v]] = [v \in Earning |-> ShareNow(v)]
  BY <1>1 DEF Coming
<1> QED
  BY <1>3, <1>4, <1>5 DEF SharesInv, SharesAgree

(* The sums of shares and of rates are those of the voters, when the rate  *)
(* of a new row is zero.                                                   *)
THEOREM VoterSharesAgree ==
  ASSUME Unset = {0}
  PROVE  PaySpec => []SharesAgree
<1>1. PayInit => SharesInv
  BY SharesBegin
<1>2. SharesInv /\ PayRowsInv /\ TypeOK' /\ PayRowsInv' /\ [PayNext]_payVars => SharesInv'
  BY SharesStep
<1>3. SharesInv /\ PayRowsInv => SharesAgree
  BY SumsOfEarning
<1>4. PaySpec => []TypeOK
  BY VoterPayVotes, VotingTypes, PTL
<1> QED
  BY <1>1, <1>2, <1>3, <1>4, PayRowsInvariant, PTL DEF PaySpec

(***************************************************************************)
(* The auctions of names: types and the property that only winners pay are *)
(* inductive together.  Each action changes the row, the refunds and the   *)
(* balances of one name only, so that it is enough to look at what each    *)
(* bidder has at stake there.                                              *)
(***************************************************************************)
NameBidsInv == BidsTypeOK /\ OnlyWinnersPay

(* What a has in all auctions, and what of it concerns the name n. *)
Fortune(a) ==
  tokens[a] + Total(OwedTo(a)) + Total(Standing(a)) + paid[a]
AtStake(a, n) == tokens[a] + OwedTo(a)[n] + Standing(a)[n] + paid[a]

(* What stands for a is never negative, whatever the rows: stated for      *)
(* values, to be used before and after a step.                             *)
LEMMA StandingIsNat ==
  ASSUME NEW who, NEW high \in [Names -> Int], NEW a
  PROVE  [n \in Names |-> IF who[n] # a THEN 0
                          ELSE IF high[n] > 0 THEN high[n] ELSE -high[n]]
           \in [Names -> Nat]
<1> SUFFICES ASSUME NEW n \in Names
             PROVE  (IF who[n] # a THEN 0
                     ELSE IF high[n] > 0 THEN high[n] ELSE -high[n]) \in Nat
  OBVIOUS
<1>1. high[n] \in Int
  OBVIOUS
<1>2. CASE high[n] > 0
  BY <1>1, <1>2
<1>3. CASE ~(high[n] > 0)
  BY <1>1, <1>3
<1> QED
  BY <1>2, <1>3

(* A step that leaves the other names alone changes the fortunes by what   *)
(* changes at that name.                                                   *)
OnlyAt(n) ==
  \A m \in Names \ {n} :
    bidder'[m] = bidder[m] /\ bid'[m] = bid[m] /\ refunds'[m] = refunds[m]

LEMMA FortuneAt ==
  ASSUME BidsTypeOK, BidsTypeOK', NEW n \in Names, OnlyAt(n), NEW a \in Bidders,
         AtStake(a, n)' = AtStake(a, n)
  PROVE  Fortune(a)' = Fortune(a)
<1> USE NameBidsAssumption
<1>1. /\ OwedTo(a) \in [Names -> Nat] /\ OwedTo(a)' \in [Names -> Nat]
      /\ Standing(a) \in [Names -> Nat] /\ Standing(a)' \in [Names -> Nat]
  <2>1. OwedTo(a) \in [Names -> Nat] /\ OwedTo(a)' \in [Names -> Nat]
    BY DEF BidsTypeOK, OwedTo
  <2>2. bid \in [Names -> Int] /\ bid' \in [Names -> Int]
    BY DEF BidsTypeOK
  <2>3. Standing(a) \in [Names -> Nat]
    BY <2>2, StandingIsNat DEF Standing, Open
  <2>4. Standing(a)' \in [Names -> Nat]
    BY <2>2, StandingIsNat DEF Standing, Open
  <2> QED
    BY <2>1, <2>3, <2>4
<1>2. /\ Total(OwedTo(a)) \in Nat
      /\ Total(OwedTo(a)') = Total(OwedTo(a)) - OwedTo(a)[n] + OwedTo(a)'[n]
  <2>1. \A m \in Names \ {n} : OwedTo(a)'[m] = OwedTo(a)[m]
    BY DEF OnlyAt, OwedTo
  <2> QED
    BY <1>1, <2>1, TotalChange
<1>3. /\ Total(Standing(a)) \in Nat
      /\ Total(Standing(a)') =
           Total(Standing(a)) - Standing(a)[n] + Standing(a)'[n]
  <2>1. \A m \in Names \ {n} : Standing(a)'[m] = Standing(a)[m]
    BY DEF OnlyAt, Standing, Open
  <2> QED
    BY <1>1, <2>1, TotalChange
<1>4. /\ tokens[a] \in Nat /\ tokens'[a] \in Nat
      /\ paid[a] \in Nat /\ paid'[a] \in Nat
  BY DEF BidsTypeOK
<1>5. /\ OwedTo(a)[n] \in Nat /\ OwedTo(a)'[n] \in Nat
      /\ Standing(a)[n] \in Nat /\ Standing(a)'[n] \in Nat
  BY <1>1
<1>6. tokens'[a] + OwedTo(a)'[n] + Standing(a)'[n] + paid'[a]
        = tokens[a] + OwedTo(a)[n] + Standing(a)[n] + paid[a]
  BY DEF AtStake
<1>7. tokens'[a] + Total(OwedTo(a)') + Total(Standing(a)') + paid'[a]
        = tokens[a] + Total(OwedTo(a)) + Total(Standing(a)) + paid[a]
  BY ONLY <1>2, <1>3, <1>4, <1>5, <1>6
<1> QED
  BY <1>7 DEF Fortune

(* A step at one name that leaves everybody's stake there as it was keeps  *)
(* the invariant.                                                          *)
LEMMA StepAt ==
  ASSUME NameBidsInv, BidsTypeOK', NEW n \in Names, OnlyAt(n),
         \A a \in Bidders : AtStake(a, n)' = AtStake(a, n)
  PROVE  NameBidsInv'
<1>1. ASSUME NEW a \in Bidders
      PROVE  Fortune(a)' = Funds[a]
  <2>1. Fortune(a)' = Fortune(a)
    BY FortuneAt DEF NameBidsInv
  <2>2. Fortune(a) = Funds[a]
    BY DEF NameBidsInv, OnlyWinnersPay, Fortune
  <2> QED
    BY <2>1, <2>2
<1> QED
  BY <1>1 DEF NameBidsInv, OnlyWinnersPay, Fortune

(* A bid moves tokens of the bidder into the auction, and the standing bid *)
(* of somebody else into the refunds.                                      *)
LEMMA BidnameKeeps ==
  ASSUME NameBidsInv, NEW a \in Bidders, NEW n \in Names, NEW amount \in Bids,
         bidname(a, n, amount)
  PROVE  NameBidsInv'
<1> USE NameBidsAssumption DEF NameBidsInv
<1>1. /\ amount \in Int /\ amount > 0 /\ amount <= tokens[a]
      /\ tokens' = Paid(tokens, a, NamesAccount, amount)
      /\ bidder' = [bidder EXCEPT ![n] = a]
      /\ bid' = [bid EXCEPT ![n] = amount]
      /\ sinceBid' = [sinceBid EXCEPT ![n] = 0]
      /\ clock' = clock /\ accounts' = accounts /\ paid' = paid
  BY DEF bidname, CanPay, Place
<1>2. /\ tokens \in [Bidders \cup {NamesAccount} -> Nat]
      /\ bidder \in [Names -> Bidders \cup {Nobody}]
      /\ bid \in [Names -> Int]
      /\ refunds \in [Names -> [Bidders -> Nat]]
      /\ paid \in [Bidders -> Nat]
  BY DEF BidsTypeOK
<1>3. /\ tokens' \in [Bidders \cup {NamesAccount} -> Nat]
      /\ tokens'[a] = tokens[a] - amount
      /\ \A b \in Bidders \ {a} : tokens'[b] = tokens[b]
  <2>1. a \in Bidders /\ a # NamesAccount /\ NamesAccount \notin Bidders
    BY DEF NameBidsAssumption
  <2>2. /\ tokens[a] \in Nat /\ tokens[NamesAccount] \in Nat
        /\ tokens[a] - amount \in Nat /\ tokens[NamesAccount] + amount \in Nat
    BY <1>1, <1>2, <2>1
  <2> QED
    BY <1>1, <1>2, <2>1, <2>2 DEF Paid
<1>4. /\ bidder'[n] = a /\ bid'[n] = amount
      /\ Nobody \notin Bidders
      /\ \A m \in Names \ {n} : bidder'[m] = bidder[m] /\ bid'[m] = bid[m]
  BY <1>1, <1>2
(* What the bidder who is outbid is owed, if there is one. *)
<1>5. \/ bidder[n] = Nobody /\ refunds' = refunds
      \/ /\ bidder[n] \in Bidders \ {a} /\ bid[n] > 0
         /\ refunds' = [refunds EXCEPT ![n][bidder[n]] = @ + bid[n]]
  <2>1. CASE ~HasRow(n)
    BY <2>1 DEF bidname, HasRow
  <2>2. CASE HasRow(n)
    <3>1. /\ Outbids(amount, bid[n]) /\ bidder[n] # a
          /\ refunds' = [refunds EXCEPT ![n][bidder[n]] = Owed(@, bid[n])]
      BY <2>2 DEF bidname
    <3>2. bidder[n] \in Bidders \ {a} /\ bid[n] > 0
      BY <1>2, <2>2, <3>1 DEF HasRow, Outbids
    <3> QED
      BY <3>1, <3>2 DEF Owed
  <2> QED
    BY <2>1, <2>2
<1>6. /\ refunds' \in [Names -> [Bidders -> Nat]]
      /\ \A m \in Names \ {n} : refunds'[m] = refunds[m]
  <2>1. CASE refunds' = refunds
    BY <1>2, <2>1
  <2>2. ASSUME bidder[n] \in Bidders \ {a}, bid[n] > 0,
               refunds' = [refunds EXCEPT ![n][bidder[n]] = @ + bid[n]]
        PROVE  /\ refunds' \in [Names -> [Bidders -> Nat]]
               /\ \A m \in Names \ {n} : refunds'[m] = refunds[m]
    <3>1. refunds[n][bidder[n]] + bid[n] \in Nat
      BY <1>2, <2>2
    <3> DEFINE owed == refunds[n][bidder[n]] + bid[n]
    <3>2. refunds' = [refunds EXCEPT ![n][bidder[n]] = owed]
      BY <2>2
    <3> HIDE DEF owed
    <3> QED
      BY <1>2, <2>2, <3>1, <3>2 DEF owed
  <2> QED
    BY <1>5, <2>1, <2>2
<1>7. BidsTypeOK'
  <2>1. \A m \in Names : HasRow(m)' <=> bid'[m] # 0
    BY <1>1, <1>4 DEF BidsTypeOK, HasRow
  <2>2. /\ bidder' \in [Names -> Bidders \cup {Nobody}]
        /\ bid' \in [Names -> Int]
        /\ sinceBid' \in [Names -> 0 .. OneDay + 1]
    BY <1>1 DEF BidsTypeOK
  <2>3. begun' \in BOOLEAN
    BY <1>1, Zenon DEF BidsTypeOK, clock
  <2>4. /\ sinceClose' \in 0 .. OneDay + 1 /\ sinceActive' \in 0 .. Fortnight + 1
        /\ accounts' \subseteq Names /\ paid' \in [Bidders -> Nat]
    BY <1>1 DEF BidsTypeOK, clock
  <2> QED
    BY <1>3, <1>6, <2>1, <2>2, <2>3, <2>4 DEF BidsTypeOK
<1>8. ASSUME NEW b \in Bidders
      PROVE  AtStake(b, n)' = AtStake(b, n)
  <2>1. /\ AtStake(b, n) =
             tokens[b] + refunds[n][b]
               + (IF bidder[n] # b THEN 0 ELSE IF bid[n] > 0 THEN bid[n] ELSE -bid[n])
               + paid[b]
        /\ AtStake(b, n)' =
             tokens'[b] + refunds'[n][b] + (IF a # b THEN 0 ELSE amount) + paid[b]
    BY <1>1, <1>4 DEF AtStake, OwedTo, Standing, Open
  <2>2. tokens[b] \in Nat /\ refunds[n][b] \in Nat /\ paid[b] \in Nat /\ bid[n] \in Int
    BY <1>2
  <2>3. CASE b = a
    <3>1. bidder[n] # a /\ refunds'[n][a] = refunds[n][a]
      BY <1>2, <1>4, <1>5
    <3> QED
      BY <1>1, <1>3, <2>1, <2>2, <2>3, <3>1
  <2>4. CASE b # a /\ b = bidder[n]
    <3>1. bid[n] > 0 /\ refunds'[n][b] = refunds[n][b] + bid[n]
      BY <1>2, <1>4, <1>5, <2>4
    <3> QED
      BY <1>3, <2>1, <2>2, <2>4, <3>1
  <2>5. CASE b # a /\ b # bidder[n]
    <3>1. refunds'[n][b] = refunds[n][b]
      BY <1>2, <1>5, <2>5
    <3> QED
      BY <1>3, <2>1, <2>2, <2>5, <3>1
  <2> QED
    BY <2>3, <2>4, <2>5
<1>9. OnlyAt(n)
  BY <1>4, <1>6 DEF OnlyAt
<1> QED
  BY <1>7, <1>8, <1>9, StepAt

(* A refund is fetched: what was owed becomes tokens.                      *)
LEMMA BidrefundKeeps ==
  ASSUME NameBidsInv, NEW a \in Bidders, NEW n \in Names, bidrefund(a, n)
  PROVE  NameBidsInv'
<1> USE NameBidsAssumption DEF NameBidsInv
<1> DEFINE amount == refunds[n][a]
<1>1. /\ amount <= tokens[NamesAccount]
      /\ tokens' = Paid(tokens, NamesAccount, a, amount)
      /\ refunds' = [refunds EXCEPT ![n][a] = 0]
      /\ auctionRow' = auctionRow /\ clock' = clock /\ accounts' = accounts /\ paid' = paid
  BY DEF bidrefund, CanPay
<1>2. /\ tokens \in [Bidders \cup {NamesAccount} -> Nat]
      /\ refunds \in [Names -> [Bidders -> Nat]]
      /\ bid \in [Names -> Int]
      /\ paid \in [Bidders -> Nat]
      /\ amount \in Nat
  BY DEF BidsTypeOK
<1>3. /\ tokens' \in [Bidders \cup {NamesAccount} -> Nat]
      /\ tokens'[a] = tokens[a] + amount
      /\ \A b \in Bidders \ {a} : tokens'[b] = tokens[b]
  <2> HIDE DEF amount
  <2> QED
    BY <1>1, <1>2 DEF Paid
<1>4. /\ refunds' \in [Names -> [Bidders -> Nat]]
      /\ refunds'[n][a] = 0
      /\ \A b \in Bidders \ {a} : refunds'[n][b] = refunds[n][b]
      /\ \A m \in Names \ {n} : refunds'[m] = refunds[m]
  BY <1>1, <1>2
<1>5. BidsTypeOK'
  <2>1. begun' \in BOOLEAN
    BY <1>1, Zenon DEF BidsTypeOK, clock
  <2> QED
    BY <1>1, <1>3, <1>4, <2>1 DEF BidsTypeOK, auctionRow, clock, HasRow
<1>6. ASSUME NEW b \in Bidders
      PROVE  AtStake(b, n)' = AtStake(b, n)
  <2>1. Standing(b)' = Standing(b)
    BY <1>1 DEF Standing, Open, auctionRow
  <2>2. Standing(b)[n] \in Nat
    <3>1. Standing(b) \in [Names -> Nat]
      BY <1>2, StandingIsNat DEF Standing, Open
    <3> QED
      BY <3>1
  <2>3. /\ AtStake(b, n) =
             tokens[b] + refunds[n][b] + Standing(b)[n] + paid[b]
        /\ AtStake(b, n)' =
             tokens'[b] + refunds'[n][b] + Standing(b)[n] + paid[b]
    BY <1>1, <2>1 DEF AtStake, OwedTo
  <2>4. tokens[b] \in Nat /\ refunds[n][b] \in Nat /\ paid[b] \in Nat
    BY <1>2
  <2>5. CASE b = a
    BY <1>3, <1>4, <2>2, <2>3, <2>4, <2>5
  <2>6. CASE b # a
    BY <1>3, <1>4, <2>3, <2>6
  <2> QED
    BY <2>5, <2>6
<1>7. OnlyAt(n)
  BY <1>1, <1>4 DEF OnlyAt, auctionRow
<1> QED
  BY <1>5, <1>6, <1>7, StepAt

(* The name is claimed: the standing bid has been paid for it.  Nothing    *)
(* moves when the system account creates it.                               *)
LEMMA NewaccountKeeps ==
  ASSUME NameBidsInv, NEW creator \in Bidders \cup {System}, NEW n \in Names,
         newaccount(creator, n)
  PROVE  NameBidsInv'
<1> USE NameBidsAssumption DEF NameBidsInv
<1>1. /\ accounts' = accounts \cup {n}
      /\ tokens' = tokens /\ refunds' = refunds /\ clock' = clock
  BY DEF newaccount
<1>2. /\ tokens \in [Bidders \cup {NamesAccount} -> Nat]
      /\ bidder \in [Names -> Bidders \cup {Nobody}]
      /\ bid \in [Names -> Int]
      /\ refunds \in [Names -> [Bidders -> Nat]]
      /\ paid \in [Bidders -> Nat]
  BY DEF BidsTypeOK
<1>3. begun' \in BOOLEAN
  BY <1>1, Zenon DEF BidsTypeOK, clock
<1>4. CASE creator = System
  <2>1. auctionRow' = auctionRow /\ paid' = paid
    BY <1>4 DEF newaccount
  <2>2. BidsTypeOK'
    BY <1>1, <1>3, <2>1 DEF BidsTypeOK, auctionRow, clock, HasRow
  <2>3. \A a \in Bidders : AtStake(a, n)' = AtStake(a, n)
    BY <1>1, <2>1 DEF AtStake, OwedTo, Standing, Open, auctionRow
  <2>4. OnlyAt(n)
    BY <1>1, <2>1 DEF OnlyAt, auctionRow
  <2> QED
    BY <2>2, <2>3, <2>4, StepAt
<1>5. CASE creator # System
  <2>1. /\ creator \in Bidders /\ bidder[n] = creator /\ bid[n] < 0
        /\ bidder' = [bidder EXCEPT ![n] = Nobody]
        /\ bid' = [bid EXCEPT ![n] = 0]
        /\ sinceBid' = [sinceBid EXCEPT ![n] = 0]
        /\ paid' = [paid EXCEPT ![creator] = @ - bid[n]]
    BY <1>5 DEF newaccount, MayClaim, Closed
  <2>2. /\ paid[creator] - bid[n] \in Nat
        /\ paid' \in [Bidders -> Nat]
        /\ paid'[creator] = paid[creator] - bid[n]
        /\ \A b \in Bidders \ {creator} : paid'[b] = paid[b]
    <3>1. paid[creator] - bid[n] \in Nat
      BY <1>2, <2>1
    <3> QED
      BY <1>2, <2>1, <3>1
  <2>3. /\ bidder'[n] = Nobody /\ bid'[n] = 0
        /\ Nobody \notin Bidders
        /\ \A m \in Names \ {n} : bidder'[m] = bidder[m] /\ bid'[m] = bid[m]
    BY <1>2, <2>1
  <2>4. BidsTypeOK'
    <3>1. \A m \in Names : HasRow(m)' <=> bid'[m] # 0
      BY <2>3 DEF BidsTypeOK, HasRow
    <3>2. /\ bidder' \in [Names -> Bidders \cup {Nobody}]
          /\ bid' \in [Names -> Int]
          /\ sinceBid' \in [Names -> 0 .. OneDay + 1]
      BY <2>1 DEF BidsTypeOK
    <3> QED
      BY <1>1, <1>3, <2>2, <3>1, <3>2 DEF BidsTypeOK, clock
  <2>5. ASSUME NEW b \in Bidders
        PROVE  AtStake(b, n)' = AtStake(b, n)
    <3>1. /\ AtStake(b, n) =
               tokens[b] + refunds[n][b]
                 + (IF b = creator THEN -bid[n] ELSE 0) + paid[b]
          /\ AtStake(b, n)' = tokens[b] + refunds[n][b] + 0 + paid'[b]
      BY <1>1, <1>2, <2>1, <2>3 DEF AtStake, OwedTo, Standing, Open
    <3>2. /\ tokens[b] \in Nat /\ refunds[n][b] \in Nat
          /\ paid[b] \in Nat /\ bid[n] \in Int
      BY <1>2
    <3>3. CASE b = creator
      BY <2>2, <3>1, <3>2, <3>3
    <3>4. CASE b # creator
      BY <2>2, <3>1, <3>2, <3>4
    <3> QED
      BY <3>3, <3>4
  <2>6. OnlyAt(n)
    BY <1>1, <2>3 DEF OnlyAt
  <2> QED
    BY <2>4, <2>5, <2>6, StepAt
<1> QED
  BY <1>4, <1>5

(* The sign of the bid changes, its amount does not.                       *)
LEMMA CloseKeeps ==
  ASSUME NameBidsInv, NEW n \in Names, Close(n)
  PROVE  NameBidsInv'
<1> USE NameBidsAssumption DEF NameBidsInv
<1>1. /\ bid[n] > 0
      /\ bid' = [bid EXCEPT ![n] = -@]
      /\ sinceClose' = 0
      /\ tokens' = tokens /\ bidder' = bidder /\ sinceBid' = sinceBid
      /\ refunds' = refunds /\ sinceActive' = sinceActive
      /\ accounts' = accounts /\ paid' = paid
  BY DEF Close, MayClose, Highest, Open
<1>2. /\ bid \in [Names -> Int]
      /\ bid' \in [Names -> Int]
      /\ bid'[n] = -bid[n]
      /\ \A m \in Names \ {n} : bid'[m] = bid[m]
  <2>1. bid \in [Names -> Int]
    BY DEF BidsTypeOK
  <2> QED
    BY <1>1, <2>1
<1>3. BidsTypeOK'
  <2>1. begun' \in BOOLEAN
    BY Zenon DEF BidsTypeOK, Close
  <2>2. \A m \in Names : HasRow(m)' <=> bid'[m] # 0
    <3>1. bid'[n] # 0 /\ bid[n] # 0
      BY <1>1, <1>2
    <3> QED
      BY <1>1, <1>2, <3>1 DEF BidsTypeOK, HasRow
  <2> QED
    BY <1>1, <1>2, <2>1, <2>2 DEF BidsTypeOK
<1>4. ASSUME NEW b \in Bidders
      PROVE  AtStake(b, n)' = AtStake(b, n)
  <2>1. Standing(b)'[n] = Standing(b)[n]
    <3>1. bid[n] \in Int /\ bid[n] > 0 /\ bid'[n] = -bid[n]
      BY <1>1, <1>2
    <3> QED
      BY <1>1, <3>1 DEF Standing, Open
  <2> QED
    BY <1>1, <2>1 DEF AtStake, OwedTo
<1>5. OnlyAt(n)
  BY <1>1, <1>2 DEF OnlyAt
<1> QED
  BY <1>3, <1>4, <1>5, StepAt

(* Activation and time change no auction and no balance.                   *)
LEMMA OtherKeeps ==
  ASSUME NameBidsInv, Activate \/ BidsTick \/ UNCHANGED bidVars
  PROVE  NameBidsInv'
<1> USE NameBidsAssumption DEF NameBidsInv
<1>1. /\ tokens' = tokens /\ bidder' = bidder /\ bid' = bid
      /\ refunds' = refunds /\ accounts' = accounts /\ paid' = paid
  BY DEF Activate, BidsTick, bidVars, auctionRow
<1>2. /\ sinceBid' \in [Names -> 0 .. OneDay + 1]
      /\ sinceClose' \in 0 .. OneDay + 1
      /\ sinceActive' \in 0 .. Fortnight + 1
  BY DEF BidsTypeOK, Activate, BidsTick, bidVars, auctionRow, clock, Older
<1>3. begun' \in BOOLEAN
  BY Zenon DEF BidsTypeOK, Activate, BidsTick, bidVars, clock
<1>4. BidsTypeOK'
  BY <1>1, <1>2, <1>3 DEF BidsTypeOK, HasRow
<1> QED
  BY <1>1, <1>4 DEF OnlyWinnersPay, OwedTo, Standing, Open

(* At first nobody has bid and everybody has the whole endowment.          *)
LEMMA BidsBegin == BidsInit => NameBidsInv
<1> SUFFICES ASSUME BidsInit PROVE NameBidsInv
  OBVIOUS
<1> USE NameBidsAssumption
<1>1. BidsTypeOK
  <2>1. /\ tokens \in [Bidders \cup {NamesAccount} -> Nat]
        /\ sinceBid \in [Names -> 0 .. OneDay + 1]
        /\ sinceClose \in 0 .. OneDay + 1
        /\ sinceActive \in 0 .. Fortnight + 1
    BY DEF BidsInit
  <2>2. /\ bidder \in [Names -> Bidders \cup {Nobody}]
        /\ bid \in [Names -> Int]
        /\ \A n \in Names : HasRow(n) <=> bid[n] # 0
        /\ refunds \in [Names -> [Bidders -> Nat]]
        /\ accounts \subseteq Names
        /\ paid \in [Bidders -> Nat]
    BY DEF BidsInit, HasRow
  <2>3. begun \in BOOLEAN
    BY DEF BidsInit
  <2> QED
    BY <2>1, <2>2, <2>3 DEF BidsTypeOK
<1>2. OnlyWinnersPay
  <2> SUFFICES ASSUME NEW a \in Bidders
               PROVE  tokens[a] + Total(OwedTo(a)) + Total(Standing(a)) + paid[a]
                        = Funds[a]
    BY DEF OnlyWinnersPay
  <2>1. /\ OwedTo(a) \in [Names -> Nat] /\ \A n \in Names : OwedTo(a)[n] = 0
        /\ Standing(a) \in [Names -> Nat] /\ \A n \in Names : Standing(a)[n] = 0
    BY DEF BidsInit, OwedTo, Standing, Open
  <2>2. Total(OwedTo(a)) = 0 /\ Total(Standing(a)) = 0
    BY <2>1, TotalZero
  <2>3. tokens[a] = Funds[a] /\ paid[a] = 0 /\ Funds[a] \in Nat
    BY DEF BidsInit
  <2> QED
    BY <2>2, <2>3
<1> QED
  BY <1>1, <1>2 DEF NameBidsInv

(* Every transaction preserves the invariant. *)
LEMMA BidsStep == NameBidsInv /\ [BidsNext]_bidVars => NameBidsInv'
<1> SUFFICES ASSUME NameBidsInv, [BidsNext]_bidVars PROVE NameBidsInv'
  OBVIOUS
<1>1. ASSUME NEW n \in Names, NEW a \in Bidders, NEW amount \in Bids,
             bidname(a, n, amount)
      PROVE  NameBidsInv'
  BY <1>1, BidnameKeeps
<1>2. ASSUME NEW n \in Names, NEW a \in Bidders, bidrefund(a, n)
      PROVE  NameBidsInv'
  BY <1>2, BidrefundKeeps
<1>3. ASSUME NEW n \in Names, NEW creator \in Bidders \cup {System},
             newaccount(creator, n)
      PROVE  NameBidsInv'
  BY <1>3, NewaccountKeeps
<1>4. ASSUME NEW n \in Names, Close(n)
      PROVE  NameBidsInv'
  BY <1>4, CloseKeeps
<1>5. ASSUME Activate \/ BidsTick \/ UNCHANGED bidVars
      PROVE  NameBidsInv'
  BY <1>5, OtherKeeps
<1> QED
  BY <1>1, <1>2, <1>3, <1>4, <1>5 DEF BidsNext

(* What WinnerKeepsName says of one name in one step. *)
Kept(n) ==
  Closed(n) =>
    /\ (bidder[n]' # bidder[n] \/ bid[n]' # bid[n]) => paid' # paid
    /\ n \in accounts' \ accounts =>
         newaccount(bidder[n], n) \/ newaccount(System, n)

LEMMA StepKeepsName ==
  ASSUME NameBidsInv, [BidsNext]_bidVars, NEW n \in Names
  PROVE  Kept(n)
<1> USE NameBidsAssumption
<1> SUFFICES ASSUME Closed(n) PROVE Kept(n)
  BY DEF Kept
<1>1. /\ bid \in [Names -> Int] /\ bid[n] < 0
      /\ bidder \in [Names -> Bidders \cup {Nobody}]
      /\ paid \in [Bidders -> Nat]
  BY DEF NameBidsInv, BidsTypeOK, Closed
<1>2. ASSUME NEW m \in Names, NEW a \in Bidders, NEW amount \in Bids,
             bidname(a, m, amount)
      PROVE  Kept(n)
  <2>1. m # n
    <3>1. HasRow(n)
      BY <1>1 DEF NameBidsInv, BidsTypeOK
    <3> QED
      BY <1>1, <1>2, <3>1 DEF bidname, Outbids
  <2> QED
    BY <1>1, <1>2, <2>1 DEF bidname, Place, Kept
<1>3. ASSUME NEW m \in Names, NEW a \in Bidders, bidrefund(a, m)
      PROVE  Kept(n)
  BY <1>3 DEF bidrefund, auctionRow, Kept
<1>4. ASSUME NEW m \in Names, NEW creator \in Bidders \cup {System},
             newaccount(creator, m)
      PROVE  Kept(n)
  <2>1. CASE m # n
    BY <1>1, <1>4, <2>1 DEF newaccount, auctionRow, Kept
  <2>2. CASE m = n /\ creator = System
    BY <1>4, <2>2 DEF newaccount, auctionRow, Kept
  <2>3. CASE m = n /\ creator # System
    <3>1. /\ creator \in Bidders /\ bidder[n] = creator
          /\ paid' = [paid EXCEPT ![creator] = @ - bid[n]]
      BY <1>4, <2>3 DEF newaccount, MayClaim
    <3>2. paid'[creator] # paid[creator]
      BY <1>1, <3>1
    <3> QED
      BY <1>4, <2>3, <3>1, <3>2 DEF Kept
  <2> QED
    BY <2>1, <2>2, <2>3
<1>5. ASSUME NEW m \in Names, Close(m)
      PROVE  Kept(n)
  <2>1. m # n
    BY <1>1, <1>5 DEF Close, MayClose, Highest, Open
  <2> QED
    BY <1>1, <1>5, <2>1 DEF Close, Kept
<1>6. ASSUME Activate \/ BidsTick \/ UNCHANGED bidVars
      PROVE  Kept(n)
  BY <1>6 DEF Activate, BidsTick, bidVars, auctionRow, Kept
<1> QED
  BY <1>2, <1>3, <1>4, <1>5, <1>6 DEF BidsNext

-----------------------------------------------------------------------------
(* Types and fortunes are an inductive invariant of the auctions.          *)
THEOREM NameBidsInvariant == BidsSpec => []NameBidsInv
<1>1. BidsInit => NameBidsInv
  BY BidsBegin
<1>2. NameBidsInv /\ [BidsNext]_bidVars => NameBidsInv'
  BY BidsStep
<1> QED
  BY <1>1, <1>2, PTL DEF BidsSpec

(* Every table keeps its type: no refund and no balance is negative.       *)
THEOREM BidsTypes == BidsSpec => []BidsTypeOK
<1>1. NameBidsInv => BidsTypeOK
  BY DEF NameBidsInv
<1> QED
  BY <1>1, NameBidsInvariant, PTL

(* Whoever loses an auction loses no token by it.                          *)
THEOREM LosersKeepEverything == BidsSpec => []OnlyWinnersPay
<1>1. NameBidsInv => OnlyWinnersPay
  BY DEF NameBidsInv
<1> QED
  BY <1>1, NameBidsInvariant, PTL

(* The name of a closed auction goes to nobody but its winner.             *)
THEOREM ClosedIsFinal == BidsSpec => WinnerKeepsName
<1>1. NameBidsInv /\ [BidsNext]_bidVars => \A n \in Names : Kept(n)
  BY StepKeepsName
<1>2. (\A n \in Names : Kept(n)) =>
        \A n \in Names :
          Closed(n) =>
            /\ (bidder[n]' # bidder[n] \/ bid[n]' # bid[n]) => paid' # paid
            /\ n \in accounts' \ accounts =>
                 newaccount(bidder[n], n) \/ newaccount(System, n)
  BY DEF Kept
<1> QED
  BY <1>1, <1>2, NameBidsInvariant, PTL DEF BidsSpec, WinnerKeepsName
===============================================================================
