--------------------------- MODULE BandwidthProofs ---------------------------
(***************************************************************************)
(* Proofs about bandwidth that is staked and bandwidth that is rented, for *)
(* any finite set of accounts, any amounts, any delay, any curves, periods *)
(* and queue lengths, and any sequence of the actions of module Staking,   *)
(* in the first part, and of module Powerup, in the second.  Both change   *)
(* the table of rows of module Resources; each part stands by itself.      *)
(***************************************************************************)
EXTENDS Staking, Powerup, SumLemmas

(* The age of a refund counts from the last undelegation of its owner: the *)
(* code only stores request_time, and relies on every undelegation         *)
(* resetting it.                                                           *)
AgeCounts ==
  \A a \in Accounts \ {Stake} : HasRefund(a) => age[a] <= lastUnstake[a]

(* The staking account never has a refund: its own stake moves no tokens,  *)
(* and what others give it is not taken from a refund.                     *)
StakeAwaitsNothing == ~HasRefund(Stake)

StakingInv ==
  /\ TypeOK
  /\ StakeBacked
  /\ VotesMatchStake
  /\ TotalsMatchStake
  /\ WpsTotalMatches
  /\ AgeCounts
  /\ StakeAwaitsNothing

(* The lemmas on sums, for the tables of accounts and of pairs of them. *)
LEMMA AccountUpdate ==
  ASSUME NEW f \in [Accounts -> Nat], NEW a \in Accounts, NEW n \in Nat
  PROVE  Total([f EXCEPT ![a] = n]) = Total(f) - f[a] + n
BY TotalUpdate, ResourcesAssumption

LEMMA PairUpdate ==
  ASSUME NEW D \in [Pairs -> Nat], NEW p \in Pairs, NEW n \in Nat
  PROVE  Total([D EXCEPT ![p] = n]) = Total(D) - D[p] + n
<1>1. IsFiniteSet(Pairs)
  BY PairsFinite, ResourcesAssumption DEF Pairs
<1> QED
  BY <1>1, TotalUpdate

LEMMA ZeroDelband ==
  ASSUME NEW D \in [Accounts \X Accounts -> Nat], NEW a \in Accounts,
         \A p \in Accounts \X Accounts : D[p] = 0
  PROVE  TotalFrom(D, Accounts, a) = 0 /\ TotalTo(D, Accounts, a) = 0
BY ZeroTable, ResourcesAssumption

LEMMA LargerType ==
  ASSUME NEW m \in Int, NEW n \in Int
  PROVE  /\ Larger(m, n) \in Int
         /\ Larger(m, n) >= m
         /\ Larger(m, n) >= n
         /\ Larger(m, n) = m \/ Larger(m, n) = n
BY DEF Larger

(* The change of a userres row keeps the tables of module Resources well   *)
(* typed and adds delta to the two bandwidth weights of one account.       *)
LEMMA UpdateTotalsKeeps ==
  ASSUME ResourcesTypeOK, NEW a \in Accounts, NEW delta \in [Bandwidth -> Int],
         UpdateTotals(a, delta)
  PROVE  /\ ResourcesTypeOK'
         /\ \A k \in Bandwidth :
              weight'[k] = [weight[k] EXCEPT ![a] = @ + delta[k]]
<1> USE ResourcesAssumption
<1>1. /\ \A k \in Bandwidth : weight[k][a] + delta[k] \in Nat
      /\ Bandwidth \subseteq Kinds
      /\ "ram" \notin Bandwidth
  BY DEF UpdateTotals, Covered, ResourcesTypeOK, Bandwidth, Kinds
<1>2. \A k \in Bandwidth :
        weight'[k] = [weight[k] EXCEPT ![a] = @ + delta[k]]
  BY <1>1 DEF UpdateTotals
<1>3. weight' \in [Kinds -> [Accounts -> Nat]]
  <2>1. \A k \in Kinds : k # "ram" => k \in Bandwidth
    BY DEF Kinds
  <2> QED
    BY <1>1, <2>1 DEF UpdateTotals, ResourcesTypeOK
<1>4. limit' \in [Kinds -> [Accounts -> Int]]
  <2>1. limit' = BandwidthLimits(a, weight')
    BY DEF UpdateTotals
  <2>2. weight'["ram"][a] + RamGift \in Int /\ "ram" \in Kinds
    BY <1>3 DEF Kinds
  <2>3. \A k \in Kinds : weight'[k][a] \in Int /\ limit[k][a] \in Int
    BY <1>3 DEF ResourcesTypeOK
  <2>4. \A k \in Kinds :
          Larger(weight'["ram"][a] + RamGift, limit[k][a]) \in Int
    BY <2>2, <2>3, LargerType
  <2>5. \A k \in Kinds :
          [limit[k] EXCEPT ![a] =
             IF k = "ram" THEN Larger(weight'["ram"][a] + RamGift, @)
             ELSE weight'[k][a]] \in [Accounts -> Int]
    BY <2>3, <2>4 DEF ResourcesTypeOK
  <2> QED
    BY <2>1, <2>5 DEF BandwidthLimits, ResourcesTypeOK
<1>5. hasRow' \subseteq created' /\ created' \subseteq Accounts
  BY DEF UpdateTotals, ResourcesTypeOK
<1>6. managed' \in [Kinds -> SUBSET created']
  BY DEF UpdateTotals, ResourcesTypeOK
<1> QED
  BY <1>2, <1>3, <1>4, <1>5, <1>6 DEF ResourcesTypeOK

LEMMA InitEstablishes == Init => StakingInv
<1> SUFFICES ASSUME Init PROVE StakingInv
  OBVIOUS
<1> USE ResourcesAssumption, StakingAssumption
<1>1. TypeOK
  <2>1. ResourcesTypeOK
    <3>1. hasRow \subseteq created /\ created = Accounts
      BY DEF Init, ResourcesInit
    <3>2. weight \in [Kinds -> [Accounts -> Nat]]
      BY DEF Init, ResourcesInit
    <3>3. managed \in [Kinds -> SUBSET created]
      BY DEF Init, ResourcesInit
    <3>4. limit \in [Kinds -> [Accounts -> Int]]
      BY DEF Init, ResourcesInit, Unlimited
    <3> QED
      BY <3>1, <3>2, <3>3, <3>4 DEF ResourcesTypeOK
  <2>2. 0 \in 0 .. Delay /\ Delay \in 0 .. Delay
    OBVIOUS
  <2>3. /\ age \in [Accounts -> 0 .. Delay]
        /\ lastUnstake \in [Accounts -> 0 .. Delay]
    BY <2>2 DEF Init
  <2>4. /\ delband \in [Bandwidth -> [Pairs -> Nat]]
        /\ refunds \in [Bandwidth -> [Accounts -> Nat]]
        /\ staked \in [Accounts -> Nat]
    BY DEF Init
  <2>5. /\ liquid \in [Accounts -> Nat]
        /\ totalStake \in Nat
        /\ vesting \in Nat
        /\ unbacked \in Int
    BY DEF Init
  <2>6. activated \in BOOLEAN
    BY Zenon DEF Init
  <2> QED
    BY <2>1, <2>3, <2>4, <2>5, <2>6 DEF TypeOK
<1>2. /\ "net" \in Bandwidth /\ "cpu" \in Bandwidth
      /\ IsFiniteSet(Pairs)
  BY PairsFinite DEF Bandwidth, Pairs
<1>3. /\ \A k \in Bandwidth : delband[k] = [p \in Pairs |-> 0]
      /\ \A k \in Bandwidth : refunds[k] = [a \in Accounts |-> 0]
  BY DEF Init
<1>4. \A k \in Bandwidth : Total(delband[k]) = 0 /\ Total(refunds[k]) = 0
  <2> SUFFICES ASSUME NEW k \in Bandwidth
               PROVE  Total(delband[k]) = 0 /\ Total(refunds[k]) = 0
    OBVIOUS
  <2>1. /\ delband[k] \in [Pairs -> Nat]
        /\ \A p \in Pairs : delband[k][p] = 0
    BY <1>3
  <2>2. /\ refunds[k] \in [Accounts -> Nat]
        /\ \A a \in Accounts : refunds[k][a] = 0
    BY <1>3
  <2>3. Total(delband[k]) = 0
    BY <1>2, <2>1, TotalZero
  <2>4. Total(refunds[k]) = 0
    BY <2>2, TotalZero
  <2> QED
    BY <2>3, <2>4
<1>5. \A k \in Bandwidth, a \in Accounts :
        /\ TotalFrom(delband[k], Accounts, a) = 0
        /\ TotalTo(delband[k], Accounts, a) = 0
  <2> SUFFICES ASSUME NEW k \in Bandwidth, NEW a \in Accounts
               PROVE  /\ TotalFrom(delband[k], Accounts, a) = 0
                      /\ TotalTo(delband[k], Accounts, a) = 0
    OBVIOUS
  <2>1. /\ delband[k] \in [Accounts \X Accounts -> Nat]
        /\ \A p \in Accounts \X Accounts : delband[k][p] = 0
    BY <1>3 DEF Pairs
  <2> QED
    BY <2>1, ZeroDelband
<1>6. StakeBacked
  <2>1. liquid[Stake] = Endowment[Stake]
    BY DEF Init
  <2> QED
    BY <1>2, <1>4, <2>1 DEF Init, StakeBacked, AllStake, AllRefunds
<1>7. VotesMatchStake
  <2> SUFFICES ASSUME NEW a \in Accounts PROVE staked[a] = StakeOf(a)
    BY DEF VotesMatchStake
  <2>1. /\ TotalFrom(delband["net"], Accounts, a) = 0
        /\ TotalFrom(delband["cpu"], Accounts, a) = 0
    BY <1>2, <1>5
  <2>2. staked[a] = 0
    BY DEF Init
  <2> QED
    BY <2>1, <2>2 DEF StakeOf
<1>8. TotalsMatchStake
  BY <1>5 DEF Init, ResourcesInit, TotalsMatchStake, Kinds, Bandwidth
<1>9. WpsTotalMatches
  BY <1>2, <1>4 DEF Init, WpsTotalMatches, AllStake
<1>10. AgeCounts
  BY DEF Init, AgeCounts
<1>11. StakeAwaitsNothing
  <2>1. Stake \in Accounts
    OBVIOUS
  <2>2. \A k \in Bandwidth : refunds[k][Stake] = 0
    BY <1>3, <2>1
  <2> QED
    BY <2>2 DEF StakeAwaitsNothing, HasRefund
<1> QED
  BY <1>1, <1>6, <1>7, <1>8, <1>9, <1>10, <1>11 DEF StakingInv

(* One changed delband row changes the stake of its owner, the bandwidth   *)
(* of its receiver and the stake of all by the same delta, and nothing     *)
(* else.                                                                   *)
LEMMA DelbandUpdate ==
  ASSUME delband \in [Bandwidth -> [Pairs -> Nat]],
         NEW from \in Accounts, NEW receiver \in Accounts,
         NEW delta \in [Bandwidth -> Int],
         UpdateDelband(from, receiver, delta)
  PROVE  /\ delband' \in [Bandwidth -> [Pairs -> Nat]]
         /\ AllStake \in Nat /\ AllStake' \in Nat
         /\ AllStake' = AllStake + TotalOf(delta)
         /\ \A a \in Accounts :
              /\ StakeOf(a) \in Nat /\ StakeOf(a)' \in Int
              /\ a = from => StakeOf(a)' = StakeOf(a) + TotalOf(delta)
              /\ a # from => StakeOf(a)' = StakeOf(a)
         /\ \A k \in Bandwidth, a \in Accounts :
              /\ TotalTo(delband[k], Accounts, a) \in Nat
              /\ a = receiver => TotalTo(delband'[k], Accounts, a) =
                                   TotalTo(delband[k], Accounts, a) + delta[k]
              /\ a # receiver => TotalTo(delband'[k], Accounts, a) =
                                   TotalTo(delband[k], Accounts, a)
<1> USE ResourcesAssumption
<1>1. /\ "net" \in Bandwidth /\ "cpu" \in Bandwidth
      /\ IsFiniteSet(Pairs)
      /\ <<from, receiver>> \in Pairs
  BY PairsFinite DEF Bandwidth, Pairs
<1> DEFINE p == <<from, receiver>>
           n(k) == delband[k][p] + delta[k]
<1>2. \A k \in Bandwidth :
        /\ delband[k] \in [Pairs -> Nat]
        /\ delband[k][p] \in Nat
        /\ n(k) \in Nat
        /\ n(k) - delband[k][p] = delta[k]
        /\ delband'[k] = [delband[k] EXCEPT ![p] = n(k)]
        /\ delband'[k] \in [Pairs -> Nat]
  <2> SUFFICES ASSUME NEW k \in Bandwidth
               PROVE  /\ delband[k] \in [Pairs -> Nat]
                      /\ delband[k][p] \in Nat
                      /\ n(k) \in Nat
                      /\ n(k) - delband[k][p] = delta[k]
                      /\ delband'[k] = [delband[k] EXCEPT ![p] = n(k)]
                      /\ delband'[k] \in [Pairs -> Nat]
    OBVIOUS
  <2>1. delband[k] \in [Pairs -> Nat]
    OBVIOUS
  <2>2. delband'[k] = [delband[k] EXCEPT ![p] = n(k)] /\ n(k) >= 0
    BY DEF UpdateDelband
  <2>3. p \in Pairs
    BY <1>1
  <2> HIDE DEF p
  <2>4. delband[k][p] \in Nat /\ delta[k] \in Int
    BY <2>1, <2>3
  <2>5. n(k) \in Nat /\ n(k) - delband[k][p] = delta[k]
    BY <2>2, <2>4
  <2>6. [delband[k] EXCEPT ![p] = n(k)] \in [Pairs -> Nat]
    BY <2>1, <2>5
  <2> QED
    BY <2>1, <2>2, <2>4, <2>5, <2>6
<1>3. \A k \in Bandwidth :
        /\ Total(delband[k]) \in Nat
        /\ Total(delband'[k]) \in Nat
        /\ Total(delband'[k]) = Total(delband[k]) + delta[k]
  <2> SUFFICES ASSUME NEW k \in Bandwidth
               PROVE  /\ Total(delband[k]) \in Nat
                      /\ Total(delband'[k]) \in Nat
                      /\ Total(delband'[k]) = Total(delband[k]) + delta[k]
    OBVIOUS
  <2>1. Total(delband[k]) \in Nat /\ Total(delband'[k]) \in Nat
    BY <1>1, <1>2, TotalType
  <2>2. Total([delband[k] EXCEPT ![p] = n(k)]) =
          Total(delband[k]) - delband[k][p] + n(k)
    <3> HIDE DEF n, p
    <3>1. delband[k] \in [Pairs -> Nat] /\ n(k) \in Nat /\ p \in Pairs
      BY <1>1, <1>2 DEF p
    <3> QED
      BY <3>1, PairUpdate
  <2> HIDE DEF n, p
  <2> QED
    BY <1>2, <2>1, <2>2
<1>4. ASSUME NEW k \in Bandwidth, NEW a \in Accounts
      PROVE  /\ TotalFrom(delband[k], Accounts, a) \in Nat
             /\ a = from => TotalFrom(delband'[k], Accounts, a) =
                              TotalFrom(delband[k], Accounts, a) + delta[k]
             /\ a # from => TotalFrom(delband'[k], Accounts, a) =
                              TotalFrom(delband[k], Accounts, a)
             /\ TotalTo(delband[k], Accounts, a) \in Nat
             /\ a = receiver => TotalTo(delband'[k], Accounts, a) =
                                  TotalTo(delband[k], Accounts, a) + delta[k]
             /\ a # receiver => TotalTo(delband'[k], Accounts, a) =
                                  TotalTo(delband[k], Accounts, a)
  <2> DEFINE D == delband[k]
             E == delband'[k]
             d == delta[k]
  <2>1. /\ D \in PairTable(Accounts)
        /\ E \in PairTable(Accounts)
        /\ d \in Int
        /\ E = RowAdded(D, from, receiver, d)
    BY <1>2 DEF Pairs, PairTable, RowAdded, UpdateDelband
  <2> HIDE DEF D, E, d
  <2>2. TotalFrom(D, Accounts, a) \in Nat /\ TotalTo(D, Accounts, a) \in Nat
    BY <2>1, PairTotalTypes
  <2>3. a = from => TotalFrom(E, Accounts, a) = TotalFrom(D, Accounts, a) + d
    BY <2>1, RowUpdate
  <2>4. a # from => TotalFrom(E, Accounts, a) = TotalFrom(D, Accounts, a)
    BY <2>1, RowKept
  <2>5. a = receiver => TotalTo(E, Accounts, a) = TotalTo(D, Accounts, a) + d
    BY <2>1, ColumnUpdate
  <2>6. a # receiver => TotalTo(E, Accounts, a) = TotalTo(D, Accounts, a)
    BY <2>1, ColumnKept
  <2> QED
    BY <2>2, <2>3, <2>4, <2>5, <2>6 DEF D, E, d
<1>5. /\ AllStake \in Nat /\ AllStake' \in Nat
      /\ AllStake' = AllStake + TotalOf(delta)
  <2>1. /\ AllStake = Total(delband["net"]) + Total(delband["cpu"])
        /\ AllStake' = Total(delband'["net"]) + Total(delband'["cpu"])
    BY DEF AllStake
  <2>2. delta["net"] \in Int /\ delta["cpu"] \in Int
    BY <1>1
  <2>3. \A k \in Bandwidth :
          /\ Total(delband[k]) \in Nat
          /\ Total(delband'[k]) \in Nat
          /\ Total(delband'[k]) = Total(delband[k]) + delta[k]
    BY <1>3
  <2> QED
    BY <1>1, <2>1, <2>2, <2>3 DEF TotalOf
<1>6. ASSUME NEW a \in Accounts
      PROVE  /\ StakeOf(a) \in Nat /\ StakeOf(a)' \in Int
             /\ a = from => StakeOf(a)' = StakeOf(a) + TotalOf(delta)
             /\ a # from => StakeOf(a)' = StakeOf(a)
  <2>1. /\ StakeOf(a) = TotalFrom(delband["net"], Accounts, a)
                           + TotalFrom(delband["cpu"], Accounts, a)
        /\ StakeOf(a)' = TotalFrom(delband'["net"], Accounts, a)
                            + TotalFrom(delband'["cpu"], Accounts, a)
    BY DEF StakeOf
  <2>2. delta["net"] \in Int /\ delta["cpu"] \in Int
    BY <1>1
  <2>3. \A k \in Bandwidth :
          /\ TotalFrom(delband[k], Accounts, a) \in Nat
          /\ a = from => TotalFrom(delband'[k], Accounts, a) =
                           TotalFrom(delband[k], Accounts, a) + delta[k]
          /\ a # from => TotalFrom(delband'[k], Accounts, a) =
                           TotalFrom(delband[k], Accounts, a)
    BY <1>4
  <2> QED
    BY <1>1, <2>1, <2>2, <2>3 DEF TotalOf
<1>7. delband' \in [Bandwidth -> [Pairs -> Nat]]
  BY <1>2 DEF UpdateDelband
<1> QED
  BY <1>4, <1>5, <1>6, <1>7

(* Tokens that are staked leave only the one who stakes them. *)
LEMMA TransferToStake ==
  ASSUME liquid \in [Accounts -> Nat],
         NEW source \in Accounts, NEW amount \in Nat,
         StakeTransfer(source, amount)
  PROVE  /\ liquid' \in [Accounts -> Nat]
         /\ source # Stake => liquid'[Stake] = liquid[Stake] + amount
         /\ source = Stake => liquid' = liquid
         /\ \A a \in Accounts \ {Stake} : liquid'[a] <= liquid[a]
<1> USE ResourcesAssumption, StakingAssumption
<1>1. CASE source # Stake /\ amount > 0
  <2>1. /\ amount <= liquid[source]
        /\ liquid' = [liquid EXCEPT ![source] = @ - amount,
                                    ![Stake] = @ + amount]
    BY <1>1 DEF StakeTransfer, Pay, CanPay, Paid
  <2>2. Stake \in Accounts /\ liquid[source] - amount \in Nat
    BY <2>1
  <2> QED
    BY <1>1, <2>1, <2>2
<1>2. CASE ~(source # Stake /\ amount > 0)
  <2>1. liquid' = liquid
    BY <1>2 DEF StakeTransfer
  <2> QED
    BY <1>2, <2>1
<1> QED
  BY <1>1, <1>2

(* One changed entry of each of the two refund tables. *)
LEMMA RefundsUpdate ==
  ASSUME refunds \in [Bandwidth -> [Accounts -> Nat]],
         NEW holder \in Accounts, NEW after \in [Bandwidth -> Nat],
         SetRefund(holder, after)
  PROVE  /\ refunds' \in [Bandwidth -> [Accounts -> Nat]]
         /\ AllRefunds \in Nat
         /\ AllRefunds' \in Nat
         /\ AllRefunds' = AllRefunds + TotalOf(after)
                          - (refunds["net"][holder] + refunds["cpu"][holder])
         /\ \A k \in Bandwidth, a \in Accounts :
              refunds'[k][a] = IF a = holder THEN after[k] ELSE refunds[k][a]
<1> USE ResourcesAssumption
<1>1. "net" \in Bandwidth /\ "cpu" \in Bandwidth
  BY DEF Bandwidth
<1>2. ASSUME NEW k \in Bandwidth
      PROVE  /\ refunds[k] \in [Accounts -> Nat]
             /\ refunds'[k] \in [Accounts -> Nat]
             /\ Total(refunds[k]) \in Nat
             /\ Total(refunds'[k]) \in Nat
             /\ Total(refunds'[k]) = Total(refunds[k]) - refunds[k][holder]
                                       + after[k]
  <2>1. /\ refunds[k] \in [Accounts -> Nat]
        /\ after[k] \in Nat
        /\ refunds'[k] = [refunds[k] EXCEPT ![holder] = after[k]]
    BY DEF SetRefund
  <2>2. refunds'[k] \in [Accounts -> Nat]
    BY <2>1
  <2>3. Total([refunds[k] EXCEPT ![holder] = after[k]]) =
          Total(refunds[k]) - refunds[k][holder] + after[k]
    <3> DEFINE f == refunds[k]
               n == after[k]
    <3>1. f \in [Accounts -> Nat] /\ n \in Nat
      BY <2>1
    <3> HIDE DEF f, n
    <3>2. Total([f EXCEPT ![holder] = n]) = Total(f) - f[holder] + n
      BY <3>1, AccountUpdate
    <3> QED
      BY <3>2 DEF f, n
  <2>4. Total(refunds[k]) \in Nat /\ Total(refunds'[k]) \in Nat
    BY <2>1, <2>2, TotalType
  <2> QED
    BY <2>1, <2>2, <2>3, <2>4
<1>3. /\ AllRefunds = Total(refunds["net"]) + Total(refunds["cpu"])
      /\ AllRefunds' = Total(refunds'["net"]) + Total(refunds'["cpu"])
  BY DEF AllRefunds
<1>4. \A k \in Bandwidth : refunds[k][holder] \in Nat /\ after[k] \in Nat
  OBVIOUS
<1>5. /\ AllRefunds \in Nat
      /\ AllRefunds' \in Nat
      /\ AllRefunds' = AllRefunds + TotalOf(after)
                         - (refunds["net"][holder] + refunds["cpu"][holder])
  BY <1>1, <1>2, <1>3, <1>4 DEF TotalOf
<1>6. refunds' \in [Bandwidth -> [Accounts -> Nat]]
  BY DEF SetRefund
<1>7. \A k \in Bandwidth, a \in Accounts :
        refunds'[k][a] = IF a = holder THEN after[k] ELSE refunds[k][a]
  BY DEF SetRefund
<1> QED
  BY <1>5, <1>6, <1>7

LEMMA DueType ==
  ASSUME refunds \in [Bandwidth -> [Accounts -> Nat]],
         NEW holder \in Accounts, NEW delta \in [Bandwidth -> Int],
         NEW k \in Bandwidth
  PROVE  /\ RefundAfter(k, holder, delta) \in Nat
         /\ DueAfter(k, holder, delta) \in Nat
         /\ DueAfter(k, holder, delta) =
              delta[k] + RefundAfter(k, holder, delta) - refunds[k][holder]
BY DEF RefundAfter, DueAfter, Larger

(* Whatever the refund takes or gives, eosio.stake gains the tokens that   *)
(* the stake and the refunds together have gained.                         *)
RefundEffect(source, delta) ==
  /\ liquid' \in [Accounts -> Nat]
  /\ refunds' \in [Bandwidth -> [Accounts -> Nat]]
  /\ AllRefunds \in Nat /\ AllRefunds' \in Nat
  /\ source # Stake => liquid'[Stake] - liquid[Stake] =
                         TotalOf(delta) + AllRefunds' - AllRefunds
  /\ source = Stake => liquid' = liquid /\ AllRefunds' = AllRefunds
  /\ \A a \in Accounts \ {Stake} : liquid'[a] <= liquid[a]

LEMMA RefundStep ==
  ASSUME TypeOK,
         NEW source \in Accounts, NEW holder \in Accounts, NEW receiver,
         NEW delta \in [Bandwidth -> Int], NEW transfer \in BOOLEAN,
         UpdateRefund(source, holder, receiver, delta, transfer)
  PROVE  RefundEffect(source, delta)
<1> USE ResourcesAssumption, StakingAssumption
<1>1. /\ refunds \in [Bandwidth -> [Accounts -> Nat]]
      /\ liquid \in [Accounts -> Nat]
      /\ "net" \in Bandwidth /\ "cpu" \in Bandwidth
      /\ Stake \in Accounts
  BY DEF TypeOK, Bandwidth
<1>2. delta["net"] \in Int /\ delta["cpu"] \in Int
  BY <1>1
<1>3. TotalOf(delta) \in Int
  BY <1>2 DEF TotalOf
<1>4. liquid[Stake] \in Nat
  BY <1>1
<1>5. CASE TouchesRefund(source, holder, receiver, delta, transfer)
  <2> DEFINE after == [k \in Bandwidth |-> RefundAfter(k, holder, delta)]
             due == [k \in Bandwidth |-> DueAfter(k, holder, delta)]
  <2>1. SetRefund(holder, after) /\ StakeTransfer(source, TotalOf(due))
    BY <1>5 DEF UpdateRefund
  <2>2. /\ after \in [Bandwidth -> Nat]
        /\ \A k \in Bandwidth :
             /\ due[k] \in Nat
             /\ due[k] = delta[k] + after[k] - refunds[k][holder]
    BY <1>1, DueType
  <2>3. source # Stake
    BY <1>5 DEF TouchesRefund
  <2> HIDE DEF after, due
  <2>4. /\ refunds["net"][holder] \in Nat /\ refunds["cpu"][holder] \in Nat
        /\ after["net"] \in Nat /\ after["cpu"] \in Nat
    BY <1>1, <2>2
  <2>5. /\ TotalOf(due) \in Nat
        /\ TotalOf(due) = TotalOf(delta) + TotalOf(after)
             - (refunds["net"][holder] + refunds["cpu"][holder])
        /\ TotalOf(after) \in Nat
    BY <1>1, <1>2, <2>2, <2>4 DEF TotalOf
  <2>6. /\ refunds' \in [Bandwidth -> [Accounts -> Nat]]
        /\ AllRefunds \in Nat /\ AllRefunds' \in Nat
        /\ AllRefunds' = AllRefunds + TotalOf(after)
             - (refunds["net"][holder] + refunds["cpu"][holder])
    BY <1>1, <2>1, <2>2, RefundsUpdate
  <2>7. /\ liquid' \in [Accounts -> Nat]
        /\ source # Stake => liquid'[Stake] = liquid[Stake] + TotalOf(due)
        /\ \A a \in Accounts \ {Stake} : liquid'[a] <= liquid[a]
    BY <1>1, <2>1, <2>5, TransferToStake
  <2>8. liquid'[Stake] - liquid[Stake] =
          TotalOf(delta) + AllRefunds' - AllRefunds
    BY <1>3, <1>4, <2>3, <2>4, <2>5, <2>6, <2>7
  <2> QED
    BY <2>3, <2>6, <2>7, <2>8 DEF RefundEffect
<1>6. CASE ~TouchesRefund(source, holder, receiver, delta, transfer)
  <2>1. refunds' = refunds /\ StakeTransfer(source, TotalOf(delta))
    BY <1>6 DEF UpdateRefund
  <2>2. AllRefunds \in Nat /\ AllRefunds' = AllRefunds
    <3>1. Total(refunds["net"]) \in Nat /\ Total(refunds["cpu"]) \in Nat
      BY <1>1, TotalType
    <3> QED
      BY <2>1, <3>1 DEF AllRefunds
  <2>3. CASE source = Stake
    <3>1. liquid' = liquid
      BY <2>1, <2>3 DEF StakeTransfer
    <3>2. \A a \in Accounts : liquid[a] \in Nat
      BY <1>1
    <3> QED
      BY <1>1, <2>1, <2>2, <2>3, <3>1, <3>2 DEF RefundEffect
  <2>4. CASE source # Stake
    <3>1. TotalOf(delta) \in Nat
      BY <1>3, <1>6, <2>4 DEF TouchesRefund, Undelegating
    <3>2. /\ liquid' \in [Accounts -> Nat]
          /\ liquid'[Stake] = liquid[Stake] + TotalOf(delta)
          /\ \A a \in Accounts \ {Stake} : liquid'[a] <= liquid[a]
      BY <1>1, <2>1, <2>4, <3>1, TransferToStake
    <3>3. liquid'[Stake] - liquid[Stake] =
            TotalOf(delta) + AllRefunds' - AllRefunds
      BY <1>4, <2>2, <3>1, <3>2
    <3> QED
      BY <1>1, <2>1, <2>2, <2>4, <3>2, <3>3 DEF RefundEffect
  <2> QED
    BY <2>3, <2>4
<1> QED
  BY <1>5, <1>6

(* Deltas of one sign whose sum is not negative are not negative. *)
LEMMA SignsAgree ==
  ASSUME NEW delta \in [Bandwidth -> Int], SameSign(delta), ~Undelegating(delta)
  PROVE  \A k \in Bandwidth : delta[k] >= 0
<1>1. "net" \in Bandwidth /\ "cpu" \in Bandwidth
  BY DEF Bandwidth
<1>2. delta["net"] \in Int /\ delta["cpu"] \in Int
  BY <1>1
<1>3. delta["net"] >= 0 /\ delta["cpu"] >= 0
  BY <1>1, <1>2 DEF SameSign, Undelegating, TotalOf, Abs
<1> QED
  BY <1>3 DEF Bandwidth

(* The age of a refund that is left pending is not more than the time      *)
(* since its owner last undelegated.                                       *)
LEMMA AgeStep ==
  ASSUME TypeOK, AgeCounts, StakeAwaitsNothing,
         NEW source \in Accounts, NEW receiver \in Accounts,
         NEW delta \in [Bandwidth -> Int], NEW transfer \in BOOLEAN,
         NEW holder, holder = IF transfer THEN receiver ELSE source,
         transfer => ~Undelegating(delta),
         SameSign(delta),
         UpdateRefund(source, holder, receiver, delta, transfer),
         lastUnstake' = IF Undelegating(delta)
                        THEN [lastUnstake EXCEPT ![source] = 0]
                        ELSE lastUnstake
  PROVE  /\ age' \in [Accounts -> 0 .. Delay]
         /\ lastUnstake' \in [Accounts -> 0 .. Delay]
         /\ AgeCounts'
         /\ StakeAwaitsNothing'
<1> USE StakingAssumption
<1>1. /\ refunds \in [Bandwidth -> [Accounts -> Nat]]
      /\ age \in [Accounts -> 0 .. Delay]
      /\ lastUnstake \in [Accounts -> 0 .. Delay]
      /\ holder \in Accounts
      /\ 0 \in 0 .. Delay
  BY DEF TypeOK
<1>2. lastUnstake' \in [Accounts -> 0 .. Delay]
  BY <1>1
<1>3. Undelegating(delta) => source = holder /\ lastUnstake'[holder] = 0
  BY <1>1
<1>4. \A a \in Accounts : a # holder => lastUnstake'[a] = lastUnstake[a]
  BY <1>1, <1>3
<1>5. ~Undelegating(delta) => lastUnstake' = lastUnstake
  OBVIOUS
<1>6. CASE TouchesRefund(source, holder, receiver, delta, transfer)
  <2> DEFINE after == [k \in Bandwidth |-> RefundAfter(k, holder, delta)]
  <2>1. SetRefund(holder, after)
    BY <1>6 DEF UpdateRefund
  <2>2. age' = [age EXCEPT ![holder] =
                  IF \A k \in Bandwidth : refunds'[k][holder] = 0 THEN 0
                  ELSE AgeAfter(holder, delta)]
    BY <1>6 DEF UpdateRefund
  <2>3. AgeAfter(holder, delta) \in 0 .. Delay
    BY <1>1 DEF AgeAfter
  <2>4. age' \in [Accounts -> 0 .. Delay]
    BY <1>1, <2>2, <2>3
  <2>5. ASSUME NEW a \in Accounts \ {Stake}, HasRefund(a)'
        PROVE  age'[a] <= lastUnstake'[a]
    <3>1. \A k \in Bandwidth :
            refunds'[k][a] = IF a = holder THEN RefundAfter(k, holder, delta)
                             ELSE refunds[k][a]
      <4>1. \A k \in Bandwidth : after[k] = RefundAfter(k, holder, delta)
        OBVIOUS
      <4>2. after \in [Bandwidth -> Nat]
        BY <1>1, DueType
      <4> HIDE DEF after
      <4> QED
        BY <1>1, <2>1, <4>1, <4>2, RefundsUpdate
    <3>2. PICK k \in Bandwidth : refunds'[k][a] > 0
      BY <2>5 DEF HasRefund
    <3>3. CASE a # holder
      <4>1. refunds[k][a] > 0
        BY <3>1, <3>2, <3>3
      <4>2. age[a] <= lastUnstake[a]
        BY <4>1 DEF AgeCounts, HasRefund
      <4>3. age'[a] = age[a]
        BY <1>1, <2>2, <3>3
      <4> QED
        BY <1>4, <3>3, <4>2, <4>3
    <3>4. CASE a = holder /\ Undelegating(delta)
      <4>1. age'[a] = 0
        BY <1>1, <2>2, <3>4 DEF AgeAfter
      <4> QED
        BY <1>3, <3>4, <4>1
    <3>5. CASE a = holder /\ ~Undelegating(delta)
      <4>1. delta[k] \in Int /\ delta[k] >= 0 /\ refunds[k][a] \in Nat
        BY <1>1, <3>5, SignsAgree
      <4>2. refunds'[k][a] = RefundAfter(k, a, delta)
        BY <3>1, <3>5
      <4>3. refunds[k][a] > 0
        BY <3>2, <4>1, <4>2 DEF RefundAfter, Larger
      <4>4. age[a] <= lastUnstake[a]
        BY <4>3 DEF AgeCounts, HasRefund
      <4>5. age'[a] = age[a]
        BY <1>1, <2>2, <3>2, <3>5 DEF AgeAfter
      <4> QED
        BY <1>5, <3>5, <4>4, <4>5
    <3> QED
      BY <3>3, <3>4, <3>5
  <2>6. StakeAwaitsNothing'
    <3>1. holder # Stake
      BY <1>6 DEF TouchesRefund
    <3>2. Stake \in Accounts
      BY ResourcesAssumption
    <3>3. after \in [Bandwidth -> Nat]
      BY <1>1, DueType
    <3> HIDE DEF after
    <3>4. \A k \in Bandwidth : refunds'[k][Stake] = refunds[k][Stake]
      BY <1>1, <2>1, <3>1, <3>2, <3>3, RefundsUpdate
    <3> QED
      BY <3>4 DEF StakeAwaitsNothing, HasRefund
  <2> QED
    BY <1>2, <2>4, <2>5, <2>6 DEF AgeCounts
<1>7. CASE ~TouchesRefund(source, holder, receiver, delta, transfer)
  <2>1. refunds' = refunds /\ age' = age
    BY <1>7 DEF UpdateRefund
  <2>2. ASSUME NEW a \in Accounts \ {Stake}, HasRefund(a)'
        PROVE  age'[a] <= lastUnstake'[a]
    <3>1. HasRefund(a)
      BY <2>1, <2>2 DEF HasRefund
    <3>2. age[a] <= lastUnstake[a]
      BY <3>1 DEF AgeCounts
    <3>3. lastUnstake'[a] = lastUnstake[a]
      BY <1>3, <1>4, <1>5, <1>7 DEF TouchesRefund
    <3> QED
      BY <2>1, <3>2, <3>3
  <2>3. StakeAwaitsNothing'
    BY <2>1 DEF StakeAwaitsNothing, HasRefund
  <2> QED
    BY <1>1, <1>2, <2>1, <2>2, <2>3 DEF AgeCounts
<1> QED
  BY <1>6, <1>7

NobodyElseGains == \A a \in Accounts \ {Stake} : liquid'[a] <= liquid[a]

(* Staking and unstaking keep the invariant and pay nothing out.           *)
LEMMA ChangebwKeeps ==
  ASSUME StakingInv,
         NEW source \in Accounts, NEW receiver \in Accounts,
         NEW delta \in [Bandwidth -> Int], NEW transfer \in BOOLEAN,
         transfer => ~Undelegating(delta),
         changebw(source, receiver, delta, transfer)
  PROVE  StakingInv' /\ NobodyElseGains
<1> USE ResourcesAssumption, StakingAssumption
<1> DEFINE from == IF transfer THEN receiver ELSE source
           total == TotalOf(delta)
<1>1. /\ from \in Accounts
      /\ from = IF transfer THEN receiver ELSE source
      /\ "net" \in Bandwidth /\ "cpu" \in Bandwidth
      /\ Stake \in Accounts
  BY DEF Bandwidth
<1>2. total \in Int
  <2>1. delta["net"] \in Int /\ delta["cpu"] \in Int
    BY <1>1
  <2> QED
    BY <2>1 DEF TotalOf
<1>3. /\ SameSign(delta)
      /\ UpdateDelband(from, receiver, delta)
      /\ UpdateTotals(receiver, delta)
      /\ UpdateRefund(source, from, receiver, delta, transfer)
      /\ totalStake' = totalStake + total
      /\ UpdateVotingPower(from, total)
      /\ unbacked' = IF source = Stake THEN unbacked + total ELSE unbacked
      /\ lastUnstake' = IF Undelegating(delta)
                        THEN [lastUnstake EXCEPT ![source] = 0]
                        ELSE lastUnstake
      /\ activated' = activated /\ vesting' = vesting
  BY DEF changebw
<1> HIDE DEF from, total
<1>4. /\ TypeOK /\ StakeBacked /\ VotesMatchStake /\ TotalsMatchStake
      /\ WpsTotalMatches /\ AgeCounts /\ StakeAwaitsNothing
  BY DEF StakingInv
<1>5. /\ ResourcesTypeOK
      /\ delband \in [Bandwidth -> [Pairs -> Nat]]
      /\ staked \in [Accounts -> Nat]
      /\ totalStake \in Nat /\ unbacked \in Int /\ vesting \in Nat
      /\ liquid[Stake] \in Nat
  BY <1>1, <1>4 DEF TypeOK
<1>6. /\ delband' \in [Bandwidth -> [Pairs -> Nat]]
      /\ AllStake \in Nat /\ AllStake' \in Nat
      /\ AllStake' = AllStake + total
      /\ \A a \in Accounts :
           /\ StakeOf(a) \in Nat /\ StakeOf(a)' \in Int
           /\ a = from => StakeOf(a)' = StakeOf(a) + total
           /\ a # from => StakeOf(a)' = StakeOf(a)
      /\ \A k \in Bandwidth, a \in Accounts :
           /\ TotalTo(delband[k], Accounts, a) \in Nat
           /\ a = receiver => TotalTo(delband'[k], Accounts, a) =
                                TotalTo(delband[k], Accounts, a) + delta[k]
           /\ a # receiver => TotalTo(delband'[k], Accounts, a) =
                                TotalTo(delband[k], Accounts, a)
  BY <1>1, <1>3, <1>5, DelbandUpdate DEF total
<1>7. /\ ResourcesTypeOK'
      /\ \A k \in Bandwidth :
           weight'[k] = [weight[k] EXCEPT ![receiver] = @ + delta[k]]
  BY <1>3, <1>5, UpdateTotalsKeeps
<1>8. /\ liquid' \in [Accounts -> Nat]
      /\ refunds' \in [Bandwidth -> [Accounts -> Nat]]
      /\ AllRefunds \in Nat /\ AllRefunds' \in Nat
      /\ source # Stake => liquid'[Stake] - liquid[Stake] =
                             total + AllRefunds' - AllRefunds
      /\ source = Stake => liquid' = liquid /\ AllRefunds' = AllRefunds
      /\ \A a \in Accounts \ {Stake} : liquid'[a] <= liquid[a]
  <2>1. TypeOK /\ from \in Accounts
    BY <1>1, <1>4
  <2>2. UpdateRefund(source, from, receiver, delta, transfer)
    BY <1>3
  <2>3. RefundEffect(source, delta)
    BY <2>1, <2>2, RefundStep
  <2> QED
    BY <2>3 DEF RefundEffect, total
<1>9. /\ age' \in [Accounts -> 0 .. Delay]
      /\ lastUnstake' \in [Accounts -> 0 .. Delay]
      /\ AgeCounts'
      /\ StakeAwaitsNothing'
  BY <1>1, <1>3, <1>4, AgeStep
<1>10. /\ staked' \in [Accounts -> Nat]
       /\ staked' = [staked EXCEPT ![from] = @ + total]
  <2>1. staked[from] + total \in Nat
    BY <1>1, <1>2, <1>3, <1>5 DEF UpdateVotingPower
  <2>2. staked' = [staked EXCEPT ![from] = @ + total]
    BY <1>3 DEF UpdateVotingPower
  <2> QED
    BY <1>1, <1>5, <2>1, <2>2
<1>11. WpsTotalMatches' /\ totalStake' \in Nat
  BY <1>2, <1>3, <1>4, <1>5, <1>6 DEF WpsTotalMatches
<1>12. StakeBacked'
  <2>1. liquid'[Stake] \in Nat
    BY <1>1, <1>8
  <2>2. liquid[Stake] + unbacked = AllStake + AllRefunds
    BY <1>4 DEF StakeBacked
  <2>3. /\ AllStake \in Nat /\ AllRefunds \in Nat
        /\ AllRefunds' \in Nat
        /\ AllStake' = AllStake + total
        /\ liquid[Stake] \in Nat /\ unbacked \in Int
    BY <1>5, <1>6, <1>8
  <2>4. CASE source = Stake
    <3>1. /\ unbacked' = unbacked + total
          /\ liquid'[Stake] = liquid[Stake]
          /\ AllRefunds' = AllRefunds
      BY <1>3, <1>8, <2>4
    <3>2. liquid'[Stake] + unbacked' = AllStake' + AllRefunds'
      BY ONLY <1>2, <2>2, <2>3, <3>1
    <3> QED
      BY <3>2 DEF StakeBacked
  <2>5. CASE source # Stake
    <3>1. /\ unbacked' = unbacked
          /\ liquid'[Stake] - liquid[Stake] = total + AllRefunds' - AllRefunds
      BY <1>3, <1>8, <2>5
    <3>2. liquid'[Stake] + unbacked' = AllStake' + AllRefunds'
      BY ONLY <1>2, <2>1, <2>2, <2>3, <3>1
    <3> QED
      BY <3>2 DEF StakeBacked
  <2> QED
    BY <2>4, <2>5
<1>13. VotesMatchStake'
  <2> SUFFICES ASSUME NEW a \in Accounts PROVE staked'[a] = StakeOf(a)'
    BY DEF VotesMatchStake
  <2>1. staked[a] = StakeOf(a)
    BY <1>4 DEF VotesMatchStake
  <2>2. a = from => staked'[a] = staked[a] + total
    BY <1>5, <1>10
  <2>3. a # from => staked'[a] = staked[a]
    BY <1>5, <1>10
  <2> QED
    BY <1>6, <2>1, <2>2, <2>3
<1>14. TotalsMatchStake'
  <2> SUFFICES ASSUME NEW k \in Bandwidth, NEW a \in Accounts
               PROVE  weight'[k][a] = TotalTo(delband'[k], Accounts, a)
    BY DEF TotalsMatchStake
  <2>1. weight[k][a] = TotalTo(delband[k], Accounts, a)
    BY <1>4 DEF TotalsMatchStake
  <2>2. weight[k] \in [Accounts -> Nat]
    BY <1>5 DEF ResourcesTypeOK, Kinds, Bandwidth
  <2>3. /\ a = receiver => weight'[k][a] = weight[k][a] + delta[k]
        /\ a # receiver => weight'[k][a] = weight[k][a]
    BY <1>7, <2>2
  <2> QED
    BY <1>6, <2>1, <2>3
<1>15. TypeOK'
  <2>1. activated' \in BOOLEAN
    BY <1>3, <1>4, Zenon DEF TypeOK
  <2>2. unbacked' \in Int
    BY <1>2, <1>3, <1>5
  <2> QED
    BY <1>3, <1>5, <1>6, <1>7, <1>8, <1>9, <1>10, <1>11, <2>1, <2>2 DEF TypeOK
<1> QED
  BY <1>8, <1>9, <1>11, <1>12, <1>13, <1>14, <1>15
     DEF StakingInv, NobodyElseGains

(* A refund is paid once the delay is over.                                *)
LEMMA RefundKeeps ==
  ASSUME StakingInv, NEW holder \in Accounts, refund(holder)
  PROVE  /\ StakingInv'
         /\ \A a \in Accounts \ {Stake} :
              liquid'[a] > liquid[a] => lastUnstake[a] = Delay
<1> USE ResourcesAssumption, StakingAssumption
<1> DEFINE due == refunds["net"][holder] + refunds["cpu"][holder]
           none == [k \in Bandwidth |-> 0]
<1>1. /\ TypeOK /\ StakeBacked /\ VotesMatchStake /\ TotalsMatchStake
      /\ WpsTotalMatches /\ AgeCounts /\ StakeAwaitsNothing
  BY DEF StakingInv
<1>2. /\ HasRefund(holder) /\ age[holder] >= Delay
      /\ due <= liquid[Stake]
      /\ liquid' = [liquid EXCEPT ![Stake] = @ - due, ![holder] = @ + due]
      /\ SetRefund(holder, none)
      /\ age' = [age EXCEPT ![holder] = 0]
      /\ resources' = resources /\ delband' = delband /\ staked' = staked
      /\ totalStake' = totalStake /\ activated' = activated
      /\ vesting' = vesting /\ unbacked' = unbacked
      /\ lastUnstake' = lastUnstake
  BY DEF refund, Matured, Pay, CanPay, Paid
<1>3. /\ liquid \in [Accounts -> Nat]
      /\ refunds \in [Bandwidth -> [Accounts -> Nat]]
      /\ age \in [Accounts -> 0 .. Delay]
      /\ lastUnstake \in [Accounts -> 0 .. Delay]
      /\ unbacked \in Int
      /\ Stake \in Accounts
      /\ "net" \in Bandwidth /\ "cpu" \in Bandwidth
  BY <1>1 DEF TypeOK, Bandwidth
<1>4. holder # Stake
  BY <1>1, <1>2 DEF StakeAwaitsNothing
<1>5. due \in Nat
  BY <1>3
<1>6. none \in [Bandwidth -> Nat] /\ TotalOf(none) = 0
  BY <1>3 DEF TotalOf
<1> HIDE DEF none
<1>7. /\ refunds' \in [Bandwidth -> [Accounts -> Nat]]
      /\ AllRefunds \in Nat /\ AllRefunds' \in Nat
      /\ AllRefunds' = AllRefunds - due
      /\ \A k \in Bandwidth, a \in Accounts :
           refunds'[k][a] = IF a = holder THEN none[k] ELSE refunds[k][a]
  <2>1. AllRefunds' = AllRefunds + TotalOf(none) - due
    BY <1>2, <1>3, <1>6, RefundsUpdate
  <2>2. /\ refunds' \in [Bandwidth -> [Accounts -> Nat]]
        /\ AllRefunds \in Nat /\ AllRefunds' \in Nat
        /\ \A k \in Bandwidth, a \in Accounts :
             refunds'[k][a] = IF a = holder THEN none[k] ELSE refunds[k][a]
    BY <1>2, <1>3, <1>6, RefundsUpdate
  <2> HIDE DEF due
  <2> QED
    BY <1>5, <1>6, <2>1, <2>2
<1> HIDE DEF due
<1>8. /\ liquid' \in [Accounts -> Nat]
      /\ liquid'[Stake] = liquid[Stake] - due
      /\ \A a \in Accounts \ {Stake, holder} : liquid'[a] = liquid[a]
  BY <1>2, <1>3, <1>4, <1>5
<1>9. AllStake' = AllStake /\ AllStake \in Int
  <2>1. AllStake' = AllStake
    BY <1>2 DEF AllStake
  <2>2. totalStake \in Nat /\ totalStake = AllStake
    BY <1>1 DEF TypeOK, WpsTotalMatches
  <2> QED
    BY <2>1, <2>2
<1>10. StakeBacked'
  <2>1. liquid[Stake] + unbacked = AllStake + AllRefunds
    BY <1>1 DEF StakeBacked
  <2>2. liquid[Stake] \in Nat
    BY <1>3
  <2>3. unbacked' = unbacked /\ unbacked \in Int
    BY <1>2, <1>3
  <2>4. AllRefunds \in Nat /\ AllRefunds' = AllRefunds - due
    BY <1>7
  <2>5. liquid'[Stake] = liquid[Stake] - due
    BY <1>8
  <2>6. liquid'[Stake] + unbacked' = AllStake' + AllRefunds'
    BY ONLY <1>5, <1>9, <2>1, <2>2, <2>3, <2>4, <2>5
  <2> QED
    BY <2>6 DEF StakeBacked
<1>11. VotesMatchStake' /\ TotalsMatchStake' /\ WpsTotalMatches'
  BY <1>1, <1>2, <1>9
     DEF VotesMatchStake, TotalsMatchStake, WpsTotalMatches, StakeOf, resources
<1>12. AgeCounts'
  <2> SUFFICES ASSUME NEW a \in Accounts \ {Stake}, HasRefund(a)'
               PROVE  age'[a] <= lastUnstake'[a]
    BY DEF AgeCounts
  <2>1. CASE a = holder
    <3>1. age'[a] = 0 /\ lastUnstake'[a] \in Nat
      BY <1>2, <1>3, <2>1
    <3> QED
      BY <3>1
  <2>2. CASE a # holder
    <3>1. HasRefund(a)
      BY <1>7, <2>2 DEF HasRefund
    <3>2. age'[a] = age[a]
      BY <1>2, <1>3, <2>2
    <3> QED
      BY <1>1, <1>2, <3>1, <3>2 DEF AgeCounts
  <2> QED
    BY <2>1, <2>2
<1>13. StakeAwaitsNothing'
  BY <1>1, <1>3, <1>4, <1>7 DEF StakeAwaitsNothing, HasRefund
<1>14. TypeOK'
  <2>1. ResourcesTypeOK'
    BY <1>1, <1>2 DEF TypeOK, ResourcesTypeOK, resources
  <2>2. activated' \in BOOLEAN
    BY <1>1, <1>2, Zenon DEF TypeOK
  <2>3. age' \in [Accounts -> 0 .. Delay]
    BY <1>2, <1>3
  <2>4. /\ delband' \in [Bandwidth -> [Pairs -> Nat]]
        /\ staked' \in [Accounts -> Nat]
        /\ totalStake' \in Nat /\ vesting' \in Nat
    BY <1>1, <1>2 DEF TypeOK
  <2> QED
    BY <1>2, <1>3, <1>7, <1>8, <2>1, <2>2, <2>3, <2>4 DEF TypeOK
<1>15. ASSUME NEW a \in Accounts \ {Stake}, liquid'[a] > liquid[a]
       PROVE  lastUnstake[a] = Delay
  <2>1. a = holder
    <3>1. liquid[a] \in Nat
      BY <1>3
    <3> QED
      BY <1>8, <1>15, <3>1
  <2>2. age[holder] <= lastUnstake[holder]
    BY <1>1, <1>2, <1>4 DEF AgeCounts
  <2>3. age[holder] \in 0 .. Delay /\ lastUnstake[holder] \in 0 .. Delay
    BY <1>3
  <2> QED
    BY <1>2, <2>1, <2>2, <2>3
<1> QED
  BY <1>1, <1>10, <1>11, <1>12, <1>13, <1>14, <1>15 DEF StakingInv

(* Part of a refund is cancelled: its tokens stay where they are.          *)
LEMMA RemoverefundKeeps ==
  ASSUME StakingInv, NEW account \in Accounts, NEW amount \in Int,
         removerefund(account, amount)
  PROVE  StakingInv' /\ NobodyElseGains
<1> USE ResourcesAssumption, StakingAssumption
<1> DEFINE net == refunds["net"][account]
           cpu == refunds["cpu"][account]
           left == [k \in Bandwidth |->
                      IF k = "net" THEN Larger(net - amount, 0)
                      ELSE IF net >= amount THEN cpu ELSE cpu - (amount - net)]
<1>1. /\ TypeOK /\ StakeBacked /\ VotesMatchStake /\ TotalsMatchStake
      /\ WpsTotalMatches /\ AgeCounts /\ StakeAwaitsNothing
  BY DEF StakingInv
<1>2. /\ HasRefund(account) /\ net + cpu >= amount
      /\ SetRefund(account, left)
      /\ age' = IF net + cpu = amount THEN [age EXCEPT ![account] = 0] ELSE age
      /\ unbacked' = unbacked - amount
      /\ resources' = resources /\ liquid' = liquid /\ delband' = delband
      /\ staked' = staked /\ totalStake' = totalStake
      /\ activated' = activated /\ vesting' = vesting
      /\ lastUnstake' = lastUnstake
  BY DEF removerefund
<1>3. /\ liquid \in [Accounts -> Nat]
      /\ refunds \in [Bandwidth -> [Accounts -> Nat]]
      /\ age \in [Accounts -> 0 .. Delay]
      /\ lastUnstake \in [Accounts -> 0 .. Delay]
      /\ unbacked \in Int
      /\ Stake \in Accounts
      /\ "net" \in Bandwidth /\ "cpu" \in Bandwidth /\ "net" # "cpu"
      /\ 0 \in 0 .. Delay
  BY <1>1 DEF TypeOK, Bandwidth
<1>4. account # Stake
  BY <1>1, <1>2 DEF StakeAwaitsNothing
<1>5. net \in Nat /\ cpu \in Nat
  BY <1>3
<1>6. /\ left["net"] \in Nat /\ left["cpu"] \in Nat
      /\ left["net"] + left["cpu"] = net + cpu - amount
  <2>1. /\ left["net"] = Larger(net - amount, 0)
        /\ left["cpu"] = IF net >= amount THEN cpu ELSE cpu - (amount - net)
    BY <1>3
  <2> HIDE DEF net, cpu, left
  <2> QED
    BY <1>2, <1>5, <2>1 DEF Larger
<1>7. left \in [Bandwidth -> Nat]
  <2>1. left = [k \in Bandwidth |-> left[k]]
    OBVIOUS
  <2> HIDE DEF left
  <2>2. \A k \in Bandwidth : left[k] \in Nat
    BY <1>6 DEF Bandwidth
  <2> QED
    BY <2>1, <2>2
<1> HIDE DEF left
<1>9. /\ refunds' \in [Bandwidth -> [Accounts -> Nat]]
      /\ AllRefunds \in Nat /\ AllRefunds' \in Nat
      /\ AllRefunds' = AllRefunds - amount
      /\ \A k \in Bandwidth, a \in Accounts :
           refunds'[k][a] = IF a = account THEN left[k] ELSE refunds[k][a]
  <2>1. SetRefund(account, left)
    BY <1>2
  <2>2. /\ refunds' \in [Bandwidth -> [Accounts -> Nat]]
        /\ AllRefunds \in Nat /\ AllRefunds' \in Nat
        /\ AllRefunds' = AllRefunds + TotalOf(left) - (net + cpu)
        /\ \A k \in Bandwidth, a \in Accounts :
             refunds'[k][a] = IF a = account THEN left[k] ELSE refunds[k][a]
    BY <1>3, <1>7, <2>1, RefundsUpdate
  <2>3. TotalOf(left) = net + cpu - amount
    BY <1>6 DEF TotalOf
  <2> HIDE DEF net, cpu
  <2>4. AllRefunds' = AllRefunds - amount
    BY <1>5, <2>2, <2>3
  <2> QED
    BY <2>2, <2>4
<1>10. \A a \in Accounts : HasRefund(a)' => HasRefund(a)
  <2> SUFFICES ASSUME NEW a \in Accounts, HasRefund(a)'
               PROVE  HasRefund(a)
    OBVIOUS
  <2>1. PICK k \in Bandwidth : refunds'[k][a] > 0
    BY DEF HasRefund
  <2>2. CASE a = account
    BY <1>2, <2>2
  <2>3. CASE a # account
    <3>1. refunds[k][a] > 0
      BY <1>9, <2>1, <2>3
    <3> QED
      BY <3>1 DEF HasRefund
  <2> QED
    BY <2>2, <2>3
<1>11. StakeBacked'
  <2>1. liquid[Stake] + unbacked = AllStake + AllRefunds
    BY <1>1 DEF StakeBacked
  <2>2. AllStake' = AllStake /\ AllStake \in Int
    <3>1. AllStake' = AllStake
      BY <1>2 DEF AllStake
    <3>2. totalStake \in Nat /\ totalStake = AllStake
      BY <1>1 DEF TypeOK, WpsTotalMatches
    <3> QED
      BY <3>1, <3>2
  <2>3. /\ liquid[Stake] \in Nat /\ liquid' = liquid
        /\ unbacked \in Int /\ unbacked' = unbacked - amount
    BY <1>2, <1>3
  <2>4. amount \in Int
    OBVIOUS
  <2>5. liquid'[Stake] + unbacked' = AllStake' + AllRefunds'
    BY ONLY <1>9, <2>1, <2>2, <2>3, <2>4
  <2> QED
    BY <2>5 DEF StakeBacked
<1>12. VotesMatchStake' /\ TotalsMatchStake' /\ WpsTotalMatches'
  BY <1>1, <1>2 DEF VotesMatchStake, TotalsMatchStake, WpsTotalMatches,
                    StakeOf, AllStake, resources
<1>13. age' \in [Accounts -> 0 .. Delay]
  BY <1>2, <1>3
<1>14. AgeCounts'
  <2> SUFFICES ASSUME NEW a \in Accounts \ {Stake}, HasRefund(a)'
               PROVE  age'[a] <= lastUnstake'[a]
    BY DEF AgeCounts
  <2>1. age[a] <= lastUnstake[a] /\ lastUnstake'[a] = lastUnstake[a]
    BY <1>1, <1>2, <1>10 DEF AgeCounts
  <2>2. age'[a] = age[a] \/ age'[a] = 0
    BY <1>2, <1>3
  <2>3. lastUnstake[a] \in 0 .. Delay
    BY <1>3
  <2> QED
    BY <2>1, <2>2, <2>3
<1>15. StakeAwaitsNothing'
  BY <1>1, <1>3, <1>10 DEF StakeAwaitsNothing
<1>16. TypeOK'
  <2>1. ResourcesTypeOK'
    BY <1>1, <1>2 DEF TypeOK, ResourcesTypeOK, resources
  <2>2. activated' \in BOOLEAN
    BY <1>1, <1>2, Zenon DEF TypeOK
  <2>3. /\ delband' \in [Bandwidth -> [Pairs -> Nat]]
        /\ staked' \in [Accounts -> Nat]
        /\ totalStake' \in Nat /\ vesting' \in Nat
        /\ unbacked' \in Int
        /\ liquid' \in [Accounts -> Nat]
        /\ lastUnstake' \in [Accounts -> 0 .. Delay]
    BY <1>1, <1>2, <1>3 DEF TypeOK
  <2> QED
    BY <1>9, <1>13, <2>1, <2>2, <2>3 DEF TypeOK
<1>17. NobodyElseGains
  BY <1>2, <1>3 DEF NobodyElseGains
<1> QED
  BY <1>11, <1>12, <1>14, <1>15, <1>16, <1>17 DEF StakingInv

LEMMA ActivateKeeps ==
  ASSUME StakingInv, activate
  PROVE  StakingInv' /\ NobodyElseGains
<1>1. /\ activated' = TRUE
      /\ <<resources, liquid, staking, vesting, history>>' =
           <<resources, liquid, staking, vesting, history>>
  BY DEF activate
<1>2. TypeOK'
  <2>1. ResourcesTypeOK'
    BY <1>1 DEF StakingInv, TypeOK, ResourcesTypeOK, resources
  <2>2. activated' \in BOOLEAN
    BY <1>1
  <2> QED
    BY <1>1, <2>1, <2>2 DEF StakingInv, TypeOK, staking, history
<1>3. StakeBacked' /\ VotesMatchStake' /\ TotalsMatchStake' /\ WpsTotalMatches'
  BY <1>1 DEF StakingInv, StakeBacked, VotesMatchStake, TotalsMatchStake,
       WpsTotalMatches, StakeOf, AllStake, AllRefunds, resources, staking, history
<1>4. AgeCounts' /\ StakeAwaitsNothing'
  BY <1>1 DEF StakingInv, AgeCounts, StakeAwaitsNothing, HasRefund, staking,
       history
<1>5. NobodyElseGains
  BY <1>1 DEF StakingInv, TypeOK, NobodyElseGains
<1> QED
  BY <1>2, <1>3, <1>4, <1>5 DEF StakingInv

(* Time makes everything pending older by as much.                         *)
LEMMA TickKeeps ==
  ASSUME StakingInv, Tick
  PROVE  StakingInv' /\ NobodyElseGains
<1> USE StakingAssumption
<1>1. /\ age' = [a \in Accounts |-> IF HasRefund(a) THEN Older(age[a]) ELSE 0]
      /\ lastUnstake' = [a \in Accounts |-> Older(lastUnstake[a])]
      /\ vesting' \in {vesting, Larger(vesting - 1, 0)}
      /\ <<resources, liquid, delband, refunds, staked, totalStake,
           activated, unbacked>>' =
         <<resources, liquid, delband, refunds, staked, totalStake,
           activated, unbacked>>
  BY DEF Tick
<1>2. TypeOK /\ AgeCounts
  BY DEF StakingInv
<1>3. \A t \in 0 .. Delay : Older(t) \in 0 .. Delay
  BY DEF Older
<1>4. \A a \in Accounts : HasRefund(a)' <=> HasRefund(a)
  BY <1>1 DEF HasRefund
<1>5. TypeOK'
  <2>1. ResourcesTypeOK'
    BY <1>1, <1>2 DEF TypeOK, ResourcesTypeOK, resources
  <2>2. activated' \in BOOLEAN
    BY <1>1, <1>2, Zenon DEF TypeOK
  <2>3. age' \in [Accounts -> 0 .. Delay]
    BY <1>1, <1>2, <1>3 DEF TypeOK
  <2>4. lastUnstake' \in [Accounts -> 0 .. Delay]
    BY <1>1, <1>2, <1>3 DEF TypeOK
  <2>5. vesting' \in Nat
    BY <1>1, <1>2 DEF TypeOK, Larger
  <2>6. /\ liquid' \in [Accounts -> Nat]
        /\ delband' \in [Bandwidth -> [Pairs -> Nat]]
        /\ refunds' \in [Bandwidth -> [Accounts -> Nat]]
        /\ staked' \in [Accounts -> Nat]
        /\ totalStake' \in Nat /\ unbacked' \in Int
    BY <1>1, <1>2 DEF TypeOK
  <2> QED
    BY <2>1, <2>2, <2>3, <2>4, <2>5, <2>6 DEF TypeOK
<1>6. StakeBacked' /\ VotesMatchStake' /\ TotalsMatchStake' /\ WpsTotalMatches'
  BY <1>1 DEF StakingInv, StakeBacked, VotesMatchStake, TotalsMatchStake,
       WpsTotalMatches, StakeOf, AllStake, AllRefunds, resources
<1>7. AgeCounts'
  <2> SUFFICES ASSUME NEW a \in Accounts \ {Stake}, HasRefund(a)'
               PROVE  age'[a] <= lastUnstake'[a]
    BY DEF AgeCounts
  <2>1. /\ age[a] <= lastUnstake[a]
        /\ age'[a] = Older(age[a]) /\ lastUnstake'[a] = Older(lastUnstake[a])
    BY <1>1, <1>2, <1>4 DEF AgeCounts
  <2>2. age[a] \in 0 .. Delay /\ lastUnstake[a] \in 0 .. Delay
    BY <1>2 DEF TypeOK
  <2> QED
    BY <2>1, <2>2 DEF Older
<1>8. StakeAwaitsNothing'
  BY <1>1 DEF StakingInv, StakeAwaitsNothing, HasRefund
<1>9. NobodyElseGains
  BY <1>1, <1>2 DEF TypeOK, NobodyElseGains
<1> QED
  BY <1>5, <1>6, <1>7, <1>8, <1>9 DEF StakingInv

-----------------------------------------------------------------------------
(* Every step keeps the invariant, and only a matured refund pays anybody. *)
PaysOnlyTheMatured ==
  \A a \in Accounts \ {Stake} :
    liquid'[a] > liquid[a] => lastUnstake[a] = Delay

LEMMA NobodyGainsIsEnough ==
  ASSUME TypeOK, TypeOK', NobodyElseGains
  PROVE  PaysOnlyTheMatured
<1> SUFFICES ASSUME NEW a \in Accounts \ {Stake}, liquid'[a] > liquid[a]
             PROVE  FALSE
  BY DEF PaysOnlyTheMatured
<1>1. liquid'[a] \in Nat /\ liquid[a] \in Nat
  BY DEF TypeOK
<1>2. liquid'[a] <= liquid[a]
  BY DEF NobodyElseGains
<1> QED
  BY <1>1, <1>2

LEMMA StepKeeps ==
  ASSUME StakingInv, [Next]_vars
  PROVE  StakingInv' /\ PaysOnlyTheMatured
<1> USE StakingAssumption
<1> SUFFICES (StakingInv' /\ NobodyElseGains) \/ (StakingInv' /\ PaysOnlyTheMatured)
  BY NobodyGainsIsEnough DEF StakingInv
<1>1. ASSUME NEW from \in Accounts, NEW receiver \in Receivers,
             NEW q \in Quantities, NEW transfer \in BOOLEAN,
             delegatebw(from, receiver, q, transfer)
      PROVE  StakingInv' /\ NobodyElseGains
  <2>1. q \in [Bandwidth -> Int] /\ receiver \in Accounts
    BY DEF Quantities
  <2>2. q["net"] \in Int /\ q["cpu"] \in Int
    BY <2>1 DEF Bandwidth
  <2>3. changebw(from, receiver, q, transfer) /\ TotalOf(q) > 0
    BY <1>1 DEF delegatebw, ValidQuantity
  <2>4. ~Undelegating(q)
    BY <2>2, <2>3 DEF Undelegating, TotalOf
  <2> QED
    BY <2>1, <2>3, <2>4, ChangebwKeeps
<1>2. ASSUME NEW from \in Accounts, NEW receiver \in Receivers,
             NEW q \in Quantities, undelegatebw(from, receiver, q)
      PROVE  StakingInv' /\ NobodyElseGains
  <2> DEFINE delta == [k \in Bandwidth |-> -q[k]]
  <2>1. q \in [Bandwidth -> Int] /\ receiver \in Accounts
    BY DEF Quantities
  <2>2. delta \in [Bandwidth -> Int]
    BY <2>1
  <2>3. changebw(from, receiver, delta, FALSE)
    BY <1>2 DEF undelegatebw
  <2> HIDE DEF delta
  <2> QED
    BY <2>1, <2>2, <2>3, ChangebwKeeps
<1>3. ASSUME NEW holder \in Accounts, refund(holder)
      PROVE  StakingInv' /\ PaysOnlyTheMatured
  BY <1>3, RefundKeeps DEF PaysOnlyTheMatured
<1>4. ASSUME NEW account \in Accounts, NEW amount \in Amounts,
             removerefund(account, amount)
      PROVE  StakingInv' /\ NobodyElseGains
  <2>1. amount \in Int
    BY StakingAssumption
  <2> QED
    BY <1>4, <2>1, RemoverefundKeeps
<1>5. ASSUME activate
      PROVE  StakingInv' /\ NobodyElseGains
  BY <1>5, ActivateKeeps
<1>6. ASSUME Tick
      PROVE  StakingInv' /\ NobodyElseGains
  BY <1>6, TickKeeps
<1>7. ASSUME UNCHANGED vars
      PROVE  StakingInv' /\ PaysOnlyTheMatured
  <2>1. TypeOK'
    <3>1. activated' \in BOOLEAN
      BY <1>7, Zenon DEF StakingInv, TypeOK, vars
    <3> QED
      BY <1>7, <3>1 DEF StakingInv, TypeOK, ResourcesTypeOK, vars, resources,
           staking, history
  <2>2. StakeBacked' /\ VotesMatchStake' /\ TotalsMatchStake'
        /\ WpsTotalMatches'
    BY <1>7 DEF StakingInv, StakeBacked, VotesMatchStake, TotalsMatchStake,
         WpsTotalMatches, StakeOf, AllStake, AllRefunds, vars, resources,
         staking, history
  <2>3. AgeCounts' /\ StakeAwaitsNothing'
    BY <1>7 DEF StakingInv, AgeCounts, StakeAwaitsNothing, HasRefund, vars,
         staking, history
  <2>4. PaysOnlyTheMatured
    <3>1. liquid' = liquid /\ liquid \in [Accounts -> Nat]
      BY <1>7 DEF vars, StakingInv, TypeOK
    <3> QED
      BY <3>1 DEF PaysOnlyTheMatured
  <2> QED
    BY <2>1, <2>2, <2>3, <2>4 DEF StakingInv
<1> QED
  BY <1>1, <1>2, <1>3, <1>4, <1>5, <1>6, <1>7, Zenon DEF Next

(* The staking tables are an inductive invariant of the contract.          *)
THEOREM StakingInvariant == Spec => []StakingInv
<1>1. Init => StakingInv
  BY InitEstablishes
<1>2. StakingInv /\ [Next]_vars => StakingInv'
  BY StepKeeps
<1> QED
  BY <1>1, <1>2, PTL DEF Spec

(* Every table keeps its type: no stake, refund or balance is ever         *)
(* negative.                                                               *)
THEOREM TypeCorrect == Spec => []TypeOK
<1>1. StakingInv => TypeOK
  BY DEF StakingInv
<1> QED
  BY <1>1, StakingInvariant, PTL

(* eosio.stake holds what is staked and what is to be refunded.            *)
THEOREM StakeIsBacked == Spec => []StakeBacked
<1>1. StakingInv => StakeBacked
  BY DEF StakingInv
<1> QED
  BY <1>1, StakingInvariant, PTL

(* The votes of an account, the bandwidth of an account and the total of   *)
(* the WPS are the sums of the delband rows that they stand for.           *)
THEOREM RecordsAreStake == Spec => []RecordsMatchStake
<1>1. StakingInv => RecordsMatchStake
  BY DEF StakingInv, RecordsMatchStake
<1> QED
  BY <1>1, StakingInvariant, PTL

(* Nobody but eosio.stake gains tokens before the whole delay has passed   *)
(* since their own last undelegation.                                      *)
THEOREM NobodyExitsEarly == Spec => NoEarlyExit
<1>1. StakingInv /\ [Next]_vars => [PaysOnlyTheMatured]_vars
  BY StepKeeps
<1>2. PaysOnlyTheMatured =>
        \A a \in Accounts \ {Stake} :
          liquid'[a] > liquid[a] => lastUnstake[a] = Delay
  BY DEF PaysOnlyTheMatured
<1> QED
  BY <1>1, <1>2, StakingInvariant, PTL DEF Spec, NoEarlyExit

-----------------------------------------------------------------------------
(* What staking takes from one's tokens it adds to one's stake, or takes   *)
(* from one's refund: the wealth of an account.                            *)
LEMMA OnlyPayerPays ==
  ASSUME liquid \in [Accounts -> Nat],
         NEW source \in Accounts, NEW amount \in Nat,
         StakeTransfer(source, amount)
  PROVE  /\ source # Stake => liquid'[source] = liquid[source] - amount
         /\ \A a \in Accounts \ {Stake, source} : liquid'[a] = liquid[a]
<1> USE ResourcesAssumption, StakingAssumption
<1>1. CASE source # Stake /\ amount > 0
  <2>1. liquid' = [liquid EXCEPT ![source] = @ - amount,
                                 ![Stake] = @ + amount]
    BY <1>1 DEF StakeTransfer, Pay, CanPay, Paid
  <2> QED
    BY <1>1, <2>1
<1>2. CASE ~(source # Stake /\ amount > 0)
  <2>1. liquid' = liquid /\ liquid[source] \in Nat
    BY <1>2 DEF StakeTransfer
  <2> QED
    BY <1>2, <2>1
<1> QED
  BY <1>1, <1>2

LEMMA WealthType ==
  ASSUME TypeOK, NEW a \in Accounts
  PROVE  liquid[a] \in Nat /\ StakeOf(a) \in Nat /\ RefundOf(a) \in Nat
<1> USE ResourcesAssumption
<1>1. "net" \in Bandwidth /\ "cpu" \in Bandwidth
  BY DEF Bandwidth
<1>2. /\ delband["net"] \in PairTable(Accounts)
      /\ delband["cpu"] \in PairTable(Accounts)
  BY <1>1 DEF TypeOK, PairTable, Pairs
<1>3. StakeOf(a) \in Nat
  BY <1>2, PairTotalTypes DEF StakeOf
<1> QED
  BY <1>1, <1>3 DEF TypeOK, RefundOf

(* Staking leaves the wealth of everybody as it is, except that a gift     *)
(* moves some from the giver to the receiver.                              *)
LEMMA ChangebwWealth ==
  ASSUME StakingInv,
         NEW source \in Accounts, NEW receiver \in Accounts,
         NEW delta \in [Bandwidth -> Int], NEW transfer \in BOOLEAN,
         transfer => ~Undelegating(delta),
         changebw(source, receiver, delta, transfer),
         NEW a \in Accounts \ {Stake}, ~(transfer /\ a = source)
  PROVE  Wealth(a)' \in Int /\ Wealth(a)' >= Wealth(a)
<1> USE ResourcesAssumption, StakingAssumption
<1> DEFINE from == IF transfer THEN receiver ELSE source
           total == TotalOf(delta)
           after == [k \in Bandwidth |-> RefundAfter(k, from, delta)]
           due == [k \in Bandwidth |-> DueAfter(k, from, delta)]
<1>1. /\ from \in Accounts
      /\ from = IF transfer THEN receiver ELSE source
      /\ "net" \in Bandwidth /\ "cpu" \in Bandwidth
  BY DEF Bandwidth
<1>2. TypeOK /\ TypeOK'
  BY ChangebwKeeps DEF StakingInv
<1>3. /\ liquid \in [Accounts -> Nat]
      /\ refunds \in [Bandwidth -> [Accounts -> Nat]]
      /\ delband \in [Bandwidth -> [Pairs -> Nat]]
      /\ delta["net"] \in Int /\ delta["cpu"] \in Int
  BY <1>1, <1>2 DEF TypeOK
<1>4. total \in Int
  BY <1>3 DEF TotalOf
<1>5. /\ UpdateDelband(from, receiver, delta)
      /\ UpdateRefund(source, from, receiver, delta, transfer)
  BY DEF changebw
<1> HIDE DEF from
<1>6. /\ a = from => StakeOf(a)' = StakeOf(a) + total
      /\ a # from => StakeOf(a)' = StakeOf(a)
      /\ StakeOf(a)' \in Int
  BY <1>1, <1>3, <1>5, DelbandUpdate
<1>7. /\ liquid[a] \in Nat /\ StakeOf(a) \in Nat /\ RefundOf(a) \in Nat
      /\ RefundOf(a) = refunds["net"][a] + refunds["cpu"][a]
      /\ RefundOf(a)' = refunds'["net"][a] + refunds'["cpu"][a]
  BY <1>2, WealthType DEF RefundOf
<1>8. /\ after \in [Bandwidth -> Nat]
      /\ \A k \in Bandwidth :
           /\ due[k] \in Nat
           /\ due[k] = delta[k] + after[k] - refunds[k][from]
  BY <1>1, <1>3, DueType
<1>9. TouchesRefund(source, from, receiver, delta, transfer) =>
        /\ SetRefund(from, after)
        /\ StakeTransfer(source, TotalOf(due))
  BY <1>5 DEF UpdateRefund
<1>10. ~TouchesRefund(source, from, receiver, delta, transfer) =>
         refunds' = refunds /\ StakeTransfer(source, total)
  BY <1>5 DEF UpdateRefund
<1> HIDE DEF after, due, total
<1>11. /\ TotalOf(due) \in Nat
       /\ TotalOf(due) = total + TotalOf(after)
                           - (refunds["net"][from] + refunds["cpu"][from])
       /\ TotalOf(after) \in Nat
  <2>1. /\ refunds["net"][from] \in Nat /\ refunds["cpu"][from] \in Nat
        /\ after["net"] \in Nat /\ after["cpu"] \in Nat
    BY <1>1, <1>3, <1>8
  <2>2. /\ due["net"] = delta["net"] + after["net"] - refunds["net"][from]
        /\ due["cpu"] = delta["cpu"] + after["cpu"] - refunds["cpu"][from]
        /\ due["net"] \in Nat /\ due["cpu"] \in Nat
    BY <1>1, <1>8
  <2>3. /\ TotalOf(due) = due["net"] + due["cpu"]
        /\ TotalOf(after) = after["net"] + after["cpu"]
        /\ total = delta["net"] + delta["cpu"]
    BY DEF TotalOf, total
  <2> QED
    BY ONLY <1>3, <2>1, <2>2, <2>3
<1>12. CASE a = source
  <2>1. ~transfer /\ from = a /\ source # Stake
    BY <1>1, <1>12
  <2>2. StakeOf(a)' = StakeOf(a) + total
    BY <1>6, <2>1
  <2>3. CASE TouchesRefund(source, from, receiver, delta, transfer)
    <3>1. liquid'[a] = liquid[a] - TotalOf(due)
      BY <1>3, <1>9, <1>11, <1>12, <2>1, <2>3, OnlyPayerPays
    <3>2. \A k \in Bandwidth : refunds'[k][a] = after[k]
      BY <1>1, <1>3, <1>8, <1>9, <2>1, <2>3, RefundsUpdate
    <3>3. RefundOf(a)' = TotalOf(after)
      BY <1>1, <1>7, <3>2 DEF TotalOf
    <3>4. TotalOf(due) = total + TotalOf(after) - RefundOf(a)
      BY <1>7, <1>11, <2>1
    <3> QED
      BY <1>4, <1>7, <1>11, <2>2, <3>1, <3>3, <3>4 DEF Wealth
  <2>4. CASE ~TouchesRefund(source, from, receiver, delta, transfer)
    <3>1. total \in Nat
      BY <1>4, <2>1, <2>4 DEF TouchesRefund, Undelegating, total
    <3>2. liquid'[a] = liquid[a] - total
      BY <1>3, <1>10, <1>12, <2>1, <2>4, <3>1, OnlyPayerPays
    <3>3. RefundOf(a)' = RefundOf(a)
      BY <1>7, <1>10, <2>4
    <3> QED
      BY <1>7, <2>2, <3>1, <3>2, <3>3 DEF Wealth
  <2> QED
    BY <2>3, <2>4
<1>13. CASE a # source
  <2>1. liquid'[a] = liquid[a]
    <3>1. CASE TouchesRefund(source, from, receiver, delta, transfer)
      BY <1>3, <1>9, <1>11, <1>13, <3>1, OnlyPayerPays
    <3>2. CASE ~TouchesRefund(source, from, receiver, delta, transfer)
      <4>1. CASE source = Stake
        BY <1>10, <3>2, <4>1 DEF StakeTransfer
      <4>2. CASE source # Stake
        <5>1. total \in Nat
          BY <1>4, <3>2, <4>2 DEF TouchesRefund, Undelegating, total
        <5> QED
          BY <1>3, <1>10, <1>13, <3>2, <5>1, OnlyPayerPays
      <4> QED
        BY <4>1, <4>2
    <3> QED
      BY <3>1, <3>2
  <2>2. CASE a = from
    <3>1. transfer /\ total \in Nat
      BY <1>1, <1>4, <1>13, <2>2 DEF Undelegating, total
    <3>2. ~TouchesRefund(source, from, receiver, delta, transfer)
      BY <3>1 DEF TouchesRefund
    <3>3. RefundOf(a)' = RefundOf(a)
      BY <1>7, <1>10, <3>2
    <3> QED
      BY <1>6, <1>7, <2>1, <2>2, <3>1, <3>3 DEF Wealth
  <2>3. CASE a # from
    <3>1. \A k \in Bandwidth : refunds'[k][a] = refunds[k][a]
      BY <1>1, <1>3, <1>8, <1>9, <1>10, <2>3, RefundsUpdate
    <3>2. RefundOf(a)' = RefundOf(a)
      BY <1>1, <1>7, <3>1
    <3> QED
      BY <1>6, <1>7, <2>1, <2>3, <3>2 DEF Wealth
  <2> QED
    BY <2>2, <2>3
<1>14. Wealth(a)' \in Int
  <2>1. liquid'[a] \in Int /\ RefundOf(a)' \in Int
    BY <1>1, <1>2, <1>7 DEF TypeOK
  <2> QED
    BY <1>6, <2>1 DEF Wealth
<1> QED
  BY <1>12, <1>13, <1>14

(* A refund that is paid only becomes liquid.                              *)
LEMMA RefundWealth ==
  ASSUME StakingInv, NEW holder \in Accounts, refund(holder),
         NEW a \in Accounts \ {Stake}
  PROVE  Wealth(a)' = Wealth(a)
<1> USE ResourcesAssumption, StakingAssumption
<1> DEFINE none == [k \in Bandwidth |-> 0]
<1>1. TypeOK /\ HasRefund(holder) /\ holder # Stake
  BY DEF StakingInv, refund, Matured, StakeAwaitsNothing
<1>2. /\ liquid' = [liquid EXCEPT ![Stake] = @ - RefundOf(holder),
                                  ![holder] = @ + RefundOf(holder)]
      /\ SetRefund(holder, none)
      /\ delband' = delband
  BY DEF refund, Pay, Paid, RefundOf
<1>3. /\ liquid \in [Accounts -> Nat]
      /\ refunds \in [Bandwidth -> [Accounts -> Nat]]
      /\ "net" \in Bandwidth /\ "cpu" \in Bandwidth
  BY <1>1 DEF TypeOK, Bandwidth
<1>4. none \in [Bandwidth -> Nat] /\ none["net"] = 0 /\ none["cpu"] = 0
  BY <1>3
<1> HIDE DEF none
<1>5. \A k \in Bandwidth :
        refunds'[k][a] = IF a = holder THEN none[k] ELSE refunds[k][a]
  BY <1>2, <1>3, <1>4, RefundsUpdate
<1>6. /\ RefundOf(a) = refunds["net"][a] + refunds["cpu"][a]
      /\ RefundOf(a)' = refunds'["net"][a] + refunds'["cpu"][a]
      /\ StakeOf(a)' = StakeOf(a)
  BY <1>2 DEF RefundOf, StakeOf
<1>7. liquid[a] \in Nat /\ StakeOf(a) \in Nat /\ RefundOf(a) \in Nat
  BY <1>1, WealthType
<1>8. CASE a = holder
  <2>1. liquid'[a] = liquid[a] + RefundOf(a)
    BY <1>1, <1>2, <1>3, <1>8
  <2>2. RefundOf(a)' = 0
    BY <1>3, <1>4, <1>5, <1>6, <1>8
  <2> QED
    BY <1>6, <1>7, <2>1, <2>2 DEF Wealth
<1>9. CASE a # holder
  <2>1. liquid'[a] = liquid[a]
    BY <1>2, <1>3, <1>9
  <2>2. RefundOf(a)' = RefundOf(a)
    BY <1>3, <1>5, <1>6, <1>9
  <2> QED
    BY <1>6, <2>1, <2>2 DEF Wealth
<1> QED
  BY <1>8, <1>9

(* A cancellation only touches the account that it cancels the refund of.  *)
LEMMA RemoverefundWealth ==
  ASSUME StakingInv, NEW account \in Accounts, NEW amount \in Amounts,
         removerefund(account, amount), NEW a \in Accounts, a # account
  PROVE  Wealth(a)' = Wealth(a)
<1>1. /\ liquid' = liquid /\ delband' = delband
      /\ \E left : SetRefund(account, left)
  BY DEF removerefund
<1>2. refunds \in [Bandwidth -> [Accounts -> Nat]]
  BY DEF StakingInv, TypeOK
<1>3. \A k \in Bandwidth : refunds'[k][a] = refunds[k][a]
  BY <1>1, <1>2 DEF SetRefund
<1>4. refunds'["net"][a] = refunds["net"][a]
      /\ refunds'["cpu"][a] = refunds["cpu"][a]
  BY <1>3 DEF Bandwidth
<1> QED
  BY <1>1, <1>4 DEF Wealth, StakeOf, RefundOf

WealthLeavesKnowingly ==
  \A a \in Accounts \ {Stake} :
    Wealth(a)' < Wealth(a) => Gives(a) \/ Cancelled(a)

LEMMA StepKeepsWealth ==
  ASSUME StakingInv, [Next]_vars
  PROVE  WealthLeavesKnowingly
<1> USE ResourcesAssumption, StakingAssumption
<1> SUFFICES ASSUME NEW a \in Accounts \ {Stake}, Wealth(a)' < Wealth(a)
             PROVE  Gives(a) \/ Cancelled(a)
  BY DEF WealthLeavesKnowingly
<1>1. TypeOK /\ Wealth(a) \in Int
  BY WealthType DEF StakingInv, Wealth
<1>2. ASSUME UNCHANGED <<liquid, delband, refunds>> PROVE FALSE
  <2>1. Wealth(a)' = Wealth(a)
    BY <1>2 DEF Wealth, StakeOf, RefundOf
  <2> QED
    BY <1>1, <2>1
<1>3. ASSUME NEW from \in Accounts, NEW receiver \in Receivers,
             NEW q \in Quantities, NEW transfer \in BOOLEAN,
             delegatebw(from, receiver, q, transfer)
      PROVE  Gives(a)
  <2>1. /\ changebw(from, receiver, q, transfer)
        /\ q \in [Bandwidth -> Int] /\ receiver \in Accounts
        /\ ~Undelegating(q)
    <3>1. TotalOf(q) > 0 /\ q["net"] \in Int /\ q["cpu"] \in Int
      BY <1>3 DEF delegatebw, ValidQuantity, Quantities, Bandwidth
    <3>2. ~Undelegating(q)
      BY <3>1 DEF Undelegating, TotalOf
    <3> QED
      BY <1>3, <3>2 DEF delegatebw, Quantities
  <2>2. CASE transfer /\ a = from
    <3>1. delegatebw(a, receiver, q, TRUE)
      <4>1. transfer = TRUE
        BY <2>2
      <4> QED
        BY <1>3, <2>2, <4>1
    <3> QED
      BY <3>1 DEF Gives
  <2>3. CASE ~(transfer /\ a = from)
    <3>1. Wealth(a)' \in Int /\ Wealth(a)' >= Wealth(a)
      BY <2>1, <2>3, ChangebwWealth
    <3> QED
      BY <1>1, <3>1
  <2> QED
    BY <2>2, <2>3
<1>4. ASSUME NEW from \in Accounts, NEW receiver \in Receivers,
             NEW q \in Quantities, undelegatebw(from, receiver, q)
      PROVE  FALSE
  <2> DEFINE delta == [k \in Bandwidth |-> -q[k]]
  <2>1. q \in [Bandwidth -> Int] /\ receiver \in Accounts
    BY DEF Quantities
  <2>2. delta \in [Bandwidth -> Int]
    BY <2>1
  <2>3. changebw(from, receiver, delta, FALSE)
    BY <1>4 DEF undelegatebw
  <2> HIDE DEF delta
  <2>4. Wealth(a)' \in Int /\ Wealth(a)' >= Wealth(a)
    BY <2>1, <2>2, <2>3, ChangebwWealth
  <2> QED
    BY <1>1, <2>4
<1>5. ASSUME NEW holder \in Accounts, refund(holder) PROVE FALSE
  <2>1. Wealth(a)' = Wealth(a)
    BY <1>5, RefundWealth
  <2> QED
    BY <1>1, <2>1
<1>6. ASSUME NEW account \in Accounts, NEW amount \in Amounts,
             removerefund(account, amount)
      PROVE  Cancelled(a)
  <2>1. CASE a = account
    BY <1>6, <2>1 DEF Cancelled
  <2>2. CASE a # account
    <3>1. Wealth(a)' = Wealth(a)
      BY <1>6, <2>2, RemoverefundWealth
    <3> QED
      BY <1>1, <3>1
  <2> QED
    BY <2>1, <2>2
<1>7. CASE activate
  BY <1>2, <1>7 DEF activate, staking
<1>8. CASE Tick
  BY <1>2, <1>8 DEF Tick
<1>9. CASE UNCHANGED vars
  BY <1>2, <1>9 DEF vars, staking
<1> QED
  BY <1>3, <1>4, <1>5, <1>6, <1>7, <1>8, <1>9, Zenon DEF Next

(* What an account owns, liquid, staked or awaiting refund, shrinks only   *)
(* by a gift of its own or a cancellation of its refund.                   *)
THEOREM WealthIsKept == Spec => WealthConsents
<1>1. StakingInv /\ [Next]_vars => [WealthLeavesKnowingly]_vars
  BY StepKeepsWealth
<1>2. WealthLeavesKnowingly =>
        \A a \in Accounts \ {Stake} :
          Wealth(a)' < Wealth(a) => Gives(a) \/ Cancelled(a)
  BY DEF WealthLeavesKnowingly
<1> QED
  BY <1>1, <1>2, StakingInvariant, PTL DEF Spec, WealthConsents

-----------------------------------------------------------------------------
(* Products and quotients of natural numbers.                              *)
LEMMA ProductGrows ==
  ASSUME NEW m \in Nat, NEW n \in Nat, NEW k \in Nat, m <= n
  PROVE  m * k \in Nat /\ n * k \in Nat /\ m * k <= n * k
<1>1. n * k = m * k + (n - m) * k
  OBVIOUS
<1>2. (n - m) * k \in Nat
  OBVIOUS
<1>3. m * k \in Nat /\ n * k \in Nat
  OBVIOUS
<1> QED
  BY <1>1, <1>2, <1>3

LEMMA QuotientRoundsDown ==
  ASSUME NEW n \in Nat, NEW d \in Nat \ {0}
  PROVE  /\ n \div d \in Nat
         /\ (n \div d) * d <= n
         /\ n < (n \div d) * d + d
OBVIOUS

(* A quotient is less than a number whose product with the divisor exceeds *)
(* the dividend.                                                           *)
LEMMA QuotientBelow ==
  ASSUME NEW n \in Nat, NEW d \in Nat \ {0}, NEW q \in Nat, n < (q + 1) * d
  PROVE  n \div d <= q
<1>1. n \div d \in Nat /\ (n \div d) * d <= n
  BY QuotientRoundsDown
<1> SUFFICES ASSUME q + 1 <= n \div d PROVE FALSE
  BY <1>1
<1>2. (q + 1) * d <= (n \div d) * d
  BY <1>1, ProductGrows
<1>3. (q + 1) * d \in Nat /\ (n \div d) * d \in Nat
  BY <1>1, ProductGrows
<1> QED
  BY <1>1, <1>2, <1>3

(* A larger dividend gives no smaller quotient, a larger divisor no larger *)
(* one.                                                                    *)
LEMMA QuotientGrows ==
  ASSUME NEW m \in Nat, NEW n \in Nat, NEW d \in Nat \ {0}, m <= n
  PROVE  m \div d <= n \div d
<1>1. n \div d \in Nat /\ n < (n \div d) * d + d
  BY QuotientRoundsDown
<1>2. (n \div d + 1) * d = (n \div d) * d + d
  BY <1>1
<1>3. (n \div d) * d \in Nat
  BY <1>1, ProductGrows
<1>4. m < (n \div d + 1) * d
  BY <1>1, <1>2, <1>3
<1> QED
  BY <1>1, <1>4, QuotientBelow

LEMMA QuotientShrinks ==
  ASSUME NEW n \in Nat, NEW d \in Nat \ {0}, NEW e \in Nat \ {0}, d <= e
  PROVE  n \div e <= n \div d
<1>1. n \div d \in Nat /\ n < (n \div d) * d + d
  BY QuotientRoundsDown
<1>2. (n \div d + 1) * d = (n \div d) * d + d
  BY <1>1
<1>3. d * (n \div d + 1) <= e * (n \div d + 1)
  BY <1>1, ProductGrows
<1>4. /\ d * (n \div d + 1) = (n \div d + 1) * d
      /\ e * (n \div d + 1) = (n \div d + 1) * e
  BY <1>1
<1>5. (n \div d + 1) * d \in Nat /\ (n \div d + 1) * e \in Nat
  BY <1>1, ProductGrows
<1>6. n < (n \div d + 1) * e
  <2> DEFINE y == (n \div d + 1) * d
             z == (n \div d + 1) * e
             x == (n \div d) * d
  <2>1. n < y
    BY <1>1, <1>2
  <2>2. y <= z
    BY <1>3, <1>4
  <2> QED
    BY <2>1, <2>2, <1>5
<1> QED
  BY <1>1, <1>6, QuotientBelow

(* A part of a number in a ratio of at most 1 is at most the number.       *)
LEMMA PartIsLess ==
  ASSUME NEW n \in Nat, NEW x \in Nat, NEW d \in Nat \ {0}, x <= d
  PROVE  /\ (n * x) \div d \in Nat
         /\ (n * x) \div d <= n
<1>1. n * x \in Nat /\ n * d \in Nat
  OBVIOUS
<1>2. x * n <= d * n
  BY ProductGrows
<1>3. n * x = x * n /\ n * d = d * n /\ (n + 1) * d = n * d + d
  OBVIOUS
<1>4. n * x < (n + 1) * d
  BY <1>1, <1>2, <1>3
<1> QED
  BY <1>1, <1>4, QuotientBelow, QuotientRoundsDown

-----------------------------------------------------------------------------
(* The curve of a pool, at any time: the ratio falls to its target, and    *)
(* the pool grows.                                                         *)
CurveOK(c) ==
  /\ c.assumed \in Nat
  /\ c.initial \in 1 .. Frac
  /\ c.target \in 1 .. Frac
  /\ c.target <= c.initial
  /\ c.from \in Nat
  /\ c.until \in Nat

RatioOn(c, t) ==
  IF t >= c.until THEN c.target
  ELSE c.initial - ((c.initial - c.target) * (t - c.from)) \div (c.until - c.from)
WeightOn(c, t) == (c.assumed * Frac) \div RatioOn(c, t) - c.assumed

LEMMA RatioType ==
  ASSUME NEW c, CurveOK(c), NEW t \in Nat, c.from <= t
  PROVE  RatioOn(c, t) \in 1 .. Frac
<1>. USE PowerupAssumption
<1>1. CASE t >= c.until
  BY <1>1 DEF RatioOn, CurveOK
<1>2. CASE t < c.until
  <2> DEFINE n == c.initial - c.target
             x == t - c.from
             d == c.until - c.from
  <2>1. n \in Nat /\ x \in Nat /\ d \in Nat \ {0} /\ x <= d
    BY <1>2 DEF CurveOK
  <2>2. RatioOn(c, t) = c.initial - (n * x) \div d
    BY <1>2 DEF RatioOn, CurveOK
  <2> HIDE DEF x, d
  <2>3. (n * x) \div d \in Nat /\ (n * x) \div d <= n
    <3> HIDE DEF n
    <3> QED
      BY <2>1, PartIsLess
  <2> QED
    BY <2>1, <2>2, <2>3 DEF CurveOK
<1> QED
  BY <1>1, <1>2 DEF CurveOK

LEMMA RatioFalls ==
  ASSUME NEW c, CurveOK(c), NEW t \in Nat, NEW u \in Nat, c.from <= t, t <= u
  PROVE  RatioOn(c, u) <= RatioOn(c, t)
<1> DEFINE n == c.initial - c.target
           d == c.until - c.from
           x == t - c.from
           y == u - c.from
<1>1. n \in Nat /\ x \in Nat /\ y \in Nat /\ x <= y
  BY DEF CurveOK
<1>2. CASE t >= c.until
  BY <1>2 DEF RatioOn, CurveOK
<1>3. CASE t < c.until /\ u >= c.until
  <2>1. d \in Nat \ {0} /\ x <= d
    BY <1>3 DEF CurveOK
  <2>2. RatioOn(c, t) = c.initial - (n * x) \div d /\ RatioOn(c, u) = c.target
    BY <1>3 DEF RatioOn, CurveOK
  <2>3. (n * x) \div d \in Nat /\ (n * x) \div d <= n
    <3> HIDE DEF n, x, d
    <3> QED
      BY <1>1, <2>1, PartIsLess
  <2> QED
    <3> HIDE DEF x, d
    <3> QED
      BY <2>2, <2>3 DEF CurveOK
<1>4. CASE u < c.until
  <2>1. d \in Nat \ {0}
    BY <1>4 DEF CurveOK
  <2>2. /\ RatioOn(c, t) = c.initial - (n * x) \div d
        /\ RatioOn(c, u) = c.initial - (n * y) \div d
    BY <1>4 DEF RatioOn, CurveOK
  <2>3. /\ (n * x) \div d \in Nat /\ (n * y) \div d \in Nat
        /\ (n * x) \div d <= (n * y) \div d
    <3> HIDE DEF n, x, y, d
    <3>1. x * n <= y * n
      BY <1>1, ProductGrows
    <3>2. n * x \in Nat /\ n * y \in Nat /\ n * x <= n * y
      BY <1>1, <3>1, ProductGrows
    <3> QED
      BY <2>1, <3>2, QuotientGrows, QuotientRoundsDown
  <2> QED
    <3> HIDE DEF n, x, y, d
    <3> QED
      BY <2>2, <2>3 DEF CurveOK
<1> QED
  BY <1>2, <1>3, <1>4 DEF CurveOK

LEMMA WeightType ==
  ASSUME NEW c, CurveOK(c), NEW t \in Nat, c.from <= t
  PROVE  WeightOn(c, t) \in Nat
<1> DEFINE r == RatioOn(c, t)
<1>1. r \in Nat \ {0} /\ r <= Frac /\ c.assumed \in Nat /\ Frac \in Nat \ {0}
  BY RatioType, PowerupAssumption DEF CurveOK
<1> HIDE DEF r
<1>2. c.assumed * Frac \in Nat
  BY <1>1, ProductGrows
<1>3. (c.assumed * Frac) \div Frac = c.assumed
  BY <1>1
<1>4. (c.assumed * Frac) \div Frac <= (c.assumed * Frac) \div r
  BY <1>1, <1>2, QuotientShrinks
<1>5. (c.assumed * Frac) \div r \in Nat
  BY <1>1, <1>2, QuotientRoundsDown
<1> QED
  BY <1>1, <1>3, <1>4, <1>5 DEF WeightOn, r

LEMMA WeightGrows ==
  ASSUME NEW c, CurveOK(c), NEW t \in Nat, NEW u \in Nat, c.from <= t, t <= u
  PROVE  WeightOn(c, t) <= WeightOn(c, u)
<1> DEFINE r == RatioOn(c, t)
           s == RatioOn(c, u)
           m == c.assumed * Frac
<1>1. /\ r \in Nat \ {0} /\ s \in Nat \ {0} /\ s <= r
      /\ c.assumed \in Nat /\ Frac \in Nat \ {0}
  <2>1. c.from <= u
    BY DEF CurveOK
  <2> QED
    BY <2>1, RatioType, RatioFalls, PowerupAssumption DEF CurveOK
<1>2. WeightOn(c, t) = m \div r - c.assumed /\ WeightOn(c, u) = m \div s - c.assumed
  BY DEF WeightOn
<1>3. m \in Nat
  BY <1>1, ProductGrows
<1> HIDE DEF r, s, m
<1>4. m \div r <= m \div s /\ m \div r \in Nat /\ m \div s \in Nat
  BY <1>1, <1>3, QuotientShrinks, QuotientRoundsDown
<1> QED
  BY <1>1, <1>2, <1>4

(* What the code computes is the curve at the present time.                *)
LEMMA OnNow ==
  ASSUME NEW c
  PROVE  RatioAt(c) = RatioOn(c, now) /\ WeightAt(c) = WeightOn(c, now)
BY DEF RatioAt, WeightAt, RatioOn, WeightOn

-----------------------------------------------------------------------------
(* The table of rows as every operation leaves it, with the limits: all    *)
(* that LimitsFollowWeights and OwnedRamUsable say, and that an account    *)
(* without a row has a RAM limit that a new row may keep.                  *)
RowsTypes(r) ==
  /\ r.weight \in [Kinds -> [Accounts -> Nat]]
  /\ r.limit \in [Kinds -> [Accounts -> Int]]
  /\ r.hasRow \subseteq created

RowsFollow(r) ==
  \A k \in Bandwidth, a \in r.hasRow :
    a \notin managed[k] =>
      r.limit[k][a] = r.weight[k][a] \/ \A b \in Bandwidth : r.weight[b][a] = 0

RamLimits(r) ==
  \A a \in Accounts :
    a \notin managed["ram"] =>
      /\ r.limit["ram"][a] >= Unlimited
      /\ r.limit["ram"][a] = Unlimited \/ r.limit["ram"][a] >= r.weight["ram"][a]

NoRowNoWeight(r) ==
  \A k \in Kinds, a \in Accounts \ r.hasRow : r.weight[k][a] = 0

RowsOK(r) == RowsTypes(r) /\ RowsFollow(r) /\ RamLimits(r) /\ NoRowNoWeight(r)

AccountsOK ==
  /\ created \subseteq Accounts
  /\ managed \in [Kinds -> SUBSET created]

LEMMA LimitsOfRows ==
  ASSUME AccountsOK, RowsOK(Rows)
  PROVE  LimitsFollowWeights /\ OwnedRamUsable
<1>1. /\ Rows.weight = weight /\ Rows.limit = limit /\ Rows.hasRow = hasRow
  BY DEF Rows
<1>2. hasRow \subseteq Accounts
  BY <1>1 DEF RowsOK, RowsTypes, AccountsOK
<1>3. LimitsFollowWeights
  BY <1>1 DEF RowsOK, RowsFollow, LimitsFollowWeights
<1>4. OwnedRamUsable
  <2>1. \A a \in hasRow :
          a \notin managed["ram"] =>
            limit["ram"][a] = Unlimited \/ limit["ram"][a] >= weight["ram"][a]
    BY <1>1, <1>2 DEF RowsOK, RamLimits
  <2>2. \A k \in Kinds, a \in Accounts \ hasRow : weight[k][a] = 0
    BY <1>1 DEF RowsOK, NoRowNoWeight
  <2> QED
    BY <2>1, <2>2 DEF OwnedRamUsable
<1> QED
  BY <1>3, <1>4

(* adjust_resources, whoever it is called for.                             *)
DeltaTables == [Bandwidth -> [Accounts -> Int]]

WeightsMoved(r, s, A, d) ==
  /\ s.weight \in [Kinds -> [Accounts -> Nat]]
  /\ s.weight["ram"] = r.weight["ram"]
  /\ \A k \in Bandwidth, a \in Accounts :
       s.weight[k][a] = r.weight[k][a] + (IF a \in A THEN d[k][a] ELSE 0)

LEMMA AdjustedWeights ==
  ASSUME NEW r, RowsTypes(r), NEW A \in SUBSET created, created \subseteq Accounts,
         NEW d \in DeltaTables, Fits(r, A, d),
         NEW s, s = adjust_resources(r, A, d)
  PROVE  WeightsMoved(r, s, A, d)
<1>1. s.weight = [k \in Kinds |-> IF k = "ram" THEN r.weight[k]
                                  ELSE Plus(r.weight[k], A, d[k])]
  BY DEF adjust_resources
<1>2. \A k \in Kinds : k = "ram" \/ k \in Bandwidth
  BY DEF Kinds
<1>3. "ram" \in Kinds /\ "ram" \notin Bandwidth /\ Bandwidth \subseteq Kinds
  BY DEF Kinds, Bandwidth
<1>4. \A k \in Bandwidth :
        /\ Plus(r.weight[k], A, d[k]) \in [Accounts -> Nat]
        /\ \A a \in Accounts : Plus(r.weight[k], A, d[k])[a]
                                 = r.weight[k][a] + (IF a \in A THEN d[k][a] ELSE 0)
  <2> TAKE k \in Bandwidth
  <2>1. r.weight[k] \in [Accounts -> Nat] /\ d[k] \in [Accounts -> Int]
    BY <1>3 DEF RowsTypes, DeltaTables
  <2>2. \A a \in A : r.weight[k][a] + d[k][a] >= 0
    BY DEF Fits
  <2> QED
    BY <2>1, <2>2 DEF Plus
<1>5. s.weight \in [Kinds -> [Accounts -> Nat]]
  BY <1>1, <1>2, <1>3, <1>4 DEF RowsTypes
<1>6. s.weight["ram"] = r.weight["ram"]
  BY <1>1, <1>3
<1>7. \A k \in Bandwidth : s.weight[k] = Plus(r.weight[k], A, d[k])
  BY <1>1, <1>3
<1> QED
  BY <1>4, <1>5, <1>6, <1>7 DEF WeightsMoved

LEMMA AdjustedRows ==
  ASSUME AccountsOK, NEW r, RowsOK(r), NEW A \in SUBSET created,
         NEW d \in DeltaTables, Fits(r, A, d),
         NEW s, s = adjust_resources(r, A, d)
  PROVE  RowsOK(s)
<1>1. /\ s.weight \in [Kinds -> [Accounts -> Nat]]
      /\ s.weight["ram"] = r.weight["ram"]
      /\ \A k \in Bandwidth, a \in Accounts :
           s.weight[k][a] = r.weight[k][a] + (IF a \in A THEN d[k][a] ELSE 0)
  <2>1. RowsTypes(r) /\ created \subseteq Accounts
    BY DEF RowsOK, AccountsOK
  <2> QED
    <3>1. WeightsMoved(r, s, A, d)
      BY <2>1, AdjustedWeights
    <3> QED
      BY <3>1 DEF WeightsMoved
<1>2. /\ s.limit = AdjustedLimits(r, A, s.weight)
      /\ s.hasRow = (r.hasRow \cup A) \ {a \in A : IsEmpty(a, s.weight)}
  BY DEF adjust_resources
<1>3. "ram" \in Kinds /\ "ram" \notin Bandwidth /\ Bandwidth \subseteq Kinds
      /\ Kinds = {"ram"} \cup Bandwidth
  BY DEF Kinds, Bandwidth
<1>4. /\ r.weight \in [Kinds -> [Accounts -> Nat]]
      /\ r.limit \in [Kinds -> [Accounts -> Int]]
      /\ r.hasRow \subseteq created /\ created \subseteq Accounts
      /\ RamGift \in Nat
  BY ResourcesAssumption DEF RowsOK, RowsTypes, AccountsOK
<1>5. \A k \in Kinds, a \in Accounts :
        s.limit[k][a] =
          IF a \notin A \/ a \in managed[k] \/ \A b \in Bandwidth : a \in managed[b]
          THEN r.limit[k][a]
          ELSE IF k = "ram" THEN Larger(s.weight["ram"][a] + RamGift, r.limit[k][a])
          ELSE s.weight[k][a]
  BY <1>2 DEF AdjustedLimits
<1>6. s.limit \in [Kinds -> [Accounts -> Int]]
  <2>1. \A k \in Kinds, a \in Accounts : s.limit[k][a] \in Int
    <3> TAKE k \in Kinds, a \in Accounts
    <3>1. /\ r.limit[k][a] \in Int /\ s.weight[k][a] \in Int
          /\ s.weight["ram"][a] + RamGift \in Int
      BY <1>1, <1>3, <1>4
    <3> QED
      BY <1>5, <3>1 DEF Larger
  <2>2. s.limit = [k \in Kinds |-> [a \in Accounts |-> s.limit[k][a]]]
    BY <1>2, <1>5 DEF AdjustedLimits
  <2> QED
    BY <2>1, <2>2
<1>7. RowsTypes(s)
  BY <1>1, <1>2, <1>4, <1>6 DEF RowsTypes
<1>8. RowsFollow(s)
  <2> SUFFICES ASSUME NEW k \in Bandwidth, NEW a \in s.hasRow, a \notin managed[k],
                      \E b \in Bandwidth : s.weight[b][a] # 0
               PROVE  s.limit[k][a] = s.weight[k][a]
    BY DEF RowsFollow
  <2>1. a \in Accounts
    BY <1>2, <1>4
  <2>2. CASE a \in A
    <3>1. ~ \A b \in Bandwidth : a \in managed[b]
      OBVIOUS
    <3> QED
      BY <1>3, <1>5, <2>1, <2>2, <3>1
  <2>3. CASE a \notin A
    <3>1. a \in r.hasRow /\ s.limit[k][a] = r.limit[k][a]
      BY <1>2, <1>3, <1>5, <2>1, <2>3
    <3>2. \A b \in Bandwidth : s.weight[b][a] = r.weight[b][a]
      BY <1>1, <1>3, <1>4, <2>1, <2>3
    <3> QED
      BY <3>1, <3>2 DEF RowsOK, RowsFollow
  <2> QED
    BY <2>2, <2>3
<1>9. RamLimits(s)
  <2> SUFFICES ASSUME NEW a \in Accounts, a \notin managed["ram"]
               PROVE  /\ s.limit["ram"][a] >= Unlimited
                      /\ \/ s.limit["ram"][a] = Unlimited
                         \/ s.limit["ram"][a] >= s.weight["ram"][a]
    BY DEF RamLimits
  <2> DEFINE old == r.limit["ram"][a]
             w == s.weight["ram"][a]
  <2>1. /\ old \in Int /\ old >= Unlimited /\ w \in Nat
        /\ old = Unlimited \/ old >= w
    BY <1>1, <1>3, <1>4 DEF RowsOK, RamLimits
  <2>2. s.limit["ram"][a] = old \/ s.limit["ram"][a] = Larger(w + RamGift, old)
    BY <1>3, <1>5
  <2> HIDE DEF old
  <2> QED
    BY <1>4, <2>1, <2>2 DEF Larger, Unlimited
<1>10. NoRowNoWeight(s)
  <2> SUFFICES ASSUME NEW k \in Kinds, NEW a \in Accounts \ s.hasRow
               PROVE  s.weight[k][a] = 0
    BY DEF NoRowNoWeight
  <2>1. CASE a \in A
    BY <1>2, <2>1 DEF IsEmpty
  <2>2. CASE a \notin A
    <3>1. a \notin r.hasRow
      BY <1>2, <2>2
    <3>2. s.weight[k][a] = r.weight[k][a]
      BY <1>1, <1>3, <1>4, <2>2
    <3> QED
      BY <3>1, <3>2 DEF RowsOK, NoRowNoWeight
  <2> QED
    BY <2>1, <2>2
<1> QED
  BY <1>7, <1>8, <1>9, <1>10 DEF RowsOK

ResourcesOK == AccountsOK /\ RowsOK(Rows)

(* The rows are what an operation has computed. *)
LEMMA RowsSet ==
  ASSUME NEW r, AccountsOK, RowsOK(r),
         weight' = r.weight, limit' = r.limit, hasRow' = r.hasRow,
         UNCHANGED <<created, managed>>
  PROVE  ResourcesOK'
<1>1. AccountsOK'
  BY DEF AccountsOK
<1>2. RowsTypes(Rows)'
  BY DEF RowsOK, RowsTypes, Rows
<1>3. RowsFollow(Rows)'
  BY DEF RowsOK, RowsFollow, Rows
<1>4. RamLimits(Rows)'
  BY DEF RowsOK, RamLimits, Rows
<1>5. NoRowNoWeight(Rows)'
  BY DEF RowsOK, NoRowNoWeight, Rows
<1> QED
  BY <1>1, <1>2, <1>3, <1>4, <1>5 DEF RowsOK, ResourcesOK

(* changebw and adjust_resources are two copies of the same update.        *)
LEMMA CopiesAgree ==
  ASSUME ResourcesOK, NEW a \in Accounts, NEW delta \in [Bandwidth -> Int],
         UpdateTotals(a, delta), NEW r, r = adjust_resources(Rows, {a}, ForOne(delta))
  PROVE  /\ {a} \in SUBSET created
         /\ ForOne(delta) \in DeltaTables
         /\ Fits(Rows, {a}, ForOne(delta))
         /\ weight' = r.weight /\ limit' = r.limit /\ hasRow' = r.hasRow
         /\ UNCHANGED <<created, managed>>
<1>1. /\ Rows.weight = weight /\ Rows.limit = limit /\ Rows.hasRow = hasRow
  BY DEF Rows
<1>2. /\ weight \in [Kinds -> [Accounts -> Nat]]
      /\ limit \in [Kinds -> [Accounts -> Int]]
      /\ created \subseteq Accounts
  BY <1>1 DEF ResourcesOK, RowsOK, RowsTypes, AccountsOK
<1>3. "ram" \in Kinds /\ "ram" \notin Bandwidth /\ Bandwidth \subseteq Kinds
      /\ Kinds = {"ram"} \cup Bandwidth
  BY DEF Kinds, Bandwidth
<1>4. /\ a \in created
      /\ Covered(a, delta)
      /\ weight' = [k \in Kinds |-> IF k = "ram" THEN weight[k]
                                    ELSE [weight[k] EXCEPT ![a] = @ + delta[k]]]
      /\ limit' = BandwidthLimits(a, weight')
      /\ hasRow' = IF IsEmpty(a, weight') THEN hasRow \ {a} ELSE hasRow \cup {a}
      /\ UNCHANGED <<created, managed>>
  BY DEF UpdateTotals
<1>5. ForOne(delta) \in DeltaTables /\ \A k \in Bandwidth : ForOne(delta)[k][a] = delta[k]
  BY DEF ForOne, DeltaTables
<1>6. Fits(Rows, {a}, ForOne(delta))
  BY <1>1, <1>4, <1>5 DEF Fits, Covered
<1>7. weight' = r.weight
  <2>1. \A k \in Bandwidth : Plus(weight[k], {a}, ForOne(delta)[k])
                               = [weight[k] EXCEPT ![a] = @ + delta[k]]
    <3> TAKE k \in Bandwidth
    <3>1. weight[k] \in [Accounts -> Nat]
      BY <1>2, <1>3
    <3> QED
      BY <1>5, <3>1 DEF Plus
  <2>2. r.weight = [k \in Kinds |-> IF k = "ram" THEN weight[k]
                                    ELSE Plus(weight[k], {a}, ForOne(delta)[k])]
    BY <1>1 DEF adjust_resources
  <2>3. \A k \in Kinds : k = "ram" \/ k \in Bandwidth
    BY <1>3
  <2> QED
    BY <1>4, <2>1, <2>2, <2>3
<1>8. limit' = r.limit
  <2>1. r.limit = AdjustedLimits(Rows, {a}, r.weight)
    BY DEF adjust_resources
  <2>2. limit' = BandwidthLimits(a, r.weight)
    BY <1>4, <1>7
  <2> DEFINE w == r.weight
  <2> HIDE DEF w
  <2>3. AdjustedLimits(Rows, {a}, w) = BandwidthLimits(a, w)
    <3>1. CASE \A b \in Bandwidth : a \in managed[b]
      <4>1. AdjustedLimits(Rows, {a}, w) = [k \in Kinds |-> [x \in Accounts |-> limit[k][x]]]
        BY <1>1, <3>1 DEF AdjustedLimits
      <4> QED
        BY <1>2, <3>1, <4>1 DEF BandwidthLimits
    <3>2. CASE ~ \A b \in Bandwidth : a \in managed[b]
      <4> DEFINE Left(k) ==
                   [x \in Accounts |->
                      IF x \notin {a} \/ x \in managed[k] \/ \A b \in Bandwidth : x \in managed[b]
                      THEN limit[k][x]
                      ELSE IF k = "ram" THEN Larger(w["ram"][x] + RamGift, limit[k][x])
                      ELSE w[k][x]]
                 Right(k) ==
                   IF a \in managed[k] THEN limit[k]
                   ELSE [limit[k] EXCEPT ![a] =
                           IF k = "ram" THEN Larger(w["ram"][a] + RamGift, @) ELSE w[k][a]]
      <4>1. \A k \in Kinds : Left(k) = Right(k)
        <5> TAKE k \in Kinds
        <5>1. limit[k] \in [Accounts -> Int]
          BY <1>2
        <5> DEFINE old == limit[k]
                   v == IF k = "ram" THEN Larger(w["ram"][a] + RamGift, old[a]) ELSE w[k][a]
                   new == [x \in Accounts |->
                             IF x \notin {a} \/ x \in managed[k]
                                \/ \A b \in Bandwidth : x \in managed[b]
                             THEN old[x]
                             ELSE IF k = "ram" THEN Larger(w["ram"][x] + RamGift, old[x])
                             ELSE w[k][x]]
        <5>2. CASE a \in managed[k]
          <6>1. new = [x \in Accounts |-> old[x]]
            BY <5>2
          <6> QED
            BY <5>1, <5>2, <6>1
        <5>3. CASE a \notin managed[k]
          <6>1. new = [x \in Accounts |-> IF x = a THEN v ELSE old[x]]
            BY <3>2, <5>3
          <6> HIDE DEF v
          <6>2. [x \in Accounts |-> IF x = a THEN v ELSE old[x]] = [old EXCEPT ![a] = v]
            BY <5>1
          <6>3. new = [old EXCEPT ![a] = v]
            BY <6>1, <6>2
          <6> QED
            BY <5>3, <6>3 DEF v
        <5> QED
          BY <5>2, <5>3
      <4>2. AdjustedLimits(Rows, {a}, w) = [k \in Kinds |-> Left(k)]
        BY <1>1 DEF AdjustedLimits
      <4>3. BandwidthLimits(a, w) = [k \in Kinds |-> Right(k)]
        BY <3>2 DEF BandwidthLimits
      <4> HIDE DEF Left, Right
      <4> QED
        BY <4>1, <4>2, <4>3
    <3> QED
      BY <3>1, <3>2
  <2> QED
    BY <2>1, <2>2, <2>3 DEF w
<1>9. hasRow' = r.hasRow
  <2>1. r.hasRow = (hasRow \cup {a}) \ {x \in {a} : IsEmpty(x, r.weight)}
    BY <1>1 DEF adjust_resources
  <2> QED
    BY <1>4, <1>7, <2>1
<1> QED
  BY <1>4, <1>5, <1>6, <1>7, <1>8, <1>9

LEMMA TotalsKeepRows ==
  ASSUME ResourcesOK, NEW a \in Accounts, NEW delta \in [Bandwidth -> Int],
         UpdateTotals(a, delta)
  PROVE  ResourcesOK'
<1> DEFINE r == adjust_resources(Rows, {a}, ForOne(delta))
<1>1. /\ {a} \in SUBSET created
      /\ ForOne(delta) \in DeltaTables
      /\ Fits(Rows, {a}, ForOne(delta))
      /\ weight' = r.weight /\ limit' = r.limit /\ hasRow' = r.hasRow
      /\ UNCHANGED <<created, managed>>
  BY CopiesAgree
<1>2. AccountsOK /\ RowsOK(Rows)
  BY DEF ResourcesOK
<1>3. RowsOK(r)
  BY <1>1, <1>2, AdjustedRows
<1> QED
  BY <1>1, <1>2, <1>3, RowsSet

(* The parts of ResourcesOK about the variables themselves. *)
LEMMA RowsNow ==
  ASSUME ResourcesOK
  PROVE  /\ created \subseteq Accounts /\ managed \in [Kinds -> SUBSET created]
         /\ weight \in [Kinds -> [Accounts -> Nat]]
         /\ limit \in [Kinds -> [Accounts -> Int]]
         /\ hasRow \subseteq created
         /\ "ram" \in Kinds /\ "ram" \notin Bandwidth /\ Bandwidth \subseteq Kinds
         /\ Kinds = {"ram"} \cup Bandwidth
         /\ RamGift \in Nat
<1>1. /\ Rows.weight = weight /\ Rows.limit = limit /\ Rows.hasRow = hasRow
  BY DEF Rows
<1> QED
  BY <1>1, ResourcesAssumption
     DEF ResourcesOK, RowsOK, RowsTypes, AccountsOK, Kinds, Bandwidth

LEMMA LimitsNow ==
  ASSUME ResourcesOK
  PROVE  /\ \A k \in Bandwidth, a \in hasRow :
              a \notin managed[k] =>
                limit[k][a] = weight[k][a] \/ \A b \in Bandwidth : weight[b][a] = 0
         /\ \A a \in Accounts :
              a \notin managed["ram"] =>
                /\ limit["ram"][a] >= Unlimited
                /\ limit["ram"][a] = Unlimited \/ limit["ram"][a] >= weight["ram"][a]
         /\ \A k \in Kinds, a \in Accounts \ hasRow : weight[k][a] = 0
<1>1. /\ Rows.weight = weight /\ Rows.limit = limit /\ Rows.hasRow = hasRow
  BY DEF Rows
<1> QED
  BY <1>1 DEF ResourcesOK, RowsOK, RowsFollow, RamLimits, NoRowNoWeight

(* And what is to be shown of an operation. *)
LEMMA RowsThen ==
  ASSUME AccountsOK',
         (weight \in [Kinds -> [Accounts -> Nat]])',
         (limit \in [Kinds -> [Accounts -> Int]])',
         (hasRow \subseteq created)',
         \A k \in Bandwidth, a \in hasRow' :
           a \notin managed'[k] =>
             limit'[k][a] = weight'[k][a] \/ \A b \in Bandwidth : weight'[b][a] = 0,
         \A a \in Accounts :
           a \notin managed'["ram"] =>
             /\ limit'["ram"][a] >= Unlimited
             /\ limit'["ram"][a] = Unlimited \/ limit'["ram"][a] >= weight'["ram"][a],
         \A k \in Kinds, a \in Accounts \ hasRow' : weight'[k][a] = 0
  PROVE  ResourcesOK'
<1>2. RowsTypes(Rows)'
  BY DEF RowsTypes, Rows
<1>3. RowsFollow(Rows)'
  BY DEF RowsFollow, Rows
<1>4. RamLimits(Rows)'
  BY DEF RamLimits, Rows
<1>5. NoRowNoWeight(Rows)'
  BY DEF NoRowNoWeight, Rows
<1> QED
  BY <1>2, <1>3, <1>4, <1>5 DEF RowsOK, ResourcesOK

LEMMA RamKeepsRows ==
  ASSUME ResourcesOK, NEW a \in Accounts, NEW bytes \in Int,
         weight["ram"][a] + bytes \in Nat, UpdateRam(a, bytes)
  PROVE  ResourcesOK'
<1>1. /\ created \subseteq Accounts /\ managed \in [Kinds -> SUBSET created]
      /\ weight \in [Kinds -> [Accounts -> Nat]]
      /\ limit \in [Kinds -> [Accounts -> Int]]
      /\ hasRow \subseteq created
      /\ "ram" \in Kinds /\ "ram" \notin Bandwidth /\ Bandwidth \subseteq Kinds
      /\ Kinds = {"ram"} \cup Bandwidth
      /\ RamGift \in Nat
  BY RowsNow
<1>2. /\ \A k \in Bandwidth, x \in hasRow :
           x \notin managed[k] =>
             limit[k][x] = weight[k][x] \/ \A b \in Bandwidth : weight[b][x] = 0
      /\ \A x \in Accounts :
           x \notin managed["ram"] =>
             /\ limit["ram"][x] >= Unlimited
             /\ limit["ram"][x] = Unlimited \/ limit["ram"][x] >= weight["ram"][x]
      /\ \A k \in Kinds, x \in Accounts \ hasRow : weight[k][x] = 0
  BY LimitsNow
<1>3. /\ a \in created
      /\ weight' = [weight EXCEPT !["ram"][a] = @ + bytes]
      /\ hasRow' = hasRow \cup {a}
      /\ limit' = IF a \in managed["ram"] THEN limit
                  ELSE [limit EXCEPT !["ram"][a] = weight'["ram"][a] + RamGift]
      /\ created' = created /\ managed' = managed
  BY DEF UpdateRam
<1>4. AccountsOK'
  BY <1>1, <1>3 DEF AccountsOK
<1>5. /\ weight' \in [Kinds -> [Accounts -> Nat]]
      /\ weight'["ram"][a] = weight["ram"][a] + bytes
      /\ \A x \in Accounts \ {a} : weight'["ram"][x] = weight["ram"][x]
      /\ \A k \in Bandwidth : weight'[k] = weight[k]
  BY <1>1, <1>3
<1>6. weight'["ram"][a] + RamGift \in Nat
  BY <1>1, <1>5
<1>7. /\ limit' \in [Kinds -> [Accounts -> Int]]
      /\ \A k \in Bandwidth : limit'[k] = limit[k]
      /\ \A x \in Accounts \ {a} : limit'["ram"][x] = limit["ram"][x]
      /\ a \notin managed["ram"] => limit'["ram"][a] = weight'["ram"][a] + RamGift
  BY <1>1, <1>3, <1>6
<1>8. hasRow' \subseteq created'
  BY <1>1, <1>3
<1>9. \A k \in Bandwidth, x \in hasRow' :
        x \notin managed'[k] =>
          limit'[k][x] = weight'[k][x] \/ \A b \in Bandwidth : weight'[b][x] = 0
  <2> TAKE k \in Bandwidth, x \in hasRow'
  <2>1. x \in Accounts
    BY <1>1, <1>3
  <2>2. CASE x \in hasRow
    BY <1>2, <1>3, <1>5, <1>7, <2>2
  <2>3. CASE x \notin hasRow
    BY <1>1, <1>2, <1>5, <2>1, <2>3
  <2> QED
    BY <2>2, <2>3
<1>10. \A x \in Accounts :
        x \notin managed'["ram"] =>
          /\ limit'["ram"][x] >= Unlimited
          /\ limit'["ram"][x] = Unlimited \/ limit'["ram"][x] >= weight'["ram"][x]
  <2> TAKE x \in Accounts
  <2>1. weight'["ram"][x] \in Nat
    BY <1>1, <1>5
  <2>2. CASE x = a
    BY <1>1, <1>3, <1>7, <2>1, <2>2 DEF Unlimited
  <2>3. CASE x # a
    BY <1>2, <1>3, <1>5, <1>7, <2>3
  <2> QED
    BY <2>2, <2>3
<1>11. \A k \in Kinds, x \in Accounts \ hasRow' : weight'[k][x] = 0
  BY <1>1, <1>2, <1>3, <1>5
<1> QED
  BY <1>4, <1>5, <1>7, <1>8, <1>9, <1>10, <1>11, RowsThen

LEMMA NewAccountKeepsRows ==
  ASSUME ResourcesOK, NEW a \in Accounts, newaccount(a)
  PROVE  ResourcesOK'
<1>1. /\ created \subseteq Accounts /\ managed \in [Kinds -> SUBSET created]
      /\ weight \in [Kinds -> [Accounts -> Nat]]
      /\ limit \in [Kinds -> [Accounts -> Int]]
      /\ hasRow \subseteq created
      /\ "ram" \in Kinds /\ "ram" \notin Bandwidth /\ Bandwidth \subseteq Kinds
      /\ Kinds = {"ram"} \cup Bandwidth
      /\ RamGift \in Nat
  BY RowsNow
<1>2. /\ \A k \in Bandwidth, x \in hasRow :
           x \notin managed[k] =>
             limit[k][x] = weight[k][x] \/ \A b \in Bandwidth : weight[b][x] = 0
      /\ \A x \in Accounts :
           x \notin managed["ram"] =>
             /\ limit["ram"][x] >= Unlimited
             /\ limit["ram"][x] = Unlimited \/ limit["ram"][x] >= weight["ram"][x]
      /\ \A k \in Kinds, x \in Accounts \ hasRow : weight[k][x] = 0
  BY LimitsNow
<1>3. /\ a \notin hasRow
      /\ created' = created \cup {a}
      /\ hasRow' = hasRow \cup {a}
      /\ limit' = [k \in Kinds |-> [limit[k] EXCEPT ![a] = 0]]
      /\ weight' = weight /\ managed' = managed
  BY DEF newaccount
<1>4. AccountsOK'
  BY <1>1, <1>3 DEF AccountsOK
<1>5. /\ limit' \in [Kinds -> [Accounts -> Int]]
      /\ \A k \in Kinds :
           limit'[k][a] = 0 /\ \A x \in Accounts \ {a} : limit'[k][x] = limit[k][x]
  BY <1>1, <1>3
<1>6. \A k \in Kinds : weight'[k][a] = 0
  BY <1>2, <1>3
<1>7. \A k \in Bandwidth, x \in hasRow' :
        x \notin managed'[k] =>
          limit'[k][x] = weight'[k][x] \/ \A b \in Bandwidth : weight'[b][x] = 0
  <2> TAKE k \in Bandwidth, x \in hasRow'
  <2>1. CASE x = a
    BY <1>1, <1>6, <2>1
  <2>2. CASE x # a
    BY <1>1, <1>2, <1>3, <1>5, <2>2
  <2> QED
    BY <2>1, <2>2
<1>8. \A x \in Accounts :
        x \notin managed'["ram"] =>
          /\ limit'["ram"][x] >= Unlimited
          /\ limit'["ram"][x] = Unlimited \/ limit'["ram"][x] >= weight'["ram"][x]
  <2> TAKE x \in Accounts
  <2>1. CASE x = a
    BY <1>1, <1>5, <1>6, <2>1 DEF Unlimited
  <2>2. CASE x # a
    BY <1>1, <1>2, <1>3, <1>5, <2>2
  <2> QED
    BY <2>1, <2>2
<1> QED
  BY <1>1, <1>2, <1>3, <1>4, <1>5, <1>7, <1>8, RowsThen

LEMMA LimitsSetKeepRows ==
  ASSUME ResourcesOK, NEW a \in Accounts, NEW value \in Nat \cup {Unlimited},
         setalimits(a, [k \in Kinds |-> value])
  PROVE  ResourcesOK'
<1>1. /\ created \subseteq Accounts /\ managed \in [Kinds -> SUBSET created]
      /\ weight \in [Kinds -> [Accounts -> Nat]]
      /\ limit \in [Kinds -> [Accounts -> Int]]
      /\ hasRow \subseteq created
      /\ "ram" \in Kinds /\ "ram" \notin Bandwidth /\ Bandwidth \subseteq Kinds
      /\ Kinds = {"ram"} \cup Bandwidth
      /\ RamGift \in Nat
  BY RowsNow
<1>2. /\ \A b \in Bandwidth, x \in hasRow :
           x \notin managed[b] =>
             limit[b][x] = weight[b][x] \/ \A e \in Bandwidth : weight[e][x] = 0
      /\ \A x \in Accounts :
           x \notin managed["ram"] =>
             /\ limit["ram"][x] >= Unlimited
             /\ limit["ram"][x] = Unlimited \/ limit["ram"][x] >= weight["ram"][x]
      /\ \A b \in Kinds, x \in Accounts \ hasRow : weight[b][x] = 0
  BY LimitsNow
<1>3. /\ a \notin hasRow
      /\ limit' = [k \in Kinds |-> [limit[k] EXCEPT ![a] = value]]
      /\ weight' = weight /\ managed' = managed /\ hasRow' = hasRow /\ created' = created
  <2>1. \A k \in Kinds : [x \in Kinds |-> value][k] = value
    OBVIOUS
  <2>2. limit' = [k \in Kinds |-> [limit[k] EXCEPT ![a] = [x \in Kinds |-> value][k]]]
    BY DEF setalimits
  <2> QED
    BY <2>1, <2>2 DEF setalimits, Rowless
<1>4. AccountsOK'
  BY <1>1, <1>3 DEF AccountsOK
<1>5. value \in Int /\ value >= Unlimited
  BY DEF Unlimited
<1>6. /\ limit' \in [Kinds -> [Accounts -> Int]]
      /\ \A k \in Kinds :
           limit'[k][a] = value /\ \A x \in Accounts \ {a} : limit'[k][x] = limit[k][x]
  BY <1>1, <1>3, <1>5
<1>7. \A b \in Bandwidth, x \in hasRow' :
        x \notin managed'[b] =>
          limit'[b][x] = weight'[b][x] \/ \A e \in Bandwidth : weight'[e][x] = 0
  BY <1>1, <1>2, <1>3, <1>6
<1>8. \A x \in Accounts :
        x \notin managed'["ram"] =>
          /\ limit'["ram"][x] >= Unlimited
          /\ limit'["ram"][x] = Unlimited \/ limit'["ram"][x] >= weight'["ram"][x]
  <2> TAKE x \in Accounts
  <2>1. CASE x = a
    <3>1. weight'["ram"][a] = 0
      BY <1>1, <1>2, <1>3
    <3> QED
      BY <1>1, <1>5, <1>6, <2>1, <3>1 DEF Unlimited
  <2>2. CASE x # a
    BY <1>1, <1>2, <1>3, <1>6, <2>2
  <2> QED
    BY <2>1, <2>2
<1> QED
  BY <1>1, <1>2, <1>3, <1>4, <1>6, <1>7, <1>8, RowsThen

(* An administrator takes one kind under management ... *)
LEMMA ManageKeepsRows ==
  ASSUME ResourcesOK, NEW k \in Kinds, NEW a \in created, NEW value \in Int,
         Manage(k, a, value), UNCHANGED <<created, hasRow, weight>>
  PROVE  ResourcesOK'
<1>1. /\ created \subseteq Accounts /\ managed \in [Kinds -> SUBSET created]
      /\ weight \in [Kinds -> [Accounts -> Nat]]
      /\ limit \in [Kinds -> [Accounts -> Int]]
      /\ hasRow \subseteq created
      /\ "ram" \in Kinds /\ "ram" \notin Bandwidth /\ Bandwidth \subseteq Kinds
      /\ Kinds = {"ram"} \cup Bandwidth
      /\ RamGift \in Nat
  BY RowsNow
<1>2. /\ \A b \in Bandwidth, x \in hasRow :
           x \notin managed[b] =>
             limit[b][x] = weight[b][x] \/ \A e \in Bandwidth : weight[e][x] = 0
      /\ \A x \in Accounts :
           x \notin managed["ram"] =>
             /\ limit["ram"][x] >= Unlimited
             /\ limit["ram"][x] = Unlimited \/ limit["ram"][x] >= weight["ram"][x]
      /\ \A b \in Kinds, x \in Accounts \ hasRow : weight[b][x] = 0
  BY LimitsNow
<1>3. /\ managed' = [managed EXCEPT ![k] = @ \cup {a}]
      /\ limit' = [limit EXCEPT ![k][a] = value]
      /\ weight' = weight /\ hasRow' = hasRow /\ created' = created
  BY DEF Manage
<1>4. AccountsOK'
  BY <1>1, <1>3 DEF AccountsOK
<1>5. /\ limit' \in [Kinds -> [Accounts -> Int]]
      /\ \A b \in Kinds, x \in Accounts : b # k \/ x # a => limit'[b][x] = limit[b][x]
      /\ a \in managed'[k]
      /\ \A b \in Kinds, x \in Accounts : x \notin managed'[b] => x \notin managed[b]
  BY <1>1, <1>3
<1>6. \A b \in Bandwidth, x \in hasRow' :
        x \notin managed'[b] =>
          limit'[b][x] = weight'[b][x] \/ \A e \in Bandwidth : weight'[e][x] = 0
  BY <1>1, <1>2, <1>3, <1>5
<1>7. \A x \in Accounts :
        x \notin managed'["ram"] =>
          /\ limit'["ram"][x] >= Unlimited
          /\ limit'["ram"][x] = Unlimited \/ limit'["ram"][x] >= weight'["ram"][x]
  BY <1>1, <1>2, <1>3, <1>5
<1> QED
  BY <1>1, <1>2, <1>3, <1>4, <1>5, <1>6, <1>7, RowsThen

(* ... and gives it back, with what its weight gives it. *)
LEMMA GiveBackKeepsRows ==
  ASSUME ResourcesOK, NEW k \in Kinds, NEW a \in created,
         GiveBack(k, a, LimitGivenBack(k, a)), UNCHANGED <<created, hasRow, weight>>
  PROVE  ResourcesOK'
<1>1. /\ created \subseteq Accounts /\ managed \in [Kinds -> SUBSET created]
      /\ weight \in [Kinds -> [Accounts -> Nat]]
      /\ limit \in [Kinds -> [Accounts -> Int]]
      /\ hasRow \subseteq created
      /\ "ram" \in Kinds /\ "ram" \notin Bandwidth /\ Bandwidth \subseteq Kinds
      /\ Kinds = {"ram"} \cup Bandwidth
      /\ RamGift \in Nat
  BY RowsNow
<1>2. /\ \A b \in Bandwidth, x \in hasRow :
           x \notin managed[b] =>
             limit[b][x] = weight[b][x] \/ \A e \in Bandwidth : weight[e][x] = 0
      /\ \A x \in Accounts :
           x \notin managed["ram"] =>
             /\ limit["ram"][x] >= Unlimited
             /\ limit["ram"][x] = Unlimited \/ limit["ram"][x] >= weight["ram"][x]
      /\ \A b \in Kinds, x \in Accounts \ hasRow : weight[b][x] = 0
  BY LimitsNow
<1>3. /\ managed' = [managed EXCEPT ![k] = @ \ {a}]
      /\ limit' = [limit EXCEPT ![k][a] = LimitGivenBack(k, a)]
      /\ weight' = weight /\ hasRow' = hasRow /\ created' = created
  BY DEF GiveBack
<1>4. AccountsOK'
  BY <1>1, <1>3 DEF AccountsOK
<1>5. /\ LimitGivenBack(k, a) \in Int
      /\ k = "ram" => LimitGivenBack(k, a) >= weight["ram"][a] /\ LimitGivenBack(k, a) >= 0
      /\ k \in Bandwidth /\ a \in hasRow => LimitGivenBack(k, a) = weight[k][a]
  <2>1. weight[k][a] \in Nat /\ (a \notin hasRow => weight[k][a] = 0)
    BY <1>1, <1>2
  <2> QED
    BY <1>1, <2>1 DEF LimitGivenBack, Owned
<1>6. /\ limit' \in [Kinds -> [Accounts -> Int]]
      /\ \A b \in Kinds, x \in Accounts : b # k \/ x # a => limit'[b][x] = limit[b][x]
      /\ limit'[k][a] = LimitGivenBack(k, a)
      /\ \A b \in Kinds, x \in Accounts :
           (b # k \/ x # a) /\ x \notin managed'[b] => x \notin managed[b]
  BY <1>1, <1>3, <1>5
<1>7. \A b \in Bandwidth, x \in hasRow' :
        x \notin managed'[b] =>
          limit'[b][x] = weight'[b][x] \/ \A e \in Bandwidth : weight'[e][x] = 0
  <2> TAKE b \in Bandwidth, x \in hasRow'
  <2>1. CASE b = k /\ x = a
    BY <1>3, <1>5, <1>6, <2>1
  <2>2. CASE b # k \/ x # a
    BY <1>1, <1>2, <1>3, <1>6, <2>2
  <2> QED
    BY <2>1, <2>2
<1>8. \A x \in Accounts :
        x \notin managed'["ram"] =>
          /\ limit'["ram"][x] >= Unlimited
          /\ limit'["ram"][x] = Unlimited \/ limit'["ram"][x] >= weight'["ram"][x]
  <2> TAKE x \in Accounts
  <2>1. CASE k = "ram" /\ x = a
    BY <1>1, <1>3, <1>5, <1>6, <2>1 DEF Unlimited
  <2>2. CASE k # "ram" \/ x # a
    BY <1>1, <1>2, <1>3, <1>6, <2>2
  <2> QED
    BY <2>1, <2>2
<1> QED
  BY <1>1, <1>2, <1>3, <1>4, <1>6, <1>7, <1>8, RowsThen

LEMMA AdministerKeepsRows ==
  ASSUME ResourcesOK, NEW a \in Accounts, NEW value \in Values, Administer(a, value)
  PROVE  ResourcesOK'
<1>1. /\ Values \subseteq Nat \cup {Unlimited, Absent}
      /\ "ram" \in Kinds /\ "net" \in Kinds /\ "cpu" \in Kinds
  BY PowerupAssumption DEF Kinds, Bandwidth
<1>2. value # Absent => value \in Int /\ value \in Nat \cup {Unlimited}
  BY <1>1 DEF Unlimited
<1>3. CASE setacctnet(a, value)
  <2>1. a \in created /\ UNCHANGED <<created, hasRow, weight>>
    BY <1>3 DEF setacctnet
  <2>2. CASE GiveBack("net", a, LimitGivenBack("net", a))
    BY <1>1, <2>1, <2>2, GiveBackKeepsRows
  <2>3. CASE value # Absent /\ Manage("net", a, value)
    BY <1>1, <1>2, <2>1, <2>3, ManageKeepsRows
  <2> QED
    BY <1>3, <2>2, <2>3 DEF setacctnet
<1>4. CASE setacctcpu(a, value)
  <2>1. a \in created /\ UNCHANGED <<created, hasRow, weight>>
    BY <1>4 DEF setacctcpu
  <2>2. CASE GiveBack("cpu", a, LimitGivenBack("cpu", a))
    BY <1>1, <2>1, <2>2, GiveBackKeepsRows
  <2>3. CASE value # Absent /\ Manage("cpu", a, value)
    BY <1>1, <1>2, <2>1, <2>3, ManageKeepsRows
  <2> QED
    BY <1>4, <2>2, <2>3 DEF setacctcpu
<1>5. CASE setacctram(a, value)
  <2>1. a \in created /\ UNCHANGED <<created, hasRow, weight>>
    BY <1>5 DEF setacctram
  <2>2. CASE GiveBack("ram", a, LimitGivenBack("ram", a))
    BY <1>1, <2>1, <2>2, GiveBackKeepsRows
  <2>3. CASE value # Absent /\ Manage("ram", a, value)
    BY <1>1, <1>2, <2>1, <2>3, ManageKeepsRows
  <2> QED
    BY <1>5, <2>2, <2>3 DEF setacctram
<1>6. CASE value # Absent /\ setalimits(a, [k \in Kinds |-> value])
  BY <1>2, <1>6, LimitsSetKeepRows
<1> QED
  BY <1>3, <1>4, <1>5, <1>6 DEF Administer

-----------------------------------------------------------------------------
(* What goes out of the table of orders and what comes in, in all and for  *)
(* one owner.                                                              *)
LEMMA PartGoes ==
  ASSUME NEW S, IsFiniteSet(S), NEW f \in [S -> Nat], NEW g \in [S -> Nat],
         NEW h \in [S -> Nat], \A i \in S : f[i] = g[i] + h[i]
  PROVE  /\ Total(f) \in Nat /\ Total(g) \in Nat /\ Total(h) \in Nat
         /\ Total(g) = Total(f) - Total(h)
<1>1. f = [i \in S |-> g[i] + h[i]]
  OBVIOUS
<1>2. Total([i \in S |-> g[i] + h[i]]) = Total(g) + Total(h)
  BY TotalSum
<1>3. Total(g) \in Nat /\ Total(h) \in Nat
  BY TotalType
<1>4. Total(f) = Total(g) + Total(h)
  BY <1>1, <1>2
<1> QED
  BY <1>3, <1>4

RentOf(f, o, a) == Total([i \in Slots |-> IF o[i] = a THEN f[i] ELSE 0])
OutOf(f, P) == Total([i \in Slots |-> IF i \in P THEN f[i] ELSE 0])
OutFor(f, o, P, a) == Total([i \in Slots |-> IF i \in P /\ o[i] = a THEN f[i] ELSE 0])

LEMMA OrdersOut ==
  ASSUME NEW f \in [Slots -> Nat], NEW P \in SUBSET Slots
  PROVE  /\ OutOf(f, P) \in Nat /\ Total(f) \in Nat
         /\ Total([i \in Slots |-> IF i \in P THEN 0 ELSE f[i]]) = Total(f) - OutOf(f, P)
         /\ OutOf(f, P) <= Total(f)
<1> DEFINE g == [i \in Slots |-> IF i \in P THEN 0 ELSE f[i]]
           h == [i \in Slots |-> IF i \in P THEN f[i] ELSE 0]
<1>1. g \in [Slots -> Nat] /\ h \in [Slots -> Nat] /\ \A i \in Slots : f[i] = g[i] + h[i]
  OBVIOUS
<1>2. OutOf(f, P) = Total(h)
  BY DEF OutOf
<1>0. IsFiniteSet(Slots)
  BY PowerupAssumption
<1> HIDE DEF g, h
<1>3. /\ Total(f) \in Nat /\ Total(g) \in Nat /\ Total(h) \in Nat
      /\ Total(g) = Total(f) - Total(h)
  BY <1>0, <1>1, PartGoes
<1> QED
  BY <1>2, <1>3 DEF g

LEMMA OrdersOutFor ==
  ASSUME NEW f \in [Slots -> Nat], NEW o \in [Slots -> Accounts \cup {Nobody}],
         NEW P \in SUBSET Slots, NEW a \in Accounts
  PROVE  /\ OutFor(f, o, P, a) \in Nat /\ RentOf(f, o, a) \in Nat
         /\ RentOf([i \in Slots |-> IF i \in P THEN 0 ELSE f[i]],
                   [i \in Slots |-> IF i \in P THEN Nobody ELSE o[i]], a)
              = RentOf(f, o, a) - OutFor(f, o, P, a)
         /\ OutFor(f, o, P, a) <= RentOf(f, o, a)
<1> DEFINE F == [i \in Slots |-> IF o[i] = a THEN f[i] ELSE 0]
           f1 == [i \in Slots |-> IF i \in P THEN 0 ELSE f[i]]
           o1 == [i \in Slots |-> IF i \in P THEN Nobody ELSE o[i]]
           g == [i \in Slots |-> IF o1[i] = a THEN f1[i] ELSE 0]
           h == [i \in Slots |-> IF i \in P /\ o[i] = a THEN f[i] ELSE 0]
<1>1. /\ F \in [Slots -> Nat] /\ g \in [Slots -> Nat] /\ h \in [Slots -> Nat]
      /\ \A i \in Slots : F[i] = g[i] + h[i]
  BY PowerupAssumption
<1>2. RentOf(f, o, a) = Total(F) /\ OutFor(f, o, P, a) = Total(h) /\ RentOf(f1, o1, a) = Total(g)
  BY DEF RentOf, OutFor
<1>0. IsFiniteSet(Slots)
  BY PowerupAssumption
<1> HIDE DEF F, g, h
<1>3. /\ Total(F) \in Nat /\ Total(g) \in Nat /\ Total(h) \in Nat
      /\ Total(g) = Total(F) - Total(h)
  BY <1>0, <1>1, PartGoes
<1> QED
  BY <1>2, <1>3

(* A new order takes a slot whose rent is nothing. *)
OrderAdded(f, o, f1, o1, n, b) ==
  /\ Total(f1) = Total(f) + n
  /\ \A a \in Accounts :
       RentOf(f1, o1, a) = RentOf(f, o, a) + (IF a = b THEN n ELSE 0)

LEMMA OrderIn ==
  ASSUME NEW f \in [Slots -> Nat], NEW o \in [Slots -> Accounts \cup {Nobody}],
         NEW i \in Slots, o[i] = Nobody, f[i] = 0, NEW n \in Nat, NEW b \in Accounts
  PROVE  OrderAdded(f, o, [f EXCEPT ![i] = n], [o EXCEPT ![i] = b], n, b)
<1> DEFINE f1 == [f EXCEPT ![i] = n]
           o1 == [o EXCEPT ![i] = b]
<1>0. IsFiniteSet(Slots)
  BY PowerupAssumption
<1>1. Total(f1) = Total(f) + n
  <2>1. /\ f1 \in [Slots -> Nat] /\ f1[i] = n
        /\ \A j \in Slots \ {i} : f1[j] = f[j]
    OBVIOUS
  <2> HIDE DEF f1
  <2>2. Total(f) \in Nat /\ Total(f1) = Total(f) - f[i] + f1[i]
    BY <1>0, <2>1, TotalChange
  <2> QED
    BY <2>1, <2>2
<1>2. ASSUME NEW a \in Accounts
      PROVE  RentOf(f1, o1, a) = RentOf(f, o, a) + (IF a = b THEN n ELSE 0)
  <2> DEFINE F == [j \in Slots |-> IF o[j] = a THEN f[j] ELSE 0]
             g == [j \in Slots |-> IF o1[j] = a THEN f1[j] ELSE 0]
  <2>1. /\ F \in [Slots -> Nat] /\ g \in [Slots -> Nat]
        /\ \A j \in Slots \ {i} : g[j] = F[j]
        /\ F[i] = 0 /\ g[i] = IF a = b THEN n ELSE 0
    BY PowerupAssumption
  <2>2. RentOf(f, o, a) = Total(F) /\ RentOf(f1, o1, a) = Total(g)
    BY DEF RentOf
  <2> HIDE DEF F, g, f1, o1
  <2>3. Total(F) \in Nat /\ Total(g) = Total(F) - F[i] + g[i]
    BY <1>0, <2>1, TotalChange
  <2> QED
    BY <2>1, <2>2, <2>3
<1> HIDE DEF f1, o1
<1>3. OrderAdded(f, o, f1, o1, n, b)
  BY <1>1, <1>2 DEF OrderAdded
<1> QED
  BY <1>3 DEF f1, o1

LEMMA NoOrders ==
  ASSUME NEW f \in [Slots -> Nat], NEW o, \A i \in Slots : f[i] = 0
  PROVE  Total(f) = 0 /\ \A a \in Accounts : RentOf(f, o, a) = 0
<1>1. Total(f) = 0
  BY TotalZero, PowerupAssumption
<1>2. ASSUME NEW a \in Accounts PROVE RentOf(f, o, a) = 0
  <2> DEFINE F == [i \in Slots |-> IF o[i] = a THEN f[i] ELSE 0]
  <2>1. F \in [Slots -> Nat] /\ \A i \in Slots : F[i] = 0
    OBVIOUS
  <2> HIDE DEF F
  <2>2. Total(F) = 0
    BY <2>1, TotalZero, PowerupAssumption
  <2> QED
    BY <2>2 DEF F, RentOf
<1> QED
  BY <1>1, <1>2

-----------------------------------------------------------------------------
(* The inductive invariant.  The pool is what its curve gave when it was   *)
(* last computed, so that it never shrinks between two changes of the      *)
(* curve, and what is out always fits in it.  An order has an owner that   *)
(* exists, and a free slot holds nothing.                                  *)
RentTypes ==
  /\ configured \in BOOLEAN
  /\ pool \in [Bandwidth -> Nat]
  /\ utilization \in [Bandwidth -> Nat]
  /\ rent \in [Bandwidth -> [Slots -> Nat]]
  /\ owner \in [Slots -> Accounts \cup {Nobody}]
  /\ delegated \in [Bandwidth -> [Accounts -> Nat]]
  /\ updated \in Nat /\ now \in Nat /\ updated <= now
  /\ days \in Nat \ {0}

OrdersOK ==
  \A i \in Slots :
    /\ owner[i] = Nobody => \A k \in Bandwidth : rent[k][i] = 0
    /\ owner[i] # Nobody => owner[i] \in created

PoolsOK ==
  \A k \in Bandwidth :
    /\ CurveOK(curve[k])
    /\ curve[k].from <= updated
    /\ pool[k] = WeightOn(curve[k], updated)
    /\ utilization[k] <= pool[k]

RentInv ==
  /\ ResourcesOK
  /\ RentTypes
  /\ OrdersOK
  /\ PoolsOK
  /\ Reserve \in created
  /\ PoolAgrees

LEMMA PoolAgreesMeans ==
  PoolAgrees <=>
    \A k \in Bandwidth :
      /\ utilization[k] = Total(rent[k])
      /\ \A a \in Accounts :
           weight[k][a] = delegated[k][a] + RentOf(rent[k], owner, a)
                          + (IF a = Reserve THEN pool[k] - utilization[k] ELSE 0)
BY DEF PoolAgrees, RentedBy, RentOf

LEMMA RentInvHolds ==
  ASSUME RentInit
  PROVE  RentInv
<1> USE PowerupAssumption, ResourcesAssumption
<1>1. /\ created = System \cup Existing
      /\ hasRow = Existing \ System
      /\ weight = [k \in Kinds |-> [a \in Accounts |-> 0]]
      /\ managed = [k \in Kinds |-> {}]
      /\ limit = [k \in Kinds |->
                   [a \in Accounts |-> IF a \in System THEN Unlimited ELSE 0]]
  BY DEF RentInit, ResourcesInit
<1>2. /\ "ram" \in Kinds /\ Bandwidth \subseteq Kinds
  BY DEF Kinds
<1>3. Reserve \in created
  BY <1>1
<1>4. ResourcesOK
  <2>1. AccountsOK
    BY <1>1 DEF AccountsOK
  <2>2. RowsTypes(Rows)
    BY <1>1 DEF RowsTypes, Rows, Unlimited
  <2>3. RowsFollow(Rows)
    BY <1>1, <1>2 DEF RowsFollow, Rows
  <2>4. RamLimits(Rows)
    BY <1>1, <1>2 DEF RamLimits, Rows, Unlimited
  <2>5. NoRowNoWeight(Rows)
    BY <1>1 DEF NoRowNoWeight, Rows
  <2> QED
    BY <2>1, <2>2, <2>3, <2>4, <2>5 DEF ResourcesOK, RowsOK
<1>5. /\ pool = [k \in Bandwidth |-> 0]
      /\ utilization = [k \in Bandwidth |-> 0]
      /\ curve = [k \in Bandwidth |->
                   [assumed |-> 0, initial |-> Frac, target |-> DefaultTarget,
                    from |-> 0, until |-> 0]]
      /\ updated = 0 /\ now = 1 /\ days = DefaultDays /\ configured = FALSE
      /\ owner = [i \in Slots |-> Nobody]
      /\ rent = [k \in Bandwidth |-> [i \in Slots |-> 0]]
      /\ delegated = [k \in Bandwidth |-> [a \in Accounts |-> 0]]
  BY DEF RentInit
<1>6. RentTypes
  <2>1. /\ pool \in [Bandwidth -> Nat] /\ utilization \in [Bandwidth -> Nat]
        /\ configured \in BOOLEAN
    BY <1>5
  <2>2. rent \in [Bandwidth -> [Slots -> Nat]] /\ delegated \in [Bandwidth -> [Accounts -> Nat]]
    BY <1>5
  <2>3. owner \in [Slots -> Accounts \cup {Nobody}]
    BY <1>5
  <2>4. /\ updated \in Nat /\ now \in Nat /\ updated <= now
        /\ days \in Nat \ {0}
    BY <1>5
  <2> QED
    BY <2>1, <2>2, <2>3, <2>4 DEF RentTypes
<1>7. OrdersOK
  BY <1>5 DEF OrdersOK
<1>8. PoolsOK
  <2> SUFFICES ASSUME NEW k \in Bandwidth
               PROVE  /\ CurveOK(curve[k]) /\ curve[k].from <= updated
                      /\ pool[k] = WeightOn(curve[k], updated)
                      /\ utilization[k] <= pool[k]
    BY DEF PoolsOK
  <2>1. /\ curve[k].assumed = 0 /\ curve[k].initial = Frac
        /\ curve[k].target = DefaultTarget /\ curve[k].from = 0 /\ curve[k].until = 0
    BY <1>5
  <2>2. CurveOK(curve[k])
    BY <2>1 DEF CurveOK
  <2>3. RatioOn(curve[k], updated) = DefaultTarget
    BY <1>5, <2>1 DEF RatioOn
  <2>4. (0 * Frac) \div DefaultTarget = 0
    <3>1. 0 * Frac = 0 /\ DefaultTarget \in Nat \ {0}
      OBVIOUS
    <3> QED
      BY <3>1
  <2>5. WeightOn(curve[k], updated) = 0
    BY <2>1, <2>3, <2>4 DEF WeightOn
  <2> QED
    BY <1>5, <2>1, <2>2, <2>5
<1>9. PoolAgrees
  <2> SUFFICES ASSUME NEW k \in Bandwidth
               PROVE  /\ utilization[k] = Total(rent[k])
                      /\ \A a \in Accounts :
                           weight[k][a] = delegated[k][a] + RentOf(rent[k], owner, a)
                             + (IF a = Reserve THEN pool[k] - utilization[k] ELSE 0)
    BY PoolAgreesMeans
  <2>1. rent[k] \in [Slots -> Nat] /\ \A i \in Slots : rent[k][i] = 0
    BY <1>5
  <2>2. Total(rent[k]) = 0 /\ \A a \in Accounts : RentOf(rent[k], owner, a) = 0
    BY <2>1, NoOrders
  <2>3. /\ utilization[k] = 0 /\ pool[k] = 0
        /\ \A a \in Accounts : weight[k][a] = 0 /\ delegated[k][a] = 0
    BY <1>1, <1>2, <1>5
  <2> QED
    BY <2>2, <2>3
<1> QED
  BY <1>3, <1>4, <1>6, <1>7, <1>8, <1>9 DEF RentInv

(* An action that leaves bandwidth, pool and orders alone.                 *)
LEMMA RestKept ==
  ASSUME RentInv, ResourcesOK', created \subseteq created',
         \A k \in Bandwidth : weight'[k] = weight[k],
         UNCHANGED <<state, orders, delegated, now>>
  PROVE  RentInv'
<1>1. /\ configured' = configured /\ pool' = pool /\ utilization' = utilization
      /\ curve' = curve /\ updated' = updated /\ days' = days
      /\ owner' = owner /\ rent' = rent /\ delegated' = delegated /\ now' = now
  BY DEF state, orders
<1>2. RentTypes'
  BY <1>1 DEF RentInv, RentTypes
<1>3. OrdersOK'
  BY <1>1 DEF RentInv, OrdersOK
<1>4. PoolsOK'
  BY <1>1 DEF RentInv, PoolsOK, CurveOK, WeightOn, RatioOn
<1>5. Reserve \in created'
  BY DEF RentInv
<1>6. PoolAgrees'
  BY <1>1 DEF RentInv, PoolAgrees, RentedBy, Total, Coins, CoinsOf
<1> QED
  BY <1>2, <1>3, <1>4, <1>5, <1>6 DEF RentInv

LEMMA StakeForKeeps ==
  ASSUME RentInv, NEW a \in Renters, NEW delta \in Deltas, StakeFor(a, delta)
  PROVE  RentInv'
<1>1. /\ a \in Accounts /\ delta \in [Bandwidth -> Int] /\ MaxDelegated \in Nat
  BY PowerupAssumption
<1>2. /\ UpdateTotals(a, delta) /\ ResourcesOK
      /\ delegated' = [k \in Bandwidth |-> [delegated[k] EXCEPT ![a] = @ + delta[k]]]
      /\ \A k \in Bandwidth : delegated[k][a] + delta[k] \in 0 .. MaxDelegated
  BY DEF StakeFor, RentInv
<1>3. /\ configured' = configured /\ pool' = pool /\ utilization' = utilization
      /\ curve' = curve /\ updated' = updated /\ days' = days
      /\ owner' = owner /\ rent' = rent /\ now' = now
  BY DEF state, orders, StakeFor
<1> DEFINE r == adjust_resources(Rows, {a}, ForOne(delta))
<1>4. /\ {a} \in SUBSET created
      /\ ForOne(delta) \in DeltaTables
      /\ Fits(Rows, {a}, ForOne(delta))
      /\ weight' = r.weight
      /\ UNCHANGED <<created, managed>>
  BY <1>1, <1>2, CopiesAgree
<1>5. RowsTypes(Rows) /\ created \subseteq Accounts
  BY <1>2 DEF ResourcesOK, RowsOK, AccountsOK
<1>6. WeightsMoved(Rows, r, {a}, ForOne(delta))
  BY <1>4, <1>5, AdjustedWeights
<1> HIDE DEF r
<1>7. \A k \in Bandwidth, x \in Accounts :
        weight'[k][x] = weight[k][x] + (IF x = a THEN delta[k] ELSE 0)
  BY <1>4, <1>6 DEF WeightsMoved, ForOne, Rows
<1>8. ResourcesOK'
  BY <1>1, <1>2, TotalsKeepRows
<1>9. RentTypes'
  BY <1>1, <1>2, <1>3 DEF RentInv, RentTypes
<1>10. OrdersOK'
  BY <1>3, <1>4 DEF RentInv, OrdersOK
<1>11. PoolsOK'
  BY <1>3 DEF RentInv, PoolsOK, CurveOK, WeightOn, RatioOn
<1>12. Reserve \in created'
  BY <1>4 DEF RentInv
<1>13. PoolAgrees'
  <2>1. \A k \in Bandwidth, x \in Accounts :
          /\ delegated[k][x] \in Nat
          /\ delegated'[k][x] = delegated[k][x] + (IF x = a THEN delta[k] ELSE 0)
    BY <1>1, <1>2 DEF RentInv, RentTypes
  <2>2. \A k \in Bandwidth, x \in Accounts : RentedBy(k, x) \in Nat
    <3> TAKE k \in Bandwidth, x \in Accounts
    <3> DEFINE F == [i \in Slots |-> IF owner[i] = x THEN rent[k][i] ELSE 0]
    <3>1. F \in [Slots -> Nat]
      BY DEF RentInv, RentTypes
    <3>2. RentedBy(k, x) = Total(F)
      BY DEF RentedBy
    <3> HIDE DEF F
    <3> QED
      BY <3>1, <3>2, TotalType, PowerupAssumption
  <2>3. \A k \in Bandwidth, x \in Accounts : RentedBy(k, x)' = RentedBy(k, x)
    BY <1>3 DEF RentedBy
  <2>4. \A k \in Bandwidth : Total(rent[k])' = Total(rent[k])
    BY <1>3 DEF Total, Coins, CoinsOf
  <2>5. \A k \in Bandwidth : pool[k] \in Nat /\ utilization[k] \in Nat
    BY DEF RentInv, RentTypes
  <2> QED
    BY <1>1, <1>3, <1>7, <2>1, <2>2, <2>3, <2>4, <2>5 DEF RentInv, PoolAgrees
<1> QED
  BY <1>8, <1>9, <1>10, <1>11, <1>12, <1>13 DEF RentInv

(* One account's change by adjust_resources, if there is any.              *)
LEMMA OneAdjusted ==
  ASSUME AccountsOK, NEW r, RowsOK(r), NEW a \in Accounts, NEW d \in [Bandwidth -> Int],
         Fits(r, Touched(a, d), ForOne(d)),
         NEW s, s = adjust_resources(r, Touched(a, d), ForOne(d))
  PROVE  /\ RowsOK(s)
         /\ \A k \in Bandwidth, x \in Accounts :
              s.weight[k][x] = r.weight[k][x] + (IF x = a THEN d[k] ELSE 0)
<1>1. Touched(a, d) \in SUBSET created
  BY DEF Fits
<1>2. ForOne(d) \in DeltaTables /\ \A k \in Bandwidth, x \in Accounts : ForOne(d)[k][x] = d[k]
  BY DEF ForOne, DeltaTables
<1>3. RowsOK(s)
  BY <1>1, <1>2, AdjustedRows
<1>4. RowsTypes(r) /\ created \subseteq Accounts
  BY DEF RowsOK, AccountsOK
<1>5. WeightsMoved(r, s, Touched(a, d), ForOne(d))
  BY <1>1, <1>2, <1>4, AdjustedWeights
<1>6. \A k \in Bandwidth, x \in Accounts :
        x \in Touched(a, d) \/ x # a \/ d[k] = 0
  BY DEF Touched
<1>7. \A x \in Touched(a, d) : x = a
  BY DEF Touched
<1> QED
  BY <1>2, <1>3, <1>5, <1>6, <1>7 DEF WeightsMoved

(* The orders of P taken back from the rows of their owners.               *)
LEMMA ReturnAmounts ==
  ASSUME RentInv, NEW P \in SUBSET Slots
  PROVE  /\ FreedOf(P) \in DeltaTables
         /\ \A k \in Bandwidth, a \in Accounts :
              /\ OutFor(rent[k], owner, P, a) \in Nat
              /\ FreedOf(P)[k][a] = -OutFor(rent[k], owner, P, a)
              /\ a \notin Owners(P) => OutFor(rent[k], owner, P, a) = 0
         /\ \A k \in Bandwidth : Freed(P)[k] = OutOf(rent[k], P) /\ Freed(P)[k] \in Nat
         /\ Freed(P) \in [Bandwidth -> Nat]
<1>1. /\ rent \in [Bandwidth -> [Slots -> Nat]]
      /\ owner \in [Slots -> Accounts \cup {Nobody}]
  BY DEF RentInv, RentTypes
<1>2. ASSUME NEW k \in Bandwidth, NEW a \in Accounts
      PROVE  /\ OutFor(rent[k], owner, P, a) \in Nat
             /\ FreedOf(P)[k][a] = -OutFor(rent[k], owner, P, a)
             /\ a \notin Owners(P) => OutFor(rent[k], owner, P, a) = 0
  <2>1. rent[k] \in [Slots -> Nat]
    BY <1>1
  <2>2. OutFor(rent[k], owner, P, a) \in Nat
    BY <1>1, <2>1, OrdersOutFor
  <2>3. FreedOf(P)[k][a] = -OutFor(rent[k], owner, P, a)
    BY DEF FreedOf, OutFor
  <2>4. ASSUME a \notin Owners(P) PROVE OutFor(rent[k], owner, P, a) = 0
    <3> DEFINE F == [i \in Slots |-> IF i \in P /\ owner[i] = a THEN rent[k][i] ELSE 0]
    <3>1. F \in [Slots -> Nat] /\ \A i \in Slots : F[i] = 0
      BY <2>1, <2>4 DEF Owners
    <3> HIDE DEF F
    <3>2. Total(F) = 0
      BY <3>1, TotalZero, PowerupAssumption
    <3> QED
      BY <3>2 DEF F, OutFor
  <2> QED
    BY <2>2, <2>3, <2>4
<1>3. FreedOf(P) \in DeltaTables
  <2>1. \A k \in Bandwidth, a \in Accounts : FreedOf(P)[k][a] \in Int
    BY <1>2
  <2>2. FreedOf(P) = [k \in Bandwidth |-> [a \in Accounts |-> FreedOf(P)[k][a]]]
    BY DEF FreedOf
  <2> QED
    BY <2>1, <2>2 DEF DeltaTables
<1>4. ASSUME NEW k \in Bandwidth
      PROVE  Freed(P)[k] = OutOf(rent[k], P) /\ Freed(P)[k] \in Nat
  <2>1. rent[k] \in [Slots -> Nat]
    BY <1>1
  <2>2. OutOf(rent[k], P) \in Nat
    BY <2>1, OrdersOut
  <2> QED
    BY <2>2 DEF Freed, OutOf
<1>5. Freed(P) \in [Bandwidth -> Nat]
  BY <1>4 DEF Freed
<1> QED
  BY <1>2, <1>3, <1>4, <1>5

LEMMA RowsReturned ==
  ASSUME RentInv, NEW P \in SUBSET Slots, P \subseteq Expired, Returnable(P),
         NEW r, r = RowsAfter(P)
  PROVE  /\ RowsOK(r)
         /\ \A k \in Bandwidth, a \in Accounts :
              r.weight[k][a] = weight[k][a] - OutFor(rent[k], owner, P, a)
<1>1. /\ FreedOf(P) \in DeltaTables
      /\ \A k \in Bandwidth, a \in Accounts :
           /\ OutFor(rent[k], owner, P, a) \in Nat
           /\ FreedOf(P)[k][a] = -OutFor(rent[k], owner, P, a)
           /\ a \notin Owners(P) => OutFor(rent[k], owner, P, a) = 0
  BY ReturnAmounts
<1>2. Owners(P) \in SUBSET created /\ Fits(Rows, Owners(P), FreedOf(P))
  BY DEF Returnable, Fits
<1>3. AccountsOK /\ RowsOK(Rows) /\ RowsTypes(Rows) /\ created \subseteq Accounts
      /\ weight \in [Kinds -> [Accounts -> Nat]] /\ Bandwidth \subseteq Kinds
  BY RowsNow DEF RentInv, ResourcesOK, RowsOK, AccountsOK
<1>4. r = adjust_resources(Rows, Owners(P), FreedOf(P))
  BY DEF RowsAfter
<1>5. RowsOK(r)
  BY <1>1, <1>2, <1>3, <1>4, AdjustedRows
<1>6. WeightsMoved(Rows, r, Owners(P), FreedOf(P))
  BY <1>1, <1>2, <1>3, <1>4, AdjustedWeights
<1>7. \A k \in Bandwidth, a \in Accounts :
        r.weight[k][a] = weight[k][a] + (IF a \in Owners(P) THEN FreedOf(P)[k][a] ELSE 0)
  BY <1>6 DEF WeightsMoved, Rows
<1>8. \A k \in Bandwidth, a \in Accounts :
        r.weight[k][a] = weight[k][a] - OutFor(rent[k], owner, P, a)
  <2> TAKE k \in Bandwidth, a \in Accounts
  <2>1. weight[k][a] \in Nat
    BY <1>3
  <2> QED
    BY <1>1, <1>7, <2>1
<1> QED
  BY <1>5, <1>8

(* The pool as it is by now. *)
LEMMA PoolGrows ==
  ASSUME RentInv, NEW k \in Bandwidth
  PROVE  /\ PoolNow[k] = WeightOn(curve[k], now)
         /\ PoolNow[k] \in Nat
         /\ pool[k] \in Nat /\ pool[k] <= PoolNow[k]
         /\ RatioNow[k] \in 1 .. Frac
<1>1. /\ CurveOK(curve[k]) /\ curve[k].from <= updated
      /\ pool[k] = WeightOn(curve[k], updated)
      /\ updated \in Nat /\ now \in Nat /\ updated <= now
      /\ pool \in [Bandwidth -> Nat]
  BY DEF RentInv, PoolsOK, RentTypes
<1>2. curve[k].from <= now
  BY <1>1 DEF CurveOK
<1>3. PoolNow[k] = WeightOn(curve[k], now) /\ RatioNow[k] = RatioOn(curve[k], now)
  BY OnNow DEF PoolNow, RatioNow
<1>4. WeightOn(curve[k], now) \in Nat /\ RatioOn(curve[k], now) \in 1 .. Frac
  BY <1>1, <1>2, WeightType, RatioType
<1>5. WeightOn(curve[k], updated) <= WeightOn(curve[k], now)
  BY <1>1, WeightGrows
<1> QED
  BY <1>1, <1>3, <1>4, <1>5

(* The last change of each handler, for the reserve.                       *)
LEMMA ReserveSet ==
  ASSUME AccountsOK, NEW r, RowsOK(r), NEW d \in [Bandwidth -> Int], SetReserve(r, d)
  PROVE  /\ ResourcesOK'
         /\ UNCHANGED <<created, managed>>
         /\ \A k \in Bandwidth, x \in Accounts :
              weight'[k][x] = r.weight[k][x] + (IF x = Reserve THEN d[k] ELSE 0)
<1> DEFINE s == adjust_resources(r, Touched(Reserve, d), ForOne(d))
<1>1. /\ Fits(r, Touched(Reserve, d), ForOne(d))
      /\ weight' = s.weight /\ limit' = s.limit /\ hasRow' = s.hasRow
      /\ UNCHANGED <<created, managed>>
  BY DEF SetReserve, SetRows
<1>2. Reserve \in Accounts
  BY PowerupAssumption
<1>3. /\ RowsOK(s)
      /\ \A k \in Bandwidth, x \in Accounts :
           s.weight[k][x] = r.weight[k][x] + (IF x = Reserve THEN d[k] ELSE 0)
  BY <1>1, <1>2, OneAdjusted
<1> HIDE DEF s
<1>4. ResourcesOK'
  BY <1>1, <1>3, RowsSet
<1> QED
  BY <1>1, <1>3, <1>4

(* The parts of the invariant that do not speak of single rows, after the  *)
(* pool was brought up to date.                                            *)
LEMMA PoolsThen ==
  ASSUME RentInv, pool' = PoolNow, updated' = now, now' = now, curve' = curve,
         \A k \in Bandwidth : utilization'[k] <= PoolNow[k]
  PROVE  PoolsOK'
<1> SUFFICES ASSUME NEW k \in Bandwidth
             PROVE  /\ CurveOK(curve'[k]) /\ curve'[k].from <= updated'
                    /\ pool'[k] = WeightOn(curve'[k], updated')
                    /\ utilization'[k] <= pool'[k]
  BY DEF PoolsOK, CurveOK, WeightOn, RatioOn
<1>1. CurveOK(curve[k]) /\ curve[k].from <= updated /\ updated \in Nat /\ now \in Nat /\ updated <= now
  BY DEF RentInv, PoolsOK, RentTypes
<1>2. curve[k].from <= now
  BY <1>1 DEF CurveOK
<1> QED
  BY <1>1, <1>2, PoolGrows

LEMMA ExecKeeps ==
  ASSUME RentInv, NEW max \in Maxima, powerupexec(max)
  PROVE  RentInv'
<1>1. PICK P \in SUBSET Slots :
        /\ FirstOf(P, max)
        /\ Process(P)
        /\ utilization' = UtilizationAfter(P)
        /\ owner' = [i \in Slots |-> IF i \in P THEN Nobody ELSE owner[i]]
        /\ rent' = [k \in Bandwidth |-> [i \in Slots |-> IF i \in P THEN 0 ELSE rent[k][i]]]
        /\ SetReserve(RowsAfter(P), Available(P))
  BY DEF powerupexec
<1>2. /\ configured' = configured /\ curve' = curve /\ days' = days
      /\ delegated' = delegated /\ now' = now
  BY DEF powerupexec
<1>3. /\ P \subseteq Expired /\ Returnable(P) /\ pool' = PoolNow /\ updated' = now
  BY <1>1 DEF FirstOf, Process
<1>4. /\ rent \in [Bandwidth -> [Slots -> Nat]]
      /\ owner \in [Slots -> Accounts \cup {Nobody}]
      /\ utilization \in [Bandwidth -> Nat]
      /\ AccountsOK /\ Reserve \in created
  BY DEF RentInv, RentTypes, ResourcesOK
<1>5. \A k \in Bandwidth :
        /\ PoolNow[k] \in Nat /\ pool[k] \in Nat /\ pool[k] <= PoolNow[k]
  BY PoolGrows
<1>6. \A k \in Bandwidth : Freed(P)[k] = OutOf(rent[k], P) /\ Freed(P)[k] \in Nat
  BY ReturnAmounts
<1>7. /\ Available(P) \in [Bandwidth -> Int]
      /\ \A k \in Bandwidth : Available(P)[k] = Freed(P)[k] + (PoolNow[k] - pool[k])
  <2>1. \A k \in Bandwidth : Freed(P)[k] + (PoolNow[k] - pool[k]) \in Int
    BY <1>5, <1>6
  <2> QED
    BY <2>1 DEF Available
<1> DEFINE r == RowsAfter(P)
<1>8. /\ RowsOK(r)
      /\ \A k \in Bandwidth, a \in Accounts :
           r.weight[k][a] = weight[k][a] - OutFor(rent[k], owner, P, a)
  BY <1>3, RowsReturned
<1>9. SetReserve(r, Available(P))
  BY <1>1
<1> HIDE DEF r
<1>10. /\ ResourcesOK'
       /\ UNCHANGED <<created, managed>>
       /\ \A k \in Bandwidth, x \in Accounts :
            weight'[k][x] = r.weight[k][x] + (IF x = Reserve THEN Available(P)[k] ELSE 0)
  BY <1>4, <1>7, <1>8, <1>9, ReserveSet
<1>11. \A k \in Bandwidth :
         /\ utilization'[k] = utilization[k] - Freed(P)[k]
         /\ utilization[k] = Total(rent[k])
         /\ Total(rent'[k]) = utilization'[k]
         /\ utilization'[k] \in Nat
         /\ utilization'[k] <= PoolNow[k]
  <2> TAKE k \in Bandwidth
  <2>1. rent[k] \in [Slots -> Nat]
        /\ rent'[k] = [i \in Slots |-> IF i \in P THEN 0 ELSE rent[k][i]]
    BY <1>1, <1>4
  <2>2. /\ OutOf(rent[k], P) \in Nat /\ Total(rent[k]) \in Nat
        /\ Total(rent'[k]) = Total(rent[k]) - OutOf(rent[k], P)
        /\ OutOf(rent[k], P) <= Total(rent[k])
    BY <2>1, OrdersOut
  <2>3. utilization'[k] = utilization[k] - Freed(P)[k]
    BY <1>1 DEF UtilizationAfter
  <2>4. utilization[k] = Total(rent[k]) /\ utilization[k] <= pool[k]
    BY PoolAgreesMeans DEF RentInv, PoolsOK
  <2> QED
    BY <1>5, <1>6, <2>2, <2>3, <2>4
<1>12. RentTypes'
  <2>1. rent' \in [Bandwidth -> [Slots -> Nat]]
    BY <1>1, <1>4
  <2>2. owner' \in [Slots -> Accounts \cup {Nobody}]
    BY <1>1, <1>4
  <2>3. pool' \in [Bandwidth -> Nat]
    BY <1>3, <1>5 DEF PoolNow
  <2>4. utilization' \in [Bandwidth -> Nat]
    BY <1>1, <1>11 DEF UtilizationAfter
  <2> QED
    BY <1>2, <1>3, <2>1, <2>2, <2>3, <2>4 DEF RentInv, RentTypes
<1>13. OrdersOK'
  BY <1>1, <1>4, <1>10 DEF RentInv, OrdersOK
<1>14. PoolsOK'
  BY <1>2, <1>3, <1>11, PoolsThen
<1>15. PoolAgrees'
  <2>1. \A k \in Bandwidth, a \in Accounts :
          weight'[k][a] = delegated'[k][a] + RentOf(rent'[k], owner', a)
                            + (IF a = Reserve THEN pool'[k] - utilization'[k] ELSE 0)
    <3> TAKE k \in Bandwidth, a \in Accounts
    <3>1. rent[k] \in [Slots -> Nat]
          /\ rent'[k] = [i \in Slots |-> IF i \in P THEN 0 ELSE rent[k][i]]
      BY <1>1, <1>4
    <3>2. /\ OutFor(rent[k], owner, P, a) \in Nat /\ RentOf(rent[k], owner, a) \in Nat
          /\ RentOf(rent'[k], owner', a)
               = RentOf(rent[k], owner, a) - OutFor(rent[k], owner, P, a)
      BY <1>1, <1>4, <3>1, OrdersOutFor
    <3>3. weight[k][a] = delegated[k][a] + RentOf(rent[k], owner, a)
                          + (IF a = Reserve THEN pool[k] - utilization[k] ELSE 0)
      BY PoolAgreesMeans DEF RentInv
    <3>4. delegated[k][a] \in Nat /\ utilization[k] \in Nat
      BY DEF RentInv, RentTypes
    <3> QED
      BY <1>2, <1>3, <1>5, <1>6, <1>7, <1>8, <1>10, <1>11, <3>2, <3>3, <3>4
  <2> QED
    BY <1>11, <2>1 DEF PoolAgrees, RentedBy, RentOf
<1>16. Reserve \in created'
  BY <1>4, <1>10
<1> QED
  BY <1>10, <1>12, <1>13, <1>14, <1>15, <1>16 DEF RentInv

(* A rental is of a part of the pool, and of some of it: who pays for      *)
(* nothing pays nothing, which is less than the smallest fee.              *)
LEMMA AmountType ==
  ASSUME RentInv, NEW frac \in [Bandwidth -> Int], \A k \in Bandwidth : frac[k] \in 0 .. Frac
  PROVE  /\ Amount(frac) \in [Bandwidth -> Nat]
         /\ \A k \in Bandwidth : frac[k] = 0 => Amount(frac)[k] = 0
<1>1. ASSUME NEW k \in Bandwidth
      PROVE  (frac[k] * PoolNow[k]) \div Frac \in Nat
             /\ (frac[k] = 0 => (frac[k] * PoolNow[k]) \div Frac = 0)
  <2>1. frac[k] \in Nat /\ PoolNow[k] \in Nat /\ Frac \in Nat \ {0}
    BY PoolGrows, PowerupAssumption
  <2> DEFINE n == frac[k] * PoolNow[k]
  <2>2. n \in Nat /\ (frac[k] = 0 => n = 0)
    BY <2>1
  <2> HIDE DEF n
  <2>3. n \div Frac \in Nat /\ (n = 0 => n \div Frac = 0)
    BY <2>1, <2>2, QuotientRoundsDown
  <2> QED
    BY <2>2, <2>3 DEF n
<1> QED
  BY <1>1 DEF Amount

LEMMA FeeForSome ==
  ASSUME NEW frac, NEW P, NEW a, NEW k \in Bandwidth, Amount(frac)[k] = 0
  PROVE  Fee(frac, P, a, k) = 0
BY DEF Fee, calc_powerup_fee

LEMMA SomethingRented ==
  ASSUME RentInv, NEW frac \in [Bandwidth -> Int], \A k \in Bandwidth : frac[k] \in 0 .. Frac,
         NEW P, NEW a,
         \A k \in Bandwidth : frac[k] # 0 => Fee(frac, P, a, k) > 0,
         TotalFee(frac, P, a) >= MinFee
  PROVE  \E k \in Bandwidth : Amount(frac)[k] # 0
<1>1. ~ (frac["net"] = 0 /\ frac["cpu"] = 0)
  <2> SUFFICES ASSUME frac["net"] = 0, frac["cpu"] = 0 PROVE FALSE
    OBVIOUS
  <2>1. TotalFee(frac, P, a) = 0 + 0
    BY DEF TotalFee
  <2> QED
    BY <2>1, PowerupAssumption
<1>2. PICK k \in Bandwidth : frac[k] # 0
  BY <1>1 DEF Bandwidth
<1>3. Fee(frac, P, a, k) > 0
  BY <1>2
<1>4. Amount(frac)[k] # 0
  <2> SUFFICES ASSUME Amount(frac)[k] = 0 PROVE FALSE
    OBVIOUS
  <2>1. Fee(frac, P, a, k) = 0
    BY FeeForSome
  <2> QED
    BY <1>3, <2>1
<1> QED
  BY <1>4

LEMMA PowerupKeeps ==
  ASSUME RentInv, NEW payer \in Payers, NEW receiver \in Renters, NEW frac \in Fracs,
         powerup(payer, receiver, frac)
  PROVE  RentInv'
<1> DEFINE amount == Amount(frac)
           to == Touched(receiver, amount)
           more == ForOne(amount)
<1>0. /\ receiver \in Accounts /\ frac \in [Bandwidth -> Int]
      /\ \A k \in Bandwidth : frac[k] \in 0 .. Frac
      /\ Nobody \notin Accounts
  BY PowerupAssumption DEF powerup
<1>1. PICK P \in SUBSET Slots, i \in Slots, a \in Decayed :
        /\ FirstOf(P, Batch)
        /\ owner[i] = Nobody
        /\ Process(P)
        /\ \A k \in Bandwidth : frac[k] # 0 => InPool(frac, P, k) /\ Fee(frac, P, a, k) > 0
        /\ TotalFee(frac, P, a) >= MinFee
        /\ utilization' = [k \in Bandwidth |-> UtilizationAfter(P)[k] + amount[k]]
        /\ owner' = [j \in Slots |-> IF j = i THEN receiver
                                     ELSE IF j \in P THEN Nobody ELSE owner[j]]
        /\ rent' = [k \in Bandwidth |-> [j \in Slots |->
                      IF j = i THEN amount[k] ELSE IF j \in P THEN 0 ELSE rent[k][j]]]
        /\ Fits(RowsAfter(P), to, more)
        /\ SetReserve(adjust_resources(RowsAfter(P), to, more),
                      [k \in Bandwidth |-> Available(P)[k] - amount[k]])
  BY DEF powerup
<1>2. /\ configured' = configured /\ curve' = curve /\ days' = days
      /\ delegated' = delegated /\ now' = now
  BY DEF powerup
<1>3. /\ P \subseteq Expired /\ Returnable(P) /\ pool' = PoolNow /\ updated' = now
  BY <1>1 DEF FirstOf, Process
<1>4. /\ rent \in [Bandwidth -> [Slots -> Nat]]
      /\ owner \in [Slots -> Accounts \cup {Nobody}]
      /\ utilization \in [Bandwidth -> Nat]
      /\ AccountsOK /\ Reserve \in created
  BY DEF RentInv, RentTypes, ResourcesOK
<1>5. \A k \in Bandwidth :
        /\ PoolNow[k] \in Nat /\ pool[k] \in Nat /\ pool[k] <= PoolNow[k]
  BY PoolGrows
<1>6. \A k \in Bandwidth : Freed(P)[k] = OutOf(rent[k], P) /\ Freed(P)[k] \in Nat
  BY ReturnAmounts
<1>7. /\ amount \in [Bandwidth -> Nat]
      /\ \A k \in Bandwidth : frac[k] = 0 => amount[k] = 0
  BY <1>0, AmountType
<1>8. \E k \in Bandwidth : amount[k] # 0
  BY <1>0, <1>1, SomethingRented
<1> HIDE DEF amount
<1>9. receiver \in created
  BY <1>1, <1>8 DEF Touched, Fits
<1> DEFINE due == [k \in Bandwidth |-> Available(P)[k] - amount[k]]
           r == RowsAfter(P)
           s == adjust_resources(r, to, more)
<1>10. /\ due \in [Bandwidth -> Int]
       /\ \A k \in Bandwidth : due[k] = Freed(P)[k] + (PoolNow[k] - pool[k]) - amount[k]
  <2>1. \A k \in Bandwidth : Available(P)[k] = Freed(P)[k] + (PoolNow[k] - pool[k])
    BY DEF Available
  <2>2. \A k \in Bandwidth : amount[k] \in Nat
    BY <1>7
  <2> QED
    BY <1>5, <1>6, <2>1, <2>2
<1>11. /\ RowsOK(r)
       /\ \A k \in Bandwidth, x \in Accounts :
            r.weight[k][x] = weight[k][x] - OutFor(rent[k], owner, P, x)
  BY <1>3, RowsReturned
<1>12. Fits(r, Touched(receiver, amount), ForOne(amount)) /\ SetReserve(s, due)
  BY <1>1
<1> HIDE DEF r
<1>13. /\ RowsOK(s)
       /\ \A k \in Bandwidth, x \in Accounts :
            s.weight[k][x] = r.weight[k][x] + (IF x = receiver THEN amount[k] ELSE 0)
  <2>1. amount \in [Bandwidth -> Int]
    BY <1>7
  <2> QED
    BY <1>0, <1>4, <1>11, <1>12, <2>1, OneAdjusted
<1> HIDE DEF s, due
<1>14. /\ ResourcesOK'
       /\ UNCHANGED <<created, managed>>
       /\ \A k \in Bandwidth, x \in Accounts :
            weight'[k][x] = s.weight[k][x] + (IF x = Reserve THEN due[k] ELSE 0)
  BY <1>4, <1>10, <1>12, <1>13, ReserveSet
<1> DEFINE o1 == [j \in Slots |-> IF j \in P THEN Nobody ELSE owner[j]]
           R1(k) == [j \in Slots |-> IF j \in P THEN 0 ELSE rent[k][j]]
<1>15. /\ i \notin P
       /\ o1 \in [Slots -> Accounts \cup {Nobody}] /\ o1[i] = Nobody
       /\ owner' = [o1 EXCEPT ![i] = receiver]
  BY <1>1, <1>3, <1>4 DEF Expired
<1>16. \A k \in Bandwidth :
         /\ R1(k) \in [Slots -> Nat] /\ R1(k)[i] = 0
         /\ rent'[k] = [R1(k) EXCEPT ![i] = amount[k]]
  <2> TAKE k \in Bandwidth
  <2>1. rent[k] \in [Slots -> Nat] /\ rent[k][i] = 0
    BY <1>1, <1>4 DEF RentInv, OrdersOK
  <2>2. rent'[k] = [j \in Slots |-> IF j = i THEN amount[k] ELSE IF j \in P THEN 0 ELSE rent[k][j]]
    BY <1>1
  <2> QED
    BY <1>15, <2>1, <2>2
<1>17. \A k \in Bandwidth :
         /\ Total(R1(k)) = Total(rent[k]) - OutOf(rent[k], P)
         /\ Total(rent[k]) \in Nat /\ OutOf(rent[k], P) \in Nat
         /\ OutOf(rent[k], P) <= Total(rent[k])
  <2> TAKE k \in Bandwidth
  <2>1. rent[k] \in [Slots -> Nat]
    BY <1>4
  <2> QED
    BY <2>1, OrdersOut
<1>18. \A k \in Bandwidth, x \in Accounts :
         /\ OutFor(rent[k], owner, P, x) \in Nat /\ RentOf(rent[k], owner, x) \in Nat
         /\ RentOf(R1(k), o1, x) = RentOf(rent[k], owner, x) - OutFor(rent[k], owner, P, x)
  <2> TAKE k \in Bandwidth, x \in Accounts
  <2>1. rent[k] \in [Slots -> Nat]
    BY <1>4
  <2> QED
    BY <1>4, <2>1, OrdersOutFor
<1> HIDE DEF o1, R1
<1>19. \A k \in Bandwidth :
         /\ Total(rent'[k]) = Total(R1(k)) + amount[k]
         /\ \A x \in Accounts :
              RentOf(rent'[k], owner', x)
                = RentOf(R1(k), o1, x) + (IF x = receiver THEN amount[k] ELSE 0)
  <2> TAKE k \in Bandwidth
  <2>1. amount[k] \in Nat
    BY <1>7
  <2>2. /\ R1(k) \in [Slots -> Nat] /\ R1(k)[i] = 0
        /\ rent'[k] = [R1(k) EXCEPT ![i] = amount[k]]
    BY <1>16
  <2>3. OrderAdded(R1(k), o1, [R1(k) EXCEPT ![i] = amount[k]], [o1 EXCEPT ![i] = receiver],
                   amount[k], receiver)
    BY <1>0, <1>15, <2>1, <2>2, OrderIn
  <2>4. OrderAdded(R1(k), o1, rent'[k], owner', amount[k], receiver)
    BY <1>15, <2>2, <2>3
  <2> QED
    BY <2>4 DEF OrderAdded
<1>20. \A k \in Bandwidth :
         /\ utilization'[k] = utilization[k] - Freed(P)[k] + amount[k]
         /\ utilization[k] = Total(rent[k])
         /\ Total(rent'[k]) = utilization'[k]
         /\ utilization'[k] \in Nat
         /\ utilization'[k] <= PoolNow[k]
  <2> TAKE k \in Bandwidth
  <2>1. UtilizationAfter(P)[k] = utilization[k] - Freed(P)[k]
    BY DEF UtilizationAfter
  <2>2. utilization'[k] = utilization[k] - Freed(P)[k] + amount[k]
    BY <1>1, <2>1
  <2>3. utilization[k] = Total(rent[k]) /\ utilization[k] <= pool[k]
    BY PoolAgreesMeans DEF RentInv, PoolsOK
  <2>4. amount[k] \in Nat
    BY <1>7
  <2>5. frac[k] # 0 => utilization[k] - Freed(P)[k] + amount[k] <= PoolNow[k]
    BY <1>1, <2>1 DEF InPool, amount
  <2> QED
    BY <1>5, <1>6, <1>7, <1>17, <1>19, <2>2, <2>3, <2>4, <2>5
<1>21. RentTypes'
  <2>1. rent' \in [Bandwidth -> [Slots -> Nat]]
    <3>1. \A k \in Bandwidth : rent'[k] \in [Slots -> Nat]
      <4> TAKE k \in Bandwidth
      <4>1. amount[k] \in Nat
        BY <1>7
      <4>2. R1(k) \in [Slots -> Nat] /\ rent'[k] = [R1(k) EXCEPT ![i] = amount[k]]
        BY <1>16
      <4> QED
        BY <4>1, <4>2
    <3> QED
      BY <1>1, <3>1
  <2>2. owner' \in [Slots -> Accounts \cup {Nobody}]
    BY <1>0, <1>15
  <2>3. pool' \in [Bandwidth -> Nat]
    BY <1>3, <1>5 DEF PoolNow
  <2>4. utilization' \in [Bandwidth -> Nat]
    BY <1>1, <1>20
  <2> QED
    BY <1>2, <1>3, <2>1, <2>2, <2>3, <2>4 DEF RentInv, RentTypes
<1>22. OrdersOK'
  <2>1. \A j \in Slots :
          /\ owner'[j] = Nobody => j # i /\ (j \in P \/ owner[j] = Nobody)
          /\ owner'[j] # Nobody =>
               (j = i /\ owner'[j] = receiver) \/ owner'[j] = owner[j]
    BY <1>0, <1>1
  <2>2. \A k \in Bandwidth, j \in Slots \ {i} :
          rent'[k][j] = IF j \in P THEN 0 ELSE rent[k][j]
    BY <1>1
  <2> QED
    BY <1>9, <1>14, <2>1, <2>2 DEF RentInv, OrdersOK
<1>23. PoolsOK'
  BY <1>2, <1>3, <1>20, PoolsThen
<1>24. PoolAgrees'
  <2>1. \A k \in Bandwidth, x \in Accounts :
          weight'[k][x] = delegated'[k][x] + RentOf(rent'[k], owner', x)
                            + (IF x = Reserve THEN pool'[k] - utilization'[k] ELSE 0)
    <3> TAKE k \in Bandwidth, x \in Accounts
    <3>1. weight[k][x] = delegated[k][x] + RentOf(rent[k], owner, x)
                          + (IF x = Reserve THEN pool[k] - utilization[k] ELSE 0)
      BY PoolAgreesMeans DEF RentInv
    <3>2. delegated[k][x] \in Nat /\ utilization[k] \in Nat /\ amount[k] \in Nat
      BY <1>7 DEF RentInv, RentTypes
    <3>3. weight'[k][x] = weight[k][x] - OutFor(rent[k], owner, P, x)
                            + (IF x = receiver THEN amount[k] ELSE 0)
                            + (IF x = Reserve THEN due[k] ELSE 0)
      BY <1>11, <1>13, <1>14
    <3>4. RentOf(rent'[k], owner', x)
            = RentOf(rent[k], owner, x) - OutFor(rent[k], owner, P, x)
              + (IF x = receiver THEN amount[k] ELSE 0)
      BY <1>18, <1>19
    <3>5. /\ due[k] = Freed(P)[k] + (PoolNow[k] - pool[k]) - amount[k]
          /\ pool'[k] = PoolNow[k]
          /\ utilization'[k] = utilization[k] - Freed(P)[k] + amount[k]
          /\ delegated'[k][x] = delegated[k][x]
      BY <1>2, <1>3, <1>10, <1>20
    <3> QED
      BY <1>5, <1>6, <1>18, <3>1, <3>2, <3>3, <3>4, <3>5
  <2> QED
    BY <1>20, <2>1 DEF PoolAgrees, RentedBy, RentOf
<1>25. Reserve \in created'
  BY <1>4, <1>14
<1> QED
  BY <1>14, <1>21, <1>22, <1>23, <1>24, <1>25 DEF RentInv

(* A new curve starts now, from a ratio and to a target that are ratios.   *)
LEMMA CurveSet ==
  ASSUME RentInv, NEW args \in Curves, NEW k \in Bandwidth,
         NEW c, c = Configured(args[k], k), ValidCurve(c)
  PROVE  CurveOK(c) /\ c.from = now
<1>1. /\ CurveOK(curve[k]) /\ now \in Nat /\ curve[k].from <= updated
      /\ updated \in Nat /\ updated <= now
  BY DEF RentInv, PoolsOK, RentTypes
<1>2. args[k] \in [{"current", "target", "assumed", "until"} -> Int \cup {Absent}]
  BY PowerupAssumption
<1> DEFINE arg == args[k]
           ic == arg.current
           tg == arg.target
           as == arg.assumed
           un == arg.until
<1>3. /\ ic \in Int \cup {Absent} /\ tg \in Int \cup {Absent}
      /\ as \in Int \cup {Absent} /\ un \in Int \cup {Absent}
  BY <1>2
<1>4. RatioInForce(k) \in Int
  <2>1. RatioNow[k] \in 1 .. Frac
    BY PoolGrows
  <2>2. curve[k].initial \in 1 .. Frac /\ Frac \in Nat
    BY <1>1, PowerupAssumption DEF CurveOK
  <2> QED
    BY <2>1, <2>2 DEF RatioInForce
<1> DEFINE current == Given(ic, RatioInForce(k))
           target == Given(tg, curve[k].target)
<1>5. /\ c.initial = current /\ c.target = target /\ c.from = now
      /\ c.assumed = Given(as, curve[k].assumed)
      /\ c.until = IF current = target THEN now ELSE Given(un, curve[k].until)
  BY DEF Configured
<1> HIDE DEF arg, ic, tg, as, un
<1>6. current \in Int /\ target \in Int
  BY <1>1, <1>3, <1>4, PowerupAssumption DEF Given, CurveOK
<1>7. /\ Given(as, curve[k].assumed) \in Int
      /\ Given(un, curve[k].until) \in Int
  <2>1. curve[k].assumed \in Int /\ curve[k].until \in Int
    BY <1>1 DEF CurveOK
  <2>2. \A x, y : x \in Int \cup {Absent} /\ y \in Int => Given(x, y) \in Int
    BY DEF Given
  <2> QED
    BY <1>3, <2>1, <2>2
<1> HIDE DEF current, target
<1>8. /\ c.initial = c.target \/ c.until > now
      /\ 0 < c.target /\ c.target <= c.initial /\ c.initial <= Frac
      /\ c.assumed >= 1
  BY DEF ValidCurve
<1>9. c.until \in Nat
  BY <1>1, <1>5, <1>6, <1>7, <1>8
<1>10. /\ c.assumed \in Nat /\ c.initial \in 1 .. Frac /\ c.target \in 1 .. Frac
  <2>1. c.assumed \in Int /\ c.initial \in Int /\ c.target \in Int
    BY <1>5, <1>6, <1>7
  <2>2. Frac \in Int
    BY PowerupAssumption
  <2> HIDE DEF CurveOK
  <2> QED
    BY <1>8, <2>1, <2>2
<1> QED
  BY <1>1, <1>5, <1>8, <1>9, <1>10 DEF CurveOK

LEMMA CfgKeeps ==
  ASSUME RentInv, NEW args \in Curves, NEW d \in Periods, cfgpowerup(args, d)
  PROVE  RentInv'
<1> DEFINE c == [k \in Bandwidth |-> Configured(args[k], k)]
           w == [k \in Bandwidth |-> WeightAt(c[k])]
           due == [k \in Bandwidth |-> w[k] - pool[k]]
<1>1. /\ \A k \in Bandwidth : ValidCurve(c[k]) /\ w[k] >= utilization[k]
      /\ curve' = c
      /\ pool' = w
      /\ SetReserve(Rows, due)
  BY DEF cfgpowerup
<1>2. /\ configured' = TRUE /\ days' = Given(d, days) /\ Given(d, days) > 0
      /\ updated' = now /\ now' = now /\ utilization' = utilization
      /\ owner' = owner /\ rent' = rent /\ delegated' = delegated
  BY DEF cfgpowerup, orders
<1>3. /\ AccountsOK /\ RowsOK(Rows) /\ Reserve \in created
      /\ weight \in [Kinds -> [Accounts -> Nat]] /\ Bandwidth \subseteq Kinds
  BY RowsNow DEF RentInv, ResourcesOK
<1>4. \A k \in Bandwidth : CurveOK(c[k]) /\ c[k].from = now
  <2> TAKE k \in Bandwidth
  <2>1. c[k] = Configured(args[k], k) /\ ValidCurve(c[k])
    BY <1>1
  <2> HIDE DEF c
  <2> QED
    BY <2>1, CurveSet
<1>5. \A k \in Bandwidth :
        /\ w[k] = WeightOn(c[k], now) /\ w[k] \in Nat
        /\ pool[k] \in Nat /\ utilization[k] \in Nat
  <2> TAKE k \in Bandwidth
  <2>1. w[k] = WeightOn(c[k], now)
    BY OnNow
  <2>2. CurveOK(c[k]) /\ c[k].from = now /\ now \in Nat
    BY <1>4 DEF RentInv, RentTypes
  <2> HIDE DEF c, w
  <2>3. WeightOn(c[k], now) \in Nat
    BY <2>2, WeightType
  <2> QED
    BY <2>1, <2>3 DEF RentInv, RentTypes
<1>6. w \in [Bandwidth -> Nat] /\ due \in [Bandwidth -> Int]
      /\ \A k \in Bandwidth : due[k] = w[k] - pool[k]
  BY <1>5
<1> HIDE DEF c, w, due
<1>7. /\ ResourcesOK'
      /\ UNCHANGED <<created, managed>>
      /\ \A k \in Bandwidth, x \in Accounts :
           weight'[k][x] = Rows.weight[k][x] + (IF x = Reserve THEN due[k] ELSE 0)
  BY <1>1, <1>3, <1>6, ReserveSet
<1>8. Rows.weight = weight
  BY DEF Rows
<1>9. RentTypes'
  <2>1. Given(d, days) \in Nat \ {0}
    <3>1. d \in Int \cup {Absent} /\ days \in Nat \ {0}
      BY PowerupAssumption DEF RentInv, RentTypes
    <3> QED
      BY <1>2, <3>1 DEF Given
  <2> QED
    BY <1>1, <1>2, <1>6, <2>1 DEF RentInv, RentTypes
<1>10. OrdersOK'
  BY <1>2, <1>7 DEF RentInv, OrdersOK
<1>11. PoolsOK'
  <2> SUFFICES ASSUME NEW k \in Bandwidth
               PROVE  /\ CurveOK(curve'[k]) /\ curve'[k].from <= updated'
                      /\ pool'[k] = WeightOn(curve'[k], updated')
                      /\ utilization'[k] <= pool'[k]
    BY DEF PoolsOK, CurveOK, WeightOn, RatioOn
  <2>1. now \in Nat
    BY DEF RentInv, RentTypes
  <2> QED
    BY <1>1, <1>2, <1>4, <1>5, <2>1
<1>12. PoolAgrees'
  <2>1. \A k \in Bandwidth :
          /\ utilization[k] = Total(rent[k])
          /\ \A x \in Accounts :
               /\ weight[k][x] = delegated[k][x] + RentOf(rent[k], owner, x)
                                 + (IF x = Reserve THEN pool[k] - utilization[k] ELSE 0)
               /\ delegated[k][x] \in Nat
               /\ RentOf(rent[k], owner, x) \in Nat
    <3>1. \A k \in Bandwidth, x \in Accounts : RentOf(rent[k], owner, x) \in Nat
      <4> TAKE k \in Bandwidth, x \in Accounts
      <4>1. rent[k] \in [Slots -> Nat] /\ owner \in [Slots -> Accounts \cup {Nobody}]
            /\ {} \in SUBSET Slots
        BY DEF RentInv, RentTypes
      <4> QED
        BY <4>1, OrdersOutFor
    <3>2. \A k \in Bandwidth, x \in Accounts : delegated[k][x] \in Nat
      BY DEF RentInv, RentTypes
    <3> QED
      BY <3>1, <3>2, PoolAgreesMeans DEF RentInv
  <2>2. \A k \in Bandwidth, x \in Accounts :
          weight'[k][x] = delegated'[k][x] + RentOf(rent'[k], owner', x)
                            + (IF x = Reserve THEN pool'[k] - utilization'[k] ELSE 0)
    <3> TAKE k \in Bandwidth, x \in Accounts
    <3>1. weight'[k][x] = weight[k][x] + (IF x = Reserve THEN w[k] - pool[k] ELSE 0)
      BY <1>6, <1>7, <1>8
    <3> QED
      BY <1>1, <1>2, <1>5, <2>1, <3>1
  <2>3. \A k \in Bandwidth : utilization'[k] = Total(rent'[k])
    BY <1>2, <2>1
  <2> QED
    BY <2>2, <2>3 DEF PoolAgrees, RentedBy, RentOf
<1>13. Reserve \in created'
  BY <1>3, <1>7
<1> QED
  BY <1>7, <1>9, <1>10, <1>11, <1>12, <1>13 DEF RentInv

LEMMA TradeRamKeeps ==
  ASSUME RentInv, NEW a \in RamOwners, TradeRam(a)
  PROVE  RentInv'
<1>1. a \in Accounts /\ ResourcesOK /\ MaxRam \in Nat
  BY PowerupAssumption DEF RentInv
<1>2. PICK bytes \in {-1, 1} : weight["ram"][a] + bytes \in 0 .. MaxRam /\ UpdateRam(a, bytes)
  BY DEF TradeRam
<1>3. bytes \in Int /\ weight["ram"][a] + bytes \in Nat
  BY <1>1, <1>2
<1>4. ResourcesOK'
  BY <1>1, <1>2, <1>3, RamKeepsRows
<1>5. created' = created /\ \A k \in Bandwidth : weight'[k] = weight[k]
  BY <1>1, <1>2, RowsNow DEF UpdateRam
<1>6. UNCHANGED <<state, orders, delegated, now>>
  BY DEF TradeRam
<1> QED
  BY <1>4, <1>5, <1>6, RestKept

LEMMA AdministerKeeps ==
  ASSUME RentInv, NEW a \in Managed \cup RamOwners, NEW value \in Values, Administer(a, value)
  PROVE  RentInv'
<1>1. a \in Accounts /\ ResourcesOK
  BY PowerupAssumption DEF RentInv
<1>2. ResourcesOK'
  BY <1>1, AdministerKeepsRows
<1>3. created' = created /\ weight' = weight
  BY DEF Administer, setacctnet, setacctcpu, setacctram, setalimits
<1>4. UNCHANGED <<state, orders, delegated, now>>
  BY DEF Administer
<1> QED
  BY <1>2, <1>3, <1>4, RestKept

LEMMA CreateKeeps ==
  ASSUME RentInv, NEW a \in Accounts, Create(a)
  PROVE  RentInv'
<1>1. newaccount(a) /\ ResourcesOK
  BY DEF Create, RentInv
<1>2. ResourcesOK'
  BY <1>1, NewAccountKeepsRows
<1>3. created' = created \cup {a} /\ weight' = weight
  BY <1>1 DEF newaccount
<1>4. UNCHANGED <<state, orders, delegated, now>>
  BY DEF Create
<1> QED
  BY <1>2, <1>3, <1>4, RestKept

LEMMA RentTickKeeps ==
  ASSUME RentInv, RentTick
  PROVE  RentInv'
<1>1. /\ now' = now + 1 /\ UNCHANGED <<resources, state, orders, delegated>>
  BY DEF RentTick
<1>2. /\ configured' = configured /\ pool' = pool /\ utilization' = utilization
      /\ curve' = curve /\ updated' = updated /\ days' = days
      /\ owner' = owner /\ rent' = rent /\ delegated' = delegated
      /\ created' = created /\ hasRow' = hasRow /\ weight' = weight
      /\ managed' = managed /\ limit' = limit
  BY <1>1 DEF state, orders, resources
<1>3. ResourcesOK'
  <2>1. /\ Rows.weight = weight /\ Rows.limit = limit /\ Rows.hasRow = hasRow
    BY DEF Rows
  <2>2. AccountsOK /\ RowsOK(Rows)
    BY DEF RentInv, ResourcesOK
  <2> QED
    BY <1>2, <2>1, <2>2, RowsSet
<1>4. RentTypes'
  BY <1>1, <1>2 DEF RentInv, RentTypes
<1>5. OrdersOK'
  BY <1>2 DEF RentInv, OrdersOK
<1>6. PoolsOK'
  BY <1>2 DEF RentInv, PoolsOK, CurveOK, WeightOn, RatioOn
<1>7. PoolAgrees'
  BY <1>2 DEF RentInv, PoolAgrees, RentedBy, Total, Coins, CoinsOf
<1> QED
  BY <1>2, <1>3, <1>4, <1>5, <1>6, <1>7 DEF RentInv

LEMMA RentStutter ==
  ASSUME RentInv, UNCHANGED rentVars
  PROVE  RentInv'
<1>1. UNCHANGED <<state, orders, delegated, now>> /\ UNCHANGED resources
  BY DEF rentVars
<1>2. /\ created' = created /\ hasRow' = hasRow /\ weight' = weight
      /\ managed' = managed /\ limit' = limit
  BY <1>1 DEF resources
<1>3. /\ Rows.weight = weight /\ Rows.limit = limit /\ Rows.hasRow = hasRow
  BY DEF Rows
<1>4. AccountsOK /\ RowsOK(Rows)
  BY DEF RentInv, ResourcesOK
<1>5. ResourcesOK'
  BY <1>2, <1>3, <1>4, RowsSet
<1> QED
  BY <1>1, <1>2, <1>5, RestKept

LEMMA RentStepKeeps ==
  ASSUME RentInv, [RentNext]_rentVars
  PROVE  RentInv'
<1>1. ASSUME NEW args \in Curves, NEW d \in Periods, cfgpowerup(args, d)
      PROVE  RentInv'
  BY <1>1, CfgKeeps
<1>2. ASSUME NEW payer \in Payers, NEW receiver \in Renters, NEW frac \in Fracs,
             powerup(payer, receiver, frac)
      PROVE  RentInv'
  BY <1>2, PowerupKeeps
<1>3. ASSUME NEW max \in Maxima, powerupexec(max)
      PROVE  RentInv'
  BY <1>3, ExecKeeps
<1>4. ASSUME NEW a \in Renters, NEW delta \in Deltas, StakeFor(a, delta)
      PROVE  RentInv'
  BY <1>4, StakeForKeeps
<1>5. ASSUME NEW a \in RamOwners, TradeRam(a)
      PROVE  RentInv'
  BY <1>5, TradeRamKeeps
<1>6. ASSUME NEW a \in Managed \cup RamOwners, NEW value \in Values, Administer(a, value)
      PROVE  RentInv'
  BY <1>6, AdministerKeeps
<1>7. ASSUME NEW a \in Accounts, Create(a)
      PROVE  RentInv'
  BY <1>7, CreateKeeps
<1>8. CASE RentTick
  BY <1>8, RentTickKeeps
<1>9. CASE UNCHANGED rentVars
  BY <1>9, RentStutter
<1> QED
  BY <1>1, <1>2, <1>3, <1>4, <1>5, <1>6, <1>7, <1>8, <1>9 DEF RentNext

(* The inductive invariant of rentals and of the table of rows that they   *)
(* share with stakes, RAM trades and administrators.                       *)
THEOREM RentInvariant == RentSpec => []RentInv
<1>1. RentInit => RentInv
  BY RentInvHolds
<1>2. RentInv /\ [RentNext]_rentVars => RentInv'
  BY RentStepKeeps
<1> QED
  BY <1>1, <1>2, PTL DEF RentSpec

(* Pool, orders and rows agree, whatever rentals, returns, new curves,     *)
(* stakes and administrators come in between (powerup.cpp:22-106).         *)
THEOREM PoolsAlwaysAgree == RentSpec => []PoolAgrees
<1>1. RentInv => PoolAgrees
  BY DEF RentInv
<1> QED
  BY <1>1, RentInvariant, PTL

LEMMA ReturnIsPossible ==
  ASSUME RentInv
  PROVE  ExpiredCanReturn
<1> SUFFICES ASSUME NEW P \in SUBSET Slots, FirstOf(P, Cardinality(P))
             PROVE  /\ Returnable(P)
                    /\ Fits(RowsAfter(P), Touched(Reserve, Available(P)), ForOne(Available(P)))
  BY DEF ExpiredCanReturn
<1>1. P \subseteq Expired
  BY DEF FirstOf
<1>2. /\ rent \in [Bandwidth -> [Slots -> Nat]]
      /\ owner \in [Slots -> Accounts \cup {Nobody}]
      /\ Reserve \in created /\ created \subseteq Accounts
      /\ Rows.weight = weight
      /\ \A k \in Bandwidth : pool[k] \in Nat /\ utilization[k] \in Nat
                              /\ utilization[k] <= pool[k]
      /\ \A k \in Bandwidth, a \in Accounts : delegated[k][a] \in Nat
  BY DEF RentInv, RentTypes, PoolsOK, ResourcesOK, AccountsOK, Rows
<1>3. /\ \A k \in Bandwidth, a \in Accounts :
           /\ OutFor(rent[k], owner, P, a) \in Nat
           /\ FreedOf(P)[k][a] = -OutFor(rent[k], owner, P, a)
      /\ \A k \in Bandwidth : Freed(P)[k] \in Nat
  BY ReturnAmounts
<1>4. \A k \in Bandwidth, a \in Accounts :
        /\ RentOf(rent[k], owner, a) \in Nat
        /\ OutFor(rent[k], owner, P, a) <= RentOf(rent[k], owner, a)
  <2> TAKE k \in Bandwidth, a \in Accounts
  <2>1. rent[k] \in [Slots -> Nat]
    BY <1>2
  <2> QED
    BY <1>2, <2>1, OrdersOutFor
<1>5. \A k \in Bandwidth, a \in Accounts :
        weight[k][a] = delegated[k][a] + RentOf(rent[k], owner, a)
                       + (IF a = Reserve THEN pool[k] - utilization[k] ELSE 0)
  BY PoolAgreesMeans DEF RentInv
<1>6. \A a \in Owners(P) : a \in created
  BY <1>1 DEF Owners, Expired, RentInv, OrdersOK
<1>7. Returnable(P)
  <2>1. \A k \in Bandwidth, a \in Owners(P) : weight[k][a] + FreedOf(P)[k][a] >= 0
    <3> TAKE k \in Bandwidth, a \in Owners(P)
    <3>1. a \in Accounts
      BY <1>2, <1>6
    <3> QED
      BY <1>2, <1>3, <1>4, <1>5, <3>1
  <2> QED
    BY <1>2, <1>6, <2>1 DEF Returnable, Fits
<1> DEFINE r == RowsAfter(P)
<1>8. \A k \in Bandwidth, a \in Accounts :
        r.weight[k][a] = weight[k][a] - OutFor(rent[k], owner, P, a)
  BY <1>1, <1>7, RowsReturned
<1>9. \A k \in Bandwidth :
        /\ Available(P)[k] = Freed(P)[k] + (PoolNow[k] - pool[k])
        /\ PoolNow[k] \in Nat /\ pool[k] <= PoolNow[k]
  BY PoolGrows DEF Available
<1> HIDE DEF r
<1>10. \A k \in Bandwidth : r.weight[k][Reserve] + Available(P)[k] >= 0
  <2> TAKE k \in Bandwidth
  <2>1. Reserve \in Accounts
    BY <1>2
  <2> QED
    BY <1>2, <1>3, <1>4, <1>5, <1>8, <1>9, <2>1
<1>11. \A a \in Touched(Reserve, Available(P)) :
         a = Reserve /\ \A k \in Bandwidth : ForOne(Available(P))[k][a] = Available(P)[k]
  BY <1>2 DEF Touched, ForOne
<1>12. Fits(r, Touched(Reserve, Available(P)), ForOne(Available(P)))
  BY <1>2, <1>10, <1>11 DEF Fits
<1> QED
  BY <1>7, <1>12 DEF r

(* Whatever happened since they were made, expired rentals can be taken    *)
(* back and given to the reserve (powerup.cpp:73-92).                      *)
THEOREM RentalsReturn == RentSpec => []ExpiredCanReturn
<1>1. RentInv => ExpiredCanReturn
  BY ReturnIsPossible
<1> QED
  BY <1>1, RentInvariant, PTL

LEMMA RentInvLimits ==
  ASSUME RentInv
  PROVE  LimitsFollowWeights /\ OwnedRamUsable
BY LimitsOfRows DEF RentInv, ResourcesOK

(* The limits of an account follow its weights for each kind that is not   *)
(* managed, with every way of changing either in any order.                *)
THEOREM LimitsAlwaysFollow == RentSpec => []LimitsFollowWeights
<1>1. RentInv => LimitsFollowWeights
  BY RentInvLimits
<1> QED
  BY <1>1, RentInvariant, PTL

(* RAM that was paid for stays usable and is never forgotten with a row.   *)
THEOREM RamAlwaysUsable == RentSpec => []OwnedRamUsable
<1>1. RentInv => OwnedRamUsable
  BY RentInvLimits
<1> QED
  BY <1>1, RentInvariant, PTL

(* What adjust_resources leaves alone. *)
LEMMA AdjustLeavesManaged ==
  ASSUME AccountsOK, NEW r, NEW A, NEW d, NEW k \in Kinds, NEW x \in managed[k]
  PROVE  adjust_resources(r, A, d).limit[k][x] = r.limit[k][x]
<1>1. x \in Accounts
  BY DEF AccountsOK
<1>2. adjust_resources(r, A, d).limit
        = AdjustedLimits(r, A, adjust_resources(r, A, d).weight)
  BY DEF adjust_resources
<1> QED
  BY <1>1, <1>2 DEF AdjustedLimits

LEMMA ReserveLeavesManaged ==
  ASSUME AccountsOK, NEW r, NEW d, SetReserve(r, d), NEW k \in Kinds, NEW x \in managed[k]
  PROVE  limit'[k][x] = r.limit[k][x]
<1>1. limit' = adjust_resources(r, Touched(Reserve, d), ForOne(d)).limit
  BY DEF SetReserve, SetRows
<1> QED
  BY <1>1, AdjustLeavesManaged

LEMMA StepLeavesManaged ==
  ASSUME RentInv, [RentNext]_rentVars, weight' # weight,
         NEW k \in Kinds, NEW x \in managed[k]
  PROVE  limit'[k][x] = limit[k][x]
<1>1. /\ ResourcesOK /\ AccountsOK /\ Rows.limit = limit
      /\ limit \in [Kinds -> [Accounts -> Int]]
  BY RowsNow DEF RentInv, ResourcesOK, Rows
<1>2. ASSUME NEW args \in Curves, NEW d \in Periods, cfgpowerup(args, d)
      PROVE  limit'[k][x] = limit[k][x]
  <2>1. PICK due : SetReserve(Rows, due)
    BY <1>2 DEF cfgpowerup
  <2> QED
    BY <1>1, <2>1, ReserveLeavesManaged
<1>3. ASSUME NEW payer \in Payers, NEW receiver \in Renters, NEW frac \in Fracs,
             powerup(payer, receiver, frac)
      PROVE  limit'[k][x] = limit[k][x]
  <2>0. PICK P \in SUBSET Slots :
          \E to, more, due : SetReserve(adjust_resources(RowsAfter(P), to, more), due)
    BY <1>3 DEF powerup
  <2>1. PICK to, more, due :
          SetReserve(adjust_resources(RowsAfter(P), to, more), due)
    BY <2>0
  <2> DEFINE r == RowsAfter(P)
             s == adjust_resources(r, to, more)
  <2>2. r.limit[k][x] = limit[k][x]
    <3>1. Rows.limit[k][x] = limit[k][x]
      BY <1>1
    <3> QED
      BY <1>1, <3>1, AdjustLeavesManaged DEF RowsAfter
  <2> HIDE DEF r
  <2>3. s.limit[k][x] = r.limit[k][x]
    BY <1>1, AdjustLeavesManaged
  <2>4. SetReserve(s, due)
    BY <2>1 DEF r
  <2> HIDE DEF s
  <2>5. limit'[k][x] = s.limit[k][x]
    BY <1>1, <2>4, ReserveLeavesManaged
  <2> QED
    BY <2>2, <2>3, <2>5
<1>4. ASSUME NEW max \in Maxima, powerupexec(max)
      PROVE  limit'[k][x] = limit[k][x]
  <2>0. PICK P \in SUBSET Slots : \E due : SetReserve(RowsAfter(P), due)
    BY <1>4 DEF powerupexec
  <2>1. PICK due : SetReserve(RowsAfter(P), due)
    BY <2>0
  <2>2. RowsAfter(P).limit[k][x] = limit[k][x]
    <3>1. Rows.limit[k][x] = limit[k][x]
      BY <1>1
    <3> QED
      BY <1>1, <3>1, AdjustLeavesManaged DEF RowsAfter
  <2>3. limit'[k][x] = RowsAfter(P).limit[k][x]
    BY <1>1, <2>1, ReserveLeavesManaged
  <2> QED
    BY <2>2, <2>3
<1>5. ASSUME NEW a \in Renters, NEW delta \in Deltas, StakeFor(a, delta)
      PROVE  limit'[k][x] = limit[k][x]
  <2>1. limit' = BandwidthLimits(a, weight')
    BY <1>5 DEF StakeFor, UpdateTotals
  <2> DEFINE w == weight'
  <2>2. limit' = BandwidthLimits(a, w)
    BY <2>1
  <2> HIDE DEF w
  <2> QED
    BY <1>1, <2>2 DEF BandwidthLimits
<1>6. ASSUME NEW a \in RamOwners, TradeRam(a)
      PROVE  limit'[k][x] = limit[k][x]
  <2>1. limit' = IF a \in managed["ram"] THEN limit
                 ELSE [limit EXCEPT !["ram"][a] = weight'["ram"][a] + RamGift]
    BY <1>6 DEF TradeRam, UpdateRam
  <2> QED
    BY <1>1, <2>1
<1>7. ASSUME NEW a \in Managed \cup RamOwners, NEW value \in Values, Administer(a, value)
      PROVE  FALSE
  BY <1>7 DEF Administer, setacctnet, setacctcpu, setacctram, setalimits
<1>8. ASSUME NEW a \in Accounts, Create(a)
      PROVE  FALSE
  BY <1>8 DEF Create, newaccount
<1>9. CASE RentTick
  BY <1>9 DEF RentTick, resources
<1>10. CASE UNCHANGED rentVars
  BY <1>10 DEF rentVars, resources
<1> QED
  BY <1>2, <1>3, <1>4, <1>5, <1>6, <1>7, <1>8, <1>9, <1>10 DEF RentNext

(* What an administrator has set is not touched by any change of weights.  *)
THEOREM ManagedStays == RentSpec => ManagedUntouched
<1>1. RentInv /\ [RentNext]_rentVars =>
        [weight' # weight =>
           \A k \in Kinds : \A a \in managed[k] : limit'[k][a] = limit[k][a]]_resources
  BY StepLeavesManaged
<1> QED
  BY <1>1, RentInvariant, PTL DEF RentSpec, ManagedUntouched

-----------------------------------------------------------------------------
(* The price of a rental: powers of natural numbers are natural numbers,   *)
(* and positive when their base is.                                        *)
IsPowers(p, b, n) == p = [i \in 0 .. n |-> IF i = 0 THEN 1 ELSE b * p[i - 1]]

LEMMA PowersExist ==
  ASSUME NEW b, NEW n \in Nat
  PROVE  \E p : IsPowers(p, b, n)
<1> DEFINE Missing == {k \in Nat : ~ \E p : IsPowers(p, b, k)}
<1>1. SUFFICES ASSUME Missing # {} PROVE FALSE
  OBVIOUS
<1>2. PICK m \in Missing : \A k \in Missing : m <= k
  <2> HIDE DEF Missing
  <2>1. Missing \subseteq Nat
    BY DEF Missing
  <2> QED
    BY <1>1, <2>1, HasLowest
<1>3. m # 0
  <2>1. SUFFICES ASSUME m = 0 PROVE FALSE
    OBVIOUS
  <2> DEFINE p == [i \in 0 .. 0 |-> 1]
  <2>2. \A i \in 0 .. 0 : i = 0
    OBVIOUS
  <2>3. IsPowers(p, b, 0)
    BY <2>2 DEF IsPowers
  <2> HIDE DEF p
  <2> QED
    BY <2>1, <2>3
<1>4. m - 1 \in Nat /\ m - 1 \notin Missing
  BY <1>2, <1>3
<1>5. PICK p : IsPowers(p, b, m - 1)
  BY <1>4
<1> DEFINE q == [i \in 0 .. m |-> IF i = m THEN b * p[m - 1] ELSE p[i]]
<1>6. \A i \in 0 .. m : q[i] = IF i = 0 THEN 1 ELSE b * q[i - 1]
  <2> TAKE i \in 0 .. m
  <2>1. m \in Nat /\ m # 0
    BY <1>2, <1>3
  <2>2. CASE i = 0
    <3>1. 0 \in 0 .. m - 1 /\ 0 # m /\ 0 \in 0 .. m
      BY <2>1
    <3>2. p[0] = 1
      BY <1>5, <3>1 DEF IsPowers
    <3> QED
      BY <2>2, <3>1, <3>2
  <2>3. CASE i = m
    <3>1. m - 1 \in 0 .. m /\ m - 1 # m
      BY <2>1
    <3> QED
      BY <2>1, <2>3, <3>1
  <2>4. CASE i # 0 /\ i # m
    <3>1. i \in 0 .. m - 1 /\ i - 1 \in 0 .. m /\ i - 1 # m
      BY <2>1, <2>4
    <3>2. p[i] = b * p[i - 1]
      BY <1>5, <2>4, <3>1 DEF IsPowers
    <3> QED
      BY <2>4, <3>1, <3>2
  <2> QED
    BY <2>2, <2>3, <2>4
<1>7. q = [i \in 0 .. m |-> q[i]]
  OBVIOUS
<1> HIDE DEF q
<1>8. IsPowers(q, b, m)
  BY <1>6, <1>7 DEF IsPowers
<1> QED
  BY <1>2, <1>8

LEMMA PowersType ==
  ASSUME NEW b \in Nat, NEW n \in Nat, NEW p, IsPowers(p, b, n)
  PROVE  \A i \in 0 .. n : p[i] \in Nat /\ (b > 0 => p[i] > 0)
<1> DEFINE Right(i) == p[i] \in Nat /\ (b > 0 => p[i] > 0)
           Wrong == {i \in 0 .. n : ~ Right(i)}
<1>1. SUFFICES ASSUME Wrong # {} PROVE FALSE
  OBVIOUS
<1>2. PICK m \in Wrong : \A i \in Wrong : m <= i
  <2> HIDE DEF Wrong
  <2>1. Wrong \subseteq Nat
    BY DEF Wrong
  <2> QED
    BY <1>1, <2>1, HasLowest
<1>3. m \in 0 .. n /\ p[m] = IF m = 0 THEN 1 ELSE b * p[m - 1]
  BY DEF IsPowers
<1>4. m # 0
  BY <1>3
<1>5. m - 1 \in 0 .. n /\ m - 1 \notin Wrong
  BY <1>2, <1>3, <1>4
<1>6. p[m - 1] \in Nat /\ (b > 0 => p[m - 1] > 0)
  BY <1>5
<1> DEFINE x == p[m - 1]
<1>7. b * x \in Nat /\ (b > 0 => b * x > 0)
  <2>1. x \in Nat /\ (b > 0 => x > 0)
    BY <1>6
  <2> HIDE DEF x
  <2> QED
    BY <2>1
<1>8. Right(m)
  BY <1>3, <1>4, <1>7
<1> QED
  BY <1>2, <1>8

LEMMA PowerType ==
  ASSUME NEW b \in Nat, NEW n \in Nat
  PROVE  Power(b, n) \in Nat /\ (b > 0 => Power(b, n) > 0)
<1> DEFINE p == CHOOSE q : q = [i \in 0 .. n |-> IF i = 0 THEN 1 ELSE b * q[i - 1]]
<1>1. \E q : IsPowers(q, b, n)
  BY PowersExist
<1>2. IsPowers(p, b, n)
  BY <1>1 DEF IsPowers
<1>3. Power(b, n) = p[n]
  BY DEF Power
<1> HIDE DEF p
<1> QED
  BY <1>2, <1>3, PowersType

(* A price that is paid in two parts is rounded up twice.                  *)
LEMMA TwiceRoundedUp ==
  ASSUME NEW m \in Int, NEW n \in Int, NEW d \in Nat \ {0}
  PROVE  /\ Ceiling(m, d) \in Int
         /\ Ceiling(m + n, d) <= Ceiling(m, d) + Ceiling(n, d)
BY DEF Ceiling

(* The terms of the price are whole numbers, and add up: those at one      *)
(* price with the weight, those along the curve from place to place.       *)
LEMMA TermsAdd ==
  ASSUME NEW w \in Nat \ {0}, NEW adj \in Nat
  PROVE  /\ Exponent * Power(w, Exponent) \in Nat \ {0}
         /\ \A m, n \in Nat :
              /\ Flat(w, adj, m) \in Int
              /\ Flat(w, adj, m + n) = Flat(w, adj, m) + Flat(w, adj, n)
         /\ \A a, b, c \in Nat :
              /\ Along(w, a, b) \in Int
              /\ Along(w, a, a) = 0
              /\ Along(w, a, c) = Along(w, a, b) + Along(w, b, c)
<1>1. /\ Exponent \in Nat \ {0} /\ Exponent - 1 \in Nat
      /\ MinPrice \in Int /\ MaxPrice \in Int
  <2>1. Exponent \in Nat \ {0} /\ MinPrice \in Nat /\ MaxPrice \in Nat \ {0}
    BY PowerupAssumption, Zenon
  <2> QED
    BY ONLY <2>1
<1>2. /\ Power(w, Exponent) \in Nat \ {0}
      /\ Power(w, Exponent - 1) \in Int /\ Power(adj, Exponent - 1) \in Int
  <2>1. Power(w, Exponent) \in Nat /\ (w > 0 => Power(w, Exponent) > 0)
    BY <1>1, PowerType
  <2>2. Power(w, Exponent - 1) \in Nat /\ Power(adj, Exponent - 1) \in Nat
    BY <1>1, PowerType
  <2> QED
    BY <2>1, <2>2
<1>3. \A a \in Nat : Power(a, Exponent) \in Int
  BY <1>1, PowerType
<1>4. Exponent * Power(w, Exponent) \in Nat \ {0}
  <2> DEFINE d == Power(w, Exponent)
  <2>1. d \in Nat \ {0}
    BY <1>2
  <2> HIDE DEF d
  <2>2. Exponent * d \in Nat \ {0}
    BY <1>1, <2>1
  <2> QED
    BY <2>2 DEF d
<1>5. ASSUME NEW m \in Nat, NEW n \in Nat
      PROVE  /\ Flat(w, adj, m) \in Int
             /\ Flat(w, adj, m + n) = Flat(w, adj, m) + Flat(w, adj, n)
  <2> DEFINE u == Power(w, Exponent - 1)
             v == Power(adj, Exponent - 1)
             x == MinPrice * u + (MaxPrice - MinPrice) * v
  <2>1. u \in Int /\ v \in Int
    BY <1>2
  <2>2. x \in Int
    <3> HIDE DEF u, v
    <3> QED
      BY <1>1, <2>1
  <2>3. /\ Flat(w, adj, m) = Exponent * m * x
        /\ Flat(w, adj, n) = Exponent * n * x
        /\ Flat(w, adj, m + n) = Exponent * (m + n) * x
    BY DEF Flat
  <2> HIDE DEF x
  <2>4. /\ Exponent * m * x \in Int
        /\ Exponent * (m + n) * x = Exponent * m * x + Exponent * n * x
    BY <1>1, <2>2
  <2> QED
    BY <2>3, <2>4
<1>6. ASSUME NEW a \in Nat, NEW b \in Nat, NEW c \in Nat
      PROVE  /\ Along(w, a, b) \in Int
             /\ Along(w, a, a) = 0
             /\ Along(w, a, c) = Along(w, a, b) + Along(w, b, c)
  <2> DEFINE u == Power(w, Exponent - 1)
             r == MaxPrice - MinPrice
             s == Exponent * MinPrice
             pa == Power(a, Exponent)
             pb == Power(b, Exponent)
             pc == Power(c, Exponent)
  <2>1. /\ u \in Int /\ r \in Int /\ s \in Int
        /\ pa \in Int /\ pb \in Int /\ pc \in Int
    BY <1>1, <1>2, <1>3
  <2>2. /\ Along(w, a, b) = s * (b - a) * u + r * (pb - pa)
        /\ Along(w, b, c) = s * (c - b) * u + r * (pc - pb)
        /\ Along(w, a, c) = s * (c - a) * u + r * (pc - pa)
        /\ Along(w, a, a) = s * (a - a) * u + r * (pa - pa)
    BY DEF Along
  <2> HIDE DEF u, r, s, pa, pb, pc
  <2>3. s * (b - a) * u \in Int /\ r * (pb - pa) \in Int
    BY <2>1
  <2>4. s * (a - a) * u = 0 /\ r * (pa - pa) = 0
    BY <2>1
  <2>5. s * (c - a) * u = s * (b - a) * u + s * (c - b) * u
    BY <2>1
  <2>6. r * (pc - pa) = r * (pb - pa) + r * (pc - pb)
    BY <2>1
  <2>7. s * (c - b) * u \in Int /\ r * (pc - pb) \in Int
    BY <2>1
  <2> QED
    BY <2>2, <2>3, <2>4, <2>5, <2>6, <2>7
<1> QED
  BY <1>4, <1>5, <1>6

(* The dividend of the price, for a rental of n from utilization u on.     *)
PartFlat(w, u, adj, n) ==
  IF u < adj THEN Flat(w, adj, Smaller(n, adj - u)) ELSE 0
PartCurved(w, u, adj, n) ==
  IF Larger(u, adj) < u + n THEN Along(w, Larger(u, adj), u + n) ELSE 0
Dividend(w, u, adj, n) == PartFlat(w, u, adj, n) + PartCurved(w, u, adj, n)

LEMMA FeeIs ==
  ASSUME NEW w, NEW u, NEW adj, NEW n \in Nat \ {0}
  PROVE  calc_powerup_fee(w, u, adj, n)
           = Ceiling(Dividend(w, u, adj, n), Exponent * Power(w, Exponent))
BY DEF calc_powerup_fee, Dividend, PartFlat, PartCurved

LEMMA DividendType ==
  ASSUME NEW w \in Nat \ {0}, NEW u \in Nat, NEW adj \in Nat, NEW n \in Nat
  PROVE  Dividend(w, u, adj, n) \in Int
<1>1. PartFlat(w, u, adj, n) \in Int
  <2>1. CASE u < adj
    <3>1. Smaller(n, adj - u) \in Nat
      BY <2>1 DEF Smaller
    <3>2. \A m \in Nat : Flat(w, adj, m) \in Int
      BY TermsAdd
    <3> QED
      BY <2>1, <3>1, <3>2 DEF PartFlat
  <2>2. CASE ~ (u < adj)
    BY <2>2 DEF PartFlat
  <2> QED
    BY <2>1, <2>2
<1>2. PartCurved(w, u, adj, n) \in Int
  <2>1. Larger(u, adj) \in Nat /\ u + n \in Nat
    BY DEF Larger
  <2>2. \A a, b \in Nat : Along(w, a, b) \in Int
    BY TermsAdd
  <2> QED
    BY <2>1, <2>2 DEF PartCurved
<1> QED
  BY <1>1, <1>2 DEF Dividend

LEMMA FeeType ==
  ASSUME NEW w \in Nat \ {0}, NEW u \in Nat, NEW adj \in Nat, NEW n \in Nat
  PROVE  calc_powerup_fee(w, u, adj, n) \in Int
<1>1. CASE n = 0
  BY <1>1 DEF calc_powerup_fee
<1>2. CASE n # 0
  <2>1. /\ Dividend(w, u, adj, n) \in Int
        /\ Exponent * Power(w, Exponent) \in Nat \ {0}
    BY DividendType, TermsAdd
  <2> QED
    BY <1>2, <2>1, FeeIs, TwiceRoundedUp
<1> QED
  BY <1>1, <1>2

(* Two rentals in a row cover what one of both covers.                     *)
LEMMA DividendsAdd ==
  ASSUME NEW w \in Nat \ {0}, NEW u \in Nat, NEW adj \in Nat,
         NEW x \in Nat \ {0}, NEW y \in Nat \ {0}
  PROVE  Dividend(w, u, adj, x + y) = Dividend(w, u, adj, x) + Dividend(w, u + x, adj, y)
<1> DEFINE F(n) == Flat(w, adj, n)
           C(a, b) == Along(w, a, b)
<1>1. /\ \A m, n \in Nat : F(m) \in Int /\ F(m + n) = F(m) + F(n)
      /\ \A a, b, c \in Nat : C(a, b) \in Int /\ C(a, a) = 0 /\ C(a, c) = C(a, b) + C(b, c)
  <2>1. \A m, n \in Nat : F(m) \in Int /\ F(m + n) = F(m) + F(n)
    BY TermsAdd
  <2>2. \A a, b, c \in Nat : C(a, b) \in Int /\ C(a, a) = 0 /\ C(a, c) = C(a, b) + C(b, c)
    BY TermsAdd
  <2> QED
    BY <2>1, <2>2
<1>2. \A v \in Nat, n \in Nat \ {0} :
        /\ v >= adj => Dividend(w, v, adj, n) = C(v, v + n)
        /\ v + n <= adj => Dividend(w, v, adj, n) = F(n)
        /\ v < adj /\ adj < v + n =>
             Dividend(w, v, adj, n) = F(adj - v) + C(adj, v + n)
  <2> SUFFICES ASSUME NEW v \in Nat, NEW n \in Nat \ {0}
               PROVE  /\ v >= adj => Dividend(w, v, adj, n) = C(v, v + n)
                      /\ v + n <= adj => Dividend(w, v, adj, n) = F(n)
                      /\ v < adj /\ adj < v + n =>
                           Dividend(w, v, adj, n) = F(adj - v) + C(adj, v + n)
    OBVIOUS
  <2>1. \A a, b \in Nat : C(a, b) \in Int
    BY <1>1
  <2>2. \A m \in Nat : F(m) \in Int
    BY <1>1
  <2>3. ASSUME v >= adj PROVE Dividend(w, v, adj, n) = C(v, v + n)
    <3>1. PartFlat(w, v, adj, n) = 0
      BY <2>3 DEF PartFlat
    <3>2. Larger(v, adj) = v /\ v < v + n
      BY <2>3 DEF Larger
    <3>3. PartCurved(w, v, adj, n) = C(v, v + n)
      BY <3>2 DEF PartCurved
    <3>4. C(v, v + n) \in Int
      BY <2>1
    <3> HIDE DEF C
    <3> QED
      BY <3>1, <3>3, <3>4 DEF Dividend
  <2>4. ASSUME v + n <= adj PROVE Dividend(w, v, adj, n) = F(n)
    <3>1. v < adj /\ Smaller(n, adj - v) = n
      BY <2>4 DEF Smaller
    <3>2. PartFlat(w, v, adj, n) = F(n)
      BY <3>1 DEF PartFlat
    <3>3. PartCurved(w, v, adj, n) = 0
      <4>1. Larger(v, adj) = adj
        BY <3>1 DEF Larger
      <4> QED
        BY <2>4, <4>1 DEF PartCurved
    <3>4. F(n) \in Int
      BY <2>2
    <3> HIDE DEF F
    <3> QED
      BY <3>2, <3>3, <3>4 DEF Dividend
  <2>5. ASSUME v < adj, adj < v + n
        PROVE  Dividend(w, v, adj, n) = F(adj - v) + C(adj, v + n)
    <3>1. Smaller(n, adj - v) = adj - v
      BY <2>5 DEF Smaller
    <3>2. PartFlat(w, v, adj, n) = F(adj - v)
      BY <2>5, <3>1 DEF PartFlat
    <3>3. Larger(v, adj) = adj
      BY <2>5 DEF Larger
    <3>4. PartCurved(w, v, adj, n) = C(adj, v + n)
      BY <2>5, <3>3 DEF PartCurved
    <3> QED
      BY <3>2, <3>4 DEF Dividend
  <2> QED
    BY <2>3, <2>4, <2>5
<1> HIDE DEF F, C
<1>3. /\ u + x \in Nat /\ x + y \in Nat \ {0} /\ u + x + y \in Nat
      /\ u + (x + y) = u + x + y
  OBVIOUS
<1>4. CASE u >= adj
  <2>1. u + x >= adj
    BY <1>4
  <2>2. /\ Dividend(w, u, adj, x + y) = C(u, u + x + y)
        /\ Dividend(w, u, adj, x) = C(u, u + x)
        /\ Dividend(w, u + x, adj, y) = C(u + x, u + x + y)
    BY <1>2, <1>3, <1>4, <2>1
  <2> QED
    BY <1>1, <1>3, <2>2
<1>5. CASE u + x + y <= adj
  <2>1. u + x <= adj
    BY <1>5
  <2>2. /\ Dividend(w, u, adj, x + y) = F(x + y)
        /\ Dividend(w, u, adj, x) = F(x)
        /\ Dividend(w, u + x, adj, y) = F(y)
    BY <1>2, <1>3, <1>5, <2>1
  <2> QED
    BY <1>1, <2>2
<1>6. CASE u + x < adj /\ adj < u + x + y
  <2>1. u < adj
    BY <1>6
  <2>2. /\ Dividend(w, u, adj, x + y) = F(adj - u) + C(adj, u + x + y)
        /\ Dividend(w, u, adj, x) = F(x)
        /\ Dividend(w, u + x, adj, y) = F(adj - (u + x)) + C(adj, u + x + y)
    <3>1. Dividend(w, u, adj, x + y) = F(adj - u) + C(adj, u + x + y)
      BY <1>2, <1>3, <1>6, <2>1
    <3>2. Dividend(w, u, adj, x) = F(x)
      <4>1. u + x <= adj
        BY <1>6
      <4> QED
        BY <1>2, <4>1
    <3>3. Dividend(w, u + x, adj, y) = F(adj - (u + x)) + C(adj, u + x + y)
      BY <1>2, <1>3, <1>6
    <3> QED
      BY <3>1, <3>2, <3>3
  <2>3. /\ adj - (u + x) \in Nat /\ x + (adj - (u + x)) = adj - u
        /\ C(adj, u + x + y) \in Int
    BY <1>1, <1>3, <1>6
  <2>4. /\ F(adj - u) = F(x) + F(adj - (u + x))
        /\ F(x) \in Int /\ F(adj - (u + x)) \in Int
    BY <1>1, <2>3
  <2> QED
    BY <2>2, <2>3, <2>4
<1>7. CASE u < adj /\ adj <= u + x
  <2>1. /\ adj < u + x + y /\ adj - u \in Nat
        /\ F(adj - u) \in Int
        /\ C(adj, u + x) \in Int /\ C(u + x, u + x + y) \in Int
        /\ C(adj, u + x + y) = C(adj, u + x) + C(u + x, u + x + y)
    BY <1>1, <1>3, <1>7
  <2>2. Dividend(w, u, adj, x) = F(adj - u) + C(adj, u + x)
    <3>1. CASE adj < u + x
      BY <1>2, <1>7, <3>1
    <3>2. CASE adj = u + x
      <4>1. Dividend(w, u, adj, x) = F(x)
        BY <1>2, <3>2
      <4>2. x = adj - u /\ C(adj, u + x) = 0
        BY <1>1, <3>2
      <4> QED
        BY <2>1, <4>1, <4>2
    <3> QED
      BY <1>3, <1>7, <3>1, <3>2
  <2>3. /\ Dividend(w, u, adj, x + y) = F(adj - u) + C(adj, u + x + y)
        /\ Dividend(w, u + x, adj, y) = C(u + x, u + x + y)
    BY <1>2, <1>3, <1>7, <2>1
  <2> QED
    BY <2>1, <2>2, <2>3
<1> QED
  BY <1>3, <1>4, <1>5, <1>6, <1>7

LEMMA SplitCostsMore ==
  ASSUME NEW w \in Nat, NEW u \in Nat, NEW adj \in Nat,
         NEW x \in Nat \ {0}, NEW y \in Nat \ {0}, u + x + y <= w
  PROVE  calc_powerup_fee(w, u, adj, x) + calc_powerup_fee(w, u + x, adj, y)
           >= calc_powerup_fee(w, u, adj, x + y)
<1> DEFINE d == Exponent * Power(w, Exponent)
           m == Dividend(w, u, adj, x)
           n == Dividend(w, u + x, adj, y)
<1>1. w \in Nat \ {0} /\ u + x \in Nat /\ x + y \in Nat \ {0}
  OBVIOUS
<1>2. /\ d \in Nat \ {0} /\ m \in Int /\ n \in Int
      /\ Dividend(w, u, adj, x + y) = m + n
  BY <1>1, TermsAdd, DividendType, DividendsAdd
<1>3. /\ calc_powerup_fee(w, u, adj, x) = Ceiling(m, d)
      /\ calc_powerup_fee(w, u + x, adj, y) = Ceiling(n, d)
      /\ calc_powerup_fee(w, u, adj, x + y) = Ceiling(m + n, d)
  BY <1>1, <1>2, FeeIs
<1> HIDE DEF d, m, n
<1>4. /\ Ceiling(m, d) \in Int /\ Ceiling(n, d) \in Int /\ Ceiling(m + n, d) \in Int
      /\ Ceiling(m + n, d) <= Ceiling(m, d) + Ceiling(n, d)
  <2>1. m + n \in Int
    BY <1>2
  <2> QED
    BY <1>2, <2>1, TwiceRoundedUp
<1> QED
  BY <1>3, <1>4

-----------------------------------------------------------------------------
(* The tables that no other invariant needs: the adjusted utilization is   *)
(* within the pool, the ratio at most 1, and the fees are whole numbers.   *)
RentDetails ==
  /\ \A k \in Bandwidth :
       /\ adjusted[k] \in 0 .. pool[k] /\ ratio[k] \in 0 .. Frac
       /\ delegated[k] \in [Accounts -> 0 .. MaxDelegated]
  /\ expires \in [Slots -> Nat]
  /\ now \in 1 .. MaxTime
  /\ tokens \in [Accounts -> Nat]

LEMMA DetailsHold ==
  ASSUME RentInit
  PROVE  RentDetails
<1>1. /\ Frac \in Nat \ {0} /\ MaxTime \in Nat \ {0} /\ MaxDelegated \in Nat
      /\ Funds \in [Accounts -> Nat]
  BY PowerupAssumption
<1>2. \A k \in Bandwidth :
        /\ adjusted[k] = 0 /\ pool[k] = 0 /\ ratio[k] = 0
        /\ delegated[k] = [a \in Accounts |-> 0]
  BY DEF RentInit
<1>3. expires = [i \in Slots |-> 0] /\ now = 1 /\ tokens = Funds
  BY DEF RentInit
<1>4. 0 \in 0 .. Frac /\ 0 \in 0 .. 0 /\ 0 \in 0 .. MaxDelegated /\ 1 \in 1 .. MaxTime
  BY <1>1
<1> QED
  BY <1>1, <1>2, <1>3, <1>4 DEF RentDetails

LEMMA DecayStays ==
  ASSUME RentInv, RentDetails, NEW a \in Decayed, NEW k \in Bandwidth
  PROVE  a[k] \in Nat /\ a[k] <= pool[k]
<1>1. a[k] \in DecayedTo(k)
  BY DEF Decayed
<1>2. /\ pool[k] \in Nat /\ utilization[k] \in Nat /\ utilization[k] <= pool[k]
      /\ adjusted[k] \in 0 .. pool[k]
  BY DEF RentInv, RentTypes, PoolsOK, RentDetails
<1> QED
  BY <1>1, <1>2 DEF DecayedTo

(* What a rental costs, the returned orders gone.                          *)
LEMMA TotalFeeType ==
  ASSUME RentInv, RentDetails, NEW P \in SUBSET Slots, NEW a \in Decayed,
         NEW frac \in [Bandwidth -> Int],
         \A k \in Bandwidth : frac[k] \in 0 .. Frac,
         \A k \in Bandwidth : frac[k] # 0 => InPool(frac, P, k)
  PROVE  TotalFee(frac, P, a) \in Int
<1>1. ASSUME NEW k \in Bandwidth, frac[k] # 0
      PROVE  Fee(frac, P, a, k) \in Int
  <2>1. PoolNow[k] \in Nat \ {0}
    <3>1. PoolNow[k] > 0
      BY <1>1 DEF InPool
    <3>2. PoolNow[k] \in Nat
      BY PoolGrows
    <3> QED
      BY <3>1, <3>2
  <2>2. UtilizationAfter(P)[k] \in Nat
    <3>1. rent[k] \in [Slots -> Nat] /\ utilization[k] = Total(rent[k])
      BY PoolAgreesMeans DEF RentInv, RentTypes
    <3>2. /\ OutOf(rent[k], P) \in Nat /\ Total(rent[k]) \in Nat
          /\ OutOf(rent[k], P) <= Total(rent[k])
      BY <3>1, OrdersOut
    <3>3. Freed(P)[k] = OutOf(rent[k], P)
      BY ReturnAmounts
    <3>4. UtilizationAfter(P)[k] = utilization[k] - Freed(P)[k]
      BY DEF UtilizationAfter
    <3> QED
      BY <3>1, <3>2, <3>3, <3>4
  <2>3. a[k] \in Nat
    BY DecayStays
  <2>4. Amount(frac)[k] \in Nat
    BY AmountType
  <2> QED
    BY <2>1, <2>2, <2>3, <2>4, FeeType DEF Fee
<1>2. (IF frac["net"] = 0 THEN 0 ELSE Fee(frac, P, a, "net")) \in Int
  BY <1>1 DEF Bandwidth
<1>3. (IF frac["cpu"] = 0 THEN 0 ELSE Fee(frac, P, a, "cpu")) \in Int
  BY <1>1 DEF Bandwidth
<1> QED
  BY <1>2, <1>3 DEF TotalFee

(* The pool only grows between two changes of its curve.                   *)
LEMMA ProcessKeepsDetails ==
  ASSUME RentInv, RentDetails, NEW P, Process(P), adjusted' \in Decayed
  PROVE  \A k \in Bandwidth :
           adjusted'[k] \in 0 .. pool'[k] /\ ratio'[k] \in 0 .. Frac
<1> SUFFICES ASSUME NEW k \in Bandwidth
             PROVE  adjusted'[k] \in 0 .. pool'[k] /\ ratio'[k] \in 0 .. Frac
  OBVIOUS
<1>1. pool' = PoolNow /\ ratio' = RatioNow
  BY DEF Process
<1>2. /\ PoolNow[k] \in Nat /\ pool[k] \in Nat /\ pool[k] <= PoolNow[k]
      /\ RatioNow[k] \in 1 .. Frac
  BY PoolGrows
<1>3. adjusted'[k] \in Nat /\ adjusted'[k] <= pool[k]
  BY DecayStays
<1>4. Frac \in Nat
  BY PowerupAssumption
<1> QED
  BY <1>1, <1>2, <1>3, <1>4

LEMMA ExecKeepsDetails ==
  ASSUME RentInv, RentDetails, NEW max \in Maxima, powerupexec(max)
  PROVE  RentDetails'
<1>1. PICK P \in SUBSET Slots :
        /\ Process(P)
        /\ adjusted' \in Decayed
        /\ expires' = [i \in Slots |-> IF i \in P THEN 0 ELSE expires[i]]
  BY DEF powerupexec
<1>2. delegated' = delegated /\ now' = now /\ tokens' = tokens
  BY DEF powerupexec
<1>3. \A k \in Bandwidth : adjusted'[k] \in 0 .. pool'[k] /\ ratio'[k] \in 0 .. Frac
  BY <1>1, ProcessKeepsDetails
<1>4. expires' \in [Slots -> Nat]
  BY <1>1 DEF RentDetails
<1> QED
  BY <1>2, <1>3, <1>4 DEF RentDetails

LEMMA PowerupKeepsDetails ==
  ASSUME RentInv, RentDetails,
         NEW payer \in Payers, NEW receiver \in Renters, NEW frac \in Fracs,
         powerup(payer, receiver, frac)
  PROVE  RentDetails'
<1>1. /\ frac \in [Bandwidth -> Int]
      /\ \A k \in Bandwidth : frac[k] \in 0 .. Frac
      /\ payer \in Accounts /\ Fees \in Accounts
  BY PowerupAssumption DEF powerup
<1>2. PICK P \in SUBSET Slots, i \in Slots, a \in Decayed :
        /\ Process(P)
        /\ \A k \in Bandwidth : frac[k] # 0 => InPool(frac, P, k)
        /\ CanPay(tokens, payer, Fees, TotalFee(frac, P, a))
        /\ tokens' = Paid(tokens, payer, Fees, TotalFee(frac, P, a))
        /\ adjusted' = a
        /\ expires' = [j \in Slots |-> IF j = i THEN now + days
                                       ELSE IF j \in P THEN 0 ELSE expires[j]]
  BY DEF powerup
<1>3. delegated' = delegated /\ now' = now
  BY DEF powerup
<1>4. \A k \in Bandwidth : adjusted'[k] \in 0 .. pool'[k] /\ ratio'[k] \in 0 .. Frac
  BY <1>2, ProcessKeepsDetails
<1>5. expires' \in [Slots -> Nat]
  <2>1. now + days \in Nat
    BY DEF RentInv, RentTypes
  <2> QED
    BY <1>2, <2>1 DEF RentDetails
<1>6. tokens' \in [Accounts -> Nat]
  <2> DEFINE fee == TotalFee(frac, P, a)
  <2>1. fee \in Int
    BY <1>1, <1>2, TotalFeeType
  <2>2. /\ payer # Fees /\ fee > 0 /\ fee <= tokens[payer]
        /\ tokens' = [tokens EXCEPT ![payer] = @ - fee, ![Fees] = @ + fee]
    BY <1>2 DEF CanPay, Paid
  <2> HIDE DEF fee
  <2>3. tokens \in [Accounts -> Nat]
    BY DEF RentDetails
  <2>4. tokens[payer] - fee \in Nat /\ tokens[Fees] + fee \in Nat
    BY <1>1, <2>1, <2>2, <2>3
  <2> QED
    BY <1>1, <2>2, <2>3, <2>4
<1> QED
  BY <1>3, <1>4, <1>5, <1>6 DEF RentDetails

LEMMA CfgKeepsDetails ==
  ASSUME RentInv, RentDetails, NEW args \in Curves, NEW d \in Periods,
         cfgpowerup(args, d)
  PROVE  RentDetails'
<1> DEFINE c == [k \in Bandwidth |-> Configured(args[k], k)]
           w == [k \in Bandwidth |-> WeightAt(c[k])]
<1>1. /\ \A k \in Bandwidth : ValidCurve(c[k])
      /\ \E a \in Decayed : adjusted' = [k \in Bandwidth |-> Capped(a[k], w[k])]
      /\ ratio' = [k \in Bandwidth |-> RatioAt(c[k])]
      /\ pool' = w
  BY DEF cfgpowerup
<1>2. /\ expires' = expires /\ delegated' = delegated
      /\ tokens' = tokens /\ now' = now
  BY DEF cfgpowerup, orders
<1>3. PICK a \in Decayed : adjusted' = [k \in Bandwidth |-> Capped(a[k], w[k])]
  BY <1>1
<1>4. ASSUME NEW k \in Bandwidth
      PROVE  adjusted'[k] \in 0 .. pool'[k] /\ ratio'[k] \in 0 .. Frac
  <2>1. CurveOK(c[k]) /\ c[k].from = now
    <3>1. c[k] = Configured(args[k], k) /\ ValidCurve(c[k])
      BY <1>1
    <3> HIDE DEF c
    <3> QED
      BY <3>1, CurveSet
  <2>2. now \in Nat /\ Frac \in Nat
    BY PowerupAssumption DEF RentInv, RentTypes
  <2>3. w[k] = WeightOn(c[k], now) /\ RatioAt(c[k]) = RatioOn(c[k], now)
    BY OnNow
  <2> HIDE DEF c
  <2>4. WeightOn(c[k], now) \in Nat /\ RatioOn(c[k], now) \in 1 .. Frac
    BY <2>1, <2>2, WeightType, RatioType
  <2>5. a[k] \in Nat
    BY DecayStays
  <2>6. /\ adjusted'[k] = Capped(a[k], w[k]) /\ pool'[k] = w[k]
        /\ ratio'[k] = RatioAt(c[k])
    BY <1>1, <1>3
  <2> HIDE DEF w
  <2> QED
    BY <2>2, <2>3, <2>4, <2>5, <2>6 DEF Capped, Smaller
<1> QED
  BY <1>2, <1>4 DEF RentDetails

LEMMA StepKeepsDetails ==
  ASSUME RentInv, RentDetails, [RentNext]_rentVars
  PROVE  RentDetails'
<1>1. ASSUME UNCHANGED <<adjusted, pool, ratio, delegated, expires, now, tokens>>
      PROVE  RentDetails'
  BY <1>1 DEF RentDetails
<1>2. ASSUME NEW args \in Curves, NEW d \in Periods, cfgpowerup(args, d)
      PROVE  RentDetails'
  BY <1>2, CfgKeepsDetails
<1>3. ASSUME NEW payer \in Payers, NEW receiver \in Renters, NEW frac \in Fracs,
             powerup(payer, receiver, frac)
      PROVE  RentDetails'
  BY <1>3, PowerupKeepsDetails
<1>4. ASSUME NEW max \in Maxima, powerupexec(max)
      PROVE  RentDetails'
  BY <1>4, ExecKeepsDetails
<1>5. ASSUME NEW a \in Renters, NEW delta \in Deltas, StakeFor(a, delta)
      PROVE  RentDetails'
  <2>1. /\ \A k \in Bandwidth : delegated[k][a] + delta[k] \in 0 .. MaxDelegated
        /\ delegated' = [k \in Bandwidth |-> [delegated[k] EXCEPT ![a] = @ + delta[k]]]
        /\ UNCHANGED <<adjusted, pool, ratio, expires, now, tokens>>
    BY <1>5 DEF StakeFor, state, orders
  <2>2. \A k \in Bandwidth : delegated'[k] \in [Accounts -> 0 .. MaxDelegated]
    BY <2>1 DEF RentDetails
  <2> QED
    BY <2>1, <2>2 DEF RentDetails
<1>6. ASSUME NEW a \in RamOwners, TradeRam(a)
      PROVE  RentDetails'
  BY <1>1, <1>6 DEF TradeRam, state, orders
<1>7. ASSUME NEW a \in Managed \cup RamOwners, NEW value \in Values, Administer(a, value)
      PROVE  RentDetails'
  BY <1>1, <1>7 DEF Administer, state, orders
<1>8. ASSUME NEW a \in Accounts, Create(a)
      PROVE  RentDetails'
  BY <1>1, <1>8 DEF Create, state, orders
<1>9. CASE RentTick
  <2>1. /\ now < MaxTime /\ now' = now + 1
        /\ UNCHANGED <<adjusted, pool, ratio, delegated, expires, tokens>>
    BY <1>9 DEF RentTick, state, orders
  <2>2. now' \in 1 .. MaxTime
    BY <2>1, PowerupAssumption DEF RentDetails
  <2> QED
    BY <2>1, <2>2 DEF RentDetails
<1>10. CASE UNCHANGED rentVars
  BY <1>1, <1>10 DEF rentVars, state, orders
<1> QED
  BY <1>2, <1>3, <1>4, <1>5, <1>6, <1>7, <1>8, <1>9, <1>10 DEF RentNext

THEOREM DetailsInvariant == RentSpec => []RentDetails
<1>1. RentInit => RentDetails
  BY DetailsHold
<1>2. RentInv /\ RentDetails /\ [RentNext]_rentVars => RentDetails'
  BY StepKeepsDetails
<1> QED
  BY <1>1, <1>2, RentInvariant, PTL DEF RentSpec

(* Every table of rentals keeps its type: in particular nothing is rented  *)
(* that the pool does not have, the adjusted utilization stays within the  *)
(* pool when a new curve makes it smaller, and no fee overdraws a balance. *)
THEOREM RentTypesHold == RentSpec => []RentTypeOK
<1>1. RentInv /\ RentDetails => RentTypeOK
  <2> SUFFICES ASSUME RentInv, RentDetails PROVE RentTypeOK
    OBVIOUS
  <2>1. ResourcesTypeOK
    <3>1. AccountsOK /\ RowsTypes(Rows) /\ Rows.weight = weight
          /\ Rows.limit = limit /\ Rows.hasRow = hasRow
      BY DEF RentInv, ResourcesOK, RowsOK, Rows
    <3> QED
      BY <3>1 DEF AccountsOK, RowsTypes, ResourcesTypeOK
  <2>2. /\ RentTypes
        /\ \A k \in Bandwidth : utilization[k] <= pool[k]
    BY DEF RentInv, PoolsOK
  <2>3. configured \in BOOLEAN
    BY <2>2, Zenon DEF RentTypes
  <2>4. \A k \in Bandwidth :
          /\ pool[k] \in Nat /\ utilization[k] \in 0 .. pool[k]
          /\ rent[k] \in [Slots -> Nat]
    BY <2>2 DEF RentTypes
  <2>5. updated \in 0 .. now /\ days \in Nat \ {0}
    BY <2>2 DEF RentTypes
  <2>6. owner \in [Slots -> Accounts \cup {Nobody}]
    BY <2>2 DEF RentTypes
  <2> QED
    BY <2>1, <2>3, <2>4, <2>5, <2>6 DEF RentDetails, RentTypeOK
<1> QED
  BY <1>1, RentInvariant, DetailsInvariant, PTL

(* Nobody pays less by renting in two parts, at any utilization, on any    *)
(* curve and for any price (powerup.cpp:265-318).                          *)
THEOREM SplittingNeverPays == RentSpec => []SplittingGainsNothing
<1>1. RentInv /\ RentDetails => SplittingGainsNothing
  <2> SUFFICES ASSUME RentInv, RentDetails, NEW k \in Bandwidth,
                      NEW x \in 1 .. (pool[k] - utilization[k]),
                      NEW y \in 1 .. (pool[k] - utilization[k]),
                      x + y <= pool[k] - utilization[k]
               PROVE  calc_powerup_fee(pool[k], utilization[k], adjusted[k], x)
                      + calc_powerup_fee(pool[k], utilization[k] + x, adjusted[k], y)
                      >= calc_powerup_fee(pool[k], utilization[k], adjusted[k], x + y)
    BY DEF SplittingGainsNothing
  <2>1. pool[k] \in Nat /\ utilization[k] \in Nat /\ adjusted[k] \in Nat
    BY DEF RentInv, RentTypes, RentDetails
  <2>2. /\ x \in Nat \ {0} /\ y \in Nat \ {0}
        /\ utilization[k] + x + y <= pool[k]
    BY <2>1
  <2> QED
    BY <2>1, <2>2, SplitCostsMore
<1> QED
  BY <1>1, RentInvariant, DetailsInvariant, PTL
=============================================================================
