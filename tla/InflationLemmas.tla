---------------------------- MODULE InflationLemmas ----------------------------
(***************************************************************************)
(* Lemmas about Inflation for the proofs of the modules that pay out of    *)
(* its buckets: what fill_buckets does to the books, and that claims, fees *)
(* and time keep them balanced.                                            *)
(***************************************************************************)
EXTENDS Inflation, SumLemmas

(***************************************************************************)
(* Products and quotients.                                                 *)
(***************************************************************************)
LEMMA ProductOfNats ==
  ASSUME NEW m \in Nat, NEW n \in Nat
  PROVE  m * n \in Nat
OBVIOUS

LEMMA QuotientRoundsDown ==
  ASSUME NEW n \in Nat, NEW d \in Nat \ {0}
  PROVE  n \div d \in Nat /\ (n \div d) * d <= n
OBVIOUS

LEMMA LargerFactor ==
  ASSUME NEW m \in Nat, NEW n \in Nat, NEW k \in Nat, m <= n
  PROVE  m * k <= n * k
<1>1. n * k = m * k + (n - m) * k
  OBVIOUS
<1>2. (n - m) * k \in Nat /\ m * k \in Nat
  BY ProductOfNats
<1> QED
  BY <1>1, <1>2

(* A part of a bucket, rounded down, is in the bucket, and what stays is   *)
(* at least the others' part.                                              *)
LEMMA PartOfBucket ==
  ASSUME NEW b \in Nat, NEW u \in Nat, NEW t \in Nat \ {0}, u <= t
  PROVE  LET pay == (b * u) \div t
         IN  pay \in 0 .. b /\ (b - pay) * t >= b * (t - u)
<1> DEFINE pay == (b * u) \div t
<1>1. b * u \in Nat /\ b * t \in Nat /\ b * u <= b * t
  <2>1. u * b <= t * b
    BY LargerFactor
  <2> QED
    BY <2>1, ProductOfNats
<1>2. pay \in Nat /\ pay * t <= b * u
  BY <1>1, QuotientRoundsDown
<1> HIDE DEF pay
<1>3. pay <= b
  <2> SUFFICES ASSUME b + 1 <= pay PROVE FALSE
    BY <1>2
  <2>1. (b + 1) * t <= pay * t
    BY <1>2, LargerFactor
  <2>2. (b + 1) * t = b * t + t
    OBVIOUS
  <2>3. pay * t \in Nat
    BY <1>2, ProductOfNats
  <2> QED
    BY <1>1, <1>2, <2>1, <2>2, <2>3
<1>4. (b - pay) * t = b * t - pay * t /\ b * (t - u) = b * t - b * u
  BY <1>2
<1>5. pay * t \in Nat
  BY <1>2, ProductOfNats
<1>6. (b - pay) * t >= b * (t - u)
  BY <1>1, <1>2, <1>4, <1>5
<1> QED
  BY <1>2, <1>3, <1>6 DEF pay

(***************************************************************************)
(* fill_buckets.                                                           *)
(***************************************************************************)
PursesDiffer ==
  /\ Fees \in Holders /\ Saving \in Holders
  /\ VotersAccount \in Holders /\ Bpay \in Holders
  /\ Fees # Saving /\ Fees # VotersAccount /\ Fees # Bpay
  /\ Saving # VotersAccount /\ Saving # Bpay /\ VotersAccount # Bpay

LEMMA PursesAre == PursesDiffer
BY InflationAssumption DEF PursesDiffer, Purses

(* What accrues is a number of tokens, and the fees pay a part of it.      *)
LEMMA WhatAccrues ==
  ASSUME InflationTypeOK
  PROVE  /\ Distributed \in Nat
         /\ FeesUsed \in 0 .. Distributed /\ FeesUsed <= liquid[Fees]
         /\ liquid[Fees] \in Nat
         /\ ToPerBlock \in Nat /\ ToVoters \in Nat /\ ToSavings \in Nat
         /\ ToSavings + ToVoters + ToPerBlock = Distributed
<1>1. /\ Rate \in Nat /\ Year \in Nat \ {0} /\ supply \in Nat
      /\ now - lastFill \in Nat /\ liquid[Fees] \in Nat
  BY InflationAssumption, PursesAre DEF InflationTypeOK, PursesDiffer
<1>2. (Rate * supply) * (now - lastFill) \in Nat
  <2>1. Rate * supply \in Nat
    BY <1>1, ProductOfNats
  <2> QED
    BY <1>1, <2>1, ProductOfNats
<1>3. Distributed \in Nat
  BY <1>1, <1>2, QuotientRoundsDown DEF Distributed
<1>4. FeesUsed \in 0 .. Distributed /\ FeesUsed <= liquid[Fees]
  BY <1>1, <1>3 DEF FeesUsed, Less
<1>5. /\ ToPerBlock \in Nat /\ 5 * ToPerBlock <= Distributed
  BY <1>3 DEF ToPerBlock
<1> QED
  BY <1>1, <1>3, <1>4, <1>5 DEF ToVoters, ToSavings

(* The balances f and g differ by n tokens that a got, or paid.            *)
Differ(f, g, a, n) ==
  /\ f \in [Holders -> Nat] /\ g \in [Holders -> Nat]
  /\ a \in Holders /\ n \in Int /\ g[a] = f[a] + n
  /\ \A x \in Holders \ {a} : g[x] = f[x]

LEMMA DifferInTotal ==
  ASSUME NEW f, NEW g, NEW a, NEW n, Differ(f, g, a, n)
  PROVE  Total(f) \in Nat /\ Total(g) = Total(f) + n
<1>1. /\ IsFiniteSet(Holders) /\ f \in [Holders -> Nat] /\ g \in [Holders -> Nat]
      /\ a \in Holders /\ \A x \in Holders \ {a} : g[x] = f[x]
  BY InflationAssumption DEF Differ
<1>2. Total(f) \in Nat /\ Total(g) = Total(f) - f[a] + g[a]
  BY <1>1, TotalChange
<1>3. f[a] \in Nat /\ n \in Int /\ g[a] = f[a] + n
  BY DEF Differ
<1> QED
  BY <1>2, <1>3

(* After fill_buckets the books balance again, and there is not less in    *)
(* the bucket for blocks.                                                  *)
Balanced(b) ==
  /\ b.liquid \in [Holders -> Nat]
  /\ b.supply = Total(b.liquid)
  /\ b.perblock \in Nat /\ b.perblock <= b.liquid[Bpay]
  /\ b.voters \in Nat /\ b.voters <= b.liquid[VotersAccount]

LEMMA FillKeepsBalance ==
  ASSUME InflationTypeOK, BooksBalance
  PROVE  Balanced(fill_buckets) /\ perblock <= fill_buckets.perblock
<1>1. CASE ~ Fills
  BY <1>1 DEF fill_buckets, Balanced, InflationTypeOK, BooksBalance, SupplyHeld, BucketsBacked
<1>2. CASE Fills
  <2>1. /\ liquid \in [Holders -> Nat] /\ supply = Total(liquid)
        /\ perblock \in Nat /\ voters \in Nat
        /\ perblock <= liquid[Bpay] /\ voters <= liquid[VotersAccount]
        /\ liquid[Bpay] \in Nat /\ liquid[VotersAccount] \in Nat
    BY PursesAre
    DEF PursesDiffer, InflationTypeOK, BooksBalance, SupplyHeld, BucketsBacked
  <2>2. /\ Fees \in Holders /\ Saving \in Holders
        /\ VotersAccount \in Holders /\ Bpay \in Holders
    BY PursesAre DEF PursesDiffer
  <2>3. /\ ToPerBlock \in Nat /\ ToVoters \in Nat /\ ToSavings \in Nat
        /\ liquid[Fees] \in 0 .. liquid[Fees]
    BY WhatAccrues
  <2> DEFINE a == [liquid EXCEPT ![Fees] = 0]
             b == [a EXCEPT ![Saving] = @ + ToSavings]
             c == [b EXCEPT ![VotersAccount] = @ + ToVoters]
             d == [c EXCEPT ![Bpay] = @ + ToPerBlock]
  <2>4. Differ(liquid, a, Fees, -liquid[Fees])
    BY <2>1, <2>2, <2>3 DEF Differ
  <2> HIDE DEF a
  <2>5. Differ(a, b, Saving, ToSavings)
    BY <2>2, <2>3, <2>4 DEF Differ
  <2> HIDE DEF b
  <2>6. Differ(b, c, VotersAccount, ToVoters)
    BY <2>2, <2>3, <2>5 DEF Differ
  <2> HIDE DEF c
  <2>7. Differ(c, d, Bpay, ToPerBlock)
    BY <2>2, <2>3, <2>6 DEF Differ
  <2> HIDE DEF d
  <2>8. /\ Total(liquid) \in Nat /\ Total(a) = Total(liquid) + -liquid[Fees]
        /\ Total(b) = Total(a) + ToSavings
        /\ Total(c) = Total(b) + ToVoters
        /\ Total(d) = Total(c) + ToPerBlock
    BY <2>4, <2>5, <2>6, <2>7, DifferInTotal
  <2>12. Total(d) = supply + Issued - Burned
    BY <2>1, <2>8, WhatAccrues DEF Issued, Burned
  <2>13. Balances = d
    <3>1. liquid[Fees] - FeesUsed - Burned = 0
      BY WhatAccrues DEF Burned
    <3> QED
      BY <2>1, <3>1, PursesAre DEF Balances, PursesDiffer, a, b, c, d
  <2>14. /\ d[Bpay] = liquid[Bpay] + ToPerBlock
         /\ d[VotersAccount] = liquid[VotersAccount] + ToVoters
    BY <2>1, <2>13, PursesAre DEF Balances, PursesDiffer
  <2>15. /\ fill_buckets.liquid = d /\ fill_buckets.supply = supply + Issued - Burned
         /\ fill_buckets.perblock = perblock + ToPerBlock
         /\ fill_buckets.voters = voters + ToVoters
    BY <1>2, <2>13 DEF fill_buckets
  <2> QED
    BY <2>1, <2>3, <2>7, <2>12, <2>14, <2>15 DEF Balanced, Differ
<1> QED
  BY <1>1, <1>2

(* A payment keeps the supply. *)
LEMMA PaymentKeeps ==
  ASSUME NEW balances \in [Holders -> Nat], NEW from \in Holders, NEW to \in Holders,
         NEW n \in Nat, CanPay(balances, from, to, n)
  PROVE  /\ Paid(balances, from, to, n) \in [Holders -> Nat]
         /\ Total(Paid(balances, from, to, n)) = Total(balances)
         /\ Paid(balances, from, to, n)[from] = balances[from] - n
         /\ \A a \in Holders \ {from} : Paid(balances, from, to, n)[a] >= balances[a]
<1>1. from # to /\ n <= balances[from] /\ balances[from] \in Nat /\ balances[to] \in Nat
  BY DEF CanPay
<1>2. Paid(balances, from, to, n) \in [Holders -> Nat]
  BY <1>1 DEF Paid
<1>3. Total(Paid(balances, from, to, n)) = Total(balances)
  <2> DEFINE less == [balances EXCEPT ![from] = @ - n]
  <2>1. Differ(balances, less, from, -n)
    BY <1>1 DEF Differ
  <2>2. Differ(less, Paid(balances, from, to, n), to, n)
    BY <1>1, <1>2 DEF Differ, Paid
  <2> HIDE DEF less
  <2>3. /\ Total(balances) \in Nat /\ Total(less) = Total(balances) + -n
        /\ Total(Paid(balances, from, to, n)) = Total(less) + n
    BY <2>1, <2>2, DifferInTotal
  <2> QED
    BY <2>3
<1> QED
  BY <1>1, <1>2, <1>3 DEF Paid

(***************************************************************************)
(* The books, over every operation.                                        *)
(***************************************************************************)
BooksInv == InflationTypeOK /\ BooksBalance

LEMMA BooksInitially == InflationInit => BooksInv
<1> SUFFICES ASSUME InflationInit PROVE BooksInv
  OBVIOUS
<1>1. liquid \in [Holders -> Nat] /\ supply = Total(liquid) /\ supply \in Nat
  BY InflationAssumption, TotalType DEF InflationInit
<1>2. liquid[Bpay] \in Nat /\ liquid[VotersAccount] \in Nat
  BY <1>1, PursesAre DEF PursesDiffer
<1> QED
  BY <1>1, <1>2, InflationAssumption
  DEF BooksInv, InflationTypeOK, BooksBalance, SupplyHeld, BucketsBacked, InflationInit

LEMMA SameBooks ==
  ASSUME BooksInv, UNCHANGED <<supply, liquid, perblock, voters>>,
         now' \in now .. MaxTime, lastFill' \in 0 .. now'
  PROVE  BooksInv'
<1>1. now' \in 1 .. MaxTime
  BY DEF BooksInv, InflationTypeOK
<1> QED
  BY <1>1 DEF BooksInv, InflationTypeOK, BooksBalance, SupplyHeld, BucketsBacked

LEMMA FeesKeepBooks ==
  ASSUME BooksInv, NEW from \in Users, NEW n \in Incomes, PayFees(from, n)
  PROVE  BooksInv'
<1>1. n \in Nat /\ from \in Holders /\ from \notin Purses /\ Fees \in Holders
  BY InflationAssumption, PursesAre DEF PursesDiffer
<1>2. liquid \in [Holders -> Nat] /\ supply = Total(liquid) /\ CanPay(liquid, from, Fees, n)
  BY DEF BooksInv, InflationTypeOK, BooksBalance, SupplyHeld, PayFees
<1>3. /\ liquid' \in [Holders -> Nat] /\ Total(liquid') = Total(liquid)
      /\ \A a \in Holders \ {from} : liquid'[a] >= liquid[a]
  BY <1>1, <1>2, PaymentKeeps DEF PayFees
<1>4. /\ VotersAccount \in Holders \ {from} /\ Bpay \in Holders \ {from}
      /\ liquid[VotersAccount] \in Nat /\ liquid[Bpay] \in Nat
      /\ liquid'[VotersAccount] \in Nat /\ liquid'[Bpay] \in Nat
  BY <1>1, <1>2, <1>3, PursesAre DEF PursesDiffer, Purses
<1> QED
  BY <1>2, <1>3, <1>4
  DEF BooksInv, InflationTypeOK, BooksBalance, SupplyHeld, BucketsBacked, PayFees

(* A claim: fill_buckets, and then a payment out of one of the buckets.    *)
LEMMA FilledBooks ==
  ASSUME BooksInv
  PROVE  /\ Balanced(fill_buckets) /\ perblock <= fill_buckets.perblock
         /\ fill_buckets.supply \in Nat /\ LastFillAfter \in 0 .. now
<1>1. Balanced(fill_buckets) /\ perblock <= fill_buckets.perblock
  BY FillKeepsBalance DEF BooksInv
<1>2. fill_buckets.supply \in Nat
  BY <1>1, InflationAssumption, TotalType DEF Balanced
<1>3. LastFillAfter \in 0 .. now
  BY DEF BooksInv, InflationTypeOK, LastFillAfter
<1> QED
  BY <1>1, <1>2, <1>3

LEMMA ClaimKeepsBooks ==
  ASSUME BooksInv, NEW purse \in {VotersAccount, Bpay}, NEW to \in Holders \ Purses,
         NEW pay \in Nat,
         supply' = fill_buckets.supply,
         perblock' = fill_buckets.perblock - (IF purse = Bpay THEN pay ELSE 0),
         voters' = fill_buckets.voters - (IF purse = VotersAccount THEN pay ELSE 0),
         perblock' \in Nat, voters' \in Nat,
         lastFill' = LastFillAfter, now' = now,
         CanPay(fill_buckets.liquid, purse, to, pay),
         liquid' = Paid(fill_buckets.liquid, purse, to, pay)
  PROVE  BooksInv'
<1>1. /\ fill_buckets.liquid \in [Holders -> Nat]
      /\ fill_buckets.supply = Total(fill_buckets.liquid)
      /\ fill_buckets.perblock \in Nat
      /\ fill_buckets.perblock <= fill_buckets.liquid[Bpay]
      /\ fill_buckets.voters \in Nat
      /\ fill_buckets.voters <= fill_buckets.liquid[VotersAccount]
      /\ fill_buckets.supply \in Nat /\ LastFillAfter \in 0 .. now
  BY FilledBooks DEF Balanced
<1>2. purse \in Holders /\ VotersAccount # Bpay /\ VotersAccount \in Holders /\ Bpay \in Holders
  BY PursesAre DEF PursesDiffer
<1>3. /\ liquid' \in [Holders -> Nat]
      /\ Total(liquid') = Total(fill_buckets.liquid)
      /\ liquid'[purse] = fill_buckets.liquid[purse] - pay
      /\ \A a \in Holders \ {purse} : liquid'[a] >= fill_buckets.liquid[a]
  BY <1>1, <1>2, PaymentKeeps
<1>4. /\ fill_buckets.liquid[Bpay] \in Nat /\ fill_buckets.liquid[VotersAccount] \in Nat
      /\ liquid'[Bpay] \in Nat /\ liquid'[VotersAccount] \in Nat
  BY <1>1, <1>2, <1>3
<1>5. perblock' <= liquid'[Bpay] /\ voters' <= liquid'[VotersAccount]
  <2>1. CASE purse = Bpay
    <3>1. liquid'[VotersAccount] >= fill_buckets.liquid[VotersAccount]
      BY <1>2, <1>3, <2>1
    <3> QED
      BY <1>1, <1>2, <1>3, <1>4, <2>1, <3>1
  <2>2. CASE purse = VotersAccount
    <3>1. liquid'[Bpay] >= fill_buckets.liquid[Bpay]
      BY <1>2, <1>3, <2>2
    <3> QED
      BY <1>1, <1>2, <1>3, <1>4, <2>2, <3>1
  <2> QED
    BY <2>1, <2>2
<1> QED
  BY <1>1, <1>3, <1>5
  DEF BooksInv, InflationTypeOK, BooksBalance, SupplyHeld, BucketsBacked

LEMMA WaitKeepsBooks ==
  ASSUME BooksInv, Wait
  PROVE  BooksInv'
<1>1. now' \in now .. MaxTime /\ lastFill' \in 0 .. now'
  BY InflationAssumption DEF BooksInv, InflationTypeOK, Wait, books
<1> QED
  BY <1>1, SameBooks DEF Wait, books
================================================================================
