------------------------------- MODULE Powerup -------------------------------
(***************************************************************************)
(* Renting bandwidth for some days (powerup.cpp of eosio.system):          *)
(* cfgpowerup, powerup and powerupexec.                                    *)
(*                                                                         *)
(* A pool of weight grows as its ratio to the stake shrinks with time.     *)
(* What is not rented belongs to eosio.reserv, a row of userres like any   *)
(* other; what is rented is added to the row of the receiver, next to what *)
(* was staked for it, until the order expires and somebody makes the queue *)
(* move: each rental and each powerupexec returns a few orders, first.     *)
(* The pool, the orders and the rows are changed apart, by differences     *)
(* that one variable of the code adds up.                                  *)
(*                                                                         *)
(* Prices are doubles in the code and exact fractions here, for natural    *)
(* exponents.  The decay of the adjusted utilization is any number that    *)
(* its clamp admits.  max_payment and days are arguments with which the    *)
(* caller agrees to the price and the length: the model agrees always.     *)
(***************************************************************************)
EXTENDS Resources, Payments

CONSTANTS
  Reserve,        \* reserve_account, eosio.reserv
  Fees,           \* fees_account, eosio.fees
  Payers,         \* accounts that pay for rentals
  Renters,        \* accounts that rentals or stakes are for
  Existing,       \* accounts that were created before
  Managed,        \* accounts whose bandwidth administrators manage
  RamOwners,      \* accounts that trade RAM, and whose RAM they manage
  MaxRam,         \* bound: RAM of an account
  Values,         \* limits they set: those that the chain takes
  Slots,          \* rows of the table of orders; bound: their number
  Nobody,         \* no order
  Frac,           \* powerup_frac, the ratio 1
  DefaultTarget,  \* target_weight_ratio before it is configured
  Curves,         \* arguments of cfgpowerup, for both kinds
  DefaultDays,    \* default_powerup_days, in steps of the clock
  Periods,        \* arguments for powerup_days
  Fracs,          \* fractions of the pool one may ask for, for both kinds
  MinPrice, MaxPrice, Exponent,  \* of the price curve
  MinFee,         \* min_powerup_fee
  Maxima,         \* arguments of powerupexec
  Deltas,         \* stakes delegated to a receiver, for both kinds
  MaxDelegated,   \* bound: stake of each kind
  Funds,          \* initial balances
  MaxTime         \* bound: time

ASSUME PowerupAssumption ==
  /\ Reserve \in Accounts /\ Reserve \notin System
  /\ Fees \in Accounts /\ Payers \subseteq Accounts \ {Fees}
  /\ Renters \subseteq Accounts
  /\ Reserve \in Existing /\ Existing \subseteq Accounts \ System
  /\ Managed \subseteq Accounts /\ Values \subseteq Nat \cup {Unlimited, Absent}
  /\ RamOwners \subseteq Accounts /\ MaxRam \in Nat
  /\ IsFiniteSet(Slots) /\ Nobody \notin Accounts
  /\ Frac \in Nat \ {0} /\ DefaultTarget \in 1 .. Frac
  /\ Curves \subseteq
       [Bandwidth -> [{"current", "target", "assumed", "until"} -> Int \cup {Absent}]]
  /\ DefaultDays \in Nat \ {0} /\ Periods \subseteq Int \cup {Absent}
  /\ Fracs \subseteq [Bandwidth -> Int]
  /\ MinPrice \in Nat /\ MaxPrice \in Nat \ {0} /\ MinPrice <= MaxPrice
  /\ Exponent \in Nat \ {0}
  /\ Exponent = 1 => MinPrice = MaxPrice
  /\ MinFee \in Nat \ {0}
  /\ Maxima \subseteq Nat
  /\ Deltas \subseteq [Bandwidth -> Int] /\ MaxDelegated \in Nat
  /\ Funds \in [Accounts -> Nat]
  /\ MaxTime \in Nat \ {0}

VARIABLES
  configured,   \* the state exists
  pool,         \* weight of each kind
  utilization,  \* utilization of each kind
  adjusted,     \* adjusted_utilization of each kind
  ratio,        \* weight_ratio of each kind
  curve,        \* assumed stake, initial and target ratio with their times
  updated,      \* utilization_timestamp, the same of both kinds
  days,         \* powerup_days
  owner,        \* orders: owner, Nobody in a free slot
  rent,         \* orders: weight of each kind, 0 in a free slot
  expires,      \* orders: expires, 0 in a free slot
  delegated,    \* what is staked for each account (delband)
  tokens,       \* eosio.token balances
  now           \* time

state == <<configured, pool, utilization, adjusted, ratio, curve, updated, days>>
orders == <<owner, rent, expires>>
rentVars == <<resources, state, orders, delegated, tokens, now>>

RentInit ==
  /\ ResourcesInit(Existing)
  /\ configured = FALSE
  /\ pool = [k \in Bandwidth |-> 0]
  /\ utilization = [k \in Bandwidth |-> 0]
  /\ adjusted = [k \in Bandwidth |-> 0]
  /\ ratio = [k \in Bandwidth |-> 0]
  /\ curve = [k \in Bandwidth |->
                [assumed |-> 0, initial |-> Frac, target |-> DefaultTarget,
                 from |-> 0, until |-> 0]]
  /\ updated = 0
  /\ days = DefaultDays
  /\ owner = [i \in Slots |-> Nobody]
  /\ rent = [k \in Bandwidth |-> [i \in Slots |-> 0]]
  /\ expires = [i \in Slots |-> 0]
  /\ delegated = [k \in Bandwidth |-> [a \in Accounts |-> 0]]
  /\ tokens = Funds
  /\ now = 1

-----------------------------------------------------------------------------
(* adjust_resources for the accounts of A, each with its delta; when an    *)
(* account occurs in several calls, delta is their sum.  An account whose  *)
(* delta is nothing is not in A.                                           *)
Rows == [weight |-> weight, limit |-> limit, hasRow |-> hasRow]

Plus(f, A, d) == [a \in Accounts |-> IF a \in A THEN f[a] + d[a] ELSE f[a]]

Fits(rows, A, delta) ==
  \A a \in A : a \in created /\ \A k \in Bandwidth : rows.weight[k][a] + delta[k][a] >= 0

(* The slip leaves all limits as they are when either kind is managed.     *)
FixedIfAny(rows, A, w) ==
  [k \in Kinds |-> [a \in Accounts |->
     IF a \notin A \/ \E b \in Bandwidth : a \in managed[b] THEN rows.limit[k][a]
     ELSE IF k = "ram" THEN Larger(w["ram"][a] + RamGift, rows.limit[k][a])
     ELSE w[k][a]]]

(* And this one copies the weights whatever is managed. *)
FixedForNone(rows, A, w) ==
  [k \in Kinds |-> [a \in Accounts |->
     IF a \notin A \/ k = "ram" THEN rows.limit[k][a] ELSE w[k][a]]]
AdjustedLimits(rows, A, w) ==
  [k \in Kinds |-> [a \in Accounts |->
     IF a \notin A \/ a \in managed[k] \/ \A b \in Bandwidth : a \in managed[b]
     THEN rows.limit[k][a]
     ELSE IF k = "ram" THEN Larger(w["ram"][a] + RamGift, rows.limit[k][a])
     ELSE w[k][a]]]

adjust_resources(rows, A, delta) ==
  LET w == [k \in Kinds |-> IF k = "ram" THEN rows.weight[k]
                            ELSE Plus(rows.weight[k], A, delta[k])]
  IN  [weight |-> w,
       limit |-> AdjustedLimits(rows, A, w),
       hasRow |-> (rows.hasRow \cup A) \ {a \in A : IsEmpty(a, w)}]

(* One account, by d of each kind, if any.  The slip wants both kinds.     *)
IfBoth(a, d) == IF \E k \in Bandwidth : d[k] = 0 THEN {} ELSE {a}
Touched(a, d) == IF \A k \in Bandwidth : d[k] = 0 THEN {} ELSE {a}
NoneManaged(A) == \A a \in A, k \in Bandwidth : a \notin managed[k]
ForOne(d) == [k \in Bandwidth |-> [a \in Accounts |-> d[k]]]

SetRows(rows) ==
  /\ weight' = rows.weight
  /\ limit' = rows.limit
  /\ hasRow' = rows.hasRow
  /\ UNCHANGED <<created, managed>>

-----------------------------------------------------------------------------
(* update_utilization, once in a second: the adjusted utilization follows  *)
(* the utilization up at once and down by what decay leaves of the gap.    *)
DecayedTo(k) ==
  IF now <= updated THEN {adjusted[k]}
  ELSE IF utilization[k] >= adjusted[k] THEN {utilization[k]}
  ELSE utilization[k] .. adjusted[k]
Decayed == {a \in [Bandwidth -> UNION {DecayedTo(k) : k \in Bandwidth}] :
              \A k \in Bandwidth : a[k] \in DecayedTo(k)}

(* update_weight: the ratio moves in a line to its target, and the pool is *)
(* so large that stake and pool have that ratio.                           *)
RatioAt(c) ==
  IF now >= c.until THEN c.target
  ELSE c.initial - ((c.initial - c.target) * (now - c.from)) \div (c.until - c.from)
WeightAt(c) == (c.assumed * Frac) \div RatioAt(c) - c.assumed

(* The orders that process_powerup_queue returns: the first that expired,  *)
(* up to a maximum.  Which of two that expire together comes first depends *)
(* on their ids, and here either may.                                      *)
Expired == {i \in Slots : owner[i] # Nobody /\ expires[i] <= now}
FirstOf(P, max) ==
  /\ P \subseteq Expired
  /\ \A i \in P, j \in Expired \ P : expires[i] <= expires[j]
  /\ \/ Cardinality(P) = max
     \/ P = Expired /\ Cardinality(P) <= max

(* What the orders of P give back in all, and of the rows of each account. *)
Freed(P) ==
  [k \in Bandwidth |-> Total([i \in Slots |-> IF i \in P THEN rent[k][i] ELSE 0])]
FreedOf(P) ==
  [k \in Bandwidth |-> [a \in Accounts |->
     -Total([i \in Slots |-> IF i \in P /\ owner[i] = a THEN rent[k][i] ELSE 0])]]
Owners(P) == {owner[i] : i \in P}

RowsAfter(P) == adjust_resources(Rows, Owners(P), FreedOf(P))
Returnable(P) == Fits(Rows, Owners(P), FreedOf(P))

(* The utilization after it, the pool as it is by now, and what of both is *)
(* due to the reserve.  The slip forgets the growth of the pool.           *)
FreedOnly(P) == Freed(P)
UtilizationAfter(P) == [k \in Bandwidth |-> utilization[k] - Freed(P)[k]]
PoolNow == [k \in Bandwidth |-> WeightAt(curve[k])]
RatioNow == [k \in Bandwidth |-> RatioAt(curve[k])]
Available(P) == [k \in Bandwidth |-> Freed(P)[k] + (PoolNow[k] - pool[k])]

(* The last call of each handler, for the reserve. *)
SetReserve(rows, d) ==
  /\ NoneManaged(Touched(Reserve, d))
  /\ Fits(rows, Touched(Reserve, d), ForOne(d))
  /\ SetRows(adjust_resources(rows, Touched(Reserve, d), ForOne(d)))

Process(P) ==
  /\ Returnable(P)
  /\ pool' = PoolNow
  /\ ratio' = RatioNow
  /\ updated' = now

powerupexec(max) ==
  /\ configured
  /\ \E P \in SUBSET Slots :
       /\ FirstOf(P, max)
       /\ Process(P)
       /\ adjusted' \in Decayed
       /\ utilization' = UtilizationAfter(P)
       /\ owner' = [i \in Slots |-> IF i \in P THEN Nobody ELSE owner[i]]
       /\ rent' = [k \in Bandwidth |-> [i \in Slots |->
                                          IF i \in P THEN 0 ELSE rent[k][i]]]
       /\ expires' = [i \in Slots |-> IF i \in P THEN 0 ELSE expires[i]]
       /\ SetReserve(RowsAfter(P), Available(P))
  /\ UNCHANGED <<configured, curve, days, delegated, tokens, now>>

-----------------------------------------------------------------------------
(* calc_powerup_fee for an increase of the utilization u of a pool w: up   *)
(* to the adjusted utilization at the price there, beyond it along the     *)
(* curve, rounded up.  All terms are over Exponent * w^Exponent.  The slip *)
(* rounds down.                                                            *)
Smaller(m, n) == IF m <= n THEN m ELSE n
Truncated(n, d) == n \div d
Ceiling(n, d) == -((-n) \div d)

Power(b, n) ==
  LET p[i \in 0 .. n] == IF i = 0 THEN 1 ELSE b * p[i - 1]
  IN  p[n]

Flat(w, adj, n) ==
  Exponent * n * ( MinPrice * Power(w, Exponent - 1)
                   + (MaxPrice - MinPrice) * Power(adj, Exponent - 1) )
Along(w, a, b) ==
  Exponent * MinPrice * (b - a) * Power(w, Exponent - 1)
  + (MaxPrice - MinPrice) * (Power(b, Exponent) - Power(a, Exponent))

calc_powerup_fee(w, u, adj, increase) ==
  IF increase <= 0 THEN 0
  ELSE LET end == u + increase
           flat == IF u < adj THEN Flat(w, adj, Smaller(increase, adj - u)) ELSE 0
           from == Larger(u, adj)
           curved == IF from < end THEN Along(w, from, end) ELSE 0
       IN  Ceiling(flat + curved, Exponent * Power(w, Exponent))

(* What a fraction of each pool amounts to, what it costs once the orders  *)
(* of P are back, and what makes it fail.                                  *)
Amount(frac) == [k \in Bandwidth |-> (frac[k] * PoolNow[k]) \div Frac]
Fee(frac, P, a, k) ==
  calc_powerup_fee(PoolNow[k], UtilizationAfter(P)[k], a[k], Amount(frac)[k])
TotalFee(frac, P, a) ==
  (IF frac["net"] = 0 THEN 0 ELSE Fee(frac, P, a, "net"))
  + (IF frac["cpu"] = 0 THEN 0 ELSE Fee(frac, P, a, "cpu"))

InPool(frac, P, k) ==
  /\ PoolNow[k] > 0
  /\ UtilizationAfter(P)[k] + Amount(frac)[k] <= PoolNow[k]

(* A rental makes the queue move by two orders at most. *)
Batch == 2

powerup(payer, receiver, frac) ==
  /\ configured
  /\ \A k \in Bandwidth : frac[k] \in 0 .. Frac
  /\ \E P \in SUBSET Slots, i \in Slots, a \in Decayed :
       /\ FirstOf(P, Batch)
       /\ owner[i] = Nobody
       /\ Process(P)
       /\ \A k \in Bandwidth : frac[k] # 0 => InPool(frac, P, k) /\ Fee(frac, P, a, k) > 0
       /\ TotalFee(frac, P, a) >= MinFee
       /\ CanPay(tokens, payer, Fees, TotalFee(frac, P, a))
       /\ tokens' = Paid(tokens, payer, Fees, TotalFee(frac, P, a))
       /\ adjusted' = a
       /\ utilization' = [k \in Bandwidth |-> UtilizationAfter(P)[k] + Amount(frac)[k]]
       /\ owner' = [j \in Slots |-> IF j = i THEN receiver
                                    ELSE IF j \in P THEN Nobody ELSE owner[j]]
       /\ rent' = [k \in Bandwidth |-> [j \in Slots |->
                      IF j = i THEN Amount(frac)[k]
                      ELSE IF j \in P THEN 0 ELSE rent[k][j]]]
       /\ expires' = [j \in Slots |-> IF j = i THEN now + days
                                      ELSE IF j \in P THEN 0 ELSE expires[j]]
       /\ LET to == Touched(receiver, Amount(frac))
              more == ForOne(Amount(frac))
          IN  /\ NoneManaged(to)
              /\ Fits(RowsAfter(P), to, more)
              /\ SetReserve(adjust_resources(RowsAfter(P), to, more),
                            [k \in Bandwidth |-> Available(P)[k] - Amount(frac)[k]])
  /\ UNCHANGED <<configured, curve, days, delegated, now>>

-----------------------------------------------------------------------------
(* cfgpowerup: an argument that is not given keeps what is in force, the   *)
(* ratio where it is by now; a curve always starts at once.                *)
Given(x, default) == IF x = Absent THEN default ELSE x

RatioInForce(k) ==
  IF configured THEN RatioNow[k]
  ELSE curve[k].initial

Configured(arg, k) ==
  LET current == Given(arg.current, RatioInForce(k))
      target == Given(arg.target, curve[k].target)
  IN  [assumed |-> Given(arg.assumed, curve[k].assumed),
       initial |-> current, target |-> target, from |-> now,
       until |-> IF current = target THEN now ELSE Given(arg.until, curve[k].until)]

ValidCurve(c) ==
  /\ c.initial = c.target \/ c.until > now
  /\ 0 < c.target /\ c.target <= c.initial /\ c.initial <= Frac
  /\ c.assumed >= 1

(* The adjusted utilization in a pool that may have shrunk; the slip       *)
(* leaves it above the pool.                                               *)
Uncapped(a, w) == a
Capped(a, w) == Smaller(a, w)

cfgpowerup(args, d) ==
  /\ Reserve \in created
  /\ Given(d, days) > 0
  /\ LET c == [k \in Bandwidth |-> Configured(args[k], k)]
         w == [k \in Bandwidth |-> WeightAt(c[k])]
     IN  /\ \A k \in Bandwidth : ValidCurve(c[k]) /\ w[k] >= utilization[k]
         /\ \E a \in Decayed :
              adjusted' = [k \in Bandwidth |-> Capped(a[k], w[k])]
         /\ curve' = c
         /\ ratio' = [k \in Bandwidth |-> RatioAt(c[k])]
         /\ pool' = w
         /\ SetReserve(Rows, [k \in Bandwidth |-> w[k] - pool[k]])
  /\ configured' = TRUE
  /\ days' = Given(d, days)
  /\ updated' = now
  /\ UNCHANGED <<utilization, orders, delegated, tokens, now>>

-----------------------------------------------------------------------------
(* What else changes the rows: new accounts, stakes, trades of RAM, and    *)
(* administrators; and time.                                               *)
StakeFor(a, delta) ==
  /\ \A k \in Bandwidth : delegated[k][a] + delta[k] \in 0 .. MaxDelegated
  /\ \E k \in Bandwidth : delta[k] # 0
  /\ UpdateTotals(a, delta)
  /\ delegated' = [k \in Bandwidth |-> [delegated[k] EXCEPT ![a] = @ + delta[k]]]
  /\ UNCHANGED <<state, orders, tokens, now>>

TradeRam(a) ==
  /\ \E bytes \in {-1, 1} :
       weight["ram"][a] + bytes \in 0 .. MaxRam /\ UpdateRam(a, bytes)
  /\ UNCHANGED <<state, orders, delegated, tokens, now>>

Administer(a, value) ==
  /\ \/ a \in Managed /\ (setacctnet(a, value) \/ setacctcpu(a, value))
     \/ a \in RamOwners /\ setacctram(a, value)
     \/ value # Absent /\ setalimits(a, [k \in Kinds |-> value])
  /\ UNCHANGED <<state, orders, delegated, tokens, now>>

Create(a) ==
  /\ newaccount(a)
  /\ UNCHANGED <<state, orders, delegated, tokens, now>>

RentTick ==
  /\ now < MaxTime
  /\ now' = now + 1
  /\ UNCHANGED <<resources, state, orders, delegated, tokens>>

RentNext ==
  \/ \E args \in Curves, d \in Periods : cfgpowerup(args, d)
  \/ \E payer \in Payers, receiver \in Renters, frac \in Fracs :
       powerup(payer, receiver, frac)
  \/ \E max \in Maxima : powerupexec(max)
  \/ \E a \in Renters, delta \in Deltas : StakeFor(a, delta)
  \/ \E a \in RamOwners : TradeRam(a)
  \/ \E a \in Managed \cup RamOwners, value \in Values : Administer(a, value)
  \/ \E a \in Accounts : Create(a)
  \/ RentTick

RentSpec == RentInit /\ [][RentNext]_rentVars

-----------------------------------------------------------------------------
RentTypeOK ==
  /\ ResourcesTypeOK
  /\ configured \in BOOLEAN
  /\ \A k \in Bandwidth :
       /\ pool[k] \in Nat
       /\ utilization[k] \in 0 .. pool[k] /\ adjusted[k] \in 0 .. pool[k]
       /\ ratio[k] \in 0 .. Frac
       /\ rent[k] \in [Slots -> Nat]
       /\ delegated[k] \in [Accounts -> 0 .. MaxDelegated]
  /\ days \in Nat \ {0}
  /\ owner \in [Slots -> Accounts \cup {Nobody}]
  /\ expires \in [Slots -> Nat]
  /\ updated \in 0 .. now /\ now \in 1 .. MaxTime
  /\ tokens \in [Accounts -> Nat]

(* The pool, the orders and the rows agree, whatever rentals, returns,     *)
(* changes of the curve, stakes and administrators come between: what is   *)
(* rented is the sum of the orders, and every row holds what was staked    *)
(* for the account and what its orders rent, and that of the reserve the   *)
(* rest of the pool too.                                                   *)
RentedBy(k, a) == Total([i \in Slots |-> IF owner[i] = a THEN rent[k][i] ELSE 0])
PoolAgrees ==
  \A k \in Bandwidth :
    /\ utilization[k] = Total(rent[k])
    /\ \A a \in Accounts :
         weight[k][a] = delegated[k][a] + RentedBy(k, a)
                        + (IF a = Reserve THEN pool[k] - utilization[k] ELSE 0)

(* No rental outlives its days for want of something it should return: the *)
(* first expired orders, however many, can be taken back from their rows   *)
(* and given to the reserve, unless administrators manage the reserve.     *)
ExpiredCanReturn ==
  configured /\ NoneManaged({Reserve}) =>
    \A P \in SUBSET Slots :
      FirstOf(P, Cardinality(P)) =>
        /\ Returnable(P)
        /\ Fits(RowsAfter(P), Touched(Reserve, Available(P)), ForOne(Available(P)))

(* Nobody pays less for two rentals in a row than for one of both, at any  *)
(* utilization that rentals, returns and decay have led to.                *)
SplittingGainsNothing ==
  configured =>
    \A k \in Bandwidth :
      \A x, y \in 1 .. (pool[k] - utilization[k]) :
        x + y <= pool[k] - utilization[k] =>
          calc_powerup_fee(pool[k], utilization[k], adjusted[k], x)
          + calc_powerup_fee(pool[k], utilization[k] + x, adjusted[k], y)
          >= calc_powerup_fee(pool[k], utilization[k], adjusted[k], x + y)

(* eosio.system.hpp says of adjusted_utilization "This is >= utilization". *)
AdjustedCovers == \A k \in Bandwidth : utilization[k] <= adjusted[k]
==============================================================================
