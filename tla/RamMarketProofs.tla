--------------------------- MODULE RamMarketProofs ---------------------------
(***************************************************************************)
(* Proofs about the RAM market, for any sizes, prices, rates and accounts. *)
(* The arithmetic that the market relies on is in the first lemmas, about  *)
(* plain numbers; the rest follows the operations of module RamMarket.     *)
(***************************************************************************)
EXTENDS RamMarket, SumLemmas

(* Integer division rounds down. *)
LEMMA DivRoundsDown ==
  ASSUME NEW n \in Nat, NEW d \in Nat \ {0}
  PROVE  /\ n \div d \in Nat
         /\ (n \div d) * d <= n
         /\ n < (n \div d) * d + d
OBVIOUS

LEMMA ProductIsNat ==
  ASSUME NEW m \in Nat, NEW n \in Nat
  PROVE  m * n \in Nat
OBVIOUS

LEMMA ProductIsMonotone ==
  ASSUME NEW m \in Nat, NEW n \in Nat, NEW k \in Nat, m <= n
  PROVE  m * k <= n * k
<1>1. n * k = m * k + (n - m) * k
  OBVIOUS
<1>2. (n - m) * k \in Nat
  BY ProductIsNat
<1>3. m * k \in Nat
  BY ProductIsNat
<1> QED
  BY <1>1, <1>2, <1>3

(* A conversion never gives the whole reserve away, and never makes the    *)
(* product of the two reserves smaller.                                    *)
LEMMA ConversionKeepsProduct ==
  ASSUME NEW inReserve \in Nat \ {0}, NEW outReserve \in Nat \ {0},
         NEW in \in Nat, NEW out,
         out = get_bancor_output(inReserve, outReserve, in)
  PROVE  /\ out \in Nat
         /\ out < outReserve
         /\ out * (inReserve + in) <= in * outReserve
         /\ inReserve * outReserve <= (inReserve + in) * (outReserve - out)
<1>1. /\ in * outReserve \in Nat
      /\ inReserve * outReserve \in Nat
      /\ inReserve + in \in Nat \ {0}
  BY ProductIsNat
<1>2. out \in Nat /\ out * (inReserve + in) <= in * outReserve
  BY <1>1, DivRoundsDown DEF get_bancor_output
<1>3. out < outReserve
  <2> SUFFICES ASSUME outReserve <= out PROVE FALSE
    BY <1>2
  <2>1. outReserve * (inReserve + in) <= out * (inReserve + in)
    BY <1>1, <1>2, ProductIsMonotone
  <2>2. outReserve * (inReserve + in) = inReserve * outReserve + in * outReserve
    OBVIOUS
  <2>3. inReserve * outReserve > 0
    OBVIOUS
  <2>4. out * (inReserve + in) \in Nat
    BY <1>1, <1>2, ProductIsNat
  <2> QED
    BY <1>1, <1>2, <2>1, <2>2, <2>3, <2>4
<1>4. (inReserve + in) * (outReserve - out) =
        inReserve * outReserve + in * outReserve - out * (inReserve + in)
  BY <1>2
<1>5. out * (inReserve + in) \in Nat
  BY <1>1, <1>2, ProductIsNat
<1> QED
  BY <1>1, <1>2, <1>3, <1>4, <1>5

(* What a conversion gives is worth no more when it is converted back at   *)
(* once, whatever the reserves.                                            *)
LEMMA ConversionBackLoses ==
  ASSUME NEW inReserve \in Nat \ {0}, NEW outReserve \in Nat \ {0},
         NEW in \in Nat, NEW out,
         out = get_bancor_output(inReserve, outReserve, in)
  PROVE  get_bancor_output(outReserve - out, inReserve + in, out) <= in
<1>1. out \in Nat /\ out < outReserve /\ out * (inReserve + in) <= in * outReserve
  BY ConversionKeepsProduct
<1>2. out * (inReserve + in) \in Nat /\ in * outReserve \in Nat
  BY <1>1, ProductIsNat
<1> DEFINE back == (out * (inReserve + in)) \div outReserve
<1>3. get_bancor_output(outReserve - out, inReserve + in, out) = back
  <2>1. outReserve - out + out = outReserve
    BY <1>1
  <2> QED
    BY <2>1 DEF get_bancor_output
<1>4. back \in Nat /\ back * outReserve <= out * (inReserve + in)
  BY <1>2, DivRoundsDown
<1> HIDE DEF back
<1>5. back <= in
  <2> SUFFICES ASSUME in + 1 <= back PROVE FALSE
    BY <1>4
  <2>1. (in + 1) * outReserve <= back * outReserve
    BY <1>4, ProductIsMonotone
  <2>2. (in + 1) * outReserve = in * outReserve + outReserve
    OBVIOUS
  <2>3. back * outReserve \in Nat
    BY <1>4, ProductIsNat
  <2> QED
    BY <1>1, <1>2, <1>4, <2>1, <2>2, <2>3
<1> QED
  BY <1>3, <1>5

(* What is kept when the supply and the trades change the market: a fall   *)
(* of the price back to where it began leaves the tokens that began it.    *)
Covers(b, q, r) == b * q >= (b + r) * QuoteStart

LEMMA GrowthKeepsCover ==
  ASSUME NEW b \in Nat, NEW q \in Nat, NEW r \in Nat, NEW g \in Nat,
         q >= QuoteStart, Covers(b, q, r)
  PROVE  Covers(b + g, q, r)
<1> USE RamMarketAssumption
<1>1. QuoteStart * g <= q * g
  BY ProductIsMonotone
<1>2. /\ (b + g) * q = b * q + q * g
      /\ (b + g + r) * QuoteStart = (b + r) * QuoteStart + QuoteStart * g
  OBVIOUS
<1>3. /\ b * q \in Nat /\ q * g \in Nat
      /\ (b + r) * QuoteStart \in Nat /\ QuoteStart * g \in Nat
  BY ProductIsNat
<1>4. b * q >= (b + r) * QuoteStart
  BY DEF Covers
<1>5. (b + g) * q >= (b + g + r) * QuoteStart
  BY ONLY <1>1, <1>2, <1>3, <1>4
<1> QED
  BY <1>5 DEF Covers

(* The larger product covers whatever the smaller one covered.             *)
LEMMA TradeKeepsCover ==
  ASSUME NEW b \in Nat, NEW q \in Nat, NEW r \in Nat, Covers(b, q, r),
         NEW b2 \in Nat, NEW q2 \in Nat, NEW r2 \in Nat,
         b2 + r2 = b + r, b * q <= b2 * q2
  PROVE  Covers(b2, q2, r2)
<1> USE RamMarketAssumption
<1>1. b * q \in Nat /\ b2 * q2 \in Nat /\ (b + r) * QuoteStart \in Nat
  BY ProductIsNat
<1>2. (b2 + r2) * QuoteStart = (b + r) * QuoteStart
  OBVIOUS
<1>3. b * q >= (b + r) * QuoteStart /\ b * q <= b2 * q2
  BY DEF Covers
<1>4. b2 * q2 >= (b2 + r2) * QuoteStart
  BY ONLY <1>1, <1>2, <1>3
<1> QED
  BY <1>4 DEF Covers

(* A sale of what is reserved brings the price no lower than it began.     *)
LEMMA CoveredSale ==
  ASSUME NEW b \in Nat \ {0}, NEW q \in Nat \ {0}, NEW r \in Nat,
         Covers(b, q, r), NEW bytes \in 1 .. r
  PROVE  get_bancor_output(b, q, bytes) <= q - QuoteStart
<1> USE RamMarketAssumption
<1> DEFINE v == get_bancor_output(b, q, bytes)
<1>1. bytes \in Nat /\ r - bytes \in Nat
  OBVIOUS
<1>2. /\ v \in Nat /\ v < q
      /\ b * q <= (b + bytes) * (q - v)
  BY <1>1, ConversionKeepsProduct
<1> HIDE DEF v
<1>3. q - v \in Nat /\ b + bytes \in Nat /\ b + bytes <= b + r
  BY <1>1, <1>2
<1>4. (b + r) * QuoteStart <= (b + bytes) * (q - v)
  <2>1. b * q >= (b + r) * QuoteStart
    BY DEF Covers
  <2>2. b * q \in Nat /\ (b + r) * QuoteStart \in Nat
        /\ (b + bytes) * (q - v) \in Nat
    BY <1>3, ProductIsNat
  <2> QED
    BY ONLY <1>2, <2>1, <2>2
<1>5. (b + bytes) * QuoteStart <= (b + r) * QuoteStart
  BY <1>3, ProductIsMonotone
<1>6. QuoteStart <= q - v
  <2> SUFFICES ASSUME q - v + 1 <= QuoteStart PROVE FALSE
    BY <1>3
  <2>1. (q - v + 1) * (b + bytes) <= QuoteStart * (b + bytes)
    BY <1>3, ProductIsMonotone
  <2>2. (q - v + 1) * (b + bytes) = (b + bytes) * (q - v) + (b + bytes)
    BY <1>3
  <2>3. QuoteStart * (b + bytes) = (b + bytes) * QuoteStart
    BY <1>3
  <2>4. b + bytes > 0
    BY <1>1
  <2>5. /\ (b + bytes) * (q - v) \in Nat /\ (b + bytes) * QuoteStart \in Nat
        /\ (b + r) * QuoteStart \in Nat
    BY <1>3, ProductIsNat
  <2> QED
    BY ONLY <1>3, <1>4, <1>5, <2>1, <2>2, <2>3, <2>4, <2>5
<1>7. v <= q - QuoteStart
  BY ONLY <1>2, <1>6, QuoteStart \in Nat, q \in Nat
<1> QED
  BY <1>7 DEF v

-----------------------------------------------------------------------------
(* The invariant: besides the types and the records of the module, that    *)
(* the market covers a sale of everything.                                 *)
MarketInv ==
  /\ TypeOK
  /\ RecordsAgree
  /\ Covers(base, quote, reserved)

LEMMA ModType ==
  ASSUME NEW n \in Nat, NEW d \in Nat \ {0}
  PROVE  n % d \in Nat
OBVIOUS

(* Growth of the supply is always due to the market as well.               *)
LEMMA GrowthFacts ==
  ASSUME MarketInv
  PROVE  /\ NewRam \in Nat
         /\ GrownBase \in Nat \ {0} /\ GrownMax \in Nat
         /\ GrownBase = GrownMax - reserved
         /\ quote >= QuoteStart
         /\ Covers(GrownBase, quote, reserved)
<1> USE RamMarketAssumption
<1>1. /\ base \in Nat \ {0} /\ quote \in Nat \ {0}
      /\ maxRam \in Nat /\ reserved \in Nat /\ ramStake \in Nat
      /\ rate \in Nat /\ idle \in Nat
      /\ base = maxRam - reserved /\ quote = QuoteStart + ramStake
  BY DEF MarketInv, TypeOK, RecordsAgree, MarketMatchesTotals, free_ram
<1>2. NewRam \in Nat
  BY <1>1, ProductIsNat, ModType DEF NewRam, Growth
<1>3. /\ GrownBase \in Nat \ {0} /\ GrownMax \in Nat
      /\ GrownBase = GrownMax - reserved
      /\ quote >= QuoteStart
  BY <1>1, <1>2 DEF GrownBase, GrownMax
<1>4. Covers(base, quote, reserved)
  BY DEF MarketInv
<1>5. Covers(base + NewRam, quote, reserved)
  <2> DEFINE g == NewRam
  <2>1. g \in Nat
    BY <1>2
  <2> HIDE DEF g
  <2>2. Covers(base + g, quote, reserved)
    BY <1>1, <1>3, <1>4, <2>1, GrowthKeepsCover
  <2> QED
    BY <2>2 DEF g
<1> QED
  BY <1>2, <1>3, <1>5 DEF GrownBase

(* The rows of RAM, once one of them changes.                              *)
LEMMA UpdateRamKeeps ==
  ASSUME ResourcesTypeOK, NEW a \in Accounts, NEW bytes \in Int,
         weight["ram"][a] + bytes >= 0,
         UpdateRam(a, bytes)
  PROVE  /\ ResourcesTypeOK'
         /\ Total(weight["ram"]) \in Nat
         /\ Total(weight'["ram"]) = Total(weight["ram"]) + bytes
<1> USE ResourcesAssumption
<1> DEFINE w == weight["ram"]
           n == w[a] + bytes
<1>1. "ram" \in Kinds
  BY DEF Kinds
<1>2. /\ weight \in [Kinds -> [Accounts -> Nat]]
      /\ w \in [Accounts -> Nat]
      /\ w[a] \in Nat /\ n \in Nat
  BY <1>1 DEF ResourcesTypeOK
<1>3. /\ weight' = [weight EXCEPT !["ram"][a] = @ + bytes]
      /\ weight'["ram"] = [w EXCEPT ![a] = n]
      /\ weight'["ram"][a] = n
  BY <1>1, <1>2 DEF UpdateRam
<1>4. weight' \in [Kinds -> [Accounts -> Nat]]
  BY <1>1, <1>2, <1>3
<1>5. limit' \in [Kinds -> [Accounts -> Int]]
  <2>1. n + RamGift \in Int
    BY <1>2
  <2> HIDE DEF n
  <2> QED
    BY <1>1, <1>3, <2>1 DEF UpdateRam, ResourcesTypeOK
<1>6. /\ hasRow' \subseteq created' /\ created' \subseteq Accounts
      /\ managed' \in [Kinds -> SUBSET created']
  BY DEF UpdateRam, ResourcesTypeOK
<1>7. Total(w) \in Nat
  BY <1>2, TotalType
<1>8. n - w[a] = bytes
  BY <1>2
<1>9. Total([w EXCEPT ![a] = n]) = Total(w) - w[a] + n
  <2> HIDE DEF w, n
  <2> QED
    BY ONLY <1>2, a \in Accounts, IsFiniteSet(Accounts), TotalUpdate
<1>10. Total([w EXCEPT ![a] = n]) = Total(w) + bytes
  <2>1. w[a] \in Nat /\ n \in Nat
    BY <1>2
  <2> HIDE DEF w, n
  <2> QED
    BY <1>7, <1>8, <1>9, <2>1
<1> QED
  BY <1>3, <1>4, <1>5, <1>6, <1>7, <1>10 DEF ResourcesTypeOK

LEMMA FeeType ==
  ASSUME NEW amount \in Nat
  PROVE  Fee(amount) \in Nat
BY DEF Fee

(* A payment keeps balances natural, and moves them.                       *)
LEMMA PaidType ==
  ASSUME NEW l \in [Accounts -> Nat], NEW from \in Accounts, NEW to \in Accounts,
         NEW amount \in Int, CanPay(l, from, to, amount)
  PROVE  /\ Paid(l, from, to, amount) \in [Accounts -> Nat]
         /\ Paid(l, from, to, amount)[from] = l[from] - amount
         /\ Paid(l, from, to, amount)[to] = l[to] + amount
         /\ \A a \in Accounts \ {from, to} : Paid(l, from, to, amount)[a] = l[a]
BY DEF CanPay, Paid

-----------------------------------------------------------------------------
LEMMA InitEstablishes == Init => MarketInv
<1> SUFFICES ASSUME Init PROVE MarketInv
  OBVIOUS
<1> USE RamMarketAssumption, ResourcesAssumption
<1>1. ResourcesTypeOK
  <2>1. hasRow \subseteq created /\ created = Accounts
    BY DEF Init, ResourcesInit
  <2>2. weight \in [Kinds -> [Accounts -> Nat]]
    BY DEF Init, ResourcesInit
  <2>3. managed \in [Kinds -> SUBSET created]
    BY DEF Init, ResourcesInit
  <2>4. limit \in [Kinds -> [Accounts -> Int]]
    BY DEF Init, ResourcesInit, Unlimited
  <2> QED
    BY <2>1, <2>2, <2>3, <2>4 DEF ResourcesTypeOK
<1>2. /\ liquid = Endowment /\ maxRam = RamStart /\ reserved = 0
      /\ ramStake = 0 /\ base = RamStart /\ quote = QuoteStart
      /\ rate = 0 /\ idle = 0
  BY DEF Init, free_ram
<1>3. TypeOK
  BY <1>1, <1>2 DEF TypeOK
<1>4. MarketMatchesTotals /\ RamFundsHeld
  BY <1>2 DEF MarketMatchesTotals, RamFundsHeld, free_ram
<1>5. ReservedIsOwned
  <2>1. weight["ram"] = [a \in Accounts |-> 0]
    BY DEF Init, ResourcesInit, Kinds
  <2>2. /\ weight["ram"] \in [Accounts -> Nat]
        /\ \A a \in Accounts : weight["ram"][a] = 0
    BY <2>1
  <2>3. Total(weight["ram"]) = 0
    BY <2>2, TotalZero
  <2> QED
    BY <1>2, <2>3 DEF ReservedIsOwned
<1>6. Covers(base, quote, reserved)
  <2>1. base * quote = (base + reserved) * QuoteStart
    BY <1>2
  <2>2. base * quote \in Nat
    BY <1>2, ProductIsNat
  <2> QED
    BY <2>1, <2>2 DEF Covers
<1> QED
  BY <1>3, <1>4, <1>5, <1>6 DEF MarketInv, RecordsAgree

LEMMA BuyKeeps ==
  ASSUME MarketInv, NEW payer \in Traders, NEW receiver \in Traders,
         NEW quant \in Int, buyram(payer, receiver, quant)
  PROVE  MarketInv'
<1> USE RamMarketAssumption
<1> DEFINE fee == Fee(quant)
           spent == quant - fee
           bytes == get_bancor_output(quote, GrownBase, spent)
           afterRam == Paid(liquid, payer, Ram, spent)
<1>1. /\ quant > 0
      /\ CanPay(liquid, payer, Ram, spent)
      /\ CanPay(afterRam, payer, RamFee, fee)
      /\ liquid' = Paid(afterRam, payer, RamFee, fee)
      /\ bytes > 0
      /\ maxRam' = GrownMax /\ idle' = 0
      /\ base' = GrownBase - bytes
      /\ quote' = quote + spent
      /\ reserved' = reserved + bytes
      /\ ramStake' = ramStake + spent
      /\ UpdateRam(receiver, bytes)
      /\ rate' = rate
  BY DEF buyram
<1>2. fee \in Nat /\ spent \in Nat
  <2>1. fee \in Nat
    BY <1>1, FeeType
  <2> HIDE DEF fee
  <2>2. spent > 0
    BY <1>1 DEF CanPay
  <2> QED
    BY <2>1, <2>2
<1> HIDE DEF fee, spent, bytes, afterRam
<1>3. /\ ResourcesTypeOK /\ liquid \in [Accounts -> Nat]
      /\ base \in Nat \ {0} /\ quote \in Nat \ {0}
      /\ maxRam \in Nat /\ reserved \in Nat /\ ramStake \in Nat
      /\ rate \in Nat /\ idle \in Nat
  BY DEF MarketInv, TypeOK
<1>4. /\ base = maxRam - reserved /\ quote = QuoteStart + ramStake
      /\ Total(weight["ram"]) = reserved /\ liquid[Ram] = ramStake
  BY DEF MarketInv, RecordsAgree, MarketMatchesTotals, ReservedIsOwned,
         RamFundsHeld, free_ram
<1>5. /\ GrownBase \in Nat \ {0} /\ GrownMax \in Nat
      /\ GrownBase = GrownMax - reserved
      /\ Covers(GrownBase, quote, reserved)
  BY GrowthFacts
<1>6. /\ bytes \in Nat /\ bytes < GrownBase
      /\ quote * GrownBase <= (quote + spent) * (GrownBase - bytes)
  <2> DEFINE g == GrownBase
  <2>1. g \in Nat \ {0} /\ bytes = get_bancor_output(quote, g, spent)
    BY <1>5 DEF bytes
  <2> HIDE DEF g
  <2>2. /\ bytes \in Nat /\ bytes < g
        /\ quote * g <= (quote + spent) * (g - bytes)
    BY <1>2, <1>3, <2>1, ConversionKeepsProduct
  <2> QED
    BY <2>2 DEF g
<1>7. /\ payer \in Accounts /\ receiver \in Accounts
      /\ payer # Ram /\ payer # RamFee
  BY <1>1 DEF CanPay
<1>8. /\ liquid' \in [Accounts -> Nat]
      /\ liquid'[Ram] = liquid[Ram] + spent
  <2>1. /\ afterRam \in [Accounts -> Nat]
        /\ afterRam[Ram] = liquid[Ram] + spent
    BY <1>1, <1>2, <1>3, <1>7, PaidType DEF afterRam
  <2>2. /\ liquid' \in [Accounts -> Nat]
        /\ liquid'[Ram] = afterRam[Ram]
    BY <1>1, <1>2, <1>7, <2>1, PaidType
  <2> QED
    BY <2>1, <2>2
<1>9. /\ ResourcesTypeOK'
      /\ Total(weight'["ram"]) = Total(weight["ram"]) + bytes
  <2>1. weight["ram"][receiver] \in Nat
    BY <1>3, <1>7 DEF ResourcesTypeOK, Kinds
  <2>2. weight["ram"][receiver] + bytes >= 0 /\ bytes \in Int
    BY <1>6, <2>1
  <2> QED
    BY <1>1, <1>3, <1>7, <2>2, UpdateRamKeeps
<1>10. TypeOK'
  BY <1>1, <1>2, <1>3, <1>5, <1>6, <1>8, <1>9 DEF TypeOK
<1>11. MarketMatchesTotals'
  <2>1. base' = maxRam' - reserved' /\ quote' = QuoteStart + ramStake'
    BY <1>1, <1>2, <1>3, <1>4, <1>5, <1>6
  <2> QED
    BY <2>1 DEF MarketMatchesTotals, free_ram
<1>12. ReservedIsOwned' /\ RamFundsHeld'
  BY <1>1, <1>4, <1>8, <1>9 DEF ReservedIsOwned, RamFundsHeld
<1>13. Covers(base', quote', reserved')
  <2> DEFINE g == GrownBase
             b2 == g - bytes
             q2 == quote + spent
             r2 == reserved + bytes
  <2>1. g \in Nat \ {0} /\ b2 \in Nat /\ q2 \in Nat /\ r2 \in Nat
    BY <1>2, <1>3, <1>5, <1>6
  <2>2. b2 + r2 = g + reserved /\ g * quote <= b2 * q2
    <3>1. g * quote = quote * g /\ b2 * q2 = q2 * b2
      BY <1>3, <2>1
    <3> QED
      BY <1>3, <1>6, <2>1, <3>1
  <2>3. Covers(g, quote, reserved)
    BY <1>5
  <2>4. base' = b2 /\ quote' = q2 /\ reserved' = r2
    BY <1>1
  <2> HIDE DEF g, b2, q2, r2
  <2>5. Covers(b2, q2, r2)
    BY <1>3, <2>1, <2>2, <2>3, TradeKeepsCover
  <2> QED
    BY <2>4, <2>5
<1> QED
  BY <1>10, <1>11, <1>12, <1>13 DEF MarketInv, RecordsAgree, Covers

LEMMA SellKeeps ==
  ASSUME MarketInv, NEW account \in Traders, NEW bytes \in Int,
         sellram(account, bytes)
  PROVE  MarketInv'
<1> USE RamMarketAssumption
<1> DEFINE value == SaleValue(bytes)
           fee == Fee(value)
           afterRam == Paid(liquid, Ram, account, value)
<1>1. /\ bytes > 0
      /\ weight["ram"][account] >= bytes
      /\ value > 1
      /\ ramStake - value >= 0
      /\ CanPay(liquid, Ram, account, value)
      /\ CanPay(afterRam, account, RamFee, fee)
      /\ liquid' = Paid(afterRam, account, RamFee, fee)
      /\ maxRam' = GrownMax /\ idle' = 0
      /\ base' = GrownBase + bytes
      /\ quote' = quote - value
      /\ reserved' = reserved - bytes
      /\ ramStake' = ramStake - value
      /\ UpdateRam(account, -bytes)
      /\ rate' = rate
  BY DEF sellram, WithinQuota
<1>2. /\ ResourcesTypeOK /\ liquid \in [Accounts -> Nat]
      /\ base \in Nat \ {0} /\ quote \in Nat \ {0}
      /\ maxRam \in Nat /\ reserved \in Nat /\ ramStake \in Nat
      /\ rate \in Nat /\ idle \in Nat
  BY DEF MarketInv, TypeOK
<1>3. /\ base = maxRam - reserved /\ quote = QuoteStart + ramStake
      /\ Total(weight["ram"]) = reserved /\ liquid[Ram] = ramStake
  BY DEF MarketInv, RecordsAgree, MarketMatchesTotals, ReservedIsOwned,
         RamFundsHeld, free_ram
<1>4. /\ GrownBase \in Nat \ {0} /\ GrownMax \in Nat
      /\ GrownBase = GrownMax - reserved
      /\ Covers(GrownBase, quote, reserved)
  BY GrowthFacts
<1>5. bytes \in Nat
  BY <1>1
<1>6. /\ value \in Nat /\ value < quote
      /\ GrownBase * quote <= (GrownBase + bytes) * (quote - value)
  <2> DEFINE g == GrownBase
  <2>1. g \in Nat \ {0} /\ value = get_bancor_output(g, quote, bytes)
    BY <1>4 DEF SaleValue
  <2> HIDE DEF g, value
  <2>2. /\ value \in Nat /\ value < quote
        /\ g * quote <= (g + bytes) * (quote - value)
    BY <1>2, <1>5, <2>1, ConversionKeepsProduct
  <2> QED
    BY <2>2 DEF g
<1> HIDE DEF value
<1>7. fee \in Nat
  BY <1>6, FeeType
<1> HIDE DEF fee, afterRam
<1>8. account \in Accounts /\ account # Ram /\ account # RamFee
  BY <1>1 DEF CanPay
<1>9. /\ liquid' \in [Accounts -> Nat]
      /\ liquid'[Ram] = liquid[Ram] - value
  <2>1. /\ afterRam \in [Accounts -> Nat]
        /\ afterRam[Ram] = liquid[Ram] - value
    BY <1>1, <1>2, <1>6, <1>8, PaidType DEF afterRam
  <2>2. /\ liquid' \in [Accounts -> Nat]
        /\ liquid'[Ram] = afterRam[Ram]
    BY <1>1, <1>7, <1>8, <2>1, PaidType
  <2> QED
    BY <2>1, <2>2
<1>10. weight["ram"][account] \in Nat
  BY <1>2, <1>8 DEF ResourcesTypeOK, Kinds
<1>11. /\ ResourcesTypeOK'
       /\ Total(weight["ram"]) \in Nat
       /\ Total(weight'["ram"]) = Total(weight["ram"]) - bytes
  <2> DEFINE change == -bytes
  <2>1. weight["ram"][account] + change >= 0 /\ change \in Int
    BY <1>1, <1>5, <1>10
  <2>2. UpdateRam(account, change)
    BY <1>1
  <2> HIDE DEF change
  <2>3. /\ ResourcesTypeOK'
        /\ Total(weight["ram"]) \in Nat
        /\ Total(weight'["ram"]) = Total(weight["ram"]) + change
    BY <1>2, <1>8, <2>1, <2>2, UpdateRamKeeps
  <2> QED
    BY <1>5, <2>3 DEF change
<1>12. reserved - bytes \in Nat
  <2>1. weight["ram"] \in [Accounts -> Nat]
    BY <1>2 DEF ResourcesTypeOK, Kinds
  <2>2. weight["ram"][account] <= Total(weight["ram"])
    BY <1>8, <2>1, TotalBound, ResourcesAssumption
  <2> QED
    BY <1>1, <1>2, <1>3, <1>5, <1>10, <2>2
<1>13. TypeOK'
  BY <1>1, <1>2, <1>4, <1>5, <1>6, <1>9, <1>11, <1>12 DEF TypeOK
<1>14. MarketMatchesTotals'
  <2>1. base' = maxRam' - reserved' /\ quote' = QuoteStart + ramStake'
    BY <1>1, <1>2, <1>3, <1>4, <1>5, <1>6
  <2> QED
    BY <2>1 DEF MarketMatchesTotals, free_ram
<1>15. ReservedIsOwned' /\ RamFundsHeld'
  BY <1>1, <1>3, <1>9, <1>11 DEF ReservedIsOwned, RamFundsHeld
<1>16. Covers(base', quote', reserved')
  <2> DEFINE g == GrownBase
             b2 == g + bytes
             q2 == quote - value
             r2 == reserved - bytes
  <2>1. g \in Nat \ {0} /\ b2 \in Nat /\ q2 \in Nat /\ r2 \in Nat
    BY <1>2, <1>4, <1>5, <1>6, <1>12
  <2>2. b2 + r2 = g + reserved /\ g * quote <= b2 * q2
    BY <1>2, <1>5, <1>6, <2>1
  <2>3. Covers(g, quote, reserved)
    BY <1>4
  <2>4. base' = b2 /\ quote' = q2 /\ reserved' = r2
    BY <1>1
  <2> HIDE DEF g, b2, q2, r2
  <2>5. Covers(b2, q2, r2)
    BY <1>2, <2>1, <2>2, <2>3, TradeKeepsCover
  <2> QED
    BY <2>4, <2>5
<1> QED
  BY <1>13, <1>14, <1>15, <1>16 DEF MarketInv, RecordsAgree, Covers

(* The chain may raise the supply, change its growth, or wait. *)
LEMMA SupplyKeeps ==
  ASSUME MarketInv,
         \/ \E size \in RamSizes : setram(size)
         \/ \E bytesPerBlock \in Rates : setramrate(bytesPerBlock)
         \/ Tick
         \/ UNCHANGED vars
  PROVE  MarketInv'
<1> USE RamMarketAssumption
<1>1. /\ ResourcesTypeOK /\ liquid \in [Accounts -> Nat]
      /\ base \in Nat \ {0} /\ quote \in Nat \ {0}
      /\ maxRam \in Nat /\ reserved \in Nat /\ ramStake \in Nat
      /\ rate \in Nat /\ idle \in Nat
  BY DEF MarketInv, TypeOK
<1>2. /\ base = maxRam - reserved /\ quote = QuoteStart + ramStake
      /\ Total(weight["ram"]) = reserved /\ liquid[Ram] = ramStake
      /\ Covers(base, quote, reserved)
  BY DEF MarketInv, RecordsAgree, MarketMatchesTotals, ReservedIsOwned,
         RamFundsHeld, free_ram
<1>3. /\ resources' = resources /\ liquid' = liquid
      /\ quote' = quote /\ reserved' = reserved /\ ramStake' = ramStake
  BY DEF setram, setramrate, Tick, vars, market, totals
<1>4. PICK g \in Nat : /\ base' = base + g /\ maxRam' = maxRam + g
                       /\ rate' \in Nat /\ idle' \in Nat
  <2>1. ASSUME NEW size \in RamSizes, setram(size)
        PROVE  \E g \in Nat : /\ base' = base + g /\ maxRam' = maxRam + g
                              /\ rate' \in Nat /\ idle' \in Nat
    <3>1. size - maxRam \in Nat /\ base' = base + (size - maxRam)
          /\ maxRam' = maxRam + (size - maxRam)
          /\ rate' = rate /\ idle' = idle
      BY <1>1, <2>1 DEF setram
    <3> QED
      BY <1>1, <3>1
  <2>2. ASSUME NEW bytesPerBlock \in Rates, setramrate(bytesPerBlock)
        PROVE  \E g \in Nat : /\ base' = base + g /\ maxRam' = maxRam + g
                              /\ rate' \in Nat /\ idle' \in Nat
    <3>1. /\ base' = base + NewRam /\ maxRam' = maxRam + NewRam
          /\ rate' \in Nat /\ idle' \in Nat
      BY <2>2 DEF setramrate, GrownBase, GrownMax
    <3> QED
      BY <3>1, GrowthFacts
  <2>3. ASSUME Tick \/ UNCHANGED vars
        PROVE  \E g \in Nat : /\ base' = base + g /\ maxRam' = maxRam + g
                              /\ rate' \in Nat /\ idle' \in Nat
    <3>1. base' = base + 0 /\ maxRam' = maxRam + 0 /\ rate' = rate
      BY <1>1, <2>3 DEF Tick, vars, market, totals
    <3>2. idle' \in Nat
      BY <1>1, <2>3 DEF Tick, vars
    <3> QED
      BY <1>1, <3>1, <3>2
  <2> QED
    BY <2>1, <2>2, <2>3
<1>5. ResourcesTypeOK' /\ weight' = weight
  BY <1>1, <1>3 DEF ResourcesTypeOK, resources
<1>6. TypeOK'
  BY <1>1, <1>3, <1>4, <1>5 DEF TypeOK
<1>7. RecordsAgree'
  <2>1. base' = maxRam' - reserved'
    BY <1>1, <1>2, <1>3, <1>4
  <2> QED
    BY <1>2, <1>3, <1>5, <2>1 DEF RecordsAgree, MarketMatchesTotals,
       ReservedIsOwned, RamFundsHeld, free_ram
<1>8. Covers(base', quote', reserved')
  <2>1. quote >= QuoteStart
    BY <1>1, <1>2
  <2>2. Covers(base + g, quote, reserved)
    BY <1>1, <1>2, <2>1, GrowthKeepsCover
  <2> QED
    BY <1>3, <1>4, <2>2
<1> QED
  BY <1>6, <1>7, <1>8 DEF MarketInv, Covers

LEMMA StepKeeps ==
  ASSUME MarketInv, [Next]_vars
  PROVE  MarketInv'
<1> USE RamMarketAssumption
<1>1. ASSUME NEW payer \in Traders, NEW receiver \in Traders,
             NEW quant \in Quantities, buyram(payer, receiver, quant)
      PROVE  MarketInv'
  <2>1. quant \in Int
    OBVIOUS
  <2> QED
    BY <1>1, <2>1, BuyKeeps
<1>2. ASSUME NEW payer \in Traders, NEW receiver \in Traders,
             NEW bytes \in ByteCounts, buyrambytes(payer, receiver, bytes)
      PROVE  MarketInv'
  <2> DEFINE cost == CostPlusFee(bytes)
  <2>1. buyram(payer, receiver, cost)
    BY <1>2 DEF buyrambytes
  <2>2. cost \in Int
    <3>1. base \in Nat /\ quote \in Nat /\ bytes \in Int /\ bytes # base
      BY <1>2 DEF MarketInv, TypeOK, buyrambytes
    <3>2. quote * bytes \in Int
      BY <3>1
    <3>3. get_bancor_input(base, quote, bytes) \in Int
      BY <3>1, <3>2 DEF get_bancor_input
    <3> QED
      BY <3>3 DEF CostPlusFee
  <2> HIDE DEF cost
  <2> QED
    BY <2>1, <2>2, BuyKeeps
<1>3. ASSUME NEW account \in Traders, NEW bytes \in ByteCounts,
             sellram(account, bytes)
      PROVE  MarketInv'
  <2>1. bytes \in Int
    OBVIOUS
  <2> QED
    BY <1>3, <2>1, SellKeeps
<1> QED
  BY <1>1, <1>2, <1>3, SupplyKeeps DEF Next

(* The market, its totals, the rows and the funds stay in step.            *)
THEOREM MarketInvariant == Spec => []MarketInv
<1>1. Init => MarketInv
  BY InitEstablishes
<1>2. MarketInv /\ [Next]_vars => MarketInv'
  BY StepKeeps
<1> QED
  BY <1>1, <1>2, PTL DEF Spec

(* No reserve of the market is ever used up, and no total is negative.     *)
THEOREM TypeCorrect == Spec => []TypeOK
<1>1. MarketInv => TypeOK
  BY DEF MarketInv
<1> QED
  BY <1>1, MarketInvariant, PTL

(* The connectors, the totals, the rows and eosio.ram's balance agree.     *)
THEOREM RecordsAlwaysAgree == Spec => []RecordsAgree
<1>1. MarketInv => RecordsAgree
  BY DEF MarketInv
<1> QED
  BY <1>1, MarketInvariant, PTL

(* A sale never meets the check that "shouldn't happen": what is asked for *)
(* any amount of RAM that is owned has been paid in before.                *)
THEOREM SalesAreCovered == Spec => []SellersAlwaysPaid
<1>1. ASSUME MarketInv
      PROVE  SellersAlwaysPaid
  <2> SUFFICES ASSUME NEW bytes \in 1 .. reserved
               PROVE  SaleValue(bytes) <= ramStake
    BY DEF SellersAlwaysPaid
  <2> DEFINE g == GrownBase
  <2>1. /\ g \in Nat \ {0} /\ quote \in Nat \ {0} /\ reserved \in Nat
        /\ Covers(g, quote, reserved)
    BY <1>1, GrowthFacts DEF MarketInv, TypeOK
  <2>2. quote = QuoteStart + ramStake /\ ramStake \in Nat
    BY <1>1 DEF MarketInv, RecordsAgree, MarketMatchesTotals, TypeOK
  <2>3. SaleValue(bytes) = get_bancor_output(g, quote, bytes)
    BY DEF SaleValue
  <2> HIDE DEF g
  <2>4. get_bancor_output(g, quote, bytes) <= quote - QuoteStart
    BY <2>1, CoveredSale
  <2>5. quote - QuoteStart = ramStake
    BY <2>2, RamMarketAssumption
  <2> QED
    BY <2>3, <2>4, <2>5
<1> QED
  BY <1>1, MarketInvariant, PTL

(* Nobody gains by buying RAM and selling it back at once, at any price    *)
(* that trades, growth and rounding have led to: RoundTripLoses.           *)
THEOREM RoundTripsLose == Spec => []RoundTripLoses
<1>1. ASSUME MarketInv
      PROVE  RoundTripLoses
  <2> DEFINE g == GrownBase
  <2>1. g \in Nat \ {0} /\ quote \in Nat \ {0}
    BY <1>1, GrowthFacts DEF MarketInv, TypeOK
  <2> HIDE DEF g
  <2> SUFFICES ASSUME NEW spent \in Quantities, spent > 0,
                      NEW bytes, bytes = get_bancor_output(quote, g, spent)
               PROVE  get_bancor_output(g - bytes, quote + spent, bytes) <= spent
    BY DEF RoundTripLoses, g
  <2>2. spent \in Nat
    BY RamMarketAssumption
  <2> QED
    BY <2>1, <2>2, ConversionBackLoses
<1> QED
  BY <1>1, MarketInvariant, PTL
==============================================================================
