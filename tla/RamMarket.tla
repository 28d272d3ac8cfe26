------------------------------ MODULE RamMarket ------------------------------
(***************************************************************************)
(* The market on which accounts buy and sell RAM (rammarket, a constant    *)
(* product market between free bytes and tokens) and the global supply it  *)
(* trades: buyram, buyrambytes, sellram, setram, setramrate and the lazy   *)
(* growth of the supply.                                                   *)
(*                                                                         *)
(* Four records must agree with each other: the two connectors of the      *)
(* market, the global totals (max_ram_size, total_ram_bytes_reserved,      *)
(* total_ram_stake), the userres rows and the balance of eosio.ram.  Each  *)
(* operation updates all of them one after the other.                      *)
(*                                                                         *)
(* Conversions are computed in doubles and truncated to integers: for the  *)
(* amounts of a run that is exact integer division, rounded down.          *)
(***************************************************************************)
EXTENDS Resources, Payments

CONSTANTS
  Ram, RamFee,     \* ram_account and ramfee_account
  Traders,         \* accounts that trade
  QuoteStart,      \* tokens the quote connector starts with
  RamStart,        \* max_ram_size at genesis
  RamSizes,        \* sizes the chain may be set to, all below 2^50
  Rates,           \* new_ram_per_block values
  Quantities,      \* token amounts a buyer may pass
  ByteCounts,      \* byte amounts a caller may pass
  Endowment,       \* initial balances
  Word,            \* 2^32: slots times rate is computed in a uint32_t
  MaxIdle,         \* bound: slots without any market action
  MaxRam           \* bound: bytes of RAM

ASSUME RamMarketAssumption ==
  /\ Ram \in Accounts /\ RamFee \in Accounts /\ Ram # RamFee
  /\ Traders \subseteq Accounts \ {Ram}
  /\ QuoteStart \in Nat \ {0}
  /\ RamStart \in Nat \ {0}
  /\ RamSizes \subseteq Nat /\ Rates \subseteq Nat
  /\ Quantities \subseteq Int /\ ByteCounts \subseteq Int
  /\ Endowment \in [Accounts -> Nat]
  /\ Endowment[Ram] = 0
  /\ Word \in Nat \ {0}
  /\ MaxIdle \in Nat /\ MaxRam \in Nat

VARIABLES
  liquid,     \* eosio.token balances
  base,       \* rammarket: bytes for sale
  quote,      \* rammarket: tokens
  maxRam,     \* max_ram_size
  reserved,   \* total_ram_bytes_reserved
  ramStake,   \* total_ram_stake
  rate,       \* new_ram_per_block
  idle        \* slots since last_ram_increase

market == <<base, quote>>
totals == <<maxRam, reserved, ramStake>>
vars == <<resources, liquid, market, totals, rate, idle>>

free_ram == maxRam - reserved

(* The state that the action init leaves: nothing is traded before it. *)
Init ==
  /\ ResourcesInit(Accounts)
  /\ liquid = Endowment
  /\ maxRam = RamStart
  /\ reserved = 0
  /\ ramStake = 0
  /\ base = free_ram
  /\ quote = QuoteStart
  /\ rate = 0
  /\ idle = 0

-----------------------------------------------------------------------------
(* What the market gives for in, and what it asks for out, rounded down.   *)
(* The slip rounds what it gives up.                                       *)
RoundedUp(inReserve, outReserve, in) ==
  (in * outReserve + inReserve + in - 1) \div (inReserve + in)
get_bancor_output(inReserve, outReserve, in) ==
  (in * outReserve) \div (inReserve + in)
get_bancor_input(outReserve, inReserve, out) ==
  IF out > outReserve THEN 0 ELSE (inReserve * out) \div (outReserve - out)

(* The fee of half a percent, rounded up. *)
Fee(amount) == (amount + 199) \div 200

(* Bytes the supply has grown by since the last market action. *)
Growth(slots) == (slots * rate) % Word
NewRam == Growth(idle)

(* The supply after update_ram_supply, on both sides.  The slip keeps the  *)
(* market as it was.                                                       *)
StaleBase == base
GrownBase == base + NewRam
GrownMax == maxRam + NewRam

-----------------------------------------------------------------------------
(* Payer buys RAM for receiver: the bytes that quant, less the fee, is     *)
(* worth after the supply has caught up.                                   *)
buyram(payer, receiver, quant) ==
  LET fee == Fee(quant)
      spent == quant - fee
      bytes == get_bancor_output(quote, GrownBase, spent)
      afterRam == Paid(liquid, payer, Ram, spent)
  IN  /\ quant > 0
      /\ CanPay(liquid, payer, Ram, spent)
      /\ CanPay(afterRam, payer, RamFee, fee)
      /\ liquid' = Paid(afterRam, payer, RamFee, fee)
      /\ bytes > 0
      /\ maxRam' = GrownMax
      /\ idle' = 0
      /\ base' = GrownBase - bytes
      /\ quote' = quote + spent
      /\ reserved' = reserved + bytes
      /\ ramStake' = ramStake + spent
      /\ UpdateRam(receiver, bytes)
      /\ UNCHANGED rate

(* The price of bytes is asked of the market as it was left by the last    *)
(* action, before the supply catches up, and the fee is added back.        *)
CostPlusFee(bytes) == (get_bancor_input(base, quote, bytes) * 200) \div 199

buyrambytes(payer, receiver, bytes) ==
  /\ bytes # base
  /\ buyram(payer, receiver, CostPlusFee(bytes))

(* What the seller of bytes gets before the fee. *)
SaleValue(bytes) == get_bancor_output(GrownBase, quote, bytes)

(* The slip of checking the row's existence only. *)
HasRow(account, bytes) == account \in hasRow
WithinQuota(account, bytes) ==
  account \in hasRow /\ weight["ram"][account] >= bytes

sellram(account, bytes) ==
  LET value == SaleValue(bytes)
      afterRam == Paid(liquid, Ram, account, value)
  IN  /\ bytes > 0
      /\ WithinQuota(account, bytes)
      /\ value > 1
      /\ ramStake - value >= 0
      /\ CanPay(liquid, Ram, account, value)
      /\ CanPay(afterRam, account, RamFee, Fee(value))
      /\ liquid' = Paid(afterRam, account, RamFee, Fee(value))
      /\ maxRam' = GrownMax
      /\ idle' = 0
      /\ base' = GrownBase + bytes
      /\ quote' = quote - value
      /\ reserved' = reserved - bytes
      /\ ramStake' = ramStake - value
      /\ UpdateRam(account, -bytes)
      /\ UNCHANGED rate

(* The chain raises the supply at once.  The growth that is due is left    *)
(* for the next market action.                                             *)
setram(size) ==
  /\ maxRam < size
  /\ size > reserved
  /\ size + NewRam <= MaxRam
  /\ base' = base + (size - maxRam)
  /\ maxRam' = size
  /\ UNCHANGED <<resources, liquid, quote, reserved, ramStake, rate, idle>>

(* A new rate applies from now on: the supply first grows by the old one.  *)
setramrate(bytesPerBlock) ==
  /\ base' = GrownBase
  /\ maxRam' = GrownMax
  /\ idle' = 0
  /\ rate' = bytesPerBlock
  /\ UNCHANGED <<resources, liquid, quote, reserved, ramStake>>

Tick ==
  /\ idle < MaxIdle
  /\ maxRam + Growth(idle + 1) <= MaxRam
  /\ idle' = idle + 1
  /\ UNCHANGED <<resources, liquid, market, totals, rate>>

Next ==
  \/ \E payer \in Traders, receiver \in Traders :
       \/ \E quant \in Quantities : buyram(payer, receiver, quant)
       \/ \E bytes \in ByteCounts : buyrambytes(payer, receiver, bytes)
  \/ \E account \in Traders, bytes \in ByteCounts : sellram(account, bytes)
  \/ \E size \in RamSizes : setram(size)
  \/ \E bytesPerBlock \in Rates : setramrate(bytesPerBlock)
  \/ Tick

Spec == Init /\ [][Next]_vars

-----------------------------------------------------------------------------
TypeOK ==
  /\ ResourcesTypeOK
  /\ liquid \in [Accounts -> Nat]
  /\ base \in Nat \ {0} /\ quote \in Nat \ {0}
  /\ maxRam \in Nat /\ reserved \in Nat /\ ramStake \in Nat
  /\ rate \in Nat /\ idle \in Nat

(* The market sells exactly the RAM that nobody owns, and holds exactly    *)
(* the tokens that were paid for the rest besides its own; the accounts'   *)
(* rows add up to what is reserved; and eosio.ram has the tokens.  Growth, *)
(* trades and changes of the size or the rate come in any order.           *)
MarketMatchesTotals == base = free_ram /\ quote = QuoteStart + ramStake
ReservedIsOwned == Total(weight["ram"]) = reserved
RamFundsHeld == liquid[Ram] = ramStake
RecordsAgree == MarketMatchesTotals /\ ReservedIsOwned /\ RamFundsHeld

(* The check of sellram that "shouldn't happen" never fails: whatever the  *)
(* history of trades, growth and rounding, a sale of everything that is    *)
(* owned, at once, is covered by what buyers have paid.                    *)
SellersAlwaysPaid ==
  \A bytes \in 1 .. reserved : SaleValue(bytes) <= ramStake

(* Buying and selling back at once never pays, with or without the fee:    *)
(* rounding is always in favour of the market.                             *)
RoundTripLoses ==
  \A spent \in Quantities :
    LET bytes == get_bancor_output(quote, GrownBase, spent)
    IN  spent > 0 =>
          get_bancor_output(GrownBase - bytes, quote + spent, bytes) <= spent

(* What the documentation of setramrate says: that the supply grows by the *)
(* rate in every block.                                                    *)
GrowsAtRate == NewRam = idle * rate
==============================================================================
