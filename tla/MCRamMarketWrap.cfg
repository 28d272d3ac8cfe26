SPECIFICATION Spec
CONSTANTS
  alice = alice
  bob = bob
  Ram = eosio_ram
  RamFee = eosio_ramfee
  Absent = Absent
  RamGift = 1
  QuoteStart = 4
  RamStart = 8
  Word = 8
  MaxIdle = 3
  MaxRam = 16
  Accounts <- MCAccounts
  System <- MCSystem
  Traders <- MCTraders
  RamSizes <- MCRamSizes
  Rates <- MCRates
  Quantities <- MCQuantities
  ByteCounts <- MCByteCounts
  Endowment <- MCEndowment
INVARIANT GrowsAtRate
