SPECIFICATION RentSpec
CONSTANTS
  alice = alice
  eosio = eosio
  reserv = reserv
  fees = fees
  s1 = s1
  s2 = s2
  Accounts <- MCAccounts
  System = {eosio}
  Existing = {reserv, fees}
  RamGift = 1
  Absent = Absent
  Reserve = reserv
  Fees = fees
  Payers = {eosio}
  Renters <- MCRenters
  Managed = {alice, reserv}
  RamOwners = {alice}
  MaxRam = 1
  Values <- MCValues
  Slots <- MCSlots
  Nobody = Nobody
  Frac = 4
  DefaultTarget = 1
  Curves <- MCCurves
  DefaultDays = 1
  Periods <- MCPeriods
  Fracs <- MCFracs
  MinPrice = 1
  MaxPrice = 5
  Exponent = 2
  MinFee = 1
  Maxima = {1}
  Deltas <- MCDeltas
  MaxDelegated = 1
  Funds <- MCFunds
  MaxTime = 3
SYMMETRY SlotsAlike
INVARIANTS AdjustedCovers
