SPECIFICATION FairSpec
CONSTANTS
  alice = alice
  bob = bob
  Stake = eosio_stake
  B1 = bob
  Absent = Absent
  RamGift = 1
  Delay = 1
  Vesting = 1
  Accounts <- MCAccounts
  Receivers <- MCReceivers
  Unbacked <- MCUnbacked
  System <- MCSystem
  Amounts <- MCAmounts
  Endowment <- MCEndowment
INVARIANTS StakeBacked RecordsMatchStake
PROPERTIES NoEarlyExit WealthConsents RefundArrives
