SPECIFICATION PaySpec
CONSTANTS
  alice = alice
  bob = bob
  p1 = p1
  fees = fees
  saving = saving
  vpay = vpay
  bpay = bpay
  None = None
  Voters <- MCVoters
  Producers = {p1}
  Factor <- MCFactor
  MaxEpoch = 1
  MaxStake = 1
  Deltas <- MCDeltas
  MinActivated = 1
  MaxChoices = 1
  ScheduleSize = 1
  Holders <- MCHolders
  Fees = fees
  Saving = saving
  VotersAccount = vpay
  Bpay = bpay
  Users = {}
  Rate = 1
  Year = 1
  MaxSupply = 30
  Endowment <- MCEndowment
  Incomes = {}
  MaxTime = 3
  MinChoices = 1
  Unset = {0}
  Day = 1
SYMMETRY MCSymmetry
INVARIANTS PayTypeOK SharesAgree OwnStakeOnly
