SPECIFICATION Spec
CONSTANTS
  p1 = p1
  p2 = p2
  user = user
  fees = fees
  saving = saving
  vpay = vpay
  bpay = bpay
  Holders <- MCHolders
  Fees = fees
  Saving = saving
  VotersAccount = vpay
  Bpay = bpay
  Users = {user}
  Rate = 2
  Year = 1
  MaxSupply = 40
  Endowment <- MCEndowment
  Incomes = {3}
  MaxTime = 5
  Producers = {p1, p2}
  Old = {p2}
  Signers = {p1, p2}
  OldClaims = {0}
  Changes <- MCChanges
  Day = 1
  MaxVotes = 1
  MaxBlocks = 2
INVARIANTS BooksBalance SharesAgree
PROPERTIES OthersNotDiluted

