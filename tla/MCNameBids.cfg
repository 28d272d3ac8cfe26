SPECIFICATION FairSpec
CONSTANTS
  alice = alice
  bob = bob
  com = com
  org = org
  NamesAccount = eosio_names
  System = eosio
  Nobody = Nobody
  OneDay = 1
  Fortnight = 2
  Names <- MCNames
  Bidders <- MCBidders
  Bids <- MCBids
  Funds <- MCFunds
INVARIANTS OnlyWinnersPay
PROPERTIES WinnerKeepsName AuctionsClose
