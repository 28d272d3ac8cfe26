SPECIFICATION Spec
CONSTANTS
  alice = alice
  bob = bob
  carol = carol
  board = board
  rev = rev
  None = None
  Voters <- MCVoters
  Proposers <- MCProposers
  Committees <- MCCommittees
  Reviewers <- MCReviewers
  Envs <- MCEnvs
  Plans <- MCPlans
  WpsStakes <- MCWpsStakes
  OtherStake = 1
  Savings = 2
  Factor <- MCFactor
  Deltas <- MCDeltas
  MaxStake = 1
  MaxTime = 3
  Day = 1
  MinDuration = 2
  MinEditDuration = 1
  MinIterations = 1
  MinEditIterations = 2
  MaxIterations = 2
  MaxVotes = 1

PROPERTIES NegativeByRoundingOnly

