SPECIFICATION FirstVoteSpec
CONSTANTS
  alice = alice
  bob = bob
  carol = carol
  p1 = p1
  p2 = p2
  p3 = p3
  None = None
  Voters <- MCVoters
  Producers <- MCProducers
  Factor <- MCFactor
  MaxEpoch = 1
  MaxStake = 1
  Deltas <- MCDeltas
  MinActivated = 2
  MaxChoices = 1
  ScheduleSize = 2
PROPERTIES FirstVoteActivates
