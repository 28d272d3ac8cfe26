SPECIFICATION MsigSpec
CONSTANTS
  alice = alice
  bob = bob
  aliceActive = aliceActive
  aliceOwner = aliceOwner
  bobActive = bobActive
  pay = pay
  upgrade = upgrade
  prop = prop
  NoTrx = NoTrx
  MaxTime = 3
  Names <- MCNames
  Trxs <- MCTrxs
  Delay <- MCDelay
  Expiration <- MCExpiration
  Levels <- MCLevels
  Signers <- MCSigners
  Actor <- MCActor
  Permissions <- MCPermissions
PROPERTIES ExecutedByConsent DelayRespected
