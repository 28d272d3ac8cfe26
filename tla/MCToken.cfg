SPECIFICATION Spec
CONSTANTS
  alice = alice
  bob = bob
  Self = Self
  NoAccount = NoAccount
  WAX = WAX
  Codes <- MCCodes
  Accounts <- MCAccounts
  Quantities <- MCQuantities
INVARIANTS SupplyCorrect
PROPERTIES HolderConsents PayerConsents WaxIsALedger
