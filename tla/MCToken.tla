------------------------------- MODULE MCToken -------------------------------
(* Token on two users, the contract's account and one code. *)
EXTENDS Token

CONSTANTS alice, bob, WAX

MCAccounts == {alice, bob, Self}
MCCodes == {WAX}
MCQuantities == -1 .. 3

(* The one code of this instance is a ledger: see LedgerOf in Token. *)
WaxLedger == INSTANCE Ledger WITH holding <- balance[WAX],
                                  issued <- supply[WAX]
WaxIsALedger == WaxLedger!Spec
==============================================================================
