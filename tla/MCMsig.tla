-------------------------------- MODULE MCMsig --------------------------------
(* One name under which two transactions may be proposed, one of them with *)
(* a delay; alice has two levels.  Permissions: both accounts are needed,  *)
(* or alice's owner permission is enough.                                  *)
EXTENDS Msig, TLC

CONSTANTS alice, bob, aliceActive, aliceOwner, bobActive, pay, upgrade, prop

MCNames == {prop}
MCTrxs == {pay, upgrade}
MCDelay == (pay :> 0) @@ (upgrade :> 1)
MCExpiration == (pay :> 1) @@ (upgrade :> 2)
MCLevels == {aliceActive, aliceOwner, bobActive}
MCSigners == {alice, bob}
MCActor ==
  (aliceActive :> alice) @@ (aliceOwner :> alice) @@ (bobActive :> bob)

Both == {{aliceActive, bobActive}, {aliceOwner, bobActive}}
MCPermissions ==
  {(pay :> q) @@ (upgrade :> q) : q \in {Both, Both \cup {{aliceOwner}}}}
===============================================================================
