------------------------------ MODULE Resources ------------------------------
(***************************************************************************)
(* What an account may use of the chain: the userres table of              *)
(* eosio.system (weights bought or staked), the managed flags kept in its  *)
(* voters table, and the limits set in the chain itself.                   *)
(*                                                                         *)
(* Staking, RAM purchases and rentals change the weights and copy them to  *)
(* the limits; the chain's administrators may take a resource of an        *)
(* account under management, after which its limit no longer follows the   *)
(* weight until it is given back.  The three handlers setacctram,          *)
(* setacctnet and setacctcpu and the two copies of the update of totals    *)
(* (changebw, adjust_resources) must keep weights and limits together.     *)
(***************************************************************************)
EXTENDS Sums

CONSTANTS
  Accounts,    \* account names
  System,      \* those that exist from genesis, with unlimited resources
  RamGift,     \* ram_gift_bytes
  Absent       \* an optional argument that is not given

ASSUME ResourcesAssumption ==
  /\ IsFiniteSet(Accounts)
  /\ System \subseteq Accounts
  /\ RamGift \in Nat
  /\ Absent \notin Int

Bandwidth == {"net", "cpu"}
Kinds == {"ram"} \cup Bandwidth
Unlimited == -1

VARIABLES
  created,   \* accounts that exist
  hasRow,    \* accounts with a userres row
  weight,    \* userres: weight of each kind, 0 without a row
  managed,   \* voters.flags1: for each kind, the accounts under management
  limit      \* the chain's limit of each kind

resources == <<created, hasRow, weight, managed, limit>>

ResourcesInit(existing) ==
  /\ created = System \cup existing
  /\ hasRow = existing \ System
  /\ weight = [k \in Kinds |-> [a \in Accounts |-> 0]]
  /\ managed = [k \in Kinds |-> {}]
  /\ limit = [k \in Kinds |->
                [a \in Accounts |-> IF a \in System THEN Unlimited ELSE 0]]

Larger(m, n) == IF m >= n THEN m ELSE n

-----------------------------------------------------------------------------
(* A copy of the update that does not look at the managed flags. *)
LimitsOfAll(a, w) ==
  [k \in Kinds |->
     [limit[k] EXCEPT ![a] = IF k = "ram" THEN Larger(w["ram"][a] + RamGift, @)
                             ELSE w[k][a]]]

(* Limits of a after its bandwidth weights became w: a managed kind keeps  *)
(* its limit, and RAM is raised to what is owned plus the gift, never      *)
(* lowered.  Nothing is written when net and cpu are both managed.         *)
BandwidthLimits(a, w) ==
  IF \A k \in Bandwidth : a \in managed[k] THEN limit
  ELSE [k \in Kinds |->
          IF a \in managed[k] THEN limit[k]
          ELSE [limit[k] EXCEPT ![a] =
                  IF k = "ram" THEN Larger(w["ram"][a] + RamGift, @)
                  ELSE w[k][a]]]

(* A reduction may not exceed either weight; the slip looks at net only.   *)
NetCovered(a, delta) == weight["net"][a] + delta["net"] >= 0
Covered(a, delta) == \A k \in Bandwidth : weight[k][a] + delta[k] >= 0

(* is_empty() of a row; the slip forgets that it may also hold RAM.        *)
NoBandwidth(a, w) == \A k \in Bandwidth : w[k][a] = 0
IsEmpty(a, w) == \A k \in Kinds : w[k][a] = 0

(* The weights, the limits and the row of a once its net and cpu weights   *)
(* change by delta: the row is created when missing, erased when empty.    *)
UpdateTotals(a, delta) ==
  /\ Covered(a, delta)
  /\ a \in created
  /\ weight' = [k \in Kinds |->
                  IF k = "ram" THEN weight[k]
                  ELSE [weight[k] EXCEPT ![a] = @ + delta[k]]]
  /\ limit' = BandwidthLimits(a, weight')
  /\ hasRow' = IF IsEmpty(a, weight') THEN hasRow \ {a} ELSE hasRow \cup {a}
  /\ UNCHANGED <<created, managed>>

(* The row and the RAM limit of a once it owns bytes more, or less: the    *)
(* row is created when missing and kept when empty.                        *)
UpdateRam(a, bytes) ==
  /\ a \in created
  /\ weight' = [weight EXCEPT !["ram"][a] = @ + bytes]
  /\ hasRow' = hasRow \cup {a}
  /\ limit' = IF a \in managed["ram"] THEN limit
              ELSE [limit EXCEPT !["ram"][a] = weight'["ram"][a] + RamGift]
  /\ UNCHANGED <<created, managed>>

-----------------------------------------------------------------------------
(* A new account gets an empty row and no resources at all. *)
newaccount(a) ==
  /\ a \notin created
  /\ a \notin hasRow
  /\ created' = created \cup {a}
  /\ hasRow' = hasRow \cup {a}
  /\ limit' = [k \in Kinds |-> [limit[k] EXCEPT ![a] = 0]]
  /\ UNCHANGED <<weight, managed>>

(* The condition under which setalimits may overwrite all three limits. *)
NotManaged(a) == \A k \in Kinds : a \notin managed[k]
Rowless(a) == a \notin hasRow /\ NotManaged(a)

setalimits(a, limits) ==
  /\ a \in created
  /\ Rowless(a)
  /\ limit' = [k \in Kinds |-> [limit[k] EXCEPT ![a] = limits[k]]]
  /\ UNCHANGED <<created, hasRow, weight, managed>>

(* Kind k of account a goes under management with the given limit ... *)
Manage(k, a, value) ==
  /\ managed' = [managed EXCEPT ![k] = @ \cup {a}]
  /\ limit' = [limit EXCEPT ![k][a] = value]

(* ... and is given back with the limit it would have had all along. *)
GiveBack(k, a, base) ==
  /\ a \in managed[k]
  /\ managed' = [managed EXCEPT ![k] = @ \ {a}]
  /\ limit' = [limit EXCEPT ![k][a] = base]

(* What a's own weight gives it of kind k: nothing without a row. *)
Owned(k, a) == IF a \in hasRow THEN weight[k][a] ELSE 0

(* The slip of keeping the managed limit when it is given back. *)
LimitKept(k, a) == limit[k][a]
LimitGivenBack(k, a) ==
  IF k = "ram" THEN RamGift + Owned(k, a) ELSE Owned(k, a)

setacctram(a, value) ==
  /\ a \in created
  /\ \/ value = Absent /\ GiveBack("ram", a, LimitGivenBack("ram", a))
     \/ value # Absent /\ value >= 0 /\ Manage("ram", a, value)
  /\ UNCHANGED <<created, hasRow, weight>>

setacctnet(a, value) ==
  /\ a \in created
  /\ \/ value = Absent /\ GiveBack("net", a, LimitGivenBack("net", a))
     \/ value # Absent /\ value >= Unlimited /\ Manage("net", a, value)
  /\ UNCHANGED <<created, hasRow, weight>>

setacctcpu(a, value) ==
  /\ a \in created
  /\ \/ value = Absent /\ GiveBack("cpu", a, LimitGivenBack("cpu", a))
     \/ value # Absent /\ value >= Unlimited /\ Manage("cpu", a, value)
  /\ UNCHANGED <<created, hasRow, weight>>

-----------------------------------------------------------------------------
ResourcesTypeOK ==
  /\ created \subseteq Accounts
  /\ hasRow \subseteq created
  /\ weight \in [Kinds -> [Accounts -> Nat]]
  /\ managed \in [Kinds -> SUBSET created]
  /\ limit \in [Kinds -> [Accounts -> Int]]

(* The limit of an unmanaged kind is the weight staked or rented, through  *)
(* any interleaving of stakes, rentals, RAM trades and administrators      *)
(* taking and giving back the two kinds apart.  The exception is a row     *)
(* that holds only RAM: an unlimited account that buys RAM, or that        *)
(* setalimits gave limits before, keeps them until it is first staked for. *)
LimitsFollowWeights ==
  \A k \in Bandwidth, a \in hasRow :
    a \notin managed[k] =>
      \/ limit[k][a] = weight[k][a]
      \/ \A b \in Bandwidth : weight[b][a] = 0

(* An account under no management can always use the RAM it paid for, and  *)
(* erasing its row with the last of its bandwidth forgets none of it.      *)
OwnedRamUsable ==
  /\ \A a \in hasRow :
       a \notin managed["ram"] =>
         limit["ram"][a] = Unlimited \/ limit["ram"][a] >= weight["ram"][a]
  /\ \A k \in Kinds, a \in Accounts \ hasRow : weight[k][a] = 0

(* The limit an administrator has set stays until an administrator changes *)
(* it: no transaction that changes weights touches it.                     *)
ManagedUntouched ==
  [][weight' # weight =>
       \A k \in Kinds : \A a \in managed[k] : limit'[k][a] = limit[k][a]]_resources
==============================================================================
