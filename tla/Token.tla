-------------------------------- MODULE Token --------------------------------
(***************************************************************************)
(* The eosio.token contract (src/contracts/eosio.token).                   *)
(*                                                                         *)
(* The contract keeps two tables: stats, one row per symbol code with its  *)
(* supply, maximum supply and issuer, and accounts, one row per owner and  *)
(* code with a balance.  Every action is one transaction: it either takes  *)
(* all its effects or, when a check fails, none.                           *)
(*                                                                         *)
(* A quantity is the signed amount of an asset: callers may pass zero and  *)
(* negative amounts and the checks must refuse them.  Memos, symbol        *)
(* precision and the notification of recipients are left out.              *)
(***************************************************************************)
EXTENDS Sums

CONSTANTS
  Accounts,    \* accounts that exist on the chain
  Self,        \* the account the contract is deployed on
  Codes,       \* symbol codes
  Quantities,  \* amounts a caller may pass, negative ones included
  NoAccount    \* stands for "no issuer" and "no RAM payer"

ASSUME AccountsAssumption == IsFiniteSet(Accounts) /\ Self \in Accounts
ASSUME QuantitiesAssumption == Quantities \subseteq Int
ASSUME NoAccountAssumption == NoAccount \notin Accounts

VARIABLES
  supply,     \* stats: supply of each code
  maxSupply,  \* stats: maximum supply, 0 while the code does not exist
  issuer,     \* stats: the account that issues and retires
  balance,    \* accounts: balance of each code and owner, 0 without a row
  payer,      \* accounts: who pays the RAM of the row, NoAccount if no row
  auth        \* history: the accounts that authorised the last transaction

stats == <<supply, maxSupply, issuer>>
accounts == <<balance, payer>>
vars == <<supply, maxSupply, issuer, balance, payer, auth>>

Exists(c) == maxSupply[c] > 0
HasRow(c, a) == payer[c][a] # NoAccount

Init ==
  /\ supply = [c \in Codes |-> 0]
  /\ maxSupply = [c \in Codes |-> 0]
  /\ issuer = [c \in Codes |-> NoAccount]
  /\ balance = [c \in Codes |-> [a \in Accounts |-> 0]]
  /\ payer = [c \in Codes |-> [a \in Accounts |-> NoAccount]]
  /\ auth = {}

-----------------------------------------------------------------------------
(* An amount the handlers accept.  NonZero is the slip of a check that     *)
(* forgets that amounts are signed.                                        *)
NonZero(quantity) == quantity # 0
Positive(quantity) == quantity > 0

(* What may still be issued of code c. *)
Available(c) == maxSupply[c] - supply[c]

(* sub_balance: the row must exist and cover the value.  Afterwards the    *)
(* row is kept, at zero if need be, and its RAM is billed to the owner,    *)
(* whoever paid for it before.                                             *)
HasRowOnly(c, owner, value) == HasRow(c, owner)
CanSub(c, owner, value) == HasRow(c, owner) /\ balance[c][owner] >= value
Debited(bal, owner, value) == [bal EXCEPT ![owner] = @ - value]

(* add_balance: an existing row is increased and keeps its payer, a        *)
(* missing one is created with the value and billed to ramPayer.           *)
Overwritten(bal, owner, value) == [bal EXCEPT ![owner] = value]
Credited(bal, owner, value) == [bal EXCEPT ![owner] = @ + value]
PayerAfterAdd(c, owner, ramPayer) ==
  IF HasRow(c, owner) THEN payer[c][owner] ELSE ramPayer

(* Who pays for the receiver's row of a transfer, if it must be created.   *)
ReceiverPays(from, to, signers) == to
RowPayer(from, to, signers) == IF to \in signers THEN to ELSE from

(* The condition on the balance of a row that close erases. *)
AnyBalance(c, owner) == TRUE
Empty(c, owner) == balance[c][owner] = 0

-----------------------------------------------------------------------------
create(iss, max, c, signers) ==
  /\ Self \in signers
  /\ Positive(max)
  /\ ~Exists(c)
  /\ maxSupply' = [maxSupply EXCEPT ![c] = max]
  /\ issuer' = [issuer EXCEPT ![c] = iss]
  /\ auth' = signers
  /\ UNCHANGED <<supply, accounts>>

issue(to, quantity, c, signers) ==
  /\ Exists(c)
  /\ to = issuer[c]
  /\ issuer[c] \in signers
  /\ Positive(quantity)
  /\ quantity <= Available(c)
  /\ supply' = [supply EXCEPT ![c] = @ + quantity]
  /\ balance' = [balance EXCEPT ![c] = Credited(@, to, quantity)]
  /\ payer' = [payer EXCEPT ![c][to] = PayerAfterAdd(c, to, to)]
  /\ auth' = signers
  /\ UNCHANGED <<maxSupply, issuer>>

retire(quantity, c, signers) ==
  /\ Exists(c)
  /\ issuer[c] \in signers
  /\ Positive(quantity)
  /\ CanSub(c, issuer[c], quantity)
  /\ supply' = [supply EXCEPT ![c] = @ - quantity]
  /\ balance' = [balance EXCEPT ![c] = Debited(@, issuer[c], quantity)]
  /\ payer' = [payer EXCEPT ![c][issuer[c]] = issuer[c]]
  /\ auth' = signers
  /\ UNCHANGED <<maxSupply, issuer>>

transfer(from, to, quantity, c, signers) ==
  /\ from # to
  /\ from \in signers
  /\ Exists(c)
  /\ Positive(quantity)
  /\ CanSub(c, from, quantity)
  /\ balance' = [balance EXCEPT
                   ![c] = Credited(Debited(@, from, quantity), to, quantity)]
  /\ payer' = [payer EXCEPT
                 ![c][from] = from,
                 ![c][to] = PayerAfterAdd(c, to, RowPayer(from, to, signers))]
  /\ auth' = signers
  /\ UNCHANGED stats

open(owner, c, ramPayer, signers) ==
  /\ ramPayer \in signers
  /\ Exists(c)
  /\ payer' = [payer EXCEPT ![c][owner] = PayerAfterAdd(c, owner, ramPayer)]
  /\ auth' = signers
  /\ UNCHANGED <<stats, balance>>

(* Erasing a row forgets its balance. *)
close(owner, c, signers) ==
  /\ owner \in signers
  /\ HasRow(c, owner)
  /\ Empty(c, owner)
  /\ balance' = [balance EXCEPT ![c][owner] = 0]
  /\ payer' = [payer EXCEPT ![c][owner] = NoAccount]
  /\ auth' = signers
  /\ UNCHANGED stats

Next ==
  \E c \in Codes, signers \in SUBSET Accounts :
    \/ \E iss \in Accounts, max \in Quantities : create(iss, max, c, signers)
    \/ \E to \in Accounts, q \in Quantities : issue(to, q, c, signers)
    \/ \E q \in Quantities : retire(q, c, signers)
    \/ \E from, to \in Accounts, q \in Quantities :
         transfer(from, to, q, c, signers)
    \/ \E owner, ramPayer \in Accounts : open(owner, c, ramPayer, signers)
    \/ \E owner \in Accounts : close(owner, c, signers)

Spec == Init /\ [][Next]_vars

-----------------------------------------------------------------------------
(* Every table holds values of its type; in particular no balance, and no  *)
(* supply, is ever negative.                                               *)
TypeOK ==
  /\ supply \in [Codes -> Nat]
  /\ maxSupply \in [Codes -> Nat]
  /\ issuer \in [Codes -> Accounts \cup {NoAccount}]
  /\ balance \in [Codes -> [Accounts -> Nat]]
  /\ payer \in [Codes -> [Accounts -> Accounts \cup {NoAccount}]]
  /\ auth \subseteq Accounts

(* The balances of a token add up to its supply: no sequence of issues,    *)
(* retirements, transfers, openings and closings creates or loses a unit,  *)
(* although each handler updates the stats row and the account rows apart. *)
Conservation == \A c \in Codes : Total(balance[c]) = supply[c]

(* What circulates never exceeds the announced maximum, and nothing        *)
(* circulates of a token that was never created.                           *)
SupplyWithinMax == \A c \in Codes : supply[c] <= maxSupply[c]

(* Both: what holders have is what was issued, and no more than announced. *)
SupplyCorrect == Conservation /\ SupplyWithinMax

(* Nobody's balance goes down in a transaction they did not authorise:     *)
(* for any amount a caller passes, negative ones included.                 *)
HolderConsents ==
  [][\A c \in Codes, a \in Accounts :
       balance'[c][a] < balance[c][a] => a \in auth']_vars

(* Nobody is made to pay the RAM of a row, their own or another's, in a    *)
(* transaction they did not authorise.                                     *)
PayerConsents ==
  [][\A c \in Codes, a \in Accounts :
       payer'[c][a] # payer[c][a] =>
         payer'[c][a] \in auth' \cup {NoAccount}]_vars

-----------------------------------------------------------------------------
(* Each code is a ledger of its own: the contract implements Ledger for    *)
(* it, and the actions on other codes are stuttering steps.                *)
LedgerOf(c) == INSTANCE Ledger WITH holding <- balance[c],
                                    issued <- supply[c]
==============================================================================
