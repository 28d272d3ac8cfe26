--------------------------- MODULE ContractsProofs ---------------------------
(***************************************************************************)
(* Proofs about the two contracts beside the system contract, eosio.token  *)
(* and eosio.msig: Token for any finite set of accounts, any codes and any *)
(* amounts a caller may pass, and Msig for every set of names,             *)
(* transactions, levels and permissions, and however long it runs.         *)
(***************************************************************************)
EXTENDS Token, Msig, SumLemmas

(* The sums and the bound make the types of supply inductive: retire       *)
(* subtracts before it has looked at the issuer's balance, and the supply  *)
(* stays a natural number only because no balance exceeds it.              *)
TokenInv == TypeOK /\ Conservation /\ SupplyWithinMax

(* A credited ledger holds the value more. *)
LEMMA CreditTotal ==
  ASSUME NEW S, IsFiniteSet(S), NEW bal \in [S -> Nat], NEW a \in S,
         NEW q \in Nat
  PROVE  /\ Credited(bal, a, q) \in [S -> Nat]
         /\ Total(Credited(bal, a, q)) = Total(bal) + q
<1>1. bal[a] + q \in Nat /\ bal[a] \in Nat
  OBVIOUS
<1>2. Total(Credited(bal, a, q)) = Total(bal) - bal[a] + (bal[a] + q)
  BY <1>1, TotalUpdate DEF Credited
<1>3. Total(bal) \in Nat
  BY TotalType
<1> QED
  BY <1>1, <1>2, <1>3 DEF Credited

(* A debited ledger that covers the value holds the value less. *)
LEMMA DebitTotal ==
  ASSUME NEW S, IsFiniteSet(S), NEW bal \in [S -> Nat], NEW a \in S,
         NEW q \in Nat, q <= bal[a]
  PROVE  /\ Debited(bal, a, q) \in [S -> Nat]
         /\ Total(Debited(bal, a, q)) = Total(bal) - q
         /\ q <= Total(bal)
<1>1. bal[a] - q \in Nat /\ bal[a] \in Nat
  OBVIOUS
<1>2. Total(Debited(bal, a, q)) = Total(bal) - bal[a] + (bal[a] - q)
  BY <1>1, TotalUpdate DEF Debited
<1>3. Total(bal) \in Nat /\ bal[a] <= Total(bal)
  BY TotalType, TotalBound
<1> QED
  BY <1>1, <1>2, <1>3 DEF Debited

LEMMA InitEstablishes == Init => TokenInv
<1> SUFFICES ASSUME Init PROVE TokenInv
  OBVIOUS
<1> USE AccountsAssumption
<1>1. TypeOK
  BY DEF Init, TypeOK
<1>2. Conservation
  <2> SUFFICES ASSUME NEW c \in Codes
               PROVE  Total(balance[c]) = supply[c]
    BY DEF Conservation
  <2>1. balance[c] \in [Accounts -> Nat] /\ supply[c] = 0
    BY DEF Init
  <2>2. \A a \in Accounts : balance[c][a] = 0
    BY DEF Init
  <2> QED
    BY <2>1, <2>2, TotalZero
<1>3. SupplyWithinMax
  BY DEF Init, SupplyWithinMax
<1> QED
  BY <1>1, <1>2, <1>3 DEF TokenInv

(* A step that only moves a value between two balances of one code. *)
LEMMA TransferKeeps ==
  ASSUME TokenInv, NEW c \in Codes, NEW signers \in SUBSET Accounts,
         NEW from \in Accounts, NEW to \in Accounts, NEW q \in Int,
         transfer(from, to, q, c, signers)
  PROVE  TokenInv'
<1> USE AccountsAssumption
<1> DEFINE bal == Debited(balance[c], from, q)
           new == Credited(bal, to, q)
<1>1. q \in Nat /\ q <= balance[c][from]
  BY DEF transfer, Positive, CanSub, TokenInv, TypeOK
<1>2. balance[c] \in [Accounts -> Nat]
  BY DEF TokenInv, TypeOK
<1>3. bal \in [Accounts -> Nat] /\ Total(bal) = Total(balance[c]) - q
  BY <1>1, <1>2, DebitTotal
<1>4. new \in [Accounts -> Nat] /\ Total(new) = Total(bal) + q
  <2> HIDE DEF bal
  <2> QED
    BY <1>1, <1>3, CreditTotal
<1>5. Total(new) = Total(balance[c])
  <2>1. Total(balance[c]) \in Nat
    BY <1>2, TotalType
  <2> QED
    BY <1>1, <1>3, <1>4, <2>1
<1> HIDE DEF bal, new
<1>6. balance' = [balance EXCEPT ![c] = new]
  BY DEF transfer, bal, new
<1>7. TypeOK'
  <2>1. PayerAfterAdd(c, to, RowPayer(from, to, signers))
          \in Accounts \cup {NoAccount}
    BY DEF PayerAfterAdd, RowPayer, TokenInv, TypeOK
  <2>2. payer' \in [Codes -> [Accounts -> Accounts \cup {NoAccount}]]
    BY <2>1 DEF transfer, TokenInv, TypeOK
  <2> QED
    BY <2>2, <1>4, <1>6 DEF transfer, TokenInv, TypeOK, stats
<1>8. Conservation'
  BY <1>5, <1>6 DEF transfer, TokenInv, TypeOK, Conservation, stats
<1>9. SupplyWithinMax'
  BY DEF transfer, TokenInv, SupplyWithinMax, stats
<1> QED
  BY <1>7, <1>8, <1>9 DEF TokenInv

LEMMA IssueKeeps ==
  ASSUME TokenInv, NEW c \in Codes, NEW signers \in SUBSET Accounts,
         NEW to \in Accounts, NEW q \in Int, issue(to, q, c, signers)
  PROVE  TokenInv'
<1> USE AccountsAssumption
<1> DEFINE new == Credited(balance[c], to, q)
<1>1. q \in Nat
  BY DEF issue, Positive
<1>2. balance[c] \in [Accounts -> Nat]
  BY DEF TokenInv, TypeOK
<1>3. new \in [Accounts -> Nat] /\ Total(new) = Total(balance[c]) + q
  BY <1>1, <1>2, CreditTotal
<1> HIDE DEF new
<1>4. balance' = [balance EXCEPT ![c] = new]
  BY DEF issue, new
<1>5. TypeOK'
  <2>1. PayerAfterAdd(c, to, to) \in Accounts \cup {NoAccount}
    BY DEF PayerAfterAdd, TokenInv, TypeOK
  <2>2. payer' \in [Codes -> [Accounts -> Accounts \cup {NoAccount}]]
    BY <2>1 DEF issue, TokenInv, TypeOK
  <2>3. supply' \in [Codes -> Nat]
    BY <1>1 DEF issue, TokenInv, TypeOK
  <2> QED
    BY <2>2, <2>3, <1>3, <1>4 DEF issue, TokenInv, TypeOK
<1>6. Conservation'
  BY <1>3, <1>4 DEF issue, TokenInv, TypeOK, Conservation
<1>7. SupplyWithinMax'
  BY <1>1 DEF issue, Available, TokenInv, TypeOK, SupplyWithinMax
<1> QED
  BY <1>5, <1>6, <1>7 DEF TokenInv

(* retire never takes the supply below zero: the issuer's balance, which   *)
(* covers the quantity, is part of it.                                     *)
LEMMA RetireKeeps ==
  ASSUME TokenInv, NEW c \in Codes, NEW signers \in SUBSET Accounts,
         NEW q \in Int, retire(q, c, signers)
  PROVE  TokenInv'
<1> USE AccountsAssumption
<1> DEFINE iss == issuer[c]
           new == Debited(balance[c], iss, q)
<1>1. iss \in Accounts
  BY DEF retire
<1>2. q \in Nat /\ q <= balance[c][iss]
  BY <1>1 DEF retire, Positive, CanSub, TokenInv, TypeOK
<1>3. balance[c] \in [Accounts -> Nat]
  BY DEF TokenInv, TypeOK
<1>4. /\ new \in [Accounts -> Nat]
      /\ Total(new) = Total(balance[c]) - q
      /\ q <= Total(balance[c])
  BY <1>1, <1>2, <1>3, DebitTotal
<1> HIDE DEF new
<1>5. balance' = [balance EXCEPT ![c] = new]
  BY DEF retire, new
<1>6. q <= supply[c]
  BY <1>4 DEF TokenInv, Conservation
<1>7. TypeOK'
  <2>1. payer' \in [Codes -> [Accounts -> Accounts \cup {NoAccount}]]
    BY <1>1 DEF retire, TokenInv, TypeOK
  <2>2. supply' \in [Codes -> Nat]
    BY <1>2, <1>6 DEF retire, TokenInv, TypeOK
  <2> QED
    BY <2>1, <2>2, <1>4, <1>5 DEF retire, TokenInv, TypeOK
<1>8. Conservation'
  BY <1>4, <1>5 DEF retire, TokenInv, TypeOK, Conservation
<1>9. SupplyWithinMax'
  BY <1>2 DEF retire, TokenInv, TypeOK, SupplyWithinMax
<1> QED
  BY <1>7, <1>8, <1>9 DEF TokenInv

(* create, open and close leave every balance as it is: close erases only  *)
(* a row that holds nothing.                                               *)
LEMMA CreateKeeps ==
  ASSUME TokenInv, NEW c \in Codes, NEW signers \in SUBSET Accounts,
         NEW iss \in Accounts, NEW max \in Int, create(iss, max, c, signers)
  PROVE  TokenInv'
<1>1. max \in Nat
  BY DEF create, Positive
<1>2. TypeOK'
  BY <1>1 DEF create, accounts, TokenInv, TypeOK
<1>3. Conservation'
  BY DEF create, accounts, TokenInv, Conservation
<1>4. SupplyWithinMax'
  <2>1. maxSupply[c] = 0
    BY DEF create, Exists, TokenInv, TypeOK
  <2> QED
    BY <1>1, <2>1 DEF create, accounts, TokenInv, TypeOK, SupplyWithinMax
<1> QED
  BY <1>2, <1>3, <1>4 DEF TokenInv

LEMMA OpenKeeps ==
  ASSUME TokenInv, NEW c \in Codes, NEW signers \in SUBSET Accounts,
         NEW owner \in Accounts, NEW ramPayer \in Accounts,
         open(owner, c, ramPayer, signers)
  PROVE  TokenInv'
<1>1. PayerAfterAdd(c, owner, ramPayer) \in Accounts \cup {NoAccount}
  BY DEF PayerAfterAdd, TokenInv, TypeOK
<1>2. TypeOK'
  BY <1>1 DEF open, stats, TokenInv, TypeOK
<1> QED
  BY <1>2 DEF open, stats, TokenInv, Conservation, SupplyWithinMax

LEMMA CloseKeeps ==
  ASSUME TokenInv, NEW c \in Codes, NEW signers \in SUBSET Accounts,
         NEW owner \in Accounts, close(owner, c, signers)
  PROVE  TokenInv' /\ balance' = balance
<1>1. balance' = balance
  BY DEF close, Empty, TokenInv, TypeOK
<1>2. TypeOK'
  BY <1>1 DEF close, stats, TokenInv, TypeOK
<1> QED
  BY <1>1, <1>2 DEF close, stats, TokenInv, Conservation, SupplyWithinMax

LEMMA StepKeeps == TokenInv /\ [Next]_vars => TokenInv'
<1> SUFFICES ASSUME TokenInv, [Next]_vars PROVE TokenInv'
  OBVIOUS
<1>1. CASE UNCHANGED vars
  BY <1>1 DEF vars, TokenInv, TypeOK, Conservation, SupplyWithinMax
<1>2. CASE Next
  <2>1. PICK c \in Codes, signers \in SUBSET Accounts :
          \/ \E iss \in Accounts, max \in Quantities :
               create(iss, max, c, signers)
          \/ \E to \in Accounts, q \in Quantities : issue(to, q, c, signers)
          \/ \E q \in Quantities : retire(q, c, signers)
          \/ \E from, to \in Accounts, q \in Quantities :
               transfer(from, to, q, c, signers)
          \/ \E owner, ramPayer \in Accounts :
               open(owner, c, ramPayer, signers)
          \/ \E owner \in Accounts : close(owner, c, signers)
    BY <1>2 DEF Next
  <2>2. \A q \in Quantities : q \in Int
    BY QuantitiesAssumption
  <2>3. CASE \E iss \in Accounts, max \in Quantities :
               create(iss, max, c, signers)
    BY <2>2, <2>3, CreateKeeps
  <2>4. CASE \E to \in Accounts, q \in Quantities : issue(to, q, c, signers)
    BY <2>2, <2>4, IssueKeeps
  <2>5. CASE \E q \in Quantities : retire(q, c, signers)
    BY <2>2, <2>5, RetireKeeps
  <2>6. CASE \E from, to \in Accounts, q \in Quantities :
               transfer(from, to, q, c, signers)
    BY <2>2, <2>6, TransferKeeps
  <2>7. CASE \E owner, ramPayer \in Accounts :
               open(owner, c, ramPayer, signers)
    BY <2>7, OpenKeeps
  <2>8. CASE \E owner \in Accounts : close(owner, c, signers)
    BY <2>8, CloseKeeps
  <2> QED
    BY <2>1, <2>3, <2>4, <2>5, <2>6, <2>7, <2>8
<1> QED
  BY <1>1, <1>2

THEOREM TokenInvariant == Spec => []TokenInv
<1>1. Init => TokenInv
  BY InitEstablishes
<1>2. TokenInv /\ [Next]_vars => TokenInv'
  BY StepKeeps
<1> QED
  BY <1>1, <1>2, PTL DEF Spec

(* The tables of eosio.token stay well typed: no balance and no supply is  *)
(* ever negative, whatever amounts callers pass.                           *)
THEOREM TypeCorrect == Spec => []TypeOK
<1>1. TokenInv => TypeOK
  BY DEF TokenInv
<1> QED
  BY <1>1, TokenInvariant, PTL

(* The balances of every token always add up to its supply, and that never *)
(* exceeds the maximum.                                                    *)
THEOREM TokensConserved == Spec => []SupplyCorrect
<1>1. TokenInv => SupplyCorrect
  BY DEF TokenInv, SupplyCorrect
<1> QED
  BY <1>1, TokenInvariant, PTL

(* Only a signer's balance can go down: HolderConsents for every instance. *)
THEOREM OnlyWithConsent == Spec => HolderConsents
<1> DEFINE Consents == \A c \in Codes, a \in Accounts :
                         balance'[c][a] < balance[c][a] => a \in auth'
<1>1. ASSUME TokenInv, Next PROVE Consents
  <2>1. PICK d \in Codes, signers \in SUBSET Accounts :
          \/ \E iss \in Accounts, max \in Quantities :
               create(iss, max, d, signers)
          \/ \E to \in Accounts, q \in Quantities : issue(to, q, d, signers)
          \/ \E q \in Quantities : retire(q, d, signers)
          \/ \E from, to \in Accounts, q \in Quantities :
               transfer(from, to, q, d, signers)
          \/ \E owner, ramPayer \in Accounts :
               open(owner, d, ramPayer, signers)
          \/ \E owner \in Accounts : close(owner, d, signers)
    BY <1>1 DEF Next
  <2>2. \A q \in Quantities : q \in Int
    BY QuantitiesAssumption
  <2>3. \A c \in Codes, a \in Accounts : balance[c][a] \in Nat
    BY <1>1 DEF TokenInv, TypeOK
  <2>4. balance \in [Codes -> [Accounts -> Nat]]
    BY <1>1 DEF TokenInv, TypeOK
  <2>5. CASE \E iss \in Accounts, max \in Quantities :
               create(iss, max, d, signers)
    BY <2>3, <2>5 DEF create, accounts
  <2>6. CASE \E to \in Accounts, q \in Quantities : issue(to, q, d, signers)
    BY <2>2, <2>3, <2>4, <2>6 DEF issue, Positive, Credited
  <2>7. CASE \E q \in Quantities : retire(q, d, signers)
    BY <2>2, <2>3, <2>4, <2>7 DEF retire, Positive, Debited
  <2>8. CASE \E from, to \in Accounts, q \in Quantities :
               transfer(from, to, q, d, signers)
    BY <2>2, <2>3, <2>4, <2>8 DEF transfer, Positive, Debited, Credited
  <2>9. CASE \E owner, ramPayer \in Accounts :
               open(owner, d, ramPayer, signers)
    BY <2>3, <2>9 DEF open
  <2>10. CASE \E owner \in Accounts : close(owner, d, signers)
    BY <2>3, <2>10, <1>1, CloseKeeps
  <2> QED
    BY <2>1, <2>5, <2>6, <2>7, <2>8, <2>9, <2>10
<1>2. TokenInv /\ [Next]_vars => [Consents]_vars
  BY <1>1
<1> QED
  BY <1>2, TokenInvariant, PTL DEF Spec, HolderConsents

-----------------------------------------------------------------------------
(* Every step of the contract is, for the ledger of code c, a mint, a      *)
(* burn, a move, or nothing at all.                                        *)
LEMMA StepIsLedgerStep ==
  ASSUME TokenInv, [Next]_vars, NEW c \in Codes
  PROVE  [LedgerOf(c)!Next]_<<balance[c], supply[c]>>
<1> DEFINE Goal == \/ LedgerOf(c)!Next
                   \/ UNCHANGED <<balance[c], supply[c]>>
<1> SUFFICES Goal
  OBVIOUS
<1>1. CASE UNCHANGED vars
  BY <1>1 DEF vars
<1>2. CASE Next
  <2>1. PICK d \in Codes, signers \in SUBSET Accounts :
          \/ \E iss \in Accounts, max \in Quantities :
               create(iss, max, d, signers)
          \/ \E to \in Accounts, q \in Quantities : issue(to, q, d, signers)
          \/ \E q \in Quantities : retire(q, d, signers)
          \/ \E from, to \in Accounts, q \in Quantities :
               transfer(from, to, q, d, signers)
          \/ \E owner, ramPayer \in Accounts :
               open(owner, d, ramPayer, signers)
          \/ \E owner \in Accounts : close(owner, d, signers)
    BY <1>2 DEF Next
  <2>2. \A q \in Quantities : q \in Int
    BY QuantitiesAssumption
  <2>3. /\ balance \in [Codes -> [Accounts -> Nat]]
        /\ supply \in [Codes -> Nat]
    BY DEF TokenInv, TypeOK
  <2>5. ASSUME NEW iss \in Accounts, NEW max \in Quantities,
               create(iss, max, d, signers)
        PROVE  Goal
    BY <2>5 DEF create, accounts
  <2>6. ASSUME NEW to \in Accounts, NEW q \in Quantities,
               issue(to, q, d, signers)
        PROVE  Goal
    <3>1. q \in Int /\ q > 0
      BY <2>2, <2>6 DEF issue, Positive
    <3>2. CASE c = d
      <4>1. /\ supply'[c] = supply[c] + q
            /\ balance'[c] = [balance[c] EXCEPT ![to] = @ + q]
        BY <2>3, <2>6, <3>1, <3>2 DEF issue, Credited
      <4>2. supply'[c] - supply[c] = q /\ supply'[c] > supply[c]
        BY <2>3, <3>1, <4>1
      <4>3. LedgerOf(c)!Mint(to, supply'[c] - supply[c])
        BY <4>1, <4>2 DEF LedgerOf!Mint
      <4> QED
        BY <4>2, <4>3 DEF LedgerOf!Next
    <3>3. CASE c # d
      BY <2>3, <2>6, <3>3 DEF issue
    <3> QED
      BY <3>2, <3>3
  <2>7. ASSUME NEW q \in Quantities, retire(q, d, signers)
        PROVE  Goal
    <3>1. q \in Int /\ q > 0
      BY <2>2, <2>7 DEF retire, Positive
    <3>2. CASE c = d
      <4>1. /\ issuer[c] \in Accounts
            /\ q <= balance[c][issuer[c]]
            /\ supply'[c] = supply[c] - q
            /\ balance'[c] = [balance[c] EXCEPT ![issuer[c]] = @ - q]
        BY <2>3, <2>7, <3>1, <3>2 DEF retire, CanSub, Debited
      <4>2. supply[c] - supply'[c] = q /\ supply'[c] < supply[c]
        BY <2>3, <3>1, <4>1
      <4>3. LedgerOf(c)!Burn(issuer[c], supply[c] - supply'[c])
        BY <4>1, <4>2 DEF LedgerOf!Burn
      <4> QED
        BY <4>1, <4>2, <4>3 DEF LedgerOf!Next
    <3>3. CASE c # d
      BY <2>3, <2>7, <3>3 DEF retire
    <3> QED
      BY <3>2, <3>3
  <2>8. ASSUME NEW from \in Accounts, NEW to \in Accounts,
               NEW q \in Quantities, transfer(from, to, q, d, signers)
        PROVE  Goal
    <3>1. q \in Int /\ q > 0 /\ from # to
      BY <2>2, <2>8 DEF transfer, Positive
    <3>2. CASE c = d
      <4>1. /\ q <= balance[c][from]
            /\ supply'[c] = supply[c]
            /\ balance'[c] = [balance[c] EXCEPT ![from] = @ - q,
                                                ![to] = @ + q]
        BY <2>3, <2>8, <3>1, <3>2
        DEF transfer, CanSub, Debited, Credited, stats
      <4>2. balance[c][from] \in Nat /\ balance'[c][from] = balance[c][from] - q
        BY <2>3, <3>1, <4>1
      <4>3. /\ balance[c][from] - balance'[c][from] = q
            /\ balance'[c][from] < balance[c][from]
        BY <3>1, <4>2
      <4>4. LedgerOf(c)!Move(from, to, balance[c][from] - balance'[c][from])
        BY <3>1, <4>1, <4>3 DEF LedgerOf!Move
      <4> QED
        BY <4>3, <4>4 DEF LedgerOf!Next
    <3>3. CASE c # d
      BY <2>3, <2>8, <3>3 DEF transfer, stats
    <3> QED
      BY <3>2, <3>3
  <2>9. ASSUME NEW owner \in Accounts, NEW ramPayer \in Accounts,
               open(owner, d, ramPayer, signers)
        PROVE  Goal
    BY <2>9 DEF open, stats
  <2>10. ASSUME NEW owner \in Accounts, close(owner, d, signers)
         PROVE  Goal
    BY <2>10, CloseKeeps DEF close, stats
  <2> QED
    BY <2>1, <2>5, <2>6, <2>7, <2>8, <2>9, <2>10
<1> QED
  BY <1>1, <1>2

(* Rows are billed to signers only: PayerConsents for every instance.  The *)
(* issuer that a retired amount is taken from is a signer, and the payer   *)
(* of a receiver's row is the receiver if it signed, the sender if not.    *)
THEOREM RamPayersConsent == Spec => PayerConsents
<1> DEFINE Agrees ==
      \A c \in Codes, a \in Accounts :
        payer'[c][a] # payer[c][a] => payer'[c][a] \in auth' \cup {NoAccount}
<1>1. ASSUME TokenInv, Next PROVE Agrees
  <2>1. PICK d \in Codes, signers \in SUBSET Accounts :
          \/ \E iss \in Accounts, max \in Quantities : create(iss, max, d, signers)
          \/ \E to \in Accounts, q \in Quantities : issue(to, q, d, signers)
          \/ \E q \in Quantities : retire(q, d, signers)
          \/ \E from, to \in Accounts, q \in Quantities :
               transfer(from, to, q, d, signers)
          \/ \E owner, ramPayer \in Accounts : open(owner, d, ramPayer, signers)
          \/ \E owner \in Accounts : close(owner, d, signers)
    BY <1>1 DEF Next
  <2>2. payer \in [Codes -> [Accounts -> Accounts \cup {NoAccount}]]
    BY <1>1 DEF TokenInv, TypeOK
  <2>3. CASE \E iss \in Accounts, max \in Quantities : create(iss, max, d, signers)
    BY <2>3 DEF create, accounts
  <2>4. CASE \E to \in Accounts, q \in Quantities : issue(to, q, d, signers)
    <3>1. PICK to \in Accounts :
            /\ to \in signers /\ auth' = signers
            /\ payer' = [payer EXCEPT ![d][to] = PayerAfterAdd(d, to, to)]
      BY <2>4 DEF issue
    <3>2. PayerAfterAdd(d, to, to) \in {payer[d][to], to}
      BY DEF PayerAfterAdd
    <3> QED
      BY <2>2, <3>1, <3>2
  <2>5. CASE \E q \in Quantities : retire(q, d, signers)
    BY <2>2, <2>5 DEF retire
  <2>6. CASE \E from, to \in Accounts, q \in Quantities :
               transfer(from, to, q, d, signers)
    <3>1. PICK from \in Accounts, to \in Accounts :
            /\ from # to /\ from \in signers /\ auth' = signers
            /\ payer' = [payer EXCEPT ![d][from] = from,
                 ![d][to] = PayerAfterAdd(d, to, RowPayer(from, to, signers))]
      BY <2>6 DEF transfer
    <3>2. /\ RowPayer(from, to, signers) \in signers
          /\ PayerAfterAdd(d, to, RowPayer(from, to, signers))
               \in {payer[d][to], RowPayer(from, to, signers)}
      BY <3>1 DEF PayerAfterAdd, RowPayer
    <3> QED
      BY <2>2, <3>1, <3>2
  <2>7. CASE \E owner, ramPayer \in Accounts : open(owner, d, ramPayer, signers)
    <3>1. PICK owner \in Accounts, ramPayer \in signers :
            /\ auth' = signers
            /\ payer' = [payer EXCEPT ![d][owner] = PayerAfterAdd(d, owner, ramPayer)]
      BY <2>7 DEF open
    <3>2. PayerAfterAdd(d, owner, ramPayer) \in {payer[d][owner], ramPayer}
      BY DEF PayerAfterAdd
    <3> QED
      BY <2>2, <3>1, <3>2
  <2>8. CASE \E owner \in Accounts : close(owner, d, signers)
    BY <2>2, <2>8 DEF close
  <2> QED
    BY <2>1, <2>3, <2>4, <2>5, <2>6, <2>7, <2>8
<1>2. TokenInv /\ [Next]_vars => [Agrees]_vars
  BY <1>1
<1> QED
  BY <1>2, TokenInvariant, PTL DEF Spec, PayerConsents

(* eosio.token implements the abstract ledger, for each of its codes.      *)
THEOREM TokenImplementsLedger ==
  ASSUME NEW c \in Codes
  PROVE  Spec => LedgerOf(c)!Spec
<1>1. Init => LedgerOf(c)!Init
  BY DEF Init, LedgerOf!Init
<1>2. TokenInv /\ [Next]_vars => [LedgerOf(c)!Next]_<<balance[c], supply[c]>>
  BY StepIsLedgerStep
<1> QED
  BY <1>1, <1>2, TokenInvariant, PTL DEF Spec, LedgerOf!Spec

-----------------------------------------------------------------------------
(***************************************************************************)
(* eosio.msig.  The inductive invariant says when an approval that stands  *)
(* is one whose giver still wants the transaction, for which no recorded   *)
(* time may be ahead of the clock, and that a delay that runs is long      *)
(* enough.                                                                 *)
(***************************************************************************)
(* No approval and no invalidation is from the future. *)
TimesPast ==
  /\ \A n \in Names, l \in Levels : given[n][l] <= now
  /\ \A n \in Names : unready[n] <= now

(* An approval that counts is one its giver still stands by.               *)
ConsentKept ==
  \A n \in Names, l \in Levels :
    given[n][l] # NotSet /\ Since(l, given[n][l]) => trx[n] \in consent[n][l]

(* The delay runs only in proposals of the current version, for long       *)
(* enough.                                                                 *)
DelayKept ==
  \A n \in Names :
    earliest[n] # NotSet =>
      /\ Active(n)
      /\ format[n] = "current"
      /\ earliest[n] >= unready[n] + Delay[trx[n]]

MsigInv == MsigTypeOK /\ TimesPast /\ ConsentKept /\ DelayKept

-----------------------------------------------------------------------------
(* Proposals of the earlier versions are consented to by those who gave    *)
(* their approval, and have no delay running.                              *)
LEMMA MsigBegins == MsigInit => MsigInv
<1> SUFFICES ASSUME MsigInit PROVE MsigInv
  OBVIOUS
<1> USE MsigAssumption
<1>1. MsigTypeOK
  <2>1. /\ trx \in [Names -> Trxs \cup {NoTrx}]
        /\ earliest \in [Names -> Nat \cup {NotSet}]
        /\ format \in [Names -> Formats]
        /\ requested \in [Names -> SUBSET Levels]
        /\ given \in [Names -> [Levels -> Nat \cup {NotSet}]]
    BY DEF MsigInit
  <2>2. /\ invalidated \in [Signers -> Nat \cup {NotSet}]
        /\ permissions \in Permissions
        /\ now \in Nat
        /\ consent \in [Names -> [Levels -> SUBSET Trxs]]
        /\ unready \in [Names -> Nat]
    BY DEF MsigInit
  <2>3. \A n \in Names, l \in Levels :
          given[n][l] # NotSet => Active(n) /\ l \notin requested[n]
    BY DEF MsigInit
  <2> QED
    BY <2>1, <2>2, <2>3 DEF MsigTypeOK
<1>2. TimesPast
  BY DEF MsigInit, TimesPast, NotSet
<1>3. ConsentKept
  BY DEF MsigInit, ConsentKept, Active
<1>4. DelayKept
  BY DEF MsigInit, DelayKept
<1> QED
  BY <1>1, <1>2, <1>3, <1>4 DEF MsigInv

(* Erasing a proposal leaves nothing of it in any table. *)
LEMMA EraseKeeps ==
  ASSUME MsigInv, NEW n \in Names, Erase(n),
         UNCHANGED <<invalidated, permissions, now>>
  PROVE  MsigInv'
<1> USE MsigAssumption DEF MsigInv
<1>1. MsigTypeOK'
  <2>1. /\ trx' \in [Names -> Trxs \cup {NoTrx}]
        /\ earliest' \in [Names -> Nat \cup {NotSet}]
        /\ format' \in [Names -> Formats]
        /\ requested' \in [Names -> SUBSET Levels]
        /\ given' \in [Names -> [Levels -> Nat \cup {NotSet}]]
    BY DEF MsigTypeOK, Erase, Formats
  <2>2. /\ consent' \in [Names -> [Levels -> SUBSET Trxs]]
        /\ unready' \in [Names -> Nat]
    BY DEF MsigTypeOK, Erase
  <2>3. \A m \in Names, l \in Levels :
          given'[m][l] # NotSet => Active(m)' /\ l \notin requested'[m]
    BY DEF MsigTypeOK, Erase, Active
  <2> QED
    BY <2>1, <2>2, <2>3 DEF MsigTypeOK
<1>2. TimesPast'
  BY DEF MsigTypeOK, TimesPast, Erase, NotSet
<1>3. ConsentKept'
  BY DEF MsigTypeOK, ConsentKept, Erase, Since
<1>4. DelayKept'
  BY DEF MsigTypeOK, DelayKept, Erase, Active
<1> QED
  BY <1>1, <1>2, <1>3, <1>4

(* A new proposal starts with no approval and no delay running.            *)
LEMMA ProposeKeeps ==
  ASSUME MsigInv, NEW n \in Names, NEW levels \in SUBSET Levels, NEW t \in Trxs,
         propose(n, levels, t)
  PROVE  MsigInv'
<1> USE MsigAssumption DEF MsigInv
<1>1. MsigTypeOK'
  <2>1. /\ trx' \in [Names -> Trxs \cup {NoTrx}]
        /\ earliest' \in [Names -> Nat \cup {NotSet}]
        /\ format' \in [Names -> Formats]
        /\ requested' \in [Names -> SUBSET Levels]
        /\ given' \in [Names -> [Levels -> Nat \cup {NotSet}]]
    BY DEF MsigTypeOK, propose, Formats
  <2>2. /\ consent' \in [Names -> [Levels -> SUBSET Trxs]]
        /\ unready' \in [Names -> Nat]
        /\ invalidated' = invalidated /\ permissions' = permissions
        /\ now' = now
    BY DEF MsigTypeOK, propose
  <2>3. \A m \in Names, l \in Levels :
          given'[m][l] # NotSet => Active(m)' /\ l \notin requested'[m]
    BY DEF MsigTypeOK, propose, Active
  <2> QED
    BY <2>1, <2>2, <2>3 DEF MsigTypeOK
<1>2. TimesPast'
  BY DEF MsigTypeOK, TimesPast, propose, NotSet
<1>3. ConsentKept'
  BY DEF MsigTypeOK, ConsentKept, propose, Since, Active
<1>4. DelayKept'
  BY DEF MsigTypeOK, DelayKept, propose, Active
<1> QED
  BY <1>1, <1>2, <1>3, <1>4

(* A new approval is one that its giver stands by; the delay that it may   *)
(* start ends no earlier than Delay from now.                              *)
LEMMA ApproveKeeps ==
  ASSUME MsigInv, NEW n \in Names, NEW level \in Levels,
         NEW hash \in Trxs \cup {NoHash}, approve(n, level, hash)
  PROVE  MsigInv'
<1> USE MsigAssumption DEF MsigInv
<1>1. Active(n) /\ trx[n] \in Trxs /\ Delay[trx[n]] \in Nat
  BY DEF approve, MsigTypeOK, Active
<1>2. Stamp(n) \in Nat /\ Stamp(n) <= now
  BY DEF MsigTypeOK, Stamp
<1>3. /\ given' = [given EXCEPT ![n][level] = Stamp(n)]
      /\ given' \in [Names -> [Levels -> Nat \cup {NotSet}]]
  BY <1>2 DEF approve, MsigTypeOK
<1>4. /\ earliest' \in [Names -> Nat \cup {NotSet}]
      /\ \A m \in Names :
           earliest'[m] # NotSet =>
             \/ earliest'[m] = earliest[m]
             \/ /\ m = n /\ format[n] = "current"
                /\ earliest'[n] = now + Delay[trx[n]]
  <2>1. now + Delay[trx[n]] \in Nat
    BY <1>1 DEF MsigTypeOK
  <2>2. CASE format[n] = "current"
    <3>1. earliest' = [earliest EXCEPT ![n] = Completed(n, given'[n])]
      BY <2>2 DEF approve
    <3>2. Completed(n, given'[n]) \in {now + Delay[trx[n]], earliest[n]}
      BY DEF Completed
    <3> QED
      BY <2>1, <2>2, <3>1, <3>2 DEF MsigTypeOK
  <2>3. CASE format[n] # "current"
    BY <2>3 DEF approve, MsigTypeOK
  <2> QED
    BY <2>2, <2>3
<1>5. consent' \in [Names -> [Levels -> SUBSET Trxs]] /\ trx[n] \in consent'[n][level]
  BY <1>1 DEF approve, MsigTypeOK, HashMatches, NoHash
<1>6. MsigTypeOK'
  <2>1. requested' \in [Names -> SUBSET Levels]
    BY DEF approve, MsigTypeOK, Answered
  <2>2. \A m \in Names, l \in Levels :
          given'[m][l] # NotSet => Active(m)' /\ l \notin requested'[m]
    BY <1>1, <1>3 DEF approve, MsigTypeOK, Answered, Active
  <2>3. /\ trx' = trx /\ format' = format /\ invalidated' = invalidated
        /\ permissions' = permissions /\ now' = now /\ unready' = unready
    BY DEF approve
  <2> QED
    BY <1>3, <1>4, <1>5, <2>1, <2>2, <2>3 DEF MsigTypeOK
<1>7. TimesPast'
  <2>1. now' = now /\ unready' = unready
    BY DEF approve
  <2>2. \A m \in Names, l \in Levels :
          given'[m][l] = given[m][l] \/ given'[m][l] = Stamp(n)
    BY <1>3 DEF MsigTypeOK
  <2>3. \A m \in Names, l \in Levels : given'[m][l] <= now
    BY <1>2, <2>2 DEF TimesPast
  <2> QED
    BY <2>1, <2>3 DEF TimesPast
<1>8. ConsentKept'
  <2> SUFFICES ASSUME NEW m \in Names, NEW l \in Levels,
                      given'[m][l] # NotSet, Since(l, given[m][l])'
               PROVE  trx'[m] \in consent'[m][l]
    BY DEF ConsentKept
  <2>1. CASE m = n /\ l = level
    BY <1>5, <2>1 DEF approve
  <2>2. CASE ~(m = n /\ l = level)
    <3>1. given'[m][l] = given[m][l] /\ consent'[m][l] = consent[m][l]
      BY <1>3, <2>2 DEF approve, MsigTypeOK
    <3> QED
      BY <3>1 DEF approve, ConsentKept, Since
  <2> QED
    BY <2>1, <2>2
<1>9. DelayKept'
  <2> SUFFICES ASSUME NEW m \in Names, earliest'[m] # NotSet
               PROVE  /\ Active(m)' /\ format'[m] = "current"
                      /\ earliest'[m] >= unready'[m] + Delay[trx'[m]]
    BY DEF DelayKept
  <2>1. trx' = trx /\ format' = format /\ unready' = unready
    BY DEF approve
  <2>2. CASE earliest'[m] = earliest[m]
    BY <2>1, <2>2 DEF DelayKept, Active
  <2>3. CASE m = n /\ format[n] = "current" /\ earliest'[n] = now + Delay[trx[n]]
    <3>1. unready[n] <= now /\ unready[n] \in Nat /\ now \in Nat
      BY DEF MsigTypeOK, TimesPast
    <3> QED
      BY <1>1, <2>1, <2>3, <3>1 DEF Active
  <2> QED
    BY <1>4, <2>2, <2>3
<1> QED
  BY <1>6, <1>7, <1>8, <1>9

(* A withdrawal leaves the other approvals as they are, and no delay that  *)
(* ends too early: it stops it when it leaves approvals missing.           *)
LEMMA UnapproveKeeps ==
  ASSUME MsigInv, NEW n \in Names, NEW level \in Levels, unapprove(n, level)
  PROVE  MsigInv'
<1> USE MsigAssumption DEF MsigInv
<1>1. /\ given' = [given EXCEPT ![n][level] = NotSet]
      /\ given' \in [Names -> [Levels -> Nat \cup {NotSet}]]
      /\ consent' = [consent EXCEPT ![n][level] = {}]
      /\ consent' \in [Names -> [Levels -> SUBSET Trxs]]
      /\ requested' \in [Names -> SUBSET Levels]
      /\ trx' = trx /\ format' = format /\ invalidated' = invalidated
      /\ permissions' = permissions /\ now' = now
  BY DEF unapprove, MsigTypeOK
<1>2. /\ earliest' \in [Names -> Nat \cup {NotSet}]
      /\ unready' \in [Names -> Nat]
      /\ \A m \in Names :
           /\ unready'[m] \in {unready[m], now}
           /\ earliest'[m] # NotSet =>
                /\ earliest'[m] = earliest[m]
                /\ format[m] = "current" => unready'[m] = unready[m]
  BY DEF unapprove, MsigTypeOK, Interrupted
<1>3. MsigTypeOK'
  <2>1. \A m \in Names, l \in Levels :
          given'[m][l] # NotSet => Active(m)' /\ l \notin requested'[m]
    BY <1>1 DEF unapprove, MsigTypeOK, Active
  <2> QED
    BY <1>1, <1>2, <2>1 DEF MsigTypeOK
<1>4. TimesPast'
  <2>1. \A m \in Names, l \in Levels : given'[m][l] <= now'
    BY <1>1 DEF MsigTypeOK, TimesPast, NotSet
  <2>2. \A m \in Names : unready'[m] <= now'
    <3> SUFFICES ASSUME NEW m \in Names PROVE unready'[m] <= now
      BY <1>1
    <3>1. unready[m] <= now /\ now <= now
      BY DEF MsigTypeOK, TimesPast
    <3>2. unready'[m] = unready[m] \/ unready'[m] = now
      BY <1>2
    <3> QED
      BY <3>1, <3>2
  <2> QED
    BY <2>1, <2>2 DEF TimesPast
<1>5. ConsentKept'
  <2> SUFFICES ASSUME NEW m \in Names, NEW l \in Levels,
                      given'[m][l] # NotSet, Since(l, given[m][l])'
               PROVE  trx'[m] \in consent'[m][l]
    BY DEF ConsentKept
  <2>1. given'[m][l] = given[m][l] /\ consent'[m][l] = consent[m][l]
    BY <1>1 DEF MsigTypeOK
  <2>2. given[m][l] # NotSet /\ Since(l, given[m][l])
    BY <1>1, <2>1 DEF Since
  <2> QED
    BY <1>1, <2>1, <2>2 DEF ConsentKept
<1>6. DelayKept'
  BY <1>1, <1>2 DEF DelayKept, Active
<1> QED
  BY <1>3, <1>4, <1>5, <1>6

(* After an invalidation none of the account's approvals counts.           *)
LEMMA InvalidateKeeps ==
  ASSUME MsigInv, NEW account \in Signers, invalidate(account)
  PROVE  MsigInv'
<1> USE MsigAssumption DEF MsigInv
<1>1. MsigTypeOK'
  <2>1. /\ invalidated' \in [Signers -> Nat \cup {NotSet}]
        /\ consent' \in [Names -> [Levels -> SUBSET Trxs]]
    BY DEF invalidate, MsigTypeOK
  <2>2. /\ proposal' = proposal /\ permissions' = permissions /\ now' = now
        /\ unready' = unready
    BY DEF invalidate
  <2> QED
    BY <2>1, <2>2 DEF MsigTypeOK, proposal, Active
<1>2. TimesPast'
  BY DEF invalidate, TimesPast, proposal
<1>3. ConsentKept'
  <2> SUFFICES ASSUME NEW m \in Names, NEW l \in Levels,
                      given'[m][l] # NotSet, Since(l, given[m][l])'
               PROVE  trx'[m] \in consent'[m][l]
    BY DEF ConsentKept
  <2>1. given' = given /\ trx' = trx
    BY DEF invalidate, proposal
  <2>2. /\ given[m][l] \in Nat \cup {NotSet} /\ given[m][l] <= now
        /\ now \in Nat /\ Actor[l] \in Signers
    BY DEF MsigTypeOK, TimesPast
  <2>3. Actor[l] # account
    <3>1. invalidated'[Actor[l]] < given[m][l]
      BY <2>1 DEF Since
    <3>2. invalidated'[account] = now
      BY DEF invalidate, MsigTypeOK
    <3> QED
      BY <2>2, <3>1, <3>2 DEF NotSet
  <2>4. /\ invalidated'[Actor[l]] = invalidated[Actor[l]]
        /\ consent'[m][l] = consent[m][l]
    BY <2>2, <2>3 DEF invalidate, MsigTypeOK
  <2> QED
    BY <2>1, <2>4 DEF ConsentKept, Since
<1>4. DelayKept'
  BY DEF invalidate, DelayKept, proposal, Active
<1> QED
  BY <1>1, <1>2, <1>3, <1>4

(* Changes of permissions and time disturb nothing.                        *)
LEMMA EnvironmentKeeps ==
  ASSUME MsigInv, ChangePermissions \/ Tick \/ UNCHANGED msigVars
  PROVE  MsigInv'
<1> USE MsigAssumption DEF MsigInv
<1>1. /\ proposal' = proposal /\ invalidated' = invalidated
      /\ history' = history
      /\ permissions' \in Permissions
      /\ now' \in Nat /\ now' >= now
  BY DEF ChangePermissions, Tick, msigVars, MsigTypeOK
<1>2. MsigTypeOK'
  BY <1>1 DEF MsigTypeOK, proposal, history, Active
<1>3. TimesPast'
  BY <1>1 DEF MsigTypeOK, TimesPast, proposal, history, NotSet
<1>4. ConsentKept'
  BY <1>1 DEF ConsentKept, Since, proposal, history
<1>5. DelayKept'
  BY <1>1 DEF DelayKept, Active, proposal, history
<1> QED
  BY <1>2, <1>3, <1>4, <1>5

(* Every transaction of the contract preserves the invariant.              *)
LEMMA MsigStep == MsigInv /\ [MsigNext]_msigVars => MsigInv'
<1> SUFFICES ASSUME MsigInv, [MsigNext]_msigVars PROVE MsigInv'
  OBVIOUS
<1>1. ASSUME NEW n \in Names, NEW levels \in SUBSET Levels, NEW t \in Trxs,
             propose(n, levels, t)
      PROVE  MsigInv'
  BY <1>1, ProposeKeeps
<1>2. ASSUME NEW n \in Names, NEW level \in Levels,
             NEW hash \in Trxs \cup {NoHash}, approve(n, level, hash)
      PROVE  MsigInv'
  BY <1>2, ApproveKeeps
<1>3. ASSUME NEW n \in Names, NEW level \in Levels, unapprove(n, level)
      PROVE  MsigInv'
  BY <1>3, UnapproveKeeps
<1>4. ASSUME NEW n \in Names, NEW isProposer \in BOOLEAN, cancel(n, isProposer)
      PROVE  MsigInv'
  BY <1>4, EraseKeeps DEF cancel
<1>5. ASSUME NEW n \in Names, exec(n)
      PROVE  MsigInv'
  BY <1>5, EraseKeeps DEF exec
<1>6. ASSUME NEW account \in Signers, invalidate(account)
      PROVE  MsigInv'
  BY <1>6, InvalidateKeeps
<1>7. ASSUME ChangePermissions \/ Tick \/ UNCHANGED msigVars
      PROVE  MsigInv'
  BY <1>7, EnvironmentKeeps
<1> QED
  BY <1>1, <1>2, <1>3, <1>4, <1>5, <1>6, <1>7 DEF MsigNext

(* The approvals that exec counts are from levels that want the            *)
(* transaction executed.                                                   *)
LEMMA ExecByConsent ==
  ASSUME MsigInv, NEW n \in Names, exec(n)
  PROVE  Authorizes(Wanting(n), trx[n])
<1>1. PICK quorum \in permissions[trx[n]] : quorum \subseteq Approvals(given[n])
  BY DEF exec, Authorized, Authorizes
<1>2. Approvals(given[n]) \subseteq Wanting(n)
  BY DEF Approvals, Wanting, MsigInv, ConsentKept
<1> QED
  BY <1>1, <1>2 DEF Authorizes

(* The delay that exec finds to be over was long enough.                   *)
LEMMA ExecAfterDelay ==
  ASSUME MsigInv, NEW n \in Names, exec(n), Delay[trx[n]] > 0
  PROVE  format[n] = "current" /\ now >= unready[n] + Delay[trx[n]]
<1> USE MsigAssumption DEF MsigInv
<1>1. Active(n) /\ trx[n] \in Trxs
  BY DEF exec, MsigTypeOK, Active
<1>2. Delay[trx[n]] \in Nat
  BY <1>1
<1>3. earliest[n] # NotSet /\ earliest[n] <= now
  BY <1>2 DEF exec
<1>4. earliest[n] \in Nat /\ now \in Nat /\ unready[n] \in Nat
  BY <1>3 DEF MsigTypeOK
<1>5. format[n] = "current" /\ earliest[n] >= unready[n] + Delay[trx[n]]
  BY <1>3 DEF DelayKept
<1> QED
  BY <1>2, <1>3, <1>4, <1>5

-----------------------------------------------------------------------------
(* The tables of the contract satisfy the inductive invariant.             *)
THEOREM MsigInvariant == MsigSpec => []MsigInv
<1>1. MsigInit => MsigInv
  BY MsigBegins
<1>2. MsigInv /\ [MsigNext]_msigVars => MsigInv'
  BY MsigStep
<1> QED
  BY <1>1, <1>2, PTL DEF MsigSpec

(* Every table keeps its type, and no level is in both lists.              *)
THEOREM MsigTypes == MsigSpec => []MsigTypeOK
<1>1. MsigInv => MsigTypeOK
  BY DEF MsigInv
<1> QED
  BY <1>1, MsigInvariant, PTL

(* Only those who want a transaction executed, at the moment of its        *)
(* execution, authorise it.                                                *)
THEOREM ExecutionIsConsented == MsigSpec => ExecutedByConsent
<1>1. MsigInv =>
        \A n \in Names : exec(n) => Authorizes(Wanting(n), trx[n])
  BY ExecByConsent
<1> QED
  BY <1>1, MsigInvariant, PTL DEF MsigSpec, ExecutedByConsent

(* A delayed transaction waits for its whole delay.                        *)
THEOREM DelayIsRespected == MsigSpec => DelayRespected
<1>1. MsigInv =>
        \A n \in Names :
          exec(n) /\ Delay[trx[n]] > 0 =>
            format[n] = "current" /\ now >= unready[n] + Delay[trx[n]]
  BY ExecAfterDelay
<1> QED
  BY <1>1, MsigInvariant, PTL DEF MsigSpec, DelayRespected
==============================================================================
