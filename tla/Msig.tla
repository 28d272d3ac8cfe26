--------------------------------- MODULE Msig ---------------------------------
(***************************************************************************)
(* The eosio.msig contract: a transaction is proposed under a name, the    *)
(* permission levels asked for it approve or take their approval back, and *)
(* anybody may have it executed once the approvals authorise it.           *)
(*                                                                         *)
(* Whether approvals authorise a transaction is the chain's answer         *)
(* (check_transaction_authorization) from the permissions of the accounts, *)
(* which change without the contract knowing.  An account may invalidate   *)
(* every approval it has given so far, in one action that touches no       *)
(* proposal.  A transaction with a delay executes only that long after it  *)
(* was first authorised.                                                   *)
(*                                                                         *)
(* Proposals of earlier versions of the contract are still in the tables:  *)
(* without an earliest execution time, and the oldest with approvals that  *)
(* bear no time.  The lists of requested and provided approvals are sets:  *)
(* proposals that ask the same level twice are left out.                   *)
(***************************************************************************)
EXTENDS Integers

CONSTANTS
  Names,        \* <<proposer, proposal_name>> pairs
  Trxs,         \* transactions
  Delay,        \* delay_sec of each
  Expiration,   \* expiration of each
  Levels,       \* permission levels
  Signers,      \* accounts
  Actor,        \* the account of each level
  Permissions,  \* what the permissions of accounts may be: for each
                \* transaction the sets of levels that suffice, at least
  NoTrx,        \* no proposal of this name
  MaxTime       \* bound: time

NoHash == NoTrx

ASSUME MsigAssumption ==
  /\ Delay \in [Trxs -> Nat]
  /\ Expiration \in [Trxs -> Nat]
  /\ Actor \in [Levels -> Signers]
  /\ Permissions \subseteq [Trxs -> SUBSET SUBSET Levels]
  /\ NoTrx \notin Trxs
  /\ MaxTime \in Nat

(* Versions of the tables: "untimed" approvals, "timed" ones in proposals  *)
(* without an earliest execution time, and today's.                        *)
Formats == {"untimed", "timed", "current"}
NotSet == -1

VARIABLES
  trx,          \* proposals: packed_transaction
  earliest,     \* proposals: earliest_exec_time
  format,       \* which version of the contract made the proposal
  requested,    \* approvals: requested_approvals
  given,        \* approvals: time of provided_approvals, NotSet if none
  invalidated,  \* invalidations: last_invalidation_time, NotSet if none
  permissions,  \* the chain: what authorises each transaction
  now,          \* current_time_point()
  consent,      \* history: what each level wants executed, see approve
  unready       \* history: when the contract last saw approvals missing

proposal == <<trx, earliest, format, requested, given>>
history == <<consent, unready>>
msigVars == <<proposal, invalidated, permissions, now, history>>

Active(n) == trx[n] # NoTrx

(* Proposals made by earlier versions, some of their approvals given.      *)
MsigInit ==
  /\ trx \in [Names -> Trxs \cup {NoTrx}]
  /\ format \in [Names -> Formats]
  /\ \A n \in Names : Active(n) <=> format[n] # "current"
  /\ given \in [Names -> [Levels -> {NotSet, 0}]]
  /\ requested \in [Names -> SUBSET Levels]
  /\ \A n \in Names, l \in Levels :
       given[n][l] = 0 => Active(n) /\ l \notin requested[n]
  /\ \A n \in Names : ~Active(n) => requested[n] = {}
  /\ earliest = [n \in Names |-> NotSet]
  /\ invalidated = [a \in Signers |-> NotSet]
  /\ permissions \in Permissions
  /\ now = 0
  /\ consent = [n \in Names |->
                  [l \in Levels |-> IF given[n][l] = 0 THEN Trxs ELSE {}]]
  /\ unready = [n \in Names |-> 0]

-----------------------------------------------------------------------------
(* Approvals of the levels' set, as the chain judges them.                 *)
Authorizes(levels, t) == \E quorum \in permissions[t] : quorum \subseteq levels

(* An approval counts if the account has not invalidated its approvals     *)
(* since, or in the same block.  The slip lets that block count.           *)
SinceOrAt(level, stamp) == invalidated[Actor[level]] <= stamp
Since(level, stamp) == invalidated[Actor[level]] < stamp

(* get_approvals_and_adjust_table, without the adjustment. *)
Approvals(stamps) == {l \in Levels : stamps[l] # NotSet /\ Since(l, stamps[l])}

(* trx_is_authorized with the approvals that stand. *)
Authorized(n, stamps) == Authorizes(Approvals(stamps), trx[n])

(* The oldest approvals have no time: any invalidation is later. *)
Stamp(n) == IF format[n] = "untimed" THEN 0 ELSE now

(* The first approval that completes the authorisation starts the delay.   *)
Completed(n, stamps) ==
  IF earliest[n] = NotSet /\ Authorized(n, stamps)
  THEN now + Delay[trx[n]]
  ELSE earliest[n]

(* Taking back an approval that was needed stops it; the slip does not.    *)
StillRunning(n, stamps) == earliest[n]
Interrupted(n, stamps) ==
  IF Authorized(n, stamps) THEN earliest[n] ELSE NotSet

(* The lists of requested approvals; the slip leaves the level there. *)
StillAsked(n, level) == requested[n]
Answered(n, level) == requested[n] \ {level}

Erase(n) ==
  /\ trx' = [trx EXCEPT ![n] = NoTrx]
  /\ earliest' = [earliest EXCEPT ![n] = NotSet]
  /\ format' = [format EXCEPT ![n] = "current"]
  /\ requested' = [requested EXCEPT ![n] = {}]
  /\ given' = [given EXCEPT ![n] = [l \in Levels |-> NotSet]]
  /\ consent' = [consent EXCEPT ![n] = [l \in Levels |-> {}]]
  /\ UNCHANGED unready

-----------------------------------------------------------------------------
propose(n, levels, t) ==
  /\ ~Active(n)
  /\ Expiration[t] >= now
  /\ Authorizes(levels, t)
  /\ trx' = [trx EXCEPT ![n] = t]
  /\ earliest' = [earliest EXCEPT ![n] = NotSet]
  /\ format' = [format EXCEPT ![n] = "current"]
  /\ requested' = [requested EXCEPT ![n] = levels]
  /\ given' = [given EXCEPT ![n] = [l \in Levels |-> NotSet]]
  /\ consent' = [consent EXCEPT ![n] = [l \in Levels |-> {}]]
  /\ unready' = [unready EXCEPT ![n] = now]
  /\ UNCHANGED <<invalidated, permissions, now>>

(* With a hash the level approves that transaction, and without one        *)
(* whatever is proposed under this name.                                   *)
HashMatches(n, hash) == hash \in {NoHash, trx[n]}

approve(n, level, hash) ==
  /\ Active(n)
  /\ HashMatches(n, hash)
  /\ level \in requested[n]
  /\ given' = [given EXCEPT ![n][level] = Stamp(n)]
  /\ requested' = [requested EXCEPT ![n] = Answered(n, level)]
  /\ IF format[n] = "current"
     THEN earliest' = [earliest EXCEPT ![n] = Completed(n, given'[n])]
     ELSE Delay[trx[n]] = 0 /\ UNCHANGED earliest
  /\ consent' = [consent EXCEPT ![n][level] =
                   IF hash = NoHash THEN Trxs ELSE {hash}]
  /\ UNCHANGED <<trx, format, invalidated, permissions, now, unready>>

unapprove(n, level) ==
  /\ Active(n)
  /\ given[n][level] # NotSet
  /\ given' = [given EXCEPT ![n][level] = NotSet]
  /\ requested' = [requested EXCEPT ![n] = @ \cup {level}]
  /\ IF format[n] = "current"
     THEN earliest' = [earliest EXCEPT ![n] = Interrupted(n, given'[n])]
     ELSE Delay[trx[n]] = 0 /\ UNCHANGED earliest
  /\ consent' = [consent EXCEPT ![n][level] = {}]
  /\ unready' = IF Authorized(n, given'[n]) THEN unready
                ELSE [unready EXCEPT ![n] = now]
  /\ UNCHANGED <<trx, format, invalidated, permissions, now>>

(* The proposer may cancel at any time, others once it has expired. *)
cancel(n, isProposer) ==
  /\ Active(n)
  /\ isProposer \/ Expiration[trx[n]] < now
  /\ Erase(n)
  /\ UNCHANGED <<invalidated, permissions, now>>

exec(n) ==
  /\ Active(n)
  /\ Expiration[trx[n]] >= now
  /\ Authorized(n, given[n])
  /\ IF format[n] = "current" /\ earliest[n] # NotSet
     THEN earliest[n] <= now
     ELSE Delay[trx[n]] = 0
  /\ Erase(n)
  /\ UNCHANGED <<invalidated, permissions, now>>

invalidate(account) ==
  /\ invalidated' = [invalidated EXCEPT ![account] = now]
  /\ consent' = [n \in Names |->
                   [l \in Levels |->
                      IF Actor[l] = account THEN {} ELSE consent[n][l]]]
  /\ UNCHANGED <<proposal, permissions, now, unready>>

(* Accounts change their permissions. *)
ChangePermissions ==
  /\ permissions' \in Permissions
  /\ UNCHANGED <<proposal, invalidated, now, history>>

Tick ==
  /\ now < MaxTime
  /\ now' = now + 1
  /\ UNCHANGED <<proposal, invalidated, permissions, history>>

MsigNext ==
  \/ \E n \in Names :
       \/ \E levels \in SUBSET Levels, t \in Trxs : propose(n, levels, t)
       \/ \E level \in Levels, hash \in Trxs \cup {NoHash} :
            approve(n, level, hash)
       \/ \E level \in Levels : unapprove(n, level)
       \/ \E isProposer \in BOOLEAN : cancel(n, isProposer)
       \/ exec(n)
  \/ \E account \in Signers : invalidate(account)
  \/ ChangePermissions
  \/ Tick

MsigSpec == MsigInit /\ [][MsigNext]_msigVars

-----------------------------------------------------------------------------
(* The tables' types; a level is never in both lists of approvals, and a   *)
(* name without a proposal has none.                                       *)
MsigTypeOK ==
  /\ trx \in [Names -> Trxs \cup {NoTrx}]
  /\ earliest \in [Names -> Nat \cup {NotSet}]
  /\ format \in [Names -> Formats]
  /\ requested \in [Names -> SUBSET Levels]
  /\ given \in [Names -> [Levels -> Nat \cup {NotSet}]]
  /\ invalidated \in [Signers -> Nat \cup {NotSet}]
  /\ permissions \in Permissions
  /\ now \in Nat
  /\ consent \in [Names -> [Levels -> SUBSET Trxs]]
  /\ unready \in [Names -> Nat]
  /\ \A n \in Names, l \in Levels :
       given[n][l] # NotSet => Active(n) /\ l \notin requested[n]

(* A transaction is executed only if the levels that want it executed at   *)
(* this moment authorise it: through every order of approvals with and     *)
(* without a hash, withdrawals, invalidations in the same block as an      *)
(* approval, cancellations and new proposals under the same name.          *)
Wanting(n) == {l \in Levels : trx[n] \in consent[n][l]}
ExecutedByConsent ==
  [][\A n \in Names : exec(n) => Authorizes(Wanting(n), trx[n])]_msigVars

(* A transaction with a delay is executed that long after it was proposed  *)
(* and after the last withdrawal that left it without the approvals it     *)
(* needs, and never if an earlier version of the contract stored it.       *)
DelayRespected ==
  [][\A n \in Names :
       exec(n) /\ Delay[trx[n]] > 0 =>
         format[n] = "current" /\ now >= unready[n] + Delay[trx[n]]]_msigVars
===============================================================================
