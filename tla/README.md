# A TLA+ model of the WAX system contracts

The repository holds the contracts that run a WAX chain: the token, the system
contract with staking, RAM, voting, name auctions, worker proposals and rented
resources, and the multisig contract. This directory models their core in TLA+,
checks it with TLC on small instances and proves the most important properties
with TLAPS for all instances. `PROJECT.json` lists every definition with the
lines of code that it translates, every run and every theorem; this file
explains them. Paths below are relative to `src/contracts/`; `system` stands for
`eosio.system`.

What all contracts have in common decides how they are modelled. An action runs
alone, to its end, and a failing `check` undoes everything, inline actions
included. So an action of the code is one step of the model, its checks are the
conjuncts of a guard, and a failing transfer is a guard too. Concurrency is the
order in which accounts, administrators, block producers and time itself act.
The hard questions are about long sequences: the same fact is kept in several
tables that different handlers change by increments, a clock kept in a row is
restarted by some handlers and not by others, and rows are read by contracts
or administrators that do not know what changes them.

## 1. Inventory

| Component | State | Operations | Talks to | What makes it hard, and correct | Module |
|---|---|---|---|---|---|
| Token (`eosio.token`) | `stat`, `accounts` | create, issue, retire, transfer, open, close | called inline by the system contract | signed amounts, payers of rows; tokens are conserved and move only with consent | `Token` |
| Account resources (`system/src/eosio.system.cpp`, `changebw`) | `userres`, flags of `voters`, limits in the host | stakes, RAM trades, newaccount, setalimits, setacctram/net/cpu | staking, RAM market, powerup | three resources managed one by one; limits follow weights | `Resources` |
| Staking (`delegate_bandwidth.cpp`) | `delband`, `userres`, `refunds`, `voters.staked`, WPS total, balances | delegatebw, undelegatebw, refund, removerefund | token, resources, voting | one stake in four tables; delay of refunds; tokens behind every stake | `Staking` |
| RAM market (`exchange_state.cpp`, `delegate_bandwidth.cpp`) | `rammarket`, global totals, `userres` | buyram, buyrambytes, sellram, setram, setramrate | token, resources | rounding, lazy growth, stale prices; every seller can be paid | `RamMarket` |
| Multisig (`eosio.msig`) | `proposal`, `approvals`, `approvals2`, `invals` | propose, approve, unapprove, cancel, exec, invalidate | the host's permissions | three versions of tables, invalidation by time, delays | `Msig` |
| Name auctions (`name_bidding.cpp`, `onblock`, `newaccount`) | `namebids`, `bidrefunds`, `last_name_close` | bidname, bidrefund, closing, claiming | token, voting (activation) | negated bids; losers get all back, auctions close | `NameBids` |
| Block info (`block_info.cpp`) | `blockinfo` | onblock, batch query | other contracts | onblock may fail; readers must not be misled | `BlockInfo` |
| Producer voting (`voting.cpp`) | `voters`, `producers`, global totals | voteproducer, regproxy, regproducer, unregprod, rmvproducer, recount, election | staking, resources' flags, pay | incremental totals through proxies that come and go | `Voting` |
| Producer pay (`producer_pay.cpp`) | buckets, unpaid blocks, `producers`, `producers2` | onblock, claimrewards, claimgbmprod, fill_buckets, registration, changes of votes | token, voting | books kept in two places, expiring shares, proportions of moving totals | `Inflation`, `ProducerPay` |
| Voter pay (`voting.cpp`) | shares and rates of voters, bucket | voterclaim, claimgbmvote, updates at each vote | voting, producer pay | rates set at some changes of weight and not at others | `VoterPay` |
| Worker proposals (`wps.cpp`) | proposers, reviewers, committees, proposals, WPS voters | about twenty, from registration to funding | staking, token | votes recounted at each change of stake, votes that outlive proposals; claims in time and within the goal | `WorkerProposals` |
| Powerup (`powerup.cpp`) | pool, queue of orders, row of `eosio.reserv` | cfgpowerup, powerup, powerupexec | resources, token | orders that return in batches, to rows that others change or manage | `Powerup` |
| Limits on authority changes (`limit_auth_changes.cpp`) | `limitauthchg` | limitauthchg, the check | host actions | a test per call | not modelled |
| Genesis balances | `genesis` | awardgenesis, claimgenesis, ... | staking | expired programme | not modelled |
| Parameters, code, wrap, boot, bios | none of interest | pass-through to the host | host | nothing to check | not modelled |

## 2. Modules

`Sums` defines totals over finite sets, by counting and without recursion, so
that they can be proved about. `SumLemmas` proves what the other proofs need of
them (a change at one place changes the total by as much; totals of natural
numbers are natural; sums over pairs; entries grouped by a key),
and `InflationLemmas` what the two kinds of pay need of `fill_buckets`. `Payments` is the part of a token
transfer that the other modules need.

- **Token** has one action per action of the contract. A row is present when it
  has a payer. Quantities are integers, negative ones too, as callers may pass
  them. `auth` remembers who signed, for the consent properties. **Ledger** is
  the abstract promise: units are minted, burned or moved, and every unit issued
  is held. For each code the contract implements it (`LedgerOf`); the instance
  for the code `WAX` is a PROPERTY of the run.
- **Resources** keeps `userres`, the flags and the host's limits. Its two
  updates, of bandwidth (`changebw` and, line for line, `adjust_resources`) and
  of RAM (`buyram`, `sellram`), are operators that **Staking** and **RamMarket**
  take as part of their own actions; **Powerup** composes them with rentals and
  with the administrators' handlers, in any order.
- **Powerup** keeps the pool of each kind (its weight, what is out, the adjusted
  utilization, the ratio and its curve), the queue of orders and the rows of
  `Resources`. A rental first returns a few expired orders, as `powerup` calls
  `process_powerup_queue` first, then pays, and changes the row of the receiver and,
  last (`SetReserve`), that of the reserve: by the differences that the code has
  added up until then, `Available` less what is rented. Prices are exact
  fractions for natural exponents, and both kinds have the same price
  parameters. Arguments of `cfgpowerup` that are left out (`Absent`) take the
  value that is stored, or the default.
- **Staking** takes `changebw` as a whole, conjunct by conjunct in the order of
  the code: the delegation, the totals, the refund with the transfer, the WPS
  total and the votes. `unbacked` is a history variable: stake that
  `eosio.stake` itself gave without tokens, less what `removerefund` cancelled
  without paying. Times are ages that stop at the delay.
- **RamMarket** keeps both connectors, the totals, the growth that is due
  (`idle` slots times the rate) and the balances.
- **Msig** keeps one record per proposal name, including those left by earlier
  versions of the tables. `consent` and `unready` are history variables: which
  transactions each level wants under a name, and when approvals were last seen
  missing. Permissions change at any time.
- **NameBids** joins the auction with `onblock` and `newaccount`, since the row
  is written by all three. That votes activate the chain is its action `Activate`
  and its variable `begun`. Names that `Voting` has too begin with `Bids` or `bid`.
- **BlockInfo** lets `onblock` succeed or fail at each block, with gaps in time.
- **Voting** keeps the weights in one record, because the recursion of
  `propagate_weight_change` passes them from call to call. `cast` is a history
  variable: when each weight was last computed. The election reads rows of
  producers in the order of the index (`Index`, any order of rows with one key,
  where the code has that of names) and stops where the loop does
  (`TopProducers`). The host may refuse a schedule, which changes nothing.
- **Inflation** is `fill_buckets`, with the supply and the balances behind it.
  `fill_buckets` is an operator that returns the books after it, because the
  claims of **ProducerPay** and **VoterPay** go on from there in the same action.
- **ProducerPay** counts blocks in `onblock` and keeps the shares for votes. What
  `update_votes` and `propagate_weight_change` do to producers is one action,
  `ChangeVotes`, for any change of votes out of a set: `Voting` says which there
  are. `voterclaim` is there as far as it touches the same books.
- **VoterPay** extends `Voting` and `Inflation`: each action of `Voting` that ends
  in `update_votes` also sets the voter's rate. The first value of the rate in a
  new row is the constant `Unset`, a set, because the field has no initial value
  in `eosio.system.hpp:298`; in the run it is `{0}`, which is what the contract
  has when its memory is fresh.
- **WorkerProposals** keeps a vote where the code does, in the row of the voter
  (`listed`, `last`) and in the total of the proposal, which `update_wps_votes`
  changes by differences, and only while the proposal is on vote. A change of
  stake (`update_voting_power`) recounts. `paid` and `cleared` are history
  variables: what a proposal was paid, and which votes `cleanvotes` took out of
  the rows of voters while they count in the total. Removing a committee leaves
  its reviewers and proposals, and removing a proposal leaves the votes for it,
  as in the code.

Operators described as slips in comments (for example `NetOf`, `SinceOrAt`) are
plausible mistakes in the code they stand next to. No action uses them; they are
there to show, by putting them in the place of the right one, that a run would
notice.

## 3. Runs

All runs finish in about two minutes or less on two cores. Deadlock is checked
in all of them; `MCBlockInfo` adds a step that does nothing at the end of its
bounded chain. States are distinct ones, up to symmetry where there is any.

| Run | Bounds | States | What it shows |
|---|---|---|---|
| `token` | two users, the contract, one code, amounts -1..3 | 31,816 | supply and balances agree within the maximum, consent of holders and of payers, refinement of `Ledger` |
| `resources` | an account that stakes, trades RAM and rents, the system account, one or two orders, curves that rise, fall and stay, managed limits | 257,524 | the pool is what is out and what is left, expired orders can always return, limits follow weights, owned RAM stays usable, managed limits are left alone, splitting a rental gains nothing |
| `staking` | two users of whom one is b1, and `eosio.stake`; amounts -1..1 of each kind; delay 1 | 135,986 | backing, agreement of records, no early exit, wealth shrinks only with consent; refunds arrive |
| `ram_market` | two traders, 8 bytes and 4 tokens at first, up to 16 bytes, rate 3, word 8 | 121,873 | agreement of four records, sales covered, no gain by round trips |
| `msig` | one name, two transactions (one delayed), three levels of two accounts, time 0..3, two settings of permissions | 1,066,314 | consent at the moment of execution; delays |
| `name_bids` | two names, two bidders, bids around a raise of one tenth | 110,618 | nobody loses tokens, winners keep names, auctions close |
| `block_info` | window 3, 9 blocks, gaps 1 and 2, offsets and sizes 0..4 | 126,086 | bounded, complete and truthful; catches up |
| `voting` | three voters, three producers, two seats, two epochs, stakes 0..1 | 468,214 | votes are stakes counted once, through chains of proxies; activation; who is elected has most stake behind, and elections that would be too short are given up |
| `worker_proposals` | two voters, one proposer, a committee with one reviewer, two settings, a goal of 3 in two instalments, time 0..3, stakes 0..1 | 2,981,904 | votes of proposals are backed by stakes, the voting is won in time and by enough, payments keep the schedule and the goal |
| `producer_pay` | two producers of whom one is older than `producers2`, a user with three tokens, time to 5 with days of one step, two unpaid blocks, one vote moving between both | 5.2 million | no token is created or lost, buckets are backed, sums of shares are those of the rows, claims leave the others their part |
| `voter_pay` | two voters, one producer, time to 3, two epochs, stakes 0..1 | 1.1 million | sums of shares and rates are those of the rows; nobody earns for what others delegate to him |
| `worker_proposals_doc` | as `worker_proposals` | | violated, see below |

Why these bounds are enough to be of interest. A refund mixes two kinds and
three origins of stake: one unit of each shows every case, and the liquid
amounts allow stakes paid partly from a refund. The market has so few bytes that
rounding matters in every trade, and its word is so small that the growth wraps.
Three voters are needed for a voter whose former proxy took a proxy. Two blocks
at the end of the window and one gap would do for the block table; the chain is
three windows long. Amounts of the auctions lie on both sides of a raise by one
tenth. Two voters are enough for a vote that erases another's, and three days
for a proposal to be accepted, won, approved and paid, or to fail on the way and
be proposed again under the same name. Time to 5 with days of one step lets the
share of a producer expire after its third day and be withdrawn, and the producer
claim again. The refused inputs (zero, negative, too large) are in every set of
inputs. `TypeOK` of each module includes that no amount becomes negative; it is an
invariant of the runs `resources` and `voter_pay`, and proved for the modules
that section 4 names.

Each property of a run is tried against a mistake in the code that would break
it, the slips of the modules: a rounding turned around, a guard left out, a
reset forgotten. `PROJECT.json` lists them under `mutants`.

Scaled constants: days, fortnights and delays are one or two steps long, since
the code only compares ages with them; `Word` stands for 2^32; the market's
reserves are small. `Factor` doubles where the code's grows continuously. In
`Voting` weights are multiples of two so that only a change of zero counts as
too small to propagate; the real factor is above 2^100.

Arithmetic: the market computes in doubles and truncates. Below 2^53 products of
the amounts here are exact, so the model uses integer division. For the real
reserves the double can differ from it in the last place; that difference is not
modelled. Weights of votes are doubles that are added and withdrawn; the model is
exact, and the clamping of small negative totals to zero is left out with the
rounding it repairs.

### Disagreements

One run ends in a violation of what the repository itself says.

- `worker_proposals_doc`: a vote for a proposal that is not on vote yet is stored
  with its voter and added to no total, but subtracted from it by the voter's next
  vote or change of stake once the proposal is on vote. Votes of others are
  erased, and the clamp at zero, which the comment explains by floating point
  (`wps.cpp:740`), hides the rest. The run is in exact arithmetic. So
  `VotesAreStakes` says that totals are at most what the rows of voters account
  for: equality does not hold.

Four more configurations are not among the runs of `PROJECT.json`, and TLC finds
a violation with each:

- `MCRamMarketWrap.cfg` (`GrowsAtRate`, with `MCRamMarket`): the growth of the
  supply is computed in 32 bits and lost when the market is idle for longer than
  2^32 / rate slots, 9.1 hours at the highest rate (`eosio.system.cpp:80`), while
  `eosio.system.hpp:979` promises the rate.
- `MCFirstVote.cfg` (`FirstVoteActivates`, with `MCFirstVote`, which adds the
  history of who has voted to `Voting`): the stake of an
  account that registers as a proxy before its first vote is never counted as
  activated, because `regproxy` sets the weight by which `update_votes` recognises
  a first vote (`voting.cpp:229-237`).
- `MCPowerupDoc.cfg` (`AdjustedCovers`, with `MCPowerup`): `eosio.system.hpp:649`
  says that the adjusted utilization is never below the utilization, but a rental
  raises the second alone, until the next second (`powerup.cpp:367`).
- `MCVoterPayDoc.cfg` (`SameReward`, with `MCVoterPay`): the rate of a voter is
  its weight less what is delegated to it (`voting.cpp:415`), also when it is no
  proxy any more and its weight counts nothing delegated. Former proxies then earn
  too little, or at a negative rate, and stay at it after the delegators left. The
  test at `eosio.system_tests.cpp:1808` wants the same reward for voters in the
  same condition.

Met while reading, without a run. `eosio.system.hpp:863` promises that unstaked
tokens return by a deferred transaction, but only `refund` pays them.
`eosio.system.hpp:899` says that `buyrambytes` buys the bytes asked for, but it
rounds down twice and takes the price before the supply catches up. In `wps.cpp`
instalments are rounded down, so that the rest of the goal is never paid, a goal
smaller than its number of instalments can never be claimed, and votes that
`cleanvotes` clears while a proposal is on vote stay in its total and may be
given again. A voter for worker proposals that becomes a proxy can neither stake
nor undelegate until it resigns, because the recount fails.
`eosio.system.hpp:1024` says that a proxy must have a row already, but
`regproxy` creates one; `eosio.msig.hpp:87` says that all requested approvals
must be received, but `exec` asks the host whether those received are enough.
A producer from before `producers2` that registers again more than three days
after its last claim adds its votes to the rate although its share has expired
(`voting.cpp:57`), so that with such claims (`OldClaims = {1}`) `SharesAgree` fails;
the run and the theorem are about chains without them. Invalidating approvals
does not stop a delay that they completed (`eosio.msig.cpp:241`), since only
`unapprove` does. The system account may create a name that is under auction
(`eosio.system.cpp:412`), and its row is never erased.

### Fairness

Only liveness properties use it, and only where the code or its environment
drives the step. `staking`: time goes on, and the owner of a refund who keeps
asking for it is served when it is due (`WF` on `Tick` and on each `refund`);
`RefundArrives` says that then the age returns to zero again and again, by
payment or because the owner undelegated more, as long as `eosio.stake` has not
staked tokens it does not have. `name_bids`: time goes on, and `onblock` looks
for an auction to close once a minute (`WF` on `Close`); that blocks are
produced is the chain's promise. Nothing is assumed of bidders: `AuctionsClose`
holds because each bid must be a tenth above the last and there are so many
tokens.

## 4. Proofs

`ContractsProofs` (for `Token` and `Msig`, the contracts beside the system
contract), `BandwidthProofs` (for `Staking` and `Powerup`, which change the same
rows of `Resources`), `RamMarketProofs`, `VotesAndBidsProofs` (for `Voting`,
`VoterPay` and `NameBids`: auctions wait for votes to activate the chain),
`OnblockProofs` (for `BlockInfo` and `ProducerPay`, whose operations meet in
`onblock`) and `WorkerProposalsProofs` hold for all values of the constants under
the named assumptions in the modules: finite sets of accounts where totals are
taken, inputs that are integers, balances at the start that are natural. No bound
of a run is an assumption of a theorem other than as a constant of any value.
`SumLemmas` (totals) and `InflationLemmas` (`fill_buckets`, for both kinds of pay)
hold what they share.

Every invariant and every action property that a passing run checks is a theorem;
the refinement of `Ledger` is one for each code (`TokenImplementsLedger`).

- **Token**: types, conservation and maximum are inductive together; consent
  follows from positive quantities in each action; each action maps to a step of
  `Ledger` or to no change. `PayerConsents` needs only the types: of the rows that
  an action writes, each keeps its payer, loses it, or is paid by one who signed.
- **Staking**: the five invariants are not inductive alone. `StakingInv` adds
  that the age of a refund is never more than the time since the owner last
  undelegated (`AgeCounts`: what `NoEarlyExit` rests on) and that `eosio.stake`
  has no refund of its own (`StakeAwaitsNothing`: else a refund would pay itself).
  The changes of `changebw` to sums over rows are lemmas on values. For
  `WealthConsents`, what `changebw` adds to the rows of an account, takes from its
  refund and takes from its liquid tokens cancel out, unless the stake is a gift
  (`ChangebwWealth`).
- **Powerup** and **Resources**: `RentInv` is inductive for both. Of a table of rows,
  `RowsOK` says what its limits must be; `adjust_resources` keeps it for any set of
  accounts (`AdjustedRows`), and for one account it does what `changebw` does
  (`CopiesAgree`: the code has the text twice), so that limits follow weights whoever
  changes them. The agreement of pool, orders and rows is a sum of orders split by
  their owners: what a batch returns is, over all owners, what it frees of the pool.
  `OrdersOK` adds that orders have owners that exist, else their rows could not be
  changed. The pool is never below what is out because it is what its curve gave when
  it was last updated (`PoolsOK`) and a curve lets the ratio only fall (`RatioFalls`),
  so that the pool only grows until it is configured anew (`WeightGrows`), where the
  code checks; the growth is what the reserve is given. From these, `ExpiredCanReturn`.
  The types (`RentTypeOK`) need `RentDetails` besides: the adjusted utilization
  never exceeds the pool, also when the pool is configured anew. Of
  `SplittingGainsNothing`, the amount behind a fee is a sum over the stretches of
  the price curve that a rental passes through, so that two rentals add up to the
  one (`DividendsAdd`), and a fee rounded up twice is no less than rounded up once.
  Prices are powers, a recursive function of natural exponents (`Power`); that these
  are natural is shown by the least exponent for which it would fail.
- **RamMarket**: `SellersAlwaysPaid` follows from `Covers`, that
  `base * quote >= (base + reserved) * QuoteStart`: if all that is reserved came
  back, the market would still hold the tokens it started with. Trades keep it
  because conversions are rounded down, and growth keeps it because the quote is
  never below its start. The lemmas on `get_bancor_output` are proved from the
  properties of integer division, and with them `RoundTripLoses`: both conversions
  of a round trip round down, so the product of the reserves never shrinks
  (`ConversionBackLoses`).
- **Msig**: `TimesPast` (no time is in the future), `ConsentKept` (an approval
  that stands was given for the transaction, and not invalidated) and `DelayKept`
  (a running delay started no earlier than the approvals were last missing).
- **Voting**: the invariant says that the books are right (`BooksRight`: the votes
  of a producer and what is delegated to a proxy are sums of weights in the rows)
  and that each weight is that of its stake and its delegators (`WeightsRight`).
  It does not hold between the calls of one action: withdrawing a vote, giving it
  and setting the row of the voter are three passes, and each pass leaves the next
  proxy of the chain wrong until it is called. `Views` describe what the books are
  right for meanwhile: one voter counts for another weight, or votes for others,
  than its row says. `Halfway` adds that all weights are right but that of who is
  called next; `OneCall` shows that a call of `propagate_weight_change` hands this
  on along the chain. `RunReaches` is the induction over the calls (as a least
  failing call): those called so far lead to the next one, so that by `ChainsEnd`
  nobody is called twice, and as many calls as there are voters are enough
  (`Propagated`). `ChainsEnd` itself is kept because only proxies are voted
  through, and these use none. `VotesFromStakes` follows by grouping voters by
  their proxies (`TotalByGroup`). The sums are exact only if no change is too small
  to be propagated: hence the assumption that weights are even, so that a change
  of at most one is none. For the activation, `ActivatedBacked` bounds what is
  counted by the stakes of those with a weight, which nobody with a stake loses.
  For `ElectedByStakes`, whoever comes in the index before an active row with votes
  has a negative key, so that it is active and has as many (`ElectedAreTop`): the
  loop can stop before that row only because the seats are taken. `VotesFromStakes`
  turns votes into stakes.
- **NameBids**: the sum per bidder is inductive with the types; that closed rows
  are final is then a fact about each action.
- **BlockInfo**: the bound on the table (`Bounded`) needs that rows outside the
  window are erased at least as fast as rows come in; `RowsAreTrue` and
  `RecordedOnce` tie rows to the history, and `BatchesRight` follows from
  arithmetic on remainders. `CatchesUp` counts the stale rows that `onblock` prunes
  against the one that leaves the window.
- **ProducerPay**: types, books and unpaid blocks are inductive together
  (`PayInv`): the supply never falls below what is burned because it is the sum of
  the balances, and pay never exceeds the bucket because the blocks of one
  producer are at most those of all. `OthersNotDiluted` is then arithmetic on a
  quotient that is rounded down. `SharesAgree` rests on `SharesInv`: over all
  producers, `RateOf` is the votes of one as long as they count, and `EarnedBy` its
  share with what came since its row was updated. Each operation changes the two
  sums the contract keeps by as much as these change in sum, for one row
  (`OneRowChanges`), for any number of them at once (`TotalComesAndGoes`), or, when
  time passes, for all (`WaitKeepsShares`). The rows of who never claimed must be
  empty (`RowFacts`), hence the hypothesis on old claims. `TotalSum` and
  `TotalPadded` are the lemmas on sums behind it.
- **VoterPay** implements `Voting` (`VoterPayVotes`), so that weights are those of
  stakes (`WeightsRight`) whatever is paid. `OwnStakeOnly` follows from them at each
  vote, since the rate leaves out what is delegated, and lasts because factors grow
  and a stake changes without a new rate only when its owner has no vote, and then
  earns nothing (`IdleEarnNothing`). For this, voting for nobody must earn nothing:
  `MinChoices` is positive, 16 in the code. `SharesAgree` is `SharesInv` over all
  voters: rows that earn nothing yet are zero, which is where the first value of the
  rate matters, hence the hypothesis `Unset = {0}`; the types and `OwnStakeOnly` hold
  for any first value. Shares and rates may be negative, so the lemmas on sums are
  those of `SumOf`, positive parts less negative parts. The books are `BooksInv` of
  `InflationLemmas`, as for producers.
- **WorkerProposals**: types, `VotesAreStakes` and `PaidOnSchedule` are inductive
  together. `RecordedChange` is the heart: a vote changes the sum of what is
  recorded by just the difference that is added to the total (`VoteEffect`), and
  the clamp raises a total to zero at most, which no sum of votes is below. That
  each total is at most the stakes makes `WonBySupport` a fact about each step.
  The schedule rests on `InstalmentsWithinGoal`, arithmetic on quotients.

Only model-checked: liveness (`RefundArrives`, `AuctionsClose`), which is out of
the prover's reach. Weights and shares are exact here and doubles in the code, in
proofs as in runs. Two theorems have a hypothesis that the assumptions of the
modules do not imply, and the runs choose the constants so that it holds: no claims
from before `producers2` (`OldClaims = {0}`), and new rows of voters at rate zero
(`Unset = {0}`).

## 5. Not modelled

- Limits on authority changes: each call is tested against two stored lists and
  changes nothing else; a property would repeat the test.
- Genesis balances: a programme for the first accounts that has ended; it shares
  nothing with the other tables but the call from staking.
- Chain parameters and code, and the wrap, boot and bios contracts: they pass
  their arguments to the host.
- Of the modelled components: formatting, memos, precision of symbols,
  notifications, signing keys of producers, RAM billed for rows other than the
  token's, texts of worker proposals with `editproposer` and `editreviewer`, the
  parameters of inflation, and the rounding of doubles as described. A continuous
  rate compounded by the logarithm in the code is one constant, `Rate / Year`.
- Arguments of `cfgpowerup` that are left out are written through an optional that
  holds nothing (`powerup.cpp`, the `if (!args...)` assignments). The model takes the
  value that was meant, as the contract does as compiled.

What the host answers (permissions, existence of accounts, limits) is modelled
from how the contracts use it.

## 6. What is left

A composition of staking, voting and worker proposals over one table of voters:
there the recounts decide which changes of stake are possible. A voter for
worker proposals that became a proxy can change no stake (`wps.cpp:697`). And the
parts of section 5, should they change.
