# Verification of voting-bot

TLA+ specifications of the Slack bot in `src/voting-bot` and proofs about them.
The bot watches the governance proposals of the chains a validator runs on,
alerts on those it has not voted on, votes through authz on command, and once a
month withdraws the validator's rewards.  Line numbers below are those of the
files under `src/voting-bot`, unless a path says otherwise.

## 1. The system

| Part | Source | State | Operations |
|---|---|---|---|
| Bech32 address conversion | `utils/bech32.go`, `config.go`, `address.go` | `prefixMutex`, the prefixes in the global `Config` | `SetBech32Prefixes`/`done`, `ValAddressFromBech32`, `AccAddressFromHexUnsafe`, `AccAddress.String` |
| Proposal log and alerts | `jobs/proposals.go`, `database/sqlite.go` | table `logs` (no key) | `GetProposals`: list, `AddLog`, read the vote, `UpdateVoteLog`, alert |
| Vote command | `client/slack.go:130`, `voting/voting.go` | table `logs` | convert the address, `ExecVote`: parse, broadcast, `UpdateVoteLog`, reply |
| Withdraw job | `jobs/withdraw_rewards.go`, `utils/authz.go` | table `income` (no key) | look-up, two grant queries, execute, `AddRewards` |
| Signing keys | `keyring/keys.go`, `database/authz.go` | seed files, keyring directories, table `keys` (key: chain and type) | `create-key`, the look-ups of a vote's signer |
| Validator registry | `client/slack.go:24-71` | table `validators` (key: chain) | `register-validator`, `remove-validator` |
| Authorization sync | `jobs/authz.go`, `utils/authz.go` | column `authzStatus` of `keys` | `SyncAuthzStatus`: read both tables, find an endpoint, ask for grants, mark |
| Low-balance alerts | `jobs/balances.go` | none | `GetLowBalAccs`: read the keys, read balances, alert |
| REST endpoints | `endpoints/endpoints.go` | none | shuffle, health check, `HitHTTPTarget` |
| Queries | `database/sqlite.go:257-447`, `handler/apiHandler.go` | none | vote history by date, proposals by time and chain, rewards |
| Dashboard | `src/governance-ui/src/components` | date range, fetched votes | fetch on change of the range |
| Start-up | `main.go`, `config/`, `types/context.go` | none | wiring |
| Scheduler | `jobs/jobs.go` | none | 8AM/8PM, every 24h, every 2h |

**How they interact.** `main` starts a REST server, the cron scheduler and the
Slack listener.  Cron starts every job in a goroutine of its own and does not
wait for the last one; every Slack command is a goroutine too, and
`list-proposals` runs the very job that cron runs.  They share the SQLite tables
(one statement at a time, no transactions), the global `Config` behind
`prefixMutex`, and the disk.  The outside world is the chains' REST endpoints,
transactions broadcast by the `lens` client, and Slack.

**What is hard.**
* Goroutines interleave between any two statements: look-up and insert in
  `AddLog` and in `Withdraw`, read and write of a vote, `Stat` and `Create` of
  the seed file, `done()` and `granter.String()`.
* Remote calls fail, time out after they took effect, or answer with an error
  body that parses as an empty answer.
* The process ends at any time (`log.Fatalf` in a job, a fatal concurrent map
  access, a kill) and leaves tables, files and broadcast transactions behind.
* Failed statements are printed and the code goes on, or return from a loop and
  leave the rest of the work to the next run.
* Jobs work for minutes from what they read first, while commands change it; the
  page shows whichever answer arrives last.

**What makes each part correct.**  Conversion: an answer depends on its own
arguments only, and nobody waits for ever.  Log: it shows only votes that were
cast, on the right proposal, never loses one it shows, and catches up with the
chain.  Alerts: an unvoted proposal is alerted on.  Withdraw: a row for each
month and validator, backed by a withdrawal, and no withdrawal over and over.
Keys: a key that the table names can sign, the seed is not replaced, a vote is
sent from the chain's own key.  Registry: one validator for a chain, with an address that the jobs can convert.
Sync: a status is shown for a grant that was given, and for every grant that stays;
that it goes when the grant does is what the code gets wrong.
Balances: an account that stays low is alerted on.  Queries: a vote is found by
the date it was listed on, under its chain.  Dashboard: it shows the range picked.

## 2. Modules

| Module | Models |
|---|---|
| `Addresses` | addresses, prefixes, calls and answers; the checks of `address.go` |
| `AddressConversion` | abstract: an invocation is answered in one step from its arguments |
| `Bech32Prefix` | detailed: mutex, `Config`, the three callers step by step |
| `Bech32PrefixProofs` | theorems about `Bech32Prefix` |
| `VoteHistory` | abstract: what the vote history may show |
| `VoteLog` | detailed: `GetProposals`, `ExecVote`, the table `logs`, the chains |
| `VoteLogProofs` | theorems about `VoteLog` |
| `Withdraw` | the job, the table `income`, the calendar, grants and blocks |
| `IncomeLedger` | abstract: what the table `income` promises; `Withdraw` implements it |
| `WithdrawProofs` | theorems about `Withdraw`, the refinement of `IncomeLedger` |
| `WithdrawBounds` | theorems that count rows and withdrawals of `Withdraw` |
| `Keyring` | `create-key`, seed files, keyring, table `keys` |
| `KeyringProofs` | theorems about `Keyring` |
| `KeyTable` | the table `keys` and its insert, as the jobs that read it see it |
| `Registry` | `register-validator`, `remove-validator`, the table `validators` |
| `AuthzSync` | `SyncAuthzStatus`, the choice of an endpoint, grants and endpoints that come and go |
| `LowBalance` | `GetLowBalAccs` |
| `Accounts` | composes `KeyTable`, `Registry`, `AuthzSync` and `LowBalance` |
| `AccountsProofs` | theorems about `Accounts` |
| `Queries` | the queries on `logs` as operators, over any log that inserts and updates make |
| `QueriesProofs` | lemmas about the queries, for any log, and about steps of the log |
| `Dashboard` | extends `Queries` with the page that fetches from them |
| `DashboardProofs` | theorems about `Dashboard` and the queries in it |
| `MC*` | values of the constants for TLC |

Operators whose name has an underscore and a remark, such as
`CheckLog_NoExistsQuery`, are variants of an action with a plausible bug.  No
specification uses them; each property was seen to fail when the action is
replaced by such a variant.

### Bech32Prefix

A *task* is a goroutine that converts an address: a job
(`ConvertValAddrToAccAddr`, `proposals.go:411`), a registration
(`slack.go:27-38`) or a vote (`slack.go:150-186`).  `pc` runs through `lock`,
`setAccount`, `setValidator`, `decode`, `hex`, `encode`, `unlock`, each one call
of the source.  The job renders the account address before `done()`; the vote
handler does so afterwards (`encodeUnlocked`), when the map may hold anything,
or be in the middle of a write.  That read and write may be seen by the Go
runtime as a fatal concurrent map access (`RaceCrash`).  The path at
`proposals.go:425` that returns without `done()` is there; `LockHeldInside`
shows that `VerifyAddressFormat` keeps it from being taken.

Account and validator prefix of a chain differ by a fixed suffix, so one value
stands for both.  Bytes are empty, of legal length, or overlong.

### VoteLog

A *run* is a goroutine of `GetProposals`: `validators` (next validator,
`StartRun`, `FetchProposals`, `SkipValidator`, `FinishRun`), `proposals`
(`CheckLog`: the `SELECT` of `AddLog`), `insert`, `read`
(`GetValidatorVoteOption`), `update`, and at the end of a validator `SendAlert`.
A *voter* is a goroutine of the vote command: `send` (`Broadcast`,
`BroadcastFails`, `BroadcastTimesOut`) and `record`.  A broadcast that timed out
is in `inflight` and may be included later or never.  Each statement has a
variant that fails, after which the code goes on.  The chains open and close
voting and the operator votes and revotes elsewhere; when voting ends the chain
deletes its votes.

Every broadcast is a transaction with a hash of its own; `included` is the history
of those in a block and `confirmed` of those that a reply reported.  `ReportHonest`
compares the two, so that a vote of the operator, an earlier one or another option
does not stand in for the vote that was reported.  A panic in `SendMsg`, which the
handler recovers, is a `BroadcastFails`.

The log holds REST names (`VOTE_OPTION_YES`) from runs and typed texts (`yes`)
from commands; `Meaning` maps both to the option.  A proposal stands for the
pair of chain and id; titles and dates are left out.

### Withdraw

A run passes `client`, `day`, `query`, `rewards`, `commission`, `send`,
`record`; `Continue` is the `continue` of the inner loop and the step to the next
key, `SendOrReturn` has the `return nil` of line 122.  Months have two days, the
first and the rest, since the code tells only these apart.  `txs` is the chain's
history of withdrawals and `income[i].tx` says which one a row records, so rows
can be told to be backed.  The chain checks grants when it executes, the job
when it asks.

`KeepsLedger` is the refinement of `IncomeLedger`, by the identity on `month`, `txs` and
`income`: `ExecuteMsgs` and `ExecuteUnseen` are `Withdraw(c)`, `AddRewards` is
`Enter(t)` for the withdrawal the run holds, everything else but a new month is a
stutter.  It says more than `IncomeBacked`: rows that were entered stay, and an
insert that replaced the row of the month would break it alone.

### Keyring

A creator passes `stat`, then `read`, `restore` or `add`, `create`, `write`, and
`insert`.  `os.Create` leaves an empty file (`Blank`); a write over what another
goroutine has put there meanwhile may leave a tail of it (`Mixed`).  The keyring
(external) refuses a name or an address that it has.

`raced` is the history of the types for which a creator missed the file while another
was still making a key.  `SeedRestores` says that without such a race every row's key is
the one in the seed file, whatever fails or crashes; after a race it asks nothing, and
`SeedStays` still says that a file that has come to rest is left alone.

### Accounts

`Accounts` instantiates four modules on shared variables.  `keys` is written by
`KeyTable!Insert`, the last statement of a create-key command, and read by both
jobs; `validators` is written by the commands of `Registry` and read by the sync.

* `Registry`: a command passes `exists` (`HasValidator`) and `insert`, or `find` and
  `delete`; each statement may fail, and the handlers drop the error
  (`slack.go:49`, `66`), so nothing distinguishes the replies.  The conversion is one
  step, as `AddressConversion` promises.
* `AuthzSync`: `StartSync` (`GetKeys`), `ReadValidators`, then for the key in front
  `endpoint` (`TryEndpoint`: the shuffle is any order, the health check is whether the
  endpoint is up), `query` for the one message and then the other, `update`.  Every
  `return err` of `jobs/authz.go` is a step to `Idle`: `NoEndpoint`, an address that does
  not convert, `QueryFails`, `StopSync`.  An endpoint that has gone down since the
  health check errs or answers with a body that has no grants.  `UPDATE ... WHERE
  granteeAddress = ? AND type = ?` (`database/authz.go:26`) is `Marked`: by address,
  always of type "voting", whatever the chain.
* `LowBalance`: `read` (an unsupported or unreachable chain ends the job) and `post`.

The two jobs share no state that either writes, so `Accounts` lets one of them run
at a time; a step of one commutes with every step of the other.  Grants are never
given, standing or gone; `listed` is the history of `validators`, and `held` has the rows
that an update marked for a grant on their own chain, with that grant, until it is revoked
or its granter removed.

`StatusKept` asks that the rows in `held` be shown: an error body, which lists no grants, an
endpoint that fails, a job that stops or a crash are no reason to take a mark back.  A sync
that takes a mark back because it has seen, from an endpoint that is up, that there is no
grant satisfies it, and so does one that marks the row of the chain alone.

### Queries and Dashboard

Time is in ticks, a few to a day.  `GetVoteLogs` compares the midnights that its dates
begin with; `GetProposals` and `GetProposalsForAllNetworks` bind their times as texts,
which SQLite turns into numbers for an INTEGER column, except the empty text, which
is above every number: `Between` with `None`.  What matches is a set of row numbers,
since the database yields rows in that order.  `Listed` is the body of the loop that
groups rows by chain, and `GroupedUpTo` the loop, as a recursive function over the
table.  Its result is compared with what a list of rows has to be (`Lists`: every row
once, in the order of the table), and one query with another.  `WindowsCover` leaves open
which rows of the end date itself are found: in the code, those of its first instant.

The page (`Dashboard`) fetches when it is loaded and when either date changes;
`Serve` answers from the log of the moment, `Deliver` is `setData`, `FetchFails` is
`setErrorMessage`.  Nothing cancels a fetch, so `Deliver` takes answers in any order.

## 3. Runs

| Run | Question | Bounds |
|---|---|---|
| `bech32` | lock discipline, correct answers, progress, refinement of `AddressConversion` | 2 tasks, 2 chains, addresses right, wrong, empty, overlong |
| `vote_granter` | fails: a vote's granter has its chain's prefix | same |
| `votelog` | honesty of the log and of the replies, agreement, bounded duplicates, permanence, refinement of `VoteHistory`; the log catches up, the unvoted is alerted on again and again | 2 runs, one of them cron's, 1 vote command, 1 proposal, 2 options, 2 transactions, any number of crashes |
| `withdraw` | rows are backed, rows and withdrawals bounded, refinement of `IncomeLedger` | 1 key, 2 runs, 2 months, 1 lost record, 1 crash |
| `withdraw_live` | the income of all keys is stored; rows are backed by their own chain | 2 keys, 1 run, 1 month, 1 lost record |
| `withdraw_starved` | fails: a key with its grants is served | 2 keys, 1 run |
| `keyring` | rows can sign and be restored, a settled seed stays | 2 commands, 2 chains, both types, 2 names, 2 mnemonics, any number of crashes |
| `vote_signer` | fails: a vote's signer is the chain's key | 1 command, 2 chains |
| `accounts` | the registry is sound, a shown status had a grant and stays with it | 2 commands, 2 chains of one prefix, 2 validator addresses, 2 keys, 1 grant, 1 endpoint each, 1 fault |
| `status_stale` | fails: a key without a grant comes not to be shown as authorized | 1 key, 1 grant, 1 endpoint |
| `accounts_live` | a grant that stays is shown, a low account is alerted on | 3 keys on 2 chains, 2 endpoints for one, 1 grant, 1 account that runs low |
| `dashboard` | windows, grouping and agreement of the queries; what the page shows | 2 chains, 2 ids, 2 rows, 2 days of 2 ticks, 2 fetches |

Why the bounds are enough.  Two tasks show every race on one mutex and one map.
Two runs and a command are every kind of writer the log has, and a run that
overlaps with two others meets them one at a time at each row; two transactions let
a vote that timed out be overtaken by the next one; one proposal is
the whole state of its rows, and that proposals do not mix is proved for any
number (`LogHonest`, `ShowsHistory`).  Two options tell a stale vote from a new
one.  Two months show that a month's row does not count for the next, one lost
record and one crash of `Withdraw` that each is paid for.  Two mnemonics are what two commands
that overlap make; two names let a second key of a chain past the keyring.

In `accounts` the two chains are a network and its test network: they share a
prefix, so an address registered on one converts on the other, and the keys of both
have one address.  A second validator address has a prefix of no chain.  The grant is
for the second message, on the test network, and marks the key of the main one as
well; in `accounts_live` it is for the first message, on the main one.
One endpoint each is enough for every outcome of the search, and one fault for a
crash and for a job that stops at any step.  In `accounts_live` the registry is at rest,
since its properties are about validators that stay, and there is a choice of
endpoints; a fault (`MaxFaults` is 0) would add nothing there, since after the last one
the jobs are idle over tables that are reached without it.
`dashboard` has a day boundary inside its three ticks and as many rows as it takes
to interleave two chains or duplicate a proposal; with two fetches, the one at
loading and one pick, answers overtake each other.

`MaxCrashes` (of `Withdraw`), `MaxMonth`, `MaxLost`, `MaxFaults`, `MaxTime`, `MaxRows` and
`MaxFetches` are the only counters, all named constants; the supply of mnemonics bounds
`AddKey`, that of hashes the vote commands.  Crashes of `VoteLog` and `Keyring` are not
counted: the process may die at every step.

### Runs that fail, and why

* `vote_granter`: `granter.String()` is called at `slack.go:186`, `done()` at 160.
* `withdraw_starved`: `return nil` at `withdraw_rewards.go:122`.
* `vote_signer`: `GetAuthzKeyAddress` looks up by name and type, not by chain
  (`database/authz.go:40`).

* `status_stale`: `SyncAuthzStatus` writes only `"true"` (`jobs/authz.go:46`, `57`), so a
  key is shown under "Authz Enabled" for ever after its grant is revoked or has expired.

More things a reader should know that the models show and no property forbids:

* `UpdateVoteLog` changes no row before a run has listed the proposal, so a vote that was
  reported is missing from the history until then (`voting.go:156`).
* An HTTP error body read as a vote without options makes a voted proposal one to alert
  on (`proposals.go:291`).
* A grant on one chain marks the keys of all chains that have the address
  (`database/authz.go:26`).
* A chain's second validator is not inserted and the reply is the same (`slack.go:49`).
* A create-key that fails at its last statement cannot be repeated under that name
  (`keys.go:76`); one that dies inside `storeMnemonicSeed` leaves an empty file that stops
  every later one of its type (`keys.go:140`); two that race lose a seed (`keys.go:52`).
* The map of the global `Config` is read without the lock, which may end the process
  (`config.go:154`).
* If no run of the first gets through, the month has no income row (`withdraw_rewards.go:57`).
* Votes listed on the end date are not in the history up to that date
  (`database/sqlite.go:272`; `README.md:117` says "from start date to optional end date").
* An answer for an earlier range may replace that for a later one (`CardList.js:23`);
  `CurrentUnlessOvertaken` says that nothing else does.

### Fairness

* `Bech32Prefix`: a goroutine that can run does (WF on `Convert`).  `Lock` is SF: a
  Go mutex whose waiter has waited 1ms hands over to the waiter first in line.
* `VoteLog`: cron starts `GetProposals` twice a day for ever and its goroutines do not
  stop in the middle (WF on `RunStep` of `CronRuns`); nothing is assumed of
  `list-proposals` or of the vote command, which may hang anywhere.  SF on the successful
  outcome of each remote call and statement of cron's runs: endpoints are shuffled and
  retried twice a day, so a call that is tried for ever succeeds for ever.  A fair chain is
  not assumed.  Since crashes are not bounded, both liveness properties have the premise
  that they stop (`CrashesStop`).
* `Accounts`: SF on the steps of either job.  Cron starts both again and again and a
  goroutine goes on until it is through; weak fairness would do if both could run at
  once, but here a job is disabled while the other one runs.  No fairness for commands,
  grants, endpoints or balances: `GrantShown` and `LowIsAlerted` assume endpoints that
  have settled, with one up for every key as far as the one in question.  That the
  keys in front must be served is what a `return` at the first error costs.
* `Withdraw`: runs go on and what is tried at a key for ever succeeds for ever, as in
  `VoteLog`, every two hours.  The premise of `AllGrantedIsStored` is that the
  first of the month lasts, that is, that one of its twelve runs gets through.

## 4. Proofs

`tlapm` checks every theorem for all values of the constants under the named
assumptions: prefixes and bytes distinct where the code needs them to be, `Parse`
into options, finite sets of goroutines where rows are counted, bounds in `Nat`.

* **`Bech32PrefixProofs`.**  `IInv` is `TypeOK`, `LockHeldInside` and for every task
  `TaskInv`: at each `pc` inside the lock, which prefixes are already the chain's
  own, that decoded bytes are the call's and legal, and which result goes with
  which location.  `ConversionCorrect` is not inductive alone: it needs to know
  that nobody else writes `sdkConfig` between `setAccount` and `encode`, which is
  `LockHeldInside`; and `LockHeldInside` needs to know at `hex` that the bytes are
  not empty, or the leaking path would be open.  `Refinement` maps `encode`, the
  failing `decode` and the rest to stutters and the step into `done` to `Answer`.
* **`VoteLogProofs`.**  `IInv` is `TypeOK`, `LogHonest`, `RowsAgree` and `CarryInv`: what a run or
  a voter carries towards the log (a vote read, a text broadcast and included) was
  cast on the proposal it is carried to, and what is in a block was cast.  `Permanence` follows from what a run
  carries not being empty.  `Duplicates` has an invariant of its own: as long as a
  proposal has no rows any number of runs may be on their way to insert; from then
  on rows plus those runs are at most the runs there are.  `Reporting`: a voter at `record`
  carries a transaction that is in a block, and the votes of those were cast.
* **`WithdrawProofs`.**  `Backing`: at `record` a run holds a withdrawal of its key, in this
  month, that no row and no other run holds.  `Refinement` needs just that for
  `Enter`.
* **`WithdrawBounds`.**  Two counts, each with an invariant of its own (checked by TLC
  first, on one key and on two).  `RecordBound`: before a chain has its row for the month, any
  number of runs may be past the look-up; once it has one, no run joins those that
  are entitled to insert: on the first because the row is found, later because no run gets
  to the look-up.  So rows plus entitled runs stay within the runs (`RoomForEntitled`).
  `LookUpOfMonth` and `DatedSoFar` back this: a look-up is of the present month, and as long
  as it is the first all rows of the month are of that day.  `WithdrawalBound`: every withdrawal is stored in a
  row, held by a run at `record`, counted in `lost`, or was held by a run that a crash
  took, at most one a run and crash (`AllAccounted`); the first two are within the bound on
  records.
* **`KeyringProofs`.**  `Signable`: between the keyring's answer and the insert the key is
  in the keyring.  `SeedPermanence`: a creator that sees a file never adds.
  `Restorability`: `SeedInv`, for a type nobody has raced for: at most one creator is making
  a seed, as long as it has not written it there is no row, and what anybody else carries
  was read from the file, which then stays.
* **`AccountsProofs`.**  `IInv` joins `TypeOK`, `StatusHonest`, `StatusKept` and two parts.  `RegistryInv`: a command
  past the decoding holds an address that converts, and whatever is in `validators` is
  in `listed`.  `Backed`: the keys a sync has left are rows of the table, its validators
  were listed, and at `update` there is a grant that was once given
  (`Found`).  `StatusHonest` is not inductive without the last: between the answer and
  the update the grant may be revoked and the validator removed.  Around a step of the
  sync everything only grows (`Grows`), which is why stale snapshots do no harm; one
  lemma for each disjunct of `Next`.  `StatusKept` is inductive beside the types: only an
  update adds to `held`, and it marks what it adds (`HeldStays` is the rest).

* **`QueriesProofs`.**  What the loop over the rows computes is proved by induction over the
  number of rows.  The library's induction theorems take an operator as a parameter and
  cannot be used; `Induction` is the same for a set of numbers, and follows from
  `WFMin` and the well-foundedness of <.  It gives that the recursive function exists
  (`LoopExists`, `Grouped`) and that after n rows every chain has the list of its rows among
  them (`GroupingRight`); that grouping a chain's rows is its part of the grouping of
  all (`GroupingOfChain`) is another induction.  The windows need only that no row is dated
  ahead of the clock (`LogInv`).  `LogSteps`: rows stay, with date, chain and id, a vote
  stays a vote, and what is new is dated now.
* **`DashboardProofs`.**  `IInv` is `LogInv`, `DashboardTypeOK`, `LastIsCurrent` (a fetch with the
  last number is for the dates picked, on its way as well as shown), `LastAccounted` (the last
  fetch is under way, failed, or was shown) and, of the data, `AnswersLogged` beside
  `ShownIsLogged`.  `CurrentUnlessOvertaken` follows from the second and the third.  An answer is
  right when it is served, by `GroupingRight`, and stays so, by `LogSteps`, for as long as it
  travels and is shown.  `HistoryStands` is an action property: a window that ended before
  now neither gains a row, which would be dated now, nor loses one.

Every safety and action property that a run checks is proved, but for the two that
fail; the other two failing ones are liveness properties.  Only model-checked are the liveness properties (`Progress`, `LogCatchesUp`,
`UnvotedIsAlerted`, `AllGrantedIsStored`, `GrantShown`, `LowIsAlerted`): they rest on fairness,
that is, on ENABLED, which the provers do not handle.

## 5. Not modelled

Two exceptions in code that is modelled: for the chain gravitybridge the first endpoint
is taken without a health check (`endpoints.go:41`), and an answer that is healthy but not
JSON counts as healthy; both only add ways for a request to fail, which the callers'
models have.  `GetRewards` is a plain SELECT.  The dates shown by `votes-history` are in the
server's time zone while the window is in UTC; only the window is modelled.  The page's
download of a picture is layout.

Left out for good: reading the
configuration, wiring in `main.go`, titles from metadata and IPFS, the text and layout
of messages, fees, memo and amounts, the public-key and consensus prefixes and
marshalling of `address.go`, which nothing in the bot calls.

## 6. Plan

1. Done: `Bech32Prefix`, `VoteLog`, `Withdraw`, `Keyring` with their abstract
   specifications, runs and proofs.
2. Done: `Registry`, `AuthzSync`, `LowBalance`, composed with `KeyTable` in `Accounts`, and its
   proofs; `Queries` and `Dashboard`.
3. Done: the bounds of `Withdraw`, its refinement of `IncomeLedger`, what the queries compute for
   any log, and the page.
4. Left: two dashboard picks after loading, two overlapping runs of the sync; the conditions
   under which the properties of the failing runs do hold (one name for each key, a lock
   kept until the granter is rendered, grants for every key).
