# BenefitCoins, specified

A TLA+ model of BenefitCoins (`src/`), a household bank in Go: holders earn
coins for chores, spend them on rewards, and operators approve or decline each
request.  The modules here describe what its request handlers, its tables and
its ledger do, step by step; TLC checks them on small households and TLAPS
proves all their safety properties for households of any size.

Paths are relative to `src/internal/` unless they say otherwise.

## The system

| Component | State it keeps | Operations | Hard because |
|---|---|---|---|
| Ledger adapter, `ledger/ledger.go` over TigerBeetle | per account four counters (debits and credits, pending and posted); transfers | `OpenGL`, `OpenAccount`, `EarnHold`, `RedeemHold`, `Credit`, `Debit`, `Settle`, `Void`, `Balance` | it is the only arbiter between concurrent handlers: it refuses overdrafts and second resolutions |
| Submission and decision handlers, `api/holds.go`, `api/adjustments.go` | none of their own; locals of a running request | create an earning, propose a chore, redeem, settle, void, adjust a reward, credit or debit manually | a chain of store and ledger calls with no transaction around them, on a copy of the row read at the start |
| Transactions table, `store/transactions.go` | one row per request: type, status, amount, hold, task | insert; conditional updates that decide or adjust | conditional updates are the only thing between two decisions, and they come after the ledger |
| Task and bounty catalog, `store/tasks.go`, `api/tasks.go` | active flag, claim, deadline, "alert sent" mark | create, update, claim, release, retire when expired | claims race; whole-row updates race the sweeps; the deadline passes while a submission is under way |
| Idempotency, `api/idempotency.go`, `store/idempotency.go` | stored response per identity and key | look up, execute, save | three separate calls; the save uses the request's context |
| Sweep and notifications, `notify/notify.go`, `store/notifications.go`, `api/notifications.go`, `src/cmd/api/main.go` | notifications, subscriptions, subscriber channels, stream tickets | subscribe, notify, push, sweep bounties, take a ticket | two sweeps over one catalog; bounded channels; single-use tickets |
| Sessions, `auth/`, `api/auth_handlers.go`, `store/refresh_tokens.go`, `src/web/src/api.ts` | refresh tokens, the client's pair of tokens | login, refresh (rotate), logout | check, then revoke, then issue |
| Onboarding, `api/auth_handlers.go`, `api/customers.go`, `store/{tenants,customers,identities,accounts}.go` | tenants, customers, identities, accounts | sign a household up, create a customer | a chain of inserts and ledger calls that can stop halfway and is retried |
| Statements and charts, `statement/`, `store/statements.go`, `store/charts.go`, `src/cmd/statement-job` | statements | monthly job, running balance | calendar arithmetic, rows that settle late, a job run twice |
| Amounts, `money/money.go` | none | parse and format minor units | 64-bit wrap-around |
| Migrations, `store/store.go`, `store/migrations/` | applied versions | apply what is missing | two processes starting together |
| Account reads, tenancy, routing, audit, `api/{server,accounts,audit,respond}.go`, `store/audit.go` | stream tickets, audit rows | reads, authorization | reads only, bar the tickets |
| Configuration, mail, key and seed tools | none | one-shot I/O | nothing interleaves |
| Web client, `src/web` | screen state, tokens, feed | renders, retries on 401, merges the feed | concurrent 401s; a feed fed by polling and by events |

How they interact: every mutating request passes authentication and the
idempotency middleware, then runs one handler.  A handler calls the ledger
(TigerBeetle, one transfer at a time) and the store (Postgres, one statement at
a time) in sequence; its `context` ends after 30 s or when the client
disconnects, which makes the next *store* call fail while a ledger call, which
takes no context, still takes effect.  Audit rows and notifications are best
effort: their errors are dropped.  A background sweep and an operator's task list
retire expired bounties.

What makes the components correct:

* ledger: never overdrawn, each hold resolved at most once;
* handlers and rows: the row says what the ledger did, each row stands on its
  own hold with its own amount, decisions are final, and nothing but a cut leaves
  something behind that nobody answers for;
* bounties: one winner, a claim always backed by somebody, a declined bounty
  comes back;
* idempotency: one execution per key, replays return the first answer;
* sweeps: every expiry told, warnings repeated only by what failed, nothing resurrected;
* sessions: one live refresh token per login, none after logout, and a browser that
  can resume what it shows;
* onboarding: a tenant that is listed is usable, a retry can complete;
* statements: consecutive months tile the year, balances add up, late rows are
  carried into the next month once;
* amounts: parse and format are inverse where they succeed.

## The modules

| Module | Stands for | Content |
|---|---|---|
| `Ledger` | `ledger/ledger.go` and the part of TigerBeetle it uses | accounts with four counters, transfers with a state; one operator per call |
| `Holds` | `api/holds.go`, `api/adjustments.go`, `store/transactions.go`, claims of `store/tasks.go` | the running handlers, the rows, the tasks; one action per call a handler makes |
| `Approvals` | what the bank promises | requests, tickets, balances and reserves; one action per promise |
| `HoldsRefinement` | | the mapping from `Holds` to `Approvals` |
| `HoldsInductive` | | what each handler knows at each of its steps: the inductive invariant, `Inv` with cuts and `UncutInv` without |
| `MCHolds` | | bounds and symmetry |
| `Bounties` | `store/tasks.go`, `api/tasks.go`, the sweep of `notify/notify.go`, the claims of `api/holds.go` | one-time tasks with a deadline: catalog, claims, both sweeps |
| `Idempotency` | `api/idempotency.go`, `store/idempotency.go` | lookup, handler and save of concurrent requests of one identity |
| `Onboarding` | `api/auth_handlers.go` (signup), `api/customers.go`, `store/{store,tenants,customers,identities,accounts}.go`, the start of `src/cmd/api/main.go` and of `src/cmd/statement-job/main.go` | processes that migrate and serve, jobs that migrate and end, signups and customer creations |
| `Money` | `money/money.go` | parsing and formatting in integers of one width |
| `Statements`, `MCStatements` | `statement/statement.go`, `store/{charts,statements}.go`, `src/cmd/statement-job`, the download of `api/charts.go` | the calendar, the rows, the job or download that runs, the Inbox |
| `Feed` | `notify/notify.go` (hub), `store/notifications.go`, `api/notifications.go`, tickets of `api/server.go`, `src/web/src/notifications.tsx` | one identity's notifications, its streams and what its tabs show |
| `Sessions`, `MCSessions` | `api/auth_handlers.go`, `store/refresh_tokens.go`, `src/web/src/{api.ts,auth.tsx}` | sign-in, rotation of refresh tokens, sign-out, and the tabs of a browser that do all three |
| `HoldsProofs`, `BountiesProofs`, `IdempotencyProofs`, `SessionsProofs`, `OnboardingProofs`, `StatementsProofs`, `FeedProofs` | | the proofs |
| `Sums` | | lemmas on sums over finite sets, for the proofs about balances |

### Ledger

`account` holds the TigerBeetle counters of the wallets and of the household's
two GLs, `transfer` the transfers created so far.  `Hold`, `Post`, `SettleHold`
and `VoidHold` are the four kinds of call `ledger.go` makes.  TigerBeetle
executes transfers one at a time, so each is one step.  `Funded` is the
`DebitsMustNotExceedCredits` flag of a wallet; `Resolvable` is TigerBeetle's rule
that a post or a void names a transfer that is still pending and carries the
same code.  Transfer ids are numbers used in order (`tb.ID` is unique and
increasing); amounts are positive, as the handlers and the schema require.

### Holds

`row` is the transactions table, `task` the `active` and `claimed_by` columns of
the tasks table, `handler` the requests that are running: the call each makes
next (`step`) and its locals (`tx`, the copy of the row or the row it will insert;
`outcome`; the new `amount` and `hold` of an adjustment).

| Handler | Steps |
|---|---|
| `handleCreateEarning` | `CreateEarning`, `ClaimBounty` (bounties), `PlaceHold`, `CreateTransaction` |
| `handleProposeChore` | `ProposeChore`, `PlaceHold`, `CreateTransaction` |
| `handleCreateRedemption` | `CreateRedemption`, `PlaceHold`, `CreateTransaction` |
| `handleCreateAdjustment` | `CreateAdjustment`, `PostAdjustment`, `CreateTransaction` |
| `handleSettle`, `handleVoid` | `Decide`, `ResolveHold`, `DecideTransaction`, `ReleaseBountyClaim` (declined bounties) |
| `handleAdjustTransaction` | `AdjustTransaction`, `VoidPriorHold`, `PlaceAdjustedHold`, `AdjustTransactionAmount` |

The first action of each stands for everything up to the first call that
writes: the reads and checks of the handler, whose refusals change nothing.
Reading early is the conservative choice, because the checks are then as stale
as they can be.  `Fault` cuts one handler off before its next call, `Crash` all
of them; a call whose effect took place and whose answer was lost is that call
followed by a `Fault`.  `SetActive` is the operator, or an expiry sweep, taking a
task off the catalog or putting it back.

### Approvals and the refinement

`Approvals` has no handlers.  A movement is announced (`Open`, a ticket), becomes
a request of record (`Submit`) or a new amount of one (`Revise`), and an operator
approves or declines it; a balance changes only then, once, by the amount on
the request.  The mapping makes the ledger's answer the moment of decision: a
row that still says pending after its hold was posted counts as approved.
Tickets that never become a request are the holds a cut leaves behind;
`Abandon` is a reward adjustment cut off between its void and its new hold.

### Bounties

`bounty` holds the rows of the tasks table: `active`, `claimed_by`, `expires_at`
and the mark of `expiring_notified_at` (`alerted`); `now` is the database's clock.
`patch` is the copy of a row that a running `handleUpdateTask` will write back:
`LoadTask` reads, `UpdateTask` writes name, value and the active flag, whatever
happened between them.  `submission` is what a holder has going: a claim under
way, a claim that was won (`live`), or a declined one about to be released.
`Holds` has the coins behind a submission; here a claim that is won is a live
submission at once.  Each API process has a background sweep of its own
(`sweep`), a sequence of calls, `StartSweep`, `NotifyExpiringSoon`,
`MarkBountyExpiringNotified`, `RetireExpiredBounties`, `NotifyExpired`, with its list
of bounties in `todo`; `ListTasks` is the sweep that every listing of the catalog
makes.  `notice` counts the warnings and remembers the reports.  Every call of a
sweep may fail (`Fails`): the code logs the error and goes on, so a mark that
fails leaves the bounty to be warned about again by a later pass
(`notify/notify.go:185-187`), and a retirement whose answer is lost reports nothing.
`Crash` stops one process's sweep; `LoseRequest` and `LosePatch` end one request
before its next call takes effect.

### Idempotency

`record` is the table, `call` the requests in the middleware: looking the key up
(`lookup`), in the handler (`handle`) or about to store the response (`save`).
The handler is any handler: it takes effect and answers (`Succeed`), refuses
with a 4xx (`Refuse`), or ends in a 5xx before (`Fail`) or after an effect
(`FailHalfway`).  `effect` lists what handlers did and `answer` what the client
was told; a response is named by the effect it reports.  The response is
streamed to the client before it is saved, so `Succeed` answers and `Save` comes
later.  A client that is gone makes the remaining store calls fail, and the
error of the save is dropped.

### Sessions

`token` is the refresh_tokens table; each row remembers the login its chain of
rotations began with.  `stored` is the browser's localStorage, `access` and
`session` what each tab has in memory, `call` the calls between them.
`handleRefresh` is three calls (`Lookup`, `Rotate`, `IssueTokens`), `handleLogin` ends
in the last of them, `handleLogout` is `LogoutRevokes`.  A tab reads the stored token
when a 401 arrives (`TryRefresh`), and acts on what is stored when the answer does
(`Adopt`, `DropTokens`, `ClearTokens`).  `Reload` forgets the tab's memory and resumes
with the stored token, while calls it had under way run on at the server.  A
login with a wrong password is a 401 too and leads to a refresh; that is why
`Unauthorized` is possible without a session.  `overlaps` counts the calls that
start with a token another call is using, `faults` the store errors and the lost
answers.

### Onboarding

`recorded` is `schema_migrations`, `proc` where each process is: a process checks a
version (`CheckVersion`), applies it in a transaction (`ApplyMigration`) and goes on,
or exits on any error, the loss of a race included.  After the last version an API
process serves; one of `Job`, the statement job, works and ends (`JobEnds`), and
may be run again.  `bank` holds the rows and the
ledger accounts that requests have made, each named for its request.  `request` is
the signups and customer creations; `Steps` is the order of their calls, and
`LookupName`, `OpenGL`, `CreateTenant`, `CreateInternalAccount`, `CreateCustomer`,
`CreateIdentity`, `OpenAccount` and `CreateAccount` are the calls.  A pair of GL
accounts is one action whose failure may leave one of the two: no other request
looks at them in between.  A call that fails may have had its effect (`Attempt`);
`Crash` cuts every request of a process.  `met` remembers which requests for the
same name ran together.

### Money and Statements

`Money` counts in digits of base `Base`, with `Scale` decimals and integers up to
`MaxInt`, as the code does with 10, 3 and 64 bits; a typed amount is a record of sign,
whole part and decimals.  `Statements` puts those amounts through the table: `Submit`,
`Adjust` (settled at once, with any date) and `Settle` change the rows, `Tick` the
date.  A job or a download is `run`: `StartJob` or `StartDownload`, then the queries
`QueryOpening`, `QueryHistory`, `QuerySummary`, `QueryItems` of `Generate`, then `Deliver`
for a download, or `SaveStatement`, `SendStatement` and `MarkStatementEmailed` for the
job, account by account (`NextAccount`).  One of them runs at a time: they only read
what the others change.  Value dates are kept to the month, which is all
the four queries distinguish.  `known` of a statement is bookkeeping for the
properties: what was settled when it was begun.

### Feed

`table` is the notifications of one identity, with their read marks; `notifying` are
those inserted and not yet broadcast.  `stream` has, per ticket, the ticket, the
channel in the hub and whether its client is gone; `tab` what a tab shows.  `Connect`
mints a ticket, `TakeStreamTicket` is the GET that takes it and subscribes, `Push` is
the loop that writes an event, `Unsubscribe` its end.  The GET may come late, twice or
never.  A refresh is `Focus` or `SignIn`, then `ReadList`, `ReadCount` and `Answer`; a mark
is shown at once (`MarkRead`, `MarkAllRead`) and reaches the table later
(`ApplyMark`), or never.  `InsertNotification(FALSE)` is an insert by a process without
this identity's streams: the statement job, or another API process.  `exact` and
`clean` are bookkeeping: they drop to false when one of the things happens that the
feed is known not to survive, and `FeedMatchesTable` says there is nothing else.

## The runs

| Run | Question | Bounds |
|---|---|---|
| `holds_cuts` | Do the ledger, the rows and the bounties stay consistent in every interleaving, with a handler or the whole process cut off anywhere?  Does anything but a cut strand a claim, a row or coins?  Do the handlers implement `Approvals`? | 1 wallet, 2 handlers at once, 1 bounty, 2 rows, 3 transfers, amounts 1..2, 1 cut |
| `holds_flow` | When every handler runs to its end, do balances add up, do claims and decisions always complete? | the same, no cuts, fair handlers |
| `holds_stranded` | Does a pending row always have a decision to wait for? No: see Findings | as `holds_cuts` |
| `bounties_sweep` | Do claims, warnings, reports and the catalog survive stale updates, sweeps of several processes, deadlines, crashes and calls that fail? | 1 bounty, 2 holders, 1 operator, 2 processes, clock 0..3, window 1, 2 faults |
| `bounties_silent` | Is every unclaimed expiry reported? No | the same, clock 0..2, no operator, no crash |
| `idempotency_retries` | Whose result does an answer report, and what can repeat an effect? | 1 key, 2 bodies, 3 requests at a time, 2 overlapping resends, 2 faults |
| `idempotency_repeats` | Does a key execute once? No | 1 key, 2 requests, 1 overlap |
| `sessions_rotate` | How many live refresh tokens can a login have, and does a browser keep a revoked one? | 2 tabs, 2 calls at a time, 3 tokens, 1 overlap, 1 fault |
| `sessions_races` | Can every session on screen be resumed? No | the same, no fault |
| `onboarding` | Do processes that start together get the schema right and get through, and what do interrupted or racing requests leave behind? | 1 API process, 1 job, 2 versions, 3 requests (2 signups), 2 names, 1 process that dies, 1 failing call |
| `statements` | Do statements add up and follow on from each other, and does the job reach everybody, while rows change under them? | 2 accounts, months of 1 and 2 days, 2 rows, 2 jobs or downloads, 1 fault, integers up to 31 in tenths |
| `feed` | Is the feed what the table holds, and does the hub forget who is gone? | 1 tab, 2 notifications, 2 tickets, channel of 1, list of 2, 1 refresh, 1 mark under way |

Why these bounds are enough.  Every conflict is between handlers about one row,
one hold or one bounty; two handlers show each pair of steps in each order, and
a third handler can only meet what a finished one left behind, which the model
reaches because slots are reused.  Three transfers are what an adjustment (two)
and a competing submission (one) need; two amounts distinguish an adjusted
reward from the first one and a covered redemption from one that is not.
Proposed chores stand in for ordinary catalog chores, whose submissions take the
same steps; the proofs need no such choice.

Bounties do not share rows and keys do not share records, so one of each shows
every conflict; two holders compete for the one bounty, and the proofs cover any
number.  One operator has one stale copy, which is what every other actor can race:
two operators' copies are two writes of the flag, and the proofs have any number of
them.  Two processes sweep side by side, and two faults are a failed mark followed by
a crash, or a failed one in each.  The instants put a deadline before,
at and after each step, with the warning window between.  Three requests at a
time are a request, its resend and another request under the same key; two faults
are a response lost after its effect and one more cut of the retry.
Two calls are enough for the races over one token, and two tabs for those a single
page could avoid by itself.  Three tokens are a login and the two successors that
an overlap issues, or a login, its rotation and another login.  Every
interleaving of the steps is explored; when the tokens are used up no more are
issued, which is why those runs, like the other bounded ones, may stop.

Two signups, or a signup and a customer creation, are what a race for a name
takes, and the third request meets what both left; two versions are one that
seeds and one that does not, and the proofs cover any number of each.  Two processes
are what a race for a version takes, and one of them is the job because it leaves
nobody to serve when it wins; more API processes differ only in which requests a crash
cuts together, which the proofs cover.  The months
of the calendar are as long as it takes to have a day that the month before lacks; the
amounts are one that fits and one that wraps around when counted in minor units;
two rows are one on each side of every query, and two runs are two statements of
consecutive months, or a job and its rerun.  In `Feed` two notifications fill a
channel of one and are told in either order, two tickets are a connection and the
one that replaces it, and the list is longer than the channel, as 100 is than 8.  The
run has one tab, to check liveness in the time it has, with another device that
marks; with two tabs, and without liveness, the safety properties hold as well
(8 053 994 distinct states), and `FeedProofs` covers any number of tabs for all three.

Fairness of the migrations (`Onboarding`): a process that migrates goes on; it need not
start, and requests need not be made or end.  Fairness of the hub (`Feed`): the
goroutine of a notification runs on to its broadcast, and the loop of a stream writes
what is in its channel and ends when its client is gone, since `select` waits for both
(`api/notifications.go:106-123`).  Clients, people and the network owe nothing.

Fairness of the sweeps (`FairSpec` of `Bounties`): the ticker in each process,
`src/cmd/api/main.go:67-81`, fires again and again and a pass that has started runs
on, so `Sweeping` is weakly fair for each.  Listings, updates, claims and decisions are
left to people and are not.

Fairness (`holds_flow`): weak fairness of each handler's next call.  A goroutine
that is not cut off runs on, and no call waits for another handler.  Nothing is
assumed of people: no operator ever has to decide, no holder to submit.

Properties, and what they rule out:

* `Solvent`: overdrafts through any mix of reserved and posted debits.
* `DecisionsMatchLedger`: a row that says settled for coins that never moved, or
  voided for coins that did.
* `RowsOwnTheirHolds`: a row with another row's hold or with an amount other than
  its hold's, also after an adjustment.
* `OneLiveSubmissionPerBounty`, `ClaimsAreBacked`, `DeclinedBountiesReopen`: two
  winners, a bounty blocked for nothing, a decline that does not reopen it.
* `OnlyCutsStrand`: an interleaving, or an early return, after which a bounty is
  claimed with nobody at work on it, a pending row has no hold to decide, or a hold
  has no row, where that was not so before; only a call that a cut takes away may
  do this, and what earlier cuts have left behind excuses nothing else.
* `FullInv`: the inductive invariant, see Proofs.
* `DecidedRowsAreFinal`: a decided row that changes.
* `ImplementsApprovals`: coins that move twice, at another moment, or by another
  amount than the promise says.
* `BalanceMatchesRows`: a wallet whose balance is not what its rows add up to.
* `PendingRowsAwaitDecision`, `StrandedRowsRecover`: entries of the operator's queue
  that nobody can act on.

* `ClaimsAreKept`: a claim lost to a stale update, a sweep, a release or another
  holder.
* `ExpiryReportsAreTrue`: operators told that nobody claimed a bounty somebody has,
  or still gets.
* `WarningsAreExplained`: holders warned over and over: each process warns once, and
  once more for a mark that failed or that a crash prevented.
* `ExpiredBountiesRetire`: an unclaimed bounty that an update put back after its
  deadline and that stays on the catalog.
* `AnswersAreOwn`: a replay, or a request overlapping another one under its key,
  answered with the other's result.
* `FirstResponseStands`, `AnswersAgree`: replays that disagree.
* `RepeatsAreExplained`: an effect repeated although no request was cut off or
  overlapped.
* `LiveTokensAreExplained`: rotations that leave the old token usable, and sign-outs
  that leave a token behind, beyond what an overlap or a fault explains.
* `StoredTokenIsUsable`: a tab that revokes the token without replacing what all
  tabs share.

* `SchemaIsInStep`, `StartsGetThrough`: versions applied twice or out of order, a
  process that serves, or a job that works, with half a schema; processes that all
  fail each other before the schema is whole, and an API process that a job keeps
  from serving once it is.
* `LoginsAreComplete`: somebody who can sign in to a household the ledger or the
  tables do not know; a wallet whose owner no notification reaches.
* `LeftoversAreExplained`: half-made households or customers that neither a cut, nor
  an error, nor a race for the name accounts for.
* `StatementsAgree`: a closing balance, sums or lines that are not about what one
  ledger held, growing while they were read; a month that opens with anything but
  what the one before closed with and the rows that came late for it: a row lost
  between two months, or counted in both, whenever it was settled or dated back.
* `RowsAreReported`: rows that fall out of their month's statement or into another's,
  and lines that show another amount than was typed.
* `JobsCoverTheMonthBefore`: accounts skipped because another one failed, statements
  stored twice in a run or for another month, mail marked that was not sent.
* `ChannelsAreHeld`: a ticket that admits two connections, a channel that no tab
  listens to and nobody closes.
* `FeedMatchesTable`: a feed that is wrong for any reason but those the code accepts
  (events dropped, told out of order or by another process; a refresh that overlaps a
  change), or that the next undisturbed refresh does not put right.  It does not say
  that those reasons are harmless.
* `HubSettles`: channels that stay in the hub for good, events that stay in a channel.

## Findings

* A cut between the ledger's answer and the update of the row (`api/holds.go:309`,
  also `:206-211` for an adjustment) leaves a row pending whose hold is already
  resolved.  Every later settle, void or adjustment of it is refused by the
  ledger, and no code repairs it.  `domain/domain.go:57` calls a pending row an
  "authorization hold placed, awaiting decision".  Run `holds_stranded` shows it.
* Every listing of the catalog retires expired bounties with an audit entry and no
  notification (`api/tasks.go:31`); the sweep reports what it retires itself, so a
  listing that comes first silences the report.  `src/cmd/api/main.go:67-68` says
  the sweep "retires (with a notification) any that already expired".  Run
  `bounties_silent`.
* A key is looked up before the handler and stored after it by separate
  statements, under the request's context and with the error dropped
  (`api/idempotency.go:45-77`): an overlapping resend, or one after a cut between
  effect and save, executes again.  `store/migrations/0001_init.sql:63` says "Idempotency
  keys make every write safe to retry".  Run `idempotency_repeats`; what bounds the
  repetitions is `RepeatsAreExplained`.
* Refreshes are not shared (`src/web/src/api.ts:209-221`): when two requests or tabs
  refresh with one token, the loser is answered 401 and removes the stored token,
  which by then is the winner's.  The session is on screen and cannot be resumed,
  though `api.ts:1-3` says the token is persisted "so a reload can transparently
  re-authenticate".  Run `sessions_races`.

Noted without a run:

* Two refreshes with one token that overlap both succeed, since `handleRefresh` does
  not ask whether its `UPDATE` revoked anything (`api/auth_handlers.go:168`,
  `store/refresh_tokens.go:40-44`), so one refresh token can have two successors;
  `LiveTokensAreExplained` bounds them.
* The comment on `RetireExpiredBounties` (`store/tasks.go:107-108`) speaks of bounties
  that "were never claimed", and `api/tasks.go:28-29` retires them "since nobody claimed
  them"; the WHERE clauses (`store/tasks.go:113-116`, `:141-142`) retire claimed ones as
  well.  `notify/notify.go:196` knows of it.  The model does what the statements do, and
  no property says that they should: `ExpiredBountiesRetire` is about unclaimed
  bounties only.
* A warning that a bounty expires soon is sent before its mark is written, the error
  of the mark is logged (`notify/notify.go:185-187`), and every API process sweeps: a
  mark that fails, or a second process, repeats the "one-time" alert of
  `store/tasks.go:160-162`.  `WarningsAreExplained` bounds the repetitions.
* An API process that loses a version to the statement job exits
  (`store/store.go:85-101`), and the job serves nobody; `StartsGetThrough` says that
  starting the process again helps.
* After a listing has retired an expired bounty, a late submission is answered 400
  `task_inactive`, since `api/holds.go:49` looks at the active flag before the claim
  looks at the deadline.  `api/integration_test.go:494-501` lists the catalog after
  the deadline and then expects 409 `bounty_expired`.
* `src/cmd/statement-job/main.go:59` calls its period "the just-completed calendar
  month".  `AddDate(0, -1, 0)` on a day that the month before does not have runs over
  into the current one (on 31 March it is 3 March), so a job that runs on such a day
  makes statements of the month that is not over.  `JobsCoverTheMonthBefore` leaves
  these days out.
* The comment on `SaveStatement` (`store/statements.go:14-16`) says that the download
  stores a statement as well; `api/charts.go:198-202` says, and does, the opposite.
* `ListActiveTenants` promises "fully-onboarded" households (`store/tenants.go:36`); it
  also lists one whose signup was cut, failed, or lost its name after the tenant was
  inserted.  `GetIdentityByCustomer` says that "each customer has exactly one login"
  (`store/identities.go:57-58`), which such a customer does not.
  `LeftoversAreExplained` says when.
* A statement's notification does not reach an open feed, whatever `src/README.md:45`
  says of live updates: the job's hub has no streams (`src/cmd/statement-job/main.go:57`).
* A large amount wraps around (`money/money.go:60`) and may come out positive, as
  another amount than was typed; `RowsAreReported` excludes only those.

## Proofs

Every invariant and every action property of the passing runs is stated by a theorem
as well, and so is the refinement: the run shows it on a small instance, the theorem
for every value of the constants.

### Holds (`HoldsProofs`)

From the three assumptions of `Ledger` and the one of `Holds` (accounts distinct, ids and
amounts positive, the cost of a reward an amount):

* `InvHolds`, `Spec => []Inv`, and from it `TypesHold`, `WalletsSolvent`, `DecisionsHold`,
  `HoldsAreOwned` and `OneWinner`;
* `DecidedRowsFinal`, directly from the actions;
* `FullInvHolds`, and from it `ClaimsBacked` and `PendingRowsAwait`;
* `StrandingsAreCuts` and `BalancesMatch`;
* `Refinement`, `Spec => ImplementsApprovals`.

None of the properties is inductive alone.  That a decision matches the ledger
needs to know, before the row is written, that the handler about to write it is
the one whose call the ledger accepted, and that nobody else can write the row
in between.  `Inv` says so: a handler past the ledger's answer *owns* its row (the
row is pending, still names the hold the handler resolved, and no other handler
owns it); a handler before it may have a stale copy, but then the hold in its
copy is resolved and the ledger will refuse it; a handler with a new hold in
its hands is the only one to know it; and the claim on a bounty is a token held
by one live row or by one handler.

`OnlyCutsStrand` is about every step of every behaviour, cuts before it included.  A
step belongs to one handler, or to nobody; what the others have in hand they keep
(`Kept`), and the one that moves either passes what it carries on to its next step or
ends with it written down (`Tidy`, one lemma per call).  Behaviours
that were cut are not excused, so the lemmas rest on what holds with cuts as well, `Inv` and
`TasksAreEarned`, and on what stood before the step.

`ClaimsAreBacked`, `PendingRowsAwaitDecision` and `BalanceMatchesRows` are false after a cut,
and the run that checks them has none (`MaxFaults = 0`).  Their theorems are
about every behaviour, as far as it has not been cut: `Spec => [](faults = 0 => ...)`.
`UncutInv` is what they need beyond `Inv`: only an earning is for a task, and, without a
cut, every hold that was not voided is named by a row or is in the hands of
the handler that will name it (`HoldsAreNamed`).

`BalancesMatch` compares two sums, over the transfers and over the rows of a wallet.  The
library's induction theorems cannot be used (they take an operator as parameter), so
`Sums` proves by other means that a sum over a finite set satisfies its recursive
equation: a non-empty set of subsets of a finite set has a smallest member, and
applied to the subsets at which a fact fails, this leaves none.  What is added, taken away or
changed in a sum follows from that equation.  The invariant `Tables` then carries the
finite tables and the counters of *every* account, the household's GLs included; each
ledger call adds one transfer or changes the state of one.  `BalancesMatch` counts the
same coins a second time along the rows, which name the transfers one to one.

`Refinement`: what the handlers do call by call, cut anywhere, is what
`Approvals` promises.  Each call is one abstract step or a stutter: the hold or the
immediate posting opens a ticket, the insert of a row submits it, the settlement or
the void approves or declines, the new amount of an adjusted row revises, a cut
between the ledger and the row abandons; all the rest stutters, the update of the row
included, since the decision is the ledger's.  It rests on `Inv` (a handler that writes
owns what it writes) and on one more invariant, `Kinds`: a transfer is posted at once
exactly when its code is a manual one.

### Bounties (`BountiesProofs`)

`TypesHold`, `ClaimsHold`, `ReportsHold` and `WarningsHold`, from `BountiesAssumption` alone.  The
invariant has three independent parts: a submission that is live or about to be
released is a token for the claim, on a bounty nobody has won; a bounty that is lost
(expired with nobody on it) stays lost, so what the sweep is about to report is as true
as what it reported; and a warning is paid for by the process that gave it, which does
not list the bounty again once it is marked (`Spent`), or by the fault that took the
mark away (`WarningsArePaid`).

### Idempotency (`IdempotencyProofs`)

* `TypesHold`, `AnswersHold`, `FirstResponsesHold`.  The invariant extends `AnswersAreOwn` to what is
  stored and to what a request is about to store, each naming an effect of the right key
  and body; effects are only added, so what is owned stays owned.
* `RepeatsHold`: every execution of a key beyond the first is paid for.  `ChargedInv` charges
  in advance: as long as nothing is on record, the executions of a key, the requests that may
  still execute it, and the requests under way whose client is gone, together are at most the
  faults and overlaps so far, and one more while the key has a request under way; once
  there is a record, only the requests already in the handler count.
* `AnswersAgreeHolds`: `OrderlyInv` is what holds without faults and overlaps: a key has one request at a
  time, nothing that is on record is handled again, and every final answer
  is stored or in the hands of the request that will store it.

### Sessions (`SessionsProofs`)

* `TypesHold`.
* `LiveTokensHold`: every live token of a login is paid for: by the login itself as long as its
  sign-out has not reached the server, by an overlap, or by a fault.  `Paid` counts the calls that
  may still leave a live token behind and, besides, the *spare* tokens: live ones no call is
  using, and dead ones that a tab is still to sign out with.  A rotation then trades a token
  for a call and the call for its successor, and only a fault or an overlap adds to the count.
* `StoredTokenHolds`: as long as there was no fault and the token in localStorage is revoked,
  some call is under way that will replace or drop it (`Rescued`).  The proof follows the
  token from the call that revoked it, through the answer, to the tab that acts on it, past
  the other tabs that may overwrite or remove it first.

### Onboarding (`OnboardingProofs`)

`TypesHold`, `SchemaHolds`, `LoginsHold` and `LeftoversHold`, for any number of processes, versions,
requests, names, crashes and faults.  `LoginsAreComplete` rests on the order of the calls: a
request past a call has that call's work on record (`WorkIsOnRecord`), a customer creation
belongs to a household whose operator could sign in, hence to a complete one
(`HouseholdsAreReady`), and a login belongs to a request (`LoginsHaveRequests`).  The schema needs
no strengthening but the types.  `LeftoversAreExplained` needs that a request before its lookup
has left nothing, that two running requests for one name have met, and that a name
taken under a running request was taken by one it met (`LeftInv`).

### Statements (`StatementsProofs`)

* `TypesHold`, `RowsReported`, `StatementsAgreeHolds` and `JobsCover`, for any calendar, accounts, rows and runs,
  any amounts, and any base, scale and width of the integers.
* `ParsedAmounts`: what is parsed is formatted as it was typed, unless it wraps around.
* The invariant `Inv` follows a statement through its four queries: what each has read is what
  was settled when it ran, and rows are only ever added to that, so the queries are about
  growing sets of rows.  The opening balances of two months differ by the rows only one of them
  has counted (`BalDiffers`), by the lemmas of `Sums`.  For the job it says that each
  account it is past was stored or has failed.

### Feed (`FeedProofs`)

`TypesHold`, `ChannelsHold` and `FeedMatches`, for any number of tabs, tickets, notifications, refreshes and
marks.  The types carry the bounds on the channels and the lists, those a refresh brings
back included.  That a ticket admits one connection needs that a ticket which still stands
was not taken yet (`TicketsAreFresh`); that a channel in the hub is that of a stream its tab
holds, or of one whose client is gone, needs that a tab holds a stream of its own, in a
session (`TabsHoldTheirOwn`).

`FeedMatchesTable` speaks of a feed at rest; `FeedInv` says what is true on the way there.  A tab
that nothing harmful happened to (`exact`) knows the first notifications of the
table, the next ones are in its channel in order, the rest are not broadcast yet,
and it shows the newest of those it knows with its own marks applied (`Accurate`); or
a mark under way, of another device or of a shorter list, is going to end that
(`Doomed`).  A refresh that nothing disturbed has read what is still so (`Clean`), and
makes the tab exact again.

### The assumptions

Each module's ASSUME says of its constants what the code or the schema fixes: ids are positive,
bounds are numbers, an absent value is no value.  Three are worth a word.
`PowersAssumption` is true of all numbers: the provers know nothing of `^`.
`StatementsAssumption` has finitely many accounts, as a household does, and a calendar with a
month.  It also takes the decimals of an amount that is not refused for having too many
to be less than one coin: a string of at most `Scale` digits is a number
below `Base ^ Scale` (`money/money.go:46-54`).  TLC evaluates all of them on the runs.

### Only model-checked

Liveness: `StrandedRowsRecover`, `DeclinedBountiesReopen`, `ExpiredBountiesRetire`, `StartsGetThrough`,
`HubSettles`.  Liveness under fairness, and ENABLED, are beyond the prover.  What the four runs that
expect a violation check is false there, see Findings.

## Plan

Built: `Ledger`, `Holds` with `Approvals`, `Idempotency`, `Bounties`, `Sessions`,
`Onboarding`, `Money` with `Statements`, `Feed`, and the proofs above.  Next:

1. abstract specifications of the idempotency table (a key has one outcome) and
   of the sessions (a login has a current token), and the modules shown to implement
   them, so that their proofs can be read from the promise down;
2. of the longer proofs, those of `Holds` and `Feed`, what several actions repeat, as lemmas.

## Not modelled

Rendering (the drawing of PDF statements and charts, the React screens), mail,
configuration, the seed and key tools: sequential I/O.  The endpoints that serve
charts and lists, the ranking of the chores and the mark of a statement's first
opening: nothing reads them back.  Web Push: a best-effort call to an external service per
subscription, after the notification is in the table and on the streams.
Authentication of requests and tenancy
checks: each query carries the tenant id, and the models are of one household
(`Onboarding` of several).
Audit rows, and notifications inside the handlers of `Holds`: nothing reads them back
in the flows modelled there.  Widths of amounts: TigerBeetle's counters have 128 bits
and the core model's amounts are small numbers; wrap-around is in `Money`.  A refresh
that is answered after another identity signed in to the same tab: `Feed` is the feed
of one identity.
