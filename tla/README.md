# TLA+ models of BitGarth

BitGarth is a self-hosted server that tracks the crypto holdings of its users.
Every user has an encrypted SQLite database; it is decrypted only while somebody
who holds a key needs it.  Background jobs fetch blockchain transactions and
prices into those databases.  This directory holds TLA+ modules that model the
concurrent core of the server, TLC configurations that check them on small
instances, and TLAPS proofs of the main results for every instance.

All paths below are relative to the repository; the Rust crate is under `src/`.

## 1. Inventory

| Part | State it keeps | Operations | Hard because |
|---|---|---|---|
| User lifecycle registry (`auth/lifecycle.rs`) | one entry per user behind a Mutex and a Condvar: exclusive flag, blocked capabilities, request counters, pinned browser sessions | acquire/drop a request lease, take/drop the exclusive guard, begin/drain/drop a capability shutdown, pin/unpin a session | four kinds of wait on one Condvar; the last drop closes the decrypted database |
| Browser sessions (`auth/session.rs`, `backend/session_context.rs`) | `sessions` rows in the app database | create, look up, invalidate, sweep | the row and the pin change in different steps |
| Login, registration, logout (`backend/auth.rs`) | `users` row, envelope file | register, login, logout | long operation under the guard; errors in the middle; the user may be deleted while it waits |
| Client API authorisation (`backend/public_api.rs`) | `client_capabilities` rows | authorise, expire, record activity | authorised before the lease is taken |
| Pairing (`pairing.rs`, `backend/pairing.rs`) | in-memory store of pairings, some holding a request lease | start, approve, deny, claim, expire, revoke | a lease that lives between requests |
| User database connections (`db/`) | open connections per user | initialize, close | closed by whoever leaves last |
| Session cleanup job (`tasks/jobs/session_cleanup.rs`) | none | shut down expired capabilities, sweep expired sessions | waits for requests in flight |
| Inactive user deletion (`tasks/jobs/inactive_user_cleanup.rs`) | none | list candidates, recheck under the guard, remove directory, delete rows | candidates are stale; crash between directory and rows |
| Task manager (`tasks/mod.rs`, `tasks/eligibility_refresh.rs`) | jobs map, bounded command channel, global shutdown flag | tick, enqueue, completion, shutdown | coalescing, eligibility, shutdown with jobs in flight |
| Process start-up and shutdown (`main.rs`) | - | serve, drain with a deadline, close the databases | the deadline races the drain |
| Automatic sync decisions (`tasks/automatic_sync.rs`) | per-user sync history | decide EnqueueNow / wait / blocked | freshness arithmetic |
| Sync execution lease, manual sync control (`sync_execution_lease.rs`, `tasks/jobs/sync/manual_control.rs`) | per-user lease, in memory | wait for it, try it, drop it; one iteration after the other | keeps sync control and a repair apart, and nothing else |
| Bitcoin history (`tasks/jobs/sync/integrations/mempool/`, `db/transaction_sync/`) | per address: cursor, proof, expected count, strict-scan marker; raw pages; the account's integration row; the pending full resync | statistics, pages, reconcile, invalidate, publish, finish or fail | one history from many pages, runs and transactions, while blocks are replaced |
| Ethereum history (`tasks/jobs/sync/integrations/etherscan/`) | per address: committed tip, pending range, older cursor | fetch two streams, reconcile, narrow, commit, save | the index trails the tip, and two runners share the rows |
| Ledger rebuild (`db/account_transactions/ledger_rebuild.rs`) | the account's ledger and its closing balances | rebuild, publish, clear | its opening balance depends on what is proved |
| HD scan (`tasks/jobs/sync/hd_scan.rs`, `db/transaction_sync/hd_chain.rs`) | a persisted frontier per chain, stored addresses, the published completion | resume, visit, derive, rescan, interrupt, persist, complete | spans many runs; budget, failures, skips and crashes end a run anywhere |
| Sync gate and rate limits (`tasks/jobs/sync/gate.rs`, `rate_limit.rs`, `chain_tip.rs`) | last result, time and tip of each address, rate-limit blocks | skip, fetch, fail | a skip is not a fetch, and several windows apply |
| Sync engine: planner, cycles, raw ingestion, executor (`tasks/jobs/`) | sync runs, raw records | plan, visit, rebuild, refresh | restarts, provider limits |
| Price history, transaction queries, payments and entitlements, wallets, traces | user and app tables | reconcile, rebuild, pay | idempotence, ordering |
| Encryption and migrations, exports, prices service, user interface, command-line client | files, views | - | mostly data and I/O |

The parts interact as follows.  A browser request goes through
`require_initialized_session`, a paired client's through
`authorize_client_request`; both take a `UserRequestLease` from the registry and
open the user database if it is closed.  Login, registration and inactive-user
deletion take the exclusive `UserLifecycleGuard`.  Revocation and expiry of a
paired client take a `CapabilityShutdownGuard`, which refuses new requests of
that client and waits for those in flight.  Handlers ask the task manager for
user jobs with `enqueue_trigger`, which sends a command on a bounded channel and
awaits the answer; jobs run on the blocking pool and report on the same channel.
`main.rs` stops the manager before it closes the databases.

What makes the parts correct:

* registry: the counters are exact, the guard is alone, nobody is served from a
  closed database, an open database is needed by somebody, every wait ends;
* sessions: a deleted session does not stay pinned;
* client API: a revoked or expired client is not served once its shutdown ended;
* deletion: a user who became active again is spared;
* task manager: a job never runs twice at once, an accepted request is carried
  out with a scope at least as wide as asked, nothing starts or runs once the
  databases may be closed, callers are answered;
* HD scan: no address is passed over when a scan resumes, discovery derives no
  further than the gap limit allows, a published completion covers a full gap
  behind every active address, and every used address is found in the end;
* Bitcoin history: a proof counts only transactions that are stored, a complete
  account holds exactly what was proved and has a ledger rebuilt since, a
  contradiction is never reported away, a repair runs alone;
* Ethereum history: what a committed tip or a pending range lets the next run skip
  is stored, and everything the provider lists arrives.

`PROJECT.json` lists every component with its status and, under `hazards`, the
places in the code where these can go wrong.

## 2. Modules

| Module | Content |
|---|---|
| `UserLifecycle` | the registry and every handler and job that uses it, for one user |
| `UserLifecycleProofs` | inductive invariant and theorems about it |
| `MCUserLifecycle` | symmetry for TLC |
| `TaskManager` | the job manager, its callers, its jobs and the shutdown |
| `TaskManagerProofs` | inductive invariant and theorems about it |
| `MCTaskManager` | symmetry for TLC |
| `HdScan` | gap-limit discovery of one HD account, run after run |
| `HdScanProofs` | inductive invariant and theorems about it |
| `MCHdScan` | how deep the owner uses each chain |
| `BitcoinHistory` | the history of a single-address Bitcoin account: automatic runs, sync control, repair, ledger |
| `HistoryClaim` | what such a history promises, abstractly; `BitcoinHistory` implements it |
| `BitcoinHistoryProofs` | who holds the lease, where a contradiction may be pending |
| `BitcoinBoundsProofs` | the ranges of everything stored and held in memory; a strict scan is exact |
| `BitcoinClaimProofs` | what an ordinary proof stands on; the refinement of `HistoryClaim` |
| `MCBitcoinHistory` | root module for TLC |
| `EtherscanHistory` | the history of one Ethereum address |
| `EtherscanHistoryProofs` | inductive invariant and theorems about it |
| `MCEtherscanHistory` | what the blocks hold |
| `NewestFirst` | lemmas on sets of numbers, their largest members and sizes, used by three proof modules |

`HdScan`, `BitcoinHistory` and `EtherscanHistory` model the same engine on three
kinds of account; an account of one kind does not read the rows of another.

Definitions introduced with "Slip:" in a comment are wrong variants of the
definition below them (a dropped guard, a missing reset).  No specification uses
them: they show that a property notices the slip (see `mutants` in
`PROJECT.json`).

### 2.1 UserLifecycle

Registry entries of different users share only the mutex, so one entry is
modelled.  The variables `exclusive_user`, `blocked_capabilities`,
`active_requests`, `active_by_capability` and `browser_sessions` are the fields
of `UserLifecycleState`; an absent HashMap entry is the default one, because
`is_idle` removes exactly the entries equal to it.  `dbOpen` says that
`USER_CONNECTIONS` has the user.  `user`, `inactive`, `rows`, `expired`,
`capability`, `capExpired`, `issued` and `tokens` are durable: a `users` row with
or without an envelope, the session and capability rows, what is past its
timeout, and which session ids were generated and sent to a browser.  `pairing`
is the store.  A handler is a program counter `pc[p]` with its locals and the
lease it owns; `lease[c]` of a pairing `c` is the lease an approved pairing keeps.

A step is one critical section of the registry mutex or one statement or
transaction on the app database.  Between two of them any other handler may run,
time may pass (`SessionTimesOut`, `CapabilityTimesOut`, `UserBecomesInactive`)
and the process may die (`Restart`, which keeps only what is durable).

| Actions | Code |
|---|---|
| `LookupSession` … `RecheckFails`, `Served`, `ReleaseLease` | `require_initialized_session` and the handler that uses it |
| `Logout`, `DeleteRow`, `UnpinBrowserSession` | `logout`, `delete_session`/`invalidate_session`, `unpin_browser_session` |
| `FindCapability` … `ReleaseBeforeExpiry` | `authorize_client_request` |
| `BeginExpiry`, `ClearExpiredWrap`, `BeginRevoke`, `RevokeCapability`, `ShutdownWriteFails`, `WaitForRequests`, `DropShutdownGuard` | `shutdown_expired_client_capability`, `revoke_paired_client`, `CapabilityShutdownGuard` |
| `StartPairing` … `ExpirePairing` | `PairingStore`, `approve_pairing`, `deny_pairing`, `claim` |
| `Register`, `LookupUser`, `ClaimExclusive`, `DrainRequests`, `VerifyPassword` … `DropLifecycleGuard` | `register`, `login`, `acquire_user_lifecycle_lock` |
| `ListCandidate`, `ReapCheck` … `ReapFails` | `delete_candidate_user` |
| `StartCleanup`, `NextExpired`, `SweepSessions` | the session-cleanup job |

Abstracted: passwords, keys, cookies and settings (a wrong password is a choice),
clocks (membership of `expired`, `capExpired`, `inactive`), and what a handler
reads or writes while it serves.  With `Faults = TRUE` each fallible step (SQLite,
file system, unwrap) may fail.  Two assumptions about time: a session does not
time out between its insertion and its pin, and the inactivity cut-off (months)
is not crossed during one login.  A pairing's limits (how many, how often) are
not modelled.

### 2.2 TaskManager

The manager task owns `registered` (keys of the jobs map), `running`, `pending`,
`due` (`next_due_at` has passed), `refresh` (`EligibilityRefresh`) and
`shutting_down`.  `channel` is the mpsc channel, `flag` is
`TASK_MANAGER_SHUTTING_DOWN`, `executing[k]` counts the spawned tasks of `k` that
have not reported, `call`/`asked` are the callers of `enqueue_trigger`, and
`shutdown` is where `main.rs` stands.  `owed` is a history variable: the run id
and scope of every request answered "queued" whose rerun has not started.

One command is one step.  A tick is several (`RefreshMonitors` or
`RefreshSkipped`, `ApplyAgenda` for each request, `CollectDue`, `ApplyAgenda`
again, `TickDone`), because the global flag can be stored between two
`apply_trigger` calls and jobs report meanwhile.

Abstracted: the decision whether a monitor is stale (any subset of the due or
newly eligible ones gets a request), which users are eligible (any set at every
tick), the source of a request and its reason (only logged).  Run ids are random
in the code; in the model a new one differs from those in use.
`RejectedInvalidKey` is not modelled: callers only use user keys, and requests for
app keys come from the entries themselves.  A job that panics reports a failure.

### 2.3 HdScan

One HD account of one user, and the automatic sync runs of that account one after
the other (the execution lease admits one at a time).  An address is a chain and
an index; rows are derived contiguously from index 0, so positions are indexes.

| Variables | Code |
|---|---|
| `used` | activity on the blockchain |
| `derived`, `rows`, `fetched`, `observed`, `failed` | stored addresses, addresses named by transactions and transfers, `last_tip_height` set, activity ever shown by statistics (history), `last_result` is Failure |
| `frontier`, `published` | `hd_account_chain_sync_state`, the indexes of the last completion |
| `limited` | the in-memory rate limit of the user |
| `known`, `completed`, `processed`, `tip_cached` | the run's `known_activity`, `completed_address_ids`, `processed_for_account`, `chain_tip_cache` |
| `chain`, `phase`, `next_index`, `unused`, `rescan_from`, `outcome`, `interrupted` | locals of `run_hd_chain_scan` and its outcomes |

| Actions | Code |
|---|---|
| `StartRun`, `RoundFetch` … `RoundInterrupted` | `load_sync_run_preload`, `run_hd_mempool_history_breadth_round` |
| `BeginScan`, `PassCompleted`, `Visit…`, `BudgetSpent`, `ExistingDone`, `Derive`, `GapReached`, `ChainComplete` | `run_hd_chain_scan`, `run_hd_address_step`, with `Skips`, `FetchSucceeds` and `FetchFails` for `sync_single_address_with_controls` |
| `Persist`, `Publish`, `EndWithoutCompletion` | `run_hd_bundle_scan` |
| `RunLost` | an error returned by `?`, or the end of the process |
| `Receive`, `RowsFromOtherPage`, `LimitEnds` | the owner, other pages, time |

One step visits one address (one gate decision, one fetch and its writes); the
three loops of the code over the existing, the resumed and the generated addresses
are one action each way, since they differ only in where the list comes from.

Abstracted: times and heights (an address with a result may be visited inside or
outside each window that applies to it, and before or after the next block, so
every schedule is covered); the contents of transactions; the order of the history
round and its saved position (any address of its list may be next); the plan's cap
(a capped account behaves like policy `current`).  The owner's wallet never leaves
a gap larger than the limit it shares with the scanner.

### 2.4 BitcoinHistory and HistoryClaim

One Bitcoin account with one address.  Transactions are numbered in the order in
which they confirm; a page lists the newest of those asked for.

| Variables | Code |
|---|---|
| `provider` | the address as the provider sees it: confirmed transactions, one in the mempool, those that moved to another block, and whether the page after the oldest repeats it |
| `stored` | `chain_transactions`: not stored, pending, confirmed in the first block or in another |
| `row` | `transaction_sync_state`: last result and tip, an open visit, `mempool_backfill_cursor`, `mempool_history_complete_tx_count`, `mempool_expected_tx_count`, `mempool_history_scan_start_run_id` |
| `evidence` | raw pages tagged with the strict scan, per requested cursor, and whether retention left them |
| `acct` | `account_integration_sync_state` |
| `ledger` | `account_transaction_ledger`: its opening balance (unknown, from the provider's balance, zero) and whether it was rebuilt since the history changed |
| `repair`, `lease` | `user_data_repairs`, `USER_SYNC_LEASES` |
| `run[r]` | the locals of an automatic run and of a sync control request; `state` is `MempoolIterationState`, which lives in the executor |
| `tainted` | history variable: a stored contradiction is not invalidated yet |

| Actions | Code |
|---|---|
| `StartAutomatic`, `FinishAutomatic` | `run_automatic_inner_with_runner`: lease, preload, repair completion, raw retention |
| `StartManual`, `NextIteration`, `FinishManual` | `run_manual_sync_control` and its loop |
| `OpenAccount` | `mark_account_integration_sync_started`, `recover_interrupted_mempool_account` |
| `SkipVisit`, `BeginVisit`, `MarkSuccess`, `MarkFailure` | `sync_single_address_with_controls` |
| `FetchStats`, `SettleProof`, `Prepare` | `ensure_initialized`: statistics, proof transition, cursor, scan, expected count |
| `FetchPage` … `PassPage` | `run_mempool_iteration`: page, `ReconcileNext` for each transaction, `InvalidatePage`, `AdvanceCursor`, then one of the four ways it concludes |
| `Finalize` | `finalize_terminal_run` |
| `RebuildLedger`, `RefreshAccount` | `rebuild_account_if_touched`, `refresh_account_integration_sync_state` |
| `Broadcast`, `Confirm`, `Reorganise` | the network (external) |
| `FailCall`, `Crash` | a request or a write that fails; the end of the process |

A step is one HTTP call followed by the transaction that stores its answer, or one
transaction.  Transactions that follow each other without a call and without a
condition between them are one step where the second repeats nothing of the first
(the cursor and the expected count in `Prepare`); the two transactions a property is about,
reconciling and invalidating, are separate.  Two transactions move to another block
in a failed page only in the order of the page, newest first.

Abstracted: amounts and inputs (a transaction changes by its status or block, the
contradictions `coverage_invalidation_for_change` finds), times, the tip height (a
boolean: there is one), cooldowns and rate limits (`SkipVisit` may always be
chosen), the balance observation, progress events.

`HistoryClaim` says what the row promises of what is stored, whatever happened:
transactions are never forgotten, the claim never runs ahead of them and is never
cut back but withdrawn as a whole.  `ClaimSpec` maps `held` to the stored
transactions and `claim` to the oldest `n` of them for a proof of `n`.

### 2.5 EtherscanHistory

One Ethereum address, an automatic run and a sync control request that nothing
keeps apart: the lease is dropped as soon as no Bitcoin repair is found
(`automatic.rs:1235`).  `chain` is what the blocks hold, as stream, block and
position; `height` is the provider's tip and `indexed` the newest block it lists
transactions of, at most `Lag` behind.  `row` holds the committed tip
(`etherscan_transaction_tip_height`) and the cursor that earlier versions of the
program left (`etherscan_backfill_end_block`), `pending` is
`etherscan_pending_ranges`, `run[r].state` is `EtherscanIterationState`.

`Start`, `Initialise`, `FetchNormal`, `FetchInternal`, then `NarrowRecent`,
`CommitTip` (with `ClearOlder`) or `AdvanceOlder`, then `SavePending` are the
statements of `run_etherscan_iteration` in their order; each commits at most one
transaction, and `FailCall` or `Crash` may come after any of them.  A run that stops
while it reconciles leaves any part of its two pages stored (`Parts`).  `Tips` is
`ChainTipCache::get_or_fetch`, which may answer with a tip up to `Stale` blocks old.

Abstracted: the balance call that ends an iteration and the status shown to the user
(neither is read by a later fetch); a visit of an account at its plan's limit, which
observes the balance and changes nothing here; visits between two blocks that move
no tip.  The reset of `user_data_repairs.rs:640-760` is not modelled.  The committed
tip may go back when two runners commit after each other, so `HistoryClaim` is not
stated for it.

## 3. Runs

| Run | Instance | Shows |
|---|---|---|
| `lifecycle` | 2 handlers, 2 sessions, 1 client, all operations, restarts, no errors | `TypeOK`; `NoOrphanPin`: a session without a row is pinned only while a handler is about to unpin it; `OpenDatabaseIsNeeded`; `ServedFromOpenDatabase`; `LeaseAccounting`; `RetiredKeyServesNothing` |
| `lifecycle_faults` | the same with errors, without logout, cleanup and revoke | `IndInv`, `ExclusiveIsolation`, `DeletionSparesActiveUsers` on every error path |
| `lifecycle_liveness` | 2 handlers, 1 session, 1 client, no revoke, no second login | every wait of the registry ends, a deleted session is unpinned |
| `revoke_login_deadlock` | 2 handlers, 2 sessions | violated: see section 6 |
| `login_logout_close` | 2 handlers, 2 sessions | violated: see section 6 |
| `tasks` | 1 monitor, 1 price job, 1 caller, channel of 1 | `SingleFlight`, `QueuedWorkIsPending`, `DrainedMeansQuiet`, `NothingStartsAfterFlag`, `IndInv`; queued work starts, calls return, a shutdown is answered |
| `hd_scan` | gap 1, budget 3, the first address of each chain, 1 failure, 1 lost run, rows from other pages | `TypeOK`, `DerivationBound`, `NothingPassedOver`, `IndInv`, `EventuallyCovered` |
| `hd_complete` | gap 2, budget 3, all sources and policies, both chains, 2 used addresses, no failures | `CompletionCoversGap`, `CompletionFetchedAll` |
| `hd_lost_run` | gap 2, 1 used address, 1 lost run | violated: see section 6 |
| `bitcoin_history` | 2 transactions, pages of 1, with and without a plan limit, a repair and a repeating provider; sync control with 2 iterations; 2 faults | `ProofStandsOnStored`, `CompleteMeansConfirmed`, `NoContradictionReported`, `LedgerFollowsHistory`, `RepairRunsAlone`, `StrictProofExact`, `ClaimSpec` (the refinement) |
| `bitcoin_restart_livelock` | 2 transactions, pages of 1, automatic runs, no faults | violated: see section 6 |
| `etherscan_history` | 4 blocks, pages of 2, index up to 2 blocks behind, both runners, 2 iterations, 1 fault, an older cursor | `TipCovers`, `PendingCovers`, `EverythingArrives` |

**Bounds.**  Two handlers are enough for every race between two critical
sections; the safety properties that may take three (a client request, its revocation
and its expiry) are proved for any number.
Two sessions are needed for "ending one leaves the other"; one capability suffices
for the per-capability counters because a shutdown names one capability.  Sessions
are never reissued, so a behaviour has at most |Sessions| logins between restarts.
`Ids` must cover the requests in flight at once: the caller's and one pending, or
one in a tick.  A capacity of 1 makes the caller and the completions contend for
the channel.

In `HdScan` a budget of 3 is spent in the middle of a pass over both chains and
again after a batch was derived.  A gap of 2 distinguishes the first from the last
address of a gap; `hd_scan` uses 1 because failures, lost runs and liveness multiply
the states, and its safety properties are proved for every gap and budget.  The
number of runs is not bounded: the tables grow up to the gap behind the last used
address and the state space closes.

In `BitcoinHistory` two transactions on pages of one give a cursor that resumes below
the first page, a repeated page, a partial proof and a history longer than the plan's
limit (`Cap` 1).  Two faults allow a reorganisation and a crash, a failed call and a
crash, or two crashes, each at any step.  `Overlap = FALSE` keeps sync control and automatic
runs of the user apart and `Quiet = TRUE` keeps the chain still between the statistics
and the first page of one visit; section 5 says what happens without either.

In `EtherscanHistory` one chain (`Uneven`) has three blocks with transactions of one
stream and one with the other's, so pages of two are full in one stream and not in the
other and a range is narrowed; the other chain (`Crowd`) fills a page with one block.
`Lag` 2 is the most that the overlap of one block (with the tip itself) tolerates.  The run has
`Stale` 0 because liveness multiplies its states; the two invariants were also checked
with a cached tip one and two blocks old (2.5 and 5.3 million states).

**Deadlock** is checked in all passing runs.  The process's exit is a
stuttering `Exit` in `TaskManager`; in `UserLifecycle` `Restart` is always
possible, so that stuck handlers are found by the liveness run instead.

**Fairness.**  `UserLifecycle!FairSpec`: weak fairness of each handler's steps
(threads run; a Condvar wait loop is left once its condition stays true, since
every change ends in `notify_all`), of completing a claim whose row is inserted
(same critical section) and of the pairing store's one-second expiry task.
Nothing obliges a user to start an operation or to claim.  `TaskManager!FairSpec`:
weak fairness of the manager's own steps; strong fairness of taking a command
(`select!` chooses at random, so ticks cannot starve commands), of reporting a
completion and of sending (tokio's channel hands out permits in FIFO order, so a
waiting sender is not overtaken for ever).  Jobs are assumed to return: their HTTP
calls have timeouts.  `HdScan!FairSpec`: weak fairness of the steps of a run, of
starting the next one (the monitor's schedule) and of the end of a rate limit;
strong fairness of a successful fetch of each address the owner may use, because
windows are finite, blocks keep coming and failures are bounded, so an address that
is visited again and again is fetched again.  `BitcoinHistory!FairSpec`: weak fairness
of the steps of a run, of starting and ending automatic runs (the monitor's
schedule) and of sync control's loop once a user started it; strong fairness of
beginning a visit, because a cooldown that skips one ends, and of confirming a
transaction.  Nothing obliges a user to start sync control.
`EtherscanHistory!FairSpec`: weak fairness of the provider's index, of starting
automatic runs and of their steps; none for sync control.

## 4. Proofs

The proof modules show, for any number of handlers, sessions, capabilities,
jobs and callers, any channel capacity, gap limit and budget, any number of failed
fetches and lost runs, any number of transactions and blocks, any page size, number of
iterations and plan limit, and any number of faults:

| Theorem | Property |
|---|---|
| `Inductive`, `TypeCorrect` | `Spec => []IndInv`, `Spec => []TypeOK` |
| `CountersExact` | `LeaseAccounting` |
| `GuardIsExclusive` | `ExclusiveIsolation` |
| `ServedWhileOpen` | `ServedFromOpenDatabase` |
| `RetiredKeysAreSilent` | `RetiredKeyServesNothing` |
| `DeletionIsSafe` | `DeletionSparesActiveUsers` (an action property) |
| `OpenDatabaseHasReason` | `OpenDatabaseIsNeeded` (without `Faults`) |
| `PinsHaveOwners` | `NoOrphanPin` (without `Faults`) |
| `TasksInductive`, `TasksTypeCorrect` | `IndInv`, `TypeOK` of the manager |
| `RunsNeverOverlap` | `SingleFlight` |
| `CoalescingKeepsWork` | `QueuedWorkIsPending` |
| `DrainIsComplete` | `DrainedMeansQuiet` |
| `FlagStopsStarts` | `NothingStartsAfterFlag` (an action property) |
| `ScanInductive`, `ScanTypeCorrect` | `IndInv`, `TypeOK` of the scan |
| `DerivationIsBounded` | `DerivationBound` |
| `ResumePassesNothingOver` | `NothingPassedOver` |
| `RepairAlone` | `RepairRunsAlone` |
| `ContradictionsUnreported` | `NoContradictionReported` (without `Overlap`) |
| `BoundsHold`, `BitcoinBoundsProofs!TypesHold` | `Spec => []Bounded`, `TypeOK` of the Bitcoin history |
| `StrictScanIsExact` | `StrictProofExact` (an action property; no assumption) |
| `GroundsHold` | `Spec => []Grounded` (`Quiet`, without `Overlap`) |
| `ProofsStandOnStored` | `ProofStandsOnStored` (`Quiet`, without `Overlap`) |
| `CompleteIsConfirmed` | `CompleteMeansConfirmed` (`Quiet`, without `Overlap`) |
| `LedgerUpToDate` | `LedgerFollowsHistory` (`Quiet`, without `Overlap`) |
| `ProofIsAClaim` | `ClaimSpec`: the refinement of `HistoryClaim` (`Quiet`, without `Overlap`) |
| `EtherscanHistoryProofs!TypesHold` | `TypeOK` of the Ethereum history |
| `CommittedTipCovers` | `TipCovers` (`Lag <= 2`) |
| `PendingRangeCovers` | `PendingCovers` (`Lag <= 2`) |

Assumptions: handlers and capabilities are finite and disjoint, the marker values
are not names, the three kinds of job keys are disjoint, the capacity, the gap limit,
the budget and the page size are positive.  Four theorems and the refinement of the
Bitcoin history also assume that its address changes only outside the interval between
the statistics and the first page of a visit (`Quiet`), and that sync control does not
run beside an automatic run without a repair (`~Overlap`); the cover theorems of the
Ethereum history assume that the provider's index trails its tip by at most two blocks.
None of the three is something the code enforces, and each is needed: with
`Quiet = FALSE` in `bitcoin_history.cfg` TLC violates `ProofStandsOnStored` and
`CompleteMeansConfirmed`, and on a larger instance `LedgerFollowsHistory`; with
`Overlap = TRUE` it violates `NoContradictionReported` (section 5); and with `Lag = 3` in
`etherscan_history.cfg` a range begins above a transaction that was not listed when the
last one ended.

*Registry.*  `ExclusiveIsolation` alone is not inductive: that no lease is alive
under the guard follows from `active_requests = 0`, which needs the counters to be
exact (`LeaseAccounting`), which needs to know which label owns which lease
(`LeaseShape`); that only one handler has the guard needs the handlers that have
set `exclusive_user` and are still draining (`ExclusiveOwner`).
`RetiredKeyServesNothing` needs `ShutdownOwner`: a retired capability that is still
served is in the drain of the one shutdown that owns it.  `ServedFromOpenDatabase`
needs `OpenWhileLeased` (the database stays open from the opening step until the
lease goes) and `DeletionSparesActiveUsers` needs `DeletionReady` (what was checked
under the guard still holds).  The cardinalities of lease sets are handled by
lemmas on adding and removing one holder.

*Pins.*  `NoOrphanPin` and `OpenDatabaseIsNeeded` are theorems under `~Faults`, the
assumption that no statement of SQLite and no opening of a database fails: the code
gives them up on such an error (section 5).  Restarts are not excluded.  Both are
about what handlers owe.  `OpenHasReason` says who may leave the database open without a
pin or a lease: a login, from opening it to pinning its session, at the labels
`OpeningLabels`.  `PinInv` adds to `NoOrphanPin` that a session which was never issued is
neither in the table nor pinned nor in a handler's hand, that the session of a login
under way is in its hand alone (`NewSessionPrivate`), and that whoever deleted a row, or
was told that it is gone, is at a label that leads to the unpin (`UnpinDuty`).  Each
handler's step has one lemma on the pins and one on the reason; sweeps, deletions and
restarts have their own.

*Task manager.*  `SingleFlight` counts completions in the channel; its inductive
form is `OneTask`, which says position by position that a completion is unique and
excludes an executing task, and is preserved by `Append` and `Tail`.
`QueuedWorkIsPending` needs `PendingOfRunning` (retain keeps an entry with pending
work) and `RequestsWellFormed` (only monitors have narrow scopes).
`DrainedMeansQuiet` and `NothingStartsAfterFlag` need `FlagFirst` and
`StoppedIsIdle`.

*HD scan.*  `DerivationBound` is about the stored addresses, but what limits a batch
is the count of unused addresses that a scan carries, possibly from a frontier
persisted runs ago.  `PositionsSound` ties the two: every position, running,
persisted or about to be persisted, lies within the stored addresses, and is at most
its count away from index 0 or from an address whose activity was shown.  `Stored`
is needed because the scan starts behind known activity, which must lie on stored
addresses and be shown.  The tables only grow, and a sound position stays sound when
they do (`SoundGrows`); a step over an address keeps it sound because the count is
reset at activity only (`SoundAdvances`).

*Bitcoin history.*  `RepairRunsAlone` speaks of the runs at work, but what excludes
them is a lease that is taken before the repair is looked up and, by sync control,
only tried.  `Leases` says who holds it: a sync control request at work always, an
automatic run from its start until it found no repair to do; hence a run that repairs is
alone, and without `Overlap` there is one run at all.  `NoContradictionReported`
speaks of the account's status; `Taints` says where a contradiction can be pending:
in the one run that carries it from reconciling to invalidating, or, after a crash,
behind an integration row that is still open, which the next run's recovery finds
before it does anything else.  Each action has one lemma on what it does to the row
and the contradiction; the invariant follows from those by the cases of who is at
work.

*Strict scan.*  `Bounded` gives every part of a visit's memory, of the row and of the
raw evidence its range; ranges are in terms of the provider's height, which only grows
(a reorganisation moves a transaction to the mempool, not out of existence).  It also
records of each page in the evidence what the provider could have answered to its
cursor (`PageSound`): below cursor `c` the newest transactions before `c`, whenever it
was asked.  `StrictScanIsExact` then needs no assumption about when the pages were
fetched: pages that are linked by their cursors and end with an empty or a repeated one
hold everything up to the first page's newest transaction (`LinkedPagesAreAll`: if `t`
were missing, the page asked for with the smallest cursor above `t` would end above `t`
and link to a smaller cursor above it), and the comparison with the count and with the
stored set excludes the rest.

*Ordinary proofs.*  `ProofStandsOnStored` is far from inductive: what is published is a
count that the statistics gave a number of steps and transactions earlier.  `Grounded`
follows it.  The snapshot a visit compares the statistics with holds a proof that stands
on confirmed transactions (`SnapSound`), although a recovery may have withdrawn the
row's own; until the first page the statistics are those of the address as it is
(`Fresh`); what is observed on pages is stored, confirmed and counted by the statistics
as long as nothing was seen pending (`Observed`, `PageHeld`); a row's proof never
exceeds what a live visit expects (`Counted`).  A set of `n` transactions among the
`n` oldest is all of them (`WholeInterval`), which is why equality of counts suffices.
`SingleVisit` is a case of its own: with a single, proved transaction a cursor could
stand at it and lead to an empty page that proves too little; only a repair leaves such
a cursor, and a repair scans strictly (`Owned`, `CursorIsRepairs`).  The refinement
follows from `Grounded` after each step and from what a step does to the row
(`StepClaims`): it stores without touching the proof, raises the proof, or withdraws it.

*Ledger.*  The ledger goes stale with a write of a page and is rebuilt, if at all, many
steps later, after the run that wrote may have failed, crashed or resumed elsewhere.
`LedgerKept` says when a stale ledger does no harm (`LedgerExcused`): the proof does not
count all of the confirmed history (`Behind`) or a strict scan is under way, so that the
account cannot be complete before something is published that makes the ledger current
or a rebuild follows.  A step inside a visit may break the excuse only if the visit will
rebuild (`RebuildsLater`): it holds a page, recovered the account or carries a
contradiction.  `LedgerSafe` joins the two, and the integration row that `Taints` keeps
open during a visit bridges a crash: the account is incomplete until a later run has
recovered it.  Two cases need state of their own.  A proof that the statistics confirm is
published without a page; the row's proof must then still be the snapshot's, or the
account recovered (`SnapKept`).  And `publish_bitcoin_account_completion` makes the ledger
current only if the row is complete at once: a strict proof that is published while the
resume cursor stands becomes complete when `finalize_terminal_run` clears the cursor, and
if its last page was empty nothing is rebuilt.  The cursor then stands at the oldest
transaction (`CursorSound`, `OldestSound`), where a scan excuses nothing (`ScanAtOldest`):
the visit that came down to it held a page and rebuilt.

*Ethereum history.*  `TipCovers` is about the rows, which two runners write from
memories of different age.  `Inv` therefore says of every range that exists anywhere
(the rows', a snapshot's, a running state's) that resuming it would miss nothing
(`Covers`), and of a page in flight that what lies above its oldest block is stored or
on it.  A covered range stays covered when the other runner stores more.  That nothing
appears later below what a tip spares is where `Lag <= 2` enters (`Close`): the next
range starts one block below the tip, and everything below that block was listed when
the tip was read.

Only model-checked: liveness (fairness and ENABLED are outside the prover),
`CompletionFetchedAll` and `CompletionCoversGap` (they hold
on restricted instances only, section 5), and the violated properties.

## 5. Known limits under errors

Two properties are checked and proved with `Faults = FALSE` because the code gives them up
on an error: if `session_exists` fails after the pin, the request returns without
unpinning (`NoOrphanPin`), and a login that fails after `initialize_user_db`
leaves the database open with nothing pinned (`OpenDatabaseIsNeeded`).  In both
cases a later request, a deletion or a restart puts it right.

Two properties of a published completion hold on restricted instances of `HdScan`.
`CompletionFetchedAll` is checked without failed fetches: an address whose only
fetch failed is inside its failure cooldown in the next run, is skipped and counted
as unused, and the completion is published although nobody saw its balance.
`CompletionCoversGap` is checked in the same run, without lost runs (section 6) and
without rows from other pages, which may record activity behind a persisted frontier.  A later run
makes up for all three, which is what `EventuallyCovered` shows for failures and
lost runs.  Both chains share the budget of a run and the external one goes first:
`EventuallyCovered` needs a budget larger than one pass of the external chain.  With
a budget of exactly one pass, and every window elapsed at every run, the internal
chain is interrupted in every run.

The Bitcoin history:

* `CompleteMeansConfirmed` and `ProofStandsOnStored` need `Quiet`: a visit takes the
  expected count from the statistics and then fetches the first page.  If a transaction
  confirms in between and the old count fills whole pages, the newest transactions reach
  the count while the oldest was never downloaded; the account is reported complete and
  its ledger starts at zero without it.  The next visit whose statistics differ from
  the proof downloads the history again.  A strict scan is exact without `Quiet`.
* `LedgerFollowsHistory` needs `Quiet` too, on an instance larger than the run's (three
  transactions, pages of two, a limited plan, four faults).  A transaction is reorganised
  between the statistics and the first page, and the process crashes once it is stored as
  pending.  It confirms again before the next run, whose statistics equal the proof of
  the snapshot: the proof is published again, and a failed page leaves the transaction
  stored as pending although the proof counts it.  A later visit stores a newer
  transaction as confirmed and fails before anything is rebuilt; the count agrees, and
  the limited plan only refreshes what is now reported complete.
* `NoContradictionReported` needs `Overlap = FALSE`: without a repair the lease is
  dropped, and a second run of the account may report it complete between the
  first one's reconciling and invalidating.
* Recovery after a crash keeps the proof of the row's snapshot; the account may be
  complete with an opening balance that is unknown until the next rebuild.
* A crash between publishing a strict proof and finishing the run, followed by a
  provider that repeats a page, leaves the repair pending until a later run sees an
  ordinary page.
* After a page that failed halfway the ledger may lack a pending transaction that was
  stored before the failure, until the next page.

The Ethereum history:

* A page that is full with the transactions of one block cannot be resumed and fails in
  every run, as its error says; `EverythingArrives` excepts such a block.
* A schema migration leaves the committed tip empty, so the first range after it starts
  at the first block again.
* The cursor of earlier versions matters only after a crash between committing the tip
  and clearing it.  With two runners the tip may go back; a later range then repeats
  blocks, and misses none.

## 6. Findings

* `revoke_login_deadlock`: `revoke_paired_client` holds its own request lease while
  `begin_capability_shutdown` waits for `exclusive_user` to clear; a login that has
  set `exclusive_user` waits for `active_requests` to reach zero.  Both wait for
  ever.  `lifecycle.rs` expects "exclusive should eventually acquire".
* `login_logout_close`: `unpin_browser_session` ignores `exclusive_user`, so the
  logout of the only old session between a login's `initialize_user_db` and its pin
  closes the database of the new session.  The next browser request of that session
  reopens it.
* `bitcoin_restart_livelock`: an automatic run that finds the history incomplete
  prepares a visit with `PreserveAndRestart`: it forgets the cursor and begins at the
  first page.  Every automatic run has a new `LiveAddressSyncExecutor`
  (`parent_cycle.rs:108-110`), so when a run fetches one page it is the same page each
  time and the older transactions never arrive.  `docs/user/sync-architecture.md:404-405`
  and `:419` promise that an interrupted download resumes at its cursor.  The comment
  "Automatic cycles create a fresh executor, so resume durable page boundaries." in the
  Ethereum code names the same situation and resumes there.  Sync control with two or
  more iterations gets past it.  A second way to the same end is not in this run: when a
  transaction was pending during the first download, the cursor that was committed
  leads to an empty page, and the early return for it (`mempool/mod.rs:719-734`) clears nothing.
* `hd_lost_run`: `docs/user/sync-architecture.md` says that the count of unused
  addresses is reset "on any address with activity".  Activity that only statistics
  showed is stored nowhere the next run looks; if the run that saw it is lost before
  it persists its frontier, the next one skips the address as fresh, counts it as
  unused and publishes discovery as complete with less than a gap behind it.

## 7. Not modelled, and the plan

Not modelled, and why:

* what price history, transaction queries, payments and entitlements, wallets and
  traces compute: idempotent reads and writes of rows of one table, in one transaction
  each, mostly arithmetic on amounts and formatting;
* the amounts of the ledger: `BitcoinHistory` models when it is rebuilt and from which
  opening balance, not the sums;
* encryption and migrations, exports, the prices service, the user interface and the
  command-line client: data and I/O, no state of their own that interleaves.  They
  are also most of the repository's lines, so the mapped share of it is small; the map
  covers the code that decides about concurrency, recovery and completeness.

Next, in this order:

1. Several accounts of one user: the parent and child cycles, schedule hints and
   the breadth-first order of `automatic.rs` around `HdScan`, `BitcoinHistory` and
   `EtherscanHistory`.
2. `AutomaticSync`: the decision of `tasks/automatic_sync.rs` as a pure module,
   checked against a reference definition over small clocks; used by `TaskManager`
   in place of the free choice.
3. `PairingStore`: limits, rate limit and verifier reservations.
4. Abstract specifications: a readers-writer lock with per-client draining,
   implemented by `UserLifecycle`; a coalescing single-flight queue, implemented by
   `TaskManager`; what discovery promises of a completed account, implemented by
   `HdScan`; and a composition in which a login awaits the manager while it
   holds the guard and eligibility comes from `UserLifecycle`.
5. Proofs: the refinements of step 4.
6. Payments and entitlements, price history.
