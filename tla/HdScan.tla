------------------------------- MODULE HdScan -------------------------------
(***************************************************************************)
(* Gap-limit discovery of one HD (xpub) account: the automatic sync runs   *)
(* of that account, one after the other (tasks/jobs/sync/hd_scan.rs, with  *)
(* the history round that precedes it in automatic.rs, the per-address     *)
(* gate in gate.rs, and the tables both persist to).                       *)
(*                                                                         *)
(* An address is its chain (0 external, 1 internal) and its derivation     *)
(* index.  Rows are derived from the highest stored index up, so the       *)
(* addresses of chain c are 0 .. derived[c]-1 and the positions the code   *)
(* walks are indexes.  Times and heights are abstracted: an address with a *)
(* result may be visited within or after the window that applies to it     *)
(* (BALANCE_REFRESH_TTL, ADDRESS_SYNC_COOLDOWN, FAILED_ADDRESS_SYNC_       *)
(* COOLDOWN), and before or after the next block.                          *)
(***************************************************************************)
EXTENDS Integers, FiniteSets, FiniteSetsExt

CONSTANTS
    GapLimit,      \* account_sync_state.gap_limit (BIP44_GAP_LIMIT)
    Budget,        \* MAX_ADDRESSES_PER_ACCOUNT_PER_RUN
    Sources,       \* the TriggerSources of the runs
    Policies,      \* the account's TransactionFetchPolicy, run by run
    Depth,         \* bound: the owner uses indexes below Depth[c] only
    MaxUsed,       \* bound: addresses the owner ever uses
    MaxFailures,   \* bound: fetches that fail
    MaxLosses,     \* bound: runs lost to an error or a crash
    CrossRows      \* may a page name addresses it was not fetched for?

Chains == {0, 1}

ASSUME ScanAssumption ==
    /\ GapLimit \in Nat \ {0}
    /\ Budget \in Nat \ {0}
    /\ Sources \subseteq {"schedule", "manual", "upgrade"}
    /\ Policies \subseteq {"current", "normal", "repair"}
    /\ Depth \in [Chains -> Nat]
    /\ MaxUsed \in Nat /\ MaxFailures \in Nat /\ MaxLosses \in Nat
    /\ CrossRows \in BOOLEAN

VARIABLES
    \* the chain
    used,        \* addresses with activity on the blockchain
    \* the user database
    derived,     \* addresses stored in digital_asset_addresses
    rows,        \* addresses named by stored transactions or transfers
    fetched,     \* last_tip_height is set: some fetch succeeded
    observed,    \* some fetch's statistics showed activity
    failed,      \* last_result is Failure
    frontier,    \* hd_account_chain_sync_state
    published,   \* addresses per chain when discovery last completed
    \* the process
    limited,     \* the provider's rate limit blocks this user
    \* the run in progress
    pc, source, policy,
    known,       \* known_activity, preloaded and then extended
    completed,   \* completed_address_ids
    processed,   \* processed_for_account
    tip_cached,  \* chain_tip_cache holds the account's tip
    chain, phase, next_index, unused, rescan_from,
    outcome,     \* the frontier to persist for the chain just scanned
    interrupted,
    \* bounds
    failures, losses

chainVars == <<used>>
tables    == <<derived, rows, fetched, observed, failed>>
ledger    == <<frontier, published>>
setup     == <<source, policy, processed, tip_cached>>
memory    == <<known, completed>>
cursor    == <<chain, phase, next_index, unused, rescan_from>>
result    == <<outcome, interrupted>>
bounds    == <<failures, losses>>
vars      == <<chainVars, tables, ledger, limited, pc, setup, memory, cursor,
               result, bounds>>

NoIndex == -1
Indexes == [Chains -> SUBSET Nat]

\* HdAccountChainSyncState, with "none" for a missing row.
Frontiers == [phase  : {"none", "existing", "derived", "rescan"},
              next   : Nat, unused : Nat, from : Nat \cup {NoIndex}]

NoFrontier == [phase |-> "none", next |-> 0, unused |-> 0, from |-> NoIndex]

\* Every variable ranges over the values the code can store in it.
TypeOK ==
    /\ used \in Indexes /\ derived \in [Chains -> Nat]
    /\ rows \in Indexes /\ fetched \in Indexes /\ observed \in Indexes
    /\ failed \in Indexes
    /\ frontier \in [Chains -> Frontiers] /\ published \in [Chains -> Nat]
    /\ limited \in BOOLEAN
    /\ pc \in {"idle", "round", "scan", "persist", "finish"}
    /\ source \in Sources \cup {"none"} /\ policy \in Policies \cup {"none"}
    /\ known \in Indexes /\ completed \in Indexes
    /\ processed \in Nat /\ tip_cached \in BOOLEAN
    /\ chain \in Chains /\ phase \in {"existing", "derived", "rescan"}
    /\ next_index \in Nat /\ unused \in Nat
    /\ rescan_from \in Nat \cup {NoIndex}
    /\ outcome \in Frontiers /\ interrupted \in [Chains -> BOOLEAN]
    /\ failures \in Nat /\ losses \in Nat

Nowhere == [c \in Chains |-> {}]
Add(sets, c, i) == [sets EXCEPT ![c] = @ \cup {i}]
Drop(sets, c, i) == [sets EXCEPT ![c] = @ \ {i}]

\* bootstrap_initial_hd_account_addresses stores one gap of each chain.
Init ==
    /\ used = Nowhere
    /\ derived = [c \in Chains |-> GapLimit]
    /\ rows = Nowhere /\ fetched = Nowhere /\ observed = Nowhere
    /\ failed = Nowhere
    /\ frontier = [c \in Chains |-> NoFrontier]
    /\ published = [c \in Chains |-> 0]
    /\ limited = FALSE
    /\ pc = "idle" /\ source = "none" /\ policy = "none"
    /\ known = Nowhere /\ completed = Nowhere
    /\ processed = 0 /\ tip_cached = FALSE
    /\ chain = 0 /\ phase = "existing"
    /\ next_index = 0 /\ unused = 0 /\ rescan_from = NoIndex
    /\ outcome = NoFrontier
    /\ interrupted = [c \in Chains |-> FALSE]
    /\ failures = 0 /\ losses = 0

\* The run is over: its locals are dropped.
RunOver ==
    /\ pc' = "idle" /\ source' = "none" /\ policy' = "none"
    /\ known' = Nowhere /\ completed' = Nowhere
    /\ processed' = 0 /\ tip_cached' = FALSE
    /\ chain' = 0 /\ phase' = "existing"
    /\ next_index' = 0 /\ unused' = 0 /\ rescan_from' = NoIndex
    /\ outcome' = NoFrontier
    /\ interrupted' = [c \in Chains |-> FALSE]

-----------------------------------------------------------------------------
(* Outside the run *)

TopIndex(S) == IF S = {} THEN NoIndex ELSE Max(S)

\* The owner's wallet respects the gap limit it shares with the scanner.
Receive(c, i) ==
    /\ i \notin used[c] /\ i < Depth[c] /\ i <= TopIndex(used[c]) + GapLimit
    /\ Cardinality(used[0]) + Cardinality(used[1]) < MaxUsed
    /\ used' = Add(used, c, i)
    /\ UNCHANGED <<tables, ledger, limited, pc, setup, memory, cursor, result, bounds>>

\* A page fetched for another account, or for another address of this one,
\* stores a transaction that names a stored address.  Accounts of a cycle are
\* synced in turn, after known_activity was preloaded for all of them; the
\* bundle scan fetches pages in a repair only.
RowsFromOtherPage(c, i) ==
    /\ CrossRows
    /\ pc \in {"idle", "round"} \/ policy = "repair"
    /\ i \in used[c] \ rows[c] /\ i < derived[c]
    /\ rows' = Add(rows, c, i)
    /\ UNCHANGED <<used, derived, fetched, observed, failed, ledger, limited, pc, setup, memory, cursor, result, bounds>>

LimitEnds ==
    /\ limited /\ limited' = FALSE
    /\ UNCHANGED <<chainVars, tables, ledger, pc, setup, memory, cursor, result, bounds>>

-----------------------------------------------------------------------------
(* The gate: sync_single_address_with_controls *)

LegacyRepair == policy = "repair"

\* The bundle scan asks for statistics only unless the account is repaired;
\* the history round fetches a page unless the plan does not permit it.
PagePermitted ==
    IF pc = "round" THEN policy \in {"normal", "repair"} ELSE LegacyRepair

Succeeded(c, i) == i \in fetched[c] \ failed[c]

\* The windows in which an address may be passed over.  A success is fetched
\* despite its cooldown when confirmed history is known to be missing; activity
\* seen may be unconfirmed, so that exception is left open.
BalanceFresh(c, i) == ~PagePermitted /\ source # "manual" /\ Succeeded(c, i)

FailureCooldown(c, i) == source \notin {"manual", "upgrade"} /\ i \in failed[c]

SuccessCooldown(c, i) == source # "upgrade" /\ ~LegacyRepair /\ Succeeded(c, i)

WithinWindow(c, i) == BalanceFresh(c, i) \/ FailureCooldown(c, i) \/ SuccessCooldown(c, i)

\* decide_tip_unchanged_gate: no block since the address's last success.
TipUnchanged(c, i) == ~LegacyRepair /\ i \in fetched[c]

Skippable(c, i) == WithinWindow(c, i) \/ (TipUnchanged(c, i) /\ ~limited)

\* The address is passed without a fetch: (false, false).
Skips(c, i) ==
    \/ WithinWindow(c, i) /\ UNCHANGED tip_cached
    \/ TipUnchanged(c, i) /\ ~limited /\ tip_cached' = TRUE

\* mark_address_sync_completed_success, and the page's rows if one was
\* permitted and the statistics were not zero.
FetchSucceeds(c, i) ==
    /\ ~limited
    /\ fetched' = Add(fetched, c, i) /\ failed' = Drop(failed, c, i)
    /\ observed' = IF i \in used[c] THEN Add(observed, c, i) ELSE observed
    /\ rows' = IF i \in used[c] /\ PagePermitted THEN Add(rows, c, i) ELSE rows
    /\ tip_cached' = TRUE
    /\ UNCHANGED <<derived, limited, bounds>>

\* mark_sync_failure, whose own failure is only logged; a 429 also records the
\* rate limit.
FetchFails(c, i) ==
    /\ ~limited /\ failures < MaxFailures
    /\ failed' \in {failed, Add(failed, c, i)}
    /\ limited' \in BOOLEAN
    /\ failures' = failures + 1
    /\ UNCHANGED <<derived, rows, fetched, observed, losses>>

-----------------------------------------------------------------------------
(* A run: preload, history round, external chain, internal chain *)

\* load_sync_run_preload: what earlier runs only observed is not reloaded.
\* Another account synced before in the cycle may have cached the tip.
StartRun(s, p) ==
    /\ pc = "idle"
    /\ pc' = "round" /\ source' = s /\ policy' = p
    /\ known' = rows
    /\ tip_cached' \in BOOLEAN
    /\ UNCHANGED <<chainVars, tables, ledger, limited, completed, processed,
                   cursor, result, bounds>>

next_unfinished_derivation_index(c) ==
    Min({i \in 0..derived[c] : i \notin known[c]})

\* The persisted frontier, or where a scan without one starts.
initial_frontier_state(c) ==
    IF frontier[c].phase # "none" THEN frontier[c]
    ELSE [phase  |-> "existing", unused |-> 0, from |-> NoIndex,
          next   |-> IF LegacyRepair THEN 0 ELSE next_unfinished_derivation_index(c)]

BeginScan(c) ==
    LET f == initial_frontier_state(c) IN
    /\ pc' = "scan" /\ chain' = c
    /\ phase' = f.phase /\ next_index' = f.next
    /\ unused' = f.unused /\ rescan_from' = f.from

\* ordered_active_mempool_history_address_ids: known activity, and what
\* statistics showed once it is confirmed and while its pages are missing.
\* The list starts at a saved position, so it may end before every address
\* was visited.
RoundAddresses(c) == known[c] \cup observed[c]
RoundOpen == pc = "round" /\ Cardinality(completed[0]) + Cardinality(completed[1]) < Budget

RoundFetch(c, i) ==
    /\ RoundOpen /\ i \in RoundAddresses(c) \ completed[c]
    /\ FetchSucceeds(c, i)
    /\ completed' = Add(completed, c, i)
    /\ IF PagePermitted
       THEN UNCHANGED <<pc, cursor>>
       ELSE BeginScan(0)
    /\ UNCHANGED <<chainVars, ledger, source, policy, processed, known, result>>

\* A skipped address ends the round, and interrupts it if it had failed.
RoundSkip(c, i) ==
    /\ RoundOpen /\ i \in RoundAddresses(c) \ completed[c]
    /\ i \notin failed[c] /\ Skips(c, i)
    /\ BeginScan(0)
    /\ UNCHANGED <<chainVars, tables, ledger, limited, source, policy, processed,
                   memory, result, bounds>>

\* The list is empty or at its end, or the account reached its plan's cap.
RoundEnds ==
    /\ pc = "round"
    /\ (\A c \in Chains : known[c] = {}) \/ (\E c \in Chains : completed[c] # {})
    /\ BeginScan(0)
    /\ UNCHANGED <<chainVars, tables, ledger, limited, setup, memory, result, bounds>>

\* An interrupted round leaves the bundle for the next run.
RoundInterrupted ==
    /\ pc = "round"
    /\ \E c \in Chains : \E i \in RoundAddresses(c) \ completed[c] :
        \/ ~RoundOpen /\ UNCHANGED <<tables, limited, bounds>>
        \/ RoundOpen /\ limited /\ UNCHANGED <<tables, limited, bounds>>
        \/ RoundOpen /\ i \in failed[c] /\ Skippable(c, i) /\ UNCHANGED <<tables, limited, bounds>>
        \/ RoundOpen /\ FetchFails(c, i)
    /\ RunOver
    /\ UNCHANGED <<chainVars, ledger>>

-----------------------------------------------------------------------------
(* run_hd_chain_scan *)

Walking == phase \in {"existing", "derived"}

\* find_active_rescan_position
RescanCandidates == {i \in known[chain] \ completed[chain] : i <= rescan_from}

\* The address the scan turns to, if the phase has one left.
HasTarget ==
    \/ phase = "existing" /\ next_index < derived[chain]
    \/ phase = "derived" /\ unused < GapLimit /\ next_index < derived[chain]
    \/ phase = "rescan" /\ RescanCandidates # {}

Target == IF Walking THEN next_index ELSE Max(RescanCandidates)

\* Slip: an interrupted address is taken as done.
InterruptPastTarget ==
    /\ outcome' = [phase |-> phase, next |-> next_index + 1, unused |-> unused,
                   from |-> IF Walking THEN NoIndex ELSE Target]
    /\ interrupted' = [interrupted EXCEPT ![chain] = TRUE]
    /\ pc' = "persist"
    /\ UNCHANGED <<cursor, memory>>

\* The bundle scan ends early; the frontier will be persisted.
Interrupt ==
    /\ outcome' = [phase |-> phase, next |-> next_index, unused |-> unused,
                   from |-> IF Walking THEN NoIndex ELSE Target]
    /\ interrupted' = [interrupted EXCEPT ![chain] = TRUE]
    /\ pc' = "persist"
    /\ UNCHANGED <<cursor, memory>>

\* Slip: activity does not reset the run of unused addresses.
AdvanceWithoutReset(active) ==
    /\ known' = IF active THEN Add(known, chain, Target) ELSE known
    /\ completed' = Add(completed, chain, Target)
    /\ IF Walking
       THEN /\ next_index' = Target + 1
            /\ unused' = unused + 1
            /\ UNCHANGED rescan_from
       ELSE /\ rescan_from' = Target - 1
            /\ UNCHANGED <<next_index, unused>>
    /\ UNCHANGED <<pc, chain, phase, result>>

\* run_hd_address_step after a skip or a successful fetch, and the advance
\* of the loop that called it.
Advance(active) ==
    /\ known' = IF active THEN Add(known, chain, Target) ELSE known
    /\ completed' = Add(completed, chain, Target)
    /\ IF Walking
       THEN /\ next_index' = Target + 1
            /\ unused' = IF Target \in known'[chain] THEN 0 ELSE unused + 1
            /\ UNCHANGED rescan_from
       ELSE /\ rescan_from' = Target - 1
            /\ UNCHANGED <<next_index, unused>>
    /\ UNCHANGED <<pc, chain, phase, result>>

\* In a repair, an active address the history round already completed.
AlreadyCompleted ==
    phase = "existing" /\ LegacyRepair /\ Target \in known[chain] \cap completed[chain]

PassCompleted ==
    /\ pc = "scan" /\ HasTarget /\ processed < Budget /\ AlreadyCompleted
    /\ next_index' = Target + 1 /\ unused' = 0
    /\ UNCHANGED <<chainVars, tables, ledger, limited, pc, setup, memory, chain, phase,
                   rescan_from, result, bounds>>

Visiting == pc = "scan" /\ HasTarget /\ processed < Budget /\ ~AlreadyCompleted

VisitSkips ==
    /\ Visiting /\ Skips(chain, Target)
    /\ Advance(FALSE)
    /\ UNCHANGED <<chainVars, tables, ledger, limited, source, policy, processed, bounds>>

VisitSucceeds ==
    /\ Visiting /\ FetchSucceeds(chain, Target)
    /\ processed' = processed + 1
    /\ Advance(Target \in used[chain])
    /\ UNCHANGED <<chainVars, ledger, source, policy>>

VisitFails ==
    /\ Visiting /\ FetchFails(chain, Target)
    /\ processed' = processed + 1
    /\ tip_cached' \in {tip_cached, TRUE}
    /\ Interrupt
    /\ UNCHANGED <<chainVars, ledger, source, policy>>

VisitRateLimited ==
    /\ Visiting /\ limited
    /\ Interrupt
    /\ UNCHANGED <<chainVars, tables, ledger, limited, setup, bounds>>

\* Addresses are wanted: the gap is open and every stored one was visited.
NeedsAddresses ==
    phase = "derived" /\ unused < GapLimit /\ next_index >= derived[chain]

BudgetSpent ==
    /\ pc = "scan" /\ processed >= Budget /\ (HasTarget \/ NeedsAddresses)
    /\ Interrupt
    /\ UNCHANGED <<chainVars, tables, ledger, limited, setup, bounds>>

ExistingDone ==
    /\ pc = "scan" /\ phase = "existing" /\ ~HasTarget
    /\ phase' = "derived"
    /\ next_index' = IF derived[chain] > 0 THEN derived[chain] ELSE next_index
    /\ UNCHANGED <<chainVars, tables, ledger, limited, pc, setup, memory, chain,
                   unused, rescan_from, result, bounds>>

\* Slip: one address more than the rest of the gap is derived.
DeriveOneMore == Min({GapLimit - unused + 1, Budget - processed})

to_derive == Min({GapLimit - unused, Budget - processed})

\* derive_next_derived_addresses_for_account, in one transaction.
Derive ==
    /\ pc = "scan" /\ NeedsAddresses /\ processed < Budget
    /\ derived' = [derived EXCEPT ![chain] = @ + to_derive]
    /\ UNCHANGED <<chainVars, rows, fetched, observed, failed, ledger, limited, pc, setup, memory, cursor, result, bounds>>

\* Slip: the rescan starts below the highest active index.
GapReachedBelow ==
    /\ pc = "scan" /\ phase = "derived" /\ unused >= GapLimit
    /\ phase' = "rescan" /\ rescan_from' = TopIndex(known[chain]) - 1
    /\ UNCHANGED <<chainVars, tables, ledger, limited, pc, setup, memory, chain,
                   next_index, unused, result, bounds>>

GapReached ==
    /\ pc = "scan" /\ phase = "derived" /\ unused >= GapLimit
    /\ phase' = "rescan" /\ rescan_from' = TopIndex(known[chain])
    /\ UNCHANGED <<chainVars, tables, ledger, limited, pc, setup, memory, chain,
                   next_index, unused, result, bounds>>

ChainComplete ==
    /\ pc = "scan" /\ phase = "rescan" /\ ~HasTarget
    /\ outcome' = NoFrontier /\ pc' = "persist"
    /\ UNCHANGED <<chainVars, tables, ledger, limited, setup, memory, cursor,
                   interrupted, bounds>>

-----------------------------------------------------------------------------
(* run_hd_bundle_scan around the chain scans *)

\* persist_hd_chain_frontier_state, then the internal chain or the end.
Persist ==
    /\ pc = "persist"
    /\ frontier' = [frontier EXCEPT ![chain] = outcome]
    /\ IF chain = 0 THEN BeginScan(1) ELSE pc' = "finish" /\ UNCHANGED cursor
    /\ outcome' = NoFrontier
    /\ UNCHANGED <<chainVars, tables, published, limited, setup, memory,
                   interrupted, bounds>>

ScanUninterrupted == \A c \in Chains : ~interrupted[c]

\* Both chains done and a tip cached: publish_bitcoin_account_completion,
\* which refuses while a frontier row remains.
Publish ==
    /\ pc = "finish" /\ ScanUninterrupted /\ tip_cached
    /\ \A c \in Chains : frontier[c].phase = "none"
    /\ published' = derived
    /\ RunOver
    /\ UNCHANGED <<chainVars, tables, frontier, limited, bounds>>

EndWithoutCompletion ==
    /\ pc = "finish" /\ ~(ScanUninterrupted /\ tip_cached)
    /\ RunOver
    /\ UNCHANGED <<chainVars, tables, ledger, limited, bounds>>

\* An error returned through the scan (a database or chain-tip error), or
\* the end of the process: what the run did not persist is lost.
RunLost ==
    /\ pc # "idle" /\ losses < MaxLosses
    /\ losses' = losses + 1
    /\ limited' \in {limited, FALSE}
    /\ RunOver
    /\ UNCHANGED <<chainVars, tables, ledger, failures>>

-----------------------------------------------------------------------------

RoundStep ==
    \/ \E c \in Chains : \E i \in RoundAddresses(c) : RoundFetch(c, i) \/ RoundSkip(c, i)
    \/ RoundEnds
    \/ RoundInterrupted

ScanStep ==
    \/ PassCompleted \/ VisitSkips \/ VisitSucceeds \/ VisitFails \/ VisitRateLimited
    \/ BudgetSpent \/ ExistingDone \/ Derive \/ GapReached \/ ChainComplete

BundleStep == Persist \/ Publish \/ EndWithoutCompletion

Passing ==
    \/ \E c \in Chains : \E i \in 0 .. Depth[c] : Receive(c, i)
    \/ \E c \in Chains : \E i \in used[c] : RowsFromOtherPage(c, i)
    \/ LimitEnds

Starting == \E s \in Sources, p \in Policies : StartRun(s, p)

Next == Starting \/ RoundStep \/ ScanStep \/ BundleStep \/ RunLost \/ Passing

Spec == Init /\ [][Next]_vars

\* A run in progress goes on and the monitor starts the next one; a rate limit
\* ends.  Windows are finite and blocks keep being mined, so an address that
\* is visited again and again is again and again outside both, and fetched.
Fairness ==
    /\ WF_vars(RoundStep \/ ScanStep \/ BundleStep)
    /\ WF_vars(Starting)
    /\ WF_vars(LimitEnds)
    /\ \A c \in Chains : \A i \in 0 .. Depth[c] - 1 :
        /\ SF_vars(VisitSucceeds /\ chain = c /\ Target = i)
        /\ SF_vars(RoundFetch(c, i) /\ i \in failed[c])

FairSpec == Spec /\ Fairness

-----------------------------------------------------------------------------
(* Properties *)

\* Activity the database or a fetch has shown.
Shown(c) == observed[c] \cup rows[c]

\* Discovery derives no further than the gap limit allows: beyond the last
\* address with activity that the database or a fetch ever showed, a chain
\* holds at most GapLimit addresses, whatever was interrupted, lost or resumed.
DerivationBound ==
    \A c \in Chains :
        derived[c] <= GapLimit \/ \E i \in Shown(c) : derived[c] <= i + 1 + GapLimit

Attempted(c) == fetched[c] \cup failed[c] \cup rows[c]

\* Where a scan is or will resume, nothing before it was passed over: each
\* address below a persisted or a running position of run_hd_chain_scan has
\* been attempted or is named by stored transactions.
NothingPassedOver ==
    /\ \A c \in Chains : \A i \in 0 .. frontier[c].next - 1 : i \in Attempted(c)
    /\ pc = "scan" => \A i \in 0 .. next_index - 1 : i \in Attempted(chain)

-----------------------------------------------------------------------------
(* The inductive invariant behind DerivationBound and NothingPassedOver *)

\* A position n with u unused addresses counted before it, on chain c.
SoundPosition(c, n, u) ==
    /\ n <= derived[c]
    /\ n <= u \/ \E i \in Shown(c) : n <= i + 1 + u
    /\ \A i \in 0 .. n - 1 : i \in Attempted(c)

\* Results and activity belong to stored addresses; what is known was shown.
Stored ==
    \A c \in Chains :
        /\ \A i \in Attempted(c) : i < derived[c]
        /\ observed[c] \subseteq fetched[c]
        /\ known[c] \subseteq Shown(c)

PositionsSound ==
    /\ \A c \in Chains : SoundPosition(c, frontier[c].next, frontier[c].unused)
    /\ pc = "scan" => SoundPosition(chain, next_index, unused)
    /\ pc = "persist" => SoundPosition(chain, outcome.next, outcome.unused)

\* A position, persisted, running or about to be persisted, lies within the
\* stored addresses, has counted every address since the last activity shown,
\* and has nothing unattempted before it.
IndInv == TypeOK /\ Stored /\ PositionsSound /\ DerivationBound

-----------------------------------------------------------------------------
(* Completion and progress *)

\* When an account's discovery is published as complete, each address whose
\* activity a fetch ever saw is followed by a full gap of stored addresses
\* ("reset consecutive_unused on any address with activity").
CompletionCoversGap ==
    [][Publish => \A c \in Chains : \A i \in observed[c] : i + GapLimit < derived[c]]_vars

\* When an account's discovery is published as complete, every stored address
\* of both chains has been fetched with success.
CompletionFetchedAll ==
    [][Publish => \A c \in Chains : \A i \in 0 .. derived[c] - 1 : i \in fetched[c]]_vars

\* An address the owner uses is eventually seen and followed by a full gap of
\* stored addresses, despite failed fetches, rate limits, lost runs, an
\* exhausted budget and addresses that were skipped when visited.
EventuallyCovered ==
    \A c \in Chains : \A i \in 0 .. Depth[c] - 1 :
        i \in used[c] ~> i \in observed[c] /\ i + GapLimit < derived[c]
=============================================================================
