--------------------------- MODULE BitcoinHistory ---------------------------
(***************************************************************************)
(* The history of one single-address Bitcoin account: the statistics and   *)
(* transaction pages a visit fetches from the mempool provider, the resume *)
(* cursor, the history proof, the strict scan of a legacy repair, the      *)
(* ledger rebuild and the two rows that record how the visit went          *)
(* (integrations/mempool, gate.rs, executor.rs, automatic.rs,              *)
(* manual_control.rs, db/transaction_sync, ledger_rebuild.rs), and the     *)
(* lease that keeps a repair and manual sync apart                         *)
(* (sync_execution_lease.rs).                                              *)
(*                                                                         *)
(* Every step is one HTTP call followed by one transaction, or one         *)
(* transaction, of the user database; the provider and a crash come in     *)
(* between.  Transactions are numbered in the order in which they confirm. *)
(***************************************************************************)
EXTENDS Integers, FiniteSets, FiniteSetsExt

CONSTANTS MaxTxs,       \* bound: transactions of the address
          PageSize,     \* confirmed transactions in a page
          Cap,          \* stored transactions at which a limited plan stops fetching pages
          Plans,        \* may the plan be limited at first? (a set of Booleans)
          Repeats,      \* does the page after the oldest transaction repeat it? (a set of Booleans)
          Repairs,      \* status of the full resync repair at first
          Manual,       \* may sync control run?
          Iterations,   \* iterations one sync control request asks for
          Overlap,      \* may sync control run beside an ordinary automatic run?
          Quiet,        \* does the address change only outside a visit's statistics and first page?
          MaxFaults     \* bound: reorganisations, crashes, failed calls and expired evidence together

ASSUME BoundsAssumption ==
    /\ MaxTxs \in Nat /\ PageSize \in Nat \ {0} /\ Iterations \in Nat \ {0} /\ Cap \in Nat
    /\ Plans \subseteq BOOLEAN /\ Repeats \subseteq BOOLEAN
    /\ Repairs \subseteq {"pending", "completed"}
    /\ {Manual, Overlap, Quiet} \subseteq BOOLEAN
    /\ MaxFaults \in Nat

VARIABLES
    provider,   \* the address as the provider sees it
    plan,       \* is the plan limited?
    stored,     \* chain_transactions: how each transaction is stored
    row,        \* transaction_sync_state of the address
    evidence,   \* raw pages of the strict scan, by requested cursor
    acct,       \* account_integration_sync_state
    ledger,     \* account_transaction_ledger
    repair,     \* user_data_repairs
    lease,      \* USER_SYNC_LEASES
    run,        \* what each runner holds in memory
    tainted,    \* a stored contradiction whose invalidation is not committed yet
    faults      \* reorganisations, crashes, failed calls and expired evidence so far

vars == <<provider, plan, stored, row, evidence, acct, ledger, repair, lease, run, tainted, faults>>

Txs == 1 .. MaxTxs
None == -1
Runners == {"auto"} \cup (IF Manual THEN {"manual"} ELSE {})

-----------------------------------------------------------------------------
\* What is stored

\* "old" and "new" are the block a transaction first confirmed in and the one
\* it confirmed in again after a reorganisation.
Statuses == {"none", "pending", "old", "new"}
IsConfirmed(status) == status \in {"old", "new"}
ConfirmedTxs == {t \in Txs : IsConfirmed(stored[t])}
StoredTxs    == {t \in Txs : stored[t] # "none"}
HasPending   == \E t \in Txs : stored[t] = "pending"

\* Slip: the proof is not compared with the stored transactions.
CandidateUncounted(r, mask) == ~(mask /\ r.scan) /\ r.cursor = 0 /\ r.proof # None

\* load_candidate_bitcoin_history_coverage: is the candidate complete?
CandidateComplete(r, mask) ==
    /\ ~(mask /\ r.scan)
    /\ r.cursor = 0
    /\ r.proof # None
    /\ r.proof = Cardinality(ConfirmedTxs)

IntegrationSuccess == ~acct.open /\ acct.result = "success"

\* The coverage the account reports to readers.
Complete == CandidateComplete(row, TRUE) /\ IntegrationSuccess

\* The pending full resync owns the account until its history is proved.
RepairOwnsAccount ==
    /\ repair = "pending"
    /\ ConfirmedTxs # {}
    /\ ~(CandidateComplete(row, FALSE) /\ IntegrationSuccess)

\* publish_bitcoin_account_completion: the proof and, once the candidate is
\* complete, the ledger from a zero opening balance, in one transaction.
PublishCompletion(newRow) ==
    /\ row' = newRow
    /\ ledger' = IF CandidateComplete(newRow, TRUE)
                   THEN [basis |-> "zero", current |-> TRUE]
                   ELSE ledger

\* Slip: only the newest transaction is taken out of the proof.
InvalidatedByOne(r) == [r EXCEPT !.proof = IF @ = None THEN None ELSE @ - 1]

\* invalidate_mempool_history_coverage: the proof and the closing balances.
Invalidated(r) == [r EXCEPT !.proof = None]
InvalidateCoverage ==
    /\ row' = Invalidated(row)
    /\ ledger' = [ledger EXCEPT !.basis = "unknown"]
    /\ tainted' = FALSE

-----------------------------------------------------------------------------
\* The provider

Status(t) == IF t > provider.confirmed THEN "pending"
             ELSE IF t \in provider.moved THEN "new" ELSE "old"

\* The newest `PageSize' of a set of confirmed transactions.
Newest(S) == {t \in S : Cardinality({u \in S : u > t}) < PageSize}

FirstPage ==
    Newest(1 .. provider.confirmed)
        \cup (IF provider.pending THEN {provider.confirmed + 1} ELSE {})

PageAfter(cursor) ==
    LET older == {t \in 1 .. provider.confirmed : t < cursor}
    IN  IF older = {} /\ provider.repeats THEN {cursor} ELSE Newest(older)

\* Has a visit read the statistics and not the first page yet?
BetweenStatsAndPage == \E r \in Runners : run[r].pc \in {"proof", "prepare", "page"}

ProviderMay == Quiet => ~BetweenStatsAndPage

Broadcast ==
    /\ ProviderMay
    /\ ~provider.pending /\ provider.confirmed < MaxTxs
    /\ provider' = [provider EXCEPT !.pending = TRUE]
    /\ UNCHANGED <<plan, stored, row, evidence, acct, ledger, repair, lease, run, tainted, faults>>

Confirm ==
    /\ ProviderMay
    /\ provider.pending
    /\ provider' = [provider EXCEPT !.pending = FALSE, !.confirmed = @ + 1]
    /\ UNCHANGED <<plan, stored, row, evidence, acct, ledger, repair, lease, run, tainted, faults>>

\* The newest block is replaced: its transaction is pending again.
Reorganise ==
    /\ ProviderMay
    /\ faults < MaxFaults
    /\ ~provider.pending /\ provider.confirmed > 0
    /\ provider' = [provider EXCEPT !.pending = TRUE, !.confirmed = @ - 1,
                                    !.moved = @ \cup {provider.confirmed}]
    /\ faults' = faults + 1
    /\ UNCHANGED <<plan, stored, row, evidence, acct, ledger, repair, lease, run, tainted>>

\* The user buys a plan without a limit.
Upgrade ==
    /\ plan
    /\ plan' = FALSE
    /\ UNCHANGED <<provider, stored, row, evidence, acct, ledger, repair, lease, run, tainted, faults>>

-----------------------------------------------------------------------------
\* A runner's memory

\* The columns of the address a run loads before it visits it.
Snapshot == [proof |-> row.proof, cursor |-> row.cursor, expected |-> row.expected,
             tip |-> row.tip, scan |-> row.scan]

NoState == [live |-> FALSE, expected |-> 0, waiting |-> FALSE, active |-> FALSE,
            allowed |-> FALSE, published |-> FALSE, firstDone |-> FALSE, cursor |-> 0,
            observed |-> {}, known |-> {}, strict |-> FALSE]

NoPage == [t \in {} |-> "none"]
NoEvidence == [pages |-> [c \in {} |-> {}], twice |-> FALSE, kept |-> TRUE]

Idle == [pc |-> "idle", owner |-> FALSE, snap |-> [proof |-> None, cursor |-> 0, expected |-> None,
                                                    tip |-> FALSE, scan |-> FALSE],
         pendingIds |-> FALSE, early |-> FALSE, permitted |-> FALSE, state |-> NoState,
         from |-> 0, page |-> NoPage, todo |-> {}, contradicted |-> FALSE,
         unavailable |-> FALSE, touched |-> FALSE, more |-> FALSE, failed |-> FALSE, left |-> 0]

To(r, pc) == run' = [run EXCEPT ![r].pc = pc]

Init ==
    /\ provider \in [confirmed : 0 .. MaxTxs, pending : {FALSE}, moved : {{}},
                     repeats : Repeats]
    /\ plan \in Plans
    /\ repair \in Repairs
    /\ \/ stored = [t \in Txs |-> "none"]
          /\ row = [tip |-> FALSE, result |-> "none", open |-> FALSE, cursor |-> 0,
                    proof |-> None, expected |-> None, scan |-> FALSE]
          /\ acct = [open |-> FALSE, result |-> "none"]
       \/ \E k \in 1 .. provider.confirmed :     \* history stored before proofs existed
          /\ repair = "pending"
          /\ stored = [t \in Txs |-> IF t \in k .. provider.confirmed THEN "old" ELSE "none"]
          /\ row = [tip |-> TRUE, result |-> "success", open |-> FALSE, cursor |-> 0,
                    proof |-> None, expected |-> None, scan |-> FALSE]
          /\ acct = [open |-> FALSE, result |-> "success"]
    /\ evidence = NoEvidence
    /\ ledger = [basis |-> "unknown", current |-> TRUE]
    /\ lease = "free"
    /\ run = [r \in Runners |-> Idle]
    /\ tainted = FALSE
    /\ faults = 0

-----------------------------------------------------------------------------
\* Starting a run

\* Slip: the lease is given back although a repair owns the account.
StartAutomaticUnleased ==
    /\ run["auto"].pc = "idle"
    /\ lease = "free"
    /\ run' = [run EXCEPT !["auto"] = [Idle EXCEPT !.pc = "start", !.owner = RepairOwnsAccount,
                                                    !.snap = Snapshot, !.pendingIds = HasPending]]
    /\ UNCHANGED <<provider, plan, stored, row, evidence, acct, ledger, repair, lease, tainted, faults>>

\* An automatic run waits for the lease, loads which accounts a repair owns,
\* and keeps the lease only for a repair.
StartAutomatic ==
    /\ run["auto"].pc = "idle"
    /\ lease = "free"
    /\ lease' = IF RepairOwnsAccount THEN "auto" ELSE "free"
    /\ run' = [run EXCEPT !["auto"] = [Idle EXCEPT !.pc = "start", !.owner = RepairOwnsAccount,
                                                    !.snap = Snapshot, !.pendingIds = HasPending]]
    /\ UNCHANGED <<provider, plan, stored, row, evidence, acct, ledger, repair, tainted, faults>>

\* Sync control takes the lease or answers with a conflict, is refused while a
\* repair owns the account, and holds the lease through all its iterations.
StartManual ==
    /\ run["manual"].pc = "idle"
    /\ lease = "free"
    /\ Overlap \/ run["auto"].pc = "idle" \/ run["auto"].owner
    /\ ~RepairOwnsAccount
    /\ lease' = "manual"
    /\ run' = [run EXCEPT !["manual"] = [Idle EXCEPT !.pc = "start", !.snap = Snapshot,
                                                      !.pendingIds = HasPending, !.left = Iterations - 1]]
    /\ UNCHANGED <<provider, plan, stored, row, evidence, acct, ledger, repair, tainted, faults>>

\* Slip: an interrupted account is opened again without recovery.
OpenAccountUnrecovered(r) ==
    /\ run[r].pc = "start"
    /\ acct' = [acct EXCEPT !.open = TRUE]
    /\ To(r, "gate")
    /\ UNCHANGED <<provider, plan, stored, row, evidence, ledger, repair, lease, tainted, faults>>

\* mark_account_integration_sync_started, and the recovery of an account whose
\* last run never finished.  The loaded snapshot keeps the proof it had.
OpenAccount(r) ==
    /\ run[r].pc = "start"
    /\ acct' = [acct EXCEPT !.open = TRUE]
    /\ IF acct.open THEN InvalidateCoverage ELSE UNCHANGED <<row, ledger, tainted>>
    /\ run' = [run EXCEPT ![r].pc = "gate", ![r].unavailable = acct.open, ![r].touched = acct.open]
    /\ UNCHANGED <<provider, plan, stored, evidence, repair, lease, faults>>

\* The gate passes the address over: a cooldown, a rate limit, a fresh
\* balance or a tip that has not moved.
SkipVisit(r) ==
    /\ run[r].pc = "gate"
    /\ To(r, "rebuild")
    /\ UNCHANGED <<provider, plan, stored, row, evidence, acct, ledger, repair, lease, tainted, faults>>

RequiresFirstPageRestart(snap) ==
    snap.expected # None /\ snap.expected > (IF snap.proof = None THEN 0 ELSE snap.proof)

\* The gate lets the visit start; an iteration that has more work keeps the
\* state the last one left in memory.
BeginVisit(r) ==
    LET me == run[r]
        permitted == me.owner \/ ~plan \/ Cardinality(StoredTxs) < Cap
        tipCompared == /\ ~me.owner /\ me.snap.cursor = 0
                       /\ ~RequiresFirstPageRestart(me.snap) /\ me.snap.tip
    IN  /\ me.pc = "gate"
        /\ row' = [row EXCEPT !.open = TRUE, !.tip = FALSE,
                              !.result = IF @ = "none" THEN "success" ELSE @]
        /\ run' = [run EXCEPT ![r].permitted = permitted,
                              ![r].early = tipCompared => ~me.pendingIds,
                              ![r].pc = IF ~me.state.live THEN "stats"
                                        ELSE IF permitted THEN "page" ELSE "success"]
        /\ UNCHANGED <<provider, plan, stored, evidence, acct, ledger, repair, lease, tainted, faults>>

-----------------------------------------------------------------------------
\* ensure_initialized

\* The statistics are fetched and recorded as a successful observation.
FetchStats(r) ==
    /\ run[r].pc = "stats"
    /\ row' = [row EXCEPT !.open = FALSE, !.result = "success", !.tip = TRUE]
    /\ run' = [run EXCEPT ![r].pc = "proof",
                          ![r].state = [NoState EXCEPT !.live = TRUE, !.expected = provider.confirmed,
                                                       !.waiting = provider.pending]]
    /\ UNCHANGED <<provider, plan, stored, evidence, acct, ledger, repair, lease, tainted, faults>>

\* mempool_history_proof_transition, weakened when no page may be fetched.
Transition(me) ==
    LET n == me.state.expected
        proof == me.snap.proof
        full == CASE proof # None /\ n = proof -> "publish"
                  [] proof # None /\ n > proof -> "preserveAndRestart"
                  [] proof # None /\ n < proof -> "invalidateAndRestart"
                  [] proof = None /\ n = 0 /\ ~me.state.waiting -> "publish"
                  [] OTHER -> "restart"
    IN  IF ~me.permitted /\ full \in {"preserveAndRestart", "restart"} THEN "preserve" ELSE full

ZeroStats(me) == me.state.expected = 0 /\ ~me.state.waiting

\* The proof the snapshot had is published again, refreshed or invalidated.
SettleProof(r) ==
    LET me == run[r]
        n == me.state.expected
        refresh == ~me.permitted /\ me.snap.proof = n
    IN  /\ me.pc = "proof"
        /\ CASE Transition(me) = "publish" /\ refresh ->
                  /\ run' = [run EXCEPT ![r].pc = "prepare", ![r].state.published = row.proof = n]
                  /\ UNCHANGED <<row, ledger, tainted>>
             [] Transition(me) = "publish" /\ ~refresh ->
                  /\ run' = [run EXCEPT ![r].pc = "prepare", ![r].state.published = TRUE]
                  /\ PublishCompletion([row EXCEPT !.proof = n])
                  /\ UNCHANGED tainted
             [] Transition(me) = "invalidateAndRestart" ->
                  /\ To(r, "prepare")
                  /\ InvalidateCoverage
             [] OTHER ->
                  /\ To(r, "prepare")
                  /\ UNCHANGED <<row, ledger, tainted>>
        /\ UNCHANGED <<provider, plan, stored, evidence, acct, repair, lease, faults>>

\* The rest of ensure_initialized: where the visit resumes, a new strict scan,
\* what is known and observed already, and the expected count.
Prepare(r) ==
    LET me == run[r]
        transition == Transition(me)
        n == me.state.expected
        planActive == ~me.snap.tip \/ me.snap.cursor # 0 \/ ~me.early
        active == me.permitted /\ (planActive \/ transition # "publish")
        restarts == transition \in {"preserveAndRestart", "invalidateAndRestart"}
        strict == me.permitted /\ me.owner /\ ~me.state.published /\ ~ZeroStats(me)
        begins == strict /\ ~me.snap.scan
        resume == IF restarts \/ begins \/ ~planActive THEN 0 ELSE me.snap.cursor
        retained == IF transition = "invalidateAndRestart" \/ me.snap.proof = None
                      THEN 0 ELSE me.snap.proof
        unproven == IF n > retained THEN n ELSE None
        expected == CASE active -> n
                      [] ~me.permitted /\ unproven # me.snap.expected -> unproven
                      [] ~active /\ me.permitted /\ me.state.published /\ me.snap.expected # None -> None
                      [] OTHER -> row.expected
    IN  /\ me.pc = "prepare"
        /\ row' = [row EXCEPT !.cursor = IF restarts \/ begins THEN 0 ELSE @,
                              !.scan = @ \/ begins, !.expected = expected]
        /\ evidence' = IF begins THEN NoEvidence ELSE evidence
        /\ run' = [run EXCEPT
             ![r].snap = Idle.snap,      \* not read any more
             ![r].state = [me.state EXCEPT
                !.active = active, !.strict = strict, !.cursor = resume, !.firstDone = resume # 0,
                !.allowed = transition # "invalidateAndRestart" /\ ~me.owner,
                !.waiting = @ \/ (active /\ HasPending),
                !.known = IF active THEN {} ELSE StoredTxs,
                !.observed = IF active THEN ConfirmedTxs ELSE {}],
             ![r].pc = CASE ~me.permitted -> "success"
                         [] me.permitted /\ ZeroStats(me) -> "finalize"
                         [] OTHER -> "page"]
        /\ UNCHANGED <<provider, plan, stored, acct, ledger, repair, lease, tainted, faults>>

-----------------------------------------------------------------------------
\* run_mempool_iteration

\* One page is fetched and kept as raw evidence, tagged with the strict scan.
\* An empty page ends the visit unless it is the first one: a strict scan is
\* checked, otherwise the iteration returns at once and commits nothing.
FetchPage(r) ==
    LET me == run[r]
        from == IF me.state.firstDone THEN me.state.cursor ELSE 0
        txs == IF me.state.firstDone THEN PageAfter(from) ELSE FirstPage
    IN  /\ me.pc = "page"
        /\ evidence' = IF me.state.strict
                         THEN [evidence EXCEPT
                                 !.pages = [c \in DOMAIN @ \cup {from} |->
                                              IF c = from THEN [confirmed |-> {t \in txs : IsConfirmed(Status(t))},
                                                                pending |-> \E t \in txs : Status(t) = "pending"]
                                                          ELSE @[c]],
                                 !.twice = @ \/ from \in DOMAIN evidence.pages]
                         ELSE evidence
        /\ run' = [run EXCEPT
             ![r].from = from,
             ![r].page = [t \in txs |-> Status(t)],
             ![r].todo = txs,
             ![r].state.cursor = IF txs = {} /\ me.state.firstDone /\ ~me.state.strict THEN 0 ELSE @,
             ![r].pc = CASE txs = {} /\ me.state.strict -> "conclude"
                         [] txs = {} /\ ~me.state.strict /\ me.state.firstDone -> "finalize"
                         [] txs = {} /\ ~me.state.strict /\ ~me.state.firstDone -> "advance"
                         [] OTHER -> "reconcile"]
        /\ UNCHANGED <<provider, plan, stored, row, acct, ledger, repair, lease, tainted, faults>>

\* coverage_invalidation_for_change: a confirmed transaction that is no longer
\* confirmed in the same block contradicts the history that was proved.
Contradicts(before, after) == IsConfirmed(before) /\ after # before

\* One transaction of the page is written, in a transaction of its own.
ReconcileNext(r) ==
    LET me == run[r]
        t == Max(me.todo)
        contradiction == Contradicts(stored[t], me.page[t])
        contradicted == me.contradicted \/ contradiction
        unchanged == me.page[t] = stored[t] \/ {me.page[t], stored[t]} \subseteq {"none", "pending"}
    IN  /\ me.pc = "reconcile"
        /\ stored' = [stored EXCEPT ![t] = me.page[t]]
        /\ ledger' = [ledger EXCEPT !.current = @ /\ unchanged]
        /\ tainted' = (tainted \/ contradiction)
        /\ run' = [run EXCEPT
             ![r].todo = @ \ {t},
             ![r].contradicted = contradicted,
             ![r].pc = CASE me.todo # {t} -> "reconcile"
                         [] me.todo = {t} /\ contradicted -> "invalidate"
                         [] OTHER -> "advance"]
        /\ UNCHANGED <<provider, plan, row, evidence, acct, repair, lease, faults>>

\* The contradictions of the whole page take the proof with them.
InvalidatePage(r) ==
    /\ run[r].pc = "invalidate"
    /\ InvalidateCoverage
    /\ To(r, "advance")
    /\ UNCHANGED <<provider, plan, stored, evidence, acct, repair, lease, faults>>

PageConfirmed(me) == {t \in DOMAIN me.page : IsConfirmed(me.page[t])}

\* Slip: a page without confirmed transactions leaves a cursor behind.
LastConfirmedUnset(S) == IF S = {} THEN None ELSE Min(S)

\* last_confirmed_txid_in_page: pages list the newest transaction first.
LastConfirmed(S) == IF S = {} THEN 0 ELSE Min(S)

\* A page that ends at the cursor it was asked for.
Duplicate(me) == me.from # 0 /\ LastConfirmed(PageConfirmed(me)) = me.from

\* The iteration's state after the page: what it observed, where it goes on,
\* and whether the expected count is reached.  A page that ends at its own
\* cursor keeps the cursor and forbids publication.
Observe(me) ==
    LET confirmed == PageConfirmed(me)
        next == LastConfirmed(confirmed)
    IN  [me.state EXCEPT
           !.observed = IF me.state.active THEN @ \cup confirmed ELSE @,
           !.waiting = @ \/ (me.state.active /\ confirmed # DOMAIN me.page),
           !.cursor = next,
           !.allowed = @ /\ ~Duplicate(me),
           !.firstDone = TRUE]

\* Slip: the last expected transaction is not waited for.
ExpectedNearlyReached(state) ==
    /\ state.active /\ state.allowed
    /\ ~state.waiting
    /\ Cardinality(state.observed) + 1 >= state.expected

\* complete_backfill_if_expected_count_reached
ExpectedReached(state) ==
    /\ state.active /\ state.allowed
    /\ ~state.waiting
    /\ Cardinality(state.observed) = state.expected

\* The cursor is committed before anything is published.
AdvanceCursor(r) ==
    LET me == run[r]
        state == Observe(me)
        cursor == IF ExpectedReached(state) THEN 0 ELSE state.cursor
    IN  /\ me.pc = "advance"
        /\ row' = IF state.active THEN [row EXCEPT !.cursor = cursor] ELSE row
        /\ run' = [run EXCEPT ![r].state = [state EXCEPT !.cursor = cursor], ![r].pc = "conclude"]
        /\ UNCHANGED <<provider, plan, stored, evidence, acct, ledger, repair, lease, tainted, faults>>

EvidenceSeen == UNION {evidence.pages[c].confirmed : c \in DOMAIN evidence.pages}

\* Slip: more transactions than the statistics announced are accepted.
EvidenceCountsAtLeast(expected) == Cardinality(EvidenceSeen) >= expected /\ EvidenceSeen = ConfirmedTxs

\* The pages hold exactly the stored history, as many as were announced.
EvidenceCounts(expected) == Cardinality(EvidenceSeen) = expected /\ EvidenceSeen = ConfirmedTxs

\* validate_strict_mempool_history_scan: one page per requested cursor, from
\* the first page down to an empty one (or, if allowed, to one that repeats
\* its own cursor), linked without gaps.
EvidenceExact(expected, allowRepeat) ==
    LET pages == evidence.pages
        Returned(c) == LastConfirmed(pages[c].confirmed)
        Repeated(c) == allowRepeat /\ c # 0 /\ pages[c] = [confirmed |-> {c}, pending |-> FALSE]
    IN  /\ evidence.kept /\ ~evidence.twice
        /\ 0 \in DOMAIN pages
        /\ \A c \in DOMAIN pages \ {0} : \E p \in DOMAIN pages \ {c} : Returned(p) = c
        /\ \A c \in DOMAIN pages :
              \/ pages[c] = [confirmed |-> {}, pending |-> FALSE]
              \/ Repeated(c)
              \/ Returned(c) \in DOMAIN pages \ {0, c}
        /\ EvidenceCounts(expected)

\* strict_singleton_duplicate_completion
StrictRepeatCompletes(me) ==
    /\ Duplicate(me) /\ DOMAIN me.page = {me.from}
    /\ ~me.state.waiting
    /\ Cardinality(me.state.observed) = me.state.expected

StrictEnds(me) == me.state.strict /\ (DOMAIN me.page = {} \/ StrictRepeatCompletes(me))
StrictExact(me) == EvidenceExact(me.state.expected, DOMAIN me.page # {})

\* complete_strict_mempool_history_scan: the evidence proves the history.
PublishStrict(r) ==
    LET me == run[r]
    IN  /\ me.pc = "conclude"
        /\ StrictEnds(me) /\ StrictExact(me)
        /\ PublishCompletion([row EXCEPT !.proof = me.state.expected, !.scan = FALSE])
        /\ run' = [run EXCEPT ![r].state.published = TRUE, ![r].state.cursor = 0,
                              ![r].more = FALSE, ![r].pc = "finalize"]
        /\ UNCHANGED <<provider, plan, stored, evidence, acct, repair, lease, tainted, faults>>

\* restart_strict_mempool_history_scan: the evidence does not hold together,
\* or the scan ran out of pages without an empty one; the visit fails.
RestartStrict(r) ==
    LET me == run[r]
    IN  /\ me.pc = "conclude"
        /\ \/ StrictEnds(me) /\ ~StrictExact(me)
           \/ /\ me.state.strict /\ ~StrictEnds(me)
              /\ Duplicate(me) \/ me.state.cursor = 0
        /\ row' = [row EXCEPT !.proof = None, !.cursor = 0, !.scan = FALSE]
        /\ To(r, "failure")
        /\ UNCHANGED <<provider, plan, stored, evidence, acct, ledger, repair, lease, tainted, faults>>

\* should_early_exit_for_known_confirmed_page
EarlyExit(me) ==
    /\ ~me.state.active /\ me.early
    /\ PageConfirmed(me) # {} /\ PageConfirmed(me) \subseteq me.state.known

\* The expected count is reached: the proof is published.
PublishProof(r) ==
    LET me == run[r]
    IN  /\ me.pc = "conclude"
        /\ ~me.state.strict /\ ExpectedReached(me.state)
        /\ PublishCompletion([row EXCEPT !.proof = me.state.expected])
        /\ run' = [run EXCEPT ![r].state.published = TRUE, ![r].more = FALSE, ![r].pc = "finalize"]
        /\ UNCHANGED <<provider, plan, stored, evidence, acct, repair, lease, tainted, faults>>

\* There is more to fetch, or nothing to prove.
PassPage(r) ==
    LET me == run[r]
    IN  /\ me.pc = "conclude"
        /\ IF me.state.strict THEN ~StrictEnds(me) /\ ~Duplicate(me) /\ me.state.cursor # 0
                              ELSE ~ExpectedReached(me.state)
        /\ run' = [run EXCEPT ![r].more = me.state.cursor # 0 /\ ~EarlyExit(me), ![r].pc = "finalize"]
        /\ UNCHANGED <<provider, plan, stored, row, evidence, acct, ledger, repair, lease, tainted, faults>>

\* finalize_terminal_run: only a published proof clears the resume cursor.
Finalize(r) ==
    LET me == run[r]
        done == me.state.active /\ me.state.cursor = 0 /\ me.state.published
    IN  /\ me.pc = "finalize"
        /\ row' = IF done THEN [row EXCEPT !.cursor = 0, !.expected = None] ELSE row
        /\ To(r, "success")
        /\ UNCHANGED <<provider, plan, stored, evidence, acct, ledger, repair, lease, tainted, faults>>

-----------------------------------------------------------------------------
\* Ending a visit and a run

\* The executor drops the iteration's state unless it has more work, the gate
\* records the success and marks the account for the rebuild.
MarkSuccess(r) ==
    LET me == run[r]
    IN  /\ me.pc = "success"
        /\ row' = [row EXCEPT !.open = FALSE, !.result = "success", !.tip = TRUE]
        /\ run' = [run EXCEPT ![r].state = IF me.more THEN me.state ELSE NoState,
                              ![r].unavailable = @ \/ me.contradicted,
                              ![r].touched = @ \/ DOMAIN me.page # {},
                              ![r].pc = "rebuild"]
        /\ UNCHANGED <<provider, plan, stored, evidence, acct, ledger, repair, lease, tainted, faults>>

\* A request fails, or a transaction of the page cannot be stored.
FailCall(r) ==
    /\ run[r].pc \in {"stats", "page", "reconcile"}
    /\ faults < MaxFaults
    /\ faults' = faults + 1
    /\ To(r, "failure")
    /\ UNCHANGED <<provider, plan, stored, row, evidence, acct, ledger, repair, lease, tainted>>

\* Slip: the error loses the contradictions of the page that failed.
CarriesNothing(me) == FALSE

\* with_coverage_invalidation: the error carries the contradictions of its page.
Carries(me) == me.contradicted

\* The failed visit invalidates what it carried and is recorded; the ledger is
\* rebuilt only for a carried contradiction.
MarkFailure(r) ==
    LET me == run[r]
        failed(x) == [x EXCEPT !.open = FALSE, !.result = "failure"]
    IN  /\ me.pc = "failure"
        /\ IF Carries(me)
             THEN /\ row' = failed(Invalidated(row))
                  /\ ledger' = [ledger EXCEPT !.basis = "unknown"]
                  /\ tainted' = FALSE
             ELSE /\ row' = failed(row)
                  /\ UNCHANGED <<ledger, tainted>>
        /\ run' = [run EXCEPT ![r].state = NoState, ![r].failed = TRUE,
                              ![r].unavailable = @ \/ Carries(me),
                              ![r].touched = @ \/ Carries(me), ![r].pc = "rebuild"]
        /\ UNCHANGED <<provider, plan, stored, evidence, acct, repair, lease, faults>>

\* rebuild_account_if_touched: from no opening balance if coverage was
\* invalidated in this run, else from what the coverage allows.
RebuildLedger(r) ==
    LET me == run[r]
        basis == CASE me.unavailable -> "unknown"
                   [] ~me.unavailable /\ CandidateComplete(row, TRUE) -> "zero"
                   [] ~me.unavailable /\ ~CandidateComplete(row, TRUE) /\ row.scan -> "unknown"
                   [] OTHER -> "provider"
    IN  /\ me.pc = "rebuild"
        /\ ledger' = IF me.touched THEN [basis |-> basis, current |-> TRUE] ELSE ledger
        /\ run' = [run EXCEPT ![r].pc = "refresh"]
        /\ UNCHANGED <<provider, plan, stored, row, evidence, acct, repair, lease, tainted, faults>>

\* refresh_account_integration_sync_state: the account row follows the address
\* row unless a visit of the address has not ended.
RefreshAccount(r) ==
    /\ run[r].pc = "refresh"
    /\ acct' = IF row.open THEN acct ELSE [open |-> FALSE, result |-> row.result]
    /\ run' = [run EXCEPT ![r] = [Idle EXCEPT !.pc = "finish", !.owner = run[r].owner, !.left = run[r].left,
                                              !.pendingIds = run[r].pendingIds, !.state = run[r].state,
                                              !.failed = run[r].failed]]
    /\ UNCHANGED <<provider, plan, stored, row, evidence, ledger, repair, lease, tainted, faults>>

\* The next iteration of sync control, with the address loaded again.
NextIteration ==
    /\ run["manual"].pc = "finish" /\ ~run["manual"].failed
    /\ run["manual"].left > 0
    /\ run' = [run EXCEPT !["manual"].pc = "start", !["manual"].snap = Snapshot, !["manual"].left = @ - 1]
    /\ UNCHANGED <<provider, plan, stored, row, evidence, acct, ledger, repair, lease, tainted, faults>>

FinishManual ==
    /\ run["manual"].pc = "finish"
    /\ run["manual"].failed \/ run["manual"].left = 0
    /\ lease' = "free"
    /\ run' = [run EXCEPT !["manual"] = Idle]
    /\ UNCHANGED <<provider, plan, stored, row, evidence, acct, ledger, repair, tainted, faults>>

\* An automatic run completes a repair that owns nothing any more, deletes raw
\* evidence older than the retention period and gives the lease back.
FinishAutomatic ==
    /\ run["auto"].pc = "finish"
    /\ repair' = IF RepairOwnsAccount THEN repair ELSE "completed"
    /\ \/ UNCHANGED <<evidence, faults>>
       \/ /\ row.scan /\ evidence.kept /\ faults < MaxFaults
          /\ evidence' = [evidence EXCEPT !.kept = FALSE]
          /\ faults' = faults + 1
    /\ lease' = IF run["auto"].owner THEN "free" ELSE lease
    /\ run' = [run EXCEPT !["auto"] = Idle]
    /\ UNCHANGED <<provider, plan, stored, row, acct, ledger, tainted>>

\* The process stops and starts again: only the database survives.
Crash ==
    /\ faults < MaxFaults
    /\ \E r \in Runners : run[r].pc # "idle"
    /\ run' = [r \in Runners |-> Idle]
    /\ lease' = "free"
    /\ faults' = faults + 1
    /\ UNCHANGED <<provider, plan, stored, row, evidence, acct, ledger, repair, tainted>>

Step(r) ==
    \/ OpenAccount(r) \/ BeginVisit(r) \/ FetchStats(r) \/ SettleProof(r) \/ Prepare(r)
    \/ FetchPage(r) \/ ReconcileNext(r) \/ InvalidatePage(r) \/ AdvanceCursor(r)
    \/ PublishStrict(r) \/ RestartStrict(r) \/ PublishProof(r) \/ PassPage(r) \/ Finalize(r)
    \/ MarkSuccess(r) \/ MarkFailure(r) \/ RebuildLedger(r) \/ RefreshAccount(r)

Next ==
    \/ Broadcast \/ Confirm \/ Reorganise \/ Upgrade
    \/ StartAutomatic \/ FinishAutomatic
    \/ Manual /\ (StartManual \/ NextIteration \/ FinishManual)
    \/ \E r \in Runners : Step(r) \/ SkipVisit(r) \/ FailCall(r)
    \/ Crash

Spec == Init /\ [][Next]_vars

-----------------------------------------------------------------------------
\* Properties

\* Every variable has its type.
TypeOK ==
    /\ provider \in [confirmed : 0 .. MaxTxs, pending : BOOLEAN, moved : SUBSET Txs,
                     repeats : BOOLEAN]
    /\ plan \in BOOLEAN
    /\ stored \in [Txs -> Statuses]
    /\ row \in [tip : BOOLEAN, result : {"none", "success", "failure"}, open : BOOLEAN,
                cursor : 0 .. MaxTxs, proof : None .. MaxTxs, expected : None .. MaxTxs, scan : BOOLEAN]
    /\ acct \in [open : BOOLEAN, result : {"none", "success", "failure"}]
    /\ ledger \in [basis : {"unknown", "provider", "zero"}, current : BOOLEAN]
    /\ repair \in {"pending", "completed"}
    /\ lease \in {"free", "auto", "manual"}
    /\ tainted \in BOOLEAN

Active(r) == r \in Runners /\ run[r].pc # "idle"

\* A proof of n transactions stands on the n oldest of them, all stored, through
\* cursors that resume below them, restarts, repeated pages, reorganisations
\* and crashes: mempool_history_proof never counts what was not downloaded.
ProofStandsOnStored == row.proof # None => 1 .. row.proof \subseteq StoredTxs

\* An account reported complete (load_bitcoin_account_history_coverage) holds as
\* confirmed exactly the transactions its proof counts, whatever is pending or
\* was moved to another block.
CompleteMeansConfirmed == Complete => ConfirmedTxs = 1 .. row.proof

\* An account is never reported complete while a stored transaction contradicts
\* what was proved and the invalidation is not committed: the two are separate
\* transactions (reconcile_mempool_transactions), with crashes in between.
NoContradictionReported == Complete => ~tainted

\* Between runs, an account reported complete has a ledger that was rebuilt
\* after the last change of its confirmed history, whatever failed or was interrupted
\* (rebuild_account_if_touched, publish_bitcoin_account_completion).
LedgerFollowsHistory ==
    Complete /\ (\A r \in Runners : run[r].pc = "idle") => ledger.current

\* While an automatic run repairs the account no sync control runs: the lease it
\* keeps (automatic.rs) and the check behind the lease that sync control takes
\* (manual_control.rs) exclude each other in every order of arrival.
RepairRunsAlone ==
    Active("auto") /\ run["auto"].owner => ~Active("manual")

\* A strict scan publishes only what the provider's pages really contained: the
\* evidence of several runs, validated at once, is the whole stored history.
StrictProofExact ==
    [][\A r \in Runners : PublishStrict(r) => ConfirmedTxs = 1 .. row'.proof]_vars

\* The proof is a claim over the downloaded history in the sense of
\* HistoryClaim: it grows over stored transactions or is withdrawn as a whole.
Claim == INSTANCE HistoryClaim WITH Items <- Txs, held <- StoredTxs,
            claim <- IF row.proof = None THEN {} ELSE 1 .. row.proof
ClaimSpec == Claim!Spec

-----------------------------------------------------------------------------
\* Progress

\* A transaction confirms in the end, the user buys a plan, the scheduler keeps
\* starting runs, a run keeps taking steps, and its gate does not pass the
\* address over for ever.
Fairness ==
    /\ SF_vars(Confirm) /\ WF_vars(Upgrade)
    /\ WF_vars(StartAutomatic) /\ WF_vars(FinishAutomatic)
    /\ WF_vars(Manual /\ (NextIteration \/ FinishManual))
    /\ \A r \in Runners : WF_vars(Step(r) /\ ~BeginVisit(r)) /\ SF_vars(BeginVisit(r))

FairSpec == Spec /\ Fairness

\* "Backfill mode walks backward through history" (sync-architecture.md): a
\* confirmed transaction is downloaded in the end.
EveryTransactionArrives ==
    \A t \in Txs : (t <= provider.confirmed) ~> (stored[t] # "none")
=============================================================================
