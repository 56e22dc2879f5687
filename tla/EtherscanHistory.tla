-------------------------- MODULE EtherscanHistory --------------------------
(***************************************************************************)
(* The history of one Ethereum address: the block ranges an iteration      *)
(* fetches from Etherscan, newest first, in two streams of pages, the      *)
(* pending range, the older cursor and the transaction tip it commits      *)
(* (integrations/etherscan/mod.rs, etherscan_progress.rs, sync_state.rs).  *)
(*                                                                         *)
(* Every step is one HTTP call followed by one transaction, or one         *)
(* transaction, of the user database.  An automatic run takes one          *)
(* iteration, sync control several, and nothing keeps the two apart: the   *)
(* lease of sync_execution_lease.rs is dropped as soon as an automatic run *)
(* has found no Bitcoin repair.                                            *)
(***************************************************************************)
EXTENDS Integers, FiniteSets, FiniteSetsExt

CONSTANTS FirstHeight,  \* the provider's tip at first
          MaxHeight,    \* bound: blocks of the chain
          PerBlock,     \* bound: transactions of the address in a block, per stream
          Chains,       \* what the blocks may hold
          PageSize,     \* ETHERSCAN_PAGE_SIZE
          Lag,          \* blocks by which the provider's index may trail its tip
          Stale,        \* blocks by which a cached tip may trail the provider's
          OlderCursors, \* cursors left behind by earlier versions of the program
          Runners,      \* "auto" and "manual"
          Iterations,   \* iterations one sync control request asks for
          MaxFaults     \* bound: failed calls and crashes together

None == -1
Blocks == 0 .. MaxHeight
Streams == {"normal", "internal"}

ASSUME BoundsAssumption ==
    /\ FirstHeight \in Nat \ {0} /\ MaxHeight \in Nat /\ FirstHeight <= MaxHeight
    /\ PerBlock \in Nat /\ PageSize \in Nat \ {0}
    /\ Chains \subseteq SUBSET (Streams \X Blocks \X (1 .. PerBlock))
    /\ Lag \in 0 .. FirstHeight /\ Stale \in Nat
    /\ OlderCursors \subseteq Blocks \cup {None}
    /\ Runners \subseteq {"auto", "manual"}
    /\ Iterations \in Nat \ {0} /\ MaxFaults \in Nat

VARIABLES
    chain,      \* the transactions of the address, as <<stream, block, position>>
    height,     \* the provider's tip
    indexed,    \* the newest block whose transactions the provider lists
    stored,     \* the transactions in chain_transactions and account_transfers
    row,        \* transaction_sync_state of the address
    pending,    \* etherscan_pending_ranges
    run,        \* what each runner holds in memory
    faults

vars == <<chain, height, indexed, stored, row, pending, run, faults>>

NoRange == [start |-> None, end |-> None, tip |-> None]
NoState == [live |-> FALSE, start |-> 0, end |-> 0, tip |-> 0, recent |-> FALSE, fromZero |-> FALSE,
            older |-> None, backfill |-> FALSE, done |-> FALSE]
Snapshot == [tip |-> row.tip, older |-> row.older]
NoSnap == [tip |-> None, older |-> None]
Idle == [pc |-> "idle", snap |-> NoSnap, state |-> NoState,
         page |-> {}, cursor |-> None, left |-> 0]

Init ==
    /\ chain \in Chains
    /\ height = FirstHeight
    /\ indexed = FirstHeight - Lag
    /\ stored = {}
    /\ row \in [tip : {None}, older : OlderCursors]
    /\ pending = NoRange
    /\ run = [r \in Runners |-> Idle]
    /\ faults = 0

-----------------------------------------------------------------------------
\* The provider

Mine ==
    /\ height < MaxHeight
    /\ height' = height + 1
    /\ indexed' = Max({indexed, height + 1 - Lag})
    /\ UNCHANGED <<chain, stored, row, pending, run, faults>>

Index ==
    /\ indexed < height
    /\ indexed' = indexed + 1
    /\ UNCHANGED <<chain, height, stored, row, pending, run, faults>>

\* One page of a stream, newest block first.
Newer(i, j) == i[2] > j[2] \/ (i[2] = j[2] /\ i[3] > j[3])
Page(stream, start, end) ==
    LET listed == {i \in chain : i[1] = stream /\ i[2] \in start .. end /\ i[2] <= indexed}
    IN  {i \in listed : Cardinality({j \in listed : Newer(j, i)}) < PageSize}

-----------------------------------------------------------------------------
\* A run

To(r, pc) == run' = [run EXCEPT ![r].pc = pc]

\* The address is loaded; sync control loads it before each of its iterations.
Start(r) ==
    /\ run[r].pc = "idle"
    /\ run' = [run EXCEPT ![r] = [Idle EXCEPT !.pc = "init", !.snap = Snapshot,
                                              !.left = IF r = "manual" THEN Iterations - 1 ELSE 0]]
    /\ UNCHANGED <<chain, height, indexed, stored, row, pending, faults>>

\* Slip: the range starts at the committed tip, without the block below.
RangeStartAtTip(tip) == IF tip > 0 THEN tip ELSE 0

\* etherscan_fetch_initialization
RangeStart(tip) == IF tip > 0 THEN tip - 1 ELSE 0

\* ChainTipCache::get_or_fetch: the provider's tip, or a cached one.
Tips == {t \in Blocks : t \in height - Stale .. height}

\* ensure_initialized: resume the pending range, or fetch what is newer than
\* the committed tip.  A cached tip below that range is an error.
FetchRange(snap, tip) ==
    IF pending = NoRange THEN [start |-> RangeStart(snap.tip), end |-> tip, tip |-> tip]
    ELSE [pending EXCEPT !.tip = IF @ = None THEN tip ELSE @]

Initialise(r) ==
    LET me == run[r]
        recent == pending = NoRange \/ pending.tip # None
        begun(range) == [live |-> TRUE, start |-> range.start, end |-> range.end, tip |-> range.tip,
                         recent |-> recent, fromZero |-> range.start = 0, older |-> me.snap.older,
                         backfill |-> ~recent, done |-> FALSE]
        ready(state) == [me EXCEPT !.pc = "normal", !.snap = NoSnap, !.state = state]
    IN  /\ me.pc = "init"
        /\ \E tip \in Tips :
             LET range == FetchRange(me.snap, tip)
             IN  run' = [run EXCEPT ![r] = CASE me.state.live -> ready(me.state)
                                             [] ~me.state.live /\ range.start > range.end -> Idle
                                             [] OTHER -> ready(begun(range))]
        /\ UNCHANGED <<chain, height, indexed, stored, row, pending, faults>>

Oldest(page) == Min({i[2] : i \in page})

\* etherscan_resume_cursor_from_full_page: a full page may have left out older
\* transactions, and one that ends in the newest block of the range cannot
\* be resumed at all.
Full(page) == Cardinality(page) >= PageSize
Unresumable(page, end) == Full(page) /\ Oldest(page) >= end
ResumeCursor(page) == IF Full(page) THEN Oldest(page) ELSE None

\* align_recent_first_resume_cursor: None is below every block.
Align(c1, c2) == Max({c1, c2})

FetchNormal(r) ==
    LET page == Page("normal", run[r].state.start, run[r].state.end)
    IN  /\ run[r].pc = "normal"
        /\ run' = [run EXCEPT ![r] = IF Unresumable(page, @.state.end) THEN Idle
                                     ELSE [@ EXCEPT !.pc = "internal", !.page = page,
                                                    !.cursor = ResumeCursor(page)]]
        /\ UNCHANGED <<chain, height, indexed, stored, row, pending, faults>>

\* The second stream; reconcile_account_transactions then stores both.
FetchInternal(r) ==
    LET page == Page("internal", run[r].state.start, run[r].state.end)
        refused == Unresumable(page, run[r].state.end)
    IN  /\ run[r].pc = "internal"
        /\ stored' = IF refused THEN stored ELSE stored \cup run[r].page \cup page
        /\ run' = [run EXCEPT ![r] = IF refused THEN Idle
                                     ELSE [@ EXCEPT !.pc = "advance", !.page = {},
                                                    !.cursor = Align(run[r].cursor, ResumeCursor(page))]]
        /\ UNCHANGED <<chain, height, indexed, row, pending, faults>>

\* Slip: the range goes on below the block that ended the page.
NarrowRecentBelow(r) ==
    /\ run[r].pc = "advance" /\ run[r].state.recent /\ run[r].cursor # None
    /\ run' = [run EXCEPT ![r].state.end = run[r].cursor - 1, ![r].cursor = None, ![r].pc = "save"]
    /\ UNCHANGED <<chain, height, indexed, stored, row, pending, faults>>

\* The recent range has more pages.
NarrowRecent(r) ==
    LET me == run[r]
    IN  /\ me.pc = "advance" /\ me.state.recent /\ me.cursor # None
        /\ run' = [run EXCEPT ![r].state.end = me.cursor, ![r].cursor = None, ![r].pc = "save"]
        /\ UNCHANGED <<chain, height, indexed, stored, row, pending, faults>>

\* The recent range is done: its tip is committed, and an older range left
\* behind by an earlier version comes next unless this one started at zero.
CommitTip(r) ==
    LET me == run[r]
        older == me.state.older
        onward == ~me.state.fromZero /\ older # None
    IN  /\ me.pc = "advance" /\ me.state.recent /\ me.cursor = None
        /\ row' = [row EXCEPT !.tip = me.state.tip]
        /\ run' = [run EXCEPT
             ![r].state = [me.state EXCEPT !.recent = FALSE, !.older = None, !.done = ~onward,
                                           !.backfill = me.state.backfill \/ onward,
                                           !.start = IF onward THEN 0 ELSE me.state.start,
                                           !.end = IF onward THEN older ELSE me.state.end],
             ![r].pc = IF me.state.fromZero /\ older # None THEN "clear" ELSE "save"]
        /\ UNCHANGED <<chain, height, indexed, stored, pending, faults>>

ClearOlder(r) ==
    /\ run[r].pc = "clear"
    /\ row' = [row EXCEPT !.older = None]
    /\ To(r, "save")
    /\ UNCHANGED <<chain, height, indexed, stored, pending, faults>>

\* The older range: persist_etherscan_backfill_cursor_transition.
AdvanceOlder(r) ==
    LET me == run[r]
    IN  /\ me.pc = "advance" /\ ~me.state.recent
        /\ row' = IF me.cursor # None \/ me.state.backfill THEN [row EXCEPT !.older = me.cursor] ELSE row
        /\ run' = [run EXCEPT
             ![r].state = [me.state EXCEPT !.end = IF me.cursor # None THEN me.cursor ELSE me.state.end,
                                           !.done = me.cursor = None, !.backfill = me.cursor # None],
             ![r].cursor = None, ![r].pc = "save"]
        /\ UNCHANGED <<chain, height, indexed, stored, pending, faults>>

\* The iteration is over: its state stays in memory if it has more work, but
\* an automatic run drops it with its executor.
Over(me) == IF me.left = 0 THEN Idle
            ELSE [me EXCEPT !.pc = "end", !.state = IF me.state.done THEN NoState ELSE me.state]

\* Slip: a range that is done stays pending.
SavePendingKept(r) ==
    LET state == run[r].state
    IN  /\ run[r].pc = "save"
        /\ pending' = IF state.done THEN pending
                      ELSE [start |-> state.start, end |-> state.end,
                            tip |-> IF state.recent THEN state.tip ELSE None]
        /\ run' = [run EXCEPT ![r] = Over(@)]
        /\ UNCHANGED <<chain, height, indexed, stored, row, faults>>

\* Slip: the start of the range is taken from the tip it will commit.
SavePendingFromTip(r) ==
    LET state == run[r].state
    IN  /\ run[r].pc = "save"
        /\ pending' = IF state.done THEN NoRange
                      ELSE [start |-> Min({state.end, RangeStart(state.tip)}), end |-> state.end,
                            tip |-> IF state.recent THEN state.tip ELSE None]
        /\ run' = [run EXCEPT ![r] = Over(@)]
        /\ UNCHANGED <<chain, height, indexed, stored, row, faults>>

\* save_etherscan_pending_range, after everything it stands for.
SavePending(r) ==
    LET state == run[r].state
    IN  /\ run[r].pc = "save"
        /\ pending' = IF state.done THEN NoRange
                      ELSE [start |-> state.start, end |-> state.end,
                            tip |-> IF state.recent THEN state.tip ELSE None]
        /\ run' = [run EXCEPT ![r] = Over(@)]
        /\ UNCHANGED <<chain, height, indexed, stored, row, faults>>

\* Sync control goes on with the address loaded again.
NextIteration(r) ==
    LET me == run[r]
    IN  /\ me.pc = "end"
        /\ run' = [run EXCEPT ![r] = [me EXCEPT !.pc = "init", !.left = me.left - 1, !.snap = Snapshot]]
        /\ UNCHANGED <<chain, height, indexed, stored, row, pending, faults>>

\* What a run that stops while it reconciles may have stored by then: it does
\* so transaction by transaction.
Parts(R) ==
    LET fetched(r) == run[r].page \cup Page("internal", run[r].state.start, run[r].state.end)
    IN  SUBSET (UNION {fetched(r) : r \in {q \in R : run[q].pc = "internal"}} \ stored)

\* A request fails, or a transaction of the user database does: the executor
\* drops the iteration's state, and sync control gives up.
FailCall(r) ==
    /\ run[r].pc # "idle"
    /\ faults < MaxFaults
    /\ faults' = faults + 1
    /\ \E part \in Parts({r}) : stored' = stored \cup part
    /\ run' = [run EXCEPT ![r] = Idle]
    /\ UNCHANGED <<chain, height, indexed, row, pending>>

\* The process stops and starts again: only the database survives.
Crash ==
    /\ faults < MaxFaults
    /\ \E r \in Runners : run[r].pc # "idle"
    /\ faults' = faults + 1
    /\ \E part \in Parts(Runners) : stored' = stored \cup part
    /\ run' = [r \in Runners |-> Idle]
    /\ UNCHANGED <<chain, height, indexed, row, pending>>

Step(r) ==
    \/ Initialise(r) \/ FetchNormal(r) \/ FetchInternal(r)
    \/ NarrowRecent(r) \/ CommitTip(r) \/ ClearOlder(r) \/ AdvanceOlder(r)
    \/ SavePending(r) \/ NextIteration(r)

Next ==
    \/ Mine \/ Index \/ Crash
    \/ \E r \in Runners : Start(r) \/ Step(r) \/ FailCall(r)

Spec == Init /\ [][Next]_vars

-----------------------------------------------------------------------------
\* Properties

\* Every variable has its type.
TypeOK ==
    /\ height \in Blocks /\ indexed \in height - Lag .. height
    /\ stored \subseteq chain
    /\ row \in [tip : Blocks \cup {None}, older : Blocks \cup {None}]
    /\ pending \in [start : Blocks, end : Blocks, tip : Blocks \cup {None}] \cup {NoRange}
    /\ pending # NoRange => pending.start <= pending.end

\* What a committed tip spares the next range: it starts one block below.
Spared(tip) == {i \in chain : i[2] < RangeStart(tip)}

\* No transaction below the next range is missing, although the tip and the
\* pages come from different moments, the index trails, two runners share
\* the rows and any of them may stop between two writes.
TipCovers == Spared(row.tip) \subseteq stored

\* A pending range is where a run may go on without missing anything: what lies
\* above it, up to the tip it will commit, and below it is stored already.
PendingCovers ==
    pending # NoRange =>
        /\ \A i \in chain : i[2] < pending.start => i \in stored
        /\ \A i \in Spared(pending.tip) : i[2] > pending.end => i \in stored

Crowded == \E i \in chain : Cardinality({j \in chain : j[1] = i[1] /\ j[2] = i[2]}) >= PageSize

Fairness ==
    /\ WF_vars(Index)
    /\ WF_vars(Start("auto") \/ Step("auto"))

FairSpec == Spec /\ Fairness

\* What the provider lists below the oldest tip the cache may hold is stored in
\* the end, run after run, unless a single block fills a page: a range that ends
\* in such a block fails for ever.
EverythingArrives ==
    []<>({i \in chain : i[2] <= height - Stale} \subseteq stored \/ Crowded)
=============================================================================
