------------------------ MODULE BitcoinHistoryProofs ------------------------
(***************************************************************************)
(* Proofs about BitcoinHistory, for any number of transactions, pages,     *)
(* iterations and faults.  A repair and sync control exclude each other    *)
(* because of who holds the lease (`Leases').  Unless sync control may     *)
(* run beside an ordinary automatic run, a contradiction is committed only *)
(* while the account's integration row is open (`Taints'), so that nobody  *)
(* reports the account complete.                                           *)
(***************************************************************************)
EXTENDS BitcoinHistory, TLAPS

-----------------------------------------------------------------------------
\* What a runner holds in memory

Fields == {"pc", "owner", "snap", "pendingIds", "early", "permitted", "state", "from", "page", "todo",
           "contradicted", "unavailable", "touched", "more", "failed", "left"}

RunShape == /\ DOMAIN run = Runners
            /\ \A r \in Runners : DOMAIN run[r] = Fields

\* Where an account is being visited: its integration row is open.
Visiting == {"gate", "stats", "proof", "prepare", "page", "reconcile", "invalidate", "advance",
             "conclude", "finalize", "success", "failure", "rebuild", "refresh"}
Running == Visiting \cup {"start", "finish"}

\* Runner r goes on, from one of some places to another, and keeps the lease
\* as it is.
Moves(r, from, to) ==
    /\ run[r].pc \in from
    /\ DOMAIN run' = Runners
    /\ \A q \in Runners \ {r} : run'[q] = run[q]
    /\ DOMAIN run'[r] = Fields
    /\ run'[r].owner = run[r].owner
    /\ run'[r].pc \in to
    /\ lease' = lease

\* ... and what its page contradicted, too.
MovesOn(r, from, to) == Moves(r, from, to) /\ run'[r].contradicted = run[r].contradicted

-----------------------------------------------------------------------------
\* How each action moves its runner

LEMMA IdleShape == DOMAIN Idle = Fields /\ Idle.pc = "idle"
BY DEF Idle, Fields

LEMMA ToMoves ==
  ASSUME NEW r \in Runners, NEW from, NEW pc, RunShape,
         run[r].pc \in from, To(r, pc), lease' = lease
  PROVE  MovesOn(r, from, {pc})
<1> SUFFICES DOMAIN run' = Runners /\ run' = [run EXCEPT ![r].pc = pc]
  BY SMT DEF MovesOn, Moves, To, RunShape, Fields
<1> QED BY DEF To, RunShape

LEMMA SkipVisitMoves ==
  ASSUME NEW r \in Runners, RunShape, SkipVisit(r)
  PROVE  MovesOn(r, {"gate"}, {"rebuild"}) /\ UNCHANGED <<acct, tainted>>
BY ToMoves DEF SkipVisit

LEMMA OpenAccountMoves ==
  ASSUME NEW r \in Runners, RunShape, OpenAccount(r)
  PROVE  MovesOn(r, {"start"}, {"gate"})
BY SMT DEF MovesOn, Moves, RunShape, Fields, OpenAccount

LEMMA BeginVisitMoves ==
  ASSUME NEW r \in Runners, RunShape, BeginVisit(r)
  PROVE  MovesOn(r, {"gate"}, {"stats", "page", "success"}) /\ UNCHANGED <<acct, tainted>>
BY SMT DEF MovesOn, Moves, RunShape, Fields, BeginVisit

LEMMA FetchStatsMoves ==
  ASSUME NEW r \in Runners, RunShape, FetchStats(r)
  PROVE  MovesOn(r, {"stats"}, {"proof"}) /\ UNCHANGED <<acct, tainted>>
<1>1. PICK state : run' = [run EXCEPT ![r].pc = "proof", ![r].state = state]
  BY DEF FetchStats
<1> QED BY SMT, <1>1 DEF MovesOn, Moves, RunShape, Fields, FetchStats

LEMMA SettleProofMoves ==
  ASSUME NEW r \in Runners, RunShape, SettleProof(r)
  PROVE  MovesOn(r, {"proof"}, {"prepare"}) /\ acct' = acct /\ tainted' \in {FALSE, tainted}
<1>1. run[r].pc = "proof" /\ UNCHANGED <<acct, lease>>
  BY DEF SettleProof
<1>2. tainted' \in {FALSE, tainted}
  BY Zenon DEF SettleProof, InvalidateCoverage
<1>3. \/ To(r, "prepare")
      \/ \E published : run' = [run EXCEPT ![r].pc = "prepare", ![r].state.published = published]
  BY Zenon DEF SettleProof
<1>4. CASE To(r, "prepare")
  BY <1>1, <1>2, <1>4, ToMoves
<1>5. ASSUME NEW published, run' = [run EXCEPT ![r].pc = "prepare", ![r].state.published = published]
      PROVE  MovesOn(r, {"proof"}, {"prepare"})
  BY SMT, <1>1, <1>5 DEF MovesOn, Moves, RunShape, Fields
<1> QED BY <1>1, <1>2, <1>3, <1>4, <1>5

LEMMA PrepareMoves ==
  ASSUME NEW r \in Runners, RunShape, Prepare(r)
  PROVE  MovesOn(r, {"prepare"}, {"success", "finalize", "page"}) /\ UNCHANGED <<acct, tainted>>
<1> DEFINE pc == CASE ~run[r].permitted -> "success"
                   [] run[r].permitted /\ ZeroStats(run[r]) -> "finalize"
                   [] OTHER -> "page"
<1>1. /\ run[r].pc = "prepare"
      /\ UNCHANGED <<lease, acct, tainted>>
      /\ \E state : run' = [run EXCEPT ![r].snap = Idle.snap, ![r].state = state, ![r].pc = pc]
  BY DEF Prepare
<1>2. pc \in {"success", "finalize", "page"}
  BY SMT
<1> HIDE DEF pc
<1>3. PICK state : run' = [run EXCEPT ![r].snap = Idle.snap, ![r].state = state, ![r].pc = pc]
  BY <1>1
<1>4. QED BY SMT, <1>1, <1>2, <1>3 DEF MovesOn, Moves, RunShape, Fields

LEMMA FetchPageMoves ==
  ASSUME NEW r \in Runners, RunShape, FetchPage(r)
  PROVE  /\ MovesOn(r, {"page"}, {"conclude", "finalize", "advance", "reconcile"})
         /\ UNCHANGED <<acct, tainted>>
<1>1. /\ run[r].pc = "page"
      /\ UNCHANGED <<lease, acct, tainted>>
      /\ \E from, page, txs, cursor, pc :
           /\ run' = [run EXCEPT ![r].from = from, ![r].page = page, ![r].todo = txs,
                                 ![r].state.cursor = cursor, ![r].pc = pc]
           /\ pc \in {"conclude", "finalize", "advance", "reconcile"}
  BY DEF FetchPage
<1>2. PICK from, page, txs, cursor, pc :
           /\ run' = [run EXCEPT ![r].from = from, ![r].page = page, ![r].todo = txs,
                                 ![r].state.cursor = cursor, ![r].pc = pc]
           /\ pc \in {"conclude", "finalize", "advance", "reconcile"}
  BY <1>1
<1> QED BY SMT, <1>1, <1>2 DEF MovesOn, Moves, RunShape, Fields

LEMMA ReconcileNextMoves ==
  ASSUME NEW r \in Runners, RunShape, ReconcileNext(r)
  PROVE  /\ Moves(r, {"reconcile"}, {"reconcile", "invalidate", "advance"})
         /\ acct' = acct
         /\ tainted' => tainted \/ run'[r].contradicted
         /\ run[r].contradicted => run'[r].contradicted
         /\ run'[r].pc = "advance" => ~run'[r].contradicted
<1> DEFINE next == run[r].contradicted
                     \/ Contradicts(stored[Max(run[r].todo)], run[r].page[Max(run[r].todo)])
<1> DEFINE todo == run[r].todo \ {Max(run[r].todo)}
           pc == CASE run[r].todo # {Max(run[r].todo)} -> "reconcile"
                   [] run[r].todo = {Max(run[r].todo)} /\ next -> "invalidate"
                   [] OTHER -> "advance"
<1>1. run[r].pc = "reconcile" /\ UNCHANGED <<lease, acct>> /\ (tainted' => tainted \/ next)
  BY DEF ReconcileNext
<1>2. run[r].contradicted => next
  OBVIOUS
<1>3. /\ run' = [run EXCEPT ![r].todo = todo, ![r].contradicted = next, ![r].pc = pc]
      /\ pc \in {"reconcile", "invalidate", "advance"}
      /\ pc = "advance" => ~next
  <2>1. run' = [run EXCEPT ![r].todo = todo, ![r].contradicted = next, ![r].pc = pc]
    BY DEF ReconcileNext
  <2>2. pc \in {"reconcile", "invalidate", "advance"} /\ (pc = "advance" => ~next)
    <3> HIDE DEF next
    <3> QED BY SMT
  <2> QED BY <2>1, <2>2
<1> HIDE DEF next, todo, pc
<1>4. Moves(r, {"reconcile"}, {"reconcile", "invalidate", "advance"})
  BY SMT, <1>1, <1>3 DEF Moves, RunShape, Fields
<1>5. run'[r].contradicted = next /\ run'[r].pc = pc
  BY SMT, <1>3 DEF RunShape, Fields
<1> QED BY <1>1, <1>2, <1>3, <1>4, <1>5

LEMMA InvalidatePageMoves ==
  ASSUME NEW r \in Runners, RunShape, InvalidatePage(r)
  PROVE  MovesOn(r, {"invalidate"}, {"advance"}) /\ acct' = acct /\ ~tainted'
BY ToMoves DEF InvalidatePage, InvalidateCoverage

LEMMA AdvanceCursorMoves ==
  ASSUME NEW r \in Runners, RunShape, AdvanceCursor(r)
  PROVE  MovesOn(r, {"advance"}, {"conclude"}) /\ UNCHANGED <<acct, tainted>>
<1>1. /\ run[r].pc = "advance"
      /\ UNCHANGED <<lease, acct, tainted>>
      /\ \E state : run' = [run EXCEPT ![r].state = state, ![r].pc = "conclude"]
  BY DEF AdvanceCursor
<1>2. PICK state : run' = [run EXCEPT ![r].state = state, ![r].pc = "conclude"]
  BY <1>1
<1> QED BY SMT, <1>1, <1>2 DEF MovesOn, Moves, RunShape, Fields

LEMMA PublishStrictMoves ==
  ASSUME NEW r \in Runners, RunShape, PublishStrict(r)
  PROVE  MovesOn(r, {"conclude"}, {"finalize"}) /\ UNCHANGED <<acct, tainted>>
<1>1. /\ run[r].pc = "conclude"
      /\ UNCHANGED <<lease, acct, tainted>>
      /\ run' = [run EXCEPT ![r].state.published = TRUE, ![r].state.cursor = 0,
                            ![r].more = FALSE, ![r].pc = "finalize"]
  BY DEF PublishStrict
<1> QED BY SMT, <1>1 DEF MovesOn, Moves, RunShape, Fields

LEMMA RestartStrictMoves ==
  ASSUME NEW r \in Runners, RunShape, RestartStrict(r)
  PROVE  MovesOn(r, {"conclude"}, {"failure"}) /\ UNCHANGED <<acct, tainted>>
BY ToMoves DEF RestartStrict

LEMMA PublishProofMoves ==
  ASSUME NEW r \in Runners, RunShape, PublishProof(r)
  PROVE  MovesOn(r, {"conclude"}, {"finalize"}) /\ UNCHANGED <<acct, tainted>>
<1>1. /\ run[r].pc = "conclude"
      /\ UNCHANGED <<lease, acct, tainted>>
      /\ run' = [run EXCEPT ![r].state.published = TRUE, ![r].more = FALSE, ![r].pc = "finalize"]
  BY DEF PublishProof
<1> QED BY SMT, <1>1 DEF MovesOn, Moves, RunShape, Fields

LEMMA PassPageMoves ==
  ASSUME NEW r \in Runners, RunShape, PassPage(r)
  PROVE  MovesOn(r, {"conclude"}, {"finalize"}) /\ UNCHANGED <<acct, tainted>>
<1>1. /\ run[r].pc = "conclude"
      /\ UNCHANGED <<lease, acct, tainted>>
      /\ \E more : run' = [run EXCEPT ![r].more = more, ![r].pc = "finalize"]
  BY DEF PassPage
<1>2. PICK more : run' = [run EXCEPT ![r].more = more, ![r].pc = "finalize"]
  BY <1>1
<1> QED BY SMT, <1>1, <1>2 DEF MovesOn, Moves, RunShape, Fields

LEMMA FinalizeMoves ==
  ASSUME NEW r \in Runners, RunShape, Finalize(r)
  PROVE  MovesOn(r, {"finalize"}, {"success"}) /\ UNCHANGED <<acct, tainted>>
BY ToMoves DEF Finalize

LEMMA MarkSuccessMoves ==
  ASSUME NEW r \in Runners, RunShape, MarkSuccess(r)
  PROVE  MovesOn(r, {"success"}, {"rebuild"}) /\ UNCHANGED <<acct, tainted>>
<1>1. /\ run[r].pc = "success"
      /\ UNCHANGED <<lease, acct, tainted>>
      /\ \E state, unavailable, touched :
           run' = [run EXCEPT ![r].state = state, ![r].unavailable = unavailable,
                              ![r].touched = touched, ![r].pc = "rebuild"]
  BY DEF MarkSuccess
<1>2. PICK state, unavailable, touched :
           run' = [run EXCEPT ![r].state = state, ![r].unavailable = unavailable,
                              ![r].touched = touched, ![r].pc = "rebuild"]
  BY <1>1
<1> QED BY SMT, <1>1, <1>2 DEF MovesOn, Moves, RunShape, Fields

LEMMA FailCallMoves ==
  ASSUME NEW r \in Runners, RunShape, FailCall(r)
  PROVE  MovesOn(r, {"stats", "page", "reconcile"}, {"failure"}) /\ UNCHANGED <<acct, tainted>>
BY ToMoves DEF FailCall

LEMMA MarkFailureMoves ==
  ASSUME NEW r \in Runners, RunShape, MarkFailure(r)
  PROVE  /\ MovesOn(r, {"failure"}, {"rebuild"})
         /\ acct' = acct
         /\ IF run[r].contradicted THEN ~tainted' ELSE tainted' = tainted
<1>1. /\ run[r].pc = "failure"
      /\ UNCHANGED <<lease, acct>>
      /\ IF run[r].contradicted THEN ~tainted' ELSE tainted' = tainted
      /\ \E unavailable, touched :
           run' = [run EXCEPT ![r].state = NoState, ![r].failed = TRUE, ![r].unavailable = unavailable,
                              ![r].touched = touched, ![r].pc = "rebuild"]
  BY DEF MarkFailure, Carries
<1>2. PICK unavailable, touched :
           run' = [run EXCEPT ![r].state = NoState, ![r].failed = TRUE, ![r].unavailable = unavailable,
                              ![r].touched = touched, ![r].pc = "rebuild"]
  BY <1>1
<1> QED BY SMT, <1>1, <1>2 DEF MovesOn, Moves, RunShape, Fields

LEMMA RebuildLedgerMoves ==
  ASSUME NEW r \in Runners, RunShape, RebuildLedger(r)
  PROVE  MovesOn(r, {"rebuild"}, {"refresh"}) /\ UNCHANGED <<acct, tainted>>
<1>1. /\ run[r].pc = "rebuild"
      /\ UNCHANGED <<lease, acct, tainted>>
      /\ To(r, "refresh")
  BY DEF RebuildLedger, To
<1> QED BY <1>1, ToMoves

LEMMA RefreshAccountMoves ==
  ASSUME NEW r \in Runners, RunShape, RefreshAccount(r)
  PROVE  Moves(r, {"refresh"}, {"finish"}) /\ tainted' = tainted
BY SMT DEF Moves, RunShape, Fields, Idle, RefreshAccount

LEMMA NextIterationMoves ==
  ASSUME Manual, RunShape, NextIteration
  PROVE  /\ "manual" \in Runners
         /\ MovesOn("manual", {"finish"}, {"start"})
         /\ UNCHANGED <<acct, tainted>>
<1>1. "manual" \in Runners
  BY DEF Runners
<1>2. /\ run["manual"].pc = "finish"
      /\ UNCHANGED <<lease, acct, tainted>>
      /\ run' = [run EXCEPT !["manual"].pc = "start", !["manual"].snap = Snapshot, !["manual"].left = @ - 1]
  BY DEF NextIteration
<1> QED BY SMT, <1>1, <1>2 DEF MovesOn, Moves, RunShape, Fields

\* Every action of a run moves one runner among the places of a running run.
LEMMA RunnerMoves ==
  ASSUME NEW r \in Runners, RunShape, Step(r) \/ SkipVisit(r) \/ FailCall(r)
  PROVE  Moves(r, Running, Running)
<1> USE DEF Moves, MovesOn, Running, Visiting
<1>1. CASE OpenAccount(r)     BY <1>1, OpenAccountMoves
<1>2. CASE BeginVisit(r)      BY <1>2, BeginVisitMoves
<1>3. CASE FetchStats(r)      BY <1>3, FetchStatsMoves
<1>4. CASE SettleProof(r)     BY <1>4, SettleProofMoves
<1>5. CASE Prepare(r)         BY <1>5, PrepareMoves
<1>6. CASE FetchPage(r)       BY <1>6, FetchPageMoves
<1>7. CASE ReconcileNext(r)   BY <1>7, ReconcileNextMoves
<1>8. CASE InvalidatePage(r)  BY <1>8, InvalidatePageMoves
<1>9. CASE AdvanceCursor(r)   BY <1>9, AdvanceCursorMoves
<1>10. CASE PublishStrict(r)  BY <1>10, PublishStrictMoves
<1>11. CASE RestartStrict(r)  BY <1>11, RestartStrictMoves
<1>12. CASE PublishProof(r)   BY <1>12, PublishProofMoves
<1>13. CASE PassPage(r)       BY <1>13, PassPageMoves
<1>14. CASE Finalize(r)       BY <1>14, FinalizeMoves
<1>15. CASE MarkSuccess(r)    BY <1>15, MarkSuccessMoves
<1>16. CASE MarkFailure(r)    BY <1>16, MarkFailureMoves
<1>17. CASE RebuildLedger(r)  BY <1>17, RebuildLedgerMoves
<1>18. CASE RefreshAccount(r) BY <1>18, RefreshAccountMoves
<1>19. CASE SkipVisit(r)      BY <1>19, SkipVisitMoves
<1>20. CASE FailCall(r)       BY <1>20, FailCallMoves
<1> QED
  BY <1>1, <1>2, <1>3, <1>4, <1>5, <1>6, <1>7, <1>8, <1>9, <1>10, <1>11, <1>12, <1>13, <1>14,
     <1>15, <1>16, <1>17, <1>18, <1>19, <1>20 DEF Step

-----------------------------------------------------------------------------
\* Who holds the lease

\* A repair and sync control hold the lease while they run, and without
\* Overlap only one runner is active.
Leases ==
    /\ RunShape
    /\ Active("auto") /\ run["auto"].owner => lease = "auto"
    /\ Active("manual") => lease = "manual"
    /\ ~Overlap => ~(Active("auto") /\ Active("manual"))

LEMMA RunnersAre == "auto" \in Runners /\ Runners \subseteq {"auto", "manual"}
                    /\ (Manual => "manual" \in Runners)
BY DEF Runners

LEMMA LeasesInit == Init => Leases
<1> SUFFICES ASSUME Init PROVE Leases
  OBVIOUS
<1>1. run = [r \in Runners |-> Idle]
  BY DEF Init
<1> QED BY <1>1, IdleShape, RunnersAre DEF Leases, RunShape, Active

\* A runner that goes on disturbs nothing.
LEMMA MovesKeepLeases ==
  ASSUME NEW r \in Runners, Leases, Moves(r, Running, Running)
  PROVE  Leases'
<1>1. DOMAIN run' = Runners /\ \A q \in Runners : DOMAIN run'[q] = Fields
  BY DEF Leases, RunShape, Moves
<1>2. \A q \in Runners : Active(q)' => Active(q) /\ run'[q].owner = run[q].owner
  BY DEF Moves, Active, Running, Visiting
<1>3. lease' = lease
  BY DEF Moves
<1>4. Active("auto")' => Active("auto") /\ run'["auto"].owner = run["auto"].owner
  BY <1>2, RunnersAre
<1>5. Active("manual")' => Active("manual")
  BY <1>2 DEF Active
<1> QED BY <1>1, <1>3, <1>4, <1>5 DEF Leases, RunShape

LEMMA StartAutomaticLeases == Leases /\ StartAutomatic => Leases'
<1> SUFFICES ASSUME Leases, StartAutomatic PROVE Leases'
  OBVIOUS
<1>1. /\ run["auto"].pc = "idle" /\ lease = "free"
      /\ lease' = IF RepairOwnsAccount THEN "auto" ELSE "free"
  BY DEF StartAutomatic
<1>2. ~Active("manual")
  BY <1>1 DEF Leases
<1>3. /\ DOMAIN run' = Runners /\ \A q \in Runners : DOMAIN run'[q] = Fields
      /\ \A q \in Runners \ {"auto"} : run'[q] = run[q]
      /\ run'["auto"].owner <=> RepairOwnsAccount
  BY SMT, RunnersAre DEF StartAutomatic, Leases, RunShape, Idle, Fields
<1>4. ~Active("manual")'
  BY <1>2, <1>3 DEF Active
<1> QED BY <1>1, <1>3, <1>4 DEF Leases, RunShape

LEMMA StartManualLeases == Leases /\ Manual /\ StartManual => Leases'
<1> SUFFICES ASSUME Leases, Manual, StartManual PROVE Leases'
  OBVIOUS
<1>1. /\ lease = "free" /\ lease' = "manual"
      /\ Overlap \/ run["auto"].pc = "idle" \/ run["auto"].owner
  BY DEF StartManual
<1>2. ~(Active("auto") /\ run["auto"].owner) /\ (~Overlap => ~Active("auto"))
  BY <1>1 DEF Leases, Active
<1>3. /\ DOMAIN run' = Runners /\ \A q \in Runners : DOMAIN run'[q] = Fields
      /\ run'["auto"] = run["auto"]
  BY SMT, RunnersAre DEF StartManual, Leases, RunShape, Idle, Fields
<1>4. Active("auto")' <=> Active("auto")
  BY <1>3 DEF Active
<1> QED BY <1>1, <1>2, <1>3, <1>4 DEF Leases, RunShape

LEMMA FinishManualLeases == Leases /\ Manual /\ FinishManual => Leases'
<1> SUFFICES ASSUME Leases, Manual, FinishManual PROVE Leases'
  OBVIOUS
<1>1. run["manual"].pc = "finish" /\ run' = [run EXCEPT !["manual"] = Idle]
  BY DEF FinishManual
<1>2. Active("manual") /\ lease = "manual"
  BY <1>1, RunnersAre DEF Leases, Active
<1>3. /\ DOMAIN run' = Runners /\ \A q \in Runners : DOMAIN run'[q] = Fields
      /\ run'["auto"] = run["auto"] /\ run'["manual"].pc = "idle"
  BY <1>1, IdleShape, RunnersAre DEF Leases, RunShape
<1>4. ~(Active("auto")' /\ run'["auto"].owner) /\ ~Active("manual")'
  BY <1>2, <1>3 DEF Leases, Active
<1> QED BY <1>3, <1>4 DEF Leases, RunShape

LEMMA FinishAutomaticLeases == Leases /\ FinishAutomatic => Leases'
<1> SUFFICES ASSUME Leases, FinishAutomatic PROVE Leases'
  OBVIOUS
<1>1. /\ run["auto"].pc = "finish" /\ run' = [run EXCEPT !["auto"] = Idle]
      /\ lease' = IF run["auto"].owner THEN "free" ELSE lease
  BY DEF FinishAutomatic
<1>2. Active("auto")
  BY <1>1, RunnersAre DEF Active
<1>3. /\ DOMAIN run' = Runners /\ \A q \in Runners : DOMAIN run'[q] = Fields
      /\ \A q \in Runners \ {"auto"} : run'[q] = run[q]
      /\ run'["auto"].pc = "idle"
  BY <1>1, IdleShape, RunnersAre DEF Leases, RunShape
<1>4. ~Active("auto")' /\ (Active("manual")' => Active("manual"))
  BY <1>3 DEF Active
<1>5. Active("manual") => ~run["auto"].owner
  BY <1>2 DEF Leases
<1> QED BY <1>1, <1>3, <1>4, <1>5 DEF Leases, RunShape

LEMMA CrashLeases == Leases /\ Crash => Leases'
<1> SUFFICES ASSUME Leases, Crash PROVE Leases'
  OBVIOUS
<1>1. run' = [r \in Runners |-> Idle]
  BY DEF Crash
<1> QED BY <1>1, IdleShape, RunnersAre DEF Leases, RunShape, Active

LEMMA LeasesNext == Leases /\ [Next]_vars => Leases'
<1> SUFFICES ASSUME Leases, [Next]_vars PROVE Leases'
  OBVIOUS
<1>1. ASSUME NEW r \in Runners, Step(r) \/ SkipVisit(r) \/ FailCall(r) PROVE Leases'
  BY <1>1, RunnerMoves, MovesKeepLeases DEF Leases
<1>2. CASE Manual /\ NextIteration
  <2>1. "manual" \in Runners /\ Moves("manual", Running, Running)
    BY <1>2, NextIterationMoves DEF Leases, MovesOn, Moves, Running
  <2> QED BY <2>1, MovesKeepLeases
<1>3. CASE StartAutomatic           BY <1>3, StartAutomaticLeases
<1>4. CASE FinishAutomatic          BY <1>4, FinishAutomaticLeases
<1>5. CASE Manual /\ StartManual    BY <1>5, StartManualLeases
<1>6. CASE Manual /\ FinishManual   BY <1>6, FinishManualLeases
<1>7. CASE Crash                    BY <1>7, CrashLeases
<1>8. CASE UNCHANGED <<run, lease>>
  BY <1>8 DEF Leases, RunShape, Active
<1>9. Broadcast \/ Confirm \/ Reorganise \/ Upgrade \/ UNCHANGED vars => UNCHANGED <<run, lease>>
  BY DEF Broadcast, Confirm, Reorganise, Upgrade, vars
<1> QED
  BY <1>1, <1>2, <1>3, <1>4, <1>5, <1>6, <1>7, <1>8, <1>9 DEF Next

\* The lease is held by whoever must not be disturbed: automatic.rs keeps it for
\* a repair only, manual_control.rs for the whole request.
THEOREM LeasesHold == Spec => []Leases
<1> QED BY LeasesInit, LeasesNext, PTL DEF Spec

\* While an automatic run repairs the account, no sync control runs: the lease
\* excludes it in every order of arrival, crashes included.
THEOREM RepairAlone == Spec => []RepairRunsAlone
<1>1. Leases => RepairRunsAlone
  BY DEF Leases, RepairRunsAlone
<1> QED BY <1>1, LeasesHold, PTL

-----------------------------------------------------------------------------
\* Where a contradiction may be pending

\* An uninvalidated contradiction exists only while the account's integration
\* row is open: in the runner that carries it to the step that invalidates, or
\* after a crash, until the next run recovers the account.
Taints ==
    /\ DOMAIN acct = {"open", "result"}
    /\ \A r \in Runners : run[r].pc \in Visiting => acct.open
    /\ tainted => acct.open
    /\ tainted =>
         \A r \in Runners :
            \/ run[r].pc \in {"idle", "start"}
            \/ run[r].pc \in {"reconcile", "invalidate", "failure"} /\ run[r].contradicted

LEMMA TaintsInit == Init => Taints
<1> SUFFICES ASSUME Init PROVE Taints
  OBVIOUS
<1>1. run = [r \in Runners |-> Idle] /\ ~tainted
  BY DEF Init
<1>2. \E result : acct = [open |-> FALSE, result |-> result]
  BY DEF Init
<1>3. DOMAIN acct = {"open", "result"}
  BY <1>2
<1> QED BY <1>1, <1>3, IdleShape DEF Taints, Visiting

\* Of two runners one is idle.
LEMMA OthersIdle ==
  ASSUME ~Overlap, Leases, NEW r \in Runners, run[r].pc # "idle"
  PROVE  \A q \in Runners \ {r} : run[q].pc = "idle"
BY RunnersAre DEF Leases, Active

\* A visit that goes on, with nothing pending afterwards.
LEMMA CleanStep ==
  ASSUME ~Overlap, Leases, Taints, NEW r \in Runners, NEW to,
         Moves(r, Visiting, to), acct' = acct, ~tainted'
  PROVE  Taints'
<1>1. run[r].pc # "idle" /\ acct.open
  BY DEF Moves, Visiting, Taints
<1> QED BY <1>1 DEF Taints

\* Where nothing is pending.
LEMMA NothingPending ==
  ASSUME Taints, NEW r \in Runners,
         run[r].pc \notin {"idle", "start", "reconcile", "invalidate", "failure"}
  PROVE  ~tainted
BY DEF Taints

\* The steps of a visit that write neither transactions nor invalidations.
LEMMA CalmStep ==
  ASSUME ~Overlap, Leases, Taints, NEW r \in Runners, NEW from, NEW to,
         Moves(r, from, to), acct' = acct, tainted' \in {FALSE, tainted},
         from \subseteq Visiting \ {"reconcile", "invalidate", "failure"}
  PROVE  Taints'
<1>1. run[r].pc \in Visiting \ {"reconcile", "invalidate", "failure"}
  BY DEF Moves
<1>2. ~tainted'
  BY <1>1, NothingPending DEF Visiting
<1>3. Moves(r, Visiting, to)
  BY <1>1 DEF Moves
<1> QED BY <1>2, <1>3, CleanStep

LEMMA OpenAccountTaints ==
  ASSUME ~Overlap, Leases, Taints, NEW r \in Runners, OpenAccount(r)
  PROVE  Taints'
<1>1. Moves(r, {"start"}, {"gate"})
  BY OpenAccountMoves DEF Leases, MovesOn
<1>2. ~tainted'
  <2>1. CASE acct.open
    BY <2>1 DEF OpenAccount, InvalidateCoverage
  <2>2. CASE ~acct.open
    BY <2>2 DEF OpenAccount, Taints
  <2> QED BY <2>1, <2>2
<1>3. \A q \in Runners \ {r} : run'[q].pc = "idle"
  BY <1>1, OthersIdle DEF Moves
<1>4. acct' = [acct EXCEPT !.open = TRUE] /\ DOMAIN acct = {"open", "result"}
  BY DEF OpenAccount, Taints
<1>5. acct'.open /\ DOMAIN acct' = {"open", "result"}
  BY <1>4
<1> QED BY <1>1, <1>2, <1>3, <1>5 DEF Taints, Moves, Visiting

LEMMA ReconcileTaints ==
  ASSUME ~Overlap, Leases, Taints, NEW r \in Runners, ReconcileNext(r)
  PROVE  Taints'
<1>1. /\ Moves(r, {"reconcile"}, {"reconcile", "invalidate", "advance"})
      /\ acct' = acct
      /\ tainted' => tainted \/ run'[r].contradicted
      /\ run[r].contradicted => run'[r].contradicted
      /\ run'[r].pc = "advance" => ~run'[r].contradicted
  BY ReconcileNextMoves DEF Leases
<1>2. run[r].pc = "reconcile"
  BY <1>1 DEF Moves
<1>3. acct.open
  BY <1>2 DEF Taints, Visiting
<1>4. \A q \in Runners \ {r} : run'[q].pc = "idle"
  BY <1>1, <1>2, OthersIdle DEF Moves
<1>5. tainted => run[r].contradicted
  BY <1>2 DEF Taints
<1>6. tainted' => run'[r].contradicted /\ run'[r].pc \in {"reconcile", "invalidate"}
  BY <1>1, <1>5 DEF Moves
<1>7. DOMAIN acct' = {"open", "result"} /\ acct'.open
  BY <1>1, <1>3 DEF Taints
<1> QED BY <1>4, <1>6, <1>7 DEF Taints

LEMMA FailCallTaints ==
  ASSUME ~Overlap, Leases, Taints, NEW r \in Runners, FailCall(r)
  PROVE  Taints'
<1>1. MovesOn(r, {"stats", "page", "reconcile"}, {"failure"}) /\ UNCHANGED <<acct, tainted>>
  BY FailCallMoves DEF Leases
<1>2. run[r].pc \in {"stats", "page", "reconcile"} /\ run'[r].pc = "failure"
      /\ run'[r].contradicted = run[r].contradicted
  BY <1>1 DEF MovesOn, Moves
<1>3. acct.open
  BY <1>2 DEF Taints, Visiting
<1>4. \A q \in Runners \ {r} : run'[q].pc = "idle"
  BY <1>1, <1>2, OthersIdle DEF MovesOn, Moves
<1>5. tainted => run[r].contradicted
  BY <1>2 DEF Taints
<1> QED BY <1>1, <1>2, <1>3, <1>4, <1>5 DEF Taints

LEMMA MarkFailureTaints ==
  ASSUME ~Overlap, Leases, Taints, NEW r \in Runners, MarkFailure(r)
  PROVE  Taints'
<1>1. /\ Moves(r, {"failure"}, {"rebuild"}) /\ acct' = acct
      /\ IF run[r].contradicted THEN ~tainted' ELSE tainted' = tainted
  BY MarkFailureMoves DEF Leases, MovesOn
<1>2. run[r].pc = "failure"
  BY <1>1 DEF Moves
<1>3. ~tainted'
  BY <1>1, <1>2 DEF Taints
<1>4. Moves(r, Visiting, {"rebuild"})
  BY <1>1 DEF Moves, Visiting
<1> QED BY <1>1, <1>3, <1>4, CleanStep

LEMMA RefreshTaints ==
  ASSUME ~Overlap, Leases, Taints, NEW r \in Runners, RefreshAccount(r)
  PROVE  Taints'
<1>1. Moves(r, {"refresh"}, {"finish"}) /\ tainted' = tainted
  BY RefreshAccountMoves DEF Leases
<1>2. run[r].pc = "refresh" /\ run'[r].pc = "finish"
  BY <1>1 DEF Moves
<1>3. ~tainted'
  BY <1>1, <1>2, NothingPending
<1>4. \A q \in Runners \ {r} : run'[q].pc = "idle"
  BY <1>1, <1>2, OthersIdle DEF Moves
<1>5. DOMAIN acct' = {"open", "result"}
  <2>1. acct' = IF row.open THEN acct ELSE [open |-> FALSE, result |-> row.result]
    BY DEF RefreshAccount
  <2> QED BY <2>1 DEF Taints
<1> QED BY <1>2, <1>3, <1>4, <1>5 DEF Taints, Visiting

LEMMA TaintsNext == ~Overlap /\ Leases /\ Taints /\ [Next]_vars => Taints'
<1> SUFFICES ASSUME ~Overlap, Leases, Taints, [Next]_vars PROVE Taints'
  OBVIOUS
<1>1. ASSUME NEW r \in Runners, Step(r) \/ SkipVisit(r) \/ FailCall(r) PROVE Taints'
  <2> RunShape
    BY DEF Leases
  <2> USE DEF MovesOn, Visiting
  <2>1. CASE OpenAccount(r)    BY <2>1, OpenAccountTaints
  <2>2. CASE BeginVisit(r)     BY <2>2, BeginVisitMoves, CalmStep
  <2>3. CASE FetchStats(r)     BY <2>3, FetchStatsMoves, CalmStep
  <2>4. CASE SettleProof(r)    BY <2>4, SettleProofMoves, CalmStep
  <2>5. CASE Prepare(r)        BY <2>5, PrepareMoves, CalmStep
  <2>6. CASE FetchPage(r)      BY <2>6, FetchPageMoves, CalmStep
  <2>7. CASE ReconcileNext(r)  BY <2>7, ReconcileTaints
  <2>8. CASE InvalidatePage(r)
    <3>1. Moves(r, {"invalidate"}, {"advance"}) /\ acct' = acct /\ ~tainted'
      BY <2>8, InvalidatePageMoves
    <3>2. Moves(r, Visiting, {"advance"})
      BY <3>1 DEF Moves
    <3> QED BY <3>1, <3>2, CleanStep
  <2>9. CASE AdvanceCursor(r)  BY <2>9, AdvanceCursorMoves, CalmStep
  <2>10. CASE PublishStrict(r) BY <2>10, PublishStrictMoves, CalmStep
  <2>11. CASE RestartStrict(r) BY <2>11, RestartStrictMoves, CalmStep
  <2>12. CASE PublishProof(r)  BY <2>12, PublishProofMoves, CalmStep
  <2>13. CASE PassPage(r)      BY <2>13, PassPageMoves, CalmStep
  <2>14. CASE Finalize(r)      BY <2>14, FinalizeMoves, CalmStep
  <2>15. CASE MarkSuccess(r)   BY <2>15, MarkSuccessMoves, CalmStep
  <2>16. CASE MarkFailure(r)   BY <2>16, MarkFailureTaints
  <2>17. CASE RebuildLedger(r) BY <2>17, RebuildLedgerMoves, CalmStep
  <2>18. CASE RefreshAccount(r) BY <2>18, RefreshTaints
  <2>19. CASE SkipVisit(r)     BY <2>19, SkipVisitMoves, CalmStep
  <2>20. CASE FailCall(r)      BY <2>20, FailCallTaints
  <2> QED
    BY <1>1, <2>1, <2>2, <2>3, <2>4, <2>5, <2>6, <2>7, <2>8, <2>9, <2>10, <2>11, <2>12, <2>13,
       <2>14, <2>15, <2>16, <2>17, <2>18, <2>19, <2>20 DEF Step
<1>2. ASSUME NEW r \in Runners, UNCHANGED <<acct, tainted>>,
             \A q \in Runners \ {r} : run'[q] = run[q],
             run'[r].pc \in {"idle", "start"}
      PROVE  Taints'
  BY <1>2 DEF Taints, Visiting
<1>3. CASE Manual /\ NextIteration
  <2>1. /\ "manual" \in Runners /\ MovesOn("manual", {"finish"}, {"start"})
        /\ UNCHANGED <<acct, tainted>>
    BY <1>3, NextIterationMoves DEF Leases
  <2> QED BY <1>2, <2>1 DEF MovesOn, Moves
<1>4. CASE StartAutomatic
  <2>1. /\ UNCHANGED <<acct, tainted>> /\ \A q \in Runners \ {"auto"} : run'[q] = run[q]
        /\ run'["auto"].pc = "start"
    BY SMT, <1>4, RunnersAre DEF StartAutomatic, Leases, RunShape, Idle, Fields
  <2> QED BY <1>2, <2>1, RunnersAre
<1>5. CASE Manual /\ StartManual
  <2>1. /\ UNCHANGED <<acct, tainted>> /\ \A q \in Runners \ {"manual"} : run'[q] = run[q]
        /\ run'["manual"].pc = "start"
    BY SMT, <1>5, RunnersAre DEF StartManual, Leases, RunShape, Idle, Fields
  <2> QED BY <1>2, <1>5, <2>1, RunnersAre
<1>6. CASE FinishAutomatic
  <2>1. UNCHANGED <<acct, tainted>> /\ run' = [run EXCEPT !["auto"] = Idle]
    BY <1>6 DEF FinishAutomatic
  <2>2. run'["auto"].pc = "idle" /\ \A q \in Runners \ {"auto"} : run'[q] = run[q]
    BY <2>1, RunnersAre, IdleShape DEF Leases, RunShape
  <2> QED BY <1>2, <2>1, <2>2, RunnersAre
<1>7. CASE Manual /\ FinishManual
  <2>1. UNCHANGED <<acct, tainted>> /\ run' = [run EXCEPT !["manual"] = Idle]
    BY <1>7 DEF FinishManual
  <2>2. run'["manual"].pc = "idle" /\ \A q \in Runners \ {"manual"} : run'[q] = run[q]
    BY <1>7, <2>1, RunnersAre, IdleShape DEF Leases, RunShape
  <2> QED BY <1>2, <1>7, <2>1, <2>2, RunnersAre
<1>8. CASE Crash
  <2>1. run' = [r \in Runners |-> Idle] /\ UNCHANGED <<acct, tainted>>
    BY <1>8 DEF Crash
  <2> QED BY <2>1, IdleShape DEF Taints, Visiting
<1>9. CASE UNCHANGED <<run, acct, tainted>>
  BY <1>9 DEF Taints
<1>10. Broadcast \/ Confirm \/ Reorganise \/ Upgrade \/ UNCHANGED vars => UNCHANGED <<run, acct, tainted>>
  BY DEF Broadcast, Confirm, Reorganise, Upgrade, vars
<1> QED
  BY <1>1, <1>3, <1>4, <1>5, <1>6, <1>7, <1>8, <1>9, <1>10 DEF Next

\* An account is never reported complete while a contradiction of its history
\* waits for its invalidation, unless sync control runs beside an automatic run.
THEOREM ContradictionsUnreported ==
  ASSUME ~Overlap
  PROVE  Spec => []NoContradictionReported
<1>1. Taints => NoContradictionReported
  BY DEF Taints, NoContradictionReported, Complete, IntegrationSuccess
<1>2. Leases /\ Taints /\ [Next]_vars => Taints'
  BY TaintsNext
<1> QED BY <1>1, <1>2, TaintsInit, LeasesHold, PTL DEF Spec
=============================================================================
