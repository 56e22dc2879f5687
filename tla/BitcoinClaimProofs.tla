------------------------- MODULE BitcoinClaimProofs -------------------------
(***************************************************************************)
(* What a published history proof stands on, for any number of             *)
(* transactions, pages, iterations and faults.  `Grounded' needs the       *)
(* address to change only outside a visit's statistics and first page      *)
(* (Quiet) and sync control not to run beside an automatic run (~Overlap), *)
(* and makes every proof a claim over stored, confirmed transactions.      *)
(* `LedgerKept' makes the ledger of an account that is reported complete   *)
(* follow its confirmed history.                                           *)
(***************************************************************************)
EXTENDS BitcoinBoundsProofs

-----------------------------------------------------------------------------
\* What a proof stands on

Clean(state) == state.active /\ ~state.waiting

\* The address has one transaction and a proof counts it.
Single == Height = 1 /\ row.proof = 1

Proved(n) == n # None => 1 .. n \subseteq ConfirmedTxs

\* The snapshot of the address that a visit compares with the statistics.
SnapSound(r) ==
    LET me == run[r]
    IN  /\ Proved(me.snap.proof)
        /\ row.cursor = me.snap.cursor
        /\ me.pc # "prepare" => row.proof \in {None, me.snap.proof}
        /\ me.pc = "prepare" => row.proof \in {None, 0, me.snap.proof}
        /\ ~me.owner /\ Height = 1 => ~(me.snap.cursor = 1 /\ me.snap.proof = 1)

\* The statistics are those of the address as it is.
Fresh(r) ==
    LET me == run[r]
    IN  /\ me.state.expected = provider.confirmed
        /\ provider.pending => me.state.waiting

\* What a visit has observed: of a clean state, transactions that are stored,
\* confirmed and counted by the statistics.
Observed(r) ==
    LET me == run[r]
    IN  Clean(me.state) =>
            /\ me.state.observed \subseteq 1 .. me.state.expected
            /\ me.state.observed \subseteq ConfirmedTxs
            /\ me.state.cursor <= me.state.expected

PageHeld(r) ==
    LET me == run[r]
    IN  /\ \A t \in DOMAIN me.page : me.page[t] = "pending" => t > row.proof
        /\ \A t \in DOMAIN me.page \ me.todo : stored[t] = me.page[t]
        /\ me.pc # "reconcile" => me.todo = {}
        /\ Clean(me.state) =>
              /\ PageConfirmed(me) \cup me.state.observed \subseteq 1 .. me.state.expected
              /\ PageConfirmed(me) = DOMAIN me.page => me.state.observed \subseteq ConfirmedTxs

\* A visit that is not a repair, of an address with a single, proved transaction,
\* reaches the expected count, or exits early, with its first page.
EndsAtOnce(r) ==
    LET me == run[r]
    IN  /\ ~me.state.waiting /\ me.state.allowed /\ ~me.state.strict
        /\ me.state.active => 1 \in me.state.observed
        /\ ~me.state.active => me.early /\ 1 \in me.state.known

\* Who repairs, and who keeps a state for the next iteration.
Owned(r) ==
    LET me == run[r]
    IN  /\ me.owner => r = "auto" /\ repair = "pending"
        /\ me.state.strict => me.owner
        /\ r = "auto" /\ me.pc \in {"start", "gate"} => ~me.state.live

Compared(r) ==
    LET me == run[r]
    IN  /\ me.pc \in {"start", "gate", "stats", "proof", "prepare"} => SnapSound(r)
        /\ me.pc \in {"proof", "prepare"} => Fresh(r) /\ me.state.waiting = provider.pending
                                               /\ ~me.state.active

\* What the statistics count.
Counted(r) ==
    LET me == run[r]
    IN  /\ me.pc \in {"proof", "prepare", "page", "reconcile", "invalidate", "advance", "conclude"} => me.state.live
        /\ me.state.live => me.state.expected <= Height
        /\ me.state.live /\ me.pc # "proof" => row.proof <= me.state.expected

\* The pages of a visit.
Paged(r) ==
    LET me == run[r]
    IN  /\ me.pc = "page" => Fresh(r) \/ (me.state.firstDone /\ ~me.owner /\ ~Single)
        /\ me.state.live /\ me.pc \in Between \cup {"page", "conclude", "finalize", "success"} => Observed(r)
        /\ me.pc \in {"reconcile", "invalidate", "advance"} => PageHeld(r)
        /\ me.pc = "conclude" /\ ~me.state.strict =>
              /\ ExpectedReached(me.state) => row.cursor = 0
              /\ me.state.cursor # 0 => PageConfirmed(me) # {}

\* A visit of an address with a single, proved transaction.
SingleVisit(r) ==
    LET me == run[r]
    IN  ~me.owner /\ Single =>
            /\ me.pc \in {"page", "reconcile", "invalidate", "advance", "conclude"} => EndsAtOnce(r)
            /\ me.pc = "page" => ~me.state.firstDone
            /\ me.pc \in {"reconcile", "invalidate", "advance"} => me.from = 0
            /\ me.pc \in Between => ~me.state.live
            /\ ~me.more

RunnerGrounded(r) == Owned(r) /\ Compared(r) /\ Counted(r) /\ Paged(r) /\ SingleVisit(r)

Grounded ==
    /\ StoredTxs \subseteq 1 .. Height
    /\ Proved(row.proof)
    /\ Single /\ row.cursor = 1 => repair = "pending" /\ ~Active("manual")
    /\ \A r \in Runners : RunnerGrounded(r)

-----------------------------------------------------------------------------
\* Every proof stands on stored, confirmed transactions

LEMMA ProvedIs ==
  ASSUME NEW n \in Int
  PROVE  Proved(n) <=> (n # None => 1 .. n \subseteq ConfirmedTxs)
BY DEF Proved

\* Nothing is proved that the provider has not announced.
LEMMA ProofHeight ==
  ASSUME Bounded, StoredTxs \subseteq 1 .. Height, NEW n \in Int, Proved(n)
  PROVE  n <= Height
<1>1. Height \in Nat /\ None = -1 /\ ConfirmedTxs \subseteq 1 .. Height
  BY HeightIs, Bounds DEF ConfirmedTxs, StoredTxs, IsConfirmed
<1>2. CASE n > 0
  <2>1. n \in 1 .. n
    BY <1>2
  <2>2. n \in 1 .. Height
    BY <1>1, <1>2, <2>1 DEF Proved
  <2> QED BY <1>1, <2>2
<1> QED BY <1>1, <1>2

LEMMA IdleGrounded ==
  ASSUME NEW r \in Runners, run[r] = Idle
  PROVE  RunnerGrounded(r)
BY IdleTyped, NoStateTyped
   DEF RunnerGrounded, Owned, Compared, Counted, Paged, SingleVisit, Between

\* A runner's step, while no other runner is active.
LEMMA GroundedByStep ==
  ASSUME ~Overlap, Leases, Bounded, Grounded, NEW r \in Runners, run[r].pc # "idle",
         NEW new \in Memories, run' = [run EXCEPT ![r] = new],
         (StoredTxs \subseteq 1 .. Height)', Proved(row.proof)',
         (Single /\ row.cursor = 1 => repair = "pending" /\ ~Active("manual"))',
         RunnerGrounded(r)'
  PROVE  Grounded'
<1>1. ASSUME NEW q \in Runners \ {r} PROVE RunnerGrounded(q)'
  <2>1. run'[q] = run[q]
    BY Put
  <2>2. run[q] = Idle
    BY OthersIdle, Runner DEF Fits
  <2>3. run'[q] = Idle
    BY <2>1, <2>2
  <2> QED BY <2>3, IdleTyped, NoStateTyped
          DEF RunnerGrounded, Owned, Compared, Counted, Paged, SingleVisit, Between
<1>2. \A q \in Runners : RunnerGrounded(q)'
  BY <1>1
<1> QED BY <1>2 DEF Grounded

\* The step of a visit that stores nothing and publishes nothing.
LEMMA CalmGround ==
  ASSUME ~Overlap, Leases, Bounded, Grounded, NEW r \in Runners, run[r].pc # "idle",
         NEW new \in Memories, run' = [run EXCEPT ![r] = new], new.pc # "idle",
         UNCHANGED <<provider, stored, repair>>, row'.cursor \in {0, row.cursor}, row'.proof \in {None, row.proof},
         RunnerGrounded(r)'
  PROVE  Grounded'
<1>1. Height' = Height /\ StoredTxs' = StoredTxs /\ ConfirmedTxs' = ConfirmedTxs
  BY DEF Height, StoredTxs, ConfirmedTxs, IsConfirmed
<1>2. StoredTxs \subseteq 1 .. Height /\ Proved(row.proof)
      /\ (Single /\ row.cursor = 1 => repair = "pending" /\ ~Active("manual"))
  BY DEF Grounded
<1>3. Proved(row.proof)'
  BY <1>1, <1>2 DEF Proved
<1>4. Active("manual")' => Active("manual")
  <2>1. \A q \in Runners : run'[q].pc # "idle" => run[q].pc # "idle"
    BY Put
  <2> QED BY <2>1 DEF Active
<1>5. (Single /\ row.cursor = 1 => repair = "pending" /\ ~Active("manual"))'
  BY <1>1, <1>2, <1>4, Bounds DEF Single
<1>6. (StoredTxs \subseteq 1 .. Height)'
  BY <1>1, <1>2
<1> QED BY <1>3, <1>5, <1>6, GroundedByStep

\* What a calm step leaves as it was.
LEMMA CalmFacts ==
  ASSUME Bounded, UNCHANGED <<provider, stored, repair>>, row'.proof \in {None, row.proof}
  PROVE  /\ Height' = Height /\ StoredTxs' = StoredTxs /\ ConfirmedTxs' = ConfirmedTxs
         /\ \A n : Proved(n)' <=> Proved(n)
         /\ Single' => Single /\ row'.proof = row.proof
         /\ row'.proof <= row.proof
<1>1. Height' = Height /\ StoredTxs' = StoredTxs /\ ConfirmedTxs' = ConfirmedTxs
  BY DEF Height, StoredTxs, ConfirmedTxs, IsConfirmed
<1>2. \A n : Proved(n)' <=> Proved(n)
  BY <1>1 DEF Proved
<1>3. (Single' => Single /\ row'.proof = row.proof) /\ row'.proof <= row.proof
  BY <1>1, RowFields, Bounds DEF Single
<1> QED BY <1>1, <1>2, <1>3

LEMMA OpenAccountGrounded ==
  ASSUME ~Overlap, Leases, Bounded, Grounded, NEW r \in Runners, OpenAccount(r) PROVE Grounded'
<1> DEFINE me == run[r]
           new == [me EXCEPT !.pc = "gate", !.unavailable = acct.open, !.touched = acct.open]
<1>1. me.pc = "start" /\ run' = [run EXCEPT ![r] = new] /\ new \in Memories
  BY OpenAccountIs
<1>2. me \in Memories /\ RunnerGrounded(r)
  BY Runner DEF Grounded
<1>3. /\ new.pc = "gate" /\ new.snap = me.snap /\ new.state = me.state /\ new.owner = me.owner
      /\ new.more = me.more
  BY <1>2 DEF Memories
<1>4. UNCHANGED <<provider, stored, repair>> /\ (InvalidateCoverage \/ row' = row)
  BY Zenon DEF OpenAccount
<1>5. row'.cursor = row.cursor /\ row'.proof \in {None, row.proof}
  BY <1>4, InvalidateIs
<1> HIDE DEF new
<1>6. run'[r] = new
  BY <1>1, Put
<1>7. /\ Height' = Height /\ StoredTxs' = StoredTxs /\ ConfirmedTxs' = ConfirmedTxs
      /\ \A n : Proved(n)' <=> Proved(n)
      /\ Single' => Single /\ row'.proof = row.proof
      /\ row'.proof <= row.proof
  BY <1>4, <1>5, CalmFacts
<1>8. Owned(r)'
  BY <1>1, <1>2, <1>3, <1>4, <1>6 DEF RunnerGrounded, Owned
<1>9. Compared(r)'
  BY <1>1, <1>2, <1>3, <1>4, <1>5, <1>6, <1>7 DEF RunnerGrounded, Compared, SnapSound
<1>10. Counted(r)'
  <2>1. me.state.expected \in Int /\ row.proof \in Int /\ row'.proof \in Int
    BY <1>2, <1>5, MemoryFields, StateFields, RowFields, Bounds
  <2> QED BY <1>1, <1>2, <1>3, <1>6, <1>7, <2>1 DEF RunnerGrounded, Counted
<1>11. Paged(r)'
  BY <1>1, <1>2, <1>3, <1>6, <1>7 DEF RunnerGrounded, Paged, Observed, Between
<1>12. SingleVisit(r)'
  BY <1>1, <1>2, <1>3, <1>6, <1>7 DEF RunnerGrounded, SingleVisit, Between
<1>13. RunnerGrounded(r)'
  BY <1>8, <1>9, <1>10, <1>11, <1>12 DEF RunnerGrounded
<1> QED BY <1>1, <1>3, <1>4, <1>5, <1>13, CalmGround

LEMMA SkipVisitGrounded ==
  ASSUME ~Overlap, Leases, Bounded, Grounded, NEW r \in Runners, SkipVisit(r) PROVE Grounded'
<1> DEFINE me == run[r]
           new == [me EXCEPT !.pc = "rebuild"]
<1>1. me.pc = "gate" /\ To(r, "rebuild") /\ UNCHANGED <<provider, stored, repair, row>>
  BY DEF SkipVisit
<1>2. me \in Memories /\ RunnerGrounded(r) /\ "rebuild" \in Running
  BY Runner DEF Grounded, Running, Visiting
<1>3. run' = [run EXCEPT ![r] = new] /\ new \in Memories
  BY <1>1, <1>2, ToIs
<1>4. /\ new.pc = "rebuild" /\ new.snap = me.snap /\ new.state = me.state /\ new.owner = me.owner
      /\ new.more = me.more
  BY <1>2 DEF Memories
<1> HIDE DEF new
<1>6. run'[r] = new
  BY <1>3, Put
<1>7. /\ Height' = Height /\ StoredTxs' = StoredTxs /\ ConfirmedTxs' = ConfirmedTxs
      /\ \A n : Proved(n)' <=> Proved(n)
      /\ Single' => Single /\ row'.proof = row.proof
      /\ row'.proof <= row.proof
  BY <1>1, CalmFacts
<1>8. Owned(r)' /\ Compared(r)' /\ Counted(r)'
  BY <1>1, <1>2, <1>4, <1>6, <1>7 DEF RunnerGrounded, Owned, Compared, Counted
<1>9. Paged(r)'
  BY <1>1, <1>2, <1>4, <1>6, <1>7 DEF RunnerGrounded, Paged, Observed, Between
<1>10. SingleVisit(r)'
  BY <1>1, <1>2, <1>4, <1>6, <1>7 DEF RunnerGrounded, SingleVisit, Between
<1>11. RunnerGrounded(r)'
  BY <1>8, <1>9, <1>10 DEF RunnerGrounded
<1> QED BY <1>1, <1>3, <1>4, <1>11, CalmGround

LEMMA BeginVisitGrounded ==
  ASSUME ~Overlap, Leases, Bounded, Grounded, NEW r \in Runners, BeginVisit(r) PROVE Grounded'
<1> DEFINE me == run[r]
<1>1. PICK permitted \in BOOLEAN, early \in BOOLEAN, pc \in {"stats", "page", "success"} :
         /\ run' = [run EXCEPT ![r] = Begun(me, permitted, early, pc)] /\ Begun(me, permitted, early, pc) \in Memories
         /\ (pc = "stats" <=> ~me.state.live)
         /\ (pc = "page" => permitted)
  BY BeginVisitIs
<1>2. me \in Memories /\ RunnerGrounded(r) /\ me.pc = "gate" /\ Fits(me, Height)
  BY Runner, BeginVisitIs DEF Grounded
<1> DEFINE new == Begun(me, permitted, early, pc)
<1>3. /\ new.pc = pc /\ new.snap = me.snap /\ new.state = me.state /\ new.owner = me.owner
      /\ new.more = me.more
  BY <1>2 DEF Memories, Begun
<1> HIDE DEF new
<1>4. row' = [row EXCEPT !.open = TRUE, !.tip = FALSE,
                         !.result = IF row.result = "none" THEN "success" ELSE row.result]
      /\ UNCHANGED <<provider, stored, repair>>
  BY DEF BeginVisit
<1>5. row'.proof = row.proof /\ row'.cursor = row.cursor
  BY <1>4, RowFields DEF RowType
<1>6. run'[r] = new
  BY <1>1, Put DEF new
<1>7. /\ Height' = Height /\ StoredTxs' = StoredTxs /\ ConfirmedTxs' = ConfirmedTxs
      /\ \A n : Proved(n)' <=> Proved(n)
      /\ Single' => Single /\ row'.proof = row.proof
      /\ row'.proof <= row.proof
  BY <1>4, <1>5, CalmFacts
\* A state that is kept for the next iteration is sync control's.
<1>8. me.state.live => me.state.firstDone /\ ~me.owner /\ ~Single
  BY <1>2, RunnersAre DEF Fits, Between, RunnerGrounded, Owned, SingleVisit
<1>9. Owned(r)' /\ Compared(r)'
  BY <1>1, <1>2, <1>3, <1>4, <1>5, <1>6, <1>7 DEF RunnerGrounded, Owned, Compared, SnapSound
<1>10. Counted(r)'
  BY <1>1, <1>2, <1>3, <1>5, <1>6, <1>7 DEF RunnerGrounded, Counted
<1>11. Paged(r)'
  BY <1>1, <1>2, <1>3, <1>6, <1>7, <1>8 DEF RunnerGrounded, Paged, Observed, Between
<1>12. SingleVisit(r)'
  BY <1>1, <1>2, <1>3, <1>6, <1>7, <1>8 DEF RunnerGrounded, SingleVisit, Between
<1>13. RunnerGrounded(r)'
  BY <1>9, <1>10, <1>11, <1>12 DEF RunnerGrounded
<1>14. new.pc # "idle" /\ new \in Memories /\ run' = [run EXCEPT ![r] = new]
  BY <1>1, <1>3 DEF new
<1> QED BY <1>2, <1>4, <1>5, <1>13, <1>14, CalmGround

LEMMA FetchStatsGrounded ==
  ASSUME ~Overlap, Leases, Bounded, Grounded, NEW r \in Runners, FetchStats(r) PROVE Grounded'
<1> DEFINE me == run[r]
           New(s) == [me EXCEPT !.pc = "proof", !.state = s]
<1>1. PICK s \in States :
         /\ run' = [run EXCEPT ![r] = New(s)] /\ New(s) \in Memories
         /\ s.live /\ s.expected = provider.confirmed /\ s.waiting = provider.pending /\ s.cursor = 0
         /\ ~s.active /\ ~s.firstDone /\ ~s.strict
  BY FetchStatsIs
<1>2. me \in Memories /\ RunnerGrounded(r) /\ me.pc = "stats"
  BY Runner, FetchStatsIs DEF Grounded
<1> DEFINE new == New(s)
<1>3. /\ new.pc = "proof" /\ new.snap = me.snap /\ new.state = s /\ new.owner = me.owner
      /\ new.more = me.more
  BY <1>2 DEF Memories
<1>4. row' = [row EXCEPT !.open = FALSE, !.result = "success", !.tip = TRUE]
      /\ UNCHANGED <<provider, stored, repair>>
  BY DEF FetchStats
<1>5. row'.proof = row.proof /\ row'.cursor = row.cursor
  BY <1>4, RowFields DEF RowType
<1>6. run'[r] = new /\ run' = [run EXCEPT ![r] = new] /\ new \in Memories
  BY <1>1, Put
<1> HIDE DEF new
<1>7. /\ Height' = Height /\ StoredTxs' = StoredTxs /\ ConfirmedTxs' = ConfirmedTxs
      /\ \A n : Proved(n)' <=> Proved(n)
      /\ Single' => Single /\ row'.proof = row.proof
      /\ row'.proof <= row.proof
  BY <1>4, <1>5, CalmFacts
<1>8. Owned(r)'
  BY <1>1, <1>2, <1>3, <1>4, <1>6 DEF RunnerGrounded, Owned
<1>9. Compared(r)'
  BY <1>1, <1>2, <1>3, <1>4, <1>5, <1>6, <1>7 DEF RunnerGrounded, Compared, SnapSound, Fresh
<1>10. Counted(r)'
  BY <1>1, <1>3, <1>6, <1>7, HeightIs DEF Counted
<1>11. Paged(r)'
  BY <1>3, <1>6 DEF Paged, Between
<1>12. SingleVisit(r)'
  BY <1>2, <1>3, <1>6, <1>7 DEF RunnerGrounded, SingleVisit, Between
<1>13. RunnerGrounded(r)'
  BY <1>8, <1>9, <1>10, <1>11, <1>12 DEF RunnerGrounded
<1> QED BY <1>2, <1>3, <1>4, <1>5, <1>6, <1>13, CalmGround

LEMMA TransitionIs ==
  ASSUME NEW me \in Memories
  PROVE  LET n == me.state.expected
             proof == me.snap.proof
         IN  /\ Transition(me) = "publish" => proof = n \/ (proof = None /\ n = 0 /\ ~me.state.waiting)
             /\ proof # None /\ proof = n => Transition(me) = "publish"
             /\ Transition(me) = "invalidateAndRestart" <=> proof # None /\ n < proof
<1> DEFINE n == me.state.expected
           proof == me.snap.proof
           waits == me.state.waiting
           full == CASE proof # None /\ n = proof -> "publish"
                     [] proof # None /\ n > proof -> "preserveAndRestart"
                     [] proof # None /\ n < proof -> "invalidateAndRestart"
                     [] proof = None /\ n = 0 /\ ~waits -> "publish"
                     [] OTHER -> "restart"
<1>1. n \in Nat /\ proof \in Int /\ waits \in BOOLEAN
  BY MemoryFields, StateFields, SnapFields
<1>2. Transition(me) = IF ~me.permitted /\ full \in {"preserveAndRestart", "restart"} THEN "preserve" ELSE full
  BY DEF Transition
<1> HIDE DEF n, proof, waits
<1>3. /\ full = "publish" => proof = n \/ (proof = None /\ n = 0 /\ ~waits)
      /\ proof # None /\ proof = n => full = "publish"
      /\ full = "invalidateAndRestart" <=> proof # None /\ n < proof
  BY <1>1, SMT
<1> HIDE DEF full
<1> QED BY <1>2, <1>3 DEF n, proof, waits

LEMMA SettleProofGrounded ==
  ASSUME ~Overlap, Leases, Bounded, Grounded, NEW r \in Runners, SettleProof(r) PROVE Grounded'
<1> DEFINE me == run[r]
           New(b) == [me EXCEPT !.pc = "prepare", !.state = [me.state EXCEPT !.published = b]]
           n == me.state.expected
<1>1. PICK b \in BOOLEAN : run' = [run EXCEPT ![r] = New(b)] /\ New(b) \in Memories
  BY SettleProofIs
<1>2. me \in Memories /\ RunnerGrounded(r) /\ me.pc = "proof" /\ me.state \in States
  BY Runner, MemoryFields, SettleProofIs DEF Grounded
<1> DEFINE s == [me.state EXCEPT !.published = b]
           new == [me EXCEPT !.pc = "prepare", !.state = s]
<1>3. s.live = me.state.live /\ s.expected = n /\ s.waiting = me.state.waiting /\ s.active = me.state.active
      /\ s.strict = me.state.strict
  BY <1>2, PublishedState
<1>4. run'[r] = new /\ run' = [run EXCEPT ![r] = new] /\ new \in Memories
  BY <1>1, Put
<1> HIDE DEF s
<1>5. /\ new.pc = "prepare" /\ new.snap = me.snap /\ new.state = s /\ new.owner = me.owner
      /\ new.more = me.more
  BY <1>2 DEF Memories
<1> HIDE DEF new
<1>6. /\ UNCHANGED <<provider, stored, repair>> /\ row'.cursor = row.cursor /\ row' \in RowType
      /\ \/ Transition(me) = "publish" /\ row'.proof = n
         \/ Transition(me) = "publish" /\ row'.proof = row.proof
         \/ Transition(me) = "invalidateAndRestart" /\ row'.proof = None
         \/ Transition(me) \notin {"publish", "invalidateAndRestart"} /\ row'.proof = row.proof
  BY SettleProofWrites
<1>7. Height' = Height /\ StoredTxs' = StoredTxs /\ ConfirmedTxs' = ConfirmedTxs /\ provider' = provider
  BY <1>6 DEF Height, StoredTxs, ConfirmedTxs, IsConfirmed
<1>8. /\ SnapSound(r) /\ Fresh(r) /\ me.state.waiting = provider.pending /\ ~me.state.active /\ me.state.live
      /\ n \in Nat /\ me.snap.proof \in Int /\ row.proof \in Int /\ row'.proof \in Int /\ n <= Height
      /\ None = -1
  <2>1. me.snap \in Snaps /\ row'.proof \in None .. MaxTxs
    BY <1>2, <1>6, MemoryFields DEF RowType
  <2> QED BY <1>2, <2>1, StateFields, SnapFields, RowFields, Bounds DEF RunnerGrounded, Compared, Counted
<1>9. row.proof \in {None, me.snap.proof} /\ row.cursor = me.snap.cursor /\ Proved(me.snap.proof)
  BY <1>2, <1>8 DEF SnapSound
<1>10. /\ Transition(me) = "publish" => me.snap.proof = n \/ (me.snap.proof = None /\ n = 0)
       /\ Transition(me) # "invalidateAndRestart" => me.snap.proof <= n
  BY <1>2, <1>8, TransitionIs
\* What is published is what the snapshot proved, or nothing at all.
<1>11. row'.proof \in {None, 0, me.snap.proof} /\ row'.proof <= n
  BY <1>6, <1>8, <1>9, <1>10
<1>12. Proved(row.proof)'
  <2>1. Proved(0)
    BY DEF Proved
  <2>2. Proved(row'.proof)
    BY <1>9, <1>11, <2>1 DEF Proved
  <2> QED BY <1>7, <2>2 DEF Proved
<1>13. (StoredTxs \subseteq 1 .. Height)'
  BY <1>7 DEF Grounded
<1>14. (Single /\ row.cursor = 1 => repair = "pending" /\ ~Active("manual"))'
  <2> SUFFICES ASSUME Single', row'.cursor = 1 PROVE repair' = "pending" /\ ~Active("manual")'
    OBVIOUS
  <2>1. Height = 1 /\ me.snap.proof = 1 /\ me.snap.cursor = 1
    BY <1>6, <1>7, <1>8, <1>9, <1>11 DEF Single
  <2>2. me.owner
    BY <1>8, <2>1 DEF SnapSound
  <2>3. r = "auto" /\ repair = "pending"
    BY <1>2, <2>2 DEF RunnerGrounded, Owned
  <2>4. ~Active("manual")
    BY <1>2, <2>3, OthersIdle DEF Active
  <2>5. \A q \in Runners \ {r} : run'[q] = run[q]
    BY <1>4, Put
  <2> QED BY <1>6, <2>3, <2>4, <2>5 DEF Active
<1>15. Owned(r)'
  BY <1>2, <1>3, <1>4, <1>5, <1>6 DEF RunnerGrounded, Owned
<1>16. Compared(r)'
  <2>1. SnapSound(r)'
    <3>1. \A k : Proved(k)' <=> Proved(k)
      BY <1>7 DEF Proved
    <3>2. Proved(run[r].snap.proof)'
      BY <1>4, <1>5, <1>9, <3>1
    <3> QED BY <1>2, <1>4, <1>5, <1>6, <1>7, <1>8, <1>9, <1>11, <3>2 DEF SnapSound
  <2>2. Fresh(r)'
    BY <1>3, <1>4, <1>5, <1>7, <1>8 DEF Fresh
  <2> QED BY <1>3, <1>4, <1>5, <1>7, <1>8, <2>1, <2>2 DEF Compared
<1>17. Counted(r)'
  BY <1>3, <1>4, <1>5, <1>7, <1>8, <1>11 DEF Counted
<1>18. Paged(r)'
  BY <1>4, <1>5 DEF Paged, Between
<1>19. ~me.more
  BY <1>2, Runner DEF Fits
<1>20. SingleVisit(r)'
  BY <1>4, <1>5, <1>19 DEF SingleVisit, Between
<1>21. RunnerGrounded(r)'
  BY <1>15, <1>16, <1>17, <1>18, <1>20 DEF RunnerGrounded
<1> QED BY <1>2, <1>4, <1>12, <1>13, <1>14, <1>21, GroundedByStep

\* A single transaction that is proved is confirmed, and nothing is pending.
LEMMA SingleConfirmed ==
  ASSUME Bounded, Grounded, Single
  PROVE  1 \in ConfirmedTxs /\ 1 \in StoredTxs /\ ~HasPending
<1>1. 1 \in ConfirmedTxs
  <2>1. Proved(row.proof) /\ row.proof = 1 /\ None = -1
    BY Bounds DEF Grounded, Single
  <2>2. 1 .. 1 \subseteq ConfirmedTxs
    BY <2>1 DEF Proved
  <2> QED BY <2>2
<1>2. StoredTxs \subseteq {1}
  BY DEF Grounded, Single
<1>3. IsConfirmed(stored[1]) /\ 1 \in Txs
  BY <1>1 DEF ConfirmedTxs
<1>4. ASSUME NEW t \in Txs, stored[t] = "pending" PROVE FALSE
  <2>1. t \in StoredTxs
    BY <1>4 DEF StoredTxs
  <2> QED BY <1>2, <1>3, <1>4, <2>1 DEF IsConfirmed
<1> QED BY <1>1, <1>3, <1>4 DEF HasPending, StoredTxs, IsConfirmed

LEMMA PrepareGrounded ==
  ASSUME ~Overlap, Leases, Bounded, Grounded, NEW r \in Runners, Prepare(r) PROVE Grounded'
<1> DEFINE me == run[r]
           New(s, pc) == [me EXCEPT !.snap = Idle.snap, !.state = s, !.pc = pc]
<1>1. PICK s \in States, pc \in {"success", "finalize", "page"} :
         /\ run' = [run EXCEPT ![r] = New(s, pc)] /\ New(s, pc) \in Memories
         /\ Prepared(me, s)
         /\ pc # "success" => me.permitted
  BY PrepareIs
<1> DEFINE new == New(s, pc)
<1>2. me \in Memories /\ RunnerGrounded(r) /\ me.pc = "prepare" /\ Fits(me, Height)
  BY Runner, PrepareIs DEF Grounded
<1>3. /\ new.pc = pc /\ new.state = s /\ new.owner = me.owner /\ new.more = me.more /\ new.early = me.early
  BY <1>2 DEF Memories
<1>4. run'[r] = new /\ run' = [run EXCEPT ![r] = new] /\ new \in Memories
  BY <1>1, Put
<1> HIDE DEF new
<1>5. UNCHANGED <<provider, stored, repair>> /\ row'.cursor \in {0, row.cursor} /\ row'.proof = row.proof
  BY PrepareWrites
<1>6. /\ Height' = Height /\ StoredTxs' = StoredTxs /\ ConfirmedTxs' = ConfirmedTxs /\ provider' = provider
      /\ Single' => Single
  BY <1>5, CalmFacts
<1>7. /\ SnapSound(r) /\ me.state.expected = provider.confirmed /\ me.state.waiting = provider.pending
      /\ me.state.live /\ me.state.expected <= Height /\ row.proof <= me.state.expected
  BY <1>2 DEF RunnerGrounded, Compared, Counted, Fresh
<1>8. /\ s.live = me.state.live /\ s.expected = me.state.expected
      /\ s.active = Walks(me) /\ (s.strict => me.permitted /\ me.owner)
      /\ s.cursor = Resume(me) /\ s.firstDone = (s.cursor # 0)
      /\ s.allowed = (Transition(me) # "invalidateAndRestart" /\ ~me.owner)
      /\ s.waiting = (me.state.waiting \/ (s.active /\ HasPending))
      /\ s.known = (IF s.active THEN {} ELSE StoredTxs)
      /\ s.observed = (IF s.active THEN ConfirmedTxs ELSE {})
  BY <1>1 DEF Prepared
<1>9. s.cursor \in {0, me.snap.cursor} /\ me.snap.cursor = row.cursor /\ row.cursor <= Height /\ row.cursor \in Nat
  BY <1>7, <1>8, RowFields DEF Resume, SnapSound
<1>10. Owned(r)' /\ Compared(r)'
  BY <1>2, <1>3, <1>4, <1>5, <1>8 DEF RunnerGrounded, Owned, Compared
<1>11. Counted(r)'
  BY <1>3, <1>4, <1>5, <1>6, <1>7, <1>8 DEF Counted
<1>12. Fresh(r)'
  BY <1>3, <1>4, <1>6, <1>7, <1>8 DEF Fresh
<1>13. Observed(r)'
  <2>1. CASE Clean(s)
    <3>1. s.active /\ ~provider.pending /\ Height = s.expected
      BY <1>7, <1>8, <2>1, HeightIs DEF Clean
    <3>2. s.observed = ConfirmedTxs /\ ConfirmedTxs \subseteq 1 .. s.expected
      BY <1>8, <3>1 DEF Grounded, ConfirmedTxs, StoredTxs, IsConfirmed
    <3>3. s.cursor <= s.expected
      BY <1>9, <3>1, HeightIs
    <3> QED BY <1>3, <1>4, <1>6, <3>2, <3>3 DEF Observed
  <2>2. CASE ~Clean(s)
    BY <1>3, <1>4, <2>2 DEF Observed
  <2> QED BY <2>1, <2>2
<1>14. Paged(r)'
  BY <1>1, <1>3, <1>4, <1>12, <1>13 DEF Paged, Between
<1>15. ASSUME Single, ~me.owner, pc = "page" PROVE EndsAtOnce(r)' /\ ~s.firstDone
  <2>1. /\ Height = 1 /\ row.proof = 1 /\ 1 \in ConfirmedTxs /\ 1 \in StoredTxs /\ ~HasPending
    BY <1>15, SingleConfirmed DEF Single
  <2>2. me.snap.proof = 1 /\ me.snap.cursor = 0
    BY <1>2, <1>7, <1>9, <1>15, <2>1, Bounds DEF SnapSound
  <2>3. provider.confirmed = 1 /\ ~provider.pending /\ me.state.expected = 1
    BY <1>7, <2>1, HeightIs
  <2>4. Transition(me) = "publish"
    BY <1>2, <2>2, <2>3, Bounds, TransitionIs
  <2>5. ~s.waiting /\ s.allowed /\ ~s.strict /\ (s.active => 1 \in s.observed) /\ ~s.firstDone
    BY <1>7, <1>8, <1>9, <1>15, <2>1, <2>2, <2>3, <2>4
  <2>6. ~s.active => me.early /\ 1 \in s.known
    BY <1>1, <1>8, <1>15, <2>1 DEF Walks, PlanActive
  <2> QED BY <1>3, <1>4, <2>5, <2>6 DEF EndsAtOnce
<1>16. SingleVisit(r)'
  <2>1. ~me.more
    BY <1>2 DEF Fits
  <2> QED BY <1>1, <1>3, <1>4, <1>6, <1>15, <2>1 DEF SingleVisit, Between
<1>17. RunnerGrounded(r)'
  BY <1>10, <1>11, <1>14, <1>16 DEF RunnerGrounded
<1> QED BY <1>1, <1>2, <1>3, <1>4, <1>5, <1>17, CalmGround

\* The confirmed transactions of an answer are counted by the statistics, its
\* pending ones are not proved.
LEMMA AnswerCounted ==
  ASSUME Bounded, Grounded, NEW r \in Runners, run[r].pc = "page"
  PROVE  /\ \A t \in Answer(run[r]) : t > provider.confirmed => t > row.proof
         /\ Clean(run[r].state) => \A t \in Answer(run[r]) : t <= provider.confirmed => t <= run[r].state.expected
<1> DEFINE me == run[r]
           from == From(me)
<1>1. /\ RunnerGrounded(r) /\ me.state \in States /\ Fits(me, Height) /\ row.proof \in Int
      /\ me.state.expected \in Nat /\ me.state.cursor \in Nat
  BY Runner, MemoryFields, StateFields, RowFields DEF Grounded
<1>2. from \in 0 .. Height /\ (from = 0 <=> ~me.state.firstDone) /\ Answer(me) \subseteq 1 .. Height
  BY FromIs
<1>3. /\ me.state.live /\ row.proof <= me.state.expected /\ row.proof <= Height
      /\ Clean(me.state) => me.state.cursor <= me.state.expected
      /\ Fresh(r) \/ (me.state.firstDone /\ ~Single)
  <2>1. row.proof <= Height
    BY RowFields, ProofHeight DEF Grounded
  <2> QED BY <1>1, <2>1 DEF RunnerGrounded, Counted, Paged, Observed
<1>4. CASE Fresh(r)
  <2>1. me.state.expected = provider.confirmed
    BY <1>4 DEF Fresh
  <2> QED BY <1>1, <1>2, <1>3, <2>1, HeightIs
<1>5. CASE me.state.firstDone /\ ~Single
  <2>1. from = me.state.cursor /\ from \in 1 .. Height /\ Answer(me) = PageAfter(from)
    BY <1>2, <1>5, HeightIs DEF From, Answer
  <2>2. CASE from > 1
    <3>1. PageAfter(from) = Newest(1 .. from - 1) /\ PageAfter(from) \subseteq 1 .. provider.confirmed
      BY <2>1, <2>2, PageAfterIs
    <3>2. PageAfter(from) \subseteq 1 .. from - 1
      BY <3>1, NewestWithin
    <3> HIDE DEF from
    <3>3. \A t \in Answer(me) : t \in Int /\ t <= from - 1 /\ t <= provider.confirmed
      BY <2>1, <3>1, <3>2, HeightIs
    <3> QED BY <1>1, <1>3, <2>1, <3>3, HeightIs
  <2>3. CASE from = 1
    <3>1. Answer(me) \subseteq {1}
      BY <2>1, <2>3, PageAfterIs
    <3>2. ASSUME 1 > provider.confirmed PROVE row.proof < 1
      <4>1. Height = 1
        BY <2>1, <2>3, <3>2, HeightIs
      <4> QED BY <1>1, <1>3, <1>5, <4>1 DEF Single
    <3> QED BY <1>1, <1>3, <2>1, <2>3, <3>1, <3>2
  <2> QED BY <2>1, <2>2, <2>3, HeightIs
<1> QED BY <1>3, <1>4, <1>5

LEMMA FetchPageGrounded ==
  ASSUME ~Overlap, Leases, Bounded, Grounded, NEW r \in Runners, FetchPage(r) PROVE Grounded'
<1> DEFINE me == run[r]
<1>1. PICK page \in Pages, c \in 0 .. MaxTxs, pc \in {"conclude", "finalize", "advance", "reconcile"} :
         /\ run' = [run EXCEPT ![r] = Fetched(me, page, c, pc)] /\ Fetched(me, page, c, pc) \in Memories
         /\ DOMAIN page = Answer(me) /\ \A t \in Answer(me) : page[t] = Status(t)
         /\ c \in {0, me.state.cursor}
         /\ (pc = "reconcile" <=> Answer(me) # {})
         /\ (pc = "conclude" => me.state.strict)
  BY FetchPageIs
<1>2. /\ me \in Memories /\ RunnerGrounded(r) /\ me.pc = "page" /\ me.state \in States /\ Fits(me, Height)
      /\ me.state.expected \in Nat /\ me.state.cursor \in Nat
  BY Runner, MemoryFields, StateFields, FetchPageIs DEF Grounded
<1> DEFINE s == [me.state EXCEPT !.cursor = c]
           new == [me EXCEPT !.from = From(me), !.page = page, !.todo = Answer(me), !.state = s, !.pc = pc]
<1>3. /\ s.live = me.state.live /\ s.expected = me.state.expected /\ s.waiting = me.state.waiting
      /\ s.active = me.state.active /\ s.allowed = me.state.allowed /\ s.firstDone = me.state.firstDone
      /\ s.cursor = c /\ s.observed = me.state.observed /\ s.known = me.state.known /\ s.strict = me.state.strict
  BY <1>2, CursorState
<1>4. run'[r] = new
  BY <1>1, Put DEF Fetched
<1>17. run' = [run EXCEPT ![r] = new] /\ new \in Memories
  BY <1>1 DEF Fetched
<1> HIDE DEF s
<1>5. new.pc = pc /\ new.state = s /\ new.owner = me.owner /\ new.more = me.more /\ new.early = me.early
  BY <1>2 DEF Memories
<1>18. new.from = From(me) /\ new.page = page /\ new.todo = Answer(me)
  BY <1>2 DEF Memories
<1> HIDE DEF new
<1>6. provider' = provider /\ stored' = stored /\ repair' = repair /\ row' = row
  BY DEF FetchPage
<1>7. /\ Height' = Height /\ StoredTxs' = StoredTxs /\ ConfirmedTxs' = ConfirmedTxs
      /\ Single' => Single
  BY <1>6, CalmFacts
<1>8. Owned(r)' /\ Compared(r)'
  BY <1>1, <1>2, <1>3, <1>4, <1>5, <1>6 DEF RunnerGrounded, Owned, Compared
<1>9. Counted(r)'
  <2>1. me.state.live /\ me.state.expected <= Height /\ row.proof <= me.state.expected
    BY <1>2 DEF RunnerGrounded, Counted
  <2> QED BY <1>3, <1>4, <1>5, <1>6, <1>7, <2>1 DEF Counted
<1>10. me.state.live /\ Observed(r)
  BY <1>2 DEF RunnerGrounded, Counted, Paged
<1>11. Observed(r)'
  <2>1. Clean(me.state) => /\ me.state.observed \subseteq 1 .. me.state.expected
                           /\ me.state.observed \subseteq ConfirmedTxs
                           /\ c <= me.state.expected
    BY <1>1, <1>2, <1>10 DEF Observed
  <2> QED BY <1>3, <1>4, <1>5, <1>7, <2>1 DEF Observed, Clean
<1>12. ASSUME pc \in {"reconcile", "advance"} PROVE PageHeld(r)'
  <2>1. /\ \A t \in Answer(me) : t > provider.confirmed => t > row.proof
        /\ Clean(me.state) => \A t \in Answer(me) : t <= provider.confirmed => t <= me.state.expected
    BY <1>2, AnswerCounted
  <2>2. Answer(me) \subseteq 1 .. Height
    BY <1>2, FromIs
  <2>3. \A t \in Answer(me) : t \in Int /\ (page[t] = "pending" <=> t > provider.confirmed)
                                        /\ (IsConfirmed(page[t]) <=> t <= provider.confirmed)
    BY <1>1, <2>2, StatusIs, HeightIs
  <2>4. \A t \in DOMAIN page : page[t] = "pending" => t > row.proof
    BY <1>1, <2>1, <2>3
  <2>5. PageConfirmed(new) = {t \in Answer(me) : IsConfirmed(page[t])}
    BY <1>1, <1>18 DEF PageConfirmed
  <2>6. ASSUME Clean(me.state) PROVE PageConfirmed(new) \cup me.state.observed \subseteq 1 .. me.state.expected
    <3>1. \A t \in PageConfirmed(new) : t \in 1 .. me.state.expected
      BY <1>2, <2>1, <2>2, <2>3, <2>5, <2>6
    <3>2. me.state.observed \subseteq 1 .. me.state.expected
      BY <1>10, <2>6 DEF Observed
    <3> QED BY <3>1, <3>2
  <2>7. Clean(me.state) => me.state.observed \subseteq ConfirmedTxs
    BY <1>10 DEF Observed
  <2>8. PageConfirmed(run[r])' = PageConfirmed(new)
    BY <1>4 DEF PageConfirmed
  <2>9. Clean(s) <=> Clean(me.state)
    BY <1>3 DEF Clean
  <2> HIDE DEF me
  <2> QED BY <1>1, <1>3, <1>4, <1>5, <1>6, <1>7, <1>12, <1>18, <2>4, <2>6, <2>7, <2>8, <2>9 DEF PageHeld
<1>13. Paged(r)'
  BY <1>1, <1>3, <1>4, <1>5, <1>11, <1>12 DEF Paged, Between
<1>14. SingleVisit(r)'
  <2>1. ~me.more
    BY <1>2 DEF Fits
  <2>2. ASSUME Single, ~me.owner PROVE EndsAtOnce(r) /\ ~me.state.firstDone
    BY <1>2, <2>2 DEF RunnerGrounded, SingleVisit
  <2>3. ASSUME Single, ~me.owner PROVE EndsAtOnce(r)'
    BY <1>3, <1>4, <1>5, <2>2, <2>3 DEF EndsAtOnce
  <2>4. ASSUME Single, ~me.owner PROVE From(me) = 0
    BY <2>2, <2>4 DEF From
  <2> QED BY <1>1, <1>4, <1>5, <1>7, <1>18, <2>1, <2>3, <2>4 DEF SingleVisit, Between
<1>15. RunnerGrounded(r)'
  BY <1>8, <1>9, <1>13, <1>14 DEF RunnerGrounded
<1>16. row'.cursor \in {0, row.cursor} /\ row'.proof \in {None, row.proof} /\ new.pc # "idle"
  BY <1>1, <1>5, <1>6
<1> QED BY <1>2, <1>6, <1>15, <1>16, <1>17, CalmGround

LEMMA ReconcileNextGrounded ==
  ASSUME ~Overlap, Leases, Bounded, Grounded, NEW r \in Runners, ReconcileNext(r) PROVE Grounded'
<1> DEFINE me == run[r]
           New(t, b, pc) == [me EXCEPT !.todo = me.todo \ {t}, !.contradicted = b, !.pc = pc]
<1>1. PICK t \in me.todo, b \in BOOLEAN, pc \in {"reconcile", "invalidate", "advance"} :
         /\ run' = [run EXCEPT ![r] = New(t, b, pc)] /\ New(t, b, pc) \in Memories
         /\ t \in Txs /\ t \in DOMAIN me.page /\ me.page[t] \in Seen
         /\ stored' = [stored EXCEPT ![t] = me.page[t]]
         /\ pc = "reconcile" <=> me.todo # {t}
  BY ReconcileNextIs
<1> DEFINE new == New(t, b, pc)
<1>2. /\ me \in Memories /\ RunnerGrounded(r) /\ me.pc = "reconcile" /\ me.state \in States /\ Fits(me, Height)
      /\ me.page \in Pages /\ stored \in [Txs -> Statuses] /\ row.proof \in Int
  BY Runner, MemoryFields, Types, RowFields, ReconcileNextIs DEF Grounded
<1>3. /\ new.pc = pc /\ new.state = me.state /\ new.owner = me.owner /\ new.more = me.more
      /\ new.early = me.early /\ new.from = me.from /\ new.page = me.page /\ new.todo = me.todo \ {t}
  BY <1>2 DEF Memories
<1>4. run'[r] = new
  BY <1>1, Put
<1>5. run' = [run EXCEPT ![r] = new] /\ new \in Memories
  BY <1>1
<1> HIDE DEF new
<1>6. provider' = provider /\ row' = row /\ repair' = repair
  BY DEF ReconcileNext
<1>7. Height' = Height /\ (Single' <=> Single)
  BY <1>6 DEF Height, Single
<1>8. stored'[t] = me.page[t] /\ \A u \in Txs \ {t} : stored'[u] = stored[u]
  BY <1>1, <1>2
<1>9. PageHeld(r)
  BY <1>2 DEF RunnerGrounded, Paged
<1>10. (StoredTxs \subseteq 1 .. Height)'
  <2>1. t \in 1 .. Height
    BY <1>1, <1>2 DEF Fits
  <2>2. StoredTxs' \subseteq StoredTxs \cup {t}
    BY <1>8 DEF StoredTxs
  <2> QED BY <1>7, <2>1, <2>2 DEF Grounded
<1>11. me.page[t] # "pending" => ConfirmedTxs \subseteq ConfirmedTxs'
  BY <1>1, <1>8 DEF ConfirmedTxs, IsConfirmed, Seen
\* A transaction that is proved is not pending in the page.
<1>12. Proved(row.proof)'
  <2>1. \A u \in ConfirmedTxs : u # t => u \in ConfirmedTxs'
    BY <1>8 DEF ConfirmedTxs
  <2>2. me.page[t] = "pending" => t \notin 1 .. row.proof
    BY <1>1, <1>2, <1>9 DEF PageHeld
  <2>3. row.proof # None => 1 .. row.proof \subseteq ConfirmedTxs
    BY DEF Grounded, Proved
  <2> QED BY <1>6, <1>11, <2>1, <2>2, <2>3 DEF Proved
<1>13. (Single /\ row.cursor = 1 => repair = "pending" /\ ~Active("manual"))'
  <2>1. \A q \in Runners : run'[q].pc # "idle" => run[q].pc # "idle"
    BY <1>2, <1>5, Put
  <2> QED BY <1>6, <1>7, <2>1 DEF Grounded, Active
<1>14. Owned(r)' /\ Compared(r)' /\ Counted(r)'
  BY <1>1, <1>2, <1>3, <1>4, <1>6, <1>7 DEF RunnerGrounded, Owned, Compared, Counted
<1>15. PageHeld(r)'
  <2>1. \A u \in DOMAIN me.page : me.page[u] = "pending" => u > row.proof
    BY <1>9 DEF PageHeld
  <2>2. \A u \in DOMAIN me.page \ (me.todo \ {t}) : stored'[u] = me.page[u]
    <3>1. \A u \in DOMAIN me.page : u \in Txs
      BY <1>2, PageFields
    <3>2. \A u \in DOMAIN me.page \ me.todo : stored[u] = me.page[u]
      BY <1>9 DEF PageHeld
    <3> QED BY <1>8, <3>1, <3>2
  <2>3. pc # "reconcile" => me.todo \ {t} = {}
    BY <1>1
  <2>4. PageConfirmed(new) = PageConfirmed(me) /\ PageConfirmed(run[r])' = PageConfirmed(new)
    BY <1>3, <1>4 DEF PageConfirmed
  <2>5. ASSUME Clean(me.state)
        PROVE  /\ PageConfirmed(me) \cup me.state.observed \subseteq 1 .. me.state.expected
               /\ PageConfirmed(me) = DOMAIN me.page => me.state.observed \subseteq ConfirmedTxs'
    <3>1. /\ PageConfirmed(me) \cup me.state.observed \subseteq 1 .. me.state.expected
          /\ PageConfirmed(me) = DOMAIN me.page => me.state.observed \subseteq ConfirmedTxs
      BY <1>9, <2>5 DEF PageHeld
    <3>2. PageConfirmed(me) = DOMAIN me.page => me.page[t] # "pending"
      BY <1>1 DEF PageConfirmed, IsConfirmed
    <3> QED BY <1>11, <3>1, <3>2
  <2> HIDE DEF me
  <2> QED BY <1>3, <1>4, <1>6, <2>1, <2>2, <2>3, <2>4, <2>5 DEF PageHeld
<1>16. Paged(r)'
  BY <1>1, <1>3, <1>4, <1>15 DEF Paged, Between
<1>17. SingleVisit(r)'
  <2>1. ~me.more
    BY <1>2 DEF Fits
  <2>2. ASSUME Single, ~me.owner PROVE EndsAtOnce(r)' /\ me.from = 0
    <3>1. EndsAtOnce(r) /\ me.from = 0
      BY <1>2, <2>2 DEF RunnerGrounded, SingleVisit
    <3> QED BY <1>3, <1>4, <3>1 DEF EndsAtOnce
  <2> QED BY <1>1, <1>3, <1>4, <1>7, <2>1, <2>2 DEF SingleVisit, Between
<1>18. RunnerGrounded(r)'
  BY <1>14, <1>16, <1>17 DEF RunnerGrounded
<1> QED BY <1>2, <1>5, <1>10, <1>12, <1>13, <1>18, GroundedByStep

LEMMA InvalidatePageGrounded ==
  ASSUME ~Overlap, Leases, Bounded, Grounded, NEW r \in Runners, InvalidatePage(r) PROVE Grounded'
<1> DEFINE me == run[r]
           new == [me EXCEPT !.pc = "advance"]
<1>1. me.pc = "invalidate" /\ To(r, "advance") /\ InvalidateCoverage
      /\ provider' = provider /\ stored' = stored /\ repair' = repair
  BY DEF InvalidatePage
<1>2. /\ me \in Memories /\ RunnerGrounded(r) /\ "advance" \in Running /\ Fits(me, Height) /\ me.page \in Pages
      /\ me.state \in States
  BY Runner, MemoryFields DEF Grounded, Running, Visiting
<1>3. run' = [run EXCEPT ![r] = new] /\ new \in Memories
  BY <1>1, <1>2, ToIs
<1>4. /\ new.pc = "advance" /\ new.state = me.state /\ new.owner = me.owner /\ new.more = me.more
      /\ new.page = me.page /\ new.todo = me.todo
  BY <1>2 DEF Memories
<1> HIDE DEF new
<1>5. run'[r] = new
  BY <1>3, Put
<1>6. row'.proof = None /\ row'.cursor = row.cursor /\ None = -1
  BY <1>1, InvalidateIs, Bounds
<1>7. /\ Height' = Height /\ ConfirmedTxs' = ConfirmedTxs
      /\ ~Single'
  BY <1>1, <1>6, CalmFacts DEF Single
<1>8. Owned(r)' /\ Compared(r)'
  BY <1>1, <1>2, <1>4, <1>5 DEF RunnerGrounded, Owned, Compared
<1>9. Counted(r)'
  <2>1. me.state.live /\ me.state.expected <= Height /\ me.state.expected \in Nat
    BY <1>1, <1>2, StateFields DEF RunnerGrounded, Counted
  <2> QED BY <1>4, <1>5, <1>6, <1>7, <2>1 DEF Counted
<1>10. PageHeld(r)'
  <2>1. PageHeld(r)
    BY <1>1, <1>2 DEF RunnerGrounded, Paged
  <2>2. \A t \in DOMAIN me.page : t > row'.proof
    BY <1>2, <1>6, PageFields, Bounds
  <2>3. PageConfirmed(run[r])' = PageConfirmed(me)
    BY <1>4, <1>5 DEF PageConfirmed
  <2> QED BY <1>1, <1>4, <1>5, <1>7, <2>1, <2>2, <2>3 DEF PageHeld
<1>11. Paged(r)' /\ SingleVisit(r)'
  BY <1>4, <1>5, <1>7, <1>10 DEF Paged, SingleVisit, Between
<1>12. RunnerGrounded(r)'
  BY <1>8, <1>9, <1>11 DEF RunnerGrounded
<1> QED BY <1>1, <1>3, <1>4, <1>6, <1>12, CalmGround

\* The first page of an address with a single, proved transaction is all there is.
LEMMA SinglePage ==
  ASSUME Bounded, Grounded, NEW r \in Runners, run[r].pc = "advance", ~run[r].owner, Single,
         NEW s \in States, Advanced(run[r], s)
  PROVE  /\ ~s.waiting /\ s.allowed /\ ~s.strict
         /\ s.active => 1 \in s.observed /\ ExpectedReached(s)
         /\ ~s.active => run[r].early /\ 1 \in s.known
<1> DEFINE me == run[r]
<1>1. /\ EndsAtOnce(r) /\ me.from = 0 /\ PageHeld(r) /\ me.state.live /\ me.state.expected <= Height
      /\ me \in Memories /\ Fits(me, Height) /\ me.page \in Pages /\ row.proof = 1 /\ Height = 1
      /\ me.state \in States /\ me.state.expected \in Nat
  BY Runner, MemoryFields, StateFields DEF Grounded, RunnerGrounded, SingleVisit, Paged, Counted, Single
<1>2. /\ s.expected = me.state.expected /\ s.active = me.state.active
      /\ s.strict = me.state.strict /\ s.known = me.state.known
      /\ s.observed = (IF me.state.active THEN me.state.observed \cup PageConfirmed(me) ELSE me.state.observed)
      /\ s.waiting = (me.state.waiting \/ (me.state.active /\ PageConfirmed(me) # DOMAIN me.page))
      /\ s.allowed = (me.state.allowed /\ ~Duplicate(me))
  BY DEF Advanced
<1>3. PageConfirmed(me) = DOMAIN me.page
  <2>1. ASSUME NEW t \in DOMAIN me.page PROVE IsConfirmed(me.page[t])
    <3>1. t \in 1 .. 1 /\ me.page[t] \in Seen
      BY <1>1, PageFields DEF Fits
    <3>2. me.page[t] # "pending"
      BY <1>1, <3>1 DEF PageHeld
    <3> QED BY <3>1, <3>2 DEF Seen, IsConfirmed
  <2> QED BY <2>1 DEF PageConfirmed
<1>4. ~s.waiting /\ s.allowed /\ ~s.strict /\ (~s.active => me.early /\ 1 \in s.known)
  BY <1>1, <1>2, <1>3 DEF EndsAtOnce, Duplicate
<1>5. ASSUME s.active PROVE 1 \in s.observed /\ ExpectedReached(s)
  <2>1. 1 \in s.observed /\ s.observed \subseteq 1 .. me.state.expected
    BY <1>1, <1>2, <1>5 DEF EndsAtOnce, PageHeld, Clean
  <2>2. me.state.expected = 1
    BY <1>1, <2>1
  <2>3. s.observed = {1}
    BY <2>1, <2>2
  <2>4. Cardinality({1}) = 1
    BY FS_Singleton
  <2> QED BY <1>2, <1>4, <1>5, <2>1, <2>2, <2>3, <2>4 DEF ExpectedReached
<1> QED BY <1>4, <1>5

LEMMA AdvanceCursorGrounded ==
  ASSUME ~Overlap, Leases, Bounded, Grounded, NEW r \in Runners, AdvanceCursor(r) PROVE Grounded'
<1> DEFINE me == run[r]
           New(s) == [me EXCEPT !.state = s, !.pc = "conclude"]
<1>1. PICK s \in States :
         /\ run' = [run EXCEPT ![r] = New(s)] /\ New(s) \in Memories
         /\ Advanced(me, s)
         /\ row' = IF s.active THEN [row EXCEPT !.cursor = s.cursor] ELSE row
  BY AdvanceCursorIs
<1> DEFINE new == New(s)
<1>2. /\ me \in Memories /\ RunnerGrounded(r) /\ me.pc = "advance" /\ Fits(me, Height) /\ me.page \in Pages
      /\ me.state \in States /\ me.state.expected \in Nat
  BY Runner, MemoryFields, StateFields, AdvanceCursorIs DEF Grounded
<1>3. /\ new.pc = "conclude" /\ new.state = s /\ new.owner = me.owner /\ new.more = me.more
      /\ new.early = me.early /\ new.page = me.page
  BY <1>2 DEF Memories
<1>4. run'[r] = new
  BY <1>1, Put
<1>5. run' = [run EXCEPT ![r] = new] /\ new \in Memories
  BY <1>1
<1> HIDE DEF new
<1>6. provider' = provider /\ stored' = stored /\ repair' = repair
  BY DEF AdvanceCursor
<1>7. row'.proof = row.proof /\ (row'.cursor = IF s.active THEN s.cursor ELSE row.cursor)
  <2>1. row \in RowType
    BY RowFields
  <2> QED BY <1>1, <2>1 DEF RowType
<1>8. /\ Height' = Height /\ StoredTxs' = StoredTxs /\ ConfirmedTxs' = ConfirmedTxs
      /\ Single' <=> Single
      /\ Proved(row.proof)'
  BY <1>6, <1>7 DEF Height, StoredTxs, ConfirmedTxs, IsConfirmed, Single, Grounded, Proved
<1>9. /\ s.live = me.state.live /\ s.expected = me.state.expected /\ s.active = me.state.active
      /\ s.strict = me.state.strict
      /\ s.observed = (IF me.state.active THEN me.state.observed \cup PageConfirmed(me) ELSE me.state.observed)
      /\ s.waiting = (me.state.waiting \/ (me.state.active /\ PageConfirmed(me) # DOMAIN me.page))
      /\ s.cursor = IF ExpectedReached(s) THEN 0 ELSE LastConfirmed(PageConfirmed(me))
  BY <1>1 DEF Advanced
<1>10. /\ PageHeld(r) /\ me.state.live /\ me.state.expected <= Height /\ row.proof <= me.state.expected
       /\ me.todo = {}
  BY <1>2 DEF RunnerGrounded, Paged, Counted, PageHeld
<1>11. ASSUME Single, ~me.owner
       PROVE  /\ ~s.waiting /\ s.allowed /\ ~s.strict
              /\ s.active => 1 \in s.observed /\ s.cursor = 0
              /\ ~s.active => me.early /\ 1 \in s.known
  BY <1>1, <1>2, <1>9, <1>11, SinglePage
<1>12. (StoredTxs \subseteq 1 .. Height)'
  BY <1>8 DEF Grounded
<1>13. (Single /\ row.cursor = 1 => repair = "pending" /\ ~Active("manual"))'
  <2> SUFFICES ASSUME Single', row'.cursor = 1 PROVE repair' = "pending" /\ ~Active("manual")'
    OBVIOUS
  <2>1. \A q \in Runners \ {r} : run'[q] = run[q]
    BY <1>5, Put
  <2>2. CASE s.active
    <3>1. me.owner
      BY <1>7, <1>8, <1>11, <2>2
    <3>2. r = "auto" /\ repair = "pending"
      BY <1>2, <3>1 DEF RunnerGrounded, Owned
    <3>3. ~Active("manual")
      BY <1>2, <3>2, OthersIdle DEF Active
    <3> QED BY <1>6, <2>1, <3>2, <3>3 DEF Active
  <2>3. CASE ~s.active
    <3>1. repair = "pending" /\ ~Active("manual")
      BY <1>7, <1>8, <2>3 DEF Grounded
    <3>2. r # "manual"
      BY <1>2, <3>1 DEF Active
    <3> QED BY <1>6, <2>1, <3>1, <3>2 DEF Active
  <2> QED BY <2>2, <2>3
<1>14. Owned(r)' /\ Compared(r)'
  BY <1>2, <1>3, <1>4, <1>6, <1>9 DEF RunnerGrounded, Owned, Compared
<1>15. Counted(r)'
  BY <1>3, <1>4, <1>7, <1>8, <1>9, <1>10 DEF Counted
<1>16. ASSUME Clean(s)
       PROVE  /\ s.observed \subseteq 1 .. s.expected /\ s.observed \subseteq ConfirmedTxs
              /\ s.cursor <= s.expected
  <2>1. Clean(me.state) /\ PageConfirmed(me) = DOMAIN me.page
        /\ s.observed = me.state.observed \cup PageConfirmed(me)
    BY <1>9, <1>16 DEF Clean
  <2>2. /\ PageConfirmed(me) \cup me.state.observed \subseteq 1 .. me.state.expected
        /\ me.state.observed \subseteq ConfirmedTxs
        /\ \A t \in DOMAIN me.page : stored[t] = me.page[t]
    BY <1>10, <2>1 DEF PageHeld
  <2>3. PageConfirmed(me) \subseteq ConfirmedTxs
    <3>1. DOMAIN me.page \subseteq Txs
      BY <1>2, PageFields
    <3> QED BY <2>2, <3>1 DEF PageConfirmed, ConfirmedTxs
  <2>4. LastConfirmed(PageConfirmed(me)) \in {0} \cup PageConfirmed(me)
    BY <1>2, LastConfirmedIs
  <2> QED BY <1>2, <1>9, <2>1, <2>2, <2>3, <2>4
<1>17. Observed(r)'
  BY <1>3, <1>4, <1>8, <1>16 DEF Observed, Clean
<1>18. Paged(r)'
  <2>1. ExpectedReached(s) => row'.cursor = 0
    BY <1>7, <1>9 DEF ExpectedReached
  <2>2. s.cursor # 0 => PageConfirmed(me) # {}
    BY <1>2, <1>9, LastConfirmedIs
  <2>3. PageConfirmed(run[r])' = PageConfirmed(me)
    BY <1>3, <1>4 DEF PageConfirmed
  <2>4. ExpectedReached(run[r].state)' <=> ExpectedReached(s)
    BY <1>3, <1>4 DEF ExpectedReached
  <2> QED BY <1>3, <1>4, <1>17, <2>1, <2>2, <2>3, <2>4 DEF Paged, Between
<1>19. SingleVisit(r)'
  <2>1. ~me.more
    BY <1>2 DEF Fits
  <2>2. ASSUME Single, ~me.owner PROVE EndsAtOnce(r)'
    BY <1>3, <1>4, <1>11, <2>2 DEF EndsAtOnce
  <2> QED BY <1>3, <1>4, <1>8, <2>1, <2>2 DEF SingleVisit, Between
<1>20. RunnerGrounded(r)'
  BY <1>14, <1>15, <1>18, <1>19 DEF RunnerGrounded
<1> QED BY <1>2, <1>5, <1>8, <1>12, <1>13, <1>20, GroundedByStep

\* A part of an interval that is as large as the interval.
LEMMA WholeInterval ==
  ASSUME NEW n \in Nat, NEW S, S \subseteq 1 .. n, Cardinality(S) = n
  PROVE  S = 1 .. n
<1>1. IsFiniteSet(1 .. n) /\ Cardinality(1 .. n) = n
  BY FS_Interval
<1> QED BY <1>1, FS_Subset

LEMMA PublishGrounded ==
  ASSUME ~Overlap, Leases, Bounded, Grounded, NEW r \in Runners, PublishStrict(r) \/ PublishProof(r)
  PROVE  Grounded'
<1> DEFINE me == run[r]
           New(s) == [me EXCEPT !.state = s, !.more = FALSE, !.pc = "finalize"]
           n == me.state.expected
<1>1. PICK s \in States :
         run' = [run EXCEPT ![r] = New(s)] /\ New(s) \in Memories /\ Published(me.state, s)
  BY PublishIs
<1> DEFINE new == New(s)
<1>2. /\ me \in Memories /\ RunnerGrounded(r) /\ me.pc = "conclude" /\ me.state \in States
      /\ n \in Nat
  BY Runner, MemoryFields, StateFields, PublishIs DEF Grounded
<1>3. new.pc = "finalize" /\ new.state = s /\ new.owner = me.owner /\ ~new.more
  BY <1>2 DEF Memories
<1>4. run'[r] = new
  BY <1>1, Put
<1>5. run' = [run EXCEPT ![r] = new] /\ new \in Memories
  BY <1>1
<1> HIDE DEF new
<1>6. provider' = provider /\ stored' = stored /\ repair' = repair
  BY DEF PublishStrict, PublishProof
<1>7. row'.proof = n /\ row'.cursor = row.cursor
  <2>1. row' = [row EXCEPT !.proof = n, !.scan = FALSE] \/ row' = [row EXCEPT !.proof = n]
    BY PublishIs
  <2>2. row \in RowType
    BY RowFields
  <2> HIDE DEF n
  <2> QED BY <2>1, <2>2 DEF RowType
<1>8. Height' = Height /\ StoredTxs' = StoredTxs /\ ConfirmedTxs' = ConfirmedTxs
  BY <1>6 DEF Height, StoredTxs, ConfirmedTxs, IsConfirmed
<1>9. /\ s.live = me.state.live /\ s.expected = n /\ s.active = me.state.active /\ s.waiting = me.state.waiting
      /\ s.strict = me.state.strict /\ s.observed = me.state.observed /\ s.cursor \in {0, me.state.cursor}
  BY <1>1 DEF Published
<1>10. me.state.live /\ n <= Height /\ Observed(r)
  BY <1>2 DEF RunnerGrounded, Paged, Counted
\* What was counted is all that the statistics announced.
<1>11. 1 .. n \subseteq ConfirmedTxs
  <2>1. CASE PublishStrict(r)
    BY <1>7, <2>1, StrictStep
  <2>2. CASE PublishProof(r)
    <3>1. Clean(me.state) /\ Cardinality(me.state.observed) = n
      BY <2>2 DEF PublishProof, ExpectedReached, Clean
    <3>2. me.state.observed \subseteq 1 .. n /\ me.state.observed \subseteq ConfirmedTxs
      BY <1>10, <3>1 DEF Observed
    <3> QED BY <1>2, <3>1, <3>2, WholeInterval
  <2> QED BY <2>1, <2>2
<1>12. Proved(row.proof)'
  BY <1>7, <1>8, <1>11 DEF Proved
<1>13. (StoredTxs \subseteq 1 .. Height)'
  BY <1>8 DEF Grounded
<1>14. (Single /\ row.cursor = 1 => repair = "pending" /\ ~Active("manual"))'
  <2>1. CASE PublishStrict(r)
    <3>1. r = "auto" /\ repair = "pending"
      BY <1>2, <2>1 DEF PublishStrict, StrictEnds, RunnerGrounded, Owned
    <3>2. ~Active("manual")
      BY <1>2, <3>1, OthersIdle DEF Active
    <3>3. \A q \in Runners \ {r} : run'[q] = run[q]
      BY <1>5, Put
    <3> QED BY <1>6, <3>1, <3>2, <3>3 DEF Active
  <2>2. CASE PublishProof(r)
    <3>1. row.cursor = 0
      BY <1>2, <2>2 DEF PublishProof, RunnerGrounded, Paged
    <3> QED BY <1>7, <3>1
  <2> QED BY <2>1, <2>2
<1>15. Owned(r)' /\ Compared(r)'
  BY <1>2, <1>3, <1>4, <1>6, <1>9 DEF RunnerGrounded, Owned, Compared
<1>16. Counted(r)'
  BY <1>2, <1>3, <1>4, <1>7, <1>8, <1>9, <1>10 DEF Counted
<1>17. Observed(r)'
  <2>1. Clean(me.state) => /\ me.state.observed \subseteq 1 .. n
                           /\ me.state.observed \subseteq ConfirmedTxs
                           /\ s.cursor <= n
    BY <1>2, <1>9, <1>10 DEF Observed
  <2> HIDE DEF n
  <2> QED BY <1>3, <1>4, <1>8, <1>9, <2>1 DEF Observed, Clean
<1>18. Paged(r)' /\ SingleVisit(r)'
  BY <1>3, <1>4, <1>17 DEF Paged, SingleVisit, Between
<1>19. RunnerGrounded(r)'
  BY <1>15, <1>16, <1>18 DEF RunnerGrounded
<1> QED BY <1>2, <1>5, <1>12, <1>13, <1>14, <1>19, GroundedByStep

LEMMA RestartStrictGrounded ==
  ASSUME ~Overlap, Leases, Bounded, Grounded, NEW r \in Runners, RestartStrict(r) PROVE Grounded'
<1> DEFINE me == run[r]
           new == [me EXCEPT !.pc = "failure"]
<1>1. me.pc = "conclude" /\ To(r, "failure")
      /\ row' = [row EXCEPT !.proof = None, !.cursor = 0, !.scan = FALSE]
      /\ provider' = provider /\ stored' = stored /\ repair' = repair
  BY DEF RestartStrict
<1>2. /\ me \in Memories /\ RunnerGrounded(r) /\ "failure" \in Running /\ me.state \in States
  BY Runner, MemoryFields DEF Grounded, Running, Visiting
<1>3. run' = [run EXCEPT ![r] = new] /\ new \in Memories
  BY <1>1, <1>2, ToIs
<1>4. /\ new.pc = "failure" /\ new.state = me.state /\ new.owner = me.owner /\ new.more = me.more
  BY <1>2 DEF Memories
<1> HIDE DEF new
<1>5. run'[r] = new
  BY <1>3, Put
<1>6. row'.proof = None /\ row'.cursor = 0 /\ None = -1
  <2>1. row \in RowType
    BY RowFields
  <2> QED BY <1>1, <2>1, Bounds DEF RowType
<1>7. Height' = Height /\ ~Single'
  BY <1>1, <1>6, CalmFacts DEF Single
<1>8. Counted(r)'
  <2>1. me.state.live /\ me.state.expected <= Height /\ me.state.expected \in Nat
    BY <1>1, <1>2, StateFields DEF RunnerGrounded, Counted
  <2> QED BY <1>4, <1>5, <1>6, <1>7, <2>1 DEF Counted
<1>9. RunnerGrounded(r)'
  BY <1>1, <1>2, <1>4, <1>5, <1>7, <1>8 DEF RunnerGrounded, Owned, Compared, Paged, SingleVisit, Between
<1> QED BY <1>1, <1>3, <1>4, <1>6, <1>9, CalmGround

LEMMA PassPageGrounded ==
  ASSUME ~Overlap, Leases, Bounded, Grounded, NEW r \in Runners, PassPage(r) PROVE Grounded'
<1> DEFINE me == run[r]
           New(more) == [me EXCEPT !.more = more, !.pc = "finalize"]
<1>1. PICK more \in BOOLEAN :
         /\ run' = [run EXCEPT ![r] = New(more)] /\ New(more) \in Memories
         /\ more => me.state.cursor # 0 /\ ~EarlyExit(me)
  BY PassPageIs
<1> DEFINE new == New(more)
<1>2. /\ me \in Memories /\ RunnerGrounded(r) /\ me.pc = "conclude" /\ me.state \in States /\ Fits(me, Height)
      /\ me.state.expected \in Nat
  BY Runner, MemoryFields, StateFields, PassPageIs DEF Grounded
<1>3. new.pc = "finalize" /\ new.state = me.state /\ new.owner = me.owner /\ new.more = more
  BY <1>2 DEF Memories
<1>4. run'[r] = new
  BY <1>1, Put
<1>5. run' = [run EXCEPT ![r] = new] /\ new \in Memories
  BY <1>1
<1> HIDE DEF new
<1>6. provider' = provider /\ stored' = stored /\ repair' = repair /\ row' = row
  BY DEF PassPage
<1>7. /\ Height' = Height /\ ConfirmedTxs' = ConfirmedTxs
      /\ Single' => Single
  BY <1>6, CalmFacts
<1>8. me.state.live /\ me.state.expected <= Height /\ Observed(r)
  BY <1>2 DEF RunnerGrounded, Counted, Paged
<1>9. Owned(r)' /\ Compared(r)' /\ Counted(r)'
  BY <1>2, <1>3, <1>4, <1>6, <1>7 DEF RunnerGrounded, Owned, Compared, Counted
<1>10. Paged(r)'
  BY <1>3, <1>4, <1>7, <1>8 DEF Paged, Observed, Between
\* The count is reached, or every transaction of the page was known.
<1>11. ASSUME Single, ~me.owner, more PROVE FALSE
  <2>1. EndsAtOnce(r) /\ Height = 1
    BY <1>2, <1>11 DEF RunnerGrounded, SingleVisit, Single
  <2>2. ~ExpectedReached(me.state)
    BY <2>1, PassPageIs DEF EndsAtOnce
  <2>3. CASE me.state.active
    <3>1. me.state.observed \subseteq 1 .. me.state.expected /\ 1 \in me.state.observed
      BY <1>8, <2>1, <2>3 DEF EndsAtOnce, Observed, Clean
    <3>2. me.state.observed = {1} /\ me.state.expected = 1
      BY <1>2, <1>8, <2>1, <3>1
    <3>3. Cardinality({1}) = 1
      BY FS_Singleton
    <3> QED BY <2>1, <2>2, <2>3, <3>2, <3>3 DEF ExpectedReached, EndsAtOnce
  <2>4. CASE ~me.state.active
    <3>1. me.early /\ 1 \in me.state.known /\ ~me.state.strict
      BY <2>1, <2>4 DEF EndsAtOnce
    <3>2. PageConfirmed(me) # {}
      BY <1>1, <1>2, <1>11, <3>1 DEF RunnerGrounded, Paged
    <3>3. PageConfirmed(me) \subseteq {1}
      BY <1>2, <2>1 DEF Fits, PageConfirmed
    <3> QED BY <1>1, <1>11, <2>4, <3>1, <3>2, <3>3 DEF EarlyExit
  <2> QED BY <2>3, <2>4
<1>12. SingleVisit(r)'
  BY <1>3, <1>4, <1>7, <1>11 DEF SingleVisit, Between
<1>13. RunnerGrounded(r)'
  BY <1>9, <1>10, <1>12 DEF RunnerGrounded
<1>14. row'.cursor \in {0, row.cursor} /\ row'.proof \in {None, row.proof}
  BY <1>6
<1> QED BY <1>2, <1>3, <1>5, <1>6, <1>13, <1>14, CalmGround

\* The steps that change nothing in a memory but where it is.
LEMMA MovedGround ==
  ASSUME ~Overlap, Leases, Bounded, Grounded, NEW r \in Runners, NEW pc \in Running, To(r, pc),
         \/ pc = "failure" /\ run[r].pc \in {"stats", "page", "reconcile"}
         \/ pc = "success" /\ run[r].pc = "finalize"
         \/ pc = "refresh" /\ run[r].pc = "rebuild",
         UNCHANGED <<provider, stored, repair>>, row'.cursor \in {0, row.cursor}, row'.proof = row.proof
  PROVE  Grounded'
<1> DEFINE me == run[r]
           new == [me EXCEPT !.pc = pc]
<1>1. me \in Memories /\ RunnerGrounded(r) /\ run' = [run EXCEPT ![r] = new] /\ new \in Memories
  BY Runner, ToIs DEF Grounded
<1>2. new.pc = pc /\ new.state = me.state /\ new.owner = me.owner /\ new.more = me.more
  BY <1>1 DEF Memories
<1>3. run'[r] = new
  BY <1>1, Put
<1> HIDE DEF new
<1>4. /\ Height' = Height /\ ConfirmedTxs' = ConfirmedTxs
      /\ Single' => Single
  BY CalmFacts
<1>5. Owned(r)' /\ Compared(r)' /\ Counted(r)'
  BY <1>1, <1>2, <1>3, <1>4 DEF RunnerGrounded, Owned, Compared, Counted
<1>6. Paged(r)' /\ SingleVisit(r)'
  BY <1>1, <1>2, <1>3, <1>4 DEF RunnerGrounded, Paged, Observed, SingleVisit, Between
<1>7. RunnerGrounded(r)'
  BY <1>5, <1>6 DEF RunnerGrounded
<1> QED BY <1>1, <1>2, <1>7, CalmGround

LEMMA FinalizeGrounded ==
  ASSUME ~Overlap, Leases, Bounded, Grounded, NEW r \in Runners, Finalize(r) PROVE Grounded'
<1>1. run[r].pc = "finalize" /\ To(r, "success")
      /\ (row' = [row EXCEPT !.cursor = 0, !.expected = None] \/ row' = row)
      /\ UNCHANGED <<provider, stored, repair>>
  BY DEF Finalize
<1>2. row'.cursor \in {0, row.cursor} /\ row'.proof = row.proof
  <2>1. row \in RowType
    BY RowFields
  <2> QED BY <1>1, <2>1 DEF RowType
<1>3. "success" \in Running
  BY DEF Running, Visiting
<1> QED BY <1>1, <1>2, <1>3, MovedGround

LEMMA FailCallGrounded ==
  ASSUME ~Overlap, Leases, Bounded, Grounded, NEW r \in Runners, FailCall(r) PROVE Grounded'
<1>1. run[r].pc \in {"stats", "page", "reconcile"} /\ To(r, "failure")
      /\ UNCHANGED <<provider, stored, repair>> /\ row' = row
  BY DEF FailCall
<1>2. "failure" \in Running
  BY DEF Running, Visiting
<1> QED BY <1>1, <1>2, MovedGround

LEMMA RebuildLedgerGrounded ==
  ASSUME ~Overlap, Leases, Bounded, Grounded, NEW r \in Runners, RebuildLedger(r) PROVE Grounded'
<1>1. run[r].pc = "rebuild" /\ To(r, "refresh")
  BY RebuildLedgerIs
<1>2. UNCHANGED <<provider, stored, repair>> /\ row' = row
  BY DEF RebuildLedger
<1>3. "refresh" \in Running
  BY DEF Running, Visiting
<1> QED BY <1>1, <1>2, <1>3, MovedGround

LEMMA MarkSuccessGrounded ==
  ASSUME ~Overlap, Leases, Bounded, Grounded, NEW r \in Runners, MarkSuccess(r) PROVE Grounded'
<1> DEFINE me == run[r]
           New(s, u, v) == [me EXCEPT !.state = s, !.unavailable = u, !.touched = v, !.pc = "rebuild"]
<1>1. PICK s \in States, u \in BOOLEAN, v \in BOOLEAN :
         /\ run' = [run EXCEPT ![r] = New(s, u, v)] /\ New(s, u, v) \in Memories
         /\ s = IF me.more THEN me.state ELSE NoState
  BY MarkSuccessIs
<1> DEFINE new == New(s, u, v)
<1>2. me \in Memories /\ RunnerGrounded(r) /\ me.pc = "success"
  BY Runner, MarkSuccessIs DEF Grounded
<1>3. new.pc = "rebuild" /\ new.state = s /\ new.owner = me.owner /\ new.more = me.more
  BY <1>2 DEF Memories
<1>4. run'[r] = new
  BY <1>1, Put
<1>5. run' = [run EXCEPT ![r] = new] /\ new \in Memories
  BY <1>1
<1> HIDE DEF new
<1>6. row' = [row EXCEPT !.open = FALSE, !.result = "success", !.tip = TRUE]
      /\ provider' = provider /\ stored' = stored /\ repair' = repair
  BY DEF MarkSuccess
<1>7. row'.cursor = row.cursor /\ row'.proof = row.proof
  BY <1>6, RowFields DEF RowType
<1>8. /\ Height' = Height /\ ConfirmedTxs' = ConfirmedTxs
      /\ Single' => Single
  BY <1>6, <1>7, CalmFacts
<1>9. (s.live => me.more /\ s = me.state) /\ (s.strict => me.state.strict)
  BY <1>1, NoStateTyped
<1>10. Owned(r)' /\ Compared(r)' /\ Counted(r)'
  BY <1>2, <1>3, <1>4, <1>6, <1>7, <1>8, <1>9 DEF RunnerGrounded, Owned, Compared, Counted
<1>11. Paged(r)'
  BY <1>2, <1>3, <1>4, <1>8, <1>9 DEF RunnerGrounded, Paged, Observed, Between
<1>12. SingleVisit(r)'
  BY <1>2, <1>3, <1>4, <1>8, <1>9 DEF RunnerGrounded, SingleVisit, Between
<1>13. RunnerGrounded(r)'
  BY <1>10, <1>11, <1>12 DEF RunnerGrounded
<1> QED BY <1>2, <1>3, <1>5, <1>6, <1>7, <1>13, CalmGround

LEMMA MarkFailureGrounded ==
  ASSUME ~Overlap, Leases, Bounded, Grounded, NEW r \in Runners, MarkFailure(r) PROVE Grounded'
<1> DEFINE me == run[r]
           New(u, v) == [me EXCEPT !.state = NoState, !.failed = TRUE, !.unavailable = u, !.touched = v,
                                   !.pc = "rebuild"]
<1>1. PICK u \in BOOLEAN, v \in BOOLEAN : run' = [run EXCEPT ![r] = New(u, v)] /\ New(u, v) \in Memories
  BY MarkFailureIs
<1> DEFINE new == New(u, v)
<1>2. me \in Memories /\ RunnerGrounded(r) /\ me.pc = "failure"
  BY Runner, MarkFailureIs DEF Grounded
<1>3. new.pc = "rebuild" /\ new.state = NoState /\ new.owner = me.owner /\ new.more = me.more
  BY <1>2 DEF Memories
<1>4. run'[r] = new
  BY <1>1, Put
<1>5. run' = [run EXCEPT ![r] = new] /\ new \in Memories
  BY <1>1
<1> HIDE DEF new
<1>6. provider' = provider /\ stored' = stored /\ repair' = repair
  BY DEF MarkFailure
<1>7. row'.cursor = row.cursor /\ row'.proof \in {None, row.proof}
  BY MarkFailureIs
<1>8. Single' => Single
  BY <1>6, <1>7, CalmFacts
<1>9. RunnerGrounded(r)'
  BY <1>2, <1>3, <1>4, <1>6, <1>8, NoStateTyped
     DEF RunnerGrounded, Owned, Compared, Counted, Paged, SingleVisit, Between
<1> QED BY <1>2, <1>3, <1>5, <1>6, <1>7, <1>9, CalmGround

LEMMA RefreshAccountGrounded ==
  ASSUME ~Overlap, Leases, Bounded, Grounded, NEW r \in Runners, RefreshAccount(r) PROVE Grounded'
<1> DEFINE me == run[r]
           new == Rested(me)
<1>1. me.pc = "refresh" /\ run' = [run EXCEPT ![r] = new] /\ me \in Memories /\ RunnerGrounded(r)
  BY Runner, RefreshAccountIs DEF Grounded
<1>2. provider' = provider /\ stored' = stored /\ repair' = repair /\ row' = row
  BY DEF RefreshAccount
<1>3. new \in Memories /\ new.pc = "finish" /\ new.state = me.state /\ new.owner = me.owner /\ ~new.more
  BY <1>1, RestedFields
<1> HIDE DEF new
<1>4. run'[r] = new
  BY <1>1, <1>3, Put
<1>5. /\ Height' = Height /\ ConfirmedTxs' = ConfirmedTxs
      /\ Single' => Single
  BY <1>2, CalmFacts
<1>6. Owned(r)' /\ Compared(r)' /\ Counted(r)'
  BY <1>1, <1>2, <1>3, <1>4, <1>5 DEF RunnerGrounded, Owned, Compared, Counted
<1>7. Paged(r)' /\ SingleVisit(r)'
  BY <1>1, <1>2, <1>3, <1>4, <1>5 DEF RunnerGrounded, Paged, Observed, SingleVisit, Between
<1>8. RunnerGrounded(r)'
  BY <1>6, <1>7 DEF RunnerGrounded
<1>9. row'.cursor \in {0, row.cursor} /\ row'.proof \in {None, row.proof}
  BY <1>2
<1> QED BY <1>1, <1>2, <1>3, <1>8, <1>9, CalmGround

\* A cursor left behind an address's only, proved transaction is a repair's.
LEMMA CursorIsRepairs ==
  ASSUME Bounded, Grounded, Single, row.cursor = 1
  PROVE  RepairOwnsAccount
<1>1. 1 \in ConfirmedTxs /\ repair = "pending"
  BY SingleConfirmed DEF Grounded
<1> QED BY <1>1 DEF RepairOwnsAccount, CandidateComplete

\* A run that starts, or that loads the address again, finds a sound snapshot.
LEMMA SnapshotSound ==
  ASSUME Bounded, Grounded, NEW r \in Runners, UNCHANGED <<provider, stored, row>>,
         run'[r].snap = Snapshot, run'[r].pc = "start",
         ~run'[r].owner => ~(Single /\ row.cursor = 1)
  PROVE  SnapSound(r)'
<1>1. Height' = Height /\ ConfirmedTxs' = ConfirmedTxs
  BY DEF Height, ConfirmedTxs, IsConfirmed
<1>2. Snapshot.proof = row.proof /\ Snapshot.cursor = row.cursor
  BY SnapshotTyped
<1>3. \A k : Proved(k)' <=> Proved(k)
  BY <1>1 DEF Proved
<1>4. Proved(run[r].snap.proof)'
  BY <1>2, <1>3 DEF Grounded
<1> QED BY <1>1, <1>2, <1>4 DEF SnapSound, Single

LEMMA StartedGround ==
  ASSUME Bounded, Grounded, NEW r \in Runners, NEW owner \in BOOLEAN, NEW left \in Int,
         run' = [run EXCEPT ![r] = Started(owner, left)],
         UNCHANGED <<provider, stored, repair, row>>,
         owner => r = "auto" /\ repair = "pending",
         ~owner => ~(Single /\ row.cursor = 1),
         r = "manual" => ~owner
  PROVE  Grounded'
<1> DEFINE new == Started(owner, left)
<1>1. /\ new \in Memories /\ new.pc = "start" /\ new.owner = owner /\ new.snap = Snapshot /\ new.state = NoState
      /\ ~new.more
  BY StartedFields
<1> HIDE DEF new
<1>2. /\ run'[r] = new
      /\ \A q \in Runners \ {r} : run'[q] = run[q]
  BY <1>1, Put DEF new
<1>3. /\ Height' = Height /\ StoredTxs' = StoredTxs /\ ConfirmedTxs' = ConfirmedTxs /\ provider' = provider
      /\ stored' = stored /\ row' = row /\ repair' = repair
      /\ Single' <=> Single
      /\ Proved(row.proof)' <=> Proved(row.proof)
  BY DEF Height, StoredTxs, ConfirmedTxs, IsConfirmed, Single, Proved
<1>4. SnapSound(r)'
  BY <1>1, <1>2, SnapshotSound
<1>5. RunnerGrounded(r)'
  BY <1>1, <1>2, <1>3, <1>4, NoStateTyped
     DEF RunnerGrounded, Owned, Compared, Counted, Paged, SingleVisit, Between
<1>6. ASSUME NEW q \in Runners \ {r} PROVE RunnerGrounded(q)'
  <2>1. RunnerGrounded(q) /\ run'[q] = run[q]
    BY <1>2 DEF Grounded
  <2>2. Owned(q)' /\ Counted(q)'
    BY <1>3, <2>1 DEF RunnerGrounded, Owned, Counted
  <2>3. Compared(q)'
    BY <1>3, <2>1 DEF RunnerGrounded, Compared, SnapSound, Fresh, Proved
  <2>4. Paged(q)'
    BY <1>3, <2>1 DEF RunnerGrounded, Paged, Observed, Fresh, PageHeld, ExpectedReached, PageConfirmed
  <2>5. SingleVisit(q)'
    BY <1>3, <2>1 DEF RunnerGrounded, SingleVisit, EndsAtOnce
  <2> QED BY <2>2, <2>3, <2>4, <2>5 DEF RunnerGrounded
<1>7. \A q \in Runners : RunnerGrounded(q)'
  BY <1>5, <1>6
<1>8. (Single /\ row.cursor = 1 => repair = "pending" /\ ~Active("manual"))'
  <2> SUFFICES ASSUME Single, row.cursor = 1 PROVE repair = "pending" /\ ~Active("manual")'
    BY <1>3
  <2>1. repair = "pending" /\ ~Active("manual") /\ r # "manual"
    BY DEF Grounded
  <2> QED BY <1>2, <2>1 DEF Active
<1>9. (StoredTxs \subseteq 1 .. Height)' /\ Proved(row.proof)'
  BY <1>3 DEF Grounded
<1> QED BY <1>7, <1>8, <1>9 DEF Grounded

LEMMA StartAutomaticGrounded == ASSUME Bounded, Grounded, StartAutomatic PROVE Grounded'
<1> DEFINE owner == RepairOwnsAccount
<1>1. run' = [run EXCEPT !["auto"] = Started(owner, 0)]
  BY StartAutomaticIs
<1>2. UNCHANGED <<provider, stored, repair, row>>
  BY DEF StartAutomatic
<1>3. owner => repair = "pending"
  BY DEF RepairOwnsAccount
<1>4. ~owner => ~(Single /\ row.cursor = 1)
  BY CursorIsRepairs
<1>5. owner \in BOOLEAN /\ "auto" \in Runners /\ 0 \in Int /\ "auto" # "manual"
  BY OwnsBoolean, RunnersAre
<1> HIDE DEF owner
<1>6. owner => "auto" = "auto" /\ repair = "pending"
  BY <1>3
<1>7. "auto" = "manual" => ~owner
  BY <1>5
<1> QED BY <1>1, <1>2, <1>4, <1>5, <1>6, <1>7, StartedGround

LEMMA StartManualGrounded == ASSUME Bounded, Grounded, Manual, StartManual PROVE Grounded'
<1>1. run' = [run EXCEPT !["manual"] = Started(FALSE, Iterations - 1)]
  BY StartManualIs
<1>2. UNCHANGED <<provider, stored, repair, row>> /\ ~RepairOwnsAccount
  BY DEF StartManual
<1>3. ~(Single /\ row.cursor = 1)
  BY <1>2, CursorIsRepairs
<1>4. "manual" \in Runners /\ Iterations - 1 \in Int /\ FALSE \in BOOLEAN
  BY RunnersAre, Bounds
<1> QED BY <1>1, <1>2, <1>3, <1>4, StartedGround

LEMMA NextIterationGrounded ==
  ASSUME ~Overlap, Leases, Bounded, Grounded, Manual, NextIteration PROVE Grounded'
<1> DEFINE me == run["manual"]
           new == [me EXCEPT !.pc = "start", !.snap = Snapshot, !.left = me.left - 1]
<1>1. me.pc = "finish" /\ run' = [run EXCEPT !["manual"] = new] /\ new \in Memories
  BY NextIterationIs
<1>2. "manual" \in Runners /\ me \in Memories /\ RunnerGrounded("manual")
  BY Runner DEF Runners, Grounded
<1>3. /\ new.pc = "start" /\ new.snap = Snapshot /\ new.state = me.state /\ new.owner = me.owner
      /\ new.more = me.more
  BY <1>2 DEF Memories
<1> HIDE DEF new
<1>4. provider' = provider /\ stored' = stored /\ row' = row /\ repair' = repair
  BY DEF NextIteration
<1>5. run'["manual"] = new
  BY <1>1, <1>2, Put
<1>6. /\ Height' = Height /\ ConfirmedTxs' = ConfirmedTxs
      /\ Single' => Single
  BY <1>4, CalmFacts
<1>7. ~me.owner /\ ~(Single /\ row.cursor = 1)
  BY <1>1, <1>2 DEF Grounded, Active, RunnerGrounded, Owned
<1>8. SnapSound("manual")'
  BY <1>2, <1>3, <1>4, <1>5, <1>7, SnapshotSound
<1>9. Owned("manual")' /\ Compared("manual")' /\ Counted("manual")'
  BY <1>1, <1>2, <1>3, <1>4, <1>5, <1>6, <1>8 DEF RunnerGrounded, Owned, Compared, Counted
<1>10. Paged("manual")' /\ SingleVisit("manual")'
  BY <1>1, <1>2, <1>3, <1>4, <1>5, <1>6 DEF RunnerGrounded, Paged, Observed, SingleVisit, Between
<1>11. RunnerGrounded("manual")'
  BY <1>9, <1>10 DEF RunnerGrounded
<1>12. row'.cursor \in {0, row.cursor} /\ row'.proof \in {None, row.proof}
  BY <1>4
<1>13. me.pc # "idle" /\ new.pc # "idle"
  BY <1>1, <1>3
<1> QED BY <1>1, <1>2, <1>4, <1>11, <1>12, <1>13, CalmGround

\* A run that ends leaves nothing in memory.
LEMMA FinishGround ==
  ASSUME ~Overlap, Leases, Bounded, Grounded, NEW r \in Runners, run[r].pc # "idle",
         run' = [run EXCEPT ![r] = Idle], UNCHANGED <<provider, stored, row>>,
         repair' = repair \/ ~RepairOwnsAccount
  PROVE  Grounded'
<1>1. Idle \in Memories /\ run'[r] = Idle
  BY IdleTyped, Put
<1>2. /\ Height' = Height /\ StoredTxs' = StoredTxs /\ ConfirmedTxs' = ConfirmedTxs /\ row' = row
      /\ Single' <=> Single
      /\ Proved(row.proof)' <=> Proved(row.proof)
  BY DEF Height, StoredTxs, ConfirmedTxs, IsConfirmed, Single, Proved
<1>3. (StoredTxs \subseteq 1 .. Height)' /\ Proved(row.proof)'
  BY <1>2 DEF Grounded
<1>4. Active("manual")' => Active("manual")
  <2>1. \A q \in Runners : run'[q].pc # "idle" => run[q].pc # "idle"
    BY <1>1, IdleTyped, Put
  <2> QED BY <2>1 DEF Active
<1>5. (Single /\ row.cursor = 1 => repair = "pending" /\ ~Active("manual"))'
  <2> SUFFICES ASSUME Single, row.cursor = 1 PROVE repair' = "pending" /\ ~Active("manual")'
    BY <1>2
  <2>1. repair = "pending" /\ ~Active("manual") /\ RepairOwnsAccount
    BY CursorIsRepairs DEF Grounded
  <2> QED BY <1>4, <2>1
<1>6. RunnerGrounded(r)'
  BY <1>1, IdleTyped, NoStateTyped
     DEF RunnerGrounded, Owned, Compared, Counted, Paged, SingleVisit, Between
<1> QED BY <1>1, <1>3, <1>5, <1>6, GroundedByStep

LEMMA FinishManualGrounded ==
  ASSUME ~Overlap, Leases, Bounded, Grounded, Manual, FinishManual PROVE Grounded'
<1>1. "manual" \in Runners /\ run["manual"].pc # "idle"
  BY DEF Runners, FinishManual
<1>2. run' = [run EXCEPT !["manual"] = Idle] /\ UNCHANGED <<provider, stored, row>> /\ repair' = repair
  BY DEF FinishManual
<1> QED BY <1>1, <1>2, FinishGround

LEMMA FinishAutomaticGrounded ==
  ASSUME ~Overlap, Leases, Bounded, Grounded, FinishAutomatic PROVE Grounded'
<1>1. "auto" \in Runners /\ run["auto"].pc # "idle"
  BY RunnersAre DEF FinishAutomatic
<1>2. run' = [run EXCEPT !["auto"] = Idle] /\ UNCHANGED <<provider, stored, row>>
  BY DEF FinishAutomatic
<1>3. repair' = repair \/ ~RepairOwnsAccount
  BY DEF FinishAutomatic
<1> QED BY <1>1, <1>2, <1>3, FinishGround

LEMMA CrashGrounded == ASSUME Bounded, Grounded, Crash PROVE Grounded'
<1>1. run' = [r \in Runners |-> Idle] /\ UNCHANGED <<provider, stored, row, repair>>
  BY DEF Crash
<1>2. /\ Height' = Height /\ StoredTxs' = StoredTxs /\ ConfirmedTxs' = ConfirmedTxs /\ row' = row
      /\ repair' = repair
      /\ Single' <=> Single
      /\ Proved(row.proof)' <=> Proved(row.proof)
  BY <1>1 DEF Height, StoredTxs, ConfirmedTxs, IsConfirmed, Single, Proved
<1>3. ~Active("manual")'
  BY <1>1, IdleTyped DEF Active
<1>4. ASSUME NEW r \in Runners PROVE RunnerGrounded(r)'
  <2>1. run'[r] = Idle
    BY <1>1
  <2> QED BY <2>1, IdleTyped, NoStateTyped
          DEF RunnerGrounded, Owned, Compared, Counted, Paged, SingleVisit, Between
<1> QED BY <1>2, <1>3, <1>4 DEF Grounded

LEMMA UnchangedGrounded ==
  ASSUME Grounded, UNCHANGED <<provider, stored, row, repair, run>> PROVE Grounded'
<1>1. provider' = provider /\ stored' = stored /\ row' = row /\ repair' = repair /\ run' = run
  OBVIOUS
<1>2. /\ Height' = Height /\ StoredTxs' = StoredTxs /\ ConfirmedTxs' = ConfirmedTxs
      /\ Single' <=> Single
      /\ Active("manual")' <=> Active("manual")
      /\ \A n : Proved(n)' <=> Proved(n)
  BY <1>1 DEF Height, StoredTxs, ConfirmedTxs, IsConfirmed, Single, Proved, Active
<1>3. ASSUME NEW r \in Runners PROVE RunnerGrounded(r)'
  <2>1. RunnerGrounded(r)
    BY DEF Grounded
  <2>2. Owned(r)' /\ Counted(r)'
    BY <1>1, <1>2, <2>1 DEF RunnerGrounded, Owned, Counted
  <2>3. Compared(r)'
    BY <1>1, <1>2, <2>1 DEF RunnerGrounded, Compared, SnapSound, Fresh
  <2>4. Paged(r)'
    BY <1>1, <1>2, <2>1 DEF RunnerGrounded, Paged, Observed, Fresh, PageHeld, ExpectedReached, PageConfirmed
  <2>5. SingleVisit(r)'
    BY <1>1, <1>2, <2>1 DEF RunnerGrounded, SingleVisit, EndsAtOnce
  <2> QED BY <2>2, <2>3, <2>4, <2>5 DEF RunnerGrounded
<1> QED BY <1>1, <1>2, <1>3 DEF Grounded

\* The address changes while no visit stands between its statistics and its first page.
LEMMA ProviderGrounded == ASSUME Quiet, Bounded, Grounded, ProviderStep PROVE Grounded'
<1>1. /\ stored' = stored /\ row' = row /\ repair' = repair /\ run' = run
      /\ Height' \in Nat /\ Height <= Height' /\ ProviderMay
  BY ProviderStepIs
<1>2. \A r \in Runners : run[r].pc \notin {"proof", "prepare", "page"}
  BY <1>1 DEF ProviderMay, BetweenStatsAndPage
<1>3. StoredTxs' = StoredTxs /\ ConfirmedTxs' = ConfirmedTxs /\ Height \in Nat
  BY <1>1, HeightIs DEF StoredTxs, ConfirmedTxs, IsConfirmed
<1>4. \A n : Proved(n)' <=> Proved(n)
  BY <1>3 DEF Proved
<1>5. StoredTxs \subseteq 1 .. Height /\ Proved(row.proof)
  BY DEF Grounded
\* The first transaction is not proved before it is announced.
<1>6. ASSUME NEW n \in Int, Proved(n), Height' = 1, n = 1 PROVE Height = 1
  <2>1. n <= Height
    BY <1>5, <1>6, ProofHeight
  <2> QED BY <1>1, <1>3, <1>6, <2>1
<1>7. Single' => Single
  <2>1. row.proof \in Int
    BY RowFields, Bounds
  <2> QED BY <1>1, <1>5, <1>6, <2>1 DEF Single
<1>8. ASSUME NEW r \in Runners PROVE RunnerGrounded(r)'
  <2> DEFINE me == run[r]
  <2>1. RunnerGrounded(r) /\ me.pc \notin {"proof", "prepare", "page"} /\ me \in Memories
    BY <1>2, Runner DEF Grounded
  <2>2. Owned(r)'
    BY <1>1, <2>1 DEF RunnerGrounded, Owned
  <2>3. Compared(r)'
    <3> SUFFICES ASSUME me.pc \in {"start", "gate", "stats"} PROVE SnapSound(r)'
      BY <1>1, <2>1 DEF Compared
    <3>1. SnapSound(r) /\ me.snap.proof \in Int
      BY <2>1, MemoryFields, SnapFields DEF RunnerGrounded, Compared
    <3>2. Proved(me.snap.proof)'
      BY <1>1, <1>4, <3>1 DEF SnapSound
    <3>3. Height' = 1 /\ me.snap.proof = 1 => Height = 1
      BY <1>6, <3>1 DEF SnapSound
    <3> QED BY <1>1, <3>1, <3>2, <3>3 DEF SnapSound
  <2>4. Counted(r)'
    <3>1. me.state.expected \in Int
      BY <2>1, MemoryFields, StateFields
    <3> QED BY <1>1, <1>3, <2>1, <3>1 DEF RunnerGrounded, Counted
  <2>5. Paged(r)'
    BY <1>1, <1>3, <2>1 DEF RunnerGrounded, Paged, Observed, PageHeld, ExpectedReached, PageConfirmed
  <2>6. SingleVisit(r)'
    BY <1>1, <1>7, <2>1 DEF RunnerGrounded, SingleVisit, EndsAtOnce
  <2> QED BY <2>2, <2>3, <2>4, <2>5, <2>6 DEF RunnerGrounded
<1>9. (StoredTxs \subseteq 1 .. Height)' /\ Proved(row.proof)'
  <2>1. 1 .. Height \subseteq 1 .. Height'
    BY <1>1, <1>3
  <2> QED BY <1>1, <1>3, <1>4, <1>5, <2>1
<1>10. (Single /\ row.cursor = 1 => repair = "pending" /\ ~Active("manual"))'
  <2>1. Active("manual")' <=> Active("manual")
    BY <1>1 DEF Active
  <2> QED BY <1>1, <1>7, <2>1 DEF Grounded
<1> QED BY <1>8, <1>9, <1>10 DEF Grounded

-----------------------------------------------------------------------------
\* Nothing is proved that is not stored

LEMMA GroundedInit == Init => Grounded
<1> SUFFICES ASSUME Init PROVE Grounded
  OBVIOUS
<1>1. Bounded
  BY BoundedInit
<1>2. \A r \in Runners : run[r] = Idle
  BY DEF Init
<1>3. row.proof = None
  BY DEF Init
<1>4. StoredTxs \subseteq 1 .. provider.confirmed
  BY Bounds DEF Init, StoredTxs
<1>5. StoredTxs \subseteq 1 .. Height
  BY <1>1, <1>4, HeightIs
<1>6. ~Single /\ Proved(row.proof)
  BY <1>3, Bounds DEF Single, Proved
<1> QED BY <1>2, <1>5, <1>6, IdleGrounded DEF Grounded

LEMMA GroundedStep ==
  ASSUME ~Overlap, Leases, Bounded, Grounded, NEW r \in Runners, Step(r) \/ SkipVisit(r) \/ FailCall(r)
  PROVE  Grounded'
BY OpenAccountGrounded, BeginVisitGrounded, FetchStatsGrounded, SettleProofGrounded, PrepareGrounded,
   FetchPageGrounded, ReconcileNextGrounded, InvalidatePageGrounded, AdvanceCursorGrounded, PublishGrounded,
   RestartStrictGrounded, PassPageGrounded, FinalizeGrounded, MarkSuccessGrounded, MarkFailureGrounded,
   RebuildLedgerGrounded, RefreshAccountGrounded, SkipVisitGrounded, FailCallGrounded DEF Step

LEMMA GroundedNext ==
  ASSUME Quiet, ~Overlap, Leases, Bounded, Grounded, [Next]_vars PROVE Grounded'
<1>1. CASE UNCHANGED vars
  BY <1>1, UnchangedGrounded DEF vars
<1>2. CASE Next
  <2>1. CASE \E r \in Runners : Step(r) \/ SkipVisit(r) \/ FailCall(r)
    BY <2>1, GroundedStep
  <2>2. CASE Manual /\ (StartManual \/ NextIteration \/ FinishManual)
    BY <2>2, StartManualGrounded, NextIterationGrounded, FinishManualGrounded
  <2>3. CASE StartAutomatic \/ FinishAutomatic \/ Crash
    BY <2>3, StartAutomaticGrounded, FinishAutomaticGrounded, CrashGrounded
  <2>4. CASE Broadcast \/ Confirm \/ Reorganise
    BY <2>4, ProviderGrounded DEF ProviderStep
  <2>5. CASE Upgrade
    BY <2>5, UnchangedGrounded DEF Upgrade
  <2> QED BY <1>2, <2>1, <2>2, <2>3, <2>4, <2>5 DEF Next
<1> QED BY <1>1, <1>2

\* Every stored transaction is announced, the proof counts confirmed ones, and
\* what each visit carries from call to call is about the address as it is
\* (ensure_initialized, run_mempool_iteration).
THEOREM GroundsHold ==
  ASSUME Quiet, ~Overlap
  PROVE  Spec => []Grounded
<1>1. Leases /\ Bounded /\ Grounded /\ [Next]_vars => Grounded'
  BY GroundedNext
<1> QED BY <1>1, GroundedInit, LeasesHold, BoundsHold, PTL DEF Spec

\* A proof of n transactions counts n that are stored, whatever cursors, pages,
\* restarts, reorganisations and crashes led to it, if the address does not
\* change between a visit's statistics and its first page.
THEOREM ProofsStandOnStored ==
  ASSUME Quiet, ~Overlap
  PROVE  Spec => []ProofStandsOnStored
<1>1. Bounded /\ Grounded => ProofStandsOnStored
  <2> SUFFICES ASSUME Grounded PROVE ProofStandsOnStored
    OBVIOUS
  <2>1. ConfirmedTxs \subseteq StoredTxs
    BY DEF ConfirmedTxs, StoredTxs, IsConfirmed
  <2> QED BY <2>1 DEF Grounded, Proved, ProofStandsOnStored
<1> QED BY <1>1, BoundsHold, GroundsHold, PTL

\* An account reported complete holds as confirmed exactly the transactions its
\* proof counts (load_bitcoin_account_history_coverage).
THEOREM CompleteIsConfirmed ==
  ASSUME Quiet, ~Overlap
  PROVE  Spec => []CompleteMeansConfirmed
<1>1. Bounded /\ Grounded => CompleteMeansConfirmed
  <2> SUFFICES ASSUME Bounded, Grounded, Complete PROVE ConfirmedTxs = 1 .. row.proof
    BY DEF CompleteMeansConfirmed
  <2>1. row.proof # None /\ row.proof = Cardinality(ConfirmedTxs) /\ row.proof \in None .. MaxTxs
    BY RowFields DEF Complete, CandidateComplete
  <2>2. row.proof \in Nat /\ 1 .. row.proof \subseteq ConfirmedTxs
    BY <2>1, Bounds DEF Grounded, Proved
  <2>3. IsFiniteSet(ConfirmedTxs)
    BY Bounds, FS_Interval, FS_Subset DEF ConfirmedTxs
  <2>4. Cardinality(1 .. row.proof) = row.proof
    BY <2>2, FS_Interval
  <2> QED BY <2>1, <2>2, <2>3, <2>4, FS_Subset
<1> QED BY <1>1, BoundsHold, GroundsHold, PTL

-----------------------------------------------------------------------------
\* The proof refines the claim over a downloaded history

Claimed == IF row.proof = None THEN {} ELSE 1 .. row.proof

LEMMA StoreStep ==
  ASSUME Bounded, StoredTxs \subseteq StoredTxs', row'.proof = row.proof
  PROVE  Claim!Store
<1>1. StoredTxs' = StoredTxs \cup StoredTxs' /\ StoredTxs' \in SUBSET Txs
  BY DEF StoredTxs
<1> QED BY <1>1 DEF Claim!Store

LEMMA ClaimStep ==
  ASSUME Bounded, Bounded', Grounded', StoredTxs \subseteq StoredTxs',
         StoredTxs' = StoredTxs \/ row'.proof = row.proof,
         row'.proof \in {None, 0} \/ row.proof <= row'.proof
  PROVE  Claim!Next
<1>1. CASE row'.proof = row.proof
  BY <1>1, StoreStep DEF Claim!Next
<1>2. CASE row'.proof # row.proof
  <2>1. StoredTxs' = StoredTxs /\ row.proof \in Int /\ row'.proof \in Int /\ None = -1
    BY <1>2, RowFields, Bounds DEF Bounded, TypeOK
  <2>2. CASE row'.proof \in {None, 0}
    <3>1. Claimed' = {}
      BY <2>1, <2>2 DEF Claimed
    <3> QED BY <2>1, <3>1 DEF Claim!Next, Claim!Withdraw, Claimed
  <2>3. CASE row.proof <= row'.proof /\ row'.proof # None
    <3>1. Claimed' = 1 .. row'.proof /\ Claimed \subseteq Claimed'
      BY <2>1, <2>3 DEF Claimed
    <3>2. ConfirmedTxs' \subseteq StoredTxs'
      BY DEF ConfirmedTxs, StoredTxs, IsConfirmed
    <3>3. Claimed' \subseteq StoredTxs
      BY <2>1, <2>3, <3>1, <3>2 DEF Grounded, Proved
    <3>4. Claimed' = Claimed \cup Claimed'
      BY <3>1
    <3>5. Claim!Extend
      BY <2>1, <3>3, <3>4 DEF Claim!Extend, Claimed
    <3> QED BY <3>5 DEF Claim!Next
  <2> QED BY <2>2, <2>3
<1> QED BY <1>1, <1>2

\* What a step of a runner does to the history and to its proof.
LEMMA StepClaims ==
  ASSUME Bounded, Grounded, NEW r \in Runners, Step(r) \/ SkipVisit(r) \/ FailCall(r)
  PROVE  /\ StoredTxs \subseteq StoredTxs'
         /\ StoredTxs' = StoredTxs \/ row'.proof = row.proof
         /\ row'.proof \in {None, 0} \/ row.proof <= row'.proof
<1> USE DEF RowType
<1>1. row \in RowType /\ row.proof \in Int /\ None = -1
  BY RowFields, Bounds
<1>2. (stored' = stored => StoredTxs' = StoredTxs) /\ row.proof <= row.proof
  BY <1>1 DEF StoredTxs
<1>3. CASE OpenAccount(r) \/ InvalidatePage(r)
  <2>1. stored' = stored /\ (InvalidateCoverage \/ row' = row)
    BY <1>3, Zenon DEF OpenAccount, InvalidatePage
  <2> QED BY <1>2, <2>1, InvalidateIs
<1>4. CASE BeginVisit(r) \/ FetchStats(r) \/ AdvanceCursor(r) \/ Finalize(r) \/ MarkSuccess(r)
  <2>1. stored' = stored
    BY <1>4 DEF BeginVisit, FetchStats, AdvanceCursor, Finalize, MarkSuccess
  <2>2. row'.proof = row.proof
    <3>1. CASE BeginVisit(r)      BY <1>1, <3>1 DEF BeginVisit
    <3>2. CASE FetchStats(r)      BY <1>1, <3>2 DEF FetchStats
    <3>3. CASE AdvanceCursor(r)   BY <1>1, <3>3 DEF AdvanceCursor
    <3>4. CASE Finalize(r)        BY <1>1, <3>4 DEF Finalize
    <3>5. CASE MarkSuccess(r)     BY <1>1, <3>5 DEF MarkSuccess
    <3> QED BY <1>4, <3>1, <3>2, <3>3, <3>4, <3>5
  <2> QED BY <1>2, <2>1, <2>2
<1>5. CASE SettleProof(r)
  <2> DEFINE me == run[r]
             n == me.state.expected
  <2>1. me \in Memories /\ me.pc = "proof" /\ SnapSound(r)
    BY <1>5, Runner, SettleProofIs DEF Grounded, RunnerGrounded, Compared
  <2>2. row.proof \in {None, me.snap.proof} /\ me.snap.proof \in None .. MaxTxs /\ n \in Nat
    BY <2>1, MemoryFields, SnapFields, StateFields DEF SnapSound
  <2>3. /\ stored' = stored
        /\ row'.proof \in {None, row.proof} \/ (Transition(me) = "publish" /\ row'.proof = n)
    BY <1>5, SettleProofWrites
  <2>4. Transition(me) = "publish" => me.snap.proof = n \/ (me.snap.proof = None /\ n = 0)
    BY <2>1, TransitionIs
  <2> QED BY <1>1, <1>2, <2>2, <2>3, <2>4
<1>6. CASE Prepare(r)
  <2>1. stored' = stored /\ row'.proof = row.proof
    BY <1>6, PrepareWrites
  <2> QED BY <1>2, <2>1
<1>7. CASE ReconcileNext(r)
  <2>1. PICK t \in Txs, status \in Seen : stored' = [stored EXCEPT ![t] = status]
    BY <1>7, ReconcileNextIs
  <2>2. row' = row /\ stored \in [Txs -> Statuses]
    BY <1>7 DEF ReconcileNext, Bounded, TypeOK
  <2>3. StoredTxs \subseteq StoredTxs'
    BY <2>1, <2>2 DEF StoredTxs, Seen
  <2> QED BY <1>2, <2>2, <2>3
<1>8. CASE PublishStrict(r) \/ PublishProof(r)
  <2> DEFINE me == run[r]
             n == me.state.expected
  <2>1. me.pc = "conclude" /\ me \in Memories
    BY <1>8, Runner, PublishIs
  <2>2. n \in Nat /\ row.proof <= n
    BY <2>1, MemoryFields, StateFields DEF Grounded, RunnerGrounded, Counted
  <2>3. stored' = stored
    BY <1>8 DEF PublishStrict, PublishProof
  <2>4. row' = [row EXCEPT !.proof = n, !.scan = FALSE] \/ row' = [row EXCEPT !.proof = n]
    BY <1>8, PublishIs
  <2> HIDE DEF n
  <2>5. row'.proof = n
    BY <1>1, <2>4
  <2> QED BY <1>2, <2>2, <2>3, <2>5
<1>9. CASE RestartStrict(r)
  BY <1>1, <1>2, <1>9 DEF RestartStrict
<1>10. CASE MarkFailure(r)
  <2>1. stored' = stored /\ row'.proof \in {None, row.proof}
    BY <1>10, MarkFailureIs DEF MarkFailure
  <2> QED BY <1>2, <2>1
<1>11. CASE FetchPage(r) \/ PassPage(r) \/ RebuildLedger(r) \/ RefreshAccount(r) \/ SkipVisit(r) \/ FailCall(r)
  <2>1. stored' = stored /\ row' = row
    BY <1>11 DEF FetchPage, PassPage, RebuildLedger, RefreshAccount, SkipVisit, FailCall
  <2> QED BY <1>2, <2>1
<1> QED BY <1>3, <1>4, <1>5, <1>6, <1>7, <1>8, <1>9, <1>10, <1>11 DEF Step

LEMMA NextClaims ==
  ASSUME Bounded, Bounded', Grounded, Grounded', [Next]_vars
  PROVE  Claim!Next
<1>1. CASE \E r \in Runners : Step(r) \/ SkipVisit(r) \/ FailCall(r)
  BY <1>1, StepClaims, ClaimStep
<1>2. CASE stored' = stored /\ row' = row
  BY <1>2, StoreStep DEF StoredTxs, Claim!Next
<1>3. \/ Broadcast \/ Confirm \/ Reorganise \/ Upgrade \/ StartAutomatic \/ FinishAutomatic
      \/ StartManual \/ NextIteration \/ FinishManual \/ Crash \/ UNCHANGED vars
      => stored' = stored /\ row' = row
  BY DEF Broadcast, Confirm, Reorganise, Upgrade, StartAutomatic, FinishAutomatic, StartManual, NextIteration,
         FinishManual, Crash, vars
<1> QED BY <1>1, <1>2, <1>3 DEF Next

\* The history proof is a claim over the downloaded history: it grows over
\* stored transactions or is withdrawn as a whole, and no transaction is ever
\* forgotten (HistoryClaim).
THEOREM ProofIsAClaim ==
  ASSUME Quiet, ~Overlap
  PROVE  Spec => ClaimSpec
<1>1. Init => Claim!Init
  BY DEF Init, Claim!Init, StoredTxs
<1>2. Bounded /\ Bounded' /\ Grounded /\ Grounded' /\ [Next]_vars => Claim!Next
  BY NextClaims
<1> QED BY <1>1, <1>2, BoundsHold, GroundsHold, PTL DEF Spec, ClaimSpec, Claim!Spec

-----------------------------------------------------------------------------
\* What keeps the ledger up with the history

\* The proof does not count all of the confirmed history.
Behind == row.proof = None \/ ConfirmedTxs # 1 .. row.proof

\* A strict scan that has come down to the oldest transaction: it ends with an
\* empty page, after which nothing is rebuilt.
ScanAtOldest == row.scan /\ row.cursor = 1 /\ ~provider.repeats

\* The ledger is current, or the address cannot be complete before something is
\* published that rebuilds it.
LedgerExcused == ledger.current \/ ((Behind \/ row.scan) /\ ~ScanAtOldest)

\* The visit will rebuild the ledger, if it ends at all.
RebuildsLater(me) ==
    \/ me.touched
    \/ me.contradicted /\ me.pc \in {"reconcile", "failure"}
    \/ DOMAIN me.page # {} /\ me.pc \in {"invalidate", "advance", "conclude", "finalize", "success"}

LedgerSafe(me) ==
    me.pc \in Visiting => LedgerExcused \/ (me.pc # "refresh" /\ RebuildsLater(me))

\* The snapshot is the row's, until a recovery or the visit itself changes it.
SnapKept(me) ==
    /\ me.pc = "start" \/ (me.pc \in {"gate", "stats", "proof"} /\ ~me.touched) => row.proof = me.snap.proof
    /\ me.pc \in {"start", "gate", "stats", "proof", "prepare"} /\ me.snap.scan => row.scan

\* The cursor in memory is the stored one.
CursorKept(me) ==
    /\ row.cursor # 0 => me.state.cursor = row.cursor
    /\ ~me.state.active => row.cursor = 0

CursorSound(me) ==
    /\ me.pc \in {"page", "reconcile", "invalidate", "advance", "conclude"} =>
          /\ me.state.strict => row.scan
          /\ ~me.state.active => row.cursor = 0
    /\ me.pc \in {"page", "conclude"} \/ me.more \/ (me.pc \in Between /\ me.state.live) => CursorKept(me)
    /\ me.pc = "page" /\ row.cursor # 0 => me.state.firstDone

\* A page behind the oldest transaction is a repeated one or an empty one.
OldestSound(me) ==
    /\ me.pc = "reconcile" /\ row.cursor = 1 => provider.repeats
    /\ me.pc = "conclude" /\ me.state.strict /\ DOMAIN me.page = {} /\ row.cursor # 0 => ScanAtOldest

RunnerLedger(r) ==
    LedgerSafe(run[r]) /\ SnapKept(run[r]) /\ CursorSound(run[r]) /\ OldestSound(run[r])

LedgerKept ==
    /\ ~acct.open => LedgerExcused
    /\ \A r \in Runners : RunnerLedger(r)

\* A runner's step, while no other runner is active.
LEMMA LedgerByStep ==
  ASSUME ~Overlap, Leases, Bounded, NEW r \in Runners, run[r].pc # "idle",
         NEW new \in Memories, run' = [run EXCEPT ![r] = new],
         (~acct.open => LedgerExcused)',
         RunnerLedger(r)'
  PROVE  LedgerKept'
<1>1. ASSUME NEW q \in Runners \ {r} PROVE RunnerLedger(q)'
  <2>1. run'[q] = run[q]
    BY Put
  <2>2. run[q] = Idle
    BY OthersIdle, Runner DEF Fits
  <2>3. run'[q] = Idle
    BY <2>1, <2>2
  <2> QED BY <2>3, IdleTyped, NoStateTyped
          DEF RunnerLedger, LedgerSafe, SnapKept, CursorSound, OldestSound, Between, Visiting
<1> QED BY <1>1 DEF LedgerKept

\* The step of a visit, during which the account's integration row is open.
LEMMA LedgerByVisit ==
  ASSUME ~Overlap, Leases, Taints, Bounded, NEW r \in Runners, run[r].pc \in Visiting, acct' = acct,
         NEW new \in Memories, run' = [run EXCEPT ![r] = new],
         RunnerLedger(r)'
  PROVE  LedgerKept'
<1>1. acct.open /\ run[r].pc # "idle"
  BY DEF Taints, Visiting
<1> QED BY <1>1, LedgerByStep

\* A step that changes nothing the excuse is about.
LEMMA SameExcuse ==
  ASSUME UNCHANGED <<stored, ledger>>, provider'.repeats = provider.repeats,
         row'.proof = row.proof, row'.cursor = row.cursor, row'.scan = row.scan
  PROVE  /\ LedgerExcused' = LedgerExcused /\ ScanAtOldest' = ScanAtOldest /\ ConfirmedTxs' = ConfirmedTxs
<1>1. ConfirmedTxs' = ConfirmedTxs
  BY DEF ConfirmedTxs, IsConfirmed
<1> QED BY <1>1 DEF LedgerExcused, ScanAtOldest, Behind

\* Withdrawing the proof leaves the excuse as good as it was.
LEMMA WithdrawnExcuse ==
  ASSUME Bounded, LedgerExcused, UNCHANGED <<provider, stored>>, ledger'.current = ledger.current,
         row'.proof = None, row'.cursor = row.cursor, row'.scan = row.scan
  PROVE  LedgerExcused'
BY DEF LedgerExcused, ScanAtOldest, Behind

LEMMA InvalidateExcuse ==
  ASSUME Bounded, InvalidateCoverage, UNCHANGED <<provider, stored>>
  PROVE  /\ row'.proof = None /\ row'.cursor = row.cursor /\ row'.scan = row.scan
         /\ ledger'.current = ledger.current
         /\ LedgerExcused => LedgerExcused'
<1>1. row'.proof = None /\ row'.cursor = row.cursor /\ row'.scan = row.scan
  BY InvalidateIs
<1>2. ledger'.current = ledger.current
  <2>1. ledger' = [ledger EXCEPT !.basis = "unknown"]
    BY DEF InvalidateCoverage
  <2> QED BY <2>1, Types
<1> QED BY <1>1, <1>2, WithdrawnExcuse

LEMMA OpenAccountLedger ==
  ASSUME ~Overlap, Leases, Taints, Bounded, LedgerKept, NEW r \in Runners, OpenAccount(r) PROVE LedgerKept'
<1> DEFINE me == run[r]
           new == [me EXCEPT !.pc = "gate", !.unavailable = acct.open, !.touched = acct.open]
<1>1. me.pc = "start" /\ run' = [run EXCEPT ![r] = new] /\ new \in Memories
  BY OpenAccountIs
<1>2. me \in Memories /\ RunnerLedger(r) /\ Fits(me, Height)
  BY Runner DEF LedgerKept
<1>3. /\ new.pc = "gate" /\ new.snap = me.snap /\ new.state = me.state /\ new.touched = acct.open
      /\ new.more = me.more /\ ~me.more
  BY <1>1, <1>2 DEF Memories, Fits
<1>4. /\ UNCHANGED <<provider, stored>>
      /\ acct' = [acct EXCEPT !.open = TRUE] /\ DOMAIN acct = {"open", "result"}
      /\ (acct.open => InvalidateCoverage) /\ (~acct.open => UNCHANGED <<row, ledger>>)
  BY Zenon DEF OpenAccount, Taints
<1>5. acct'.open
  BY <1>4
<1>6. acct.open => row'.cursor = row.cursor /\ row'.scan = row.scan
  BY <1>4, InvalidateExcuse
<1>7. row'.cursor = row.cursor /\ row'.scan = row.scan
  BY <1>4, <1>6
<1> HIDE DEF new
<1>12. run'[r] = new
  BY <1>1, Put
<1>8. LedgerSafe(run[r])'
  <2>1. CASE acct.open
    BY <1>3, <1>12, <2>1 DEF LedgerSafe, RebuildsLater
  <2>2. CASE ~acct.open
    <3>1. LedgerExcused'
      BY <1>4, <2>2, SameExcuse DEF LedgerKept
    <3> QED BY <3>1 DEF LedgerSafe
  <2> QED BY <2>1, <2>2
<1>9. SnapKept(run[r])'
  BY <1>1, <1>2, <1>3, <1>4, <1>7, <1>12 DEF RunnerLedger, SnapKept
<1>10. CursorSound(run[r])' /\ OldestSound(run[r])'
  BY <1>1, <1>2, <1>3, <1>7, <1>12 DEF RunnerLedger, CursorSound, OldestSound, CursorKept, Between
<1>11. me.pc # "idle" /\ RunnerLedger(r)'
  BY <1>1, <1>8, <1>9, <1>10 DEF RunnerLedger
<1> QED BY <1>1, <1>5, <1>11, LedgerByStep

\* The step of a visit that writes nothing the excuse is about.
LEMMA PlainLedger ==
  ASSUME ~Overlap, Leases, Taints, Bounded, LedgerKept, NEW r \in Runners, run[r].pc \in Visiting,
         UNCHANGED <<provider, stored, acct, ledger>>,
         row'.proof = row.proof, row'.cursor = row.cursor, row'.scan = row.scan,
         NEW new \in Memories, run' = [run EXCEPT ![r] = new],
         new.pc \in Visiting => new.pc # "refresh" /\ (RebuildsLater(run[r]) => RebuildsLater(new)),
         SnapKept(new), CursorSound(new), OldestSound(new)
  PROVE  LedgerKept'
<1>1. LedgerExcused' = LedgerExcused /\ ScanAtOldest' = ScanAtOldest
  BY SameExcuse
<1>2. LedgerSafe(new)'
  BY <1>1 DEF LedgerKept, RunnerLedger, LedgerSafe
<1>3. SnapKept(new)' /\ CursorSound(new)' /\ OldestSound(new)'
  BY <1>1 DEF SnapKept, CursorSound, OldestSound, CursorKept
<1>4. run'[r] = new
  BY Put
<1>5. RunnerLedger(r)'
  BY <1>2, <1>3, <1>4 DEF RunnerLedger
<1> QED BY <1>5, LedgerByVisit

LEMMA SkipVisitLedger ==
  ASSUME ~Overlap, Leases, Taints, Bounded, LedgerKept, NEW r \in Runners, SkipVisit(r) PROVE LedgerKept'
<1> DEFINE me == run[r]
           new == [me EXCEPT !.pc = "rebuild"]
<1>1. me.pc = "gate" /\ To(r, "rebuild") /\ UNCHANGED <<provider, stored, acct, ledger, row>>
  BY DEF SkipVisit
<1>2. me \in Memories /\ RunnerLedger(r) /\ "rebuild" \in Running /\ Fits(me, Height)
  BY Runner DEF LedgerKept, Running, Visiting
<1>3. run' = [run EXCEPT ![r] = new] /\ new \in Memories
  BY <1>1, <1>2, ToIs
<1>4. /\ new.pc = "rebuild" /\ new.snap = me.snap /\ new.state = me.state /\ new.more = me.more
      /\ new.touched = me.touched /\ ~me.more
  BY <1>1, <1>2 DEF Memories, Fits
<1> HIDE DEF new
<1>5. RebuildsLater(me) => RebuildsLater(new)
  BY <1>1, <1>4 DEF RebuildsLater
<1>6. SnapKept(new) /\ CursorSound(new) /\ OldestSound(new)
  BY <1>1, <1>2, <1>4 DEF RunnerLedger, SnapKept, CursorSound, OldestSound, CursorKept, Between
<1>7. me.pc \in Visiting /\ new.pc # "refresh"
  BY <1>1, <1>4 DEF Visiting
<1> QED BY <1>1, <1>3, <1>5, <1>6, <1>7, PlainLedger

LEMMA BeginVisitLedger ==
  ASSUME ~Overlap, Leases, Taints, Bounded, Grounded, LedgerKept, NEW r \in Runners, BeginVisit(r) PROVE LedgerKept'
<1> DEFINE me == run[r]
<1>1. PICK permitted \in BOOLEAN, early \in BOOLEAN, pc \in {"stats", "page", "success"} :
         /\ run' = [run EXCEPT ![r] = Begun(me, permitted, early, pc)] /\ Begun(me, permitted, early, pc) \in Memories
         /\ (pc = "stats" <=> ~me.state.live)
         /\ (pc = "page" => permitted)
  BY BeginVisitIs
<1>2. me \in Memories /\ RunnerGrounded(r) /\ RunnerLedger(r) /\ me.pc = "gate" /\ Fits(me, Height)
  BY Runner, BeginVisitIs DEF Grounded, LedgerKept
<1> DEFINE new == Begun(me, permitted, early, pc)
<1>3. /\ new.pc = pc /\ new.snap = me.snap /\ new.state = me.state /\ new.more = me.more
      /\ new.touched = me.touched /\ ~me.more
  BY <1>2 DEF Memories, Begun, Fits
<1> HIDE DEF new
<1>4. row' = [row EXCEPT !.open = TRUE, !.tip = FALSE,
                         !.result = IF row.result = "none" THEN "success" ELSE row.result]
      /\ UNCHANGED <<provider, stored, acct, ledger>>
  BY DEF BeginVisit
<1>5. row'.proof = row.proof /\ row'.cursor = row.cursor /\ row'.scan = row.scan
  BY <1>4, RowFields DEF RowType
<1>6. me.state.live => me.state.firstDone /\ ~me.state.strict
  BY <1>2, RunnersAre DEF Fits, Between, RunnerGrounded, Owned
<1>7. RebuildsLater(me) => RebuildsLater(new)
  BY <1>2, <1>3 DEF RebuildsLater
<1>8. SnapKept(new)
  BY <1>1, <1>2, <1>3 DEF RunnerLedger, SnapKept
<1>9. CursorSound(new) /\ OldestSound(new)
  BY <1>1, <1>2, <1>3, <1>6 DEF RunnerLedger, CursorSound, OldestSound, CursorKept, Between
<1>10. me.pc \in Visiting /\ new.pc # "refresh" /\ new \in Memories /\ run' = [run EXCEPT ![r] = new]
  BY <1>1, <1>2, <1>3 DEF Visiting, new
<1> QED BY <1>4, <1>5, <1>7, <1>8, <1>9, <1>10, PlainLedger

LEMMA FetchStatsLedger ==
  ASSUME ~Overlap, Leases, Taints, Bounded, LedgerKept, NEW r \in Runners, FetchStats(r) PROVE LedgerKept'
<1> DEFINE me == run[r]
           New(s) == [me EXCEPT !.pc = "proof", !.state = s]
<1>1. PICK s \in States : run' = [run EXCEPT ![r] = New(s)] /\ New(s) \in Memories
  BY FetchStatsIs
<1>2. me \in Memories /\ RunnerLedger(r) /\ me.pc = "stats" /\ Fits(me, Height)
  BY Runner, FetchStatsIs DEF LedgerKept
<1> DEFINE new == New(s)
<1>3. /\ new.pc = "proof" /\ new.snap = me.snap /\ new.more = me.more /\ new.touched = me.touched /\ ~me.more
  BY <1>2 DEF Memories, Fits
<1>4. row' = [row EXCEPT !.open = FALSE, !.result = "success", !.tip = TRUE]
      /\ UNCHANGED <<provider, stored, acct, ledger>>
  BY DEF FetchStats
<1>5. row'.proof = row.proof /\ row'.cursor = row.cursor /\ row'.scan = row.scan
  BY <1>4, RowFields DEF RowType
<1>6. new \in Memories /\ run' = [run EXCEPT ![r] = new]
  BY <1>1
<1> HIDE DEF new
<1>7. RebuildsLater(me) => RebuildsLater(new)
  BY <1>2, <1>3 DEF RebuildsLater
<1>8. SnapKept(new) /\ CursorSound(new) /\ OldestSound(new)
  BY <1>2, <1>3 DEF RunnerLedger, SnapKept, CursorSound, OldestSound, Between
<1>9. me.pc \in Visiting /\ new.pc # "refresh"
  BY <1>2, <1>3 DEF Visiting
<1> QED BY <1>4, <1>5, <1>6, <1>7, <1>8, <1>9, PlainLedger

\* Publishing a proof excuses the ledger, or makes it current, while nothing
\* stands at the oldest transaction.
LEMMA PublishedExcuse ==
  ASSUME Bounded, UNCHANGED <<provider, stored>>, NEW n \in Nat, PublishCompletion(row'), row'.proof = n,
         row'.cursor = 0
  PROVE  LedgerExcused'
<1>1. ConfirmedTxs' = ConfirmedTxs
  BY DEF ConfirmedTxs, IsConfirmed
<1>2. CASE CandidateComplete(row', TRUE)
  <2>1. ledger'.current
    BY <1>2 DEF PublishCompletion
  <2> QED BY <2>1 DEF LedgerExcused
<1>3. CASE ~CandidateComplete(row', TRUE)
  <2>1. row'.scan \/ n # Cardinality(ConfirmedTxs)
    BY <1>3, Bounds DEF CandidateComplete
  <2>2. ConfirmedTxs = 1 .. n => Cardinality(ConfirmedTxs) = n
    BY FS_Interval
  <2> QED BY <1>1, <2>1, <2>2 DEF LedgerExcused, Behind, ScanAtOldest
<1> QED BY <1>2, <1>3

\* The cases of `SettleProof'.
LEMMA SettleProofCases ==
  ASSUME Bounded, NEW r \in Runners, SettleProof(r)
  PROVE  /\ UNCHANGED <<provider, stored, acct>>
         /\ \/ UNCHANGED <<row, ledger>>
            \/ Transition(run[r]) = "publish" /\ PublishCompletion(row')
               /\ row' = [row EXCEPT !.proof = run[r].state.expected]
            \/ InvalidateCoverage
<1> DEFINE me == run[r]
           n == me.state.expected
           publishes == PublishCompletion([row EXCEPT !.proof = n])
           invalidates == InvalidateCoverage
<1>1. UNCHANGED <<provider, stored, acct>>
  BY DEF SettleProof
<1>2. UNCHANGED <<row, ledger>> \/ (Transition(me) = "publish" /\ publishes) \/ invalidates
  BY Zenon DEF SettleProof
<1>3. publishes => PublishCompletion(row') /\ row' = [row EXCEPT !.proof = n]
  BY DEF PublishCompletion
<1> QED BY <1>1, <1>2, <1>3

LEMMA SettleProofLedger ==
  ASSUME ~Overlap, Leases, Taints, Bounded, Grounded, LedgerKept, NEW r \in Runners, SettleProof(r) PROVE LedgerKept'
<1> DEFINE me == run[r]
           New(b) == [me EXCEPT !.pc = "prepare", !.state = [me.state EXCEPT !.published = b]]
           n == me.state.expected
<1>1. PICK b \in BOOLEAN : run' = [run EXCEPT ![r] = New(b)] /\ New(b) \in Memories
  BY SettleProofIs
<1>2. me \in Memories /\ RunnerGrounded(r) /\ RunnerLedger(r) /\ me.pc = "proof" /\ Fits(me, Height)
  BY Runner, SettleProofIs DEF Grounded, LedgerKept
<1> DEFINE new == New(b)
<1>3. /\ new.pc = "prepare" /\ new.snap = me.snap /\ new.more = me.more /\ new.touched = me.touched /\ ~me.more
  BY <1>2 DEF Memories, Fits
<1>4. run'[r] = new /\ run' = [run EXCEPT ![r] = new] /\ new \in Memories
  BY <1>1, Put
<1> HIDE DEF new
<1>5. /\ UNCHANGED <<provider, stored, acct>>
      /\ \/ UNCHANGED <<row, ledger>>
         \/ Transition(me) = "publish" /\ PublishCompletion(row') /\ row' = [row EXCEPT !.proof = n]
         \/ InvalidateCoverage
  BY SettleProofCases
<1>6. row'.cursor = row.cursor /\ row'.scan = row.scan /\ row' \in RowType
  BY SettleProofWrites
<1>7. RebuildsLater(me) => me.touched
  BY <1>2 DEF RebuildsLater
<1>8. ASSUME ~me.touched PROVE LedgerExcused'
  <2>1. LedgerExcused /\ row.proof = me.snap.proof
    BY <1>2, <1>7, <1>8 DEF RunnerLedger, LedgerSafe, SnapKept, Visiting
  <2>2. CASE UNCHANGED <<row, ledger>>
    BY <1>5, <2>1, <2>2, SameExcuse
  <2>3. CASE InvalidateCoverage
    BY <1>5, <2>1, <2>3, InvalidateExcuse
  <2>4. CASE Transition(me) = "publish" /\ PublishCompletion(row') /\ row' = [row EXCEPT !.proof = n]
    <3>1. n \in Nat /\ row'.proof = n /\ row.proof \in Int
      BY <1>2, <2>4, RowFields, MemoryFields, StateFields DEF RowType
    <3>2. row.proof = n \/ (n = 0 /\ ~me.state.waiting)
      BY <1>2, <2>1, <2>4, TransitionIs
    <3>3. CASE row.proof = n
      <4>1. row' = row
        BY <2>4, <3>3, RowFields DEF RowType
      <4>2. ledger' = ledger \/ ledger'.current
        BY <2>4 DEF PublishCompletion
      <4>3. CASE ledger'.current
        BY <4>3 DEF LedgerExcused
      <4> QED BY <1>5, <2>1, <4>1, <4>2, <4>3, SameExcuse
    <3>4. CASE n = 0 /\ ~me.state.waiting
      <4>1. Height = 0
        BY <1>2, <3>4, HeightIs DEF RunnerGrounded, Compared, Fresh
      <4>2. row'.cursor = 0
        BY <1>6, <4>1, RowFields
      <4> QED BY <1>5, <2>4, <3>1, <4>2, PublishedExcuse
    <3> QED BY <3>2, <3>3, <3>4
  <2> QED BY <1>5, <2>2, <2>3, <2>4
<1>9. LedgerSafe(run[r])'
  BY <1>3, <1>4, <1>8 DEF LedgerSafe, RebuildsLater
<1>10. SnapKept(run[r])' /\ CursorSound(run[r])' /\ OldestSound(run[r])'
  BY <1>2, <1>3, <1>4, <1>6 DEF RunnerLedger, SnapKept, CursorSound, OldestSound, Between
<1>11. me.pc \in Visiting /\ RunnerLedger(r)'
  BY <1>2, <1>9, <1>10 DEF Visiting, RunnerLedger
<1> QED BY <1>4, <1>5, <1>11, LedgerByVisit

LEMMA PrepareLedger ==
  ASSUME ~Overlap, Leases, Taints, Bounded, Grounded, LedgerKept, NEW r \in Runners, Prepare(r) PROVE LedgerKept'
<1> DEFINE me == run[r]
           New(s, pc) == [me EXCEPT !.snap = Idle.snap, !.state = s, !.pc = pc]
<1>1. PICK s \in States, pc \in {"success", "finalize", "page"} :
         /\ run' = [run EXCEPT ![r] = New(s, pc)] /\ New(s, pc) \in Memories
         /\ Prepared(me, s)
         /\ pc # "success" => me.permitted
  BY PrepareIs
<1>2. me \in Memories /\ RunnerGrounded(r) /\ RunnerLedger(r) /\ me.pc = "prepare" /\ Fits(me, Height)
  BY Runner, PrepareIs DEF Grounded, LedgerKept
<1> DEFINE new == New(s, pc)
<1>3. /\ new.pc = pc /\ new.state = s /\ new.more = me.more /\ new.touched = me.touched /\ ~me.more
  BY <1>2 DEF Memories, Fits
<1>4. run'[r] = new /\ run' = [run EXCEPT ![r] = new] /\ new \in Memories
  BY <1>1, Put
<1> HIDE DEF new
<1>5. /\ UNCHANGED <<provider, stored, acct, ledger>> /\ row'.proof = row.proof
      /\ row'.cursor = (IF Restarts(me) \/ Begins(me) THEN 0 ELSE row.cursor)
      /\ row'.scan = (row.scan \/ Begins(me))
  BY PrepareWrites
<1>6. row.cursor = me.snap.cursor /\ (me.snap.scan => row.scan)
  BY <1>2 DEF RunnerGrounded, Compared, SnapSound, RunnerLedger, SnapKept
<1>7. LedgerExcused => LedgerExcused'
  <2>1. ConfirmedTxs' = ConfirmedTxs
    BY <1>5 DEF ConfirmedTxs, IsConfirmed
  <2>2. Behind' <=> Behind
    BY <1>5, <2>1 DEF Behind
  <2>3. ScanAtOldest' => ScanAtOldest
    <3> SUFFICES ASSUME row'.scan, row'.cursor = 1, ~provider'.repeats PROVE ScanAtOldest
      BY DEF ScanAtOldest
    <3>1. ~(Restarts(me) \/ Begins(me)) /\ row.cursor = 1
      BY <1>5
    <3> QED BY <1>5, <3>1 DEF ScanAtOldest
  <2>4. row.scan => row'.scan
    BY <1>5
  <2> QED BY <1>5, <2>2, <2>3, <2>4 DEF LedgerExcused
<1>8. LedgerSafe(run[r])'
  <2>1. LedgerExcused \/ me.touched
    BY <1>2 DEF RunnerLedger, LedgerSafe, RebuildsLater, Visiting
  <2> QED BY <1>1, <1>3, <1>4, <1>7, <2>1 DEF LedgerSafe, RebuildsLater
<1>9. CursorSound(run[r])'
  <2>1. pc = "page" => (s.strict => row'.scan)
    BY <1>1, <1>5, <1>6 DEF Prepared
  <2>2. pc = "page" /\ row'.cursor # 0 => s.active /\ s.cursor = row'.cursor /\ s.firstDone
    BY <1>1, <1>5, <1>6 DEF Prepared, Walks, PlanActive, Resume
  <2> QED BY <1>1, <1>3, <1>4, <2>1, <2>2 DEF CursorSound, CursorKept, Between
<1>10. SnapKept(run[r])' /\ OldestSound(run[r])'
  BY <1>1, <1>3, <1>4 DEF SnapKept, OldestSound
<1>11. me.pc \in Visiting /\ RunnerLedger(r)'
  BY <1>2, <1>8, <1>9, <1>10 DEF Visiting, RunnerLedger
<1> QED BY <1>4, <1>5, <1>11, LedgerByVisit

\* Nothing is older than the first transaction.
LEMMA OldestAnswer ==
  ASSUME Bounded, NEW c \in 1 .. Height
  PROVE  /\ PageAfter(c) = {} => c = 1 /\ ~provider.repeats
         /\ c = 1 /\ PageAfter(c) # {} => provider.repeats
<1>1. c > 1 => PageAfter(c) # {}
  BY PageAfterIs
<1>2. CASE c = 1
  <2>1. {t \in 1 .. provider.confirmed : t < c} = {}
    BY <1>2, HeightIs
  <2>2. Newest({}) = {}
    BY NewestWithin
  <2>3. PageAfter(c) = IF provider.repeats THEN {c} ELSE {}
    BY <2>1, <2>2 DEF PageAfter
  <2> QED BY <1>2, <2>3
<1> QED BY <1>1, <1>2, HeightIs

LEMMA FetchPageLedger ==
  ASSUME ~Overlap, Leases, Taints, Bounded, LedgerKept, NEW r \in Runners, FetchPage(r) PROVE LedgerKept'
<1> DEFINE me == run[r]
<1>1. PICK page \in Pages, c \in 0 .. MaxTxs, pc \in {"conclude", "finalize", "advance", "reconcile"} :
         /\ run' = [run EXCEPT ![r] = Fetched(me, page, c, pc)] /\ Fetched(me, page, c, pc) \in Memories
         /\ DOMAIN page = Answer(me)
         /\ (pc # "finalize" => c = me.state.cursor)
         /\ (pc = "reconcile" <=> Answer(me) # {})
  BY FetchPageIs
<1>2. me \in Memories /\ me.state \in States /\ RunnerLedger(r) /\ me.pc = "page" /\ Fits(me, Height)
  BY Runner, MemoryFields, FetchPageIs DEF LedgerKept
<1> DEFINE s == [me.state EXCEPT !.cursor = c]
           new == [me EXCEPT !.from = From(me), !.page = page, !.todo = Answer(me), !.state = s, !.pc = pc]
<1>3. s.cursor = c /\ s.firstDone = me.state.firstDone /\ s.strict = me.state.strict /\ s.active = me.state.active
  BY <1>2, CursorState
<1>4. new \in Memories /\ run' = [run EXCEPT ![r] = new]
  BY <1>1 DEF Fetched
<1> HIDE DEF s
<1>5. /\ new.pc = pc /\ new.state = s /\ new.page = page /\ new.more = me.more /\ new.touched = me.touched
      /\ ~me.more
  BY <1>2 DEF Memories, Fits
<1> HIDE DEF new
<1>6. UNCHANGED <<provider, stored, row, acct, ledger>>
  BY DEF FetchPage
<1>7. /\ row.cursor # 0 => me.state.cursor = row.cursor /\ me.state.firstDone /\ me.state.active
      /\ me.state.strict => row.scan
  BY <1>2 DEF RunnerLedger, CursorSound, CursorKept
<1>8. row.cursor # 0 => row.cursor \in 1 .. Height /\ Answer(me) = PageAfter(row.cursor)
  BY <1>7, RowFields, HeightIs DEF Answer, From
<1>9. OldestSound(new)
  <2>1. pc = "reconcile" /\ row.cursor = 1 => provider.repeats
    BY <1>1, <1>8, OldestAnswer
  <2>2. page \in Pages /\ (DOMAIN page = {} /\ row.cursor # 0 => row.cursor = 1 /\ ~provider.repeats)
    BY <1>1, <1>8, OldestAnswer
  <2> QED BY <1>3, <1>5, <1>7, <2>1, <2>2 DEF OldestSound, ScanAtOldest
<1>10. CursorSound(new)
  BY <1>1, <1>2, <1>3, <1>5, <1>7 DEF RunnerLedger, CursorSound, CursorKept, Between
<1>11. SnapKept(new)
  BY <1>1, <1>5 DEF SnapKept
<1>12. RebuildsLater(me) => RebuildsLater(new)
  BY <1>2, <1>5 DEF RebuildsLater
<1>13. me.pc \in Visiting /\ new.pc # "refresh"
  BY <1>1, <1>2, <1>5 DEF Visiting
<1> QED BY <1>4, <1>6, <1>9, <1>10, <1>11, <1>12, <1>13, PlainLedger

\* A write of a page that changes a transaction contradicts the history or
\* confirms a transaction that the proof does not count.
LEMMA ReconcileNextLedger ==
  ASSUME ~Overlap, Leases, Taints, Bounded, Grounded, LedgerKept, NEW r \in Runners, ReconcileNext(r) PROVE LedgerKept'
<1> DEFINE me == run[r]
           New(t, b, pc) == [me EXCEPT !.todo = me.todo \ {t}, !.contradicted = b, !.pc = pc]
<1>1. PICK t \in me.todo, b \in BOOLEAN, pc \in {"reconcile", "invalidate", "advance"} :
         /\ run' = [run EXCEPT ![r] = New(t, b, pc)] /\ New(t, b, pc) \in Memories
         /\ t \in Txs /\ t \in DOMAIN me.page /\ me.page[t] \in Seen
         /\ stored' = [stored EXCEPT ![t] = me.page[t]]
         /\ b = (me.contradicted \/ Contradicts(stored[t], me.page[t]))
         /\ ledger' = [ledger EXCEPT !.current = ledger.current /\ SameHistory(stored[t], me.page[t])]
  BY ReconcileNextIs
<1>2. me \in Memories /\ RunnerLedger(r) /\ me.pc = "reconcile" /\ Fits(me, Height)
  BY Runner, ReconcileNextIs DEF LedgerKept
<1> DEFINE new == New(t, b, pc)
<1>3. /\ new.pc = pc /\ new.state = me.state /\ new.page = me.page /\ new.more = me.more
      /\ new.touched = me.touched /\ new.contradicted = b /\ ~me.more
  BY <1>2 DEF Memories, Fits
<1>4. run'[r] = new /\ run' = [run EXCEPT ![r] = new] /\ new \in Memories
  BY <1>1, Put
<1> HIDE DEF new
<1>5. UNCHANGED <<provider, row, acct>>
  BY DEF ReconcileNext
<1>6. stored \in [Txs -> Statuses] /\ stored[t] \in Statuses /\ stored'[t] = me.page[t]
      /\ \A u \in Txs \ {t} : stored'[u] = stored[u]
  BY <1>1, Types
<1>7. SameHistory(stored[t], me.page[t]) => ledger'.current = ledger.current
  BY <1>1, Types
<1>8. ASSUME LedgerExcused, ~b PROVE LedgerExcused'
  <2>1. row'.cursor = 1 => provider.repeats
    BY <1>2, <1>5 DEF RunnerLedger, OldestSound
  <2>2. ~ScanAtOldest'
    BY <1>5, <2>1 DEF ScanAtOldest
  <2>3. CASE IsConfirmed(me.page[t]) /\ ~IsConfirmed(stored[t])
    <3>1. t \in ConfirmedTxs' /\ t \notin ConfirmedTxs
      BY <1>1, <1>6, <2>3 DEF ConfirmedTxs
    <3>2. Behind'
      BY <1>5, <3>1 DEF Behind, Grounded, Proved
    <3> QED BY <2>2, <3>2 DEF LedgerExcused
  <2>4. CASE ~(IsConfirmed(me.page[t]) /\ ~IsConfirmed(stored[t]))
    <3>1. ~Contradicts(stored[t], me.page[t])
      BY <1>1, <1>8
    <3>2. SameHistory(stored[t], me.page[t])
      BY <1>1, <1>6, <2>4, <3>1 DEF Contradicts, IsConfirmed, Seen, Statuses, SameHistory
    <3>3. ConfirmedTxs' = ConfirmedTxs
      BY <1>6, <3>2 DEF ConfirmedTxs, IsConfirmed, SameHistory
    <3>4. ledger'.current = ledger.current
      BY <1>7, <3>2
    <3>5. Behind' <=> Behind
      BY <1>5, <3>3 DEF Behind
    <3> QED BY <1>5, <1>8, <2>2, <3>4, <3>5 DEF LedgerExcused
  <2> QED BY <2>3, <2>4
<1>9. LedgerSafe(run[r])'
  <2>1. CASE pc # "reconcile"
    BY <1>1, <1>3, <1>4, <2>1 DEF LedgerSafe, RebuildsLater
  <2>2. CASE pc = "reconcile"
    <3>1. me.contradicted => b
      BY <1>1
    <3>2. LedgerExcused \/ me.touched \/ me.contradicted
      BY <1>2 DEF RunnerLedger, LedgerSafe, RebuildsLater, Visiting
    <3> QED BY <1>3, <1>4, <1>8, <2>2, <3>1, <3>2 DEF LedgerSafe, RebuildsLater
  <2> QED BY <2>1, <2>2
<1>10. SnapKept(run[r])' /\ CursorSound(run[r])' /\ OldestSound(run[r])'
  BY <1>1, <1>2, <1>3, <1>4, <1>5 DEF RunnerLedger, SnapKept, CursorSound, OldestSound, Between
<1>11. me.pc \in Visiting /\ RunnerLedger(r)'
  BY <1>2, <1>9, <1>10 DEF Visiting, RunnerLedger
<1> QED BY <1>4, <1>5, <1>11, LedgerByVisit

LEMMA InvalidatePageLedger ==
  ASSUME ~Overlap, Leases, Taints, Bounded, LedgerKept, NEW r \in Runners, InvalidatePage(r) PROVE LedgerKept'
<1> DEFINE me == run[r]
           new == [me EXCEPT !.pc = "advance"]
<1>1. me.pc = "invalidate" /\ To(r, "advance") /\ UNCHANGED <<provider, stored, acct>> /\ InvalidateCoverage
  BY DEF InvalidatePage
<1>2. me \in Memories /\ RunnerLedger(r) /\ "advance" \in Running /\ Fits(me, Height)
  BY Runner DEF LedgerKept, Running, Visiting
<1>3. run' = [run EXCEPT ![r] = new] /\ new \in Memories /\ run'[r] = new
  BY <1>1, <1>2, ToIs, Put
<1>4. /\ new.pc = "advance" /\ new.state = me.state /\ new.page = me.page /\ new.more = me.more
      /\ new.touched = me.touched /\ ~me.more
  BY <1>1, <1>2 DEF Memories, Fits
<1> HIDE DEF new
<1>5. row'.cursor = row.cursor /\ row'.scan = row.scan /\ (LedgerExcused => LedgerExcused')
  BY <1>1, InvalidateExcuse
<1>6. LedgerExcused \/ me.touched \/ DOMAIN me.page # {}
  BY <1>1, <1>2 DEF RunnerLedger, LedgerSafe, RebuildsLater, Visiting
<1>7. LedgerSafe(run[r])'
  BY <1>3, <1>4, <1>5, <1>6 DEF LedgerSafe, RebuildsLater
<1>8. SnapKept(run[r])' /\ CursorSound(run[r])' /\ OldestSound(run[r])'
  BY <1>1, <1>2, <1>3, <1>4, <1>5 DEF RunnerLedger, SnapKept, CursorSound, OldestSound, Between
<1>9. me.pc \in Visiting /\ RunnerLedger(r)'
  BY <1>1, <1>7, <1>8 DEF Visiting, RunnerLedger
<1> QED BY <1>1, <1>3, <1>9, LedgerByVisit

LEMMA AdvanceCursorLedger ==
  ASSUME ~Overlap, Leases, Taints, Bounded, LedgerKept, NEW r \in Runners, AdvanceCursor(r) PROVE LedgerKept'
<1> DEFINE me == run[r]
           New(s) == [me EXCEPT !.state = s, !.pc = "conclude"]
<1>1. PICK s \in States :
         /\ run' = [run EXCEPT ![r] = New(s)] /\ New(s) \in Memories
         /\ Advanced(me, s)
         /\ row' = IF s.active THEN [row EXCEPT !.cursor = s.cursor] ELSE row
  BY AdvanceCursorIs
<1> DEFINE new == New(s)
<1>2. me \in Memories /\ RunnerLedger(r) /\ me.pc = "advance" /\ Fits(me, Height)
  BY Runner, AdvanceCursorIs DEF LedgerKept
<1>3. /\ new.pc = "conclude" /\ new.state = s /\ new.page = me.page /\ new.more = me.more
      /\ new.touched = me.touched /\ ~me.more
  BY <1>2 DEF Memories, Fits
<1>4. run'[r] = new /\ run' = [run EXCEPT ![r] = new] /\ new \in Memories
  BY <1>1, Put
<1> HIDE DEF new
<1>5. UNCHANGED <<provider, stored, acct, ledger>>
  BY DEF AdvanceCursor
<1>6. row'.proof = row.proof /\ row'.scan = row.scan /\ (row'.cursor = IF s.active THEN s.cursor ELSE row.cursor)
  BY <1>1, RowFields DEF RowType
<1>7. s.active = me.state.active /\ s.strict = me.state.strict /\ (s.strict => row.scan)
      /\ (~s.active => row.cursor = 0)
  BY <1>1, <1>2 DEF Advanced, RunnerLedger, CursorSound
<1>8. DOMAIN me.page = {} => row'.cursor = 0
  <2> SUFFICES ASSUME DOMAIN me.page = {} PROVE s.cursor = 0
    BY <1>6, <1>7
  <2>1. LastConfirmed(PageConfirmed(me)) = 0
    BY <1>2, LastConfirmedIs
  <2> QED BY <1>1, <2>1 DEF Advanced
<1>9. ASSUME LedgerExcused, row'.cursor = 0 PROVE LedgerExcused'
  <2>1. ConfirmedTxs' = ConfirmedTxs
    BY <1>5 DEF ConfirmedTxs, IsConfirmed
  <2> QED BY <1>5, <1>6, <1>9, <2>1 DEF LedgerExcused, ScanAtOldest, Behind
<1>10. LedgerSafe(run[r])'
  <2>1. LedgerExcused \/ me.touched \/ DOMAIN me.page # {}
    BY <1>2 DEF RunnerLedger, LedgerSafe, RebuildsLater, Visiting
  <2> QED BY <1>3, <1>4, <1>8, <1>9, <2>1 DEF LedgerSafe, RebuildsLater
<1>11. SnapKept(run[r])' /\ CursorSound(run[r])' /\ OldestSound(run[r])'
  BY <1>3, <1>4, <1>6, <1>7, <1>8 DEF SnapKept, CursorSound, CursorKept, OldestSound, Between
<1>12. me.pc \in Visiting /\ RunnerLedger(r)'
  BY <1>2, <1>10, <1>11 DEF Visiting, RunnerLedger
<1> QED BY <1>4, <1>5, <1>12, LedgerByVisit

\* What is published without a page was already rebuilt for, or makes the ledger
\* current itself.
LEMMA PublishLedger ==
  ASSUME ~Overlap, Leases, Taints, Bounded, Grounded, LedgerKept, NEW r \in Runners,
         PublishStrict(r) \/ PublishProof(r)
  PROVE  LedgerKept'
<1> DEFINE me == run[r]
           New(s) == [me EXCEPT !.state = s, !.more = FALSE, !.pc = "finalize"]
           n == me.state.expected
<1>1. PICK s \in States : run' = [run EXCEPT ![r] = New(s)] /\ New(s) \in Memories
  BY PublishIs
<1> DEFINE new == New(s)
<1>2. /\ me \in Memories /\ RunnerGrounded(r) /\ RunnerLedger(r) /\ me.pc = "conclude" /\ n \in Nat
  BY Runner, MemoryFields, StateFields, PublishIs DEF Grounded, LedgerKept
<1>3. new.pc = "finalize" /\ ~new.more /\ new.page = me.page /\ new.touched = me.touched
  BY <1>2 DEF Memories
<1>4. run'[r] = new /\ run' = [run EXCEPT ![r] = new] /\ new \in Memories
  BY <1>1, Put
<1> HIDE DEF new
<1>5. UNCHANGED <<provider, stored, acct>> /\ PublishCompletion(row')
  BY PublishIs DEF PublishStrict, PublishProof
<1>6. row'.proof = n /\ row'.cursor = row.cursor
  <2>1. row' = [row EXCEPT !.proof = n, !.scan = FALSE] \/ row' = [row EXCEPT !.proof = n]
    BY PublishIs
  <2>2. row \in RowType
    BY RowFields
  <2> HIDE DEF n
  <2> QED BY <2>1, <2>2 DEF RowType
<1>7. ASSUME LedgerExcused, DOMAIN me.page = {} PROVE LedgerExcused'
  <2>1. CASE row.cursor = 0
    BY <1>2, <1>5, <1>6, <2>1, PublishedExcuse
  <2>2. CASE row.cursor # 0
    <3>1. PublishStrict(r)
      BY <1>2, <2>2 DEF PublishProof, RunnerGrounded, Paged
    <3>2. ScanAtOldest
      BY <1>2, <1>7, <2>2, <3>1 DEF PublishStrict, StrictEnds, RunnerLedger, OldestSound
    <3>3. ledger.current
      BY <1>7, <3>2 DEF LedgerExcused
    <3>4. ledger'.current
      BY <1>5, <3>3 DEF PublishCompletion
    <3> QED BY <3>4 DEF LedgerExcused
  <2> QED BY <2>1, <2>2
<1>8. LedgerSafe(run[r])'
  <2>1. LedgerExcused \/ me.touched \/ DOMAIN me.page # {}
    BY <1>2 DEF RunnerLedger, LedgerSafe, RebuildsLater, Visiting
  <2> QED BY <1>3, <1>4, <1>7, <2>1 DEF LedgerSafe, RebuildsLater
<1>9. SnapKept(run[r])' /\ CursorSound(run[r])' /\ OldestSound(run[r])'
  BY <1>3, <1>4 DEF SnapKept, CursorSound, OldestSound, Between
<1>10. me.pc \in Visiting /\ RunnerLedger(r)'
  BY <1>2, <1>8, <1>9 DEF Visiting, RunnerLedger
<1> QED BY <1>4, <1>5, <1>10, LedgerByVisit

LEMMA RestartStrictLedger ==
  ASSUME ~Overlap, Leases, Taints, Bounded, LedgerKept, NEW r \in Runners, RestartStrict(r) PROVE LedgerKept'
<1> DEFINE me == run[r]
           new == [me EXCEPT !.pc = "failure"]
<1>1. me.pc = "conclude" /\ To(r, "failure") /\ acct' = acct
      /\ row' = [row EXCEPT !.proof = None, !.cursor = 0, !.scan = FALSE]
  BY DEF RestartStrict
<1>2. me \in Memories /\ Fits(me, Height) /\ "failure" \in Running
  BY Runner DEF Running, Visiting
<1>3. run' = [run EXCEPT ![r] = new] /\ new \in Memories /\ run'[r] = new
  BY <1>1, <1>2, ToIs, Put
<1>4. new.pc = "failure" /\ new.more = me.more /\ ~me.more
  BY <1>1, <1>2 DEF Memories, Fits
<1> HIDE DEF new
<1>5. row'.proof = None /\ row'.cursor = 0
  BY <1>1, RowFields DEF RowType
<1>6. LedgerExcused'
  BY <1>5 DEF LedgerExcused, Behind, ScanAtOldest
<1>7. RunnerLedger(r)'
  BY <1>3, <1>4, <1>6 DEF RunnerLedger, LedgerSafe, SnapKept, CursorSound, OldestSound, Between
<1>8. me.pc \in Visiting
  BY <1>1 DEF Visiting
<1> QED BY <1>1, <1>3, <1>7, <1>8, LedgerByVisit

LEMMA PassPageLedger ==
  ASSUME ~Overlap, Leases, Taints, Bounded, LedgerKept, NEW r \in Runners, PassPage(r) PROVE LedgerKept'
<1> DEFINE me == run[r]
           New(more) == [me EXCEPT !.more = more, !.pc = "finalize"]
<1>1. PICK more \in BOOLEAN : run' = [run EXCEPT ![r] = New(more)] /\ New(more) \in Memories
  BY PassPageIs
<1> DEFINE new == New(more)
<1>2. me \in Memories /\ RunnerLedger(r) /\ me.pc = "conclude"
  BY Runner, PassPageIs DEF LedgerKept
<1>3. /\ new.pc = "finalize" /\ new.state = me.state /\ new.more = more /\ new.touched = me.touched
      /\ new.page = me.page
  BY <1>2 DEF Memories
<1>4. new \in Memories /\ run' = [run EXCEPT ![r] = new]
  BY <1>1
<1> HIDE DEF new
<1>5. UNCHANGED <<provider, stored, row, acct, ledger>>
  BY DEF PassPage
<1>6. RebuildsLater(me) => RebuildsLater(new)
  BY <1>2, <1>3 DEF RebuildsLater
<1>7. SnapKept(new) /\ CursorSound(new) /\ OldestSound(new)
  BY <1>2, <1>3 DEF RunnerLedger, SnapKept, CursorSound, OldestSound, CursorKept, Between
<1>8. me.pc \in Visiting /\ new.pc # "refresh"
  BY <1>2, <1>3 DEF Visiting
<1> QED BY <1>4, <1>5, <1>6, <1>7, <1>8, PlainLedger

LEMMA FinalizeLedger ==
  ASSUME ~Overlap, Leases, Taints, Bounded, LedgerKept, NEW r \in Runners, Finalize(r) PROVE LedgerKept'
<1> DEFINE me == run[r]
           new == [me EXCEPT !.pc = "success"]
<1>1. /\ me.pc = "finalize" /\ To(r, "success") /\ UNCHANGED <<provider, stored, acct, ledger>>
      /\ \/ row' = row
         \/ me.state.active /\ row' = [row EXCEPT !.cursor = 0, !.expected = None]
  BY DEF Finalize
<1>2. me \in Memories /\ RunnerLedger(r) /\ "success" \in Running
  BY Runner DEF LedgerKept, Running, Visiting
<1>3. run' = [run EXCEPT ![r] = new] /\ new \in Memories /\ run'[r] = new
  BY <1>1, <1>2, ToIs, Put
<1>4. /\ new.pc = "success" /\ new.state = me.state /\ new.page = me.page /\ new.more = me.more
      /\ new.touched = me.touched
  BY <1>2 DEF Memories
<1> HIDE DEF new
<1>5. /\ row'.proof = row.proof /\ row'.scan = row.scan
      /\ row'.cursor = row.cursor \/ (row'.cursor = 0 /\ me.state.active)
  BY <1>1, RowFields DEF RowType
<1>6. LedgerExcused => LedgerExcused'
  <2>1. ConfirmedTxs' = ConfirmedTxs
    BY <1>1 DEF ConfirmedTxs, IsConfirmed
  <2> QED BY <1>1, <1>5, <2>1 DEF LedgerExcused, ScanAtOldest, Behind
<1>7. LedgerSafe(run[r])'
  <2>1. LedgerExcused \/ RebuildsLater(me)
    BY <1>1, <1>2 DEF RunnerLedger, LedgerSafe, Visiting
  <2> QED BY <1>1, <1>3, <1>4, <1>6, <2>1 DEF LedgerSafe, RebuildsLater
<1>8. SnapKept(run[r])' /\ CursorSound(run[r])' /\ OldestSound(run[r])'
  BY <1>1, <1>2, <1>3, <1>4, <1>5 DEF RunnerLedger, SnapKept, CursorSound, CursorKept, OldestSound, Between
<1>9. me.pc \in Visiting /\ RunnerLedger(r)'
  BY <1>1, <1>7, <1>8 DEF Visiting, RunnerLedger
<1> QED BY <1>1, <1>3, <1>9, LedgerByVisit

LEMMA MarkSuccessLedger ==
  ASSUME ~Overlap, Leases, Taints, Bounded, LedgerKept, NEW r \in Runners, MarkSuccess(r) PROVE LedgerKept'
<1> DEFINE me == run[r]
           New(s, u, v) == [me EXCEPT !.state = s, !.unavailable = u, !.touched = v, !.pc = "rebuild"]
<1>1. PICK s \in States, u \in BOOLEAN, v \in BOOLEAN :
         /\ run' = [run EXCEPT ![r] = New(s, u, v)] /\ New(s, u, v) \in Memories
         /\ s = IF me.more THEN me.state ELSE NoState
         /\ v = (me.touched \/ DOMAIN me.page # {})
  BY MarkSuccessIs
<1> DEFINE new == New(s, u, v)
<1>2. me \in Memories /\ RunnerLedger(r) /\ me.pc = "success"
  BY Runner, MarkSuccessIs DEF LedgerKept
<1>3. new.pc = "rebuild" /\ new.state = s /\ new.more = me.more /\ new.touched = v
  BY <1>2 DEF Memories
<1>4. new \in Memories /\ run' = [run EXCEPT ![r] = new]
  BY <1>1
<1> HIDE DEF new
<1>5. row' = [row EXCEPT !.open = FALSE, !.result = "success", !.tip = TRUE]
      /\ UNCHANGED <<provider, stored, acct, ledger>>
  BY DEF MarkSuccess
<1>6. row'.proof = row.proof /\ row'.cursor = row.cursor /\ row'.scan = row.scan
  BY <1>5, RowFields DEF RowType
<1>7. s.live => me.more /\ s = me.state
  BY <1>1, NoStateTyped
<1>8. me.more => s = me.state
  BY <1>1
<1>9. RebuildsLater(me) => RebuildsLater(new)
  BY <1>1, <1>2, <1>3 DEF RebuildsLater
<1>10. SnapKept(new) /\ CursorSound(new) /\ OldestSound(new)
  BY <1>2, <1>3, <1>7, <1>8 DEF RunnerLedger, SnapKept, CursorSound, OldestSound, CursorKept, Between
<1>11. me.pc \in Visiting /\ new.pc # "refresh"
  BY <1>2, <1>3 DEF Visiting
<1> QED BY <1>4, <1>5, <1>6, <1>9, <1>10, <1>11, PlainLedger

LEMMA FailCallLedger ==
  ASSUME ~Overlap, Leases, Taints, Bounded, LedgerKept, NEW r \in Runners, FailCall(r) PROVE LedgerKept'
<1> DEFINE me == run[r]
           new == [me EXCEPT !.pc = "failure"]
<1>1. /\ me.pc \in {"stats", "page", "reconcile"} /\ To(r, "failure")
      /\ UNCHANGED <<provider, stored, row, acct, ledger>>
  BY DEF FailCall
<1>2. me \in Memories /\ Fits(me, Height) /\ "failure" \in Running
  BY Runner DEF Running, Visiting
<1>3. run' = [run EXCEPT ![r] = new] /\ new \in Memories
  BY <1>1, <1>2, ToIs
<1>4. /\ new.pc = "failure" /\ new.more = me.more /\ ~me.more /\ new.touched = me.touched
      /\ new.contradicted = me.contradicted
  BY <1>1, <1>2 DEF Memories, Fits
<1> HIDE DEF new
<1>5. RebuildsLater(me) => RebuildsLater(new)
  BY <1>1, <1>4 DEF RebuildsLater
<1>6. SnapKept(new) /\ CursorSound(new) /\ OldestSound(new)
  BY <1>4 DEF SnapKept, CursorSound, OldestSound, Between
<1>7. me.pc \in Visiting /\ new.pc # "refresh"
  BY <1>1, <1>4 DEF Visiting
<1> QED BY <1>1, <1>3, <1>5, <1>6, <1>7, PlainLedger

\* A failed visit rebuilds for the contradiction that it carried.
LEMMA MarkFailureLedger ==
  ASSUME ~Overlap, Leases, Taints, Bounded, LedgerKept, NEW r \in Runners, MarkFailure(r) PROVE LedgerKept'
<1> DEFINE me == run[r]
           New(u, v) == [me EXCEPT !.state = NoState, !.failed = TRUE, !.unavailable = u, !.touched = v,
                                   !.pc = "rebuild"]
<1>1. PICK u \in BOOLEAN, v \in BOOLEAN :
         run' = [run EXCEPT ![r] = New(u, v)] /\ New(u, v) \in Memories /\ v = (me.touched \/ Carries(me))
  BY MarkFailureIs
<1> DEFINE new == New(u, v)
<1>2. me \in Memories /\ RunnerLedger(r) /\ me.pc = "failure" /\ Fits(me, Height)
  BY Runner, MarkFailureIs DEF LedgerKept
<1>3. new.pc = "rebuild" /\ new.state = NoState /\ new.more = me.more /\ ~me.more /\ new.touched = v
  BY <1>2 DEF Memories, Fits
<1>4. run'[r] = new /\ run' = [run EXCEPT ![r] = new] /\ new \in Memories
  BY <1>1, Put
<1> HIDE DEF new
<1>5. UNCHANGED <<provider, stored, acct>> /\ (~Carries(me) => ledger' = ledger)
  BY DEF MarkFailure
<1>6. row'.cursor = row.cursor /\ row'.scan = row.scan /\ (~Carries(me) => row'.proof = row.proof)
  BY MarkFailureIs
<1>7. LedgerSafe(run[r])'
  <2>1. CASE v
    BY <1>3, <1>4, <2>1 DEF LedgerSafe, RebuildsLater
  <2>2. CASE ~v
    <3>1. ~me.touched /\ ~Carries(me)
      BY <1>1, <2>2
    <3>2. LedgerExcused
      BY <1>2, <3>1 DEF RunnerLedger, LedgerSafe, RebuildsLater, Visiting, Carries
    <3>3. LedgerExcused'
      BY <1>5, <1>6, <3>1, <3>2, SameExcuse
    <3> QED BY <3>3 DEF LedgerSafe
  <2> QED BY <2>1, <2>2
<1>8. SnapKept(run[r])' /\ CursorSound(run[r])' /\ OldestSound(run[r])'
  BY <1>3, <1>4, NoStateTyped DEF SnapKept, CursorSound, OldestSound, Between
<1>9. me.pc \in Visiting /\ RunnerLedger(r)'
  BY <1>2, <1>7, <1>8 DEF Visiting, RunnerLedger
<1> QED BY <1>4, <1>5, <1>9, LedgerByVisit

LEMMA RebuildLedgerLedger ==
  ASSUME ~Overlap, Leases, Taints, Bounded, LedgerKept, NEW r \in Runners, RebuildLedger(r) PROVE LedgerKept'
<1> DEFINE me == run[r]
           new == [me EXCEPT !.pc = "refresh"]
<1>1. me.pc = "rebuild" /\ To(r, "refresh")
  BY RebuildLedgerIs
<1>2. me \in Memories /\ RunnerLedger(r) /\ "refresh" \in Running
  BY Runner DEF LedgerKept, Running, Visiting
<1>3. run' = [run EXCEPT ![r] = new] /\ new \in Memories /\ run'[r] = new
  BY <1>1, <1>2, ToIs, Put
<1>4. new.pc = "refresh" /\ new.state = me.state /\ new.more = me.more
  BY <1>2 DEF Memories
<1> HIDE DEF new
<1>5. /\ UNCHANGED <<provider, stored, row, acct>>
      /\ (~me.touched => ledger' = ledger)
      /\ \E basis : me.touched => ledger' = [basis |-> basis, current |-> TRUE]
  BY Zenon DEF RebuildLedger
<1>6. LedgerExcused'
  <2>1. CASE me.touched
    <3>1. ledger'.current
      BY <1>5, <2>1
    <3> QED BY <3>1 DEF LedgerExcused
  <2>2. CASE ~me.touched
    <3>1. LedgerExcused
      BY <1>1, <1>2, <2>2 DEF RunnerLedger, LedgerSafe, RebuildsLater, Visiting
    <3> QED BY <1>5, <2>2, <3>1, SameExcuse
  <2> QED BY <2>1, <2>2
<1>7. SnapKept(run[r])' /\ CursorSound(run[r])' /\ OldestSound(run[r])'
  BY <1>1, <1>2, <1>3, <1>4, <1>5 DEF RunnerLedger, SnapKept, CursorSound, CursorKept, OldestSound, Between
<1>8. me.pc \in Visiting /\ RunnerLedger(r)'
  BY <1>1, <1>6, <1>7 DEF Visiting, RunnerLedger, LedgerSafe
<1> QED BY <1>3, <1>5, <1>8, LedgerByVisit

\* A visit that ends leaves a ledger that is current or excused.
LEMMA RefreshAccountLedger ==
  ASSUME ~Overlap, Leases, Bounded, LedgerKept, NEW r \in Runners, RefreshAccount(r) PROVE LedgerKept'
<1> DEFINE me == run[r]
           new == Rested(me)
<1>1. me.pc = "refresh" /\ run' = [run EXCEPT ![r] = new] /\ me \in Memories /\ RunnerLedger(r)
  BY Runner, RefreshAccountIs DEF LedgerKept
<1>2. new \in Memories /\ new.pc = "finish" /\ new.state = me.state /\ ~new.more
  BY <1>1, RestedFields
<1> HIDE DEF new
<1>3. run'[r] = new
  BY <1>1, <1>2, Put
<1>4. UNCHANGED <<provider, stored, row, ledger>>
  BY DEF RefreshAccount
<1>5. LedgerExcused'
  <2>1. LedgerExcused
    BY <1>1 DEF RunnerLedger, LedgerSafe, Visiting
  <2> QED BY <1>4, <2>1, SameExcuse
<1>6. RunnerLedger(r)'
  BY <1>1, <1>2, <1>3, <1>4
     DEF RunnerLedger, LedgerSafe, SnapKept, CursorSound, CursorKept, OldestSound, Between, Visiting
<1> QED BY <1>1, <1>2, <1>5, <1>6, LedgerByStep

LEMMA NextIterationLedger ==
  ASSUME ~Overlap, Leases, Bounded, LedgerKept, Manual, NextIteration PROVE LedgerKept'
<1> DEFINE me == run["manual"]
           new == [me EXCEPT !.pc = "start", !.snap = Snapshot, !.left = me.left - 1]
<1>1. me.pc = "finish" /\ run' = [run EXCEPT !["manual"] = new] /\ new \in Memories
  BY NextIterationIs
<1>2. "manual" \in Runners /\ me \in Memories /\ RunnerLedger("manual") /\ Fits(me, Height)
  BY Runner DEF Runners, LedgerKept
<1>3. new.pc = "start" /\ new.snap = Snapshot /\ new.state = me.state /\ new.more = me.more /\ ~me.more
  BY <1>1, <1>2 DEF Memories, Fits
<1> HIDE DEF new
<1>4. run'["manual"] = new
  BY <1>1, <1>2, Put
<1>5. UNCHANGED <<provider, stored, row, acct, ledger>>
  BY DEF NextIteration
<1>6. new.snap.proof = row.proof /\ new.snap.scan = row.scan
  BY <1>3, SnapshotTyped
<1>7. RunnerLedger("manual")'
  BY <1>1, <1>2, <1>3, <1>4, <1>5, <1>6
     DEF RunnerLedger, LedgerSafe, SnapKept, CursorSound, CursorKept, OldestSound, Between, Visiting
<1>8. (~acct.open => LedgerExcused)'
  BY <1>5, SameExcuse DEF LedgerKept
<1> QED BY <1>1, <1>2, <1>7, <1>8, LedgerByStep

\* A runner that waits while nothing it is about changes.
LEMMA WaitingLedger ==
  ASSUME UNCHANGED <<stored, row, ledger>>, provider'.repeats = provider.repeats,
         NEW q \in Runners, run'[q] = run[q], RunnerLedger(q)
  PROVE  RunnerLedger(q)'
<1>1. LedgerExcused' = LedgerExcused /\ ScanAtOldest' = ScanAtOldest /\ row' = row
  BY SameExcuse
<1>2. LedgerSafe(run[q])' /\ SnapKept(run[q])'
  BY <1>1 DEF RunnerLedger, LedgerSafe, SnapKept
<1>3. CursorSound(run[q])' /\ OldestSound(run[q])'
  BY <1>1 DEF RunnerLedger, CursorSound, CursorKept, OldestSound
<1> QED BY <1>2, <1>3 DEF RunnerLedger

LEMMA IdleLedger ==
  ASSUME NEW q \in Runners, run[q] = Idle PROVE RunnerLedger(q)
BY IdleTyped, NoStateTyped
   DEF RunnerLedger, LedgerSafe, SnapKept, CursorSound, OldestSound, Between, Visiting

LEMMA StartedLedger ==
  ASSUME Bounded, LedgerKept, NEW r \in Runners, NEW owner \in BOOLEAN, NEW left \in Int,
         run' = [run EXCEPT ![r] = Started(owner, left)],
         UNCHANGED <<provider, stored, row, acct, ledger>>
  PROVE  LedgerKept'
<1> DEFINE new == Started(owner, left)
<1>1. new \in Memories /\ new.pc = "start" /\ new.snap = Snapshot /\ new.state = NoState /\ ~new.more
  BY StartedFields
<1> HIDE DEF new
<1>2. run'[r] = new /\ \A q \in Runners \ {r} : run'[q] = run[q]
  BY <1>1, Put DEF new
<1>3. new.snap.proof = row.proof /\ new.snap.scan = row.scan
  BY <1>1, SnapshotTyped
<1>4. RunnerLedger(r)'
  BY <1>1, <1>2, <1>3, NoStateTyped
     DEF RunnerLedger, LedgerSafe, SnapKept, CursorSound, OldestSound, Between, Visiting
<1>5. ASSUME NEW q \in Runners \ {r} PROVE RunnerLedger(q)'
  BY <1>2, WaitingLedger DEF LedgerKept
<1>6. (~acct.open => LedgerExcused)'
  BY SameExcuse DEF LedgerKept
<1> QED BY <1>4, <1>5, <1>6 DEF LedgerKept

LEMMA StartLedger ==
  ASSUME Bounded, LedgerKept, StartAutomatic \/ (Manual /\ StartManual) PROVE LedgerKept'
<1>1. CASE StartAutomatic
  <2>1. run' = [run EXCEPT !["auto"] = Started(RepairOwnsAccount, 0)]
    BY <1>1, StartAutomaticIs
  <2>2. UNCHANGED <<provider, stored, row, acct, ledger>>
    BY <1>1 DEF StartAutomatic
  <2>3. RepairOwnsAccount \in BOOLEAN /\ "auto" \in Runners /\ 0 \in Int
    BY OwnsBoolean, RunnersAre
  <2> QED BY <2>1, <2>2, <2>3, StartedLedger
<1>2. CASE Manual /\ StartManual
  <2>1. run' = [run EXCEPT !["manual"] = Started(FALSE, Iterations - 1)]
    BY <1>2, StartManualIs
  <2>2. UNCHANGED <<provider, stored, row, acct, ledger>>
    BY <1>2 DEF StartManual
  <2>3. "manual" \in Runners /\ Iterations - 1 \in Int /\ FALSE \in BOOLEAN
    BY <1>2, RunnersAre, Bounds
  <2> QED BY <2>1, <2>2, <2>3, StartedLedger
<1> QED BY <1>1, <1>2

\* A run that ends, or a process that stops, leaves nothing in memory.
LEMMA EndLedger ==
  ASSUME Bounded, LedgerKept, (Manual /\ FinishManual) \/ FinishAutomatic \/ Crash PROVE LedgerKept'
<1>1. UNCHANGED <<provider, stored, row, acct, ledger>>
  BY DEF FinishManual, FinishAutomatic, Crash
<1>2. \A q \in Runners : run'[q] \in {Idle, run[q]}
  <2>1. CASE Crash
    BY <2>1 DEF Crash
  <2>2. ASSUME NEW r \in Runners, run' = [run EXCEPT ![r] = Idle] PROVE \A q \in Runners : run'[q] \in {Idle, run[q]}
    BY <2>2, IdleTyped, Put
  <2> QED BY <2>1, <2>2, RunnersAre DEF FinishManual, FinishAutomatic
<1>3. ASSUME NEW q \in Runners PROVE RunnerLedger(q)'
  <2>1. CASE run'[q] = Idle
    BY <2>1, IdleTyped, NoStateTyped
       DEF RunnerLedger, LedgerSafe, SnapKept, CursorSound, OldestSound, Between, Visiting
  <2>2. CASE run'[q] = run[q]
    BY <1>1, <2>2, WaitingLedger DEF LedgerKept
  <2> QED BY <1>2, <2>1, <2>2
<1>4. (~acct.open => LedgerExcused)'
  BY <1>1, SameExcuse DEF LedgerKept
<1> QED BY <1>3, <1>4 DEF LedgerKept

\* The provider's steps change nothing that the ledger is about.
LEMMA AwayLedger ==
  ASSUME LedgerKept, UNCHANGED <<stored, row, acct, ledger, run>>, provider'.repeats = provider.repeats
  PROVE  LedgerKept'
<1>1. ASSUME NEW q \in Runners PROVE RunnerLedger(q)'
  BY WaitingLedger DEF LedgerKept
<1>2. (~acct.open => LedgerExcused)'
  BY SameExcuse DEF LedgerKept
<1> QED BY <1>1, <1>2 DEF LedgerKept

LEMMA ProviderLedger == ASSUME Bounded, LedgerKept, ProviderStep PROVE LedgerKept'
<1>1. provider \in [confirmed : 0 .. MaxTxs, pending : BOOLEAN, moved : SUBSET Txs, repeats : BOOLEAN]
  BY DEF Bounded, TypeOK
<1>2. provider'.repeats = provider.repeats
  BY <1>1 DEF ProviderStep, Broadcast, Confirm, Reorganise
<1> QED BY <1>2, ProviderStepIs, AwayLedger

LEMMA LedgerInit == Init => LedgerKept
<1> SUFFICES ASSUME Init PROVE LedgerKept
  OBVIOUS
<1>1. ledger.current /\ \A r \in Runners : run[r] = Idle
  BY DEF Init
<1> QED BY <1>1, IdleLedger DEF LedgerKept, LedgerExcused

LEMMA LedgerStep ==
  ASSUME ~Overlap, Leases, Taints, Bounded, Grounded, LedgerKept,
         NEW r \in Runners, Step(r) \/ SkipVisit(r) \/ FailCall(r)
  PROVE  LedgerKept'
BY OpenAccountLedger, BeginVisitLedger, FetchStatsLedger, SettleProofLedger, PrepareLedger, FetchPageLedger,
   ReconcileNextLedger, InvalidatePageLedger, AdvanceCursorLedger, PublishLedger, RestartStrictLedger,
   PassPageLedger, FinalizeLedger, MarkSuccessLedger, MarkFailureLedger, RebuildLedgerLedger,
   RefreshAccountLedger, SkipVisitLedger, FailCallLedger DEF Step

LEMMA LedgerNext ==
  ASSUME ~Overlap, Leases, Taints, Bounded, Grounded, LedgerKept, [Next]_vars PROVE LedgerKept'
<1>1. CASE UNCHANGED vars
  BY <1>1, AwayLedger DEF vars
<1>2. CASE Next
  <2>1. CASE \E r \in Runners : Step(r) \/ SkipVisit(r) \/ FailCall(r)
    BY <2>1, LedgerStep
  <2>2. CASE Manual /\ (StartManual \/ NextIteration \/ FinishManual)
    BY <2>2, StartLedger, NextIterationLedger, EndLedger
  <2>3. CASE StartAutomatic \/ FinishAutomatic \/ Crash
    BY <2>3, StartLedger, EndLedger
  <2>4. CASE Broadcast \/ Confirm \/ Reorganise
    BY <2>4, ProviderLedger DEF ProviderStep
  <2>5. CASE Upgrade
    BY <2>5, AwayLedger DEF Upgrade
  <2> QED BY <1>2, <2>1, <2>2, <2>3, <2>4, <2>5 DEF Next
<1> QED BY <1>1, <1>2

\* Between runs, an account reported complete has a ledger that was rebuilt
\* after the last change of its confirmed history, whatever call failed and
\* wherever a run was interrupted (rebuild_account_if_touched,
\* publish_bitcoin_account_completion).
THEOREM LedgerUpToDate ==
  ASSUME Quiet, ~Overlap
  PROVE  Spec => []LedgerFollowsHistory
<1>1. Leases /\ Taints /\ Bounded /\ Grounded /\ LedgerKept /\ [Next]_vars => LedgerKept'
  BY LedgerNext
<1>2. Leases /\ Taints /\ [Next]_vars => Taints'
  BY TaintsNext
<1>3. LedgerKept /\ CompleteMeansConfirmed => LedgerFollowsHistory
  <2> SUFFICES ASSUME LedgerKept, CompleteMeansConfirmed, Complete PROVE ledger.current
    BY DEF LedgerFollowsHistory
  <2>1. ~acct.open /\ ~row.scan /\ row.proof # None /\ ConfirmedTxs = 1 .. row.proof
    BY DEF Complete, CandidateComplete, IntegrationSuccess, CompleteMeansConfirmed
  <2> QED BY <2>1 DEF LedgerKept, LedgerExcused, Behind
<1> QED BY <1>1, <1>2, <1>3, LedgerInit, TaintsInit, LeasesHold, BoundsHold, GroundsHold, CompleteIsConfirmed,
           PTL DEF Spec

=============================================================================
