------------------------ MODULE BitcoinBoundsProofs ------------------------
(***************************************************************************)
(* The ranges of a visit's memory, of the stored rows and of the raw       *)
(* evidence, for any number of transactions, pages, iterations and faults: *)
(* `Bounded' holds of every execution and makes a strict scan exact.       *)
(***************************************************************************)
EXTENDS BitcoinHistoryProofs, NewestFirst

-----------------------------------------------------------------------------
\* Types and bounds

Height == provider.confirmed + (IF provider.pending THEN 1 ELSE 0)

Seen == {"pending", "old", "new"}
Pages == UNION {[S -> Seen] : S \in SUBSET Txs}
Snaps == [proof : None .. MaxTxs, cursor : 0 .. MaxTxs, expected : None .. MaxTxs,
          tip : BOOLEAN, scan : BOOLEAN]
States == [live : BOOLEAN, expected : 0 .. MaxTxs, waiting : BOOLEAN, active : BOOLEAN,
           allowed : BOOLEAN, published : BOOLEAN, firstDone : BOOLEAN, cursor : 0 .. MaxTxs,
           observed : SUBSET Txs, known : SUBSET Txs, strict : BOOLEAN]
Memories == [pc : Running \cup {"idle"}, owner : BOOLEAN, snap : Snaps, pendingIds : BOOLEAN,
             early : BOOLEAN, permitted : BOOLEAN, state : States, from : 0 .. MaxTxs, page : Pages,
             todo : SUBSET Txs, contradicted : BOOLEAN, unavailable : BOOLEAN, touched : BOOLEAN,
             more : BOOLEAN, failed : BOOLEAN, left : Int]

\* Where a state kept for the next iteration of sync control may be found.
Between == {"start", "gate", "rebuild", "refresh", "finish"}

\* Cursors and pages lie within what the provider has announced so far, and a
\* later page is asked for with a cursor.
Fits(me, top) ==
    /\ me.snap.cursor <= top /\ me.state.cursor <= top /\ me.from <= top
    /\ DOMAIN me.page \subseteq 1 .. top
    /\ me.todo \subseteq DOMAIN me.page
    /\ me.pc = "reconcile" => me.todo # {}
    /\ me.pc = "idle" => me = Idle
    /\ me.pc = "page" /\ me.state.firstDone => me.state.cursor # 0
    /\ me.pc = "conclude" => me.state.firstDone \/ (me.state.strict /\ DOMAIN me.page = {})
    /\ me.pc \in Between /\ me.state.live => me.state.firstDone /\ me.state.cursor # 0
    /\ me.more => /\ me.pc \in {"finalize", "success", "rebuild", "refresh"}
                  /\ me.state.firstDone /\ me.state.cursor # 0

\* What the provider returned for each cursor of a strict scan.
PageRecords == [confirmed : SUBSET Txs, pending : BOOLEAN]
PageSound(c, page) ==
    /\ page \in PageRecords
    /\ c = 0 => \E k \in 0 .. MaxTxs : page.confirmed = Newest(1 .. k)
    /\ c = 1 => page.confirmed \subseteq {1}
    /\ c > 1 => page.confirmed = Newest(1 .. c - 1)
EvidenceSound ==
    /\ DOMAIN evidence = {"pages", "twice", "kept"}
    /\ DOMAIN evidence.pages \subseteq 0 .. MaxTxs
    /\ \A c \in DOMAIN evidence.pages : PageSound(c, evidence.pages[c])

Bounded ==
    /\ TypeOK
    /\ provider.pending => provider.confirmed < MaxTxs
    /\ row.cursor <= Height
    /\ run \in [Runners -> Memories]
    /\ \A r \in Runners : Fits(run[r], Height)
    /\ EvidenceSound

-----------------------------------------------------------------------------
\* Facts about the parts of a memory

LEMMA Bounds ==
  /\ MaxTxs \in Nat /\ PageSize \in Nat /\ PageSize # 0 /\ Iterations \in Nat /\ None = -1
  /\ Txs = 1 .. MaxTxs
BY BoundsAssumption DEF None, Txs

LEMMA MemoryFields ==
  ASSUME NEW me \in Memories
  PROVE  /\ me.pc \in Running \cup {"idle"} /\ me.owner \in BOOLEAN /\ me.snap \in Snaps
         /\ me.pendingIds \in BOOLEAN /\ me.early \in BOOLEAN /\ me.permitted \in BOOLEAN
         /\ me.state \in States /\ me.from \in 0 .. MaxTxs /\ me.page \in Pages
         /\ me.todo \subseteq Txs /\ me.contradicted \in BOOLEAN /\ me.unavailable \in BOOLEAN
         /\ me.touched \in BOOLEAN /\ me.more \in BOOLEAN /\ me.failed \in BOOLEAN /\ me.left \in Int
BY DEF Memories

LEMMA SnapFields ==
  ASSUME NEW snap \in Snaps
  PROVE  /\ snap.proof \in None .. MaxTxs /\ snap.cursor \in 0 .. MaxTxs /\ snap.expected \in None .. MaxTxs
         /\ snap.tip \in BOOLEAN /\ snap.scan \in BOOLEAN /\ snap.proof \in Int /\ snap.cursor \in Nat
BY Bounds DEF Snaps

LEMMA StateFields ==
  ASSUME NEW s \in States
  PROVE  /\ s.live \in BOOLEAN /\ s.expected \in 0 .. MaxTxs /\ s.waiting \in BOOLEAN /\ s.active \in BOOLEAN
         /\ s.allowed \in BOOLEAN /\ s.published \in BOOLEAN /\ s.firstDone \in BOOLEAN
         /\ s.cursor \in 0 .. MaxTxs /\ s.observed \subseteq Txs /\ s.known \subseteq Txs
         /\ s.strict \in BOOLEAN /\ s.expected \in Nat /\ s.cursor \in Nat
BY Bounds DEF States

LEMMA PageFields ==
  ASSUME NEW page \in Pages
  PROVE  DOMAIN page \subseteq Txs /\ \A t \in DOMAIN page : page[t] \in Seen
BY DEF Pages

LEMMA NoStateTyped ==
  NoState \in States /\ ~NoState.live /\ NoState.cursor = 0 /\ ~NoState.strict /\ ~NoState.active
BY Bounds DEF NoState, States

LEMMA IdleTyped ==
  /\ Idle \in Memories /\ Idle.snap \in Snaps /\ Idle.pc = "idle" /\ Idle.state = NoState /\ ~Idle.owner
  /\ Idle.snap.cursor = 0 /\ Idle.snap.proof = None /\ Idle.from = 0 /\ Idle.page = NoPage /\ Idle.todo = {}
  /\ ~Idle.more /\ ~Idle.touched /\ ~Idle.contradicted
<1>1. NoPage \in Pages
  BY DEF NoPage, Pages
<1>2. [proof |-> None, cursor |-> 0, expected |-> None, tip |-> FALSE, scan |-> FALSE] \in Snaps
  BY Bounds DEF Snaps
<1> QED BY <1>1, <1>2, NoStateTyped, Bounds DEF Idle, Memories

LEMMA IdleFits == ASSUME NEW top \in Nat PROVE Fits(Idle, top)
<1>1. DOMAIN NoPage = {}
  BY DEF NoPage
<1> QED BY <1>1, IdleTyped, NoStateTyped DEF Fits, Between

LEMMA FitsHigher ==
  ASSUME NEW me \in Memories, NEW top \in Nat, NEW top2 \in Nat, top <= top2, Fits(me, top)
  PROVE  Fits(me, top2)
<1>1. me.snap.cursor \in Int /\ me.state.cursor \in Int /\ me.from \in Int
  BY MemoryFields, SnapFields, StateFields, Bounds
<1>2. 1 .. top \subseteq 1 .. top2
  OBVIOUS
<1> QED BY <1>1, <1>2 DEF Fits

LEMMA HeightIs ==
  ASSUME Bounded
  PROVE  /\ provider.confirmed \in Nat /\ provider.pending \in BOOLEAN
         /\ Height \in Nat /\ Height <= MaxTxs
         /\ provider.confirmed <= Height /\ Height <= provider.confirmed + 1
         /\ provider.pending => Height = provider.confirmed + 1
         /\ ~provider.pending => Height = provider.confirmed
BY Bounds DEF Bounded, TypeOK, Height

\* The columns of the address row.
RowType == [tip : BOOLEAN, result : {"none", "success", "failure"}, open : BOOLEAN,
            cursor : 0 .. MaxTxs, proof : None .. MaxTxs, expected : None .. MaxTxs, scan : BOOLEAN]

LEMMA RowFields ==
  ASSUME Bounded
  PROVE  /\ row \in RowType /\ row.cursor \in Nat /\ row.cursor <= Height /\ row.proof \in Int
         /\ row.proof \in None .. MaxTxs /\ row.scan \in BOOLEAN /\ row.expected \in None .. MaxTxs
BY Bounds DEF Bounded, TypeOK, RowType

LEMMA Runner ==
  ASSUME Bounded, NEW r \in Runners
  PROVE  run[r] \in Memories /\ Fits(run[r], Height) /\ run \in [Runners -> Memories]
BY DEF Bounded

\* The step of a runner, and what it leaves to show.
LEMMA Put ==
  ASSUME Bounded, NEW r \in Runners, NEW new \in Memories, run' = [run EXCEPT ![r] = new]
  PROVE  /\ run' \in [Runners -> Memories] /\ run'[r] = new
         /\ \A q \in Runners \ {r} : run'[q] = run[q]
BY DEF Bounded

LEMMA RunnerBounded ==
  ASSUME Bounded, NEW r \in Runners, NEW new \in Memories, run' = [run EXCEPT ![r] = new],
         Fits(new, Height), provider' = provider, TypeOK', row'.cursor <= Height, EvidenceSound'
  PROVE  Bounded'
<1>1. Height' = Height
  BY DEF Height
<1>2. /\ run' \in [Runners -> Memories] /\ run'[r] = new
      /\ \A q \in Runners \ {r} : run'[q] = run[q]
  BY Put
<1>3. \A q \in Runners : Fits(run'[q], Height)
  BY <1>2, Runner
<1> QED BY <1>1, <1>2, <1>3 DEF Bounded

\* A step that writes at most the address row, the account row and the ledger.
LEMMA TypeKept ==
  ASSUME Bounded, UNCHANGED <<provider, plan, stored, repair>>, row' \in RowType,
         acct' \in [open : BOOLEAN, result : {"none", "success", "failure"}],
         ledger' \in [basis : {"unknown", "provider", "zero"}, current : BOOLEAN],
         lease' \in {"free", "auto", "manual"}, tainted' \in BOOLEAN
  PROVE  TypeOK'
BY DEF Bounded, TypeOK, RowType

LEMMA EvidenceKept == ASSUME Bounded, evidence' = evidence PROVE EvidenceSound'
BY DEF Bounded, EvidenceSound

LEMMA Types ==
  ASSUME Bounded
  PROVE  /\ acct \in [open : BOOLEAN, result : {"none", "success", "failure"}]
         /\ ledger \in [basis : {"unknown", "provider", "zero"}, current : BOOLEAN]
         /\ lease \in {"free", "auto", "manual"} /\ tainted \in BOOLEAN /\ repair \in {"pending", "completed"}
         /\ stored \in [Txs -> Statuses] /\ plan \in BOOLEAN
BY DEF Bounded, TypeOK

LEMMA BoundedInit == Init => Bounded
<1> SUFFICES ASSUME Init PROVE Bounded
  OBVIOUS
<1>1. provider \in [confirmed : 0 .. MaxTxs, pending : BOOLEAN, moved : SUBSET Txs, repeats : BOOLEAN]
      /\ ~provider.pending
  BY BoundsAssumption DEF Init
<1>2. Height \in Nat
  BY <1>1, Bounds DEF Height
<1>3. row \in RowType /\ row.cursor = 0 /\ row.proof = None
  <2>1. \E tip \in BOOLEAN, result \in {"none", "success"} :
           row = [tip |-> tip, result |-> result, open |-> FALSE, cursor |-> 0,
                  proof |-> None, expected |-> None, scan |-> FALSE]
    BY Zenon DEF Init
  <2> QED BY <2>1, Bounds DEF RowType
<1>4. acct \in [open : BOOLEAN, result : {"none", "success", "failure"}]
  <2>1. \E result \in {"none", "success"} : acct = [open |-> FALSE, result |-> result]
    BY Zenon DEF Init
  <2> QED BY <2>1
<1>5. stored \in [Txs -> Statuses]
  BY DEF Init, Statuses
<1>6. plan \in BOOLEAN /\ repair \in {"pending", "completed"}
  BY BoundsAssumption DEF Init
<1>7. TypeOK
  BY <1>1, <1>3, <1>4, <1>5, <1>6 DEF Init, TypeOK, RowType
<1>8. EvidenceSound
  BY DEF Init, EvidenceSound, NoEvidence
<1>9. run \in [Runners -> Memories] /\ \A r \in Runners : Fits(run[r], Height)
  BY <1>2, IdleTyped, IdleFits DEF Init
<1> QED BY <1>1, <1>2, <1>3, <1>7, <1>8, <1>9 DEF Bounded

-----------------------------------------------------------------------------
\* What each step does to its runner's memory

LEMMA ToIs ==
  ASSUME Bounded, NEW r \in Runners, NEW pc \in Running, To(r, pc)
  PROVE  run' = [run EXCEPT ![r] = [run[r] EXCEPT !.pc = pc]]
         /\ [run[r] EXCEPT !.pc = pc] \in Memories
<1>1. run[r] \in Memories
  BY Runner
<1> QED BY <1>1, Runner DEF To, Memories

LEMMA OpenAccountIs ==
  ASSUME Bounded, NEW r \in Runners, OpenAccount(r)
  PROVE  LET new == [run[r] EXCEPT !.pc = "gate", !.unavailable = acct.open, !.touched = acct.open]
         IN  run[r].pc = "start" /\ run' = [run EXCEPT ![r] = new] /\ new \in Memories
<1>1. run[r] \in Memories /\ acct.open \in BOOLEAN
  BY Runner, Types
<1>2. "gate" \in Running
  BY DEF Running, Visiting
<1> QED BY <1>1, <1>2, Runner DEF OpenAccount, Memories

Begun(me, permitted, early, pc) == [me EXCEPT !.permitted = permitted, !.early = early, !.pc = pc]

LEMMA BeginVisitIs ==
  ASSUME Bounded, NEW r \in Runners, BeginVisit(r)
  PROVE  /\ run[r].pc = "gate"
         /\ \E permitted \in BOOLEAN, early \in BOOLEAN, pc \in {"stats", "page", "success"} :
              /\ run' = [run EXCEPT ![r] = Begun(run[r], permitted, early, pc)]
              /\ Begun(run[r], permitted, early, pc) \in Memories
              /\ (pc = "stats" <=> ~run[r].state.live)
              /\ (pc = "page" => permitted)
<1> DEFINE me == run[r]
           permitted == me.owner \/ ~plan \/ Cardinality(StoredTxs) < Cap
           tipCompared == /\ ~me.owner /\ me.snap.cursor = 0
                          /\ ~RequiresFirstPageRestart(me.snap) /\ me.snap.tip
           early == tipCompared => ~me.pendingIds
           pc == IF ~me.state.live THEN "stats" ELSE IF permitted THEN "page" ELSE "success"
<1>1. me \in Memories /\ permitted \in BOOLEAN /\ early \in BOOLEAN
  BY Runner
<1>2. me.pc = "gate"
      /\ run' = [run EXCEPT ![r].permitted = permitted, ![r].early = early, ![r].pc = pc]
  BY DEF BeginVisit
<1>3. pc \in {"stats", "page", "success"} /\ (pc = "stats" <=> ~me.state.live) /\ (pc = "page" => permitted)
  OBVIOUS
<1>4. pc \in Running
  BY <1>3 DEF Running, Visiting
<1> HIDE DEF permitted, early, pc
<1>5. run' = [run EXCEPT ![r] = [me EXCEPT !.permitted = permitted, !.early = early, !.pc = pc]]
  BY <1>1, <1>2, Runner DEF Memories
<1>6. [me EXCEPT !.permitted = permitted, !.early = early, !.pc = pc] \in Memories
  BY <1>1, <1>4 DEF Memories
<1> QED BY <1>1, <1>2, <1>3, <1>5, <1>6 DEF Begun

LEMMA FetchStatsIs ==
  ASSUME Bounded, NEW r \in Runners, FetchStats(r)
  PROVE  /\ run[r].pc = "stats"
         /\ \E s \in States :
              /\ run' = [run EXCEPT ![r] = [run[r] EXCEPT !.pc = "proof", !.state = s]]
              /\ [run[r] EXCEPT !.pc = "proof", !.state = s] \in Memories
              /\ s.live /\ s.expected = provider.confirmed /\ s.waiting = provider.pending /\ s.cursor = 0
              /\ ~s.active /\ ~s.firstDone /\ ~s.strict
<1> DEFINE s == [NoState EXCEPT !.live = TRUE, !.expected = provider.confirmed, !.waiting = provider.pending]
<1>1. run[r] \in Memories /\ provider.confirmed \in 0 .. MaxTxs /\ provider.pending \in BOOLEAN
  BY Runner DEF Bounded, TypeOK
<1>2. run[r].pc = "stats" /\ run' = [run EXCEPT ![r].pc = "proof", ![r].state = s]
  BY DEF FetchStats
<1>3. s \in States
  BY <1>1, NoStateTyped DEF States
<1>4. s.live /\ s.expected = provider.confirmed /\ s.waiting = provider.pending /\ s.cursor = 0
      /\ ~s.active /\ ~s.firstDone /\ ~s.strict
  BY DEF NoState
<1> HIDE DEF s
<1>5. run' = [run EXCEPT ![r] = [run[r] EXCEPT !.pc = "proof", !.state = s]]
  BY <1>1, <1>2, Runner DEF Memories
<1>6. "proof" \in Running
  BY DEF Running, Visiting
<1>7. [run[r] EXCEPT !.pc = "proof", !.state = s] \in Memories
  BY <1>1, <1>3, <1>6 DEF Memories
<1> QED BY <1>2, <1>3, <1>4, <1>5, <1>7

\* A state that differs in `published' only.
LEMMA PublishedState ==
  ASSUME NEW s \in States, NEW b \in BOOLEAN
  PROVE  LET new == [s EXCEPT !.published = b]
         IN  /\ new \in States /\ new.live = s.live /\ new.expected = s.expected /\ new.waiting = s.waiting
             /\ new.active = s.active /\ new.allowed = s.allowed /\ new.firstDone = s.firstDone
             /\ new.cursor = s.cursor /\ new.observed = s.observed /\ new.known = s.known
             /\ new.strict = s.strict
BY DEF States

LEMMA SettleProofIs ==
  ASSUME Bounded, NEW r \in Runners, SettleProof(r)
  PROVE  /\ run[r].pc = "proof"
         /\ \E b \in BOOLEAN :
              LET new == [run[r] EXCEPT !.pc = "prepare", !.state = [run[r].state EXCEPT !.published = b]]
              IN  run' = [run EXCEPT ![r] = new] /\ new \in Memories
<1>1. run[r] \in Memories /\ run[r].state \in States
  BY Runner, MemoryFields
<1>2. "prepare" \in Running
  BY DEF Running, Visiting
<1>3. \/ To(r, "prepare")
      \/ \E b \in BOOLEAN : run' = [run EXCEPT ![r].pc = "prepare", ![r].state.published = b]
  BY Zenon DEF SettleProof
<1>4. run[r].pc = "proof"
  BY DEF SettleProof
<1> DEFINE state(b) == [run[r].state EXCEPT !.published = b]
           new(b) == [run[r] EXCEPT !.pc = "prepare", !.state = state(b)]
<1>5. \E b \in BOOLEAN : run' = [run EXCEPT ![r] = new(b)]
  <2>1. CASE To(r, "prepare")
    <3>1. run' = [run EXCEPT ![r] = [run[r] EXCEPT !.pc = "prepare"]]
      BY <1>2, <2>1, ToIs
    <3>2. run[r].state.published \in BOOLEAN /\ state(run[r].state.published) = run[r].state
      BY <1>1 DEF States
    <3>3. [run[r] EXCEPT !.pc = "prepare", !.state = run[r].state] = [run[r] EXCEPT !.pc = "prepare"]
      BY <1>1 DEF Memories
    <3> QED BY <3>1, <3>2, <3>3
  <2>2. ASSUME NEW b \in BOOLEAN, run' = [run EXCEPT ![r].pc = "prepare", ![r].state.published = b]
        PROVE  run' = [run EXCEPT ![r] = new(b)]
    BY <1>1, <2>2, Runner DEF Memories
  <2> QED BY <1>3, <2>1, <2>2
<1>6. PICK b \in BOOLEAN : run' = [run EXCEPT ![r] = new(b)]
  BY <1>5
<1>8. state(b) \in States
  BY <1>1, PublishedState
<1>9. new(b) \in Memories
  <2> HIDE DEF state
  <2> QED BY <1>1, <1>2, <1>8 DEF Memories
<1> QED BY <1>4, <1>6, <1>9

\* What `Prepare' makes of the state: written out here, because the facts below
\* are about its parts.
PlanActive(me) == ~me.snap.tip \/ me.snap.cursor # 0 \/ ~me.early
Walks(me) == me.permitted /\ (PlanActive(me) \/ Transition(me) # "publish")
Restarts(me) == Transition(me) \in {"preserveAndRestart", "invalidateAndRestart"}
Begins(me) == me.permitted /\ me.owner /\ ~me.state.published /\ ~ZeroStats(me) /\ ~me.snap.scan
Resume(me) == IF Restarts(me) \/ Begins(me) \/ ~PlanActive(me) THEN 0 ELSE me.snap.cursor

Prepared(me, s) ==
    /\ s.live = me.state.live /\ s.expected = me.state.expected
    /\ s.active = Walks(me) /\ (s.strict => me.permitted /\ me.owner /\ (Begins(me) \/ me.snap.scan))
    /\ s.cursor = Resume(me) /\ s.firstDone = (s.cursor # 0)
    /\ s.allowed = (Transition(me) # "invalidateAndRestart" /\ ~me.owner)
    /\ s.waiting = (me.state.waiting \/ (s.active /\ HasPending))
    /\ s.known = (IF s.active THEN {} ELSE StoredTxs)
    /\ s.observed = (IF s.active THEN ConfirmedTxs ELSE {})

With(s, active, strict, cursor, allowed, waiting, known, observed) ==
    [s EXCEPT !.active = active, !.strict = strict, !.cursor = cursor, !.firstDone = cursor # 0,
              !.allowed = allowed, !.waiting = waiting, !.known = known, !.observed = observed]

LEMMA WithFields ==
  ASSUME NEW s \in States, NEW active \in BOOLEAN, NEW strict \in BOOLEAN, NEW cursor \in 0 .. MaxTxs,
         NEW allowed \in BOOLEAN, NEW waiting \in BOOLEAN, NEW known \in SUBSET Txs, NEW observed \in SUBSET Txs
  PROVE  LET new == With(s, active, strict, cursor, allowed, waiting, known, observed)
         IN  /\ new \in States /\ new.live = s.live /\ new.expected = s.expected /\ new.published = s.published
             /\ new.active = active /\ new.strict = strict /\ new.cursor = cursor
             /\ new.firstDone = (cursor # 0) /\ new.allowed = allowed /\ new.waiting = waiting
             /\ new.known = known /\ new.observed = observed
<1> DEFINE first == cursor # 0
           new == [s EXCEPT !.active = active, !.strict = strict, !.cursor = cursor, !.firstDone = first,
              !.allowed = allowed, !.waiting = waiting, !.known = known, !.observed = observed]
<1>1. first \in BOOLEAN /\ With(s, active, strict, cursor, allowed, waiting, known, observed) = new
  BY DEF With
<1> HIDE DEF first
<1>2. new \in States
  BY <1>1 DEF States
<1>3. new.live = s.live /\ new.expected = s.expected /\ new.published = s.published
      /\ new.active = active /\ new.strict = strict /\ new.cursor = cursor
  BY <1>1 DEF States
<1>4. new.firstDone = first /\ new.allowed = allowed /\ new.waiting = waiting
      /\ new.known = known /\ new.observed = observed
  BY <1>1 DEF States
<1> HIDE DEF new
<1> QED BY <1>1, <1>2, <1>3, <1>4 DEF first

LEMMA PrepareIs ==
  ASSUME Bounded, NEW r \in Runners, Prepare(r)
  PROVE  /\ run[r].pc = "prepare"
         /\ \E s \in States, pc \in {"success", "finalize", "page"} :
              /\ run' = [run EXCEPT ![r] = [run[r] EXCEPT !.snap = Idle.snap, !.state = s, !.pc = pc]]
              /\ [run[r] EXCEPT !.snap = Idle.snap, !.state = s, !.pc = pc] \in Memories
              /\ Prepared(run[r], s)
              /\ pc # "success" => run[r].permitted
<1> DEFINE me == run[r]
           strict == me.permitted /\ me.owner /\ ~me.state.published /\ ~ZeroStats(me)
           pc == CASE ~me.permitted -> "success"
                   [] me.permitted /\ ZeroStats(me) -> "finalize"
                   [] OTHER -> "page"
           allowed == Transition(me) # "invalidateAndRestart" /\ ~me.owner
           waiting == me.state.waiting \/ (Walks(me) /\ HasPending)
           known == IF Walks(me) THEN {} ELSE StoredTxs
           observed == IF Walks(me) THEN ConfirmedTxs ELSE {}
           s == With(me.state, Walks(me), strict, Resume(me), allowed, waiting, known, observed)
<1>1. me \in Memories /\ me.state \in States /\ me.snap \in Snaps /\ me.permitted \in BOOLEAN
  BY Runner, MemoryFields
<1>2. me.pc = "prepare" /\ run' = [run EXCEPT ![r].snap = Idle.snap, ![r].state = s, ![r].pc = pc]
  BY DEF Prepare, Walks, PlanActive, Restarts, Begins, Resume, With
<1>3. pc \in {"success", "finalize", "page"} /\ (pc # "success" => me.permitted)
  BY SMT
<1>4. /\ Walks(me) \in BOOLEAN /\ strict \in BOOLEAN /\ Resume(me) \in 0 .. MaxTxs
      /\ StoredTxs \subseteq Txs /\ ConfirmedTxs \subseteq Txs
  <2>1. Walks(me) \in BOOLEAN /\ strict \in BOOLEAN
    BY DEF Walks
  <2>2. Resume(me) \in 0 .. MaxTxs
    BY <1>1, SnapFields, Bounds DEF Resume
  <2> QED BY <2>1, <2>2 DEF StoredTxs, ConfirmedTxs
<1>5. s \in States /\ Prepared(me, s)
  <2>1. /\ allowed \in BOOLEAN /\ waiting \in BOOLEAN /\ known \in SUBSET Txs /\ observed \in SUBSET Txs
        /\ strict => me.permitted /\ me.owner /\ (Begins(me) \/ me.snap.scan)
    BY <1>4 DEF Begins
  <2> HIDE DEF strict, allowed, waiting, known, observed
  <2>2. /\ s \in States /\ s.live = me.state.live /\ s.expected = me.state.expected
        /\ s.active = Walks(me) /\ s.strict = strict /\ s.cursor = Resume(me)
        /\ s.firstDone = (Resume(me) # 0) /\ s.allowed = allowed /\ s.waiting = waiting
        /\ s.known = known /\ s.observed = observed
    BY <1>1, <1>4, <2>1, WithFields
  <2> HIDE DEF s
  <2> QED BY <2>1, <2>2 DEF Prepared, allowed, waiting, known, observed
<1> HIDE DEF s, pc
<1>6. run' = [run EXCEPT ![r] = [me EXCEPT !.snap = Idle.snap, !.state = s, !.pc = pc]]
  BY <1>1, <1>2, Runner DEF Memories
<1>7. pc \in Running
  BY <1>3 DEF Running, Visiting
<1>8. [me EXCEPT !.snap = Idle.snap, !.state = s, !.pc = pc] \in Memories
  BY <1>1, <1>5, <1>7, IdleTyped DEF Memories
<1> QED BY <1>2, <1>3, <1>5, <1>6, <1>8

-----------------------------------------------------------------------------
\* What the provider answers

LEMMA NewestWithin == ASSUME NEW S PROVE Newest(S) \subseteq S
BY DEF Newest

\* The newest transactions of a history without gaps: an interval that ends
\* with the last one.
LEMMA NewestOfAll ==
  ASSUME NEW n \in Nat
  PROVE  /\ n > 0 => n \in Newest(1 .. n)
         /\ \A t \in Newest(1 .. n) : t .. n \subseteq Newest(1 .. n)
<1> DEFINE L == 1 .. n
           R == {p \in Int \X Int : p[1] > p[2]}
<1>1. \A i, j \in Int : <<i, j>> \in R <=> i > j
  OBVIOUS
<1>2. \A t \in L : {u \in L : u > t} = {u \in L : <<u, t>> \in R}
  BY <1>1
<1> HIDE DEF R
<1>3. Newest(L) = FirstOf(L, R, PageSize)
  BY <1>2, Zenon DEF Newest, FirstOf
<1>4. IsFiniteSet(L)
  BY FS_Interval
<1>5. StrictOrder(R, L)
  BY <1>1 DEF StrictOrder
<1>6. n > 0 => n \in Newest(L)
  <2>1. {u \in L : u > n} = {}
    OBVIOUS
  <2>2. Cardinality({}) = 0
    BY FS_EmptySet
  <2>3. Cardinality({u \in L : u > n}) < PageSize
    BY <2>1, <2>2, Bounds
  <2>4. n > 0 => n \in L
    OBVIOUS
  <2> QED BY <2>3, <2>4, Zenon DEF Newest
<1>7. ASSUME NEW t \in Newest(L), NEW u \in t .. n PROVE u \in Newest(L)
  <2>1. t \in L /\ u \in L /\ (u # t => <<u, t>> \in R)
    BY <1>1, NewestWithin
  <2>2. CASE u # t
    BY <1>3, <1>4, <1>5, <2>1, <2>2, FirstOfClosed, Bounds
  <2> QED BY <2>2
<1> QED BY <1>6, <1>7

LEMMA StatusIs ==
  ASSUME Bounded, NEW t \in Int
  PROVE  /\ Status(t) \in Seen
         /\ IsConfirmed(Status(t)) <=> t <= provider.confirmed
         /\ Status(t) = "pending" <=> t > provider.confirmed
<1>1. provider.confirmed \in Int
  BY HeightIs
<1>2. CASE t > provider.confirmed
  <2>1. Status(t) = "pending"
    BY <1>2 DEF Status
  <2> QED BY <1>1, <1>2, <2>1 DEF Seen, IsConfirmed
<1>3. CASE ~(t > provider.confirmed)
  <2>1. Status(t) = "new" \/ Status(t) = "old"
    BY <1>3 DEF Status
  <2> QED BY <1>1, <1>3, <2>1 DEF Seen, IsConfirmed
<1> QED BY <1>2, <1>3

\* Transactions older than a cursor the provider announced have no gap.
LEMMA OlderIs ==
  ASSUME Bounded, NEW c \in 1 .. Height
  PROVE  {t \in 1 .. provider.confirmed : t < c} = 1 .. c - 1
BY HeightIs

LEMMA PageAfterIs ==
  ASSUME Bounded, NEW c \in 1 .. Height
  PROVE  /\ PageAfter(c) \subseteq 1 .. Height
         /\ c = 1 => PageAfter(c) \subseteq {1}
         /\ c > 1 => PageAfter(c) = Newest(1 .. c - 1) /\ PageAfter(c) # {}
         /\ c > 1 => PageAfter(c) \subseteq 1 .. provider.confirmed
<1> DEFINE older == {t \in 1 .. provider.confirmed : t < c}
<1>1. older = 1 .. c - 1
  BY OlderIs
<1>2. PageAfter(c) = IF older = {} /\ provider.repeats THEN {c} ELSE Newest(older)
  BY DEF PageAfter
<1> HIDE DEF older
<1>3. CASE c = 1
  <2>1. older = {} /\ Newest(older) = {}
    BY <1>1, <1>3, NewestWithin
  <2> QED BY <1>2, <1>3, <2>1
<1>4. CASE c > 1
  <2>1. c - 1 \in older /\ c - 1 \in Nat /\ c - 1 > 0
    BY <1>1, <1>4, HeightIs
  <2>2. PageAfter(c) = Newest(1 .. c - 1) /\ Newest(1 .. c - 1) \subseteq 1 .. c - 1
    BY <1>1, <1>2, <2>1, NewestWithin
  <2>3. c - 1 \in PageAfter(c)
    BY <2>1, <2>2, NewestOfAll
  <2>4. 1 .. c - 1 \subseteq 1 .. provider.confirmed /\ 1 .. c - 1 \subseteq 1 .. Height
    BY HeightIs
  <2> QED BY <1>4, <2>2, <2>3, <2>4
<1> QED BY <1>3, <1>4, HeightIs

LEMMA FirstPageIs ==
  ASSUME Bounded
  PROVE  /\ FirstPage \subseteq 1 .. Height
         /\ {t \in FirstPage : IsConfirmed(Status(t))} = Newest(1 .. provider.confirmed)
         /\ Height > 0 => FirstPage # {}
         /\ ~provider.pending => FirstPage \subseteq 1 .. provider.confirmed
<1> DEFINE n == provider.confirmed
           more == IF provider.pending THEN {n + 1} ELSE {}
<1>1. FirstPage = Newest(1 .. n) \cup more /\ Newest(1 .. n) \subseteq 1 .. n
  BY NewestWithin DEF FirstPage
<1>2. n \in Nat /\ 1 .. n \subseteq 1 .. Height /\ more \subseteq 1 .. Height
  BY HeightIs
<1>3. \A t \in Newest(1 .. n) : IsConfirmed(Status(t))
  BY <1>1, <1>2, StatusIs
<1>4. \A t \in more : ~IsConfirmed(Status(t))
  BY <1>2, StatusIs
<1>5. Height > 0 => FirstPage # {}
  BY <1>1, <1>2, HeightIs, NewestOfAll
<1> QED BY <1>1, <1>2, <1>3, <1>4, <1>5

-----------------------------------------------------------------------------
\* The page

\* The cursor a visit asks with, and the transactions it is answered with.
From(me) == IF me.state.firstDone THEN me.state.cursor ELSE 0
Answer(me) == IF me.state.firstDone THEN PageAfter(From(me)) ELSE FirstPage

LEMMA FromIs ==
  ASSUME Bounded, NEW r \in Runners, run[r].pc = "page"
  PROVE  /\ From(run[r]) \in 0 .. Height
         /\ From(run[r]) = 0 <=> ~run[r].state.firstDone
         /\ Answer(run[r]) \subseteq 1 .. Height /\ Answer(run[r]) \subseteq Txs
<1>1. /\ run[r].state.cursor \in Nat /\ run[r].state.cursor <= Height
      /\ run[r].state.firstDone => run[r].state.cursor # 0
      /\ run[r].state.firstDone \in BOOLEAN
  BY Runner, MemoryFields, StateFields DEF Fits
<1>2. From(run[r]) \in 0 .. Height /\ (From(run[r]) = 0 <=> ~run[r].state.firstDone)
  BY <1>1, HeightIs DEF From
<1>3. Answer(run[r]) \subseteq 1 .. Height
  <2>1. CASE run[r].state.firstDone
    <3>1. From(run[r]) \in 1 .. Height
      BY <1>2, <2>1, HeightIs
    <3> QED BY <2>1, <3>1, PageAfterIs DEF Answer
  <2> QED BY <2>1, FirstPageIs DEF Answer
<1>4. 1 .. Height \subseteq Txs
  BY HeightIs, Bounds
<1> QED BY <1>2, <1>3, <1>4

\* A state that differs in its cursor only.
LEMMA CursorState ==
  ASSUME NEW s \in States, NEW c \in 0 .. MaxTxs
  PROVE  LET new == [s EXCEPT !.cursor = c]
         IN  /\ new \in States /\ new.live = s.live /\ new.expected = s.expected /\ new.waiting = s.waiting
             /\ new.active = s.active /\ new.allowed = s.allowed /\ new.firstDone = s.firstDone
             /\ new.cursor = c /\ new.observed = s.observed /\ new.known = s.known
             /\ new.strict = s.strict /\ new.published = s.published
BY DEF States

Fetched(me, page, c, pc) ==
    [me EXCEPT !.from = From(me), !.page = page, !.todo = Answer(me),
               !.state = [me.state EXCEPT !.cursor = c], !.pc = pc]

LEMMA FetchPageIs ==
  ASSUME Bounded, NEW r \in Runners, FetchPage(r)
  PROVE  /\ run[r].pc = "page"
         /\ \E page \in Pages, c \in 0 .. MaxTxs, pc \in {"conclude", "finalize", "advance", "reconcile"} :
              /\ run' = [run EXCEPT ![r] = Fetched(run[r], page, c, pc)]
              /\ Fetched(run[r], page, c, pc) \in Memories
              /\ DOMAIN page = Answer(run[r]) /\ \A t \in Answer(run[r]) : page[t] = Status(t)
              /\ c \in {0, run[r].state.cursor}
              /\ (pc # "finalize" => c = run[r].state.cursor)
              /\ (pc = "reconcile" <=> Answer(run[r]) # {})
              /\ (pc = "conclude" => run[r].state.strict)
              /\ (pc = "advance" => ~run[r].state.firstDone)
<1> DEFINE me == run[r]
           from == From(me)
           txs == Answer(me)
           page == [t \in txs |-> Status(t)]
           c == IF txs = {} /\ me.state.firstDone /\ ~me.state.strict THEN 0 ELSE me.state.cursor
           pc == CASE txs = {} /\ me.state.strict -> "conclude"
                   [] txs = {} /\ ~me.state.strict /\ me.state.firstDone -> "finalize"
                   [] txs = {} /\ ~me.state.strict /\ ~me.state.firstDone -> "advance"
                   [] OTHER -> "reconcile"
           state == [me.state EXCEPT !.cursor = c]
           new == [me EXCEPT !.from = from, !.page = page, !.todo = txs, !.state = state, !.pc = pc]
<1>1. /\ me \in Memories /\ me.state \in States /\ me.state.firstDone \in BOOLEAN /\ me.state.strict \in BOOLEAN
      /\ me.state.cursor \in 0 .. MaxTxs
  BY Runner, MemoryFields, StateFields
<1>2. me.pc = "page" /\ run' = [run EXCEPT ![r].from = from, ![r].page = page, ![r].todo = txs,
                                           ![r].state.cursor = c, ![r].pc = pc]
  BY DEF FetchPage, From, Answer
<1>3. from \in 0 .. MaxTxs /\ txs \subseteq Txs /\ txs \subseteq Int
  <2>1. from \in 0 .. Height /\ txs \subseteq Txs
    BY <1>2, FromIs
  <2> QED BY <2>1, HeightIs, Bounds
<1>4. page \in Pages /\ DOMAIN page = txs /\ \A t \in txs : page[t] = Status(t)
  <2> HIDE DEF txs
  <2>1. \A t \in txs : Status(t) \in Seen
    BY <1>3, StatusIs
  <2>2. page \in [txs -> Seen]
    BY <2>1
  <2> QED BY <1>3, <2>2, Zenon DEF Pages
<1>5. /\ c \in 0 .. MaxTxs /\ c \in {0, me.state.cursor}
      /\ pc \in {"conclude", "finalize", "advance", "reconcile"}
      /\ pc # "finalize" => c = me.state.cursor
      /\ pc = "reconcile" <=> txs # {}
      /\ pc = "conclude" => me.state.strict
      /\ pc = "advance" => ~me.state.firstDone
  <2> HIDE DEF txs, me
  <2> QED BY <1>1, Bounds, SMT
<1> HIDE DEF page, c, pc, from, txs
<1>6. state \in States
  BY <1>1, <1>5, CursorState
<1>7. run' = [run EXCEPT ![r] = new]
  BY <1>1, <1>2, Runner DEF Memories
<1>8. pc \in Running
  BY <1>5 DEF Running, Visiting
<1>9. new \in Memories
  <2> HIDE DEF state
  <2> QED BY <1>1, <1>3, <1>4, <1>6, <1>8 DEF Memories
<1> QED BY <1>2, <1>4, <1>5, <1>7, <1>9 DEF from, txs, Fetched

\* The page of a strict scan is kept as evidence.
LEMMA FetchPageEvidence ==
  ASSUME Bounded, NEW r \in Runners, FetchPage(r)
  PROVE  EvidenceSound'
<1> DEFINE me == run[r]
           from == From(me)
           txs == Answer(me)
           page == [confirmed |-> {t \in txs : IsConfirmed(Status(t))},
                    pending |-> \E t \in txs : Status(t) = "pending"]
           old == evidence.pages
           pages == [c \in DOMAIN old \cup {from} |-> IF c = from THEN page ELSE old[c]]
           twice == evidence.twice \/ from \in DOMAIN old
<1>1. me.pc = "page" /\ evidence' = (IF me.state.strict
                                       THEN [evidence EXCEPT !.pages = pages, !.twice = twice] ELSE evidence)
  BY DEF FetchPage, From, Answer
<1>2. EvidenceSound
  BY DEF Bounded
<1>3. from \in 0 .. Height /\ (from = 0 <=> ~me.state.firstDone) /\ txs \subseteq 1 .. Height /\ txs \subseteq Txs
  BY <1>1, FromIs
<1>4. page.confirmed \subseteq txs /\ page \in PageRecords
  BY <1>3 DEF PageRecords
<1>5. PageSound(from, page)
  <2>1. CASE from = 0
    <3>1. txs = FirstPage
      BY <1>3, <2>1 DEF Answer
    <3>2. provider.confirmed \in 0 .. MaxTxs
      BY HeightIs, Bounds
    <3>3. page.confirmed = Newest(1 .. provider.confirmed)
      BY <3>1, FirstPageIs
    <3> HIDE DEF page, from
    <3> QED BY <1>4, <2>1, <3>2, <3>3 DEF PageSound
  <2>2. CASE from # 0
    <3>1. txs = PageAfter(from) /\ from \in 1 .. Height
      BY <1>3, <2>2, HeightIs DEF Answer
    <3>2. from = 1 => page.confirmed \subseteq {1}
      BY <1>4, <3>1, PageAfterIs
    <3>3. ASSUME from > 1 PROVE page.confirmed = Newest(1 .. from - 1)
      <4>1. txs = Newest(1 .. from - 1) /\ txs \subseteq 1 .. provider.confirmed
        BY <3>1, <3>3, PageAfterIs
      <4>2. \A t \in txs : IsConfirmed(Status(t))
        BY <4>1, HeightIs, StatusIs
      <4> QED BY <4>1, <4>2
    <3> HIDE DEF page, from
    <3> QED BY <1>4, <2>2, <3>2, <3>3 DEF PageSound
  <2> QED BY <2>1, <2>2
<1>6. from \in 0 .. MaxTxs
  BY <1>3, HeightIs, Bounds
<1> HIDE DEF from, page
<1>7. CASE me.state.strict
  <2>1. evidence' = [evidence EXCEPT !.pages = pages, !.twice = twice]
    BY <1>1, <1>7
  <2>2. DOMAIN pages \subseteq 0 .. MaxTxs /\ \A c \in DOMAIN pages : PageSound(c, pages[c])
    BY <1>2, <1>5, <1>6 DEF EvidenceSound
  <2> HIDE DEF pages, twice
  <2>3. DOMAIN evidence' = {"pages", "twice", "kept"} /\ evidence'.pages = pages
    BY <1>2, <2>1 DEF EvidenceSound
  <2> QED BY <2>2, <2>3 DEF EvidenceSound
<1> QED BY <1>1, <1>7, EvidenceKept

\* A write that leaves what is confirmed as it was.
SameHistory(old, new) == new = old \/ {new, old} \subseteq {"none", "pending"}

LEMMA ReconcileNextIs ==
  ASSUME Bounded, NEW r \in Runners, ReconcileNext(r)
  PROVE  /\ run[r].pc = "reconcile"
         /\ \E t \in run[r].todo, b \in BOOLEAN, pc \in {"reconcile", "invalidate", "advance"} :
              LET me == run[r]
                  new == [me EXCEPT !.todo = me.todo \ {t}, !.contradicted = b, !.pc = pc]
              IN  /\ run' = [run EXCEPT ![r] = new] /\ new \in Memories
                  /\ t \in Txs /\ t \in DOMAIN me.page /\ me.page[t] \in Seen
                  /\ stored' = [stored EXCEPT ![t] = me.page[t]]
                  /\ b = (me.contradicted \/ Contradicts(stored[t], me.page[t]))
                  /\ ledger' = [ledger EXCEPT !.current = ledger.current /\ SameHistory(stored[t], me.page[t])]
                  /\ pc = "reconcile" <=> me.todo # {t}
                  /\ pc = "advance" => ~b
<1> DEFINE me == run[r]
           t == Max(me.todo)
           b == me.contradicted \/ Contradicts(stored[t], me.page[t])
           todo == me.todo \ {t}
           pc == CASE me.todo # {t} -> "reconcile"
                   [] me.todo = {t} /\ b -> "invalidate"
                   [] OTHER -> "advance"
           new == [me EXCEPT !.todo = todo, !.contradicted = b, !.pc = pc]
<1>1. me \in Memories /\ me.todo \subseteq Txs /\ me.contradicted \in BOOLEAN /\ me.page \in Pages
  BY Runner, MemoryFields
<1>2. me.pc = "reconcile" /\ run' = [run EXCEPT ![r].todo = todo, ![r].contradicted = b, ![r].pc = pc]
      /\ stored' = [stored EXCEPT ![t] = me.page[t]]
      /\ ledger' = [ledger EXCEPT !.current = ledger.current /\ SameHistory(stored[t], me.page[t])]
  BY DEF ReconcileNext, SameHistory
<1>3. me.todo # {} /\ me.todo \subseteq DOMAIN me.page
  BY <1>2, Runner DEF Fits
<1>4. t \in me.todo
  BY <1>1, <1>3, Bounds, MaxNat
<1>5. t \in Txs /\ t \in DOMAIN me.page /\ me.page[t] \in Seen
  BY <1>1, <1>3, <1>4, PageFields
<1>6. b \in BOOLEAN
  OBVIOUS
<1> HIDE DEF b
<1>7. pc \in {"reconcile", "invalidate", "advance"} /\ (pc = "reconcile" <=> me.todo # {t}) /\ (pc = "advance" => ~b)
  <2> HIDE DEF t
  <2> QED BY <1>6, SMT
<1> HIDE DEF pc
<1>8. todo \subseteq Txs
  BY <1>1
<1>9. run' = [run EXCEPT ![r] = new]
  <2> HIDE DEF todo, t
  <2> QED BY <1>1, <1>2, Runner DEF Memories
<1>10. pc \in Running
  BY <1>7 DEF Running, Visiting
<1>11. new \in Memories
  <2> HIDE DEF todo, t
  <2> QED BY <1>1, <1>6, <1>8, <1>10 DEF Memories
<1> HIDE DEF t
<1> QED BY <1>2, <1>4, <1>5, <1>6, <1>7, <1>9, <1>11 DEF b

LEMMA LastConfirmedIs ==
  ASSUME NEW me \in Memories
  PROVE  /\ PageConfirmed(me) \subseteq DOMAIN me.page
         /\ LastConfirmed(PageConfirmed(me)) \in 0 .. MaxTxs
         /\ PageConfirmed(me) = {} => LastConfirmed(PageConfirmed(me)) = 0
         /\ PageConfirmed(me) # {} => LastConfirmed(PageConfirmed(me)) \in PageConfirmed(me)
<1> DEFINE S == PageConfirmed(me)
<1>1. S \subseteq DOMAIN me.page /\ S \subseteq Txs
  BY MemoryFields, PageFields DEF PageConfirmed
<1> HIDE DEF S
<1>2. S # {} => Min(S) \in S
  BY <1>1, Bounds, MinNat
<1>3. LastConfirmed(S) = IF S = {} THEN 0 ELSE Min(S)
  BY DEF LastConfirmed
<1> QED BY <1>1, <1>2, <1>3, Bounds DEF S

\* What `AdvanceCursor' makes of the state.
Advanced(me, s) ==
    /\ s.live = me.state.live /\ s.expected = me.state.expected /\ s.active = me.state.active
    /\ s.strict = me.state.strict /\ s.known = me.state.known /\ s.published = me.state.published
    /\ s.observed = (IF me.state.active THEN me.state.observed \cup PageConfirmed(me) ELSE me.state.observed)
    /\ s.waiting = (me.state.waiting \/ (me.state.active /\ PageConfirmed(me) # DOMAIN me.page))
    /\ s.allowed = (me.state.allowed /\ ~Duplicate(me))
    /\ s.firstDone
    /\ s.cursor = IF ExpectedReached(s) THEN 0 ELSE LastConfirmed(PageConfirmed(me))

LEMMA AdvanceCursorIs ==
  ASSUME Bounded, NEW r \in Runners, AdvanceCursor(r)
  PROVE  /\ run[r].pc = "advance"
         /\ \E s \in States :
              /\ run' = [run EXCEPT ![r] = [run[r] EXCEPT !.state = s, !.pc = "conclude"]]
              /\ [run[r] EXCEPT !.state = s, !.pc = "conclude"] \in Memories
              /\ Advanced(run[r], s)
              /\ row' = IF s.active THEN [row EXCEPT !.cursor = s.cursor] ELSE row
<1> DEFINE me == run[r]
           old == me.state
           next == LastConfirmed(PageConfirmed(me))
           state == Observe(me)
           cursor == IF ExpectedReached(state) THEN 0 ELSE state.cursor
           s == [state EXCEPT !.cursor = cursor]
           observed == IF old.active THEN old.observed \cup PageConfirmed(me) ELSE old.observed
           waiting == old.waiting \/ (old.active /\ PageConfirmed(me) # DOMAIN me.page)
           allowed == old.allowed /\ ~Duplicate(me)
<1>1. me \in Memories /\ me.state \in States
  BY Runner, MemoryFields
<1>2. /\ me.pc = "advance"
      /\ row' = (IF state.active THEN [row EXCEPT !.cursor = cursor] ELSE row)
      /\ run' = [run EXCEPT ![r].state = s, ![r].pc = "conclude"]
  BY DEF AdvanceCursor
<1>3. observed \in SUBSET Txs /\ waiting \in BOOLEAN /\ allowed \in BOOLEAN /\ next \in 0 .. MaxTxs
  BY <1>1, StateFields, MemoryFields, PageFields, LastConfirmedIs
<1>4. state = [old EXCEPT !.observed = observed, !.waiting = waiting, !.cursor = next,
                          !.allowed = allowed, !.firstDone = TRUE]
  BY DEF Observe
<1> HIDE DEF observed, waiting, allowed, next, state
<1>5. /\ state \in States /\ state.live = old.live /\ state.expected = old.expected /\ state.active = old.active
      /\ state.strict = old.strict /\ state.known = old.known /\ state.published = old.published
      /\ state.observed = observed /\ state.waiting = waiting /\ state.allowed = allowed /\ state.firstDone
      /\ state.cursor = next
  BY <1>1, <1>3, <1>4 DEF States
<1>6. cursor \in 0 .. MaxTxs
  BY <1>3, <1>5, Bounds
<1> HIDE DEF cursor
<1>7. /\ s \in States /\ s.live = old.live /\ s.expected = old.expected /\ s.active = old.active
      /\ s.strict = old.strict /\ s.known = old.known /\ s.published = old.published
      /\ s.observed = observed /\ s.waiting = waiting /\ s.allowed = allowed /\ s.firstDone
      /\ s.cursor = cursor
  BY <1>5, <1>6, CursorState
<1> HIDE DEF s
<1>8. ExpectedReached(s) <=> ExpectedReached(state)
  BY <1>5, <1>7 DEF ExpectedReached
<1>9. Advanced(me, s)
  BY <1>5, <1>7, <1>8 DEF Advanced, observed, waiting, allowed, next, cursor
<1>10. run' = [run EXCEPT ![r] = [me EXCEPT !.state = s, !.pc = "conclude"]]
  BY <1>1, <1>2, Runner DEF Memories
<1>11. "conclude" \in Running
  BY DEF Running, Visiting
<1>12. [me EXCEPT !.state = s, !.pc = "conclude"] \in Memories
  BY <1>1, <1>7, <1>11 DEF Memories
<1> QED BY <1>2, <1>5, <1>7, <1>9, <1>10, <1>12

\* A published state is the one before, but for what it publishes.
Published(old, s) ==
    /\ s.live = old.live /\ s.expected = old.expected /\ s.active = old.active /\ s.waiting = old.waiting
    /\ s.strict = old.strict /\ s.known = old.known /\ s.observed = old.observed /\ s.allowed = old.allowed
    /\ s.firstDone = old.firstDone /\ s.cursor \in {0, old.cursor}

LEMMA PublishIs ==
  ASSUME Bounded, NEW r \in Runners, PublishStrict(r) \/ PublishProof(r)
  PROVE  /\ run[r].pc = "conclude" /\ PublishCompletion(row')
         /\ row' = IF PublishStrict(r) THEN [row EXCEPT !.proof = run[r].state.expected, !.scan = FALSE]
                                       ELSE [row EXCEPT !.proof = run[r].state.expected]
         /\ \E s \in States :
              LET new == [run[r] EXCEPT !.state = s, !.more = FALSE, !.pc = "finalize"]
              IN  run' = [run EXCEPT ![r] = new] /\ new \in Memories /\ Published(run[r].state, s)
<1> DEFINE me == run[r]
           New(s) == [me EXCEPT !.state = s, !.more = FALSE, !.pc = "finalize"]
<1>1. me \in Memories /\ me.state \in States /\ me.state.cursor \in 0 .. MaxTxs
  BY Runner, MemoryFields, StateFields
<1>2. "finalize" \in Running
  BY DEF Running, Visiting
<1>3. me.pc = "conclude"
  BY DEF PublishStrict, PublishProof
<1>4. ASSUME NEW s \in States PROVE New(s) \in Memories
  BY <1>1, <1>2 DEF Memories
<1>5. CASE PublishStrict(r)
  <2>1. PublishCompletion([row EXCEPT !.proof = me.state.expected, !.scan = FALSE])
        /\ run' = [run EXCEPT ![r].state.published = TRUE, ![r].state.cursor = 0, ![r].more = FALSE,
                              ![r].pc = "finalize"]
    BY <1>5 DEF PublishStrict
  <2> DEFINE s1 == [me.state EXCEPT !.published = TRUE]
             s == [s1 EXCEPT !.cursor = 0]
  <2>2. s \in States /\ Published(me.state, s)
    <3>1. s1 \in States /\ Published(me.state, s1)
      BY <1>1, PublishedState DEF Published
    <3> HIDE DEF s1
    <3>2. s \in States /\ Published(s1, s) /\ s.cursor = 0
      BY <3>1, Bounds, CursorState DEF Published
    <3> HIDE DEF s
    <3> QED BY <3>1, <3>2 DEF Published
  <2>3. run' = [run EXCEPT ![r] = New(s)]
    BY <1>1, <2>1, Runner DEF Memories
  <2> HIDE DEF s
  <2> QED BY <1>3, <1>4, <1>5, <2>1, <2>2, <2>3 DEF PublishCompletion
<1>6. CASE ~PublishStrict(r)
  <2>1. PublishCompletion([row EXCEPT !.proof = me.state.expected])
        /\ run' = [run EXCEPT ![r].state.published = TRUE, ![r].more = FALSE, ![r].pc = "finalize"]
    BY <1>6 DEF PublishProof
  <2> DEFINE s == [me.state EXCEPT !.published = TRUE]
  <2>2. s \in States /\ Published(me.state, s)
    BY <1>1, PublishedState DEF Published
  <2>3. run' = [run EXCEPT ![r] = New(s)]
    BY <1>1, <2>1, Runner DEF Memories
  <2> HIDE DEF s
  <2> QED BY <1>3, <1>4, <1>6, <2>1, <2>2, <2>3 DEF PublishCompletion
<1> QED BY <1>5, <1>6

LEMMA PassPageIs ==
  ASSUME Bounded, NEW r \in Runners, PassPage(r)
  PROVE  /\ run[r].pc = "conclude" /\ UNCHANGED <<provider, stored, row, evidence, repair>>
         /\ \E more \in BOOLEAN :
              /\ run' = [run EXCEPT ![r] = [run[r] EXCEPT !.more = more, !.pc = "finalize"]]
              /\ [run[r] EXCEPT !.more = more, !.pc = "finalize"] \in Memories
              /\ more => run[r].state.cursor # 0 /\ ~EarlyExit(run[r])
         /\ run[r].state.strict => ~StrictEnds(run[r])
         /\ ~run[r].state.strict => ~ExpectedReached(run[r].state)
<1> DEFINE more == run[r].state.cursor # 0 /\ ~EarlyExit(run[r])
<1>1. run[r] \in Memories /\ more \in BOOLEAN
  BY Runner
<1>2. run[r].pc = "conclude" /\ UNCHANGED <<provider, stored, row, evidence, repair>>
      /\ run' = [run EXCEPT ![r].more = more, ![r].pc = "finalize"]
      /\ (run[r].state.strict => ~StrictEnds(run[r]))
      /\ (~run[r].state.strict => ~ExpectedReached(run[r].state))
  BY DEF PassPage
<1>3. more => run[r].state.cursor # 0 /\ ~EarlyExit(run[r])
  OBVIOUS
<1> HIDE DEF more
<1>4. "finalize" \in Running
  BY DEF Running, Visiting
<1>5. run' = [run EXCEPT ![r] = [run[r] EXCEPT !.more = more, !.pc = "finalize"]]
      /\ [run[r] EXCEPT !.more = more, !.pc = "finalize"] \in Memories
  BY <1>1, <1>2, <1>4, Runner DEF Memories
<1> QED BY <1>1, <1>2, <1>3, <1>5

LEMMA MarkSuccessIs ==
  ASSUME Bounded, NEW r \in Runners, MarkSuccess(r)
  PROVE  /\ run[r].pc = "success"
         /\ \E s \in States, u \in BOOLEAN, v \in BOOLEAN :
              LET new == [run[r] EXCEPT !.state = s, !.unavailable = u, !.touched = v, !.pc = "rebuild"]
              IN  /\ run' = [run EXCEPT ![r] = new] /\ new \in Memories
                  /\ s = IF run[r].more THEN run[r].state ELSE NoState
                  /\ v = (run[r].touched \/ DOMAIN run[r].page # {})
<1> DEFINE me == run[r]
           s == IF me.more THEN me.state ELSE NoState
           u == me.unavailable \/ me.contradicted
           v == me.touched \/ DOMAIN me.page # {}
           new == [me EXCEPT !.state = s, !.unavailable = u, !.touched = v, !.pc = "rebuild"]
<1>1. me \in Memories /\ me.state \in States
  BY Runner, MemoryFields
<1>2. me.pc = "success" /\ run' = [run EXCEPT ![r].state = s, ![r].unavailable = u, ![r].touched = v,
                                              ![r].pc = "rebuild"]
  BY DEF MarkSuccess
<1>3. s \in States /\ u \in BOOLEAN /\ v \in BOOLEAN
  BY <1>1, NoStateTyped
<1>4. "rebuild" \in Running
  BY DEF Running, Visiting
<1> HIDE DEF s, u, v
<1>5. run' = [run EXCEPT ![r] = new] /\ new \in Memories
  BY <1>1, <1>2, <1>3, <1>4, Runner DEF Memories
<1> QED BY <1>2, <1>3, <1>5 DEF s, v

LEMMA MarkFailureIs ==
  ASSUME Bounded, NEW r \in Runners, MarkFailure(r)
  PROVE  /\ run[r].pc = "failure"
         /\ \E u \in BOOLEAN, v \in BOOLEAN :
              LET new == [run[r] EXCEPT !.state = NoState, !.failed = TRUE, !.unavailable = u, !.touched = v,
                                        !.pc = "rebuild"]
              IN  run' = [run EXCEPT ![r] = new] /\ new \in Memories /\ v = (run[r].touched \/ Carries(run[r]))
         /\ row' \in RowType /\ row'.cursor = row.cursor /\ row'.scan = row.scan
         /\ row'.proof = IF Carries(run[r]) THEN None ELSE row.proof
<1> DEFINE me == run[r]
           u == me.unavailable \/ Carries(me)
           v == me.touched \/ Carries(me)
           new == [me EXCEPT !.state = NoState, !.failed = TRUE, !.unavailable = u, !.touched = v,
                             !.pc = "rebuild"]
<1>1. me \in Memories /\ row \in RowType
  BY Runner, RowFields
<1>2. me.pc = "failure" /\ run' = [run EXCEPT ![r].state = NoState, ![r].failed = TRUE, ![r].unavailable = u,
                                              ![r].touched = v, ![r].pc = "rebuild"]
  BY DEF MarkFailure
<1>3. u \in BOOLEAN /\ v \in BOOLEAN
  OBVIOUS
<1>4. "rebuild" \in Running
  BY DEF Running, Visiting
<1>5. row' = [(IF Carries(me) THEN [row EXCEPT !.proof = None] ELSE row) EXCEPT !.open = FALSE, !.result = "failure"]
  BY DEF MarkFailure, Invalidated
<1>6. row' \in RowType /\ row'.cursor = row.cursor /\ row'.proof = (IF Carries(me) THEN None ELSE row.proof)
      /\ row'.scan = row.scan
  <2> DEFINE old == IF Carries(me) THEN [row EXCEPT !.proof = None] ELSE row
  <2>1. old \in RowType /\ old.cursor = row.cursor /\ old.scan = row.scan
        /\ old.proof = (IF Carries(me) THEN None ELSE row.proof)
    BY <1>1, Bounds DEF RowType
  <2>2. row' = [old EXCEPT !.open = FALSE, !.result = "failure"]
    BY <1>5
  <2> HIDE DEF old
  <2>3. row' \in RowType /\ row'.cursor = old.cursor /\ row'.scan = old.scan /\ row'.proof = old.proof
    BY <2>1, <2>2 DEF RowType
  <2> QED BY <2>1, <2>3
<1> HIDE DEF u, v
<1>7. run' = [run EXCEPT ![r] = new] /\ new \in Memories
  BY <1>1, <1>2, <1>3, <1>4, NoStateTyped, Runner DEF Memories
<1> QED BY <1>2, <1>3, <1>6, <1>7 DEF v

LEMMA RebuildLedgerIs ==
  ASSUME Bounded, NEW r \in Runners, RebuildLedger(r)
  PROVE  /\ run[r].pc = "rebuild" /\ To(r, "refresh")
         /\ ledger' \in [basis : {"unknown", "provider", "zero"}, current : BOOLEAN]
<1> DEFINE me == run[r]
           basis == CASE me.unavailable -> "unknown"
                      [] ~me.unavailable /\ CandidateComplete(row, TRUE) -> "zero"
                      [] ~me.unavailable /\ ~CandidateComplete(row, TRUE) /\ row.scan -> "unknown"
                      [] OTHER -> "provider"
<1>1. me.pc = "rebuild" /\ To(r, "refresh")
      /\ ledger' = IF me.touched THEN [basis |-> basis, current |-> TRUE] ELSE ledger
  BY DEF RebuildLedger, To
<1>2. basis \in {"unknown", "provider", "zero"}
  <2> DEFINE b == CandidateComplete(row, TRUE)
  <2> HIDE DEF b, me
  <2> QED BY SMT DEF b
<1> HIDE DEF basis
<1>3. ledger \in [basis : {"unknown", "provider", "zero"}, current : BOOLEAN]
  BY Types
<1>4. [basis |-> basis, current |-> TRUE] \in [basis : {"unknown", "provider", "zero"}, current : BOOLEAN]
  BY <1>2
<1> QED BY <1>1, <1>3, <1>4

\* What is left of a memory between two iterations.
Rested(me) == [Idle EXCEPT !.pc = "finish", !.owner = me.owner, !.left = me.left,
                           !.pendingIds = me.pendingIds, !.state = me.state, !.failed = me.failed]

LEMMA RestedFields ==
  ASSUME NEW me \in Memories
  PROVE  /\ Rested(me) \in Memories /\ Rested(me).pc = "finish" /\ Rested(me).owner = me.owner
         /\ Rested(me).left = me.left /\ Rested(me).state = me.state /\ Rested(me).snap = Idle.snap
         /\ Rested(me).from = 0 /\ Rested(me).page = NoPage /\ Rested(me).todo = {} /\ ~Rested(me).more
         /\ ~Rested(me).contradicted /\ ~Rested(me).touched
<1>1. "finish" \in Running
  BY DEF Running, Visiting
<1> QED BY <1>1, IdleTyped DEF Rested, Memories

LEMMA RefreshAccountIs ==
  ASSUME NEW r \in Runners, RefreshAccount(r)
  PROVE  /\ run[r].pc = "refresh" /\ run' = [run EXCEPT ![r] = Rested(run[r])]
         /\ acct' = IF row.open THEN acct ELSE [open |-> FALSE, result |-> row.result]
         /\ UNCHANGED <<provider, plan, stored, row, evidence, ledger, repair, lease, tainted, faults>>
BY DEF RefreshAccount, Rested

LEMMA SnapshotTyped ==
  ASSUME Bounded
  PROVE  /\ Snapshot \in Snaps /\ Snapshot.proof = row.proof /\ Snapshot.cursor = row.cursor
         /\ Snapshot.expected = row.expected /\ Snapshot.tip = row.tip /\ Snapshot.scan = row.scan
<1>1. row \in RowType
  BY RowFields
<1> QED BY <1>1 DEF RowType, Snaps, Snapshot

LEMMA NextIterationIs ==
  ASSUME Bounded, Manual, NextIteration
  PROVE  LET new == [run["manual"] EXCEPT !.pc = "start", !.snap = Snapshot, !.left = run["manual"].left - 1]
         IN  /\ run["manual"].pc = "finish"
             /\ run' = [run EXCEPT !["manual"] = new] /\ new \in Memories
<1> DEFINE me == run["manual"]
           left == me.left - 1
           snap == Snapshot
<1>1. "manual" \in Runners
  BY RunnersAre
<1>2. me \in Memories /\ left \in Int
  BY <1>1, Runner, MemoryFields
<1>3. me.pc = "finish" /\ run' = [run EXCEPT !["manual"].pc = "start", !["manual"].snap = snap,
                                             !["manual"].left = left]
  BY DEF NextIteration
<1>4. "start" \in Running /\ snap \in Snaps
  BY SnapshotTyped DEF Running
<1> HIDE DEF left, snap
<1>5. run' = [run EXCEPT !["manual"] = [me EXCEPT !.pc = "start", !.snap = snap, !.left = left]]
      /\ [me EXCEPT !.pc = "start", !.snap = snap, !.left = left] \in Memories
  BY <1>1, <1>2, <1>3, <1>4, Runner DEF Memories
<1> QED BY <1>3, <1>5 DEF left, snap

\* The memory of a run that starts.
Started(owner, left) == [Idle EXCEPT !.pc = "start", !.owner = owner, !.snap = Snapshot,
                                     !.pendingIds = HasPending, !.left = left]

LEMMA StartedFields ==
  ASSUME Bounded, NEW owner \in BOOLEAN, NEW left \in Int
  PROVE  LET new == Started(owner, left)
         IN  /\ new \in Memories /\ new.pc = "start" /\ new.owner = owner /\ new.left = left
             /\ new.snap = Snapshot /\ new.state = NoState /\ new.from = 0 /\ new.page = NoPage /\ new.todo = {}
             /\ ~new.more
<1> DEFINE snap == Snapshot
           pending == HasPending
<1>1. "start" \in Running /\ snap \in Snaps /\ pending \in BOOLEAN
  BY SnapshotTyped DEF Running, HasPending
<1> HIDE DEF snap, pending
<1>2. Started(owner, left) = [Idle EXCEPT !.pc = "start", !.owner = owner, !.snap = snap,
                                          !.pendingIds = pending, !.left = left]
  BY DEF Started, snap, pending
<1> DEFINE new == [Idle EXCEPT !.pc = "start", !.owner = owner, !.snap = snap, !.pendingIds = pending, !.left = left]
<1>3. new \in Memories
  BY <1>1, IdleTyped DEF Memories
<1>4. /\ new.pc = "start" /\ new.owner = owner /\ new.left = left
      /\ new.snap = snap /\ new.state = NoState /\ new.from = 0 /\ new.page = NoPage /\ new.todo = {}
      /\ ~new.more
  BY IdleTyped DEF Memories
<1> HIDE DEF new
<1>5. Started(owner, left) = new
  BY <1>2 DEF new
<1> QED BY <1>3, <1>4, <1>5 DEF snap

-----------------------------------------------------------------------------
\* Every step keeps the bounds

LEMMA InvalidateIs ==
  ASSUME Bounded, InvalidateCoverage
  PROVE  /\ row' \in RowType /\ row'.cursor = row.cursor /\ row'.scan = row.scan /\ row'.proof = None
         /\ ledger' \in [basis : {"unknown", "provider", "zero"}, current : BOOLEAN]
         /\ tainted' = FALSE
<1>1. row' = [row EXCEPT !.proof = None] /\ ledger' = [ledger EXCEPT !.basis = "unknown"] /\ tainted' = FALSE
  BY DEF InvalidateCoverage, Invalidated
<1>2. row' \in RowType /\ row'.cursor = row.cursor /\ row'.scan = row.scan /\ row'.proof = None
  BY <1>1, RowFields, Bounds DEF RowType
<1> QED BY <1>1, <1>2, Types

LEMMA CompletionLedger ==
  ASSUME Bounded, NEW new, PublishCompletion(new)
  PROVE  ledger' \in [basis : {"unknown", "provider", "zero"}, current : BOOLEAN] /\ row' = new
<1> DEFINE zero == [basis |-> "zero", current |-> TRUE]
           Ledgers == [basis : {"unknown", "provider", "zero"}, current : BOOLEAN]
<1>1. zero \in Ledgers
  OBVIOUS
<1>2. ledger \in Ledgers
  BY Types
<1> HIDE DEF zero, Ledgers
<1>3. row' = new /\ (ledger' = zero \/ ledger' = ledger)
  BY DEF PublishCompletion, zero
<1> QED BY <1>1, <1>2, <1>3 DEF Ledgers

LEMMA OpenAccountBounded ==
  ASSUME Bounded, NEW r \in Runners, OpenAccount(r) PROVE Bounded'
<1> DEFINE me == run[r]
           new == [me EXCEPT !.pc = "gate", !.unavailable = acct.open, !.touched = acct.open]
<1>1. me.pc = "start" /\ run' = [run EXCEPT ![r] = new] /\ new \in Memories
  BY OpenAccountIs
<1>2. me \in Memories /\ Fits(me, Height)
  BY Runner
<1>3. Fits(new, Height)
  <2>1. /\ new.pc = "gate" /\ new.snap = me.snap /\ new.state = me.state /\ new.from = me.from
        /\ new.page = me.page /\ new.todo = me.todo /\ new.more = me.more
    BY <1>2 DEF Memories
  <2> HIDE DEF new
  <2> QED BY <1>1, <1>2, <2>1 DEF Fits, Between
<1>4. /\ UNCHANGED <<provider, plan, stored, evidence, repair, lease>>
      /\ acct' = [acct EXCEPT !.open = TRUE]
      /\ \/ InvalidateCoverage
         \/ UNCHANGED <<row, ledger, tainted>>
  BY Zenon DEF OpenAccount
<1>5. row' \in RowType /\ row'.cursor = row.cursor /\ tainted' \in BOOLEAN
      /\ ledger' \in [basis : {"unknown", "provider", "zero"}, current : BOOLEAN]
  <2>1. CASE InvalidateCoverage
    BY <2>1, InvalidateIs
  <2>2. CASE UNCHANGED <<row, ledger, tainted>>
    BY <2>2, RowFields, Types
  <2> QED BY <1>4, <2>1, <2>2
<1>6. acct' \in [open : BOOLEAN, result : {"none", "success", "failure"}]
  BY <1>4, Types
<1>7. TypeOK'
  BY <1>4, <1>5, <1>6, Types, TypeKept
<1> HIDE DEF new
<1> QED BY <1>1, <1>3, <1>4, <1>5, <1>7, RowFields, EvidenceKept, RunnerBounded

\* A step that changes where its runner is and at most the row and the ledger.
LEMMA PlainStep ==
  ASSUME Bounded, NEW r \in Runners, NEW new \in Memories, run' = [run EXCEPT ![r] = new], Fits(new, Height),
         UNCHANGED <<provider, plan, stored, acct, repair, lease>>, evidence' = evidence,
         row' \in RowType, row'.cursor <= Height,
         ledger' \in [basis : {"unknown", "provider", "zero"}, current : BOOLEAN],
         tainted' \in BOOLEAN
  PROVE  Bounded'
<1>1. TypeOK'
  BY Types, TypeKept
<1> QED BY <1>1, EvidenceKept, RunnerBounded

LEMMA SkipVisitBounded ==
  ASSUME Bounded, NEW r \in Runners, SkipVisit(r) PROVE Bounded'
<1> DEFINE me == run[r]
           new == [me EXCEPT !.pc = "rebuild"]
<1>1. me.pc = "gate" /\ To(r, "rebuild")
      /\ UNCHANGED <<provider, plan, stored, row, evidence, acct, ledger, repair, lease, tainted>>
  BY DEF SkipVisit
<1>2. me \in Memories /\ Fits(me, Height) /\ "rebuild" \in Running
  BY Runner DEF Running, Visiting
<1>3. run' = [run EXCEPT ![r] = new] /\ new \in Memories
  BY <1>1, <1>2, ToIs
<1>4. Fits(new, Height)
  <2>1. /\ new.pc = "rebuild" /\ new.snap = me.snap /\ new.state = me.state /\ new.from = me.from
        /\ new.page = me.page /\ new.todo = me.todo /\ new.more = me.more
    BY <1>2 DEF Memories
  <2> HIDE DEF new
  <2> QED BY <1>1, <1>2, <2>1 DEF Fits, Between
<1> HIDE DEF new
<1> QED BY <1>1, <1>3, <1>4, RowFields, Types, PlainStep

LEMMA BeginVisitBounded ==
  ASSUME Bounded, NEW r \in Runners, BeginVisit(r) PROVE Bounded'
<1> DEFINE me == run[r]
<1>1. PICK permitted \in BOOLEAN, early \in BOOLEAN, pc \in {"stats", "page", "success"} :
         /\ run' = [run EXCEPT ![r] = Begun(me, permitted, early, pc)] /\ Begun(me, permitted, early, pc) \in Memories
         /\ (pc = "stats" <=> ~me.state.live)
         /\ (pc = "page" => permitted)
  BY BeginVisitIs
<1>2. me \in Memories /\ Fits(me, Height) /\ me.pc = "gate"
  BY Runner, BeginVisitIs
<1> DEFINE new == Begun(me, permitted, early, pc)
<1>3. Fits(new, Height)
  <2>1. /\ new.pc = pc /\ new.snap = me.snap /\ new.state = me.state /\ new.from = me.from
        /\ new.page = me.page /\ new.todo = me.todo /\ new.more = me.more
    BY <1>2 DEF Memories, Begun
  <2> HIDE DEF new
  <2> QED BY <1>1, <1>2, <2>1 DEF Fits, Between
<1>4. row' = [row EXCEPT !.open = TRUE, !.tip = FALSE,
                         !.result = IF row.result = "none" THEN "success" ELSE row.result]
      /\ UNCHANGED <<provider, plan, stored, evidence, acct, ledger, repair, lease, tainted>>
  BY DEF BeginVisit
<1>5. row' \in RowType /\ row'.cursor = row.cursor
  BY <1>4, RowFields DEF RowType
<1> HIDE DEF new
<1> QED BY <1>1, <1>3, <1>4, <1>5, RowFields, Types, PlainStep DEF new

LEMMA FetchStatsBounded ==
  ASSUME Bounded, NEW r \in Runners, FetchStats(r) PROVE Bounded'
<1> DEFINE me == run[r]
           New(s) == [me EXCEPT !.pc = "proof", !.state = s]
<1>1. PICK s \in States :
         /\ run' = [run EXCEPT ![r] = New(s)] /\ New(s) \in Memories
         /\ s.cursor = 0 /\ ~s.firstDone
  BY FetchStatsIs
<1>2. me \in Memories /\ Fits(me, Height) /\ me.pc = "stats"
  BY Runner, FetchStatsIs
<1> DEFINE new == New(s)
<1>3. Fits(new, Height)
  <2>1. /\ new.pc = "proof" /\ new.snap = me.snap /\ new.state = s /\ new.from = me.from
        /\ new.page = me.page /\ new.todo = me.todo /\ new.more = me.more
    BY <1>2 DEF Memories
  <2> HIDE DEF new
  <2> QED BY <1>1, <1>2, <2>1, HeightIs DEF Fits, Between
<1>4. row' = [row EXCEPT !.open = FALSE, !.result = "success", !.tip = TRUE]
      /\ UNCHANGED <<provider, plan, stored, evidence, acct, ledger, repair, lease, tainted>>
  BY DEF FetchStats
<1>5. row' \in RowType /\ row'.cursor = row.cursor
  BY <1>4, RowFields DEF RowType
<1> HIDE DEF new
<1> QED BY <1>1, <1>3, <1>4, <1>5, RowFields, Types, PlainStep DEF new

\* What a step that settles the proof writes.
LEMMA SettleProofWrites ==
  ASSUME Bounded, NEW r \in Runners, SettleProof(r)
  PROVE  /\ UNCHANGED <<provider, plan, stored, evidence, acct, repair, lease>>
         /\ row' \in RowType /\ row'.cursor = row.cursor /\ row'.scan = row.scan
         /\ \/ Transition(run[r]) = "publish" /\ row'.proof = run[r].state.expected
            \/ Transition(run[r]) = "publish" /\ ~run[r].permitted /\ row'.proof = row.proof
            \/ Transition(run[r]) = "invalidateAndRestart" /\ row'.proof = None
            \/ Transition(run[r]) \notin {"publish", "invalidateAndRestart"} /\ row'.proof = row.proof
         /\ ledger' \in [basis : {"unknown", "provider", "zero"}, current : BOOLEAN]
         /\ tainted' \in BOOLEAN
<1> DEFINE me == run[r]
           n == me.state.expected
           refresh == ~me.permitted /\ me.snap.proof = n
<1>1. row \in RowType /\ n \in 0 .. MaxTxs
  BY Runner, MemoryFields, StateFields, RowFields
<1>2. /\ UNCHANGED <<provider, plan, stored, evidence, acct, repair, lease>>
      /\ \/ Transition(me) = "publish" /\ refresh /\ UNCHANGED <<row, ledger, tainted>>
         \/ Transition(me) = "publish" /\ ~refresh /\ UNCHANGED tainted
            /\ PublishCompletion([row EXCEPT !.proof = n])
         \/ Transition(me) = "invalidateAndRestart" /\ InvalidateCoverage
         \/ /\ Transition(me) \notin {"publish", "invalidateAndRestart"}
            /\ UNCHANGED <<row, ledger, tainted>>
  <2> DEFINE t == Transition(me)
             publishes == PublishCompletion([row EXCEPT !.proof = n])
             invalidates == InvalidateCoverage
  <2>1. \/ t = "publish" /\ refresh /\ UNCHANGED <<row, ledger, tainted>>
        \/ t = "publish" /\ ~refresh /\ UNCHANGED tainted /\ publishes
        \/ t = "invalidateAndRestart" /\ invalidates
        \/ t \notin {"publish", "invalidateAndRestart"} /\ UNCHANGED <<row, ledger, tainted>>
    BY Zenon DEF SettleProof
  <2> QED BY <2>1 DEF SettleProof
<1> DEFINE Keeps == UNCHANGED <<row, ledger, tainted>> /\ Transition(me) # "invalidateAndRestart"
                    /\ (Transition(me) = "publish" => refresh)
           Publishes == PublishCompletion([row EXCEPT !.proof = n]) /\ Transition(me) = "publish"
                        /\ UNCHANGED tainted
           Invalidates == InvalidateCoverage /\ Transition(me) = "invalidateAndRestart"
<1>3. CASE Keeps
  BY <1>1, <1>2, <1>3, Types
<1>4. CASE Publishes
  <2>1. row' = [row EXCEPT !.proof = n]
        /\ ledger' \in [basis : {"unknown", "provider", "zero"}, current : BOOLEAN]
    BY <1>4, CompletionLedger
  <2>2. row' \in RowType /\ row'.cursor = row.cursor /\ row'.scan = row.scan /\ row'.proof = n
    BY <1>1, <2>1, Bounds DEF RowType
  <2>3. tainted' \in BOOLEAN /\ Transition(me) = "publish"
    BY <1>4, Types
  <2> QED BY <1>2, <2>1, <2>2, <2>3
<1>5. CASE Invalidates
  BY <1>2, <1>5, InvalidateIs
<1>6. Keeps \/ Publishes \/ Invalidates
  <2>1. "publish" # "invalidateAndRestart"
    OBVIOUS
  <2> QED BY <1>2, <2>1, Zenon
<1> HIDE DEF Keeps, Publishes, Invalidates
<1> QED BY <1>3, <1>4, <1>5, <1>6

LEMMA SettleProofBounded ==
  ASSUME Bounded, NEW r \in Runners, SettleProof(r) PROVE Bounded'
<1> DEFINE me == run[r]
           New(b) == [me EXCEPT !.pc = "prepare", !.state = [me.state EXCEPT !.published = b]]
<1>1. PICK b \in BOOLEAN : run' = [run EXCEPT ![r] = New(b)] /\ New(b) \in Memories
  BY SettleProofIs
<1>2. me \in Memories /\ Fits(me, Height) /\ me.pc = "proof" /\ me.state \in States
  BY Runner, MemoryFields, SettleProofIs
<1> DEFINE s == [me.state EXCEPT !.published = b]
           new == [me EXCEPT !.pc = "prepare", !.state = s]
<1>3. s.cursor = me.state.cursor
  BY <1>2, PublishedState
<1>4. Fits(new, Height)
  <2> HIDE DEF s
  <2>1. /\ new.pc = "prepare" /\ new.snap = me.snap /\ new.state = s /\ new.from = me.from
        /\ new.page = me.page /\ new.todo = me.todo /\ new.more = me.more
    BY <1>2 DEF Memories
  <2> HIDE DEF new
  <2> QED BY <1>2, <1>3, <2>1 DEF Fits, Between
<1>5. run' = [run EXCEPT ![r] = new] /\ new \in Memories
  BY <1>1
<1> HIDE DEF new
<1> QED BY <1>4, <1>5, SettleProofWrites, RowFields, PlainStep

LEMMA PrepareWrites ==
  ASSUME Bounded, NEW r \in Runners, Prepare(r)
  PROVE  /\ UNCHANGED <<provider, plan, stored, acct, ledger, repair, lease, tainted>>
         /\ row' \in RowType /\ row'.cursor \in {0, row.cursor} /\ row'.proof = row.proof
         /\ row.scan => row'.scan
         /\ row'.cursor = IF Restarts(run[r]) \/ Begins(run[r]) THEN 0 ELSE row.cursor
         /\ row'.scan = (row.scan \/ Begins(run[r]))
         /\ evidence' = NoEvidence \/ evidence' = evidence
<1> DEFINE me == run[r]
           transition == Transition(me)
           n == me.state.expected
           active == Walks(me)
           retained == IF transition = "invalidateAndRestart" \/ me.snap.proof = None
                         THEN 0 ELSE me.snap.proof
           unproven == IF n > retained THEN n ELSE None
           expected == CASE active -> n
                         [] ~me.permitted /\ unproven # me.snap.expected -> unproven
                         [] ~active /\ me.permitted /\ me.state.published /\ me.snap.expected # None -> None
                         [] OTHER -> row.expected
           cursor == IF Restarts(me) \/ Begins(me) THEN 0 ELSE row.cursor
           scan == row.scan \/ Begins(me)
<1>1. /\ UNCHANGED <<provider, plan, stored, acct, ledger, repair, lease, tainted>>
      /\ row' = [row EXCEPT !.cursor = cursor, !.scan = scan, !.expected = expected]
      /\ evidence' = NoEvidence \/ evidence' = evidence
  BY DEF Prepare, Walks, PlanActive, Restarts, Begins
<1>2. row \in RowType /\ n \in 0 .. MaxTxs /\ row.expected \in None .. MaxTxs /\ row.scan \in BOOLEAN
  BY Runner, MemoryFields, StateFields, RowFields
<1>3. cursor \in 0 .. MaxTxs /\ cursor \in {0, row.cursor} /\ scan \in BOOLEAN /\ (row.scan => scan)
  BY <1>2, Bounds DEF RowType
<1>4. unproven \in None .. MaxTxs /\ n \in None .. MaxTxs /\ None \in None .. MaxTxs
  BY <1>2, Bounds
<1>5. expected \in None .. MaxTxs
  <2> DEFINE c2 == ~me.permitted /\ unproven # me.snap.expected
             c3 == ~active /\ me.permitted /\ me.state.published /\ me.snap.expected # None
  <2>1. expected = CASE active -> n [] c2 -> unproven [] c3 -> None [] OTHER -> row.expected
    OBVIOUS
  <2> HIDE DEF c2, c3, active, unproven, n, expected
  <2> QED BY <1>2, <1>4, <2>1, SMT
<1> HIDE DEF cursor, scan, expected
<1>6. row' \in RowType /\ row'.cursor = cursor /\ row'.proof = row.proof /\ row'.scan = scan
  BY <1>1, <1>2, <1>3, <1>5 DEF RowType
<1> QED BY <1>1, <1>3, <1>6 DEF cursor, scan

LEMMA PrepareBounded ==
  ASSUME Bounded, NEW r \in Runners, Prepare(r) PROVE Bounded'
<1> DEFINE me == run[r]
<1>1. PICK s \in States, pc \in {"success", "finalize", "page"} :
         /\ run' = [run EXCEPT ![r] = [me EXCEPT !.snap = Idle.snap, !.state = s, !.pc = pc]]
         /\ [me EXCEPT !.snap = Idle.snap, !.state = s, !.pc = pc] \in Memories
         /\ Prepared(me, s)
         /\ pc # "success" => run[r].permitted
  BY PrepareIs
<1> DEFINE new == [me EXCEPT !.snap = Idle.snap, !.state = s, !.pc = pc]
<1>2. me \in Memories /\ Fits(me, Height) /\ me.pc = "prepare" /\ me.snap \in Snaps
  BY Runner, MemoryFields, PrepareIs
<1>3. s.cursor \in {0, me.snap.cursor} /\ s.firstDone = (s.cursor # 0) /\ 0 <= Height
  BY <1>1, HeightIs DEF Prepared, Resume
<1>4. Fits(new, Height)
  <2>1. /\ new.pc = pc /\ new.snap = Idle.snap /\ new.state = s /\ new.from = me.from
        /\ new.page = me.page /\ new.todo = me.todo /\ new.more = me.more
    BY <1>2 DEF Memories
  <2>2. Idle.snap.cursor = 0
    BY IdleTyped
  <2>3. me.snap.cursor <= Height /\ me.from <= Height /\ DOMAIN me.page \subseteq 1 .. Height
        /\ me.todo \subseteq DOMAIN me.page /\ ~me.more
    BY <1>2 DEF Fits
  <2> HIDE DEF new
  <2> QED BY <1>1, <1>3, <2>1, <2>2, <2>3 DEF Fits, Between
<1>5. /\ UNCHANGED <<provider, plan, stored, acct, ledger, repair, lease, tainted>>
      /\ row' \in RowType /\ row'.cursor <= Height
  BY PrepareWrites, RowFields, HeightIs
<1>6. EvidenceSound'
  <2>1. CASE evidence' = NoEvidence
    BY <2>1 DEF EvidenceSound, NoEvidence
  <2> QED BY <2>1, PrepareWrites, EvidenceKept
<1>7. TypeOK'
  BY <1>5, Types, TypeKept
<1> HIDE DEF new
<1> QED BY <1>1, <1>4, <1>5, <1>6, <1>7, RunnerBounded DEF new

LEMMA FetchPageBounded ==
  ASSUME Bounded, NEW r \in Runners, FetchPage(r) PROVE Bounded'
<1> DEFINE me == run[r]
<1>1. PICK page \in Pages, c \in 0 .. MaxTxs, pc \in {"conclude", "finalize", "advance", "reconcile"} :
         /\ run' = [run EXCEPT ![r] = Fetched(me, page, c, pc)] /\ Fetched(me, page, c, pc) \in Memories
         /\ DOMAIN page = Answer(me)
         /\ c \in {0, me.state.cursor}
         /\ (pc = "reconcile" <=> Answer(me) # {})
         /\ (pc = "conclude" => me.state.strict)
  BY FetchPageIs
<1>2. me \in Memories /\ me.state \in States /\ me.state.cursor \in Nat /\ Fits(me, Height) /\ me.pc = "page"
  BY Runner, MemoryFields, StateFields, FetchPageIs
<1>3. From(me) \in 0 .. Height /\ Answer(me) \subseteq 1 .. Height
  BY <1>2, FromIs
<1> DEFINE s == [me.state EXCEPT !.cursor = c]
           new == [me EXCEPT !.from = From(me), !.page = page, !.todo = Answer(me), !.state = s, !.pc = pc]
<1>4. s.cursor = c /\ s.firstDone = me.state.firstDone /\ s.strict = me.state.strict /\ s.live = me.state.live
  BY <1>2, CursorState
<1>5. Fits(new, Height)
  <2> HIDE DEF s
  <2>1. /\ new.pc = pc /\ new.snap = me.snap /\ new.state = s /\ new.from = From(me)
        /\ new.page = page /\ new.todo = Answer(me) /\ new.more = me.more
    BY <1>2 DEF Memories
  <2>2. me.snap.cursor <= Height /\ me.state.cursor <= Height /\ 0 <= Height /\ ~me.more
    BY <1>2, HeightIs DEF Fits
  <2>3. c <= Height /\ From(me) <= Height
    BY <1>1, <1>3, <2>2, HeightIs
  <2> HIDE DEF new
  <2> QED BY <1>1, <1>3, <1>4, <2>1, <2>2, <2>3 DEF Fits, Between
<1>6. run' = [run EXCEPT ![r] = new] /\ new \in Memories
  BY <1>1 DEF Fetched
<1>7. UNCHANGED <<provider, plan, stored, row, acct, ledger, repair, lease, tainted>>
  BY DEF FetchPage
<1>8. TypeOK'
  BY <1>7, Types, RowFields, TypeKept
<1> HIDE DEF new
<1> QED BY <1>5, <1>6, <1>7, <1>8, RowFields, FetchPageEvidence, RunnerBounded

LEMMA ReconcileNextBounded ==
  ASSUME Bounded, NEW r \in Runners, ReconcileNext(r) PROVE Bounded'
<1> DEFINE me == run[r]
           New(t, b, pc) == [me EXCEPT !.todo = me.todo \ {t}, !.contradicted = b, !.pc = pc]
<1>1. PICK t \in me.todo, b \in BOOLEAN, pc \in {"reconcile", "invalidate", "advance"} :
         /\ run' = [run EXCEPT ![r] = New(t, b, pc)] /\ New(t, b, pc) \in Memories
         /\ t \in Txs /\ t \in DOMAIN me.page /\ me.page[t] \in Seen
         /\ stored' = [stored EXCEPT ![t] = me.page[t]]
         /\ pc = "reconcile" <=> me.todo # {t}
  BY ReconcileNextIs
<1>2. me \in Memories /\ Fits(me, Height) /\ me.pc = "reconcile"
  BY Runner, ReconcileNextIs
<1> DEFINE new == New(t, b, pc)
<1>3. Fits(new, Height)
  <2>1. /\ new.pc = pc /\ new.snap = me.snap /\ new.state = me.state /\ new.from = me.from
        /\ new.page = me.page /\ new.todo = me.todo \ {t} /\ new.more = me.more
    BY <1>2 DEF Memories
  <2> HIDE DEF new
  <2> QED BY <1>1, <1>2, <2>1 DEF Fits, Between
<1>4. /\ UNCHANGED <<provider, plan, row, evidence, acct, repair, lease>>
      /\ \E b2 \in BOOLEAN : ledger' = [ledger EXCEPT !.current = b2]
      /\ tainted' \in BOOLEAN
  <2>1. UNCHANGED <<provider, plan, row, evidence, acct, repair, lease>> /\ tainted' \in BOOLEAN
    BY DEF ReconcileNext
  <2>2. \E u \in BOOLEAN : ledger' = [ledger EXCEPT !.current = ledger.current /\ u]
    BY DEF ReconcileNext
  <2> QED BY <2>1, <2>2
<1>5. stored' \in [Txs -> Statuses]
  <2>1. Seen \subseteq Statuses
    BY DEF Seen, Statuses
  <2> QED BY <1>1, <2>1, Types
<1>6. ledger' \in [basis : {"unknown", "provider", "zero"}, current : BOOLEAN]
  BY <1>4, Types
<1>7. TypeOK'
  BY <1>4, <1>5, <1>6 DEF Bounded, TypeOK
<1> HIDE DEF new
<1> QED BY <1>1, <1>3, <1>4, <1>7, RowFields, EvidenceKept, RunnerBounded DEF new

LEMMA InvalidatePageBounded ==
  ASSUME Bounded, NEW r \in Runners, InvalidatePage(r) PROVE Bounded'
<1> DEFINE me == run[r]
           new == [me EXCEPT !.pc = "advance"]
<1>1. me.pc = "invalidate" /\ To(r, "advance") /\ InvalidateCoverage
      /\ UNCHANGED <<provider, plan, stored, evidence, acct, repair, lease>>
  BY DEF InvalidatePage
<1>2. me \in Memories /\ Fits(me, Height) /\ "advance" \in Running
  BY Runner DEF Running, Visiting
<1>3. run' = [run EXCEPT ![r] = new] /\ new \in Memories
  BY <1>1, <1>2, ToIs
<1>4. Fits(new, Height)
  <2>1. /\ new.pc = "advance" /\ new.snap = me.snap /\ new.state = me.state /\ new.from = me.from
        /\ new.page = me.page /\ new.todo = me.todo /\ new.more = me.more
    BY <1>2 DEF Memories
  <2> HIDE DEF new
  <2> QED BY <1>1, <1>2, <2>1 DEF Fits, Between
<1> HIDE DEF new
<1> QED BY <1>1, <1>3, <1>4, RowFields, InvalidateIs, PlainStep

LEMMA AdvanceCursorBounded ==
  ASSUME Bounded, NEW r \in Runners, AdvanceCursor(r) PROVE Bounded'
<1> DEFINE me == run[r]
           New(s) == [me EXCEPT !.state = s, !.pc = "conclude"]
<1>1. PICK s \in States :
         /\ run' = [run EXCEPT ![r] = New(s)] /\ New(s) \in Memories
         /\ Advanced(me, s)
         /\ row' = IF s.active THEN [row EXCEPT !.cursor = s.cursor] ELSE row
  BY AdvanceCursorIs
<1>2. me \in Memories /\ Fits(me, Height) /\ me.pc = "advance"
  BY Runner, AdvanceCursorIs
<1> DEFINE new == New(s)
<1>3. s.cursor \in 0 .. MaxTxs /\ s.cursor <= Height /\ s.firstDone
  <2>1. DOMAIN me.page \subseteq 1 .. Height
    BY <1>2 DEF Fits
  <2>2. LastConfirmed(PageConfirmed(me)) <= Height
    BY <1>2, <2>1, LastConfirmedIs, HeightIs
  <2> QED BY <1>1, <2>2, StateFields, HeightIs DEF Advanced
<1>4. Fits(new, Height)
  <2>1. /\ new.pc = "conclude" /\ new.snap = me.snap /\ new.state = s /\ new.from = me.from
        /\ new.page = me.page /\ new.todo = me.todo /\ new.more = me.more
    BY <1>2 DEF Memories
  <2> HIDE DEF new
  <2> QED BY <1>2, <1>3, <2>1 DEF Fits, Between
<1>5. UNCHANGED <<provider, plan, stored, evidence, acct, ledger, repair, lease, tainted>>
  BY DEF AdvanceCursor
<1>6. row' \in RowType /\ row'.cursor <= Height
  <2>1. CASE s.active
    <3>1. row' = [row EXCEPT !.cursor = s.cursor]
      BY <1>1, <2>1
    <3> QED BY <1>3, <3>1, RowFields DEF RowType
  <2>2. CASE ~s.active
    BY <1>1, <2>2, RowFields
  <2> QED BY <2>1, <2>2
<1> HIDE DEF new
<1> QED BY <1>1, <1>4, <1>5, <1>6, Types, PlainStep DEF new

LEMMA PublishBounded ==
  ASSUME Bounded, NEW r \in Runners, PublishStrict(r) \/ PublishProof(r) PROVE Bounded'
<1> DEFINE me == run[r]
           New(s) == [me EXCEPT !.state = s, !.more = FALSE, !.pc = "finalize"]
<1>1. PICK s \in States :
         run' = [run EXCEPT ![r] = New(s)] /\ New(s) \in Memories /\ Published(me.state, s)
  BY PublishIs
<1>2. me \in Memories /\ Fits(me, Height) /\ me.pc = "conclude" /\ me.state \in States
  BY Runner, MemoryFields, PublishIs
<1> DEFINE new == New(s)
<1>3. s.cursor <= Height
  BY <1>1, <1>2, HeightIs DEF Published, Fits
<1>4. Fits(new, Height)
  <2>1. /\ new.pc = "finalize" /\ new.snap = me.snap /\ new.state = s /\ new.from = me.from
        /\ new.page = me.page /\ new.todo = me.todo /\ ~new.more
    BY <1>2 DEF Memories
  <2> HIDE DEF new
  <2> QED BY <1>2, <1>3, <2>1 DEF Fits, Between
<1>5. UNCHANGED <<provider, plan, stored, evidence, acct, repair, lease, tainted>>
  BY DEF PublishStrict, PublishProof
<1>6. row' \in RowType /\ row'.cursor = row.cursor
  <2>1. me.state.expected \in None .. MaxTxs
    BY <1>2, StateFields, Bounds
  <2>2. row' = [row EXCEPT !.proof = me.state.expected, !.scan = FALSE] \/ row' = [row EXCEPT !.proof = me.state.expected]
    BY PublishIs
  <2> QED BY <2>1, <2>2, RowFields DEF RowType
<1>7. ledger' \in [basis : {"unknown", "provider", "zero"}, current : BOOLEAN]
  <2>1. PublishCompletion(row')
    BY PublishIs
  <2>2. PICK x : x = row'
    OBVIOUS
  <2>3. ledger' \in {[basis |-> "zero", current |-> TRUE], ledger}
    BY <2>1 DEF PublishCompletion
  <2>4. [basis |-> "zero", current |-> TRUE] \in [basis : {"unknown", "provider", "zero"}, current : BOOLEAN]
    OBVIOUS
  <2>5. ledger \in [basis : {"unknown", "provider", "zero"}, current : BOOLEAN]
    BY Types
  <2> QED BY <2>3, <2>4, <2>5, Zenon
<1> HIDE DEF new
<1> QED BY <1>1, <1>4, <1>5, <1>6, <1>7, RowFields, Types, PlainStep DEF new

\* The steps that change nothing in a memory but where it is.
LEMMA MovedStep ==
  ASSUME Bounded, NEW r \in Runners, NEW pc \in Running, To(r, pc),
         \/ pc = "failure" /\ run[r].pc \in {"stats", "page", "reconcile", "conclude"}
         \/ pc = "success" /\ run[r].pc = "finalize"
         \/ pc = "refresh" /\ run[r].pc = "rebuild",
         UNCHANGED <<provider, plan, stored, acct, repair, lease>>, evidence' = evidence,
         row' \in RowType, row'.cursor <= Height,
         ledger' \in [basis : {"unknown", "provider", "zero"}, current : BOOLEAN],
         tainted' \in BOOLEAN
  PROVE  Bounded'
<1> DEFINE me == run[r]
           new == [me EXCEPT !.pc = pc]
<1>1. me \in Memories /\ Fits(me, Height)
  BY Runner
<1>2. run' = [run EXCEPT ![r] = new] /\ new \in Memories
  BY ToIs
<1>3. Fits(new, Height)
  <2>1. /\ new.pc = pc /\ new.snap = me.snap /\ new.state = me.state /\ new.from = me.from
        /\ new.page = me.page /\ new.todo = me.todo /\ new.more = me.more
    BY <1>1 DEF Memories
  <2> HIDE DEF new
  <2> QED BY <1>1, <2>1 DEF Fits, Between
<1> HIDE DEF new
<1> QED BY <1>2, <1>3, PlainStep

LEMMA RestartStrictBounded ==
  ASSUME Bounded, NEW r \in Runners, RestartStrict(r) PROVE Bounded'
<1>1. run[r].pc = "conclude" /\ To(r, "failure")
      /\ row' = [row EXCEPT !.proof = None, !.cursor = 0, !.scan = FALSE]
      /\ UNCHANGED <<provider, plan, stored, evidence, acct, ledger, repair, lease, tainted>>
  BY DEF RestartStrict
<1>2. row' \in RowType /\ row'.cursor <= Height
  <2>1. row' = [row EXCEPT !.proof = None, !.cursor = 0, !.scan = FALSE] /\ row \in RowType
    BY <1>1, RowFields
  <2>2. None \in None .. MaxTxs /\ 0 \in 0 .. MaxTxs
    BY Bounds
  <2>3. row' \in RowType /\ row'.cursor = 0
    BY <2>1, <2>2 DEF RowType
  <2> QED BY <2>3, HeightIs
<1>3. "failure" \in Running
  BY DEF Running, Visiting
<1> QED BY <1>1, <1>2, <1>3, Types, MovedStep

LEMMA PassPageBounded ==
  ASSUME Bounded, NEW r \in Runners, PassPage(r) PROVE Bounded'
<1> DEFINE me == run[r]
           New(more) == [me EXCEPT !.more = more, !.pc = "finalize"]
<1>1. PICK more \in BOOLEAN :
         /\ run' = [run EXCEPT ![r] = New(more)] /\ New(more) \in Memories
         /\ more => me.state.cursor # 0
  BY PassPageIs
<1>2. me \in Memories /\ Fits(me, Height) /\ me.pc = "conclude"
  BY Runner, PassPageIs
<1> DEFINE new == New(more)
<1>3. me.state.firstDone
  <2>1. me.state.strict => DOMAIN me.page # {}
    BY PassPageIs DEF StrictEnds
  <2> QED BY <1>2, <2>1 DEF Fits
<1>4. Fits(new, Height)
  <2>1. /\ new.pc = "finalize" /\ new.snap = me.snap /\ new.state = me.state /\ new.from = me.from
        /\ new.page = me.page /\ new.todo = me.todo /\ new.more = more
    BY <1>2 DEF Memories
  <2> HIDE DEF new
  <2> QED BY <1>1, <1>2, <1>3, <2>1 DEF Fits, Between
<1>5. UNCHANGED <<provider, plan, stored, row, evidence, acct, ledger, repair, lease, tainted>>
  BY DEF PassPage
<1> HIDE DEF new
<1> QED BY <1>1, <1>4, <1>5, RowFields, Types, PlainStep DEF new

LEMMA FinalizeBounded ==
  ASSUME Bounded, NEW r \in Runners, Finalize(r) PROVE Bounded'
<1>1. run[r].pc = "finalize" /\ To(r, "success")
      /\ (row' = [row EXCEPT !.cursor = 0, !.expected = None] \/ row' = row)
      /\ UNCHANGED <<provider, plan, stored, evidence, acct, ledger, repair, lease, tainted>>
  BY DEF Finalize
<1>2. row' \in RowType /\ row'.cursor <= Height
  <2>1. row' = [row EXCEPT !.cursor = 0, !.expected = None] \/ row' = row
    BY <1>1
  <2>2. None \in None .. MaxTxs /\ 0 \in 0 .. MaxTxs /\ row \in RowType
    BY Bounds, RowFields
  <2>3. row' \in RowType /\ row'.cursor \in {0, row.cursor}
    BY <2>1, <2>2 DEF RowType
  <2> QED BY <2>3, RowFields, HeightIs
<1>3. "success" \in Running
  BY DEF Running, Visiting
<1> QED BY <1>1, <1>2, <1>3, Types, MovedStep

LEMMA MarkSuccessBounded ==
  ASSUME Bounded, NEW r \in Runners, MarkSuccess(r) PROVE Bounded'
<1> DEFINE me == run[r]
           New(s, u, v) == [me EXCEPT !.state = s, !.unavailable = u, !.touched = v, !.pc = "rebuild"]
<1>1. PICK s \in States, u \in BOOLEAN, v \in BOOLEAN :
         /\ run' = [run EXCEPT ![r] = New(s, u, v)] /\ New(s, u, v) \in Memories
         /\ s = IF run[r].more THEN run[r].state ELSE NoState
  BY MarkSuccessIs
<1>2. me \in Memories /\ Fits(me, Height) /\ me.pc = "success"
  BY Runner, MarkSuccessIs
<1> DEFINE new == New(s, u, v)
<1>3. s.cursor <= Height /\ (s.live => s.firstDone /\ s.cursor # 0) /\ (me.more => s = me.state)
  <2>1. CASE me.more
    BY <1>1, <1>2, <2>1 DEF Fits
  <2>2. CASE ~me.more
    BY <1>1, <2>2, NoStateTyped, HeightIs
  <2> QED BY <2>1, <2>2
<1>4. Fits(new, Height)
  <2>1. /\ new.pc = "rebuild" /\ new.snap = me.snap /\ new.state = s /\ new.from = me.from
        /\ new.page = me.page /\ new.todo = me.todo /\ new.more = me.more
    BY <1>2 DEF Memories
  <2> HIDE DEF new
  <2> QED BY <1>1, <1>2, <1>3, <2>1 DEF Fits, Between
<1>5. row' = [row EXCEPT !.open = FALSE, !.result = "success", !.tip = TRUE]
      /\ UNCHANGED <<provider, plan, stored, evidence, acct, ledger, repair, lease, tainted>>
  BY DEF MarkSuccess
<1>6. row' \in RowType /\ row'.cursor = row.cursor
  BY <1>5, RowFields DEF RowType
<1> HIDE DEF new
<1> QED BY <1>1, <1>4, <1>5, <1>6, RowFields, Types, PlainStep DEF new

LEMMA FailCallBounded ==
  ASSUME Bounded, NEW r \in Runners, FailCall(r) PROVE Bounded'
<1>1. run[r].pc \in {"stats", "page", "reconcile"} /\ To(r, "failure")
      /\ UNCHANGED <<provider, plan, stored, row, evidence, acct, ledger, repair, lease, tainted>>
  BY DEF FailCall
<1>2. "failure" \in Running
  BY DEF Running, Visiting
<1> QED BY <1>1, <1>2, Types, RowFields, MovedStep

LEMMA MarkFailureBounded ==
  ASSUME Bounded, NEW r \in Runners, MarkFailure(r) PROVE Bounded'
<1> DEFINE me == run[r]
           New(u, v) == [me EXCEPT !.state = NoState, !.failed = TRUE, !.unavailable = u, !.touched = v,
                                   !.pc = "rebuild"]
<1>1. PICK u \in BOOLEAN, v \in BOOLEAN : run' = [run EXCEPT ![r] = New(u, v)] /\ New(u, v) \in Memories
  BY MarkFailureIs
<1>2. me \in Memories /\ Fits(me, Height) /\ me.pc = "failure"
  BY Runner, MarkFailureIs
<1> DEFINE new == New(u, v)
<1>3. Fits(new, Height)
  <2>1. /\ new.pc = "rebuild" /\ new.snap = me.snap /\ new.state = NoState /\ new.from = me.from
        /\ new.page = me.page /\ new.todo = me.todo /\ new.more = me.more
    BY <1>2 DEF Memories
  <2> HIDE DEF new
  <2> QED BY <1>2, <2>1, NoStateTyped, HeightIs DEF Fits, Between
<1>4. UNCHANGED <<provider, plan, stored, evidence, acct, repair, lease>> /\ tainted' \in {FALSE, tainted}
      /\ (ledger' = [ledger EXCEPT !.basis = "unknown"] \/ ledger' = ledger)
  BY Zenon DEF MarkFailure
<1>5. ledger' \in [basis : {"unknown", "provider", "zero"}, current : BOOLEAN] /\ tainted' \in BOOLEAN
  BY <1>4, Types
<1>6. row' \in RowType /\ row'.cursor <= Height
  BY MarkFailureIs, RowFields
<1> HIDE DEF new
<1> QED BY <1>1, <1>3, <1>4, <1>5, <1>6, PlainStep DEF new

LEMMA RebuildLedgerBounded ==
  ASSUME Bounded, NEW r \in Runners, RebuildLedger(r) PROVE Bounded'
<1>1. UNCHANGED <<provider, plan, stored, row, evidence, acct, repair, lease, tainted>>
  BY DEF RebuildLedger
<1>2. "refresh" \in Running
  BY DEF Running, Visiting
<1> QED BY <1>1, <1>2, RebuildLedgerIs, Types, RowFields, MovedStep

LEMMA RefreshAccountBounded ==
  ASSUME Bounded, NEW r \in Runners, RefreshAccount(r) PROVE Bounded'
<1> DEFINE me == run[r]
           new == Rested(me)
<1>1. /\ me.pc = "refresh" /\ run' = [run EXCEPT ![r] = new]
      /\ acct' = IF row.open THEN acct ELSE [open |-> FALSE, result |-> row.result]
      /\ UNCHANGED <<provider, plan, stored, row, evidence, ledger, repair, lease, tainted>>
  BY RefreshAccountIs
<1>2. me \in Memories /\ Fits(me, Height)
  BY Runner
<1>3. Fits(new, Height)
  <2>1. DOMAIN NoPage = {}
    BY DEF NoPage
  <2> HIDE DEF new
  <2>2. /\ new \in Memories /\ new.pc = "finish" /\ new.state = me.state /\ new.snap = Idle.snap
        /\ new.from = 0 /\ new.page = NoPage /\ new.todo = {} /\ ~new.more
    BY <1>2, RestedFields DEF new
  <2> QED BY <1>1, <1>2, <2>1, <2>2, IdleTyped, HeightIs DEF Fits, Between
<1>4. new \in Memories
  BY <1>2, RestedFields
<1>5. acct' \in [open : BOOLEAN, result : {"none", "success", "failure"}]
  <2>1. row.result \in {"none", "success", "failure"}
    BY RowFields DEF RowType
  <2>2. [open |-> FALSE, result |-> row.result] \in [open : BOOLEAN, result : {"none", "success", "failure"}]
    BY <2>1
  <2> QED BY <1>1, <2>2, Types
<1>6. TypeOK'
  BY <1>1, <1>5, Types, RowFields, TypeKept
<1> HIDE DEF new
<1> QED BY <1>1, <1>3, <1>4, <1>6, RowFields, EvidenceKept, RunnerBounded

\* The address changes at the provider; it never loses a transaction.
ProviderStep == Broadcast \/ Confirm \/ Reorganise

Providers == [confirmed : 0 .. MaxTxs, pending : BOOLEAN, moved : SUBSET Txs, repeats : BOOLEAN]

LEMMA ProviderStepIs ==
  ASSUME Bounded, ProviderStep
  PROVE  /\ UNCHANGED <<plan, stored, row, evidence, acct, ledger, repair, lease, run, tainted>>
         /\ ProviderMay
         /\ provider' \in Providers
         /\ provider'.pending => provider'.confirmed < MaxTxs
         /\ Height' \in Nat /\ Height <= Height'
<1> DEFINE n == provider.confirmed
<1>1. /\ provider \in Providers
      /\ provider.pending => n < MaxTxs
      /\ n \in 0 .. MaxTxs
  BY DEF Bounded, TypeOK, Providers
<1>2. UNCHANGED <<plan, stored, row, evidence, acct, ledger, repair, lease, run, tainted>> /\ ProviderMay
  BY DEF ProviderStep, Broadcast, Confirm, Reorganise
<1>3. CASE Broadcast
  <2>1. ~provider.pending /\ n < MaxTxs /\ provider' = [provider EXCEPT !.pending = TRUE]
    BY <1>3 DEF Broadcast
  <2>2. provider' \in Providers /\ provider'.pending /\ provider'.confirmed = n
    BY <1>1, <2>1 DEF Providers
  <2> QED BY <1>1, <1>2, <2>1, <2>2, Bounds DEF Height
<1>4. CASE Confirm
  <2>1. provider.pending /\ provider' = [provider EXCEPT !.pending = FALSE, !.confirmed = n + 1]
    BY <1>4 DEF Confirm
  <2>2. n + 1 \in 0 .. MaxTxs
    BY <1>1, <2>1, Bounds
  <2>3. provider' \in Providers /\ ~provider'.pending /\ provider'.confirmed = n + 1
    BY <1>1, <2>1, <2>2 DEF Providers
  <2> QED BY <1>1, <1>2, <2>1, <2>3, Bounds DEF Height
<1>5. CASE Reorganise
  <2>1. ~provider.pending /\ n > 0
        /\ provider' = [provider EXCEPT !.pending = TRUE, !.confirmed = n - 1,
                                        !.moved = provider.moved \cup {n}]
    BY <1>5 DEF Reorganise
  <2>2. n - 1 \in 0 .. MaxTxs /\ n \in Txs /\ n - 1 < MaxTxs
    BY <1>1, <2>1, Bounds
  <2>3. provider.moved \cup {n} \in SUBSET Txs
    BY <1>1, <2>2 DEF Providers
  <2>4. provider' \in Providers
        /\ provider'.pending /\ provider'.confirmed = n - 1
    BY <1>1, <2>1, <2>2, <2>3 DEF Providers
  <2> QED BY <1>1, <1>2, <2>1, <2>2, <2>4, Bounds DEF Height
<1> QED BY <1>3, <1>4, <1>5 DEF ProviderStep

LEMMA ProviderBounded == ASSUME Bounded, ProviderStep PROVE Bounded'
<1>1. /\ UNCHANGED <<plan, stored, row, evidence, acct, ledger, repair, lease, run, tainted>>
      /\ provider' \in Providers
      /\ provider'.pending => provider'.confirmed < MaxTxs
      /\ Height' \in Nat /\ Height <= Height'
  BY ProviderStepIs
<1>2. TypeOK'
  BY <1>1 DEF Bounded, TypeOK, Providers
<1>3. EvidenceSound'
  BY <1>1, EvidenceKept
<1>4. \A r \in Runners : Fits(run[r], Height')
  BY <1>1, HeightIs, Runner, FitsHigher
<1>5. row.cursor <= Height'
  BY <1>1, RowFields, HeightIs
<1> QED BY <1>1, <1>2, <1>3, <1>4, <1>5 DEF Bounded

LEMMA UpgradeBounded == ASSUME Bounded, Upgrade PROVE Bounded'
<1>1. UNCHANGED <<provider, stored, row, evidence, acct, ledger, repair, lease, run, tainted>> /\ plan' \in BOOLEAN
  BY DEF Upgrade
<1>2. TypeOK'
  BY <1>1 DEF Bounded, TypeOK
<1> QED BY <1>1, <1>2, EvidenceKept DEF Bounded, Height

LEMMA OwnsBoolean == RepairOwnsAccount \in BOOLEAN
BY DEF RepairOwnsAccount

LEMMA StartedFits ==
  ASSUME Bounded, NEW owner \in BOOLEAN, NEW left \in Int
  PROVE  Fits(Started(owner, left), Height) /\ Started(owner, left) \in Memories
<1> DEFINE new == Started(owner, left)
<1>1. DOMAIN NoPage = {}
  BY DEF NoPage
<1>2. /\ new \in Memories /\ new.pc = "start" /\ new.snap = Snapshot /\ new.state = NoState /\ new.from = 0
      /\ new.page = NoPage /\ new.todo = {} /\ ~new.more
  BY StartedFields
<1> HIDE DEF new
<1>3. new.snap.cursor <= Height
  BY <1>2, SnapshotTyped, RowFields
<1> QED BY <1>1, <1>2, <1>3, NoStateTyped, HeightIs DEF Fits, Between, new

LEMMA StartAutomaticIs ==
  ASSUME Bounded, StartAutomatic
  PROVE  run' = [run EXCEPT !["auto"] = Started(RepairOwnsAccount, 0)]
<1> DEFINE owner == RepairOwnsAccount
           snap == Snapshot
           pending == HasPending
<1>1. DOMAIN Idle = Fields /\ Idle.left = 0
  BY IdleShape DEF Idle
<1>2. run' = [run EXCEPT !["auto"] = [Idle EXCEPT !.pc = "start", !.owner = owner, !.snap = snap,
                                                  !.pendingIds = pending]]
  BY DEF StartAutomatic
<1> HIDE DEF snap, pending, owner
<1>3. [Idle EXCEPT !.pc = "start", !.owner = owner, !.snap = snap, !.pendingIds = pending, !.left = 0]
        = [Idle EXCEPT !.pc = "start", !.owner = owner, !.snap = snap, !.pendingIds = pending]
  BY IdleTyped, <1>1 DEF Memories
<1> QED BY <1>2, <1>3 DEF Started, snap, pending, owner

LEMMA StartAutomaticBounded == ASSUME Bounded, StartAutomatic PROVE Bounded'
<1> DEFINE owner == RepairOwnsAccount
           new == Started(owner, 0)
<1>1. /\ run' = [run EXCEPT !["auto"] = new]
      /\ lease' = IF owner THEN "auto" ELSE "free"
      /\ UNCHANGED <<provider, plan, stored, row, evidence, acct, ledger, repair, tainted>>
  BY StartAutomaticIs DEF StartAutomatic
<1>2. new \in Memories /\ Fits(new, Height)
  BY OwnsBoolean, StartedFits
<1>3. TypeOK'
  BY <1>1, Types, RowFields, TypeKept
<1> HIDE DEF new
<1> QED BY <1>1, <1>2, <1>3, RunnersAre, RowFields, EvidenceKept, RunnerBounded

LEMMA StartManualIs ==
  ASSUME Bounded, Manual, StartManual
  PROVE  run' = [run EXCEPT !["manual"] = Started(FALSE, Iterations - 1)]
<1> DEFINE snap == Snapshot
           pending == HasPending
           left == Iterations - 1
<1>1. Idle.owner = FALSE
  BY DEF Idle
<1>2. run' = [run EXCEPT !["manual"] = [Idle EXCEPT !.pc = "start", !.snap = snap, !.pendingIds = pending,
                                                    !.left = left]]
  BY DEF StartManual
<1> HIDE DEF snap, pending, left
<1>3. [Idle EXCEPT !.pc = "start", !.owner = FALSE, !.snap = snap, !.pendingIds = pending, !.left = left]
        = [Idle EXCEPT !.pc = "start", !.snap = snap, !.pendingIds = pending, !.left = left]
  BY IdleTyped, <1>1 DEF Memories
<1> QED BY <1>2, <1>3 DEF Started, snap, pending, left

LEMMA StartManualBounded == ASSUME Bounded, Manual, StartManual PROVE Bounded'
<1> DEFINE new == Started(FALSE, Iterations - 1)
<1>1. /\ run' = [run EXCEPT !["manual"] = new]
      /\ lease' = "manual"
      /\ UNCHANGED <<provider, plan, stored, row, evidence, acct, ledger, repair, tainted>>
  BY StartManualIs DEF StartManual
<1>2. new \in Memories /\ Fits(new, Height)
  <2>1. FALSE \in BOOLEAN /\ Iterations - 1 \in Int
    BY Bounds
  <2> QED BY <2>1, StartedFits
<1>3. TypeOK'
  BY <1>1, Types, RowFields, TypeKept
<1> HIDE DEF new
<1> QED BY <1>1, <1>2, <1>3, RunnersAre, RowFields, EvidenceKept, RunnerBounded

LEMMA NextIterationBounded == ASSUME Bounded, Manual, NextIteration PROVE Bounded'
<1> DEFINE me == run["manual"]
           new == [me EXCEPT !.pc = "start", !.snap = Snapshot, !.left = me.left - 1]
<1>1. "manual" \in Runners
  BY RunnersAre
<1>2. me.pc = "finish" /\ run' = [run EXCEPT !["manual"] = new] /\ new \in Memories
  BY NextIterationIs
<1>3. me \in Memories /\ Fits(me, Height) /\ Snapshot.cursor <= Height
  BY <1>1, Runner, SnapshotTyped, RowFields
<1>4. Fits(new, Height)
  <2> DEFINE snap == Snapshot
             left == me.left - 1
  <2> HIDE DEF snap, left
  <2>1. new = [me EXCEPT !.pc = "start", !.snap = snap, !.left = left]
    BY DEF snap, left
  <2>2. /\ new.pc = "start" /\ new.snap = snap /\ new.state = me.state /\ new.from = me.from
        /\ new.page = me.page /\ new.todo = me.todo /\ new.more = me.more
    BY <1>3, <2>1 DEF Memories
  <2> HIDE DEF new
  <2> QED BY <1>2, <1>3, <2>2 DEF Fits, Between, snap
<1>5. UNCHANGED <<provider, plan, stored, row, evidence, acct, ledger, repair, lease, tainted>>
  BY DEF NextIteration
<1> HIDE DEF new
<1> QED BY <1>1, <1>2, <1>4, <1>5, RowFields, Types, PlainStep

LEMMA FinishManualBounded == ASSUME Bounded, Manual, FinishManual PROVE Bounded'
<1>1. run' = [run EXCEPT !["manual"] = Idle] /\ lease' = "free"
      /\ UNCHANGED <<provider, plan, stored, row, evidence, acct, ledger, repair, tainted>>
  BY DEF FinishManual
<1>2. TypeOK'
  BY <1>1, Types, RowFields, TypeKept
<1> QED BY <1>1, <1>2, IdleTyped, IdleFits, HeightIs, RunnersAre, RowFields, EvidenceKept, RunnerBounded

LEMMA FinishAutomaticBounded == ASSUME Bounded, FinishAutomatic PROVE Bounded'
<1>1. /\ run' = [run EXCEPT !["auto"] = Idle] /\ lease' \in {"free", lease}
      /\ repair' \in {repair, "completed"}
      /\ UNCHANGED <<provider, plan, stored, row, acct, ledger, tainted>>
      /\ evidence' = evidence \/ evidence' = [evidence EXCEPT !.kept = FALSE]
  BY DEF FinishAutomatic
<1>2. TypeOK'
  BY <1>1 DEF Bounded, TypeOK
<1>3. EvidenceSound'
  <2>1. EvidenceSound
    BY DEF Bounded
  <2>2. DOMAIN evidence' = {"pages", "twice", "kept"} /\ evidence'.pages = evidence.pages
    BY <1>1, <2>1 DEF EvidenceSound
  <2> QED BY <2>1, <2>2 DEF EvidenceSound
<1> QED BY <1>1, <1>2, <1>3, IdleTyped, IdleFits, HeightIs, RunnersAre, RowFields, RunnerBounded

LEMMA CrashBounded == ASSUME Bounded, Crash PROVE Bounded'
<1>1. /\ run' = [r \in Runners |-> Idle] /\ lease' = "free"
      /\ UNCHANGED <<provider, plan, stored, row, evidence, acct, ledger, repair, tainted>>
  BY DEF Crash
<1>2. TypeOK'
  BY <1>1, Types, RowFields, TypeKept
<1>3. run' \in [Runners -> Memories] /\ \A r \in Runners : Fits(run'[r], Height)
  BY <1>1, IdleTyped, IdleFits, HeightIs
<1>4. Height' = Height
  BY <1>1 DEF Height
<1> QED BY <1>1, <1>2, <1>3, <1>4, EvidenceKept DEF Bounded

LEMMA BoundedStep ==
  ASSUME Bounded, NEW r \in Runners, Step(r) \/ SkipVisit(r) \/ FailCall(r)
  PROVE  Bounded'
BY OpenAccountBounded, BeginVisitBounded, FetchStatsBounded, SettleProofBounded, PrepareBounded,
   FetchPageBounded, ReconcileNextBounded, InvalidatePageBounded, AdvanceCursorBounded, PublishBounded,
   RestartStrictBounded, PassPageBounded, FinalizeBounded, MarkSuccessBounded, MarkFailureBounded,
   RebuildLedgerBounded, RefreshAccountBounded, SkipVisitBounded, FailCallBounded DEF Step

LEMMA BoundedNext == Bounded /\ [Next]_vars => Bounded'
<1> SUFFICES ASSUME Bounded, [Next]_vars PROVE Bounded'
  OBVIOUS
<1>1. CASE UNCHANGED vars
  <2>1. UNCHANGED <<provider, plan, stored, row, evidence, acct, ledger, repair, lease, run, tainted>>
    BY <1>1 DEF vars
  <2>2. TypeOK'
    BY <2>1 DEF Bounded, TypeOK
  <2> QED BY <2>1, <2>2, EvidenceKept DEF Bounded, Height
<1>2. CASE Next
  <2>1. CASE \E r \in Runners : Step(r) \/ SkipVisit(r) \/ FailCall(r)
    BY <2>1, BoundedStep
  <2>2. CASE Manual /\ (StartManual \/ NextIteration \/ FinishManual)
    BY <2>2, StartManualBounded, NextIterationBounded, FinishManualBounded
  <2>3. CASE StartAutomatic \/ FinishAutomatic \/ Crash
    BY <2>3, StartAutomaticBounded, FinishAutomaticBounded, CrashBounded
  <2>4. CASE Broadcast \/ Confirm \/ Reorganise \/ Upgrade
    BY <2>4, ProviderBounded, UpgradeBounded DEF ProviderStep
  <2> QED BY <1>2, <2>1, <2>2, <2>3, <2>4 DEF Next
<1> QED BY <1>1, <1>2

\* The cursors and pages of a visit, the address row and the raw evidence stay
\* within what the provider has announced (MempoolIterationState, transaction_sync_state).
THEOREM BoundsHold == Spec => []Bounded
<1>1. Spec => Bounded
  BY BoundedInit DEF Spec
<1> QED BY BoundedInit, BoundedNext, PTL DEF Spec

\* Whatever the provider, the crashes and the two runners do, every column,
\* cursor and proof of the address stays in range (transaction_sync_state).
THEOREM TypesHold == Spec => []TypeOK
<1>1. Bounded => TypeOK
  BY DEF Bounded
<1> QED BY <1>1, BoundsHold, PTL

-----------------------------------------------------------------------------
\* A strict scan is exact

\* The oldest transaction of a page of newest ones; a page that lacks an older
\* one ends above it.
LEMMA LastOfNewest ==
  ASSUME NEW n \in Nat
  PROVE  /\ LastConfirmed(Newest(1 .. n)) \in 0 .. n
         /\ n > 0 => LastConfirmed(Newest(1 .. n)) \in Newest(1 .. n)
         /\ \A t \in 1 .. n : t \notin Newest(1 .. n) => LastConfirmed(Newest(1 .. n)) > t
<1> DEFINE S == Newest(1 .. n)
           m == LastConfirmed(S)
<1>1. S \subseteq 1 .. n /\ S \subseteq Nat
  BY NewestWithin
<1>2. n > 0 => S # {}
  BY NewestOfAll
<1>3. S # {} => Min(S) \in S
  BY <1>1, MinNat
<1>4. S # {} => m \in S
  BY <1>3 DEF LastConfirmed
<1>5. S = {} => m = 0
  BY DEF LastConfirmed
<1>6. \A x \in S : x .. n \subseteq S
  BY NewestOfAll
<1> HIDE DEF S, m
<1>7. m \in 0 .. n /\ (n > 0 => m \in S)
  <2>1. CASE S = {}
    BY <1>2, <1>5, <2>1
  <2>2. CASE S # {}
    <3>1. m \in 1 .. n
      BY <1>1, <1>4, <2>2
    <3> QED BY <1>4, <2>2, <3>1
  <2> QED BY <2>1, <2>2
<1>8. ASSUME NEW t \in 1 .. n, t \notin S PROVE m > t
  <2>1. m \in S /\ m \in 1 .. n
    BY <1>1, <1>7
  <2>2. ~(m <= t)
    <3> SUFFICES ASSUME m <= t PROVE FALSE
      OBVIOUS
    <3>1. t \in m .. n
      BY <2>1
    <3> QED BY <1>6, <1>8, <2>1, <3>1
  <2> QED BY <2>1, <2>2
<1> QED BY <1>7, <1>8 DEF S, m

\* Pages that are linked from the first one downwards, and end in an empty or a
\* repeated one, leave nothing out.
LEMMA LinkedPagesAreAll ==
  ASSUME NEW pages, DOMAIN pages \subseteq 0 .. MaxTxs, 0 \in DOMAIN pages,
         \A c \in DOMAIN pages : PageSound(c, pages[c]),
         \A c \in DOMAIN pages \ {0} : \E p \in DOMAIN pages \ {c} : LastConfirmed(pages[p].confirmed) = c,
         \A c \in DOMAIN pages :
              \/ pages[c].confirmed = {}
              \/ c # 0 /\ pages[c].confirmed = {c}
              \/ LastConfirmed(pages[c].confirmed) \in DOMAIN pages \ {0, c}
  PROVE  \E k \in Nat : UNION {pages[c].confirmed : c \in DOMAIN pages} = 1 .. k
<1>1. PICK k \in 0 .. MaxTxs : pages[0].confirmed = Newest(1 .. k)
  BY DEF PageSound
<1> DEFINE D == DOMAIN pages
           Seen1 == UNION {pages[c].confirmed : c \in D}
           Returned(c) == LastConfirmed(pages[c].confirmed)
<1>2. k \in Nat /\ D \subseteq Nat
  BY <1>1, Bounds
<1>3. \A c \in D : c > 1 => pages[c].confirmed = Newest(1 .. c - 1) /\ c - 1 \in Nat
  BY <1>2 DEF PageSound
<1>4. 1 \in D => pages[1].confirmed \subseteq {1} /\ Returned(1) \in {0, 1}
  <2> SUFFICES ASSUME 1 \in D PROVE pages[1].confirmed \subseteq {1} /\ Returned(1) \in {0, 1}
    OBVIOUS
  <2>1. pages[1].confirmed \subseteq {1}
    BY DEF PageSound
  <2>2. CASE pages[1].confirmed = {}
    BY <2>1, <2>2 DEF LastConfirmed
  <2>3. CASE pages[1].confirmed # {}
    <3>1. Min(pages[1].confirmed) \in pages[1].confirmed
      BY <2>1, <2>3, MinNat
    <3> QED BY <2>1, <2>3, <3>1 DEF LastConfirmed
  <2> QED BY <2>1, <2>2, <2>3
<1>5. ASSUME NEW c \in D PROVE c <= k
  <2>1. Max(D) \in D /\ \A d \in D : d <= Max(D)
    BY Bounds, MaxNat
  <2> DEFINE top == Max(D)
  <2> HIDE DEF top
  <2>2. top \in D /\ (\A d \in D : d <= top) /\ top \in Nat
    BY <1>2, <2>1 DEF top
  <2>3. CASE top = 0
    BY <1>2, <2>2, <2>3
  <2>4. CASE top # 0
    <3>1. PICK p \in D \ {top} : Returned(p) = top
      BY <2>2, <2>4
    <3>2. p \in Nat /\ p < top
      <4>1. p \in D /\ p # top
        BY <3>1
      <4>2. p \in Nat /\ p <= top /\ top \in Nat
        BY <1>2, <2>2, <4>1
      <4> QED BY <4>1, <4>2
    <3>3. CASE p = 0
      <4>1. Returned(0) \in 0 .. k
        BY <1>1, <1>2, LastOfNewest
      <4> QED BY <1>2, <2>2, <3>1, <3>3, <4>1
    <3>4. CASE p = 1
      BY <1>4, <2>4, <3>1, <3>2, <3>4
    <3>5. CASE p > 1
      <4>1. pages[p].confirmed = Newest(1 .. p - 1) /\ p - 1 \in Nat
        BY <1>3, <3>5
      <4>2. Returned(p) \in 0 .. p - 1
        BY <4>1, LastOfNewest
      <4> QED BY <3>1, <3>2, <4>2
    <3> QED BY <3>2, <3>3, <3>4, <3>5
  <2> QED BY <2>3, <2>4
<1>6. Seen1 \subseteq 1 .. k
  <2> SUFFICES ASSUME NEW c \in D PROVE pages[c].confirmed \subseteq 1 .. k
    OBVIOUS
  <2>1. c \in Nat /\ c <= k
    BY <1>2, <1>5
  <2>2. CASE c = 0
    BY <1>1, <2>2, NewestWithin
  <2>3. CASE c = 1
    BY <1>2, <1>4, <2>1, <2>3
  <2>4. CASE c > 1
    <3>1. pages[c].confirmed \subseteq 1 .. c - 1
      BY <1>3, <2>4, NewestWithin
    <3> QED BY <1>2, <2>1, <3>1
  <2> QED BY <2>1, <2>2, <2>3, <2>4
<1>7. 1 .. k \subseteq Seen1
  <2> SUFFICES ASSUME NEW t \in 1 .. k, t \notin Seen1 PROVE FALSE
    OBVIOUS
  <2> DEFINE Above == {c \in D : c > t}
             low == IF Above = {} THEN 0 ELSE Min(Above)
             last == IF Above = {} THEN k ELSE low - 1
  <2>1. Above # {} => Min(Above) \in Above /\ \A c \in Above : Min(Above) <= c
    BY <1>2, MinNat
  <2>2. low \in D /\ last \in Nat /\ last >= t /\ pages[low].confirmed = Newest(1 .. last)
        /\ (low # 0 => last = low - 1) /\ (low = 0 => Above = {}) /\ \A c \in Above : low <= c
    <3>1. CASE Above = {}
      BY <1>1, <1>2, <3>1
    <3>2. CASE Above # {}
      <4>1. low \in D /\ low > t /\ low \in Nat /\ low > 1 /\ last = low - 1
        BY <1>2, <2>1, <3>2
      <4>2. pages[low].confirmed = Newest(1 .. last) /\ last \in Nat
        BY <1>3, <4>1
      <4>3. \A c \in Above : low <= c
        BY <2>1, <3>2
      <4> HIDE DEF low, last, Above
      <4> QED BY <3>2, <4>1, <4>2, <4>3
    <3> QED BY <3>1, <3>2
  <2> HIDE DEF low, last
  <2>3. t \in 1 .. last /\ last > 0
    BY <2>2
  <2>4. t \notin pages[low].confirmed
    BY <2>2
  <2>5. Returned(low) > t /\ Returned(low) \in Newest(1 .. last) /\ Returned(low) \in 1 .. last
    <3>1. Returned(low) = LastConfirmed(Newest(1 .. last))
      BY <2>2
    <3> QED BY <2>2, <2>3, <2>4, <3>1, LastOfNewest, NewestWithin
  <2>6. Returned(low) \in D \ {0, low}
    <3>1. pages[low].confirmed # {}
      BY <2>2, <2>5
    <3>2. low # 0 => pages[low].confirmed # {low}
      <4>1. Newest(1 .. last) \subseteq 1 .. last
        BY NewestWithin
      <4> QED BY <1>2, <2>2, <4>1
    <3> QED BY <2>2, <3>1, <3>2
  <2>7. Returned(low) \in Above
    BY <2>5, <2>6
  <2>8. low <= Returned(low) /\ low # 0
    BY <2>2, <2>7
  <2> QED BY <1>2, <2>2, <2>5, <2>8
<1> QED BY <1>2, <1>6, <1>7

LEMMA EvidenceExactCounts ==
  ASSUME Bounded, NEW expected \in Nat, NEW allowRepeat, EvidenceExact(expected, allowRepeat)
  PROVE  ConfirmedTxs = 1 .. expected
<1> DEFINE pages == evidence.pages
           Returned(c) == LastConfirmed(pages[c].confirmed)
<1>1. DOMAIN pages \subseteq 0 .. MaxTxs /\ \A c \in DOMAIN pages : PageSound(c, pages[c])
  BY DEF Bounded, EvidenceSound
<1>2. /\ 0 \in DOMAIN pages
      /\ \A c \in DOMAIN pages \ {0} : \E p \in DOMAIN pages \ {c} : Returned(p) = c
      /\ \A c \in DOMAIN pages :
            \/ pages[c] = [confirmed |-> {}, pending |-> FALSE]
            \/ c # 0 /\ pages[c] = [confirmed |-> {c}, pending |-> FALSE]
            \/ Returned(c) \in DOMAIN pages \ {0, c}
      /\ EvidenceCounts(expected)
  BY DEF EvidenceExact
<1>3. \A c \in DOMAIN pages :
            \/ pages[c].confirmed = {}
            \/ c # 0 /\ pages[c].confirmed = {c}
            \/ Returned(c) \in DOMAIN pages \ {0, c}
  <2> SUFFICES ASSUME NEW c \in DOMAIN pages
               PROVE  \/ pages[c].confirmed = {}
                      \/ c # 0 /\ pages[c].confirmed = {c}
                      \/ Returned(c) \in DOMAIN pages \ {0, c}
    BY Zenon
  <2>1. CASE pages[c] = [confirmed |-> {}, pending |-> FALSE]
    BY <2>1
  <2>2. CASE c # 0 /\ pages[c] = [confirmed |-> {c}, pending |-> FALSE]
    BY <2>2
  <2> QED BY <1>2, <2>1, <2>2, Zenon
<1>4. \E k \in Nat : UNION {pages[c].confirmed : c \in DOMAIN pages} = 1 .. k
  BY <1>1, <1>2, <1>3, LinkedPagesAreAll
<1>5. PICK k \in Nat : EvidenceSeen = 1 .. k
  BY <1>4 DEF EvidenceSeen
<1>6. Cardinality(1 .. k) = k
  BY FS_Interval
<1> QED BY <1>2, <1>5, <1>6 DEF EvidenceCounts

LEMMA StrictStep == ASSUME Bounded, NEW r \in Runners, PublishStrict(r) PROVE ConfirmedTxs = 1 .. row'.proof
<1>1. run[r].state.expected \in Nat /\ run[r].state.expected \in 0 .. MaxTxs
  BY Runner, MemoryFields, StateFields
<1>2. EvidenceExact(run[r].state.expected, DOMAIN run[r].page # {})
  BY DEF PublishStrict, StrictExact
<1>3. row' = [row EXCEPT !.proof = run[r].state.expected, !.scan = FALSE]
  BY DEF PublishStrict, PublishCompletion
<1>4. row'.proof = run[r].state.expected
  BY <1>3, RowFields DEF RowType
<1> QED BY <1>1, <1>2, <1>4, EvidenceExactCounts

\* What validate_strict_mempool_history_scan accepts, pages of several runs with
\* an address that changes between them and raw evidence that expires, is the
\* whole stored history and as long as the statistics said, whenever
\* complete_strict_mempool_history_scan publishes a proof.
THEOREM StrictScanIsExact == Spec => StrictProofExact
<1>1. Bounded /\ [Next]_vars => [\A r \in Runners : PublishStrict(r) => ConfirmedTxs = 1 .. row'.proof]_vars
  BY StrictStep
<1> QED BY <1>1, BoundsHold, PTL DEF Spec, StrictProofExact

=============================================================================
