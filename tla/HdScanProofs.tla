----------------------------- MODULE HdScanProofs -----------------------------
(***************************************************************************)
(* Proofs about HdScan, for every gap limit, budget, depth of use and      *)
(* number of failed fetches and lost runs.                                 *)
(***************************************************************************)
EXTENDS HdScan, NewestFirst

-----------------------------------------------------------------------------
(* Facts about positions *)

\* A position n is sound for D stored addresses of which S showed activity
\* and A were attempted, when u unused ones were counted before it.
Sound(D, S, A, n, u) ==
    /\ n <= D
    /\ n <= u \/ \E i \in S : n <= i + 1 + u
    /\ \A i \in 0 .. n - 1 : i \in A

\* A sound position stays sound when addresses, activity and attempts grow.
LEMMA SoundGrows ==
    ASSUME NEW D \in Nat, NEW S, NEW A, NEW D1 \in Nat, NEW S1, NEW A1,
           NEW n \in Nat, NEW u \in Nat,
           D <= D1, S \subseteq S1, A \subseteq A1, Sound(D, S, A, n, u)
    PROVE  Sound(D1, S1, A1, n, u)
BY DEF Sound

\* Passing an attempted address keeps the position sound, provided the count
\* is reset only at activity.
LEMMA SoundAdvances ==
    ASSUME NEW D \in Nat, NEW S \in SUBSET Nat, NEW A,
           NEW n \in Nat, NEW u \in Nat, NEW v \in Nat,
           Sound(D, S, A, n, u), n < D, n \in A, v = u + 1 \/ (n \in S /\ v = 0)
    PROVE  Sound(D, S, A, n + 1, v)
<1>1. n + 1 <= D /\ \A i \in 0 .. (n + 1) - 1 : i \in A
  <2>. SUFFICES ASSUME NEW i \in 0 .. (n + 1) - 1 PROVE n + 1 <= D /\ i \in A
    BY DEF Sound
  <2>1. i = n \/ i \in 0 .. n - 1
    OBVIOUS
  <2>. QED
    BY <2>1 DEF Sound
<1>2. n + 1 <= v \/ \E i \in S : n + 1 <= i + 1 + v
  <2>1. CASE n \in S /\ v = 0
    BY <2>1
  <2>2. CASE v = u + 1
    <3>1. CASE n <= u
      BY <2>2, <3>1
    <3>2. ASSUME NEW i \in S, n <= i + 1 + u PROVE n + 1 <= i + 1 + v
      BY <2>2, <3>2
    <3>. QED
      BY <3>1, <3>2 DEF Sound
  <2>. QED
    BY <2>1, <2>2
<1>. QED
  BY <1>1, <1>2 DEF Sound

-----------------------------------------------------------------------------
(* The parts of the invariant, as the steps disturb them *)

TableTypes ==
    /\ used \in Indexes /\ derived \in [Chains -> Nat]
    /\ rows \in Indexes /\ fetched \in Indexes /\ observed \in Indexes
    /\ failed \in Indexes

LedgerTypes ==
    frontier \in [Chains -> Frontiers] /\ published \in [Chains -> Nat]

SetupTypes ==
    /\ limited \in BOOLEAN
    /\ pc \in {"idle", "round", "scan", "persist", "finish"}
    /\ source \in Sources \cup {"none"} /\ policy \in Policies \cup {"none"}
    /\ processed \in Nat /\ tip_cached \in BOOLEAN
    /\ interrupted \in [Chains -> BOOLEAN]
    /\ failures \in Nat /\ losses \in Nat

CursorTypes ==
    /\ known \in Indexes /\ completed \in Indexes
    /\ chain \in Chains /\ phase \in {"existing", "derived", "rescan"}
    /\ next_index \in Nat /\ unused \in Nat
    /\ rescan_from \in Nat \cup {NoIndex}
    /\ outcome \in Frontiers

LEMMA TypeParts ==
    TypeOK <=> TableTypes /\ LedgerTypes /\ SetupTypes /\ CursorTypes
BY Zenon DEF TypeOK, TableTypes, LedgerTypes, SetupTypes, CursorTypes

TablesStored ==
    \A c \in Chains :
        /\ \A i \in Attempted(c) : i < derived[c]
        /\ observed[c] \subseteq fetched[c]

KnownShown == \A c \in Chains : known[c] \subseteq Shown(c)

LEMMA StoredParts == Stored <=> TablesStored /\ KnownShown
BY Zenon DEF Stored, TablesStored, KnownShown

FrontiersSound ==
    \A c \in Chains :
        Sound(derived[c], Shown(c), Attempted(c), frontier[c].next, frontier[c].unused)

CursorSound ==
    Sound(derived[chain], Shown(chain), Attempted(chain), next_index, unused)

OutcomeSound ==
    Sound(derived[chain], Shown(chain), Attempted(chain), outcome.next, outcome.unused)

LEMMA PositionParts ==
    PositionsSound <=> /\ FrontiersSound
                       /\ pc = "scan" => CursorSound
                       /\ pc = "persist" => OutcomeSound
BY Zenon DEF PositionsSound, SoundPosition, FrontiersSound, CursorSound, OutcomeSound, Sound

\* The invariant, part by part.
Parts ==
    /\ TableTypes /\ LedgerTypes /\ SetupTypes /\ CursorTypes
    /\ TablesStored /\ KnownShown
    /\ FrontiersSound
    /\ pc = "scan" => CursorSound
    /\ pc = "persist" => OutcomeSound
    /\ DerivationBound

LEMMA InvParts == IndInv <=> Parts
BY TypeParts, StoredParts, PositionParts, Zenon DEF IndInv, Parts

\* The tables only grow, and addresses are stored before they are attempted.
TablesGrow ==
    /\ TableTypes' /\ TablesStored'
    /\ \A c \in Chains : /\ derived[c] <= derived'[c]
                         /\ Shown(c) \subseteq Shown(c)'
                         /\ Attempted(c) \subseteq Attempted(c)'

\* What is known was shown, and was attempted, on stored addresses.
LEMMA KnownFacts ==
    ASSUME Parts, NEW c \in Chains
    PROVE  /\ derived[c] \in Nat
           /\ known[c] \subseteq Shown(c) /\ Shown(c) \subseteq Attempted(c)
           /\ Attempted(c) \subseteq Nat
           /\ \A i \in Attempted(c) : i < derived[c]
BY DEF Parts, TableTypes, TablesStored, KnownShown, Shown, Attempted, Indexes

LEMMA SameTablesGrow ==
    ASSUME Parts, UNCHANGED tables, UNCHANGED used
    PROVE  TablesGrow
<1>1. \A c \in Chains : Shown(c)' = Shown(c) /\ Attempted(c)' = Attempted(c)
  BY DEF tables, Shown, Attempted
<1>2. TableTypes' /\ TablesStored'
  BY <1>1 DEF Parts, TableTypes, TablesStored, tables
<1>. QED
  BY <1>1, <1>2 DEF TablesGrow, Parts, TableTypes, tables

LEMMA FetchGrows ==
    ASSUME Parts, NEW c \in Chains, NEW i \in Nat, i < derived[c],
           FetchSucceeds(c, i), UNCHANGED used
    PROVE  /\ TablesGrow /\ i \in Attempted(c)'
           /\ i \in used[c] => i \in Shown(c)'
<1>. USE DEF Parts, TableTypes, Indexes
<1>1. TableTypes'
  BY DEF FetchSucceeds, Add, Drop
<1>2. /\ fetched'[c] = fetched[c] \cup {i} /\ failed'[c] = failed[c] \ {i}
      /\ observed'[c] = IF i \in used[c] THEN observed[c] \cup {i} ELSE observed[c]
      /\ rows[c] \subseteq rows'[c] /\ rows'[c] \subseteq rows[c] \cup {i}
      /\ derived' = derived
  BY DEF FetchSucceeds, Add, Drop
<1>3. \A d \in Chains \ {c} :
         /\ fetched'[d] = fetched[d] /\ failed'[d] = failed[d]
         /\ observed'[d] = observed[d] /\ rows'[d] = rows[d]
  BY DEF FetchSucceeds, Add, Drop
<1>4. \A d \in Chains : Shown(d) \subseteq Shown(d)' /\ Attempted(d) \subseteq Attempted(d)'
  BY <1>2, <1>3 DEF Shown, Attempted
<1>5. TablesStored'
  BY <1>2, <1>3 DEF TablesStored, Attempted
<1>. QED
  BY <1>1, <1>2, <1>4, <1>5 DEF TablesGrow, Shown, Attempted

LEMMA FailureGrows ==
    ASSUME Parts, NEW c \in Chains, NEW i \in Nat, i < derived[c],
           FetchFails(c, i), UNCHANGED used
    PROVE  TablesGrow
<1>. USE DEF Parts, TableTypes, Indexes
<1>1. TableTypes'
  BY DEF FetchFails, Add
<1>2. /\ failed[c] \subseteq failed'[c] /\ failed'[c] \subseteq failed[c] \cup {i}
      /\ \A d \in Chains \ {c} : failed'[d] = failed[d]
  BY DEF FetchFails, Add
<1>3. \A d \in Chains : Shown(d) \subseteq Shown(d)' /\ Attempted(d) \subseteq Attempted(d)'
  BY <1>2 DEF Shown, Attempted, FetchFails
<1>4. TablesStored'
  BY <1>2 DEF TablesStored, Attempted, FetchFails
<1>. QED
  BY <1>1, <1>3, <1>4 DEF TablesGrow, FetchFails

-----------------------------------------------------------------------------
(* What growing tables keep *)

LEMMA FrontiersStaySound ==
    ASSUME Parts, TablesGrow, UNCHANGED frontier
    PROVE  FrontiersSound'
<1>. SUFFICES ASSUME NEW c \in Chains
              PROVE  Sound(derived'[c], Shown(c)', Attempted(c)',
                           frontier[c].next, frontier[c].unused)
  BY DEF FrontiersSound
<1>1. frontier[c].next \in Nat /\ frontier[c].unused \in Nat
  BY DEF Parts, LedgerTypes, Frontiers
<1>2. Sound(derived[c], Shown(c), Attempted(c), frontier[c].next, frontier[c].unused)
  BY DEF Parts, FrontiersSound
<1>3. derived[c] \in Nat /\ derived'[c] \in Nat
  BY DEF Parts, TablesGrow, TableTypes
<1>. QED
  BY <1>1, <1>2, <1>3, SoundGrows DEF TablesGrow

\* The position of the running scan.
LEMMA CursorStaysSound ==
    ASSUME Parts, TablesGrow, pc = "scan", NEW c \in Chains, c = chain
    PROVE  Sound(derived'[c], Shown(c)', Attempted(c)', next_index, unused)
<1>1. next_index \in Nat /\ unused \in Nat
  BY DEF Parts, CursorTypes
<1>2. Sound(derived[c], Shown(c), Attempted(c), next_index, unused)
  BY DEF Parts, CursorSound
<1>3. derived[c] \in Nat /\ derived'[c] \in Nat
  BY DEF Parts, TablesGrow, TableTypes
<1>. QED
  BY <1>1, <1>2, <1>3, SoundGrows DEF TablesGrow

LEMMA BoundStays ==
    ASSUME Parts, TablesGrow, UNCHANGED derived
    PROVE  DerivationBound'
<1>. SUFFICES ASSUME NEW c \in Chains, ~(derived[c] <= GapLimit)
              PROVE  \E i \in Shown(c)' : derived[c] <= i + 1 + GapLimit
  BY DEF DerivationBound
<1>1. PICK i \in Shown(c) : derived[c] <= i + 1 + GapLimit
  BY DEF Parts, DerivationBound
<1>. QED
  BY <1>1 DEF TablesGrow

-----------------------------------------------------------------------------
(* Where a chain's scan starts *)

LEMMA BeginScanSound ==
    ASSUME Parts, NEW c \in Chains, BeginScan(c)
    PROVE  /\ pc' = "scan" /\ chain' = c
           /\ phase' \in {"existing", "derived", "rescan"}
           /\ next_index' \in Nat /\ unused' \in Nat
           /\ rescan_from' \in Nat \cup {NoIndex}
           /\ Sound(derived[c], Shown(c), Attempted(c), next_index', unused')
<1>. DEFINE f == initial_frontier_state(c)
<1>1. /\ pc' = "scan" /\ chain' = c /\ phase' = f.phase /\ next_index' = f.next
      /\ unused' = f.unused /\ rescan_from' = f.from
  BY DEF BeginScan
<1>2. CASE frontier[c].phase # "none"
  <2>1. f = frontier[c]
    BY <1>2 DEF initial_frontier_state
  <2>2. frontier[c] \in Frontiers
    BY DEF Parts, LedgerTypes
  <2>3. Sound(derived[c], Shown(c), Attempted(c), frontier[c].next, frontier[c].unused)
    BY DEF Parts, FrontiersSound
  <2>. QED
    BY <1>1, <1>2, <2>1, <2>2, <2>3 DEF Frontiers
<1>3. CASE frontier[c].phase = "none"
  <2>. DEFINE U == {i \in 0 .. derived[c] : i \notin known[c]}
              n == IF LegacyRepair THEN 0 ELSE Min(U)
  <2>1. f = [phase |-> "existing", unused |-> 0, from |-> NoIndex, next |-> n]
    BY <1>3 DEF initial_frontier_state, next_unfinished_derivation_index
  <2>2. /\ derived[c] \in Nat /\ \A i \in known[c] : i < derived[c]
        /\ known[c] \subseteq Shown(c) /\ known[c] \subseteq Attempted(c)
        /\ known[c] \subseteq Nat
    BY KnownFacts
  <2>3. derived[c] \in U /\ U \subseteq Nat
    BY <2>2
  <2>4. Min(U) \in U /\ \A j \in U : Min(U) <= j
    BY <2>3, MinNat
  <2>5. n \in Nat /\ n <= derived[c]
    BY <2>2, <2>4
  <2>6. ASSUME NEW i \in 0 .. n - 1 PROVE i \in known[c]
    <3>1. n = Min(U) /\ i \in Nat /\ i < n
      BY <2>5
    <3>2. i \notin U
      BY <3>1, <2>4, <2>5
    <3>. QED
      BY <3>1, <3>2, <2>2, <2>5
  <2>7. n <= 0 \/ \E i \in Shown(c) : n <= i + 1 + 0
    <3>1. CASE n = 0
      BY <3>1
    <3>2. CASE n # 0
      <4>1. n - 1 \in 0 .. n - 1 /\ n <= (n - 1) + 1 + 0
        BY <3>2, <2>5
      <4>. QED
        BY <4>1, <2>6, <2>2
    <3>. QED
      BY <3>1, <3>2
  <2>8. Sound(derived[c], Shown(c), Attempted(c), n, 0)
    BY <2>5, <2>6, <2>7, <2>2 DEF Sound
  <2>9. next_index' = n /\ unused' = 0 /\ phase' = "existing" /\ rescan_from' = NoIndex
    BY <1>1, <2>1
  <2>. QED
    BY <1>1, <2>5, <2>8, <2>9
<1>. QED
  BY <1>2, <1>3

\* A started scan is sound in the tables of the next state too.
LEMMA BeginScanCursor ==
    ASSUME Parts, TablesGrow, NEW c \in Chains, BeginScan(c)
    PROVE  /\ pc' = "scan" /\ CursorSound'
           /\ chain' \in Chains /\ phase' \in {"existing", "derived", "rescan"}
           /\ next_index' \in Nat /\ unused' \in Nat
           /\ rescan_from' \in Nat \cup {NoIndex}
<1>1. /\ pc' = "scan" /\ chain' = c
      /\ phase' \in {"existing", "derived", "rescan"}
      /\ next_index' \in Nat /\ unused' \in Nat
      /\ rescan_from' \in Nat \cup {NoIndex}
      /\ Sound(derived[c], Shown(c), Attempted(c), next_index', unused')
  BY BeginScanSound
<1>2. derived[c] \in Nat /\ derived'[c] \in Nat
  BY DEF Parts, TablesGrow, TableTypes
<1>3. Sound(derived'[c], Shown(c)', Attempted(c)', next_index', unused')
  BY <1>1, <1>2, SoundGrows DEF TablesGrow
<1>4. CursorSound'
  BY <1>1, <1>3 DEF CursorSound, Shown, Attempted
<1>. QED
  BY <1>1, <1>4

-----------------------------------------------------------------------------
(* The initial states, and the steps outside a chain's scan *)

LEMMA InitParts == Init => Parts
<1>. SUFFICES ASSUME Init PROVE Parts
  OBVIOUS
<1>1. TableTypes /\ LedgerTypes /\ CursorTypes
  BY ScanAssumption DEF Init, TableTypes, LedgerTypes, CursorTypes, Indexes, Nowhere,
     NoFrontier, Frontiers, NoIndex, Chains
<1>2. SetupTypes
  BY ScanAssumption DEF Init, SetupTypes
<1>3. TablesStored /\ KnownShown /\ DerivationBound
  BY ScanAssumption DEF Init, TablesStored, KnownShown, DerivationBound, Attempted, Shown, Nowhere
<1>4. FrontiersSound
  BY ScanAssumption DEF Init, FrontiersSound, Sound, NoFrontier, Nowhere, Attempted, Shown
<1>5. pc = "idle"
  BY DEF Init
<1>. QED
  BY <1>1, <1>2, <1>3, <1>4, <1>5 DEF Parts

LEMMA RunOverParts ==
    ASSUME Parts, RunOver, limited' \in BOOLEAN, failures' \in Nat, losses' \in Nat
    PROVE  SetupTypes' /\ CursorTypes' /\ KnownShown' /\ pc' = "idle"
<1>1. SetupTypes'
  BY DEF Parts, SetupTypes, RunOver
<1>2. CursorTypes' /\ KnownShown'
  BY DEF Parts, CursorTypes, KnownShown, RunOver, Nowhere, Indexes, NoFrontier, Frontiers, Chains
<1>. QED
  BY <1>1, <1>2 DEF RunOver

LEMMA SetupStays ==
    ASSUME Parts, UNCHANGED <<limited, pc, setup, interrupted, bounds>>
    PROVE  SetupTypes'
BY DEF Parts, SetupTypes, setup, bounds

\* Known activity that did not change is still shown.
LEMMA KnownStays ==
    ASSUME Parts, TablesGrow, UNCHANGED known
    PROVE  KnownShown'
BY DEF Parts, KnownShown, TablesGrow

\* A step that only changes the tables, if anything.
LEMMA TablesOnly ==
    ASSUME Parts, TablesGrow, UNCHANGED <<ledger, pc, memory, cursor, result>>,
           SetupTypes', DerivationBound'
    PROVE  Parts'
<1>1. LedgerTypes' /\ CursorTypes'
  BY DEF Parts, LedgerTypes, CursorTypes, ledger, memory, cursor, result
<1>2. KnownShown'
  BY KnownStays DEF memory
<1>3. FrontiersSound'
  BY FrontiersStaySound DEF ledger
<1>4. ASSUME pc = "scan" PROVE CursorSound'
  <2>1. PICK c \in Chains : c = chain
    BY DEF Parts, CursorTypes
  <2>2. Sound(derived'[c], Shown(c)', Attempted(c)', next_index, unused)
    BY <1>4, <2>1, CursorStaysSound
  <2>. QED
    BY <2>1, <2>2 DEF CursorSound, cursor, Shown, Attempted
<1>5. ASSUME pc = "persist" PROVE OutcomeSound'
  <2>1. PICK c \in Chains : c = chain
    BY DEF Parts, CursorTypes
  <2>2. outcome.next \in Nat /\ outcome.unused \in Nat
    BY DEF Parts, CursorTypes, Frontiers
  <2>3. Sound(derived[c], Shown(c), Attempted(c), outcome.next, outcome.unused)
    BY <1>5, <2>1 DEF Parts, OutcomeSound
  <2>4. derived[c] \in Nat /\ derived'[c] \in Nat
    BY DEF Parts, TablesGrow, TableTypes
  <2>5. Sound(derived'[c], Shown(c)', Attempted(c)', outcome.next, outcome.unused)
    BY <2>2, <2>3, <2>4, SoundGrows DEF TablesGrow
  <2>. QED
    BY <2>1, <2>5 DEF OutcomeSound, cursor, result, Shown, Attempted
<1>. QED
  BY <1>1, <1>2, <1>3, <1>4, <1>5 DEF Parts, TablesGrow

LEMMA ReceiveKeeps ==
    ASSUME Parts, NEW c \in Chains, NEW i \in Nat, Receive(c, i)
    PROVE  Parts'
<1>1. used' \in Indexes
  BY DEF Receive, Parts, TableTypes, Indexes, Add
<1>2. TablesGrow
  BY <1>1 DEF Receive, tables, Parts, TablesGrow, TableTypes, TablesStored, Shown, Attempted
<1>3. DerivationBound'
  BY <1>2, BoundStays DEF Receive, tables
<1>4. SetupTypes'
  BY SetupStays DEF Receive, result
<1>. QED
  BY <1>2, <1>3, <1>4, TablesOnly DEF Receive

LEMMA RowsFromOtherPageKeeps ==
    ASSUME Parts, NEW c \in Chains, NEW i \in used[c], RowsFromOtherPage(c, i)
    PROVE  Parts'
<1>1. i \in Nat /\ i < derived[c]
  BY DEF RowsFromOtherPage, Parts, TableTypes, Indexes
<1>2. rows' = [rows EXCEPT ![c] = @ \cup {i}] /\ rows' \in Indexes
  BY <1>1 DEF RowsFromOtherPage, Parts, TableTypes, Indexes, Add
<1>3. /\ UNCHANGED <<used, derived, fetched, observed, failed>>
      /\ \A d \in Chains : rows[d] \subseteq rows'[d]
      /\ \A d \in Chains : \A j \in rows'[d] : j \in rows[d] \/ (d = c /\ j = i)
  BY <1>2 DEF RowsFromOtherPage, Parts, TableTypes, Indexes
<1>4. TableTypes' /\ TablesStored'
  BY <1>1, <1>2, <1>3 DEF Parts, TableTypes, TablesStored, Attempted
<1>5. TablesGrow
  BY <1>3, <1>4 DEF Parts, TableTypes, TablesGrow, Shown, Attempted
<1>6. DerivationBound'
  BY <1>3, <1>5, BoundStays
<1>7. SetupTypes'
  BY SetupStays DEF RowsFromOtherPage, result
<1>. QED
  BY <1>5, <1>6, <1>7, TablesOnly DEF RowsFromOtherPage

LEMMA LimitEndsKeeps ==
    ASSUME Parts, LimitEnds
    PROVE  Parts'
<1>1. TablesGrow
  BY SameTablesGrow DEF LimitEnds, chainVars
<1>2. DerivationBound'
  BY <1>1, BoundStays DEF LimitEnds, tables
<1>3. SetupTypes'
  BY DEF LimitEnds, Parts, SetupTypes, setup, bounds, result
<1>. QED
  BY <1>1, <1>2, <1>3, TablesOnly DEF LimitEnds

LEMMA StartRunKeeps ==
    ASSUME Parts, NEW s \in Sources, NEW p \in Policies, StartRun(s, p)
    PROVE  Parts'
<1>1. TablesGrow
  BY SameTablesGrow DEF StartRun, chainVars
<1>2. DerivationBound' /\ FrontiersSound'
  BY <1>1, BoundStays, FrontiersStaySound DEF StartRun, tables, ledger
<1>3. SetupTypes'
  <2>1. tip_cached' \in BOOLEAN
    BY Zenon DEF StartRun
  <2>. QED
    BY <2>1 DEF StartRun, Parts, SetupTypes, setup, bounds, result
<1>4. LedgerTypes' /\ CursorTypes'
  BY DEF StartRun, Parts, LedgerTypes, CursorTypes, TableTypes, ledger, cursor, result
<1>5. KnownShown'
  BY DEF StartRun, Parts, KnownShown, Shown, tables
<1>. QED
  BY <1>1, <1>2, <1>3, <1>4, <1>5 DEF Parts, TablesGrow, StartRun

-----------------------------------------------------------------------------
(* The history round and the end of a run *)

\* A step that starts a chain's scan.
LEMMA BeginScanKeeps ==
    ASSUME Parts, TablesGrow, NEW c \in Chains, BeginScan(c),
           UNCHANGED <<ledger, known, outcome, derived>>, completed' \in Indexes, SetupTypes'
    PROVE  Parts'
<1>1. /\ pc' = "scan" /\ CursorSound'
      /\ chain' \in Chains /\ phase' \in {"existing", "derived", "rescan"}
      /\ next_index' \in Nat /\ unused' \in Nat
      /\ rescan_from' \in Nat \cup {NoIndex}
  BY BeginScanCursor
<1>2. LedgerTypes' /\ CursorTypes'
  BY <1>1 DEF Parts, LedgerTypes, CursorTypes, ledger
<1>3. KnownShown' /\ FrontiersSound' /\ DerivationBound'
  BY KnownStays, FrontiersStaySound, BoundStays DEF ledger
<1>. QED
  BY <1>1, <1>2, <1>3 DEF Parts, TablesGrow

LEMMA RoundAddressStored ==
    ASSUME Parts, NEW c \in Chains, NEW i \in RoundAddresses(c)
    PROVE  i \in Nat /\ i < derived[c]
BY KnownFacts DEF RoundAddresses, Shown

LEMMA RoundFetchKeeps ==
    ASSUME Parts, NEW c \in Chains, NEW i \in RoundAddresses(c), RoundFetch(c, i)
    PROVE  Parts'
<1>1. i \in Nat /\ i < derived[c]
  BY RoundAddressStored
<1>2. TablesGrow
  BY <1>1, FetchGrows DEF RoundFetch, chainVars
<1>3. completed' \in Indexes
  BY <1>1 DEF RoundFetch, Parts, CursorTypes, Indexes, Add
<1>4. UNCHANGED <<derived, limited, bounds, ledger, known, result>> /\ tip_cached' = TRUE
  BY DEF RoundFetch, FetchSucceeds
<1>5. CASE PagePermitted
  <2>1. UNCHANGED <<pc, cursor>>
    BY <1>5 DEF RoundFetch
  <2>2. SetupTypes'
    BY <1>4, <2>1 DEF RoundFetch, Parts, SetupTypes, bounds, result
  <2>3. LedgerTypes' /\ CursorTypes' /\ pc = "round" /\ pc' = "round"
    BY <1>3, <1>4, <2>1 DEF RoundFetch, RoundOpen, Parts, LedgerTypes, CursorTypes, ledger, cursor, result
  <2>4. KnownShown' /\ FrontiersSound' /\ DerivationBound'
    BY <1>2, <1>4, KnownStays, FrontiersStaySound, BoundStays DEF ledger
  <2>. QED
    BY <1>2, <2>2, <2>3, <2>4 DEF Parts, TablesGrow
<1>6. CASE ~PagePermitted
  <2>1. BeginScan(0)
    BY <1>6 DEF RoundFetch
  <2>2. SetupTypes'
    BY <1>4, <2>1 DEF RoundFetch, BeginScan, Parts, SetupTypes, bounds, result
  <2>. QED
    BY <1>2, <1>3, <1>4, <2>1, <2>2, BeginScanKeeps DEF Chains, result
<1>. QED
  BY <1>5, <1>6

LEMMA RoundSkipKeeps ==
    ASSUME Parts, NEW c \in Chains, NEW i \in RoundAddresses(c), RoundSkip(c, i)
    PROVE  Parts'
<1>1. TablesGrow
  BY SameTablesGrow DEF RoundSkip, chainVars
<1>2. SetupTypes'
  <2>1. tip_cached' = tip_cached \/ tip_cached' = TRUE
    BY DEF RoundSkip, Skips
  <2>. QED
    BY <2>1 DEF RoundSkip, BeginScan, Parts, SetupTypes, bounds, result
<1>3. completed' \in Indexes
  BY DEF RoundSkip, memory, Parts, CursorTypes
<1>. QED
  BY <1>1, <1>2, <1>3, BeginScanKeeps DEF RoundSkip, Chains, memory, result, tables

LEMMA RoundEndsKeeps ==
    ASSUME Parts, RoundEnds
    PROVE  Parts'
<1>1. TablesGrow
  BY SameTablesGrow DEF RoundEnds, chainVars
<1>2. SetupTypes'
  BY DEF RoundEnds, BeginScan, Parts, SetupTypes, setup, bounds, result
<1>3. completed' \in Indexes
  BY DEF RoundEnds, memory, Parts, CursorTypes
<1>. QED
  BY <1>1, <1>2, <1>3, BeginScanKeeps DEF RoundEnds, Chains, memory, result, tables

\* A step that drops the locals of the run.
LEMMA RunEndKeeps ==
    ASSUME Parts, TablesGrow, RunOver, UNCHANGED <<frontier, derived>>,
           published' \in [Chains -> Nat],
           limited' \in BOOLEAN, failures' \in Nat, losses' \in Nat
    PROVE  Parts'
<1>1. SetupTypes' /\ CursorTypes' /\ KnownShown' /\ pc' = "idle"
  BY RunOverParts
<1>2. LedgerTypes' /\ FrontiersSound' /\ DerivationBound'
  BY FrontiersStaySound, BoundStays DEF Parts, LedgerTypes
<1>. QED
  BY <1>1, <1>2 DEF Parts, TablesGrow

LEMMA RoundInterruptedKeeps ==
    ASSUME Parts, RoundInterrupted
    PROVE  Parts'
<1>1. RunOver /\ UNCHANGED <<used, frontier, published>> /\ published' \in [Chains -> Nat]
  BY DEF RoundInterrupted, chainVars, ledger, Parts, LedgerTypes
<1>2. CASE UNCHANGED <<tables, limited, bounds>>
  <2>1. limited' \in BOOLEAN /\ failures' \in Nat /\ losses' \in Nat
    BY <1>2 DEF Parts, SetupTypes, bounds
  <2>. QED
    BY <1>1, <1>2, <2>1, SameTablesGrow, RunEndKeeps DEF tables
<1>3. ASSUME NEW c \in Chains, NEW i \in RoundAddresses(c), FetchFails(c, i)
      PROVE  Parts'
  <2>1. TablesGrow
    BY <1>1, <1>3, RoundAddressStored, FailureGrows
  <2>2. limited' \in BOOLEAN /\ failures' \in Nat /\ losses' \in Nat /\ UNCHANGED derived
    BY <1>3 DEF FetchFails, Parts, SetupTypes
  <2>. QED
    BY <1>1, <2>1, <2>2, RunEndKeeps
<1>. QED
  BY <1>2, <1>3 DEF RoundInterrupted

LEMMA RunLostKeeps ==
    ASSUME Parts, RunLost
    PROVE  Parts'
<1>1. TablesGrow
  BY SameTablesGrow DEF RunLost, chainVars
<1>2. limited' \in BOOLEAN
  BY Zenon DEF RunLost, Parts, SetupTypes
<1>3. failures' \in Nat /\ losses' \in Nat /\ published' \in [Chains -> Nat]
  BY DEF RunLost, Parts, SetupTypes, LedgerTypes, ledger
<1>. QED
  BY <1>1, <1>2, <1>3, RunEndKeeps DEF RunLost, ledger, tables

LEMMA EndKeeps ==
    ASSUME Parts, Publish \/ EndWithoutCompletion
    PROVE  Parts'
<1>1. /\ RunOver /\ UNCHANGED <<used, tables, frontier, limited, bounds>>
      /\ published' = published \/ published' = derived
  BY DEF Publish, EndWithoutCompletion, chainVars, ledger
<1>2. TablesGrow
  BY <1>1, SameTablesGrow
<1>3. /\ limited' \in BOOLEAN /\ failures' \in Nat /\ losses' \in Nat
      /\ published' \in [Chains -> Nat]
  BY <1>1 DEF Parts, SetupTypes, LedgerTypes, TableTypes, bounds
<1>. QED
  BY <1>1, <1>2, <1>3, RunEndKeeps DEF tables

LEMMA PersistKeeps ==
    ASSUME Parts, Persist
    PROVE  Parts'
<1>1. TablesGrow
  BY SameTablesGrow DEF Persist, chainVars
<1>2. PICK c \in Chains : c = chain
  BY DEF Parts, CursorTypes
<1>3. outcome \in Frontiers /\ frontier \in [Chains -> Frontiers]
  BY DEF Parts, CursorTypes, LedgerTypes
<1>4. LedgerTypes'
  BY <1>2, <1>3 DEF Persist, LedgerTypes, Parts
<1>5. FrontiersSound'
  <2>. SUFFICES ASSUME NEW d \in Chains
                PROVE  Sound(derived'[d], Shown(d)', Attempted(d)',
                             frontier'[d].next, frontier'[d].unused)
    BY DEF FrontiersSound
  <2>1. UNCHANGED derived /\ Shown(d)' = Shown(d) /\ Attempted(d)' = Attempted(d)
    BY DEF Persist, tables, Shown, Attempted
  <2>2. CASE d = c
    <3>1. frontier'[d] = outcome
      BY <1>2, <1>3, <2>2 DEF Persist
    <3>2. Sound(derived[d], Shown(d), Attempted(d), outcome.next, outcome.unused)
      BY <1>2, <2>2 DEF Persist, Parts, OutcomeSound
    <3>. QED
      BY <2>1, <3>1, <3>2
  <2>3. CASE d # c
    <3>1. frontier'[d] = frontier[d]
      BY <1>2, <1>3, <2>3 DEF Persist
    <3>2. Sound(derived[d], Shown(d), Attempted(d), frontier[d].next, frontier[d].unused)
      BY DEF Parts, FrontiersSound
    <3>. QED
      BY <2>1, <3>1, <3>2
  <2>. QED
    BY <2>2, <2>3
<1>6. KnownShown' /\ DerivationBound'
  BY <1>1, KnownStays, BoundStays DEF Persist, memory, tables
<1>7. outcome' \in Frontiers
  BY DEF Persist, NoFrontier, Frontiers
<1>8. CASE chain = 0
  <2>1. BeginScan(1)
    BY <1>8 DEF Persist
  <2>2. /\ pc' = "scan" /\ CursorSound'
        /\ chain' \in Chains /\ phase' \in {"existing", "derived", "rescan"}
        /\ next_index' \in Nat /\ unused' \in Nat
        /\ rescan_from' \in Nat \cup {NoIndex}
    BY <1>1, <2>1, BeginScanCursor DEF Chains
  <2>3. CursorTypes'
    BY <1>7, <2>2 DEF Persist, memory, Parts, CursorTypes
  <2>4. SetupTypes'
    BY <2>2 DEF Persist, setup, bounds, Parts, SetupTypes
  <2>. QED
    BY <1>1, <1>4, <1>5, <1>6, <2>2, <2>3, <2>4 DEF Parts, TablesGrow
<1>9. CASE chain # 0
  <2>1. pc' = "finish" /\ UNCHANGED cursor
    BY <1>9 DEF Persist
  <2>2. CursorTypes'
    BY <1>7, <2>1 DEF Persist, memory, cursor, Parts, CursorTypes
  <2>3. SetupTypes'
    BY <2>1 DEF Persist, setup, bounds, Parts, SetupTypes
  <2>. QED
    BY <1>1, <1>4, <1>5, <1>6, <2>1, <2>2, <2>3 DEF Parts, TablesGrow
<1>. QED
  BY <1>8, <1>9

-----------------------------------------------------------------------------
(* The chain's scan *)

\* The address the scan turns to is stored; a rescan turns to known activity.
LEMMA TargetStored ==
    ASSUME Parts, NEW c \in Chains, c = chain, HasTarget
    PROVE  /\ Target \in Nat /\ Target < derived[c]
           /\ Walking => Target = next_index
           /\ ~Walking => Target \in known[c] /\ rescan_from \in Nat
<1>1. /\ derived[c] \in Nat /\ known[c] \subseteq Nat
      /\ \A i \in known[c] : i < derived[c]
  BY KnownFacts
<1>2. next_index \in Nat /\ rescan_from \in Nat \cup {NoIndex}
  BY DEF Parts, CursorTypes
<1>3. CASE Walking
  BY <1>1, <1>2, <1>3 DEF Walking, HasTarget, Target
<1>4. CASE ~Walking
  <2>1. RescanCandidates # {}
    BY <1>4 DEF HasTarget, Walking
  <2>2. rescan_from \in Nat /\ RescanCandidates \subseteq 0 .. rescan_from
    BY <1>1, <1>2, <2>1 DEF RescanCandidates, NoIndex
  <2>3. Max(RescanCandidates) \in RescanCandidates
    BY <2>1, <2>2, MaxNat
  <2>. QED
    BY <1>1, <1>4, <2>2, <2>3 DEF Target, RescanCandidates
<1>. QED
  BY <1>3, <1>4

\* Only an address with a result is passed without a fetch.
LEMMA SkippedWasAttempted ==
    ASSUME NEW c \in Chains, NEW i, Skips(c, i)
    PROVE  i \in Attempted(c)
BY DEF Skips, WithinWindow, BalanceFresh, FailureCooldown, SuccessCooldown, TipUnchanged,
       Succeeded, Attempted

\* The position after run_hd_address_step and the advance of its loop.
LEMMA AdvanceKeeps ==
    ASSUME Parts, TablesGrow, NEW c \in Chains, c = chain, NEW t, t = Target,
           pc = "scan", HasTarget, NEW active \in BOOLEAN, Advance(active),
           t \in Attempted(c)', active => t \in Shown(c)',
           UNCHANGED <<ledger, derived>>, SetupTypes'
    PROVE  Parts'
<1>1. /\ t \in Nat /\ t < derived[c]
      /\ Walking => t = next_index
      /\ ~Walking => t \in known[c] /\ rescan_from \in Nat
  BY TargetStored
<1>2. /\ known' = IF active THEN Add(known, c, t) ELSE known
      /\ completed' = Add(completed, c, t)
      /\ UNCHANGED <<pc, chain, phase, result>>
  BY DEF Advance
<1>3. known \in Indexes /\ completed \in Indexes /\ next_index \in Nat /\ unused \in Nat
  BY DEF Parts, CursorTypes
<1>4. /\ known' \in Indexes /\ completed' \in Indexes
      /\ \A d \in Chains : \A i \in known'[d] : i \in known[d] \/ (active /\ d = c /\ i = t)
  BY <1>1, <1>2, <1>3 DEF Indexes, Add
<1>5. KnownShown'
  BY <1>4 DEF Parts, KnownShown, TablesGrow
<1>6. CASE Walking
  <2>1. /\ next_index' = next_index + 1 /\ UNCHANGED rescan_from
        /\ unused' = IF t \in known'[c] THEN 0 ELSE unused + 1
    BY <1>1, <1>2, <1>6 DEF Advance
  <2>2. CursorTypes'
    BY <1>2, <1>3, <1>4, <2>1 DEF Parts, CursorTypes, result
  <2>3. Sound(derived'[c], Shown(c)', Attempted(c)', next_index, unused)
    BY CursorStaysSound
  <2>4. derived'[c] \in Nat /\ Shown(c)' \in SUBSET Nat /\ next_index < derived'[c]
    BY <1>1, <1>6 DEF TablesGrow, TableTypes, Indexes, Shown
  <2>5. unused' \in Nat /\ (unused' = unused + 1 \/ (t \in Shown(c)' /\ unused' = 0))
    BY <1>3, <1>5, <2>1 DEF KnownShown
  <2>6. Sound(derived'[c], Shown(c)', Attempted(c)', next_index + 1, unused')
    BY <1>1, <1>3, <1>6, <2>3, <2>4, <2>5, SoundAdvances
  <2>7. CursorSound'
    BY <1>2, <2>1, <2>6 DEF CursorSound, Shown, Attempted
  <2>. QED
    BY <1>2, <1>5, <2>2, <2>7, FrontiersStaySound, BoundStays
       DEF Parts, TablesGrow, LedgerTypes, ledger
<1>7. CASE ~Walking
  <2>1. rescan_from' = t - 1 /\ UNCHANGED <<next_index, unused>>
    BY <1>2, <1>7 DEF Advance
  <2>2. CursorTypes'
    BY <1>1, <1>2, <1>4, <2>1 DEF Parts, CursorTypes, result, NoIndex
  <2>3. Sound(derived'[c], Shown(c)', Attempted(c)', next_index, unused)
    BY CursorStaysSound
  <2>4. CursorSound'
    BY <1>2, <2>1, <2>3 DEF CursorSound, Shown, Attempted
  <2>. QED
    BY <1>2, <1>5, <2>2, <2>4, FrontiersStaySound, BoundStays
       DEF Parts, TablesGrow, LedgerTypes, ledger
<1>. QED
  BY <1>6, <1>7

\* The frontier handed over by an interrupted scan is its position.
LEMMA InterruptKeeps ==
    ASSUME Parts, TablesGrow, pc = "scan", Walking \/ HasTarget, Interrupt,
           UNCHANGED <<ledger, derived, source, policy>>,
           limited' \in BOOLEAN, tip_cached' \in BOOLEAN, processed' \in Nat,
           failures' \in Nat, losses' \in Nat
    PROVE  Parts'
<1>1. PICK c \in Chains : c = chain
  BY DEF Parts, CursorTypes
<1>2. /\ outcome' = [phase |-> phase, next |-> next_index, unused |-> unused,
                     from |-> IF Walking THEN NoIndex ELSE Target]
      /\ pc' = "persist" /\ UNCHANGED <<cursor, memory>>
  BY DEF Interrupt
<1>3. ~Walking => Target \in Nat
  BY <1>1, TargetStored
<1>4. outcome' \in Frontiers
  BY <1>2, <1>3 DEF Frontiers, Parts, CursorTypes
<1>5. CursorTypes'
  BY <1>2, <1>4 DEF Parts, CursorTypes, cursor, memory
<1>6. interrupted' \in [Chains -> BOOLEAN]
  BY Zenon DEF Interrupt, Parts, SetupTypes
<1>7. SetupTypes'
  BY <1>2, <1>6 DEF Parts, SetupTypes
<1>8. Sound(derived'[c], Shown(c)', Attempted(c)', next_index, unused)
  BY <1>1, CursorStaysSound
<1>9. OutcomeSound'
  BY <1>1, <1>2, <1>8 DEF OutcomeSound, cursor, Shown, Attempted
<1>. QED
  BY <1>2, <1>5, <1>7, <1>9, KnownStays, FrontiersStaySound, BoundStays
     DEF Parts, TablesGrow, LedgerTypes, ledger, memory

LEMMA VisitSkipsKeeps ==
    ASSUME Parts, VisitSkips
    PROVE  Parts'
<1>1. PICK c \in Chains : c = chain
  BY DEF Parts, CursorTypes
<1>2. PICK t \in Nat : t = Target
  BY <1>1, TargetStored DEF VisitSkips, Visiting
<1>3. TablesGrow
  BY SameTablesGrow DEF VisitSkips, chainVars
<1>4. t \in Attempted(c)'
  <2>1. t \in Attempted(c)
    BY <1>1, <1>2, SkippedWasAttempted DEF VisitSkips
  <2>. QED
    BY <2>1, <1>3 DEF TablesGrow
<1>5. tip_cached' = tip_cached \/ tip_cached' = TRUE
  BY DEF VisitSkips, Skips
<1>6. SetupTypes'
  BY <1>5 DEF VisitSkips, Advance, result, bounds, Parts, SetupTypes
<1>7. Advance(FALSE) /\ pc = "scan" /\ HasTarget /\ UNCHANGED <<ledger, derived>>
  BY DEF VisitSkips, Visiting, tables
<1>. QED
  BY <1>1, <1>2, <1>3, <1>4, <1>6, <1>7, AdvanceKeeps

LEMMA VisitSucceedsKeeps ==
    ASSUME Parts, VisitSucceeds
    PROVE  Parts'
<1>1. PICK c \in Chains : c = chain
  BY DEF Parts, CursorTypes
<1>2. HasTarget /\ pc = "scan"
  BY DEF VisitSucceeds, Visiting
<1>3. PICK t \in Nat : t = Target /\ t < derived[c]
  BY <1>1, <1>2, TargetStored
<1>4. FetchSucceeds(c, t) /\ UNCHANGED used
  BY <1>1, <1>3 DEF VisitSucceeds, chainVars
<1>5. TablesGrow /\ t \in Attempted(c)' /\ (t \in used[c] => t \in Shown(c)')
  BY <1>3, <1>4, FetchGrows
<1>6. UNCHANGED <<ledger, derived, limited, bounds, source, policy>> /\ tip_cached' = TRUE
  BY DEF VisitSucceeds, FetchSucceeds
<1>7. UNCHANGED <<pc, interrupted>> /\ processed' \in Nat
  BY DEF VisitSucceeds, Advance, result, Parts, SetupTypes
<1>8. SetupTypes'
  BY <1>6, <1>7 DEF bounds, Parts, SetupTypes
<1>9. CASE t \in used[c]
  <2>1. Advance(TRUE)
    BY <1>1, <1>3, <1>9 DEF VisitSucceeds, Advance
  <2>. QED
    BY <1>1, <1>2, <1>3, <1>5, <1>6, <1>8, <1>9, <2>1, AdvanceKeeps
<1>10. CASE t \notin used[c]
  <2>1. Advance(FALSE)
    BY <1>1, <1>3, <1>10 DEF VisitSucceeds, Advance
  <2>. QED
    BY <1>1, <1>2, <1>3, <1>5, <1>6, <1>8, <2>1, AdvanceKeeps
<1>. QED
  BY <1>9, <1>10

LEMMA VisitFailsKeeps ==
    ASSUME Parts, VisitFails
    PROVE  Parts'
<1>1. PICK c \in Chains : c = chain
  BY DEF Parts, CursorTypes
<1>2. HasTarget /\ pc = "scan" /\ Interrupt /\ UNCHANGED <<ledger, source, policy>>
  BY DEF VisitFails, Visiting
<1>3. PICK t \in Nat : t = Target /\ t < derived[c]
  BY <1>1, <1>2, TargetStored
<1>4. FetchFails(c, t) /\ UNCHANGED used
  BY <1>1, <1>3 DEF VisitFails, chainVars
<1>5. TablesGrow
  BY <1>3, <1>4, FailureGrows
<1>6. limited' \in BOOLEAN /\ tip_cached' \in BOOLEAN
  BY <1>4, Zenon DEF VisitFails, FetchFails, Parts, SetupTypes
<1>7. processed' \in Nat /\ failures' \in Nat /\ losses' \in Nat /\ UNCHANGED derived
  BY <1>4 DEF VisitFails, FetchFails, Parts, SetupTypes
<1>. QED
  BY <1>2, <1>5, <1>6, <1>7, InterruptKeeps

\* A rate limit or an exhausted budget touches no table.
LEMMA InterruptedUnchangedKeeps ==
    ASSUME Parts, VisitRateLimited \/ BudgetSpent
    PROVE  Parts'
<1>1. /\ pc = "scan" /\ Interrupt
      /\ Walking \/ HasTarget
      /\ UNCHANGED <<chainVars, tables, ledger, limited, setup, bounds>>
  BY DEF VisitRateLimited, BudgetSpent, Visiting, NeedsAddresses, Walking
<1>2. TablesGrow
  BY <1>1, SameTablesGrow DEF chainVars
<1>3. limited' \in BOOLEAN /\ tip_cached' \in BOOLEAN
  BY <1>1 DEF setup, Parts, SetupTypes
<1>4. /\ processed' \in Nat /\ failures' \in Nat /\ losses' \in Nat
      /\ UNCHANGED <<ledger, derived, source, policy>>
  BY <1>1 DEF setup, bounds, tables, Parts, SetupTypes
<1>. QED
  BY <1>1, <1>2, <1>3, <1>4, InterruptKeeps

\* A step that only moves the position within the scan.
LEMMA MoveKeeps ==
    ASSUME Parts, pc = "scan", NEW c \in Chains, c = chain,
           UNCHANGED <<chainVars, tables, ledger, limited, pc, setup, memory, chain,
                       result, bounds>>,
           phase' \in {"existing", "derived", "rescan"},
           next_index' \in Nat, unused' \in Nat, rescan_from' \in Nat \cup {NoIndex},
           Sound(derived[c], Shown(c), Attempted(c), next_index', unused')
    PROVE  Parts'
<1>1. TablesGrow
  BY SameTablesGrow DEF chainVars
<1>2. CursorTypes'
  BY DEF Parts, CursorTypes, memory, result
<1>3. SetupTypes'
  BY SetupStays DEF result
<1>4. CursorSound'
  BY DEF CursorSound, Shown, Attempted, tables
<1>. QED
  BY <1>1, <1>2, <1>3, <1>4, KnownStays, FrontiersStaySound, BoundStays
     DEF Parts, TablesGrow, LedgerTypes, ledger, memory, tables

LEMMA PassCompletedKeeps ==
    ASSUME Parts, PassCompleted
    PROVE  Parts'
<1>1. PICK c \in Chains : c = chain
  BY DEF Parts, CursorTypes
<1>2. /\ pc = "scan" /\ HasTarget /\ Walking /\ Target \in known[c]
      /\ next_index' = Target + 1 /\ unused' = 0 /\ UNCHANGED <<phase, rescan_from>>
  BY <1>1 DEF PassCompleted, AlreadyCompleted, Walking
<1>3. Target = next_index /\ next_index < derived[c]
  BY <1>1, <1>2, TargetStored
<1>4. /\ derived[c] \in Nat /\ Shown(c) \in SUBSET Nat
      /\ next_index \in Attempted(c) /\ next_index \in Shown(c)
  BY <1>2, <1>3, KnownFacts
<1>5. /\ next_index \in Nat /\ unused \in Nat /\ rescan_from \in Nat \cup {NoIndex}
      /\ phase \in {"existing", "derived", "rescan"}
      /\ Sound(derived[c], Shown(c), Attempted(c), next_index, unused)
  BY <1>1, <1>2 DEF Parts, CursorTypes, CursorSound
<1>6. Sound(derived[c], Shown(c), Attempted(c), next_index + 1, 0)
  BY <1>3, <1>4, <1>5, SoundAdvances
<1>7. /\ next_index' \in Nat /\ unused' \in Nat
      /\ Sound(derived[c], Shown(c), Attempted(c), next_index', unused')
  BY <1>2, <1>3, <1>5, <1>6
<1>8. UNCHANGED <<chainVars, tables, ledger, limited, pc, setup, memory, chain, result, bounds>>
  BY DEF PassCompleted
<1>. QED
  BY <1>1, <1>2, <1>5, <1>7, <1>8, MoveKeeps

LEMMA ExistingDoneKeeps ==
    ASSUME Parts, ExistingDone
    PROVE  Parts'
<1>1. PICK c \in Chains : c = chain
  BY DEF Parts, CursorTypes
<1>2. /\ next_index \in Nat /\ unused \in Nat /\ rescan_from \in Nat \cup {NoIndex}
      /\ derived[c] \in Nat /\ pc = "scan"
      /\ Sound(derived[c], Shown(c), Attempted(c), next_index, unused)
  BY <1>1 DEF ExistingDone, Parts, TableTypes, CursorTypes, CursorSound
<1>3. ~(next_index < derived[c])
  BY <1>1 DEF ExistingDone, HasTarget
<1>4. next_index = derived[c]
  BY <1>2, <1>3 DEF Sound
<1>5. next_index' = next_index /\ phase' = "derived" /\ UNCHANGED <<unused, rescan_from>>
  BY <1>1, <1>4 DEF ExistingDone
<1>6. UNCHANGED <<chainVars, tables, ledger, limited, pc, setup, memory, chain, result, bounds>>
  BY DEF ExistingDone
<1>. QED
  BY <1>1, <1>2, <1>5, <1>6, MoveKeeps

LEMMA GapReachedKeeps ==
    ASSUME Parts, GapReached
    PROVE  Parts'
<1>1. PICK c \in Chains : c = chain
  BY DEF Parts, CursorTypes
<1>2. /\ next_index \in Nat /\ unused \in Nat /\ pc = "scan"
      /\ Sound(derived[c], Shown(c), Attempted(c), next_index, unused)
  BY <1>1 DEF GapReached, Parts, CursorTypes, CursorSound
<1>3. /\ derived[c] \in Nat /\ known[c] \subseteq 0 .. derived[c]
  BY KnownFacts
<1>4. known[c] # {} => Max(known[c]) \in Nat
  BY <1>3, MaxNat
<1>5. TopIndex(known[c]) \in Nat \cup {NoIndex}
  BY <1>4 DEF TopIndex
<1>6. phase' = "rescan" /\ rescan_from' = TopIndex(known[c]) /\ UNCHANGED <<next_index, unused>>
  BY <1>1 DEF GapReached
<1>7. UNCHANGED <<chainVars, tables, ledger, limited, pc, setup, memory, chain, result, bounds>>
  BY DEF GapReached
<1>. QED
  BY <1>1, <1>2, <1>5, <1>6, <1>7, MoveKeeps

\* The batch that is derived closes the gap behind the position, no more.
LEMMA DeriveKeeps ==
    ASSUME Parts, Derive
    PROVE  Parts'
<1>. DEFINE N == Min({GapLimit - unused, Budget - processed})
<1>1. PICK c \in Chains : c = chain
  BY DEF Parts, CursorTypes
<1>2. /\ next_index \in Nat /\ unused \in Nat /\ processed \in Nat
      /\ derived \in [Chains -> Nat]
      /\ Sound(derived[c], Shown(c), Attempted(c), next_index, unused)
  BY <1>1 DEF Derive, Parts, TableTypes, SetupTypes, CursorTypes, CursorSound
<1>3. unused < GapLimit /\ processed < Budget /\ next_index >= derived[c]
  BY <1>1 DEF Derive, NeedsAddresses
<1>4. N \in Nat /\ N <= GapLimit - unused
  <2>1. {GapLimit - unused, Budget - processed} \subseteq Nat
    BY <1>2, <1>3, ScanAssumption
  <2>. QED
    BY <2>1, MinNat
<1>5. derived' = [derived EXCEPT ![c] = @ + N]
  BY <1>1 DEF Derive, to_derive
<1>6. /\ \A d \in Chains : Shown(d)' = Shown(d) /\ Attempted(d)' = Attempted(d)
      /\ UNCHANGED <<used, rows, fetched, observed, failed>>
  BY DEF Derive, chainVars, Shown, Attempted
<1>7. \A d \in Chains : derived[d] \in Nat /\ derived'[d] \in Nat /\ derived[d] <= derived'[d]
  BY <1>2, <1>4, <1>5
<1>8. derived' \in [Chains -> Nat]
  BY <1>2, <1>4, <1>5
<1>9. TableTypes'
  BY <1>6, <1>8 DEF Parts, TableTypes
<1>10. TablesStored'
  <2>. SUFFICES ASSUME NEW d \in Chains
                PROVE  /\ \A i \in Attempted(d) : i < derived'[d]
                       /\ observed[d] \subseteq fetched[d]
    BY <1>6 DEF TablesStored
  <2>. QED
    BY <1>7, KnownFacts DEF Parts, TablesStored
<1>11. TablesGrow
  BY <1>6, <1>7, <1>9, <1>10 DEF TablesGrow
<1>12. DerivationBound'
  <2>. SUFFICES ASSUME NEW d \in Chains, ~(derived'[d] <= GapLimit)
                PROVE  \E i \in Shown(d) : derived'[d] <= i + 1 + GapLimit
    BY <1>6 DEF DerivationBound
  <2>1. CASE d # c
    <3>1. derived'[d] = derived[d]
      BY <1>2, <1>5, <2>1
    <3>. QED
      BY <3>1 DEF Parts, DerivationBound
  <2>2. CASE d = c
    <3>1. derived'[d] <= next_index + GapLimit - unused
      BY <1>2, <1>3, <1>4, <1>5, <2>2, ScanAssumption
    <3>2. ~(next_index <= unused)
      BY <1>2, <1>7, <3>1, ScanAssumption
    <3>3. PICK i \in Shown(c) : next_index <= i + 1 + unused
      BY <1>2, <3>2 DEF Sound
    <3>4. i \in Nat
      BY KnownFacts
    <3>5. derived'[d] <= i + 1 + GapLimit
      BY <1>2, <1>7, <3>1, <3>3, <3>4, ScanAssumption
    <3>. QED
      BY <2>2, <3>3, <3>5
  <2>. QED
    BY <2>1, <2>2
<1>13. SetupTypes'
  BY SetupStays DEF Derive, result
<1>. QED
  BY <1>11, <1>12, <1>13, TablesOnly DEF Derive

LEMMA ChainCompleteKeeps ==
    ASSUME Parts, ChainComplete
    PROVE  Parts'
<1>1. PICK c \in Chains : c = chain
  BY DEF Parts, CursorTypes
<1>2. TablesGrow
  BY SameTablesGrow DEF ChainComplete, chainVars
<1>3. outcome' = NoFrontier /\ pc' = "persist" /\ UNCHANGED <<cursor, memory, tables>>
  BY DEF ChainComplete
<1>4. CursorTypes'
  BY <1>3 DEF Parts, CursorTypes, cursor, memory, NoFrontier, Frontiers
<1>5. SetupTypes'
  BY DEF ChainComplete, setup, bounds, Parts, SetupTypes
<1>6. OutcomeSound'
  <2>1. outcome'.next = 0 /\ outcome'.unused = 0 /\ derived'[chain'] \in Nat
    BY <1>3 DEF NoFrontier, cursor, tables, Parts, TableTypes, CursorTypes
  <2>. QED
    BY <2>1 DEF OutcomeSound, Sound
<1>. QED
  BY <1>2, <1>3, <1>4, <1>5, <1>6, KnownStays, FrontiersStaySound, BoundStays
     DEF ChainComplete, Parts, TablesGrow, LedgerTypes, ledger, memory, tables

-----------------------------------------------------------------------------
(* The invariant *)

LEMMA StutterKeeps ==
    ASSUME Parts, UNCHANGED vars
    PROVE  Parts'
<1>1. TablesGrow
  BY SameTablesGrow DEF vars, chainVars
<1>2. DerivationBound'
  BY <1>1, BoundStays DEF vars, tables
<1>3. SetupTypes'
  BY SetupStays DEF vars, result
<1>. QED
  BY <1>1, <1>2, <1>3, TablesOnly DEF vars

LEMMA StepParts == Parts /\ [Next]_vars => Parts'
<1>. SUFFICES ASSUME Parts, [Next]_vars PROVE Parts'
  OBVIOUS
<1>1. CASE Starting
  BY <1>1, StartRunKeeps DEF Starting
<1>2. CASE RoundStep
  <2>1. CASE \E c \in Chains : \E i \in RoundAddresses(c) : RoundFetch(c, i) \/ RoundSkip(c, i)
    BY <2>1, RoundFetchKeeps, RoundSkipKeeps
  <2>. QED
    BY <1>2, <2>1, RoundEndsKeeps, RoundInterruptedKeeps DEF RoundStep
<1>3. CASE ScanStep
  BY <1>3, PassCompletedKeeps, VisitSkipsKeeps, VisitSucceedsKeeps, VisitFailsKeeps,
     InterruptedUnchangedKeeps, ExistingDoneKeeps, DeriveKeeps, GapReachedKeeps,
     ChainCompleteKeeps DEF ScanStep
<1>4. CASE BundleStep
  BY <1>4, PersistKeeps, EndKeeps DEF BundleStep
<1>5. CASE RunLost
  BY <1>5, RunLostKeeps
<1>6. CASE Passing
  <2>1. ASSUME NEW c \in Chains, NEW i \in 0 .. Depth[c], Receive(c, i) PROVE Parts'
    <3>1. i \in Nat
      BY ScanAssumption
    <3>. QED
      BY <2>1, <3>1, ReceiveKeeps
  <2>2. ASSUME NEW c \in Chains, NEW i \in used[c], RowsFromOtherPage(c, i) PROVE Parts'
    BY <2>2, RowsFromOtherPageKeeps
  <2>3. CASE LimitEnds
    BY <2>3, LimitEndsKeeps
  <2>. QED
    BY <1>6, <2>1, <2>2, <2>3 DEF Passing
<1>7. CASE UNCHANGED vars
  BY <1>7, StutterKeeps
<1>. QED
  BY <1>1, <1>2, <1>3, <1>4, <1>5, <1>6, <1>7 DEF Next

\* Every reachable state of the scanner, its tables and its persisted
\* frontiers satisfies the inductive invariant, whatever is interrupted,
\* rate-limited or lost.
THEOREM ScanInductive == Spec => []IndInv
BY InitParts, StepParts, InvParts, PTL DEF Spec

\* The run, the tables and the frontiers stay within their types: the rescan
\* position never falls below the slot before index 0.
THEOREM ScanTypeCorrect == Spec => []TypeOK
<1>1. IndInv => TypeOK
  BY DEF IndInv
<1>. QED
  BY <1>1, ScanInductive, PTL

\* run_hd_chain_scan derives at most one gap beyond the last activity shown,
\* for every gap limit, budget and history of interruptions.
THEOREM DerivationIsBounded == Spec => []DerivationBound
<1>1. IndInv => DerivationBound
  BY DEF IndInv
<1>. QED
  BY <1>1, ScanInductive, PTL

\* Resuming from hd_account_chain_sync_state, or starting from the first index
\* without known activity, passes over no address that was never attempted.
THEOREM ResumePassesNothingOver == Spec => []NothingPassedOver
<1>1. IndInv => NothingPassedOver
  BY DEF IndInv, PositionsSound, SoundPosition, NothingPassedOver
<1>. QED
  BY <1>1, ScanInductive, PTL
=============================================================================
