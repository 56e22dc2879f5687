----------------------- MODULE EtherscanHistoryProofs -----------------------
(***************************************************************************)
(* Proofs about EtherscanHistory, for any chain, page size, number of      *)
(* iterations and faults, with one runner or both.  What a committed tip   *)
(* or a pending range lets the next run skip is stored, provided that the  *)
(* provider's index trails its tip by at most the two blocks that a new    *)
(* range fetches again.                                                    *)
(***************************************************************************)
EXTENDS EtherscanHistory, NewestFirst

-----------------------------------------------------------------------------
\* Pages

Triples == Streams \X Blocks \X (1 .. PerBlock)

\* What the provider lists of a stream in a range.
Listed(stream, start, end) ==
    {i \in chain : i[1] = stream /\ i[2] \in start .. end /\ i[2] <= indexed}

NewerPairs == {p \in chain \X chain : Newer(p[1], p[2])}

LEMMA TripleParts ==
  ASSUME NEW i \in Triples
  PROVE  i[1] \in Streams /\ i[2] \in Blocks /\ i[2] \in Nat /\ i[2] <= MaxHeight
         /\ i[3] \in Nat /\ i = <<i[1], i[2], i[3]>>
BY BoundsAssumption DEF Triples, Blocks

LEMMA ChainFinite ==
  ASSUME chain \subseteq Triples
  PROVE  IsFiniteSet(chain)
<1> DEFINE pairs == (Streams \X Blocks) \X (1 .. PerBlock)
           nest == [i \in chain |-> <<<<i[1], i[2]>>, i[3]>>]
<1>1. IsFiniteSet(Streams) /\ IsFiniteSet(Blocks) /\ IsFiniteSet(1 .. PerBlock)
  <2>1. IsFiniteSet({"normal"}) /\ IsFiniteSet({"normal"} \cup {"internal"})
    BY FS_Singleton, FS_AddElement
  <2>2. Streams = {"normal"} \cup {"internal"}
    BY DEF Streams
  <2>3. MaxHeight \in Int /\ PerBlock \in Int
    BY BoundsAssumption
  <2>4. IsFiniteSet(Blocks) /\ IsFiniteSet(1 .. PerBlock)
    BY <2>3, FS_Interval DEF Blocks
  <2> QED BY <2>1, <2>2, <2>4
<1>2. IsFiniteSet(Streams \X Blocks) /\ IsFiniteSet(pairs)
  BY <1>1, FS_Product, Zenon
<1>3. nest \in [chain -> pairs]
  BY DEF Triples
<1>4. \A i, j \in chain : nest[i] = nest[j] => i = j
  BY TripleParts
<1>5. nest \in Injection(chain, pairs)
  BY <1>3, <1>4 DEF Injection, IsInjective
<1> QED BY <1>2, <1>5, FS_Injection, Zenon

LEMMA PageIsFirst ==
  ASSUME chain \subseteq Triples, NEW stream, NEW start, NEW end
  PROVE  Page(stream, start, end) = FirstOf(Listed(stream, start, end), NewerPairs, PageSize)
<1> DEFINE L == Listed(stream, start, end)
<1>1. \A i \in L : {j \in L : Newer(j, i)} = {j \in L : <<j, i>> \in NewerPairs}
  BY DEF Listed, NewerPairs
<1>2. Page(stream, start, end) = {i \in L : Cardinality({j \in L : Newer(j, i)}) < PageSize}
  BY DEF Page, Listed
<1> HIDE DEF L
<1>3. Page(stream, start, end) = {i \in L : Cardinality({j \in L : <<j, i>> \in NewerPairs}) < PageSize}
  BY <1>1, <1>2
<1> QED BY <1>3 DEF FirstOf, L

LEMMA NewerOrder ==
  ASSUME chain \subseteq Triples, NEW L \in SUBSET chain
  PROVE  StrictOrder(NewerPairs, L)
<1>1. \A i \in chain : i[2] \in Int /\ i[3] \in Int
  BY TripleParts
<1>2. \A i \in L : <<i, i>> \notin NewerPairs
  BY <1>1 DEF NewerPairs, Newer
<1>3. \A i, j \in L : <<i, j>> \in NewerPairs <=> Newer(i, j)
  BY DEF NewerPairs
<1>4. \A i, j, k \in L : Newer(i, j) /\ Newer(j, k) => Newer(i, k)
  BY <1>1 DEF Newer
<1> QED BY <1>2, <1>3, <1>4 DEF StrictOrder

\* What a page and its resume cursor stand for: everything listed above the
\* cursor, and the whole list if there is no cursor.
LEMMA PageCovers ==
  ASSUME chain \subseteq Triples, NEW stream, NEW start \in Blocks, NEW end \in Blocks
  PROVE  LET page == Page(stream, start, end)
             c == ResumeCursor(page)
         IN  /\ page \subseteq Listed(stream, start, end)
             /\ c \in Blocks \cup {None}
             /\ c # None => c \in start .. end
             /\ ~Unresumable(page, end) => c < end
             /\ \A i \in Listed(stream, start, end) : i[2] > c => i \in page
<1> DEFINE page == Page(stream, start, end)
           L == Listed(stream, start, end)
           c == ResumeCursor(page)
           blocks == {i[2] : i \in page}
<1>1. L \in SUBSET chain
  BY DEF Listed
<1>2. page = FirstOf(L, NewerPairs, PageSize)
  BY PageIsFirst
<1>3. page \subseteq L
  BY <1>2 DEF FirstOf
<1>4. IsFiniteSet(L) /\ IsFiniteSet(page) /\ Cardinality(page) \in Nat
  BY <1>1, <1>3, ChainFinite, FS_Subset, FS_CardinalityType
<1>5. StrictOrder(NewerPairs, L)
  BY <1>1, NewerOrder
<1>6. \A i \in L : i[2] \in start .. end /\ i[2] \in Blocks /\ i[2] \in Nat
  BY <1>1, TripleParts DEF Listed
<1>7. start \in Nat /\ end \in Nat /\ PageSize \in Nat /\ PageSize # 0
  BY BoundsAssumption DEF Blocks
<1> HIDE DEF L
<1>8. CASE ~Full(page)
  <2>1. Cardinality(page) < PageSize
    BY <1>4, <1>7, <1>8 DEF Full
  <2>2. page = L
    BY <1>2, <1>4, <1>5, <1>7, <2>1, FirstOfAll
  <2>3. c = None
    BY <1>8 DEF ResumeCursor
  <2>4. c < end
    BY <2>3, <1>7 DEF None
  <2> QED BY <1>3, <2>2, <2>3, <2>4 DEF L
<1>9. CASE Full(page)
  <2>1. page # {}
    BY <1>4, <1>7, <1>9, FS_EmptySet DEF Full
  <2>2. blocks \subseteq Nat /\ blocks # {}
    BY <1>3, <1>6, <2>1
  <2>3. c = Min(blocks)
    BY <1>9 DEF ResumeCursor, Oldest
  <2>4. c \in blocks
    BY <2>2, <2>3, MinNat
  <2>5. PICK k \in page : k[2] = c
    BY <2>4
  <2>6. c \in start .. end /\ c \in Blocks
    BY <1>3, <1>6, <2>5
  <2>7. ASSUME NEW i \in L, i[2] > c PROVE i \in page
    <3>1. <<i, k>> \in NewerPairs
      BY <1>1, <1>3, <2>5, <2>7 DEF NewerPairs, Newer
    <3> QED BY <1>2, <1>4, <1>5, <1>7, <2>5, <3>1, FirstOfClosed
  <2>8. ~Unresumable(page, end) => c < end
    BY <1>9, <1>7, <2>6 DEF Unresumable, ResumeCursor
  <2> QED BY <1>3, <2>6, <2>7, <2>8 DEF L
<1> QED BY <1>8, <1>9

-----------------------------------------------------------------------------
\* The inductive invariant

MaybeBlock == Blocks \cup {None}
Snaps == [tip : MaybeBlock, older : MaybeBlock]
States == [live : BOOLEAN, start : Blocks, end : Blocks, tip : Blocks, recent : BOOLEAN, fromZero : BOOLEAN,
           older : MaybeBlock, backfill : BOOLEAN, done : BOOLEAN]
Working == {"normal", "internal", "advance", "clear", "save"}
Labels == Working \cup {"idle", "init", "end"}
Memories == [pc : Labels, snap : Snaps, state : States, page : SUBSET Triples, cursor : MaybeBlock, left : Int]

\* What a committed tip spares the next range, of any set of transactions.
Below(txs, tip) == {i \in txs : i[2] < RangeStart(tip)}

\* The provider's index trails its tip by no more than the blocks a new range
\* fetches again.
Close == Lag <= 2

\* Nothing below a range is missing in `held', and nothing above it up to
\* the block below the tip it will commit.
Covers(start, end, tip, txs, held) ==
    Close =>
        /\ \A i \in txs : i[2] < start => i \in held
        /\ \A i \in Below(txs, tip) : i[2] > end => i \in held

Commits(state) == IF state.recent THEN state.tip ELSE None

\* The range a run works on: non-empty, at most up to a tip the provider has
\* had, and safe to resume.  A range that is not recent commits no tip.
StateSound(state, txs, held, top) ==
    state.live =>
        /\ state.start <= state.end
        /\ state.recent => state.tip <= top
        /\ Covers(state.start, state.end, Commits(state), txs, held)

\* What the memory of a run relies on.
MemorySound(me, txs, held, top) ==
    /\ StateSound(me.state, txs, held, top)
    /\ me.pc \in Working => me.state.live
    /\ me.pc = "init" /\ Close => Below(txs, me.snap.tip) \subseteq held
    /\ me.pc \in {"internal", "advance"} /\ me.cursor # None =>
           me.cursor \in me.state.start .. me.state.end
    /\ me.pc = "internal" => me.page \subseteq txs
    /\ me.pc = "internal" /\ me.state.recent /\ Close =>
           \A i \in Below(txs, me.state.tip) :
              i[1] = "normal" /\ i[2] > me.cursor => i \in held \cup me.page
    /\ me.pc = "advance" /\ me.state.recent /\ Close =>
           \A i \in Below(txs, me.state.tip) : i[2] > me.cursor => i \in held

Typed ==
    /\ chain \subseteq Triples
    /\ run \in [Runners -> Memories]

PendingSound ==
    pending # NoRange =>
        /\ pending.tip <= height
        /\ Covers(pending.start, pending.end, pending.tip, chain, stored)

RunsSound == \A r \in Runners : MemorySound(run[r], chain, stored, height)

Inv ==
    /\ TypeOK
    /\ Typed
    /\ Close => TipCovers
    /\ PendingSound
    /\ RunsSound

LEMMA Constants ==
  /\ MaxHeight \in Nat /\ 0 \in Blocks /\ Blocks \subseteq Nat /\ None = -1 /\ None \notin Blocks
  /\ Lag \in Nat /\ FirstHeight \in Blocks /\ FirstHeight - Lag \in Nat
BY BoundsAssumption DEF Blocks, None

LEMMA BlockIsInt == Blocks \subseteq Int /\ MaybeBlock \subseteq Int
BY Constants DEF MaybeBlock

LEMMA IdleSound ==
  ASSUME NEW txs, NEW held, NEW top
  PROVE  Idle \in Memories /\ MemorySound(Idle, txs, held, top)
BY Constants DEF Idle, NoState, NoSnap, Memories, States, Snaps, MaybeBlock, Labels, Working,
   MemorySound, StateSound

LEMMA SparedIsBelow == \A tip : Spared(tip) = Below(chain, tip)
BY DEF Spared, Below

\* Without a tip nothing is spared.
LEMMA BelowNone ==
  ASSUME NEW txs, txs \subseteq Triples
  PROVE  Below(txs, None) = {}
BY Constants, TripleParts DEF Below, RangeStart

LEMMA InvInit == Init => Inv
<1> SUFFICES ASSUME Init PROVE Inv
  OBVIOUS
<1> USE Constants
<1>1. chain \subseteq Triples
  BY BoundsAssumption DEF Init, Triples
<1>2. run \in [Runners -> Memories] /\ RunsSound
  BY IdleSound DEF Init, RunsSound
<1>3. row \in [tip : MaybeBlock, older : MaybeBlock] /\ row.tip = None
  BY BoundsAssumption DEF Init, MaybeBlock
<1>4. height \in Blocks /\ indexed \in height - Lag .. height
  BY BoundsAssumption DEF Init
<1>5. TypeOK
  BY <1>1, <1>3, <1>4 DEF Init, TypeOK, MaybeBlock
<1>6. TipCovers
  BY <1>1, <1>3, BelowNone, SparedIsBelow DEF TipCovers
<1> QED BY <1>1, <1>2, <1>5, <1>6 DEF Inv, Typed, PendingSound, Init

\* Everything a memory relies on stays true while the store and the chain grow.
LEMMA MemoryStable ==
  ASSUME NEW me \in Memories, NEW txs, NEW held, NEW held2, NEW top \in Int, NEW top2 \in Int,
         MemorySound(me, txs, held, top), held \subseteq held2, top <= top2
  PROVE  MemorySound(me, txs, held2, top2)
<1>1. me.state \in States
  BY DEF Memories
<1>2. me.state.tip \in Blocks
  BY <1>1 DEF States
<1>3. me.state.tip \in Int
  BY <1>2, BlockIsInt
<1>4. StateSound(me.state, txs, held, top)
  BY DEF MemorySound
<1>5. me.state.tip <= top => me.state.tip <= top2
  BY <1>3
<1>6. \A start, end, tip : Covers(start, end, tip, txs, held) => Covers(start, end, tip, txs, held2)
  BY DEF Covers
<1>7. StateSound(me.state, txs, held2, top2)
  BY <1>4, <1>5, <1>6 DEF StateSound
<1> QED BY <1>7 DEF MemorySound

\* The same, for what the database holds of a range.
LEMMA PendingStable ==
  ASSUME Inv, UNCHANGED <<chain, pending>>, stored \subseteq stored', height' \in Int, height <= height'
  PROVE  PendingSound'
<1>1. height \in Blocks /\ (pending # NoRange => pending.tip \in MaybeBlock)
  BY DEF Inv, TypeOK, MaybeBlock
<1>2. height \in Int /\ (pending # NoRange => pending.tip \in Int)
  BY <1>1, BlockIsInt
<1> QED BY <1>2 DEF Inv, PendingSound, Covers

\* A step that changes the memory of one runner only, and nothing the others
\* rely on except that the store may grow.
LEMMA OneRunner ==
  ASSUME Inv, NEW r \in Runners, NEW me \in Memories, run' = [run EXCEPT ![r] = me],
         UNCHANGED <<chain, height>>, stored \subseteq stored',
         MemorySound(me, chain, stored', height)
  PROVE  Typed' /\ RunsSound'
<1>1. height \in Int /\ run \in [Runners -> Memories] /\ chain \subseteq Triples
  BY Constants DEF Inv, TypeOK, Typed
<1>2. run' \in [Runners -> Memories] /\ Typed'
  BY <1>1 DEF Typed
<1>3. ASSUME NEW q \in Runners PROVE MemorySound(run'[q], chain, stored', height)
  <2>1. CASE q = r
    BY <1>1, <2>1
  <2>2. CASE q # r
    <3>1. run'[q] = run[q] /\ run[q] \in Memories
      BY <1>1, <2>2
    <3>2. MemorySound(run[q], chain, stored, height)
      BY DEF Inv, RunsSound
    <3> QED BY <3>1, <3>2, <1>1, MemoryStable
  <2> QED BY <2>1, <2>2
<1> QED BY <1>2, <1>3 DEF RunsSound

\* A step that leaves the provider and the database alone.
LEMMA Frame ==
  ASSUME Inv, UNCHANGED <<chain, height, indexed, stored, row, pending>>, Typed', RunsSound'
  PROVE  Inv'
<1>1. TypeOK'
  BY DEF Inv, TypeOK
<1>2. Close => TipCovers'
  BY DEF Inv, TipCovers, Spared
<1>3. PendingSound'
  BY DEF Inv, PendingSound
<1> QED BY <1>1, <1>2, <1>3 DEF Inv

LEMMA Fields ==
  ASSUME NEW me \in Memories
  PROVE  /\ me.pc \in Labels /\ me.snap \in Snaps /\ me.page \subseteq Triples
         /\ me.cursor \in MaybeBlock /\ me.cursor \in Int /\ me.left \in Int
         /\ me.snap.tip \in MaybeBlock /\ me.snap.older \in MaybeBlock
         /\ me.state \in States /\ me.state.live \in BOOLEAN
         /\ me.state.start \in Blocks /\ me.state.end \in Blocks /\ me.state.tip \in Blocks
         /\ me.state.start \in Nat /\ me.state.end \in Nat /\ me.state.tip \in Nat
         /\ me.state.recent \in BOOLEAN /\ me.state.fromZero \in BOOLEAN
         /\ me.state.older \in MaybeBlock /\ me.state.backfill \in BOOLEAN /\ me.state.done \in BOOLEAN
<1>1. /\ me.pc \in Labels /\ me.snap \in Snaps /\ me.page \subseteq Triples
      /\ me.cursor \in MaybeBlock /\ me.left \in Int /\ me.state \in States
  BY DEF Memories
<1>2. me.snap.tip \in MaybeBlock /\ me.snap.older \in MaybeBlock
  BY <1>1 DEF Snaps
<1>3. /\ me.state.live \in BOOLEAN
      /\ me.state.start \in Blocks /\ me.state.end \in Blocks /\ me.state.tip \in Blocks
      /\ me.state.recent \in BOOLEAN /\ me.state.fromZero \in BOOLEAN
      /\ me.state.older \in MaybeBlock /\ me.state.backfill \in BOOLEAN /\ me.state.done \in BOOLEAN
  BY <1>1 DEF States
<1>4. me.cursor \in Int /\ me.state.start \in Nat /\ me.state.end \in Nat /\ me.state.tip \in Nat
  BY <1>1, <1>3, BlockIsInt, Constants
<1> QED BY <1>1, <1>2, <1>3, <1>4

\* What is known of the runner that takes a step.
LEMMA Taken ==
  ASSUME Inv, NEW r \in Runners
  PROVE  /\ run[r] \in Memories /\ MemorySound(run[r], chain, stored, height)
         /\ run \in [Runners -> Memories] /\ chain \subseteq Triples /\ stored \subseteq chain
         /\ height \in Blocks /\ height \in Nat /\ indexed \in height - Lag .. height
BY Constants DEF Inv, TypeOK, Typed, RunsSound

-----------------------------------------------------------------------------
\* One lemma per action

LEMMA MineInv == Inv /\ Mine => Inv'
<1> SUFFICES ASSUME Inv, Mine PROVE Inv'
  OBVIOUS
<1>1. height \in Blocks /\ height + 1 \in Blocks /\ height \in Int /\ indexed \in Int
      /\ indexed \in height - Lag .. height /\ Lag \in Nat
  BY Constants DEF Inv, TypeOK, Mine, Blocks
<1>2. indexed' = IF indexed >= height + 1 - Lag THEN indexed ELSE height + 1 - Lag
  BY <1>1, MaxPair DEF Mine
<1>3. height' = height + 1 /\ UNCHANGED <<chain, stored, row, pending, run>>
  BY DEF Mine
<1>4. indexed' \in height' - Lag .. height' /\ height' \in Blocks /\ height' \in Int /\ height <= height'
  BY <1>1, <1>2, <1>3
<1>5. TypeOK'
  BY <1>3, <1>4 DEF Inv, TypeOK
<1>6. Typed' /\ (Close => TipCovers')
  BY <1>3 DEF Inv, Typed, TipCovers, Spared
<1>7. PendingSound'
  BY <1>3, <1>4, PendingStable
<1>8. ASSUME NEW r \in Runners PROVE MemorySound(run[r], chain, stored, height')
  BY <1>1, <1>4, Taken, MemoryStable
<1>9. RunsSound'
  BY <1>3, <1>8 DEF RunsSound
<1> QED BY <1>5, <1>6, <1>7, <1>9 DEF Inv

LEMMA IndexInv == Inv /\ Index => Inv'
<1> SUFFICES ASSUME Inv, Index PROVE Inv'
  OBVIOUS
<1>1. height \in Int /\ indexed \in height - Lag .. height /\ Lag \in Nat
  BY Constants DEF Inv, TypeOK
<1>2. indexed' \in height' - Lag .. height'
  BY <1>1 DEF Index
<1>3. TypeOK'
  BY <1>2 DEF Inv, TypeOK, Index
<1> QED BY <1>3 DEF Inv, Index, Typed, TipCovers, Spared, PendingSound, RunsSound

LEMMA StartInv == ASSUME NEW r \in Runners PROVE Inv /\ Start(r) => Inv'
<1> SUFFICES ASSUME Inv, Start(r) PROVE Inv'
  OBVIOUS
<1> DEFINE left == IF r = "manual" THEN Iterations - 1 ELSE 0
           me == [Idle EXCEPT !.pc = "init", !.snap = Snapshot, !.left = left]
<1>1. Snapshot \in Snaps /\ Snapshot.tip = row.tip
  BY DEF Inv, TypeOK, Snapshot, Snaps, MaybeBlock
<1>2. left \in Int
  BY BoundsAssumption
<1>3. Idle \in Memories
  BY IdleSound
<1>4. me \in Memories
  <2> HIDE DEF left
  <2> QED BY <1>1, <1>2, <1>3 DEF Memories, Labels
<1>5. me.pc = "init" /\ me.snap = Snapshot /\ me.state = NoState
  BY DEF Idle
<1>6. Close => Below(chain, me.snap.tip) \subseteq stored
  BY <1>1, <1>5, SparedIsBelow DEF Inv, TipCovers
<1>7. MemorySound(me, chain, stored, height)
  BY <1>5, <1>6 DEF MemorySound, StateSound, NoState, Working
<1>8. run' = [run EXCEPT ![r] = me] /\ UNCHANGED <<chain, height, indexed, stored, row, pending>>
  BY DEF Start
<1> HIDE DEF me
<1>9. Typed' /\ RunsSound'
  BY <1>4, <1>7, <1>8, OneRunner
<1> QED BY <1>8, <1>9, Frame

\* The range that a run begins covers what it will commit.
LEMMA RangeSound ==
  ASSUME Inv, NEW r \in Runners, run[r].pc = "init", NEW tip \in Tips
  PROVE  LET range == FetchRange(run[r].snap, tip)
             recent == pending = NoRange \/ pending.tip # None
         IN  /\ range.start \in Blocks /\ range.end \in Blocks /\ range.tip \in Blocks
             /\ recent => range.tip <= height
             /\ Covers(range.start, range.end, IF recent THEN range.tip ELSE None, chain, stored)
<1> DEFINE range == FetchRange(run[r].snap, tip)
           recent == pending = NoRange \/ pending.tip # None
<1>1. tip \in Blocks /\ tip \in Nat /\ tip <= height
  <2>1. height \in Int /\ Stale \in Int
    BY Taken, BoundsAssumption
  <2> QED BY <2>1, Constants DEF Tips
<1>2. run[r].snap.tip \in MaybeBlock
  BY Taken, Fields
<1>3. CASE pending = NoRange
  <2>1. range = [start |-> RangeStart(run[r].snap.tip), end |-> tip, tip |-> tip]
    BY <1>3 DEF FetchRange
  <2>2. RangeStart(run[r].snap.tip) \in Blocks
    BY <1>2, Constants DEF RangeStart, MaybeBlock, Blocks
  <2>3. Close => \A i \in chain : i[2] < range.start => i \in stored
    BY <2>1, <1>3, Taken DEF MemorySound, Below
  <2>4. \A i \in Below(chain, range.tip) : ~(i[2] > range.end)
    BY <2>1, <1>1, Taken, TripleParts DEF Below, RangeStart
  <2> QED BY <1>1, <1>3, <2>1, <2>2, <2>3, <2>4 DEF Covers
<1>4. CASE pending # NoRange
  <2>1. pending \in [start : Blocks, end : Blocks, tip : MaybeBlock]
    BY <1>4 DEF Inv, TypeOK, MaybeBlock
  <2>2. range = [pending EXCEPT !.tip = IF pending.tip = None THEN tip ELSE pending.tip]
    BY <1>4 DEF FetchRange
  <2>3. range.start = pending.start /\ range.end = pending.end
        /\ range.tip = IF pending.tip = None THEN tip ELSE pending.tip
    BY <2>1, <2>2
  <2>4. PendingSound
    BY DEF Inv
  <2>5. pending.tip # None => pending.tip \in Blocks
    BY <2>1 DEF MaybeBlock
  <2> QED BY <1>1, <1>4, <2>1, <2>3, <2>4, <2>5 DEF PendingSound
<1> QED BY <1>3, <1>4

LEMMA InitialiseInv == ASSUME NEW r \in Runners PROVE Inv /\ Initialise(r) => Inv'
<1> SUFFICES ASSUME Inv, Initialise(r) PROVE Inv'
  OBVIOUS
<1> DEFINE me == run[r]
           recent == pending = NoRange \/ pending.tip # None
           begun(range) == [live |-> TRUE, start |-> range.start, end |-> range.end, tip |-> range.tip,
                            recent |-> recent, fromZero |-> range.start = 0, older |-> me.snap.older,
                            backfill |-> ~recent, done |-> FALSE]
           ready(state) == [me EXCEPT !.pc = "normal", !.snap = NoSnap, !.state = state]
<1>1. PICK tip \in Tips :
         LET range == FetchRange(me.snap, tip)
         IN  run' = [run EXCEPT ![r] = CASE me.state.live -> ready(me.state)
                                         [] ~me.state.live /\ range.start > range.end -> Idle
                                         [] OTHER -> ready(begun(range))]
  BY DEF Initialise
<1> DEFINE range == FetchRange(me.snap, tip)
<1>2. me.pc = "init" /\ UNCHANGED <<chain, height, indexed, stored, row, pending>>
  BY DEF Initialise
<1>3. me \in Memories /\ MemorySound(me, chain, stored, height)
  BY Taken
<1>4. ASSUME NEW state \in States, StateSound(state, chain, stored, height), state.live
      PROVE  ready(state) \in Memories /\ MemorySound(ready(state), chain, stored, height)
  <2>1. NoSnap \in Snaps
    BY DEF NoSnap, Snaps, MaybeBlock
  <2>2. ready(state) \in Memories
    BY <1>3, <2>1 DEF Memories, Labels, Working
  <2>3. ready(state).pc = "normal" /\ ready(state).state = state
    BY <1>3 DEF Memories
  <2> HIDE DEF ready
  <2> QED BY <1>4, <2>2, <2>3 DEF MemorySound
<1>5. \E new \in Memories : MemorySound(new, chain, stored, height) /\ run' = [run EXCEPT ![r] = new]
  <2>1. CASE me.state.live
    <3>1. run' = [run EXCEPT ![r] = ready(me.state)]
      BY <1>1, <2>1
    <3>2. me.state \in States /\ StateSound(me.state, chain, stored, height)
      BY <1>3, Fields DEF MemorySound
    <3> HIDE DEF ready, me
    <3> QED BY <2>1, <3>1, <3>2, <1>4
  <2>2. CASE ~me.state.live /\ range.start > range.end
    <3>1. run' = [run EXCEPT ![r] = Idle]
      BY <1>1, <2>2
    <3> QED BY <3>1, IdleSound
  <2>3. CASE ~me.state.live /\ ~(range.start > range.end)
    <3>1. run' = [run EXCEPT ![r] = ready(begun(range))]
      BY <1>1, <2>3
    <3>2. /\ range.start \in Blocks /\ range.end \in Blocks /\ range.tip \in Blocks
          /\ recent => range.tip <= height
          /\ Covers(range.start, range.end, IF recent THEN range.tip ELSE None, chain, stored)
      BY <1>2, RangeSound
    <3>3. me.snap.older \in MaybeBlock
      BY <1>3, Fields
    <3> HIDE DEF range, me
    <3>4. begun(range) \in States
      BY <3>2, <3>3 DEF States
    <3>5. range.start \in Int /\ range.end \in Int
      BY <3>2, BlockIsInt
    <3>6. StateSound(begun(range), chain, stored, height)
      <4>1. /\ begun(range).start = range.start /\ begun(range).end = range.end
            /\ begun(range).tip = range.tip /\ begun(range).recent = recent
        OBVIOUS
      <4>2. Commits(begun(range)) = IF recent THEN range.tip ELSE None
        BY <4>1 DEF Commits
      <4>3. range.start <= range.end
        BY <2>3, <3>5
      <4> HIDE DEF begun, recent
      <4> QED BY <3>2, <4>1, <4>2, <4>3 DEF StateSound
    <3>7. begun(range).live
      OBVIOUS
    <3> HIDE DEF begun, ready
    <3> QED BY <3>1, <3>4, <3>6, <3>7, <1>4
  <2> QED BY <2>1, <2>2, <2>3
<1>6. Typed' /\ RunsSound'
  BY <1>2, <1>5, OneRunner
<1> QED BY <1>2, <1>6, Frame

\* What a page adds: between its cursor and the ends of the range, everything
\* that the tip of the range will spare is on it.
LEMMA PageSpares ==
  ASSUME Inv, Close, NEW r \in Runners, run[r].state.live, run[r].state.recent, NEW stream
  PROVE  LET state == run[r].state
             page == Page(stream, state.start, state.end)
         IN  \A i \in Below(chain, state.tip) :
                i[1] = stream /\ i[2] > ResumeCursor(page) => i \in stored \cup page
<1> DEFINE state == run[r].state
           page == Page(stream, state.start, state.end)
<1> SUFFICES ASSUME NEW i \in Below(chain, state.tip), i[1] = stream, i[2] > ResumeCursor(page)
             PROVE  i \in stored \cup page
  OBVIOUS
<1>1. state \in States /\ state.start \in Blocks /\ state.end \in Blocks /\ state.start \in Nat
      /\ state.end \in Nat /\ state.tip \in Nat
  BY Taken, Fields
<1>2. state.tip <= height /\ Covers(state.start, state.end, state.tip, chain, stored)
  BY Taken DEF MemorySound, StateSound, Commits
<1>3. i \in chain /\ i[2] < RangeStart(state.tip) /\ i[2] \in Nat
  BY Taken, TripleParts DEF Below
<1>4. i[2] < state.start \/ i[2] > state.end => i \in stored
  BY <1>2, <1>3 DEF Covers
<1>5. i[2] <= indexed
  <2>1. i[2] <= state.tip - 2
    BY <1>1, <1>3 DEF RangeStart
  <2>2. height \in Nat /\ indexed \in height - Lag .. height /\ Lag \in Nat /\ Lag <= 2
    BY Taken, Constants DEF Close
  <2> QED BY <1>1, <1>2, <1>3, <2>1, <2>2
<1>6. CASE i[2] \in state.start .. state.end
  <2>1. i \in Listed(stream, state.start, state.end)
    BY <1>3, <1>5, <1>6 DEF Listed
  <2> HIDE DEF state
  <2> QED BY <1>1, <2>1, PageCovers, Taken
<1> QED BY <1>1, <1>3, <1>4, <1>6

LEMMA FetchNormalInv == ASSUME NEW r \in Runners PROVE Inv /\ FetchNormal(r) => Inv'
<1> SUFFICES ASSUME Inv, FetchNormal(r) PROVE Inv'
  OBVIOUS
<1> DEFINE me == run[r]
           page == Page("normal", me.state.start, me.state.end)
           c == ResumeCursor(page)
           new == [me EXCEPT !.pc = "internal", !.page = page, !.cursor = c]
<1>1. me.pc = "normal" /\ UNCHANGED <<chain, height, indexed, stored, row, pending>>
      /\ run' = [run EXCEPT ![r] = IF Unresumable(page, me.state.end) THEN Idle ELSE new]
  BY Taken DEF FetchNormal
<1>2. me \in Memories /\ MemorySound(me, chain, stored, height) /\ chain \subseteq Triples
  BY Taken
<1>3. me.state.live
  BY <1>1, <1>2 DEF MemorySound, Working
<1>4. page \subseteq chain /\ c \in MaybeBlock /\ (c # None => c \in me.state.start .. me.state.end)
  BY <1>2, Fields, PageCovers DEF Listed, MaybeBlock
<1>5. me.state.recent /\ Close =>
         \A i \in Below(chain, me.state.tip) : i[1] = "normal" /\ i[2] > c => i \in stored \cup page
  BY <1>3, PageSpares
<1> HIDE DEF page, c
<1>6. new \in Memories
  BY <1>2, <1>4 DEF Memories, Labels, Working
<1>7. new.pc = "internal" /\ new.page = page /\ new.cursor = c /\ new.state = me.state
  BY <1>2 DEF Memories
<1>8. StateSound(me.state, chain, stored, height)
  BY <1>2 DEF MemorySound
<1> HIDE DEF new, me
<1>9. MemorySound(new, chain, stored, height)
  BY <1>3, <1>4, <1>5, <1>7, <1>8 DEF MemorySound
<1>10. Typed' /\ RunsSound'
  BY <1>1, <1>6, <1>9, IdleSound, OneRunner
<1> QED BY <1>1, <1>10, Frame

LEMMA FetchInternalInv == ASSUME NEW r \in Runners PROVE Inv /\ FetchInternal(r) => Inv'
<1> SUFFICES ASSUME Inv, FetchInternal(r) PROVE Inv'
  OBVIOUS
<1> DEFINE me == run[r]
           page == Page("internal", me.state.start, me.state.end)
           c == ResumeCursor(page)
           both == Align(me.cursor, c)
           refused == Unresumable(page, me.state.end)
           new == [me EXCEPT !.pc = "advance", !.page = {}, !.cursor = both]
<1>1. /\ me.pc = "internal" /\ UNCHANGED <<chain, height, indexed, row, pending>>
      /\ stored' = IF refused THEN stored ELSE stored \cup me.page \cup page
      /\ run' = [run EXCEPT ![r] = IF refused THEN Idle ELSE new]
  <2>1. me.pc = "internal" /\ UNCHANGED <<chain, height, indexed, row, pending>>
        /\ stored' = IF refused THEN stored ELSE stored \cup me.page \cup page
    BY DEF FetchInternal
  <2>2. run' = [run EXCEPT ![r] = IF refused THEN Idle ELSE new]
    BY Taken DEF FetchInternal
  <2> QED BY <2>1, <2>2
<1>2. me \in Memories /\ MemorySound(me, chain, stored, height) /\ chain \subseteq Triples
      /\ stored \subseteq chain /\ height \in Nat
  BY Taken
<1>3. me.state.live /\ me.page \subseteq chain
  BY <1>1, <1>2 DEF MemorySound, Working
<1>4. page \subseteq chain /\ c \in MaybeBlock /\ (c # None => c \in me.state.start .. me.state.end)
  <2>1. me.state.start \in Blocks /\ me.state.end \in Blocks
    BY <1>2, Fields
  <2>2. page \subseteq Listed("internal", me.state.start, me.state.end) /\ c \in Blocks \cup {None}
        /\ (c # None => c \in me.state.start .. me.state.end)
    <3> HIDE DEF me
    <3> QED BY <1>2, <2>1, PageCovers
  <2> HIDE DEF me, page, c
  <2> QED BY <2>2 DEF Listed, MaybeBlock
<1>5. me.state.recent /\ Close =>
         \A i \in Below(chain, me.state.tip) : i[1] = "internal" /\ i[2] > c => i \in stored \cup page
  BY <1>3, PageSpares
<1>6. me.state.recent /\ Close =>
         \A i \in Below(chain, me.state.tip) :
            i[1] = "normal" /\ i[2] > me.cursor => i \in stored \cup me.page
  BY <1>1, <1>2 DEF MemorySound
<1>7. me.cursor \in Int /\ me.cursor \in MaybeBlock /\ c \in Int
      /\ (me.cursor # None => me.cursor \in me.state.start .. me.state.end)
  BY <1>1, <1>2, <1>4, Fields, BlockIsInt DEF MemorySound
<1>8. both = IF me.cursor >= c THEN me.cursor ELSE c
  BY <1>7, MaxPair DEF Align
<1>9. stored \subseteq stored' /\ stored' \subseteq chain
  BY <1>1, <1>2, <1>3, <1>4
<1> HIDE DEF page, c
<1>10. both \in MaybeBlock /\ both \in Int /\ (both # None => both \in me.state.start .. me.state.end)
  BY <1>4, <1>7, <1>8
<1>11. ASSUME ~refused, me.state.recent, Close, NEW i \in Below(chain, me.state.tip), i[2] > both
       PROVE  i \in stored'
  <2>1. i \in chain /\ i[2] \in Nat /\ i[1] \in Streams
    BY <1>2, <1>11, TripleParts DEF Below
  <2>2. i[2] > me.cursor /\ i[2] > c
    BY <1>7, <1>8, <1>11, <2>1
  <2> QED BY <1>1, <1>5, <1>6, <1>11, <2>1, <2>2 DEF Streams
<1> HIDE DEF both
<1>12. new \in Memories
  BY <1>2, <1>10 DEF Memories, Labels, Working
<1>13. new.pc = "advance" /\ new.cursor = both /\ new.state = me.state
  BY <1>2 DEF Memories
<1>14. StateSound(me.state, chain, stored', height)
  <2>1. MemorySound(me, chain, stored', height)
    BY <1>2, <1>9, MemoryStable
  <2> QED BY <2>1 DEF MemorySound
<1> HIDE DEF new, me, refused
<1>15. ~refused => MemorySound(new, chain, stored', height)
  BY <1>3, <1>10, <1>11, <1>13, <1>14 DEF MemorySound
<1>16. Typed' /\ RunsSound'
  BY <1>1, <1>9, <1>12, <1>15, IdleSound, OneRunner
<1>17. TypeOK'
  BY <1>1, <1>9 DEF Inv, TypeOK
<1>18. PendingSound'
  BY <1>1, <1>2, <1>9, PendingStable
<1>19. Close => TipCovers'
  BY <1>1, <1>9 DEF Inv, TipCovers, Spared
<1> QED BY <1>16, <1>17, <1>18, <1>19 DEF Inv

\* A range that commits no tip needs its start only.
LEMMA CoversOlder ==
  ASSUME NEW txs, txs \subseteq Triples, NEW held, NEW start, NEW end, NEW tip, NEW end2,
         Covers(start, end, tip, txs, held)
  PROVE  Covers(start, end2, None, txs, held)
BY BelowNone DEF Covers

LEMMA NarrowRecentInv == ASSUME NEW r \in Runners PROVE Inv /\ NarrowRecent(r) => Inv'
<1> SUFFICES ASSUME Inv, NarrowRecent(r) PROVE Inv'
  OBVIOUS
<1> DEFINE me == run[r]
           state == [me.state EXCEPT !.end = me.cursor]
           new == [me EXCEPT !.state = state, !.cursor = None, !.pc = "save"]
<1>1. me \in Memories /\ MemorySound(me, chain, stored, height) /\ chain \subseteq Triples
  BY Taken
<1>2. /\ me.pc = "advance" /\ me.state.recent /\ me.cursor # None
      /\ UNCHANGED <<chain, height, indexed, stored, row, pending>>
      /\ run' = [run EXCEPT ![r].state.end = me.cursor, ![r].cursor = None, ![r].pc = "save"]
  BY DEF NarrowRecent
<1>3. run' = [run EXCEPT ![r] = new]
  BY <1>1, <1>2, Taken DEF Memories
<1>4. me.state.live /\ me.cursor \in me.state.start .. me.state.end /\ me.state.tip <= height
      /\ Covers(me.state.start, me.state.end, me.state.tip, chain, stored)
      /\ (Close => \A i \in Below(chain, me.state.tip) : i[2] > me.cursor => i \in stored)
  BY <1>1, <1>2 DEF MemorySound, StateSound, Commits, Working
<1>5. me.cursor \in Blocks /\ me.state \in States /\ me.state.start \in Nat
  BY <1>1, <1>2, Fields DEF MaybeBlock
<1>6. state \in States /\ state.start = me.state.start /\ state.end = me.cursor /\ state.live
      /\ state.recent /\ state.tip = me.state.tip
  BY <1>2, <1>4, <1>5 DEF States
<1>7. Covers(state.start, state.end, state.tip, chain, stored)
  BY <1>4, <1>6 DEF Covers
<1>8. StateSound(state, chain, stored, height)
  BY <1>4, <1>5, <1>6, <1>7 DEF StateSound, Commits
<1> HIDE DEF state
<1>9. new \in Memories /\ new.pc = "save" /\ new.state = state
  BY <1>1, <1>6 DEF Memories, Labels, Working, MaybeBlock
<1> HIDE DEF new, me
<1>10. MemorySound(new, chain, stored, height)
  BY <1>6, <1>8, <1>9 DEF MemorySound
<1>11. Typed' /\ RunsSound'
  BY <1>2, <1>3, <1>9, <1>10, OneRunner
<1> QED BY <1>2, <1>11, Frame

LEMMA CommitTipInv == ASSUME NEW r \in Runners PROVE Inv /\ CommitTip(r) => Inv'
<1> SUFFICES ASSUME Inv, CommitTip(r) PROVE Inv'
  OBVIOUS
<1> DEFINE me == run[r]
           older == me.state.older
           onward == ~me.state.fromZero /\ older # None
           start == IF onward THEN 0 ELSE me.state.start
           end == IF onward THEN older ELSE me.state.end
           backfill == me.state.backfill \/ onward
           state == [me.state EXCEPT !.recent = FALSE, !.older = None, !.done = ~onward,
                                     !.backfill = backfill, !.start = start, !.end = end]
           pc == IF me.state.fromZero /\ older # None THEN "clear" ELSE "save"
           new == [me EXCEPT !.state = state, !.pc = pc]
<1>1. me \in Memories /\ MemorySound(me, chain, stored, height) /\ chain \subseteq Triples
  BY Taken
<1>2. /\ me.pc = "advance" /\ me.state.recent /\ me.cursor = None
      /\ UNCHANGED <<chain, height, indexed, stored, pending>>
      /\ row' = [row EXCEPT !.tip = me.state.tip]
      /\ run' = [run EXCEPT ![r].state = state, ![r].pc = pc]
  BY DEF CommitTip
<1>3. run' = [run EXCEPT ![r] = new]
  BY <1>1, <1>2, Taken DEF Memories
<1>4. me.state.live /\ me.state.start <= me.state.end
      /\ Covers(me.state.start, me.state.end, me.state.tip, chain, stored)
      /\ (Close => \A i \in Below(chain, me.state.tip) : i[2] > me.cursor => i \in stored)
  BY <1>1, <1>2 DEF MemorySound, StateSound, Commits, Working
<1>5. start \in Blocks /\ end \in Blocks /\ start <= end
  <2>1. me.state.start \in Blocks /\ me.state.end \in Blocks /\ older \in MaybeBlock
    BY <1>1, Fields
  <2>2. older # None => older \in Blocks
    BY <2>1 DEF MaybeBlock
  <2>3. \A b \in Blocks : 0 <= b
    BY Constants DEF Blocks
  <2> HIDE DEF me, older
  <2> QED BY <1>4, <2>1, <2>2, <2>3, Constants
<1>6. Covers(start, end, None, chain, stored)
  <2>1. CASE onward
    <3>1. start = 0
      BY <2>1
    <3>2. \A i \in chain : ~(i[2] < 0)
      BY <1>1, TripleParts
    <3> HIDE DEF start, end
    <3> QED BY <1>1, <3>1, <3>2, BelowNone DEF Covers
  <2>2. CASE ~onward
    BY <1>1, <1>4, <2>2, CoversOlder
  <2> QED BY <2>1, <2>2
<1>7. me.state \in States /\ backfill \in BOOLEAN /\ onward \in BOOLEAN
  BY <1>1, Fields
<1> HIDE DEF start, end, backfill, onward
<1>8. state \in States /\ state.start = start /\ state.end = end /\ ~state.recent /\ state.live
  BY <1>4, <1>5, <1>7 DEF States, MaybeBlock
<1> HIDE DEF state
<1>9. StateSound(state, chain, stored, height)
  BY <1>5, <1>6, <1>8 DEF StateSound, Commits
<1>10. pc \in {"clear", "save"}
  OBVIOUS
<1> HIDE DEF pc
<1>11. new \in Memories /\ new.pc = pc /\ new.state = state
  BY <1>1, <1>8, <1>10 DEF Memories, Labels, Working
<1>12. me.state.tip \in Blocks
  BY <1>1, Fields
<1> HIDE DEF new, me
<1>13. MemorySound(new, chain, stored, height)
  BY <1>8, <1>9, <1>10, <1>11 DEF MemorySound
<1>14. Typed' /\ RunsSound'
  BY <1>2, <1>3, <1>11, <1>13, OneRunner
<1>15. row' \in [tip : Blocks \cup {None}, older : Blocks \cup {None}] /\ row'.tip = me.state.tip
  BY <1>2, <1>12 DEF Inv, TypeOK
<1>16. TypeOK'
  BY <1>2, <1>15 DEF Inv, TypeOK
<1>17. PendingSound'
  BY <1>2 DEF Inv, PendingSound
<1>18. Close => TipCovers'
  <2>1. \A i \in chain : i[2] > None
    BY <1>1, TripleParts, Constants
  <2>2. Close => Below(chain, me.state.tip) \subseteq stored
    BY <1>2, <1>4, <2>1 DEF Below
  <2> QED BY <1>2, <1>15, <2>2 DEF TipCovers, Spared, Below
<1> QED BY <1>14, <1>16, <1>17, <1>18 DEF Inv

LEMMA ClearOlderInv == ASSUME NEW r \in Runners PROVE Inv /\ ClearOlder(r) => Inv'
<1> SUFFICES ASSUME Inv, ClearOlder(r) PROVE Inv'
  OBVIOUS
<1> DEFINE me == run[r]
           new == [me EXCEPT !.pc = "save"]
<1>1. me \in Memories /\ MemorySound(me, chain, stored, height)
  BY Taken
<1>2. me.pc = "clear" /\ row' = [row EXCEPT !.older = None]
      /\ UNCHANGED <<chain, height, indexed, stored, pending>>
  BY DEF ClearOlder
<1>3. run' = [run EXCEPT ![r] = new]
  BY <1>1, Taken DEF ClearOlder, To, Memories
<1>4. new \in Memories /\ new.pc = "save" /\ new.state = me.state
  BY <1>1 DEF Memories, Labels, Working
<1> HIDE DEF new, me
<1>5. MemorySound(new, chain, stored, height)
  BY <1>1, <1>2, <1>4 DEF MemorySound, Working
<1>6. Typed' /\ RunsSound'
  BY <1>2, <1>3, <1>4, <1>5, OneRunner
<1>7. row' \in [tip : Blocks \cup {None}, older : Blocks \cup {None}] /\ row'.tip = row.tip
  BY <1>2 DEF Inv, TypeOK
<1>8. TypeOK' /\ PendingSound' /\ (Close => TipCovers')
  BY <1>2, <1>7 DEF Inv, TypeOK, PendingSound, TipCovers, Spared
<1> QED BY <1>6, <1>8 DEF Inv

LEMMA AdvanceOlderInv == ASSUME NEW r \in Runners PROVE Inv /\ AdvanceOlder(r) => Inv'
<1> SUFFICES ASSUME Inv, AdvanceOlder(r) PROVE Inv'
  OBVIOUS
<1> DEFINE me == run[r]
           more == me.cursor # None
           end == IF more THEN me.cursor ELSE me.state.end
           state == [me.state EXCEPT !.end = end, !.done = me.cursor = None, !.backfill = more]
           new == [me EXCEPT !.state = state, !.cursor = None, !.pc = "save"]
<1>1. me \in Memories /\ MemorySound(me, chain, stored, height) /\ chain \subseteq Triples
  BY Taken
<1>2. /\ me.pc = "advance" /\ ~me.state.recent
      /\ UNCHANGED <<chain, height, indexed, stored, pending>>
      /\ row' = IF me.cursor # None \/ me.state.backfill THEN [row EXCEPT !.older = me.cursor] ELSE row
      /\ run' = [run EXCEPT ![r].state = state, ![r].cursor = None, ![r].pc = "save"]
  BY DEF AdvanceOlder
<1>3. run' = [run EXCEPT ![r] = new]
  BY <1>1, <1>2, Taken DEF Memories
<1>4. me.state.live /\ me.state.start <= me.state.end
      /\ Covers(me.state.start, me.state.end, None, chain, stored)
      /\ (more => me.cursor \in me.state.start .. me.state.end)
  BY <1>1, <1>2 DEF MemorySound, StateSound, Commits, Working
<1>5. me.cursor \in MaybeBlock /\ me.state \in States /\ me.state.start \in Nat /\ me.state.end \in Blocks
  BY <1>1, Fields
<1>6. end \in Blocks /\ me.state.start <= end
  BY <1>4, <1>5 DEF MaybeBlock
<1>7. Covers(me.state.start, end, None, chain, stored)
  BY <1>1, <1>4, CoversOlder
<1> HIDE DEF end
<1>8. state \in States /\ state.start = me.state.start /\ state.end = end /\ state.live /\ ~state.recent
  BY <1>2, <1>4, <1>5, <1>6 DEF States
<1> HIDE DEF state
<1>9. StateSound(state, chain, stored, height)
  BY <1>6, <1>7, <1>8 DEF StateSound, Commits
<1>10. new \in Memories /\ new.pc = "save" /\ new.state = state
  BY <1>1, <1>8 DEF Memories, Labels, Working, MaybeBlock
<1> HIDE DEF new, me
<1>11. MemorySound(new, chain, stored, height)
  BY <1>8, <1>9, <1>10 DEF MemorySound
<1>12. Typed' /\ RunsSound'
  BY <1>2, <1>3, <1>10, <1>11, OneRunner
<1>13. row' \in [tip : Blocks \cup {None}, older : Blocks \cup {None}] /\ row'.tip = row.tip
  BY <1>2, <1>5 DEF Inv, TypeOK, MaybeBlock
<1>14. TypeOK' /\ PendingSound' /\ (Close => TipCovers')
  BY <1>2, <1>13 DEF Inv, TypeOK, PendingSound, TipCovers, Spared
<1> QED BY <1>12, <1>14 DEF Inv

LEMMA SavePendingInv == ASSUME NEW r \in Runners PROVE Inv /\ SavePending(r) => Inv'
<1> SUFFICES ASSUME Inv, SavePending(r) PROVE Inv'
  OBVIOUS
<1> DEFINE me == run[r]
           state == me.state
           new == [me EXCEPT !.pc = "end", !.state = IF state.done THEN NoState ELSE state]
<1>1. me \in Memories /\ MemorySound(me, chain, stored, height) /\ chain \subseteq Triples
      /\ height \in Nat
  BY Taken
<1>2. /\ me.pc = "save"
      /\ UNCHANGED <<chain, height, indexed, stored, row>>
      /\ pending' = IF state.done THEN NoRange
                    ELSE [start |-> state.start, end |-> state.end, tip |-> Commits(state)]
      /\ run' = [run EXCEPT ![r] = IF me.left = 0 THEN Idle ELSE new]
  BY Taken DEF SavePending, Over, Commits
<1>3. state.live /\ StateSound(state, chain, stored, height) /\ state \in States
  BY <1>1, <1>2, Fields DEF MemorySound, Working
<1>4. state.start \in Blocks /\ state.end \in Blocks /\ Commits(state) \in Blocks \cup {None}
      /\ state.tip \in Nat
  BY <1>1, Fields DEF Commits
<1>5. state.start <= state.end /\ Commits(state) <= height
      /\ Covers(state.start, state.end, Commits(state), chain, stored)
  BY <1>1, <1>3, <1>4, Constants DEF StateSound, Commits
<1>6. NoState \in States /\ ~NoState.live
  BY Constants DEF NoState, States, MaybeBlock
<1>7. new \in Memories /\ new.pc = "end" /\ new.state \in {NoState, state}
  BY <1>1, <1>3, <1>6 DEF Memories, Labels
<1>8. MemorySound(new, chain, stored, height)
  <2> HIDE DEF new, me
  <2>1. StateSound(new.state, chain, stored, height)
    BY <1>3, <1>6, <1>7 DEF StateSound
  <2> QED BY <1>7, <2>1 DEF MemorySound, Working
<1> HIDE DEF new, me, state
<1>9. Typed' /\ RunsSound'
  BY <1>2, <1>7, <1>8, IdleSound, OneRunner
<1>10. TypeOK' /\ (Close => TipCovers')
  BY <1>2, <1>4, <1>5 DEF Inv, TypeOK, TipCovers, Spared
<1>11. PendingSound'
  BY <1>2, <1>5 DEF PendingSound
<1> QED BY <1>9, <1>10, <1>11 DEF Inv

LEMMA NextIterationInv == ASSUME NEW r \in Runners PROVE Inv /\ NextIteration(r) => Inv'
<1> SUFFICES ASSUME Inv, NextIteration(r) PROVE Inv'
  OBVIOUS
<1> DEFINE me == run[r]
           new == [me EXCEPT !.pc = "init", !.left = me.left - 1, !.snap = Snapshot]
<1>1. me \in Memories /\ MemorySound(me, chain, stored, height) /\ me.left - 1 \in Int
  BY Taken, Fields
<1>2. me.pc = "end" /\ run' = [run EXCEPT ![r] = new]
      /\ UNCHANGED <<chain, height, indexed, stored, row, pending>>
  BY DEF NextIteration
<1>3. Snapshot \in Snaps /\ Snapshot.tip = row.tip
  BY DEF Inv, TypeOK, Snapshot, Snaps, MaybeBlock
<1>4. new \in Memories /\ new.pc = "init" /\ new.snap = Snapshot /\ new.state = me.state
  BY <1>1, <1>3 DEF Memories, Labels
<1>5. Close => Below(chain, new.snap.tip) \subseteq stored
  BY <1>3, <1>4, SparedIsBelow DEF Inv, TipCovers
<1> HIDE DEF new, me
<1>6. MemorySound(new, chain, stored, height)
  BY <1>1, <1>4, <1>5 DEF MemorySound, Working
<1>7. Typed' /\ RunsSound'
  BY <1>2, <1>4, <1>6, OneRunner
<1> QED BY <1>2, <1>7, Frame

\* What a run may have stored when it stops is on the provider's pages.
LEMMA PartsListed ==
  ASSUME Inv, NEW R \in SUBSET Runners, NEW part \in Parts(R)
  PROVE  part \subseteq chain
<1> DEFINE fetched(r) == run[r].page \cup Page("internal", run[r].state.start, run[r].state.end)
<1>1. ASSUME NEW r \in Runners, run[r].pc = "internal" PROVE fetched(r) \subseteq chain
  BY <1>1, Taken DEF MemorySound, Page
<1>2. part \subseteq UNION {fetched(r) : r \in {q \in R : run[q].pc = "internal"}}
  BY DEF Parts
<1> HIDE DEF fetched
<1> QED BY <1>1, <1>2

\* A step after which some runs have lost their memory, and the store may have
\* gained some of the chain's transactions.
LEMMA Dropped ==
  ASSUME Inv, UNCHANGED <<chain, height, indexed, row, pending>>,
         stored \subseteq stored', stored' \subseteq chain, run' \in [Runners -> Memories],
         \A q \in Runners : run'[q] \in {Idle, run[q]}
  PROVE  Inv'
<1>1. height \in Int
  BY Constants DEF Inv, TypeOK
<1>2. ASSUME NEW q \in Runners PROVE MemorySound(run'[q], chain, stored', height)
  <2>1. run[q] \in Memories /\ MemorySound(run[q], chain, stored, height)
    BY Taken
  <2>2. MemorySound(run[q], chain, stored', height)
    BY <1>1, <2>1, MemoryStable
  <2> QED BY <2>2, IdleSound
<1>3. RunsSound'
  BY <1>2 DEF RunsSound
<1>4. Typed' /\ TypeOK' /\ (Close => TipCovers')
  BY DEF Inv, Typed, TypeOK, TipCovers, Spared
<1>5. PendingSound'
  BY <1>1, PendingStable
<1> QED BY <1>3, <1>4, <1>5 DEF Inv

LEMMA FailCallInv == ASSUME NEW r \in Runners PROVE Inv /\ FailCall(r) => Inv'
<1> SUFFICES ASSUME Inv, FailCall(r) PROVE Inv'
  OBVIOUS
<1>1. PICK part \in Parts({r}) : stored' = stored \cup part
  BY DEF FailCall
<1>2. UNCHANGED <<chain, height, indexed, row, pending>> /\ run' = [run EXCEPT ![r] = Idle]
  BY DEF FailCall
<1>3. stored \subseteq stored' /\ stored' \subseteq chain
  BY <1>1, Taken, PartsListed
<1>4. run \in [Runners -> Memories] /\ Idle \in Memories
  BY Taken, IdleSound
<1>5. run' \in [Runners -> Memories] /\ \A q \in Runners : run'[q] \in {Idle, run[q]}
  BY <1>2, <1>4
<1> QED BY <1>2, <1>3, <1>5, Dropped

LEMMA CrashInv == Inv /\ Crash => Inv'
<1> SUFFICES ASSUME Inv, Crash PROVE Inv'
  OBVIOUS
<1>1. PICK part \in Parts(Runners) : stored' = stored \cup part
  BY DEF Crash
<1>2. UNCHANGED <<chain, height, indexed, row, pending>> /\ run' = [r \in Runners |-> Idle]
  BY DEF Crash
<1>3. stored \subseteq stored' /\ stored' \subseteq chain
  BY <1>1, PartsListed DEF Inv, TypeOK
<1>4. run' \in [Runners -> Memories] /\ \A q \in Runners : run'[q] \in {Idle, run[q]}
  BY <1>2, IdleSound
<1> QED BY <1>2, <1>3, <1>4, Dropped

LEMMA InvNext == Inv /\ [Next]_vars => Inv'
<1> SUFFICES ASSUME Inv, [Next]_vars PROVE Inv'
  OBVIOUS
<1>1. CASE UNCHANGED vars
  BY <1>1, Frame DEF vars, Inv, Typed, RunsSound
<1>2. CASE Mine \/ Index \/ Crash
  BY <1>2, MineInv, IndexInv, CrashInv
<1>3. ASSUME NEW r \in Runners, Start(r) \/ Step(r) \/ FailCall(r) PROVE Inv'
  BY <1>3, StartInv, InitialiseInv, FetchNormalInv, FetchInternalInv, NarrowRecentInv, CommitTipInv,
     ClearOlderInv, AdvanceOlderInv, SavePendingInv, NextIterationInv, FailCallInv DEF Step
<1> QED BY <1>1, <1>2, <1>3 DEF Next

LEMMA InvAlways == Spec => []Inv
BY InvInit, InvNext, PTL DEF Spec

-----------------------------------------------------------------------------
\* The theorems

\* In every reachable state each variable has its type: what is stored comes
\* from the chain, the index trails by at most Lag, and a pending range that
\* the iterations have narrowed is never empty.
THEOREM TypesHold == Spec => []TypeOK
<1>1. Inv => TypeOK
  BY DEF Inv
<1> QED BY <1>1, InvAlways, PTL

\* However long the chain, small the pages and many the iterations, crashes and
\* failed calls, with two runners that overwrite each other's tip and pending
\* range: no transaction below the block where the next range starts is
\* missing, if the provider's index trails its tip by at most two blocks.
THEOREM CommittedTipCovers ==
  ASSUME Lag <= 2
  PROVE  Spec => []TipCovers
<1>1. Inv => TipCovers
  BY DEF Inv, Close
<1> QED BY <1>1, InvAlways, PTL

\* Under the same assumption a run that resumes the pending range, its own, the
\* other runner's or one left by a process that died, misses nothing.
THEOREM PendingRangeCovers ==
  ASSUME Lag <= 2
  PROVE  Spec => []PendingCovers
<1>1. Inv => PendingCovers
  BY SparedIsBelow DEF Inv, Close, PendingSound, PendingCovers, Covers
<1> QED BY <1>1, InvAlways, PTL
=============================================================================
