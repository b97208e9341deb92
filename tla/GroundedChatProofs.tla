-------------------------- MODULE GroundedChatProofs --------------------------
(***************************************************************************)
(* Theorems about CorpusRetrieval and GroundedChat, for any number of      *)
(* questions, documents, ingesters and backfills.                          *)
(*                                                                         *)
(* The argument: a snapshot named by a number of commits never changes,    *)
(* and coverage, once complete for it, stays complete for it.              *)
(* A stored run cites chunks that have an owner, and the row of an owned   *)
(* chunk is found once and never changes; so the evidence, the prompt and  *)
(* the second resolution all see the same rows.                            *)
(***************************************************************************)
EXTENDS GroundedChat, DocumentProofs, FiniteSetTheorems

-------------------------------------------------------------------------------
(***************************************************************************)
(* Runs and backfills                                                      *)
(***************************************************************************)
\* Every version was committed at some time up to now.
CommittedByNow == \A v \in versions : v.at <= commits

\* A chunk belongs to one version.
ChunksHaveOneOwner == \A v, w \in versions : v.chunks \cap w.chunks # {} => v = w

Base == DocInv /\ CommittedByNow /\ ChunksHaveOneOwner

Request == [pc : {"idle", "coverage", "first", "second", "rerank", "done"},
            mode : Modes, strictOnly : BOOLEAN, exact : BOOLEAN,
            covered : Nat, at : Nat, seen : SUBSET ChunkId, cites : SUBSET ChunkId]

\* The request has read: its snapshot and its evidence are fixed.
HasRead(q) == q.pc \in {"second", "rerank", "done"}

\* What is true of a request at every step
Good(q) ==
    /\ q.covered <= commits /\ q.at <= commits
    /\ q.exact \/ q.mode # "lexical" => q.strictOnly
    /\ q.pc = "coverage" => q.mode # "lexical" /\ ~q.exact
    /\ q.pc = "rerank" => q.exact
    /\ ~HasRead(q) => q.cites = {}
    /\ HasRead(q) => q.cites \subseteq ChunksOf(Eligible(q.at, q.strictOnly))
    /\ q.exact => \A v \in Eligible(q.covered, TRUE) : v.chunks \subseteq embedded
    /\ HasRead(q) /\ q.exact => q.covered <= q.at
    /\ q.exact /\ HasRead(q) =>
         \A v \in Eligible(q.covered, TRUE) : v.chunks \subseteq q.seen

ReadersGood ==
    /\ rd \in [Reader -> Request]
    /\ \A r \in Reader, q \in Request : rd[r] = q => Good(q)

\* A chunk is replaced when its version is no longer the one that is embedded.
Replaced == ChunksOf(versions) \ LatestStrictChunks

\* The state of a backfill
Work == [pc : {"idle", "fetch", "embed", "done"}, cursor : {0} \cup ChunkId,
         batch : SUBSET ChunkId, due : SUBSET ChunkId]

\* What a backfill still owes is in its batch or behind its cursor.
DueIn(w, E) ==
    /\ w.batch \subseteq ChunksOf(versions) /\ w.due \subseteq ChunksOf(versions)
    /\ w.pc # "embed" => w.batch = {}
    /\ w.pc \in {"fetch", "embed"} =>
         \A k \in w.due : k \in E \cup Replaced \cup w.batch \/ k > w.cursor
    /\ w.pc = "done" => w.due \subseteq E \cup Replaced

DueSound(w) == DueIn(w, embedded)

\* Semantic rows belong to stored chunks.
RowsKnown ==
    /\ embedded \subseteq ChunksOf(versions)
    /\ bf \in [Backfill -> Work]
    /\ \A b \in Backfill : DueSound(bf[b])

CorpusInv == Base /\ ReadersGood /\ RowsKnown

-------------------------------------------------------------------------------
LEMMA NextMovesDocuments == [Next]_vars => [DocNext]_docVars
<1> SUFFICES ASSUME [Next]_vars PROVE DocNext \/ UNCHANGED docVars
  OBVIOUS
<1>1. ASSUME NEW b \in Backfill, BackfillNext(b) PROVE UNCHANGED docVars
  BY <1>1 DEF BackfillNext, BackfillStart, FetchMissingBatch, InsertMissing, BackfillFails
<1>2. ASSUME NEW r \in Reader, ReaderNext(r) PROVE UNCHANGED docVars
  BY <1>2 DEF ReaderNext, Ask, CheckCoverage, FirstLane, SecondLane, Revalidate, ReadFails
<1>3. QED
  BY <1>1, <1>2 DEF Next, vars

\* Commits are added at the end, with chunks of their own.
LEMMA VersionsGrow ==
  ASSUME DocInv, [DocNext]_docVars
  PROVE  \/ versions' = versions /\ commits' = commits
         \/ /\ commits' = commits + 1
            /\ \E v \in Version : /\ versions' = versions \cup {v}
                                  /\ v.at = commits + 1
                                  /\ v.chunks \subseteq FreeChunks
<1>1. DocTypeOK /\ RunOfNumbers
  BY DEF DocInv
<1>2. ASSUME NEW i \in Ingester, NEW chunks \in SUBSET ChunkId,
             ing[i].pc = "locked", ing[i] \in Job, chunks \subseteq FreeChunks,
             commits' = commits + 1, versions' = versions \cup {Row(i, chunks)}
      PROVE  \E v \in Version : /\ versions' = versions \cup {v}
                                /\ v.at = commits + 1
                                /\ v.chunks \subseteq FreeChunks
  <2>1. ing[i].number \in Nat \ {0}
    BY <1>2, InsertNumbers
  <2>2. Row(i, chunks) \in Version
    BY <1>1, <1>2, <2>1 DEF Row, Version, Job, DocTypeOK
  <2>3. Row(i, chunks).at = commits + 1 /\ Row(i, chunks).chunks = chunks
    BY DEF Row
  <2>4. QED
    BY <1>2, <2>2, <2>3
<1>3. QED
  BY <1>1, <1>2, StepCases

LEMMA BaseStep == Base /\ [DocNext]_docVars => Base'
<1> SUFFICES ASSUME Base, [DocNext]_docVars PROVE Base'
  OBVIOUS
<1>1. DocInv'
  BY DocNextInv DEF Base
<1>2. CASE versions' = versions /\ commits' = commits
  BY <1>1, <1>2 DEF Base, CommittedByNow, ChunksHaveOneOwner
<1>3. ASSUME commits' = commits + 1, NEW v \in Version, versions' = versions \cup {v},
             v.at = commits + 1, v.chunks \subseteq FreeChunks
      PROVE  Base'
  <2>1. commits \in Nat /\ \A w \in versions : w.at \in Nat /\ w.at <= commits
    BY DEF Base, CommittedByNow, DocInv, DocTypeOK, Version
  <2>2. CommittedByNow'
    BY <1>3, <2>1 DEF CommittedByNow
  <2>3. \A w \in versions : w.chunks \cap v.chunks = {}
    BY <1>3 DEF FreeChunks
  <2>4. ChunksHaveOneOwner'
    BY <1>3, <2>3 DEF Base, ChunksHaveOneOwner
  <2>5. QED
    BY <1>1, <2>2, <2>4 DEF Base
<1>4. QED
  BY <1>2, <1>3, VersionsGrow DEF Base

\* A snapshot that was taken stays as it is.
LEMMA SnapshotsStay ==
  ASSUME Base, [DocNext]_docVars, NEW n \in Nat, n <= commits
  PROVE  /\ commits \in Nat /\ commits' \in Nat /\ commits <= commits'
         /\ Eligible(n, TRUE)' = Eligible(n, TRUE)
         /\ Eligible(n, FALSE)' = Eligible(n, FALSE)
<1>1. commits \in Nat /\ \A w \in versions : w.at \in Nat
  BY DEF Base, DocInv, DocTypeOK, Version
<1>2. SnapshotAt(n)' = SnapshotAt(n) /\ commits' \in Nat /\ commits <= commits'
  <2>1. CASE versions' = versions /\ commits' = commits
    BY <1>1, <2>1 DEF SnapshotAt
  <2>2. ASSUME commits' = commits + 1, NEW v \in Version, versions' = versions \cup {v},
               v.at = commits + 1
        PROVE  SnapshotAt(n)' = SnapshotAt(n) /\ commits' \in Nat /\ commits <= commits'
    BY <1>1, <2>2 DEF SnapshotAt
  <2>3. QED
    BY <2>1, <2>2, VersionsGrow DEF Base
<1>3. QED
  BY <1>1, <1>2 DEF Eligible, LatestIn, Strict

\* Nothing a request has or knows is undone by what happens beside it.
LEMMA GoodStays ==
  ASSUME Base, [DocNext]_docVars, embedded \subseteq embedded', NEW q \in Request, Good(q)
  PROVE  Good(q)'
<1>1. q.covered \in Nat /\ q.at \in Nat /\ q.covered <= commits /\ q.at <= commits
      /\ q.strictOnly \in BOOLEAN
  BY DEF Request, Good
<1>2. /\ commits \in Nat /\ commits' \in Nat /\ commits <= commits'
      /\ Eligible(q.covered, TRUE)' = Eligible(q.covered, TRUE)
      /\ Eligible(q.at, TRUE)' = Eligible(q.at, TRUE)
      /\ Eligible(q.at, FALSE)' = Eligible(q.at, FALSE)
  BY <1>1, SnapshotsStay
<1>3. Eligible(q.at, q.strictOnly)' = Eligible(q.at, q.strictOnly)
  BY <1>1, <1>2 DEF Eligible
<1>4. q.covered <= commits' /\ q.at <= commits'
  BY <1>1, <1>2
<1>5. HasRead(q) => q.cites \subseteq ChunksOf(Eligible(q.at, q.strictOnly)')
  BY <1>3 DEF Good
<1>6. q.exact => \A v \in Eligible(q.covered, TRUE)' : v.chunks \subseteq embedded'
  BY <1>2 DEF Good
<1>7. q.exact /\ HasRead(q) =>
        \A v \in Eligible(q.covered, TRUE)' : v.chunks \subseteq q.seen
  BY <1>2 DEF Good
<1>8. QED
  BY <1>4, <1>5, <1>6, <1>7 DEF Good, HasRead, ChunksOf

-------------------------------------------------------------------------------
(***************************************************************************)
(* What each step of a request makes of it                                 *)
(***************************************************************************)

\* The request r becomes q.
Becomes(r, q) == q \in Request /\ Good(q) /\ rd' = [rd EXCEPT ![r] = q]

LEMMA ReaderTyped ==
  ASSUME CorpusInv, NEW r \in Reader
  PROVE  /\ rd[r] \in Request /\ Good(rd[r])
         /\ commits \in Nat /\ embedded \in SUBSET ChunkId
         /\ \A v \in versions : v.chunks \subseteq ChunkId /\ v.at \in Nat /\ v.at <= commits
  BY DEF CorpusInv, ReadersGood, Base, DocInv, DocTypeOK, Version, CommittedByNow, RowsKnown,
         ChunksOf

\* What may be cited later and is not new could be cited before.
LEMMA OldWasEligible ==
  ASSUME CorpusInv, NEW m \in Nat, NEW n \in Nat, m <= n,
         NEW v \in Eligible(n, TRUE), v.at <= m
  PROVE  v \in Eligible(m, TRUE)
<1>1. \A w \in versions : w.at \in Nat
  BY DEF CorpusInv, Base, DocInv, DocTypeOK, Version
<1>2. SnapshotAt(m) \subseteq SnapshotAt(n)
  BY <1>1 DEF SnapshotAt
<1>3. QED
  BY <1>1, <1>2 DEF Eligible, Strict, LatestIn, SnapshotAt

LEMMA UnaskedGood == ASSUME CorpusInv PROVE Unasked \in Request /\ Good(Unasked)
<1>1. commits \in Nat
  BY DEF CorpusInv, Base, DocInv, DocTypeOK
<1>2. QED
  BY <1>1 DEF Unasked, Request, Good, HasRead, Modes

LEMMA AskGood ==
  ASSUME CorpusInv, NEW r \in Reader, NEW mode \in Modes, NEW strictOnly \in BOOLEAN,
         Ask(r, mode, strictOnly)
  PROVE  \E q \in Request : Becomes(r, q)
<1> DEFINE pc == IF mode = "lexical" THEN "first" ELSE "coverage"
           q == [pc |-> pc, mode |-> mode, strictOnly |-> strictOnly, exact |-> FALSE,
                 covered |-> 0, at |-> 0, seen |-> {}, cites |-> {}]
<1>1. pc \in {"first", "coverage"} /\ (pc = "coverage" => mode # "lexical")
  OBVIOUS
<1> HIDE DEF pc
<1>2. q \in Request
  BY <1>1 DEF Request
<1>3. /\ q.pc = pc /\ q.mode = mode /\ q.strictOnly = strictOnly /\ q.exact = FALSE
      /\ q.covered = 0 /\ q.at = 0 /\ q.cites = {}
  OBVIOUS
<1>4. rd' = [rd EXCEPT ![r] = q]
  BY DEF Ask, pc
<1> HIDE DEF q
<1>5. q.covered <= commits /\ q.at <= commits /\ ~HasRead(q)
  BY <1>1, <1>3, ReaderTyped DEF HasRead
<1>6. q.mode # "lexical" => q.strictOnly
  BY <1>3 DEF Ask
<1>7. Good(q)
  BY <1>1, <1>3, <1>5, <1>6 DEF Good
<1>8. QED
  BY <1>2, <1>4, <1>7 DEF Becomes

LEMMA CheckCoverageGood ==
  ASSUME CorpusInv, NEW r \in Reader, CheckCoverage(r)
  PROVE  \E q \in Request : Becomes(r, q)
<1> DEFINE old == rd[r]
<1>1. old \in Request /\ Good(old) /\ old.pc = "coverage" /\ old.cites = {}
  BY ReaderTyped DEF CheckCoverage, Good, HasRead
<1>2. ASSUME CoverageComplete,
             rd' = [rd EXCEPT ![r].pc = "first", ![r].exact = TRUE, ![r].covered = commits]
      PROVE  \E q \in Request : Becomes(r, q)
  <2> DEFINE q == [old EXCEPT !.pc = "first", !.exact = TRUE, !.covered = commits]
  <2>1. q \in Request /\ rd' = [rd EXCEPT ![r] = q]
    BY <1>1, <1>2, ReaderTyped DEF Request
  <2>2. /\ q.pc = "first" /\ q.exact = TRUE /\ q.covered = commits /\ q.at = old.at
        /\ q.mode = old.mode /\ q.strictOnly = old.strictOnly /\ q.cites = {}
    BY <1>1 DEF Request
  <2> HIDE DEF q
  <2>3. SnapshotAt(commits) = versions
    BY ReaderTyped DEF SnapshotAt
  <2>4. \A v \in Eligible(commits, TRUE) : v.chunks \subseteq embedded
    BY <1>2, <2>3 DEF CoverageComplete, LatestStrictChunks, ChunksOf, Eligible
  <2>5. old.strictOnly /\ old.at <= commits
    BY <1>1 DEF Good
  <2>6. \A v \in Eligible(q.covered, TRUE) : v.chunks \subseteq embedded
    BY <2>2, <2>4
  <2>7. q.covered <= commits /\ q.at <= commits /\ q.strictOnly /\ ~HasRead(q)
    BY <2>2, <2>5, ReaderTyped DEF HasRead
  <2>8. Good(q)
    BY <2>2, <2>6, <2>7 DEF Good, HasRead
  <2>9. QED
    BY <2>1, <2>8 DEF Becomes
<1>3. ASSUME NEW pc \in {"first", "done"}, rd' = [rd EXCEPT ![r].pc = pc]
      PROVE  \E q \in Request : Becomes(r, q)
  <2> DEFINE q == [old EXCEPT !.pc = pc]
  <2>1. q \in Request /\ rd' = [rd EXCEPT ![r] = q]
    BY <1>1, <1>3 DEF Request
  <2>2. /\ q.pc = pc /\ q.exact = old.exact /\ q.covered = old.covered /\ q.at = old.at
        /\ q.mode = old.mode /\ q.strictOnly = old.strictOnly /\ q.cites = {}
    BY <1>1 DEF Request
  <2>3. old.exact = FALSE
    BY <1>1 DEF Good, Request
  <2>4. Good(q)
    BY <1>1, <2>2, <2>3, ReaderTyped DEF Good, HasRead
  <2>5. QED
    BY <2>1, <2>4 DEF Becomes
<1>4. QED
  BY <1>2, <1>3 DEF CheckCoverage

\* A request that reads its evidence from a snapshot taken now
LEMMA ReadNowGood ==
  ASSUME CorpusInv, NEW r \in Reader, NEW pc \in {"second", "rerank", "done"},
         NEW C \in SUBSET ChunkId, NEW S \in SUBSET ChunkId,
         C \subseteq ChunksOf(Eligible(commits, rd[r].strictOnly)),
         pc = "rerank" => rd[r].exact,
         rd[r].exact => \A v \in Eligible(rd[r].covered, TRUE) : v.chunks \subseteq S,
         rd' = [rd EXCEPT ![r] = [rd[r] EXCEPT !.pc = pc, !.at = commits, !.cites = C, !.seen = S]]
  PROVE  \E q \in Request : Becomes(r, q)
<1> DEFINE old == rd[r]
           q == [old EXCEPT !.pc = pc, !.at = commits, !.cites = C, !.seen = S]
<1>1. old \in Request /\ Good(old)
  BY ReaderTyped
<1>2. q \in Request /\ rd' = [rd EXCEPT ![r] = q]
  BY <1>1, ReaderTyped DEF Request
<1>3. /\ q.pc = pc /\ q.exact = old.exact /\ q.covered = old.covered /\ q.at = commits
      /\ q.mode = old.mode /\ q.strictOnly = old.strictOnly /\ q.cites = C /\ q.seen = S
  BY <1>1 DEF Request
<1> HIDE DEF q
<1>4. q.covered <= commits /\ q.at <= commits /\ q.covered <= q.at
  <2>1. old.covered <= commits
    BY <1>1 DEF Good
  <2>2. commits <= commits
    BY ReaderTyped
  <2>3. QED
    BY <1>3, <2>1, <2>2
<1>5. q.exact \/ q.mode # "lexical" => q.strictOnly
  BY <1>1, <1>3 DEF Good
<1>6. q.exact => \A v \in Eligible(q.covered, TRUE) : v.chunks \subseteq embedded
  BY <1>1, <1>3 DEF Good
<1>7. q.exact => \A v \in Eligible(q.covered, TRUE) : v.chunks \subseteq q.seen
  BY <1>3
<1>8. q.cites \subseteq ChunksOf(Eligible(q.at, q.strictOnly))
  BY <1>3
<1>9. Good(q)
  BY <1>3, <1>4, <1>5, <1>6, <1>7, <1>8 DEF Good, HasRead
<1>10. QED
  BY <1>2, <1>9 DEF Becomes

LEMMA FirstLaneGood ==
  ASSUME CorpusInv, NEW r \in Reader, FirstLane(r)
  PROVE  \E q \in Request : Becomes(r, q)
<1> DEFINE old == rd[r]
<1>1. old \in Request /\ Good(old) /\ embedded \in SUBSET ChunkId
  BY ReaderTyped
<1>2. \A n, b : ChunksOf(Eligible(n, b)) \in SUBSET ChunkId
  BY ReaderTyped DEF ChunksOf, Eligible, Strict, LatestIn, SnapshotAt
<1>3. ASSUME ~old.exact, NEW C \in SUBSET ChunksOf(Eligible(commits, old.strictOnly)),
             NEW pc \in {"second", "done"},
             rd' = [rd EXCEPT ![r].at = commits, ![r].cites = C, ![r].pc = pc]
      PROVE  \E q \in Request : Becomes(r, q)
  <2>1. C \in SUBSET ChunkId /\ old.seen \in SUBSET ChunkId
    BY <1>1, <1>2 DEF Request
  <2>2. rd' = [rd EXCEPT ![r] = [old EXCEPT !.pc = pc, !.at = commits, !.cites = C,
                                            !.seen = old.seen]]
    BY <1>1, <1>3 DEF Request
  <2>3. pc \in {"second", "rerank", "done"} /\ pc # "rerank"
        /\ C \subseteq ChunksOf(Eligible(commits, old.strictOnly))
    OBVIOUS
  <2> HIDE DEF old
  <2>4. QED
    BY <1>3, <2>1, <2>2, <2>3, ReadNowGood DEF old
<1>4. ASSUME old.exact, NEW C \in Nearest(commits), NEW pc \in {"second", "rerank", "done"},
             rd' = [rd EXCEPT ![r].at = commits, ![r].cites = C, ![r].seen = embedded,
                              ![r].pc = pc]
      PROVE  \E q \in Request : Becomes(r, q)
  <2>1. C \subseteq ChunksOf(Eligible(commits, TRUE))
    BY DEF Nearest, SemanticChunks
  <2>2. old.strictOnly = TRUE
    BY <1>1, <1>4 DEF Good, Request
  <2>3. C \in SUBSET ChunkId
    BY <1>2, <2>1
  <2>4. rd' = [rd EXCEPT ![r] = [old EXCEPT !.pc = pc, !.at = commits, !.cites = C,
                                            !.seen = embedded]]
    BY <1>1, <1>4 DEF Request
  <2>5. \A v \in Eligible(old.covered, TRUE) : v.chunks \subseteq embedded
    BY <1>1, <1>4 DEF Good
  <2>6. QED
    BY <1>1, <1>4, <2>1, <2>2, <2>3, <2>4, <2>5, ReadNowGood
<1>5. QED
  BY <1>3, <1>4 DEF FirstLane

LEMMA SecondLaneGood ==
  ASSUME CorpusInv, NEW r \in Reader, SecondLane(r)
  PROVE  \E q \in Request : Becomes(r, q)
<1> DEFINE old == rd[r]
<1>1. old \in Request /\ Good(old) /\ old.pc = "second"
  BY ReaderTyped DEF SecondLane
<1>2. PICK C \in SUBSET ChunksOf(Eligible(old.at, old.strictOnly)) :
        rd' = [rd EXCEPT ![r].pc = "done", ![r].cites = @ \cup C]
  BY DEF SecondLane
<1>3. C \in SUBSET ChunkId
  BY ReaderTyped DEF ChunksOf, Eligible, Strict, LatestIn, SnapshotAt
<1> DEFINE q == [old EXCEPT !.pc = "done", !.cites = old.cites \cup C]
<1>4. q \in Request /\ rd' = [rd EXCEPT ![r] = q]
  BY <1>1, <1>2, <1>3 DEF Request
<1>5. /\ q.pc = "done" /\ q.exact = old.exact /\ q.covered = old.covered /\ q.at = old.at
      /\ q.mode = old.mode /\ q.strictOnly = old.strictOnly /\ q.seen = old.seen
      /\ q.cites = old.cites \cup C
  BY <1>1 DEF Request
<1>6. old.cites \subseteq ChunksOf(Eligible(old.at, old.strictOnly))
  BY <1>1 DEF Good, HasRead
<1> HIDE DEF q
<1>7. Good(q)
  BY <1>1, <1>2, <1>5, <1>6 DEF Good, HasRead
<1>8. QED
  BY <1>4, <1>7 DEF Becomes

LEMMA RevalidateGood ==
  ASSUME CorpusInv, NEW r \in Reader, Revalidate(r)
  PROVE  \E q \in Request : Becomes(r, q)
<1> DEFINE old == rd[r]
           C == old.cites \cap SemanticChunks(commits)
<1>1. old \in Request /\ Good(old) /\ old.pc = "rerank" /\ embedded \in SUBSET ChunkId
  BY ReaderTyped DEF Revalidate
<1>2. old.exact /\ old.strictOnly = TRUE
  BY <1>1 DEF Good, Request
<1>3. C \in SUBSET ChunkId /\ C \subseteq ChunksOf(Eligible(commits, TRUE))
  BY <1>1 DEF Request, SemanticChunks
<1>4. rd' = [rd EXCEPT ![r] = [old EXCEPT !.pc = "done", !.at = commits, !.cites = C,
                                          !.seen = old.seen]]
  BY <1>1 DEF Revalidate, Request
<1>5. old.seen \in SUBSET ChunkId
      /\ \A v \in Eligible(old.covered, TRUE) : v.chunks \subseteq old.seen
  BY <1>1, <1>2 DEF Good, HasRead, Request
<1>6. QED
  BY <1>1, <1>2, <1>3, <1>4, <1>5, ReadNowGood

LEMMA ReaderMoves ==
  ASSUME CorpusInv, NEW r \in Reader, ReaderNext(r)
  PROVE  \E q \in Request : Becomes(r, q)
<1>1. ASSUME ReadFails(r) PROVE \E q \in Request : Becomes(r, q)
  BY <1>1, UnaskedGood DEF ReadFails, Becomes
<1>2. QED
  BY <1>1, AskGood, CheckCoverageGood, FirstLaneGood, SecondLaneGood, RevalidateGood DEF ReaderNext

-------------------------------------------------------------------------------
(***************************************************************************)
(* The invariant and what follows from it                                  *)
(***************************************************************************)
LEMMA CorpusInit == Init => CorpusInv
<1> SUFFICES ASSUME Init PROVE CorpusInv
  OBVIOUS
<1>1. DocInv
  BY DocInitInv DEF Init
<1>2. Base
  BY <1>1 DEF Init, DocInit, Base, CommittedByNow, ChunksHaveOneOwner
<1>3. RowsKnown
  <2>1. bf \in [Backfill -> Work]
    BY DEF Init, Work
  <2>2. QED
    BY <2>1 DEF Init, RowsKnown, DueSound, DueIn
<1>4. Unasked \in Request /\ Good(Unasked)
  BY DEF Init, DocInit, Unasked, Request, Good, HasRead, Modes
<1>5. QED
  BY <1>2, <1>3, <1>4 DEF CorpusInv, ReadersGood, Init

\* The numbers of C below c
Below(C, c) == {b \in C : b < c}

\* Numbers are told apart by how many of their set lie below them.
LEMMA Ranks ==
  ASSUME NEW C \in SUBSET Nat
  PROVE  /\ \A c \in C : IsFiniteSet(Below(C, c)) /\ Cardinality(Below(C, c)) \in Nat
         /\ \A c, d \in C : c < d => Cardinality(Below(C, c)) < Cardinality(Below(C, d))
<1>1. ASSUME NEW c \in C
      PROVE  IsFiniteSet(Below(C, c)) /\ Cardinality(Below(C, c)) \in Nat
  <2>1. c \in Nat /\ IsFiniteSet(0 .. c)
    BY FS_Interval
  <2>2. Below(C, c) \in SUBSET (0 .. c)
    <3>1. \A b \in C : b \in Nat /\ (b < c => b \in 0 .. c)
      BY <2>1
    <3>2. QED
      BY <3>1 DEF Below
  <2>3. IsFiniteSet(Below(C, c))
    BY <2>1, <2>2, FS_Subset
  <2>4. QED
    BY <2>3, FS_CardinalityType
<1>2. ASSUME NEW c \in C, NEW d \in C, c < d
      PROVE  Cardinality(Below(C, c)) < Cardinality(Below(C, d))
  <2>1. /\ Below(C, c) \in SUBSET Below(C, d)
        /\ c \in Below(C, d) /\ c \notin Below(C, c)
    <3>1. c \in Nat /\ d \in Nat /\ ~(c < c)
      OBVIOUS
    <3>2. \A b \in C : b < c => b < d
      BY <1>2, <3>1
    <3>3. QED
      BY <1>2, <3>1, <3>2 DEF Below
  <2>2. Below(C, c) # Below(C, d)
    BY <2>1
  <2>3. IsFiniteSet(Below(C, d))
    BY <1>1
  <2>4. /\ Cardinality(Below(C, c)) <= Cardinality(Below(C, d))
        /\ Cardinality(Below(C, d)) = Cardinality(Below(C, c)) => Below(C, d) = Below(C, c)
    BY <2>1, <2>3, FS_Subset
  <2>5. Cardinality(Below(C, c)) \in Nat /\ Cardinality(Below(C, d)) \in Nat
    BY <1>1
  <2>6. QED
    BY <2>2, <2>4, <2>5
<1>3. QED
  BY <1>1, <1>2

\* Two numbers of S have the same rank only if they are the same, so the ranks of a
\* finite set cannot all lie in a smaller one.
LEMMA RanksNeedRoom ==
  ASSUME NEW S \in SUBSET Nat, IsFiniteSet(S), NEW T, IsFiniteSet(T),
         Cardinality(T) < Cardinality(S),
         \A c \in S : Cardinality(Below(S, c)) \in T
  PROVE  FALSE
<1> DEFINE f == [c \in S |-> Cardinality(Below(S, c))]
<1>1. f \in [S -> T]
  OBVIOUS
<1>2. \E x, y \in S : x # y /\ f[x] = f[y]
  <2> HIDE DEF f
  <2>1. QED
    BY <1>1, FS_PigeonHole
<1>3. PICK x \in S, y \in S : x # y /\ f[x] = f[y]
  BY <1>2
<1>4. /\ Cardinality(Below(S, x)) = Cardinality(Below(S, y))
      /\ Cardinality(Below(S, x)) \in Nat /\ Cardinality(Below(S, y)) \in Nat
  BY <1>3, Ranks
<1>5. x < y \/ y < x
  BY <1>3
<1>6. \/ Cardinality(Below(S, x)) < Cardinality(Below(S, y))
      \/ Cardinality(Below(S, y)) < Cardinality(Below(S, x))
  BY <1>5, Ranks
<1>7. QED
  BY <1>4, <1>6

\* A finite set of numbers has a least and a greatest one.
LEMMA Extremes ==
  ASSUME NEW S \in SUBSET Nat, IsFiniteSet(S), S # {}
  PROVE  /\ \E x \in S : \A y \in S : x <= y
         /\ \E x \in S : \A y \in S : y <= x
<1> DEFINE n == Cardinality(S)
<1>1. n \in Nat /\ n # 0
  BY FS_CardinalityType, FS_EmptySet
<1>2. ASSUME NEW c \in S PROVE Cardinality(Below(S, c)) \in Nat /\ Cardinality(Below(S, c)) < n
  <2>1. Below(S, c) \in SUBSET S /\ c \notin Below(S, c)
    BY DEF Below
  <2>2. Below(S, c) # S
    BY <2>1
  <2>3. Cardinality(Below(S, c)) <= n /\ (n = Cardinality(Below(S, c)) => S = Below(S, c))
    BY <2>1, FS_Subset
  <2>4. Cardinality(Below(S, c)) \in Nat
    BY Ranks
  <2>5. QED
    BY <1>1, <2>2, <2>3, <2>4
<1>3. \E x \in S : \A y \in S : x <= y
  <2>1. SUFFICES ASSUME ~ \E x \in S : \A y \in S : x <= y PROVE FALSE
    OBVIOUS
  <2>2. ASSUME NEW c \in S PROVE Cardinality(Below(S, c)) \in 1 .. (n - 1)
    <3>1. PICK y \in S : ~(c <= y)
      BY <2>1
    <3>2. y \in Below(S, c)
      BY <3>1 DEF Below
    <3>3. IsFiniteSet(Below(S, c)) /\ Cardinality(Below(S, c)) # 0
      BY <3>2, Ranks, FS_EmptySet
    <3>4. QED
      BY <1>1, <1>2, <3>3
  <2>3. IsFiniteSet(1 .. (n - 1)) /\ Cardinality(1 .. (n - 1)) < n
    <3>1. n - 1 \in Int
      BY <1>1
    <3>2. /\ IsFiniteSet(1 .. (n - 1))
          /\ Cardinality(1 .. (n - 1)) = IF 1 > n - 1 THEN 0 ELSE (n - 1) - 1 + 1
      <4> HIDE DEF n
      <4>1. QED
        BY <3>1, FS_Interval
    <3>3. QED
      BY <1>1, <3>1, <3>2
  <2> HIDE DEF n
  <2>4. QED
    BY <2>2, <2>3, RanksNeedRoom DEF n
<1>4. \E x \in S : \A y \in S : y <= x
  <2>1. SUFFICES ASSUME ~ \E x \in S : \A y \in S : y <= x PROVE FALSE
    OBVIOUS
  <2>2. ASSUME NEW c \in S PROVE Cardinality(Below(S, c)) \in 0 .. (n - 2)
    <3>1. PICK y \in S : ~(y <= c)
      BY <2>1
    <3>2. c < y
      BY <3>1
    <3>3. Cardinality(Below(S, c)) < Cardinality(Below(S, y))
      BY <3>2, Ranks
    <3>4. QED
      BY <1>1, <1>2, <3>3
  <2>3. IsFiniteSet(0 .. (n - 2)) /\ Cardinality(0 .. (n - 2)) < n
    <3>1. n - 2 \in Int
      BY <1>1
    <3>2. /\ IsFiniteSet(0 .. (n - 2))
          /\ Cardinality(0 .. (n - 2)) = IF 0 > n - 2 THEN 0 ELSE (n - 2) - 0 + 1
      <4> HIDE DEF n
      <4>1. QED
        BY <3>1, FS_Interval
    <3>3. QED
      BY <1>1, <3>1, <3>2
  <2> HIDE DEF n
  <2>4. QED
    BY <2>2, <2>3, RanksNeedRoom DEF n
<1>5. QED
  BY <1>3, <1>4

\* A batch of something is not empty, and everything else is behind its last chunk.
LEMMA BatchIsCut ==
  ASSUME NEW C \in SUBSET ChunkId, C # {}
  PROVE  /\ Max(FirstBatch(C)) \in FirstBatch(C)
         /\ \A k \in C \ FirstBatch(C) : k > Max(FirstBatch(C))
<1>1. C \in SUBSET Nat /\ BatchSize \in Nat \ {0}
  BY DocumentAssumption, CorpusAssumption
<1> DEFINE B == FirstBatch(C)
           Rank(c) == Cardinality(Below(C, c))
<1>2. B = {c \in C : Rank(c) < BatchSize}
  BY DEF FirstBatch, Below
<1>3. \A c \in C : IsFiniteSet(Below(C, c)) /\ Rank(c) \in Nat
  BY <1>1, Ranks
<1>4. \A c, d \in C : c < d => Rank(c) < Rank(d)
  BY <1>1, Ranks
<1>5. B # {}
  <2>1. PICK x \in C : TRUE
    OBVIOUS
  <2> DEFINE S == C \cap (0 .. x)
  <2>2. S \in SUBSET Nat /\ IsFiniteSet(S) /\ x \in S
    <3>1. x \in Nat /\ IsFiniteSet(0 .. x)
      BY <1>1, <2>1, FS_Interval
    <3>2. S \in SUBSET (0 .. x)
      OBVIOUS
    <3>3. QED
      BY <3>1, <3>2, <2>1, FS_Subset
  <2>3. PICK m \in S : \A y \in S : m <= y
    BY <2>2, Extremes
  <2>4. Below(C, m) = {}
    <3>1. m \in Nat /\ x \in Nat /\ m <= x
      BY <1>1, <2>2, <2>3
    <3>2. ASSUME NEW b \in C, b < m PROVE FALSE
      <4>1. b \in Nat /\ b \in 0 .. x
        BY <1>1, <3>1, <3>2
      <4>2. m <= b
        BY <2>3, <4>1
      <4>3. QED
        BY <3>1, <3>2, <4>1, <4>2
    <3>3. QED
      BY <3>2 DEF Below
  <2>5. Rank(m) = 0
    BY <2>4, FS_EmptySet
  <2>6. QED
    BY <1>1, <1>2, <2>2, <2>3, <2>5
<1> HIDE DEF B, Rank
<1>6. B \in SUBSET Nat /\ IsFiniteSet(B)
  <2> DEFINE f == [c \in B |-> Rank(c)]
             T == 0 .. (BatchSize - 1)
  <2>1. IsFiniteSet(T)
    BY <1>1, FS_Interval
  <2>2. f \in [B -> T]
    BY <1>1, <1>2, <1>3
  <2>3. \A a, b \in B : f[a] = f[b] => a = b
    BY <1>1, <1>2, <1>3, <1>4
  <2>4. f \in Injection(B, T)
    BY <2>2, <2>3 DEF Injection, IsInjective
  <2>5. IsFiniteSet(B)
    BY <2>1, <2>4, FS_Injection
  <2>6. QED
    BY <1>1, <1>2, <2>5
<1>7. PICK m \in B : \A y \in B : y <= m
  BY <1>5, <1>6, Extremes
<1>8. Max(B) = m
  <2>1. \A x \in B : (\A y \in B : x >= y) => x = m
    BY <1>6, <1>7
  <2>2. \A y \in B : m >= y
    BY <1>6, <1>7
  <2>3. QED
    BY <2>1, <2>2 DEF Max
<1>9. ASSUME NEW k \in C, k \notin B PROVE k > m
  <2>1. m \in C /\ m \in Nat /\ k \in Nat
    BY <1>1, <1>2
  <2>2. ~(Rank(k) < BatchSize) /\ Rank(m) < BatchSize
    BY <1>2, <1>9
  <2>3. ~(k < m)
    <3>1. k < m => Rank(k) < Rank(m)
      BY <1>4, <2>1
    <3>2. QED
      BY <1>1, <1>3, <2>1, <2>2, <3>1
  <2>4. k # m
    BY <1>9
  <2>5. QED
    BY <2>1, <2>3, <2>4
<1>10. QED
  BY <1>8, <1>9 DEF B

\* A stored chunk stays stored, and a replaced one replaced.
LEMMA ChunksStay ==
  ASSUME Base, [DocNext]_docVars
  PROVE  ChunksOf(versions) \subseteq ChunksOf(versions)' /\ Replaced \subseteq Replaced'
<1>1. CASE versions' = versions
  BY <1>1 DEF Replaced, LatestStrictChunks, ChunksOf, Strict, LatestIn
<1>2. ASSUME NEW v \in Version, versions' = versions \cup {v}, v.chunks \subseteq FreeChunks
      PROVE  ChunksOf(versions) \subseteq ChunksOf(versions)' /\ Replaced \subseteq Replaced'
  <2>1. ChunksOf(versions) \subseteq ChunksOf(versions)'
    BY <1>2 DEF ChunksOf
  <2>2. ChunksOf(versions) \cap v.chunks = {}
    BY <1>2 DEF ChunksOf, FreeChunks
  <2>3. LatestIn(versions)' \subseteq LatestIn(versions) \cup {v}
    BY <1>2 DEF LatestIn
  <2>4. LatestStrictChunks' \subseteq LatestStrictChunks \cup v.chunks
    BY <2>3 DEF LatestStrictChunks, Strict, ChunksOf
  <2>5. QED
    BY <2>1, <2>2, <2>4 DEF Replaced
<1>3. QED
  BY <1>1, <1>2, VersionsGrow DEF Base

LEMMA DueStays ==
  ASSUME ChunksOf(versions) \subseteq ChunksOf(versions)', Replaced \subseteq Replaced',
         embedded \subseteq embedded', NEW w \in Work, DueSound(w)
  PROVE  DueSound(w)'
  BY DEF DueSound, DueIn

\* A step of a backfill: it embeds chunks it found in the tables, takes no row back and
\* keeps account of what it owes.
LEMMA BackfillStep ==
  ASSUME CorpusInv, NEW b \in Backfill, BackfillNext(b)
  PROVE  RowsKnown' /\ embedded \subseteq embedded'
<1>1. /\ bf[b] \in Work /\ DueSound(bf[b]) /\ embedded \subseteq ChunksOf(versions)
      /\ ChunksOf(versions) \subseteq ChunkId
  BY DEF CorpusInv, RowsKnown, Base, DocInv, DocTypeOK, Version, ChunksOf
<1>2. versions' = versions
  BY DEF BackfillNext, BackfillStart, FetchMissingBatch, InsertMissing, BackfillFails, docVars
<1>3. /\ ChunksOf(versions)' = ChunksOf(versions) /\ Replaced' = Replaced
  BY <1>2 DEF ChunksOf, Replaced, LatestStrictChunks, Strict, LatestIn
<1>4. LatestStrictChunks \subseteq ChunksOf(versions)
  BY DEF LatestStrictChunks, ChunksOf, Strict, LatestIn
<1>5. ASSUME NEW w \in Work, bf' = [bf EXCEPT ![b] = w], embedded \subseteq embedded',
             embedded' \subseteq ChunksOf(versions), DueIn(w, embedded')
      PROVE  RowsKnown' /\ embedded \subseteq embedded'
  <2>1. /\ bf' \in [Backfill -> Work]
        /\ \A c \in Backfill : bf'[c] = IF c = b THEN w ELSE bf[c]
    BY <1>5 DEF CorpusInv, RowsKnown
  <2>2. \A c \in Backfill : DueSound(bf[c])'
    BY <1>3, <1>5, DueStays, <2>1 DEF CorpusInv, RowsKnown, DueSound, DueIn
  <2>3. QED
    BY <1>3, <1>5, <2>1, <2>2 DEF RowsKnown
<1>6. CASE BackfillStart(b)
  <2> DEFINE w == [pc |-> "fetch", cursor |-> 0, batch |-> {}, due |-> Missing]
  <2>1. Missing \subseteq ChunksOf(versions) /\ Missing \subseteq ChunkId
    BY <1>1, <1>4 DEF Missing
  <2>2. w \in Work
    BY <2>1 DEF Work
  <2>3. \A k \in Missing : k > 0
    BY <2>1, DocumentAssumption
  <2>4. DueIn(w, embedded')
    BY <1>3, <2>1, <2>3 DEF DueSound, DueIn
  <2>5. bf' = [bf EXCEPT ![b] = w] /\ embedded' = embedded
    BY <1>6 DEF BackfillStart
  <2>6. QED
    BY <1>1, <1>5, <2>2, <2>4, <2>5
<1>7. CASE FetchMissingBatch(b)
  <2> DEFINE batch == FirstBatch(Behind(b))
  <2>1. Behind(b) \subseteq ChunksOf(versions) /\ Behind(b) \subseteq ChunkId
    BY <1>1, <1>4 DEF Behind, Missing
  <2>2. batch \subseteq Behind(b)
    BY DEF FirstBatch
  <2>3. bf[b].pc = "fetch" /\ embedded' = embedded /\ bf[b].batch = {}
    BY <1>1, <1>7 DEF FetchMissingBatch, DueSound, DueIn
  <2>4. \A k \in bf[b].due : k \in embedded \cup Replaced \cup Behind(b)
    BY <1>1, <2>3 DEF DueSound, DueIn, Behind, Missing, Replaced
  <2>5. CASE batch = {}
    <3> DEFINE w == [bf[b] EXCEPT !.pc = "done"]
    <3>1. Behind(b) = {}
      BY <2>1, <2>5, BatchIsCut
    <3>2. w \in Work
      BY <1>1 DEF Work
    <3>3. DueIn(w, embedded')
      BY <1>1, <1>3, <2>3, <2>4, <3>1 DEF DueSound, DueIn, Work
    <3>4. bf' = [bf EXCEPT ![b] = w]
      BY <1>7, <2>5, <1>1 DEF FetchMissingBatch, CorpusInv, RowsKnown
    <3>5. QED
      BY <1>1, <1>5, <2>3, <3>2, <3>3, <3>4
  <2>6. CASE batch # {}
    <3> DEFINE w == [bf[b] EXCEPT !.pc = "embed", !.batch = batch, !.cursor = Max(batch)]
    <3>1. Behind(b) # {}
      BY <2>2, <2>6
    <3>2. Max(batch) \in batch /\ \A k \in Behind(b) \ batch : k > Max(batch)
      BY <2>1, <3>1, BatchIsCut
    <3>3. bf' = [bf EXCEPT ![b] = w]
      BY <1>7, <2>6 DEF FetchMissingBatch, CorpusInv, RowsKnown
    <3> HIDE DEF batch
    <3>4. w \in Work
      BY <1>1, <2>1, <2>2, <3>2 DEF Work
    <3>5. /\ w.due = bf[b].due /\ w.batch = batch /\ w.cursor = Max(batch) /\ w.pc = "embed"
      BY <1>1 DEF Work
    <3> HIDE DEF w
    <3>6. \A k \in w.due : k \in embedded \cup Replaced \cup w.batch \/ k > w.cursor
      BY <2>4, <3>2, <3>5
    <3>7. w.batch \subseteq ChunksOf(versions) /\ w.due \subseteq ChunksOf(versions)
      BY <1>1, <2>1, <2>2, <3>5 DEF DueSound, DueIn
    <3>8. DueIn(w, embedded')
      BY <1>3, <2>3, <3>5, <3>6, <3>7 DEF DueSound, DueIn
    <3>9. QED
      BY <1>1, <1>5, <2>3, <3>3, <3>4, <3>8
  <2>7. QED
    BY <2>5, <2>6
<1>8. CASE InsertMissing(b)
  <2> DEFINE w == [bf[b] EXCEPT !.pc = "fetch", !.batch = {}]
  <2>1. bf' = [bf EXCEPT ![b] = w] /\ embedded' = embedded \cup bf[b].batch
        /\ bf[b].pc = "embed"
    BY <1>8 DEF InsertMissing, CorpusInv, RowsKnown
  <2>2. w \in Work /\ w.pc = "fetch" /\ w.batch = {} /\ w.due = bf[b].due
        /\ w.cursor = bf[b].cursor
    BY <1>1 DEF Work
  <2>3. embedded' \subseteq ChunksOf(versions)
    BY <1>1, <2>1 DEF DueSound, DueIn
  <2> HIDE DEF w
  <2>4. DueIn(w, embedded')
    BY <1>1, <1>3, <2>1, <2>2 DEF DueSound, DueIn
  <2>5. QED
    BY <1>5, <2>1, <2>2, <2>3, <2>4
<1>9. CASE BackfillFails(b)
  <2> DEFINE w == [pc |-> "idle", cursor |-> 0, batch |-> {}, due |-> {}]
  <2>1. w \in Work
    BY DEF Work
  <2>2. DueIn(w, embedded')
    BY DEF DueSound, DueIn
  <2>3. bf' = [bf EXCEPT ![b] = w] /\ embedded' = embedded
    BY <1>9 DEF BackfillFails
  <2>4. QED
    BY <1>1, <1>5, <2>1, <2>2, <2>3
<1>10. QED
  BY <1>6, <1>7, <1>8, <1>9 DEF BackfillNext

LEMMA RowsStep ==
  ASSUME CorpusInv, [Next]_vars
  PROVE  RowsKnown' /\ embedded \subseteq embedded'
<1>1. ASSUME UNCHANGED <<embedded, bf>> PROVE RowsKnown' /\ embedded \subseteq embedded'
  <2>1. ChunksOf(versions) \subseteq ChunksOf(versions)' /\ Replaced \subseteq Replaced'
    BY ChunksStay, NextMovesDocuments DEF CorpusInv
  <2>2. \A b \in Backfill : DueSound(bf[b])'
    BY <1>1, <2>1, DueStays DEF CorpusInv, RowsKnown
  <2>3. QED
    BY <1>1, <2>1, <2>2 DEF CorpusInv, RowsKnown
<1>2. ASSUME NEW r \in Reader, ReaderNext(r) PROVE UNCHANGED <<embedded, bf>>
  BY <1>2 DEF ReaderNext, Ask, CheckCoverage, FirstLane, SecondLane, Revalidate, ReadFails
<1>3. QED
  BY <1>1, <1>2, BackfillStep DEF Next, vars

LEMMA ReadersStep ==
  ASSUME CorpusInv, [Next]_vars
  PROVE  ReadersGood'
<1>1. /\ rd \in [Reader -> Request]
      /\ \A r \in Reader : rd[r] \in Request /\ Good(rd[r])
  BY ReaderTyped DEF CorpusInv, ReadersGood
<1>2. \A q \in Request : Good(q) => Good(q)'
  BY GoodStays, RowsStep, NextMovesDocuments DEF CorpusInv
<1>3. CASE UNCHANGED rd
  BY <1>1, <1>2, <1>3 DEF ReadersGood
<1>4. ASSUME NEW r \in Reader, ReaderNext(r) PROVE ReadersGood'
  <2>1. PICK q \in Request : Good(q) /\ rd' = [rd EXCEPT ![r] = q]
    BY <1>4, ReaderMoves DEF Becomes
  <2>2. rd' \in [Reader -> Request]
    BY <1>1, <2>1
  <2>3. \A s \in Reader, p \in Request : rd'[s] = p => Good(p)
    BY <1>1, <2>1
  <2>4. QED
    BY <1>2, <2>2, <2>3 DEF ReadersGood
<1>5. ASSUME NEW b \in Backfill, BackfillNext(b) PROVE UNCHANGED rd
  BY <1>5 DEF BackfillNext, BackfillStart, FetchMissingBatch, InsertMissing, BackfillFails
<1>6. QED
  BY <1>3, <1>4, <1>5 DEF Next, vars

LEMMA CorpusStep == CorpusInv /\ [Next]_vars => CorpusInv'
  BY BaseStep, NextMovesDocuments, RowsStep, ReadersStep DEF CorpusInv

LEMMA CorpusAlways == Spec => []CorpusInv
  BY CorpusInit, CorpusStep, PTL DEF Spec

LEMMA InvOneInstant == CorpusInv => RunSeesOneInstant
<1> SUFFICES ASSUME CorpusInv, NEW r \in Reader, rd[r].pc = "done",
                    NEW v \in versions, v.chunks \cap rd[r].cites # {}
             PROVE  /\ v.at <= rd[r].at
                    /\ \A w \in versions :
                          w.doc = v.doc /\ w.at <= rd[r].at => w.number <= v.number
                    /\ rd[r].strictOnly => v.snapshot \in StrictSnapshot
  BY DEF RunSeesOneInstant
<1>1. rd[r].cites \subseteq ChunksOf(Eligible(rd[r].at, rd[r].strictOnly))
  BY ReaderTyped DEF Good, HasRead
<1>2. PICK c \in v.chunks : c \in rd[r].cites
  OBVIOUS
<1>3. PICK w \in Eligible(rd[r].at, rd[r].strictOnly) : c \in w.chunks
  BY <1>1, <1>2 DEF ChunksOf
<1>4. w \in versions
  BY <1>3 DEF Eligible, Strict, LatestIn, SnapshotAt
<1>5. v = w
  BY <1>2, <1>3, <1>4 DEF CorpusInv, Base, ChunksHaveOneOwner
<1>6. QED
  BY <1>3, <1>5 DEF Eligible, Strict, LatestIn, SnapshotAt

LEMMA InvExactRuns == CorpusInv => ExactRunsMissOnlyTheNew
<1> SUFFICES ASSUME CorpusInv, NEW r \in Reader, rd[r].pc = "done", rd[r].exact,
                    NEW v \in Eligible(rd[r].at, TRUE), v.at <= rd[r].covered
             PROVE  v.chunks \subseteq rd[r].seen
  BY DEF ExactRunsMissOnlyTheNew
<1>1. Good(rd[r]) /\ rd[r].at \in Nat /\ rd[r].covered \in Nat
      /\ rd[r].covered <= rd[r].at
  BY ReaderTyped DEF Request, Good, HasRead
<1>2. v.at \in Nat /\ v.at <= rd[r].at
  BY ReaderTyped DEF Eligible, Strict, LatestIn, SnapshotAt
<1>3. v \in Eligible(rd[r].covered, TRUE)
  BY <1>1, <1>2, OldWasEligible
<1>4. QED
  BY <1>1, <1>3 DEF Good, HasRead

\* A backfill that ran to its end embedded every chunk that was missing when it started,
\* unless a newer version replaced it (fetch_missing_batch and its cursor).
THEOREM BackfillsAreWhole == Spec => []BackfillCoversItsStart
<1>1. CorpusInv => BackfillCoversItsStart
  BY DEF CorpusInv, RowsKnown, DueSound, DueIn, Replaced, BackfillCoversItsStart
<1>2. QED
  BY CorpusAlways, <1>1, PTL

\* Sources, versions, semantic rows, backfills and requests keep their types.
THEOREM CorpusTypeCorrect == Spec => []CorpusTypeOK
<1>1. ASSUME CorpusInv PROVE CorpusTypeOK
  <2>1. commits \in Nat
    BY <1>1 DEF CorpusInv, Base, DocInv, DocTypeOK
  <2>2. ASSUME NEW r \in Reader
        PROVE  rd[r] \in [pc : {"idle", "coverage", "first", "second", "rerank", "done"},
                          mode : Modes, strictOnly : BOOLEAN, exact : BOOLEAN,
                          covered : 0 .. commits, at : 0 .. commits,
                          seen : SUBSET ChunkId, cites : SUBSET ChunkId]
    <3>1. rd[r] \in Request /\ rd[r].covered <= commits /\ rd[r].at <= commits
      BY <1>1, ReaderTyped DEF Good
    <3>2. rd[r].covered \in 0 .. commits /\ rd[r].at \in 0 .. commits
      BY <2>1, <3>1 DEF Request
    <3>3. QED
      BY <3>1, <3>2 DEF Request
  <2>3. bf \in [Backfill -> Work] /\ embedded \subseteq ChunksOf(versions) /\ DocTypeOK
    BY <1>1 DEF CorpusInv, RowsKnown, Base, DocInv
  <2>4. QED
    BY <1>1, <2>2, <2>3 DEF CorpusTypeOK, Work, CorpusInv, ReadersGood
<1>2. QED
  BY CorpusAlways, <1>1, PTL

\* Whatever is ingested between the lanes of a request or while its reranker works,
\* its run cites the chunks of versions that were the latest of their documents, and
\* trusted as the request demands, at the instant its transaction names
\* (hybrid_retrieval_repository.py, reranked_semantic_repository.py).
THEOREM RunsCiteOneInstant == Spec => []RunSeesOneInstant
  BY CorpusAlways, InvOneInstant, PTL

\* A run made by exact comparison saw every chunk it may cite, save those of versions
\* ingested after its coverage check (coverage_complete_for).
THEOREM ExactRunsAreExact == Spec => []ExactRunsMissOnlyTheNew
  BY CorpusAlways, InvExactRuns, PTL

-------------------------------------------------------------------------------
(***************************************************************************)
(* Questions                                                               *)
(***************************************************************************)
Verdicts == {"none", "answer", "clarification", "refusal"}

Stages == {"idle", "plan", "retrieve", "retrieving", "generate", "resolve", "done", "cancelled"}

Talk == [pc : Stages, temporal : BOOLEAN, failed : BOOLEAN, evidence : SUBSET CitationRow,
         resolved : SUBSET CitationRow, verdict : Verdicts]

\* The provider was shown the evidence.
Shown(q) == q.pc \in {"generate", "resolve"} \/ q.verdict = "answer"

\* What is true of a question q and its run p at every step
Sound(q, p) ==
    /\ q.verdict # "none" <=> q.pc = "done"
    /\ q.pc = "retrieving" => p.strictOnly
    /\ q.pc \in {"idle", "plan", "retrieve", "retrieving"} => q.evidence = {}
    /\ q.pc \in {"idle", "plan", "retrieve", "retrieving", "generate"} => q.resolved = {}
    /\ Shown(q) => /\ p.pc = "done" /\ p.strictOnly /\ p.cites # {}
                   /\ q.evidence = RowsFor(p.cites)
                   /\ q.resolved \subseteq q.evidence
    /\ q.verdict = "answer" => q.resolved = q.evidence
    /\ q.verdict = "refusal" => q.temporal \/ q.failed

TalksSound ==
    /\ ch \in [Reader -> Talk]
    /\ \A c \in Reader, q \in Talk, p \in Request : ch[c] = q /\ rd[c] = p => Sound(q, p)

ChatInv == CorpusInv /\ TalksSound

-------------------------------------------------------------------------------
(***************************************************************************)
(* The rows behind citations                                               *)
(***************************************************************************)
LEMMA ChatMovesCorpus == [ChatNext]_chatVars => [Next]_vars
<1> SUFFICES ASSUME [ChatNext]_chatVars PROVE [Next]_vars
  OBVIOUS
<1>1. ASSUME NEW c \in Reader, Respond(c) PROVE [Next]_vars
  BY <1>1 DEF Respond, Plan, Retrieve, Retrieving, Ground, Generate, Resolve, Next, ReaderNext
<1>2. ASSUME NEW c \in Reader, Receive(c) \/ Cancel(c) PROVE [Next]_vars
  BY <1>2 DEF Receive, Cancel, Next, ReaderNext
<1>3. QED
  BY <1>1, <1>2 DEF ChatNext, Next, chatVars, vars

\* The citations of a stored strict run are chunks of stored strict versions.
LEMMA CitedIsOwned ==
  ASSUME CorpusInv, NEW p \in Request, Good(p), p.pc = "done", p.strictOnly, NEW k \in p.cites
  PROVE  \E v \in versions : v.snapshot \in StrictSnapshot /\ k \in v.chunks
<1>1. p.cites \subseteq ChunksOf(Eligible(p.at, TRUE))
  BY DEF Good, HasRead, Request
<1>2. QED
  BY <1>1 DEF ChunksOf, Eligible, Strict, LatestIn, SnapshotAt

\* The join finds one row for an owned chunk, and it is about that chunk.
LEMMA RowOfOwned ==
  ASSUME CorpusInv, NEW k, NEW v \in versions, v.snapshot \in StrictSnapshot, k \in v.chunks
  PROVE  \E row \in CitationRow : row.chunk = k /\ RowOf(k) = {row}
<1> DEFINE row == [chunk |-> k, doc |-> v.doc, number |-> v.number, snapshot |-> v.snapshot]
<1>1. v \in Version /\ k \in ChunkId
  BY DEF CorpusInv, Base, DocInv, DocTypeOK, Version
<1>2. row \in CitationRow
  BY <1>1 DEF CitationRow, Version
<1>3. {w \in Strict(versions) : k \in w.chunks} = {v}
  BY DEF Strict, CorpusInv, Base, ChunksHaveOneOwner
<1>4. RowOf(k) = {row}
  BY <1>3 DEF RowOf, RowIn
<1>5. QED
  BY <1>2, <1>4

\* The row of an owned chunk stays what it is, whatever is ingested.
LEMMA RowStays ==
  ASSUME CorpusInv, [Next]_vars, NEW k, NEW v \in versions, k \in v.chunks
  PROVE  RowOf(k)' = RowOf(k)
<1>1. DocInv /\ [DocNext]_docVars
  BY NextMovesDocuments DEF CorpusInv, Base
<1>2. CASE versions' = versions
  BY <1>2 DEF RowOf, RowIn, Strict
<1>3. ASSUME NEW n \in Version, versions' = versions \cup {n}, n.chunks \subseteq FreeChunks
      PROVE  RowOf(k)' = RowOf(k)
  <2>1. k \notin n.chunks
    BY <1>3 DEF FreeChunks
  <2>2. {w \in Strict(versions)' : k \in w.chunks} = {w \in Strict(versions) : k \in w.chunks}
    BY <1>3, <2>1 DEF Strict
  <2>3. QED
    BY <2>2 DEF RowOf, RowIn
<1>4. QED
  BY <1>1, <1>2, <1>3, VersionsGrow

LEMMA RowsStay ==
  ASSUME CorpusInv, [Next]_vars, NEW p \in Request, Good(p), p.pc = "done", p.strictOnly
  PROVE  RowsFor(p.cites)' = RowsFor(p.cites)
<1>1. \A k \in p.cites : RowOf(k)' = RowOf(k)
  BY CitedIsOwned, RowStays
<1>2. QED
  BY <1>1 DEF RowsFor

LEMMA SoundStays ==
  ASSUME CorpusInv, [Next]_vars, NEW q \in Talk, NEW p \in Request, Good(p), Sound(q, p)
  PROVE  Sound(q, p)'
  BY RowsStay DEF Sound, Shown

-------------------------------------------------------------------------------
(***************************************************************************)
(* What each step of a question makes of it                                *)
(***************************************************************************)

\* A question o becomes q: the evidence is shown, a verdict is given, or neither.
Moves(o, q) ==
    /\ o.verdict = "none"
    /\ \/ q.evidence = o.evidence /\ q.verdict = "none"
       \/ o.evidence = {} /\ q.evidence # {} /\ q.verdict = "none"
       \/ /\ q.evidence = o.evidence /\ o.evidence # {}
          /\ q.verdict = "answer" /\ q.resolved = o.evidence
       \/ q.evidence = o.evidence /\ q.verdict = "refusal"
       \/ q.evidence = o.evidence /\ o.evidence = {} /\ q.verdict = "clarification"

\* The question c becomes q, which is sound with its run of afterwards.
Turns(c, q) ==
    q \in Talk /\ Sound(q, rd'[c]) /\ Moves(ch[c], q) /\ ch' = [ch EXCEPT ![c] = q]

LEMMA TalkTyped ==
  ASSUME ChatInv, NEW c \in Reader
  PROVE  /\ CorpusInv
         /\ ch[c] \in Talk /\ rd[c] \in Request /\ Good(rd[c]) /\ Sound(ch[c], rd[c])
         /\ ch \in [Reader -> Talk] /\ rd \in [Reader -> Request]
<1>1. rd[c] \in Request /\ Good(rd[c]) /\ rd \in [Reader -> Request]
  BY ReaderTyped DEF ChatInv, CorpusInv, ReadersGood
<1>2. QED
  BY <1>1 DEF ChatInv, TalksSound

LEMMA ReceiveTurns ==
  ASSUME ChatInv, NEW c \in Reader, Receive(c)
  PROVE  \E q \in Talk : Turns(c, q)
<1>1. PICK temporal \in BOOLEAN, planned \in BOOLEAN :
        ch' = [ch EXCEPT ![c].temporal = temporal,
                         ![c].pc = IF planned THEN "plan" ELSE "retrieve"]
  BY DEF Receive
<1> DEFINE q == [ch[c] EXCEPT !.temporal = temporal,
                              !.pc = IF planned THEN "plan" ELSE "retrieve"]
<1>2. ch' = [ch EXCEPT ![c] = q] /\ rd' = rd /\ ch[c].pc = "idle"
  BY <1>1, TalkTyped DEF Receive, vars
<1>3. q \in Talk
  BY TalkTyped DEF Talk, Stages
<1>4. Sound(q, rd[c]) /\ Moves(ch[c], q)
  BY <1>2, TalkTyped DEF Sound, Shown, Talk, Moves
<1>5. QED
  BY <1>2, <1>3, <1>4 DEF Turns

LEMMA PlanTurns ==
  ASSUME ChatInv, NEW c \in Reader, Plan(c)
  PROVE  \E q \in Talk : Turns(c, q)
<1> DEFINE q == [ch[c] EXCEPT !.pc = "retrieve"]
<1>2. ch' = [ch EXCEPT ![c] = q] /\ rd' = rd /\ ch[c].pc = "plan"
  BY TalkTyped DEF Plan, vars
<1>3. q \in Talk
  BY TalkTyped DEF Talk, Stages
<1>4. Sound(q, rd[c]) /\ Moves(ch[c], q)
  BY <1>2, TalkTyped DEF Sound, Shown, Talk, Moves
<1>5. QED
  BY <1>2, <1>3, <1>4 DEF Turns

\* A refusal has its reason, from wherever it is given.
LEMMA FailTurns ==
  ASSUME ChatInv, NEW c \in Reader, Fail(c), ch[c].pc # "done"
  PROVE  \E q \in Talk : Turns(c, q)
<1> DEFINE q == [ch[c] EXCEPT !.pc = "done", !.verdict = "refusal", !.failed = TRUE]
<1>2. ch' = [ch EXCEPT ![c] = q]
  BY TalkTyped DEF Fail
<1>3. q \in Talk
  BY TalkTyped DEF Talk, Stages, Verdicts
<1>4. Moves(ch[c], q) /\ \A p : Sound(q, p)
  BY <1>2, TalkTyped DEF Sound, Shown, Talk, Moves
<1>5. QED
  BY <1>2, <1>3, <1>4 DEF Turns

LEMMA RetrieveTurns ==
  ASSUME ChatInv, NEW c \in Reader, Retrieve(c)
  PROVE  \E q \in Talk : Turns(c, q)
<1>1. ch[c].pc = "retrieve"
  BY DEF Retrieve
<1>2. CASE Fail(c)
  BY <1>1, <1>2, FailTurns
<1>3. CASE ch[c].temporal /\ Conclude(c, "refusal")
  <2> DEFINE q == [ch[c] EXCEPT !.pc = "done", !.verdict = "refusal"]
  <2>1. ch' = [ch EXCEPT ![c] = q]
    BY <1>3, TalkTyped DEF Conclude
  <2>2. q \in Talk
    BY TalkTyped DEF Talk, Stages, Verdicts
  <2>3. Moves(ch[c], q) /\ \A p : Sound(q, p)
    BY <1>1, <1>3, TalkTyped DEF Sound, Shown, Talk, Moves
  <2>4. QED
    BY <2>1, <2>2, <2>3 DEF Turns
<1>4. ASSUME ch' = [ch EXCEPT ![c].pc = "retrieving"], NEW mode \in Modes, Ask(c, mode, TRUE)
      PROVE  \E q \in Talk : Turns(c, q)
  <2> DEFINE q == [ch[c] EXCEPT !.pc = "retrieving"]
  <2>1. ch' = [ch EXCEPT ![c] = q]
    BY <1>4, TalkTyped
  <2>2. q \in Talk
    BY TalkTyped DEF Talk, Stages
  <2>3. rd'[c].strictOnly
    BY <1>4, TalkTyped DEF Ask
  <2>4. Sound(q, rd'[c]) /\ Moves(ch[c], q)
    BY <1>1, <2>3, TalkTyped DEF Sound, Shown, Talk, Moves
  <2>5. QED
    BY <2>1, <2>2, <2>4 DEF Turns
<1>5. QED
  BY <1>2, <1>3, <1>4 DEF Retrieve

\* The repository at work does not widen the trust that was asked for.
LEMMA TrustStays ==
  ASSUME ChatInv, NEW c \in Reader,
         CheckCoverage(c) \/ FirstLane(c) \/ SecondLane(c) \/ Revalidate(c)
  PROVE  rd'[c].strictOnly = rd[c].strictOnly
<1>1. rd \in [Reader -> Request]
  BY TalkTyped
<1>2. CASE CheckCoverage(c)
  BY <1>1, <1>2 DEF CheckCoverage, Request
<1>3. CASE FirstLane(c)
  <2>1. PICK C : \/ rd' = [rd EXCEPT ![c].at = commits, ![c].cites = C,
                          ![c].pc = IF rd[c].mode = "lexical" THEN "second" ELSE "done"]
                 \/ rd' = [rd EXCEPT ![c].at = commits, ![c].cites = C, ![c].seen = embedded,
                          ![c].pc = CASE rd[c].mode = "hybrid" -> "second"
                                      [] rd[c].mode = "reranked" /\ C # {} -> "rerank"
                                      [] OTHER -> "done"]
    BY <1>3 DEF FirstLane
  <2>2. QED
    BY <1>1, <2>1 DEF Request
<1>4. CASE SecondLane(c)
  BY <1>1, <1>4, ZenonT(60) DEF SecondLane, Request
<1>5. CASE Revalidate(c)
  BY <1>1, <1>5 DEF Revalidate, Request
<1>6. QED
  BY <1>2, <1>3, <1>4, <1>5

LEMMA RetrievingTurns ==
  ASSUME ChatInv, NEW c \in Reader, Retrieving(c)
  PROVE  \E q \in Talk : Turns(c, q)
<1>1. ch[c].pc = "retrieving"
  BY DEF Retrieving
<1>2. CASE Fail(c)
  BY <1>1, <1>2, FailTurns
<1>3. CASE UNCHANGED ch /\ (CheckCoverage(c) \/ FirstLane(c) \/ SecondLane(c) \/ Revalidate(c))
  <2>1. rd'[c].strictOnly
    BY <1>1, <1>3, TrustStays, TalkTyped DEF Sound
  <2>2. ch' = [ch EXCEPT ![c] = ch[c]]
    BY <1>3, TalkTyped
  <2>3. Sound(ch[c], rd'[c]) /\ Moves(ch[c], ch[c])
    BY <1>1, <2>1, TalkTyped DEF Sound, Shown, Talk, Moves
  <2>4. QED
    BY <2>2, <2>3, TalkTyped DEF Turns
<1>4. QED
  BY <1>2, <1>3 DEF Retrieving

\* All evidence of a stored run is found, so grounding fails only where a call did.
LEMMA EvidenceIsFound ==
  ASSUME CorpusInv, NEW p \in Request, Good(p), p.pc = "done", p.strictOnly
  PROVE  /\ \A k \in p.cites : \E row \in CitationRow : row.chunk = k /\ RowOf(k) = {row}
         /\ RowsFor(p.cites) \subseteq CitationRow
         /\ \A k \in p.cites : \A row \in RowsFor(p.cites) : row.chunk = k <=> RowOf(k) = {row}
<1>1. \A k \in p.cites : \E row \in CitationRow : row.chunk = k /\ RowOf(k) = {row}
  BY CitedIsOwned, RowOfOwned
<1>2. QED
  BY <1>1 DEF RowsFor

LEMMA GroundTurns ==
  ASSUME ChatInv, NEW c \in Reader, Ground(c)
  PROVE  \E q \in Talk : Turns(c, q)
<1>1. ch[c].pc = "retrieving" /\ rd[c].pc = "done" /\ rd' = rd /\ rd[c].strictOnly
  BY TalkTyped DEF Ground, vars, Sound
<1>2. CASE Fail(c)
  BY <1>1, <1>2, FailTurns
<1>3. CASE Conclude(c, "clarification")
  <2> DEFINE q == [ch[c] EXCEPT !.pc = "done", !.verdict = "clarification"]
  <2>1. ch' = [ch EXCEPT ![c] = q]
    BY <1>3, TalkTyped DEF Conclude
  <2>2. q \in Talk
    BY TalkTyped DEF Talk, Stages, Verdicts
  <2>3. Moves(ch[c], q) /\ \A p : Sound(q, p)
    BY <1>1, <1>3, TalkTyped DEF Sound, Shown, Talk, Moves
  <2>4. QED
    BY <2>1, <2>2, <2>3 DEF Turns
<1>4. ASSUME rd[c].cites # {},
             ch' = [ch EXCEPT ![c].pc = "generate", ![c].evidence = RowsFor(rd[c].cites)]
      PROVE  \E q \in Talk : Turns(c, q)
  <2> DEFINE q == [ch[c] EXCEPT !.pc = "generate", !.evidence = RowsFor(rd[c].cites)]
  <2>1. ch' = [ch EXCEPT ![c] = q]
    BY <1>4, TalkTyped
  <2>2. RowsFor(rd[c].cites) \subseteq CitationRow /\ RowsFor(rd[c].cites) # {}
    BY <1>1, <1>4, TalkTyped, EvidenceIsFound DEF RowsFor
  <2>3. q \in Talk
    BY <2>2, TalkTyped DEF Talk, Stages, Verdicts
  <2>4. Sound(q, rd[c]) /\ Moves(ch[c], q)
    BY <1>1, <1>4, <2>2, TalkTyped DEF Sound, Shown, Talk, Moves
  <2>5. QED
    BY <1>1, <2>1, <2>3, <2>4 DEF Turns
<1>5. \A k \in rd[c].cites : RowOf(k) # {}
  BY <1>1, TalkTyped, EvidenceIsFound
<1>6. QED
  BY <1>2, <1>3, <1>4, <1>5 DEF Ground

LEMMA GenerateTurns ==
  ASSUME ChatInv, NEW c \in Reader, Generate(c)
  PROVE  \E q \in Talk : Turns(c, q)
<1>1. ch[c].pc = "generate" /\ rd' = rd
  BY DEF Generate, vars
<1>2. CASE Fail(c)
  BY <1>1, <1>2, FailTurns
<1>3. CASE ch' = [ch EXCEPT ![c].pc = "resolve"]
  <2> DEFINE q == [ch[c] EXCEPT !.pc = "resolve"]
  <2>1. ch' = [ch EXCEPT ![c] = q]
    BY <1>3, TalkTyped
  <2>2. q \in Talk
    BY TalkTyped DEF Talk, Stages
  <2>3. Sound(q, rd[c]) /\ Moves(ch[c], q)
    BY <1>1, TalkTyped DEF Sound, Shown, Talk, Moves
  <2>4. QED
    BY <1>1, <2>1, <2>2, <2>3 DEF Turns
<1>4. QED
  BY <1>2, <1>3 DEF Generate

\* What the resolution of one more citation finds: its row is in the evidence, and
\* behind the last one all of the evidence is resolved.
LEMMA ResolvedGrows ==
  ASSUME ChatInv, NEW c \in Reader, ch[c].pc = "resolve", NEW k \in Unresolved(c)
  PROVE  /\ rd[c].pc = "done" /\ rd[c].strictOnly /\ rd[c].cites # {}
         /\ ch[c].evidence = RowsFor(rd[c].cites)
         /\ \E row \in ch[c].evidence : RowOf(k) = {row}
         /\ ch[c].resolved \cup RowOf(k) \subseteq ch[c].evidence
         /\ Unresolved(c) = {k} => ch[c].resolved \cup RowOf(k) = ch[c].evidence
<1>1. /\ rd[c].pc = "done" /\ rd[c].strictOnly /\ rd[c].cites # {}
      /\ ch[c].evidence = RowsFor(rd[c].cites) /\ ch[c].resolved \subseteq ch[c].evidence
  BY TalkTyped DEF Sound, Shown
<1>2. /\ \A j \in rd[c].cites : \E row \in CitationRow : row.chunk = j /\ RowOf(j) = {row}
      /\ \A j \in rd[c].cites : \A row \in RowsFor(rd[c].cites) : row.chunk = j <=> RowOf(j) = {row}
  BY <1>1, TalkTyped, EvidenceIsFound
<1>3. k \in rd[c].cites
  BY DEF Unresolved
<1>4. PICK row \in ch[c].evidence : RowOf(k) = {row}
  BY <1>1, <1>2, <1>3 DEF RowsFor
<1>5. ASSUME Unresolved(c) = {k}, NEW other \in ch[c].evidence
      PROVE  other \in ch[c].resolved \cup RowOf(k)
  <2>1. PICK j \in rd[c].cites : RowOf(j) = {other}
    BY <1>1, <1>2 DEF RowsFor
  <2>2. CASE j = k
    BY <2>1, <2>2
  <2>3. CASE j # k
    <3>1. PICK old \in ch[c].resolved : old.chunk = j
      BY <1>5, <2>3 DEF Unresolved
    <3>2. RowOf(j) = {old}
      BY <1>1, <1>2, <3>1
    <3>3. QED
      BY <2>1, <3>1, <3>2
  <2>4. QED
    BY <2>2, <2>3
<1>6. QED
  BY <1>1, <1>4, <1>5

\* A step of the second resolution: it fails, or one more citation is resolved.
LEMMA ResolveCases ==
  ASSUME ChatInv, NEW c \in Reader, Resolve(c)
  PROVE  \/ Fail(c)
         \/ \E k \in Unresolved(c) :
              \/ /\ Unresolved(c) = {k}
                 /\ ch' = [ch EXCEPT ![c].resolved = @ \cup RowOf(k),
                                     ![c].pc = "done", ![c].verdict = "answer"]
              \/ ch' = [ch EXCEPT ![c].resolved = @ \cup RowOf(k)]
<1>1. ch[c].pc = "resolve"
  BY DEF Resolve
<1>2. \A k \in Unresolved(c) : \E row \in ch[c].evidence : RowOf(k) = {row}
  BY <1>1, ResolvedGrows
<1>3. QED
  BY <1>2 DEF Resolve

LEMMA ResolveTurns ==
  ASSUME ChatInv, NEW c \in Reader, Resolve(c)
  PROVE  \E q \in Talk : Turns(c, q)
<1>1. ch[c].pc = "resolve" /\ rd' = rd
  BY DEF Resolve, vars
<1>2. CASE Fail(c)
  BY <1>1, <1>2, FailTurns
<1>3. ASSUME NEW k \in Unresolved(c), Unresolved(c) = {k},
             ch' = [ch EXCEPT ![c].resolved = @ \cup RowOf(k),
                              ![c].pc = "done", ![c].verdict = "answer"]
      PROVE  \E q \in Talk : Turns(c, q)
  <2> DEFINE q == [ch[c] EXCEPT !.resolved = ch[c].resolved \cup RowOf(k),
                                !.pc = "done", !.verdict = "answer"]
  <2>1. ch' = [ch EXCEPT ![c] = q]
    BY <1>3, TalkTyped
  <2>2. /\ ch[c].resolved \cup RowOf(k) = ch[c].evidence /\ ch[c].evidence # {}
        /\ rd[c].pc = "done" /\ rd[c].strictOnly /\ rd[c].cites # {}
        /\ ch[c].evidence = RowsFor(rd[c].cites)
    BY <1>1, <1>3, ResolvedGrows
  <2>3. q \in Talk
    BY <2>2, TalkTyped DEF Talk, Stages, Verdicts
  <2>4. Sound(q, rd[c]) /\ Moves(ch[c], q)
    BY <1>1, <2>2, TalkTyped, SMTT(30) DEF Sound, Shown, Talk, Moves
  <2>5. QED
    BY <1>1, <2>1, <2>3, <2>4 DEF Turns
<1>4. ASSUME NEW k \in Unresolved(c), ch' = [ch EXCEPT ![c].resolved = @ \cup RowOf(k)]
      PROVE  \E q \in Talk : Turns(c, q)
  <2> DEFINE q == [ch[c] EXCEPT !.resolved = ch[c].resolved \cup RowOf(k)]
  <2>1. ch' = [ch EXCEPT ![c] = q]
    BY <1>4, TalkTyped
  <2>2. /\ ch[c].resolved \cup RowOf(k) \subseteq ch[c].evidence
        /\ rd[c].pc = "done" /\ rd[c].strictOnly /\ rd[c].cites # {}
        /\ ch[c].evidence = RowsFor(rd[c].cites)
    BY <1>1, <1>4, ResolvedGrows
  <2>3. q \in Talk
    BY <2>2, TalkTyped DEF Talk
  <2>4. Sound(q, rd[c]) /\ Moves(ch[c], q)
    BY <1>1, <2>2, TalkTyped DEF Sound, Shown, Talk, Moves
  <2>5. QED
    BY <1>1, <2>1, <2>3, <2>4 DEF Turns
<1>5. QED
  BY <1>2, <1>3, <1>4, ResolveCases

LEMMA CancelTurns ==
  ASSUME ChatInv, NEW c \in Reader, Cancel(c)
  PROVE  \E q \in Talk : Turns(c, q)
<1> DEFINE q == [ch[c] EXCEPT !.pc = "cancelled"]
<1>1. ch' = [ch EXCEPT ![c] = q]
  BY TalkTyped DEF Cancel
<1>2. ch[c].pc # "done"
  BY DEF Cancel
<1>3. q \in Talk
  BY TalkTyped DEF Talk, Stages
<1>4. Moves(ch[c], q) /\ \A p : Sound(q, p)
  BY <1>2, TalkTyped DEF Sound, Shown, Talk, Moves
<1>5. QED
  BY <1>1, <1>3, <1>4 DEF Turns

-------------------------------------------------------------------------------
(***************************************************************************)
(* The invariant                                                           *)
(***************************************************************************)
LEMMA ChatInitInv == ChatInit => ChatInv
<1> SUFFICES ASSUME ChatInit PROVE ChatInv
  OBVIOUS
<1>1. CorpusInv
  BY CorpusInit DEF ChatInit
<1>2. Unheard \in Talk
  BY DEF Unheard, Talk, Stages, Verdicts
<1>3. \A p : Sound(Unheard, p)
  BY DEF Unheard, Sound, Shown
<1>4. QED
  BY <1>1, <1>2, <1>3 DEF ChatInit, ChatInv, TalksSound

\* A step of one question leaves the runs of the others alone.
LEMMA OneRunMoves ==
  ASSUME ChatInv, NEW c \in Reader, Receive(c) \/ Respond(c) \/ Cancel(c)
  PROVE  \E p \in Request : Good(p) /\ rd' = [rd EXCEPT ![c] = p]
<1>1. CASE UNCHANGED rd
  BY <1>1, TalkTyped
<1>2. CASE ReaderNext(c)
  BY <1>2, ReaderMoves DEF Becomes, ChatInv
<1>3. QED
  BY <1>1, <1>2 DEF Receive, Respond, Plan, Retrieve, Retrieving, Ground, Generate, Resolve,
       Cancel, ReaderNext, vars

LEMMA ChatTurns ==
  ASSUME ChatInv, NEW c \in Reader, Receive(c) \/ Respond(c) \/ Cancel(c)
  PROVE  \E q \in Talk : Turns(c, q)
BY ReceiveTurns, PlanTurns, RetrieveTurns, RetrievingTurns, GroundTurns, GenerateTurns,
   ResolveTurns, CancelTurns DEF Respond

LEMMA ChatStepInv == ChatInv /\ [ChatNext]_chatVars => ChatInv'
<1> SUFFICES ASSUME ChatInv, [ChatNext]_chatVars PROVE ChatInv'
  OBVIOUS
<1>1. CorpusInv /\ [Next]_vars /\ CorpusInv'
  BY CorpusStep, ChatMovesCorpus DEF ChatInv
<1>2. \A q \in Talk, p \in Request : Good(p) /\ Sound(q, p) => Sound(q, p)'
  BY <1>1, SoundStays
<1>3. /\ ch \in [Reader -> Talk] /\ rd \in [Reader -> Request]
      /\ \A s \in Reader : ch[s] \in Talk /\ rd[s] \in Request
                           /\ Good(rd[s]) /\ Sound(ch[s], rd[s])
  BY TalkTyped DEF ChatInv, TalksSound, CorpusInv, ReadersGood
<1>4. ASSUME UNCHANGED <<ch, rd>> PROVE TalksSound'
  BY <1>2, <1>3, <1>4 DEF TalksSound
<1>5. ASSUME NEW c \in Reader, Receive(c) \/ Respond(c) \/ Cancel(c)
      PROVE  TalksSound'
  <2>1. PICK q \in Talk : Turns(c, q)
    BY <1>5, ChatTurns
  <2>2. PICK p \in Request : Good(p) /\ rd' = [rd EXCEPT ![c] = p]
    BY <1>5, OneRunMoves
  <2>3. rd'[c] = p /\ ch' = [ch EXCEPT ![c] = q]
    BY <1>3, <2>1, <2>2 DEF Turns
  <2>4. Sound(q, p)
    BY <2>1, <2>3 DEF Turns
  <2>5. \A s \in Reader, x \in Talk, y \in Request :
          ch'[s] = x /\ rd'[s] = y => Good(y) /\ Sound(x, y)
    BY <1>3, <2>2, <2>3, <2>4
  <2>6. ch' \in [Reader -> Talk]
    BY <1>3, <2>3
  <2>7. QED
    BY <1>2, <2>5, <2>6 DEF TalksSound
<1>6. ASSUME NEW b \in Backfill, BackfillNext(b) PROVE UNCHANGED rd
  BY <1>6 DEF BackfillNext, BackfillStart, FetchMissingBatch, InsertMissing, BackfillFails
<1>7. TalksSound'
  BY <1>4, <1>5, <1>6 DEF ChatNext, chatVars, vars
<1>8. QED
  BY <1>1, <1>7 DEF ChatInv

LEMMA ChatAlways == ChatSpec => []ChatInv
  BY ChatInitInv, ChatStepInv, PTL DEF ChatSpec

-------------------------------------------------------------------------------
(***************************************************************************)
(* Theorems                                                                *)
(***************************************************************************)
LEMMA InvAnswers == ChatInv => AnswersCiteTheirEvidence
<1> SUFFICES ASSUME ChatInv, NEW c \in Reader, ch[c].verdict = "answer"
             PROVE  /\ {row.chunk : row \in ch[c].resolved} = rd[c].cites
                    /\ ch[c].resolved = ch[c].evidence
                    /\ \A row \in ch[c].resolved :
                         \E v \in Eligible(rd[c].at, TRUE) : row \in RowIn({v}, row.chunk)
  BY DEF AnswersCiteTheirEvidence
<1>1. /\ rd[c].pc = "done" /\ rd[c].strictOnly
      /\ ch[c].evidence = RowsFor(rd[c].cites) /\ ch[c].resolved = ch[c].evidence
  BY TalkTyped DEF Sound, Shown
<1>2. \A k \in rd[c].cites : \E row \in CitationRow : row.chunk = k /\ RowOf(k) = {row}
  BY <1>1, TalkTyped, EvidenceIsFound
<1>3. {row.chunk : row \in ch[c].resolved} = rd[c].cites
  BY <1>1, <1>2 DEF RowsFor
<1>4. ASSUME NEW row \in ch[c].resolved
      PROVE  \E v \in Eligible(rd[c].at, TRUE) : row \in RowIn({v}, row.chunk)
  <2>1. PICK k \in rd[c].cites : RowOf(k) = {row} /\ row.chunk = k
    BY <1>1, <1>2, <1>4 DEF RowsFor
  <2>2. rd[c].cites \subseteq ChunksOf(Eligible(rd[c].at, TRUE))
    BY <1>1, TalkTyped DEF Good, HasRead, Request
  <2>3. PICK v \in Eligible(rd[c].at, TRUE) : k \in v.chunks
    BY <2>1, <2>2 DEF ChunksOf
  <2>4. v \in Strict(versions)
    BY DEF Eligible, Strict, LatestIn, SnapshotAt
  <2>5. RowIn({v}, k) # {} /\ RowIn({v}, k) \subseteq RowOf(k)
    BY <2>3, <2>4 DEF RowOf, RowIn
  <2>6. QED
    BY <2>1, <2>5
<1>5. QED
  BY <1>1, <1>3, <1>4

LEMMA InvRefusals == ChatInv => RefusedOnlyForAReason
  BY TalkTyped DEF RefusedOnlyForAReason, Sound

\* Whatever is ingested while the provider writes, an answer cites its whole run, at the
\* versions of the run's instant, and that is what the provider was shown
\* (chat/service.py _reresolve_citations, grounding_evidence.py, citation_resolver.py).
THEOREM AnswersAreGrounded == ChatSpec => []AnswersCiteTheirEvidence
  BY ChatAlways, InvAnswers, PTL

\* Ingestion never turns a question that could be answered into a refusal: the rows that
\* grounding and the second resolution look for are always found.
THEOREM RefusalsHaveReasons == ChatSpec => []RefusedOnlyForAReason
  BY ChatAlways, InvRefusals, PTL

-------------------------------------------------------------------------------
(***************************************************************************)
(* Refinement                                                              *)
(***************************************************************************)
LEMMA InitAbstract == ChatInit => Abstract!AnswerInit
  BY DEF ChatInit, Unheard, Abstract!AnswerInit, EvidenceShown, VerdictGiven, CitedInAnswer

\* What one question does is a step of its abstract counterpart, or none.
LEMMA TurnAbstract ==
  ASSUME ChatInv, NEW c \in Reader, NEW q \in Talk, Turns(c, q)
  PROVE  \/ UNCHANGED <<EvidenceShown, VerdictGiven, CitedInAnswer>>
         \/ Abstract!Consult(c) \/ Abstract!Answer(c) \/ Abstract!Decline(c)
<1>1. /\ ch' = [ch EXCEPT ![c] = q] /\ ch \in [Reader -> Talk] /\ ch' \in [Reader -> Talk]
      /\ ch'[c] = q /\ ch[c].verdict = "none" /\ Moves(ch[c], q)
  BY TalkTyped DEF Turns, Moves
<1>2. /\ \A s \in Reader : EvidenceShown[s] = ch[s].evidence /\ VerdictGiven[s] = ch[s].verdict
      /\ CitedInAnswer[c] = {}
  BY <1>1 DEF EvidenceShown, VerdictGiven, CitedInAnswer
<1>3. /\ EvidenceShown' = [EvidenceShown EXCEPT ![c] = q.evidence]
      /\ VerdictGiven' = [VerdictGiven EXCEPT ![c] = q.verdict]
      /\ CitedInAnswer' =
           [CitedInAnswer EXCEPT ![c] = IF q.verdict = "answer" THEN q.resolved ELSE {}]
  BY <1>1 DEF EvidenceShown, VerdictGiven, CitedInAnswer
<1>4. CASE q.evidence = ch[c].evidence /\ q.verdict = "none"
  <2>1. EvidenceShown' = EvidenceShown
    BY <1>1, <1>3, <1>4 DEF EvidenceShown
  <2>2. VerdictGiven' = VerdictGiven
    BY <1>1, <1>3, <1>4 DEF VerdictGiven
  <2>3. CitedInAnswer' = CitedInAnswer
    BY <1>1, <1>3, <1>4 DEF CitedInAnswer
  <2>4. QED
    BY <2>1, <2>2, <2>3
<1>5. CASE ch[c].evidence = {} /\ q.evidence # {} /\ q.verdict = "none"
  <2>1. EvidenceShown' \in [Reader -> SUBSET CitationRow]
    BY <1>1 DEF EvidenceShown, Talk
  <2>2. /\ \A p \in Reader \ {c} : EvidenceShown'[p] = EvidenceShown[p]
    BY <1>3 DEF EvidenceShown
  <2>3. VerdictGiven' = VerdictGiven
    BY <1>1, <1>3, <1>5 DEF VerdictGiven
  <2>4. CitedInAnswer' = CitedInAnswer
    BY <1>1, <1>3, <1>5 DEF CitedInAnswer
  <2>5. QED
    BY <1>1, <1>2, <1>5, <2>1, <2>2, <2>3, <2>4 DEF Abstract!Consult
<1>6. CASE /\ q.evidence = ch[c].evidence /\ ch[c].evidence # {}
           /\ q.verdict = "answer" /\ q.resolved = ch[c].evidence
  <2>1. EvidenceShown' = EvidenceShown
    BY <1>1, <1>3, <1>6 DEF EvidenceShown
  <2>2. CitedInAnswer' = [CitedInAnswer EXCEPT ![c] = EvidenceShown[c]]
    BY <1>2, <1>3, <1>6
  <2>3. QED
    BY <1>1, <1>2, <1>3, <1>6, <2>1, <2>2 DEF Abstract!Answer
<1>7. CASE /\ q.evidence = ch[c].evidence
           /\ \/ q.verdict = "refusal"
              \/ ch[c].evidence = {} /\ q.verdict = "clarification"
  <2>1. EvidenceShown' = EvidenceShown
    BY <1>1, <1>3, <1>7 DEF EvidenceShown
  <2>2. CitedInAnswer' = CitedInAnswer
    BY <1>1, <1>3, <1>7 DEF CitedInAnswer
  <2>3. QED
    BY <1>1, <1>2, <1>3, <1>7, <2>1, <2>2 DEF Abstract!Decline
<1>8. QED
  BY <1>1, <1>4, <1>5, <1>6, <1>7 DEF Moves

LEMMA StepAbstract ==
  ChatInv /\ [ChatNext]_chatVars =>
    [Abstract!AnswerNext]_<<EvidenceShown, VerdictGiven, CitedInAnswer>>
<1> SUFFICES ASSUME ChatInv, [ChatNext]_chatVars
             PROVE  [Abstract!AnswerNext]_<<EvidenceShown, VerdictGiven, CitedInAnswer>>
  OBVIOUS
<1>1. CASE UNCHANGED ch
  BY <1>1 DEF EvidenceShown, VerdictGiven, CitedInAnswer
<1>2. ASSUME NEW c \in Reader, Receive(c) \/ Respond(c) \/ Cancel(c)
      PROVE  [Abstract!AnswerNext]_<<EvidenceShown, VerdictGiven, CitedInAnswer>>
  BY <1>2, ChatTurns, TurnAbstract DEF Abstract!AnswerNext
<1>3. QED
  BY <1>1, <1>2 DEF ChatNext, chatVars

\* respond implements the abstract chat for any number of questions at a time: the
\* provider is shown evidence once, and an answer cites all of it and nothing else.
THEOREM ChatIsGrounded == ChatSpec => ImplementsGroundedAnswer
<1>1. ChatInv /\ [ChatNext]_chatVars =>
        [Abstract!AnswerNext]_<<EvidenceShown, VerdictGiven, CitedInAnswer>>
  BY StepAbstract
<1>2. QED
  BY ChatAlways, InitAbstract, <1>1, PTL
     DEF ChatSpec, ImplementsGroundedAnswer, Abstract!AnswerSpec, EvidenceShown, VerdictGiven,
         CitedInAnswer

===============================================================================
