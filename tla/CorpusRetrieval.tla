--------------------------- MODULE CorpusRetrieval ----------------------------
(***************************************************************************)
(* What reads the corpus while it is being ingested: the semantic backfill *)
(* (semantic/backfill.py) and the retrieval requests, each of which stores *)
(* one run with its citations.                                             *)
(*                                                                         *)
(* A transaction that is REPEATABLE READ sees the versions committed before *)
(* its first statement.  Versions are never changed, so that snapshot is   *)
(* named by how many there were.  Which chunks match a query and in which  *)
(* order is left open: a lane may return any chunks it is allowed to see.  *)
(***************************************************************************)
EXTENDS DocumentRepository

CONSTANTS Backfill, Reader,
          BatchSize    \* semantic rows embedded in one call

ASSUME CorpusAssumption == BatchSize \in Nat \ {0}

VARIABLES
    embedded,   \* chunks with a row of the semantic profile in chunk_embeddings
    bf,         \* per backfill: its place in SemanticBackfillService.run
    rd          \* per request: its place in retrieve_and_persist, then its run

vars == <<docVars, embedded, bf, rd>>

-------------------------------------------------------------------------------
\* The versions a snapshot of the n first commits holds
SnapshotAt(n) == {v \in versions : v.at <= n}

\* version_number = max(version_number) of its document
LatestIn(V) == {v \in V : \A w \in V : w.doc = v.doc => w.number <= v.number}

Strict(V) == {v \in V : v.snapshot \in StrictSnapshot}

ChunksOf(V) == UNION {v.chunks : v \in V}

LatestStrictChunks == ChunksOf(Strict(LatestIn(versions)))

\* What a request may cite: the latest versions, filtered by trust afterwards
Eligible(n, strictOnly) ==
    IF strictOnly THEN Strict(LatestIn(SnapshotAt(n))) ELSE LatestIn(SnapshotAt(n))

\* Mutation: a version is ready as soon as one of its chunks is.
AnyChunkCovered ==
    \A v \in Strict(LatestIn(versions)) : v.chunks \cap embedded # {}

\* coverage_complete_for: every latest strict chunk has its semantic row
CoverageComplete == LatestStrictChunks \subseteq embedded

-------------------------------------------------------------------------------
(***************************************************************************)
(* The backfill                                                            *)
(***************************************************************************)
Missing == LatestStrictChunks \ embedded

\* Mutation: the batch is cut without ORDER BY, here from the other end.
LastBatch(C) == {c \in C : Cardinality({b \in C : b > c}) < BatchSize}

\* The first chunks of C by id, as many as one batch holds
FirstBatch(C) == {c \in C : Cardinality({b \in C : b < c}) < BatchSize}

BackfillStart(b) ==
    /\ bf[b].pc \in {"idle", "done"}
    /\ bf' = [bf EXCEPT ![b] = [pc |-> "fetch", cursor |-> 0, batch |-> {}, due |-> Missing]]
    /\ UNCHANGED <<docVars, embedded, rd>>

\* The chunks behind the cursor that still lack their row
Behind(b) == {c \in Missing : c > bf[b].cursor}

\* fetch_missing_batch; an empty batch ends the run
FetchMissingBatch(b) ==
    LET batch == FirstBatch(Behind(b)) IN
    /\ bf[b].pc = "fetch"
    /\ bf' = IF batch = {} THEN [bf EXCEPT ![b].pc = "done"]
             ELSE [bf EXCEPT ![b].pc = "embed", ![b].batch = batch, ![b].cursor = Max(batch)]
    /\ UNCHANGED <<docVars, embedded, rd>>

\* embed_documents, outside any transaction, then insert_missing: a row that
\* another backfill inserted meanwhile is left alone
InsertMissing(b) ==
    /\ bf[b].pc = "embed"
    /\ embedded' = embedded \cup bf[b].batch
    /\ bf' = [bf EXCEPT ![b].pc = "fetch", ![b].batch = {}]
    /\ UNCHANGED <<docVars, rd>>

\* The embedder or the database raises: the remaining rows stay missing.
BackfillFails(b) ==
    /\ bf[b].pc \in {"fetch", "embed"}
    /\ bf' = [bf EXCEPT ![b] = [pc |-> "idle", cursor |-> 0, batch |-> {}, due |-> {}]]
    /\ UNCHANGED <<docVars, embedded, rd>>

BackfillNext(b) ==
    \/ BackfillStart(b)
    \/ FetchMissingBatch(b)
    \/ InsertMissing(b)
    \/ BackfillFails(b)

-------------------------------------------------------------------------------
(***************************************************************************)
(* Retrieval requests                                                      *)
(***************************************************************************)
\* lexical: retrieval_repository; hybrid and semantic: hybrid_retrieval_repository;
\* reranked: reranked_semantic_repository
Modes == {"lexical", "hybrid", "semantic", "reranked"}

Unasked == [pc |-> "idle", mode |-> "lexical", strictOnly |-> TRUE, exact |-> FALSE,
            covered |-> 0, at |-> 0, seen |-> {}, cites |-> {}]

\* Only the lexical repository reads a wider trust scope; the other lanes are strict.
Ask(r, mode, strictOnly) ==
    /\ rd[r].pc = "idle"
    /\ mode # "lexical" => strictOnly
    /\ rd' = [rd EXCEPT ![r] = [
                pc |-> IF mode = "lexical" THEN "first" ELSE "coverage",
                mode |-> mode, strictOnly |-> strictOnly, exact |-> FALSE,
                covered |-> 0, at |-> 0, seen |-> {}, cites |-> {}]]
    /\ UNCHANGED <<docVars, embedded, bf>>

\* The query is embedded, or cannot be (the second disjunct, at any time), and the
\* coverage is counted in a session of its own, before the transaction that reads.
\* Without both a hybrid request falls back to its lexical lane and the others
\* store a run without evidence.
CheckCoverage(r) ==
    /\ rd[r].pc = "coverage"
    /\ \/ /\ CoverageComplete
          /\ rd' = [rd EXCEPT ![r].pc = "first", ![r].exact = TRUE, ![r].covered = commits]
       \/ rd' = [rd EXCEPT ![r].pc = IF rd[r].mode = "hybrid" THEN "first" ELSE "done"]
    /\ UNCHANGED <<docVars, embedded, bf>>

SemanticChunks(n) == ChunksOf(Eligible(n, TRUE)) \cap embedded

\* Nothing is found only where nothing can be: the vector lane has no threshold.
Nearest(n) == IF SemanticChunks(n) = {} THEN {{}} ELSE (SUBSET SemanticChunks(n)) \ {{}}

\* _collapse_versions: one chunk of each version
OnePerVersion(C) == \A v \in versions : Cardinality(v.chunks \cap C) <= 1

\* The first lane of the reading transaction fixes its snapshot.
FirstLane(r) ==
    /\ rd[r].pc = "first"
    /\ \/ /\ ~rd[r].exact
          /\ \E C \in SUBSET ChunksOf(Eligible(commits, rd[r].strictOnly)) :
               rd' = [rd EXCEPT ![r].at = commits, ![r].cites = C,
                                ![r].pc = IF rd[r].mode = "lexical" THEN "second" ELSE "done"]
       \/ /\ rd[r].exact
          /\ \E C \in Nearest(commits) :
               /\ rd[r].mode = "reranked" => OnePerVersion(C)
               /\ rd' = [rd EXCEPT ![r].at = commits, ![r].cites = C, ![r].seen = embedded,
                           ![r].pc = CASE rd[r].mode = "hybrid" -> "second"
                                       [] rd[r].mode = "reranked" /\ C # {} -> "rerank"
                                       [] OTHER -> "done"]
    /\ UNCHANGED <<docVars, embedded, bf>>

\* The further lanes of the same transaction, the fusion, the run and its citations
SecondLane(r) ==
    /\ rd[r].pc = "second"
    /\ \E C \in SUBSET ChunksOf(Eligible(rd[r].at, rd[r].strictOnly)) :
         rd' = [rd EXCEPT ![r].pc = "done", ![r].cites = @ \cup C]
    /\ UNCHANGED <<docVars, embedded, bf>>

\* The reranker answered, or was given up, outside any transaction; the one that
\* writes looks again which of the chunks are still eligible.
Revalidate(r) ==
    /\ rd[r].pc = "rerank"
    /\ rd' = [rd EXCEPT ![r].pc = "done", ![r].at = commits,
                        ![r].cites = @ \cap SemanticChunks(commits)]
    /\ UNCHANGED <<docVars, embedded, bf>>

\* A statement fails: run and citations are one transaction, nothing is stored.
ReadFails(r) ==
    /\ rd[r].pc \in {"coverage", "first", "second", "rerank"}
    /\ rd' = [rd EXCEPT ![r] = Unasked]
    /\ UNCHANGED <<docVars, embedded, bf>>

ReaderNext(r) ==
    \/ \E mode \in Modes, strictOnly \in BOOLEAN : Ask(r, mode, strictOnly)
    \/ CheckCoverage(r)
    \/ FirstLane(r)
    \/ SecondLane(r)
    \/ Revalidate(r)
    \/ ReadFails(r)

-------------------------------------------------------------------------------
Init ==
    /\ DocInit
    /\ embedded = {}
    /\ bf = [b \in Backfill |-> [pc |-> "idle", cursor |-> 0, batch |-> {}, due |-> {}]]
    /\ rd = [r \in Reader |-> Unasked]

Next ==
    \/ DocNext /\ UNCHANGED <<embedded, bf, rd>>
    \/ \E b \in Backfill : BackfillNext(b)
    \/ \E r \in Reader : ReaderNext(r)

Spec == Init /\ [][Next]_vars

-------------------------------------------------------------------------------
(***************************************************************************)
(* Properties                                                              *)
(***************************************************************************)

\* Every variable has its type; semantic rows belong to stored chunks.
CorpusTypeOK ==
    /\ DocTypeOK
    /\ embedded \subseteq ChunksOf(versions)
    /\ bf \in [Backfill -> [pc : {"idle", "fetch", "embed", "done"},
                            cursor : {0} \cup ChunkId, batch : SUBSET ChunkId,
                            due : SUBSET ChunkId]]
    /\ rd \in [Reader -> [pc : {"idle", "coverage", "first", "second", "rerank", "done"},
                          mode : Modes, strictOnly : BOOLEAN, exact : BOOLEAN,
                          covered : 0 .. commits, at : 0 .. commits,
                          seen : SUBSET ChunkId, cites : SUBSET ChunkId]]

\* The citations of a run were all evidence at one instant, that of the snapshot
\* its transaction wrote from: each belongs to the version that was then the latest
\* of its document and whose transport trust the request accepts, whatever was
\* ingested between the lanes or while the reranker worked.
RunSeesOneInstant ==
    \A r \in Reader : rd[r].pc = "done" =>
        \A v \in versions : v.chunks \cap rd[r].cites # {} =>
            /\ v.at <= rd[r].at
            /\ \A w \in versions : w.doc = v.doc /\ w.at <= rd[r].at => w.number <= v.number
            /\ rd[r].strictOnly => v.snapshot \in StrictSnapshot

\* A run made by exact comparison compared the query with every chunk it may cite,
\* but for versions that were ingested after its coverage check: no gap that the
\* check saw, and no version replaced meanwhile, narrows the evidence unnoticed.
ExactRunsMissOnlyTheNew ==
    \A r \in Reader : rd[r].pc = "done" /\ rd[r].exact =>
        \A v \in Eligible(rd[r].at, TRUE) : v.at <= rd[r].covered => v.chunks \subseteq rd[r].seen

\* A backfill that ran to its end embedded every chunk that was missing when it
\* started, unless a newer version has replaced the chunk's version since.
BackfillCoversItsStart ==
    \A b \in Backfill : bf[b].pc = "done" =>
        bf[b].due \subseteq embedded \cup (ChunksOf(versions) \ LatestStrictChunks)

===============================================================================
