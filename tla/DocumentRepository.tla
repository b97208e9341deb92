-------------------------- MODULE DocumentRepository --------------------------
(***************************************************************************)
(* Ingestion of legal documents (ingestion/service.py) into immutable,     *)
(* numbered versions (documents/repository.py), by ingesters that run at   *)
(* the same time.                                                          *)
(*                                                                         *)
(* A Snapshot stands for one canonical snapshot digest: the raw text, its  *)
(* metadata, the provenance and the ingestion profile.  The snapshots      *)
(* fetched over verified TLS are StrictSnapshot; the others carry a        *)
(* transport trust that only a lexical request may accept.                 *)
(*                                                                         *)
(* A version row stands for the rows written with it in one transaction:   *)
(* the version, its provenance, its chunks and their demo embeddings.      *)
(***************************************************************************)
EXTENDS Integers, FiniteSets, FiniteSetsExt

CONSTANTS Document, Snapshot, StrictSnapshot, Ingester,
          ChunkId,     \* chunk primary keys; an id is random, its order too
          MaxChunks    \* bound: chunks of one version

ASSUME DocumentAssumption ==
    /\ StrictSnapshot \subseteq Snapshot
    /\ ChunkId \subseteq Nat \ {0}
    /\ MaxChunks \in Nat \ {0}

VARIABLES
    source,        \* per document: the snapshot its source serves now
    versions,      \* the document_versions table with the rows it owns
    commits,       \* history: how many versions were committed so far
    ing            \* per ingester: its place in ingest_snapshot

docVars == <<source, versions, commits, ing>>

\* at tells when a version was committed: it was the at-th of all
Version == [doc : Document, number : Nat \ {0}, snapshot : Snapshot,
            chunks : SUBSET ChunkId, at : Nat \ {0}]

VersionsOf(d) == {v \in versions : v.doc = d}

Numbers(d) == {v.number : v \in VersionsOf(d)}

\* coalesce(max(version_number), 0)
LatestNumber(d) == Max(Numbers(d) \cup {0})

\* _select_existing_version: the version of d with this digest
Existing(d, s) == {v \in versions : v.doc = d /\ v.snapshot = s}

FreeChunks == ChunkId \ UNION {v.chunks : v \in versions}

Idle == [pc |-> "idle"]

\* One call of ingest_snapshot; number is the version it returns or will insert
Job == [pc : {"fetched", "embedding", "locked", "done"}, doc : Document,
        snapshot : Snapshot, number : Nat, outcome : {"none", "unchanged", "created"}]

-------------------------------------------------------------------------------
DocInit ==
    /\ source \in [Document -> Snapshot]
    /\ versions = {}
    /\ commits = 0
    /\ ing = [i \in Ingester |-> Idle]

\* The source publishes another text, or an earlier one again.
SourceChanges(d) ==
    /\ \E s \in Snapshot \ {source[d]} : source' = [source EXCEPT ![d] = s]
    /\ UNCHANGED <<versions, commits, ing>>

\* fetch_document, normalisation and the digest
Fetch(i, d) ==
    /\ ing[i].pc \in {"idle", "done"}
    /\ ing' = [ing EXCEPT ![i] = [pc |-> "fetched", doc |-> d, snapshot |-> source[d],
                                  number |-> 0, outcome |-> "none"]]
    /\ UNCHANGED <<source, versions, commits>>

\* The ingester returns with version number n of its document.
Return(i, n, outcome) ==
    ing' = [ing EXCEPT ![i].pc = "done", ![i].number = n, ![i].outcome = outcome]

\* find_existing: a read of its own, before the chunks are embedded
FindExisting(i) ==
    LET found == Existing(ing[i].doc, ing[i].snapshot) IN
    /\ ing[i].pc = "fetched"
    /\ \/ found = {} /\ ing' = [ing EXCEPT ![i].pc = "embedding"]
       \/ \E v \in found : Return(i, v.number, "unchanged")
    /\ UNCHANGED <<source, versions, commits>>

\* The row lock of the document, taken by the insert of its identity or FOR UPDATE
LockFree(i) == \A j \in Ingester \ {i} : ~(ing[j].pc = "locked" /\ ing[j].doc = ing[i].doc)

\* persist up to its insert: the lock, the second look for the digest, the number
LockDocument(i) ==
    LET found == Existing(ing[i].doc, ing[i].snapshot) IN
    /\ ing[i].pc = "embedding"
    /\ LockFree(i)
    /\ \/ /\ found = {}
          /\ ing' = [ing EXCEPT ![i].pc = "locked",
                                ![i].number = LatestNumber(ing[i].doc) + 1]
       \/ \E v \in found : Return(i, v.number, "unchanged")
    /\ UNCHANGED <<source, versions, commits>>

\* uq_document_versions_document_version_number and .._document_snapshot
PlaceFree(d, n, s) == \A v \in VersionsOf(d) : v.number # n /\ v.snapshot # s

\* Mutation: a changed document updates its newest version instead.
UpdateVersion(i) ==
    LET old == {v \in VersionsOf(ing[i].doc) : v.number = ing[i].number - 1}
        kept == IF old = {} THEN 1 ELSE ing[i].number - 1 IN
    /\ ing[i].pc = "locked"
    /\ \E chunks \in SUBSET FreeChunks :
         /\ chunks # {}
         /\ Cardinality(chunks) <= MaxChunks
         /\ versions' = (versions \ old) \cup
              {[doc |-> ing[i].doc, number |-> kept, snapshot |-> ing[i].snapshot,
                chunks |-> chunks, at |-> commits + 1]}
    /\ commits' = commits + 1
    /\ Return(i, kept, "created")
    /\ UNCHANGED source

\* persist, its insert and commit: version, provenance, chunks and embeddings
InsertVersion(i) ==
    /\ ing[i].pc = "locked"
    /\ PlaceFree(ing[i].doc, ing[i].number, ing[i].snapshot)
    /\ \E chunks \in SUBSET FreeChunks :
         /\ chunks # {}
         /\ Cardinality(chunks) <= MaxChunks
         /\ versions' = versions \cup
              {[doc |-> ing[i].doc, number |-> ing[i].number, snapshot |-> ing[i].snapshot,
                chunks |-> chunks, at |-> commits + 1]}
    /\ commits' = commits + 1
    /\ Return(i, ing[i].number, "created")
    /\ UNCHANGED source

\* The embedder refuses, the database fails or the process dies: persist is one
\* transaction, so nothing is left of the ingestion.
Abort(i) ==
    /\ ing[i].pc \in {"fetched", "embedding", "locked"}
    /\ ing' = [ing EXCEPT ![i] = Idle]
    /\ UNCHANGED <<source, versions, commits>>

Ingest(i) ==
    \/ \E d \in Document : Fetch(i, d)
    \/ FindExisting(i)
    \/ LockDocument(i)
    \/ InsertVersion(i)
    \/ Abort(i)

DocNext ==
    \/ \E d \in Document : SourceChanges(d)
    \/ \E i \in Ingester : Ingest(i)

DocSpec == DocInit /\ [][DocNext]_docVars

-------------------------------------------------------------------------------
(***************************************************************************)
(* Properties                                                              *)
(***************************************************************************)

\* Every variable has its type.
DocTypeOK ==
    /\ source \in [Document -> Snapshot]
    /\ versions \subseteq Version
    /\ commits \in Nat
    /\ ing \in [Ingester -> Job \cup {Idle}]

\* The versions of a document are numbered 1, 2, 3 ... without a gap or a double,
\* whatever ingesters run at the same time (version_number = max + 1).
NumbersAreDense ==
    /\ \A d \in Document : Numbers(d) = 1 .. LatestNumber(d)
    /\ \A v, w \in versions : v.doc = w.doc /\ v.number = w.number => v = w

\* An ingester that is about to insert meets neither unique constraint of the
\* table: of two writers of one snapshot one creates it and the other is told
\* "unchanged"; none fails.
WritersNeverCollide ==
    \A i \in Ingester : ing[i].pc = "locked" =>
        PlaceFree(ing[i].doc, ing[i].number, ing[i].snapshot)

\* What an ingestion returned names a stored version of the document it fetched,
\* with the snapshot it fetched.
ResultNamesItsVersion ==
    \A i \in Ingester : ing[i].pc = "done" =>
        \E v \in versions : /\ v.doc = ing[i].doc
                            /\ v.snapshot = ing[i].snapshot
                            /\ v.number = ing[i].number

\* Place n of the document's log: what is stored under number n, one snapshot
DocumentLogOf(d) ==
    [n \in 1 .. LatestNumber(d) |-> {v.snapshot : v \in {w \in VersionsOf(d) : w.number = n}}]

Log == INSTANCE DocumentLog WITH Snapshot <- {{s} : s \in Snapshot},
                                 log <- [d \in Document |-> DocumentLogOf(d)]

\* The tables implement the log of snapshots: a commit appends a snapshot the
\* document did not have, and no other step shows.
ImplementsDocumentLog == Log!LogSpec

===============================================================================
