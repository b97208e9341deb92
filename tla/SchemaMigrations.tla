--------------------------- MODULE SchemaMigrations ---------------------------
(***************************************************************************)
(* The Alembic revisions 0001 to 0012, as what each of their statements    *)
(* needs and does, and the commands that run them on a database with rows, *)
(* each in one transaction; the backfill of the column 0011 adds.          *)
(*                                                                         *)
(* Left out: indexes, columns that no later revision touches, and CHECKs   *)
(* that no later revision drops or that only look at the form of a value.  *)
(* A row keeps the columns that later revisions add, drop or test.         *)
(***************************************************************************)
EXTENDS Naturals, FiniteSets, Sequences, SequencesExt

CONSTANTS
  Version,       \* ids of document versions, numbers: ids are compared (Nat)
  Citation,      \* citations of retrieval runs
  Target,        \* the revisions commands name, of 0 .. 12
  BatchSize      \* of the metadata backfill (500 in the code)

VARIABLES
  db,            \* the database: its revision, its objects and its rows
  fill,          \* the metadata backfill: where it is and what it read
  acquired,      \* history: how each version was fetched
  disturbed      \* history: a command committed while the backfill ran

schemaVars == <<db, fill, acquired, disturbed>>

Latest == 12

\* Ids are finitely many, 0 comes before all; the backfill takes at least one row at a time.
ASSUME SchemaAssumption ==
  /\ Version \subseteq Nat \ {0} /\ IsFiniteSet(Version)
  /\ Target \subseteq 0 .. Latest
  /\ BatchSize \in Nat \ {0}

NoRows == [x \in {} |-> {}]

Empty == [rev |-> 0, extension |-> FALSE, tables |-> {}, foreign |-> {},
          columns |-> {}, checks |-> {}, required |-> {}, guarded |-> {},
          versions |-> NoRows, provenance |-> NoRows, citations |-> NoRows,
          failed |-> FALSE]

-------------------------------------------------------------------------------
(***************************************************************************)
(* Statements                                                              *)
(***************************************************************************)
Create(t, refs)      == [op |-> "create", table |-> t, names |-> refs]
DropTables(ts)       == [k \in DOMAIN ts |-> [op |-> "drop", table |-> ts[k], names |-> {}]]
AddColumns(t, columns)      == [op |-> "add", table |-> t, names |-> columns]
DropColumns(t, columns)   == [op |-> "remove", table |-> t, names |-> columns]
Checks(t, names)     == [op |-> "check", table |-> t, names |-> names]
Unchecks(t, names)   == [op |-> "uncheck", table |-> t, names |-> names]
Require(t, columns)  == [op |-> "require", table |-> t, names |-> columns]
Release(t, columns)  == [op |-> "release", table |-> t, names |-> columns]
Guard(ts)            == [op |-> "guard", table |-> "", names |-> ts]
Unguard(ts)          == [op |-> "unguard", table |-> "", names |-> ts]
Do(what)             == [op |-> what, table |-> "", names |-> {}]

Field(t) ==
  CASE t = "document_versions"         -> "versions"
    [] t = "source_provenance_records" -> "provenance"
    [] t = "citation_records"          -> "citations"
    [] OTHER                           -> "none"

RowsOf(d, t) == IF Field(t) = "none" THEN NoRows ELSE d[Field(t)]

\* The columns of a row hold "null" where nothing was written.
HasNull(d, t, c) == \E i \in DOMAIN RowsOf(d, t) : RowsOf(d, t)[i][c] = "null"

\* Columns that go lose what they held.
Reset(d, t, columns) ==
  IF Field(t) = "none" THEN d
  ELSE [d EXCEPT ![Field(t)] =
          [i \in DOMAIN @ |-> [c \in DOMAIN @[i] |->
             IF c \in columns THEN "null" ELSE @[i][c]]]]

ScoredBySemanticsOnly(d) ==
  \E r \in DOMAIN d.citations :
    d.citations[r].lexical_score = "null" /\ d.citations[r].semantic_score # "null"

\* The shapes a provenance row may have: trust mode, chain, host name, compatibility.
TrustShape(p) ==
  \/ /\ p.transport_trust_mode = "STRICT_TLS" /\ p.pin_set_id = "null"
     /\ p.tls_chain_verified = "yes" /\ p.tls_hostname_verified = "yes"
  \/ /\ p.transport_trust_mode = "TOFU_PINNED" /\ p.pin_set_id # "null"
     /\ p.tls_chain_verified = "yes" /\ p.tls_hostname_verified = "no"
  \/ /\ p.transport_trust_mode = "LEGACY_UNVERIFIED" /\ p.pin_set_id = "null"
     /\ p.tls_chain_verified = "no" /\ p.tls_hostname_verified = "no"

Compatible(p) ==
  (p.tls_verified = "yes") <=> (p.tls_chain_verified = "yes" /\ p.tls_hostname_verified = "yes")

\* A CHECK is added only over rows that pass it.
Passes(d, name) ==
  CASE name = "transport_trust_shape" ->
         \A v \in DOMAIN d.provenance : TrustShape(d.provenance[v])
    [] name = "tls_verified_compatibility" ->
         \A v \in DOMAIN d.provenance : Compatible(d.provenance[v])
    [] name = "at_least_one_score" ->
         \A r \in DOMAIN d.citations : {d.citations[r].lexical_score,
                                        d.citations[r].semantic_score} # {"null"}
    [] OTHER -> TRUE

\* What PostgreSQL demands of a statement.
Allowed(d, s) ==
  CASE s.op = "extension"   -> TRUE
    [] s.op = "unextension" -> "chunk_embeddings" \notin d.tables
    [] s.op = "create"      -> /\ s.table \notin d.tables /\ s.names \subseteq d.tables
                               /\ s.table = "chunk_embeddings" => d.extension
    [] s.op = "drop"        -> /\ s.table \in d.tables
                               /\ \A f \in d.foreign : f[2] = s.table => f[1] = s.table
    [] s.op = "add"         -> s.table \in d.tables /\ {s.table} \X s.names \cap d.columns = {}
    [] s.op = "remove"      -> {s.table} \X s.names \subseteq d.columns
    [] s.op = "check"       -> /\ s.table \in d.tables /\ {s.table} \X s.names \cap d.checks = {}
                               /\ \A n \in s.names : Passes(d, n)
    [] s.op = "uncheck"     -> {s.table} \X s.names \subseteq d.checks
    [] s.op = "require"     -> \A c \in s.names : ~HasNull(d, s.table, c)
    [] s.op = "guard"       -> s.names \subseteq d.tables /\ s.names \cap d.guarded = {}
    [] s.op = "unguard"     -> s.names \subseteq d.guarded
    [] s.op = "refuseLoss"  -> ~ScoredBySemanticsOnly(d)
    [] OTHER                -> TRUE

\* 0006: the trust of rows that were stored before there was a trust mode.
Trusted(p) ==
  [p EXCEPT !.transport_trust_mode = IF p.tls_verified = "yes" THEN "STRICT_TLS"
                                     ELSE "LEGACY_UNVERIFIED",
            !.tls_chain_verified = p.tls_verified, !.tls_hostname_verified = p.tls_verified]

\* What a statement does.
Effect(d, s) ==
  CASE s.op = "extension"   -> [d EXCEPT !.extension = TRUE]
    [] s.op = "unextension" -> [d EXCEPT !.extension = FALSE]
    [] s.op = "create"      -> [d EXCEPT !.tables = @ \cup {s.table},
                                         !.foreign = @ \cup {s.table} \X s.names]
    [] s.op = "drop" ->
         LET rest == [d EXCEPT !.tables = @ \ {s.table},
                               !.foreign = {f \in @ : f[1] # s.table},
                               !.columns = {c \in @ : c[1] # s.table},
                               !.checks = {c \in @ : c[1] # s.table},
                               !.required = {c \in @ : c[1] # s.table},
                               !.guarded = @ \ {s.table}] IN
         IF Field(s.table) = "none" THEN rest
         ELSE [rest EXCEPT ![Field(s.table)] = NoRows]
    [] s.op = "add"         -> [d EXCEPT !.columns = @ \cup {s.table} \X s.names]
    [] s.op = "remove"      -> [Reset(d, s.table, s.names)
                                  EXCEPT !.columns = @ \ {s.table} \X s.names,
                                         !.required = @ \ {s.table} \X s.names]
    [] s.op = "check"       -> [d EXCEPT !.checks = @ \cup {s.table} \X s.names]
    [] s.op = "uncheck"     -> [d EXCEPT !.checks = @ \ {s.table} \X s.names]
    [] s.op = "require"     -> [d EXCEPT !.required = @ \cup {s.table} \X s.names]
    [] s.op = "release"     -> [d EXCEPT !.required = @ \ {s.table} \X s.names]
    [] s.op = "guard"       -> [d EXCEPT !.guarded = @ \cup s.names]
    [] s.op = "unguard"     -> [d EXCEPT !.guarded = @ \ s.names]
    [] s.op = "trust"       -> [d EXCEPT !.provenance =
                                  [v \in DOMAIN @ |-> Trusted(@[v])]]
    [] s.op = "trustAll"    -> [d EXCEPT !.provenance =
                                  [v \in DOMAIN @ |-> [@[v] EXCEPT
                                     !.transport_trust_mode = "STRICT_TLS"]]]
    [] OTHER                -> d

Execute(d, s) ==
  IF d.failed \/ ~Allowed(d, s) THEN [d EXCEPT !.failed = TRUE] ELSE Effect(d, s)

-------------------------------------------------------------------------------
(***************************************************************************)
(* Revisions                                                               *)
(***************************************************************************)
Up0001   == << Do("extension") >>
Down0001 == << Do("unextension") >>

Up0002 == <<
  Create("legal_documents", {}),
  Create("document_versions", {"legal_documents"}),
  Create("source_provenance_records", {"document_versions"}),
  Create("document_chunks", {"document_versions"}),
  Create("chunk_embeddings", {"document_chunks"}) >>
Down0002 == DropTables(<< "chunk_embeddings", "document_chunks",
  "source_provenance_records", "document_versions", "legal_documents" >>)

Up0003 == <<
  AddColumns("document_chunks", {"search_vector"}),
  Create("retrieval_runs", {}),
  Create("citation_records",
         {"retrieval_runs", "document_chunks", "source_provenance_records"}),
  Require("citation_records", {"lexical_score"}),
  Checks("citation_records", {"lexical_score_finite"}) >>
Down0003 == DropTables(<< "citation_records", "retrieval_runs" >>)
            \o << DropColumns("document_chunks", {"search_vector"}) >>

Up0004 == <<
  Create("conversations", {}),
  Create("conversation_exchanges", {"conversations", "retrieval_runs"}),
  Create("conversation_exchange_references", {"conversation_exchanges"}) >>
Down0004 == DropTables(<< "conversation_exchange_references", "conversation_exchanges",
                          "conversations" >>)

Up0005 == <<
  Create("channel_conversation_bindings", {"conversations"}),
  Create("channel_outbound_deliveries",
         {"channel_conversation_bindings", "conversation_exchanges"}) >>
Down0005 == DropTables(<< "channel_outbound_deliveries", "channel_conversation_bindings" >>)

\* pin_set_id stands for the twelve columns that only a pinned fetch fills.
TrustColumns == {"transport_trust_mode", "tls_chain_verified", "tls_hostname_verified",
                 "pin_set_id"}
TrustChecks  == {"tls_verified_compatibility", "transport_trust_shape"}

\* Mutation: every row that is there is trusted, and no CHECK looks.
Up0006Trusting == <<
  AddColumns("source_provenance_records", TrustColumns), Do("trustAll"),
  AddColumns("retrieval_runs", {"trust_scope"}) >>

Up0006 == <<
  AddColumns("source_provenance_records", TrustColumns),
  Do("trust"),
  Require("source_provenance_records", TrustColumns \ {"pin_set_id"}),
  Checks("source_provenance_records", TrustChecks),
  AddColumns("retrieval_runs", {"trust_scope"}),
  Require("retrieval_runs", {"trust_scope"}) >>
Down0006 == <<
  DropColumns("retrieval_runs", {"trust_scope"}),
  Unchecks("source_provenance_records", TrustChecks),
  DropColumns("source_provenance_records", TrustColumns) >>

Up0007 == <<
  Create("corpus_ingestion_runs", {}),
  Create("corpus_catalog_entries", {"legal_documents", "document_versions"}) >>
Down0007 == DropTables(<< "corpus_catalog_entries", "corpus_ingestion_runs" >>)

Up0008   == << >>
Down0008 == << >>

Up0009 == <<
  Unchecks("citation_records", {"lexical_score_finite"}),
  Release("citation_records", {"lexical_score"}),
  AddColumns("citation_records", {"semantic_score"}),
  Checks("citation_records", {"lexical_score_finite", "semantic_score_finite",
                              "at_least_one_score"}) >>

Down0009 == <<
  Do("refuseLoss"),
  Unchecks("citation_records", {"at_least_one_score", "semantic_score_finite",
                                "lexical_score_finite"}),
  DropColumns("citation_records", {"semantic_score"}),
  Require("citation_records", {"lexical_score"}),
  Checks("citation_records", {"lexical_score_finite"}) >>

Up0010 == << AddColumns("citation_records", {"reranker_score"}),
             Checks("citation_records", {"reranker_score_finite"}) >>
Down0010 == << Unchecks("citation_records", {"reranker_score_finite"}),
               DropColumns("citation_records", {"reranker_score"}) >>

MetadataColumns == {"document_number_normalized", "title_search_vector"}

Up0011   == << AddColumns("document_versions", MetadataColumns) >>
Down0011 == << DropColumns("document_versions", MetadataColumns) >>

Registry == << "reviewed_legal_effect_imports", "reviewed_legal_effect_families",
               "reviewed_legal_effect_assertions", "reviewed_legal_effect_events" >>

Up0012 == <<
  Create(Registry[1], {}),
  Create(Registry[2], {Registry[1]}),
  Create(Registry[3], {Registry[2], "document_versions", "source_provenance_records"}),
  Create(Registry[4], {Registry[3]}),
  Guard({Registry[k] : k \in 1 .. 4}) >>

\* Mutation: the tables go in the order they came.
Down0012Forwards == << Unguard({Registry[k] : k \in 1 .. 4}) >> \o DropTables(Registry)

Down0012 ==
  << Unguard({Registry[k] : k \in 1 .. 4}) >>
  \o DropTables(<< Registry[4], Registry[3], Registry[2], Registry[1] >>)

Up == << Up0001, Up0002, Up0003, Up0004, Up0005, Up0006,
         Up0007, Up0008, Up0009, Up0010, Up0011, Up0012 >>
Down == << Down0001, Down0002, Down0003, Down0004, Down0005, Down0006,
           Down0007, Down0008, Down0009, Down0010, Down0011, Down0012 >>

UpOne(d, k)   == [FoldLeft(Execute, d, Up[k]) EXCEPT !.rev = k]
DownOne(d, k) == [FoldLeft(Execute, d, Down[k]) EXCEPT !.rev = k - 1]

\* The revisions between the current one and the target, in the order they run.
Migrated(d, to) ==
  IF d.rev <= to
  THEN FoldLeft(UpOne, d, [k \in 1 .. to - d.rev |-> d.rev + k])
  ELSE FoldLeft(DownOne, d, [k \in 1 .. d.rev - to |-> d.rev + 1 - k])

-------------------------------------------------------------------------------
(***************************************************************************)
(* Commands, and what is stored between them                               *)
(***************************************************************************)
NoFill   == [pc |-> "idle", cursor |-> 0, batch |-> {}]
Has(t, c) == <<t, c>> \in db.columns

SchemaInit ==
  /\ db = Empty
  /\ fill = NoFill
  /\ acquired = [v \in Version |-> "none"]
  /\ disturbed = FALSE

\* alembic upgrade or downgrade to a revision: one transaction, whole or not at all.
Migrate(to) ==
  LET after == Migrated(db, to) IN
  /\ db' = IF after.failed THEN db ELSE after
  /\ disturbed' = (disturbed \/ fill.pc \in {"read", "write"})
  /\ acquired' = [v \in Version |-> IF v \in DOMAIN db'.versions THEN acquired[v] ELSE "none"]
  /\ UNCHANGED fill

\* What a fetch leaves in the columns that there are: over verified TLS, with a
\* pinned exception (from 0006 on), or unverified (before).
Fetched(how) ==
  LET column(c, value) == IF Has("source_provenance_records", c) THEN value ELSE "null" IN
  [tls_verified |-> IF how = "strict" THEN "yes" ELSE "no",
   transport_trust_mode |->
     column("transport_trust_mode", IF how = "strict" THEN "STRICT_TLS" ELSE "TOFU_PINNED"),
   tls_chain_verified    |-> column("tls_chain_verified", "yes"),
   tls_hostname_verified |->
     column("tls_hostname_verified", IF how = "strict" THEN "yes" ELSE "no"),
   pin_set_id |-> IF how = "pinned" THEN "pin" ELSE "null"]

WithRow(rows, id, row) == [i \in DOMAIN rows \cup {id} |-> IF i = id THEN row ELSE rows[i]]

\* The release of this revision stores a version and its provenance; the number
\* key is part of it where there is the column.
StoreVersion(v, how) ==
  /\ "source_provenance_records" \in db.tables
  /\ v \notin DOMAIN db.versions
  /\ how \in {"strict", IF db.rev >= 6 THEN "pinned" ELSE "unverified"}
  /\ db' = [db EXCEPT !.versions = WithRow(@, v, [document_number_normalized |->
                IF Has("document_versions", "document_number_normalized") THEN "key" ELSE "null"]),
                       !.provenance = WithRow(@, v, Fetched(how))]
  /\ acquired' = [acquired EXCEPT ![v] = how]
  /\ UNCHANGED <<fill, disturbed>>

\* The repositories write a lexical score, a semantic one, both, or a semantic
\* and a reranker score.
Scores == {{"lexical_score"}, {"semantic_score"}, {"lexical_score", "semantic_score"},
           {"semantic_score", "reranker_score"}}

Cite(c, scores) ==
  /\ db.rev >= 11 /\ DOMAIN db.provenance # {}
  /\ c \notin DOMAIN db.citations
  /\ db' = [db EXCEPT !.citations = WithRow(@, c,
       [s \in UNION Scores |-> IF s \in scores THEN "score" ELSE "null"])]
  /\ UNCHANGED <<fill, acquired, disturbed>>

-------------------------------------------------------------------------------
(***************************************************************************)
(* The backfill of document-number keys                                    *)
(***************************************************************************)
Fillable == Has("document_versions", "document_number_normalized")

Keyless == {v \in DOMAIN db.versions : db.versions[v].document_number_normalized = "null"}

\* Mutation: the batch in any order, although its last row becomes the cursor.
NextBatchUnordered(cursor) ==
  LET rest == {v \in Keyless : v > cursor} IN
  {b \in SUBSET rest : Cardinality(b) = IF Cardinality(rest) < BatchSize
                                        THEN Cardinality(rest) ELSE BatchSize}

\* _next_batch: the keyless versions behind the cursor, by id, so many at a time.
NextBatch(cursor) ==
  LET rest == {v \in Keyless : v > cursor} IN
  {{v \in rest : Cardinality({w \in rest : w < v}) < BatchSize}}

StartFill ==
  /\ fill.pc \in {"idle", "done", "failed"}
  /\ fill' = [NoFill EXCEPT !.pc = "read"] /\ disturbed' = FALSE
  /\ UNCHANGED <<db, acquired>>

\* A statement that names a missing column raises; no rows end the run.
ReadBatch ==
  /\ fill.pc = "read"
  /\ \/ ~Fillable /\ fill' = [NoFill EXCEPT !.pc = "failed"]
     \/ /\ Fillable
        /\ \E b \in NextBatch(fill.cursor) :
             fill' = IF b = {} THEN [NoFill EXCEPT !.pc = "done"]
                     ELSE [pc |-> "write", cursor |-> CHOOSE v \in b : \A w \in b : w <= v,
                           batch |-> b]
  /\ UNCHANGED <<db, acquired, disturbed>>

\* One transaction per batch; a key that came meanwhile is kept.
WriteBatch ==
  /\ fill.pc = "write"
  /\ \/ ~Fillable /\ fill' = [NoFill EXCEPT !.pc = "failed"] /\ UNCHANGED db
     \/ /\ Fillable
        /\ db' = [db EXCEPT !.versions = [v \in DOMAIN @ |->
             IF v \in fill.batch \cap Keyless THEN [document_number_normalized |-> "key"] ELSE @[v]]]
        /\ fill' = [fill EXCEPT !.pc = "read", !.batch = {}]
  /\ UNCHANGED <<acquired, disturbed>>

SchemaNext ==
  \/ \E to \in Target : Migrate(to)
  \/ \E v \in Version, how \in {"strict", "pinned", "unverified"} : StoreVersion(v, how)
  \/ \E c \in Citation, scores \in Scores : Cite(c, scores)
  \/ StartFill \/ ReadBatch \/ WriteBatch

SchemaSpec == SchemaInit /\ [][SchemaNext]_schemaVars

-------------------------------------------------------------------------------
(***************************************************************************)
(* Properties                                                              *)
(***************************************************************************)
\* The revisions that a command cannot reach from a database.
Blocked(d)     == {to \in 0 .. Latest : Migrated(d, to).failed}
BlockedAtFirst == Blocked(Empty)

\* From every database Alembic reaches, rows or not, every revision can be reached; only a
\* citation that has nothing but a semantic score holds a downgrade below 0009.
OnlyScoresBlock ==
  \A to \in IF db = Empty THEN BlockedAtFirst ELSE Blocked(db) :
    to < 9 /\ db.rev >= 9 /\ ScoredBySemanticsOnly(db)

\* A row counts as strict exactly if it was fetched over verified TLS, also after
\* its trust columns were dropped and made again: trust never rises.
StrictMeansVerified ==
  db.rev >= 6 =>
    \A v \in DOMAIN db.provenance :
      db.provenance[v].transport_trust_mode = "STRICT_TLS" <=> acquired[v] = "strict"

\* A backfill that returns, and during which no revision changed, leaves no
\* version without its key (documents/metadata_backfill.py, run).
FillIsComplete ==
  [][fill'.pc = "done" /\ fill.pc # "done" /\ ~disturbed => Keyless = {}]_schemaVars

===============================================================================
