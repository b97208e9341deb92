# Specifications of the legal chatbot

TLA+ modules beside `src/legal_chatbot`, the TLC runs that check them on small
instances, and TLAPS proofs of what matters most for every instance. Paths below
are relative to the repository; `PROJECT.json` maps every definition to its lines.

Run `tlc -workers 2 -config X.cfg M` for a run `X.cfg` of module `M`, and
`tlapm M.tla` for a proof module.

## The system

A Zalo user writes to an Official Bot. The webhook turns the event into a message
(HMACs of sender and delivery, text), finds the sender's conversation, reserves an
exchange in it, lets the grounded chat answer from the retrieved legal documents,
stores the answer, and sends it through the bot exactly once. Behind it stand a
corpus of immutable document versions that command-line ingesters fill, and an
evaluation toolchain.

| Part | State | Operations | Meets |
|---|---|---|---|
| Conversation repository (`conversation/repository.py`) | conversations (version, expiry, rolling summary), exchanges (ordinal, status, lease) | create, reserve, complete, purge_expired | called by the conversation service between which it holds no lock |
| Conversation service (`conversation/service.py`) | none | respond: reserve, chat, complete, or replay | repository, grounded chat |
| Channel bindings (`channels/repository.py`) | one row per sender: BINDING with lease, ACTIVE, FAILED | reserve, activate, fail | conversations (foreign key) |
| Outbound deliveries (`channels/repository.py`) | one row per completed exchange: PENDING, SENDING, SENT, FAILED, UNKNOWN | reserve, mark_sending, complete | deleted with its exchange; at most one SENDING row per binding |
| Channel service, webhook (`channels/service.py`, `channels/webhook.py`) | a request's locals | handle_inbound | all of the above; HTTP 200 or 503 to the platform, which redelivers after 503 |
| Bot adapter, recipients (`channels/adapters`, `channels/recipients.py`) | in-memory map from sender to chat id | send; remember, resolve | outbound rows |
| Grounded chat (`chat/`) | none | respond: temporal guard, planner, retrieval, evidence, provider, parser, citations resolved again | retrieval, provider |
| Documents and ingestion (`documents/repository.py`, `ingestion/`) | documents, numbered versions, chunks, embeddings, provenance; append-only | ingest: find_existing, embed, persist | sources |
| Retrieval (`documents/*_repository.py`, `retrieval/`) | runs and citations; append-only | retrieve_and_persist in one REPEATABLE READ transaction; resolve; evidence | documents |
| Semantic embeddings (`semantic/`) | embedding rows | keyset backfill, coverage gate | documents |
| Quality retrieval (`documents/quality_*.py`, `retrieval/quality_repair/`) | a request's locals, then a run | read each unit, merge, fuse, select, cover, repair, store | documents |
| Sources, ingestion commands (`sources/`, `ingestion/cli.py`) | cached WSDL, a run's results | discover, fetch with retries, ingest | ingestion |
| Source policies (`sources/approved_policy.py`, `registry.py`, `adapter_capabilities.py`) | checked-in files | load, compile | nothing: a simulation that grants no access |
| Demo corpus (`demo_corpus/`, `documents/corpus_catalog_repository.py`) | the catalog of workbook entries | upsert, transition, reset; the steps of an import | ingestion |
| Reviewed legal effects (`legal_effects/`) | append-only tables of assertions and events | import of an artifact, with corrections and revocations; shadow evaluation, and a harness that tries both in a database of its own | database only |
| Database schema (`alembic/versions/`) | twelve revisions of tables, columns, checks, triggers | upgrade, downgrade; the backfill of number keys | every table above |
| Provider client (`providers/`) | none | generate: one POST; health_check: a GET with retries | chat, stress run |
| Reranking (`reranking/`) | the loaded model | one call behind a timeout | retrieval |
| Application (`api/app.py`, `runtime/m08.py`) | bound runtime, readiness | start, serve, close | everything |
| Evaluation tools (`scripts/run_legal_chatbot_stress.py`, `evaluate_quality_retrieval_phase_b.py`, `evaluate_m2_retrieval.py`) | retrieval runs they store in the application's database and remove again | ask, store, resolve, score, gate, clean up | chat, retrieval, live clients |
| Diagnostics, other scripts, spikes | none the system reads | reports | |

### Where it is hard

Requests run concurrently (asyncio, several processes, one database), no lock
spans two transactions, and the platform repeats a message until it sees 200. So
two deliveries meet in one conversation; a duplicate overtakes the request it
duplicates; leases expire while the chat runs; compaction deletes rows another
request is about to write; the process dies between any two steps; the bot's
answer is lost. `PROJECT.json` lists each such hazard at its line with the
properties that cover it.

### What makes each part correct

* Conversation: the turns form one log; no turn is counted twice, ended twice or
  answered for two deliveries; the rolling summary holds the newest of the turns that
  compaction removed and ends where the remaining rows begin.
* Bindings: one conversation per sender, whoever wins the race.
* Outbound: at most one attempt per exchange, and a row that says what happened.
* Channel service: one chat run and one reply per message as long as its exchange
  is kept; ACKNOWLEDGED only after the platform accepted; a reserved reply is sent.
* Chat: the provider is asked only with validated evidence, and an answer carries
  citations of the very chunks it was given.
* Corpus: versions are numbered without gaps, a snapshot is stored once, whoever
  ingests it; a retrieval run cites what was the latest version of each document at
  one instant, and one made by exact comparison has no gap its check saw.
* Ranking: few places are given to many lanes; the best match of the user's own
  words, a document named by its number and the only carrier of a unit keep theirs,
  and a run is reranked as a whole or not at all.
* Application: whatever fails at start or close, nothing stays open or bound, and a
  restart sends nothing twice.
* Imports: the catalog is true of the versions stored, an entry that is INDEXED
  stays so, and an exit code of 0 means what it says.
* Legal effects: contradicting reviews come only from imports that ran at one time.
* Schema: every revision is reachable from every database, and no way up and down
  makes a row say what was never checked.
* Tools: an evaluation removes every run it stored, or says that it could not, and
  touches nobody else's; its gate says PASS only of what it measured.
* Provider client: every failure becomes one of its codes, and a verdict on the
  provider's health is that of the last answer.
* Source policies: a compilation depends on the three tables and the period only,
  and a policy blocked by the registry's access mode lacks nothing else.

## Modules

| Module | Models | Correspondence |
|---|---|---|
| `ConversationLog` | the promise: a log of turns | no code; abstract specification |
| `ConversationRepository` | the conversation tables and transactions | `CreateTx`, `ReserveNewTx`, `ReserveDuplicateTx`, `ReserveBusy`, `CompleteTx`, `PurgeTx` are the transactions of `PostgresConversationRepository`. Each locks its conversation row first, so each is atomic. `issued` holds the reservations callers keep between transactions |
| `AtMostOnceSend` | the promise: one attempt, one truthful verdict | abstract specification |
| `OutboundDelivery` | outbound rows and the callers around them | `InsertTx`, `MarkTx`, `RecordTx`, `CascadeTx` are the statements with the unique indexes and foreign key they meet; a caller's steps are those of `handle_inbound` |
| `Application` | the lifespan, the runtime and its registry of recipients around those callers (extends `OutboundDelivery`) | an action is what happens from one await of `api/app.py` and `runtime/m08.py` to the next: start with its rollback, deferred ingress, readiness probe, shutdown, death |
| `ChannelBinding` | the binding rows | `ReserveTx`, `ActivateTx`, `FailTx` |
| `ChannelService` | one request end to end over the three tables | instances of the three modules share its variables; each `worker` step is one transaction or one await of `handle_inbound` and `respond` |
| `DocumentLog` | the promise: one growing log of distinct snapshots per document | abstract specification |
| `DocumentRepository` | the versions and the ingesters around them | `FindExisting`, `LockDocument`, `InsertVersion` are the statements of `find_existing` and `persist`, split where another ingester can come between; the document's row lock is the predicate `LockFree`; `Abort` is every way to fail, since `persist` is one transaction |
| `CorpusRetrieval` | the semantic backfill and the retrieval requests over those versions (extends `DocumentRepository`) | `FetchMissingBatch`, `InsertMissing` are the two transactions of a backfill's loop; `CheckCoverage`, `FirstLane`, `SecondLane`, `Revalidate` are the statements of `retrieve_and_persist` |
| `GroundedAnswer` | the promise: evidence shown at most once, one verdict, an answer cites what was shown | abstract specification |
| `GroundedChat` | `GroundedChatService.respond` (extends `CorpusRetrieval`) | guard, planner, retrieval, evidence, provider, second resolution; an action per await, with every early return, failure and cancellation |
| `QualityRetrieval` | one request to the quality retrieval | the reads of each unit, merge, pools, fusion, roles, selection, coverage, the repair read, the stored run |
| `Ranking` | how those two sort, filter and cut | `sorted(.., key=..)`, `[x for x in s if ..]`, `s[:n]`; no variables |
| `RankedRetrieval` | one request to one of the five other repositories | what each lane finds, fusion, caps, reranker, second look |
| `CorpusCatalog` | the catalog table and the command-line imports (extends `DocumentRepository`) | each UPDATE of `corpus_catalog_repository.py`, each step of `demo_corpus/cli.py` from one statement to the next, time-outs, deaths, a changed workbook |
| `LegalEffects` | imports of reviewed effects, the shadow evaluator's outcome | the statements of one import in order, each with the conflict it answers; several imports run at once under READ COMMITTED |
| `ShadowEvaluation` | the harness of the shadow evaluator | its statements on the database and the roles of the server, with the clean-up |
| `RemoteSources` | ingestion and discovery over the legal sources | each HTTP exchange of `rest.py` and `soap.py` with its retries, and the loops of the commands |
| `ProviderClient` | the language model's adapter | `generate` (one POST), `health_check` (GET, retries, pauses), the registry |
| `SourcePolicies` | the policy compiler | loading of the three tables, `compile`, and what its records keep |
| `SchemaMigrations` | the Alembic revisions 0001 to 0012 and the backfill of the number keys | for every statement what it needs and what it does to rows, up and down; a command is one transaction |
| `StressRun`, `CandidateEvaluation`, `M2Evaluation` | the three tools that store runs in the application's database | every call, score, gate, report and clean-up, with failures, lost answers, interruption and other clients |
| `ConversationProofs`, `ServiceProofs`, `ApplicationProofs`, `DocumentProofs`, `GroundedChatProofs`, `QualityProofs`, `CatalogProofs`, `ToolProofs` | theorems | each extends the modules it is about |
| `MC*` | constants for TLC | `MCTools` (effects, stress run, migrations, harness, M2), `MCSources` (sources, provider, policies) and `MCQuality` (quality and ranked retrieval, candidate evaluation) put several small systems side by side: one of them works in a behaviour, the others stand still |

Data is reduced to what the properties tell apart. A delivery, a sender and a
conversation id are model values; a text either holds a line break or does not; a
summary is the set of ordinals it still shows (`summarize_compacted` keeps the newest
characters, so any number of the older turns may have left it); an outbound row is named by its
exchange (its uuid is never used after the exchange is gone). Time is a counter;
`now` is what the caller believes, never later than the clock. A canonical
snapshot digest is a model value, of which some are fetched over verified TLS; a
chunk is its primary key, a number because the backfill walks keys in order (the
keys are random, so the order of insertion does not follow it). All documents
belong to active sources. A REPEATABLE READ snapshot is the number of versions
committed before it: versions are never changed, so that number names what it
holds. In `CorpusRetrieval` text search, vector distance and reranker scores are
left open: a lane may return any of the chunks its filters admit, an exact vector
lane at least one. `QualityRetrieval` leaves open what a read finds and keeps the
ranks exact; of scores it keeps the order that the algorithm compares.
`RankedRetrieval` takes the ranking of every lane as given and computes the rest;
reciprocal ranks are scaled to integers, which is exact for the ranks of the run and
rounded down beyond them; the proofs use no more than that the second place of an arm
is worth more than its third. An artifact of effects is its ids, the keys of its relations and its events.

Simplifications a reader should know: `QualityRetrieval` embeds all rows of a
version together and reads at most one hit per lexical lane in its run;
`quality_prompt.py` (packing, claims) is left out. `RankedRetrieval` always finds
the chunk it hydrates, and the run without evidence that a temporal request gets
(`retrieval/service.py:24`) is in `GroundedChat`. `SchemaMigrations` leaves out
indexes and CHECKs that look only at the form of a value and runs one migrator at
a time. `LegalEffects` gives each artifact one family.

Definitions marked "Mutation" are broken variants of the definition that follows
them (a dropped guard, a wrong filter). No specification uses them: `PROJECT.json`
names for each property the variant that TLC shows to violate it.

## Runs

| Run | Asks | Bounds |
|---|---|---|
| `conversation` | the summary holds the newest of what compaction removed and meets the rows; the tables implement `ConversationLog` | one conversation (two share no row), three deliveries, retention limit 2, so that the third completed turn compacts; five ordinals for reruns; time for leases and retention to expire |
| `service` | one run per retained message, true acknowledgements | one sender, three messages (one more than the limit), two requests, one conversation, three ordinals, one tick, with stops, overlapping and repeated delivery |
| `service_live` | one conversation per sender; every reserved reply is sent | three messages, one with a line break, answers with one, two conversation ids for the activation race, in which create, activate and fail may fail or lose their answers at any time; no stops, no overlapping redelivery |
| `application` | nothing leaks, senders in hand stay known, the application implements `AtMostOnceSend` | three senders for a registry of two, two exchanges of one sender, two requests; starts, failures and deaths unbounded |
| `chat` | exact runs, whole backfills, grounded answers, `GroundedAnswer`, one verdict in the end | one document with two trusted versions, one ingester, one backfill with batches of one, one question. With an untrusted version between three snapshots the same holds (1.8 million states, outside the run's time); the trust filter is part of the theorems |
| `quality` | every unit keeps its evidence, support is read, citations are current; the best match, named documents and places of the other repositories; the candidate evaluation passes with nothing left | quality: two documents, one imported by hand, two units, four kinds of question, pools and evidence of two, one hit a lane, two reads (the code allows five, a third meets the same states of coverage). Ranked: four documents, seven chunks, two second versions, window of four, limits of three, one or two citations. Candidate evaluation: a case of each set, two pool sizes, two failures or steps of other clients. 2.6 million states |
| `imports` | the catalog is true, INDEXED stays, the document log is implemented | one document, two snapshots, two imports, one chunk each. The invariants also hold with two documents and one import (12 million states) |
| `sources` | what was fetched was served, exit code 0 is true, runs end; the provider's verdict; the policy records | two references, two texts, two endpoints, two attempts, two changes of the source; the provider has two attempts, a limit of two seconds, pauses of 0, 1 and 10; the compiler gets the checked-in policy and its one-edit variants, several registries, three days |
| `tools` | the properties of the operator's tools | importer: six artifacts around one key, two imports. Alembic: two versions, one citation, targets on both sides of the trust columns, the semantic score and the number key; batches of one. Stress: two questions, four sets of arguments, one round; any call's planner, embedding, reranker, store, grounding and provider may fail. M2: a case of each set, two faults. Harness: unbounded. 1.7 million states |
| `lost_reply` (violated) | every reserved reply is sent, overlapping redelivery allowed | no stops at all |
| `answer_lines` (violated) | an answered message gets its completed exchange | one message |
| `undecodable` (violated) | the health check raises nothing | as the provider in `sources` |

The bounds are the smallest at which every branch of the actions is taken: two
actors for every race the code knows (a third finds the same row states), one
message more than the retention limit for compaction, one tick more than a lease.
What does not depend on a bound is proved. `CHECK_DEADLOCK FALSE` is set
throughout because the bounds on time and ordinals, and senders, imports and tools
that have nothing more to do, let the system stop.

### Fairness

`FairSpec` of `ChannelService` lets a request go on (weak fairness of each
worker's step: every await of `handle_inbound` is bounded by a timeout) and lets
the platform deliver a message again until it sees 200 (weak fairness of
`Receive`; the documented behaviour of the platform). It is used with
`MayStop = FALSE`: a process that dies owes nobody a step. `MayStop` stands for
deaths, cancellation and the failing transactions behind the binding; that the
activation of a binding fails, or that its answer is lost, is part of `Create`,
`Activate` and `Fail` in every run, so a row may be FAILED and taken over at once.
`ChatSpec` has weak
fairness of each question's own step, because planner, database, provider and
reranker all run under a timeout, and none for ingesters or backfills.
`ClientsSpec` has weak fairness of the ingestion command's own step: each HTTP
exchange and each pause is bounded; the source owes nothing. No other run assumes
fairness.

### What the violated runs show

Each contradicts a sentence of the repository's docs or comments, quoted under
"findings" in `PROJECT.json`.

* `lost_reply`: a duplicate answered 200 (PROCESSING) silences the platform while
  the first request still can be refused the SENDING slot of its sender.
* `answer_lines`: a multi-line answer is legal for the chat and refused by
  `PersistedConversationExchange` inside `complete()`. That is STATE_INVALID, which the
  channel answers 200 (TERMINAL_NO_RETRY): nobody delivers the message again, and the
  exchange stays PROCESSING until a later reservation abandons it.
* `undecodable`: a body that does not decode under its Content-Encoding raises
  `httpx.DecodingError` through `health_check`, which promises normalized health.

### What else the models show

These are in the models as the code has them; no run is spent on them.

* Conversation. A message with a line break is legal for the webhook
  (`tests/unit/test_official_zalo_bot.py:54`) and answered 503 for ever
  (`conversation/models.py:107`). A message that comes again after its exchange was
  compacted is answered and sent again: the duplicate check reads the exchange table
  only (`conversation/repository.py:186`; `docs/M08-zalo-channel-plan.md:49` says
  otherwise). A conversation whose requests keep dying keeps more terminal exchanges
  than its cap (`docs/evidence/M07-conversation.md:21`), and `complete()` then plans at
  most `PlanLimit` of them, because only `complete()` compacts. `handle_inbound` passes
  its arrival time to `complete()`, whose lease check therefore cannot fail.
* Documents. A source that publishes A, B and A again stays at B: the third
  ingestion finds A's digest among the old versions and answers UNCHANGED
  (`documents/repository.py:190`; `docs/M05-retrieval-citation-plan.md:54-55`).
* Imports. A process that dies after EXTRACTED strands its entry although
  `pipeline_cli.py:1` says "resumable"; a withdrawn link ends every batch with
  StopIteration (`demo_corpus/cli.py:180`); a reset that meets another import can
  quarantine a valid document (`cli.py:224`); an upsert queues QUARANTINED entries
  again; time-outs do not reach the exit code (`cli.py:267`).
* Legal effects. Two imports at one time may store two events on one assertion
  (the prompt03 schema proposal, line 43, excludes it); identical ones end with
  PERSISTENCE_FAILURE; after such a race a correction with the same key is
  impossible; a cycle of corrections inside one artifact is accepted. The harness:
  when the role transaction is rolled back, DROP OWNED BY meets a missing role, and
  database and connection stay.
* Sources. The WSDL is cached for the process (`soap.py:290`); a document may change
  between the gateway's answer and its canonical page (`rest.py:184`); a POST is never
  repeated. The compiler's digests do not hold the day. A policy's denied content
  types must lie inside the capability too.
* Provider. A text with a lone surrogate raises UnicodeEncodeError from `generate`;
  a later time-out keeps the request id of an earlier attempt; the settings admit
  "anthropic", which has no factory.
* Quality retrieval. Two observations of one chunk at one rank with different
  metadata end in PERSISTENCE_FAILURE, where `_best_same_lane` promises a choice; a
  repair may evict evidence and looks only at the first unresolved unit
  (`quality_repair/repair.py:41`); `CHAT_MAX_CITATIONS` below the target of three
  fails; a static target of three drops the fourth unit; one run can cite two
  versions of a document. The metadata repository lets raw exceptions through, and
  may cut a document named by its exact number before the reranker.
* Schema. Below 0006 and up again a row trusted on first use becomes
  LEGACY_UNVERIFIED (`docs/M08.2-benchmark-ready-corpus-plan.md:260-263`); 0010
  down drops the reranker's scores; a round trip of 0011 leaves number keys NULL
  until the backfill runs again, and a backfill that a migration crosses can exit 0
  with rows left.
* Legal effects, the evaluator. `evaluate()` says SHADOW_UNRESOLVED for any exception,
  so its single answers may go from CONFLICT to UNRESOLVED and back; what never comes
  back is an answer the registry has ruled out (`ShadowNeverRecovers` compares the sets
  of possible answers).
* Tools. A question whose embedding failed is stored as a run without citations, and
  its row names that run (`documents/reranked_semantic_repository.py:94`). The stress
  run exits 0 although its clean-up is FAILED_SAFE, and an
  interrupted one reports COMPLETED; a run whose commit answer is lost stays, in M2
  too; the candidate evaluation counts other clients' rows as its own (a false alarm
  only), and its gate takes the smallest eligible pool; M2's gate passes with a
  leaked S0 run, and a failing S0 case helps S1 "improve".

## Proofs

The theorems hold for every value of the constants that these assumptions allow,
each stated in the module that declares the constants and evaluated by TLC in the
runs that extend it:

* `ConversationAssumption`, `ServiceAssumption`: leases and retention are positive,
  the retention limit is at least two (`conversation/config.py`), a message has one
  sender.
* `OutboundAssumption`, `ApplicationAssumption`: a delivery belongs to one binding,
  the registry of recipients has room for at least one.
* `DocumentAssumption`, `CorpusAssumption`, `CatalogAssumption`: types, and batches
  of at least one.
* `SourcesAssumption`, `ProviderAssumption`, `PoliciesAssumption`: a command works
  on a finite list that is not empty, there is at least one attempt, a registry's
  entry has the fields that its file format demands.
* `ArtifactAssumption`: artifacts passed the validation of
  `legal_effects/contracts.py`.
* `EvaluationAssumption`, `StressAssumption`, `SchemaAssumption`: types; the cases of
  an evaluation are lists, a stress run has a level and each is at least 1 (`main()`
  ends at once otherwise), a database has finitely many versions, and 0 comes before
  all of their ids.
* `QualityAssumption`: one to four units, and the minimum of evidence is within its
  maximum.
* `RankedAssumption`: types, ids are numbers, `top_k` is at least 1
  (`retrieval/models.py`), and a question holds two document numbers at most
  (`_NUMBER_LIMIT`). Of the lists a question would find nothing is assumed: they may
  be of any length and hold a chunk twice.

So there are any numbers of conversations, deliveries, requests, exchanges,
documents, ingesters, imports, backfills, questions, references and ticks.

| Module | States | Inductive invariant, and why it is needed |
|---|---|---|
| `ConversationProofs` | `TypeOK`, `SummaryEndsWhereRowsBegin`, `LiveReservationIsCurrent`, `EndedTurnsStayEnded`, `OrdinalsGrow`, `ImplementsLog` | `ConvInv`: the ordinals of an open conversation are three runs, 1..k deleted, k+1..n existing, the rest unused, of which only row n may be processing; a reservation whose row is processing carries the current version and summary and a plan that begins right behind k; the summary is a run of ordinals that ends at k, however much of its older end was cut. So `complete()` cannot delete the wrong rows although its plan was computed long before: whatever would change the plan is another reservation, which abandons the row first |
| `ServiceProofs` | types, `OneConversationPerSender`, `AcknowledgedMeansAccepted`, `OneRunPerMessage` | `BoundInv` (a request past the binding holds the sender's ACTIVE conversation), `ReceiptInv` (a receipt, and a row SENT, come only from an accepted call), `ChatInv` and `SendInv` (the chat's and the bridge's calls are counted by the rows they left). An invariant of the rows alone is not inductive: a request between two transactions must be counted with the row it will write |
| `ApplicationProofs` | outbound: types, `AtMostOneAttempt`, `RowTellsTheAnswer`, `SendersHaveTheirRow`, `ImplementsAtMostOnce`; application: types, `NothingLeaks`, `PostsUseAnOpenChannel`, `ReadyMeansServing`, `HandledSendersAreKnown`, and that it implements `OutSpec` | `OutInv`: a row before SENDING was never attempted, a caller about to send owns its row alone, one about to record carries the bridge's answer. `LifeInv`: what each stage of start and close has open. `ListInv`, `HandledInv`: the registry has no doubles, and everyone in it has on record all who were remembered after him |
| `DocumentProofs` | types, `NumbersAreDense`, `WritersNeverCollide`, `ResultNamesItsVersion`, `ImplementsDocumentLog` | `DocInv`: one ingester at a time holds a document, and what it saw under the lock is true until its insert. That makes `max + 1` safe |
| `GroundedChatProofs` | types, `BackfillCoversItsStart`, `RunSeesOneInstant`, `ExactRunsMissOnlyTheNew`, `AnswersCiteTheirEvidence`, `RefusedOnlyForAReason`, `ImplementsGroundedAnswer` | `CorpusInv`: a snapshot, named by a number of commits, is never changed by a later one, so what may be cited from it stays fixed and coverage once complete stays complete. `DueSound`: what a backfill still owes lies in its batch or behind its cursor; the lemma on batches shows that the least chunks of a set are passed by the next cursor. `ChatInv` adds that evidence, prompt and second resolution read rows with an owner, which never change |
| `QualityProofs` | `SelectionKeepsEveryUnit`, `SupportedMeansRead`, `CitedInTheWindow`; candidate evaluation: `PassedWithNothingLeft`; other repositories: `BestRawMatchIsCited`, `NumbersYieldToAgreement`, `NoPlaceIsLost` | `QInv`: what a request holds at each stage was observed by a read of that unit, of a version that was the latest since the request began. `CandidateInv`: the list, the selection in hand and the rows written make up all that was wanted, and a run in the database has a selection in hand or a row that does not pass. `RankedInv`: the three promises with the shape of a request, whose candidates are chunks and belong to the reranked and the metadata repository only |
| `CatalogProofs` | types, `OnlyAStopStrands`, `AloneRunsTellTheTruth`, `IndexedForGood`, `ImplementsDocumentLog` | `CatInv`: a settled row absorbs whatever a late import writes; an import lets go of an entry only with a settled row or a place in `dropped`; one that met nobody finds every entry it has not told of where its list saw it. Imports forget ingestion jobs, which is no step of `DocSpec`, so `DocInv` is proved again for them |
| `ToolProofs` | effects: types, `DuplicatesOnlyFromRaces`, `AnswersMatchTheRegistry`, `ShadowNeverRecovers`; harness: `LeavesNothingBehind`; stress run: `CleansUpItsOwn`, `ExitZeroReportsAll`; sources: types, `FetchedWasServed`, `ExitZeroMeansDone`; provider: `VerdictIsEarned`; policies: `KeptRecordsHold`; schema: `StrictMeansVerified`, `FillIsComplete`, `OnlyScoresBlock`; M2: `LeftoversAreReported` | `EffectsInv`: what was stored when an import began has been compared with each of its relations and events, and what an event killed stays dead; unique ids come from the rows an import holds uncommitted, not from what it read. `ShadowInv`: roles exist only between their statements and in a database that was upgraded, and the summary is the last step. `StressInv`: every stored run, one without citations too, is captured, lost or still being answered. `ReportInv`: as long as the run goes well each call of the lanes so far has one row or is on its way, a row names only its own stored run, the calls at a port are what its counter lacks in ends, and a case of the real lane is charged what was asked since its snapshot, which is its own as calls come one at a time there. `SourcesInv`: the text in hand was current in this run, and each reference is accounted for. `HealthInv`: pauses sum up to no more than the limit for each attempt made. `CompilerInv`: a kept record is a compilation of a registry that was loaded. `SchemaInv`: a provenance row has its version and still says in its first column how it was fetched, from 0006 on the trust mode agrees with it, and what the backfill has still to see lies ahead of its cursor or is in its batch. `Consistent`: tables, columns, CHECKs, guards and extension are those of the database's revision, a pin is there only from 0006 on, and every citation has a score, before 0009 a lexical one. `M2Inv`: a run in the database is under way or has an observation with a failure code |

Two refinements deserve a word. `TablesImplementConversationLog` maps the tables to
the log of turns: the three runs of ordinals make the log's length n and its folded
part k (`FS_Interval` counts them), abandoning is the log's `GiveUp` or half of its
`Replace`, and an answer with its plan 1..m is `Fold`. `ApplicationImplementsOutbound`
maps every await of the lifespan to a step of `OutSpec` or none, and with it
`OneAttemptOverRestarts` carries the at-most-once promise over restarts.

A migration folds the statements of a revision over the database, and the revisions
of its way over that; M2's gate adds up failures over a set. `FoldExists` shows that
such a fold over a finite set exists at all: the least size of a set for which it does
not would be one more than a size for which it does. Its values then are a row in
which each member is made from the one before, and what passes from member to member
holds of the last (`Upwards`).

That only a citation's score blocks a downgrade (`OnlyScoresBlockADowngrade`) is about
every statement of every revision. `AtRevision(d, k)` says what a database has at
revision k: the tables are the first so many in the order in which they were made, each
refers to earlier ones only, so the one made last can always go. A lemma for each kind of
statement says what it makes of such a database when nothing is missing or already there
(`CreateFits`, `DropFits`, `CheckFits` and so on), and 24 lemmas follow the revisions up
and down, `AtRevision` to `AtRevision`. Where a CHECK is put over rows, the lemma shows
that they pass it: 0006 has just filled the trust columns from how a row was fetched,
and 0009 going down has refused rows that have nothing but the score it takes. After that
refusal nothing runs and the command is undone (`FailureStays`). The catalog as an
invariant is more than what a command needs for its own target: the next command starts
from what this one left.

The promises of `RankedRetrieval` rest on what is computed in one step, from lists of
any length, so their proof is mostly about `Ranking`. `InOrder` chooses for each place
the member that as many others come before as the place says. `InOrderLists` shows that
this is a sort: the sets of those that come before the members grow strictly with the
order, so their sizes are different numbers below the size of the whole, hence all of
them, and there is one member for each place. No induction is needed. Then:

* `FusionKeepsBest`: if the best raw match is among the first `top_k`, it is kept; if
  not, it takes the last place, and as it was in no other the rest is as many as before.
* `LowPlacesLose`: a named document is first or second of its arm, since there are two
  numbers at most, and has at least 1/62. A document in one arm alone, third or later
  there, has at most 1/63; whoever goes to the reranker in place of the named one is not
  behind it (`ChosenByAgreement`).
* `NoPlaceIsLost`: if the cut leaves a place free it has cut nothing, and what it cuts
  lists every candidate that still stands, for `_revalidate` comes first.

`LiveReservationIsCurrent`, `AtMostOneAttempt`, `RowTellsTheAnswer`,
`RunSeesOneInstant`, `PostsUseAnOpenChannel`, `ReadyMeansServing`,
`RefusedOnlyForAReason`, `NumbersAreDense`, `WritersNeverCollide`,
`ResultNamesItsVersion` and the type theorems are proved and no run of the list
checks them: they are conjuncts of the invariants, or follow from the refinements.

### What is only model-checked

Liveness (`ReservedReplyIsSent`, `EveryQuestionIsAnswered`, `RunsEnd`): the prover has no
rule for fairness. Every safety property that a passing run checks is a theorem; the
violated runs are counterexamples.

## Not modelled

* Texts, prompts, HTML and PDF parsing, the planner's wording, HTTP headers and TLS
  are data or pure I/O. So is the question analyzer: its result is one of a small
  set of plans.
* The read-only diagnostics (`fulltext_root_cause`, `phase_b1_*`, `phase_b2a_*`, the
  evaluation orchestrator, `evaluate_semantic_ann.py`) and the spikes keep no state
  that the system reads.
* The anchor resolver and the permissions of manifests are filters inside one step.
* Of the sources: the health check of the SOAP adapter, which has no caller, and exit
  code 2 of the live switch, which comes before any state. Of the policies: the day
  inside a record.
* Four hazards have no property (dead reservations that stay, the SENDING slot of a
  dead request, expired conversations without a purge, an entry that left the
  workbook's files): the code has no rule that would bring the repair, so there is no
  promise to check. `PROJECT.json` notes each at its line.
