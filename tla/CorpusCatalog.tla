---------------------------- MODULE CorpusCatalog ----------------------------
(***************************************************************************)
(* The import of the approved corpus: the catalog table of                 *)
(* documents/corpus_catalog_repository.py and the command-line imports of  *)
(* demo_corpus/cli.py that move its entries, over the document store of    *)
(* DocumentRepository.  Imports run at the same time, time out, meet       *)
(* refused files and die.                                                  *)
(*                                                                         *)
(* An entry is named by its document (external_id is dataset, sheet and    *)
(* row); a Snapshot also stands for the file it was extracted from.  An    *)
(* import works through its list in any order, and source_id and limit     *)
(* leave it any part of the list.  The rows of corpus_ingestion_runs tell  *)
(* an operator how far an import is; no import reads them, and they are    *)
(* left out.                                                               *)
(***************************************************************************)
EXTENDS DocumentRepository

CONSTANT LinkKind    \* bound: the kinds of file reference the workbook takes

ASSUME CatalogAssumption == LinkKind \subseteq {"direct", "folder", "pending"}

VARIABLES
    catalog,   \* the corpus_catalog_entries table
    cli,       \* per import process: its place in run()
    refused,   \* history: documents whose file or text did not validate
    dropped    \* history: entries that an import was working on when it stopped

catVars == <<catalog, cli, refused, dropped>>
importVars == <<docVars, catVars>>

Kind == {"direct", "folder", "pending"}

Settled == {"INDEXED", "QUARANTINED", "FAILED"}

Absent == [status |-> "absent"]

\* sha, document and version are written together by transition()
Entry == [status : {"DISCOVERED", "FILE_PENDING", "EXTRACTED", "OCR_REQUIRED"} \cup Settled,
          reason : {"none", "folder", "pending", "failed", "ocr", "invalid"},
          kind : Kind,
          sha : {{}} \cup {{s} : s \in Snapshot},
          version : Nat]

\* _TRANSITIONS, for the statuses the import uses
Transitions(from) ==
    CASE from = "DISCOVERED" -> {"EXTRACTED", "OCR_REQUIRED", "QUARANTINED", "FAILED"}
      [] from = "EXTRACTED" -> {"INDEXED", "QUARANTINED", "FAILED"}
      [] from = "OCR_REQUIRED" -> {"EXTRACTED", "QUARANTINED", "FAILED"}
      [] from \in {"FILE_PENDING", "QUARANTINED", "FAILED"} -> {"DISCOVERED"}
      [] OTHER -> {}

\* _initial_state
InitialState(k) ==
    CASE k = "direct"  -> [status |-> "DISCOVERED",   reason |-> "none"]
      [] k = "folder"  -> [status |-> "QUARANTINED",  reason |-> "folder"]
      [] k = "pending" -> [status |-> "FILE_PENDING", reason |-> "pending"]

Off == [pc |-> "off"]

\* The state of an import between its steps: the workbook it loaded, the statuses
\* it is to list (none: catalog only), what it has to do, the entry in hand, what
\* a handler has caught and what it told of each entry.  The outcome "failed" is
\* processing_timeout or processing_failed.  alone: no other process met it yet.
Import == [pc : {"upsert", "list", "next", "fetch", "extracted", "ingest", "settle", "summary"},
           lists : SUBSET {"DISCOVERED", "OCR_REQUIRED"},
           kinds : [Document -> Kind], todo : SUBSET Document, doc : SUBSET Document,
           outcome : {"none", "ocr", "invalid", "failed"},
           told : [Document -> {"none", "indexed", "ocr", "invalid", "failed"}],
           alone : BOOLEAN]

Running(c) == cli[c].pc # "off"

\* The one entry in hand
Doc(c) == CHOOSE d \in cli[c].doc : TRUE

At(c, pc) == cli[c].pc = pc

Goto(c, pc) == cli' = [cli EXCEPT ![c].pc = pc]

-------------------------------------------------------------------------------
CatInit ==
    /\ DocInit
    /\ catalog = [d \in Document |-> Absent]
    /\ cli = [c \in Ingester |-> Off]
    /\ refused = {}
    /\ dropped = {}

\* run() up to start_run: the workbook, which may have been edited, is read once
StartRun(c, lists, kinds) ==
    /\ At(c, "off")
    /\ cli' = [i \in Ingester |->
                 IF i = c
                 THEN [pc |-> "upsert", lists |-> lists, kinds |-> kinds, todo |-> {}, doc |-> {},
                       outcome |-> "none", told |-> [d \in Document |-> "none"],
                       alone |-> \A j \in Ingester : ~Running(j)]
                 ELSE IF Running(i) THEN [cli[i] EXCEPT !.alone = FALSE] ELSE cli[i]]
    /\ UNCHANGED <<docVars, catalog, refused, dropped>>

\* Mutation: ON CONFLICT takes every column of the new row.
UpsertedAfresh(row, k) ==
    [status |-> InitialState(k).status, reason |-> InitialState(k).reason,
     kind |-> k, sha |-> {}, version |-> 0]

\* upsert_entries on one row: a new row, or new metadata; a row that waited for
\* a file or was quarantined is discovered again once the file is direct.
Upserted(row, k) ==
    CASE row = Absent -> [status |-> InitialState(k).status, reason |-> InitialState(k).reason,
                          kind |-> k, sha |-> {}, version |-> 0]
      [] row # Absent /\ row.status \in {"FILE_PENDING", "QUARANTINED"} /\ k = "direct" ->
           [row EXCEPT !.status = "DISCOVERED", !.reason = "none", !.kind = k]
      [] OTHER -> [row EXCEPT !.kind = k]

UpsertEntries(c) ==
    /\ At(c, "upsert")
    /\ catalog' = [d \in Document |-> Upserted(catalog[d], cli[c].kinds[d])]
    /\ Goto(c, IF cli[c].lists = {} THEN "summary" ELSE "list")
    /\ UNCHANGED <<docVars, refused, dropped>>

\* list_processable with the include flags of the mode
ListProcessable(c) ==
    /\ At(c, "list")
    /\ \E todo \in SUBSET {d \in Document : catalog[d].status \in cli[c].lists} :
         cli' = [cli EXCEPT ![c].todo = todo, ![c].lists = {}, ![c].pc = "next"]
    /\ UNCHANGED <<docVars, catalog, refused, dropped>>

\* The except clause of run(): the exception leaves.
Interrupt(c) ==
    /\ cli' = [cli EXCEPT ![c] = Off]
    /\ dropped' = dropped \cup cli[c].doc

\* The next record.  The adapter knows only the entries whose file is direct:
\* looking for another one raises, and nothing catches it inside the loop.
NextRecord(c) ==
    /\ At(c, "next")
    /\ \E d \in cli[c].todo :
         IF cli[c].kinds[d] = "direct"
         THEN /\ cli' = [cli EXCEPT ![c].todo = @ \ {d}, ![c].doc = {d}, ![c].pc = "fetch"]
              /\ UNCHANGED dropped
         ELSE Interrupt(c)
    /\ UNCHANGED <<docVars, catalog, refused>>

\* What the ingestion of c returned, or held, is gone.
Forget(c) ==
    /\ ing' = [ing EXCEPT ![c] = Idle]
    /\ UNCHANGED <<source, versions, commits>>

\* One of the handlers of the loop takes the entry over.
Caught(c, outcome) == cli' = [cli EXCEPT ![c].pc = "settle", ![c].outcome = outcome]

\* fetch_document_artifact: download, extraction and the snapshot
FetchArtifact(c) ==
    /\ At(c, "fetch")
    /\ Fetch(c, Doc(c))
    /\ Goto(c, "extracted")
    /\ UNCHANGED <<catalog, refused, dropped>>

\* It raises: TimeoutError, OCRRequiredError, ValueError or anything else.
FetchFails(c) ==
    /\ At(c, "fetch")
    /\ \E outcome \in {"ocr", "invalid", "failed"} :
         /\ Caught(c, outcome)
         /\ refused' = IF outcome = "invalid" THEN refused \cup cli[c].doc ELSE refused
    /\ UNCHANGED <<docVars, catalog, dropped>>

\* Mutation: an entry that some import works on is left to it.
AbsorbsWorking(d, status) ==
    catalog[d].status \in Settled \cup {"EXTRACTED"} /\ status # catalog[d].status

\* Mutation: an entry that waits for OCR counts as settled.
AbsorbsWaiting(d, status) ==
    catalog[d].status \in Settled \cup {"OCR_REQUIRED"} /\ status # catalog[d].status

\* transition(): a settled entry takes no other status, without an error
Absorbs(d, status) == catalog[d].status \in Settled /\ status # catalog[d].status

Allowed(d, status) ==
    status = catalog[d].status \/ status \in Transitions(catalog[d].status)

\* The update overwrites every column, with NULL where nothing was passed.
Written(d, status, reason, sha, version) ==
    [catalog EXCEPT ![d] = [@ EXCEPT !.status = status, !.reason = reason, !.version = version,
                                     !.sha = sha]]

\* transition() as its caller sees it: TRUE when it does not raise
Accepts(d, status) == Absorbs(d, status) \/ Allowed(d, status)

Transition(d, status, reason, sha, version) ==
    catalog' = IF Absorbs(d, status) THEN catalog ELSE Written(d, status, reason, sha, version)

\* EXTRACTED with the hash of the file; a refusal is a ValueError
MarkExtracted(c) ==
    /\ At(c, "extracted")
    /\ IF Accepts(Doc(c), "EXTRACTED")
       THEN /\ Transition(Doc(c), "EXTRACTED", "none", {ing[c].snapshot}, 0)
            /\ Goto(c, "ingest")
            /\ UNCHANGED docVars
       ELSE Caught(c, "invalid") /\ Forget(c) /\ UNCHANGED catalog
    /\ UNCHANGED <<refused, dropped>>

\* ingest_snapshot runs
IngestSnapshot(c) ==
    /\ At(c, "ingest")
    /\ FindExisting(c) \/ LockDocument(c) \/ InsertVersion(c)
    /\ UNCHANGED catVars

\* ingest_snapshot raises: its text, its chunks or their vectors are refused before
\* anything of it is written, the call times out or fails; the answer to its commit may
\* be what was lost.
IngestFails(c) ==
    /\ At(c, "ingest")
    /\ \E outcome \in {"failed", "invalid"} :
         /\ outcome = "invalid" => ing[c].pc \in {"fetched", "embedding"}
         /\ Caught(c, outcome)
         /\ refused' = IF outcome = "invalid" THEN refused \cup cli[c].doc ELSE refused
    /\ Forget(c)
    /\ UNCHANGED <<catalog, dropped>>

\* The entry is done with: the outcome is counted.
Tell(c, outcome) ==
    cli' = [cli EXCEPT ![c].pc = "next", ![c].doc = {}, ![c].outcome = "none",
                       ![c].told[Doc(c)] = outcome]

\* INDEXED with the version that ingest_snapshot named
MarkIndexed(c) ==
    /\ At(c, "ingest")
    /\ ing[c].pc = "done"
    /\ IF Accepts(Doc(c), "INDEXED")
       THEN /\ Transition(Doc(c), "INDEXED", "none", {ing[c].snapshot}, ing[c].number)
            /\ Tell(c, "indexed")
       ELSE Caught(c, "invalid") /\ UNCHANGED catalog
    /\ Forget(c)
    /\ UNCHANGED <<refused, dropped>>

\* A transition of the try block meets a broken database: except Exception
TransitionFails(c) ==
    /\ At(c, "extracted") \/ (At(c, "ingest") /\ ing[c].pc = "done")
    /\ Caught(c, "failed")
    /\ Forget(c)
    /\ UNCHANGED <<catalog, refused, dropped>>

\* The status each handler writes
StatusOf(outcome) ==
    CASE outcome = "ocr" -> "OCR_REQUIRED"
      [] outcome = "invalid" -> "QUARANTINED"
      [] outcome = "failed" -> "FAILED"

\* The handler's own transition; a refusal of it leaves the loop.
Settle(c) ==
    /\ At(c, "settle")
    /\ IF Accepts(Doc(c), StatusOf(cli[c].outcome))
       THEN /\ Transition(Doc(c), StatusOf(cli[c].outcome), cli[c].outcome, {}, 0)
            /\ Tell(c, cli[c].outcome)
            /\ UNCHANGED dropped
       ELSE Interrupt(c) /\ UNCHANGED catalog
    /\ UNCHANGED <<docVars, refused>>

\* summary() and finish_run
Finish(c) ==
    /\ At(c, "summary") \/ (At(c, "next") /\ cli[c].todo = {})
    /\ cli' = [cli EXCEPT ![c] = Off]
    /\ UNCHANGED <<docVars, catalog, refused, dropped>>

\* A statement outside the try block of an entry meets a broken database.
DatabaseFails(c) ==
    /\ cli[c].pc \in {"upsert", "list", "next", "settle", "summary"}
    /\ Interrupt(c)
    /\ UNCHANGED <<docVars, catalog, refused>>

\* The process dies, or is interrupted from its terminal: nothing is written.
Dies(c) ==
    /\ Running(c)
    /\ cli' = [cli EXCEPT ![c] = Off]
    /\ Forget(c)
    /\ dropped' = dropped \cup cli[c].doc
    /\ UNCHANGED <<catalog, refused>>

Retryable(d) == catalog[d].status = "FAILED" /\ catalog[d].reason = "failed"

\* A pipeline starts: reset_retryable_failures
ResetRetryableFailures ==
    /\ catalog' = [d \in Document |->
                     IF Retryable(d)
                     THEN [catalog[d] EXCEPT !.status = "DISCOVERED", !.reason = "none"]
                     ELSE catalog[d]]
    /\ cli' = [c \in Ingester |->
                 IF Running(c) THEN [cli[c] EXCEPT !.alone = FALSE] ELSE cli[c]]
    /\ UNCHANGED <<docVars, refused, dropped>>

ImportStep(c) ==
    \/ \E lists \in SUBSET {"DISCOVERED", "OCR_REQUIRED"}, kinds \in [Document -> LinkKind] :
         StartRun(c, lists, kinds)
    \/ UpsertEntries(c)
    \/ ListProcessable(c)
    \/ NextRecord(c)
    \/ FetchArtifact(c)
    \/ FetchFails(c)
    \/ MarkExtracted(c)
    \/ IngestSnapshot(c)
    \/ IngestFails(c)
    \/ MarkIndexed(c)
    \/ TransitionFails(c)
    \/ Settle(c)
    \/ Finish(c)
    \/ DatabaseFails(c)
    \/ Dies(c)

CatNext ==
    \/ \E d \in Document : SourceChanges(d) /\ UNCHANGED catVars
    \/ ResetRetryableFailures
    \/ \E c \in Ingester : ImportStep(c)

CatSpec == CatInit /\ [][CatNext]_importVars

-------------------------------------------------------------------------------
(***************************************************************************)
(* Properties                                                              *)
(***************************************************************************)

\* Every variable of the catalog has its type.
CatTypeOK ==
    /\ catalog \in [Document -> Entry \cup {Absent}]
    /\ cli \in [Ingester -> Import \cup {Off}]
    /\ refused \subseteq Document /\ dropped \subseteq Document

\* An entry that is INDEXED stays so: neither an import that still holds it, nor
\* a new workbook, nor a reset takes it back.
IndexedForGood ==
    [][\A d \in Document : catalog[d].status = "INDEXED" => (catalog[d].status = "INDEXED")']_importVars

\* An entry is left between its file and its version (EXTRACTED, which no list
\* shows again) only by an import that stopped in the middle of it.
OnlyAStopStrands ==
    \A d \in Document : catalog[d].status = "EXTRACTED" =>
        d \in dropped \/ \E c \in Ingester : Running(c) /\ d \in cli[c].doc

\* What an import that met no other process told of an entry is what the
\* catalog says of it, and it called only those files invalid that were refused.
AloneRunsTellTheTruth ==
    \A c \in Ingester : Running(c) /\ cli[c].alone =>
        \A d \in Document :
            /\ cli[c].told[d] = "indexed" => catalog[d].status = "INDEXED"
            /\ cli[c].told[d] \notin {"none", "indexed"} =>
                 /\ catalog[d].status = StatusOf(cli[c].told[d])
                 /\ catalog[d].reason = cli[c].told[d]
            /\ cli[c].told[d] = "invalid" => d \in refused

===============================================================================
