---------------------------- MODULE CatalogProofs -----------------------------
(***************************************************************************)
(* Theorems about CorpusCatalog, for any number of entries, files and      *)
(* imports that run at the same time.                                      *)
(*                                                                         *)
(* The argument: a settled row absorbs whatever a late import writes, an   *)
(* import that holds an entry lets go of it only together with a settled   *)
(* row or a place in dropped, and an import that met nobody finds every    *)
(* entry it has not told of yet where its list saw it.                     *)
(***************************************************************************)
EXTENDS CorpusCatalog, DocumentProofs

InHand == {"fetch", "extracted", "ingest", "settle"}

Waiting == {"DISCOVERED", "OCR_REQUIRED"}

\* An import q has one entry in hand or none, and the job that its step needs.
HoldIn(q, job) ==
    /\ q.pc \in InHand => \E d \in Document : q.doc = {d}
    /\ q.pc \notin InHand \cup {"off"} => q.doc = {}
    /\ q.pc \in {"extracted", "ingest"} => job.pc # "idle"
    /\ q.pc = "settle" => q.outcome # "none"

Holding(c) == HoldIn(cli[c], ing[c])

\* Where the entry in hand may stand while nobody else was about
Expected(q) ==
    IF q.pc = "ingest" THEN {"EXTRACTED"}
    ELSE IF q.pc = "settle" /\ q.outcome # "ocr" THEN Waiting \cup {"EXTRACTED"}
    ELSE Waiting

\* What an import told is so.
ToldSo(q, rows, bad) ==
    \A d \in Document :
        /\ q.told[d] = "indexed" => rows[d].status = "INDEXED"
        /\ q.told[d] \notin {"none", "indexed"} =>
             rows[d].status = StatusOf(q.told[d]) /\ rows[d].reason = q.told[d]
        /\ q.told[d] = "invalid" => d \in bad

\* What an import q that met no other process knows of the rows and the refused files
TruthIn(q, rows, bad) ==
    /\ q.pc \in {"upsert", "list"} =>
         q.todo = {} /\ \A d \in Document : q.told[d] = "none"
    /\ q.todo \cap q.doc = {}
    /\ \A d \in q.todo \cup q.doc : q.told[d] = "none"
    /\ \A d \in q.todo : rows[d].status \in Waiting
    /\ \A d \in q.doc : rows[d].status \in Expected(q)
    /\ q.pc = "settle" /\ q.outcome = "invalid" => q.doc \subseteq bad
    /\ ToldSo(q, rows, bad)

Truthful(c) ==
    /\ \A j \in Ingester \ {c} : ~Running(j)
    /\ TruthIn(cli[c], catalog, refused)

AloneTruthful == \A c \in Ingester : Running(c) /\ cli[c].alone => Truthful(c)

CliInv ==
    /\ CatTypeOK
    /\ \A c \in Ingester : Holding(c)
    /\ OnlyAStopStrands
    /\ AloneTruthful

CatInv == DocInv /\ CliInv

-------------------------------------------------------------------------------
(***************************************************************************)
(* The document store underneath                                           *)
(***************************************************************************)
\* An import takes a step of the document repository, or what it held is forgotten.
LEMMA StoreSteps ==
  ASSUME CatInv, [CatNext]_importVars
  PROVE  \/ [DocNext]_docVars
         \/ /\ UNCHANGED <<source, versions, commits>>
            /\ \E c \in Ingester : ing' = [ing EXCEPT ![c] = Idle]
<1> DEFINE Drops(c) == UNCHANGED <<source, versions, commits>> /\ ing' = [ing EXCEPT ![c] = Idle]
<1>1. CASE UNCHANGED docVars
  BY <1>1
<1>2. CASE \E d \in Document : SourceChanges(d) /\ UNCHANGED catVars
  BY <1>2 DEF DocNext
<1>3. ASSUME NEW c \in Ingester, ImportStep(c)
      PROVE  [DocNext]_docVars \/ Drops(c)
  <2>1. CASE FetchArtifact(c)
    <3>1. Doc(c) \in Document
      <4>1. PICK d \in Document : cli[c].doc = {d}
        BY <2>1 DEF FetchArtifact, At, InHand, CatInv, CliInv, Holding, HoldIn
      <4>2. QED
        BY <4>1 DEF Doc
    <3>2. QED
      BY <2>1, <3>1 DEF FetchArtifact, DocNext, Ingest
  <2>2. CASE IngestSnapshot(c)
    BY <2>2 DEF IngestSnapshot, DocNext, Ingest
  <2>3. CASE MarkExtracted(c) \/ IngestFails(c) \/ MarkIndexed(c) \/ TransitionFails(c) \/ Dies(c)
    BY <2>3 DEF MarkExtracted, IngestFails, MarkIndexed, TransitionFails, Dies, Forget, Caught
  <2>4. ASSUME NEW lists, NEW kinds, StartRun(c, lists, kinds) PROVE UNCHANGED docVars
    BY <2>4 DEF StartRun
  <2>5. CASE \/ UpsertEntries(c) \/ ListProcessable(c) \/ NextRecord(c) \/ FetchFails(c)
             \/ Settle(c) \/ Finish(c) \/ DatabaseFails(c)
    BY <2>5 DEF UpsertEntries, ListProcessable, NextRecord, FetchFails, Settle, Finish,
                DatabaseFails
  <2>6. QED
    BY <1>3, <2>1, <2>2, <2>3, <2>4, <2>5 DEF ImportStep
<1>4. CASE ResetRetryableFailures
  BY <1>4 DEF ResetRetryableFailures
<1>5. CASE UNCHANGED importVars
  BY <1>5 DEF importVars
<1>6. QED
  BY <1>2, <1>3, <1>4, <1>5 DEF CatNext

LEMMA StoreStepInv ==
  ASSUME CatInv, [CatNext]_importVars
  PROVE  DocInv'
<1>1. CASE [DocNext]_docVars
  BY <1>1, DocNextInv DEF CatInv
<1>2. ASSUME NEW c \in Ingester, UNCHANGED <<source, versions, commits>>,
             ing' = [ing EXCEPT ![c] = Idle]
      PROVE  DocInv'
  BY <1>2, QuietStepInv DEF CatInv, Idle
<1>3. QED
  BY <1>1, <1>2, StoreSteps

-------------------------------------------------------------------------------
(***************************************************************************)
(* Rows of the catalog                                                     *)
(***************************************************************************)
LEMMA RowOfEntry ==
  ASSUME CatTypeOK, NEW d \in Document, catalog[d].status # "absent"
  PROVE  catalog[d] \in Entry
  BY DEF CatTypeOK, Absent

\* What upsert_entries makes of a row
LEMMA UpsertedRow ==
  ASSUME NEW row \in Entry \cup {Absent}, NEW k \in Kind
  PROVE  /\ Upserted(row, k) \in Entry
         /\ Upserted(row, k).status = "EXTRACTED" => row.status = "EXTRACTED"
         /\ row.status = "INDEXED" => Upserted(row, k).status = "INDEXED"
<1>1. /\ InitialState(k).status \in {"DISCOVERED", "QUARANTINED", "FILE_PENDING"}
      /\ InitialState(k).reason \in {"none", "folder", "pending"}
  BY DEF InitialState, Kind
<1>2. CASE row = Absent
  BY <1>1, <1>2 DEF Upserted, Entry, Absent, Settled
<1>3. CASE row \in Entry
  <2>1. row # Absent
    BY <1>3 DEF Entry, Absent, Settled
  <2>2. CASE row.status \in {"FILE_PENDING", "QUARANTINED"} /\ k = "direct"
    BY <1>3, <2>1, <2>2 DEF Upserted, Entry, Settled
  <2>3. CASE ~(row.status \in {"FILE_PENDING", "QUARANTINED"} /\ k = "direct")
    BY <1>3, <2>1, <2>3 DEF Upserted, Entry, Settled
  <2>4. QED
    BY <2>2, <2>3
<1>4. QED
  BY <1>2, <1>3

\* transition() writes the row it was asked to, or leaves a settled one alone.
LEMMA TransitionWrites ==
  ASSUME CatTypeOK, NEW d \in Document,
         NEW status \in {"EXTRACTED", "OCR_REQUIRED"} \cup Settled,
         NEW reason \in {"none", "failed", "ocr", "invalid"},
         NEW sha \in {{}} \cup {{s} : s \in Snapshot}, NEW version \in Nat,
         Accepts(d, status), Transition(d, status, reason, sha, version)
  PROVE  /\ catalog' \in [Document -> Entry \cup {Absent}]
         /\ \A e \in Document : e # d => catalog'[e] = catalog[e]
         /\ \/ catalog'[d].status = status /\ catalog'[d].reason = reason
            \/ catalog' = catalog /\ catalog[d].status \in Settled
         /\ catalog[d].status \notin Settled =>
              catalog'[d].status = status /\ catalog'[d].reason = reason
         /\ catalog[d].status = "INDEXED" => catalog'[d].status = "INDEXED"
<1>1. CASE Absorbs(d, status)
  BY <1>1 DEF Transition, Absorbs, CatTypeOK
<1>2. CASE ~Absorbs(d, status)
  <2>1. Allowed(d, status)
    BY <1>2 DEF Accepts
  <2>2. catalog[d].status # "absent"
    BY <2>1 DEF Allowed, Transitions, Settled
  <2>3. catalog[d] \in Entry
    BY <2>2, RowOfEntry
  <2>4. catalog' = [catalog EXCEPT ![d] = [catalog[d] EXCEPT !.status = status, !.reason = reason,
                                           !.version = version, !.sha = sha]]
    BY <1>2 DEF Transition, Written
  <2> DEFINE row == [catalog[d] EXCEPT !.status = status, !.reason = reason,
                                       !.version = version, !.sha = sha]
  <2>5. row \in Entry /\ row.status = status /\ row.reason = reason
    BY <2>3 DEF Entry
  <2> HIDE DEF row
  <2>6. catalog' = [catalog EXCEPT ![d] = row]
    BY <2>4 DEF row
  <2>7. catalog[d].status = "INDEXED" => status = "INDEXED"
    BY <1>2 DEF Absorbs, Settled
  <2>8. QED
    BY <2>5, <2>6, <2>7 DEF CatTypeOK
<1>3. QED
  BY <1>1, <1>2

-------------------------------------------------------------------------------
(***************************************************************************)
(* Steps of one import                                                     *)
(***************************************************************************)
\* An import that was running becomes q, with the rows, jobs and histories of the
\* next state.
Becomes(c, q) ==
    /\ cli' = [cli EXCEPT ![c] = q]
    /\ q \in Import \cup {Off}
    /\ q # Off => q.alone = cli[c].alone
    /\ HoldIn(q, ing'[c])
    /\ \A i \in Ingester : i # c => ing'[i] = ing[i]
    /\ catalog' \in [Document -> Entry \cup {Absent}]
    /\ refused \subseteq refused' /\ refused' \subseteq Document
    /\ dropped \subseteq dropped' /\ dropped' \subseteq Document
    /\ \A d \in Document : catalog'[d].status = "EXTRACTED" =>
         \/ q # Off /\ d \in q.doc
         \/ d \in dropped'
         \/ catalog[d].status = "EXTRACTED" /\ d \notin cli[c].doc
    /\ q # Off /\ cli[c].alone /\ Truthful(c) => TruthIn(q, catalog', refused')

LEMMA BecomesInv ==
  ASSUME CliInv, NEW c \in Ingester, Running(c), NEW q, Becomes(c, q)
  PROVE  CliInv'
<1>1. /\ cli' \in [Ingester -> Import \cup {Off}]
      /\ cli'[c] = q
      /\ \A i \in Ingester : i # c => cli'[i] = cli[i]
  BY DEF CliInv, CatTypeOK, Becomes
<1>2. CatTypeOK'
  BY <1>1 DEF CatTypeOK, Becomes
<1>3. \A i \in Ingester : Holding(i)'
  BY <1>1 DEF CliInv, Holding, Becomes
<1>4. \A i \in Ingester : Running(i)' <=> IF i = c THEN q # Off ELSE Running(i)
  <2>1. q # Off <=> q.pc # "off"
    BY DEF Becomes, Import, Off
  <2>2. QED
    BY <1>1, <2>1 DEF Running
<1>5. OnlyAStopStrands'
  <2> SUFFICES ASSUME NEW d \in Document, catalog'[d].status = "EXTRACTED", d \notin dropped'
               PROVE  \E i \in Ingester : Running(i)' /\ d \in cli'[i].doc
    BY DEF OnlyAStopStrands
  <2>1. CASE q # Off /\ d \in q.doc
    BY <1>1, <1>4, <2>1
  <2>2. CASE catalog[d].status = "EXTRACTED" /\ d \notin cli[c].doc
    <3>1. d \notin dropped
      BY DEF Becomes
    <3>2. PICK i \in Ingester : Running(i) /\ d \in cli[i].doc
      BY <2>2, <3>1 DEF CliInv, OnlyAStopStrands
    <3>3. i # c
      BY <2>2, <3>2
    <3>4. QED
      BY <1>1, <1>4, <3>2, <3>3
  <2>3. QED
    BY <2>1, <2>2 DEF Becomes
<1>6. AloneTruthful'
  <2> SUFFICES ASSUME NEW i \in Ingester, Running(i)', cli'[i].alone PROVE Truthful(i)'
    BY DEF AloneTruthful
  <2>1. i = c
    <3>1. SUFFICES ASSUME i # c PROVE FALSE
      OBVIOUS
    <3>2. Running(i) /\ cli[i].alone
      BY <1>1, <1>4, <3>1
    <3>3. Truthful(i)
      BY <3>2 DEF CliInv, AloneTruthful
    <3>4. QED
      BY <3>1, <3>3 DEF Truthful
  <2>2. q # Off /\ cli[c].alone
    BY <1>1, <1>4, <2>1 DEF Becomes
  <2>3. Truthful(c)
    BY <2>2 DEF CliInv, AloneTruthful
  <2>4. TruthIn(q, catalog', refused')
    BY <2>2, <2>3 DEF Becomes
  <2>5. \A j \in Ingester \ {c} : ~Running(j)'
    BY <1>4, <2>3 DEF Truthful
  <2>6. QED
    BY <1>1, <2>1, <2>4, <2>5 DEF Truthful
<1>7. QED
  BY <1>2, <1>3, <1>5, <1>6 DEF CliInv

-------------------------------------------------------------------------------
(***************************************************************************)
(* One lemma for each kind of step                                         *)
(***************************************************************************)
LEMMA RunningIsImport ==
  ASSUME CliInv, NEW c \in Ingester, cli[c].pc # "off"
  PROVE  cli[c] \in Import /\ Running(c) /\ Holding(c)
  BY DEF CliInv, CatTypeOK, Off, Running

LEMMA InHandIsDoc ==
  ASSUME CliInv, NEW c \in Ingester, cli[c].pc \in InHand
  PROVE  cli[c].doc = {Doc(c)} /\ Doc(c) \in Document
<1>1. PICK d \in Document : cli[c].doc = {d}
  BY DEF CliInv, Holding, HoldIn
<1>2. QED
  BY <1>1 DEF Doc

\* The import ends, without an entry in hand or with a trace of it in dropped.
LEMMA EndsInv ==
  ASSUME CliInv, NEW c \in Ingester, Running(c), cli' = [cli EXCEPT ![c] = Off],
         catalog' = catalog, refused' = refused, dropped' = dropped \cup cli[c].doc,
         \A i \in Ingester : i # c => ing'[i] = ing[i]
  PROVE  CliInv'
<1>1. cli[c] \in Import
  BY RunningIsImport DEF Running
<1>2. HoldIn(Off, ing'[c])
  BY DEF HoldIn, Off, InHand
<1>3. Becomes(c, Off)
  BY <1>1, <1>2 DEF Becomes, CliInv, CatTypeOK, Import
<1>4. QED
  BY <1>3, BecomesInv

LEMMA InterruptInv ==
  ASSUME CliInv, NEW c \in Ingester, Running(c), Interrupt(c), UNCHANGED <<catalog, refused>>,
         \A i \in Ingester : i # c => ing'[i] = ing[i]
  PROVE  CliInv'
  BY EndsInv DEF Interrupt

LEMMA FinishInv ==
  ASSUME CliInv, NEW c \in Ingester, Finish(c)
  PROVE  CliInv'
<1>1. cli[c] \in Import /\ Running(c) /\ Holding(c)
  BY RunningIsImport DEF Finish, At
<1>2. cli[c].doc = {}
  BY <1>1 DEF Finish, At, Holding, HoldIn, InHand
<1>3. QED
  BY <1>1, <1>2, EndsInv DEF Finish, docVars

LEMMA ForgetsOnly ==
  ASSUME DocInv, NEW c \in Ingester, Forget(c)
  PROVE  /\ \A i \in Ingester : i # c => ing'[i] = ing[i]
         /\ ing'[c] = Idle
  BY DEF Forget, DocInv, DocTypeOK

LEMMA DiesInv ==
  ASSUME CatInv, NEW c \in Ingester, Dies(c)
  PROVE  CliInv'
  BY ForgetsOnly, EndsInv DEF Dies, CatInv

LEMMA DatabaseFailsInv ==
  ASSUME CliInv, NEW c \in Ingester, DatabaseFails(c)
  PROVE  CliInv'
<1>1. Running(c)
  BY DEF DatabaseFails, Running
<1>2. QED
  BY <1>1, InterruptInv DEF DatabaseFails, docVars

LEMMA UpsertInv ==
  ASSUME CliInv, NEW c \in Ingester, UpsertEntries(c)
  PROVE  CliInv'
<1> DEFINE q == [cli[c] EXCEPT !.pc = IF cli[c].lists = {} THEN "summary" ELSE "list"]
<1>1. cli[c] \in Import /\ Running(c) /\ Holding(c) /\ cli[c].pc = "upsert"
  BY RunningIsImport DEF UpsertEntries, At
<1>2. /\ q \in Import /\ q.pc \in {"summary", "list"} /\ q.alone = cli[c].alone
      /\ q.doc = cli[c].doc /\ q.todo = cli[c].todo /\ q.told = cli[c].told
      /\ q.outcome = cli[c].outcome
  BY <1>1 DEF Import
<1>3. cli' = [cli EXCEPT ![c] = q] /\ UNCHANGED <<ing, refused, dropped>>
  BY DEF UpsertEntries, Goto, docVars
<1> HIDE DEF q
<1>4. \A d \in Document : cli[c].kinds[d] \in Kind
  BY <1>1 DEF Import
<1>5. /\ catalog' \in [Document -> Entry \cup {Absent}]
      /\ \A d \in Document : catalog'[d].status = "EXTRACTED" => catalog[d].status = "EXTRACTED"
  BY <1>4, UpsertedRow DEF UpsertEntries, CliInv, CatTypeOK
<1>6. cli[c].doc = {}
  BY <1>1 DEF Holding, HoldIn, InHand
<1>7. HoldIn(q, ing'[c])
  BY <1>2, <1>6 DEF HoldIn, InHand
<1>8. ASSUME Truthful(c) PROVE TruthIn(q, catalog', refused')
  BY <1>1, <1>2, <1>6, <1>8 DEF Truthful, TruthIn, ToldSo
<1>9. Becomes(c, q)
  BY <1>2, <1>3, <1>5, <1>6, <1>7, <1>8 DEF Becomes, CliInv, CatTypeOK
<1>10. QED
  BY <1>1, <1>9, BecomesInv

LEMMA ListInv ==
  ASSUME CliInv, NEW c \in Ingester, ListProcessable(c)
  PROVE  CliInv'
<1>1. cli[c] \in Import /\ Running(c) /\ Holding(c) /\ cli[c].pc = "list"
  BY RunningIsImport DEF ListProcessable, At
<1>2. PICK todo \in SUBSET {d \in Document : catalog[d].status \in cli[c].lists} :
         cli' = [cli EXCEPT ![c].todo = todo, ![c].lists = {}, ![c].pc = "next"]
  BY DEF ListProcessable
<1> DEFINE q == [cli[c] EXCEPT !.todo = todo, !.lists = {}, !.pc = "next"]
<1>3. /\ q \in Import /\ q.pc = "next" /\ q.alone = cli[c].alone
      /\ q.doc = cli[c].doc /\ q.todo = todo /\ q.told = cli[c].told
  BY <1>1 DEF Import
<1>4. cli' = [cli EXCEPT ![c] = q] /\ UNCHANGED <<ing, catalog, refused, dropped>>
  BY <1>2 DEF ListProcessable, docVars
<1> HIDE DEF q
<1>5. \A d \in todo : catalog[d].status \in Waiting
  BY <1>1 DEF Import, Waiting
<1>6. cli[c].doc = {}
  BY <1>1 DEF Holding, HoldIn, InHand
<1>7. HoldIn(q, ing'[c])
  BY <1>3, <1>6 DEF HoldIn, InHand
<1>8. ASSUME Truthful(c) PROVE TruthIn(q, catalog', refused')
  BY <1>1, <1>3, <1>4, <1>5, <1>6, <1>8 DEF Truthful, TruthIn, ToldSo
<1>9. Becomes(c, q)
  BY <1>3, <1>4, <1>6, <1>7, <1>8 DEF Becomes, CliInv, CatTypeOK
<1>10. QED
  BY <1>1, <1>9, BecomesInv

LEMMA NextRecordInv ==
  ASSUME CliInv, NEW c \in Ingester, NextRecord(c)
  PROVE  CliInv'
<1>1. cli[c] \in Import /\ Running(c) /\ Holding(c) /\ cli[c].pc = "next"
  BY RunningIsImport DEF NextRecord, At
<1>2. CASE Interrupt(c)
  BY <1>1, <1>2, InterruptInv DEF NextRecord, docVars
<1>3. ASSUME NEW d \in cli[c].todo, UNCHANGED dropped,
             cli' = [cli EXCEPT ![c].todo = @ \ {d}, ![c].doc = {d}, ![c].pc = "fetch"]
      PROVE  CliInv'
  <2> DEFINE q == [cli[c] EXCEPT !.todo = cli[c].todo \ {d}, !.doc = {d}, !.pc = "fetch"]
  <2>1. d \in Document
    BY <1>1 DEF Import
  <2>2. /\ q \in Import /\ q.pc = "fetch" /\ q.alone = cli[c].alone /\ q.doc = {d}
        /\ q.todo = cli[c].todo \ {d} /\ q.told = cli[c].told
    BY <1>1, <2>1 DEF Import
  <2>3. cli' = [cli EXCEPT ![c] = q] /\ UNCHANGED <<ing, catalog, refused, dropped>>
    BY <1>3 DEF NextRecord, docVars
  <2> HIDE DEF q
  <2>4. cli[c].doc = {}
    BY <1>1 DEF Holding, HoldIn, InHand
  <2>5. HoldIn(q, ing'[c])
    BY <2>1, <2>2 DEF HoldIn, InHand
  <2>6. ASSUME Truthful(c) PROVE TruthIn(q, catalog', refused')
    BY <1>1, <2>2, <2>3, <2>6 DEF Truthful, TruthIn, ToldSo, Expected
  <2>7. Becomes(c, q)
    BY <2>2, <2>3, <2>4, <2>5, <2>6 DEF Becomes, CliInv, CatTypeOK
  <2>8. QED
    BY <1>1, <2>7, BecomesInv
<1>4. QED
  BY <1>2, <1>3 DEF NextRecord

\* The work on an entry goes on without a change of its row.
LEMMA GoesOnInv ==
  ASSUME CliInv, NEW c \in Ingester, NEW pc \in {"extracted", "ingest"},
         cli[c].pc \in InHand, cli[c].pc = "ingest" <=> pc = "ingest", cli[c].pc # "settle",
         Goto(c, pc), ing'[c].pc # "idle", \A i \in Ingester : i # c => ing'[i] = ing[i],
         UNCHANGED <<catalog, refused, dropped>>
  PROVE  CliInv'
<1> DEFINE q == [cli[c] EXCEPT !.pc = pc]
<1>1. cli[c] \in Import /\ Running(c) /\ Holding(c)
  BY RunningIsImport DEF InHand
<1>2. /\ q \in Import /\ q.pc = pc /\ q.alone = cli[c].alone /\ q.doc = cli[c].doc
      /\ q.todo = cli[c].todo /\ q.told = cli[c].told
  BY <1>1 DEF Import
<1>3. cli' = [cli EXCEPT ![c] = q]
  BY DEF Goto
<1> HIDE DEF q
<1>4. HoldIn(q, ing'[c])
  BY <1>1, <1>2 DEF Holding, HoldIn, InHand
<1>5. ASSUME Truthful(c) PROVE TruthIn(q, catalog', refused')
  <2>1. Expected(q) = Expected(cli[c])
    BY <1>2 DEF Expected
  <2>2. TruthIn(cli[c], catalog, refused)
    BY <1>5 DEF Truthful
  <2>3. ToldSo(q, catalog', refused')
    BY <1>2, <2>2 DEF TruthIn, ToldSo
  <2>4. q.pc \notin {"upsert", "list", "settle"}
    BY <1>2
  <2>5. QED
    BY <1>2, <2>1, <2>2, <2>3, <2>4 DEF TruthIn
<1>6. /\ catalog' \in [Document -> Entry \cup {Absent}] /\ catalog' = catalog
      /\ refused' = refused /\ refused' \subseteq Document
      /\ dropped' = dropped /\ dropped' \subseteq Document
  BY DEF CliInv, CatTypeOK
<1>7. q # Off
  BY <1>2 DEF Off
<1>8. Becomes(c, q)
  BY <1>2, <1>3, <1>4, <1>5, <1>6, <1>7 DEF Becomes
<1>9. QED
  BY <1>1, <1>8, BecomesInv

LEMMA FetchArtifactInv ==
  ASSUME CatInv, NEW c \in Ingester, FetchArtifact(c)
  PROVE  CliInv'
<1>1. ing' = [ing EXCEPT ![c] = [pc |-> "fetched", doc |-> Doc(c), snapshot |-> source[Doc(c)],
                                 number |-> 0, outcome |-> "none"]]
  BY DEF FetchArtifact, Fetch
<1>2. ing'[c].pc = "fetched" /\ \A i \in Ingester : i # c => ing'[i] = ing[i]
  BY <1>1 DEF CatInv, DocInv, DocTypeOK
<1>3. QED
  BY <1>2, GoesOnInv DEF CatInv, FetchArtifact, At, InHand

LEMMA IngestSnapshotInv ==
  ASSUME CatInv, NEW c \in Ingester, IngestSnapshot(c)
  PROVE  CliInv'
<1>1. cli[c].pc = "ingest" /\ cli[c] \in Import /\ Running(c) /\ Holding(c)
  BY RunningIsImport DEF IngestSnapshot, At, CatInv
<1>2. ing[c] \in Job
  BY <1>1, JobType DEF CatInv, DocInv, Holding, HoldIn
<1>3. /\ \A i \in Ingester : i # c => ing'[i] = ing[i]
      /\ ing'[c].pc # "idle"
  <2>1. CASE FindExisting(c)
    BY <1>2, <2>1, ZenonT(60) DEF FindExisting, Return, CatInv, DocInv, DocTypeOK, Job
  <2>2. CASE LockDocument(c)
    BY <1>2, <2>2, ZenonT(60) DEF LockDocument, Return, CatInv, DocInv, DocTypeOK, Job
  <2>3. CASE InsertVersion(c)
    BY <1>2, <2>3 DEF InsertVersion, Return, CatInv, DocInv, DocTypeOK, Job
  <2>4. QED
    BY <2>1, <2>2, <2>3 DEF IngestSnapshot
<1>4. Goto(c, "ingest")
  <2>1. cli' = cli /\ cli[c] = [cli[c] EXCEPT !.pc = "ingest"]
    BY <1>1 DEF IngestSnapshot, catVars, Import
  <2>2. QED
    BY <2>1 DEF Goto, CatInv, CliInv, CatTypeOK
<1>5. QED
  BY <1>1, <1>3, <1>4, GoesOnInv DEF CatInv, IngestSnapshot, catVars, InHand

\* A handler of the loop takes the entry over.
LEMMA CaughtInv ==
  ASSUME CliInv, NEW c \in Ingester, cli[c].pc \in {"fetch", "extracted", "ingest"},
         NEW outcome \in {"ocr", "invalid", "failed"}, Caught(c, outcome),
         outcome = "ocr" => cli[c].pc = "fetch",
         outcome = "invalid" /\ Truthful(c) => cli[c].doc \subseteq refused',
         refused \subseteq refused', refused' \subseteq Document,
         \A i \in Ingester : i # c => ing'[i] = ing[i], UNCHANGED <<catalog, dropped>>
  PROVE  CliInv'
<1> DEFINE q == [cli[c] EXCEPT !.pc = "settle", !.outcome = outcome]
<1>1. cli[c] \in Import /\ Running(c) /\ Holding(c)
  BY RunningIsImport
<1>2. /\ q \in Import /\ q.pc = "settle" /\ q.alone = cli[c].alone /\ q.doc = cli[c].doc
      /\ q.todo = cli[c].todo /\ q.told = cli[c].told /\ q.outcome = outcome
  BY <1>1 DEF Import
<1>3. cli' = [cli EXCEPT ![c] = q]
  BY DEF Caught
<1> HIDE DEF q
<1>4. HoldIn(q, ing'[c])
  BY <1>1, <1>2 DEF Holding, HoldIn, InHand
<1>5. ASSUME Truthful(c) PROVE TruthIn(q, catalog', refused')
  <2>1. Expected(cli[c]) \subseteq Expected(q)
    BY <1>2 DEF Expected
  <2>2. TruthIn(cli[c], catalog, refused)
    BY <1>5 DEF Truthful
  <2>3. \A d \in q.doc : catalog'[d].status \in Expected(q)
    BY <1>2, <2>1, <2>2 DEF TruthIn
  <2>4. ToldSo(q, catalog', refused')
    BY <1>2, <2>2 DEF TruthIn, ToldSo
  <2>5. QED
    BY <1>2, <1>5, <2>2, <2>3, <2>4 DEF TruthIn
<1>6. /\ catalog' \in [Document -> Entry \cup {Absent}]
      /\ dropped' = dropped /\ dropped' \subseteq Document
      /\ catalog' = catalog
  BY DEF CliInv, CatTypeOK
<1>7. q # Off
  BY <1>2 DEF Off
<1>8. Becomes(c, q)
  BY <1>2, <1>3, <1>4, <1>5, <1>6, <1>7 DEF Becomes
<1>9. QED
  BY <1>1, <1>8, BecomesInv

LEMMA FetchFailsInv ==
  ASSUME CliInv, NEW c \in Ingester, FetchFails(c)
  PROVE  CliInv'
<1>1. PICK outcome \in {"ocr", "invalid", "failed"} :
         /\ Caught(c, outcome)
         /\ refused' = IF outcome = "invalid" THEN refused \cup cli[c].doc ELSE refused
  BY DEF FetchFails
<1>2. cli[c].pc = "fetch" /\ UNCHANGED <<ing, catalog, dropped>>
  BY DEF FetchFails, At, docVars
<1>3. cli[c].doc = {Doc(c)} /\ Doc(c) \in Document
  BY <1>2, InHandIsDoc DEF InHand
<1>4. refused \subseteq Document
  BY DEF CliInv, CatTypeOK
<1>5. QED
  BY <1>1, <1>2, <1>3, <1>4, CaughtInv

LEMMA IngestFailsInv ==
  ASSUME CatInv, NEW c \in Ingester, IngestFails(c)
  PROVE  CliInv'
<1>1. PICK outcome \in {"failed", "invalid"} :
         /\ Caught(c, outcome)
         /\ refused' = IF outcome = "invalid" THEN refused \cup cli[c].doc ELSE refused
  BY DEF IngestFails
<1>2. cli[c].pc = "ingest" /\ UNCHANGED <<catalog, dropped>>
  BY DEF IngestFails, At
<1>3. \A i \in Ingester : i # c => ing'[i] = ing[i]
  BY ForgetsOnly DEF IngestFails, CatInv
<1>4. cli[c].doc = {Doc(c)} /\ Doc(c) \in Document
  BY <1>2, InHandIsDoc DEF InHand, CatInv
<1>5. refused \subseteq Document
  BY DEF CatInv, CliInv, CatTypeOK
<1>6. QED
  BY <1>1, <1>2, <1>3, <1>4, <1>5, CaughtInv DEF CatInv

LEMMA TransitionFailsInv ==
  ASSUME CatInv, NEW c \in Ingester, TransitionFails(c)
  PROVE  CliInv'
<1>1. cli[c].pc \in {"extracted", "ingest"} /\ Caught(c, "failed")
      /\ UNCHANGED <<catalog, refused, dropped>>
  BY DEF TransitionFails, At
<1>2. \A i \in Ingester : i # c => ing'[i] = ing[i]
  BY ForgetsOnly DEF TransitionFails, CatInv
<1>3. refused \subseteq Document
  BY DEF CatInv, CliInv, CatTypeOK
<1>4. QED
  BY <1>1, <1>2, <1>3, CaughtInv DEF CatInv

\* What an entry's own transition does to it, and to nothing else
LEMMA ExtractedInv ==
  ASSUME CatInv, NEW c \in Ingester, MarkExtracted(c)
  PROVE  CliInv'
<1> DEFINE d == Doc(c)
<1>1. /\ cli[c].pc = "extracted" /\ cli[c] \in Import /\ Running(c) /\ Holding(c)
      /\ cli[c].doc = {d} /\ d \in Document
  BY RunningIsImport, InHandIsDoc DEF MarkExtracted, At, InHand, CatInv
<1>2. ing[c] \in Job
  BY <1>1, JobType DEF CatInv, DocInv, Holding, HoldIn
<1>3. CliInv /\ CatTypeOK /\ refused \subseteq Document /\ dropped \subseteq Document
  BY DEF CatInv, CliInv, CatTypeOK
<1>4. CASE Accepts(d, "EXTRACTED")
  <2> DEFINE q == [cli[c] EXCEPT !.pc = "ingest"]
  <2>1. /\ q \in Import /\ q.pc = "ingest" /\ q.alone = cli[c].alone /\ q.doc = {d}
        /\ q.todo = cli[c].todo /\ q.told = cli[c].told
    BY <1>1 DEF Import
  <2>2. cli' = [cli EXCEPT ![c] = q] /\ UNCHANGED <<docVars, refused, dropped>>
    BY <1>4 DEF MarkExtracted, Goto
  <2> HIDE DEF q
  <2>3. /\ catalog' \in [Document -> Entry \cup {Absent}]
        /\ \A e \in Document : e # d => catalog'[e] = catalog[e]
        /\ catalog[d].status \notin Settled =>
             catalog'[d].status = "EXTRACTED" /\ catalog'[d].reason = "none"
    <3>1. Transition(d, "EXTRACTED", "none", {ing[c].snapshot}, 0)
      BY <1>4 DEF MarkExtracted
    <3>2. {ing[c].snapshot} \in {{}} \cup {{s} : s \in Snapshot}
      BY <1>2 DEF Job
    <3> HIDE DEF d
    <3>3. QED
      BY <1>1, <1>3, <1>4, <3>1, <3>2, TransitionWrites
  <2> HIDE DEF d
  <2>4. HoldIn(q, ing'[c])
    BY <1>1, <1>2, <2>1, <2>2 DEF HoldIn, InHand, docVars, Job
  <2>5. ASSUME Truthful(c) PROVE TruthIn(q, catalog', refused')
    <3>1. TruthIn(cli[c], catalog, refused)
      BY <2>5 DEF Truthful
    <3>2. catalog[d].status \in Waiting
      BY <1>1, <3>1 DEF TruthIn, Expected
    <3>3. catalog'[d].status = "EXTRACTED"
      BY <2>3, <3>2 DEF Waiting, Settled
    <3>4. cli[c].told[d] = "none" /\ d \notin cli[c].todo
      BY <1>1, <3>1 DEF TruthIn
    <3>5. ToldSo(q, catalog', refused')
      BY <1>1, <2>1, <2>2, <2>3, <3>1, <3>4 DEF TruthIn, ToldSo
    <3>6. \A e \in q.todo : catalog'[e].status \in Waiting
      BY <1>1, <2>1, <2>3, <3>1, <3>4 DEF TruthIn, Import
    <3>7. QED
      BY <1>1, <2>1, <3>1, <3>3, <3>5, <3>6 DEF TruthIn, Expected
  <2>6. \A e \in Document : catalog'[e].status = "EXTRACTED" =>
          e \in q.doc \/ (catalog[e].status = "EXTRACTED" /\ e \notin cli[c].doc)
    BY <1>1, <2>1, <2>3
  <2>7. q # Off
    BY <2>1 DEF Off
  <2>8. Becomes(c, q)
    BY <1>3, <2>1, <2>2, <2>3, <2>4, <2>5, <2>6, <2>7 DEF Becomes, docVars
  <2>9. QED
    BY <1>1, <1>3, <2>8, BecomesInv
<1>5. CASE ~Accepts(d, "EXTRACTED")
  <2>1. Caught(c, "invalid") /\ Forget(c) /\ UNCHANGED <<catalog, refused, dropped>>
    BY <1>5 DEF MarkExtracted
  <2>2. \A i \in Ingester : i # c => ing'[i] = ing[i]
    BY <2>1, ForgetsOnly DEF CatInv
  <2>3. ~Truthful(c)
    <3>1. SUFFICES ASSUME Truthful(c) PROVE FALSE
      OBVIOUS
    <3>2. catalog[d].status \in Waiting
      BY <1>1, <3>1 DEF Truthful, TruthIn, Expected
    <3>3. "EXTRACTED" \in Transitions(catalog[d].status)
      BY <3>2 DEF Waiting, Transitions
    <3>4. QED
      BY <1>5, <3>3 DEF Accepts, Allowed
  <2>4. QED
    BY <1>1, <1>3, <2>1, <2>2, <2>3, CaughtInv
<1>6. QED
  BY <1>4, <1>5

\* An outcome is told together with a row that is settled or waits for OCR.
LEMMA ToldInv ==
  ASSUME CliInv, NEW c \in Ingester, cli[c].pc \in {"ingest", "settle"},
         NEW outcome \in {"indexed", "ocr", "invalid", "failed"}, Tell(c, outcome),
         catalog' \in [Document -> Entry \cup {Absent}],
         \A e \in Document : e # Doc(c) => catalog'[e] = catalog[e],
         catalog'[Doc(c)].status # "EXTRACTED",
         Truthful(c) =>
            /\ outcome = "indexed" => catalog'[Doc(c)].status = "INDEXED"
            /\ outcome # "indexed" => /\ catalog'[Doc(c)].status = StatusOf(outcome)
                                      /\ catalog'[Doc(c)].reason = outcome
            /\ outcome = "invalid" => cli[c].doc \subseteq refused,
         UNCHANGED <<refused, dropped>>, \A i \in Ingester : i # c => ing'[i] = ing[i]
  PROVE  CliInv'
<1> DEFINE d == Doc(c)
           told == [cli[c].told EXCEPT ![d] = outcome]
           q == [cli[c] EXCEPT !.pc = "next", !.doc = {}, !.outcome = "none", !.told = told]
<1>1. cli[c] \in Import /\ Running(c) /\ Holding(c) /\ cli[c].doc = {d} /\ d \in Document
  BY RunningIsImport, InHandIsDoc DEF InHand
<1>2. refused \subseteq Document /\ dropped \subseteq Document
  BY DEF CliInv, CatTypeOK
<1>3. cli' = [cli EXCEPT ![c] = q]
  BY ZenonT(60) DEF Tell
<1> HIDE DEF d
<1>4. told \in [Document -> {"none", "indexed", "ocr", "invalid", "failed"}]
  BY <1>1 DEF Import
<1>5. \A e \in Document : told[e] = IF e = d THEN outcome ELSE cli[c].told[e]
  BY <1>1 DEF Import
<1> HIDE DEF told
<1>6. /\ q \in Import /\ q.pc = "next" /\ q.alone = cli[c].alone /\ q.doc = {}
      /\ q.todo = cli[c].todo /\ q.told = told
  BY <1>1, <1>4 DEF Import
<1> HIDE DEF q
<1>7. HoldIn(q, ing'[c])
  BY <1>6 DEF HoldIn, InHand
<1>8. ASSUME Truthful(c) PROVE TruthIn(q, catalog', refused')
  <2>1. TruthIn(cli[c], catalog, refused)
    BY <1>8 DEF Truthful
  <2>2. d \notin cli[c].todo
    BY <1>1, <2>1 DEF TruthIn
  <2>3. ToldSo(q, catalog', refused')
    <3> SUFFICES ASSUME NEW e \in Document
                 PROVE  /\ q.told[e] = "indexed" => catalog'[e].status = "INDEXED"
                        /\ q.told[e] \notin {"none", "indexed"} =>
                             /\ catalog'[e].status = StatusOf(q.told[e])
                             /\ catalog'[e].reason = q.told[e]
                        /\ q.told[e] = "invalid" => e \in refused'
      BY DEF ToldSo
    <3>1. CASE e = d
      BY <1>1, <1>5, <1>6, <1>8, <3>1 DEF d
    <3>2. CASE e # d
      BY <1>5, <1>6, <2>1, <3>2 DEF TruthIn, ToldSo, d
    <3>3. QED
      BY <3>1, <3>2
  <2>4. \A e \in q.todo : catalog'[e].status \in Waiting
    BY <1>1, <1>6, <2>1, <2>2 DEF TruthIn, Import, d
  <2>5. \A e \in q.todo : q.told[e] = "none"
    BY <1>1, <1>5, <1>6, <2>1, <2>2 DEF TruthIn, Import
  <2>6. QED
    BY <1>6, <2>3, <2>4, <2>5 DEF TruthIn
<1>9. \A e \in Document : catalog'[e].status = "EXTRACTED" =>
        catalog[e].status = "EXTRACTED" /\ e \notin cli[c].doc
  BY <1>1 DEF d
<1>10. q # Off
  BY <1>6 DEF Off
<1>11. Becomes(c, q)
  BY <1>2, <1>3, <1>6, <1>7, <1>8, <1>9, <1>10 DEF Becomes
<1>12. QED
  BY <1>1, <1>11, BecomesInv

LEMMA IndexedInv ==
  ASSUME CatInv, NEW c \in Ingester, MarkIndexed(c)
  PROVE  CliInv'
<1> DEFINE d == Doc(c)
<1>1. /\ cli[c].pc = "ingest" /\ cli[c] \in Import /\ Running(c) /\ Holding(c)
      /\ cli[c].doc = {d} /\ d \in Document
  BY RunningIsImport, InHandIsDoc DEF MarkIndexed, At, InHand, CatInv
<1>2. ing[c] \in Job
  BY <1>1, JobType DEF CatInv, DocInv, Holding, HoldIn
<1>3. CliInv /\ CatTypeOK /\ refused \subseteq Document
  BY DEF CatInv, CliInv, CatTypeOK
<1>4. UNCHANGED <<refused, dropped>> /\ \A i \in Ingester : i # c => ing'[i] = ing[i]
  BY ForgetsOnly DEF MarkIndexed, CatInv
<1>5. CASE Accepts(d, "INDEXED")
  <2>1. Transition(d, "INDEXED", "none", {ing[c].snapshot}, ing[c].number) /\ Tell(c, "indexed")
    BY <1>5 DEF MarkIndexed
  <2>2. {ing[c].snapshot} \in {{}} \cup {{s} : s \in Snapshot} /\ ing[c].number \in Nat
    BY <1>2 DEF Job
  <2>3. "INDEXED" \in {"EXTRACTED", "OCR_REQUIRED"} \cup Settled
    BY DEF Settled
  <2> HIDE DEF d
  <2>4. /\ catalog' \in [Document -> Entry \cup {Absent}]
        /\ \A e \in Document : e # d => catalog'[e] = catalog[e]
        /\ \/ catalog'[d].status = "INDEXED" /\ catalog'[d].reason = "none"
           \/ catalog' = catalog /\ catalog[d].status \in Settled
        /\ catalog[d].status \notin Settled =>
             catalog'[d].status = "INDEXED" /\ catalog'[d].reason = "none"
    BY <1>1, <1>3, <1>5, <2>1, <2>2, <2>3, TransitionWrites
  <2>5. catalog'[d].status # "EXTRACTED"
    BY <2>4 DEF Settled
  <2>6. Truthful(c) => catalog'[d].status = "INDEXED"
    <3>1. Truthful(c) => catalog[d].status \notin Settled
      BY <1>1 DEF Truthful, TruthIn, Expected, Settled
    <3>2. QED
      BY <2>4, <3>1
  <2>7. QED
    BY <1>1, <1>3, <1>4, <2>1, <2>4, <2>5, <2>6, ToldInv DEF d
<1>6. CASE ~Accepts(d, "INDEXED")
  <2>1. Caught(c, "invalid") /\ UNCHANGED catalog
    BY <1>6 DEF MarkIndexed
  <2>2. ~Truthful(c)
    <3>1. SUFFICES ASSUME Truthful(c) PROVE FALSE
      OBVIOUS
    <3>2. catalog[d].status = "EXTRACTED"
      BY <1>1, <3>1 DEF Truthful, TruthIn, Expected
    <3>3. "INDEXED" \in Transitions(catalog[d].status)
      BY <3>2 DEF Transitions
    <3>4. QED
      BY <1>6, <3>3 DEF Accepts, Allowed
  <2>3. QED
    BY <1>1, <1>3, <1>4, <2>1, <2>2, CaughtInv
<1>7. QED
  BY <1>5, <1>6

LEMMA SettleInv ==
  ASSUME CatInv, NEW c \in Ingester, Settle(c)
  PROVE  CliInv'
<1> DEFINE d == Doc(c)
           outcome == cli[c].outcome
<1>1. /\ cli[c].pc = "settle" /\ cli[c] \in Import /\ Running(c) /\ Holding(c)
      /\ cli[c].doc = {d} /\ d \in Document
  BY RunningIsImport, InHandIsDoc DEF Settle, At, InHand, CatInv
<1>2. outcome \in {"ocr", "invalid", "failed"}
  BY <1>1 DEF Holding, HoldIn, Import
<1>3. CliInv /\ CatTypeOK /\ refused \subseteq Document
  BY DEF CatInv, CliInv, CatTypeOK
<1>4. UNCHANGED <<docVars, refused>> /\ \A i \in Ingester : i # c => ing'[i] = ing[i]
  BY DEF Settle, docVars
<1>5. CASE Accepts(d, StatusOf(outcome))
  <2>1. /\ Transition(d, StatusOf(outcome), outcome, {}, 0) /\ Tell(c, outcome)
        /\ UNCHANGED dropped
    BY <1>5 DEF Settle
  <2>2. /\ StatusOf(outcome) \in {"OCR_REQUIRED", "QUARANTINED", "FAILED"}
        /\ StatusOf(outcome) \in {"EXTRACTED", "OCR_REQUIRED"} \cup Settled
    BY <1>2 DEF StatusOf, Settled
  <2> HIDE DEF d, outcome
  <2>3. /\ catalog' \in [Document -> Entry \cup {Absent}]
        /\ \A e \in Document : e # d => catalog'[e] = catalog[e]
        /\ \/ catalog'[d].status = StatusOf(outcome) /\ catalog'[d].reason = outcome
           \/ catalog' = catalog /\ catalog[d].status \in Settled
        /\ catalog[d].status \notin Settled =>
             catalog'[d].status = StatusOf(outcome) /\ catalog'[d].reason = outcome
    BY <1>1, <1>2, <1>3, <1>5, <2>1, <2>2, TransitionWrites
  <2>4. catalog'[d].status # "EXTRACTED"
    BY <2>2, <2>3 DEF Settled
  <2>5. Truthful(c) => /\ catalog'[d].status = StatusOf(outcome) /\ catalog'[d].reason = outcome
                       /\ outcome = "invalid" => cli[c].doc \subseteq refused
    <3>1. Truthful(c) => catalog[d].status \notin Settled
      BY <1>1 DEF Truthful, TruthIn, Expected, Settled, Waiting
    <3>2. Truthful(c) => (outcome = "invalid" => cli[c].doc \subseteq refused)
      BY <1>1 DEF Truthful, TruthIn, outcome
    <3>3. QED
      BY <2>3, <3>1, <3>2
  <2>6. QED
    BY <1>1, <1>2, <1>3, <1>4, <2>1, <2>3, <2>4, <2>5, ToldInv DEF d
<1>6. CASE ~Accepts(d, StatusOf(outcome))
  <2>1. Interrupt(c) /\ UNCHANGED catalog
    BY <1>6 DEF Settle
  <2>2. QED
    BY <1>1, <1>3, <1>4, <2>1, InterruptInv
<1>7. QED
  BY <1>5, <1>6

\* An import starts: it is alone only if no other runs, and no other stays alone.
LEMMA StartInv ==
  ASSUME CliInv, NEW c \in Ingester, NEW lists \in SUBSET Waiting,
         NEW kinds \in [Document -> LinkKind], StartRun(c, lists, kinds)
  PROVE  CliInv'
<1> DEFINE none == [d \in Document |-> "none"]
           q == [pc |-> "upsert", lists |-> lists, kinds |-> kinds, todo |-> {}, doc |-> {},
                 outcome |-> "none", told |-> none, alone |-> \A j \in Ingester : ~Running(j)]
<1>1. /\ cli[c].pc = "off" /\ UNCHANGED <<ing, catalog, refused, dropped>>
      /\ cli' = [i \in Ingester |->
                   IF i = c THEN q
                   ELSE IF Running(i) THEN [cli[i] EXCEPT !.alone = FALSE] ELSE cli[i]]
  BY DEF StartRun, At, docVars
<1>2. none \in [Document -> {"none", "indexed", "ocr", "invalid", "failed"}]
      /\ \A d \in Document : none[d] = "none"
  OBVIOUS
<1> HIDE DEF none
<1>3. kinds \in [Document -> Kind]
  BY CatalogAssumption DEF Kind
<1>4. q.alone \in BOOLEAN
  OBVIOUS
<1>5. /\ q \in Import /\ q.pc = "upsert" /\ q.todo = {} /\ q.doc = {} /\ q.told = none
      /\ q.alone <=> \A j \in Ingester : ~Running(j)
  <2> DEFINE alone == \A j \in Ingester : ~Running(j)
  <2>1. alone \in BOOLEAN
    OBVIOUS
  <2> HIDE DEF alone
  <2>2. [pc |-> "upsert", lists |-> lists, kinds |-> kinds, todo |-> {}, doc |-> {},
         outcome |-> "none", told |-> none, alone |-> alone] \in Import
    BY <1>2, <1>3, <2>1 DEF Import, Waiting
  <2>3. QED
    BY <2>2 DEF alone
<1> HIDE DEF q
<1>6. ASSUME NEW i \in Ingester, i # c
      PROVE  /\ ~Running(i) => cli'[i] = cli[i]
             /\ Running(i) =>
                  /\ cli'[i] \in Import /\ cli'[i].alone = FALSE /\ cli'[i].pc = cli[i].pc
                  /\ cli'[i].doc = cli[i].doc /\ cli'[i].outcome = cli[i].outcome
  <2>1. CASE ~Running(i)
    BY <1>1, <1>6, <2>1
  <2>2. CASE Running(i)
    <3>1. cli'[i] = [cli[i] EXCEPT !.alone = FALSE]
      BY <1>1, <1>6, <2>2
    <3>2. cli[i] \in Import
      BY <2>2, RunningIsImport DEF Running
    <3>3. QED
      BY <2>2, <3>1, <3>2 DEF Import
  <2>3. QED
    BY <2>1, <2>2
<1>7. cli'[c] = q
  BY <1>1
<1>8. \A i \in Ingester : Running(i)' <=> (i = c \/ Running(i))
  BY <1>5, <1>6, <1>7 DEF Running
<1>9. CatTypeOK'
  <2>1. \A i \in Ingester : cli'[i] \in Import \cup {Off}
    BY <1>5, <1>6, <1>7 DEF CliInv, CatTypeOK
  <2>2. cli' \in [Ingester -> Import \cup {Off}]
    BY <1>1, <2>1
  <2>3. QED
    BY <1>1, <2>2 DEF CliInv, CatTypeOK
<1>10. \A i \in Ingester : Holding(i)'
  <2>1. Holding(c)'
    BY <1>5, <1>7 DEF Holding, HoldIn, InHand
  <2>2. \A i \in Ingester : i # c => Holding(i)'
    BY <1>1, <1>6 DEF CliInv, Holding, HoldIn
  <2>3. QED
    BY <2>1, <2>2
<1>11. OnlyAStopStrands'
  <2> SUFFICES ASSUME NEW d \in Document, catalog'[d].status = "EXTRACTED", d \notin dropped'
               PROVE  \E i \in Ingester : Running(i)' /\ d \in cli'[i].doc
    BY DEF OnlyAStopStrands
  <2>1. PICK i \in Ingester : Running(i) /\ d \in cli[i].doc
    BY <1>1 DEF CliInv, OnlyAStopStrands
  <2>2. i # c
    BY <1>1, <2>1 DEF Running
  <2>3. QED
    BY <1>6, <1>8, <2>1, <2>2
<1>12. AloneTruthful'
  <2> SUFFICES ASSUME NEW i \in Ingester, Running(i)', cli'[i].alone PROVE Truthful(i)'
    BY DEF AloneTruthful
  <2>1. i = c
    BY <1>6, <1>8
  <2>2. \A j \in Ingester \ {c} : ~Running(j)'
    BY <1>5, <1>7, <1>8, <2>1
  <2>3. TruthIn(q, catalog', refused')
    BY <1>2, <1>5 DEF TruthIn, ToldSo
  <2>4. QED
    BY <1>7, <2>1, <2>2, <2>3 DEF Truthful
<1>13. QED
  BY <1>9, <1>10, <1>11, <1>12 DEF CliInv

\* A reset rediscovers failures, and every import has met another process since.
LEMMA ResetInv ==
  ASSUME CliInv, ResetRetryableFailures
  PROVE  CliInv'
<1>1. UNCHANGED <<ing, refused, dropped>>
  BY DEF ResetRetryableFailures, docVars
<1>2. ASSUME NEW d \in Document
      PROVE  /\ catalog'[d] \in Entry \cup {Absent}
             /\ catalog'[d].status = "EXTRACTED" => catalog[d].status = "EXTRACTED"
  <2>1. CASE Retryable(d)
    <3>1. catalog[d] \in Entry
      BY <2>1, RowOfEntry DEF Retryable, CliInv
    <3>2. catalog'[d] = [catalog[d] EXCEPT !.status = "DISCOVERED", !.reason = "none"]
      BY <2>1 DEF ResetRetryableFailures
    <3>3. QED
      BY <3>1, <3>2 DEF Entry
  <2>2. CASE ~Retryable(d)
    BY <2>2 DEF ResetRetryableFailures, CliInv, CatTypeOK
  <2>3. QED
    BY <2>1, <2>2
<1>3. ASSUME NEW i \in Ingester
      PROVE  /\ ~Running(i) => cli'[i] = cli[i]
             /\ Running(i) =>
                  /\ cli'[i] \in Import /\ cli'[i].alone = FALSE /\ cli'[i].pc = cli[i].pc
                  /\ cli'[i].doc = cli[i].doc /\ cli'[i].outcome = cli[i].outcome
  <2>1. CASE ~Running(i)
    BY <2>1 DEF ResetRetryableFailures
  <2>2. CASE Running(i)
    <3>1. cli'[i] = [cli[i] EXCEPT !.alone = FALSE]
      BY <2>2 DEF ResetRetryableFailures
    <3>2. cli[i] \in Import
      BY <2>2, RunningIsImport DEF Running
    <3>3. QED
      BY <2>2, <3>1, <3>2 DEF Import
  <2>3. QED
    BY <2>1, <2>2
<1>4. \A i \in Ingester : Running(i)' <=> Running(i)
  BY <1>3 DEF Running
<1>5. CatTypeOK'
  <2>1. \A i \in Ingester : cli'[i] \in Import \cup {Off}
    BY <1>3 DEF CliInv, CatTypeOK
  <2>2. cli' \in [Ingester -> Import \cup {Off}]
    BY <2>1 DEF ResetRetryableFailures
  <2>3. catalog' \in [Document -> Entry \cup {Absent}]
    BY <1>2 DEF ResetRetryableFailures
  <2>4. QED
    BY <1>1, <2>2, <2>3 DEF CliInv, CatTypeOK
<1>6. \A i \in Ingester : Holding(i)'
  BY <1>1, <1>3, ZenonT(60) DEF CliInv, Holding, HoldIn
<1>7. OnlyAStopStrands'
  BY <1>1, <1>2, <1>3, <1>4 DEF CliInv, OnlyAStopStrands
<1>8. AloneTruthful'
  BY <1>3, <1>4 DEF AloneTruthful
<1>9. QED
  BY <1>5, <1>6, <1>7, <1>8 DEF CliInv

LEMMA NothingInv ==
  ASSUME CliInv, UNCHANGED <<ing, catVars>>
  PROVE  CliInv'
BY DEF CliInv, CatTypeOK, Holding, HoldIn, OnlyAStopStrands, AloneTruthful, Truthful, TruthIn,
       ToldSo, Running, catVars

LEMMA ImportStepInv ==
  ASSUME CatInv, NEW c \in Ingester, ImportStep(c)
  PROVE  CliInv'
<1>1. CliInv
  BY DEF CatInv
<1>2. CASE \E lists \in SUBSET Waiting, kinds \in [Document -> LinkKind] : StartRun(c, lists, kinds)
  BY <1>1, <1>2, StartInv
<1>3. CASE UpsertEntries(c) \/ ListProcessable(c) \/ NextRecord(c)
  BY <1>1, <1>3, UpsertInv, ListInv, NextRecordInv
<1>4. CASE FetchArtifact(c) \/ FetchFails(c) \/ MarkExtracted(c) \/ IngestSnapshot(c)
  BY <1>1, <1>4, FetchArtifactInv, FetchFailsInv, ExtractedInv, IngestSnapshotInv
<1>5. CASE IngestFails(c) \/ MarkIndexed(c) \/ TransitionFails(c) \/ Settle(c)
  BY <1>5, IngestFailsInv, IndexedInv, TransitionFailsInv, SettleInv
<1>6. CASE Finish(c) \/ DatabaseFails(c) \/ Dies(c)
  BY <1>1, <1>6, FinishInv, DatabaseFailsInv, DiesInv
<1>7. QED
  BY <1>2, <1>3, <1>4, <1>5, <1>6 DEF ImportStep, Waiting

-------------------------------------------------------------------------------
(***************************************************************************)
(* The invariant and what follows from it                                  *)
(***************************************************************************)
LEMMA CatInitInv == CatInit => CatInv
<1> SUFFICES ASSUME CatInit PROVE CatInv
  OBVIOUS
<1>1. DocInv
  BY DocInitInv DEF CatInit
<1>2. CatTypeOK
  BY DEF CatInit, CatTypeOK
<1>3. \A c \in Ingester : cli[c].pc = "off" /\ ~Running(c)
  BY DEF CatInit, Off, Running
<1>4. \A c \in Ingester : Holding(c)
  BY <1>3 DEF Holding, HoldIn, InHand
<1>5. OnlyAStopStrands /\ AloneTruthful
  BY <1>3 DEF CatInit, OnlyAStopStrands, AloneTruthful, Absent
<1>6. QED
  BY <1>1, <1>2, <1>4, <1>5 DEF CatInv, CliInv

LEMMA CatNextInv == CatInv /\ [CatNext]_importVars => CatInv'
<1> SUFFICES ASSUME CatInv, [CatNext]_importVars PROVE CatInv'
  OBVIOUS
<1>1. DocInv'
  BY StoreStepInv
<1>2. CASE UNCHANGED importVars
  BY <1>1, <1>2, NothingInv DEF importVars, docVars, CatInv
<1>3. ASSUME NEW d \in Document, SourceChanges(d), UNCHANGED catVars PROVE CatInv'
  BY <1>1, <1>3, NothingInv DEF SourceChanges, CatInv
<1>4. CASE ResetRetryableFailures
  BY <1>1, <1>4, ResetInv DEF CatInv
<1>5. ASSUME NEW c \in Ingester, ImportStep(c) PROVE CatInv'
  BY <1>1, <1>5, ImportStepInv DEF CatInv
<1>6. QED
  BY <1>2, <1>3, <1>4, <1>5 DEF CatNext

LEMMA CatAlways == CatSpec => []CatInv
  BY CatInitInv, CatNextInv, PTL DEF CatSpec

\* Entries and imports keep their types, over any number of imports at once.
THEOREM CatalogTypeCorrect == CatSpec => []CatTypeOK
<1>1. CatInv => CatTypeOK
  BY DEF CatInv, CliInv
<1>2. QED
  BY CatAlways, <1>1, PTL

\* An entry stands at EXTRACTED, where no list of the importer shows it again, only
\* while an import holds it or after one that stopped in the middle of it
\* (demo_corpus/cli.py).
THEOREM OnlyStopsStrand == CatSpec => []OnlyAStopStrands
<1>1. CatInv => OnlyAStopStrands
  BY DEF CatInv, CliInv
<1>2. QED
  BY CatAlways, <1>1, PTL

\* What an import that met no other process counted of its entries is what the
\* catalog says of them.
THEOREM LoneRunsAreTrue == CatSpec => []AloneRunsTellTheTruth
<1>1. CatInv => AloneRunsTellTheTruth
  BY DEF CatInv, CliInv, AloneTruthful, Truthful, TruthIn, ToldSo, AloneRunsTellTheTruth
<1>2. QED
  BY CatAlways, <1>1, PTL

\* The commits of the imports append snapshots to the logs of their documents.
THEOREM ImportsImplementLog == CatSpec => ImplementsDocumentLog
<1>1. CatInit => Log!LogInit
  BY InitLog DEF CatInit
<1>2. CatInv /\ CatInv' /\ [CatNext]_importVars
        => [Log!LogNext]_[d \in Document |-> DocumentLogOf(d)]
  <2> SUFFICES ASSUME CatInv, CatInv', [CatNext]_importVars
               PROVE  [Log!LogNext]_[d \in Document |-> DocumentLogOf(d)]
    OBVIOUS
  <2>1. DocInv /\ DocInv'
    BY DEF CatInv
  <2>2. CASE [DocNext]_docVars
    BY <2>1, <2>2, StepShowsInLog
  <2>3. CASE versions' = versions
    BY <2>3, QuietStepLog
  <2>4. QED
    BY <2>2, <2>3, StoreSteps
<1>3. QED
  BY <1>1, <1>2, CatAlways, PTL DEF CatSpec, ImplementsDocumentLog, Log!LogSpec

\* A step of the import of an entry leaves every INDEXED row as it is.
LEMMA IndexedStays ==
  ASSUME CatInv, [CatNext]_importVars, NEW d \in Document, catalog[d].status = "INDEXED"
  PROVE  catalog'[d].status = "INDEXED"
<1>1. CatTypeOK /\ CliInv /\ DocInv
  BY DEF CatInv, CliInv
<1>2. CASE catalog' = catalog
  BY <1>2
<1>3. CASE ResetRetryableFailures
  BY <1>3 DEF ResetRetryableFailures, Retryable
<1>4. ASSUME NEW c \in Ingester, UpsertEntries(c) PROVE catalog'[d].status = "INDEXED"
  <2>1. cli[c] \in Import
    BY <1>1, <1>4, RunningIsImport DEF UpsertEntries, At
  <2>2. cli[c].kinds[d] \in Kind /\ catalog[d] \in Entry \cup {Absent}
    BY <1>1, <2>1 DEF Import, CatTypeOK
  <2>3. catalog'[d] = Upserted(catalog[d], cli[c].kinds[d])
    BY <1>4 DEF UpsertEntries
  <2>4. QED
    BY <2>2, <2>3, UpsertedRow
<1>5. ASSUME NEW c \in Ingester,
             NEW status \in {"EXTRACTED", "OCR_REQUIRED"} \cup Settled,
             NEW reason \in {"none", "failed", "ocr", "invalid"},
             NEW sha \in {{}} \cup {{s} : s \in Snapshot}, NEW version \in Nat,
             Doc(c) \in Document, Accepts(Doc(c), status),
             Transition(Doc(c), status, reason, sha, version)
      PROVE  catalog'[d].status = "INDEXED"
  <2> DEFINE e == Doc(c)
  <2> HIDE DEF e
  <2>1. /\ \A f \in Document : f # e => catalog'[f] = catalog[f]
        /\ catalog[e].status = "INDEXED" => catalog'[e].status = "INDEXED"
    BY <1>1, <1>5, TransitionWrites DEF e
  <2>2. QED
    BY <2>1
<1>6. ASSUME NEW c \in Ingester, cli[c].pc \in {"extracted", "ingest"}
      PROVE  /\ Doc(c) \in Document
             /\ {ing[c].snapshot} \in {{}} \cup {{s} : s \in Snapshot}
             /\ ing[c].number \in Nat
  <2>1. Doc(c) \in Document
    BY <1>1, <1>6, InHandIsDoc DEF InHand
  <2>2. ing[c] \in Job
    BY <1>1, <1>6, JobType DEF DocInv, CliInv, Holding, HoldIn
  <2>3. QED
    BY <2>1, <2>2 DEF Job
<1>7. ASSUME NEW c \in Ingester, ImportStep(c) PROVE catalog'[d].status = "INDEXED"
  <2>1. CASE MarkExtracted(c)
    BY <1>2, <1>5, <1>6, <2>1 DEF MarkExtracted, At
  <2>2. CASE MarkIndexed(c)
    BY <1>2, <1>5, <1>6, <2>2 DEF MarkIndexed, At, Settled
  <2>3. CASE Settle(c)
    <3>1. cli[c].pc = "settle" /\ cli[c] \in Import /\ Holding(c) /\ Doc(c) \in Document
      BY <1>1, <2>3, RunningIsImport, InHandIsDoc DEF Settle, At, InHand
    <3>2. cli[c].outcome \in {"ocr", "invalid", "failed"}
      BY <3>1 DEF Holding, HoldIn, Import
    <3>3. StatusOf(cli[c].outcome) \in {"EXTRACTED", "OCR_REQUIRED"} \cup Settled
      BY <3>2 DEF StatusOf, Settled
    <3>4. QED
      BY <1>2, <1>5, <2>3, <3>1, <3>2, <3>3 DEF Settle
  <2>4. ASSUME NEW lists, NEW kinds, StartRun(c, lists, kinds) PROVE catalog' = catalog
    BY <2>4 DEF StartRun
  <2>5. CASE \/ ListProcessable(c) \/ NextRecord(c) \/ FetchArtifact(c) \/ FetchFails(c)
             \/ IngestSnapshot(c) \/ IngestFails(c) \/ TransitionFails(c) \/ Finish(c)
             \/ DatabaseFails(c) \/ Dies(c)
    BY <1>2, <2>5 DEF ListProcessable, NextRecord, FetchArtifact, FetchFails, IngestSnapshot,
                      IngestFails, TransitionFails, Finish, DatabaseFails, Dies, catVars
  <2>6. QED
    BY <1>2, <1>4, <1>7, <2>1, <2>2, <2>3, <2>4, <2>5 DEF ImportStep
<1>8. QED
  BY <1>2, <1>3, <1>7 DEF CatNext, importVars, catVars

\* An entry that is INDEXED stays so, whatever late imports, new workbooks and resets do
\* (transition() of documents/corpus_catalog_repository.py absorbs what comes late).
THEOREM IndexedEntriesStay == CatSpec => IndexedForGood
<1> DEFINE Stays == \A d \in Document :
                      catalog[d].status = "INDEXED" => (catalog[d].status = "INDEXED")'
<1>1. CatInv /\ [CatNext]_importVars => Stays
  BY IndexedStays
<1>2. QED
  BY CatAlways, <1>1, PTL DEF CatSpec, IndexedForGood

===============================================================================
