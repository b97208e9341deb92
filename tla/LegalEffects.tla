----------------------------- MODULE LegalEffects -----------------------------
(***************************************************************************)
(* The registry of reviewed legal effects: imports of approved artifacts   *)
(* (legal_effects/importer.py) that run at the same time, each one READ    *)
(* COMMITTED transaction of many statements without a lock, over the four  *)
(* append-only tables of documents/orm.py, and the shadow evaluator        *)
(* (legal_effects/shadow.py) that reads them.                              *)
(*                                                                         *)
(* An artifact is [id, relations, events] with relations [id, key] and     *)
(* events [id, target, successor]: key stands for the two endpoints, the   *)
(* kind and the state of a relation, a REVOKES event has no successor, and *)
(* the ids of an artifact's events follow their order in it.               *)
(* Its content is its hash.  It declares one family, and the basis of a    *)
(* relation is part of the evidence of its key.                            *)
(***************************************************************************)
EXTENDS Naturals, FiniteSets

CONSTANTS Artifact,    \* the approved artifacts an operator may import
          Importer,    \* import processes
          None         \* no successor

\* What the parser makes sure of: validate_references_and_uniqueness and the
\* validators of an event
Approved(a) ==
    /\ a.relations # {}
    /\ \A r, s \in a.relations : r.id = s.id => r = s
    /\ \A e, f \in a.events : e.id = f.id \/ e.target = f.target => e = f
    /\ \A e \in a.events : e.successor # None =>
          /\ e.successor \in {r.id : r \in a.relations}
          /\ e.successor # e.target

ASSUME ArtifactAssumption == \A a \in Artifact : Approved(a)

VARIABLES
    evidence,      \* keys whose documents are ingested with a strict provenance
    imports,       \* the registry: one row per committed artifact
    imp            \* per process: its call of import_artifact

effectsVars == <<evidence, imports, imp>>

Keys == {r.key : r \in UNION {a.relations : a \in Artifact}}

\* A row of the import table with the rows it owns.  History: saw holds the
\* artifacts that were stored when its transaction began.
Row == [artifact : Artifact, saw : SUBSET Artifact]

Stored == {row.artifact : row \in imports}

Assertions == UNION {a.relations : a \in Stored}

Events == UNION {a.events : a \in Stored}

\* _active_assertion_ids: the assertions of a key that no event names
Active(k) == {r \in Assertions : r.key = k /\ \A e \in Events : e.target # r.id}

Off == [pc |-> "off"]

Call == [pc : {"lookup", "resolve", "check", "insert", "assertions", "events", "commit", "done"},
         artifact : Artifact, saw : SUBSET Artifact, left : SUBSET UNION {
             {r.id : r \in a.relations} \cup {e.id : e \in a.events} : a \in Artifact},
         answer : {"none", "IMPORTED", "ALREADY_IMPORTED", "IMPORT_ID_CONFLICT",
                   "EVIDENCE_INVALID", "DUPLICATE_ASSERTION", "EVENT_CONFLICT",
                   "EVENT_ID_CONFLICT", "EVENT_TARGET_NOT_FOUND", "PERSISTENCE_FAILURE"}]

-------------------------------------------------------------------------------
Init ==
    /\ evidence \in SUBSET Keys
    /\ imports = {}
    /\ imp = [p \in Importer |-> Off]

\* Ingestion stores the documents that a relation is about.
EvidenceIngested(k) ==
    /\ k \notin evidence
    /\ evidence' = evidence \cup {k}
    /\ UNCHANGED <<imports, imp>>

\* import_artifact is called; its transaction begins.
Begin(p, a) ==
    /\ imp[p].pc \in {"off", "done"}
    /\ imp' = [imp EXCEPT ![p] = [pc |-> "lookup", artifact |-> a, saw |-> Stored,
                                  left |-> {}, answer |-> "none"]]
    /\ UNCHANGED <<evidence, imports>>

\* The transaction ends with a result or an error code; an error rolls it back.
Answer(p, answer) == imp' = [imp EXCEPT ![p].pc = "done", ![p].answer = answer, ![p].left = {}]

\* The transaction goes on; left is what the next steps still have to look at.
Goto(p, pc, left) == imp' = [imp EXCEPT ![p].pc = pc, ![p].left = left]

\* Mutation: the hash of an artifact that is there is not compared.
LookUpById(p) ==
    LET same == {b \in Stored : b.id = imp[p].artifact.id} IN
    /\ imp[p].pc = "lookup"
    /\ \/ same = {} /\ Goto(p, "resolve", {})
       \/ same # {} /\ Answer(p, "ALREADY_IMPORTED")
    /\ UNCHANGED <<evidence, imports>>

\* _import_in_transaction, its first lookups by import_id and by hash
LookUp(p) ==
    LET a == imp[p].artifact
        same == {b \in Stored : b.id = a.id} IN
    /\ imp[p].pc = "lookup"
    /\ \/ same = {} /\ Goto(p, "resolve", {})
       \/ a \in same /\ Answer(p, "ALREADY_IMPORTED")
       \/ same # {} /\ a \notin same /\ Answer(p, "IMPORT_ID_CONFLICT")
    /\ UNCHANGED <<evidence, imports>>

\* _resolve_endpoint, _resolve_basis_provenance, _resolve_locator: stored documents
\* with the artifact's hashes, a strict provenance and the locator of the basis
ResolveEvidence(p) ==
    LET a == imp[p].artifact IN
    /\ imp[p].pc = "resolve"
    /\ IF \A r \in a.relations : r.key \in evidence
       THEN Goto(p, "check", {r.id : r \in a.relations})
       ELSE Answer(p, "EVIDENCE_INVALID")
    /\ UNCHANGED <<evidence, imports>>

\* The key is new to the artifact, and nothing is active under it but the one
\* assertion this relation corrects: of two events with one successor, the later.
KeyFree(a, r) ==
    LET corrections == {e \in a.events : e.successor = r.id} IN
    /\ \A s \in a.relations : s.key = r.key => s = r
    /\ \/ Active(r.key) = {}
       \/ \E e \in corrections : /\ \A f \in corrections : f.id <= e.id
                                  /\ {x.id : x \in Active(r.key)} = {e.target}

\* One relation of the duplicate check
CheckRelation(p, r) ==
    LET a == imp[p].artifact IN
    /\ imp[p].pc = "check"
    /\ r \in a.relations /\ r.id \in imp[p].left
    /\ IF KeyFree(a, r)
       THEN Goto(p, IF imp[p].left = {r.id} THEN "insert" ELSE "check", imp[p].left \ {r.id})
       ELSE Answer(p, "DUPLICATE_ASSERTION")
    /\ UNCHANGED <<evidence, imports>>

\* The artifacts whose import row, or whose assertion rows, are inserted but not
\* yet committed: an insert of the same primary key waits for them.
ImportsHeld == {imp[q].artifact : q \in {x \in Importer : imp[x].pc \in {"assertions", "events", "commit"}}}

AssertionsHeld ==
    UNION {imp[q].artifact.relations : q \in {x \in Importer : imp[x].pc \in {"events", "commit"}}}

\* flush() of the import and its family: import_id and artifact_sha256 are unique
InsertImport(p) ==
    LET a == imp[p].artifact IN
    /\ imp[p].pc = "insert"
    /\ \A b \in ImportsHeld : b.id # a.id
    /\ IF \A b \in Stored : b.id # a.id
       THEN Goto(p, "assertions", {})
       ELSE Answer(p, "PERSISTENCE_FAILURE")
    /\ UNCHANGED <<evidence, imports>>

\* flush() of the assertions, whose primary key is the relation's id
InsertAssertions(p) ==
    LET ids == {r.id : r \in imp[p].artifact.relations}
        events == {e.id : e \in imp[p].artifact.events} IN
    /\ imp[p].pc = "assertions"
    /\ \A r \in AssertionsHeld : r.id \notin ids
    /\ IF \A r \in Assertions : r.id \notin ids
       THEN Goto(p, IF events = {} THEN "commit" ELSE "events", events)
       ELSE Answer(p, "PERSISTENCE_FAILURE")
    /\ UNCHANGED <<evidence, imports>>

\* Mutation: an assertion that was corrected may still be revoked.
RevokeAgain(e) ==
    e.successor # None => \A f \in Events : f.target # e.target

\* No event names the target yet.
TargetFree(e) == \A f \in Events : f.target # e.target

\* _validate_event on one event: three reads, of which the last decides; an id taken
\* after the first is met again by the flush of Commit.
ValidateEvent(p, e) ==
    LET a == imp[p].artifact
        idFree == \A f \in Events : f.id # e.id
        known == \E r \in a.relations \cup Assertions : r.id = e.target IN
    /\ imp[p].pc = "events"
    /\ e \in a.events /\ e.id \in imp[p].left
    /\ \/ ~idFree /\ Answer(p, "EVENT_ID_CONFLICT")
       \/ idFree /\ ~known /\ Answer(p, "EVENT_TARGET_NOT_FOUND")
       \/ idFree /\ known /\ ~TargetFree(e) /\ Answer(p, "EVENT_CONFLICT")
       \/ /\ idFree /\ known /\ TargetFree(e)
          /\ Goto(p, IF imp[p].left = {e.id} THEN "commit" ELSE "events", imp[p].left \ {e.id})
    /\ UNCHANGED <<evidence, imports>>

\* Mutation: an import whose event is contradicted makes way.
Replaced(p) ==
    {row \in imports : row.artifact.id # imp[p].artifact.id /\
        \A e \in row.artifact.events, f \in imp[p].artifact.events : e.target # f.target}
      \cup {[artifact |-> imp[p].artifact, saw |-> imp[p].saw]}

\* The rows of the transaction become visible.
Appended(p) == imports \cup {[artifact |-> imp[p].artifact, saw |-> imp[p].saw]}

\* flush() of the events and the commit: event_id is the primary key
Commit(p) ==
    /\ imp[p].pc = "commit"
    /\ \/ /\ \A e \in imp[p].artifact.events, f \in Events : e.id # f.id
          /\ imports' = Appended(p)
          /\ Answer(p, "IMPORTED") \/ Answer(p, "PERSISTENCE_FAILURE")
       \/ /\ \E e \in imp[p].artifact.events, f \in Events : e.id = f.id
          /\ Answer(p, "PERSISTENCE_FAILURE")
          /\ UNCHANGED imports
    /\ UNCHANGED evidence

\* The database fails, or the process dies: the transaction is rolled back.
Fail(p) ==
    /\ imp[p].pc \notin {"off", "done"}
    /\ Answer(p, "PERSISTENCE_FAILURE") \/ imp' = [imp EXCEPT ![p] = Off]
    /\ UNCHANGED <<evidence, imports>>

Next ==
    \/ \E k \in Keys : EvidenceIngested(k)
    \/ \E p \in Importer :
         \/ \E a \in Artifact : Begin(p, a)
         \/ LookUp(p)
         \/ ResolveEvidence(p)
         \/ \E r \in UNION {a.relations : a \in Artifact} : CheckRelation(p, r)
         \/ InsertImport(p)
         \/ InsertAssertions(p)
         \/ \E e \in UNION {a.events : a \in Artifact} : ValidateEvent(p, e)
         \/ Commit(p)
         \/ Fail(p)

Spec == Init /\ [][Next]_effectsVars

-------------------------------------------------------------------------------
(***************************************************************************)
(* The shadow evaluator: one REPEATABLE READ transaction, so a function of *)
(* the registry at one instant.                                            *)
(***************************************************************************)

ActiveOf(a) == {r \in a.relations : \A e \in Events : e.target # r.id}

\* _evaluate_in_transaction on the family of artifact a
EvaluateInTransaction(a) ==
    CASE a \notin Stored -> "UNRESOLVED"
      [] a \in Stored /\ \/ \E e, f \in Events : /\ e # f /\ e.target = f.target
                                                 /\ e.target \in {r.id : r \in a.relations}
                         \/ \E r, s \in ActiveOf(a) : r # s /\ r.key = s.key -> "CONFLICT"
      [] OTHER -> IF \E r \in ActiveOf(a) : r.key \notin evidence THEN "UNRESOLVED"
                  ELSE IF ActiveOf(a) = {} THEN "SUPPRESSED" ELSE "ELIGIBLE"

\* What evaluate() may answer at that instant: whatever the transaction raises is
\* SHADOW_UNRESOLVED to the caller, too.
Evaluate(a) == {EvaluateInTransaction(a), "UNRESOLVED"}

-------------------------------------------------------------------------------
(***************************************************************************)
(* Properties                                                              *)
(***************************************************************************)

\* Every variable has its type.
EffectsTypeOK ==
    /\ evidence \subseteq Keys
    /\ imports \subseteq Row
    /\ imp \in [Importer -> Call \cup {Off}]

\* Neither of two rows' transactions could see the other.
Raced(x, y) == x.artifact \notin y.saw /\ y.artifact \notin x.saw

\* Two active assertions of one key, or two events on one assertion, come only
\* from imports that ran at the same time: an import that began after another
\* was stored adds neither, by itself or with a chain of corrections.
DuplicatesOnlyFromRaces ==
    \A x, y \in imports : x # y /\ ~Raced(x, y) =>
        /\ \A r \in x.artifact.relations, s \in y.artifact.relations :
               r.key = s.key => ~({r, s} \subseteq Active(r.key))
        /\ \A e \in x.artifact.events, f \in y.artifact.events : e.target # f.target

\* What a call answers is true of the registry: an artifact reported as imported
\* is stored whole, under an id nothing else has; a refused one meets the row that
\* refuses it; and no id, of an import, an assertion or an event, is stored twice.
AnswersMatchTheRegistry ==
    /\ \A p \in Importer : imp[p].pc = "done" =>
         LET a == imp[p].artifact IN
         /\ imp[p].answer \in {"IMPORTED", "ALREADY_IMPORTED"} => a \in Stored
         /\ imp[p].answer = "IMPORT_ID_CONFLICT" => a \notin Stored
         /\ imp[p].answer = "DUPLICATE_ASSERTION" =>
              \E r \in a.relations :
                  r.key \in {s.key : s \in Assertions} \cup {s.key : s \in a.relations \ {r}}
         /\ imp[p].answer = "EVENT_CONFLICT" =>
              \E e \in a.events, f \in Events : e.target = f.target
    /\ \A a, b \in Stored : a # b =>
         /\ a.id # b.id
         /\ \A r \in a.relations, s \in b.relations : r.id # s.id
         /\ \A e \in a.events, f \in b.events : e.id # f.id

\* Two answers of the shadow evaluator on one family never contradict each other in
\* the family's favour.  Once it can be called suppressed it is never called
\* eligible again, once in conflict it is called nothing else, and one that was
\* resolved can be resolved at any later time.  An unresolved answer, which an
\* evaluation that fails gives at any moment, promises nothing.
ShadowNeverRecovers ==
    [][\A a \in Artifact :
         /\ "SUPPRESSED" \in Evaluate(a) =>
              Evaluate(a)' \subseteq {"SUPPRESSED", "CONFLICT", "UNRESOLVED"}
         /\ "CONFLICT" \in Evaluate(a) => Evaluate(a)' \subseteq {"CONFLICT", "UNRESOLVED"}
         /\ Evaluate(a) # {"UNRESOLVED"} => Evaluate(a)' # {"UNRESOLVED"}]_effectsVars

===============================================================================
