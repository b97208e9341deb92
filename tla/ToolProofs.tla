------------------------------ MODULE ToolProofs ------------------------------
(***************************************************************************)
(* Theorems about the tools an operator runs.  First the registry of       *)
(* reviewed effects (LegalEffects), for any artifacts and any number of    *)
(* imports at once.                                                        *)
(*                                                                         *)
(* The argument: an import of the registry works on what it found when it  *)
(* began, and whatever was stored then has been compared with each of its  *)
(* relations and events by the time it commits; what it met there is dead  *)
(* for ever, for events are never taken back.  The unique ids come from    *)
(* the rows an import holds before it commits, not from what it read.      *)
(***************************************************************************)
EXTENDS LegalEffects, StressRun, RemoteSources, ShadowEvaluation, ProviderClient, M2Evaluation,
        SourcePolicies, SchemaMigrations, FiniteSetTheorems, SequenceTheorems,
        WellFoundedInduction, TLAPS

-------------------------------------------------------------------------------
(***************************************************************************)
(* Imports of reviewed effects                                             *)
(***************************************************************************)
\* An event names the assertion: it will never be active again.
Dead(r) == \E f \in Events : f.target = r.id

\* Relation s of an import c was compared with its own artifact and with those that
\* were stored when the import began.
Compared(c, s) ==
    /\ \A r \in c.artifact.relations : r.key = s.key => r = s
    /\ \A b \in c.saw : \A r \in b.relations : r.key = s.key =>
         Dead(r) \/ \E e \in c.artifact.events : e.target = r.id

\* Event f of an import c contradicts no event stored when the import began.
Unopposed(c, f) == \A b \in c.saw : \A e \in b.events : e.target # f.target

\* What an answer says of the registry
AnswerHolds(c) ==
    /\ c.answer \in {"IMPORTED", "ALREADY_IMPORTED"} => c.artifact \in Stored
    /\ c.answer = "IMPORT_ID_CONFLICT" =>
         \E b \in Stored : b # c.artifact /\ b.id = c.artifact.id
    /\ c.answer = "DUPLICATE_ASSERTION" =>
         \E r \in c.artifact.relations :
             \/ \E s \in Assertions : s.key = r.key
             \/ \E s \in c.artifact.relations \ {r} : s.key = r.key
    /\ c.answer = "EVENT_CONFLICT" =>
         \E e \in c.artifact.events, f \in Events : e.target = f.target

\* What an import knows by the time it is at its step
Informed(c) ==
    /\ c.saw \subseteq Stored
    /\ c.pc \in {"check", "insert", "assertions", "events", "commit"} =>
         \A s \in c.artifact.relations : (c.pc = "check" /\ s.id \in c.left) \/ Compared(c, s)
    /\ c.pc \in {"events", "commit"} =>
         \A f \in c.artifact.events : (c.pc = "events" /\ f.id \in c.left) \/ Unopposed(c, f)
    /\ c.pc = "done" => AnswerHolds(c)

HoldsImport(p) == imp[p].pc \in {"assertions", "events", "commit"}

HoldsAssertions(p) == imp[p].pc \in {"events", "commit"}

\* No two relations of a and b have the same id.
RelationsApart(a, b) == \A r \in a.relations, s \in b.relations : r.id # s.id

\* The rows that an import holds have ids that are nowhere else.
HeldApart ==
    /\ \A p \in Importer : HoldsImport(p) => \A b \in Stored : b.id # imp[p].artifact.id
    /\ \A p, q \in Importer : p # q /\ HoldsImport(p) /\ HoldsImport(q) =>
         imp[p].artifact.id # imp[q].artifact.id
    /\ \A p \in Importer : HoldsAssertions(p) =>
         \A b \in Stored : RelationsApart(imp[p].artifact, b)
    /\ \A p, q \in Importer : p # q /\ HoldsAssertions(p) /\ HoldsAssertions(q) =>
         RelationsApart(imp[p].artifact, imp[q].artifact)

\* The stored rows have ids that are nowhere else.
StoredApart ==
    \A a, b \in Stored : a # b =>
        /\ a.id # b.id
        /\ RelationsApart(a, b)
        /\ \A e \in a.events, f \in b.events : e.id # f.id

\* A later row was compared with an earlier one.
Later(x, y) ==
    /\ \A r \in x.artifact.relations, s \in y.artifact.relations : r.key = s.key => Dead(r)
    /\ \A e \in x.artifact.events, f \in y.artifact.events : e.target # f.target

StoredSound ==
    /\ \A x \in imports : x.saw \subseteq Stored
    /\ \A x \in imports : \A r, s \in x.artifact.relations : r.key = s.key => r = s
    /\ \A x, y \in imports : x # y /\ x.artifact \in y.saw => Later(x, y)

EffectsInv ==
    /\ EffectsTypeOK
    /\ \A p \in Importer : imp[p] # Off => Informed(imp[p])
    /\ HeldApart
    /\ StoredApart
    /\ StoredSound

-------------------------------------------------------------------------------
\* The registry only grows, and what was dead stays so.
LEMMA RegistryGrows ==
  ASSUME imports \subseteq imports'
  PROVE  /\ Stored \subseteq Stored' /\ Events \subseteq Events' /\ Assertions \subseteq Assertions'
         /\ \A r : Dead(r) => Dead(r)'
<1>1. Stored \subseteq Stored'
  BY DEF Stored
<1>2. Events \subseteq Events' /\ Assertions \subseteq Assertions'
  BY <1>1 DEF Events, Assertions
<1>3. \A r : Dead(r) => Dead(r)'
  BY <1>2 DEF Dead
<1>4. QED
  BY <1>1, <1>2, <1>3

LEMMA InformedStays ==
  ASSUME imports \subseteq imports'
  PROVE  \A c : Informed(c) => Informed(c)'
<1> SUFFICES ASSUME NEW c, Informed(c) PROVE Informed(c)'
  OBVIOUS
<1>1. /\ Stored \subseteq Stored' /\ Events \subseteq Events' /\ Assertions \subseteq Assertions'
      /\ \A r : Dead(r) => Dead(r)'
  BY RegistryGrows
<1>2. \A s : Compared(c, s) => Compared(c, s)'
  BY <1>1 DEF Compared
<1>3. \A f : Unopposed(c, f) => Unopposed(c, f)'
  BY DEF Unopposed
<1>4. AnswerHolds(c) => AnswerHolds(c)'
  BY <1>1 DEF AnswerHolds
<1>5. QED
  BY <1>1, <1>2, <1>3, <1>4 DEF Informed

LEMMA StoredAreArtifacts ==
  ASSUME EffectsInv
  PROVE  Stored \subseteq Artifact /\ \A a \in Stored : Approved(a)
<1>1. Stored \subseteq Artifact
  BY DEF EffectsInv, EffectsTypeOK, Row, Stored
<1>2. QED
  BY <1>1, ArtifactAssumption

LEMMA CallOf ==
  ASSUME EffectsInv, NEW p \in Importer, imp[p].pc # "off"
  PROVE  /\ imp[p] \in Call /\ imp[p] # Off /\ Informed(imp[p])
         /\ imp[p].artifact \in Artifact /\ Approved(imp[p].artifact)
<1>1. imp[p] \in Call /\ imp[p] # Off
  BY DEF EffectsInv, EffectsTypeOK, Off
<1>2. imp[p].artifact \in Artifact
  BY <1>1 DEF Call
<1>3. QED
  BY <1>1, <1>2, ArtifactAssumption DEF EffectsInv

\* Everything but the imports of the registry, as a step leaves it
LEMMA SameRegistry ==
  ASSUME imports' = imports
  PROVE  /\ Stored' = Stored /\ Events' = Events /\ Assertions' = Assertions
         /\ StoredApart => StoredApart'
         /\ StoredSound => StoredSound'
<1>1. Stored' = Stored /\ Events' = Events /\ Assertions' = Assertions
  BY DEF Stored, Events, Assertions
<1>2. StoredApart => StoredApart'
  BY <1>1 DEF StoredApart, RelationsApart
<1>3. StoredSound => StoredSound'
  BY <1>1 DEF StoredSound, Later, Dead
<1>4. QED
  BY <1>1, <1>2, <1>3

\* What a call c of import p must keep apart from the rows of others
Apart(p, c) ==
    /\ c.pc \in {"assertions", "events", "commit"} =>
         /\ \A b \in Stored : b.id # c.artifact.id
         /\ \A q \in Importer \ {p} : HoldsImport(q) => imp[q].artifact.id # c.artifact.id
    /\ c.pc \in {"events", "commit"} =>
         /\ \A b \in Stored : RelationsApart(c.artifact, b)
         /\ \A q \in Importer \ {p} : HoldsAssertions(q) =>
              RelationsApart(imp[q].artifact, c.artifact)

LEMMA ApartSymmetric == \A a, b : RelationsApart(a, b) <=> RelationsApart(b, a)
  BY DEF RelationsApart

\* An import moves to call c and writes nothing.
LEMMA CallInv ==
  ASSUME EffectsInv, NEW p \in Importer, NEW c \in Call \cup {Off},
         imp' = [imp EXCEPT ![p] = c], imports' = imports, evidence' = evidence,
         c # Off => Informed(c), Apart(p, c)
  PROVE  EffectsInv'
<1>1. imp'[p] = c /\ \A q \in Importer : q # p => imp'[q] = imp[q]
  BY DEF EffectsInv, EffectsTypeOK
<1>2. /\ Stored' = Stored /\ StoredApart' /\ StoredSound'
  BY SameRegistry DEF EffectsInv
<1>3. EffectsTypeOK'
  BY DEF EffectsInv, EffectsTypeOK
<1>4. \A q \in Importer : imp'[q] # Off => Informed(imp[q])'
  <2>1. \A d : Informed(d) => Informed(d)'
    BY InformedStays
  <2>2. Informed(c) => Informed(imp[p])'
    BY <1>1, <2>1
  <2>3. \A q \in Importer : q # p /\ imp'[q] # Off => Informed(imp[q])'
    BY <1>1, <2>1 DEF EffectsInv
  <2>4. QED
    BY <1>1, <2>2, <2>3
<1>5. \A q \in Importer : q # p =>
        (HoldsImport(q)' <=> HoldsImport(q)) /\ (HoldsAssertions(q)' <=> HoldsAssertions(q))
  BY <1>1 DEF HoldsImport, HoldsAssertions
<1>6. HeldApart'
  <2>1. \A q \in Importer : HoldsImport(q)' => \A b \in Stored' : b.id # imp'[q].artifact.id
    BY <1>1, <1>2, <1>5 DEF EffectsInv, HeldApart, HoldsImport, Apart
  <2>2. \A q, r \in Importer : q # r /\ HoldsImport(q)' /\ HoldsImport(r)' =>
          imp'[q].artifact.id # imp'[r].artifact.id
    <3> SUFFICES ASSUME NEW q \in Importer, NEW r \in Importer, q # r, HoldsImport(q)',
                        HoldsImport(r)'
                 PROVE  imp'[q].artifact.id # imp'[r].artifact.id
      OBVIOUS
    <3>1. CASE q # p /\ r # p
      BY <1>1, <1>5, <3>1 DEF EffectsInv, HeldApart
    <3>2. CASE q = p
      BY <1>1, <1>5, <3>2 DEF Apart, HoldsImport
    <3>3. CASE r = p
      BY <1>1, <1>5, <3>3 DEF Apart, HoldsImport
    <3>4. QED
      BY <3>1, <3>2, <3>3
  <2>3. \A q \in Importer : HoldsAssertions(q)' =>
          \A b \in Stored' : RelationsApart(imp'[q].artifact, b)
    BY <1>1, <1>2, <1>5 DEF EffectsInv, HeldApart, HoldsAssertions, Apart
  <2>4. \A q, r \in Importer : q # r /\ HoldsAssertions(q)' /\ HoldsAssertions(r)' =>
          RelationsApart(imp'[q].artifact, imp'[r].artifact)
    <3> SUFFICES ASSUME NEW q \in Importer, NEW r \in Importer, q # r, HoldsAssertions(q)',
                        HoldsAssertions(r)'
                 PROVE  RelationsApart(imp'[q].artifact, imp'[r].artifact)
      OBVIOUS
    <3>1. CASE q # p /\ r # p
      BY <1>1, <1>5, <3>1 DEF EffectsInv, HeldApart
    <3>2. CASE q = p
      BY <1>1, <1>5, <3>2, ApartSymmetric DEF Apart, HoldsAssertions
    <3>3. CASE r = p
      BY <1>1, <1>5, <3>3 DEF Apart, HoldsAssertions
    <3>4. QED
      BY <3>1, <3>2, <3>3
  <2>5. QED
    BY <2>1, <2>2, <2>3, <2>4 DEF HeldApart, RelationsApart
<1>7. QED
  BY <1>2, <1>3, <1>4, <1>6 DEF EffectsInv

\* An import ends with an answer and stores nothing.
LEMMA AnswerInv ==
  ASSUME EffectsInv, NEW p \in Importer, imp[p].pc # "off",
         NEW answer \in {"ALREADY_IMPORTED", "IMPORT_ID_CONFLICT",
                   "EVIDENCE_INVALID", "DUPLICATE_ASSERTION", "EVENT_CONFLICT",
                   "EVENT_ID_CONFLICT", "EVENT_TARGET_NOT_FOUND", "PERSISTENCE_FAILURE"},
         Answer(p, answer), UNCHANGED <<evidence, imports>>,
         AnswerHolds([imp[p] EXCEPT !.pc = "done", !.answer = answer, !.left = {}])
  PROVE  EffectsInv'
<1> DEFINE c == [imp[p] EXCEPT !.pc = "done", !.answer = answer, !.left = {}]
<1>1. imp[p] \in Call /\ Informed(imp[p])
  BY CallOf
<1>2. /\ c \in Call /\ c.pc = "done" /\ c.saw = imp[p].saw /\ imp' = [imp EXCEPT ![p] = c]
      /\ AnswerHolds(c)
  BY <1>1 DEF Call, Answer
<1> HIDE DEF c
<1>3. Informed(c)
  BY <1>1, <1>2 DEF Informed
<1>4. Apart(p, c)
  BY <1>2 DEF Apart
<1>5. QED
  BY <1>2, <1>3, <1>4, CallInv

\* The ids that the artifacts give to their relations and events
Ids == UNION {{r.id : r \in a.relations} \cup {e.id : e \in a.events} : a \in Artifact}

LEMMA IdsOf ==
  ASSUME EffectsInv, NEW p \in Importer, imp[p].pc # "off"
  PROVE  /\ {r.id : r \in imp[p].artifact.relations} \in SUBSET Ids
         /\ {e.id : e \in imp[p].artifact.events} \in SUBSET Ids
         /\ imp[p].left \in SUBSET Ids
<1>1. imp[p].artifact \in Artifact /\ imp[p] \in Call
  BY CallOf
<1>2. /\ {r.id : r \in imp[p].artifact.relations} \in SUBSET Ids
      /\ {e.id : e \in imp[p].artifact.events} \in SUBSET Ids
  BY <1>1 DEF Ids
<1>3. imp[p].left \in SUBSET Ids
  BY <1>1 DEF Call, Ids
<1>4. QED
  BY <1>2, <1>3

\* An import goes on.
LEMMA GotoInv ==
  ASSUME EffectsInv, NEW p \in Importer, imp[p].pc # "off",
         NEW step \in {"resolve", "check", "insert", "assertions", "events", "commit"},
         NEW unread \in SUBSET Ids,
         Goto(p, step, unread), UNCHANGED <<evidence, imports>>,
         step \in {"check", "insert", "assertions", "events", "commit"} =>
            \A s \in imp[p].artifact.relations :
                (step = "check" /\ s.id \in unread) \/ Compared(imp[p], s),
         step \in {"events", "commit"} =>
            \A f \in imp[p].artifact.events :
                (step = "events" /\ f.id \in unread) \/ Unopposed(imp[p], f),
         Apart(p, [imp[p] EXCEPT !.pc = step, !.left = unread])
  PROVE  EffectsInv'
<1> DEFINE c == [imp[p] EXCEPT !.pc = step, !.left = unread]
<1>1. imp[p] \in Call /\ Informed(imp[p])
  BY CallOf
<1>2. unread \in SUBSET UNION {{r.id : r \in a.relations} \cup {e.id : e \in a.events} : a \in Artifact}
  BY DEF Ids
<1>3. /\ c \in Call /\ c.pc = step /\ c.saw = imp[p].saw /\ c.artifact = imp[p].artifact
      /\ c.left = unread /\ imp' = [imp EXCEPT ![p] = c] /\ Apart(p, c)
  BY <1>1, <1>2 DEF Call, Goto
<1> HIDE DEF c
<1>4. /\ \A s : Compared(c, s) <=> Compared(imp[p], s)
      /\ \A f : Unopposed(c, f) <=> Unopposed(imp[p], f)
  BY <1>3 DEF Compared, Unopposed
<1>5. Informed(c)
  BY <1>1, <1>3, <1>4 DEF Informed
<1>6. QED
  BY <1>3, <1>5, CallInv

\* What an import holds stays apart when its step changes nothing of that.
LEMMA StillApart ==
  ASSUME EffectsInv, NEW p \in Importer, HoldsAssertions(p),
         NEW c, c.artifact = imp[p].artifact
  PROVE  Apart(p, c)
  BY DEF EffectsInv, HeldApart, HoldsImport, HoldsAssertions, Apart

LEMMA BeginInv ==
  ASSUME EffectsInv, NEW p \in Importer, NEW a \in Artifact, Begin(p, a)
  PROVE  EffectsInv'
<1> DEFINE c == [pc |-> "lookup", artifact |-> a, saw |-> Stored, left |-> {}, answer |-> "none"]
<1>1. Stored \subseteq Artifact
  BY StoredAreArtifacts
<1>2. /\ c \in Call /\ c.pc = "lookup" /\ c.saw = Stored
      /\ imp' = [imp EXCEPT ![p] = c] /\ UNCHANGED <<evidence, imports>>
  BY <1>1 DEF Call, Begin
<1> HIDE DEF c
<1>3. Informed(c) /\ Apart(p, c)
  BY <1>2 DEF Informed, Apart
<1>4. QED
  BY <1>2, <1>3, CallInv

LEMMA LookUpInv ==
  ASSUME EffectsInv, NEW p \in Importer, LookUp(p)
  PROVE  EffectsInv'
<1> DEFINE a == imp[p].artifact
           same == {b \in Stored : b.id = a.id}
<1>1. imp[p].pc = "lookup" /\ imp[p].pc # "off" /\ UNCHANGED <<evidence, imports>>
  BY DEF LookUp
<1>2. imp[p] \in Call
  BY <1>1, CallOf
<1>3. CASE same = {} /\ Goto(p, "resolve", {})
  <2>1. [imp[p] EXCEPT !.pc = "resolve", !.left = {}].pc = "resolve"
    BY <1>2 DEF Call
  <2>2. Apart(p, [imp[p] EXCEPT !.pc = "resolve", !.left = {}])
    BY <2>1 DEF Apart
  <2>3. QED
    BY <1>1, <1>3, <2>2, GotoInv
<1>4. CASE a \in same /\ Answer(p, "ALREADY_IMPORTED")
  <2> DEFINE c == [imp[p] EXCEPT !.pc = "done", !.answer = "ALREADY_IMPORTED", !.left = {}]
  <2>1. c.answer = "ALREADY_IMPORTED" /\ c.artifact = a
    BY <1>2 DEF Call
  <2>2. AnswerHolds(c)
    BY <1>4, <2>1 DEF AnswerHolds
  <2>3. QED
    BY <1>1, <1>4, <2>2, AnswerInv
<1>5. CASE same # {} /\ a \notin same /\ Answer(p, "IMPORT_ID_CONFLICT")
  <2> DEFINE c == [imp[p] EXCEPT !.pc = "done", !.answer = "IMPORT_ID_CONFLICT", !.left = {}]
  <2>1. c.answer = "IMPORT_ID_CONFLICT" /\ c.artifact = a
    BY <1>2 DEF Call
  <2>2. PICK b \in same : b # a
    BY <1>5
  <2>3. AnswerHolds(c)
    BY <2>1, <2>2 DEF AnswerHolds
  <2>4. QED
    BY <1>1, <1>5, <2>3, AnswerInv
<1>6. QED
  BY <1>3, <1>4, <1>5 DEF LookUp

LEMMA ResolveInv ==
  ASSUME EffectsInv, NEW p \in Importer, ResolveEvidence(p)
  PROVE  EffectsInv'
<1> DEFINE unread == {r.id : r \in imp[p].artifact.relations}
<1>1. imp[p].pc = "resolve" /\ imp[p].pc # "off" /\ UNCHANGED <<evidence, imports>>
  BY DEF ResolveEvidence
<1>2. imp[p] \in Call
  BY <1>1, CallOf
<1>3. CASE Goto(p, "check", unread)
  <2>1. [imp[p] EXCEPT !.pc = "check", !.left = unread].pc = "check"
    BY <1>2 DEF Call
  <2>2. Apart(p, [imp[p] EXCEPT !.pc = "check", !.left = unread])
    BY <2>1 DEF Apart
  <2>3. \A s \in imp[p].artifact.relations : s.id \in unread
    OBVIOUS
  <2>4. unread \in SUBSET Ids
    BY <1>1, IdsOf
  <2> HIDE DEF unread
  <2>5. QED
    BY <1>1, <1>3, <2>2, <2>3, <2>4, GotoInv
<1>4. CASE Answer(p, "EVIDENCE_INVALID")
  <2> DEFINE c == [imp[p] EXCEPT !.pc = "done", !.answer = "EVIDENCE_INVALID", !.left = {}]
  <2>1. c.answer = "EVIDENCE_INVALID"
    BY <1>2 DEF Call
  <2>2. AnswerHolds(c)
    BY <2>1 DEF AnswerHolds
  <2>3. QED
    BY <1>1, <1>4, <2>2, AnswerInv
<1>5. QED
  BY <1>3, <1>4 DEF ResolveEvidence

\* A key that is free for relation r stays accounted for.
LEMMA FreeIsCompared ==
  ASSUME EffectsInv, NEW c, Informed(c), NEW r, KeyFree(c.artifact, r)
  PROVE  Compared(c, r)
<1>1. \A s \in c.artifact.relations : s.key = r.key => s = r
  BY DEF KeyFree
<1>2. ASSUME NEW b \in c.saw, NEW t \in b.relations, t.key = r.key
      PROVE  Dead(t) \/ \E e \in c.artifact.events : e.target = t.id
  <2>1. t \in Assertions
    BY <1>2 DEF Informed, Assertions
  <2>2. CASE t \notin Active(r.key)
    BY <1>2, <2>1, <2>2 DEF Active, Dead
  <2>3. CASE t \in Active(r.key)
    <3>1. PICK e \in c.artifact.events : {x.id : x \in Active(r.key)} = {e.target}
      BY <2>3 DEF KeyFree
    <3>2. t.id \in {x.id : x \in Active(r.key)}
      BY <2>3
    <3>3. QED
      BY <3>1, <3>2
  <2>4. QED
    BY <2>2, <2>3
<1>3. QED
  BY <1>1, <1>2 DEF Compared

LEMMA CheckInv ==
  ASSUME EffectsInv, NEW p \in Importer, NEW r, CheckRelation(p, r)
  PROVE  EffectsInv'
<1> DEFINE a == imp[p].artifact
           unread == imp[p].left
           rest == unread \ {r.id}
           step == IF unread = {r.id} THEN "insert" ELSE "check"
<1>1. /\ imp[p].pc = "check" /\ imp[p].pc # "off" /\ UNCHANGED <<evidence, imports>>
      /\ r \in a.relations /\ r.id \in unread
  BY DEF CheckRelation
<1>2. imp[p] \in Call /\ Informed(imp[p]) /\ Approved(a)
  BY <1>1, CallOf
<1>3. CASE KeyFree(a, r) /\ Goto(p, step, rest)
  <2>1. Compared(imp[p], r)
    BY <1>2, <1>3, FreeIsCompared
  <2>2. \A s \in a.relations : s.id \in unread \/ Compared(imp[p], s)
    BY <1>1, <1>2 DEF Informed
  <2>3. \A s \in a.relations : s.id = r.id => s = r
    BY <1>1, <1>2 DEF Approved
  <2>4. \A s \in a.relations : (step = "check" /\ s.id \in rest) \/ Compared(imp[p], s)
    <3> SUFFICES ASSUME NEW s \in a.relations
                 PROVE  (step = "check" /\ s.id \in rest) \/ Compared(imp[p], s)
      OBVIOUS
    <3>1. CASE s.id = r.id
      BY <2>1, <2>3, <3>1
    <3>2. CASE s.id # r.id
      BY <2>2, <3>2
    <3>3. QED
      BY <3>1, <3>2
  <2>5. [imp[p] EXCEPT !.pc = step, !.left = rest].pc \in {"insert", "check"}
    BY <1>2 DEF Call
  <2>6. Apart(p, [imp[p] EXCEPT !.pc = step, !.left = rest])
    BY <2>5 DEF Apart
  <2>7. rest \in SUBSET Ids
    BY <1>1, IdsOf
  <2>8. step \in {"check", "insert"}
    OBVIOUS
  <2> HIDE DEF step, rest
  <2>9. QED
    BY <1>1, <1>3, <2>4, <2>6, <2>7, <2>8, GotoInv
<1>4. CASE ~KeyFree(a, r) /\ Answer(p, "DUPLICATE_ASSERTION")
  <2> DEFINE c == [imp[p] EXCEPT !.pc = "done", !.answer = "DUPLICATE_ASSERTION", !.left = {}]
  <2>1. c.answer = "DUPLICATE_ASSERTION" /\ c.artifact = a
    BY <1>2 DEF Call
  <2>2. \/ \E s \in a.relations \ {r} : s.key = r.key
        \/ \E s \in Assertions : s.key = r.key
    BY <1>1, <1>4 DEF KeyFree, Active
  <2>3. AnswerHolds(c)
    BY <1>1, <2>1, <2>2 DEF AnswerHolds
  <2>4. QED
    BY <1>1, <1>4, <2>3, AnswerInv
<1>5. QED
  BY <1>3, <1>4 DEF CheckRelation

LEMMA InsertImportInv ==
  ASSUME EffectsInv, NEW p \in Importer, InsertImport(p)
  PROVE  EffectsInv'
<1> DEFINE a == imp[p].artifact
<1>1. /\ imp[p].pc = "insert" /\ imp[p].pc # "off" /\ UNCHANGED <<evidence, imports>>
      /\ \A b \in ImportsHeld : b.id # a.id
  BY DEF InsertImport
<1>2. imp[p] \in Call /\ Informed(imp[p])
  BY <1>1, CallOf
<1>3. CASE (\A b \in Stored : b.id # a.id) /\ Goto(p, "assertions", {})
  <2> DEFINE step == "assertions"
             c == [imp[p] EXCEPT !.pc = step, !.left = {}]
  <2>1. c.pc = "assertions" /\ c.artifact = a
    BY <1>2 DEF Call
  <2>2. \A q \in Importer \ {p} : HoldsImport(q) => imp[q].artifact.id # a.id
    BY <1>1 DEF HoldsImport, ImportsHeld
  <2>3. Apart(p, c)
    BY <1>3, <2>1, <2>2 DEF Apart
  <2>4. \A s \in a.relations : Compared(imp[p], s)
    BY <1>1, <1>2 DEF Informed
  <2>5. /\ Goto(p, step, {}) /\ {} \in SUBSET Ids
        /\ step \notin {"check", "events", "commit"}
        /\ step \in {"resolve", "check", "insert", "assertions", "events", "commit"}
    BY <1>3
  <2> HIDE DEF step
  <2>6. QED
    BY <1>1, <2>3, <2>4, <2>5, GotoInv
<1>4. CASE Answer(p, "PERSISTENCE_FAILURE")
  <2> DEFINE c == [imp[p] EXCEPT !.pc = "done", !.answer = "PERSISTENCE_FAILURE", !.left = {}]
  <2>1. c.answer = "PERSISTENCE_FAILURE"
    BY <1>2 DEF Call
  <2>2. AnswerHolds(c)
    BY <2>1 DEF AnswerHolds
  <2>3. QED
    BY <1>1, <1>4, <2>2, AnswerInv
<1>5. QED
  BY <1>3, <1>4 DEF InsertImport

LEMMA InsertAssertionsInv ==
  ASSUME EffectsInv, NEW p \in Importer, InsertAssertions(p)
  PROVE  EffectsInv'
<1> DEFINE a == imp[p].artifact
           ids == {r.id : r \in a.relations}
           unread == {e.id : e \in a.events}
           step == IF unread = {} THEN "commit" ELSE "events"
<1>1. /\ imp[p].pc = "assertions" /\ imp[p].pc # "off" /\ UNCHANGED <<evidence, imports>>
      /\ \A r \in AssertionsHeld : r.id \notin ids
  BY DEF InsertAssertions
<1>2. imp[p] \in Call /\ Informed(imp[p])
  BY <1>1, CallOf
<1>3. CASE (\A r \in Assertions : r.id \notin ids) /\ Goto(p, step, unread)
  <2> DEFINE c == [imp[p] EXCEPT !.pc = step, !.left = unread]
  <2>1. c.pc = step /\ c.artifact = a
    BY <1>2 DEF Call
  <2>2. \A b \in Stored : RelationsApart(a, b)
    BY <1>3 DEF RelationsApart, Assertions
  <2>3. \A q \in Importer \ {p} : HoldsAssertions(q) => RelationsApart(imp[q].artifact, a)
    BY <1>1 DEF RelationsApart, HoldsAssertions, AssertionsHeld
  <2>4. HoldsImport(p)
    BY <1>1 DEF HoldsImport
  <2>5. Apart(p, c)
    BY <2>1, <2>2, <2>3, <2>4 DEF Apart, EffectsInv, HeldApart
  <2>6. \A s \in a.relations : Compared(imp[p], s)
    BY <1>1, <1>2 DEF Informed
  <2>7. \A f \in a.events : step = "events" /\ f.id \in unread
    OBVIOUS
  <2>8. step \in {"commit", "events"} /\ unread \in SUBSET Ids
    BY <1>1, IdsOf
  <2> HIDE DEF step, unread
  <2>9. QED
    BY <1>1, <1>3, <2>5, <2>6, <2>7, <2>8, GotoInv
<1>4. CASE Answer(p, "PERSISTENCE_FAILURE")
  <2> DEFINE c == [imp[p] EXCEPT !.pc = "done", !.answer = "PERSISTENCE_FAILURE", !.left = {}]
  <2>1. c.answer = "PERSISTENCE_FAILURE"
    BY <1>2 DEF Call
  <2>2. AnswerHolds(c)
    BY <2>1 DEF AnswerHolds
  <2>3. QED
    BY <1>1, <1>4, <2>2, AnswerInv
<1>5. QED
  BY <1>3, <1>4 DEF InsertAssertions

LEMMA ValidateEventInv ==
  ASSUME EffectsInv, NEW p \in Importer, NEW e, ValidateEvent(p, e)
  PROVE  EffectsInv'
<1> DEFINE a == imp[p].artifact
           unread == imp[p].left
           rest == unread \ {e.id}
           step == IF unread = {e.id} THEN "commit" ELSE "events"
<1>1. /\ imp[p].pc = "events" /\ imp[p].pc # "off" /\ UNCHANGED <<evidence, imports>>
      /\ e \in a.events /\ e.id \in unread
  BY DEF ValidateEvent
<1>2. imp[p] \in Call /\ Informed(imp[p]) /\ Approved(a)
  BY <1>1, CallOf
<1>3. CASE TargetFree(e) /\ Goto(p, step, rest)
  <2>1. Unopposed(imp[p], e)
    BY <1>2, <1>3 DEF Unopposed, TargetFree, Informed, Events
  <2>2. \A f \in a.events : f.id \in unread \/ Unopposed(imp[p], f)
    BY <1>1, <1>2 DEF Informed
  <2>3. \A f \in a.events : f.id = e.id => f = e
    BY <1>1, <1>2 DEF Approved
  <2>4. \A f \in a.events : (step = "events" /\ f.id \in rest) \/ Unopposed(imp[p], f)
    <3> SUFFICES ASSUME NEW f \in a.events
                 PROVE  (step = "events" /\ f.id \in rest) \/ Unopposed(imp[p], f)
      OBVIOUS
    <3>1. CASE f.id = e.id
      BY <2>1, <2>3, <3>1
    <3>2. CASE f.id # e.id
      BY <2>2, <3>2
    <3>3. QED
      BY <3>1, <3>2
  <2>5. \A s \in a.relations : Compared(imp[p], s)
    BY <1>1, <1>2 DEF Informed
  <2>6. [imp[p] EXCEPT !.pc = step, !.left = rest].artifact = a
    BY <1>2 DEF Call
  <2>7. Apart(p, [imp[p] EXCEPT !.pc = step, !.left = rest])
    BY <1>1, <2>6, StillApart DEF HoldsAssertions
  <2>8. step \in {"commit", "events"} /\ rest \in SUBSET Ids
    BY <1>1, IdsOf
  <2> HIDE DEF step, rest
  <2>9. QED
    BY <1>1, <1>3, <2>4, <2>5, <2>7, <2>8, GotoInv
<1>4. CASE ~TargetFree(e) /\ Answer(p, "EVENT_CONFLICT")
  <2> DEFINE c == [imp[p] EXCEPT !.pc = "done", !.answer = "EVENT_CONFLICT", !.left = {}]
  <2>1. c.answer = "EVENT_CONFLICT" /\ c.artifact = a
    BY <1>2 DEF Call
  <2>2. \E f \in Events : e.target = f.target
    BY <1>4 DEF TargetFree
  <2>3. AnswerHolds(c)
    BY <1>1, <2>1, <2>2 DEF AnswerHolds
  <2>4. QED
    BY <1>1, <1>4, <2>3, AnswerInv
<1>5. ASSUME NEW answer \in {"EVENT_ID_CONFLICT", "EVENT_TARGET_NOT_FOUND"}, Answer(p, answer)
      PROVE  EffectsInv'
  <2> DEFINE c == [imp[p] EXCEPT !.pc = "done", !.answer = answer, !.left = {}]
  <2>1. c.answer = answer
    BY <1>2 DEF Call
  <2>2. AnswerHolds(c)
    BY <2>1 DEF AnswerHolds
  <2>3. QED
    BY <1>1, <1>5, <2>2, AnswerInv
<1>6. QED
  BY <1>3, <1>4, <1>5 DEF ValidateEvent
\* The commit makes the rows of an import visible: it is no longer held, but stored.
LEMMA StoreInv ==
  ASSUME EffectsInv, NEW p \in Importer, imp[p].pc = "commit",
         \A e \in imp[p].artifact.events, f \in Events : e.id # f.id,
         NEW answer \in {"IMPORTED", "PERSISTENCE_FAILURE"}, Answer(p, answer),
         imports' = Appended(p), evidence' = evidence
  PROVE  EffectsInv'
<1> DEFINE a == imp[p].artifact
           row == [artifact |-> a, saw |-> imp[p].saw]
<1>1. /\ imp[p] \in Call /\ Informed(imp[p]) /\ a \in Artifact
      /\ HoldsImport(p) /\ HoldsAssertions(p)
  BY CallOf DEF HoldsImport, HoldsAssertions
<1>2. /\ row \in Row /\ row.artifact = a /\ row.saw = imp[p].saw
      /\ imports' = imports \cup {row}
  BY <1>1 DEF Call, Row, Appended
<1>3. PICK c \in Call : /\ c.pc = "done" /\ c.saw = imp[p].saw /\ c.artifact = a /\ c.answer = answer
                       /\ imp' = [imp EXCEPT ![p] = c]
  <2> DEFINE d == [imp[p] EXCEPT !.pc = "done", !.answer = answer, !.left = {}]
  <2>1. /\ d \in Call /\ d.pc = "done" /\ d.saw = imp[p].saw /\ d.artifact = a /\ d.answer = answer
        /\ imp' = [imp EXCEPT ![p] = d]
    BY <1>1 DEF Call, Answer
  <2> HIDE DEF d
  <2>2. QED
    BY <2>1
<1>4. imp'[p] = c /\ \A q \in Importer : q # p => imp'[q] = imp[q]
  BY <1>3 DEF EffectsInv, EffectsTypeOK
<1> HIDE DEF row
<1>5. /\ Stored' = Stored \cup {a}
      /\ Events' = Events \cup a.events
      /\ Assertions' = Assertions \cup a.relations
  <2>1. Stored' = Stored \cup {a}
    BY <1>2 DEF Stored
  <2>2. QED
    BY <2>1 DEF Events, Assertions
<1>6. /\ a \notin Stored
      /\ \A b \in Stored : b.id # a.id /\ RelationsApart(a, b)
  BY <1>1 DEF EffectsInv, HeldApart
<1>7. \A r : Dead(r) => Dead(r)'
  BY <1>2, RegistryGrows
<1>8. EffectsTypeOK'
  BY <1>2, <1>3 DEF EffectsInv, EffectsTypeOK
<1>9. \A q \in Importer : imp'[q] # Off => Informed(imp[q])'
  <2>1. \A d : Informed(d) => Informed(d)'
    BY <1>2, InformedStays
  <2>2. AnswerHolds(c)'
    BY <1>3, <1>5 DEF AnswerHolds
  <2>3. (c.saw \subseteq Stored)'
    BY <1>1, <1>3, <1>5 DEF Informed
  <2>4. Informed(c)'
    BY <1>3, <2>2, <2>3 DEF Informed
  <2>5. \A q \in Importer : q # p /\ imp'[q] # Off => Informed(imp[q])'
    BY <1>4, <2>1 DEF EffectsInv
  <2>6. QED
    BY <1>4, <2>4, <2>5
<1>10. HeldApart'
  <2>1. \A q \in Importer : /\ HoldsImport(q)' => q # p /\ HoldsImport(q)
                            /\ HoldsAssertions(q)' => q # p /\ HoldsAssertions(q)
    BY <1>3, <1>4 DEF HoldsImport, HoldsAssertions
  <2>2. ASSUME NEW q \in Importer, HoldsImport(q)', NEW b \in Stored'
        PROVE  b.id # imp'[q].artifact.id
    <3>1. q # p /\ HoldsImport(q) /\ imp'[q] = imp[q]
      BY <1>4, <2>1, <2>2
    <3>2. CASE b \in Stored
      BY <3>1, <3>2 DEF EffectsInv, HeldApart
    <3>3. CASE b = a
      BY <1>1, <3>1, <3>3 DEF EffectsInv, HeldApart
    <3>4. QED
      BY <1>5, <3>2, <3>3
  <2>3. ASSUME NEW q \in Importer, NEW r \in Importer, q # r, HoldsImport(q)', HoldsImport(r)'
        PROVE  imp'[q].artifact.id # imp'[r].artifact.id
    <3>1. HoldsImport(q) /\ imp'[q] = imp[q] /\ HoldsImport(r) /\ imp'[r] = imp[r]
      BY <1>4, <2>1, <2>3
    <3>2. QED
      BY <2>3, <3>1 DEF EffectsInv, HeldApart
  <2>4. ASSUME NEW q \in Importer, HoldsAssertions(q)', NEW b \in Stored'
        PROVE  RelationsApart(imp'[q].artifact, b)
    <3>1. q # p /\ HoldsAssertions(q) /\ imp'[q] = imp[q]
      BY <1>4, <2>1, <2>4
    <3>2. CASE b \in Stored
      BY <3>1, <3>2 DEF EffectsInv, HeldApart
    <3>3. CASE b = a
      BY <1>1, <3>1, <3>3 DEF EffectsInv, HeldApart
    <3>4. QED
      BY <1>5, <3>2, <3>3
  <2>5. ASSUME NEW q \in Importer, NEW r \in Importer, q # r, HoldsAssertions(q)',
               HoldsAssertions(r)'
        PROVE  RelationsApart(imp'[q].artifact, imp'[r].artifact)
    <3>1. HoldsAssertions(q) /\ imp'[q] = imp[q] /\ HoldsAssertions(r) /\ imp'[r] = imp[r]
      BY <1>4, <2>1, <2>5
    <3>2. QED
      BY <2>5, <3>1 DEF EffectsInv, HeldApart
  <2>6. QED
    BY <2>2, <2>3, <2>4, <2>5 DEF HeldApart, RelationsApart
<1>11. StoredApart'
  <2>1. \A b \in Stored : \A e \in a.events, f \in b.events : e.id # f.id
    BY DEF Events
  <2>2. \A x, y \in Stored' : x # y =>
          /\ x.id # y.id /\ RelationsApart(x, y)
          /\ \A e \in x.events, f \in y.events : e.id # f.id
    <3> SUFFICES ASSUME NEW x \in Stored', NEW y \in Stored', x # y
                 PROVE  /\ x.id # y.id /\ RelationsApart(x, y)
                        /\ \A e \in x.events, f \in y.events : e.id # f.id
      OBVIOUS
    <3>1. CASE x \in Stored /\ y \in Stored
      BY <3>1 DEF EffectsInv, StoredApart
    <3>2. CASE x \in Stored /\ y = a
      BY <1>6, <2>1, <3>2, ApartSymmetric
    <3>3. CASE x = a /\ y \in Stored
      BY <1>6, <2>1, <3>3
    <3>4. QED
      BY <1>5, <3>1, <3>2, <3>3
  <2>3. QED
    BY <2>2 DEF StoredApart, RelationsApart
<1>12. StoredSound'
  <2>1. row.saw \subseteq Stored
    BY <1>1, <1>2 DEF Informed
  <2>2. \A x \in imports : x.artifact \in Stored
    BY DEF Stored
  <2>3. \A x \in imports' : x.saw \subseteq Stored'
    BY <1>2, <1>5, <2>1 DEF EffectsInv, StoredSound
  <2>4. \A s \in a.relations : Compared(imp[p], s)
    BY <1>1 DEF Informed
  <2>5. \A f \in a.events : Unopposed(imp[p], f)
    BY <1>1 DEF Informed
  <2>6. \A x \in imports' : \A r, s \in x.artifact.relations : r.key = s.key => r = s
    BY <1>2, <2>4 DEF EffectsInv, StoredSound, Compared
  <2>7. \A x, y \in imports' : x # y /\ x.artifact \in y.saw => Later(x, y)'
    <3> SUFFICES ASSUME NEW x \in imports', NEW y \in imports', x # y, x.artifact \in y.saw
                 PROVE  Later(x, y)'
      OBVIOUS
    <3>1. CASE x \in imports /\ y \in imports
      <4>1. Later(x, y)
        BY <3>1 DEF EffectsInv, StoredSound
      <4>2. QED
        BY <1>7, <4>1 DEF Later
    <3>2. CASE x \in imports /\ y = row
      <4>1. y.artifact = a /\ x.artifact \in imp[p].saw
        BY <1>2, <3>2
      <4>2. ASSUME NEW r \in x.artifact.relations, NEW s \in y.artifact.relations, r.key = s.key
            PROVE  Dead(r)'
        <5>1. Dead(r) \/ \E e \in a.events : e.target = r.id
          BY <2>4, <4>1, <4>2 DEF Compared
        <5>2. QED
          BY <1>5, <1>7, <5>1 DEF Dead
      <4>3. \A e \in x.artifact.events, f \in y.artifact.events : e.target # f.target
        BY <2>5, <4>1 DEF Unopposed
      <4>4. QED
        BY <4>2, <4>3 DEF Later
    <3>3. CASE x = row /\ y \in imports
      <4>1. a \in Stored
        BY <1>2, <3>3 DEF EffectsInv, StoredSound
      <4>2. QED
        BY <1>6, <4>1
    <3>4. QED
      BY <1>2, <3>1, <3>2, <3>3
  <2>8. QED
    BY <2>3, <2>6, <2>7 DEF StoredSound
<1>13. QED
  BY <1>8, <1>9, <1>10, <1>11, <1>12 DEF EffectsInv

\* A transaction that fails, whatever it was doing
LEMMA FailureInv ==
  ASSUME EffectsInv, NEW p \in Importer, imp[p].pc # "off",
         Answer(p, "PERSISTENCE_FAILURE"), UNCHANGED <<evidence, imports>>
  PROVE  EffectsInv'
<1> DEFINE c == [imp[p] EXCEPT !.pc = "done", !.answer = "PERSISTENCE_FAILURE", !.left = {}]
<1>1. imp[p] \in Call
  BY CallOf
<1>2. c.answer = "PERSISTENCE_FAILURE"
  BY <1>1 DEF Call
<1>3. AnswerHolds(c)
  BY <1>2 DEF AnswerHolds
<1>4. QED
  BY <1>3, AnswerInv

LEMMA CommitInv ==
  ASSUME EffectsInv, NEW p \in Importer, Commit(p)
  PROVE  EffectsInv'
<1>1. imp[p].pc = "commit" /\ imp[p].pc # "off" /\ evidence' = evidence
  BY DEF Commit
<1>2. CASE /\ \A e \in imp[p].artifact.events, f \in Events : e.id # f.id
           /\ imports' = Appended(p)
           /\ Answer(p, "IMPORTED") \/ Answer(p, "PERSISTENCE_FAILURE")
  BY <1>1, <1>2, StoreInv
<1>3. CASE Answer(p, "PERSISTENCE_FAILURE") /\ UNCHANGED imports
  BY <1>1, <1>3, FailureInv
<1>4. QED
  BY <1>2, <1>3 DEF Commit

LEMMA FailInv ==
  ASSUME EffectsInv, NEW p \in Importer, Fail(p)
  PROVE  EffectsInv'
<1>1. imp[p].pc # "off" /\ UNCHANGED <<evidence, imports>>
  BY DEF Fail
<1>2. CASE Answer(p, "PERSISTENCE_FAILURE")
  BY <1>1, <1>2, FailureInv
<1>3. CASE imp' = [imp EXCEPT ![p] = Off]
  <2>1. Apart(p, Off)
    BY DEF Apart, Off
  <2>2. QED
    BY <1>1, <1>3, <2>1, CallInv
<1>4. QED
  BY <1>2, <1>3 DEF Fail

LEMMA EvidenceInv ==
  ASSUME EffectsInv, NEW k \in Keys, EvidenceIngested(k)
  PROVE  EffectsInv'
<1>1. evidence' = evidence \cup {k} /\ imports' = imports /\ imp' = imp
  BY DEF EvidenceIngested
<1>2. Stored' = Stored /\ StoredApart' /\ StoredSound'
  BY <1>1, SameRegistry DEF EffectsInv
<1>3. EffectsTypeOK'
  BY <1>1 DEF EffectsInv, EffectsTypeOK
<1>4. \A q \in Importer : imp'[q] # Off => Informed(imp[q])'
  BY <1>1, InformedStays DEF EffectsInv
<1>5. HeldApart'
  BY <1>1, <1>2 DEF EffectsInv, HeldApart, HoldsImport, HoldsAssertions
<1>6. QED
  BY <1>2, <1>3, <1>4, <1>5 DEF EffectsInv

LEMMA EffectsInit == Init => EffectsInv
<1> SUFFICES ASSUME Init PROVE EffectsInv
  OBVIOUS
<1>1. Stored = {} /\ imports = {}
  BY DEF Init, Stored
<1>2. \A p \in Importer : imp[p] = Off /\ imp[p].pc = "off"
  BY DEF Init, Off
<1>3. EffectsTypeOK
  BY DEF Init, EffectsTypeOK
<1>4. HeldApart
  BY <1>2 DEF HeldApart, HoldsImport, HoldsAssertions
<1>5. StoredApart /\ StoredSound
  BY <1>1 DEF StoredApart, StoredSound
<1>6. QED
  BY <1>2, <1>3, <1>4, <1>5 DEF EffectsInv

LEMMA EffectsStep == EffectsInv /\ [Next]_effectsVars => EffectsInv'
<1> SUFFICES ASSUME EffectsInv, [Next]_effectsVars PROVE EffectsInv'
  OBVIOUS
<1>1. ASSUME NEW k \in Keys, EvidenceIngested(k) PROVE EffectsInv'
  BY <1>1, EvidenceInv
<1>2. ASSUME NEW p \in Importer, NEW a \in Artifact, Begin(p, a) PROVE EffectsInv'
  BY <1>2, BeginInv
<1>3. ASSUME NEW p \in Importer, LookUp(p) PROVE EffectsInv'
  BY <1>3, LookUpInv
<1>4. ASSUME NEW p \in Importer, ResolveEvidence(p) PROVE EffectsInv'
  BY <1>4, ResolveInv
<1>5. ASSUME NEW p \in Importer, NEW r, CheckRelation(p, r) PROVE EffectsInv'
  BY <1>5, CheckInv
<1>6. ASSUME NEW p \in Importer, InsertImport(p) PROVE EffectsInv'
  BY <1>6, InsertImportInv
<1>7. ASSUME NEW p \in Importer, InsertAssertions(p) PROVE EffectsInv'
  BY <1>7, InsertAssertionsInv
<1>8. ASSUME NEW p \in Importer, NEW e, ValidateEvent(p, e) PROVE EffectsInv'
  BY <1>8, ValidateEventInv
<1>9. ASSUME NEW p \in Importer, Commit(p) PROVE EffectsInv'
  BY <1>9, CommitInv
<1>10. ASSUME NEW p \in Importer, Fail(p) PROVE EffectsInv'
  BY <1>10, FailInv
<1>11. CASE UNCHANGED effectsVars
  <2>1. evidence' = evidence /\ imports' = imports /\ imp' = imp
    BY <1>11 DEF effectsVars
  <2>2. Stored' = Stored /\ StoredApart' /\ StoredSound'
    BY <2>1, SameRegistry DEF EffectsInv
  <2>3. EffectsTypeOK'
    BY <2>1 DEF EffectsInv, EffectsTypeOK
  <2>4. \A q \in Importer : imp'[q] # Off => Informed(imp[q])'
    BY <2>1, InformedStays DEF EffectsInv
  <2>5. HeldApart'
    BY <2>1, <2>2 DEF EffectsInv, HeldApart, HoldsImport, HoldsAssertions
  <2>6. QED
    BY <2>2, <2>3, <2>4, <2>5 DEF EffectsInv
<1>12. QED
  BY <1>1, <1>2, <1>3, <1>4, <1>5, <1>6, <1>7, <1>8, <1>9, <1>10, <1>11 DEF Next

\* The invariant holds at every step of the imports.
LEMMA EffectsAlways == Spec => []EffectsInv
<1>1. QED
  BY EffectsInit, EffectsStep, PTL DEF Spec

\* Every variable of the registry has its type.
THEOREM EffectsTypeCorrect == Spec => []EffectsTypeOK
<1>1. EffectsInv => EffectsTypeOK
  BY DEF EffectsInv
<1>2. QED
  BY <1>1, EffectsAlways, PTL

\* Two active assertions of one key, or two events on one assertion, come only from
\* imports that ran at the same time (importer.py holds no lock over its checks).
THEOREM OnlyRacesDuplicate == Spec => []DuplicatesOnlyFromRaces
<1>1. EffectsInv => DuplicatesOnlyFromRaces
  <2> SUFFICES ASSUME EffectsInv, NEW x \in imports, NEW y \in imports, x # y, ~Raced(x, y)
               PROVE  /\ \A r \in x.artifact.relations, s \in y.artifact.relations :
                           r.key = s.key => ~({r, s} \subseteq Active(r.key))
                      /\ \A e \in x.artifact.events, f \in y.artifact.events :
                           e.target # f.target
    BY DEF DuplicatesOnlyFromRaces
  <2>1. Later(x, y) \/ Later(y, x)
    BY DEF Raced, EffectsInv, StoredSound
  <2>2. \A r : r \in Active(r.key) => ~Dead(r)
    BY DEF Active, Dead
  <2>3. CASE Later(x, y)
    BY <2>2, <2>3 DEF Later
  <2>4. CASE Later(y, x)
    <3>1. \A r \in x.artifact.relations, s \in y.artifact.relations : r.key = s.key => Dead(s)
      BY <2>4 DEF Later
    <3>2. ASSUME NEW r \in x.artifact.relations, NEW s \in y.artifact.relations, r.key = s.key,
                 {r, s} \subseteq Active(r.key)
          PROVE  FALSE
      BY <2>2, <3>1, <3>2
    <3>3. \A e \in x.artifact.events, f \in y.artifact.events : e.target # f.target
      BY <2>4 DEF Later
    <3>4. QED
      BY <3>2, <3>3
  <2>5. QED
    BY <2>1, <2>3, <2>4
<1>2. QED
  BY <1>1, EffectsAlways, PTL

\* What a call of import_artifact answers is true of the registry, and no id is
\* stored twice.
THEOREM AnswersAreTrue == Spec => []AnswersMatchTheRegistry
<1>1. EffectsInv => AnswersMatchTheRegistry
  <2> SUFFICES ASSUME EffectsInv PROVE AnswersMatchTheRegistry
    OBVIOUS
  <2>1. ASSUME NEW p \in Importer, imp[p].pc = "done"
        PROVE  /\ AnswerHolds(imp[p])
               /\ imp[p].answer = "IMPORT_ID_CONFLICT" => imp[p].artifact \notin Stored
               /\ imp[p].answer = "DUPLICATE_ASSERTION" =>
                    \E r \in imp[p].artifact.relations :
                        r.key \in {s.key : s \in Assertions}
                                    \cup {s.key : s \in imp[p].artifact.relations \ {r}}
    <3>1. AnswerHolds(imp[p])
      BY <2>1, CallOf DEF Informed
    <3>2. imp[p].answer = "IMPORT_ID_CONFLICT" => imp[p].artifact \notin Stored
      BY <3>1 DEF AnswerHolds, EffectsInv, StoredApart
    <3>3. ASSUME imp[p].answer = "DUPLICATE_ASSERTION"
          PROVE  \E r \in imp[p].artifact.relations :
                    r.key \in {s.key : s \in Assertions}
                                \cup {s.key : s \in imp[p].artifact.relations \ {r}}
      <4>1. PICK r \in imp[p].artifact.relations :
                    \/ \E s \in Assertions : s.key = r.key
                    \/ \E s \in imp[p].artifact.relations \ {r} : s.key = r.key
        BY <3>1, <3>3 DEF AnswerHolds
      <4>2. QED
        BY <4>1
    <3>4. QED
      BY <3>1, <3>2, <3>3
  <2>2. \A a, b \in Stored : a # b =>
          /\ a.id # b.id
          /\ \A r \in a.relations, s \in b.relations : r.id # s.id
          /\ \A e \in a.events, f \in b.events : e.id # f.id
    BY DEF EffectsInv, StoredApart, RelationsApart
  <2>3. QED
    BY <2>1, <2>2 DEF AnswersMatchTheRegistry, AnswerHolds
<1>2. QED
  BY <1>1, EffectsAlways, PTL

\* A step of the registry takes nothing back.
LEMMA NothingIsTakenBack ==
  ASSUME [Next]_effectsVars
  PROVE  imports \subseteq imports' /\ evidence \subseteq evidence'
<1>1. CASE UNCHANGED effectsVars
  BY <1>1 DEF effectsVars
<1>2. ASSUME NEW k \in Keys, EvidenceIngested(k) PROVE imports \subseteq imports' /\ evidence \subseteq evidence'
  BY <1>2 DEF EvidenceIngested
<1>3. ASSUME NEW p \in Importer, Commit(p) PROVE imports \subseteq imports' /\ evidence \subseteq evidence'
  BY <1>3 DEF Commit, Appended
<1>4. ASSUME NEW p \in Importer,
             \/ \E a \in Artifact : Begin(p, a)
             \/ LookUp(p)
             \/ ResolveEvidence(p)
             \/ \E r \in UNION {a.relations : a \in Artifact} : CheckRelation(p, r)
             \/ InsertImport(p)
             \/ InsertAssertions(p)
             \/ \E e \in UNION {a.events : a \in Artifact} : ValidateEvent(p, e)
             \/ Fail(p)
      PROVE  imports' = imports /\ evidence' = evidence
  BY <1>4 DEF Begin, LookUp, ResolveEvidence, CheckRelation, InsertImport, InsertAssertions,
              ValidateEvent, Fail
<1>5. QED
  BY <1>1, <1>2, <1>3, <1>4 DEF Next

\* What the shadow evaluator finds wrong with the family of an artifact
Contested(a) ==
    \/ \E e, f \in Events : e # f /\ e.target = f.target /\ e.target \in {r.id : r \in a.relations}
    \/ \E r, s \in ActiveOf(a) : r # s /\ r.key = s.key

LEMMA OutcomeOf ==
  ASSUME NEW a
  PROVE  /\ a \notin Stored => EvaluateInTransaction(a) = "UNRESOLVED"
         /\ a \in Stored /\ Contested(a) => EvaluateInTransaction(a) = "CONFLICT"
         /\ a \in Stored /\ ~Contested(a) =>
              EvaluateInTransaction(a) =
                IF \E r \in ActiveOf(a) : r.key \notin evidence THEN "UNRESOLVED"
                                 ELSE IF ActiveOf(a) = {} THEN "SUPPRESSED" ELSE "ELIGIBLE"
  BY DEF EvaluateInTransaction, Contested

\* Later answers of the shadow evaluator on a family never revive it, failed
\* evaluations included (shadow.py).
THEOREM ShadowMovesOn == Spec => ShadowNeverRecovers
<1>1. ASSUME EffectsInv, [Next]_effectsVars, NEW a \in Artifact
      PROVE  /\ EvaluateInTransaction(a) = "SUPPRESSED" =>
                  EvaluateInTransaction(a)' \in {"SUPPRESSED", "CONFLICT"}
             /\ EvaluateInTransaction(a) = "CONFLICT" => EvaluateInTransaction(a)' = "CONFLICT"
             /\ EvaluateInTransaction(a) = "ELIGIBLE" => EvaluateInTransaction(a)' # "UNRESOLVED"
  <2>1. imports \subseteq imports' /\ evidence \subseteq evidence'
    BY <1>1, NothingIsTakenBack
  <2>2. Stored \subseteq Stored' /\ Events \subseteq Events'
    BY <2>1, RegistryGrows
  <2>3. ActiveOf(a)' \subseteq ActiveOf(a)
    BY <2>2 DEF ActiveOf
  <2>4. a \in Stored => \A r, s \in ActiveOf(a) : r.key = s.key => r = s
    BY <1>1 DEF EffectsInv, StoredSound, Stored, ActiveOf
  <2>5. a \in Stored /\ Contested(a) => Contested(a)'
    BY <2>2, <2>4 DEF Contested
  <2>6. CASE a \notin Stored
    BY <2>6, OutcomeOf
  <2>7. CASE a \in Stored /\ Contested(a)
    <3>1. EvaluateInTransaction(a) = "CONFLICT"
      BY <2>7, OutcomeOf
    <3>2. EvaluateInTransaction(a)' = "CONFLICT"
      <4>1. (a \in Stored /\ Contested(a))'
        BY <2>2, <2>5, <2>7
      <4>2. (a \in Stored /\ Contested(a) => EvaluateInTransaction(a) = "CONFLICT")'
        BY DEF EvaluateInTransaction, Contested
      <4>3. QED
        BY <4>1, <4>2
    <3>3. QED
      BY <3>1, <3>2
  <2>8. CASE a \in Stored /\ ~Contested(a) /\ ~(\E r \in ActiveOf(a) : r.key \notin evidence)
    <3>1. EvaluateInTransaction(a) = IF ActiveOf(a) = {} THEN "SUPPRESSED" ELSE "ELIGIBLE"
      BY <2>8, OutcomeOf
    <3>2. (a \in Stored)' /\ ~(\E r \in ActiveOf(a) : r.key \notin evidence)'
      BY <2>1, <2>2, <2>3, <2>8
    <3>3. \/ EvaluateInTransaction(a)' = "CONFLICT"
          \/ EvaluateInTransaction(a)' = IF ActiveOf(a)' = {} THEN "SUPPRESSED" ELSE "ELIGIBLE"
      BY <3>2 DEF EvaluateInTransaction
    <3>4. QED
      BY <2>3, <3>1, <3>3
  <2>9. CASE a \in Stored /\ ~Contested(a) /\ \E r \in ActiveOf(a) : r.key \notin evidence
    <3>1. EvaluateInTransaction(a) = "UNRESOLVED"
      BY <2>9, OutcomeOf
    <3>2. QED
      BY <3>1
  <2>10. QED
    BY <2>6, <2>7, <2>8, <2>9
<1>2. ASSUME EffectsInv, [Next]_effectsVars, NEW a \in Artifact
      PROVE  /\ "SUPPRESSED" \in Evaluate(a) =>
                  Evaluate(a)' \subseteq {"SUPPRESSED", "CONFLICT", "UNRESOLVED"}
             /\ "CONFLICT" \in Evaluate(a) => Evaluate(a)' \subseteq {"CONFLICT", "UNRESOLVED"}
             /\ Evaluate(a) # {"UNRESOLVED"} => Evaluate(a)' # {"UNRESOLVED"}
  <2>1. /\ EvaluateInTransaction(a) \in {"UNRESOLVED", "CONFLICT", "SUPPRESSED", "ELIGIBLE"}
        /\ Evaluate(a) = {EvaluateInTransaction(a), "UNRESOLVED"}
    BY OutcomeOf DEF Evaluate
  <2>2. Evaluate(a)' = {EvaluateInTransaction(a)', "UNRESOLVED"}
    BY DEF Evaluate
  <2>3. QED
    BY <1>1, <1>2, <2>1, <2>2
<1>3. EffectsInv /\ [Next]_effectsVars =>
        [\A a \in Artifact :
           /\ "SUPPRESSED" \in Evaluate(a) =>
                Evaluate(a)' \subseteq {"SUPPRESSED", "CONFLICT", "UNRESOLVED"}
           /\ "CONFLICT" \in Evaluate(a) => Evaluate(a)' \subseteq {"CONFLICT", "UNRESOLVED"}
           /\ Evaluate(a) # {"UNRESOLVED"} => Evaluate(a)' # {"UNRESOLVED"}]_effectsVars
  BY <1>2
<1>4. QED
  BY <1>3, EffectsAlways, PTL DEF Spec, ShadowNeverRecovers

-------------------------------------------------------------------------------
(***************************************************************************)
(* The stress run: every stored run is one a row names, one whose id was   *)
(* lost, or one whose call still waits for its answer.                     *)
(***************************************************************************)
Answering(c) == c \in DOMAIN phase /\ phase[c] \in {"answer", "parse"}

Tracked == \A r \in runs : r.id \in captured \cup lost \/ Answering(r.id)

StressInv ==
    /\ others = foreign
    /\ Tracked
    /\ pc \in {"parse", "setup"} => runs = {}
    /\ pc \notin {"mechanical", "real"} => phase = <<>>
    /\ pc \in {"close", "report", "exited"} /\ cleanup # "FAILED_SAFE"
         /\ infrastructure = "COMPLETED" => \A r \in runs : r.id \in lost

LEMMA StressInitial == StressInit => StressInv
  BY DEF StressInit, StressInv, Tracked

\* A lane goes on: what the invariant says of the tool's end stays with it.
LEMMA LaneKeeps ==
  ASSUME StressInv, pc \in {"mechanical", "real"}, UNCHANGED <<pc, others, foreign>>, Tracked'
  PROVE  StressInv'
  BY DEF StressInv

\* A call goes on and stores nothing.
LEMMA ProceedKeeps ==
  ASSUME Tracked, NEW c \in DOMAIN phase, NEW p, Proceed(c, p), UNCHANGED <<runs, lost>>,
         Answering(c) => p \in {"answer", "parse"}
  PROVE  Tracked'
  BY DEF Proceed, Tracked, Answering

\* A call ends and stores nothing.
LEMMA FinishKeeps ==
  ASSUME Tracked, NEW c \in DOMAIN phase, NEW row, NEW n, Finish(c, row, n),
         UNCHANGED <<runs, lost>>, Answering(c) => c \in row.run
  PROVE  Tracked'
  BY DEF Finish, Tracked, Answering

LEMMA StressStep == StressInv /\ [StressNext]_stressVars => StressInv'
<1> SUFFICES ASSUME StressInv, [StressNext]_stressVars PROVE StressInv'
  OBVIOUS
<1> USE DEF StressInv
<1>1. CASE Parse
  BY <1>1 DEF Parse, laneVars, clientVars, Tracked, Answering
<1>2. CASE Setup
  BY <1>2 DEF Setup, Fails, clientVars, Tracked, Answering
<1>3. CASE EndLevel
  BY <1>3 DEF EndLevel, clientVars, resultVars, Tracked, Answering
<1>4. CASE EndReal
  BY <1>4 DEF EndReal, clientVars, resultVars, Tracked, Answering
<1>5. CASE Probe
  BY <1>5 DEF Probe, Fails, laneVars, clientVars, Tracked, Answering
<1>6. CASE Load
  BY <1>6 DEF Load, Fails, clientVars, Tracked, Answering
<1>7. CASE Catalog
  BY <1>7 DEF Catalog, Fails, laneVars, clientVars, Tracked, Answering
<1>8. CASE Cleanup
  BY <1>8 DEF Cleanup, clientVars, Tracked, Answering
<1>9. CASE Close
  BY <1>9 DEF Close, laneVars, clientVars, Tracked, Answering
<1>10. CASE WriteReport
  BY <1>10 DEF WriteReport, laneVars, clientVars, Tracked, Answering
<1>11. CASE Interrupt
  BY <1>11 DEF Interrupt, Running, clientVars, Tracked, Answering
<1>12. CASE OtherClient
  BY <1>12 DEF OtherClient, laneVars, resultVars, Tracked, Answering
<1>13. ASSUME NEW c \in DOMAIN phase, StartCall(c) PROVE StressInv'
  BY <1>13, LaneKeeps DEF StartCall, Proceed, Tracked, Answering, clientVars, resultVars
<1>14. ASSUME NEW c \in DOMAIN phase, PlanReturns(c) PROVE StressInv'
  BY <1>14, LaneKeeps, ProceedKeeps DEF PlanReturns, Answering, clientVars
<1>15. ASSUME NEW c \in DOMAIN phase, EmbedReturns(c) PROVE StressInv'
  BY <1>15, LaneKeeps, ProceedKeeps, FinishKeeps DEF EmbedReturns, Answering, clientVars
<1>16. ASSUME NEW c \in DOMAIN phase, RerankReturns(c) PROVE StressInv'
  BY <1>16, LaneKeeps, ProceedKeeps DEF RerankReturns, Answering, clientVars
<1>17. ASSUME NEW c \in DOMAIN phase, StoreReturns(c) PROVE StressInv'
  BY <1>17, LaneKeeps DEF StoreReturns, Proceed, Finish, CallRow, Tracked, Answering, clientVars
<1>18. ASSUME NEW c \in DOMAIN phase, AnswerReturns(c) PROVE StressInv'
  BY <1>18, LaneKeeps, ProceedKeeps, FinishKeeps DEF AnswerReturns, CallRow, clientVars
<1>19. ASSUME NEW c \in DOMAIN phase, ParseReturns(c) PROVE StressInv'
  BY <1>19, LaneKeeps, FinishKeeps DEF ParseReturns, CallRow, clientVars
<1>20. CASE UNCHANGED stressVars
  BY <1>20 DEF stressVars, Tracked, Answering
<1>21. QED
  BY <1>1, <1>2, <1>3, <1>4, <1>5, <1>6, <1>7, <1>8, <1>9, <1>10, <1>11, <1>12, <1>13, <1>14,
     <1>15, <1>16, <1>17, <1>18, <1>19, <1>20 DEF StressNext

\* A stress run that says it cleaned up left no run whose id it was ever told, and none
\* of another client is touched (_cleanup, captured_run_ids).
THEOREM StressCleansUp == StressSpec => []CleansUpItsOwn
<1>1. StressInv => CleansUpItsOwn
  BY DEF StressInv, CleansUpItsOwn
<1>2. QED
  BY <1>1, StressInitial, StressStep, PTL DEF StressSpec

-------------------------------------------------------------------------------
(***************************************************************************)
(* The report of the stress run, for any cases, levels and rounds.         *)
(*                                                                         *)
(* The argument: every call of the lanes so far has a row or is on its     *)
(* way, and a row names no run but the call's own, which stays stored      *)
(* until the rows were filled from it.  The counters are balanced by the   *)
(* calls at each port; a case of the real lane is charged what was asked   *)
(* since the snapshot, and as its calls are made one at a time that is     *)
(* its own.                                                                *)
(***************************************************************************)
Lanes == {"mechanical", "real"}
Working == pc \in {"mechanical", "real", "probe", "load", "catalog"}

\* The run has gone well so far.
Fine ==
  /\ pc \in {"mechanical", "real", "probe", "load", "catalog", "cleanup", "close", "report"}
  /\ exit = "running" /\ infrastructure = "COMPLETED"

LaneCalls ==
  IF pc = "mechanical" THEN MechanicalCalls(level) ELSE IF pc = "real" THEN RealCalls ELSE {}
LevelsOver == IF pc = "mechanical" THEN 1 .. (level - 1) ELSE DOMAIN args.levels
CallsOf(rows) == {row.call : row \in rows}
RowFields == {"call", "outcome", "run", "provider", "class", "present", "cites"}
AllRows == mechanical \cup real \cup gathered
Billable == {"plan", "answer"}

\* Every call of the lanes so far has its row, or is on its way.
Put ==
  /\ DOMAIN phase \subseteq LaneCalls
  /\ CallsOf(gathered) = LaneCalls \ DOMAIN phase
  /\ CallsOf(mechanical) = UNION {MechanicalCalls(i) : i \in LevelsOver}
  /\ CallsOf(real) = IF pc \in Lanes \/ args.skipReal THEN {} ELSE RealCalls
  /\ pc = "real" => ~args.skipReal

Sheets ==
  /\ IsFiniteSet(AllRows)
  /\ \A row \in AllRows : DOMAIN row = RowFields
  /\ \A r, s \in AllRows : r.call = s.call => r = s

\* A row that names a run names the call's own, which is stored.
OwnRun(row) ==
  /\ row.run \in {{}, {row.call}}
  /\ row.run # {} => \E r \in runs : r.id = row.call
  /\ row.outcome = "ANSWERED" =>
       row.run = {row.call} /\ \E r \in runs : r.id = row.call /\ r.cites # {}
  /\ row.present = FALSE

Kept ==
  /\ \A r, s \in runs : r.id = s.id => r = s
  /\ \A r \in runs : \/ r.id \in CallsOf(AllRows)
                     \/ r.id \in DOMAIN phase /\ phase[r.id] \in {"answer", "parse"}
  /\ \A c \in DOMAIN phase :
       phase[c] \in {"answer", "parse"} => \E r \in runs : r.id = c /\ r.cites # {}
  /\ \A row \in AllRows : OwnRun(row)

\* What the lines show once the stored runs were read
Shown(row) ==
  /\ row.run # {} <=> row.present
  /\ row.outcome = "ANSWERED" => row.cites # {}

CoverageShown ==
  ~args.skipReal =>
    \A row \in coverage : \E r \in real :
      r.call.lane = "REAL_SHINE" /\ r.call.case = row.case /\ r.cites = row.retrieved

\* The counters: every call ended once, or is at the port.
AtPort(p) == {c \in DOMAIN phase : phase[c] = p /\ Counted(c, p)}
Tally == [calls : Nat, successes : Nat, failures : Nat]

Counts ==
  /\ count \in [Port -> Tally]
  /\ \A p \in Port : /\ IsFiniteSet(AtPort(p))
                     /\ count[p].calls = count[p].successes + count[p].failures
                                         + Cardinality(AtPort(p))

\* The cases are charged what the providers were asked, one call at a time.
Bill == [calls : Int, successes : Int, failures : Int]
Billed(p) == {case \in Case : delta[case][p].calls = 1}

OwedBy(c, p) ==
  IF p = "plan" THEN IF Meets(c, "plan") THEN 1 ELSE 0
  ELSE IF phase[c] \in {"answer", "parse"} THEN 1 ELSE 0

Charged ==
  /\ delta \in [Case -> [Billable -> Bill]]
  /\ before \in [Billable -> Tally]
  /\ pc = "mechanical" =>
       \A p \in Billable : count[p].calls = 0 /\ \A case \in Case : delta[case][p].calls = 0
  /\ \A p \in Billable : IsFiniteSet(Billed(p))
  /\ pc = "real" =>
       /\ \A c, d \in Running : c = d
       /\ \A p \in Billable :
            /\ \A c \in DOMAIN phase : delta[c.case][p].calls = 0
            /\ Running = {} => count[p].calls = Cardinality(Billed(p))
            /\ \A c \in Running : /\ before[p].calls = Cardinality(Billed(p))
                                  /\ count[p].calls = before[p].calls + OwedBy(c, p)
  /\ pc \notin Lanes /\ ~args.skipReal =>
       \A p \in Billable : count[p].calls = Cardinality(Billed(p))

Whole(written) ==
  /\ CallsOf(written.rows) = AllCalls
  /\ Cardinality(written.rows) = Cardinality(AllCalls)
  /\ \A row \in written.rows : Shown(row)
  /\ ~args.skipReal =>
       \A row \in written.coverage : \E r \in written.rows :
         r.call.lane = "REAL_SHINE" /\ r.call.case = row.case /\ r.cites = row.retrieved
  /\ \A p \in Port : count[p].calls = count[p].successes + count[p].failures
  /\ ~args.skipReal =>
       \A p \in Billable : count[p].calls = Cardinality(Billed(p))

\* What is there before the first lane
Untouched ==
  /\ level = 1 /\ phase = <<>> /\ gathered = {} /\ mechanical = {} /\ real = {} /\ runs = {}
  /\ count = [p \in Port |-> Zero] /\ before = [p \in Billable |-> Zero]
  /\ delta = [case \in Case |-> [p \in Billable |-> Zero]]
  /\ coverage = {}

ReportInv ==
  /\ args \in Arguments /\ level \in DOMAIN args.levels
  /\ pc \in {"parse", "setup"} => Untouched /\ exit = "running" /\ infrastructure = "COMPLETED"
  /\ Working => exit = "running" /\ infrastructure = "COMPLETED"
  /\ pc \notin Lanes => phase = <<>>
  /\ Fine => Put /\ Sheets /\ Counts /\ Charged
  /\ Fine /\ pc \in {"mechanical", "real", "probe", "load"} => Kept
  /\ Fine /\ pc \in {"catalog", "cleanup", "close", "report"} =>
       \A row \in mechanical \cup real : Shown(row)
  /\ Fine /\ pc \in {"cleanup", "close", "report"} => CoverageShown
  /\ exit = "0" => pc = "exited" /\ Whole(report)

-------------------------------------------------------------------------------
\* What a call does: it goes on to another place, or ends with a row.
MovesTo(c, p, ok) ==
  /\ phase' = [phase EXCEPT ![c] = p]
  /\ count' = Called(Ended(count, c, phase[c], ok), c, p)
  /\ before' = IF phase[c] = "waiting" THEN Snapshot(c, count) ELSE before
  /\ UNCHANGED <<gathered, delta>>
  /\ \/ phase[c] \in {"waiting", "plan", "embed", "rerank"} /\ p = After(c, phase[c])
        /\ UNCHANGED runs
     \/ /\ phase[c] = "store" /\ p = "answer"
        /\ \E cites : cites # {} /\ runs' = runs \cup {[id |-> c, cites |-> cites]}
     \/ phase[c] = "answer" /\ p = "parse" /\ UNCHANGED runs
     \/ phase[c] = "embed" /\ p = "empty" /\ UNCHANGED runs

StoresRun(c) ==
  /\ phase[c] \in {"store", "empty"}
  /\ \E cites : runs' = runs \cup {[id |-> c, cites |-> cites]}

EndsWith(c, row, ok) ==
  /\ phase' = [d \in DOMAIN phase \ {c} |-> phase[d]]
  /\ count' = Ended(count, c, phase[c], ok)
  /\ before' = IF phase[c] = "waiting" THEN Snapshot(c, count) ELSE before
  /\ gathered' = gathered \cup {row}
  /\ delta' = IF c.lane = "REAL_SHINE"
              THEN [delta EXCEPT ![c.case] =
                      [p \in Billable |-> CounterDelta(before'[p], count'[p])]]
              ELSE delta
  /\ UNCHANGED runs \/ StoresRun(c)
  /\ DOMAIN row = RowFields /\ row.call = c /\ row.present = FALSE
  /\ row.run \in {{}, {c}}
  /\ row.run # {} => phase[c] \in {"answer", "parse"} \/ (\E r \in runs' : r.id = c)
  /\ row.outcome = "ANSWERED" => phase[c] = "parse" /\ row.run = {c}

Frame == UNCHANGED <<args, pc, level, mechanical, real, coverage, infrastructure, report, exit>>

CallStep(c) ==
  /\ pc \in Lanes /\ Frame
  /\ phase[c] = "waiting" => MayStart(c)
  /\ \E ok \in BOOLEAN : (\E p : MovesTo(c, p, ok)) \/ (\E row : EndsWith(c, row, ok))

LEMMA StartIsStep ==
  ASSUME NEW c \in DOMAIN phase, StartCall(c)
  PROVE  CallStep(c)
<1>1. /\ pc \in Lanes /\ Frame /\ MayStart(c) /\ phase[c] = "waiting" /\ UNCHANGED runs
  BY DEF StartCall, Lanes, Frame, clientVars, resultVars
<1>2. Ended(count, c, "waiting", TRUE) = count
  BY DEF Ended, Counted, Port
<1>3. CASE /\ count' = Called(count, c, After(c, "waiting"))
           /\ before' = Snapshot(c, count) /\ Proceed(c, After(c, "waiting"))
  <2>1. MovesTo(c, After(c, "waiting"), TRUE)
    BY <1>1, <1>2, <1>3 DEF MovesTo, Proceed
  <2> QED BY <1>1, <2>1 DEF CallStep
<1>4. CASE /\ before' = Snapshot(c, count) /\ count' = count
           /\ phase' = [d \in DOMAIN phase \ {c} |-> phase[d]]
           /\ gathered' = gathered \cup
                {CallRow(c, "SAFE_EXCEPTION", {}, FALSE, "NOT_APPLICABLE")}
           /\ delta' = IF c.lane = "REAL_SHINE"
                       THEN [delta EXCEPT ![c.case] =
                               [p \in {"plan", "answer"} |-> CounterDelta(count[p], count[p])]]
                       ELSE delta
  <2> DEFINE row == CallRow(c, "SAFE_EXCEPTION", {}, FALSE, "NOT_APPLICABLE")
  <2>1. DOMAIN row = RowFields /\ row.call = c /\ row.present = FALSE /\ row.run = {}
        /\ row.outcome = "SAFE_EXCEPTION"
    BY DEF CallRow, RowFields
  <2>2. c.lane = "REAL_SHINE" => \A p \in Billable : before'[p] = count[p]
    BY <1>4 DEF Snapshot, Billable
  <2>0. gathered' = gathered \cup {row}
    BY <1>4
  <2> HIDE DEF row
  <2>3. c.lane = "REAL_SHINE" =>
          [p \in {"plan", "answer"} |-> CounterDelta(count[p], count[p])]
            = [p \in Billable |-> CounterDelta(before'[p], count'[p])]
    BY <1>4, <2>2 DEF Billable
  <2>4. delta' = IF c.lane = "REAL_SHINE"
                 THEN [delta EXCEPT ![c.case] =
                         [p \in Billable |-> CounterDelta(before'[p], count'[p])]]
                 ELSE delta
    BY <1>4, <2>3
  <2>5. EndsWith(c, row, TRUE)
    BY <1>1, <1>2, <1>4, <2>0, <2>1, <2>4 DEF EndsWith
  <2> QED BY <1>1, <2>5 DEF CallStep
<1> QED
  BY <1>3, <1>4 DEF StartCall

\* What Finish and Proceed are, for a call that has started.
LEMMA FinishEnds ==
  ASSUME NEW c \in DOMAIN phase, NEW row, NEW ok \in BOOLEAN, phase[c] # "waiting",
         Finish(c, row, Ended(count, c, phase[c], ok)),
         count' = Ended(count, c, phase[c], ok), UNCHANGED before,
         UNCHANGED runs \/ StoresRun(c),
         DOMAIN row = RowFields, row.call = c, row.present = FALSE,
         row.run \in {{}, {c}},
         row.run # {} => phase[c] \in {"answer", "parse"} \/ (\E r \in runs' : r.id = c),
         row.outcome = "ANSWERED" => phase[c] = "parse" /\ row.run = {c}
  PROVE  EndsWith(c, row, ok)
<1>1. delta' = IF c.lane = "REAL_SHINE"
               THEN [delta EXCEPT ![c.case] =
                       [p \in Billable |-> CounterDelta(before'[p], count'[p])]]
               ELSE delta
  BY DEF Finish, Charge, Billable
<1> QED
  BY <1>1 DEF EndsWith, Finish

LEMMA PlanIsStep ==
  ASSUME NEW c \in DOMAIN phase, PlanReturns(c)
  PROVE  CallStep(c)
<1>1. pc \in Lanes /\ Frame /\ phase[c] = "plan" /\ UNCHANGED <<runs, before>>
  BY DEF PlanReturns, Lanes, Frame, clientVars, resultVars
<1>2. PICK ok \in BOOLEAN : count' = Called(Ended(count, c, "plan", ok), c, After(c, "plan"))
  BY DEF PlanReturns
<1>3. Proceed(c, After(c, "plan"))
  BY DEF PlanReturns
<1>4. MovesTo(c, After(c, "plan"), ok)
  BY <1>1, <1>2, <1>3 DEF MovesTo, Proceed
<1> QED
  BY <1>1, <1>4 DEF CallStep

LEMMA RerankIsStep ==
  ASSUME NEW c \in DOMAIN phase, RerankReturns(c)
  PROVE  CallStep(c)
<1>1. pc \in Lanes /\ Frame /\ phase[c] = "rerank" /\ UNCHANGED <<runs, before>>
  BY DEF RerankReturns, Lanes, Frame, clientVars, resultVars
<1>2. PICK ok \in BOOLEAN :
        count' = Called(Ended(count, c, "rerank", ok), c, After(c, "rerank"))
  BY DEF RerankReturns
<1>3. Proceed(c, After(c, "rerank"))
  BY DEF RerankReturns
<1>4. MovesTo(c, After(c, "rerank"), ok)
  BY <1>1, <1>2, <1>3 DEF MovesTo, Proceed
<1> QED
  BY <1>1, <1>4 DEF CallStep

LEMMA EmbedIsStep ==
  ASSUME NEW c \in DOMAIN phase, EmbedReturns(c)
  PROVE  CallStep(c)
<1>1. pc \in Lanes /\ Frame /\ phase[c] = "embed" /\ UNCHANGED <<runs, before>>
  BY DEF EmbedReturns, Lanes, Frame, clientVars, resultVars
<1>2. PICK ok \in BOOLEAN, p \in {After(c, "embed"), "empty"} :
        count' = Called(Ended(count, c, "embed", ok), c, p) /\ Proceed(c, p)
  BY DEF EmbedReturns
<1>3. MovesTo(c, p, ok)
  BY <1>1, <1>2 DEF MovesTo, Proceed
<1> QED
  BY <1>1, <1>3 DEF CallStep

LEMMA StoreIsStep ==
  ASSUME NEW c \in DOMAIN phase, StoreReturns(c)
  PROVE  CallStep(c)
<1>1. pc \in Lanes /\ Frame /\ phase[c] \in {"store", "empty"} /\ UNCHANGED before
  BY DEF StoreReturns, Lanes, Frame, clientVars, resultVars
<1>2. Ended(count, c, phase[c], TRUE) = count
  BY <1>1 DEF Ended, Counted, Port
<1>3. ASSUME NEW run \in {{}, {c}}, NEW said, said # "ANSWERED", count' = count,
             Finish(c, CallRow(c, said, run, FALSE, ClassOf(c)), count),
             \/ UNCHANGED runs /\ run = {}
             \/ \E cites : runs' = runs \cup {[id |-> c, cites |-> cites]}
      PROVE  CallStep(c)
  <2> DEFINE row == CallRow(c, said, run, FALSE, ClassOf(c))
  <2>1. DOMAIN row = RowFields /\ row.call = c /\ row.present = FALSE /\ row.run = run
        /\ row.outcome = said
    BY DEF CallRow, RowFields
  <2>2. Finish(c, row, Ended(count, c, phase[c], TRUE))
        /\ count' = Ended(count, c, phase[c], TRUE)
    BY <1>2, <1>3
  <2>3. run # {} => \E r \in runs' : r.id = c
    <3>1. \A cites : [id |-> c, cites |-> cites].id = c
      OBVIOUS
    <3> QED BY <1>3, <3>1
  <2>4. UNCHANGED runs \/ StoresRun(c)
    BY <1>1, <1>3 DEF StoresRun
  <2> HIDE DEF row
  <2>5. EndsWith(c, row, TRUE)
    BY <1>1, <1>3, <2>1, <2>2, <2>3, <2>4, FinishEnds
  <2> QED BY <1>1, <2>5 DEF CallStep
<1>4. ASSUME NEW cites, cites # {}, phase[c] = "store",
             runs' = runs \cup {[id |-> c, cites |-> cites]},
             count' = Called(count, c, "answer"), Proceed(c, "answer")
      PROVE  CallStep(c)
  <2>1. MovesTo(c, "answer", TRUE)
    BY <1>1, <1>2, <1>4 DEF MovesTo, Proceed
  <2> QED BY <1>1, <2>1 DEF CallStep
<1>5. CASE /\ count' = count /\ UNCHANGED runs
           /\ Finish(c, CallRow(c, "REFUSAL", {}, FALSE, ClassOf(c)), count)
  BY <1>3, <1>5
<1>6. ASSUME NEW cites \in Storable(c), runs' = runs \cup {[id |-> c, cites |-> cites]},
             \/ /\ count' = count
                /\ Finish(c, CallRow(c, "REFUSAL", {}, FALSE, ClassOf(c)), count)
             \/ /\ count' = count
                /\ LET said == IF cites = {} THEN "CLARIFICATION" ELSE "REFUSAL" IN
                   Finish(c, CallRow(c, said, {c}, FALSE, ClassOf(c)), count)
             \/ cites # {} /\ count' = Called(count, c, "answer") /\ Proceed(c, "answer")
      PROVE  CallStep(c)
  <2>1. \E x : runs' = runs \cup {[id |-> c, cites |-> x]}
    BY <1>6
  <2>2. ASSUME count' = count, Finish(c, CallRow(c, "REFUSAL", {}, FALSE, ClassOf(c)), count)
        PROVE  CallStep(c)
    BY <1>3, <2>1, <2>2
  <2>3. ASSUME count' = count, NEW said \in {"CLARIFICATION", "REFUSAL"},
               Finish(c, CallRow(c, said, {c}, FALSE, ClassOf(c)), count)
        PROVE  CallStep(c)
    BY <1>3, <2>1, <2>3
  <2>4. cites # {} => phase[c] = "store"
    BY <1>1, <1>6 DEF Storable
  <2>5. CASE cites # {} /\ count' = Called(count, c, "answer") /\ Proceed(c, "answer")
    BY <1>4, <1>6, <2>4, <2>5
  <2> QED BY <1>6, <2>2, <2>3, <2>5
<1> QED
  BY <1>5, <1>6 DEF StoreReturns

LEMMA AnswerIsStep ==
  ASSUME NEW c \in DOMAIN phase, AnswerReturns(c)
  PROVE  CallStep(c)
<1>1. pc \in Lanes /\ Frame /\ phase[c] = "answer" /\ UNCHANGED <<before, runs>>
  BY DEF AnswerReturns, Lanes, Frame, clientVars, resultVars
<1>2. PICK got \in {"text", "oversized", "failure"} :
        LET n == Ended(count, c, "answer", got # "failure") IN
        /\ count' = n
        /\ IF got = "text" THEN Proceed(c, "parse")
           ELSE LET class == IF got = "oversized" THEN "RESPONSE_BYTES" ELSE ClassOf(c) IN
                Finish(c, CallRow(c, "REFUSAL", {c}, FALSE, class), n)
  BY DEF AnswerReturns
<1>3. CASE got = "text"
  <2>1. count' = Called(Ended(count, c, phase[c], TRUE), c, "parse")
    BY <1>1, <1>2, <1>3 DEF Ended, Called, Counted, Port
  <2>2. MovesTo(c, "parse", TRUE)
    BY <1>1, <1>2, <1>3, <2>1 DEF MovesTo, Proceed
  <2> QED BY <1>1, <2>2 DEF CallStep
<1>4. ASSUME NEW class, NEW ok \in BOOLEAN,
             Finish(c, CallRow(c, "REFUSAL", {c}, FALSE, class), Ended(count, c, "answer", ok)),
             count' = Ended(count, c, "answer", ok)
      PROVE  CallStep(c)
  <2> DEFINE row == CallRow(c, "REFUSAL", {c}, FALSE, class)
  <2>1. DOMAIN row = RowFields /\ row.call = c /\ row.present = FALSE /\ row.run = {c}
        /\ row.outcome = "REFUSAL"
    BY DEF CallRow, RowFields
  <2>2. Finish(c, row, Ended(count, c, phase[c], ok)) /\ count' = Ended(count, c, phase[c], ok)
    BY <1>1, <1>4
  <2> HIDE DEF row
  <2>3. EndsWith(c, row, ok)
    BY <1>1, <2>1, <2>2, FinishEnds
  <2> QED BY <1>1, <2>3 DEF CallStep
<1>5. CASE got = "oversized"
  <2>1. Ended(count, c, "answer", got # "failure") = Ended(count, c, "answer", TRUE)
    BY <1>5 DEF Ended
  <2>2. /\ Finish(c, CallRow(c, "REFUSAL", {c}, FALSE, "RESPONSE_BYTES"),
                  Ended(count, c, "answer", got # "failure"))
        /\ count' = Ended(count, c, "answer", got # "failure")
    BY <1>2, <1>5
  <2>3. Finish(c, CallRow(c, "REFUSAL", {c}, FALSE, "RESPONSE_BYTES"), Ended(count, c, "answer", TRUE))
    BY <2>1, <2>2
  <2>4. count' = Ended(count, c, "answer", TRUE)
    BY <2>1, <2>2
  <2> QED BY <1>4, <2>3, <2>4
<1>6. CASE got = "failure"
  <2>1. Ended(count, c, "answer", got # "failure") = Ended(count, c, "answer", FALSE)
    BY <1>6 DEF Ended
  <2>2. /\ Finish(c, CallRow(c, "REFUSAL", {c}, FALSE, ClassOf(c)),
                  Ended(count, c, "answer", got # "failure"))
        /\ count' = Ended(count, c, "answer", got # "failure")
    BY <1>2, <1>6
  <2>3. Finish(c, CallRow(c, "REFUSAL", {c}, FALSE, ClassOf(c)), Ended(count, c, "answer", FALSE))
    BY <2>1, <2>2
  <2>4. count' = Ended(count, c, "answer", FALSE)
    BY <2>1, <2>2
  <2> QED BY <1>4, <2>3, <2>4
<1> QED
  BY <1>3, <1>5, <1>6

LEMMA ParseIsStep ==
  ASSUME NEW c \in DOMAIN phase, ParseReturns(c)
  PROVE  CallStep(c)
<1>1. pc \in Lanes /\ Frame /\ phase[c] = "parse" /\ UNCHANGED <<before, runs, count>>
  BY DEF ParseReturns, Lanes, Frame, clientVars, resultVars
<1>2. PICK ok \in BOOLEAN : \E class :
        Finish(c, CallRow(c, IF ok THEN "ANSWERED" ELSE "REFUSAL", {c}, ok, class), count)
  BY DEF ParseReturns
<1>0. PICK class :
        Finish(c, CallRow(c, IF ok THEN "ANSWERED" ELSE "REFUSAL", {c}, ok, class), count)
  BY <1>2
<1>3. Ended(count, c, "parse", TRUE) = count
  BY DEF Ended, Counted, Port
<1> DEFINE row == CallRow(c, IF ok THEN "ANSWERED" ELSE "REFUSAL", {c}, ok, class)
<1>4. DOMAIN row = RowFields /\ row.call = c /\ row.present = FALSE /\ row.run = {c}
  BY DEF CallRow, RowFields
<1>5. Finish(c, row, Ended(count, c, phase[c], TRUE)) /\ count' = Ended(count, c, phase[c], TRUE)
  BY <1>0, <1>1, <1>3
<1> HIDE DEF row
<1>6. EndsWith(c, row, TRUE)
  BY <1>1, <1>4, <1>5, FinishEnds
<1> QED
  BY <1>1, <1>6 DEF CallStep

-------------------------------------------------------------------------------
LEMMA AfterIs ==
  ASSUME NEW c, NEW p \in {"waiting", "plan", "embed", "rerank"}
  PROVE  /\ After(c, p) \in {"plan", "embed", "rerank", "store"}
         /\ After(c, p) = "plan" <=> p = "waiting" /\ Meets(c, "plan")
  BY DEF After

LEMMA CallsApart ==
  /\ \A i : \A c \in MechanicalCalls(i) : c.lane = "MECHANICAL" /\ c.level = i /\ c.case \in Case
  /\ \A c \in RealCalls : c.lane = "REAL_SHINE" /\ c.case \in Case
  /\ \A c, d \in RealCalls : c.case = d.case => c = d
  BY DEF MechanicalCalls, RealCalls

\* A call on its way has no row.
LEMMA NoRowYet ==
  ASSUME Put, pc \in Lanes, level \in Nat, NEW c \in DOMAIN phase
  PROVE  c \notin CallsOf(AllRows)
<1>1. c \notin CallsOf(gathered) /\ c \notin CallsOf(real)
  BY DEF Put
<1>2. c \notin CallsOf(mechanical)
  <2>1. CASE pc = "mechanical"
    <3>1. c.level = level
      BY <2>1, CallsApart DEF Put, LaneCalls
    <3>2. \A i \in 1 .. (level - 1) : i # level
      OBVIOUS
    <3> QED BY <2>1, <3>1, <3>2, CallsApart DEF Put, LevelsOver
  <2>2. CASE pc = "real"
    BY <2>2, CallsApart DEF Put, LaneCalls
  <2> QED BY <2>1, <2>2 DEF Lanes
<1> QED
  BY <1>1, <1>2 DEF CallsOf, AllRows

LEMMA PutKept ==
  ASSUME Put, pc \in Lanes, NEW c \in DOMAIN phase, CallStep(c)
  PROVE  Put'
<1>1. LaneCalls' = LaneCalls /\ LevelsOver' = LevelsOver /\ Frame
  BY DEF CallStep, Frame, LaneCalls, LevelsOver, Lanes
<1>2. ASSUME NEW p, NEW ok, MovesTo(c, p, ok) PROVE Put'
  <2>1. DOMAIN phase' = DOMAIN phase /\ gathered' = gathered
    BY <1>2 DEF MovesTo
  <2> QED BY <1>1, <2>1 DEF Put, Frame
<1>3. ASSUME NEW row, NEW ok, EndsWith(c, row, ok) PROVE Put'
  <2>1. DOMAIN phase' = DOMAIN phase \ {c} /\ gathered' = gathered \cup {row} /\ row.call = c
    BY <1>3 DEF EndsWith
  <2>2. CallsOf(gathered') = CallsOf(gathered) \cup {c}
    BY <2>1 DEF CallsOf
  <2> QED BY <1>1, <2>1, <2>2 DEF Put, Frame, CallsOf
<1> QED
  BY <1>2, <1>3 DEF CallStep

LEMMA SheetsKept ==
  ASSUME Put, Sheets, pc \in Lanes, level \in Nat, NEW c \in DOMAIN phase, CallStep(c)
  PROVE  Sheets'
<1>1. c \notin CallsOf(AllRows) /\ Frame
  BY NoRowYet DEF CallStep
<1>2. ASSUME NEW p, NEW ok, MovesTo(c, p, ok) PROVE Sheets'
  BY <1>1, <1>2 DEF MovesTo, Sheets, Frame, AllRows
<1>3. ASSUME NEW row, NEW ok, EndsWith(c, row, ok) PROVE Sheets'
  <2>1. AllRows' = AllRows \cup {row} /\ row.call = c /\ DOMAIN row = RowFields
    BY <1>1, <1>3 DEF EndsWith, Frame, AllRows
  <2>2. IsFiniteSet(AllRows')
    BY <2>1, FS_AddElement DEF Sheets
  <2> QED BY <1>1, <2>1, <2>2 DEF Sheets, CallsOf
<1> QED
  BY <1>2, <1>3 DEF CallStep

LEMMA KeptKept ==
  ASSUME Put, Kept, pc \in Lanes, level \in Nat, NEW c \in DOMAIN phase, CallStep(c)
  PROVE  Kept'
<1>1. c \notin CallsOf(AllRows) /\ Frame
  BY NoRowYet DEF CallStep
<1>2. ASSUME runs \subseteq runs' PROVE \A row \in AllRows : OwnRun(row)'
  BY <1>2 DEF Kept, OwnRun
<1>3. phase[c] \notin {"answer", "parse"} => \A r \in runs : r.id # c
  BY <1>1 DEF Kept
<1>4. ASSUME NEW p, NEW ok, MovesTo(c, p, ok) PROVE Kept'
  <2>1. AllRows' = AllRows /\ DOMAIN phase' = DOMAIN phase /\ phase'[c] = p
        /\ \A d \in DOMAIN phase \ {c} : phase'[d] = phase[d]
    BY <1>1, <1>4 DEF MovesTo, Frame, AllRows
  <2>2. CASE phase[c] \in {"waiting", "plan", "embed", "rerank"} /\ p = After(c, phase[c])
             /\ UNCHANGED runs
    <3>1. p \notin {"answer", "parse"}
      BY <2>2, AfterIs
    <3> QED BY <1>2, <2>1, <2>2, <3>1 DEF Kept, CallsOf
  <2>3. CASE phase[c] = "store" /\ p = "answer"
             /\ \E cites : cites # {} /\ runs' = runs \cup {[id |-> c, cites |-> cites]}
    <3>1. PICK cites : cites # {} /\ runs' = runs \cup {[id |-> c, cites |-> cites]}
      BY <2>3
    <3> DEFINE new == [id |-> c, cites |-> cites]
    <3>2. runs' = runs \cup {new} /\ new.id = c /\ new.cites # {}
      BY <3>1
    <3> HIDE DEF new
    <3>3. \A r, s \in runs' : r.id = s.id => r = s
      BY <1>3, <2>3, <3>2 DEF Kept
    <3>4. \A r \in runs' : \/ r.id \in CallsOf(AllRows')
                           \/ r.id \in DOMAIN phase' /\ phase'[r.id] \in {"answer", "parse"}
      BY <2>1, <2>3, <3>2 DEF Kept, CallsOf
    <3>5. \A d \in DOMAIN phase' :
            phase'[d] \in {"answer", "parse"} => \E r \in runs' : r.id = d /\ r.cites # {}
      BY <2>1, <3>2 DEF Kept
    <3>6. \A row \in AllRows' : OwnRun(row)'
      BY <1>2, <2>1, <3>2
    <3> QED BY <3>3, <3>4, <3>5, <3>6 DEF Kept, CallsOf, AllRows
  <2>4. CASE \/ phase[c] = "answer" /\ p = "parse" /\ UNCHANGED runs
             \/ phase[c] = "embed" /\ p = "empty" /\ UNCHANGED runs
    BY <1>2, <2>1, <2>4 DEF Kept, CallsOf
  <2> QED BY <1>4, <2>2, <2>3, <2>4 DEF MovesTo
<1>5. ASSUME NEW row, NEW ok, EndsWith(c, row, ok) PROVE Kept'
  <2>1. /\ AllRows' = AllRows \cup {row} /\ row.call = c /\ row.present = FALSE
        /\ DOMAIN phase' = DOMAIN phase \ {c}
        /\ \A d \in DOMAIN phase' : phase'[d] = phase[d]
    BY <1>1, <1>5 DEF EndsWith, Frame, AllRows
  <2>2. /\ runs \subseteq runs'
        /\ \A r \in runs' : r \in runs \/ (r.id = c /\ phase[c] \notin {"answer", "parse"})
    BY <1>5 DEF EndsWith, StoresRun
  <2>3. \A r, s \in runs' : r.id = s.id => r = s
    <3>1. CASE UNCHANGED runs
      BY <3>1 DEF Kept
    <3>2. CASE StoresRun(c)
      <4>1. PICK cites : runs' = runs \cup {[id |-> c, cites |-> cites]}
        BY <3>2 DEF StoresRun
      <4> DEFINE new == [id |-> c, cites |-> cites]
      <4>2. runs' = runs \cup {new} /\ new.id = c
        BY <4>1
      <4> HIDE DEF new
      <4> QED BY <1>3, <3>2, <4>2 DEF Kept, StoresRun
    <3> QED BY <1>5, <3>1, <3>2 DEF EndsWith
  <2>4. \A r \in runs' : \/ r.id \in CallsOf(AllRows')
                         \/ r.id \in DOMAIN phase' /\ phase'[r.id] \in {"answer", "parse"}
    <3>1. c \in CallsOf(AllRows') /\ CallsOf(AllRows) \subseteq CallsOf(AllRows')
      BY <2>1 DEF CallsOf
    <3> QED BY <2>1, <2>2, <3>1 DEF Kept
  <2>5. \A d \in DOMAIN phase' :
          phase'[d] \in {"answer", "parse"} => \E r \in runs' : r.id = d /\ r.cites # {}
    BY <2>1, <2>2 DEF Kept
  <2>6. OwnRun(row)'
    <3>1. row.run \in {{}, {c}} /\ (row.outcome = "ANSWERED" => phase[c] = "parse" /\ row.run = {c})
          /\ (row.run # {} => phase[c] \in {"answer", "parse"} \/ \E r \in runs' : r.id = c)
      BY <1>5 DEF EndsWith
    <3>2. phase[c] \in {"answer", "parse"} => \E r \in runs' : r.id = c /\ r.cites # {}
      BY <2>2 DEF Kept
    <3> QED BY <2>1, <3>1, <3>2 DEF OwnRun
  <2>7. \A x \in AllRows' : OwnRun(x)'
    BY <1>2, <2>1, <2>2, <2>6
  <2> QED BY <2>3, <2>4, <2>5, <2>7 DEF Kept, CallsOf, AllRows
<1> QED
  BY <1>4, <1>5 DEF CallStep

-------------------------------------------------------------------------------
\* A call that ends, and one that is called, move the counters as they move the calls.
LEMMA EndedBalances ==
  ASSUME Counts, NEW c \in DOMAIN phase, NEW ok \in BOOLEAN
  PROVE  /\ Ended(count, c, phase[c], ok) \in [Port -> Tally]
         /\ \A p \in Port :
              /\ Ended(count, c, phase[c], ok)[p].calls = count[p].calls
              /\ IsFiniteSet(AtPort(p) \ {c}) /\ Cardinality(AtPort(p) \ {c}) \in Nat
              /\ count[p].calls = Ended(count, c, phase[c], ok)[p].successes
                                  + Ended(count, c, phase[c], ok)[p].failures
                                  + Cardinality(AtPort(p) \ {c})
<1> DEFINE q == phase[c]
           n == Ended(count, c, q, ok)
<1>1. \A p \in Port : /\ IsFiniteSet(AtPort(p)) /\ Cardinality(AtPort(p)) \in Nat
                      /\ IsFiniteSet(AtPort(p) \ {c}) /\ Cardinality(AtPort(p) \ {c}) \in Nat
                      /\ Cardinality(AtPort(p) \ {c})
                           = IF c \in AtPort(p) THEN Cardinality(AtPort(p)) - 1
                             ELSE Cardinality(AtPort(p))
  <2> SUFFICES ASSUME NEW p \in Port
               PROVE  /\ IsFiniteSet(AtPort(p)) /\ Cardinality(AtPort(p)) \in Nat
                      /\ IsFiniteSet(AtPort(p) \ {c}) /\ Cardinality(AtPort(p) \ {c}) \in Nat
                      /\ Cardinality(AtPort(p) \ {c})
                           = IF c \in AtPort(p) THEN Cardinality(AtPort(p)) - 1
                             ELSE Cardinality(AtPort(p))
    OBVIOUS
  <2>1. IsFiniteSet(AtPort(p))
    BY DEF Counts
  <2>2. IsFiniteSet(AtPort(p) \ {c})
    BY <2>1, FS_Subset
  <2>3. c \in AtPort(p) => Cardinality(AtPort(p) \ {c}) = Cardinality(AtPort(p)) - 1
    BY <2>1, FS_RemoveElement
  <2>4. c \notin AtPort(p) => AtPort(p) \ {c} = AtPort(p)
    OBVIOUS
  <2> QED BY <2>1, <2>2, <2>3, <2>4, FS_CardinalityType
<1>2. count \in [Port -> Tally] /\ \A p \in Port : c \in AtPort(p) <=> p = q /\ Counted(c, q)
  BY DEF Counts, AtPort
<1>3. Counted(c, q) => q \in Port
  BY DEF Counted, Port
<1>4. CASE ~Counted(c, q)
  <2>1. n = count
    BY <1>4 DEF Ended
  <2> QED BY <1>1, <1>2, <1>4, <2>1 DEF Counts, Tally
<1>5. CASE Counted(c, q) /\ ok
  <2>1. n = [count EXCEPT ![q].successes = @ + 1]
    BY <1>5 DEF Ended
  <2>2. count[q] \in Tally /\ [count[q] EXCEPT !.successes = @ + 1] \in Tally
    BY <1>2, <1>3, <1>5 DEF Tally
  <2>3. n \in [Port -> Tally] /\ \A p \in Port \ {q} : n[p] = count[p]
    BY <1>2, <1>3, <1>5, <2>2, <2>1
  <2> DEFINE e == [count[q] EXCEPT !.successes = @ + 1]
  <2>4. n[q] = e
    BY <1>2, <1>3, <1>5, <2>1
  <2>5. e.calls = count[q].calls /\ e.successes = count[q].successes + 1
        /\ e.failures = count[q].failures
    BY <2>2 DEF Tally
  <2> HIDE DEF e
  <2>6. n[q].calls = count[q].calls /\ n[q].successes = count[q].successes + 1
        /\ n[q].failures = count[q].failures
    BY <2>4, <2>5
  <2> HIDE DEF n
  <2>7. \A p \in Port : count[p].calls \in Nat /\ count[p].successes \in Nat
                        /\ count[p].failures \in Nat
    BY <1>2 DEF Tally
  <2>8. ASSUME NEW p \in Port
        PROVE  /\ n[p].calls = count[p].calls
               /\ count[p].calls = n[p].successes + n[p].failures + Cardinality(AtPort(p) \ {c})
    <3>0. count[p].calls = count[p].successes + count[p].failures + Cardinality(AtPort(p))
      BY DEF Counts
    <3>1. CASE p = q
      <4>1. c \in AtPort(p)
        BY <1>2, <1>5, <3>1
      <4>2. Cardinality(AtPort(p) \ {c}) = Cardinality(AtPort(p)) - 1
            /\ Cardinality(AtPort(p)) \in Nat
        BY <1>1, <4>1
      <4> HIDE DEF q
      <4> QED BY <2>6, <2>7, <3>0, <3>1, <4>2
    <3>2. CASE p # q
      <4>1. Cardinality(AtPort(p) \ {c}) = Cardinality(AtPort(p))
        BY <1>1, <1>2, <3>2
      <4>2. n[p] = count[p]
        BY <2>3, <3>2
      <4> QED BY <3>0, <4>1, <4>2
    <3> QED BY <3>1, <3>2
  <2> QED BY <1>1, <2>3, <2>8 DEF n
<1>6. CASE Counted(c, q) /\ ~ok
  <2>1. n = [count EXCEPT ![q].failures = @ + 1]
    BY <1>6 DEF Ended
  <2>2. count[q] \in Tally /\ [count[q] EXCEPT !.failures = @ + 1] \in Tally
    BY <1>2, <1>3, <1>6 DEF Tally
  <2>3. n \in [Port -> Tally] /\ \A p \in Port \ {q} : n[p] = count[p]
    BY <1>2, <1>3, <1>6, <2>2, <2>1
  <2> DEFINE e == [count[q] EXCEPT !.failures = @ + 1]
  <2>4. n[q] = e
    BY <1>2, <1>3, <1>6, <2>1
  <2>5. e.calls = count[q].calls /\ e.successes = count[q].successes
        /\ e.failures = count[q].failures + 1
    BY <2>2 DEF Tally
  <2> HIDE DEF e
  <2>6. n[q].calls = count[q].calls /\ n[q].successes = count[q].successes
        /\ n[q].failures = count[q].failures + 1
    BY <2>4, <2>5
  <2> HIDE DEF n
  <2>7. \A p \in Port : count[p].calls \in Nat /\ count[p].successes \in Nat
                        /\ count[p].failures \in Nat
    BY <1>2 DEF Tally
  <2>8. ASSUME NEW p \in Port
        PROVE  /\ n[p].calls = count[p].calls
               /\ count[p].calls = n[p].successes + n[p].failures + Cardinality(AtPort(p) \ {c})
    <3>0. count[p].calls = count[p].successes + count[p].failures + Cardinality(AtPort(p))
      BY DEF Counts
    <3>1. CASE p = q
      <4>1. c \in AtPort(p)
        BY <1>2, <1>6, <3>1
      <4>2. Cardinality(AtPort(p) \ {c}) = Cardinality(AtPort(p)) - 1
            /\ Cardinality(AtPort(p)) \in Nat
        BY <1>1, <4>1
      <4> HIDE DEF q
      <4> QED BY <2>6, <2>7, <3>0, <3>1, <4>2
    <3>2. CASE p # q
      <4>1. Cardinality(AtPort(p) \ {c}) = Cardinality(AtPort(p))
        BY <1>1, <1>2, <3>2
      <4>2. n[p] = count[p]
        BY <2>3, <3>2
      <4> QED BY <3>0, <4>1, <4>2
    <3> QED BY <3>1, <3>2
  <2> QED BY <1>1, <2>3, <2>8 DEF n
<1> QED
  BY <1>4, <1>5, <1>6

LEMMA CalledBalances ==
  ASSUME NEW n \in [Port -> Tally], NEW c, NEW q
  PROVE  /\ Called(n, c, q) \in [Port -> Tally]
         /\ \A p \in Port :
              /\ Called(n, c, q)[p].successes = n[p].successes
              /\ Called(n, c, q)[p].failures = n[p].failures
              /\ Called(n, c, q)[p].calls
                   = IF p = q /\ Counted(c, q) THEN n[p].calls + 1 ELSE n[p].calls
<1>1. Counted(c, q) => q \in Port
  BY DEF Counted, Port
<1>2. CASE ~Counted(c, q)
  BY <1>2 DEF Called
<1>3. CASE Counted(c, q)
  <2> DEFINE m == [n EXCEPT ![q].calls = @ + 1]
  <2>1. Called(n, c, q) = m
    BY <1>3 DEF Called
  <2>2. m \in [Port -> Tally] /\ \A p \in Port \ {q} : m[p] = n[p]
    BY <1>1, <1>3 DEF Tally
  <2>3. m[q].calls = n[q].calls + 1 /\ m[q].successes = n[q].successes
        /\ m[q].failures = n[q].failures
    BY <1>1, <1>3 DEF Tally
  <2> HIDE DEF m
  <2> QED BY <1>3, <2>1, <2>2, <2>3
<1> QED
  BY <1>2, <1>3

LEMMA CountsKept ==
  ASSUME Counts, NEW c \in DOMAIN phase, CallStep(c)
  PROVE  Counts'
<1>1. ASSUME NEW p, NEW ok \in BOOLEAN, MovesTo(c, p, ok) PROVE Counts'
  <2> DEFINE n == Ended(count, c, phase[c], ok)
  <2>1. count' = Called(n, c, p) /\ phase' = [phase EXCEPT ![c] = p]
    BY <1>1 DEF MovesTo
  <2>2. /\ n \in [Port -> Tally]
        /\ \A r \in Port :
             /\ IsFiniteSet(AtPort(r) \ {c}) /\ Cardinality(AtPort(r) \ {c}) \in Nat
             /\ n[r].calls = n[r].successes + n[r].failures + Cardinality(AtPort(r) \ {c})
    BY EndedBalances
  <2> HIDE DEF n
  <2>3. count' \in [Port -> Tally]
    BY <2>1, <2>2, CalledBalances
  <2>4. ASSUME NEW r \in Port
        PROVE  /\ IsFiniteSet(AtPort(r)')
               /\ count'[r].calls = count'[r].successes + count'[r].failures
                                    + Cardinality(AtPort(r)')
    <3>1. /\ count'[r].successes = n[r].successes /\ count'[r].failures = n[r].failures
          /\ count'[r].calls = IF r = p /\ Counted(c, p) THEN n[r].calls + 1 ELSE n[r].calls
      BY <2>1, <2>2, CalledBalances
    <3>2. n[r].calls \in Nat /\ n[r].successes \in Nat /\ n[r].failures \in Nat
      BY <2>2 DEF Tally
    <3>3. AtPort(r)' = (AtPort(r) \ {c}) \cup (IF r = p /\ Counted(c, p) THEN {c} ELSE {})
      BY <2>1 DEF AtPort
    <3>4. CASE r = p /\ Counted(c, p)
      <4>1. AtPort(r)' = (AtPort(r) \ {c}) \cup {c}
        BY <3>3, <3>4
      <4>2. IsFiniteSet(AtPort(r)') /\ Cardinality(AtPort(r)') = Cardinality(AtPort(r) \ {c}) + 1
        BY <2>2, <4>1, FS_AddElement
      <4> QED BY <2>2, <3>1, <3>2, <3>4, <4>2
    <3>5. CASE ~(r = p /\ Counted(c, p))
      <4>1. AtPort(r)' = AtPort(r) \ {c}
        BY <3>3, <3>5
      <4> QED BY <2>2, <3>1, <3>2, <3>5, <4>1
    <3> QED BY <3>4, <3>5
  <2> QED BY <2>3, <2>4 DEF Counts
<1>2. ASSUME NEW row, NEW ok \in BOOLEAN, EndsWith(c, row, ok) PROVE Counts'
  <2> DEFINE n == Ended(count, c, phase[c], ok)
  <2>1. count' = n /\ phase' = [d \in DOMAIN phase \ {c} |-> phase[d]]
    BY <1>2 DEF EndsWith
  <2>2. /\ n \in [Port -> Tally]
        /\ \A r \in Port :
             /\ IsFiniteSet(AtPort(r) \ {c})
             /\ n[r].calls = n[r].successes + n[r].failures + Cardinality(AtPort(r) \ {c})
    BY EndedBalances
  <2> HIDE DEF n
  <2>3. \A r \in Port : AtPort(r)' = AtPort(r) \ {c}
    BY <2>1 DEF AtPort
  <2> QED BY <2>1, <2>2, <2>3 DEF Counts
<1> QED
  BY <1>1, <1>2 DEF CallStep

\* Only a call that is put to a port counts there as a call.
LEMMA CallsMove ==
  ASSUME Counts, NEW c \in DOMAIN phase, NEW ok \in BOOLEAN, NEW r \in Port
  PROVE  /\ \A p : MovesTo(c, p, ok) =>
                     count'[r].calls = IF r = p /\ Counted(c, p) THEN count[r].calls + 1
                                       ELSE count[r].calls
         /\ \A row : EndsWith(c, row, ok) => count'[r].calls = count[r].calls
<1> DEFINE n == Ended(count, c, phase[c], ok)
<1>1. n \in [Port -> Tally] /\ n[r].calls = count[r].calls
  BY EndedBalances
<1> HIDE DEF n
<1>2. ASSUME NEW p, MovesTo(c, p, ok)
      PROVE  count'[r].calls = IF r = p /\ Counted(c, p) THEN count[r].calls + 1
                               ELSE count[r].calls
  <2>1. count' = Called(n, c, p)
    BY <1>2 DEF MovesTo, n
  <2> QED BY <1>1, <2>1, CalledBalances
<1>3. ASSUME NEW row, EndsWith(c, row, ok) PROVE count'[r].calls = count[r].calls
  BY <1>1, <1>3 DEF EndsWith, n
<1> QED
  BY <1>2, <1>3

\* In the mechanical lane nothing is counted for the planner or the answers.
LEMMA ChargedMechanically ==
  ASSUME Put, Counts, Charged, pc = "mechanical", NEW c \in DOMAIN phase, CallStep(c), Counts'
  PROVE  Charged'
<1>1. Frame /\ c.lane = "MECHANICAL"
  BY CallsApart DEF CallStep, Put, LaneCalls
<1>2. \A p \in Billable : p \in Port /\ ~Counted(c, p)
  BY <1>1 DEF Counted, Billable, Port
<1>3. before' = before
  <2>1. Snapshot(c, count) = before
    BY <1>1 DEF Snapshot
  <2> QED BY <2>1 DEF CallStep, MovesTo, EndsWith
<1>4. delta' = delta
  BY <1>1 DEF CallStep, MovesTo, EndsWith
<1>5. \A p \in Billable : count'[p].calls = count[p].calls
  BY <1>2, CallsMove DEF CallStep
<1>6. \A p \in Billable : Billed(p)' = Billed(p)
  BY <1>4 DEF Billed
<1> QED
  BY <1>1, <1>3, <1>4, <1>5, <1>6 DEF Charged, Frame, Lanes

\* In the real one a call that starts is alone.
LEMMA AloneInReal ==
  ASSUME Charged, pc = "real", NEW c \in DOMAIN phase, phase[c] = "waiting" => MayStart(c)
  PROVE  Running = IF phase[c] = "waiting" THEN {} ELSE {c}
<1>1. \A a, b \in Running : a = b
  BY DEF Charged
<1>2. CASE phase[c] = "waiting"
  <2>1. Cardinality(Running) < 1
    BY <1>2 DEF MayStart
  <2>2. ASSUME NEW a \in Running PROVE FALSE
    <3>1. Running = {a}
      BY <1>1, <2>2
    <3> QED BY <2>1, <3>1, FS_Singleton
  <2> QED BY <1>2, <2>2
<1>3. CASE phase[c] # "waiting"
  BY <1>1, <1>3 DEF Running
<1> QED
  BY <1>2, <1>3

LEMMA ChargedMoving ==
  ASSUME Put, Counts, Charged, pc = "real", NEW c \in DOMAIN phase, Frame,
         phase[c] = "waiting" => MayStart(c), Counts',
         NEW p, NEW ok \in BOOLEAN, MovesTo(c, p, ok)
  PROVE  Charged'
<1>1. c.lane = "REAL_SHINE" /\ Running = IF phase[c] = "waiting" THEN {} ELSE {c}
  BY CallsApart, AloneInReal DEF Put, LaneCalls
<1>2. /\ DOMAIN phase' = DOMAIN phase /\ phase'[c] = p /\ p # "waiting"
      /\ \A d \in DOMAIN phase \ {c} : phase'[d] = phase[d]
  BY AfterIs DEF MovesTo
<1>3. Running' = {c}
  BY <1>1, <1>2 DEF Running
<1>4. delta' = delta /\ \A r \in Billable : Billed(r)' = Billed(r)
  BY DEF MovesTo, Billed
<1>5. /\ before' \in [Billable -> Tally]
      /\ \A r \in Billable : before'[r] = IF phase[c] = "waiting" THEN count[r] ELSE before[r]
  <2>1. \A r \in Billable : r \in Port
    BY DEF Billable, Port
  <2>2. count \in [Port -> Tally] /\ before \in [Billable -> Tally]
    BY DEF Counts, Charged
  <2>3. Snapshot(c, count) = [r \in Billable |-> count[r]]
    BY <1>1 DEF Snapshot, Billable
  <2>4. before' = IF phase[c] = "waiting" THEN [r \in Billable |-> count[r]] ELSE before
    BY <2>3 DEF MovesTo
  <2> QED BY <2>1, <2>2, <2>4
<1>6. ASSUME NEW r \in Billable
      PROVE  /\ before'[r].calls = Cardinality(Billed(r))
             /\ count'[r].calls = before'[r].calls + OwedBy(c, r)'
  <2>1. r \in Port /\ Counted(c, r) /\ Meets(c, "plan")' = Meets(c, "plan")
    BY <1>1 DEF Counted, Billable, Port, Meets, Frame
  <2>2. count'[r].calls = IF r = p THEN count[r].calls + 1 ELSE count[r].calls
    BY <2>1, CallsMove
  <2>3. count[r].calls \in Nat /\ before[r].calls \in Nat
    BY <2>1 DEF Counts, Charged, Tally
  <2>4. /\ before'[r].calls = Cardinality(Billed(r))
        /\ count[r].calls = before'[r].calls
                            + (IF phase[c] = "waiting" THEN 0 ELSE OwedBy(c, r))
    BY <1>1, <1>5, <2>3 DEF Charged
  <2>5. before'[r].calls \in Nat
    BY <1>5 DEF Tally
  <2>6. CASE r = "plan"
    <3>1. p = "plan" <=> phase[c] = "waiting" /\ Meets(c, "plan")
      BY AfterIs DEF MovesTo
    <3>2. /\ OwedBy(c, r) = (IF Meets(c, "plan") THEN 1 ELSE 0)
          /\ OwedBy(c, r)' = (IF Meets(c, "plan") THEN 1 ELSE 0)
      BY <2>1, <2>6 DEF OwedBy
    <3> QED BY <2>2, <2>3, <2>4, <2>5, <2>6, <3>1, <3>2
  <2>7. CASE r = "answer"
    <3>1. /\ OwedBy(c, r) = (IF phase[c] \in {"answer", "parse"} THEN 1 ELSE 0)
          /\ OwedBy(c, r)' = (IF p \in {"answer", "parse"} THEN 1 ELSE 0)
      BY <1>2, <2>7 DEF OwedBy
    <3>2. \/ phase[c] \notin {"answer", "parse"} /\ p \notin {"answer", "parse"}
          \/ phase[c] = "store" /\ p = "answer"
          \/ phase[c] = "answer" /\ p = "parse"
      BY AfterIs DEF MovesTo
    <3> QED BY <2>2, <2>3, <2>4, <2>5, <2>7, <3>1, <3>2
  <2> QED BY <2>6, <2>7 DEF Billable
<1> QED
  BY <1>2, <1>3, <1>4, <1>5, <1>6 DEF Charged, Frame, Lanes

LEMMA ChargedEnding ==
  ASSUME Put, Counts, Charged, pc = "real", NEW c \in DOMAIN phase, Frame,
         phase[c] = "waiting" => MayStart(c), Counts',
         NEW row, NEW ok \in BOOLEAN, EndsWith(c, row, ok)
  PROVE  Charged'
<1>1. /\ c.lane = "REAL_SHINE" /\ c.case \in Case
      /\ \A d \in DOMAIN phase \ {c} : d.case # c.case
      /\ Running = IF phase[c] = "waiting" THEN {} ELSE {c}
  BY CallsApart, AloneInReal DEF Put, LaneCalls
<1>2. /\ DOMAIN phase' = DOMAIN phase \ {c}
      /\ \A d \in DOMAIN phase' : phase'[d] = phase[d]
  BY DEF EndsWith
<1>3. Running' = {}
  BY <1>1, <1>2 DEF Running
<1>4. /\ before' \in [Billable -> Tally]
      /\ \A r \in Billable : before'[r] = IF phase[c] = "waiting" THEN count[r] ELSE before[r]
  <2>1. \A r \in Billable : r \in Port
    BY DEF Billable, Port
  <2>2. count \in [Port -> Tally] /\ before \in [Billable -> Tally]
    BY DEF Counts, Charged
  <2>3. Snapshot(c, count) = [r \in Billable |-> count[r]]
    BY <1>1 DEF Snapshot, Billable
  <2>4. before' = IF phase[c] = "waiting" THEN [r \in Billable |-> count[r]] ELSE before
    BY <2>3 DEF EndsWith
  <2> QED BY <2>1, <2>2, <2>4
<1> DEFINE bill == [r \in Billable |-> CounterDelta(before'[r], count'[r])]
<1>5. delta' = [delta EXCEPT ![c.case] = bill]
  BY <1>1 DEF EndsWith
<1>6. bill \in [Billable -> Bill]
      /\ \A r \in Billable : bill[r].calls = count'[r].calls - before'[r].calls
  <2>1. ASSUME NEW r \in Billable
        PROVE  /\ CounterDelta(before'[r], count'[r]) \in Bill
               /\ CounterDelta(before'[r], count'[r]).calls = count'[r].calls - before'[r].calls
    <3>1. before'[r] \in Tally /\ count'[r] \in Tally
      BY <1>4 DEF Counts, Billable, Port
    <3> QED BY <3>1 DEF CounterDelta, Tally, Bill
  <2> QED BY <2>1
<1> HIDE DEF bill
<1>7. /\ delta' \in [Case -> [Billable -> Bill]] /\ delta'[c.case] = bill
      /\ \A case \in Case \ {c.case} : delta'[case] = delta[case]
  BY <1>1, <1>5, <1>6 DEF Charged
<1>8. ASSUME NEW r \in Billable
      PROVE  /\ IsFiniteSet(Billed(r)') /\ count'[r].calls = Cardinality(Billed(r)')
  <2>1. r \in Port /\ count'[r].calls = count[r].calls
    BY CallsMove DEF Billable, Port
  <2>2. count[r].calls \in Nat /\ before[r].calls \in Nat
    BY <2>1 DEF Counts, Charged, Tally
  <2>3. IsFiniteSet(Billed(r)) /\ Cardinality(Billed(r)) \in Nat /\ c.case \notin Billed(r)
    <3>1. IsFiniteSet(Billed(r)) /\ delta[c.case][r].calls = 0
      BY DEF Charged
    <3>2. Cardinality(Billed(r)) \in Nat
      BY <3>1, FS_CardinalityType
    <3>3. c.case \notin Billed(r)
      BY <3>1 DEF Billed
    <3> QED BY <3>1, <3>2, <3>3
  <2>4. /\ before'[r].calls = Cardinality(Billed(r))
        /\ count[r].calls = before'[r].calls
                            + (IF phase[c] = "waiting" THEN 0 ELSE OwedBy(c, r))
    BY <1>1, <1>4, <2>2 DEF Charged
  <2>5. OwedBy(c, r) \in {0, 1}
    BY DEF OwedBy
  <2>6. Billed(r)' = IF bill[r].calls = 1 THEN Billed(r) \cup {c.case} ELSE Billed(r)
    BY <1>1, <1>7, <2>3 DEF Billed
  <2>7. CASE bill[r].calls = 1
    <3>1. IsFiniteSet(Billed(r)') /\ Cardinality(Billed(r)') = Cardinality(Billed(r)) + 1
      BY <2>3, <2>6, <2>7, FS_AddElement
    <3> QED BY <1>6, <2>1, <2>2, <2>3, <2>4, <2>5, <2>7, <3>1
  <2>8. CASE bill[r].calls # 1
    BY <1>6, <2>1, <2>2, <2>3, <2>4, <2>5, <2>6, <2>8
  <2> QED BY <2>7, <2>8
<1>9. \A r \in Billable : \A d \in DOMAIN phase' : delta'[d.case][r].calls = 0
  <2>1. \A d \in DOMAIN phase' : d \in DOMAIN phase /\ d.case \in Case \ {c.case}
    BY <1>1, <1>2, CallsApart DEF Put, LaneCalls
  <2> QED BY <1>7, <2>1 DEF Charged
<1> QED
  BY <1>3, <1>4, <1>7, <1>8, <1>9 DEF Charged, Frame, Lanes

LEMMA ChargedKept ==
  ASSUME Put, Counts, Charged, pc \in Lanes, NEW c \in DOMAIN phase, CallStep(c)
  PROVE  Charged'
<1>1. Counts'
  BY CountsKept
<1>2. CASE pc = "mechanical"
  BY <1>1, <1>2, ChargedMechanically
<1>3. CASE pc = "real"
  <2>1. Frame /\ (phase[c] = "waiting" => MayStart(c))
    BY DEF CallStep
  <2>2. ASSUME NEW ok \in BOOLEAN, NEW p, MovesTo(c, p, ok) PROVE Charged'
    BY <1>1, <1>3, <2>1, <2>2, ChargedMoving
  <2>3. ASSUME NEW ok \in BOOLEAN, NEW row, EndsWith(c, row, ok) PROVE Charged'
    BY <1>1, <1>3, <2>1, <2>3, ChargedEnding
  <2> QED BY <2>2, <2>3 DEF CallStep
<1> QED
  BY <1>2, <1>3 DEF Lanes

-------------------------------------------------------------------------------
\* The steps around the lanes
LEMMA LevelIsNat ==
  ASSUME ReportInv
  PROVE  /\ level \in Nat \ {0} /\ level <= Len(args.levels) /\ Len(args.levels) \in Nat \ {0}
         /\ DOMAIN args.levels = 1 .. Len(args.levels)
         /\ args.skipReal \in BOOLEAN
<1>1. /\ args \in Arguments /\ level \in DOMAIN args.levels
      /\ args.levels \in Seq(Nat \ {0}) /\ args.levels # <<>> /\ args.skipReal \in BOOLEAN
  BY StressAssumption DEF ReportInv
<1>2. Len(args.levels) \in Nat /\ DOMAIN args.levels = 1 .. Len(args.levels)
  BY <1>1
<1> QED
  BY <1>1, <1>2

LEMMA InLanesFine ==
  ASSUME ReportInv, pc \in Lanes
  PROVE  /\ Put /\ Sheets /\ Counts /\ Charged /\ Kept
         /\ exit = "running" /\ infrastructure = "COMPLETED"
  BY DEF ReportInv, Lanes, Working, Fine

LEMMA CallKeeps ==
  ASSUME ReportInv, NEW c \in DOMAIN phase, CallStep(c)
  PROVE  ReportInv'
<1>1. pc \in Lanes /\ Frame /\ level \in Nat
  BY LevelIsNat DEF CallStep
<1>2. Put /\ Sheets /\ Counts /\ Charged /\ Kept /\ exit = "running"
      /\ infrastructure = "COMPLETED"
  BY <1>1, InLanesFine
<1>3. Put' /\ Sheets' /\ Counts' /\ Charged' /\ Kept'
  BY <1>1, <1>2, PutKept, SheetsKept, CountsKept, ChargedKept, KeptKept
<1> QED
  BY <1>1, <1>2, <1>3 DEF ReportInv, Frame, Lanes, Working, Fine

\* Nobody is at a port when no call has started.
LEMMA NobodyAtPort ==
  ASSUME \A c \in DOMAIN phase : phase[c] = "waiting"
  PROVE  /\ Running = {}
         /\ \A p \in Port : AtPort(p) = {}
  BY DEF Running, AtPort, Port

LEMMA WaitingWaits ==
  ASSUME NEW calls
  PROVE  /\ DOMAIN Waiting(calls) = calls
         /\ \A c \in calls : Waiting(calls)[c] = "waiting"
  BY DEF Waiting

LEMMA ParseKeeps ==
  ASSUME ReportInv, Parse
  PROVE  ReportInv'
<1>1. /\ UNCHANGED <<args, level, phase, gathered, mechanical, real, runs, count, before, delta,
                     coverage, infrastructure, report>>
      /\ pc = "parse" /\ pc' \in {"exited", "setup"} /\ exit' \in {"2", exit}
      /\ pc' = "setup" => exit' = exit
  BY DEF Parse, laneVars, clientVars
<1>2. exit = "running" /\ infrastructure = "COMPLETED" /\ Untouched
  BY <1>1 DEF ReportInv
<1>3. Untouched'
  BY <1>1, <1>2 DEF Untouched
<1> QED
  BY <1>1, <1>2, <1>3 DEF ReportInv, Lanes, Working, Fine

LEMMA NothingYet == DOMAIN <<>> = {} /\ 1 .. 0 = {}
<1>1. <<>> \in Seq({}) /\ Len(<<>>) = 0
  OBVIOUS
<1>2. DOMAIN <<>> = 1 .. 0
  BY <1>1
<1> QED
  BY <1>2

LEMMA SetupKeeps ==
  ASSUME ReportInv, Setup
  PROVE  ReportInv'
<1>1. /\ UNCHANGED <<args, level, gathered, mechanical, real, runs, count, before, delta,
                     coverage, report, exit>>
      /\ pc = "setup"
  BY DEF Setup, clientVars
<1>2. exit = "running" /\ infrastructure = "COMPLETED" /\ Untouched
  BY <1>1 DEF ReportInv
<1>3. CASE pc' \in {"close", "cleanup"} /\ infrastructure' = "FAILED_SAFE" /\ phase' = phase
  BY <1>1, <1>2, <1>3 DEF ReportInv, Lanes, Working, Fine, Untouched
<1>4. CASE pc' = "mechanical" /\ phase' = Waiting(MechanicalCalls(1)) /\ UNCHANGED infrastructure
  <2>1. DOMAIN phase' = MechanicalCalls(1) /\ \A c \in DOMAIN phase' : phase'[c] = "waiting"
    BY <1>4, WaitingWaits
  <2>2. Put'
    <3>1. LaneCalls' = MechanicalCalls(1) /\ LevelsOver' = {}
      BY <1>1, <1>2, <1>4, NothingYet DEF LaneCalls, LevelsOver, Untouched
    <3>2. CallsOf(gathered') = {} /\ CallsOf(mechanical') = {} /\ CallsOf(real') = {}
      BY <1>1, <1>2 DEF CallsOf, Untouched
    <3> QED BY <1>4, <2>1, <3>1, <3>2 DEF Put, CallsOf, Lanes
  <2>3. AllRows' = {}
    BY <1>1, <1>2 DEF AllRows, Untouched
  <2>4. Sheets'
    BY <2>3, FS_EmptySet DEF Sheets
  <2>5. Kept'
    BY <1>1, <1>2, <2>1, <2>3 DEF Kept, Untouched
  <2>6. Running' = {} /\ \A p \in Port : AtPort(p)' = {}
    BY <2>1 DEF Running, AtPort, Port
  <2>7. /\ count' = [p \in Port |-> Zero] /\ before' = [p \in Billable |-> Zero]
        /\ delta' = [case \in Case |-> [p \in Billable |-> Zero]]
    BY <1>1, <1>2 DEF Untouched
  <2>8. Zero \in Tally /\ Zero \in Bill /\ Zero.calls = 0 /\ Zero.successes = 0
        /\ Zero.failures = 0
    BY DEF Zero, Tally, Bill
  <2>9. Counts'
    <3>1. count' \in [Port -> Tally] /\ \A p \in Port : count'[p] = Zero
      BY <2>7, <2>8
    <3>2. ASSUME NEW p \in Port
          PROVE  /\ IsFiniteSet(AtPort(p)')
                 /\ count'[p].calls = count'[p].successes + count'[p].failures
                                      + Cardinality(AtPort(p)')
      <4>1. AtPort(p)' = {} /\ Cardinality({}) = 0 /\ IsFiniteSet({})
        BY <2>6, FS_EmptySet
      <4> QED BY <2>8, <3>1, <4>1
    <3> QED BY <3>1, <3>2 DEF Counts
  <2>10. Charged'
    <3>1. /\ delta' \in [Case -> [Billable -> Bill]] /\ before' \in [Billable -> Tally]
          /\ \A p \in Billable : p \in Port /\ count'[p].calls = 0
          /\ \A p \in Billable : \A case \in Case : delta'[case][p].calls = 0
      BY <2>7, <2>8 DEF Billable, Port
    <3>2. \A p \in Billable : Billed(p)' = {}
      BY <3>1 DEF Billed
    <3> QED BY <1>4, <3>1, <3>2, FS_EmptySet DEF Charged, Lanes
  <2> QED
    BY <1>1, <1>2, <1>4, <2>2, <2>4, <2>5, <2>9, <2>10 DEF ReportInv, Lanes, Working, Fine
<1> QED
  BY <1>1, <1>3, <1>4 DEF Setup, Fails

LEMMA EndLevelKeeps ==
  ASSUME ReportInv, EndLevel
  PROVE  ReportInv'
<1>1. /\ UNCHANGED <<args, real, runs, count, before, delta, coverage, infrastructure, report,
                     exit>>
      /\ pc = "mechanical" /\ phase = <<>> /\ mechanical' = mechanical \cup gathered
      /\ gathered' = {}
  BY DEF EndLevel, clientVars, resultVars
<1>2. Put /\ Sheets /\ Counts /\ Charged /\ Kept /\ exit = "running"
      /\ infrastructure = "COMPLETED"
  BY <1>1, InLanesFine DEF Lanes
<1>3. /\ level \in Nat \ {0} /\ level <= Len(args.levels) /\ Len(args.levels) \in Nat \ {0}
      /\ DOMAIN args.levels = 1 .. Len(args.levels) /\ args.skipReal \in BOOLEAN
  BY LevelIsNat
<1>4. /\ pc' \in {"mechanical", "real", "probe"}
      /\ pc' = "mechanical" => /\ level < Len(args.levels) /\ level' = level + 1
                               /\ phase' = Waiting(MechanicalCalls(level + 1))
      /\ pc' # "mechanical" => level = Len(args.levels) /\ level' = level
      /\ pc' = "real" => phase' = Waiting(RealCalls) /\ ~args.skipReal
      /\ pc' = "probe" => phase' = <<>> /\ args.skipReal
  BY <1>1, <1>3 DEF EndLevel
<1>5. /\ DOMAIN phase = {} /\ \A c \in DOMAIN phase' : phase'[c] = "waiting"
      /\ DOMAIN phase' = LaneCalls'
  BY <1>1, <1>4, NothingYet, WaitingWaits DEF LaneCalls
<1>6. AllRows' = AllRows
  BY <1>1 DEF AllRows
<1>7. Put'
  <2>1. CallsOf(mechanical') = UNION {MechanicalCalls(i) : i \in 1 .. level}
    <3>1. CallsOf(mechanical') = CallsOf(mechanical) \cup CallsOf(gathered)
      BY <1>1 DEF CallsOf
    <3>2. CallsOf(gathered) = MechanicalCalls(level)
          /\ CallsOf(mechanical) = UNION {MechanicalCalls(i) : i \in 1 .. (level - 1)}
      BY <1>1, <1>2, <1>5 DEF Put, LaneCalls, LevelsOver
    <3>3. 1 .. level = (1 .. (level - 1)) \cup {level}
      BY <1>3
    <3> QED BY <3>1, <3>2, <3>3
  <2>2. LevelsOver' = 1 .. level
    BY <1>1, <1>3, <1>4 DEF LevelsOver
  <2>3. CallsOf(gathered') = {} /\ CallsOf(real') = {}
    BY <1>1, <1>2 DEF CallsOf, Put, Lanes
  <2> QED BY <1>1, <1>4, <1>5, <2>1, <2>2, <2>3 DEF Put, CallsOf, Lanes
<1>8. Sheets'
  BY <1>2, <1>6 DEF Sheets
<1>9. Kept'
  <2>1. \A row \in AllRows' : OwnRun(row)'
    BY <1>1, <1>2, <1>6 DEF Kept, OwnRun
  <2> QED BY <1>1, <1>2, <1>5, <1>6, <2>1 DEF Kept, CallsOf
<1>10. Running' = {} /\ \A p \in Port : AtPort(p)' = {} /\ AtPort(p) = {}
  BY <1>5 DEF Running, AtPort, Port
<1>11. Counts'
  BY <1>1, <1>2, <1>10 DEF Counts
<1>12. Charged'
  <2>1. \A p \in Billable : Billed(p) = {} /\ Billed(p)' = Billed(p)
    BY <1>1, <1>2 DEF Charged, Billed
  <2>2. pc' = "real" => \A c \in DOMAIN phase' : c.case \in Case
    BY <1>5, CallsApart DEF LaneCalls
  <2> QED BY <1>1, <1>2, <1>4, <1>10, <2>1, <2>2, FS_EmptySet DEF Charged, Lanes
<1>13. level' \in DOMAIN args'.levels
  BY <1>1, <1>3, <1>4
<1> QED
  BY <1>1, <1>2, <1>4, <1>7, <1>8, <1>9, <1>11, <1>12, <1>13
  DEF ReportInv, Lanes, Working, Fine

LEMMA EndRealKeeps ==
  ASSUME ReportInv, EndReal
  PROVE  ReportInv'
<1>1. /\ UNCHANGED <<args, level, phase, mechanical, runs, count, before, delta, coverage,
                     infrastructure, report, exit>>
      /\ pc = "real" /\ phase = <<>> /\ real' = gathered /\ gathered' = {} /\ pc' = "probe"
  BY DEF EndReal, clientVars, resultVars
<1>2. Put /\ Sheets /\ Counts /\ Charged /\ Kept /\ exit = "running"
      /\ infrastructure = "COMPLETED"
  BY <1>1, InLanesFine DEF Lanes
<1>3. DOMAIN phase = {} /\ ~args.skipReal
  BY <1>1, <1>2, NothingYet DEF Put
<1>4. CallsOf(gathered) = RealCalls /\ CallsOf(real) = {}
  BY <1>1, <1>2, <1>3 DEF Put, LaneCalls, Lanes
<1>5. real = {} /\ AllRows' = AllRows
  BY <1>1, <1>4 DEF AllRows, CallsOf
<1>6. Put'
  <2>1. LaneCalls' = {} /\ LevelsOver' = LevelsOver
    BY <1>1 DEF LaneCalls, LevelsOver
  <2>2. CallsOf(gathered') = {} /\ CallsOf(real') = RealCalls
    BY <1>1, <1>4 DEF CallsOf
  <2> QED BY <1>1, <1>2, <1>3, <2>1, <2>2 DEF Put, CallsOf, Lanes
<1>7. Sheets'
  BY <1>2, <1>5 DEF Sheets
<1>8. Kept'
  <2>1. \A row \in AllRows' : OwnRun(row)'
    BY <1>1, <1>2, <1>5 DEF Kept, OwnRun
  <2> QED BY <1>1, <1>2, <1>3, <1>5, <2>1 DEF Kept, CallsOf
<1>9. Running = {} /\ \A p \in Port : AtPort(p)' = AtPort(p)
  BY <1>1, <1>3 DEF Running, AtPort, Port
<1>10. Counts'
  BY <1>1, <1>2, <1>9 DEF Counts
<1>11. Charged'
  <2>1. \A p \in Billable : Billed(p)' = Billed(p)
    BY <1>1 DEF Billed
  <2> QED BY <1>1, <1>2, <1>3, <1>9, <2>1 DEF Charged, Lanes
<1> QED
  BY <1>1, <1>2, <1>6, <1>7, <1>8, <1>10, <1>11 DEF ReportInv, Lanes, Working, Fine

\* After the lanes the rows and the counters stay as they are.
LEMMA PastLanes ==
  ASSUME UNCHANGED <<args, phase, gathered, mechanical, real, count, before, delta>>,
         pc \notin Lanes, pc' \notin Lanes, Put, Sheets, Counts, Charged
  PROVE  Put' /\ Sheets' /\ Counts' /\ Charged'
<1>1. LaneCalls' = LaneCalls /\ LevelsOver' = LevelsOver
  BY DEF LaneCalls, LevelsOver, Lanes
<1>2. Put'
  BY <1>1 DEF Put, CallsOf, Lanes
<1>3. Sheets'
  BY DEF Sheets, AllRows
<1>4. \A p \in Port : AtPort(p)' = AtPort(p)
  BY DEF AtPort
<1>5. Counts'
  BY <1>4 DEF Counts
<1>6. \A p \in Billable : Billed(p)' = Billed(p)
  BY DEF Billed
<1>7. Charged'
  BY <1>6 DEF Charged, Lanes
<1> QED
  BY <1>2, <1>3, <1>5, <1>7

LEMMA ProbeKeeps ==
  ASSUME ReportInv, Probe
  PROVE  ReportInv'
<1>1. /\ UNCHANGED <<args, level, phase, gathered, mechanical, real, runs, count, before, delta,
                     coverage, report, exit>>
      /\ pc = "probe" /\ \/ pc' = "load" /\ UNCHANGED infrastructure
                         \/ pc' = "cleanup" /\ infrastructure' = "FAILED_SAFE"
  BY DEF Probe, Fails, laneVars, clientVars
<1>2. Put /\ Sheets /\ Counts /\ Charged /\ Kept /\ exit = "running"
      /\ infrastructure = "COMPLETED" /\ phase = <<>>
  BY <1>1 DEF ReportInv, Working, Fine, Lanes
<1>3. Put' /\ Sheets' /\ Counts' /\ Charged'
  BY <1>1, <1>2, PastLanes DEF Lanes
<1>4. Kept'
  BY <1>1, <1>2 DEF Kept, OwnRun, CallsOf, AllRows
<1> QED
  BY <1>1, <1>2, <1>3, <1>4 DEF ReportInv, Lanes, Working, Fine

\* What a row is given when the stored runs are read
Filled(row) ==
  IF \E r \in LoadedRuns : r.id \in row.run
  THEN [row EXCEPT !.present = TRUE,
                   !.cites = (CHOOSE r \in LoadedRuns : r.id \in row.run).cites]
  ELSE row

LEMMA FilledShows ==
  ASSUME Sheets, Kept, NEW row \in Rows
  PROVE  /\ Filled(row).call = row.call /\ DOMAIN Filled(row) = RowFields
         /\ Shown(Filled(row))
<1>1. row \in AllRows /\ DOMAIN row = RowFields /\ OwnRun(row)
  BY DEF Sheets, Kept, AllRows, Rows
<1>2. CASE row.run = {}
  <2>1. Filled(row) = row
    BY <1>2 DEF Filled
  <2> QED BY <1>1, <1>2, <2>1 DEF Shown, OwnRun
<1>3. CASE row.run = {row.call}
  <2>1. PICK r \in runs : r.id = row.call
    BY <1>1, <1>3 DEF OwnRun
  <2>2. r \in LoadedRuns /\ \A x \in LoadedRuns : x.id \in row.run => x = r
    BY <1>3, <2>1 DEF LoadedRuns, Kept
  <2>3. (CHOOSE x \in LoadedRuns : x.id \in row.run) = r
    BY <1>3, <2>1, <2>2
  <2> DEFINE new == [row EXCEPT !.present = TRUE, !.cites = r.cites]
  <2>4. Filled(row) = new
    BY <1>3, <2>1, <2>2, <2>3 DEF Filled
  <2>5. /\ DOMAIN new = RowFields /\ new.call = row.call /\ new.run = row.run
        /\ new.outcome = row.outcome /\ new.present = TRUE /\ new.cites = r.cites
    BY <1>1 DEF RowFields
  <2> HIDE DEF new
  <2>6. row.outcome = "ANSWERED" => r.cites # {}
    BY <1>1, <2>1 DEF OwnRun, Kept
  <2> QED BY <1>3, <2>4, <2>5, <2>6 DEF Shown
<1> QED
  BY <1>1, <1>2, <1>3 DEF OwnRun

LEMMA LoadKeeps ==
  ASSUME ReportInv, Load
  PROVE  ReportInv'
<1>1. /\ UNCHANGED <<args, level, phase, gathered, runs, count, before, delta, coverage,
                     report, exit>>
      /\ pc = "load" /\ pc' \in {"catalog", "cleanup"}
  BY DEF Load, Fails, clientVars
<1>2. Put /\ Sheets /\ Counts /\ Charged /\ Kept /\ exit = "running"
      /\ infrastructure = "COMPLETED" /\ phase = <<>>
  BY <1>1 DEF ReportInv, Working, Fine, Lanes
<1>3. CASE pc' = "cleanup" /\ infrastructure' = "FAILED_SAFE"
  BY <1>1, <1>2, <1>3 DEF ReportInv, Lanes, Working, Fine
<1>4. CASE /\ mechanical' = Applied(mechanical) /\ real' = Applied(real)
           /\ pc' = "catalog" /\ UNCHANGED infrastructure
  <2>1. /\ mechanical' = {Filled(row) : row \in mechanical}
        /\ real' = {Filled(row) : row \in real}
    BY <1>4 DEF Applied, Filled
  <2>2. gathered = {}
    <3>1. LaneCalls = {} /\ CallsOf(gathered) = LaneCalls \ DOMAIN phase
      BY <1>1, <1>2 DEF LaneCalls, Put
    <3> QED BY <3>1 DEF CallsOf
  <2>3. \A row \in Rows : /\ Filled(row).call = row.call /\ DOMAIN Filled(row) = RowFields
                          /\ Shown(Filled(row))
    BY <1>2, FilledShows
  <2>4. AllRows = Rows /\ AllRows' = {Filled(row) : row \in Rows}
    BY <1>1, <2>1, <2>2 DEF AllRows, Rows
  <2>5. CallsOf(mechanical') = CallsOf(mechanical) /\ CallsOf(real') = CallsOf(real)
    BY <2>1, <2>3 DEF CallsOf, Rows
  <2>6. Put'
    <3>1. LaneCalls' = LaneCalls /\ LevelsOver' = LevelsOver
      BY <1>1, <1>4 DEF LaneCalls, LevelsOver
    <3> QED BY <1>1, <1>2, <1>4, <2>5, <3>1 DEF Put, CallsOf, Lanes
  <2>7. Sheets'
    <3> DEFINE f == [row \in Rows |-> Filled(row)]
    <3>1. f \in Surjection(Rows, AllRows')
      BY <2>4 DEF Surjection
    <3>2. IsFiniteSet(AllRows')
      BY <1>2, <2>4, <3>1, FS_Surjection DEF Sheets
    <3>3. \A r, s \in AllRows' : r.call = s.call => r = s
      BY <1>2, <2>3, <2>4 DEF Sheets
    <3>4. \A row \in AllRows' : DOMAIN row = RowFields
      BY <2>3, <2>4
    <3> QED BY <3>2, <3>3, <3>4 DEF Sheets
  <2>8. Counts'
    <3>1. \A p \in Port : AtPort(p)' = AtPort(p)
      BY <1>1 DEF AtPort
    <3> QED BY <1>1, <1>2, <3>1 DEF Counts
  <2>9. Charged'
    <3>1. \A p \in Billable : Billed(p)' = Billed(p)
      BY <1>1 DEF Billed
    <3> QED BY <1>1, <1>2, <1>4, <3>1 DEF Charged, Lanes
  <2>10. \A row \in mechanical' \cup real' : Shown(row)
    BY <2>1, <2>3 DEF Rows
  <2>11. \A row \in mechanical' \cup real' : Shown(row)'
    BY <2>10 DEF Shown
  <2> QED
    BY <1>1, <1>2, <1>4, <2>6, <2>7, <2>8, <2>9, <2>11 DEF ReportInv, Lanes, Working, Fine
<1> QED
  BY <1>1, <1>3, <1>4 DEF Load, Fails

LEMMA CatalogKeeps ==
  ASSUME ReportInv, Catalog
  PROVE  ReportInv'
<1>1. /\ UNCHANGED <<args, level, phase, gathered, mechanical, real, runs, count, before, delta,
                     report, exit>>
      /\ pc = "catalog" /\ pc' = "cleanup"
  BY DEF Catalog, Fails, laneVars, clientVars
<1>2. /\ Put /\ Sheets /\ Counts /\ Charged /\ exit = "running"
      /\ infrastructure = "COMPLETED" /\ phase = <<>>
      /\ \A row \in mechanical \cup real : Shown(row)
  BY <1>1 DEF ReportInv, Working, Fine, Lanes
<1>3. Put' /\ Sheets' /\ Counts' /\ Charged'
  BY <1>1, <1>2, PastLanes DEF Lanes
<1>4. CASE infrastructure' = "FAILED_SAFE"
  BY <1>1, <1>2, <1>4 DEF ReportInv, Lanes, Working, Fine
<1>5. CASE /\ UNCHANGED infrastructure
           /\ \E status \in [Doc -> {"INDEXED", "QUARANTINED"}] : coverage' = ScoreRealCases(status)
  <2>1. PICK status \in [Doc -> {"INDEXED", "QUARANTINED"}] : coverage' = ScoreRealCases(status)
    BY <1>5
  <2>2. ASSUME ~args.skipReal, NEW row \in coverage'
        PROVE  \E r \in real : r.call.lane = "REAL_SHINE" /\ r.call.case = row.case
                               /\ r.cites = row.retrieved
    <3>1. PICK case \in Case :
            row = ScoreCase(case, UNION {x.cites : x \in {r \in real : r.call.case = case}}, status)
      BY <2>1 DEF ScoreRealCases
    <3>2. /\ row.case = case
          /\ row.retrieved = UNION {x.cites : x \in {r \in real : r.call.case = case}}
      BY <3>1 DEF ScoreCase
    <3>3. CallsOf(real) = RealCalls
      BY <1>1, <1>2, <2>2 DEF Put, Lanes
    <3>4. PICK r \in real : r.call.case = case
      <4>1. [lane |-> "REAL_SHINE", level |-> 1, round |-> 1, case |-> case] \in RealCalls
        BY DEF RealCalls
      <4>2. PICK r \in real :
              r.call = [lane |-> "REAL_SHINE", level |-> 1, round |-> 1, case |-> case]
        BY <3>3, <4>1 DEF CallsOf
      <4> QED BY <4>2
    <3>5. r.call.lane = "REAL_SHINE"
      BY <3>3, <3>4, CallsApart DEF CallsOf
    <3>6. {x \in real : x.call.case = case} = {r}
      <4>1. ASSUME NEW x \in real, x.call.case = case PROVE x = r
        <5>1. x.call \in RealCalls /\ r.call \in RealCalls
          BY <3>3 DEF CallsOf
        <5>2. x.call = r.call
          BY <3>4, <4>1, <5>1, CallsApart
        <5> QED BY <1>2, <5>2 DEF Sheets, AllRows
      <4> QED BY <3>4, <4>1
    <3>7. row.retrieved = UNION {x.cites : x \in {r}}
      BY <3>2, <3>6
    <3>8. row.retrieved = r.cites
      BY <3>7
    <3> QED BY <3>2, <3>4, <3>5, <3>8
  <2>3. CoverageShown'
    BY <1>1, <2>2 DEF CoverageShown
  <2>4. \A row \in mechanical' \cup real' : Shown(row)'
    BY <1>1, <1>2 DEF Shown
  <2> QED
    BY <1>1, <1>2, <1>3, <1>5, <2>3, <2>4 DEF ReportInv, Lanes, Working, Fine
<1> QED
  BY <1>1, <1>4, <1>5 DEF Catalog, Fails

LEMMA CleanupKeeps ==
  ASSUME ReportInv, Cleanup
  PROVE  ReportInv'
<1>1. /\ UNCHANGED <<args, level, phase, gathered, mechanical, real, count, before, delta,
                     coverage, infrastructure, report, exit>>
      /\ pc = "cleanup" /\ pc' = "close"
  BY DEF Cleanup, clientVars
<1>2. phase = <<>> /\ exit # "0"
  BY <1>1 DEF ReportInv, Lanes
<1>3. Fine' => Fine
  BY <1>1 DEF Fine
<1>4. Fine' => Put' /\ Sheets' /\ Counts' /\ Charged'
  BY <1>1, <1>3, PastLanes DEF ReportInv, Lanes
<1>5. Fine' => CoverageShown' /\ \A row \in mechanical' \cup real' : Shown(row)'
  BY <1>1, <1>3 DEF ReportInv, CoverageShown, Shown
<1> QED
  BY <1>1, <1>2, <1>4, <1>5 DEF ReportInv, Lanes, Working

LEMMA CloseKeeps ==
  ASSUME ReportInv, Close
  PROVE  ReportInv'
<1>1. /\ UNCHANGED <<args, level, phase, gathered, mechanical, real, runs, count, before, delta,
                     coverage, report>>
      /\ pc = "close" /\ pc' \in {"report", "exited"}
      /\ infrastructure' \in {infrastructure, "FAILED_SAFE"} /\ exit' \in {exit, "2"}
  BY DEF Close, laneVars, clientVars
<1>2. phase = <<>> /\ exit # "0"
  BY <1>1 DEF ReportInv, Lanes
<1>3. Fine' => Fine
  BY <1>1 DEF Fine
<1>4. Fine' => Put' /\ Sheets' /\ Counts' /\ Charged'
  BY <1>1, <1>3, PastLanes DEF ReportInv, Lanes
<1>5. Fine' => CoverageShown' /\ \A row \in mechanical' \cup real' : Shown(row)'
  BY <1>1, <1>3 DEF ReportInv, CoverageShown, Shown
<1> QED
  BY <1>1, <1>2, <1>4, <1>5 DEF ReportInv, Lanes, Working

\* The report of a run that went well: as many rows as calls, for each call has one.
LEMMA WholeReport ==
  ASSUME ReportInv, Fine, pc = "report"
  PROVE  Whole(Report)
<1>1. /\ Put /\ Sheets /\ Counts /\ Charged /\ CoverageShown /\ phase = <<>>
      /\ \A row \in mechanical \cup real : Shown(row)
  BY DEF ReportInv, Lanes
<1>2. Report.rows = Rows /\ Report.coverage = coverage
  BY DEF Report
<1>3. CallsOf(Rows) = AllCalls
  <2> DEFINE asked == UNION {MechanicalCalls(i) : i \in DOMAIN args.levels}
  <2>1. LevelsOver = DOMAIN args.levels /\ pc \notin Lanes
    BY DEF LevelsOver, Lanes
  <2>2. CallsOf(Rows) = CallsOf(mechanical) \cup CallsOf(real)
    BY DEF CallsOf, Rows
  <2>3. CallsOf(mechanical) = asked
    BY <1>1, <2>1 DEF Put
  <2>4. CallsOf(real) = IF args.skipReal THEN {} ELSE RealCalls
    BY <1>1, <2>1 DEF Put
  <2>5. AllCalls = asked \cup (IF args.skipReal THEN {} ELSE RealCalls)
    BY DEF AllCalls
  <2> HIDE DEF asked
  <2> QED BY <2>2, <2>3, <2>4, <2>5
<1>4. IsFiniteSet(Rows)
  BY <1>1, FS_Subset DEF Sheets, AllRows, Rows
<1>5. Cardinality(AllCalls) = Cardinality(Rows)
  <2> DEFINE f == [row \in Rows |-> row.call]
  <2>1. f \in Surjection(Rows, AllCalls)
    BY <1>3 DEF Surjection, CallsOf
  <2>2. f \in Injection(Rows, AllCalls)
    BY <1>1, <2>1 DEF Surjection, Injection, IsInjective, Sheets, AllRows, Rows
  <2> HIDE DEF f
  <2>3. Cardinality(AllCalls) = Cardinality(Rows) <=> f \in Injection(Rows, AllCalls)
    BY <1>4, <2>1, FS_Surjection
  <2> QED BY <2>2, <2>3
<1>6. \A p \in Port : count[p].calls = count[p].successes + count[p].failures
  <2> TAKE p \in Port
  <2>1. AtPort(p) = {}
    BY <1>1, NothingYet DEF AtPort
  <2>2. Cardinality(AtPort(p)) = 0
    BY <2>1, FS_EmptySet
  <2>3. count[p] \in Tally
        /\ count[p].calls = count[p].successes + count[p].failures + Cardinality(AtPort(p))
    BY <1>1 DEF Counts
  <2> QED BY <2>2, <2>3 DEF Tally
<1>7. ~args.skipReal => \A p \in Billable : count[p].calls = Cardinality(Billed(p))
  BY <1>1 DEF Charged, Lanes
<1>8. ~args.skipReal =>
        \A row \in coverage : \E r \in Rows :
          r.call.lane = "REAL_SHINE" /\ r.call.case = row.case /\ r.cites = row.retrieved
  BY <1>1 DEF CoverageShown, Rows
<1> QED
  BY <1>1, <1>2, <1>3, <1>5, <1>6, <1>7, <1>8 DEF Whole, Rows

LEMMA WriteReportKeeps ==
  ASSUME ReportInv, WriteReport
  PROVE  ReportInv'
<1>1. /\ UNCHANGED <<args, level, phase, gathered, mechanical, real, runs, count, before, delta,
                     coverage, infrastructure>>
      /\ pc = "report" /\ pc' = "exited"
      /\ exit' = "0" => exit = "0" \/ (/\ report' = Report /\ exit = "running"
                                       /\ infrastructure = "COMPLETED")
  BY DEF WriteReport, laneVars, clientVars
<1>2. phase = <<>> /\ exit # "0"
  BY <1>1 DEF ReportInv, Lanes
<1>3. exit' = "0" => Whole(report)'
  <2> SUFFICES ASSUME exit' = "0" PROVE Whole(report)'
    OBVIOUS
  <2>1. report' = Report /\ Fine
    BY <1>1, <1>2 DEF Fine
  <2>2. Whole(Report)
    BY <1>1, <2>1, WholeReport
  <2>3. Whole(report')
    BY <2>1, <2>2
  <2>4. \A p \in Billable : Billed(p)' = Billed(p)
    BY <1>1 DEF Billed
  <2> QED BY <1>1, <2>3, <2>4 DEF Whole, CallsOf, AllCalls, Shown
<1> QED
  BY <1>1, <1>2, <1>3 DEF ReportInv, Lanes, Working, Fine

LEMMA InterruptKeeps ==
  ASSUME ReportInv, Interrupt
  PROVE  ReportInv'
<1>1. /\ UNCHANGED <<args, level>>
      /\ phase' = <<>> /\ pc' = "cleanup" /\ exit' = "interrupted"
  BY DEF Interrupt, clientVars
<1> QED
  BY <1>1 DEF ReportInv, Lanes, Working, Fine

LEMMA RestKeeps ==
  ASSUME ReportInv,
         UNCHANGED <<args, pc, level, phase, gathered, mechanical, real, runs, count, before,
                     delta, coverage, infrastructure, report, exit>>
  PROVE  ReportInv'
<1>1. Put => Put'
  BY DEF Put, CallsOf, LaneCalls, LevelsOver, Lanes
<1>2. Sheets => Sheets'
  BY DEF Sheets, AllRows
<1>3. Counts => Counts'
  <2>1. \A p \in Port : AtPort(p)' = AtPort(p)
    BY DEF AtPort
  <2> QED BY <2>1 DEF Counts
<1>4. \A p \in Billable : Billed(p)' = Billed(p)
  BY DEF Billed
<1>5. Charged => Charged'
  <2>1. Running' = Running /\ \A c, p : OwedBy(c, p)' = OwedBy(c, p)
    BY DEF Running, OwedBy, Meets
  <2> QED BY <1>4, <2>1 DEF Charged, Lanes
<1>6. Kept => Kept'
  BY DEF Kept, OwnRun, CallsOf, AllRows
<1>7. CoverageShown => CoverageShown'
  BY DEF CoverageShown
<1>8. Untouched => Untouched'
  BY DEF Untouched
<1>9. Whole(report) => Whole(report)'
  BY <1>4 DEF Whole, CallsOf, AllCalls, Shown
<1>10. Fine' = Fine /\ Working' = Working
  BY DEF Fine, Working
<1>11. (\A row \in mechanical \cup real : Shown(row))
        => \A row \in mechanical' \cup real' : Shown(row)'
  BY DEF Shown
<1> QED
  BY <1>1, <1>2, <1>3, <1>5, <1>6, <1>7, <1>8, <1>9, <1>10, <1>11 DEF ReportInv, Lanes

LEMMA ReportStarts == StressInit => ReportInv
<1> SUFFICES ASSUME StressInit PROVE ReportInv
  OBVIOUS
<1>1. /\ args \in Arguments /\ pc = "parse" /\ phase = <<>> /\ level = 1 /\ exit = "running"
      /\ infrastructure = "COMPLETED" /\ Untouched
  BY DEF StressInit, Untouched, Billable
<1>2. level \in DOMAIN args.levels
  <2>1. args.levels \in Seq(Nat \ {0}) /\ args.levels # <<>>
    BY <1>1, StressAssumption
  <2>2. Len(args.levels) \in Nat \ {0} /\ DOMAIN args.levels = 1 .. Len(args.levels)
    BY <2>1
  <2> QED BY <1>1, <2>2
<1> QED
  BY <1>1, <1>2 DEF ReportInv, Lanes, Working, Fine

LEMMA ReportKeeps == ReportInv /\ [StressNext]_stressVars => ReportInv'
<1> SUFFICES ASSUME ReportInv, [StressNext]_stressVars PROVE ReportInv'
  OBVIOUS
<1>1. CASE \E c \in DOMAIN phase :
             \/ StartCall(c) \/ PlanReturns(c) \/ EmbedReturns(c) \/ RerankReturns(c)
             \/ StoreReturns(c) \/ AnswerReturns(c) \/ ParseReturns(c)
  <2>1. PICK c \in DOMAIN phase :
             \/ StartCall(c) \/ PlanReturns(c) \/ EmbedReturns(c) \/ RerankReturns(c)
             \/ StoreReturns(c) \/ AnswerReturns(c) \/ ParseReturns(c)
    BY <1>1
  <2>2. CallStep(c)
    BY <2>1, StartIsStep, PlanIsStep, EmbedIsStep, RerankIsStep, StoreIsStep, AnswerIsStep,
       ParseIsStep
  <2> QED BY <2>2, CallKeeps
<1>2. CASE OtherClient
  BY <1>2, RestKeeps DEF OtherClient, laneVars, resultVars
<1>3. CASE UNCHANGED stressVars
  BY <1>3, RestKeeps DEF stressVars
<1> QED
  BY <1>1, <1>2, <1>3, ParseKeeps, SetupKeeps, EndLevelKeeps, EndRealKeeps, ProbeKeeps, LoadKeeps,
     CatalogKeeps, CleanupKeeps, CloseKeeps, WriteReportKeeps, InterruptKeeps
  DEF StressNext

\* An exit code of 0 means that every question was put in every lane, once, that its line
\* shows what its run had stored, and that the counters and the charges add up to every
\* call (run and write_report, scripts/run_legal_chatbot_stress.py).
THEOREM ExitZeroReports == StressSpec => []ExitZeroReportsAll
<1>1. ReportInv => ExitZeroReportsAll
  <2> SUFFICES ASSUME ReportInv, exit = "0" PROVE ExitZeroReportsAll
    BY DEF ExitZeroReportsAll
  <2>1. Whole(report)
    BY DEF ReportInv
  <2> QED BY <2>1 DEF Whole, CallsOf, Shown, Billable, Billed, ExitZeroReportsAll
<1> QED
  BY <1>1, ReportStarts, ReportKeeps, PTL DEF StressSpec

-------------------------------------------------------------------------------
(***************************************************************************)
(* The clients of the legal sources: a text belongs to the reference that  *)
(* was asked for, and every reference that was looked at is accounted for. *)
(***************************************************************************)
Calls == [pending : {TRUE}, ref : Ref, attempt : 1 .. MaxAttempts, text : SUBSET Text,
          gets : Nat, posts : Nat, current : SUBSET Text, confirmed : BOOLEAN]

Fetching == doing \notin {"down", "next"}

SourcesTyped ==
    /\ doc \in [Ref -> Text] /\ page \in [Ref -> BOOLEAN] /\ wsdl \in Endpoint
    /\ changes \in 0 .. MaxChanges /\ setup \in Setups
    /\ doing \in {"down", "next", "ingest"} \cup Requests
    /\ Fetching => call \in Calls
    /\ ~Fetching => call = NoCall
    /\ todo \subseteq Ref /\ schema \in Endpoint \cup {NoEndpoint}
    /\ result \in [Ref -> {"none", "created", "unchanged", "found", "failed"}]
    /\ corpus \in [Ref -> SUBSET Text] /\ lastExit \in 0 .. 2
    /\ inRun \in [Ref -> SUBSET Text]

\* What a fetch c knows at step d of a process with setup s is about the source as it
\* was since the fetch began.
Sound(c, d, texts, pages, served) ==
    /\ c.text \subseteq c.current /\ texts[c.ref] \in c.current
    /\ c.current \subseteq served[c.ref]
    /\ d \in {"page", "ingest"} => c.text # {}
    /\ d = "page" /\ pages[c.ref] => c.confirmed
    /\ d = "ingest" => setup.task = "ingest" /\ (OverRest => c.confirmed)
    /\ d \in {"gateway", "page"} <=> OverRest /\ d # "ingest"

Done(r) ==
    \/ result[r] = "failed"
    \/ setup.task = "ingest" /\ corpus[r] \cap inRun[r] # {}
    \/ setup.task = "discover" /\ result[r] = "found"

SourcesInv ==
    /\ SourcesTyped
    /\ Fetching => Sound(call, doing, doc, page, inRun)
    /\ doing # "down" =>
         /\ lastExit = 2
         /\ \A r \in Ref : doc[r] \in inRun[r]
         /\ \A r \in Ref : r \in todo \/ (Fetching /\ r = call.ref) \/ Done(r)
    /\ ExitZeroMeansDone

LEMMA SourcesInitial == SourcesInit => SourcesInv
<1> SUFFICES ASSUME SourcesInit PROVE SourcesInv
  OBVIOUS
<1>1. doing = "down" /\ lastExit = 2 /\ ~Fetching
  BY DEF SourcesInit, Fetching
<1>2. SourcesTyped
  BY <1>1, SourcesAssumption DEF SourcesInit, SourcesTyped, Setups
<1>3. QED
  BY <1>1, <1>2 DEF SourcesInv, ExitZeroMeansDone

\* The fetch under way goes on, of the same reference and over the same texts.
LEMMA FetchGoesOn ==
  ASSUME SourcesInv, Fetching, NEW c \in Calls, call' = c, c.ref = call.ref,
         c.current = call.current, NEW d \in {"ingest"} \cup Requests, doing' = d,
         schema' \in Endpoint \cup {NoEndpoint},
         UNCHANGED <<source, setup, todo, result, corpus, lastExit, inRun>>,
         Sound(c, d, doc, page, inRun)
  PROVE  SourcesInv'
<1>1. Fetching' /\ doing # "down" /\ doing' # "down"
  BY DEF Fetching, Requests
<1>2. SourcesTyped'
  BY <1>1 DEF SourcesInv, SourcesTyped, source
<1>3. Sound(call, doing, doc, page, inRun)'
  BY DEF Sound, OverRest, source
<1>4. \A r \in Ref : r \in todo' \/ (Fetching' /\ r = call'.ref) \/ Done(r)'
  BY <1>1 DEF SourcesInv, Done
<1>5. QED
  BY <1>1, <1>2, <1>3, <1>4 DEF SourcesInv, ExitZeroMeansDone, source

\* The fetch under way ends with an ending that accounts for its reference.
LEMMA FetchSettles ==
  ASSUME SourcesInv, Fetching, NEW ending \in {"created", "unchanged", "found", "failed"},
         Settle(ending), schema' \in Endpoint \cup {NoEndpoint},
         UNCHANGED <<source, setup, todo, lastExit, inRun>>,
         corpus' \in [Ref -> SUBSET Text], \A r \in Ref : corpus[r] \subseteq corpus'[r],
         \/ ending = "failed"
         \/ setup.task = "ingest" /\ corpus'[call.ref] \cap inRun[call.ref] # {}
         \/ setup.task = "discover" /\ ending = "found"
  PROVE  SourcesInv'
<1>1. call \in Calls /\ call.ref \in Ref
  BY DEF SourcesInv, SourcesTyped, Calls
<1>2. /\ ~Fetching' /\ doing # "down" /\ doing' = "next" /\ call' = NoCall
      /\ result' = [result EXCEPT ![call.ref] = ending]
  BY DEF Fetching, Settle
<1>3. SourcesTyped'
  BY <1>1, <1>2 DEF SourcesInv, SourcesTyped, source
<1>4. \A r \in Ref : r \in todo' \/ Done(r)'
  <2> SUFFICES ASSUME NEW r \in Ref, r \notin todo PROVE Done(r)'
    OBVIOUS
  <2>1. CASE r = call.ref
    BY <1>1, <1>2, <2>1 DEF SourcesInv, SourcesTyped, Done
  <2>2. CASE r # call.ref
    <3>1. Done(r)
      BY <1>2, <2>2 DEF SourcesInv
    <3>2. result'[r] = result[r] /\ corpus[r] \subseteq corpus'[r]
      BY <1>1, <1>2, <2>2 DEF SourcesInv, SourcesTyped
    <3>3. QED
      BY <3>1, <3>2 DEF Done
  <2>3. QED
    BY <2>1, <2>2
<1>5. QED
  BY <1>2, <1>3, <1>4 DEF SourcesInv, ExitZeroMeansDone, source

LEMMA FetchFails ==
  ASSUME SourcesInv, Fetching, Settle("failed"), schema' = schema,
         UNCHANGED <<source, setup, todo, corpus, lastExit, inRun>>
  PROVE  SourcesInv'
<1>1. schema \in Endpoint \cup {NoEndpoint} /\ corpus \in [Ref -> SUBSET Text]
  BY DEF SourcesInv, SourcesTyped
<1>2. QED
  BY <1>1, FetchSettles

LEMMA RequestsAreCounted == ASSUME NEW n \in Nat PROVE CountedRequest(n) \in Nat
<1>1. 2 * MaxAttempts \in Nat
  BY SourcesAssumption
<1>2. QED
  BY <1>1 DEF CountedRequest

\* A request that fails is tried again, or the reference is given up.
LEMMA GetFailsInv ==
  ASSUME SourcesInv, NEW answer, GetFails(answer), doing \in {"gateway", "page"},
         UNCHANGED <<source, setup, todo, schema, corpus, lastExit, inRun>>
  PROVE  SourcesInv'
<1>1. Fetching /\ call \in Calls /\ Sound(call, doing, doc, page, inRun)
  BY DEF SourcesInv, SourcesTyped, Fetching
<1>2. CASE Retries(answer) /\ UNCHANGED <<doing, result>>
            /\ call' = [call EXCEPT !.attempt = @ + 1, !.gets = CountedRequest(@)]
  <2>1. CountedRequest(call.gets) \in Nat /\ call.attempt + 1 \in 1 .. MaxAttempts
    BY <1>1, <1>2, RequestsAreCounted, SourcesAssumption DEF Calls, Retries
  <2>2. PICK c \in Calls : /\ call' = c /\ c.ref = call.ref /\ c.current = call.current
                           /\ c.text = call.text /\ c.confirmed = call.confirmed
    <3>1. call' \in Calls
      BY <1>1, <1>2, <2>1 DEF Calls
    <3>2. /\ call'.ref = call.ref /\ call'.current = call.current
          /\ call'.text = call.text /\ call'.confirmed = call.confirmed
      BY <1>1, <1>2 DEF Calls
    <3>3. QED
      BY <3>1, <3>2
  <2>3. Sound(c, doing, doc, page, inRun)
    BY <1>1, <2>2 DEF Sound
  <2>4. schema \in Endpoint \cup {NoEndpoint} /\ doing \in {"ingest"} \cup Requests
    BY DEF SourcesInv, SourcesTyped, Requests
  <2>5. QED
    BY <1>1, <1>2, <2>2, <2>3, <2>4, FetchGoesOn
<1>3. CASE Settle("failed")
  BY <1>1, <1>3, FetchFails
<1>4. QED
  BY <1>2, <1>3 DEF GetFails

LEMMA GatewayInv ==
  ASSUME SourcesInv, NEW answer, GatewayGet(answer)
  PROVE  SourcesInv'
<1>1. /\ doing = "gateway" /\ Fetching /\ call \in Calls /\ Sound(call, doing, doc, page, inRun)
      /\ UNCHANGED <<source, setup, todo, schema, corpus, lastExit, inRun>>
  BY DEF GatewayGet, SourcesInv, SourcesTyped, Fetching
<1>2. CASE GetFails(answer)
  BY <1>1, <1>2, GetFailsInv
<1>3. CASE Settle("failed")
  BY <1>1, <1>3, FetchFails
<1>4. ASSUME NEW sent \in Ref, Matches(sent), doing' = "page", UNCHANGED result,
             call' = [call EXCEPT !.text = {doc[sent]}, !.attempt = 1,
                              !.gets = CountedRequest(@), !.confirmed = page[call.ref]]
      PROVE  SourcesInv'
  <2>1. /\ sent = call.ref /\ doc[sent] \in Text /\ page[call.ref] \in BOOLEAN
        /\ CountedRequest(call.gets) \in Nat /\ 1 \in 1 .. MaxAttempts
    BY <1>1, <1>4, RequestsAreCounted, SourcesAssumption
       DEF Matches, SourcesInv, SourcesTyped, Calls
  <2>2. PICK c \in Calls : /\ call' = c /\ c.ref = call.ref /\ c.current = call.current
                           /\ c.text = {doc[call.ref]} /\ c.confirmed = page[call.ref]
    <3>1. call' \in Calls
      BY <1>1, <1>4, <2>1 DEF Calls
    <3>2. /\ call'.ref = call.ref /\ call'.current = call.current
          /\ call'.text = {doc[call.ref]} /\ call'.confirmed = page[call.ref]
      BY <1>1, <1>4, <2>1 DEF Calls
    <3>3. QED
      BY <3>1, <3>2
  <2>3. Sound(c, "page", doc, page, inRun)
    <3>1. OverRest
      BY <1>1 DEF Sound
    <3>2. QED
      BY <1>1, <2>2, <3>1 DEF Sound
  <2>4. schema \in Endpoint \cup {NoEndpoint} /\ "page" \in {"ingest"} \cup Requests
    BY DEF SourcesInv, SourcesTyped, Requests
  <2>5. QED
    BY <1>1, <1>4, <2>2, <2>3, <2>4, FetchGoesOn
<1>5. QED
  BY <1>2, <1>3, <1>4 DEF GatewayGet

LEMMA PageInv ==
  ASSUME SourcesInv, NEW answer, PageGet(answer)
  PROVE  SourcesInv'
<1>1. /\ doing = "page" /\ Fetching /\ call \in Calls /\ Sound(call, doing, doc, page, inRun)
      /\ UNCHANGED <<source, setup, todo, schema, corpus, lastExit, inRun>>
  BY DEF PageGet, SourcesInv, SourcesTyped, Fetching
<1>2. CASE GetFails(answer)
  BY <1>1, <1>2, GetFailsInv
<1>3. CASE Settle("failed")
  BY <1>1, <1>3, FetchFails
<1>4. CASE page[call.ref] /\ doing' = "ingest" /\ UNCHANGED result
            /\ call' = [call EXCEPT !.gets = CountedRequest(@)]
  <2>1. CountedRequest(call.gets) \in Nat
    BY <1>1, RequestsAreCounted DEF Calls
  <2>2. PICK c \in Calls : /\ call' = c /\ c.ref = call.ref /\ c.current = call.current
                           /\ c.text = call.text /\ c.confirmed = call.confirmed
    <3>1. call' \in Calls
      BY <1>1, <1>4, <2>1 DEF Calls
    <3>2. /\ call'.ref = call.ref /\ call'.current = call.current
          /\ call'.text = call.text /\ call'.confirmed = call.confirmed
      BY <1>1, <1>4 DEF Calls
    <3>3. QED
      BY <3>1, <3>2
  <2>3. Sound(c, "ingest", doc, page, inRun)
    <3>1. OverRest /\ setup.task = "ingest"
      BY <1>1 DEF Sound, OverRest
    <3>2. QED
      BY <1>1, <1>4, <2>2, <3>1 DEF Sound
  <2>4. schema \in Endpoint \cup {NoEndpoint} /\ "ingest" \in {"ingest"} \cup Requests
    BY DEF SourcesInv, SourcesTyped
  <2>5. QED
    BY <1>1, <1>4, <2>2, <2>3, <2>4, FetchGoesOn
<1>5. QED
  BY <1>2, <1>3, <1>4 DEF PageGet

LEMMA WsdlInv ==
  ASSUME SourcesInv, NEW answer, WsdlGet(answer)
  PROVE  SourcesInv'
<1>1. /\ doing = "wsdl" /\ Fetching /\ call \in Calls /\ Sound(call, doing, doc, page, inRun)
      /\ UNCHANGED <<source, setup, todo, corpus, lastExit, inRun>>
  BY DEF WsdlGet, SourcesInv, SourcesTyped, Fetching
<1>2. CASE Settle("failed") /\ UNCHANGED schema
  BY <1>1, <1>2, FetchFails
<1>3. CASE schema' = wsdl /\ doing' = "post" /\ UNCHANGED result
            /\ call' = [call EXCEPT !.gets = CountedRequest(@)]
  <2>1. CountedRequest(call.gets) \in Nat
    BY <1>1, RequestsAreCounted DEF Calls
  <2>2. PICK c \in Calls : /\ call' = c /\ c.ref = call.ref /\ c.current = call.current
                           /\ c.text = call.text
    <3>1. call' \in Calls
      BY <1>1, <1>3, <2>1 DEF Calls
    <3>2. call'.ref = call.ref /\ call'.current = call.current /\ call'.text = call.text
      BY <1>1, <1>3 DEF Calls
    <3>3. QED
      BY <3>1, <3>2
  <2>3. Sound(c, "post", doc, page, inRun)
    <3>1. ~OverRest
      BY <1>1 DEF Sound
    <3>2. QED
      BY <1>1, <2>2, <3>1 DEF Sound
  <2>4. schema' \in Endpoint \cup {NoEndpoint} /\ "post" \in {"ingest"} \cup Requests
    BY <1>3 DEF SourcesInv, SourcesTyped, Requests
  <2>5. QED
    BY <1>1, <1>3, <2>2, <2>3, <2>4, FetchGoesOn
<1>4. QED
  BY <1>2, <1>3 DEF WsdlGet

LEMMA PostInv ==
  ASSUME SourcesInv, NEW answer, Post(answer)
  PROVE  SourcesInv'
<1>1. /\ doing = "post" /\ Fetching /\ call \in Calls /\ Sound(call, doing, doc, page, inRun)
      /\ UNCHANGED <<source, setup, todo, schema, corpus, lastExit, inRun>>
  BY DEF Post, SourcesInv, SourcesTyped, Fetching
<1>2. CASE Settle("failed")
  BY <1>1, <1>2, FetchFails
<1>3. CASE setup.task = "discover" /\ Settle("found")
  <2>1. schema \in Endpoint \cup {NoEndpoint} /\ corpus \in [Ref -> SUBSET Text]
    BY DEF SourcesInv, SourcesTyped
  <2>2. QED
    BY <1>1, <1>3, <2>1, FetchSettles
<1>4. ASSUME NEW sent \in Ref, Matches(sent), setup.task = "ingest", doing' = "ingest",
             call' = [call EXCEPT !.text = {doc[sent]}, !.posts = CountedRequest(@)],
             UNCHANGED result
      PROVE  SourcesInv'
  <2>1. sent = call.ref /\ doc[sent] \in Text /\ CountedRequest(call.posts) \in Nat
    BY <1>1, <1>4, RequestsAreCounted DEF Matches, SourcesInv, SourcesTyped, Calls
  <2>2. PICK c \in Calls : /\ call' = c /\ c.ref = call.ref /\ c.current = call.current
                           /\ c.text = {doc[call.ref]}
    <3>1. call' \in Calls
      BY <1>1, <1>4, <2>1 DEF Calls
    <3>2. /\ call'.ref = call.ref /\ call'.current = call.current
          /\ call'.text = {doc[call.ref]}
      BY <1>1, <1>4, <2>1 DEF Calls
    <3>3. QED
      BY <3>1, <3>2
  <2>3. Sound(c, "ingest", doc, page, inRun)
    <3>1. ~OverRest
      BY <1>1 DEF Sound
    <3>2. QED
      BY <1>1, <1>4, <2>2, <3>1 DEF Sound
  <2>4. schema \in Endpoint \cup {NoEndpoint} /\ "ingest" \in {"ingest"} \cup Requests
    BY DEF SourcesInv, SourcesTyped
  <2>5. QED
    BY <1>1, <1>4, <2>2, <2>3, <2>4, FetchGoesOn
<1>5. QED
  BY <1>2, <1>3, <1>4 DEF Post

LEMMA IngestInv ==
  ASSUME SourcesInv, Ingest
  PROVE  SourcesInv'
<1>1. /\ doing = "ingest" /\ Fetching /\ call \in Calls /\ Sound(call, doing, doc, page, inRun)
      /\ UNCHANGED <<source, setup, todo, schema, lastExit, inRun>>
      /\ schema \in Endpoint \cup {NoEndpoint} /\ corpus \in [Ref -> SUBSET Text]
  BY DEF Ingest, SourcesInv, SourcesTyped, Fetching
<1>2. CASE Settle("failed") /\ UNCHANGED corpus
  BY <1>1, <1>2, FetchFails
<1>3. CASE /\ Settle(IF call.text \subseteq corpus[call.ref] THEN "unchanged" ELSE "created")
           /\ corpus' = [corpus EXCEPT ![call.ref] = @ \cup call.text]
  <2> DEFINE ending == IF call.text \subseteq corpus[call.ref] THEN "unchanged" ELSE "created"
  <2>1. /\ call.ref \in Ref /\ call.text \subseteq Text
        /\ call.text # {} /\ call.text \subseteq inRun[call.ref] /\ setup.task = "ingest"
    BY <1>1 DEF Calls, Sound
  <2>2. /\ corpus' \in [Ref -> SUBSET Text] /\ \A r \in Ref : corpus[r] \subseteq corpus'[r]
        /\ corpus'[call.ref] = corpus[call.ref] \cup call.text
    BY <1>1, <1>3, <2>1
  <2>3. corpus'[call.ref] \cap inRun[call.ref] # {}
    BY <2>1, <2>2
  <2>4. ending \in {"created", "unchanged", "found", "failed"} /\ Settle(ending)
    BY <1>3
  <2> HIDE DEF ending
  <2>5. QED
    BY <1>1, <2>1, <2>2, <2>3, <2>4, FetchSettles
<1>4. QED
  BY <1>2, <1>3 DEF Ingest

LEMMA StartInv ==
  ASSUME SourcesInv, NEW s \in Setups, Start(s)
  PROVE  SourcesInv'
<1>1. /\ ~Fetching /\ ~Fetching' /\ doing' = "next" /\ todo' = Ref /\ lastExit' = 2
      /\ inRun' = [r \in Ref |-> {doc[r]}] /\ UNCHANGED <<source, call, corpus>>
  BY DEF Start, Fetching
<1>2. SourcesTyped'
  BY <1>1 DEF Start, SourcesInv, SourcesTyped, source
<1>3. QED
  BY <1>1, <1>2 DEF SourcesInv, ExitZeroMeansDone, source

LEMMA NextRefInv ==
  ASSUME SourcesInv, NEW r \in Ref, NextRef(r)
  PROVE  SourcesInv'
<1>1. /\ doing = "next" /\ r \in todo /\ ~Fetching /\ todo' = todo \ {r} /\ lastExit = 2
      /\ UNCHANGED <<source, setup, schema, corpus, lastExit, inRun>> /\ SourcesTyped
      /\ \A q \in Ref : doc[q] \in inRun[q] /\ (q \in todo \/ Done(q))
  BY DEF NextRef, Fetching, SourcesInv
<1>2. CASE (OverRest \/ setup.tls) /\ doing' = FirstRequest /\ call' = NewCall(r) /\ UNCHANGED result
  <2>1. doing' \in {"gateway", "wsdl", "post"} /\ (doing' = "gateway" <=> OverRest) /\ Fetching'
    BY <1>2 DEF FirstRequest, Fetching
  <2>2. /\ call' \in Calls /\ call'.ref = r /\ call'.text = {} /\ call'.current = {doc[r]}
    BY <1>1, <1>2, SourcesAssumption DEF NewCall, Calls, SourcesTyped
  <2>3. SourcesTyped'
    BY <1>1, <1>2, <2>1, <2>2 DEF SourcesTyped, Requests, source
  <2>4. Sound(call, doing, doc, page, inRun)'
    BY <1>1, <2>1, <2>2 DEF Sound, OverRest, source
  <2>5. \A q \in Ref : q \in todo' \/ q = call'.ref \/ Done(q)'
    BY <1>1, <1>2, <2>2 DEF Done
  <2>6. QED
    BY <1>1, <2>1, <2>3, <2>4, <2>5 DEF SourcesInv, ExitZeroMeansDone, source
<1>3. CASE result' = [result EXCEPT ![r] = "failed"] /\ UNCHANGED <<doing, call>>
  <2>1. SourcesTyped' /\ ~Fetching'
    BY <1>1, <1>3 DEF SourcesTyped, Fetching, source
  <2>2. \A q \in Ref : q \in todo' \/ Done(q)'
    BY <1>1, <1>3 DEF Done, SourcesTyped
  <2>3. QED
    BY <1>1, <1>3, <2>1, <2>2 DEF SourcesInv, ExitZeroMeansDone, source
<1>4. QED
  BY <1>2, <1>3 DEF NextRef

\* The end of a process, by itself or not
LEMMA EndInv ==
  ASSUME SourcesInv, EndRun \/ Dies
  PROVE  SourcesInv'
<1>1. CASE EndRun
  <2>1. /\ doing = "next" /\ todo = {} /\ doing' = "down" /\ ~Fetching /\ ~Fetching'
        /\ lastExit' = ExitCode
        /\ UNCHANGED <<source, setup, todo, call, schema, result, corpus, inRun>>
        /\ SourcesTyped /\ \A r \in Ref : Done(r)
    BY <1>1 DEF EndRun, Fetching, SourcesInv
  <2>2. SourcesTyped'
    BY <2>1 DEF SourcesTyped, ExitCode, source
  <2>3. ExitZeroMeansDone'
    <3>1. lastExit' = 0 => \A r \in Ref : result[r] # "failed"
      BY <2>1 DEF ExitCode
    <3>2. QED
      BY <2>1, <3>1 DEF ExitZeroMeansDone, Done
  <2>4. QED
    BY <2>1, <2>2, <2>3 DEF SourcesInv
<1>2. CASE Dies
  <2>1. /\ doing # "down" /\ doing' = "down" /\ todo' = {} /\ call' = NoCall /\ ~Fetching'
        /\ lastExit = 2 /\ UNCHANGED <<source, setup, schema, result, corpus, lastExit, inRun>>
    BY <1>2 DEF Dies, Fetching, SourcesInv
  <2>2. SourcesTyped'
    BY <2>1 DEF SourcesInv, SourcesTyped, source
  <2>3. QED
    BY <2>1, <2>2 DEF SourcesInv, ExitZeroMeansDone
<1>3. QED
  BY <1>1, <1>2

\* The source changes while a text is fetched, or at any other time.
LEMMA ChangeInv ==
  ASSUME SourcesInv, \/ \E r \in Ref : BreakPage(r) \/ \E t \in Text : Publish(r, t)
                     \/ \E e \in Endpoint : MoveEndpoint(e)
  PROVE  SourcesInv'
<1>1. changes + 1 \in 0 .. MaxChanges \/ ~(changes < MaxChanges)
  BY SourcesAssumption DEF SourcesInv, SourcesTyped
<1>2. ASSUME NEW e \in Endpoint, MoveEndpoint(e) PROVE SourcesInv'
  <2>1. /\ UNCHANGED <<doc, page, call, inRun, setup, doing, todo, schema, result, corpus, lastExit>>
        /\ wsdl' = e /\ changes < MaxChanges /\ changes' = changes + 1
    BY <1>2 DEF MoveEndpoint, Change
  <2>2. SourcesTyped' /\ (Fetching' <=> Fetching)
    BY <1>1, <2>1 DEF SourcesInv, SourcesTyped, Fetching
  <2>3. QED
    BY <2>1, <2>2 DEF SourcesInv, Sound, OverRest, Done, ExitZeroMeansDone
<1>3. ASSUME NEW r \in Ref, BreakPage(r) PROVE SourcesInv'
  <2>1. /\ UNCHANGED <<doc, wsdl, inRun, setup, doing, todo, schema, result, corpus, lastExit>>
        /\ page' = [page EXCEPT ![r] = ~@] /\ changes < MaxChanges /\ changes' = changes + 1
        /\ call' = IF IsOf(r) /\ doing = "page" /\ page'[r]
                   THEN [call EXCEPT !.confirmed = TRUE] ELSE call
    BY <1>3 DEF BreakPage, Change
  <2>2. Fetching' <=> Fetching
    BY <2>1 DEF Fetching
  <2>3. page' \in [Ref -> BOOLEAN] /\ \A q \in Ref : q # r => page'[q] = page[q]
    BY <2>1 DEF SourcesInv, SourcesTyped
  <2>4. CASE Fetching /\ doing = "page" /\ r = call.ref /\ page'[r]
    <3>1. call \in Calls /\ Sound(call, doing, doc, page, inRun)
      BY <2>4 DEF SourcesInv, SourcesTyped
    <3>2. IsOf(r)
      BY <2>4, <3>1 DEF IsOf, Calls
    <3>3. /\ call' \in Calls /\ call'.ref = call.ref /\ call'.text = call.text
          /\ call'.current = call.current /\ call'.confirmed = TRUE
      BY <2>1, <2>4, <3>1, <3>2 DEF Calls
    <3>4. SourcesTyped'
      BY <1>1, <2>1, <2>2, <2>3, <2>4, <3>3 DEF SourcesInv, SourcesTyped
    <3>5. Sound(call, doing, doc, page, inRun)'
      BY <2>1, <3>1, <3>3 DEF Sound, OverRest
    <3>6. QED
      BY <2>1, <2>2, <2>4, <3>3, <3>4, <3>5 DEF SourcesInv, Done, ExitZeroMeansDone
  <2>5. CASE ~(Fetching /\ doing = "page" /\ r = call.ref /\ page'[r])
    <3>1. call' = call
      <4>1. doing = "page" => Fetching
        BY DEF Fetching
      <4>2. QED
        BY <2>1, <2>5, <4>1 DEF IsOf
    <3>2. SourcesTyped'
      BY <1>1, <2>1, <2>2, <2>3, <3>1 DEF SourcesInv, SourcesTyped
    <3>3. Fetching => Sound(call, doing, doc, page, inRun)'
      BY <2>1, <2>3, <2>5, <3>1 DEF SourcesInv, Sound, OverRest
    <3>4. QED
      BY <2>1, <2>2, <3>1, <3>2, <3>3 DEF SourcesInv, Done, ExitZeroMeansDone
  <2>6. QED
    BY <2>4, <2>5
<1>4. ASSUME NEW r \in Ref, NEW t \in Text, Publish(r, t) PROVE SourcesInv'
  <2>1. /\ UNCHANGED <<page, wsdl, setup, doing, todo, schema, result, corpus, lastExit>>
        /\ doc' = [doc EXCEPT ![r] = t] /\ inRun' = [inRun EXCEPT ![r] = @ \cup {t}]
        /\ changes < MaxChanges /\ changes' = changes + 1
        /\ call' = IF IsOf(r) THEN [call EXCEPT !.current = @ \cup {t}] ELSE call
    BY <1>4 DEF Publish, Change
  <2>2. Fetching' <=> Fetching
    BY <2>1 DEF Fetching
  <2>3. /\ doc' \in [Ref -> Text] /\ inRun' \in [Ref -> SUBSET Text]
        /\ \A q \in Ref : q # r => doc'[q] = doc[q] /\ inRun'[q] = inRun[q]
        /\ doc'[r] = t /\ inRun'[r] = inRun[r] \cup {t}
    BY <2>1 DEF SourcesInv, SourcesTyped
  <2>4. \A q \in Ref : Done(q) => Done(q)'
    BY <2>1, <2>3 DEF Done
  <2>5. ExitZeroMeansDone'
    <3>1. \A q \in Ref : inRun[q] \subseteq inRun'[q]
      BY <2>3
    <3>2. QED
      BY <2>1, <3>1 DEF SourcesInv, ExitZeroMeansDone
  <2>6. CASE Fetching /\ r = call.ref
    <3>1. call \in Calls /\ Sound(call, doing, doc, page, inRun)
      BY <2>6 DEF SourcesInv, SourcesTyped
    <3>2. IsOf(r)
      BY <2>6, <3>1 DEF IsOf, Calls
    <3>3. call' \in Calls
      BY <2>1, <3>1, <3>2 DEF Calls
    <3>4. /\ call'.ref = call.ref /\ call'.text = call.text
          /\ call'.current = call.current \cup {t} /\ call'.confirmed = call.confirmed
      BY <2>1, <3>1, <3>2 DEF Calls
    <3>5. SourcesTyped'
      BY <1>1, <2>1, <2>2, <2>3, <2>6, <3>3 DEF SourcesInv, SourcesTyped
    <3>6. Sound(call, doing, doc, page, inRun)'
      BY <2>1, <2>3, <2>6, <3>1, <3>4 DEF Sound, OverRest
    <3>7. QED
      BY <2>1, <2>2, <2>3, <2>4, <2>5, <3>4, <3>5, <3>6 DEF SourcesInv
  <2>7. CASE ~(Fetching /\ r = call.ref)
    <3>1. call' = call
      BY <2>1, <2>7 DEF IsOf, NoCall, SourcesInv, SourcesTyped
    <3>2. SourcesTyped'
      BY <1>1, <2>1, <2>2, <2>3, <3>1 DEF SourcesInv, SourcesTyped
    <3>3. Fetching => Sound(call, doing, doc, page, inRun)'
      <4>1. Fetching => call.ref \in Ref /\ call.ref # r
        BY <2>7 DEF SourcesInv, SourcesTyped, Calls
      <4>2. QED
        BY <2>1, <2>3, <3>1, <4>1 DEF SourcesInv, Sound, OverRest
    <3>4. QED
      BY <2>1, <2>2, <2>3, <2>4, <2>5, <3>1, <3>2, <3>3 DEF SourcesInv
  <2>8. QED
    BY <2>6, <2>7
<1>5. QED
  BY <1>2, <1>3, <1>4

LEMMA SourcesStep == SourcesInv /\ [SourcesNext]_sourcesVars => SourcesInv'
<1> SUFFICES ASSUME SourcesInv, [SourcesNext]_sourcesVars PROVE SourcesInv'
  OBVIOUS
<1>1. ASSUME NEW r \in Ref, NextRef(r) PROVE SourcesInv'
  BY <1>1, NextRefInv
<1>2. ASSUME NEW answer, GatewayGet(answer) \/ PageGet(answer) \/ WsdlGet(answer) \/ Post(answer)
      PROVE  SourcesInv'
  BY <1>2, GatewayInv, PageInv, WsdlInv, PostInv
<1>3. CASE Step
  BY <1>1, <1>2, <1>3, IngestInv, EndInv DEF Step
<1>4. CASE UNCHANGED sourcesVars
  BY <1>4 DEF sourcesVars, source, SourcesInv, SourcesTyped, Fetching, Sound, OverRest, Done,
              ExitZeroMeansDone
<1>5. QED
  BY <1>3, <1>4, StartInv, EndInv, ChangeInv DEF SourcesNext

LEMMA SourcesAlways == SourcesSpec => []SourcesInv
<1>1. QED
  BY SourcesInitial, SourcesStep, PTL DEF SourcesSpec

\* Every variable of the clients of the sources has its type.
THEOREM SourcesTypeCorrect == SourcesSpec => []SourcesTypeOK
<1>1. SourcesInv => SourcesTypeOK
  <2> SUFFICES ASSUME SourcesInv PROVE SourcesTypeOK
    OBVIOUS
  <2>1. call.pending <=> doing \in {"ingest"} \cup Requests
    <3>1. Fetching <=> doing \in {"ingest"} \cup Requests
      BY DEF SourcesInv, SourcesTyped, Fetching, Requests
    <3>2. Fetching => call.pending = TRUE
      BY DEF SourcesInv, SourcesTyped, Calls
    <3>3. ~Fetching => call.pending = FALSE
      BY DEF SourcesInv, SourcesTyped, NoCall
    <3>4. QED
      BY <3>1, <3>2, <3>3
  <2>2. call.pending => call \in Calls
    BY DEF SourcesInv, SourcesTyped, NoCall
  <2>3. QED
    BY <2>1, <2>2 DEF SourcesInv, SourcesTyped, SourcesTypeOK, Calls
<1>2. QED
  BY <1>1, SourcesAlways, PTL

\* What is handed to the ingestion was served for this very reference since its fetch
\* began (rest.py, soap.py).
THEOREM FetchedIsServed == SourcesSpec => []FetchedWasServed
<1>1. SourcesInv => FetchedWasServed
  BY DEF SourcesInv, SourcesTyped, FetchedWasServed, Fetching, Sound
<1>2. QED
  BY <1>1, SourcesAlways, PTL

\* Exit code 0 means that every approved reference was ingested, or found, in this run
\* (ingestion/cli.py, discovery_cli.py).
THEOREM ExitZeroIsDone == SourcesSpec => []ExitZeroMeansDone
<1>1. SourcesInv => ExitZeroMeansDone
  BY DEF SourcesInv
<1>2. QED
  BY <1>1, SourcesAlways, PTL

-------------------------------------------------------------------------------
(***************************************************************************)
(* The harness of the shadow evaluator                                     *)
(***************************************************************************)
\* Roles exist from the statement that makes them to the one that drops them, and only
\* in a database that was upgraded; a summary is given after its scenario.
ShadowTypeOK ==
    /\ at \in {"connect", "create", "upgrade", "roles", "seed", "privileges", "scenario",
               "dispose", "drop roles", "drop database", "over"}
    /\ database \in {"none", "empty", "upgraded"}
    /\ engine \in BOOLEAN

RolesHaveTheirPlace ==
    /\ roles # {} => engine /\ database = "upgraded"
    /\ at \in {"connect", "create", "upgrade", "drop database"} => roles = {}
    /\ engine /\ at # "over" => database = "upgraded"
    /\ at \in {"connect", "create", "upgrade"} => ~engine
    /\ at \in {"roles", "seed", "privileges", "scenario", "drop roles"} => engine

SummaryComesLast ==
    /\ at \in {"connect", "create", "upgrade", "roles", "seed", "privileges", "scenario"}
         => summary = {}
    /\ at = "over" /\ summary # {} => database = "none"

ShadowInv == ShadowTypeOK /\ RolesHaveTheirPlace /\ SummaryComesLast

LEMMA ShadowInitInv == ShadowInit => ShadowInv
  BY DEF ShadowInit, ShadowInv, ShadowTypeOK, RolesHaveTheirPlace, SummaryComesLast

LEMMA ShadowNextInv == ShadowInv /\ [ShadowNext]_shadowVars => ShadowInv'
<1> SUFFICES ASSUME ShadowInv, [ShadowNext]_shadowVars PROVE ShadowInv'
  OBVIOUS
<1> USE DEF ShadowInv, ShadowTypeOK, RolesHaveTheirPlace, SummaryComesLast
<1>1. CASE Connect
  BY <1>1 DEF Connect
<1>2. CASE CreateDatabase
  BY <1>2 DEF CreateDatabase
<1>3. CASE Upgrade
  <2>1. CASE at' = "roles" /\ database' = "upgraded" /\ engine'
    BY <1>3, <2>1 DEF Upgrade
  <2>2. CASE at' = "dispose" /\ UNCHANGED <<database, engine>>
    BY <1>3, <2>2 DEF Upgrade
  <2> QED BY <1>3, <2>1, <2>2 DEF Upgrade
<1>4. CASE MakeRoles
  BY <1>4 DEF MakeRoles
<1>5. CASE Seed \/ Privileges
  BY <1>5 DEF Seed, Privileges
<1>6. CASE Play
  <2>1. at = "scenario" /\ at' \in {"scenario", "dispose"}
        /\ UNCHANGED <<database, roles, engine, summary>>
    BY <1>6 DEF Play
  <2> QED BY <2>1
<1>7. CASE Summarise
  BY <1>7 DEF Summarise
<1>8. CASE Dispose
  BY <1>8 DEF Dispose
<1>9. CASE DropRoles
  BY <1>9 DEF DropRoles, RoleNames
<1>10. CASE DropDatabase
  BY <1>10 DEF DropDatabase
<1>11. CASE Break
  BY <1>11 DEF Break
<1>12. CASE UNCHANGED shadowVars
  BY <1>12 DEF shadowVars
<1> QED
  BY <1>1, <1>2, <1>3, <1>4, <1>5, <1>6, <1>7, <1>8, <1>9, <1>10, <1>11, <1>12 DEF ShadowNext

\* Wherever the harness fails or is killed: with its summary the server is as it was, and
\* its roles never outlive its database (shadow_evaluation.py, the finally block of _run).
THEOREM ShadowCleansUp == ShadowSpec => []LeavesNothingBehind
<1>1. ShadowInv => LeavesNothingBehind
  BY DEF ShadowInv, ShadowTypeOK, RolesHaveTheirPlace, SummaryComesLast, LeavesNothingBehind
<1> QED
  BY <1>1, ShadowInitInv, ShadowNextInv, PTL DEF ShadowSpec

-------------------------------------------------------------------------------
(***************************************************************************)
(* The health check of the provider                                        *)
(***************************************************************************)
\* The pauses an attempt may follow.
Patience(tries) == (tries - 1) * RetryAfterMax

\* Attempts begun and pauses made while a health check is under way and after it
WithinAttempts ==
    /\ provider = "none" => operation = "none"
    /\ attempt \in 0 .. HealthMaxAttempts /\ slept \in Nat
    /\ operation = "health" => attempt >= 1 /\ slept <= Patience(attempt)

HealthInv == WithinAttempts /\ VerdictIsEarned

\* Leaving a pause out, VerdictIsEarned is about the last answer and its attempt.
Earned ==
    operation = "health" /\ ~pending =>
        /\ outcome.kind = "healthy" => last.status = 200 /\ last.body = "model"
        /\ outcome.kind = "error" /\ Transient(last) => attempt = HealthMaxAttempts

LEMMA EarnedAndPatient == WithinAttempts => (VerdictIsEarned <=> Earned)
  BY DEF WithinAttempts, VerdictIsEarned, Earned, Patience

LEMMA NextPause ==
  ASSUME NEW tries \in Nat \ {0}
  PROVE  Patience(1) = 0 /\ Patience(tries) \in Nat
         /\ Patience(tries + 1) = Patience(tries) + RetryAfterMax
  BY ProviderAssumption DEF Patience

\* A power of two counts the subsets of an interval.
LEMMA PowersOfTwo == ASSUME NEW n \in Nat PROVE 2 ^ n \in Nat
<1>1. IsFiniteSet(1 .. n) /\ Cardinality(1 .. n) = n
  BY FS_Interval
<1>2. IsFiniteSet(SUBSET (1 .. n)) /\ Cardinality(SUBSET (1 .. n)) = 2 ^ n
  BY <1>1, FS_SUBSET
<1> QED BY <1>2, FS_CardinalityType

\* No pause is longer than the limit, whatever the provider asks for.
LEMMA PauseIsLimited ==
  ASSUME NEW tries \in Nat \ {0}, NEW r \in Responses \cup Silence
  PROVE  RetryDelay(tries, r.retry) \in 0 .. RetryAfterMax
<1>1. CASE r.retry = {}
  <2>1. tries - 1 \in Nat
    OBVIOUS
  <2>2. 2 ^ (tries - 1) \in Nat
    BY <2>1, PowersOfTwo
  <2> QED BY <1>1, <2>2, ProviderAssumption DEF RetryDelay
<1>2. CASE \E s \in Pauses : r.retry = {s}
  <2>1. PICK s \in Pauses : r.retry = {s}
    BY <1>2
  <2>2. Asked(r.retry) = {IF s <= RetryAfterMax THEN s ELSE RetryAfterMax}
    BY <2>1 DEF Asked
  <2>3. (CHOOSE x \in Asked(r.retry) : TRUE) \in Asked(r.retry)
    BY <2>2
  <2> QED BY <2>1, <2>2, <2>3, ProviderAssumption DEF RetryDelay
<1>3. r.retry = {} \/ \E s \in Pauses : r.retry = {s}
  BY DEF Responses, Silence
<1> QED BY <1>1, <1>2, <1>3

LEMMA StatusErrors ==
  ASSUME NEW r \in Responses, r.status # 200
  PROVE  StatusError(r).kind = "error"
<1>1. r.status \in {400, 401, 404, 408, 413, 418, 429, 500, 503}
  BY DEF Responses, Statuses
<1> QED BY <1>1 DEF StatusError, Failure

LEMMA HealthInitInv == ClientInit => HealthInv
  BY ProviderAssumption
     DEF ClientInit, HealthInv, WithinAttempts, VerdictIsEarned, NoAnswer, NoOutcome

\* A transient failure before the last attempt only leads to the next one.
LEMMA HealthNextInv == HealthInv /\ [ClientNext]_providerVars => HealthInv'
<1> SUFFICES ASSUME WithinAttempts, Earned, [ClientNext]_providerVars
             PROVE  WithinAttempts' /\ Earned'
  BY EarnedAndPatient, PTL DEF HealthInv
<1> USE ProviderAssumption DEF WithinAttempts, Earned
<1>1. CASE CreateProvider
  BY <1>1 DEF CreateProvider
<1>2. CASE Generate
  <2>1. operation' = "generate" /\ provider' # "none"
        /\ slept' = 0 /\ attempt' \in {0, 1}
    BY <1>2 DEF Generate
  <2> QED BY <2>1
<1>3. CASE HealthCheck
  <2>1. operation' = "health" /\ provider' # "none"
        /\ slept' = 0 /\ attempt' = 1 /\ pending'
    BY <1>3 DEF HealthCheck
  <2> QED BY <2>1, NextPause
<1>4. ASSUME NEW r \in Responses \cup Silence, Posted(r) PROVE WithinAttempts' /\ Earned'
  <2>1. operation' = "generate" /\ UNCHANGED <<provider, operation, attempt, slept>>
    BY <1>4 DEF Posted, Return
  <2> QED BY <2>1
<1>5. ASSUME NEW r \in Responses \cup Silence, Got(r) PROVE WithinAttempts' /\ Earned'
  <2>0. operation = "health" /\ last' = r /\ UNCHANGED <<provider, operation>>
    BY <1>5 DEF Got
  <2>1. CASE ~Transient(r)
    <3>1. UNCHANGED <<attempt, slept>>
          /\ outcome' = IF Raises(r) THEN RawError
                        ELSE IF r.status # 200 THEN StatusError(r)
                        ELSE IF Unreadable(r) THEN Failure("invalid_response", FALSE)
                        ELSE Examined(r)
      BY <1>5, <2>1 DEF Got, Return
    <3>2. outcome'.kind = "healthy" => r.status = 200 /\ r.body = "model"
      <4>1. r \in Responses
        BY <2>1 DEF Transient
      <4>2. StatusError(r).kind = "error" \/ r.status = 200
        BY <4>1, StatusErrors
      <4> QED BY <3>1, <4>2 DEF RawError, Failure, Examined
    <3>3. WithinAttempts'
      BY <2>0, <3>1
    <3> QED BY <2>0, <2>1, <3>2, <3>3
  <2>2. CASE Transient(r) /\ LastAttempt
    <3>1. UNCHANGED <<attempt, slept>> /\ attempt = HealthMaxAttempts
          /\ outcome' = IF r \in Silence THEN SilenceError(r) ELSE StatusError(r)
      BY <1>5, <2>2 DEF Got, Return, LastAttempt
    <3>2. outcome'.kind = "error"
      BY <2>2, <3>1 DEF SilenceError, StatusError, Failure, Transient, HasNotFoundCode
    <3> QED BY <2>0, <3>1, <3>2
  <2>3. CASE Transient(r) /\ ~LastAttempt
    <3>1. attempt \in Nat \ {0} /\ attempt < HealthMaxAttempts
      BY <1>5, <2>0, <2>3 DEF LastAttempt
    <3>2. /\ attempt' = attempt + 1 /\ slept' = slept + RetryDelay(attempt, r.retry)
          /\ UNCHANGED pending /\ pending
      BY <1>5, <2>3 DEF Got
    <3>3. slept' \in Nat /\ slept' <= Patience(attempt')
      BY <2>0, <3>1, <3>2, PauseIsLimited, NextPause
    <3>4. WithinAttempts'
      BY <2>0, <3>1, <3>2, <3>3
    <3>5. pending'
      BY <3>2
    <3> QED BY <3>4, <3>5
  <2> QED BY <2>1, <2>2, <2>3
<1>6. CASE UNCHANGED providerVars
  BY <1>6 DEF providerVars
<1> QED
  BY <1>1, <1>2, <1>3, <1>4, <1>5, <1>6 DEF ClientNext

\* Whatever a provider answers, and however long it asks to wait, a verdict on its health
\* is that of its last answer and not given too early (shineshop.py, health_check).
THEOREM HealthVerdictIsEarned == ClientSpec => []VerdictIsEarned
<1>1. HealthInv => VerdictIsEarned
  BY DEF HealthInv
<1> QED
  BY <1>1, HealthInitInv, HealthNextInv, PTL DEF ClientSpec

-------------------------------------------------------------------------------
(***************************************************************************)
(* The policy compiler                                                     *)
(***************************************************************************)
\* The record that is kept was made of a registry that could be loaded.
RecordIsCompiled ==
  kept # NoRecord =>
    /\ kept.registry \in Registries
    /\ kept = Compiled(kept.policy, kept.registry, kept.day)

CompilerInv == registry \in Registries /\ RecordIsCompiled

LEMMA CompilerInitInv == PoliciesInit => CompilerInv
  BY DEF PoliciesInit, CompilerInv, RecordIsCompiled

LEMMA CompilerNextInv == CompilerInv /\ [PoliciesNext]_policyVars => CompilerInv'
<1> SUFFICES ASSUME CompilerInv, [PoliciesNext]_policyVars PROVE CompilerInv'
  OBVIOUS
<1> USE DEF CompilerInv, RecordIsCompiled
<1>1. CASE EditContract \/ Tick
  BY <1>1 DEF EditContract, Tick
<1>2. CASE EditRegistry
  BY <1>2 DEF EditRegistry
<1>3. CASE CompileAll
  <2>1. PICK i \in DOMAIN contract : kept' = Compiled(contract[i], registry, today)
    BY <1>3 DEF CompileAll
  <2>2. kept'.policy = contract[i] /\ kept'.registry = registry /\ kept'.day = today
    BY <2>1 DEF Compiled
  <2> QED BY <1>3, <2>1, <2>2 DEF CompileAll
<1>4. CASE UNCHANGED policyVars
  BY <1>4 DEF policyVars
<1> QED
  BY <1>1, <1>2, <1>3, <1>4 DEF PoliciesNext

\* The day counts for a compilation only through the period.
LEMMA DayIsThePeriod ==
  ASSUME NEW p, NEW d, NEW e, InPeriod(p, d) = InPeriod(p, e)
  PROVE  LifecycleOutcome(p, d) = LifecycleOutcome(p, e)
  BY DEF LifecycleOutcome, InPeriod

\* An outcome that blames the access mode, and nothing before it.
LEMMA BlockedByMode ==
  ASSUME NEW p, IsPolicy(p), NEW r, NEW day,
         Compiled(p, r, day).outcome = "ACTIVATION_BLOCKED_REGISTRY_ACCESS_MODE"
  PROVE  /\ ~p.revoked /\ p.status = "ACTIVE"
         /\ p.source \in DOMAIN r /\ r[p.source].lifecycle = "ACTIVE"
         /\ InsideRegistry(p, r[p.source]) /\ InsideCapability(p)
<1>1. LifecycleOutcome(p, day) # "ACTIVATION_BLOCKED_REGISTRY_ACCESS_MODE"
  BY DEF LifecycleOutcome, IsPolicy, StatusOutcome
<1>2. LifecycleOutcome(p, day) = "none"
      /\ SubsetOutcome(p, r) = "ACTIVATION_BLOCKED_REGISTRY_ACCESS_MODE"
  BY <1>1 DEF Compiled
<1>3. ~p.revoked /\ p.status = "ACTIVE"
  BY <1>2 DEF LifecycleOutcome, IsPolicy, StatusOutcome
<1> QED BY <1>2, <1>3 DEF SubsetOutcome

\* The one change of the registry touches nothing else that is compared.
LEMMA ModeIsAllThatChanges ==
  ASSUME NEW p, NEW r \in Registries, p.source \in DOMAIN r
  PROVE  LET s == r[p.source]
             t == WithAccessMode(r, p)[p.source]
         IN  /\ DOMAIN WithAccessMode(r, p) = DOMAIN r
             /\ t.lifecycle = s.lifecycle /\ t.accessMode = p.accessMode
             /\ InsideRegistry(p, t) <=> InsideRegistry(p, s)
<1> DEFINE s == r[p.source]
           t == WithAccessMode(r, p)[p.source]
<1>1. DOMAIN s = SystemFields
  BY PoliciesAssumption
<1>2. DOMAIN WithAccessMode(r, p) = DOMAIN r /\ t = [s EXCEPT !.accessMode = p.accessMode]
  BY DEF WithAccessMode
<1>3. /\ t.lifecycle = s.lifecycle /\ t.accessMode = p.accessMode
      /\ t.url = s.url /\ t.transport = s.transport /\ t.operations = s.operations
  BY <1>1, <1>2 DEF SystemFields
<1> HIDE DEF s, t
<1>4. InsideRegistry(p, t) <=> InsideRegistry(p, s)
  BY <1>3 DEF InsideRegistry
<1> QED BY <1>2, <1>3, <1>4 DEF s, t

\* For any files, registries, capabilities and days: a record that was kept holds for
\* every later compilation of its digests (ApprovedSourcePolicyCompiler.compile).
THEOREM KeptRecordsStayTrue == PoliciesSpec => []KeptRecordsHold
<1>1. CompilerInv => KeptRecordsHold
  <2> SUFFICES ASSUME CompilerInv, kept # NoRecord, IsContract(contract),
                      NEW i \in DOMAIN contract, contract[i] = kept.policy
               PROVE  /\ (/\ registry = kept.registry
                          /\ InPeriod(contract[i], kept.day) = InPeriod(contract[i], today))
                           => Compiled(contract[i], registry, today).outcome = kept.outcome
                      /\ (/\ kept.outcome = "ACTIVATION_BLOCKED_REGISTRY_ACCESS_MODE"
                          /\ registry = WithAccessMode(kept.registry, contract[i])
                          /\ InPeriod(contract[i], today))
                           => Compiled(contract[i], registry, today).outcome
                                = "COMPILED_SIMULATION"
    BY DEF KeptRecordsHold
  <2> DEFINE p == contract[i]
             old == kept.registry
  <2>1. kept = Compiled(p, old, kept.day) /\ old \in Registries
    BY DEF CompilerInv, RecordIsCompiled
  <2>2. ASSUME registry = old, InPeriod(p, kept.day) = InPeriod(p, today)
        PROVE  Compiled(p, registry, today).outcome = kept.outcome
    <3>1. LifecycleOutcome(p, kept.day) = LifecycleOutcome(p, today)
      BY <2>2, DayIsThePeriod
    <3> QED BY <2>1, <2>2, <3>1 DEF Compiled
  <2>3. ASSUME kept.outcome = "ACTIVATION_BLOCKED_REGISTRY_ACCESS_MODE",
               registry = WithAccessMode(old, p), InPeriod(p, today)
        PROVE  Compiled(p, registry, today).outcome = "COMPILED_SIMULATION"
    <3>1. IsPolicy(p)
      BY DEF IsContract
    <3> HIDE DEF p, old
    <3>2. Compiled(p, old, kept.day).outcome = "ACTIVATION_BLOCKED_REGISTRY_ACCESS_MODE"
      BY <2>1, <2>3
    <3>3. /\ ~p.revoked /\ p.status = "ACTIVE"
          /\ p.source \in DOMAIN old /\ old[p.source].lifecycle = "ACTIVE"
          /\ InsideRegistry(p, old[p.source]) /\ InsideCapability(p)
      BY <3>1, <3>2, BlockedByMode
    <3>4. /\ p.source \in DOMAIN registry /\ registry[p.source].lifecycle = "ACTIVE"
          /\ registry[p.source].accessMode = p.accessMode
          /\ InsideRegistry(p, registry[p.source])
      BY <2>1, <2>3, <3>3, ModeIsAllThatChanges
    <3>5. SubsetOutcome(p, registry) = "none"
      BY <3>3, <3>4 DEF SubsetOutcome
    <3>6. LifecycleOutcome(p, today) = "none"
      BY <2>3, <3>3 DEF LifecycleOutcome, InPeriod
    <3> QED BY <3>5, <3>6 DEF Compiled
  <2> QED BY <2>2, <2>3
<1> QED
  BY <1>1, CompilerInitInv, CompilerNextInv, PTL DEF PoliciesSpec

-------------------------------------------------------------------------------
(***************************************************************************)
(* Folds: what a fold over a finite set computes                           *)
(***************************************************************************)
\* Every set of naturals that is not empty has a least member.
LEMMA Least ==
  ASSUME NEW T, T \subseteq Nat, T # {}
  PROVE  \E n \in T : \A m \in T : n <= m
<1>1. PICK n \in T : \A m \in T : ~ (<<m, n>> \in OpToRel(<, Nat))
  <2>1. IsWellFoundedOn(OpToRel(<,Nat), Nat)
    BY NatLessThanWellFounded
  <2> HIDE DEF OpToRel
  <2> QED
  BY <2>1, WFMin
<1>2. \A m \in T : ~(m < n)
  BY <1>1 DEF OpToRel
<1> QED
  BY <1>2

\* The folds of the models, by what they fold: statements over a database, revisions
\* over a database, the failures of a set of rows.
LastOf(kind, s) == IF kind = "failures" THEN CHOOSE x \in s : TRUE ELSE Max(s)

FoldedIn(kind, steps, x, y) ==
  CASE kind = "statements" -> Execute(y, steps[x])
    [] kind = "upgrades"   -> UpOne(y, steps[x])
    [] kind = "downgrades" -> DownOne(y, steps[x])
    [] OTHER               -> Cardinality(x.failures) + y

\* The function inside a fold.
IsFold(kind, steps, base, S, it) ==
  it = [s \in SUBSET S |->
          IF s = {} THEN base
          ELSE FoldedIn(kind, steps, LastOf(kind, s), it[s \ {LastOf(kind, s)}])]

FoldOver(kind, steps, base, S) == (CHOOSE it : IsFold(kind, steps, base, S, it))[S]

\* What it is for the subsets that have at most k members.
FoldsUpTo(kind, steps, base, S, k, it) ==
  \A s \in SUBSET S : Cardinality(s) <= k =>
    it[s] = IF s = {} THEN base
            ELSE FoldedIn(kind, steps, LastOf(kind, s), it[s \ {LastOf(kind, s)}])

\* A fold over a finite set exists: the least size for which it did not could be extended.
LEMMA FoldExists ==
  ASSUME NEW kind, NEW steps, NEW base, NEW S, IsFiniteSet(S),
         \A s \in SUBSET S : s # {} => LastOf(kind, s) \in s
  PROVE  \E it : IsFold(kind, steps, base, S, it)
<1> DEFINE Sets == SUBSET S
           T == {k \in Nat : ~ \E it : FoldsUpTo(kind, steps, base, S, k, it)}
           Folded(s, y) == FoldedIn(kind, steps, LastOf(kind, s), y)
           Rest(s) == s \ {LastOf(kind, s)}
<1>1. \A s \in Sets : /\ Cardinality(s) \in Nat /\ Cardinality(s) <= Cardinality(S)
                      /\ s = {} <=> Cardinality(s) = 0
  <2> SUFFICES ASSUME NEW s \in Sets
               PROVE  /\ Cardinality(s) \in Nat /\ Cardinality(s) <= Cardinality(S)
                      /\ s = {} <=> Cardinality(s) = 0
    OBVIOUS
  <2>1. IsFiniteSet(s) /\ Cardinality(s) <= Cardinality(S)
    BY FS_Subset
  <2> QED BY <2>1, FS_CardinalityType, FS_EmptySet
<1>2. \A s \in Sets : s # {} => /\ Rest(s) \in Sets
                                /\ Cardinality(Rest(s)) = Cardinality(s) - 1
  <2> SUFFICES ASSUME NEW s \in Sets, s # {}
               PROVE  Rest(s) \in Sets /\ Cardinality(Rest(s)) = Cardinality(s) - 1
    OBVIOUS
  <2>1. IsFiniteSet(s) /\ LastOf(kind, s) \in s
    BY FS_Subset
  <2> QED BY <2>1, FS_RemoveElement
<1> HIDE DEF Rest
<1>3. T = {}
  <2> SUFFICES ASSUME T # {} PROVE FALSE
    OBVIOUS
  <2>1. PICK k \in T : \A m \in T : k <= m
    BY Least
  <2>2. CASE k = 0
    <3>1. FoldsUpTo(kind, steps, base, S, 0, [s \in Sets |-> base])
      BY <1>1 DEF FoldsUpTo
    <3> QED BY <2>1, <2>2, <3>1
  <2>3. CASE k # 0
    <3>1. k - 1 \in Nat /\ k - 1 \notin T
      BY <2>1, <2>3
    <3>2. PICK it : FoldsUpTo(kind, steps, base, S, k - 1, it)
      BY <3>1
    <3>3. \A s \in Sets : Cardinality(s) <= k - 1 =>
            it[s] = IF s = {} THEN base ELSE Folded(s, it[Rest(s)])
      BY <3>2 DEF FoldsUpTo, Rest
    <3> HIDE DEF Folded
    <3> DEFINE jt == [s \in Sets |-> IF s = {} THEN base ELSE Folded(s, it[Rest(s)])]
    <3>4. \A s \in Sets : Cardinality(s) <= k - 1 => jt[s] = it[s]
      BY <3>3
    <3>5. \A s \in Sets : jt[s] = IF s = {} THEN base ELSE Folded(s, it[Rest(s)])
      OBVIOUS
    <3> HIDE DEF jt
    <3>6. ASSUME NEW s \in Sets, Cardinality(s) <= k
          PROVE  jt[s] = IF s = {} THEN base ELSE Folded(s, jt[Rest(s)])
      <4>1. s # {} => Rest(s) \in Sets /\ Cardinality(Rest(s)) <= k - 1
        BY <1>1, <1>2, <3>6
      <4> QED BY <3>4, <3>5, <4>1
    <3>7. FoldsUpTo(kind, steps, base, S, k, jt)
      BY <3>6 DEF FoldsUpTo, Rest, Folded
    <3> QED BY <2>1, <3>7
  <2> QED BY <2>2, <2>3
<1>4. PICK it : FoldsUpTo(kind, steps, base, S, Cardinality(S), it)
  <2>1. Cardinality(S) \in Nat
    BY FS_CardinalityType
  <2> QED BY <1>3, <2>1
<1> DEFINE jt == [s \in Sets |-> it[s]]
<1>5. \A s \in Sets : jt[s] = IF s = {} THEN base ELSE Folded(s, jt[Rest(s)])
  <2>1. \A s \in Sets : it[s] = IF s = {} THEN base ELSE Folded(s, it[Rest(s)])
    BY <1>1, <1>4 DEF FoldsUpTo, Rest
  <2> HIDE DEF Folded
  <2> QED BY <1>2, <2>1
<1>6. IsFold(kind, steps, base, S, jt)
  <2> HIDE DEF Folded
  <2>1. jt = [s \in Sets |-> IF s = {} THEN base ELSE Folded(s, jt[Rest(s)])]
    BY <1>5
  <2> HIDE DEF jt
  <2> QED BY <2>1 DEF IsFold, Folded, Rest
<1> HIDE DEF jt
<1> QED
  BY <1>6

\* The greatest index of a set of indices.
LEMMA LastIndex ==
  ASSUME NEW n \in Nat
  PROVE  \A s \in SUBSET (1 .. n) : s # {} => Max(s) \in s
<1> SUFFICES ASSUME NEW s \in SUBSET (1 .. n), s # {} PROVE Max(s) \in s
  OBVIOUS
<1> DEFINE T == {n - i : i \in s}
<1>1. PICK j \in s : \A i \in s : n - j <= n - i
  <2>1. \A i \in s : n - i \in Nat
    OBVIOUS
  <2>2. T \subseteq Nat
    BY <2>1
  <2>3. PICK i \in s : TRUE
    OBVIOUS
  <2>4. n - i \in T
    BY <2>3
  <2> HIDE DEF T
  <2>5. PICK k \in T : \A m \in T : k <= m
    BY <2>2, <2>4, Least
  <2> QED BY <2>5 DEF T
<1>2. \A i \in s : j >= i
  BY <1>1
<1> QED
  BY <1>2 DEF Max

\* Of the indices 1 .. i the last is i, and the rest are the indices before it.
LEMMA LastOfInterval ==
  ASSUME NEW i \in Nat, i # 0
  PROVE  Max(1 .. i) = i /\ (1 .. i) \ {Max(1 .. i)} = 1 .. (i - 1)
<1>1. Max(1 .. i) = i
  <2>1. i \in 1 .. i /\ \A j \in 1 .. i : i >= j
    OBVIOUS
  <2>2. \A x \in 1 .. i : (\A j \in 1 .. i : x >= j) => x = i
    OBVIOUS
  <2> QED BY <2>1, <2>2 DEF Max
<1> QED
  BY <1>1

\* A fold over a sequence is the last of a row, each member made of the one before.
IsRow(kind, steps, base, n, r) ==
  /\ r[0] = base
  /\ \A i \in 1 .. n : r[i] = FoldedIn(kind, steps, i, r[i - 1])

\* A fold over the indices of a sequence ends where a row ends.
LEMMA FoldOfSequence ==
  ASSUME NEW kind, kind # "failures", NEW steps, NEW base, NEW n \in Nat
  PROVE  \E r : /\ IsRow(kind, steps, base, n, r)
                /\ r[n] = FoldOver(kind, steps, base, 1 .. n)
<1>1. IsFiniteSet(1 .. n)
  BY FS_Interval
<1>2. \A s \in SUBSET (1 .. n) : s # {} => LastOf(kind, s) \in s
  BY LastIndex DEF LastOf
<1>3. \E it : IsFold(kind, steps, base, 1 .. n, it)
  BY <1>1, <1>2, FoldExists
<1> DEFINE it == CHOOSE jt : IsFold(kind, steps, base, 1 .. n, jt)
<1>4. IsFold(kind, steps, base, 1 .. n, it)
  BY <1>3
<1> HIDE DEF it
<1>5. \A s \in SUBSET (1 .. n) :
        it[s] = IF s = {} THEN base
                ELSE FoldedIn(kind, steps, LastOf(kind, s), it[s \ {LastOf(kind, s)}])
  BY <1>4 DEF IsFold
<1> DEFINE r == [i \in 0 .. n |-> it[1 .. i]]
<1>6. \A i \in 0 .. n : r[i] = it[1 .. i]
  OBVIOUS
<1> HIDE DEF r
<1>7. r[0] = base
  <2>1. {} \in SUBSET (1 .. n)
    OBVIOUS
  <2>2. it[{}] = base
    BY <1>5, <2>1
  <2>3. 1 .. 0 = {}
    OBVIOUS
  <2> QED BY <2>2, <2>3, <1>6
<1>8. ASSUME NEW i \in 1 .. n PROVE r[i] = FoldedIn(kind, steps, i, r[i - 1])
  <2>1. 1 .. i \in SUBSET (1 .. n) /\ 1 .. i # {}
    OBVIOUS
  <2>2. LastOf(kind, 1 .. i) = i /\ (1 .. i) \ {i} = 1 .. (i - 1)
    BY LastOfInterval DEF LastOf
  <2>3. it[1 .. i] = FoldedIn(kind, steps, i, it[1 .. (i - 1)])
    BY <1>5, <2>1, <2>2
  <2>4. r[i] = it[1 .. i] /\ r[i - 1] = it[1 .. (i - 1)]
    BY <1>6
  <2> QED BY <2>3, <2>4
<1>9. IsRow(kind, steps, base, n, r) /\ r[n] = it[1 .. n]
  BY <1>6, <1>7, <1>8 DEF IsRow
<1> QED
  BY <1>9 DEF it, FoldOver

LEMMA FoldOfStatements ==
  ASSUME NEW d, NEW steps, NEW n \in Nat, DOMAIN steps = 1 .. n
  PROVE  \E r : IsRow("statements", steps, d, n, r) /\ r[n] = FoldLeft(Execute, d, steps)
<1>1. FoldLeft(Execute, d, steps) = FoldOver("statements", steps, d, 1 .. n)
  BY DEF FoldOver, FoldLeft, MapThenFoldSet, IsFold, FoldedIn, LastOf
<1> QED
  BY <1>1, FoldOfSequence

LEMMA FoldOfUpgrades ==
  ASSUME NEW d, NEW steps, NEW n \in Nat, DOMAIN steps = 1 .. n
  PROVE  \E r : IsRow("upgrades", steps, d, n, r) /\ r[n] = FoldLeft(UpOne, d, steps)
<1>1. FoldLeft(UpOne, d, steps) = FoldOver("upgrades", steps, d, 1 .. n)
  BY DEF FoldOver, FoldLeft, MapThenFoldSet, IsFold, FoldedIn, LastOf
<1> QED
  BY <1>1, FoldOfSequence

LEMMA FoldOfDowngrades ==
  ASSUME NEW d, NEW steps, NEW n \in Nat, DOMAIN steps = 1 .. n
  PROVE  \E r : IsRow("downgrades", steps, d, n, r) /\ r[n] = FoldLeft(DownOne, d, steps)
<1>1. FoldLeft(DownOne, d, steps) = FoldOver("downgrades", steps, d, 1 .. n)
  BY DEF FoldOver, FoldLeft, MapThenFoldSet, IsFold, FoldedIn, LastOf
<1> QED
  BY <1>1, FoldOfSequence

\* What holds of 0 and passes from each index to the next holds of all.
LEMMA Upwards ==
  ASSUME NEW n \in Nat, NEW T, 0 \in T, \A i \in 1 .. n : i - 1 \in T => i \in T
  PROVE  \A i \in 0 .. n : i \in T
<1> SUFFICES ASSUME (0 .. n) \ T # {} PROVE FALSE
  OBVIOUS
<1>1. PICK k \in (0 .. n) \ T : \A m \in (0 .. n) \ T : k <= m
  <2> DEFINE U == (0 .. n) \ T
  <2>1. U \subseteq Nat /\ U # {}
    OBVIOUS
  <2> HIDE DEF U
  <2>2. \E k \in U : \A m \in U : k <= m
    BY <2>1, Least
  <2> QED BY <2>2 DEF U
<1>2. k \in 1 .. n /\ k - 1 \in 0 .. n
  BY <1>1
<1>3. k - 1 \in T
  BY <1>1, <1>2
<1> QED
  BY <1>1, <1>2, <1>3

-------------------------------------------------------------------------------
(***************************************************************************)
(* Schema migrations: what a statement does                                *)
(***************************************************************************)
Provenance == "source_provenance_records"
Versions == "document_versions"
ProvenanceColumns == TrustColumns \cup {"tls_verified"}
DatabaseFields == DOMAIN Empty

\* A provenance row belongs to a version, and its first column says how it was fetched.
SoundRows(d, how) ==
  /\ DOMAIN d = DatabaseFields
  /\ DOMAIN d.versions \subseteq Version
  /\ DOMAIN d.provenance \subseteq DOMAIN d.versions
  /\ Provenance \in d.tables => <<Provenance, Versions>> \in d.foreign
  /\ DOMAIN d.provenance # {} => Provenance \in d.tables
  /\ \A v \in DOMAIN d.provenance :
       /\ DOMAIN d.provenance[v] = ProvenanceColumns
       /\ d.provenance[v].tls_verified = "yes" <=> how[v] = "strict"

\* The trust mode says it too.
TrustIsEarned(d, how) ==
  \/ d.failed
  \/ /\ <<Provenance, "transport_trust_mode">> \in d.columns
     /\ \A v \in DOMAIN d.provenance :
          d.provenance[v].transport_trust_mode = "STRICT_TLS" <=> how[v] = "strict"

\* No statement makes provenance without its version, or takes away its first column.
Proper(s) ==
  /\ s.op = "create" /\ s.table = Provenance => Versions \in s.names
  /\ s.op = "remove" /\ s.table = Provenance => "tls_verified" \notin s.names

\* It leaves the trust columns alone, or fills them from the first one.
Quiet(s) ==
  /\ s.op # "trustAll"
  /\ s.op \in {"drop", "remove"} => s.table # Provenance

\* What a statement does to the objects and rows the trust of a version depends on.
LEMMA FieldsOfDatabase ==
  DatabaseFields = {"rev", "extension", "tables", "foreign", "columns", "checks", "required",
                    "guarded", "versions", "provenance", "citations", "failed"}
  BY DEF DatabaseFields, Empty

LEMMA PlainStatement ==
  ASSUME NEW d, DOMAIN d = DatabaseFields, NEW s,
         s.op \notin {"create", "drop", "remove", "trust", "trustAll"}
  PROVE  /\ DOMAIN Effect(d, s) = DatabaseFields /\ Effect(d, s).failed = d.failed
         /\ Effect(d, s).provenance = d.provenance /\ Effect(d, s).versions = d.versions
         /\ Effect(d, s).tables = d.tables /\ Effect(d, s).foreign = d.foreign
         /\ d.columns \subseteq Effect(d, s).columns
<1> DEFINE e == Effect(d, s)
<1>1. \/ e = [d EXCEPT !.extension = TRUE]
      \/ e = [d EXCEPT !.extension = FALSE]
      \/ e = [d EXCEPT !.columns = @ \cup {s.table} \X s.names]
      \/ e = [d EXCEPT !.checks = @ \cup {s.table} \X s.names]
      \/ e = [d EXCEPT !.checks = @ \ {s.table} \X s.names]
      \/ e = [d EXCEPT !.required = @ \cup {s.table} \X s.names]
      \/ e = [d EXCEPT !.required = @ \ {s.table} \X s.names]
      \/ e = [d EXCEPT !.guarded = @ \cup s.names]
      \/ e = [d EXCEPT !.guarded = @ \ s.names]
      \/ e = d
  BY DEF Effect
<1> HIDE DEF e
<1>2. /\ DOMAIN e = DatabaseFields /\ e.failed = d.failed
      /\ e.provenance = d.provenance /\ e.versions = d.versions
      /\ e.tables = d.tables /\ e.foreign = d.foreign /\ d.columns \subseteq e.columns
  BY <1>1, FieldsOfDatabase
<1> QED
  BY <1>2 DEF e

LEMMA CreateStatement ==
  ASSUME NEW d, DOMAIN d = DatabaseFields, NEW s, s.op = "create"
  PROVE  /\ DOMAIN Effect(d, s) = DatabaseFields /\ Effect(d, s).failed = d.failed
         /\ Effect(d, s).provenance = d.provenance /\ Effect(d, s).versions = d.versions
         /\ Effect(d, s).tables = d.tables \cup {s.table}
         /\ Effect(d, s).foreign = d.foreign \cup {s.table} \X s.names
         /\ Effect(d, s).columns = d.columns
<1>1. Effect(d, s) = [d EXCEPT !.tables = @ \cup {s.table},
                               !.foreign = @ \cup {s.table} \X s.names]
  BY DEF Effect
<1> QED
  BY <1>1, FieldsOfDatabase

LEMMA DropStatement ==
  ASSUME NEW d, DOMAIN d = DatabaseFields, NEW s, s.op = "drop"
  PROVE  /\ DOMAIN Effect(d, s) = DatabaseFields /\ Effect(d, s).failed = d.failed
         /\ Effect(d, s).provenance = IF s.table = Provenance THEN NoRows ELSE d.provenance
         /\ Effect(d, s).versions = IF s.table = Versions THEN NoRows ELSE d.versions
         /\ Effect(d, s).tables = d.tables \ {s.table}
         /\ Effect(d, s).foreign = {f \in d.foreign : f[1] # s.table}
         /\ Effect(d, s).columns = {c \in d.columns : c[1] # s.table}
<1> DEFINE rest == [d EXCEPT !.tables = @ \ {s.table},
                             !.foreign = {f \in @ : f[1] # s.table},
                             !.columns = {c \in @ : c[1] # s.table},
                             !.checks = {c \in @ : c[1] # s.table},
                             !.required = {c \in @ : c[1] # s.table},
                             !.guarded = @ \ {s.table}]
<1>1. Effect(d, s) = IF Field(s.table) = "none" THEN rest
                     ELSE [rest EXCEPT ![Field(s.table)] = NoRows]
  BY DEF Effect
<1>2. /\ DOMAIN rest = DatabaseFields /\ rest.failed = d.failed
      /\ rest.provenance = d.provenance /\ rest.versions = d.versions
      /\ rest.tables = d.tables \ {s.table}
      /\ rest.foreign = {f \in d.foreign : f[1] # s.table}
      /\ rest.columns = {c \in d.columns : c[1] # s.table}
  BY FieldsOfDatabase
<1> HIDE DEF rest
<1>3. CASE s.table = Provenance
  <2>1. Effect(d, s) = [rest EXCEPT !["provenance"] = NoRows]
    BY <1>1, <1>3 DEF Field, Provenance
  <2> QED BY <1>2, <1>3, <2>1, FieldsOfDatabase DEF Provenance, Versions
<1>4. CASE s.table = Versions
  <2>1. Effect(d, s) = [rest EXCEPT !["versions"] = NoRows]
    BY <1>1, <1>4 DEF Field, Versions
  <2> QED BY <1>2, <1>4, <2>1, FieldsOfDatabase DEF Provenance, Versions
<1>5. CASE s.table \notin {Provenance, Versions}
  <2>1. Effect(d, s) = rest \/ Effect(d, s) = [rest EXCEPT !["citations"] = NoRows]
    BY <1>1, <1>5 DEF Field, Provenance, Versions
  <2> QED BY <1>2, <1>5, <2>1, FieldsOfDatabase
<1> QED
  BY <1>3, <1>4, <1>5

LEMMA RemoveStatement ==
  ASSUME NEW d, DOMAIN d = DatabaseFields, NEW s, s.op = "remove"
  PROVE  /\ DOMAIN Effect(d, s) = DatabaseFields /\ Effect(d, s).failed = d.failed
         /\ DOMAIN Effect(d, s).versions = DOMAIN d.versions
         /\ Effect(d, s).provenance =
              IF s.table = Provenance
              THEN [i \in DOMAIN d.provenance |-> [c \in DOMAIN d.provenance[i] |->
                      IF c \in s.names THEN "null" ELSE d.provenance[i][c]]]
              ELSE d.provenance
         /\ s.table # Provenance => Effect(d, s).provenance = d.provenance
         /\ Effect(d, s).tables = d.tables /\ Effect(d, s).foreign = d.foreign
         /\ Effect(d, s).columns = d.columns \ {s.table} \X s.names
<1> DEFINE reset == Reset(d, s.table, s.names)
<1>1. Effect(d, s) = [reset EXCEPT !.columns = @ \ {s.table} \X s.names,
                                   !.required = @ \ {s.table} \X s.names]
  BY DEF Effect
<1> DEFINE Blank(rows) == [i \in DOMAIN rows |-> [c \in DOMAIN rows[i] |->
                             IF c \in s.names THEN "null" ELSE rows[i][c]]]
<1>2. \/ reset = d /\ s.table # Provenance
      \/ reset = [d EXCEPT !["provenance"] = Blank(d.provenance)] /\ s.table = Provenance
      \/ reset = [d EXCEPT !["versions"] = Blank(d.versions)] /\ s.table # Provenance
      \/ reset = [d EXCEPT !["citations"] = Blank(d.citations)] /\ s.table # Provenance
  <2>1. /\ Field(s.table) \in {"none", "provenance", "versions", "citations"}
        /\ Field(s.table) = "provenance" <=> s.table = Provenance
    BY DEF Field, Provenance
  <2>2. reset = IF Field(s.table) = "none" THEN d
                ELSE [d EXCEPT ![Field(s.table)] = Blank(d[Field(s.table)])]
    BY DEF Reset
  <2> HIDE DEF reset, Blank
  <2>3. /\ d.provenance = d["provenance"] /\ d.versions = d["versions"]
        /\ d.citations = d["citations"]
    OBVIOUS
  <2> QED BY <2>1, <2>2, <2>3
<1> HIDE DEF reset
<1>3. DOMAIN Blank(d.versions) = DOMAIN d.versions
  OBVIOUS
<1> HIDE DEF Blank
<1>4. /\ DOMAIN Effect(d, s) = DatabaseFields /\ Effect(d, s).failed = d.failed
      /\ DOMAIN Effect(d, s).versions = DOMAIN d.versions
      /\ Effect(d, s).provenance = IF s.table = Provenance THEN Blank(d.provenance)
                                   ELSE d.provenance
      /\ Effect(d, s).tables = d.tables /\ Effect(d, s).foreign = d.foreign
      /\ Effect(d, s).columns = d.columns \ {s.table} \X s.names
  BY <1>1, <1>2, <1>3, FieldsOfDatabase
<1> QED
  BY <1>4 DEF Blank

LEMMA TrustStatement ==
  ASSUME NEW d, DOMAIN d = DatabaseFields, NEW s, s.op \in {"trust", "trustAll"},
         \A v \in DOMAIN d.provenance : DOMAIN d.provenance[v] = ProvenanceColumns
  PROVE  /\ DOMAIN Effect(d, s) = DatabaseFields /\ Effect(d, s).failed = d.failed
         /\ Effect(d, s).versions = d.versions
         /\ DOMAIN Effect(d, s).provenance = DOMAIN d.provenance
         /\ \A v \in DOMAIN d.provenance :
              /\ DOMAIN Effect(d, s).provenance[v] = ProvenanceColumns
              /\ Effect(d, s).provenance[v].tls_verified = d.provenance[v].tls_verified
              /\ s.op = "trust" => Effect(d, s).provenance[v].transport_trust_mode =
                   IF d.provenance[v].tls_verified = "yes" THEN "STRICT_TLS"
                   ELSE "LEGACY_UNVERIFIED"
         /\ Effect(d, s).tables = d.tables /\ Effect(d, s).foreign = d.foreign
         /\ Effect(d, s).columns = d.columns
<1>0. ProvenanceColumns = {"transport_trust_mode", "tls_chain_verified", "tls_hostname_verified",
                           "pin_set_id", "tls_verified"}
  BY DEF ProvenanceColumns, TrustColumns
<1>1. CASE s.op = "trust"
  <2> DEFINE rows == [v \in DOMAIN d.provenance |-> Trusted(d.provenance[v])]
  <2>1. Effect(d, s) = [d EXCEPT !.provenance = rows]
    BY <1>1 DEF Effect
  <2>2. ASSUME NEW v \in DOMAIN d.provenance
        PROVE  /\ DOMAIN rows[v] = ProvenanceColumns
               /\ rows[v].tls_verified = d.provenance[v].tls_verified
               /\ rows[v].transport_trust_mode =
                    IF d.provenance[v].tls_verified = "yes" THEN "STRICT_TLS"
                    ELSE "LEGACY_UNVERIFIED"
    <3>1. DOMAIN d.provenance[v] = ProvenanceColumns /\ rows[v] = Trusted(d.provenance[v])
      OBVIOUS
    <3> HIDE DEF rows
    <3> QED BY <1>0, <3>1 DEF Trusted
  <2>3. DOMAIN rows = DOMAIN d.provenance
    OBVIOUS
  <2> HIDE DEF rows
  <2> QED BY <2>1, <2>2, <2>3, FieldsOfDatabase
<1>2. CASE s.op = "trustAll"
  <2> DEFINE rows == [v \in DOMAIN d.provenance |->
                        [d.provenance[v] EXCEPT !.transport_trust_mode = "STRICT_TLS"]]
  <2>1. Effect(d, s) = [d EXCEPT !.provenance = rows]
    BY <1>2 DEF Effect
  <2>2. ASSUME NEW v \in DOMAIN d.provenance
        PROVE  /\ DOMAIN rows[v] = ProvenanceColumns
               /\ rows[v].tls_verified = d.provenance[v].tls_verified
    BY <1>0
  <2>3. DOMAIN rows = DOMAIN d.provenance
    OBVIOUS
  <2> HIDE DEF rows
  <2> QED BY <1>2, <2>1, <2>2, <2>3, FieldsOfDatabase
<1> QED
  BY <1>1, <1>2

\* Statements that are proper keep the rows sound, quiet ones the trust earned.
LEMMA StatementKeepsRows ==
  ASSUME NEW d, NEW how, NEW s, SoundRows(d, how), Proper(s)
  PROVE  SoundRows(Execute(d, s), how)
<1>1. CASE d.failed \/ ~Allowed(d, s)
  <2>1. Execute(d, s) = [d EXCEPT !.failed = TRUE]
    BY <1>1 DEF Execute
  <2> QED BY <2>1, FieldsOfDatabase DEF SoundRows
<1>2. CASE ~(d.failed \/ ~Allowed(d, s))
  <2> DEFINE e == Effect(d, s)
  <2>0. Execute(d, s) = e /\ Allowed(d, s)
    BY <1>2 DEF Execute
  <2>1. CASE s.op \notin {"create", "drop", "remove", "trust", "trustAll"}
    <3>1. /\ DOMAIN e = DatabaseFields /\ e.provenance = d.provenance
          /\ e.versions = d.versions /\ e.tables = d.tables /\ e.foreign = d.foreign
      BY <2>1, PlainStatement DEF SoundRows
    <3> HIDE DEF e
    <3> QED BY <2>0, <3>1 DEF SoundRows
  <2>2. CASE s.op = "create"
    <3>1. /\ DOMAIN e = DatabaseFields /\ e.provenance = d.provenance
          /\ e.versions = d.versions /\ e.tables = d.tables \cup {s.table}
          /\ e.foreign = d.foreign \cup {s.table} \X s.names
      BY <2>2, CreateStatement DEF SoundRows
    <3>2. s.table = Provenance => Versions \in s.names
      BY <2>2 DEF Proper
    <3> HIDE DEF e
    <3> QED BY <2>0, <3>1, <3>2 DEF SoundRows
  <2>3. CASE s.op = "drop"
    <3>1. /\ DOMAIN e = DatabaseFields
          /\ e.provenance = (IF s.table = Provenance THEN NoRows ELSE d.provenance)
          /\ e.versions = (IF s.table = Versions THEN NoRows ELSE d.versions)
          /\ e.tables = d.tables \ {s.table}
          /\ e.foreign = {f \in d.foreign : f[1] # s.table}
      BY <2>3, DropStatement DEF SoundRows
    <3>2. DOMAIN NoRows = {}
      BY DEF NoRows
    <3>3. \A f \in d.foreign : f[2] = s.table => f[1] = s.table
      BY <2>0, <2>3 DEF Allowed
    <3>4. Provenance # Versions
      BY DEF Provenance, Versions
    <3> HIDE DEF e
    <3>5. CASE s.table = Provenance
      BY <2>0, <3>1, <3>2, <3>4, <3>5 DEF SoundRows
    <3>6. CASE s.table = Versions
      <4>1. Provenance \notin d.tables /\ DOMAIN d.provenance = {}
        BY <3>3, <3>4, <3>6 DEF SoundRows
      <4> QED BY <2>0, <3>1, <3>2, <3>4, <3>6, <4>1 DEF SoundRows
    <3>7. CASE s.table \notin {Provenance, Versions}
      BY <2>0, <3>1, <3>7 DEF SoundRows
    <3> QED BY <3>5, <3>6, <3>7
  <2>4. CASE s.op = "remove"
    <3> DEFINE Blank(row) == [c \in DOMAIN row |-> IF c \in s.names THEN "null" ELSE row[c]]
    <3>1. /\ DOMAIN e = DatabaseFields /\ DOMAIN e.versions = DOMAIN d.versions
          /\ e.provenance = (IF s.table = Provenance
                             THEN [i \in DOMAIN d.provenance |-> Blank(d.provenance[i])]
                             ELSE d.provenance)
          /\ e.tables = d.tables /\ e.foreign = d.foreign
      BY <2>4, RemoveStatement DEF SoundRows
    <3>2. s.table = Provenance => "tls_verified" \notin s.names
      BY <2>4 DEF Proper
    <3>3. ASSUME NEW v \in DOMAIN d.provenance, s.table = Provenance
          PROVE  /\ DOMAIN Blank(d.provenance[v]) = ProvenanceColumns
                 /\ Blank(d.provenance[v]).tls_verified = d.provenance[v].tls_verified
      BY <3>2, <3>3 DEF SoundRows, ProvenanceColumns
    <3> HIDE DEF e, Blank
    <3> QED BY <2>0, <3>1, <3>3 DEF SoundRows
  <2>5. CASE s.op \in {"trust", "trustAll"}
    <3>1. /\ DOMAIN e = DatabaseFields /\ e.versions = d.versions
          /\ DOMAIN e.provenance = DOMAIN d.provenance
          /\ \A v \in DOMAIN d.provenance :
               /\ DOMAIN e.provenance[v] = ProvenanceColumns
               /\ e.provenance[v].tls_verified = d.provenance[v].tls_verified
          /\ e.tables = d.tables /\ e.foreign = d.foreign
      BY <2>5, TrustStatement DEF SoundRows
    <3> HIDE DEF e
    <3> QED BY <2>0, <3>1 DEF SoundRows
  <2> QED BY <2>1, <2>2, <2>3, <2>4, <2>5
<1> QED BY <1>1, <1>2

LEMMA StatementKeepsTrust ==
  ASSUME NEW d, NEW how, NEW s, SoundRows(d, how), TrustIsEarned(d, how), Quiet(s)
  PROVE  TrustIsEarned(Execute(d, s), how)
<1>1. CASE d.failed \/ ~Allowed(d, s)
  <2>1. Execute(d, s) = [d EXCEPT !.failed = TRUE]
    BY <1>1 DEF Execute
  <2> QED BY <2>1, FieldsOfDatabase DEF SoundRows, TrustIsEarned
<1>2. CASE ~(d.failed \/ ~Allowed(d, s))
  <2> DEFINE e == Effect(d, s)
  <2>0. /\ Execute(d, s) = e
        /\ <<Provenance, "transport_trust_mode">> \in d.columns
        /\ \A v \in DOMAIN d.provenance :
             d.provenance[v].transport_trust_mode = "STRICT_TLS" <=> how[v] = "strict"
    BY <1>2 DEF Execute, TrustIsEarned
  <2>1. CASE s.op \notin {"create", "drop", "remove", "trust", "trustAll"}
    <3>1. e.provenance = d.provenance /\ d.columns \subseteq e.columns
      BY <2>1, PlainStatement DEF SoundRows
    <3> HIDE DEF e
    <3> QED BY <2>0, <3>1 DEF TrustIsEarned
  <2>2. CASE s.op = "create"
    <3>1. e.provenance = d.provenance /\ d.columns = e.columns
      BY <2>2, CreateStatement DEF SoundRows
    <3> HIDE DEF e
    <3> QED BY <2>0, <3>1 DEF TrustIsEarned
  <2>3. CASE s.op = "drop"
    <3>1. s.table # Provenance
      BY <2>3 DEF Quiet
    <3>2. /\ e.provenance = d.provenance
          /\ e.columns = {c \in d.columns : c[1] # s.table}
      BY <2>3, <3>1, DropStatement DEF SoundRows
    <3> HIDE DEF e
    <3> QED BY <2>0, <3>1, <3>2 DEF TrustIsEarned
  <2>4. CASE s.op = "remove"
    <3>1. s.table # Provenance
      BY <2>4 DEF Quiet
    <3>2. e.provenance = d.provenance /\ e.columns = d.columns \ {s.table} \X s.names
      <4>1. DOMAIN d = DatabaseFields
        BY DEF SoundRows
      <4> QED BY <2>4, <3>1, <4>1, RemoveStatement
    <3> HIDE DEF e
    <3> QED BY <2>0, <3>1, <3>2 DEF TrustIsEarned
  <2>5. CASE s.op = "trust"
    <3>1. /\ DOMAIN e.provenance = DOMAIN d.provenance /\ e.columns = d.columns
          /\ \A v \in DOMAIN d.provenance :
               e.provenance[v].transport_trust_mode =
                 IF d.provenance[v].tls_verified = "yes" THEN "STRICT_TLS"
                 ELSE "LEGACY_UNVERIFIED"
      BY <2>5, TrustStatement DEF SoundRows
    <3> HIDE DEF e
    <3> QED BY <2>0, <3>1 DEF TrustIsEarned, SoundRows
  <2> QED BY <2>1, <2>2, <2>3, <2>4, <2>5 DEF Quiet
<1> QED BY <1>1, <1>2

\* 0006 gives the rows that are there the trust they were fetched with.
LEMMA TrustIsMade ==
  ASSUME NEW d, NEW how, NEW s, NEW t, SoundRows(d, how), Proper(s),
         s = AddColumns(Provenance, TrustColumns), t = Do("trust")
  PROVE  TrustIsEarned(Execute(Execute(d, s), t), how)
<1> DEFINE e == Execute(d, s)
           f == Execute(e, t)
<1> SUFFICES TrustIsEarned(f, how)
  OBVIOUS
<1>1. SoundRows(e, how)
  BY StatementKeepsRows
<1>2. CASE d.failed \/ ~Allowed(d, s)
  <2>1. e = [d EXCEPT !.failed = TRUE]
    BY <1>2 DEF Execute
  <2>2. e.failed
    BY <2>1, FieldsOfDatabase DEF SoundRows
  <2> HIDE DEF e
  <2>3. f = [e EXCEPT !.failed = TRUE]
    BY <2>2 DEF Execute
  <2> QED BY <1>1, <2>3, FieldsOfDatabase DEF SoundRows, TrustIsEarned
<1>3. CASE ~(d.failed \/ ~Allowed(d, s))
  <2>1. e = [d EXCEPT !.columns = @ \cup {Provenance} \X TrustColumns]
    BY <1>3 DEF Execute, Effect, AddColumns
  <2>2. <<Provenance, "transport_trust_mode">> \in e.columns
    BY <2>1, FieldsOfDatabase DEF SoundRows, TrustColumns
  <2> HIDE DEF e
  <2>3. CASE e.failed \/ ~Allowed(e, t)
    <3>1. f = [e EXCEPT !.failed = TRUE]
      BY <2>3 DEF Execute
    <3> QED BY <1>1, <3>1, FieldsOfDatabase DEF SoundRows, TrustIsEarned
  <2>4. CASE ~(e.failed \/ ~Allowed(e, t))
    <3>1. f = Effect(e, t) /\ t.op = "trust"
      BY <2>4 DEF Execute, Do
    <3>2. /\ DOMAIN f.provenance = DOMAIN e.provenance /\ f.columns = e.columns
          /\ \A v \in DOMAIN e.provenance :
               f.provenance[v].transport_trust_mode =
                 IF e.provenance[v].tls_verified = "yes" THEN "STRICT_TLS"
                 ELSE "LEGACY_UNVERIFIED"
      BY <1>1, <3>1, TrustStatement DEF SoundRows
    <3> HIDE DEF f
    <3> QED BY <1>1, <2>2, <3>2 DEF TrustIsEarned, SoundRows
  <2> QED BY <2>3, <2>4
<1> QED
  BY <1>2, <1>3

-------------------------------------------------------------------------------
(***************************************************************************)
(* Schema migrations: what a revision is made of. Revision 0006 fills the  *)
(* trust columns from how a row was fetched; no later one touches them but *)
(* by dropping them.                                                       *)
(***************************************************************************)

\* Rows of statements: sound stays sound, earned stays earned.
LEMMA ProperStatements ==
  ASSUME NEW d, NEW how, NEW steps, NEW n \in Nat, DOMAIN steps = 1 .. n,
         SoundRows(d, how), \A i \in 1 .. n : Proper(steps[i])
  PROVE  SoundRows(FoldLeft(Execute, d, steps), how)
<1>1. PICK r : IsRow("statements", steps, d, n, r) /\ r[n] = FoldLeft(Execute, d, steps)
  BY FoldOfStatements
<1> DEFINE T == {i \in 0 .. n : SoundRows(r[i], how)}
<1>2. 0 \in T
  BY <1>1 DEF IsRow
<1>3. ASSUME NEW i \in 1 .. n, i - 1 \in T PROVE i \in T
  <2>1. r[i] = Execute(r[i - 1], steps[i])
    BY <1>1 DEF IsRow, FoldedIn
  <2> QED BY <1>3, <2>1, StatementKeepsRows
<1> HIDE DEF T
<1>4. n \in T
  <2>1. \A i \in 0 .. n : i \in T
    BY <1>2, <1>3, Upwards
  <2> QED BY <2>1
<1> QED
  BY <1>1, <1>4 DEF T

LEMMA QuietStatements ==
  ASSUME NEW d, NEW how, NEW steps, NEW n \in Nat, DOMAIN steps = 1 .. n,
         SoundRows(d, how), \A i \in 1 .. n : Proper(steps[i]),
         \/ TrustIsEarned(d, how) /\ \A i \in 1 .. n : Quiet(steps[i])
         \/ /\ n >= 2 /\ steps[1] = AddColumns(Provenance, TrustColumns) /\ steps[2] = Do("trust")
            /\ \A i \in 3 .. n : Quiet(steps[i])
  PROVE  TrustIsEarned(FoldLeft(Execute, d, steps), how)
<1>1. PICK r : IsRow("statements", steps, d, n, r) /\ r[n] = FoldLeft(Execute, d, steps)
  BY FoldOfStatements
<1>2. r[0] = d /\ \A i \in 1 .. n : r[i] = Execute(r[i - 1], steps[i])
  BY <1>1 DEF IsRow, FoldedIn
<1> DEFINE T == {i \in 0 .. n :
             /\ SoundRows(r[i], how)
             /\ \/ TrustIsEarned(r[i], how) /\ \A j \in i + 1 .. n : Quiet(steps[j])
                \/ i \in {0, 1} /\ n >= 2 /\ r[2] = Execute(Execute(d, steps[1]), steps[2])
                   /\ TrustIsEarned(r[2], how) /\ \A j \in 3 .. n : Quiet(steps[j])}
<1>3. 0 \in T
  <2>1. CASE TrustIsEarned(d, how) /\ \A i \in 1 .. n : Quiet(steps[i])
    BY <1>2, <2>1
  <2>2. CASE /\ n >= 2 /\ steps[1] = AddColumns(Provenance, TrustColumns)
             /\ steps[2] = Do("trust") /\ \A i \in 3 .. n : Quiet(steps[i])
    <3>1. r[1] = Execute(d, steps[1]) /\ r[2] = Execute(r[1], steps[2])
      <4>1. 1 \in 1 .. n /\ 2 \in 1 .. n /\ 1 - 1 = 0 /\ 2 - 1 = 1
        BY <2>2
      <4> QED BY <1>2, <4>1
    <3>2. Proper(steps[1])
      BY <2>2
    <3>3. TrustIsEarned(Execute(Execute(d, steps[1]), steps[2]), how)
      BY <2>2, <3>2, TrustIsMade
    <3> QED BY <1>2, <2>2, <3>1, <3>3
  <2> QED BY <2>1, <2>2
<1>4. ASSUME NEW i \in 1 .. n, i - 1 \in T PROVE i \in T
  <2>1. r[i] = Execute(r[i - 1], steps[i]) /\ SoundRows(r[i], how)
    BY <1>2, <1>4, StatementKeepsRows
  <2>2. CASE TrustIsEarned(r[i - 1], how) /\ \A j \in (i - 1) + 1 .. n : Quiet(steps[j])
    <3>1. Quiet(steps[i])
      BY <2>2
    <3>2. TrustIsEarned(r[i], how)
      BY <1>4, <2>1, <2>2, <3>1, StatementKeepsTrust
    <3> QED BY <2>1, <2>2, <3>2
  <2>3. CASE i - 1 \in {0, 1} /\ n >= 2 /\ r[2] = Execute(Execute(d, steps[1]), steps[2])
             /\ TrustIsEarned(r[2], how) /\ \A j \in 3 .. n : Quiet(steps[j])
    <3>1. i = 1 \/ i = 2
      BY <2>3
    <3>2. CASE i = 1
      BY <2>1, <2>3, <3>2
    <3>3. CASE i = 2
      <4>1. TrustIsEarned(r[i], how) /\ \A j \in i + 1 .. n : Quiet(steps[j])
        BY <2>3, <3>3
      <4> QED BY <2>1, <4>1
    <3> QED BY <3>1, <3>2, <3>3
  <2> QED BY <1>4, <2>2, <2>3
<1> HIDE DEF T
<1>5. n \in T
  <2>1. \A i \in 0 .. n : i \in T
    BY <1>3, <1>4, Upwards
  <2> QED BY <2>1
<1>6. TrustIsEarned(r[n], how)
  BY <1>5, <1>2 DEF T
<1> QED
  BY <1>1, <1>6

\* The statements of a revision are in a row, and proper.
InOrder(steps) ==
  \E n \in Nat : DOMAIN steps = 1 .. n /\ \A i \in 1 .. n : Proper(steps[i])

Calm(steps) == \A i \in DOMAIN steps : Quiet(steps[i])

\* By the kind of a statement.
LEMMA KindsOfStatements ==
  /\ \A t, names : /\ Proper(AddColumns(t, names)) /\ Quiet(AddColumns(t, names))
                   /\ Proper(Checks(t, names)) /\ Quiet(Checks(t, names))
                   /\ Proper(Unchecks(t, names)) /\ Quiet(Unchecks(t, names))
                   /\ Proper(Require(t, names)) /\ Quiet(Require(t, names))
                   /\ Proper(Release(t, names)) /\ Quiet(Release(t, names))
                   /\ Quiet(Create(t, names))
                   /\ t # Provenance \/ Versions \in names => Proper(Create(t, names))
                   /\ t # Provenance \/ "tls_verified" \notin names => Proper(DropColumns(t, names))
                   /\ t # Provenance => Quiet(DropColumns(t, names))
  /\ \A names : /\ Proper(Guard(names)) /\ Quiet(Guard(names))
                /\ Proper(Unguard(names)) /\ Quiet(Unguard(names))
  /\ \A what : what \in {"extension", "unextension", "trust", "refuseLoss"} =>
       Proper(Do(what)) /\ Quiet(Do(what))
  BY DEF Proper, Quiet, Create, AddColumns, DropColumns, Checks, Unchecks, Require, Release, Guard,
         Unguard, Do, Provenance

Drop(t) == [op |-> "drop", table |-> t, names |-> {}]

\* What a list of drops, or two lists one after the other, is made of.
LEMMA DropsAreQuiet == \A t : Proper(Drop(t)) /\ (t # Provenance => Quiet(Drop(t)))
  BY DEF Drop, Proper, Quiet

LEMMA JoinedStatements ==
  /\ Down0003 \in Seq({Drop("citation_records"), Drop("retrieval_runs"),
                      DropColumns("document_chunks", {"search_vector"})})
  /\ Down0012 \in Seq({Unguard({Registry[k] : k \in 1 .. 4}), Drop(Registry[4]),
                      Drop(Registry[3]), Drop(Registry[2]), Drop(Registry[1])})
<1>1. ASSUME NEW a, NEW b, NEW S, Drop(a) \in S, Drop(b) \in S
      PROVE  DropTables(<< a, b >>) \in Seq(S)
  <2>1. DropTables(<< a, b >>) = << Drop(a), Drop(b) >>
    BY DEF DropTables, Drop
  <2>2. \A x, y \in S : << x, y >> \in Seq(S)
    OBVIOUS
  <2> QED BY <1>1, <2>1, <2>2
<1>2. ASSUME NEW a, NEW b, NEW c, NEW d, NEW S,
             Drop(a) \in S, Drop(b) \in S, Drop(c) \in S, Drop(d) \in S
      PROVE  DropTables(<< a, b, c, d >>) \in Seq(S)
  <2>1. DropTables(<< a, b, c, d >>) = << Drop(a), Drop(b), Drop(c), Drop(d) >>
    BY DEF DropTables, Drop
  <2>2. \A w, x, y, z \in S : << w, x, y, z >> \in Seq(S)
    OBVIOUS
  <2> QED BY <1>2, <2>1, <2>2
<1>3. ASSUME NEW s, NEW x, NEW S, s \in Seq(S), x \in S
      PROVE  s \o << x >> \in Seq(S) /\ << x >> \o s \in Seq(S)
  <2>1. << x >> \in Seq(S)
    BY <1>3
  <2> QED BY <1>3, <2>1, ConcatProperties
<1> QED
  BY <1>1, <1>2, <1>3 DEF Down0003, Down0012

LEMMA MembersInOrder ==
  ASSUME NEW S, NEW steps \in Seq(S)
  PROVE  /\ (\A s \in S : Proper(s)) => InOrder(steps)
         /\ (\A s \in S : Quiet(s)) => Calm(steps)
<1>1. Len(steps) \in Nat /\ DOMAIN steps = 1 .. Len(steps)
      /\ \A i \in 1 .. Len(steps) : steps[i] \in S
  OBVIOUS
<1> QED
  BY <1>1 DEF InOrder, Calm

\* The revisions as they are written.
LEMMA UpgradesAreInOrder == \A k \in 1 .. Latest : InOrder(Up[k])
<1>1. InOrder(Up0001)
  <2>1. DOMAIN Up0001 = 1 .. 1 /\ \A i \in 1 .. 1 : Proper(Up0001[i])
    BY KindsOfStatements DEF Up0001
  <2> QED BY <2>1 DEF InOrder
<1>2. InOrder(Up0002)
  <2>1. DOMAIN Up0002 = 1 .. 5 /\ \A i \in 1 .. 5 : Proper(Up0002[i])
    BY KindsOfStatements DEF Up0002, Provenance, Versions
  <2> QED BY <2>1 DEF InOrder
<1>3. InOrder(Up0003)
  <2>1. DOMAIN Up0003 = 1 .. 5 /\ \A i \in 1 .. 5 : Proper(Up0003[i])
    BY KindsOfStatements DEF Up0003, Provenance, Versions
  <2> QED BY <2>1 DEF InOrder
<1>4. InOrder(Up0004)
  <2>1. DOMAIN Up0004 = 1 .. 3 /\ \A i \in 1 .. 3 : Proper(Up0004[i])
    BY KindsOfStatements DEF Up0004, Provenance, Versions
  <2> QED BY <2>1 DEF InOrder
<1>5. InOrder(Up0005)
  <2>1. DOMAIN Up0005 = 1 .. 2 /\ \A i \in 1 .. 2 : Proper(Up0005[i])
    BY KindsOfStatements DEF Up0005, Provenance, Versions
  <2> QED BY <2>1 DEF InOrder
<1>6. InOrder(Up0006)
  <2>1. DOMAIN Up0006 = 1 .. 6 /\ \A i \in 1 .. 6 : Proper(Up0006[i])
    BY KindsOfStatements DEF Up0006
  <2> QED BY <2>1 DEF InOrder
<1>7. InOrder(Up0007)
  <2>1. DOMAIN Up0007 = 1 .. 2 /\ \A i \in 1 .. 2 : Proper(Up0007[i])
    BY KindsOfStatements DEF Up0007, Provenance, Versions
  <2> QED BY <2>1 DEF InOrder
<1>8. InOrder(Up0008)
  <2>1. DOMAIN Up0008 = 1 .. 0 /\ \A i \in 1 .. 0 : Proper(Up0008[i])
    BY KindsOfStatements DEF Up0008
  <2> QED BY <2>1 DEF InOrder
<1>9. InOrder(Up0009)
  <2>1. DOMAIN Up0009 = 1 .. 4 /\ \A i \in 1 .. 4 : Proper(Up0009[i])
    BY KindsOfStatements DEF Up0009
  <2> QED BY <2>1 DEF InOrder
<1>10. InOrder(Up0010)
  <2>1. DOMAIN Up0010 = 1 .. 2 /\ \A i \in 1 .. 2 : Proper(Up0010[i])
    BY KindsOfStatements DEF Up0010
  <2> QED BY <2>1 DEF InOrder
<1>11. InOrder(Up0011)
  <2>1. DOMAIN Up0011 = 1 .. 1 /\ \A i \in 1 .. 1 : Proper(Up0011[i])
    BY KindsOfStatements DEF Up0011
  <2> QED BY <2>1 DEF InOrder
<1>12. InOrder(Up0012)
  <2>1. DOMAIN Up0012 = 1 .. 5 /\ \A i \in 1 .. 5 : Proper(Up0012[i])
    BY KindsOfStatements DEF Up0012, Registry, Provenance, Versions
  <2> QED BY <2>1 DEF InOrder
<1>13. \A k \in 1 .. Latest : k \in {1, 2, 3, 4, 5, 6, 7, 8, 9, 10, 11, 12}
  BY DEF Latest
<1> QED
  BY <1>1, <1>2, <1>3, <1>4, <1>5, <1>6, <1>7, <1>8, <1>9, <1>10, <1>11, <1>12, <1>13 DEF Up

LEMMA DowngradesAreInOrder == \A k \in 1 .. Latest : InOrder(Down[k])
<1>1. InOrder(Down0001)
  <2>1. DOMAIN Down0001 = 1 .. 1 /\ \A i \in 1 .. 1 : Proper(Down0001[i])
    BY KindsOfStatements DEF Down0001
  <2> QED BY <2>1 DEF InOrder
<1>2. InOrder(Down0002)
  <2>1. DOMAIN Down0002 = 1 .. 5 /\ \A i \in 1 .. 5 : Proper(Down0002[i])
    BY DEF Down0002, DropTables, Proper
  <2> QED BY <2>1 DEF InOrder
<1>3. InOrder(Down0003)
  BY JoinedStatements, MembersInOrder, KindsOfStatements, DropsAreQuiet
<1>4. InOrder(Down0004)
  <2>1. DOMAIN Down0004 = 1 .. 3 /\ \A i \in 1 .. 3 : Proper(Down0004[i])
    BY DEF Down0004, DropTables, Proper
  <2> QED BY <2>1 DEF InOrder
<1>5. InOrder(Down0005)
  <2>1. DOMAIN Down0005 = 1 .. 2 /\ \A i \in 1 .. 2 : Proper(Down0005[i])
    BY DEF Down0005, DropTables, Proper
  <2> QED BY <2>1 DEF InOrder
<1>6. InOrder(Down0006)
  <2>1. DOMAIN Down0006 = 1 .. 3 /\ \A i \in 1 .. 3 : Proper(Down0006[i])
    BY KindsOfStatements DEF Down0006, TrustColumns
  <2> QED BY <2>1 DEF InOrder
<1>7. InOrder(Down0007)
  <2>1. DOMAIN Down0007 = 1 .. 2 /\ \A i \in 1 .. 2 : Proper(Down0007[i])
    BY DEF Down0007, DropTables, Proper
  <2> QED BY <2>1 DEF InOrder
<1>8. InOrder(Down0008)
  <2>1. DOMAIN Down0008 = 1 .. 0 /\ \A i \in 1 .. 0 : Proper(Down0008[i])
    BY KindsOfStatements DEF Down0008
  <2> QED BY <2>1 DEF InOrder
<1>9. InOrder(Down0009)
  <2>1. DOMAIN Down0009 = 1 .. 5 /\ \A i \in 1 .. 5 : Proper(Down0009[i])
    BY KindsOfStatements DEF Down0009
  <2> QED BY <2>1 DEF InOrder
<1>10. InOrder(Down0010)
  <2>1. DOMAIN Down0010 = 1 .. 2 /\ \A i \in 1 .. 2 : Proper(Down0010[i])
    BY KindsOfStatements DEF Down0010
  <2> QED BY <2>1 DEF InOrder
<1>11. InOrder(Down0011)
  <2>1. DOMAIN Down0011 = 1 .. 1 /\ \A i \in 1 .. 1 : Proper(Down0011[i])
    BY KindsOfStatements DEF Down0011, MetadataColumns
  <2> QED BY <2>1 DEF InOrder
<1>12. InOrder(Down0012)
  <2> DEFINE S == {Unguard({Registry[k] : k \in 1 .. 4}), Drop(Registry[4]), Drop(Registry[3]),
                   Drop(Registry[2]), Drop(Registry[1])}
  <2>1. \A s \in S : Proper(s)
    BY KindsOfStatements, DropsAreQuiet
  <2>2. Down0012 \in Seq(S)
    BY JoinedStatements
  <2> HIDE DEF S
  <2> QED BY <2>1, <2>2, MembersInOrder
<1>13. \A k \in 1 .. Latest : k \in {1, 2, 3, 4, 5, 6, 7, 8, 9, 10, 11, 12}
  BY DEF Latest
<1> QED
  BY <1>1, <1>2, <1>3, <1>4, <1>5, <1>6, <1>7, <1>8, <1>9, <1>10, <1>11, <1>12, <1>13 DEF Down

LEMMA LaterRevisionsAreCalm == \A k \in 7 .. Latest : Calm(Up[k]) /\ Calm(Down[k])
<1>7. Calm(Up0007) /\ Calm(Down0007)
  <2>1. Calm(Up0007)
    BY KindsOfStatements DEF Calm, Up0007
  <2>2. Calm(Down0007)
    BY DEF Calm, Down0007, DropTables, Quiet, Provenance
  <2> QED BY <2>1, <2>2
<1>8. Calm(Up0008) /\ Calm(Down0008)
  BY KindsOfStatements DEF Calm, Up0008, Down0008, Provenance
<1>9. Calm(Up0009) /\ Calm(Down0009)
  BY KindsOfStatements DEF Calm, Up0009, Down0009, Provenance
<1>10. Calm(Up0010) /\ Calm(Down0010)
  BY KindsOfStatements DEF Calm, Up0010, Down0010, Provenance
<1>11. Calm(Up0011) /\ Calm(Down0011)
  BY KindsOfStatements DEF Calm, Up0011, Down0011, Provenance
<1>12. Calm(Up0012) /\ Calm(Down0012)
  <2>1. Calm(Up0012)
    BY KindsOfStatements DEF Calm, Up0012
  <2>2. Calm(Down0012)
    <3> DEFINE S == {Unguard({Registry[k] : k \in 1 .. 4}), Drop(Registry[4]),
                     Drop(Registry[3]), Drop(Registry[2]), Drop(Registry[1])}
    <3>1. \A k \in 1 .. 4 : Registry[k] # Provenance
      BY DEF Registry, Provenance
    <3>2. \A s \in S : Quiet(s)
      BY <3>1, KindsOfStatements, DropsAreQuiet
    <3>3. Down0012 \in Seq(S)
      BY JoinedStatements
    <3> HIDE DEF S
    <3> QED BY <3>2, <3>3, MembersInOrder
  <2> QED BY <2>1, <2>2
<1>13. \A k \in 7 .. Latest : k \in {7, 8, 9, 10, 11, 12}
  BY DEF Latest
<1> QED
  BY <1>7, <1>8, <1>9, <1>10, <1>11, <1>12, <1>13 DEF Up, Down

\* 0006 adds the trust columns, fills them, and then only constrains them.
LEMMA TrustRevision ==
  /\ DOMAIN Up[6] = 1 .. 6
  /\ Up[6][1] = AddColumns(Provenance, TrustColumns) /\ Up[6][2] = Do("trust")
  /\ \A i \in 3 .. 6 : Quiet(Up[6][i])
<1>1. Up[6] = Up0006
  BY DEF Up
<1>2. \A i \in 3 .. 6 : i \in {3, 4, 5, 6}
  OBVIOUS
<1> QED
  BY <1>1, <1>2, KindsOfStatements DEF Up0006, Provenance

-------------------------------------------------------------------------------
(***************************************************************************)
(* Schema migrations: a command, any number of revisions up or down        *)
(***************************************************************************)

\* A database whose rows are sound, and trusted as they were fetched where there is trust.
Faithful(d, how) == SoundRows(d, how) /\ (d.rev >= 6 => TrustIsEarned(d, how))

\* One revision, up or down.
LEMMA UpOneKeeps ==
  ASSUME NEW d, NEW how, NEW k \in 1 .. Latest, Faithful(d, how), d.rev = k - 1
  PROVE  Faithful(UpOne(d, k), how) /\ UpOne(d, k).rev = k
<1> DEFINE e == FoldLeft(Execute, d, Up[k])
<1>1. PICK n \in Nat : DOMAIN Up[k] = 1 .. n /\ \A i \in 1 .. n : Proper(Up[k][i])
  BY UpgradesAreInOrder DEF InOrder
<1>2. SoundRows(e, how)
  BY <1>1, ProperStatements DEF Faithful
<1>3. k >= 6 => TrustIsEarned(e, how)
  <2>1. CASE k = 6
    <3>1. \/ TrustIsEarned(d, how) /\ \A i \in 1 .. 6 : Quiet(Up[6][i])
          \/ /\ 6 >= 2 /\ Up[6][1] = AddColumns(Provenance, TrustColumns) /\ Up[6][2] = Do("trust")
             /\ \A i \in 3 .. 6 : Quiet(Up[6][i])
      BY TrustRevision
    <3>2. DOMAIN Up[6] = 1 .. 6 /\ \A i \in 1 .. 6 : Proper(Up[6][i])
      BY <1>1, <2>1, TrustRevision
    <3>3. SoundRows(d, how)
      BY DEF Faithful
    <3>4. TrustIsEarned(FoldLeft(Execute, d, Up[6]), how)
      BY <3>1, <3>2, <3>3, QuietStatements
    <3> QED BY <2>1, <3>4
  <2>2. CASE k >= 7
    <3>1. TrustIsEarned(d, how) /\ SoundRows(d, how)
      BY <2>2 DEF Faithful, Latest
    <3>2. \A i \in 1 .. n : Quiet(Up[k][i])
      BY <1>1, <2>2, LaterRevisionsAreCalm DEF Calm
    <3> QED BY <1>1, <3>1, <3>2, QuietStatements
  <2> QED BY <2>1, <2>2 DEF Latest
<1> HIDE DEF e
<1>4. UpOne(d, k) = [e EXCEPT !.rev = k]
  BY DEF UpOne, e
<1> HIDE DEF e
<1> QED
  BY <1>2, <1>3, <1>4, FieldsOfDatabase DEF Faithful, SoundRows, TrustIsEarned

LEMMA DownOneKeeps ==
  ASSUME NEW d, NEW how, NEW k \in 1 .. Latest, Faithful(d, how), d.rev = k
  PROVE  Faithful(DownOne(d, k), how) /\ DownOne(d, k).rev = k - 1
<1> DEFINE e == FoldLeft(Execute, d, Down[k])
<1>1. PICK n \in Nat : DOMAIN Down[k] = 1 .. n /\ \A i \in 1 .. n : Proper(Down[k][i])
  BY DowngradesAreInOrder DEF InOrder
<1>2. SoundRows(e, how)
  BY <1>1, ProperStatements DEF Faithful
<1>3. k - 1 >= 6 => TrustIsEarned(e, how)
  <2> SUFFICES ASSUME k >= 7 PROVE TrustIsEarned(e, how)
    BY DEF Latest
  <2>1. TrustIsEarned(d, how) /\ SoundRows(d, how)
    BY DEF Faithful, Latest
  <2>2. \A i \in 1 .. n : Quiet(Down[k][i])
    BY <1>1, LaterRevisionsAreCalm DEF Calm
  <2> QED BY <1>1, <2>1, <2>2, QuietStatements
<1> HIDE DEF e
<1>4. DownOne(d, k) = [e EXCEPT !.rev = k - 1]
  BY DEF DownOne, e
<1> HIDE DEF e
<1> QED
  BY <1>2, <1>3, <1>4, FieldsOfDatabase DEF Faithful, SoundRows, TrustIsEarned

\* Any revision is reached through its neighbours.
LEMMA MigratedIsFaithful ==
  ASSUME NEW d, NEW how, NEW to \in 0 .. Latest, Faithful(d, how), d.rev \in 0 .. Latest
  PROVE  Faithful(Migrated(d, to), how) /\ Migrated(d, to).rev = to
<1>1. CASE d.rev <= to
  <2> DEFINE n == to - d.rev
             steps == [k \in 1 .. n |-> d.rev + k]
  <2>0. n \in Nat /\ DOMAIN steps = 1 .. n
    BY <1>1 DEF Latest
  <2>1. PICK r : IsRow("upgrades", steps, d, n, r) /\ r[n] = FoldLeft(UpOne, d, steps)
    BY <2>0, FoldOfUpgrades
  <2>2. r[0] = d /\ \A i \in 1 .. n : r[i] = UpOne(r[i - 1], steps[i])
    BY <2>1 DEF IsRow, FoldedIn
  <2> DEFINE T == {i \in 0 .. n : Faithful(r[i], how) /\ r[i].rev = d.rev + i}
  <2>3. 0 \in T
    BY <2>0, <2>2 DEF Latest
  <2>4. ASSUME NEW i \in 1 .. n, i - 1 \in T PROVE i \in T
    <3>0. steps[i] = d.rev + i
      OBVIOUS
    <3>1. steps[i] = d.rev + i /\ d.rev + i \in 1 .. Latest
      <4>1. i \in Nat /\ 1 <= i /\ i <= to - d.rev
        BY <2>0
      <4>2. d.rev \in Nat /\ to \in Nat /\ to <= Latest
        BY DEF Latest
      <4>3. d.rev + i \in Nat /\ 1 <= d.rev + i /\ d.rev + i <= to
        BY <4>1, <4>2
      <4>4. d.rev + i \in 1 .. Latest
        BY <4>2, <4>3 DEF Latest
      <4> QED BY <3>0, <4>4
    <3>2. r[i] = UpOne(r[i - 1], d.rev + i)
      BY <2>2, <3>1
    <3>3. Faithful(r[i - 1], how) /\ r[i - 1].rev = (d.rev + i) - 1
      <4>1. r[i - 1].rev = d.rev + (i - 1)
        BY <2>4
      <4> QED BY <2>4, <4>1 DEF Latest
    <3>4. Faithful(r[i], how) /\ r[i].rev = d.rev + i
      <4> DEFINE k == d.rev + i
      <4>1. k \in 1 .. Latest /\ Faithful(r[i - 1], how) /\ r[i - 1].rev = k - 1
            /\ r[i] = UpOne(r[i - 1], k)
        BY <3>1, <3>2, <3>3
      <4> HIDE DEF k
      <4>2. Faithful(r[i], how) /\ r[i].rev = k
        BY <4>1, UpOneKeeps
      <4> QED BY <4>2 DEF k
    <3> QED BY <3>4
  <2> HIDE DEF T, n, steps
  <2>5. n \in T
    <3>1. \A i \in 1 .. n : i - 1 \in T => i \in T
      BY <2>4
    <3>2. \A i \in 0 .. n : i \in T
      BY <2>0, <2>3, <3>1, Upwards
    <3> QED BY <2>0, <3>2
  <2>6. Migrated(d, to) = r[n]
    BY <1>1, <2>1 DEF Migrated, steps, n
  <2>7. Faithful(r[n], how) /\ r[n].rev = d.rev + n
    BY <2>5 DEF T
  <2> QED BY <1>1, <2>6, <2>7 DEF n, Latest
<1>2. CASE ~(d.rev <= to)
  <2> DEFINE n == d.rev - to
             steps == [k \in 1 .. n |-> d.rev + 1 - k]
  <2>0. n \in Nat /\ DOMAIN steps = 1 .. n
    BY <1>2 DEF Latest
  <2>1. PICK r : IsRow("downgrades", steps, d, n, r) /\ r[n] = FoldLeft(DownOne, d, steps)
    BY <2>0, FoldOfDowngrades
  <2>2. r[0] = d /\ \A i \in 1 .. n : r[i] = DownOne(r[i - 1], steps[i])
    BY <2>1 DEF IsRow, FoldedIn
  <2> DEFINE T == {i \in 0 .. n : Faithful(r[i], how) /\ r[i].rev = d.rev - i}
  <2>3. 0 \in T
    BY <2>0, <2>2 DEF Latest
  <2>4. ASSUME NEW i \in 1 .. n, i - 1 \in T PROVE i \in T
    <3>0. steps[i] = d.rev + 1 - i
      OBVIOUS
    <3>1. steps[i] = d.rev + 1 - i /\ d.rev + 1 - i \in 1 .. Latest
      <4>1. i \in Nat /\ 1 <= i /\ i <= d.rev - to
        BY <2>0
      <4>2. d.rev \in Nat /\ to \in Nat /\ d.rev <= Latest
        BY DEF Latest
      <4>3. d.rev + 1 - i \in Nat /\ 1 <= d.rev + 1 - i /\ d.rev + 1 - i <= d.rev
        BY <4>1, <4>2
      <4>4. d.rev + 1 - i \in 1 .. Latest
        BY <4>2, <4>3 DEF Latest
      <4> QED BY <3>0, <4>4
    <3>2. r[i] = DownOne(r[i - 1], d.rev + 1 - i)
      BY <2>2, <3>1
    <3>3. Faithful(r[i - 1], how) /\ r[i - 1].rev = d.rev + 1 - i
      <4>1. Faithful(r[i - 1], how) /\ r[i - 1].rev = d.rev - (i - 1)
        BY <2>4
      <4>2. d.rev \in Int /\ i \in Int
        BY DEF Latest
      <4>3. d.rev - (i - 1) = d.rev + 1 - i
        BY <4>2
      <4> QED BY <4>1, <4>3
    <3>4. Faithful(r[i], how) /\ r[i].rev = d.rev + 1 - i - 1
      <4> DEFINE k == d.rev + 1 - i
      <4>1. k \in 1 .. Latest /\ Faithful(r[i - 1], how) /\ r[i - 1].rev = k
            /\ r[i] = DownOne(r[i - 1], k)
        BY <3>1, <3>2, <3>3
      <4> HIDE DEF k
      <4>2. Faithful(r[i], how) /\ r[i].rev = k - 1
        BY <4>1, DownOneKeeps
      <4> QED BY <4>2 DEF k
    <3> QED BY <3>4 DEF Latest
  <2> HIDE DEF T, n, steps
  <2>5. n \in T
    <3>1. \A i \in 1 .. n : i - 1 \in T => i \in T
      BY <2>4
    <3>2. \A i \in 0 .. n : i \in T
      BY <2>0, <2>3, <3>1, Upwards
    <3> QED BY <2>0, <3>2
  <2>6. Migrated(d, to) = r[n]
    BY <1>2, <2>1 DEF Migrated, steps, n
  <2>7. Faithful(r[n], how) /\ r[n].rev = d.rev - n
    BY <2>5 DEF T
  <2> QED BY <1>2, <2>6, <2>7 DEF n, Latest
<1> QED
  BY <1>1, <1>2

-------------------------------------------------------------------------------
(***************************************************************************)
(* Schema migrations: the backfill of document keys beside everything else *)
(***************************************************************************)
\* What the backfill has still to see lies ahead of its cursor, or is in its hands.
FillCovers ==
  /\ DOMAIN fill = {"pc", "cursor", "batch"} /\ fill.cursor \in Nat
  /\ (fill.pc \in {"read", "write"} /\ ~disturbed /\ Fillable) =>
       \A v \in Keyless : v > fill.cursor \/ (fill.pc = "write" /\ v \in fill.batch)

Committed == Faithful(db, acquired) /\ ~db.failed /\ db.rev \in 0 .. Latest

SchemaInv == Committed /\ DOMAIN acquired = Version /\ FillCovers

LEMMA SchemaInitInv == SchemaInit => SchemaInv
<1> SUFFICES ASSUME SchemaInit PROVE SchemaInv
  OBVIOUS
<1>1. /\ DOMAIN db = DatabaseFields /\ db.versions = NoRows /\ db.provenance = NoRows
      /\ db.tables = {} /\ db.rev = 0 /\ db.failed = FALSE
  BY DEF SchemaInit, Empty, DatabaseFields
<1>2. DOMAIN NoRows = {}
  BY DEF NoRows
<1>3. Committed
  BY <1>1, <1>2 DEF Committed, Faithful, SoundRows, Latest
<1>4. FillCovers
  BY DEF SchemaInit, FillCovers, NoFill
<1> QED
  BY <1>3, <1>4 DEF SchemaInv, SchemaInit

\* One lemma for each action.
LEMMA MigrateKeeps ==
  ASSUME SchemaInv, NEW to \in Target, Migrate(to)
  PROVE  SchemaInv'
<1> DEFINE after == Migrated(db, to)
<1>1. Faithful(after, acquired) /\ after.rev = to /\ to \in 0 .. Latest
  BY SchemaAssumption, MigratedIsFaithful DEF SchemaInv, Committed
<1>2. db' = (IF after.failed THEN db ELSE after)
      /\ disturbed' = (disturbed \/ fill.pc \in {"read", "write"}) /\ fill' = fill
      /\ acquired' = [v \in Version |-> IF v \in DOMAIN db'.versions THEN acquired[v] ELSE "none"]
  BY DEF Migrate
<1> HIDE DEF after
<1>3. Faithful(db', acquired) /\ ~db'.failed /\ db'.rev \in 0 .. Latest
  BY <1>1, <1>2 DEF SchemaInv, Committed
<1>4. \A v \in DOMAIN db'.provenance : acquired'[v] = acquired[v]
  BY <1>2, <1>3 DEF Faithful, SoundRows
<1>5. Faithful(db', acquired')
  BY <1>3, <1>4 DEF Faithful, SoundRows, TrustIsEarned
<1>6. FillCovers'
  BY <1>2 DEF SchemaInv, FillCovers
<1> QED
  BY <1>2, <1>3, <1>5, <1>6 DEF SchemaInv, Committed

LEMMA StoreVersionKeeps ==
  ASSUME SchemaInv, NEW v \in Version, NEW how, StoreVersion(v, how)
  PROVE  SchemaInv'
<1> DEFINE row == [document_number_normalized |->
                     IF Has("document_versions", "document_number_normalized") THEN "key" ELSE "null"]
           prov == Fetched(how)
<1>1. /\ Provenance \in db.tables /\ v \notin DOMAIN db.versions
      /\ db' = [db EXCEPT !.versions = WithRow(@, v, row),
                          !.provenance = WithRow(@, v, prov)]
      /\ acquired' = [acquired EXCEPT ![v] = how] /\ UNCHANGED <<fill, disturbed>>
  BY DEF StoreVersion, Provenance
<1>2. SoundRows(db, acquired) /\ DOMAIN acquired = Version
  BY DEF SchemaInv, Committed, Faithful
<1>3. /\ DOMAIN db' = DOMAIN db /\ db'.rev = db.rev /\ db'.failed = db.failed
      /\ db'.tables = db.tables /\ db'.foreign = db.foreign /\ db'.columns = db.columns
      /\ db'.versions = WithRow(db.versions, v, row)
      /\ db'.provenance = WithRow(db.provenance, v, prov)
  BY <1>1, <1>2, FieldsOfDatabase DEF SoundRows
<1> HIDE DEF row, prov
<1>4. /\ DOMAIN db'.versions = DOMAIN db.versions \cup {v} /\ db'.versions[v] = row
      /\ \A w \in DOMAIN db.versions : db'.versions[w] = db.versions[w]
  BY <1>1, <1>3 DEF WithRow
<1>5. v \notin DOMAIN db.provenance
  BY <1>1, <1>2 DEF SoundRows
<1>6. /\ DOMAIN db'.provenance = DOMAIN db.provenance \cup {v} /\ db'.provenance[v] = prov
      /\ \A w \in DOMAIN db.provenance : db'.provenance[w] = db.provenance[w]
  BY <1>3, <1>5 DEF WithRow
<1>7. /\ acquired'[v] = how /\ DOMAIN acquired' = Version
      /\ \A w \in DOMAIN db.provenance : acquired'[w] = acquired[w]
  BY <1>1, <1>2, <1>5
<1>8. /\ DOMAIN prov = ProvenanceColumns
      /\ prov.tls_verified = "yes" <=> how = "strict"
      /\ <<Provenance, "transport_trust_mode">> \in db.columns =>
           (prov.transport_trust_mode = "STRICT_TLS" <=> how = "strict")
  BY DEF prov, Fetched, ProvenanceColumns, TrustColumns, Has, Provenance
<1>9. SoundRows(db', acquired')
  BY <1>1, <1>2, <1>3, <1>4, <1>6, <1>7, <1>8 DEF SoundRows
<1>10. db.rev >= 6 => TrustIsEarned(db', acquired')
  BY <1>3, <1>6, <1>7, <1>8 DEF SchemaInv, Committed, Faithful, TrustIsEarned
<1>11. Committed'
  BY <1>3, <1>9, <1>10 DEF SchemaInv, Committed, Faithful
<1>12. Fillable' = Fillable /\ (Fillable => Keyless' = Keyless)
  <2>1. Fillable' = Fillable
    BY <1>3 DEF Fillable, Has
  <2>2. Fillable => row.document_number_normalized = "key"
    BY DEF row, Fillable
  <2> QED BY <1>1, <1>4, <2>1, <2>2 DEF Keyless
<1>13. FillCovers'
  BY <1>1, <1>12 DEF SchemaInv, FillCovers
<1> QED
  BY <1>7, <1>11, <1>13 DEF SchemaInv

\* Statements that leave the versions with their keys, and provenance, alone.
LEMMA OthersKeep ==
  ASSUME SchemaInv, DOMAIN db' = DOMAIN db, db'.rev = db.rev, db'.failed = db.failed,
         db'.tables = db.tables, db'.foreign = db.foreign, db'.columns = db.columns,
         DOMAIN db'.versions = DOMAIN db.versions, db'.provenance = db.provenance,
         acquired' = acquired
  PROVE  Committed' /\ DOMAIN acquired' = Version /\ Fillable' = Fillable
<1>1. Committed'
  BY DEF SchemaInv, Committed, Faithful, SoundRows, TrustIsEarned
<1> QED
  BY <1>1 DEF SchemaInv, Fillable, Has

LEMMA CiteKeeps ==
  ASSUME SchemaInv, NEW c, NEW scores, Cite(c, scores)
  PROVE  SchemaInv'
<1>1. PICK rows : db' = [db EXCEPT !.citations = rows]
  BY DEF Cite
<1>2. DOMAIN db = DatabaseFields
  BY DEF SchemaInv, Committed, Faithful, SoundRows
<1>3. /\ DOMAIN db' = DOMAIN db /\ db'.rev = db.rev /\ db'.failed = db.failed
      /\ db'.tables = db.tables /\ db'.foreign = db.foreign /\ db'.columns = db.columns
      /\ db'.versions = db.versions /\ db'.provenance = db.provenance
  BY <1>1, <1>2, FieldsOfDatabase
<1>4. acquired' = acquired /\ fill' = fill /\ disturbed' = disturbed
  BY DEF Cite
<1>5. Committed' /\ DOMAIN acquired' = Version /\ Fillable' = Fillable
  BY <1>3, <1>4, OthersKeep
<1>6. Keyless' = Keyless
  BY <1>3 DEF Keyless
<1>7. FillCovers'
  BY <1>4, <1>5, <1>6 DEF SchemaInv, FillCovers
<1> QED
  BY <1>5, <1>7 DEF SchemaInv

\* A finite set of naturals that is not empty has a greatest member.
LEMMA GreatestOfFinite ==
  ASSUME NEW S \in SUBSET Nat, IsFiniteSet(S), NEW b \in SUBSET S, b # {}
  PROVE  \E v \in b : \A w \in b : w <= v
<1> DEFINE Below(v) == {w \in b : w <= v}
           T == {Cardinality(b) - Cardinality(Below(v)) : v \in b}
<1>1. IsFiniteSet(b) /\ Cardinality(b) \in Nat
  BY FS_Subset, FS_CardinalityType
<1>2. ASSUME NEW v \in b
      PROVE  /\ IsFiniteSet(Below(v)) /\ Cardinality(Below(v)) \in Nat
             /\ Cardinality(Below(v)) <= Cardinality(b)
  <2>1. Below(v) \in SUBSET b
    OBVIOUS
  <2> HIDE DEF Below
  <2> QED BY <1>1, <2>1, FS_Subset, FS_CardinalityType
<1>3. T \subseteq Nat /\ T # {}
  <2>1. \A v \in b : Cardinality(b) - Cardinality(Below(v)) \in Nat
    <3> HIDE DEF Below
    <3> QED BY <1>1, <1>2
  <2> HIDE DEF Below
  <2> QED BY <2>1
<1>4. PICK v \in b : \A w \in b : Cardinality(b) - Cardinality(Below(v))
                                   <= Cardinality(b) - Cardinality(Below(w))
  <2>1. PICK k \in T : \A m \in T : k <= m
    <3> HIDE DEF T
    <3> QED BY <1>3, Least
  <2> HIDE DEF Below
  <2> QED BY <2>1
<1>5. ASSUME NEW w \in b, w > v PROVE FALSE
  <2>0. b \subseteq Nat /\ v \in Nat /\ w \in Nat
    OBVIOUS
  <2>1. Below(v) \in SUBSET Below(w) /\ w \in Below(w) /\ w \notin Below(v)
    <3>1. \A x \in b : x <= v => x <= w
      BY <1>5, <2>0
    <3>2. ~(w <= v) /\ w <= w
      BY <1>5, <2>0
    <3> QED BY <1>5, <3>1, <3>2
  <2>2. Cardinality(Below(w)) <= Cardinality(Below(v))
    <3> HIDE DEF Below
    <3> QED BY <1>1, <1>2, <1>4
  <2> HIDE DEF Below
  <2>3. Cardinality(Below(v)) <= Cardinality(Below(w))
        /\ (Cardinality(Below(w)) = Cardinality(Below(v)) => Below(w) = Below(v))
    BY <1>2, <2>1, FS_Subset
  <2>4. Cardinality(Below(v)) \in Nat /\ Cardinality(Below(w)) \in Nat
    BY <1>2
  <2> QED BY <2>1, <2>2, <2>3, <2>4
<1>6. \A w \in b : w <= v
  BY <1>5
<1> QED
  BY <1>6

\* The backfill's order: whoever is not taken comes after everyone who is.
LEMMA NextBatchIsNext ==
  ASSUME NEW cursor \in Nat, NEW b \in NextBatch(cursor), Keyless \subseteq Version
  PROVE  /\ b = {} => \A v \in Keyless : v <= cursor
         /\ b # {} => /\ (CHOOSE v \in b : \A w \in b : w <= v) \in Nat
                      /\ \A u \in Keyless :
                           u <= cursor \/ u \in b \/ u > (CHOOSE v \in b : \A w \in b : w <= v)
<1> DEFINE rest == {v \in Keyless : v > cursor}
           Behind(v) == {w \in rest : w < v}
<1>1. b = {v \in rest : Cardinality(Behind(v)) < BatchSize}
  BY DEF NextBatch
<1>2. rest \subseteq Nat /\ IsFiniteSet(rest)
  BY SchemaAssumption, FS_Subset
<1>3. \A v \in rest : /\ Behind(v) \in SUBSET rest /\ IsFiniteSet(Behind(v))
                      /\ Cardinality(Behind(v)) \in Nat
  <2> SUFFICES ASSUME NEW v \in rest
               PROVE  /\ Behind(v) \in SUBSET rest /\ IsFiniteSet(Behind(v))
                      /\ Cardinality(Behind(v)) \in Nat
    OBVIOUS
  <2>1. Behind(v) \in SUBSET rest
    OBVIOUS
  <2> QED BY <1>2, <2>1, FS_Subset, FS_CardinalityType
<1>4. ASSUME b = {} PROVE \A v \in Keyless : v <= cursor
  <2> SUFFICES ASSUME rest # {} PROVE FALSE
    BY SchemaAssumption
  <2>1. PICK v \in rest : \A w \in rest : v <= w
    <3> HIDE DEF rest
    <3> QED BY <1>2, Least
  <2>2. Behind(v) = {}
    BY <1>2, <2>1
  <2>3. Cardinality(Behind(v)) = 0
    BY <2>2, FS_EmptySet
  <2> QED BY <1>1, <1>4, <2>3, SchemaAssumption
<1>5. ASSUME b # {}
      PROVE  /\ (CHOOSE v \in b : \A w \in b : w <= v) \in Nat
             /\ \A u \in Keyless :
                  u <= cursor \/ u \in b \/ u > (CHOOSE v \in b : \A w \in b : w <= v)
  <2> DEFINE furthest == CHOOSE v \in b : \A w \in b : w <= v
  <2>1. \E v \in b : \A w \in b : w <= v
    BY <1>1, <1>2, <1>5, GreatestOfFinite
  <2>2. furthest \in b /\ \A w \in b : w <= furthest
    BY <2>1
  <2> HIDE DEF furthest
  <2>3. furthest \in rest /\ Cardinality(Behind(furthest)) < BatchSize
    BY <1>1, <2>2
  <2>4. ASSUME NEW v \in rest, v <= furthest PROVE v \in b
    <3>1. Behind(v) \in SUBSET Behind(furthest)
      BY <1>2, <2>3, <2>4
    <3>2. Cardinality(Behind(v)) <= Cardinality(Behind(furthest))
      BY <1>3, <2>3, <3>1, FS_Subset
    <3>3. Cardinality(Behind(v)) < BatchSize
      BY <1>3, <2>3, <2>4, <3>2, SchemaAssumption
    <3> QED BY <1>1, <2>4, <3>3
  <2>5. \A v \in Keyless : v <= cursor \/ v \in b \/ v > furthest
    BY <2>3, <2>4, SchemaAssumption
  <2> QED BY <1>2, <2>3, <2>5 DEF furthest
<1> QED
  BY <1>4, <1>5

LEMMA StartFillKeeps == SchemaInv /\ StartFill => SchemaInv'
<1> SUFFICES ASSUME SchemaInv, StartFill PROVE SchemaInv'
  OBVIOUS
<1>1. /\ fill' = [NoFill EXCEPT !.pc = "read"] /\ disturbed' = FALSE
      /\ UNCHANGED <<db, acquired>>
  BY DEF StartFill
<1>2. DOMAIN fill' = {"pc", "cursor", "batch"} /\ fill'.cursor = 0 /\ fill'.pc = "read"
  BY <1>1 DEF NoFill
<1>3. Keyless' = Keyless /\ \A v \in Keyless : v > 0
  <2>1. DOMAIN db.versions \subseteq Version
    BY DEF SchemaInv, Committed, Faithful, SoundRows
  <2> QED BY <1>1, <2>1, SchemaAssumption DEF Keyless
<1>4. FillCovers'
  BY <1>2, <1>3 DEF FillCovers
<1> QED
  BY <1>1, <1>4 DEF SchemaInv, Committed

\* A backfill that reads nothing has found nothing; what it reads comes next.
LEMMA ReadBatchKeeps ==
  ASSUME SchemaInv, ReadBatch
  PROVE  SchemaInv' /\ (fill'.pc = "done" /\ ~disturbed => Keyless = {})
<1>1. fill.pc = "read" /\ UNCHANGED <<db, acquired, disturbed>>
  BY DEF ReadBatch
<1>2. Keyless \subseteq Version /\ Keyless' = Keyless /\ Fillable' = Fillable
  BY <1>1 DEF SchemaInv, Committed, Faithful, SoundRows, Keyless, Fillable, Has
<1>3. CASE ~Fillable /\ fill' = [NoFill EXCEPT !.pc = "failed"]
  <2>1. DOMAIN fill' = {"pc", "cursor", "batch"} /\ fill'.cursor = 0 /\ fill'.pc = "failed"
    BY <1>3 DEF NoFill
  <2>2. FillCovers'
    BY <2>1 DEF FillCovers
  <2> QED BY <1>1, <2>1, <2>2 DEF SchemaInv, Committed
<1>4. ASSUME Fillable, NEW b \in NextBatch(fill.cursor),
             fill' = IF b = {} THEN [NoFill EXCEPT !.pc = "done"]
                     ELSE [pc |-> "write", cursor |-> CHOOSE v \in b : \A w \in b : w <= v,
                           batch |-> b]
      PROVE  SchemaInv' /\ (fill'.pc = "done" /\ ~disturbed => Keyless = {})
  <2>1. fill.cursor \in Nat /\ (~disturbed => \A v \in Keyless : v > fill.cursor)
    BY <1>1, <1>4 DEF SchemaInv, FillCovers
  <2>2. CASE b = {}
    <3>1. DOMAIN fill' = {"pc", "cursor", "batch"} /\ fill'.cursor = 0 /\ fill'.pc = "done"
      BY <1>4, <2>2 DEF NoFill
    <3>2. FillCovers'
      BY <3>1 DEF FillCovers
    <3>3. \A v \in Keyless : v <= fill.cursor
      BY <1>2, <1>4, <2>1, <2>2, NextBatchIsNext
    <3>4. ~disturbed => Keyless = {}
      BY <1>2, <2>1, <3>3, SchemaAssumption
    <3> QED BY <1>1, <3>2, <3>4 DEF SchemaInv, Committed
  <2>3. CASE b # {}
    <3> DEFINE furthest == CHOOSE v \in b : \A w \in b : w <= v
    <3>1. furthest \in Nat /\ \A v \in Keyless : v <= fill.cursor \/ v \in b \/ v > furthest
      BY <1>2, <1>4, <2>1, <2>3, NextBatchIsNext
    <3>2. fill' = [pc |-> "write", cursor |-> furthest, batch |-> b]
      BY <1>4, <2>3
    <3> HIDE DEF furthest
    <3>3. /\ DOMAIN fill' = {"pc", "cursor", "batch"} /\ fill'.cursor = furthest
          /\ fill'.pc = "write" /\ fill'.batch = b
      BY <3>2
    <3>4. ~disturbed => \A v \in Keyless : v > furthest \/ v \in b
      BY <1>2, <2>1, <3>1, SchemaAssumption
    <3>5. FillCovers'
      BY <1>1, <1>2, <3>1, <3>3, <3>4 DEF FillCovers
    <3> QED BY <1>1, <3>3, <3>5 DEF SchemaInv, Committed
  <2> QED BY <2>2, <2>3
<1> QED
  BY <1>3, <1>4 DEF ReadBatch

LEMMA WriteBatchKeeps == SchemaInv /\ WriteBatch => SchemaInv'
<1> SUFFICES ASSUME SchemaInv, WriteBatch PROVE SchemaInv'
  OBVIOUS
<1>1. fill.pc = "write" /\ UNCHANGED <<acquired, disturbed>>
  BY DEF WriteBatch
<1>2. CASE ~Fillable /\ fill' = [NoFill EXCEPT !.pc = "failed"] /\ UNCHANGED db
  <2>1. DOMAIN fill' = {"pc", "cursor", "batch"} /\ fill'.cursor = 0 /\ fill'.pc = "failed"
    BY <1>2 DEF NoFill
  <2>2. FillCovers'
    BY <2>1 DEF FillCovers
  <2> QED BY <1>1, <1>2, <2>2 DEF SchemaInv, Committed
<1>3. CASE /\ Fillable
           /\ db' = [db EXCEPT !.versions = [v \in DOMAIN @ |->
                IF v \in fill.batch \cap Keyless THEN [document_number_normalized |-> "key"]
                ELSE @[v]]]
           /\ fill' = [fill EXCEPT !.pc = "read", !.batch = {}]
  <2> DEFINE rows == [v \in DOMAIN db.versions |->
                IF v \in fill.batch \cap Keyless THEN [document_number_normalized |-> "key"]
                ELSE db.versions[v]]
  <2>1. db' = [db EXCEPT !.versions = rows] /\ DOMAIN rows = DOMAIN db.versions
    BY <1>3
  <2>2. ASSUME NEW v \in DOMAIN rows, rows[v].document_number_normalized = "null"
        PROVE  v \in Keyless /\ v \notin fill.batch
    <3>1. CASE v \in fill.batch \cap Keyless
      <4>1. rows[v] = [document_number_normalized |-> "key"]
        BY <3>1
      <4> QED BY <2>2, <4>1
    <3>2. CASE v \notin fill.batch \cap Keyless
      <4>1. rows[v] = db.versions[v]
        BY <3>2
      <4> QED BY <2>2, <3>2, <4>1 DEF Keyless
    <3> QED BY <3>1, <3>2
  <2> HIDE DEF rows
  <2>3. DOMAIN db = DatabaseFields
    BY DEF SchemaInv, Committed, Faithful, SoundRows
  <2>4. /\ DOMAIN db' = DOMAIN db /\ db'.rev = db.rev /\ db'.failed = db.failed
        /\ db'.tables = db.tables /\ db'.foreign = db.foreign /\ db'.columns = db.columns
        /\ db'.versions = rows /\ db'.provenance = db.provenance
    BY <2>1, <2>3, FieldsOfDatabase
  <2>5. Committed' /\ DOMAIN acquired' = Version /\ Fillable' = Fillable
    BY <1>1, <2>1, <2>4, OthersKeep
  <2>6. \A v \in Keyless' : v \in Keyless /\ v \notin fill.batch
    BY <2>1, <2>2, <2>4 DEF Keyless
  <2>7. /\ DOMAIN fill' = {"pc", "cursor", "batch"} /\ fill'.cursor = fill.cursor
        /\ fill'.cursor \in Nat /\ fill'.pc = "read"
    BY <1>3 DEF SchemaInv, FillCovers
  <2>8. FillCovers'
    BY <1>1, <2>5, <2>6, <2>7 DEF SchemaInv, FillCovers
  <2> QED BY <2>5, <2>8 DEF SchemaInv
<1> QED
  BY <1>2, <1>3 DEF WriteBatch

LEMMA SchemaNextInv == SchemaInv /\ [SchemaNext]_schemaVars => SchemaInv'
<1> SUFFICES ASSUME SchemaInv, [SchemaNext]_schemaVars PROVE SchemaInv'
  OBVIOUS
<1>1. CASE \E to \in Target : Migrate(to)
  BY <1>1, MigrateKeeps
<1>2. CASE \E v \in Version, how \in {"strict", "pinned", "unverified"} : StoreVersion(v, how)
  BY <1>2, StoreVersionKeeps
<1>3. CASE \E c \in Citation, scores \in Scores : Cite(c, scores)
  BY <1>3, CiteKeeps
<1>4. CASE StartFill
  BY <1>4, StartFillKeeps
<1>5. CASE ReadBatch
  BY <1>5, ReadBatchKeeps
<1>6. CASE WriteBatch
  BY <1>6, WriteBatchKeeps
<1>7. CASE UNCHANGED schemaVars
  BY <1>7 DEF schemaVars, SchemaInv, Committed, FillCovers, Fillable, Has, Keyless
<1> QED
  BY <1>1, <1>2, <1>3, <1>4, <1>5, <1>6, <1>7 DEF SchemaNext

LEMMA SchemaAlways == SchemaSpec => []SchemaInv
  BY SchemaInitInv, SchemaNextInv, PTL DEF SchemaSpec

\* Whatever revisions a row has seen, up and down, it counts as strict exactly if it was
\* fetched over verified TLS (alembic/versions/0006).
THEOREM StrictIsVerified == SchemaSpec => []StrictMeansVerified
<1>1. SchemaInv => StrictMeansVerified
  BY DEF SchemaInv, Committed, Faithful, TrustIsEarned, StrictMeansVerified
<1> QED
  BY <1>1, SchemaAlways, PTL

\* Whatever is stored while it runs, a backfill that ends, and met no migration, has left no
\* version without its key (documents/metadata_backfill.py, run).
THEOREM FillsAreComplete == SchemaSpec => FillIsComplete
<1>1. SchemaInv /\ [SchemaNext]_schemaVars
        => [fill'.pc = "done" /\ fill.pc # "done" /\ ~disturbed => Keyless = {}]_schemaVars
  <2> SUFFICES ASSUME SchemaInv, SchemaNext, fill'.pc = "done", fill.pc # "done", ~disturbed
               PROVE  Keyless = {}
    OBVIOUS
  <2>1. CASE ReadBatch
    BY <2>1, ReadBatchKeeps
  <2>2. CASE StartFill
    BY <2>2 DEF StartFill, NoFill
  <2>3. CASE WriteBatch
    BY <2>3 DEF WriteBatch, NoFill, SchemaInv, FillCovers
  <2>4. CASE fill' = fill
    BY <2>4
  <2> QED BY <2>1, <2>2, <2>3, <2>4 DEF SchemaNext, Migrate, StoreVersion, Cite
<1> QED
  BY <1>1, SchemaAlways, PTL DEF FillIsComplete, SchemaSpec

-------------------------------------------------------------------------------
(***************************************************************************)
(* Schema migrations: the catalog a revision has. Every statement keeps a  *)
(* database in step with what the revisions so far made, so none of them   *)
(* meets a table, column or CHECK that is missing or already there; and a  *)
(* CHECK is added only over rows that hold it.                             *)
(***************************************************************************)
\* The tables in the order in which revisions make them: each refers to earlier ones only.
TableRank ==
  [legal_documents |-> 1, document_versions |-> 2, source_provenance_records |-> 3,
   document_chunks |-> 4, chunk_embeddings |-> 5, retrieval_runs |-> 6,
   citation_records |-> 7, conversations |-> 8, conversation_exchanges |-> 9,
   conversation_exchange_references |-> 10, channel_conversation_bindings |-> 11,
   channel_outbound_deliveries |-> 12, corpus_ingestion_runs |-> 13,
   corpus_catalog_entries |-> 14, reviewed_legal_effect_imports |-> 15,
   reviewed_legal_effect_families |-> 16, reviewed_legal_effect_assertions |-> 17,
   reviewed_legal_effect_events |-> 18]

FirstTables(n) == {t \in DOMAIN TableRank : TableRank[t] <= n}

Citations == "citation_records"

\* A database that has the first n tables, the columns C, the CHECKs K, the guarded
\* tables G, the extension x, the provenance rows P and the citations R.
Fits(d, n, C, K, G, x, P, R) ==
  /\ DOMAIN d = DatabaseFields /\ ~d.failed
  /\ d.tables = FirstTables(n) /\ d.columns = C /\ d.checks = K /\ d.guarded = G
  /\ (d.extension <=> x = "vector") /\ d.provenance = P /\ d.citations = R
  /\ \A f \in d.foreign : /\ f[1] \in FirstTables(n) /\ f[2] \in FirstTables(n)
                          /\ TableRank[f[2]] < TableRank[f[1]]

LEMMA Ranks ==
  /\ \A t \in {"legal_documents", "document_versions", "source_provenance_records",
               "document_chunks", "chunk_embeddings", "retrieval_runs", "citation_records",
               "conversations", "conversation_exchanges", "conversation_exchange_references",
               "channel_conversation_bindings", "channel_outbound_deliveries",
               "corpus_ingestion_runs", "corpus_catalog_entries",
               "reviewed_legal_effect_imports", "reviewed_legal_effect_families",
               "reviewed_legal_effect_assertions", "reviewed_legal_effect_events"} :
       t \in DOMAIN TableRank
  /\ TableRank["legal_documents"] = 1 /\ TableRank["document_versions"] = 2
  /\ TableRank["source_provenance_records"] = 3 /\ TableRank["document_chunks"] = 4
  /\ TableRank["chunk_embeddings"] = 5 /\ TableRank["retrieval_runs"] = 6
  /\ TableRank["citation_records"] = 7 /\ TableRank["conversations"] = 8
  /\ TableRank["conversation_exchanges"] = 9
  /\ TableRank["conversation_exchange_references"] = 10
  /\ TableRank["channel_conversation_bindings"] = 11
  /\ TableRank["channel_outbound_deliveries"] = 12
  /\ TableRank["corpus_ingestion_runs"] = 13 /\ TableRank["corpus_catalog_entries"] = 14
  /\ TableRank["reviewed_legal_effect_imports"] = 15
  /\ TableRank["reviewed_legal_effect_families"] = 16
  /\ TableRank["reviewed_legal_effect_assertions"] = 17
  /\ TableRank["reviewed_legal_effect_events"] = 18
  BY DEF TableRank

\* No two tables have the same rank.
TableOfRank ==
  << "legal_documents", "document_versions", "source_provenance_records", "document_chunks",
     "chunk_embeddings", "retrieval_runs", "citation_records", "conversations",
     "conversation_exchanges", "conversation_exchange_references",
     "channel_conversation_bindings", "channel_outbound_deliveries", "corpus_ingestion_runs",
     "corpus_catalog_entries", "reviewed_legal_effect_imports", "reviewed_legal_effect_families",
     "reviewed_legal_effect_assertions", "reviewed_legal_effect_events" >>

LEMMA RanksDiffer ==
  ASSUME NEW t \in DOMAIN TableRank
  PROVE  /\ TableRank[t] \in 1 .. 18
         /\ \A u \in DOMAIN TableRank : TableRank[u] = TableRank[t] => u = t
<1>1. \A u \in DOMAIN TableRank : TableRank[u] \in 1 .. 18 /\ TableOfRank[TableRank[u]] = u
  BY DEF TableRank, TableOfRank
<1> QED
  BY <1>1

LEMMA NextTables ==
  ASSUME NEW t \in DOMAIN TableRank
  PROVE  /\ FirstTables(TableRank[t]) = FirstTables(TableRank[t] - 1) \cup {t}
         /\ t \notin FirstTables(TableRank[t] - 1) /\ t \in FirstTables(TableRank[t])
<1>1. \A u \in DOMAIN TableRank : TableRank[u] \in 1 .. 18
  BY RanksDiffer
<1>2. \A u \in DOMAIN TableRank : TableRank[u] = TableRank[t] => u = t
  BY RanksDiffer
<1> QED
  BY <1>1, <1>2 DEF FirstTables

LEMMA CreateFits ==
  ASSUME NEW d, NEW n \in 0 .. 17, NEW C, NEW K, NEW G, NEW x, NEW P, NEW R,
         Fits(d, n, C, K, G, x, P, R),
         NEW t \in DOMAIN TableRank, NEW m, m = n + 1, TableRank[t] = m,
         NEW refs, refs \subseteq FirstTables(n), t = "chunk_embeddings" => x = "vector"
  PROVE  Fits(Execute(d, Create(t, refs)), m, C, K, G, x, P, R)
<1> DEFINE s == Create(t, refs)
<1>0. s.op = "create" /\ s.table = t /\ s.names = refs
  BY DEF Create
<1> HIDE DEF s
<1>1. FirstTables(n + 1) = FirstTables(n) \cup {t} /\ t \notin FirstTables(n)
  <2>1. TableRank[t] - 1 = n
    OBVIOUS
  <2> QED BY <2>1, NextTables
<1>2. Allowed(d, s)
  BY <1>0, <1>1 DEF Allowed, Fits
<1>3. Execute(d, s) = [d EXCEPT !.tables = @ \cup {t}, !.foreign = @ \cup {t} \X refs]
  BY <1>0, <1>2 DEF Execute, Effect, Fits
<1> DEFINE e == Execute(d, s)
<1>4. /\ DOMAIN e = DatabaseFields /\ e.failed = d.failed
      /\ e.tables = d.tables \cup {t} /\ e.columns = d.columns /\ e.checks = d.checks
      /\ e.guarded = d.guarded /\ e.extension = d.extension /\ e.provenance = d.provenance
      /\ e.citations = d.citations /\ e.foreign = d.foreign \cup {t} \X refs
  BY <1>3, FieldsOfDatabase DEF Fits
<1> HIDE DEF e
<1>5. ASSUME NEW f \in e.foreign
      PROVE  /\ f[1] \in FirstTables(n + 1) /\ f[2] \in FirstTables(n + 1)
             /\ TableRank[f[2]] < TableRank[f[1]]
  <2>1. CASE f \in d.foreign
    BY <1>1, <2>1 DEF Fits
  <2>2. CASE f \in {t} \X refs
    <3>1. f[1] = t /\ f[2] \in FirstTables(n)
      BY <2>2
    <3>2. TableRank[f[2]] <= n /\ f[2] \in DOMAIN TableRank
      BY <3>1 DEF FirstTables
    <3> QED BY <1>1, <3>1, <3>2, RanksDiffer
  <2> QED BY <1>4, <2>1, <2>2
<1> QED
  BY <1>1, <1>4, <1>5 DEF Fits, e, s

LEMMA DropFits ==
  ASSUME NEW d, NEW n \in 1 .. 18, NEW C, NEW K, NEW G, NEW x, NEW P, NEW R,
         Fits(d, n, C, K, G, x, P, R),
         NEW t \in DOMAIN TableRank, TableRank[t] = n, NEW m, m = n - 1,
         NEW A, A \subseteq C, \A c \in C : c \in A <=> c[1] # t,
         NEW B, B \subseteq K, \A c \in K : c \in B <=> c[1] # t,
         t \notin G, NEW Q, Q = (IF t = Provenance THEN NoRows ELSE P),
         NEW S, S = (IF t = Citations THEN NoRows ELSE R)
  PROVE  Fits(Execute(d, Drop(t)), m, A, B, G, x, Q, S)
<1> DEFINE s == Drop(t)
<1>0. s.op = "drop" /\ s.table = t
  BY DEF Drop
<1> HIDE DEF s
<1>1. /\ FirstTables(n) = FirstTables(n - 1) \cup {t} /\ t \notin FirstTables(n - 1)
      /\ t \in FirstTables(n)
  BY NextTables
<1>2. ASSUME NEW f \in d.foreign
      PROVE  f[2] # t /\ (f[1] # t => f[1] \in FirstTables(n - 1))
             /\ f[2] \in FirstTables(n - 1)
  <2>1. /\ f[1] \in FirstTables(n) /\ f[2] \in FirstTables(n)
        /\ TableRank[f[2]] < TableRank[f[1]]
    BY DEF Fits
  <2>2. /\ f[1] \in DOMAIN TableRank /\ f[2] \in DOMAIN TableRank
        /\ TableRank[f[1]] <= n /\ TableRank[f[1]] \in 1 .. 18 /\ TableRank[f[2]] \in 1 .. 18
    BY <2>1, RanksDiffer DEF FirstTables
  <2>3. f[2] # t
    BY <2>1, <2>2
  <2> QED BY <1>1, <2>1, <2>3
<1>3. Allowed(d, s)
  BY <1>0, <1>1, <1>2 DEF Allowed, Fits
<1> DEFINE e == Execute(d, s)
           rest == [d EXCEPT !.tables = @ \ {t},
                             !.foreign = {f \in @ : f[1] # t},
                             !.columns = {c \in @ : c[1] # t},
                             !.checks = {c \in @ : c[1] # t},
                             !.required = {c \in @ : c[1] # t},
                             !.guarded = @ \ {t}]
<1>4. e = IF Field(t) = "none" THEN rest ELSE [rest EXCEPT ![Field(t)] = NoRows]
  BY <1>0, <1>3 DEF Execute, Effect, Fits
<1>5. /\ DOMAIN rest = DatabaseFields /\ rest.failed = d.failed
      /\ rest.provenance = d.provenance /\ rest.citations = d.citations
      /\ rest.tables = d.tables \ {t}
      /\ rest.foreign = {f \in d.foreign : f[1] # t}
      /\ rest.columns = {c \in d.columns : c[1] # t}
      /\ rest.checks = {c \in d.checks : c[1] # t}
      /\ rest.guarded = d.guarded \ {t} /\ rest.extension = d.extension
  BY FieldsOfDatabase DEF Fits
<1>6. \/ Field(t) = "provenance" /\ t = Provenance
      \/ Field(t) = "citations" /\ t = Citations
      \/ Field(t) = "versions" /\ t \notin {Provenance, Citations}
      \/ Field(t) = "none" /\ t \notin {Provenance, Citations}
  BY DEF Field, Provenance, Citations
<1>7. Provenance # Citations
  BY DEF Provenance, Citations
<1> HIDE DEF rest, e
<1>8. /\ DOMAIN e = DatabaseFields /\ e.failed = d.failed
      /\ e.provenance = (IF t = Provenance THEN NoRows ELSE d.provenance)
      /\ e.citations = (IF t = Citations THEN NoRows ELSE d.citations)
      /\ e.tables = d.tables \ {t}
      /\ e.foreign = {f \in d.foreign : f[1] # t}
      /\ e.columns = {c \in d.columns : c[1] # t}
      /\ e.checks = {c \in d.checks : c[1] # t}
      /\ e.guarded = d.guarded \ {t} /\ e.extension = d.extension
  BY <1>4, <1>5, <1>6, <1>7, FieldsOfDatabase
<1>9. \A f \in e.foreign : /\ f[1] \in FirstTables(n - 1) /\ f[2] \in FirstTables(n - 1)
                           /\ TableRank[f[2]] < TableRank[f[1]]
  BY <1>2, <1>8 DEF Fits
<1>10. e.tables = FirstTables(n - 1) /\ e.guarded = G
  BY <1>1, <1>8 DEF Fits
<1> QED
  BY <1>8, <1>9, <1>10 DEF Fits, e, s

\* A table goes that no column or CHECK is about; with the citations go their CHECKs.
LEMMA DropClean ==
  ASSUME NEW d, NEW n \in 1 .. 18, NEW C, NEW K, NEW G, NEW x, NEW P, NEW R,
         Fits(d, n, C, K, G, x, P, R),
         NEW t \in DOMAIN TableRank, TableRank[t] = n, NEW m, m = n - 1,
         \A c \in C : c[1] # t, \A c \in K : c[1] # t, t \notin G
  PROVE  /\ t \notin {Provenance, Citations} => Fits(Execute(d, Drop(t)), m, C, K, G, x, P, R)
         /\ t = Provenance => Fits(Execute(d, Drop(t)), m, C, K, G, x, NoRows, R)
         /\ t = Citations => Fits(Execute(d, Drop(t)), m, C, K, G, x, P, NoRows)
<1>1. Provenance # Citations
  BY DEF Provenance, Citations
<1>2. ASSUME NEW Q, Q = (IF t = Provenance THEN NoRows ELSE P),
             NEW S, S = (IF t = Citations THEN NoRows ELSE R)
      PROVE  Fits(Execute(d, Drop(t)), m, C, K, G, x, Q, S)
  BY <1>2, DropFits
<1> QED
  BY <1>1, <1>2

LEMMA DropCitations ==
  ASSUME NEW d, NEW C, NEW K, NEW x, NEW P, NEW R, Fits(d, 7, C, K, {}, x, P, R),
         \A c \in C : c[1] # Citations, \A c \in K : c[1] = Citations
  PROVE  Fits(Execute(d, Drop(Citations)), 6, C, {}, {}, x, P, NoRows)
<1>1. ASSUME NEW t, t = Citations, NEW n, n = 7, NEW m, m = 6, NEW B, B = {}, NEW G, G = {},
             NEW S, S = NoRows
      PROVE  Fits(Execute(d, Drop(t)), m, C, B, G, x, P, S)
  <2>1. t \in DOMAIN TableRank /\ TableRank[t] = n /\ n \in 1 .. 18 /\ m = n - 1 /\ t \notin G
    BY <1>1, Ranks DEF Citations
  <2>2. /\ P = (IF t = Provenance THEN NoRows ELSE P)
        /\ S = (IF t = Citations THEN NoRows ELSE R)
    BY <1>1 DEF Citations, Provenance
  <2>3. /\ C \subseteq C /\ \A c \in C : c \in C <=> c[1] # t
        /\ B \subseteq K /\ \A c \in K : c \in B <=> c[1] # t
    BY <1>1
  <2>4. Fits(d, n, C, K, G, x, P, R)
    BY <1>1
  <2> QED BY <2>1, <2>2, <2>3, <2>4, DropFits
<1> QED
  BY <1>1

\* Statements that change one part of the catalog, and no row.
LEMMA AddFits ==
  ASSUME NEW d, NEW n, NEW C, NEW K, NEW G, NEW x, NEW P, NEW R,
         Fits(d, n, C, K, G, x, P, R), NEW t \in FirstTables(n), NEW names,
         {t} \X names \cap C = {}, NEW B, B = C \cup {t} \X names
  PROVE  Fits(Execute(d, AddColumns(t, names)), n, B, K, G, x, P, R)
<1>1. /\ ~d.failed /\ d.tables = FirstTables(n) /\ d.columns = C /\ d.checks = K
      /\ d.guarded = G
  BY DEF Fits
<1>2. Execute(d, AddColumns(t, names)) = [d EXCEPT !.columns = @ \cup {t} \X names]
  BY <1>1 DEF Execute, Allowed, Effect, AddColumns
<1> QED
  BY <1>2, FieldsOfDatabase DEF Fits

LEMMA CheckFits ==
  ASSUME NEW d, NEW n, NEW C, NEW K, NEW G, NEW x, NEW P, NEW R,
         Fits(d, n, C, K, G, x, P, R), NEW t \in FirstTables(n), NEW names,
         {t} \X names \cap K = {}, \A name \in names : Passes(d, name),
         NEW B, B = K \cup {t} \X names
  PROVE  Fits(Execute(d, Checks(t, names)), n, C, B, G, x, P, R)
<1>1. /\ ~d.failed /\ d.tables = FirstTables(n) /\ d.columns = C /\ d.checks = K
      /\ d.guarded = G
  BY DEF Fits
<1>2. Execute(d, Checks(t, names)) = [d EXCEPT !.checks = @ \cup {t} \X names]
  BY <1>1 DEF Execute, Allowed, Effect, Checks
<1> QED
  BY <1>2, FieldsOfDatabase DEF Fits

LEMMA UncheckFits ==
  ASSUME NEW d, NEW n, NEW C, NEW K, NEW G, NEW x, NEW P, NEW R,
         Fits(d, n, C, K, G, x, P, R), NEW t, NEW names,
         {t} \X names \subseteq K, NEW B, B = K \ {t} \X names
  PROVE  Fits(Execute(d, Unchecks(t, names)), n, C, B, G, x, P, R)
<1>1. /\ ~d.failed /\ d.tables = FirstTables(n) /\ d.columns = C /\ d.checks = K
      /\ d.guarded = G
  BY DEF Fits
<1>2. Execute(d, Unchecks(t, names)) = [d EXCEPT !.checks = @ \ {t} \X names]
  BY <1>1 DEF Execute, Allowed, Effect, Unchecks
<1> QED
  BY <1>2, FieldsOfDatabase DEF Fits

LEMMA RequireFits ==
  ASSUME NEW d, NEW n, NEW C, NEW K, NEW G, NEW x, NEW P, NEW R,
         Fits(d, n, C, K, G, x, P, R), NEW t, NEW names,
         \A c \in names : ~HasNull(d, t, c)
  PROVE  Fits(Execute(d, Require(t, names)), n, C, K, G, x, P, R)
<1>1. /\ ~d.failed /\ d.tables = FirstTables(n) /\ d.columns = C /\ d.checks = K
      /\ d.guarded = G
  BY DEF Fits
<1>2. Execute(d, Require(t, names)) = [d EXCEPT !.required = @ \cup {t} \X names]
  BY <1>1 DEF Execute, Allowed, Effect, Require
<1> QED
  BY <1>2, FieldsOfDatabase DEF Fits

LEMMA ReleaseFits ==
  ASSUME NEW d, NEW n, NEW C, NEW K, NEW G, NEW x, NEW P, NEW R,
         Fits(d, n, C, K, G, x, P, R), NEW t, NEW names
  PROVE  Fits(Execute(d, Release(t, names)), n, C, K, G, x, P, R)
<1>1. /\ ~d.failed /\ d.tables = FirstTables(n) /\ d.columns = C /\ d.checks = K
      /\ d.guarded = G
  BY DEF Fits
<1>2. Execute(d, Release(t, names)) = [d EXCEPT !.required = @ \ {t} \X names]
  BY <1>1 DEF Execute, Allowed, Effect, Release
<1> QED
  BY <1>2, FieldsOfDatabase DEF Fits

LEMMA GuardFits ==
  ASSUME NEW d, NEW n, NEW C, NEW K, NEW G, NEW x, NEW P, NEW R,
         Fits(d, n, C, K, G, x, P, R), NEW names,
         names \subseteq FirstTables(n), names \cap G = {}, NEW B, B = G \cup names
  PROVE  Fits(Execute(d, Guard(names)), n, C, K, B, x, P, R)
<1>1. /\ ~d.failed /\ d.tables = FirstTables(n) /\ d.columns = C /\ d.checks = K
      /\ d.guarded = G
  BY DEF Fits
<1>2. Execute(d, Guard(names)) = [d EXCEPT !.guarded = @ \cup names]
  BY <1>1 DEF Execute, Allowed, Effect, Guard
<1> QED
  BY <1>2, FieldsOfDatabase DEF Fits

LEMMA UnguardFits ==
  ASSUME NEW d, NEW n, NEW C, NEW K, NEW G, NEW x, NEW P, NEW R,
         Fits(d, n, C, K, G, x, P, R), NEW names,
         names \subseteq G, NEW B, B = G \ names
  PROVE  Fits(Execute(d, Unguard(names)), n, C, K, B, x, P, R)
<1>1. /\ ~d.failed /\ d.tables = FirstTables(n) /\ d.columns = C /\ d.checks = K
      /\ d.guarded = G
  BY DEF Fits
<1>2. Execute(d, Unguard(names)) = [d EXCEPT !.guarded = @ \ names]
  BY <1>1 DEF Execute, Allowed, Effect, Unguard
<1> QED
  BY <1>2, FieldsOfDatabase DEF Fits

LEMMA ExtensionFits ==
  ASSUME NEW d, NEW n \in 0 .. 4, NEW C, NEW K, NEW G, NEW x, NEW P, NEW R,
         Fits(d, n, C, K, G, x, P, R)
  PROVE  /\ Fits(Execute(d, Do("extension")), n, C, K, G, "vector", P, R)
         /\ Fits(Execute(d, Do("unextension")), n, C, K, G, "none", P, R)
<1>0. DOMAIN d = DatabaseFields /\ ~d.failed /\ d.tables = FirstTables(n)
  BY DEF Fits
<1>1. Execute(d, Do("extension")) = [d EXCEPT !.extension = TRUE]
  BY <1>0 DEF Execute, Allowed, Effect, Do
<1>2. "chunk_embeddings" \notin d.tables
  BY <1>0, Ranks DEF FirstTables
<1>3. Execute(d, Do("unextension")) = [d EXCEPT !.extension = FALSE]
  BY <1>0, <1>2 DEF Execute, Allowed, Effect, Do
<1> QED
  BY <1>1, <1>3, FieldsOfDatabase DEF Fits

\* Columns that go: those of the rows that are modelled lose what they held.
Blanked(rows, names) ==
  [i \in DOMAIN rows |-> [c \in DOMAIN rows[i] |->
     IF c \in names THEN "null" ELSE rows[i][c]]]

LEMMA RemoveFits ==
  ASSUME NEW d, NEW n, NEW C, NEW K, NEW G, NEW x, NEW P, NEW R,
         Fits(d, n, C, K, G, x, P, R), NEW t, NEW names, {t} \X names \subseteq C,
         NEW B, B = C \ {t} \X names,
         NEW Q, Q = (IF t = Provenance THEN Blanked(P, names) ELSE P),
         NEW S, S = (IF t = Citations THEN Blanked(R, names) ELSE R)
  PROVE  Fits(Execute(d, DropColumns(t, names)), n, B, K, G, x, Q, S)
<1> DEFINE s == DropColumns(t, names)
           reset == Reset(d, t, names)
           e == Execute(d, s)
<1>0. DOMAIN d = DatabaseFields /\ ~d.failed /\ d.columns = C
  BY DEF Fits
<1>1. e = [reset EXCEPT !.columns = @ \ {t} \X names, !.required = @ \ {t} \X names]
  BY <1>0 DEF Execute, Allowed, Effect, DropColumns
<1>2. \/ reset = d /\ t \notin {Provenance, Citations}
      \/ reset = [d EXCEPT !["provenance"] = Blanked(d.provenance, names)] /\ t = Provenance
      \/ reset = [d EXCEPT !["citations"] = Blanked(d.citations, names)] /\ t = Citations
      \/ reset = [d EXCEPT !["versions"] = Blanked(d.versions, names)]
         /\ t \notin {Provenance, Citations}
  <2>1. \/ Field(t) = "provenance" /\ t = Provenance
        \/ Field(t) = "citations" /\ t = Citations
        \/ Field(t) = "versions" /\ t \notin {Provenance, Citations}
        \/ Field(t) = "none" /\ t \notin {Provenance, Citations}
    BY DEF Field, Provenance, Citations
  <2>2. reset = IF Field(t) = "none" THEN d
                ELSE [d EXCEPT ![Field(t)] = Blanked(d[Field(t)], names)]
    BY DEF Reset, Blanked
  <2> HIDE DEF reset
  <2>3. /\ d.provenance = d["provenance"] /\ d.versions = d["versions"]
        /\ d.citations = d["citations"]
    OBVIOUS
  <2> QED BY <2>1, <2>2, <2>3
<1>3. Provenance # Citations
  BY DEF Provenance, Citations
<1> HIDE DEF reset, e
<1>4. /\ DOMAIN reset = DatabaseFields /\ reset.failed = d.failed
      /\ reset.tables = d.tables /\ reset.columns = d.columns /\ reset.checks = d.checks
      /\ reset.guarded = d.guarded /\ reset.extension = d.extension
      /\ reset.foreign = d.foreign
      /\ reset.provenance =
           (IF t = Provenance THEN Blanked(d.provenance, names) ELSE d.provenance)
      /\ reset.citations = (IF t = Citations THEN Blanked(d.citations, names) ELSE d.citations)
  BY <1>0, <1>2, <1>3, FieldsOfDatabase
<1>5. /\ DOMAIN e = DatabaseFields /\ e.failed = reset.failed
      /\ e.tables = reset.tables /\ e.columns = reset.columns \ {t} \X names
      /\ e.checks = reset.checks /\ e.guarded = reset.guarded
      /\ e.extension = reset.extension /\ e.foreign = reset.foreign
      /\ e.provenance = reset.provenance /\ e.citations = reset.citations
  BY <1>1, <1>4, FieldsOfDatabase
<1>6. Fits(e, n, B, K, G, x, Q, S)
  BY <1>4, <1>5 DEF Fits
<1> QED
  BY <1>6 DEF e, s

LEMMA TrustFits ==
  ASSUME NEW d, NEW n, NEW C, NEW K, NEW G, NEW x, NEW P, NEW R,
         Fits(d, n, C, K, G, x, P, R), NEW Q, Q = [v \in DOMAIN P |-> Trusted(P[v])]
  PROVE  Fits(Execute(d, Do("trust")), n, C, K, G, x, Q, R)
<1>0. DOMAIN d = DatabaseFields /\ ~d.failed /\ d.provenance = P
  BY DEF Fits
<1> DEFINE rows == [v \in DOMAIN P |-> Trusted(P[v])]
<1>1. Execute(d, Do("trust")) = [d EXCEPT !.provenance = rows]
  BY <1>0 DEF Execute, Allowed, Effect, Do
<1> HIDE DEF rows
<1>2. Fits(Execute(d, Do("trust")), n, C, K, G, x, rows, R)
  BY <1>1, FieldsOfDatabase DEF Fits
<1> QED
  BY <1>2 DEF rows

LEMMA RefuseFits ==
  ASSUME NEW d, NEW n, NEW C, NEW K, NEW G, NEW x, NEW P, NEW R,
         Fits(d, n, C, K, G, x, P, R), ~ScoredBySemanticsOnly(d)
  PROVE  Fits(Execute(d, Do("refuseLoss")), n, C, K, G, x, P, R)
<1>1. Execute(d, Do("refuseLoss")) = d
  BY DEF Execute, Allowed, Effect, Do, Fits
<1> QED
  BY <1>1

\* What failed stays failed.
LEMMA FailureStays ==
  ASSUME NEW d, NEW steps, NEW n \in Nat, DOMAIN steps = 1 .. n,
         DOMAIN d = DatabaseFields, d.failed = TRUE
  PROVE  /\ FoldLeft(Execute, d, steps).failed = TRUE
         /\ DOMAIN FoldLeft(Execute, d, steps) = DatabaseFields
<1>1. PICK r : IsRow("statements", steps, d, n, r) /\ r[n] = FoldLeft(Execute, d, steps)
  BY FoldOfStatements
<1> DEFINE T == {i \in 0 .. n : DOMAIN r[i] = DatabaseFields /\ r[i].failed = TRUE}
<1>2. 0 \in T
  BY <1>1 DEF IsRow
<1>3. ASSUME NEW i \in 1 .. n, i - 1 \in T PROVE i \in T
  <2>1. r[i] = Execute(r[i - 1], steps[i])
    BY <1>1 DEF IsRow, FoldedIn
  <2>2. r[i] = [r[i - 1] EXCEPT !.failed = TRUE]
    BY <1>3, <2>1 DEF Execute
  <2> QED BY <1>3, <2>2, FieldsOfDatabase
<1> HIDE DEF T
<1>4. n \in T
  <2>1. \A i \in 0 .. n : i \in T
    BY <1>2, <1>3, Upwards
  <2> QED BY <2>1
<1> QED
  BY <1>1, <1>4 DEF T

\* What revision k has: how many tables, which columns, CHECKs and guarded tables.
CountAt(k) == << 0, 0, 5, 7, 10, 12, 12, 14, 14, 14, 14, 14, 18 >>[k + 1]

FirstScores == {"lexical_score_finite"}
BothScores  == {"lexical_score_finite", "semantic_score_finite", "at_least_one_score"}

SearchVector  == {"document_chunks"} \X {"search_vector"}
TrustFields   == {Provenance} \X TrustColumns
TrustScope    == {"retrieval_runs"} \X {"trust_scope"}
SemanticScore == {Citations} \X {"semantic_score"}
RerankerScore == {Citations} \X {"reranker_score"}
Metadata      == {Versions} \X MetadataColumns

ColumnsAt(k) ==
  (IF k >= 3 THEN SearchVector ELSE {}) \cup (IF k >= 6 THEN TrustFields \cup TrustScope ELSE {})
  \cup (IF k >= 9 THEN SemanticScore ELSE {}) \cup (IF k >= 10 THEN RerankerScore ELSE {})
  \cup (IF k >= 11 THEN Metadata ELSE {})

ChecksAt(k) ==
  (IF k >= 3 /\ k < 9 THEN {Citations} \X FirstScores ELSE {})
  \cup (IF k >= 6 THEN {Provenance} \X TrustChecks ELSE {})
  \cup (IF k >= 9 THEN {Citations} \X BothScores ELSE {})
  \cup (IF k >= 10 THEN {Citations} \X {"reranker_score_finite"} ELSE {})

ExtensionAt(k) == IF k >= 1 THEN "vector" ELSE "none"

GuardedAt(k) == IF k = Latest THEN {Registry[i] : i \in 1 .. 4} ELSE {}

\* What the rows hold at revision k: how a document was fetched, a pin only from 0006
\* on, and a score, which before 0009 is a lexical one.
ScoreColumns == {"lexical_score", "semantic_score", "reranker_score"}

RowsHold(P, R, k) ==
  /\ \A v \in DOMAIN P : /\ DOMAIN P[v] = ProvenanceColumns
                         /\ P[v].tls_verified \in {"yes", "no"}
                         /\ k < 6 => P[v].pin_set_id = "null"
  /\ \A r \in DOMAIN R : /\ DOMAIN R[r] = ScoreColumns
                         /\ R[r].lexical_score # "null" \/ R[r].semantic_score # "null"
                         /\ k < 9 => R[r].lexical_score # "null"

AtRevision(d, k) ==
  /\ Fits(d, CountAt(k), ColumnsAt(k), ChecksAt(k), GuardedAt(k), ExtensionAt(k),
          d.provenance, d.citations)
  /\ RowsHold(d.provenance, d.citations, k)

LEMMA ConcernedTables ==
  ASSUME NEW k
  PROVE  \A c \in ColumnsAt(k) \cup ChecksAt(k) :
           c[1] \in {"document_chunks", Provenance, "retrieval_runs", Citations, Versions}
  BY DEF ColumnsAt, ChecksAt, SearchVector, TrustFields, TrustScope, SemanticScore,
         RerankerScore, Metadata

\* No column or CHECK of a revision is about another table.
LEMMA DropOther ==
  ASSUME NEW d, NEW n \in 1 .. 18, NEW j, NEW k, NEW G, NEW x, NEW P, NEW R,
         Fits(d, n, ColumnsAt(j), ChecksAt(k), G, x, P, R),
         NEW t \in DOMAIN TableRank, TableRank[t] = n, NEW m, m = n - 1,
         t \notin {"document_chunks", Provenance, "retrieval_runs", Citations, Versions},
         t \notin G
  PROVE  Fits(Execute(d, Drop(t)), m, ColumnsAt(j), ChecksAt(k), G, x, P, R)
<1>1. (\A c \in ColumnsAt(j) : c[1] # t) /\ (\A c \in ChecksAt(k) : c[1] # t)
  BY ConcernedTables
<1> QED
  BY <1>1, DropClean

\* The fold over a list that is written out.
InTurn(d, steps, n, r) ==
  /\ r[0] = d /\ r[n] = FoldLeft(Execute, d, steps)
  /\ \A i \in 1 .. n : r[i] = Execute(r[i - 1], steps[i])

LEMMA FoldInTurn ==
  ASSUME NEW d, NEW steps, NEW n \in Nat, DOMAIN steps = 1 .. n
  PROVE  \E r : InTurn(d, steps, n, r)
<1>1. PICK r : IsRow("statements", steps, d, n, r) /\ r[n] = FoldLeft(Execute, d, steps)
  BY FoldOfStatements
<1> QED
  BY <1>1 DEF IsRow, FoldedIn, InTurn

LEMMA NoInTurn ==
  ASSUME NEW d, NEW steps, DOMAIN steps = 1 .. 0
  PROVE  FoldLeft(Execute, d, steps) = d
<1>1. PICK r : InTurn(d, steps, 0, r)
  BY FoldInTurn
<1> QED
  BY <1>1 DEF InTurn

LEMMA OneInTurn ==
  ASSUME NEW d, NEW steps, DOMAIN steps = 1 .. 1
  PROVE  FoldLeft(Execute, d, steps) = Execute(d, steps[1])
<1>1. PICK r : InTurn(d, steps, 1, r)
  BY FoldInTurn
<1>2. r[1] = Execute(r[0], steps[1])
  <2>1. 1 \in 1 .. 1 /\ 1 - 1 = 0
    OBVIOUS
  <2> QED BY <1>1, <2>1 DEF InTurn
<1> QED
  BY <1>1, <1>2 DEF InTurn

LEMMA TwoInTurn ==
  ASSUME NEW d, NEW steps, DOMAIN steps = 1 .. 2
  PROVE  FoldLeft(Execute, d, steps) = Execute(Execute(d, steps[1]), steps[2])
<1>1. PICK r : InTurn(d, steps, 2, r)
  BY FoldInTurn
<1>2. r[1] = Execute(r[0], steps[1]) /\ r[2] = Execute(r[1], steps[2])
  <2>1. 1 \in 1 .. 2 /\ 1 - 1 = 0 /\ 2 \in 1 .. 2 /\ 2 - 1 = 1
    OBVIOUS
  <2> QED BY <1>1, <2>1 DEF InTurn
<1> QED
  BY <1>1, <1>2 DEF InTurn

LEMMA ThreeInTurn ==
  ASSUME NEW d, NEW steps, DOMAIN steps = 1 .. 3
  PROVE  FoldLeft(Execute, d, steps) =
           Execute(Execute(Execute(d, steps[1]), steps[2]), steps[3])
<1>1. PICK r : InTurn(d, steps, 3, r)
  BY FoldInTurn
<1>2. /\ r[1] = Execute(r[0], steps[1]) /\ r[2] = Execute(r[1], steps[2])
      /\ r[3] = Execute(r[2], steps[3])
  <2>1. 1 \in 1 .. 3 /\ 1 - 1 = 0 /\ 2 \in 1 .. 3 /\ 2 - 1 = 1 /\ 3 \in 1 .. 3 /\ 3 - 1 = 2
    OBVIOUS
  <2> QED BY <1>1, <2>1 DEF InTurn
<1> QED
  BY <1>1, <1>2 DEF InTurn

LEMMA FourInTurn ==
  ASSUME NEW d, NEW steps, DOMAIN steps = 1 .. 4
  PROVE  FoldLeft(Execute, d, steps) =
           Execute(Execute(Execute(Execute(d, steps[1]), steps[2]), steps[3]), steps[4])
<1>1. PICK r : InTurn(d, steps, 4, r)
  BY FoldInTurn
<1>2. /\ r[1] = Execute(r[0], steps[1]) /\ r[2] = Execute(r[1], steps[2])
      /\ r[3] = Execute(r[2], steps[3]) /\ r[4] = Execute(r[3], steps[4])
  <2>1. /\ 1 \in 1 .. 4 /\ 1 - 1 = 0 /\ 2 \in 1 .. 4 /\ 2 - 1 = 1 /\ 3 \in 1 .. 4 /\ 3 - 1 = 2
        /\ 4 \in 1 .. 4 /\ 4 - 1 = 3
    OBVIOUS
  <2> QED BY <1>1, <2>1 DEF InTurn
<1> QED
  BY <1>1, <1>2 DEF InTurn

LEMMA FiveInTurn ==
  ASSUME NEW d, NEW steps, DOMAIN steps = 1 .. 5
  PROVE  FoldLeft(Execute, d, steps) =
           Execute(Execute(Execute(Execute(Execute(d,
             steps[1]), steps[2]), steps[3]), steps[4]), steps[5])
<1>1. PICK r : InTurn(d, steps, 5, r)
  BY FoldInTurn
<1>2. /\ r[1] = Execute(r[0], steps[1]) /\ r[2] = Execute(r[1], steps[2])
      /\ r[3] = Execute(r[2], steps[3]) /\ r[4] = Execute(r[3], steps[4])
      /\ r[5] = Execute(r[4], steps[5])
  <2>1. /\ 1 \in 1 .. 5 /\ 1 - 1 = 0 /\ 2 \in 1 .. 5 /\ 2 - 1 = 1 /\ 3 \in 1 .. 5 /\ 3 - 1 = 2
        /\ 4 \in 1 .. 5 /\ 4 - 1 = 3 /\ 5 \in 1 .. 5 /\ 5 - 1 = 4
    OBVIOUS
  <2> QED BY <1>1, <2>1 DEF InTurn
<1> QED
  BY <1>1, <1>2 DEF InTurn

LEMMA SixInTurn ==
  ASSUME NEW d, NEW steps, DOMAIN steps = 1 .. 6
  PROVE  FoldLeft(Execute, d, steps) =
           Execute(Execute(Execute(Execute(Execute(Execute(d,
             steps[1]), steps[2]), steps[3]), steps[4]), steps[5]), steps[6])
<1>1. PICK r : InTurn(d, steps, 6, r)
  BY FoldInTurn
<1>2. /\ r[1] = Execute(r[0], steps[1]) /\ r[2] = Execute(r[1], steps[2])
      /\ r[3] = Execute(r[2], steps[3]) /\ r[4] = Execute(r[3], steps[4])
      /\ r[5] = Execute(r[4], steps[5]) /\ r[6] = Execute(r[5], steps[6])
  <2>1. /\ 1 \in 1 .. 6 /\ 1 - 1 = 0 /\ 2 \in 1 .. 6 /\ 2 - 1 = 1 /\ 3 \in 1 .. 6 /\ 3 - 1 = 2
        /\ 4 \in 1 .. 6 /\ 4 - 1 = 3 /\ 5 \in 1 .. 6 /\ 5 - 1 = 4 /\ 6 \in 1 .. 6 /\ 6 - 1 = 5
    OBVIOUS
  <2> QED BY <1>1, <2>1 DEF InTurn
<1> QED
  BY <1>1, <1>2 DEF InTurn

\* The downgrades that are written with concatenations.
LEMMA ListsOfDrops ==
  /\ Down0002 = << Drop("chunk_embeddings"), Drop("document_chunks"), Drop(Provenance),
                   Drop(Versions), Drop("legal_documents") >>
  /\ Down0003 = << Drop(Citations), Drop("retrieval_runs"),
                   DropColumns("document_chunks", {"search_vector"}) >>
  /\ Down0004 = << Drop("conversation_exchange_references"), Drop("conversation_exchanges"),
                   Drop("conversations") >>
  /\ Down0005 = << Drop("channel_outbound_deliveries"), Drop("channel_conversation_bindings") >>
  /\ Down0007 = << Drop("corpus_catalog_entries"), Drop("corpus_ingestion_runs") >>
  /\ Down0012 = << Unguard({Registry[k] : k \in 1 .. 4}), Drop(Registry[4]), Drop(Registry[3]),
                   Drop(Registry[2]), Drop(Registry[1]) >>
<1>1. Down0002 = << Drop("chunk_embeddings"), Drop("document_chunks"), Drop(Provenance),
                    Drop(Versions), Drop("legal_documents") >>
  BY DEF Down0002, DropTables, Drop, Provenance, Versions
<1>2. Down0003 = << Drop(Citations), Drop("retrieval_runs"),
                    DropColumns("document_chunks", {"search_vector"}) >>
  <2>1. DropTables(<< "citation_records", "retrieval_runs" >>)
          = << Drop(Citations), Drop("retrieval_runs") >>
    BY DEF DropTables, Drop, Citations
  <2>2. ASSUME NEW a, NEW b, NEW c PROVE << a, b >> \o << c >> = << a, b, c >>
    <3> DEFINE s == << a, b >> \o << c >>
    <3>1. Len(<< a, b >>) = 2 /\ Len(<< c >>) = 1
      OBVIOUS
    <3>2. s = [i \in 1 .. 3 |-> IF i <= 2 THEN << a, b >>[i] ELSE << c >>[i - 2]]
      BY <3>1
    <3>3. DOMAIN s = 1 .. 3 /\ s[1] = a /\ s[2] = b /\ s[3] = c
      BY <3>2
    <3> HIDE DEF s
    <3>4. s = << a, b, c >>
      BY <3>2, <3>3
    <3> QED BY <3>4 DEF s
  <2> QED BY <2>1, <2>2 DEF Down0003
<1>3. /\ Down0004 = << Drop("conversation_exchange_references"), Drop("conversation_exchanges"),
                       Drop("conversations") >>
      /\ Down0005 = << Drop("channel_outbound_deliveries"),
                       Drop("channel_conversation_bindings") >>
      /\ Down0007 = << Drop("corpus_catalog_entries"), Drop("corpus_ingestion_runs") >>
  BY DEF Down0004, Down0005, Down0007, DropTables, Drop
<1>4. Down0012 = << Unguard({Registry[k] : k \in 1 .. 4}), Drop(Registry[4]), Drop(Registry[3]),
                    Drop(Registry[2]), Drop(Registry[1]) >>
  <2>1. DropTables(<< Registry[4], Registry[3], Registry[2], Registry[1] >>)
          = << Drop(Registry[4]), Drop(Registry[3]), Drop(Registry[2]), Drop(Registry[1]) >>
    BY DEF DropTables, Drop
  <2>2. ASSUME NEW a, NEW b, NEW c, NEW p, NEW q
        PROVE  << a >> \o << b, c, p, q >> = << a, b, c, p, q >>
    <3> DEFINE s == << a >> \o << b, c, p, q >>
    <3>1. Len(<< a >>) = 1 /\ Len(<< b, c, p, q >>) = 4
      OBVIOUS
    <3>2. s = [i \in 1 .. 5 |-> IF i <= 1 THEN << a >>[i] ELSE << b, c, p, q >>[i - 1]]
      BY <3>1
    <3>3. DOMAIN s = 1 .. 5 /\ s[1] = a /\ s[2] = b /\ s[3] = c /\ s[4] = p /\ s[5] = q
      BY <3>2
    <3> HIDE DEF s
    <3>4. s = << a, b, c, p, q >>
      BY <3>2, <3>3
    <3> QED BY <3>4 DEF s
  <2> QED BY <2>1, <2>2 DEF Down0012
<1> QED
  BY <1>1, <1>2, <1>3, <1>4

RegistryTables == {Registry[i] : i \in 1 .. 4}

Laid(k, n, C, K, G, x) ==
  /\ CountAt(k) = n /\ ColumnsAt(k) = C /\ ChecksAt(k) = K /\ GuardedAt(k) = G
  /\ ExtensionAt(k) = x

LEMMA Layout ==
  /\ Laid(0, 0, {}, {}, {}, "none") /\ Laid(1, 0, {}, {}, {}, "vector")
  /\ Laid(2, 5, {}, {}, {}, "vector")
  /\ Laid(3, 7, SearchVector, {Citations} \X FirstScores, {}, "vector")
  /\ Laid(4, 10, ColumnsAt(3), ChecksAt(3), {}, "vector")
  /\ Laid(5, 12, ColumnsAt(3), ChecksAt(3), {}, "vector")
  /\ Laid(6, 12, ColumnsAt(3) \cup TrustFields \cup TrustScope,
          ChecksAt(3) \cup {Provenance} \X TrustChecks, {}, "vector")
  /\ Laid(7, 14, ColumnsAt(6), ChecksAt(6), {}, "vector")
  /\ Laid(8, 14, ColumnsAt(6), ChecksAt(6), {}, "vector")
  /\ Laid(9, 14, ColumnsAt(6) \cup SemanticScore,
          (ChecksAt(6) \ {Citations} \X FirstScores) \cup {Citations} \X BothScores, {},
          "vector")
  /\ Laid(10, 14, ColumnsAt(9) \cup RerankerScore,
          ChecksAt(9) \cup {Citations} \X {"reranker_score_finite"}, {}, "vector")
  /\ Laid(11, 14, ColumnsAt(10) \cup Metadata, ChecksAt(10), {}, "vector")
  /\ Laid(12, 18, ColumnsAt(11), ChecksAt(10), RegistryTables, "vector")
<1>1. /\ CountAt(0) = 0 /\ CountAt(1) = 0 /\ CountAt(2) = 5 /\ CountAt(3) = 7 /\ CountAt(4) = 10
      /\ CountAt(5) = 12 /\ CountAt(6) = 12 /\ CountAt(7) = 14 /\ CountAt(8) = 14
      /\ CountAt(9) = 14 /\ CountAt(10) = 14 /\ CountAt(11) = 14 /\ CountAt(12) = 18
  BY DEF CountAt
<1>2. /\ ColumnsAt(0) = {} /\ ColumnsAt(1) = {} /\ ColumnsAt(2) = {}
      /\ ColumnsAt(3) = SearchVector /\ ColumnsAt(4) = ColumnsAt(3)
      /\ ColumnsAt(5) = ColumnsAt(3)
      /\ ColumnsAt(6) = ColumnsAt(3) \cup TrustFields \cup TrustScope
  BY DEF ColumnsAt
<1>3. /\ ColumnsAt(7) = ColumnsAt(6) /\ ColumnsAt(8) = ColumnsAt(6)
      /\ ColumnsAt(9) = ColumnsAt(6) \cup SemanticScore
      /\ ColumnsAt(10) = ColumnsAt(9) \cup RerankerScore
      /\ ColumnsAt(11) = ColumnsAt(10) \cup Metadata /\ ColumnsAt(12) = ColumnsAt(11)
  BY DEF ColumnsAt
<1>4. /\ ChecksAt(0) = {} /\ ChecksAt(1) = {} /\ ChecksAt(2) = {}
      /\ ChecksAt(3) = {Citations} \X FirstScores /\ ChecksAt(4) = ChecksAt(3)
      /\ ChecksAt(5) = ChecksAt(3)
      /\ ChecksAt(6) = ChecksAt(3) \cup {Provenance} \X TrustChecks
      /\ ChecksAt(7) = ChecksAt(6) /\ ChecksAt(8) = ChecksAt(6)
  BY DEF ChecksAt
<1>5. /\ ChecksAt(9) = (ChecksAt(6) \ {Citations} \X FirstScores) \cup {Citations} \X BothScores
      /\ ChecksAt(10) = ChecksAt(9) \cup {Citations} \X {"reranker_score_finite"}
      /\ ChecksAt(11) = ChecksAt(10) /\ ChecksAt(12) = ChecksAt(10)
  <2>1. Provenance # Citations
    BY DEF Provenance, Citations
  <2> QED BY <2>1 DEF ChecksAt
<1>6. /\ \A k \in 0 .. 11 : GuardedAt(k) = {}
      /\ GuardedAt(12) = RegistryTables
      /\ ExtensionAt(0) = "none" /\ \A k \in 1 .. 12 : ExtensionAt(k) = "vector"
  BY DEF GuardedAt, Latest, ExtensionAt, RegistryTables
<1> QED
  BY <1>1, <1>2, <1>3, <1>4, <1>5, <1>6 DEF Laid

LEMMA LayoutByName ==
  /\ Laid(3, 7, ColumnsAt(3), ChecksAt(3), {}, "vector")
  /\ Laid(6, 12, ColumnsAt(6), ChecksAt(6), {}, "vector")
  /\ Laid(9, 14, ColumnsAt(6) \cup SemanticScore, ChecksAt(9), {}, "vector")
  /\ Laid(9, 14, ColumnsAt(9), ChecksAt(9), {}, "vector")
  /\ Laid(10, 14, ColumnsAt(10), ChecksAt(10), {}, "vector")
  /\ Laid(11, 14, ColumnsAt(11), ChecksAt(10), {}, "vector")
  BY Layout DEF Laid

\* To be at a revision, in terms of what the revision has.
LEMMA FromRevision ==
  ASSUME NEW d, NEW k, NEW n, NEW C, NEW K, NEW G, NEW x, Laid(k, n, C, K, G, x),
         AtRevision(d, k)
  PROVE  /\ Fits(d, n, C, K, G, x, d.provenance, d.citations)
         /\ RowsHold(d.provenance, d.citations, k)
  BY DEF Laid, AtRevision

LEMMA ToRevision ==
  ASSUME NEW d, NEW k, NEW n, NEW C, NEW K, NEW G, NEW x, NEW P, NEW R,
         Laid(k, n, C, K, G, x), Fits(d, n, C, K, G, x, P, R), RowsHold(P, R, k)
  PROVE  AtRevision(d, k) /\ d.citations = R
<1>1. d.provenance = P /\ d.citations = R
  BY DEF Fits
<1> QED
  BY <1>1 DEF Laid, AtRevision

-------------------------------------------------------------------------------
(***************************************************************************)
(* Schema migrations: each revision, statement by statement, from the catalog*)
(* of the one before to its own, and back.                                 *)
(***************************************************************************)
LEMMA RegistryIs ==
  RegistryTables = {"reviewed_legal_effect_imports", "reviewed_legal_effect_families",
                    "reviewed_legal_effect_assertions", "reviewed_legal_effect_events"}
<1>1. \A k \in 1 .. 4 : k \in {1, 2, 3, 4}
  OBVIOUS
<1> QED
  BY <1>1 DEF RegistryTables, Registry

LEMMA Upgrade0008 ==
  ASSUME NEW d, AtRevision(d, 7)
  PROVE  AtRevision(FoldLeft(Execute, d, Up0008), 8)
<1>1. FoldLeft(Execute, d, Up0008) = d
  BY NoInTurn DEF Up0008
<1>2. Fits(d, 14, ColumnsAt(6), ChecksAt(6), {}, "vector", d.provenance, d.citations)
      /\ RowsHold(d.provenance, d.citations, 7)
  BY Layout, LayoutByName, FromRevision
<1>3. RowsHold(d.provenance, d.citations, 8)
  BY <1>2 DEF RowsHold
<1> QED
  BY <1>1, <1>2, <1>3, Layout, ToRevision

\* The upgrades, statement by statement.
LEMMA Upgrade0001 ==
  ASSUME NEW d, AtRevision(d, 0)
  PROVE  AtRevision(FoldLeft(Execute, d, Up0001), 1)
<1> DEFINE P == d.provenance
           R == d.citations
           d1 == Execute(d, Do("extension"))
<1>1. FoldLeft(Execute, d, Up0001) = d1
  <2>1. /\ DOMAIN Up0001 = 1 .. 1
        /\ Up0001[1] = Do("extension")
    BY DEF Up0001
  <2> QED BY <2>1, OneInTurn
<1>2. Fits(d, 0, {}, {}, {}, "none", P, R) /\ RowsHold(P, R, 0)
  BY Layout, LayoutByName, FromRevision
<1> HIDE DEF P, R
<1>3. Fits(d1, 0, {}, {}, {}, "vector", P, R)
  BY <1>2, ExtensionFits
<1> HIDE DEF d1
<1>4. RowsHold(P, R, 1)
  BY <1>2 DEF RowsHold
<1> QED
  BY <1>1, <1>3, <1>4, Layout, ToRevision

LEMMA Upgrade0002 ==
  ASSUME NEW d, AtRevision(d, 1)
  PROVE  AtRevision(FoldLeft(Execute, d, Up0002), 2)
<1> DEFINE P == d.provenance
           R == d.citations
           d1 == Execute(d, Create("legal_documents", {}))
           d2 == Execute(d1, Create("document_versions", {"legal_documents"}))
           d3 == Execute(d2, Create("source_provenance_records", {"document_versions"}))
           d4 == Execute(d3, Create("document_chunks", {"document_versions"}))
           d5 == Execute(d4, Create("chunk_embeddings", {"document_chunks"}))
<1>1. FoldLeft(Execute, d, Up0002) = d5
  <2>1. /\ DOMAIN Up0002 = 1 .. 5
        /\ Up0002[1] = Create("legal_documents", {})
        /\ Up0002[2] = Create("document_versions", {"legal_documents"})
        /\ Up0002[3] = Create("source_provenance_records", {"document_versions"})
        /\ Up0002[4] = Create("document_chunks", {"document_versions"})
        /\ Up0002[5] = Create("chunk_embeddings", {"document_chunks"})
    BY DEF Up0002
  <2> QED BY <2>1, FiveInTurn
<1>2. Fits(d, 0, {}, {}, {}, "vector", P, R) /\ RowsHold(P, R, 1)
  BY Layout, LayoutByName, FromRevision
<1> HIDE DEF P, R
<1>3. Fits(d1, 1, {}, {}, {}, "vector", P, R)
  BY <1>2, CreateFits, Ranks DEF FirstTables
<1> HIDE DEF d1
<1>4. Fits(d2, 2, {}, {}, {}, "vector", P, R)
  BY <1>3, CreateFits, Ranks DEF FirstTables
<1> HIDE DEF d2
<1>5. Fits(d3, 3, {}, {}, {}, "vector", P, R)
  BY <1>4, CreateFits, Ranks DEF FirstTables
<1> HIDE DEF d3
<1>6. Fits(d4, 4, {}, {}, {}, "vector", P, R)
  BY <1>5, CreateFits, Ranks DEF FirstTables
<1> HIDE DEF d4
<1>7. Fits(d5, 5, {}, {}, {}, "vector", P, R)
  BY <1>6, CreateFits, Ranks DEF FirstTables
<1> HIDE DEF d5
<1>8. RowsHold(P, R, 2)
  BY <1>2 DEF RowsHold
<1> QED
  BY <1>1, <1>7, <1>8, Layout, ToRevision

LEMMA Upgrade0003 ==
  ASSUME NEW d, AtRevision(d, 2)
  PROVE  AtRevision(FoldLeft(Execute, d, Up0003), 3)
<1> DEFINE P == d.provenance
           R == d.citations
           d1 == Execute(d, AddColumns("document_chunks", {"search_vector"}))
           d2 == Execute(d1, Create("retrieval_runs", {}))
           d3 == Execute(d2, Create("citation_records", {"retrieval_runs", "document_chunks",
                  "source_provenance_records"}))
           d4 == Execute(d3, Require(Citations, {"lexical_score"}))
           d5 == Execute(d4, Checks(Citations, FirstScores))
<1>1. FoldLeft(Execute, d, Up0003) = d5
  <2>1. /\ DOMAIN Up0003 = 1 .. 5
        /\ Up0003[1] = AddColumns("document_chunks", {"search_vector"})
        /\ Up0003[2] = Create("retrieval_runs", {})
        /\ Up0003[3] = Create("citation_records", {"retrieval_runs", "document_chunks",
               "source_provenance_records"})
        /\ Up0003[4] = Require(Citations, {"lexical_score"})
        /\ Up0003[5] = Checks(Citations, FirstScores)
    BY DEF Up0003, Citations, FirstScores
  <2> QED BY <2>1, FiveInTurn
<1>2. Fits(d, 5, {}, {}, {}, "vector", P, R) /\ RowsHold(P, R, 2)
  BY Layout, LayoutByName, FromRevision
<1> HIDE DEF P, R
<1>3. /\ "document_chunks" \in FirstTables(5)
      /\ {"document_chunks"} \X {"search_vector"} \cap {} = {}
      /\ SearchVector = {} \cup {"document_chunks"} \X {"search_vector"}
  BY Ranks DEF FirstTables, SearchVector
<1>4. Fits(d1, 5, SearchVector, {}, {}, "vector", P, R)
  BY <1>2, <1>3, AddFits
<1> HIDE DEF d1
<1>5. Fits(d2, 6, SearchVector, {}, {}, "vector", P, R)
  BY <1>4, CreateFits, Ranks DEF FirstTables
<1> HIDE DEF d2
<1>6. Fits(d3, 7, SearchVector, {}, {}, "vector", P, R)
  BY <1>5, CreateFits, Ranks DEF FirstTables
<1> HIDE DEF d3
<1>7. \A c \in {"lexical_score"} : ~HasNull(d3, Citations, c)
  BY <1>2, <1>6 DEF HasNull, RowsOf, Field, Citations, Fits, RowsHold
<1>8. Fits(d4, 7, SearchVector, {}, {}, "vector", P, R)
  BY <1>6, <1>7, RequireFits
<1> HIDE DEF d4
<1>9. /\ Citations \in FirstTables(7) /\ ({Citations} \X FirstScores) \cap {} = {}
      /\ {Citations} \X FirstScores = {} \cup {Citations} \X FirstScores
      /\ \A name \in FirstScores : Passes(d4, name)
  BY Ranks DEF FirstTables, Citations, FirstScores, Passes
<1>10. Fits(d5, 7, SearchVector, {Citations} \X FirstScores, {}, "vector", P, R)
  BY <1>8, <1>9, CheckFits
<1> HIDE DEF d5
<1>11. RowsHold(P, R, 3)
  BY <1>2 DEF RowsHold
<1> QED
  BY <1>1, <1>10, <1>11, Layout, ToRevision

LEMMA Upgrade0004 ==
  ASSUME NEW d, AtRevision(d, 3)
  PROVE  AtRevision(FoldLeft(Execute, d, Up0004), 4)
<1> DEFINE P == d.provenance
           R == d.citations
           d1 == Execute(d, Create("conversations", {}))
           d2 == Execute(d1, Create("conversation_exchanges", {"conversations",
                  "retrieval_runs"}))
           d3 == Execute(d2, Create("conversation_exchange_references",
                  {"conversation_exchanges"}))
<1>1. FoldLeft(Execute, d, Up0004) = d3
  <2>1. /\ DOMAIN Up0004 = 1 .. 3
        /\ Up0004[1] = Create("conversations", {})
        /\ Up0004[2] = Create("conversation_exchanges", {"conversations", "retrieval_runs"})
        /\ Up0004[3] = Create("conversation_exchange_references", {"conversation_exchanges"})
    BY DEF Up0004
  <2> QED BY <2>1, ThreeInTurn
<1>2. Fits(d, 7, ColumnsAt(3), ChecksAt(3), {}, "vector", P, R) /\ RowsHold(P, R, 3)
  BY Layout, LayoutByName, FromRevision
<1> HIDE DEF P, R
<1>3. Fits(d1, 8, ColumnsAt(3), ChecksAt(3), {}, "vector", P, R)
  BY <1>2, CreateFits, Ranks DEF FirstTables
<1> HIDE DEF d1
<1>4. Fits(d2, 9, ColumnsAt(3), ChecksAt(3), {}, "vector", P, R)
  BY <1>3, CreateFits, Ranks DEF FirstTables
<1> HIDE DEF d2
<1>5. Fits(d3, 10, ColumnsAt(3), ChecksAt(3), {}, "vector", P, R)
  BY <1>4, CreateFits, Ranks DEF FirstTables
<1> HIDE DEF d3
<1>6. RowsHold(P, R, 4)
  BY <1>2 DEF RowsHold
<1> QED
  BY <1>1, <1>5, <1>6, Layout, ToRevision

LEMMA Upgrade0005 ==
  ASSUME NEW d, AtRevision(d, 4)
  PROVE  AtRevision(FoldLeft(Execute, d, Up0005), 5)
<1> DEFINE P == d.provenance
           R == d.citations
           d1 == Execute(d, Create("channel_conversation_bindings", {"conversations"}))
           d2 == Execute(d1, Create("channel_outbound_deliveries",
                  {"channel_conversation_bindings", "conversation_exchanges"}))
<1>1. FoldLeft(Execute, d, Up0005) = d2
  <2>1. /\ DOMAIN Up0005 = 1 .. 2
        /\ Up0005[1] = Create("channel_conversation_bindings", {"conversations"})
        /\ Up0005[2] = Create("channel_outbound_deliveries", {"channel_conversation_bindings",
               "conversation_exchanges"})
    BY DEF Up0005
  <2> QED BY <2>1, TwoInTurn
<1>2. Fits(d, 10, ColumnsAt(3), ChecksAt(3), {}, "vector", P, R) /\ RowsHold(P, R, 4)
  BY Layout, LayoutByName, FromRevision
<1> HIDE DEF P, R
<1>3. Fits(d1, 11, ColumnsAt(3), ChecksAt(3), {}, "vector", P, R)
  BY <1>2, CreateFits, Ranks DEF FirstTables
<1> HIDE DEF d1
<1>4. Fits(d2, 12, ColumnsAt(3), ChecksAt(3), {}, "vector", P, R)
  BY <1>3, CreateFits, Ranks DEF FirstTables
<1> HIDE DEF d2
<1>5. RowsHold(P, R, 5)
  BY <1>2 DEF RowsHold
<1> QED
  BY <1>1, <1>4, <1>5, Layout, ToRevision

LEMMA Upgrade0006 ==
  ASSUME NEW d, AtRevision(d, 5)
  PROVE  AtRevision(FoldLeft(Execute, d, Up0006), 6)
<1> DEFINE P == d.provenance
           R == d.citations
           Q == [v \in DOMAIN P |-> Trusted(P[v])]
           d1 == Execute(d, AddColumns(Provenance, TrustColumns))
           d2 == Execute(d1, Do("trust"))
           d3 == Execute(d2, Require(Provenance, TrustColumns \ {"pin_set_id"}))
           d4 == Execute(d3, Checks(Provenance, TrustChecks))
           d5 == Execute(d4, AddColumns("retrieval_runs", {"trust_scope"}))
           d6 == Execute(d5, Require("retrieval_runs", {"trust_scope"}))
<1>1. FoldLeft(Execute, d, Up0006) = d6
  <2>1. /\ DOMAIN Up0006 = 1 .. 6
        /\ Up0006[1] = AddColumns(Provenance, TrustColumns)
        /\ Up0006[2] = Do("trust")
        /\ Up0006[3] = Require(Provenance, TrustColumns \ {"pin_set_id"})
        /\ Up0006[4] = Checks(Provenance, TrustChecks)
        /\ Up0006[5] = AddColumns("retrieval_runs", {"trust_scope"})
        /\ Up0006[6] = Require("retrieval_runs", {"trust_scope"})
    BY DEF Up0006, Provenance
  <2> QED BY <2>1, SixInTurn
<1>2. Fits(d, 12, ColumnsAt(3), ChecksAt(3), {}, "vector", P, R) /\ RowsHold(P, R, 5)
  BY Layout, LayoutByName, FromRevision
<1> HIDE DEF P, R, Q
<1>3. /\ DOMAIN Q = DOMAIN P
      /\ \A v \in DOMAIN P :
           /\ DOMAIN Q[v] = ProvenanceColumns /\ Q[v].tls_verified \in {"yes", "no"}
           /\ Q[v].transport_trust_mode # "null" /\ Q[v].tls_chain_verified # "null"
           /\ Q[v].tls_hostname_verified # "null" /\ TrustShape(Q[v]) /\ Compatible(Q[v])
  <2>1. ProvenanceColumns = {"transport_trust_mode", "tls_chain_verified", "pin_set_id",
                             "tls_hostname_verified", "tls_verified"}
    BY DEF ProvenanceColumns, TrustColumns
  <2>2. DOMAIN Q = DOMAIN P /\ \A v \in DOMAIN P : Q[v] = Trusted(P[v])
    BY DEF Q
  <2>3. ASSUME NEW v \in DOMAIN P
        PROVE  /\ DOMAIN P[v] = ProvenanceColumns /\ P[v].tls_verified \in {"yes", "no"}
               /\ P[v].pin_set_id = "null"
    BY <1>2 DEF RowsHold
  <2>4. ASSUME NEW v \in DOMAIN P
        PROVE  /\ DOMAIN Q[v] = ProvenanceColumns
               /\ Q[v].tls_verified = P[v].tls_verified /\ Q[v].pin_set_id = "null"
               /\ Q[v].transport_trust_mode = (IF P[v].tls_verified = "yes" THEN "STRICT_TLS"
                                               ELSE "LEGACY_UNVERIFIED")
               /\ Q[v].tls_chain_verified = P[v].tls_verified
               /\ Q[v].tls_hostname_verified = P[v].tls_verified
    <3>1. Q[v] = Trusted(P[v]) /\ DOMAIN P[v] = ProvenanceColumns /\ P[v].pin_set_id = "null"
      BY <2>2, <2>3
    <3> QED BY <2>1, <3>1 DEF Trusted
  <2> QED BY <2>2, <2>3, <2>4 DEF TrustShape, Compatible
<1>4. /\ Provenance \in FirstTables(12) /\ {Provenance} \X TrustColumns \cap ColumnsAt(3) = {}
      /\ ColumnsAt(3) \cup TrustFields = ColumnsAt(3) \cup {Provenance} \X TrustColumns
  BY Ranks DEF FirstTables, Provenance, ColumnsAt, SearchVector, TrustFields
<1>5. Fits(d1, 12, ColumnsAt(3) \cup TrustFields, ChecksAt(3), {}, "vector", P, R)
  BY <1>2, <1>4, AddFits
<1> HIDE DEF d1
<1>6. Fits(d2, 12, ColumnsAt(3) \cup TrustFields, ChecksAt(3), {}, "vector", Q, R)
  BY <1>5, TrustFits DEF Q
<1> HIDE DEF d2
<1>7. \A c \in TrustColumns \ {"pin_set_id"} : ~HasNull(d2, Provenance, c)
  BY <1>3, <1>6 DEF HasNull, RowsOf, Field, Provenance, TrustColumns, Fits
<1>8. Fits(d3, 12, ColumnsAt(3) \cup TrustFields, ChecksAt(3), {}, "vector", Q, R)
  BY <1>6, <1>7, RequireFits
<1> HIDE DEF d3
<1>9. /\ Provenance \in FirstTables(12) /\ ({Provenance} \X TrustChecks) \cap ChecksAt(3) = {}
  BY Ranks DEF FirstTables, Provenance, Citations, ChecksAt
<1>10. \A name \in TrustChecks : Passes(d3, name)
  BY <1>3, <1>8 DEF Passes, TrustChecks, Fits
<1>11. Fits(d4, 12, ColumnsAt(3) \cup TrustFields,
       ChecksAt(3) \cup {Provenance} \X TrustChecks, {}, "vector", Q, R)
  BY <1>8, <1>10, <1>9, CheckFits
<1> HIDE DEF d4
<1>12. /\ "retrieval_runs" \in FirstTables(12)
      /\ {"retrieval_runs"} \X {"trust_scope"} \cap (ColumnsAt(3) \cup TrustFields) = {}
      /\ ColumnsAt(3) \cup TrustFields \cup TrustScope
           = (ColumnsAt(3) \cup TrustFields) \cup {"retrieval_runs"} \X {"trust_scope"}
  BY Ranks DEF FirstTables, Provenance, ColumnsAt, SearchVector, TrustFields, TrustScope
<1>13. Fits(d5, 12, ColumnsAt(3) \cup TrustFields \cup TrustScope,
       ChecksAt(3) \cup {Provenance} \X TrustChecks, {}, "vector", Q, R)
  BY <1>11, <1>12, AddFits
<1> HIDE DEF d5
<1>14. \A c \in {"trust_scope"} : ~HasNull(d5, "retrieval_runs", c)
  BY DEF HasNull, RowsOf, Field, NoRows
<1>15. Fits(d6, 12, ColumnsAt(3) \cup TrustFields \cup TrustScope,
       ChecksAt(3) \cup {Provenance} \X TrustChecks, {}, "vector", Q, R)
  BY <1>13, <1>14, RequireFits
<1> HIDE DEF d6
<1>16. RowsHold(Q, R, 6)
  BY <1>2, <1>3 DEF RowsHold
<1> QED
  BY <1>1, <1>15, <1>16, Layout, ToRevision

LEMMA Upgrade0007 ==
  ASSUME NEW d, AtRevision(d, 6)
  PROVE  AtRevision(FoldLeft(Execute, d, Up0007), 7)
<1> DEFINE P == d.provenance
           R == d.citations
           d1 == Execute(d, Create("corpus_ingestion_runs", {}))
           d2 == Execute(d1, Create("corpus_catalog_entries", {"legal_documents",
                  "document_versions"}))
<1>1. FoldLeft(Execute, d, Up0007) = d2
  <2>1. /\ DOMAIN Up0007 = 1 .. 2
        /\ Up0007[1] = Create("corpus_ingestion_runs", {})
        /\ Up0007[2] = Create("corpus_catalog_entries", {"legal_documents", "document_versions"})
    BY DEF Up0007
  <2> QED BY <2>1, TwoInTurn
<1>2. Fits(d, 12, ColumnsAt(6), ChecksAt(6), {}, "vector", P, R) /\ RowsHold(P, R, 6)
  BY Layout, LayoutByName, FromRevision
<1> HIDE DEF P, R
<1>3. Fits(d1, 13, ColumnsAt(6), ChecksAt(6), {}, "vector", P, R)
  BY <1>2, CreateFits, Ranks DEF FirstTables
<1> HIDE DEF d1
<1>4. Fits(d2, 14, ColumnsAt(6), ChecksAt(6), {}, "vector", P, R)
  BY <1>3, CreateFits, Ranks DEF FirstTables
<1> HIDE DEF d2
<1>5. RowsHold(P, R, 7)
  BY <1>2 DEF RowsHold
<1> QED
  BY <1>1, <1>4, <1>5, Layout, ToRevision

LEMMA Upgrade0009 ==
  ASSUME NEW d, AtRevision(d, 8)
  PROVE  AtRevision(FoldLeft(Execute, d, Up0009), 9)
<1> DEFINE P == d.provenance
           R == d.citations
           d1 == Execute(d, Unchecks(Citations, FirstScores))
           d2 == Execute(d1, Release(Citations, {"lexical_score"}))
           d3 == Execute(d2, AddColumns(Citations, {"semantic_score"}))
           d4 == Execute(d3, Checks(Citations, BothScores))
<1>1. FoldLeft(Execute, d, Up0009) = d4
  <2>1. /\ DOMAIN Up0009 = 1 .. 4
        /\ Up0009[1] = Unchecks(Citations, FirstScores)
        /\ Up0009[2] = Release(Citations, {"lexical_score"})
        /\ Up0009[3] = AddColumns(Citations, {"semantic_score"})
        /\ Up0009[4] = Checks(Citations, BothScores)
    BY DEF Up0009, Citations, FirstScores, BothScores
  <2> QED BY <2>1, FourInTurn
<1>2. Fits(d, 14, ColumnsAt(6), ChecksAt(6), {}, "vector", P, R) /\ RowsHold(P, R, 8)
  BY Layout, LayoutByName, FromRevision
<1> HIDE DEF P, R
<1>3. {Citations} \X FirstScores \subseteq ChecksAt(6)
  BY DEF ChecksAt
<1>4. Fits(d1, 14, ColumnsAt(6), ChecksAt(6) \ {Citations} \X FirstScores, {}, "vector", P, R)
  BY <1>2, <1>3, UncheckFits
<1> HIDE DEF d1
<1>5. Fits(d2, 14, ColumnsAt(6), ChecksAt(6) \ {Citations} \X FirstScores, {}, "vector", P, R)
  BY <1>4, ReleaseFits
<1> HIDE DEF d2
<1>6. /\ Citations \in FirstTables(14)
      /\ {Citations} \X {"semantic_score"} \cap ColumnsAt(6) = {}
      /\ ColumnsAt(6) \cup SemanticScore = ColumnsAt(6) \cup {Citations} \X {"semantic_score"}
  BY Ranks DEF FirstTables, Provenance, Citations, ColumnsAt, SearchVector, TrustFields,
     TrustScope, SemanticScore
<1>7. Fits(d3, 14, ColumnsAt(6) \cup SemanticScore, ChecksAt(6) \ {Citations} \X FirstScores,
       {}, "vector", P, R)
  BY <1>5, <1>6, AddFits
<1> HIDE DEF d3
<1>8. \A name \in BothScores : Passes(d3, name)
  BY <1>2, <1>7 DEF Passes, BothScores, Fits, RowsHold
<1>9. /\ Citations \in FirstTables(14)
      /\ {Citations} \X BothScores \cap (ChecksAt(6) \ {Citations} \X FirstScores) = {}
  BY Ranks DEF FirstTables, Provenance, Citations, ChecksAt, FirstScores, BothScores, TrustChecks
<1>10. Fits(d4, 14, ColumnsAt(6) \cup SemanticScore,
       (ChecksAt(6) \ {Citations} \X FirstScores) \cup {Citations} \X BothScores, {}, "vector",
              P, R)
  BY <1>7, <1>9, <1>8, CheckFits
<1> HIDE DEF d4
<1>11. RowsHold(P, R, 9)
  BY <1>2 DEF RowsHold
<1> QED
  BY <1>1, <1>10, <1>11, Layout, ToRevision

LEMMA Upgrade0010 ==
  ASSUME NEW d, AtRevision(d, 9)
  PROVE  AtRevision(FoldLeft(Execute, d, Up0010), 10)
<1> DEFINE P == d.provenance
           R == d.citations
           d1 == Execute(d, AddColumns(Citations, {"reranker_score"}))
           d2 == Execute(d1, Checks(Citations, {"reranker_score_finite"}))
<1>1. FoldLeft(Execute, d, Up0010) = d2
  <2>1. /\ DOMAIN Up0010 = 1 .. 2
        /\ Up0010[1] = AddColumns(Citations, {"reranker_score"})
        /\ Up0010[2] = Checks(Citations, {"reranker_score_finite"})
    BY DEF Up0010, Citations
  <2> QED BY <2>1, TwoInTurn
<1>2. Fits(d, 14, ColumnsAt(9), ChecksAt(9), {}, "vector", P, R) /\ RowsHold(P, R, 9)
  BY Layout, LayoutByName, FromRevision
<1> HIDE DEF P, R
<1>3. /\ Citations \in FirstTables(14)
      /\ {Citations} \X {"reranker_score"} \cap ColumnsAt(9) = {}
      /\ ColumnsAt(9) \cup RerankerScore = ColumnsAt(9) \cup {Citations} \X {"reranker_score"}
  BY Ranks DEF FirstTables, Provenance, Citations, ColumnsAt, SearchVector, TrustFields,
     TrustScope, SemanticScore, RerankerScore, Metadata
<1>4. Fits(d1, 14, ColumnsAt(9) \cup RerankerScore, ChecksAt(9), {}, "vector", P, R)
  BY <1>2, <1>3, AddFits
<1> HIDE DEF d1
<1>5. /\ Citations \in FirstTables(14)
      /\ {Citations} \X {"reranker_score_finite"} \cap ChecksAt(9) = {}
      /\ \A name \in {"reranker_score_finite"} : Passes(d1, name)
  BY Ranks DEF FirstTables, Provenance, Citations, ChecksAt, BothScores, TrustChecks, Passes
<1>6. Fits(d2, 14, ColumnsAt(9) \cup RerankerScore,
       ChecksAt(9) \cup {Citations} \X {"reranker_score_finite"}, {}, "vector", P, R)
  BY <1>4, <1>5, CheckFits
<1> HIDE DEF d2
<1>7. RowsHold(P, R, 10)
  BY <1>2 DEF RowsHold
<1> QED
  BY <1>1, <1>6, <1>7, Layout, ToRevision

LEMMA Upgrade0011 ==
  ASSUME NEW d, AtRevision(d, 10)
  PROVE  AtRevision(FoldLeft(Execute, d, Up0011), 11)
<1> DEFINE P == d.provenance
           R == d.citations
           d1 == Execute(d, AddColumns(Versions, MetadataColumns))
<1>1. FoldLeft(Execute, d, Up0011) = d1
  <2>1. /\ DOMAIN Up0011 = 1 .. 1
        /\ Up0011[1] = AddColumns(Versions, MetadataColumns)
    BY DEF Up0011, Versions
  <2> QED BY <2>1, OneInTurn
<1>2. Fits(d, 14, ColumnsAt(10), ChecksAt(10), {}, "vector", P, R) /\ RowsHold(P, R, 10)
  BY Layout, LayoutByName, FromRevision
<1> HIDE DEF P, R
<1>3. /\ Versions \in FirstTables(14) /\ {Versions} \X MetadataColumns \cap ColumnsAt(10) = {}
      /\ ColumnsAt(10) \cup Metadata = ColumnsAt(10) \cup {Versions} \X MetadataColumns
  BY Ranks DEF FirstTables, Provenance, Citations, Versions, ColumnsAt, SearchVector,
         TrustFields,
     TrustScope, SemanticScore, RerankerScore, Metadata
<1>4. Fits(d1, 14, ColumnsAt(10) \cup Metadata, ChecksAt(10), {}, "vector", P, R)
  BY <1>2, <1>3, AddFits
<1> HIDE DEF d1
<1>5. RowsHold(P, R, 11)
  BY <1>2 DEF RowsHold
<1> QED
  BY <1>1, <1>4, <1>5, Layout, ToRevision

LEMMA Upgrade0012 ==
  ASSUME NEW d, AtRevision(d, 11)
  PROVE  AtRevision(FoldLeft(Execute, d, Up0012), 12)
<1> DEFINE P == d.provenance
           R == d.citations
           d1 == Execute(d, Create("reviewed_legal_effect_imports", {}))
           d2 == Execute(d1, Create("reviewed_legal_effect_families",
                  {"reviewed_legal_effect_imports"}))
           d3 == Execute(d2, Create("reviewed_legal_effect_assertions",
                  {"reviewed_legal_effect_families", "document_versions",
                         "source_provenance_records"}))
           d4 == Execute(d3, Create("reviewed_legal_effect_events",
                  {"reviewed_legal_effect_assertions"}))
           d5 == Execute(d4, Guard(RegistryTables))
<1>1. FoldLeft(Execute, d, Up0012) = d5
  <2>1. /\ DOMAIN Up0012 = 1 .. 5
        /\ Up0012[1] = Create("reviewed_legal_effect_imports", {})
        /\ Up0012[2] = Create("reviewed_legal_effect_families",
               {"reviewed_legal_effect_imports"})
        /\ Up0012[3] = Create("reviewed_legal_effect_assertions",
               {"reviewed_legal_effect_families", "document_versions",
                      "source_provenance_records"})
        /\ Up0012[4] = Create("reviewed_legal_effect_events",
               {"reviewed_legal_effect_assertions"})
        /\ Up0012[5] = Guard(RegistryTables)
    BY DEF Up0012, Registry, RegistryTables
  <2> QED BY <2>1, FiveInTurn
<1>2. Fits(d, 14, ColumnsAt(11), ChecksAt(10), {}, "vector", P, R) /\ RowsHold(P, R, 11)
  BY Layout, LayoutByName, FromRevision
<1> HIDE DEF P, R
<1>3. Fits(d1, 15, ColumnsAt(11), ChecksAt(10), {}, "vector", P, R)
  BY <1>2, CreateFits, Ranks DEF FirstTables
<1> HIDE DEF d1
<1>4. Fits(d2, 16, ColumnsAt(11), ChecksAt(10), {}, "vector", P, R)
  BY <1>3, CreateFits, Ranks DEF FirstTables
<1> HIDE DEF d2
<1>5. Fits(d3, 17, ColumnsAt(11), ChecksAt(10), {}, "vector", P, R)
  BY <1>4, CreateFits, Ranks DEF FirstTables
<1> HIDE DEF d3
<1>6. Fits(d4, 18, ColumnsAt(11), ChecksAt(10), {}, "vector", P, R)
  BY <1>5, CreateFits, Ranks DEF FirstTables
<1> HIDE DEF d4
<1>7. /\ RegistryTables \subseteq FirstTables(18) /\ RegistryTables \cap {} = {}
      /\ RegistryTables = {} \cup RegistryTables
  BY Ranks, RegistryIs DEF FirstTables
<1>8. Fits(d5, 18, ColumnsAt(11), ChecksAt(10), RegistryTables, "vector", P, R)
  BY <1>6, <1>7, GuardFits
<1> HIDE DEF d5
<1>9. RowsHold(P, R, 12)
  BY <1>2 DEF RowsHold
<1> QED
  BY <1>1, <1>8, <1>9, Layout, ToRevision

\* Citations that have the scores of others, except a reranker's.
ScoredAs(S, R) ==
  /\ DOMAIN S = DOMAIN R
  /\ \A r \in DOMAIN R : /\ S[r].lexical_score = R[r].lexical_score
                         /\ S[r].semantic_score = R[r].semantic_score

LEMMA Downgrade0008 ==
  ASSUME NEW d, AtRevision(d, 8)
  PROVE  AtRevision(FoldLeft(Execute, d, Down0008), 7)
<1>1. FoldLeft(Execute, d, Down0008) = d
  BY NoInTurn DEF Down0008
<1>2. Fits(d, 14, ColumnsAt(6), ChecksAt(6), {}, "vector", d.provenance, d.citations)
      /\ RowsHold(d.provenance, d.citations, 8)
  BY Layout, FromRevision
<1>3. RowsHold(d.provenance, d.citations, 7)
  BY <1>2 DEF RowsHold
<1> QED
  BY <1>1, <1>2, <1>3, Layout, ToRevision

\* The downgrades.
LEMMA Downgrade0001 ==
  ASSUME NEW d, AtRevision(d, 1)
  PROVE  AtRevision(FoldLeft(Execute, d, Down0001), 0)
<1> DEFINE P == d.provenance
           R == d.citations
           d1 == Execute(d, Do("unextension"))
<1>1. FoldLeft(Execute, d, Down0001) = d1
  <2>1. /\ DOMAIN Down0001 = 1 .. 1
        /\ Down0001[1] = Do("unextension")
    BY DEF Down0001
  <2> QED BY <2>1, OneInTurn
<1>2. Fits(d, 0, {}, {}, {}, "vector", P, R) /\ RowsHold(P, R, 1)
  BY Layout, LayoutByName, FromRevision
<1> HIDE DEF P, R
<1>3. Fits(d1, 0, {}, {}, {}, "none", P, R)
  BY <1>2, ExtensionFits
<1> HIDE DEF d1
<1>4. RowsHold(P, R, 0)
  BY <1>2 DEF RowsHold
<1> QED
  BY <1>1, <1>3, <1>4, Layout, ToRevision

LEMMA Downgrade0002 ==
  ASSUME NEW d, AtRevision(d, 2)
  PROVE  AtRevision(FoldLeft(Execute, d, Down0002), 1)
<1> DEFINE P == d.provenance
           R == d.citations
           d1 == Execute(d, Drop("chunk_embeddings"))
           d2 == Execute(d1, Drop("document_chunks"))
           d3 == Execute(d2, Drop(Provenance))
           d4 == Execute(d3, Drop(Versions))
           d5 == Execute(d4, Drop("legal_documents"))
<1>1. FoldLeft(Execute, d, Down0002) = d5
  <2>1. /\ DOMAIN Down0002 = 1 .. 5
        /\ Down0002[1] = Drop("chunk_embeddings")
        /\ Down0002[2] = Drop("document_chunks")
        /\ Down0002[3] = Drop(Provenance)
        /\ Down0002[4] = Drop(Versions)
        /\ Down0002[5] = Drop("legal_documents")
    BY ListsOfDrops
  <2> QED BY <2>1, FiveInTurn
<1>2. Fits(d, 5, {}, {}, {}, "vector", P, R) /\ RowsHold(P, R, 2)
  BY Layout, LayoutByName, FromRevision
<1> HIDE DEF P, R
<1>3. Fits(d1, 4, {}, {}, {}, "vector", P, R)
  BY <1>2, DropClean, Ranks DEF Provenance, Versions, Citations
<1> HIDE DEF d1
<1>4. Fits(d2, 3, {}, {}, {}, "vector", P, R)
  BY <1>3, DropClean, Ranks DEF Provenance, Versions, Citations
<1> HIDE DEF d2
<1>5. Fits(d3, 2, {}, {}, {}, "vector", NoRows, R)
  BY <1>4, DropClean, Ranks DEF Provenance, Versions, Citations
<1> HIDE DEF d3
<1>6. Fits(d4, 1, {}, {}, {}, "vector", NoRows, R)
  BY <1>5, DropClean, Ranks DEF Provenance, Versions, Citations
<1> HIDE DEF d4
<1>7. 0 = 1 - 1 /\ 1 \in 1 .. 18 /\ "legal_documents" \notin {Provenance, Citations}
  BY DEF Provenance, Citations
<1>8. Fits(d5, 0, {}, {}, {}, "vector", NoRows, R)
  BY <1>6, <1>7, DropClean, Ranks DEF Provenance, Versions, Citations
<1> HIDE DEF d5
<1>9. RowsHold(NoRows, R, 1)
  BY <1>2 DEF RowsHold, NoRows
<1> QED
  BY <1>1, <1>8, <1>9, Layout, ToRevision

LEMMA Downgrade0003 ==
  ASSUME NEW d, AtRevision(d, 3)
  PROVE  AtRevision(FoldLeft(Execute, d, Down0003), 2)
<1> DEFINE P == d.provenance
           R == d.citations
           d1 == Execute(d, Drop(Citations))
           d2 == Execute(d1, Drop("retrieval_runs"))
           d3 == Execute(d2, DropColumns("document_chunks", {"search_vector"}))
<1>1. FoldLeft(Execute, d, Down0003) = d3
  <2>1. /\ DOMAIN Down0003 = 1 .. 3
        /\ Down0003[1] = Drop(Citations)
        /\ Down0003[2] = Drop("retrieval_runs")
        /\ Down0003[3] = DropColumns("document_chunks", {"search_vector"})
    BY ListsOfDrops
  <2> QED BY <2>1, ThreeInTurn
<1>2. Fits(d, 7, SearchVector, {Citations} \X FirstScores, {}, "vector", P, R) /\ RowsHold(P,
       R, 3)
  BY Layout, LayoutByName, FromRevision
<1> HIDE DEF P, R
<1>3. /\ \A c \in SearchVector : c[1] # Citations
      /\ \A c \in {Citations} \X FirstScores : c[1] = Citations
  BY DEF SearchVector, Citations
<1>4. Fits(d1, 6, SearchVector, {}, {}, "vector", P, NoRows)
  BY <1>2, <1>3, DropCitations
<1> HIDE DEF d1
<1>5. \A c \in SearchVector : c[1] # "retrieval_runs"
  BY DEF SearchVector
<1>6. Fits(d2, 5, SearchVector, {}, {}, "vector", P, NoRows)
  BY <1>4, <1>5, DropClean, Ranks DEF Provenance, Citations
<1> HIDE DEF d2
<1>7. /\ {"document_chunks"} \X {"search_vector"} \subseteq SearchVector
      /\ {} = SearchVector \ {"document_chunks"} \X {"search_vector"}
      /\ P = (IF "document_chunks" = Provenance THEN Blanked(P, {"search_vector"}) ELSE P)
      /\ NoRows = (IF "document_chunks" = Citations THEN Blanked(NoRows,
             {"search_vector"}) ELSE NoRows)
  BY DEF SearchVector, Citations, Provenance
<1>8. Fits(d3, 5, {}, {}, {}, "vector", P, NoRows)
  BY <1>6, <1>7, RemoveFits
<1> HIDE DEF d3
<1>9. RowsHold(P, NoRows, 2)
  BY <1>2 DEF RowsHold, NoRows
<1> QED
  BY <1>1, <1>8, <1>9, Layout, ToRevision

LEMMA Downgrade0004 ==
  ASSUME NEW d, AtRevision(d, 4)
  PROVE  AtRevision(FoldLeft(Execute, d, Down0004), 3)
<1> DEFINE P == d.provenance
           R == d.citations
           d1 == Execute(d, Drop("conversation_exchange_references"))
           d2 == Execute(d1, Drop("conversation_exchanges"))
           d3 == Execute(d2, Drop("conversations"))
<1>1. FoldLeft(Execute, d, Down0004) = d3
  <2>1. /\ DOMAIN Down0004 = 1 .. 3
        /\ Down0004[1] = Drop("conversation_exchange_references")
        /\ Down0004[2] = Drop("conversation_exchanges")
        /\ Down0004[3] = Drop("conversations")
    BY ListsOfDrops
  <2> QED BY <2>1, ThreeInTurn
<1>2. Fits(d, 10, ColumnsAt(3), ChecksAt(3), {}, "vector", P, R) /\ RowsHold(P, R, 4)
  BY Layout, LayoutByName, FromRevision
<1> HIDE DEF P, R
<1>3. Fits(d1, 9, ColumnsAt(3), ChecksAt(3), {}, "vector", P, R)
  BY <1>2, DropOther, Ranks DEF Provenance, Versions, Citations
<1> HIDE DEF d1
<1>4. Fits(d2, 8, ColumnsAt(3), ChecksAt(3), {}, "vector", P, R)
  BY <1>3, DropOther, Ranks DEF Provenance, Versions, Citations
<1> HIDE DEF d2
<1>5. Fits(d3, 7, ColumnsAt(3), ChecksAt(3), {}, "vector", P, R)
  BY <1>4, DropOther, Ranks DEF Provenance, Versions, Citations
<1> HIDE DEF d3
<1>6. RowsHold(P, R, 3)
  BY <1>2 DEF RowsHold
<1> QED
  BY <1>1, <1>5, <1>6, Layout, ToRevision, LayoutByName

LEMMA Downgrade0005 ==
  ASSUME NEW d, AtRevision(d, 5)
  PROVE  AtRevision(FoldLeft(Execute, d, Down0005), 4)
<1> DEFINE P == d.provenance
           R == d.citations
           d1 == Execute(d, Drop("channel_outbound_deliveries"))
           d2 == Execute(d1, Drop("channel_conversation_bindings"))
<1>1. FoldLeft(Execute, d, Down0005) = d2
  <2>1. /\ DOMAIN Down0005 = 1 .. 2
        /\ Down0005[1] = Drop("channel_outbound_deliveries")
        /\ Down0005[2] = Drop("channel_conversation_bindings")
    BY ListsOfDrops
  <2> QED BY <2>1, TwoInTurn
<1>2. Fits(d, 12, ColumnsAt(3), ChecksAt(3), {}, "vector", P, R) /\ RowsHold(P, R, 5)
  BY Layout, LayoutByName, FromRevision
<1> HIDE DEF P, R
<1>3. Fits(d1, 11, ColumnsAt(3), ChecksAt(3), {}, "vector", P, R)
  BY <1>2, DropOther, Ranks DEF Provenance, Versions, Citations
<1> HIDE DEF d1
<1>4. Fits(d2, 10, ColumnsAt(3), ChecksAt(3), {}, "vector", P, R)
  BY <1>3, DropOther, Ranks DEF Provenance, Versions, Citations
<1> HIDE DEF d2
<1>5. RowsHold(P, R, 4)
  BY <1>2 DEF RowsHold
<1> QED
  BY <1>1, <1>4, <1>5, Layout, ToRevision

LEMMA Downgrade0006 ==
  ASSUME NEW d, AtRevision(d, 6)
  PROVE  AtRevision(FoldLeft(Execute, d, Down0006), 5)
<1> DEFINE P == d.provenance
           R == d.citations
           Q == Blanked(P, TrustColumns)
           d1 == Execute(d, DropColumns("retrieval_runs", {"trust_scope"}))
           d2 == Execute(d1, Unchecks(Provenance, TrustChecks))
           d3 == Execute(d2, DropColumns(Provenance, TrustColumns))
<1>1. FoldLeft(Execute, d, Down0006) = d3
  <2>1. /\ DOMAIN Down0006 = 1 .. 3
        /\ Down0006[1] = DropColumns("retrieval_runs", {"trust_scope"})
        /\ Down0006[2] = Unchecks(Provenance, TrustChecks)
        /\ Down0006[3] = DropColumns(Provenance, TrustColumns)
    BY DEF Down0006, Provenance
  <2> QED BY <2>1, ThreeInTurn
<1>2. Fits(d, 12, ColumnsAt(3) \cup TrustFields \cup TrustScope,
       ChecksAt(3) \cup {Provenance} \X TrustChecks, {}, "vector", P, R) /\ RowsHold(P, R, 6)
  BY Layout, LayoutByName, FromRevision
<1> HIDE DEF P, R, Q
<1>3. /\ {"retrieval_runs"} \X {"trust_scope"}
           \subseteq ColumnsAt(3) \cup TrustFields \cup TrustScope
      /\ ColumnsAt(3) \cup TrustFields
           = (ColumnsAt(3) \cup TrustFields \cup TrustScope)
               \ {"retrieval_runs"} \X {"trust_scope"}
  BY DEF Provenance, ColumnsAt, SearchVector, TrustFields, TrustScope
<1>4. /\ P = (IF "retrieval_runs" = Provenance THEN Blanked(P, {"trust_scope"}) ELSE P)
      /\ R = (IF "retrieval_runs" = Citations THEN Blanked(R, {"trust_scope"}) ELSE R)
  BY DEF Provenance, Citations
<1>5. Fits(d1, 12, ColumnsAt(3) \cup TrustFields, ChecksAt(3) \cup {Provenance} \X TrustChecks,
       {}, "vector", P, R)
  BY <1>2, <1>4, <1>3, RemoveFits
<1> HIDE DEF d1
<1>6. /\ {Provenance} \X TrustChecks \subseteq ChecksAt(3) \cup {Provenance} \X TrustChecks
      /\ ChecksAt(3)
           = (ChecksAt(3) \cup {Provenance} \X TrustChecks) \ {Provenance} \X TrustChecks
  BY DEF ChecksAt, Citations, Provenance
<1>7. Fits(d2, 12, ColumnsAt(3) \cup TrustFields, ChecksAt(3), {}, "vector", P, R)
  BY <1>5, <1>6, UncheckFits
<1> HIDE DEF d2
<1>8. /\ {Provenance} \X TrustColumns \subseteq ColumnsAt(3) \cup TrustFields
      /\ ColumnsAt(3) = (ColumnsAt(3) \cup TrustFields) \ {Provenance} \X TrustColumns
  BY DEF Provenance, ColumnsAt, SearchVector, TrustFields
<1>9. /\ Q = (IF Provenance = Provenance THEN Blanked(P, TrustColumns) ELSE P)
      /\ R = (IF Provenance = Citations THEN Blanked(R, TrustColumns) ELSE R)
  BY DEF Q, Provenance, Citations
<1>10. Fits(d3, 12, ColumnsAt(3), ChecksAt(3), {}, "vector", Q, R)
  BY <1>7, <1>9, <1>8, RemoveFits
<1> HIDE DEF d3
<1>11. RowsHold(Q, R, 5)
  <2>1. DOMAIN Q = DOMAIN P /\ \A v \in DOMAIN P :
          Q[v] = [c \in DOMAIN P[v] |-> IF c \in TrustColumns THEN "null" ELSE P[v][c]]
    BY DEF Q, Blanked
  <2>2. /\ "tls_verified" \in ProvenanceColumns \ TrustColumns
        /\ "pin_set_id" \in ProvenanceColumns \cap TrustColumns
    BY DEF ProvenanceColumns, TrustColumns
  <2> QED BY <1>2, <2>1, <2>2 DEF RowsHold
<1> QED
  BY <1>1, <1>10, <1>11, Layout, ToRevision

LEMMA Downgrade0007 ==
  ASSUME NEW d, AtRevision(d, 7)
  PROVE  AtRevision(FoldLeft(Execute, d, Down0007), 6)
<1> DEFINE P == d.provenance
           R == d.citations
           d1 == Execute(d, Drop("corpus_catalog_entries"))
           d2 == Execute(d1, Drop("corpus_ingestion_runs"))
<1>1. FoldLeft(Execute, d, Down0007) = d2
  <2>1. /\ DOMAIN Down0007 = 1 .. 2
        /\ Down0007[1] = Drop("corpus_catalog_entries")
        /\ Down0007[2] = Drop("corpus_ingestion_runs")
    BY ListsOfDrops
  <2> QED BY <2>1, TwoInTurn
<1>2. Fits(d, 14, ColumnsAt(6), ChecksAt(6), {}, "vector", P, R) /\ RowsHold(P, R, 7)
  BY Layout, LayoutByName, FromRevision
<1> HIDE DEF P, R
<1>3. Fits(d1, 13, ColumnsAt(6), ChecksAt(6), {}, "vector", P, R)
  BY <1>2, DropOther, Ranks DEF Provenance, Versions, Citations
<1> HIDE DEF d1
<1>4. Fits(d2, 12, ColumnsAt(6), ChecksAt(6), {}, "vector", P, R)
  BY <1>3, DropOther, Ranks DEF Provenance, Versions, Citations
<1> HIDE DEF d2
<1>5. RowsHold(P, R, 6)
  BY <1>2 DEF RowsHold
<1> QED
  BY <1>1, <1>4, <1>5, Layout, ToRevision, LayoutByName

LEMMA Downgrade0009 ==
  ASSUME NEW d, AtRevision(d, 9), ~ScoredBySemanticsOnly(d)
  PROVE  AtRevision(FoldLeft(Execute, d, Down0009), 8)
<1> DEFINE P == d.provenance
           R == d.citations
           S == Blanked(R, {"semantic_score"})
           d1 == Execute(d, Do("refuseLoss"))
           d2 == Execute(d1, Unchecks(Citations, BothScores))
           d3 == Execute(d2, DropColumns(Citations, {"semantic_score"}))
           d4 == Execute(d3, Require(Citations, {"lexical_score"}))
           d5 == Execute(d4, Checks(Citations, FirstScores))
<1>1. FoldLeft(Execute, d, Down0009) = d5
  <2>1. /\ DOMAIN Down0009 = 1 .. 5
        /\ Down0009[1] = Do("refuseLoss")
        /\ Down0009[2] = Unchecks(Citations, BothScores)
        /\ Down0009[3] = DropColumns(Citations, {"semantic_score"})
        /\ Down0009[4] = Require(Citations, {"lexical_score"})
        /\ Down0009[5] = Checks(Citations, FirstScores)
    BY DEF Down0009, Citations, FirstScores, BothScores
  <2> QED BY <2>1, FiveInTurn
<1>2. Fits(d, 14, ColumnsAt(6) \cup SemanticScore, ChecksAt(9), {}, "vector", P,
       R) /\ RowsHold(P, R, 9)
  BY Layout, LayoutByName, FromRevision
<1> HIDE DEF P, R, S
<1>3. /\ DOMAIN S = DOMAIN R
      /\ \A r \in DOMAIN R : DOMAIN S[r] = ScoreColumns /\ S[r].lexical_score # "null"
  <2>1. DOMAIN S = DOMAIN R /\ \A r \in DOMAIN R :
          S[r] = [c \in DOMAIN R[r] |-> IF c \in {"semantic_score"} THEN "null" ELSE R[r][c]]
    BY DEF S, Blanked
  <2>2. \A r \in DOMAIN R : DOMAIN R[r] = ScoreColumns /\ R[r].lexical_score # "null"
    BY <1>2 DEF RowsHold, ScoredBySemanticsOnly, Fits
  <2> QED BY <2>1, <2>2 DEF ScoreColumns
<1>4. Fits(d1, 14, ColumnsAt(6) \cup SemanticScore, ChecksAt(9), {}, "vector", P, R)
  BY <1>2, RefuseFits
<1> HIDE DEF d1
<1>5. {Citations} \X BothScores \subseteq ChecksAt(9)
  BY DEF ChecksAt
<1>6. Fits(d2, 14, ColumnsAt(6) \cup SemanticScore, ChecksAt(9) \ {Citations} \X BothScores,
       {}, "vector", P, R)
  BY <1>4, <1>5, UncheckFits
<1> HIDE DEF d2
<1>7. /\ {Citations} \X {"semantic_score"} \subseteq ColumnsAt(6) \cup SemanticScore
      /\ ColumnsAt(6) = (ColumnsAt(6) \cup SemanticScore) \ {Citations} \X {"semantic_score"}
  BY DEF Citations, Provenance, ColumnsAt, SearchVector, TrustFields, TrustScope, SemanticScore
<1>8. /\ P = (IF Citations = Provenance THEN Blanked(P, {"semantic_score"}) ELSE P)
      /\ S = (IF Citations = Citations THEN Blanked(R, {"semantic_score"}) ELSE R)
  BY DEF S, Provenance, Citations
<1>9. Fits(d3, 14, ColumnsAt(6), ChecksAt(9) \ {Citations} \X BothScores, {}, "vector", P, S)
  BY <1>6, <1>8, <1>7, RemoveFits
<1> HIDE DEF d3
<1>10. \A c \in {"lexical_score"} : ~HasNull(d3, Citations, c)
  BY <1>3, <1>9 DEF HasNull, RowsOf, Field, Citations, Fits, RowsHold
<1>11. Fits(d4, 14, ColumnsAt(6), ChecksAt(9) \ {Citations} \X BothScores, {}, "vector", P, S)
  BY <1>9, <1>10, RequireFits
<1> HIDE DEF d4
<1>12. /\ Citations \in FirstTables(14)
       /\ {Citations} \X FirstScores \cap (ChecksAt(9) \ {Citations} \X BothScores) = {}
      /\ ChecksAt(6) = (ChecksAt(9) \ {Citations} \X BothScores) \cup {Citations} \X FirstScores
  BY Ranks DEF FirstTables, Citations, Provenance, ChecksAt, FirstScores, BothScores, TrustChecks
<1>13. \A name \in FirstScores : Passes(d4, name)
  BY DEF FirstScores, Passes
<1>14. Fits(d5, 14, ColumnsAt(6), ChecksAt(6), {}, "vector", P, S)
  BY <1>11, <1>13, <1>12, CheckFits
<1> HIDE DEF d5
<1>15. RowsHold(P, S, 8)
  BY <1>2, <1>3 DEF RowsHold
<1> QED
  BY <1>1, <1>14, <1>15, Layout, ToRevision

LEMMA Downgrade0010 ==
  ASSUME NEW d, AtRevision(d, 10)
  PROVE  /\ AtRevision(FoldLeft(Execute, d, Down0010), 9)
         /\ ScoredAs(FoldLeft(Execute, d, Down0010).citations, d.citations)
<1> DEFINE P == d.provenance
           R == d.citations
           S == Blanked(R, {"reranker_score"})
           d1 == Execute(d, Unchecks(Citations, {"reranker_score_finite"}))
           d2 == Execute(d1, DropColumns(Citations, {"reranker_score"}))
<1>1. FoldLeft(Execute, d, Down0010) = d2
  <2>1. /\ DOMAIN Down0010 = 1 .. 2
        /\ Down0010[1] = Unchecks(Citations, {"reranker_score_finite"})
        /\ Down0010[2] = DropColumns(Citations, {"reranker_score"})
    BY DEF Down0010, Citations
  <2> QED BY <2>1, TwoInTurn
<1>2. Fits(d, 14, ColumnsAt(9) \cup RerankerScore,
       ChecksAt(9) \cup {Citations} \X {"reranker_score_finite"}, {}, "vector", P,
              R) /\ RowsHold(P, R, 10)
  BY Layout, LayoutByName, FromRevision
<1> HIDE DEF P, R, S
<1>3. /\ DOMAIN S = DOMAIN R
      /\ \A r \in DOMAIN R : /\ DOMAIN S[r] = ScoreColumns
                             /\ S[r].lexical_score = R[r].lexical_score
                             /\ S[r].semantic_score = R[r].semantic_score
  <2>1. DOMAIN S = DOMAIN R /\ \A r \in DOMAIN R :
          S[r] = [c \in DOMAIN R[r] |-> IF c \in {"reranker_score"} THEN "null" ELSE R[r][c]]
    BY DEF S, Blanked
  <2>2. \A r \in DOMAIN R : DOMAIN R[r] = ScoreColumns
    BY <1>2 DEF RowsHold
  <2> QED BY <2>1, <2>2 DEF ScoreColumns
<1>4. /\ {Citations} \X {"reranker_score_finite"}
           \subseteq ChecksAt(9) \cup {Citations} \X {"reranker_score_finite"}
      /\ ChecksAt(9)
           = (ChecksAt(9) \cup {Citations} \X {"reranker_score_finite"})
               \ {Citations} \X {"reranker_score_finite"}
  BY DEF ChecksAt, Citations, Provenance, BothScores
<1>5. Fits(d1, 14, ColumnsAt(9) \cup RerankerScore, ChecksAt(9), {}, "vector", P, R)
  BY <1>2, <1>4, UncheckFits
<1> HIDE DEF d1
<1>6. /\ {Citations} \X {"reranker_score"} \subseteq ColumnsAt(9) \cup RerankerScore
      /\ ColumnsAt(9) = (ColumnsAt(9) \cup RerankerScore) \ {Citations} \X {"reranker_score"}
  BY DEF Provenance, Citations, ColumnsAt, SearchVector, TrustFields,
     TrustScope, SemanticScore, RerankerScore, Metadata
<1>7. /\ P = (IF Citations = Provenance THEN Blanked(P, {"reranker_score"}) ELSE P)
      /\ S = (IF Citations = Citations THEN Blanked(R, {"reranker_score"}) ELSE R)
  BY DEF S, Provenance, Citations
<1>8. Fits(d2, 14, ColumnsAt(9), ChecksAt(9), {}, "vector", P, S)
  BY <1>5, <1>7, <1>6, RemoveFits
<1> HIDE DEF d2
<1>9. RowsHold(P, S, 9) /\ ScoredAs(S, R)
  BY <1>2, <1>3 DEF RowsHold, ScoredAs
<1> QED
  BY <1>1, <1>8, <1>9, Layout, ToRevision, LayoutByName DEF R

LEMMA Downgrade0011 ==
  ASSUME NEW d, AtRevision(d, 11)
  PROVE  /\ AtRevision(FoldLeft(Execute, d, Down0011), 10)
         /\ ScoredAs(FoldLeft(Execute, d, Down0011).citations, d.citations)
<1> DEFINE P == d.provenance
           R == d.citations
           d1 == Execute(d, DropColumns(Versions, MetadataColumns))
<1>1. FoldLeft(Execute, d, Down0011) = d1
  <2>1. /\ DOMAIN Down0011 = 1 .. 1
        /\ Down0011[1] = DropColumns(Versions, MetadataColumns)
    BY DEF Down0011, Versions
  <2> QED BY <2>1, OneInTurn
<1>2. Fits(d, 14, ColumnsAt(10) \cup Metadata, ChecksAt(10), {}, "vector", P, R) /\ RowsHold(P,
       R, 11)
  BY Layout, LayoutByName, FromRevision
<1> HIDE DEF P, R
<1>3. /\ {Versions} \X MetadataColumns \subseteq ColumnsAt(10) \cup Metadata
      /\ ColumnsAt(10) = (ColumnsAt(10) \cup Metadata) \ {Versions} \X MetadataColumns
  BY DEF Versions, Provenance, Citations, ColumnsAt, SearchVector, TrustFields,
     TrustScope, SemanticScore, RerankerScore, Metadata
<1>4. /\ P = (IF Versions = Provenance THEN Blanked(P, MetadataColumns) ELSE P)
      /\ R = (IF Versions = Citations THEN Blanked(R, MetadataColumns) ELSE R)
  BY DEF Versions, Provenance, Citations
<1>5. Fits(d1, 14, ColumnsAt(10), ChecksAt(10), {}, "vector", P, R)
  BY <1>2, <1>4, <1>3, RemoveFits
<1> HIDE DEF d1
<1>6. RowsHold(P, R, 10) /\ ScoredAs(R, R)
  BY <1>2 DEF RowsHold, ScoredAs
<1> QED
  BY <1>1, <1>5, <1>6, Layout, ToRevision, LayoutByName DEF R

LEMMA Downgrade0012 ==
  ASSUME NEW d, AtRevision(d, 12)
  PROVE  /\ AtRevision(FoldLeft(Execute, d, Down0012), 11)
         /\ ScoredAs(FoldLeft(Execute, d, Down0012).citations, d.citations)
<1> DEFINE P == d.provenance
           R == d.citations
           d1 == Execute(d, Unguard(RegistryTables))
           d2 == Execute(d1, Drop("reviewed_legal_effect_events"))
           d3 == Execute(d2, Drop("reviewed_legal_effect_assertions"))
           d4 == Execute(d3, Drop("reviewed_legal_effect_families"))
           d5 == Execute(d4, Drop("reviewed_legal_effect_imports"))
<1>1. FoldLeft(Execute, d, Down0012) = d5
  <2>1. /\ DOMAIN Down0012 = 1 .. 5
        /\ Down0012[1] = Unguard(RegistryTables)
        /\ Down0012[2] = Drop("reviewed_legal_effect_events")
        /\ Down0012[3] = Drop("reviewed_legal_effect_assertions")
        /\ Down0012[4] = Drop("reviewed_legal_effect_families")
        /\ Down0012[5] = Drop("reviewed_legal_effect_imports")
    BY ListsOfDrops DEF Registry, RegistryTables
  <2> QED BY <2>1, FiveInTurn
<1>2. Fits(d, 18, ColumnsAt(11), ChecksAt(10), RegistryTables, "vector", P, R) /\ RowsHold(P,
       R, 12)
  BY Layout, LayoutByName, FromRevision
<1> HIDE DEF P, R
<1>3. {} = RegistryTables \ RegistryTables
  OBVIOUS
<1>4. Fits(d1, 18, ColumnsAt(11), ChecksAt(10), {}, "vector", P, R)
  BY <1>2, <1>3, UnguardFits
<1> HIDE DEF d1
<1>5. Fits(d2, 17, ColumnsAt(11), ChecksAt(10), {}, "vector", P, R)
  BY <1>4, DropOther, Ranks DEF Provenance, Versions, Citations
<1> HIDE DEF d2
<1>6. Fits(d3, 16, ColumnsAt(11), ChecksAt(10), {}, "vector", P, R)
  BY <1>5, DropOther, Ranks DEF Provenance, Versions, Citations
<1> HIDE DEF d3
<1>7. Fits(d4, 15, ColumnsAt(11), ChecksAt(10), {}, "vector", P, R)
  BY <1>6, DropOther, Ranks DEF Provenance, Versions, Citations
<1> HIDE DEF d4
<1>8. Fits(d5, 14, ColumnsAt(11), ChecksAt(10), {}, "vector", P, R)
  BY <1>7, DropOther, Ranks DEF Provenance, Versions, Citations
<1> HIDE DEF d5
<1>9. RowsHold(P, R, 11) /\ ScoredAs(R, R)
  BY <1>2 DEF RowsHold, ScoredAs
<1> QED
  BY <1>1, <1>8, <1>9, Layout, ToRevision, LayoutByName DEF R

-------------------------------------------------------------------------------
(***************************************************************************)
(* Schema migrations: a command from any revision to any other either      *)
(* arrives there, or 0009 refused to give up a citation's only score.      *)
(***************************************************************************)
LEMMA RevisionIsStored ==
  ASSUME NEW e, NEW k, NEW j, AtRevision(e, k)
  PROVE  /\ AtRevision([e EXCEPT !.rev = j], k) /\ [e EXCEPT !.rev = j].rev = j
         /\ [e EXCEPT !.rev = j].citations = e.citations
<1> DEFINE f == [e EXCEPT !.rev = j]
<1>1. DOMAIN e = DatabaseFields
  BY DEF AtRevision, Fits
<1>2. /\ DOMAIN f = DatabaseFields /\ f.rev = j /\ f.failed = e.failed /\ f.tables = e.tables
      /\ f.columns = e.columns /\ f.checks = e.checks /\ f.guarded = e.guarded
      /\ f.extension = e.extension /\ f.provenance = e.provenance
      /\ f.citations = e.citations /\ f.foreign = e.foreign
  BY <1>1, FieldsOfDatabase
<1> HIDE DEF f
<1>3. AtRevision(f, k)
  BY <1>2 DEF AtRevision, Fits
<1> QED
  BY <1>2, <1>3 DEF f

LEMMA UpOneFits ==
  ASSUME NEW d, NEW k \in 1 .. Latest, AtRevision(d, k - 1)
  PROVE  AtRevision(UpOne(d, k), k) /\ UpOne(d, k).rev = k
<1> DEFINE e == FoldLeft(Execute, d, Up[k])
<1>1. AtRevision(e, k)
  <2>1. k \in {1, 2, 3, 4, 5, 6, 7, 8, 9, 10, 11, 12}
    BY DEF Latest
  <2>2. CASE k = 1
    BY <2>2, Upgrade0001 DEF Up
  <2>3. CASE k = 2
    BY <2>3, Upgrade0002 DEF Up
  <2>4. CASE k = 3
    BY <2>4, Upgrade0003 DEF Up
  <2>5. CASE k = 4
    BY <2>5, Upgrade0004 DEF Up
  <2>6. CASE k = 5
    BY <2>6, Upgrade0005 DEF Up
  <2>7. CASE k = 6
    BY <2>7, Upgrade0006 DEF Up
  <2>8. CASE k = 7
    BY <2>8, Upgrade0007 DEF Up
  <2>9. CASE k = 8
    BY <2>9, Upgrade0008 DEF Up
  <2>10. CASE k = 9
    BY <2>10, Upgrade0009 DEF Up
  <2>11. CASE k = 10
    BY <2>11, Upgrade0010 DEF Up
  <2>12. CASE k = 11
    BY <2>12, Upgrade0011 DEF Up
  <2>13. CASE k = 12
    BY <2>13, Upgrade0012 DEF Up
  <2> HIDE DEF e
  <2> QED BY <2>1, <2>2, <2>3, <2>4, <2>5, <2>6, <2>7, <2>8, <2>9, <2>10, <2>11, <2>12, <2>13
<1>2. UpOne(d, k) = [e EXCEPT !.rev = k]
  BY DEF UpOne
<1> HIDE DEF e
<1> QED
  BY <1>1, <1>2, RevisionIsStored

\* Before 0009 every citation has a lexical score, and no downgrade takes one away.
LEMMA ScoresBeforeSemantics ==
  ASSUME NEW d, NEW k, AtRevision(d, k), k < 9
  PROVE  ~ScoredBySemanticsOnly(d)
  BY DEF AtRevision, RowsHold, ScoredBySemanticsOnly

LEMMA DownOneFits ==
  ASSUME NEW d, NEW k \in 1 .. Latest, AtRevision(d, k), k = 9 => ~ScoredBySemanticsOnly(d)
  PROVE  /\ AtRevision(DownOne(d, k), k - 1) /\ DownOne(d, k).rev = k - 1
         /\ ScoredBySemanticsOnly(DownOne(d, k)) => ScoredBySemanticsOnly(d)
<1> DEFINE e == FoldLeft(Execute, d, Down[k])
<1>1. AtRevision(e, k - 1) /\ (k >= 10 => ScoredAs(e.citations, d.citations))
  <2>1. k \in {1, 2, 3, 4, 5, 6, 7, 8, 9, 10, 11, 12}
    BY DEF Latest
  <2>2. CASE k = 1
    BY <2>2, Downgrade0001 DEF Down
  <2>3. CASE k = 2
    BY <2>3, Downgrade0002 DEF Down
  <2>4. CASE k = 3
    BY <2>4, Downgrade0003 DEF Down
  <2>5. CASE k = 4
    BY <2>5, Downgrade0004 DEF Down
  <2>6. CASE k = 5
    BY <2>6, Downgrade0005 DEF Down
  <2>7. CASE k = 6
    BY <2>7, Downgrade0006 DEF Down
  <2>8. CASE k = 7
    BY <2>8, Downgrade0007 DEF Down
  <2>9. CASE k = 8
    BY <2>9, Downgrade0008 DEF Down
  <2>10. CASE k = 9
    BY <2>10, Downgrade0009 DEF Down
  <2>11. CASE k = 10
    BY <2>11, Downgrade0010 DEF Down
  <2>12. CASE k = 11
    BY <2>12, Downgrade0011 DEF Down
  <2>13. CASE k = 12
    BY <2>13, Downgrade0012 DEF Down
  <2> HIDE DEF e
  <2> QED BY <2>1, <2>2, <2>3, <2>4, <2>5, <2>6, <2>7, <2>8, <2>9, <2>10, <2>11, <2>12, <2>13
<1>2. DownOne(d, k) = [e EXCEPT !.rev = k - 1]
  BY DEF DownOne
<1> HIDE DEF e
<1>3. /\ AtRevision(DownOne(d, k), k - 1) /\ DownOne(d, k).rev = k - 1
      /\ DownOne(d, k).citations = e.citations
  BY <1>1, <1>2, RevisionIsStored
<1>4. CASE k >= 10
  BY <1>1, <1>3, <1>4 DEF ScoredAs, ScoredBySemanticsOnly
<1>5. CASE k < 10
  <2>1. k - 1 < 9
    BY <1>5 DEF Latest
  <2> QED BY <1>3, <2>1, ScoresBeforeSemantics
<1> QED
  BY <1>3, <1>4, <1>5 DEF Latest

\* What failed stays failed: 0009 refuses, and the command does.
HasFailed(d) == DOMAIN d = DatabaseFields /\ d.failed = TRUE

LEMMA FailedStatement ==
  ASSUME NEW d, NEW s, HasFailed(d)
  PROVE  HasFailed(Execute(d, s))
<1>1. Execute(d, s) = [d EXCEPT !.failed = TRUE]
  BY DEF Execute, HasFailed
<1> QED
  BY <1>1, FieldsOfDatabase DEF HasFailed

LEMMA FailedRevision ==
  ASSUME NEW d, NEW k \in 1 .. Latest, HasFailed(d)
  PROVE  HasFailed(DownOne(d, k)) /\ DownOne(d, k).rev = k - 1
<1> DEFINE e == FoldLeft(Execute, d, Down[k])
<1>1. PICK n \in Nat : DOMAIN Down[k] = 1 .. n
  BY DowngradesAreInOrder DEF InOrder
<1>2. HasFailed(e)
  BY <1>1, FailureStays DEF HasFailed
<1>3. DownOne(d, k) = [e EXCEPT !.rev = k - 1]
  BY DEF DownOne
<1> HIDE DEF e
<1> QED
  BY <1>2, <1>3, FieldsOfDatabase DEF HasFailed

LEMMA LossFails ==
  ASSUME NEW d, ScoredBySemanticsOnly(d), DOMAIN d = DatabaseFields
  PROVE  HasFailed(Execute(d, Do("refuseLoss")))
<1> DEFINE s == Do("refuseLoss")
<1>1. s.op = "refuseLoss"
  BY DEF Do
<1> HIDE DEF s
<1>2. ~Allowed(d, s)
  BY <1>1 DEF Allowed
<1>3. Execute(d, s) = [d EXCEPT !.failed = TRUE]
  BY <1>2 DEF Execute
<1>4. HasFailed(Execute(d, s))
  BY <1>3, FieldsOfDatabase DEF HasFailed
<1> QED
  BY <1>4 DEF s

LEMMA LossIsRefused ==
  ASSUME NEW d, AtRevision(d, 9), ScoredBySemanticsOnly(d)
  PROVE  HasFailed(DownOne(d, 9)) /\ DownOne(d, 9).rev = 8
<1> DEFINE e == FoldLeft(Execute, d, Down[9])
<1>1. DOMAIN Down[9] = 1 .. 5 /\ Down[9][1] = Do("refuseLoss")
  BY DEF Down, Down0009
<1>2. DOMAIN d = DatabaseFields
  BY DEF AtRevision, Fits
<1>3. HasFailed(Execute(d, Down[9][1]))
  BY <1>1, <1>2, LossFails
<1>4. HasFailed(e)
  BY <1>1, <1>3, FiveInTurn, FailedStatement
<1>5. DownOne(d, 9) = [e EXCEPT !.rev = 8]
  BY DEF DownOne
<1> HIDE DEF e
<1> QED
  BY <1>4, <1>5, FieldsOfDatabase DEF HasFailed

\* Where a command from d to revision k has got: it is there, or 0009 refused.
Arrived(d, e, k) ==
  /\ e.rev = k
  /\ \/ AtRevision(e, k) /\ (ScoredBySemanticsOnly(e) => ScoredBySemanticsOnly(d))
     \/ HasFailed(e) /\ k < 9 /\ d.rev >= 9 /\ ScoredBySemanticsOnly(d)

LEMMA StepDown ==
  ASSUME NEW d, NEW e, NEW k \in 1 .. Latest, Arrived(d, e, k), d.rev \in 0 .. Latest, k <= d.rev
  PROVE  Arrived(d, DownOne(e, k), k - 1)
<1>1. CASE HasFailed(e) /\ k < 9 /\ d.rev >= 9 /\ ScoredBySemanticsOnly(d)
  <2>1. k - 1 < 9
    BY <1>1 DEF Latest
  <2> QED BY <1>1, <2>1, FailedRevision DEF Arrived
<1>2. CASE AtRevision(e, k) /\ (ScoredBySemanticsOnly(e) => ScoredBySemanticsOnly(d))
  <2>1. CASE k = 9 /\ ScoredBySemanticsOnly(e)
    <3>1. HasFailed(DownOne(e, 9)) /\ DownOne(e, 9).rev = 8
      BY <1>2, <2>1, LossIsRefused
    <3> QED BY <1>2, <2>1, <3>1 DEF Arrived, Latest
  <2>2. CASE ~(k = 9 /\ ScoredBySemanticsOnly(e))
    BY <1>2, <2>2, DownOneFits DEF Arrived
  <2> QED BY <2>1, <2>2
<1> QED
  BY <1>1, <1>2 DEF Arrived

LEMMA MigratedArrives ==
  ASSUME NEW d, NEW to \in 0 .. Latest, AtRevision(d, d.rev), d.rev \in 0 .. Latest
  PROVE  /\ Migrated(d, to).rev = to
         /\ \/ AtRevision(Migrated(d, to), to)
            \/ to < 9 /\ d.rev >= 9 /\ ScoredBySemanticsOnly(d) /\ HasFailed(Migrated(d, to))
<1>1. CASE d.rev <= to
  <2> DEFINE n == to - d.rev
             steps == [k \in 1 .. n |-> d.rev + k]
  <2>0. n \in Nat /\ DOMAIN steps = 1 .. n
    BY <1>1 DEF Latest
  <2>1. PICK r : IsRow("upgrades", steps, d, n, r) /\ r[n] = FoldLeft(UpOne, d, steps)
    BY <2>0, FoldOfUpgrades
  <2>2. r[0] = d /\ \A i \in 1 .. n : r[i] = UpOne(r[i - 1], steps[i])
    BY <2>1 DEF IsRow, FoldedIn
  <2> DEFINE T == {i \in 0 .. n : AtRevision(r[i], d.rev + i) /\ r[i].rev = d.rev + i}
  <2>3. 0 \in T
    BY <2>0, <2>2 DEF Latest
  <2>4. ASSUME NEW i \in 1 .. n, i - 1 \in T PROVE i \in T
    <3> DEFINE k == d.rev + i
    <3>1. steps[i] = k
      OBVIOUS
    <3>2. i \in Nat /\ 1 <= i /\ i <= to - d.rev
      BY <2>0
    <3>3. d.rev \in Nat /\ to \in Nat /\ to <= Latest
      BY DEF Latest
    <3>4. k \in 1 .. Latest /\ d.rev + (i - 1) = k - 1
      BY <3>2, <3>3 DEF Latest
    <3>5. r[i] = UpOne(r[i - 1], k) /\ AtRevision(r[i - 1], k - 1)
      BY <2>2, <2>4, <3>1, <3>4
    <3> HIDE DEF k
    <3>6. AtRevision(r[i], k) /\ r[i].rev = k
      BY <3>4, <3>5, UpOneFits
    <3> QED BY <3>6 DEF k
  <2> HIDE DEF T, n, steps
  <2>5. n \in T
    <3>1. \A i \in 1 .. n : i - 1 \in T => i \in T
      BY <2>4
    <3>2. \A i \in 0 .. n : i \in T
      BY <2>0, <2>3, <3>1, Upwards
    <3> QED BY <2>0, <3>2
  <2>6. Migrated(d, to) = r[n]
    BY <1>1, <2>1 DEF Migrated, steps, n
  <2>7. AtRevision(r[n], d.rev + n) /\ r[n].rev = d.rev + n
    BY <2>5 DEF T
  <2>8. d.rev + n = to
    BY DEF n, Latest
  <2>9. AtRevision(Migrated(d, to), to) /\ Migrated(d, to).rev = to
    BY <2>6, <2>7, <2>8
  <2> QED BY <2>9
<1>2. CASE ~(d.rev <= to)
  <2> DEFINE n == d.rev - to
             steps == [k \in 1 .. n |-> d.rev + 1 - k]
  <2>0. n \in Nat /\ DOMAIN steps = 1 .. n
    BY <1>2 DEF Latest
  <2>1. PICK r : IsRow("downgrades", steps, d, n, r) /\ r[n] = FoldLeft(DownOne, d, steps)
    BY <2>0, FoldOfDowngrades
  <2>2. r[0] = d /\ \A i \in 1 .. n : r[i] = DownOne(r[i - 1], steps[i])
    BY <2>1 DEF IsRow, FoldedIn
  <2> DEFINE T == {i \in 0 .. n : Arrived(d, r[i], d.rev - i)}
  <2>3. 0 \in T
    BY <2>0, <2>2 DEF Latest, Arrived
  <2>4. ASSUME NEW i \in 1 .. n, i - 1 \in T PROVE i \in T
    <3> DEFINE k == d.rev + 1 - i
    <3>1. steps[i] = k
      OBVIOUS
    <3>2. i \in Nat /\ 1 <= i /\ i <= d.rev - to
      BY <2>0
    <3>3. d.rev \in Nat /\ to \in Nat /\ d.rev <= Latest
      BY DEF Latest
    <3>4. k \in 1 .. Latest /\ d.rev - (i - 1) = k /\ d.rev - i = k - 1 /\ k <= d.rev
      BY <3>2, <3>3 DEF Latest
    <3>5. r[i] = DownOne(r[i - 1], k) /\ Arrived(d, r[i - 1], k)
      BY <2>2, <2>4, <3>1, <3>4
    <3> HIDE DEF k
    <3>6. Arrived(d, r[i], k - 1)
      BY <3>4, <3>5, StepDown
    <3> QED BY <3>4, <3>6
  <2> HIDE DEF T, n, steps
  <2>5. n \in T
    <3>1. \A i \in 1 .. n : i - 1 \in T => i \in T
      BY <2>4
    <3>2. \A i \in 0 .. n : i \in T
      BY <2>0, <2>3, <3>1, Upwards
    <3> QED BY <2>0, <3>2
  <2>6. Migrated(d, to) = r[n]
    BY <1>2, <2>1 DEF Migrated, steps, n
  <2>7. Arrived(d, r[n], d.rev - n)
    BY <2>5 DEF T
  <2>8. d.rev - n = to
    BY DEF n, Latest
  <2>9. Arrived(d, Migrated(d, to), to)
    BY <2>6, <2>7, <2>8
  <2> QED BY <2>9 DEF Arrived
<1> QED
  BY <1>1, <1>2

-------------------------------------------------------------------------------
\* The catalog and the rows of the database are those of its revision.
Consistent == db.rev \in 0 .. Latest /\ AtRevision(db, db.rev)

LEMMA ConsistentInit == SchemaInit => Consistent
<1> SUFFICES ASSUME SchemaInit PROVE Consistent
  OBVIOUS
<1>1. /\ DOMAIN db = DatabaseFields /\ db.rev = 0 /\ ~db.failed /\ db.tables = {}
      /\ db.columns = {} /\ db.checks = {} /\ db.guarded = {} /\ db.extension = FALSE
      /\ db.foreign = {} /\ db.provenance = NoRows /\ db.citations = NoRows
  BY DEF SchemaInit, Empty, DatabaseFields
<1>2. FirstTables(0) = {}
  BY RanksDiffer DEF FirstTables
<1>3. Fits(db, 0, {}, {}, {}, "none", NoRows, NoRows)
  BY <1>1, <1>2 DEF Fits
<1>4. RowsHold(NoRows, NoRows, 0)
  BY DEF RowsHold, NoRows
<1>5. AtRevision(db, 0)
  BY <1>3, <1>4, Layout, ToRevision
<1> QED
  BY <1>1, <1>5 DEF Consistent, Latest

LEMMA ConsistentMigrate ==
  ASSUME Consistent, NEW to \in Target, Migrate(to)
  PROVE  Consistent'
<1> DEFINE after == Migrated(db, to)
<1>1. to \in 0 .. Latest
  BY SchemaAssumption
<1>2. /\ after.rev = to
      /\ AtRevision(after, to) \/ HasFailed(after)
  BY <1>1, MigratedArrives DEF Consistent
<1>3. db' = IF after.failed THEN db ELSE after
  BY DEF Migrate
<1> HIDE DEF after
<1>4. CASE after.failed
  BY <1>3, <1>4 DEF Consistent
<1>5. CASE ~after.failed
  BY <1>1, <1>2, <1>3, <1>5 DEF Consistent, HasFailed
<1> QED
  BY <1>4, <1>5

\* A row is added, or the keys of versions: the catalog stays.
LEMMA ConsistentRows ==
  ASSUME Consistent, NEW P, NEW R, RowsHold(P, R, db.rev),
         DOMAIN db' = DOMAIN db, db'.rev = db.rev, db'.failed = db.failed,
         db'.tables = db.tables, db'.foreign = db.foreign, db'.columns = db.columns,
         db'.checks = db.checks, db'.guarded = db.guarded, db'.extension = db.extension,
         db'.provenance = P, db'.citations = R
  PROVE  Consistent'
<1>1. AtRevision(db', db.rev)
  BY DEF Consistent, AtRevision, Fits
<1> QED
  BY <1>1 DEF Consistent

LEMMA ConsistentStore ==
  ASSUME Consistent, NEW v \in Version, NEW how, StoreVersion(v, how)
  PROVE  Consistent'
<1>1. PICK rows : db' = [db EXCEPT !.versions = rows,
                                   !.provenance = WithRow(@, v, Fetched(how))]
  BY DEF StoreVersion
<1> DEFINE row == Fetched(how)
           P == WithRow(db.provenance, v, row)
<1>2. DOMAIN db = DatabaseFields
  BY DEF Consistent, AtRevision, Fits
<1>3. /\ DOMAIN db' = DOMAIN db /\ db'.rev = db.rev /\ db'.failed = db.failed
      /\ db'.tables = db.tables /\ db'.foreign = db.foreign /\ db'.columns = db.columns
      /\ db'.checks = db.checks /\ db'.guarded = db.guarded
      /\ db'.extension = db.extension /\ db'.provenance = P /\ db'.citations = db.citations
  BY <1>1, <1>2, FieldsOfDatabase
<1>4. /\ DOMAIN row = ProvenanceColumns /\ row.tls_verified \in {"yes", "no"}
      /\ db.rev < 6 => row.pin_set_id = "null"
  <2>1. db.rev < 6 => how # "pinned"
    BY DEF StoreVersion, Consistent, Latest
  <2> QED BY <2>1 DEF Fetched, ProvenanceColumns, TrustColumns
<1> HIDE DEF row
<1>5. /\ DOMAIN P = DOMAIN db.provenance \cup {v}
      /\ \A w \in DOMAIN P :
           P[w] = row \/ (w \in DOMAIN db.provenance /\ P[w] = db.provenance[w])
  BY DEF WithRow
<1> HIDE DEF P
<1>6. RowsHold(P, db.citations, db.rev)
  BY <1>4, <1>5 DEF Consistent, AtRevision, RowsHold
<1> QED
  BY <1>3, <1>6, ConsistentRows

LEMMA ConsistentCite ==
  ASSUME Consistent, NEW c, NEW scores \in Scores, Cite(c, scores)
  PROVE  Consistent'
<1> DEFINE row == [s \in UNION Scores |-> IF s \in scores THEN "score" ELSE "null"]
           R == WithRow(db.citations, c, row)
<1>1. db' = [db EXCEPT !.citations = R] /\ db.rev >= 11
  BY DEF Cite
<1>2. DOMAIN db = DatabaseFields
  BY DEF Consistent, AtRevision, Fits
<1> HIDE DEF R
<1>3. /\ DOMAIN db' = DOMAIN db /\ db'.rev = db.rev /\ db'.failed = db.failed
      /\ db'.tables = db.tables /\ db'.foreign = db.foreign /\ db'.columns = db.columns
      /\ db'.checks = db.checks /\ db'.guarded = db.guarded
      /\ db'.extension = db.extension /\ db'.provenance = db.provenance /\ db'.citations = R
  BY <1>1, <1>2, FieldsOfDatabase
<1>4. /\ DOMAIN row = ScoreColumns
      /\ row.lexical_score # "null" \/ row.semantic_score # "null"
  <2>1. /\ UNION Scores = ScoreColumns
        /\ "lexical_score" \in scores \/ "semantic_score" \in scores
    BY DEF Scores, ScoreColumns
  <2>2. row = [s \in ScoreColumns |-> IF s \in scores THEN "score" ELSE "null"]
    BY <2>1
  <2> HIDE DEF row
  <2> QED BY <2>1, <2>2 DEF ScoreColumns
<1> HIDE DEF row
<1>5. /\ DOMAIN R = DOMAIN db.citations \cup {c}
      /\ \A r \in DOMAIN R : R[r] = row \/ (r \in DOMAIN db.citations /\ R[r] = db.citations[r])
  BY DEF R, WithRow
<1>6. RowsHold(db.provenance, R, db.rev)
  BY <1>1, <1>4, <1>5 DEF Consistent, AtRevision, RowsHold, Latest
<1> QED
  BY <1>3, <1>6, ConsistentRows

LEMMA ConsistentFill ==
  ASSUME Consistent, StartFill \/ ReadBatch \/ WriteBatch
  PROVE  Consistent'
<1>1. CASE db' = db
  BY <1>1 DEF Consistent
<1>2. CASE \E rows : db' = [db EXCEPT !.versions = rows]
  <2>1. PICK rows : db' = [db EXCEPT !.versions = rows]
    BY <1>2
  <2>2. DOMAIN db = DatabaseFields
    BY DEF Consistent, AtRevision, Fits
  <2>3. /\ DOMAIN db' = DOMAIN db /\ db'.rev = db.rev /\ db'.failed = db.failed
        /\ db'.tables = db.tables /\ db'.foreign = db.foreign /\ db'.columns = db.columns
        /\ db'.checks = db.checks /\ db'.guarded = db.guarded
        /\ db'.extension = db.extension /\ db'.provenance = db.provenance
        /\ db'.citations = db.citations
    BY <2>1, <2>2, FieldsOfDatabase
  <2>4. RowsHold(db.provenance, db.citations, db.rev)
    BY DEF Consistent, AtRevision
  <2> QED BY <2>3, <2>4, ConsistentRows
<1>3. db' = db \/ \E rows : db' = [db EXCEPT !.versions = rows]
  BY DEF StartFill, ReadBatch, WriteBatch
<1> QED
  BY <1>1, <1>2, <1>3

LEMMA ConsistentNext == Consistent /\ [SchemaNext]_schemaVars => Consistent'
<1> SUFFICES ASSUME Consistent, [SchemaNext]_schemaVars PROVE Consistent'
  OBVIOUS
<1>1. ASSUME NEW to \in Target, Migrate(to) PROVE Consistent'
  BY <1>1, ConsistentMigrate
<1>2. ASSUME NEW v \in Version, NEW how, StoreVersion(v, how) PROVE Consistent'
  BY <1>2, ConsistentStore
<1>3. ASSUME NEW c \in Citation, NEW scores \in Scores, Cite(c, scores) PROVE Consistent'
  BY <1>3, ConsistentCite
<1>4. CASE StartFill \/ ReadBatch \/ WriteBatch
  BY <1>4, ConsistentFill
<1>5. CASE UNCHANGED schemaVars
  BY <1>5 DEF Consistent, schemaVars
<1> QED
  BY <1>1, <1>2, <1>3, <1>4, <1>5 DEF SchemaNext

\* From every database that Alembic reaches, whatever its rows, every revision can be
\* reached; only a citation that has nothing but a semantic score holds a downgrade below
\* 0009 (alembic/versions).
THEOREM OnlyScoresBlockADowngrade == SchemaSpec => []OnlyScoresBlock
<1>1. Consistent => OnlyScoresBlock
  <2> SUFFICES ASSUME Consistent, NEW to \in Blocked(db)
               PROVE  to < 9 /\ db.rev >= 9 /\ ScoredBySemanticsOnly(db)
    BY DEF OnlyScoresBlock, BlockedAtFirst
  <2>1. to \in 0 .. Latest /\ Migrated(db, to).failed
    BY DEF Blocked
  <2>2. ~AtRevision(Migrated(db, to), to)
    BY <2>1 DEF AtRevision, Fits
  <2> QED BY <2>1, <2>2, MigratedArrives DEF Consistent
<1> QED
  BY <1>1, ConsistentInit, ConsistentNext, PTL DEF SchemaSpec

-------------------------------------------------------------------------------
(***************************************************************************)
(* The comparison of two retrievals: a gate that passes has a sum of       *)
(* failures that is zero, so there is none                                 *)
(***************************************************************************)
\* What the gate sums is a fold.
LEMMA FoldOfFailures ==
  ASSUME NEW mode
  PROVE  SummaryMetrics(mode).failures
           = FoldOver("failures", 0, 0, {SetCInvariant(o) : o \in Of(mode, InC)})
<1> DEFINE c == {SetCInvariant(o) : o \in Of(mode, InC)}
           failures(row) == Cardinality(row.failures)
<1>1. SummaryMetrics(mode).failures = MapThenSumSet(failures, c)
  BY DEF SummaryMetrics
<1> HIDE DEF c
<1>2. MapThenSumSet(failures, c) = FoldOver("failures", 0, 0, c)
  BY DEF MapThenSumSet, MapThenFoldSet, FoldOver, IsFold, FoldedIn, LastOf
<1> QED
  BY <1>1, <1>2 DEF c

\* A sum of sizes that is zero has only empty sets.
LEMMA NothingAddsUp ==
  ASSUME NEW S, IsFiniteSet(S), \A row \in S : IsFiniteSet(row.failures),
         FoldOver("failures", 0, 0, S) = 0
  PROVE  \A row \in S : row.failures = {}
<1>1. \A s \in SUBSET S : s # {} => LastOf("failures", s) \in s
  BY DEF LastOf
<1>2. \E it : IsFold("failures", 0, 0, S, it)
  BY <1>1, FoldExists
<1> DEFINE it == CHOOSE jt : IsFold("failures", 0, 0, S, jt)
<1>3. IsFold("failures", 0, 0, S, it) /\ it[S] = 0
  BY <1>2 DEF FoldOver
<1> HIDE DEF it
<1>4. \A s \in SUBSET S :
        it[s] = IF s = {} THEN 0
                ELSE Cardinality(LastOf("failures", s).failures) + it[s \ {LastOf("failures", s)}]
  BY <1>3 DEF IsFold, FoldedIn
<1> DEFINE Tells(s) == it[s] \in Nat /\ (it[s] = 0 => \A row \in s : row.failures = {})
           T == {k \in Nat : \E s \in SUBSET S : Cardinality(s) = k /\ ~Tells(s)}
<1>5. T = {}
  <2> SUFFICES ASSUME T # {} PROVE FALSE
    OBVIOUS
  <2>1. T \subseteq Nat
    OBVIOUS
  <2>2. PICK k \in T : \A m \in T : k <= m
    <3> HIDE DEF T
    <3> QED BY <2>1, Least
  <2>3. PICK s \in SUBSET S : Cardinality(s) = k /\ ~Tells(s)
    BY <2>2
  <2>4. s # {}
    <3>1. {} \in SUBSET S
      OBVIOUS
    <3>2. it[{}] = 0
      BY <1>4, <3>1
    <3>3. Tells({})
      BY <3>2
    <3> HIDE DEF Tells
    <3> QED BY <2>3, <3>3
  <2> DEFINE x == LastOf("failures", s)
             rest == s \ {x}
  <2>5. x \in s /\ IsFiniteSet(s)
    BY <1>1, <2>4, FS_Subset
  <2>6. Cardinality(rest) = k - 1 /\ k - 1 \in Nat
    <3>1. IsFiniteSet(rest)
      BY <2>5, FS_Subset
    <3> QED BY <2>3, <2>5, <3>1, FS_RemoveElement, FS_CardinalityType
  <2>7. k - 1 \notin T
    BY <2>1, <2>2, <2>6
  <2>8. Tells(rest)
    <3> HIDE DEF Tells
    <3> QED BY <2>6, <2>7
  <2>9. Cardinality(x.failures) \in Nat /\ (Cardinality(x.failures) = 0 => x.failures = {})
    BY <2>5, FS_CardinalityType, FS_EmptySet
  <2>10. it[s] = Cardinality(x.failures) + it[rest]
    BY <1>4, <2>4
  <2>11. it[s] \in Nat
    BY <2>8, <2>9, <2>10
  <2>12. it[s] = 0 => x.failures = {} /\ it[rest] = 0
    BY <2>8, <2>9, <2>10
  <2>13. it[s] = 0 => \A row \in rest : row.failures = {}
    BY <2>8, <2>12
  <2>14. \A row \in s : row = x \/ row \in rest
    BY <2>5
  <2> HIDE DEF x, rest
  <2>15. Tells(s)
    BY <2>11, <2>12, <2>13, <2>14
  <2> QED BY <2>3, <2>15
<1>6. Cardinality(S) \in Nat
  BY FS_CardinalityType
<1>7. Tells(S)
  <2> HIDE DEF Tells
  <2> QED BY <1>5, <1>6
<1> QED
  BY <1>3, <1>7

\* What an observation says of its removal
Tells(o) == o.failure = "" => o.resolvable /\ o.cleanup = "COMPLETED"

FailureSeen(run) == \E o \in observed : o.mode = run.mode /\ o.case = run.case /\ o.failure # ""

UnderWay == IF stage \in {"resolve", "clean"} THEN {Now} ELSE {}

M2Inv ==
  /\ IsFiniteSet(observed) /\ \A o \in observed : Tells(o)
  /\ exitCode # "interrupted" => \A run \in left \ UnderWay : FailureSeen(run)
  /\ stage # "exited" => comparison = {} /\ exitCode = "running"
  /\ \A r \in comparison : r.gate.pass =>
       /\ \A run \in left : ~(run.mode = "S1" /\ run.case \in InC)
       /\ \A o \in Of("S1", InC) : o.cleanup = "COMPLETED" /\ o.resolvable

\* A gate that passes has seen no failure of a control.
LEMMA PassedGate ==
  ASSUME IsFiniteSet(observed), MechanicalGate.pass
  PROVE  \A o \in Of("S1", InC) : o.failure = ""
<1> DEFINE c == {SetCInvariant(o) : o \in Of("S1", InC)}
<1>1. SummaryMetrics("S1").failures = 0
  BY DEF MechanicalGate
<1>2. FoldOver("failures", 0, 0, c) = 0
  BY <1>1, FoldOfFailures
<1>3. IsFiniteSet(c)
  <2> DEFINE controls == Of("S1", InC)
             f == [o \in controls |-> SetCInvariant(o)]
  <2>1. IsFiniteSet(controls)
    <3>1. controls \subseteq observed
      BY DEF Of
    <3> QED BY <3>1, FS_Subset
  <2> HIDE DEF controls
  <2>2. f \in Surjection(controls, {SetCInvariant(o) : o \in controls})
    BY DEF Surjection
  <2>3. IsFiniteSet({SetCInvariant(o) : o \in controls})
    BY <2>1, <2>2, FS_Surjection
  <2> QED BY <2>3 DEF controls
<1>4. \A row \in c : IsFiniteSet(row.failures)
  <2> SUFFICES ASSUME NEW o \in Of("S1", InC)
               PROVE  IsFiniteSet(SetCInvariant(o).failures)
    OBVIOUS
  <2> DEFINE a == IF o.failure = "" THEN {} ELSE {o.failure}
             b == IF o.resolvable THEN {} ELSE {"UNRESOLVABLE_CITATION"}
             d == IF o.case \in IdentityControls /\ o.identities > 0
                  THEN {"ARBITRARY_IDENTITY_CANDIDATE"} ELSE {}
  <2>1. SetCInvariant(o).failures = a \cup b \cup d
    BY DEF SetCInvariant
  <2>2. IsFiniteSet(a) /\ IsFiniteSet(b) /\ IsFiniteSet(d)
    BY FS_EmptySet, FS_Singleton
  <2> HIDE DEF a, b, d
  <2> QED BY <2>1, <2>2, FS_Union
<1>5. \A row \in c : row.failures = {}
  <2> HIDE DEF c
  <2> QED BY <1>2, <1>3, <1>4, NothingAddsUp
<1> QED
  <2> SUFFICES ASSUME NEW o \in Of("S1", InC) PROVE o.failure = ""
    OBVIOUS
  <2>1. SetCInvariant(o).failures = {}
    BY <1>5
  <2> QED BY <2>1 DEF SetCInvariant

\* The observation of a question whose run was stored
Cleaned(f, c) == Observation(f, failing = "", c, UNION cited)

LEMMA CleanedTells ==
  ASSUME NEW f, NEW c, f = "" => failing = "" /\ c = "COMPLETED"
  PROVE  /\ Cleaned(f, c).failure = f /\ Tells(Cleaned(f, c))
         /\ Cleaned(f, c).mode = Now.mode /\ Cleaned(f, c).case = Now.case
<1> DEFINE o == Cleaned(f, c)
<1>1. o.failure = f /\ o.mode = Now.mode /\ o.case = Now.case
  BY DEF Cleaned, Observation
<1>2. CASE f = ""
  <2>1. o.resolvable
    BY <1>2 DEF Cleaned, Observation
  <2>2. o.cleanup = "COMPLETED"
    BY <1>2 DEF Cleaned, Observation
  <2> QED BY <1>1, <2>1, <2>2 DEF Tells
<1>3. CASE f # ""
  <2> HIDE DEF o
  <2>1. Tells(o)
    BY <1>1, <1>3 DEF Tells
  <2> QED BY <1>1, <2>1 DEF o
<1> QED
  BY <1>2, <1>3

LEMMA ObserveKeeps ==
  ASSUME M2Inv, stage # "exited", NEW o, Tells(o), o.mode = Now.mode, o.case = Now.case,
         Observe(o), left' \subseteq left \cup {Now}, Now \in left' => o.failure # "",
         UNCHANGED <<comparison, exitCode>>
  PROVE  M2Inv'
<1>1. /\ observed' = observed \cup {o} /\ stage' \in {"oracle", "retrieve"}
  BY DEF Observe
<1>2. IsFiniteSet(observed') /\ \A x \in observed' : Tells(x)
  BY <1>1, FS_AddElement DEF M2Inv
<1>3. ASSUME NEW run \in left' PROVE FailureSeen(run)'
  <2>1. CASE run = Now
    BY <1>1, <1>3, <2>1 DEF FailureSeen
  <2>2. CASE run # Now
    <3>1. run \in left \ UnderWay
      BY <1>3, <2>2 DEF UnderWay
    <3>2. FailureSeen(run)
      BY <3>1 DEF M2Inv
    <3> QED BY <1>1, <3>2 DEF FailureSeen
  <2> QED BY <2>1, <2>2
<1>4. comparison' = {} /\ exitCode' = "running"
  BY DEF M2Inv
<1> QED
  BY <1>1, <1>2, <1>3, <1>4 DEF M2Inv, UnderWay, Tells

LEMMA M2InitInv == M2Init => M2Inv
  BY FS_EmptySet DEF M2Init, M2Inv

LEMMA M2NextInv == M2Inv /\ [M2Next]_m2Vars => M2Inv'
<1> SUFFICES ASSUME M2Inv, [M2Next]_m2Vars PROVE M2Inv'
  OBVIOUS
<1>1. CASE ReadWorkbook
  BY <1>1 DEF ReadWorkbook, M2Inv, caseVars, comparisonVars, UnderWay, Now, FailureSeen, Tells, Of
<1>2. CASE Retrieve
  <2>1. CASE /\ left' = left \cup {Now} /\ stage = "retrieve" /\ stage' = "resolve"
             /\ UNCHANGED <<observed, position, comparison, exitCode>>
    BY <2>1 DEF M2Inv, UnderWay, Now, FailureSeen, Tells, Of
  <2>2. CASE /\ stage = "retrieve" /\ left' \in {left, left \cup {Now}}
             /\ Observe(Observation("SAFE_EXCEPTION", FALSE, "NOT_NEEDED", {}))
             /\ UNCHANGED <<comparison, exitCode>>
    <3> DEFINE o == Observation("SAFE_EXCEPTION", FALSE, "NOT_NEEDED", {})
    <3>1. o.failure # "" /\ o.mode = Now.mode /\ o.case = Now.case /\ Tells(o)
      BY DEF Observation, Tells
    <3> HIDE DEF o
    <3>2. left' \subseteq left \cup {Now}
      BY <2>2
    <3> QED BY <2>2, <3>1, <3>2, ObserveKeeps DEF o
  <2> QED BY <1>2, <2>1, <2>2 DEF Retrieve, comparisonVars
<1>3. CASE Resolve
  BY <1>3 DEF Resolve, M2Inv, comparisonVars, UnderWay, Now, FailureSeen, Tells, Of
<1>4. CASE Clean
  <2>1. stage = "clean" /\ UNCHANGED <<comparison, exitCode>>
    BY <1>4 DEF Clean, comparisonVars
  <2>2. CASE left' = left \ {Now} /\ Observe(Cleaned(failing, "COMPLETED"))
    <3>1. /\ Cleaned(failing, "COMPLETED").mode = Now.mode
          /\ Cleaned(failing, "COMPLETED").case = Now.case
          /\ Tells(Cleaned(failing, "COMPLETED"))
      BY CleanedTells
    <3>2. left' \subseteq left \cup {Now} /\ Now \notin left'
      BY <2>2
    <3> QED BY <2>1, <2>2, <3>1, <3>2, ObserveKeeps
  <2>3. CASE /\ left' \in {left, left \ {Now}}
             /\ Observe(Cleaned(IF failing = "" THEN "CLEANUP_FAILED" ELSE failing,
                                "FAILED_SAFE"))
    <3> DEFINE code == IF failing = "" THEN "CLEANUP_FAILED" ELSE failing
    <3>1. code # ""
      OBVIOUS
    <3>2. left' \subseteq left \cup {Now} /\ Observe(Cleaned(code, "FAILED_SAFE"))
      BY <2>3
    <3> HIDE DEF code
    <3>3. /\ Cleaned(code, "FAILED_SAFE").mode = Now.mode
          /\ Cleaned(code, "FAILED_SAFE").case = Now.case
          /\ Cleaned(code, "FAILED_SAFE").failure # "" /\ Tells(Cleaned(code, "FAILED_SAFE"))
      BY <3>1, CleanedTells
    <3> QED BY <2>1, <3>2, <3>3, ObserveKeeps
  <2> QED BY <1>4, <2>2, <2>3 DEF Clean, Cleaned
<1>5. CASE ReadOracle
  BY <1>5 DEF ReadOracle, Aborts, M2Inv, caseVars, UnderWay, Now, FailureSeen, Tells, Of
<1>6. CASE ReadRecall
  BY <1>6 DEF ReadRecall, M2Inv, caseVars, UnderWay, Now, FailureSeen, Tells, Of
<1>7. CASE WriteReports
  <2>1. /\ stage = "report" /\ stage' = "exited" /\ exitCode' \in {"0", "2"}
        /\ comparison' \subseteq {Comparison} /\ UNCHANGED <<observed, left, position>>
    BY <1>7 DEF WriteReports, Aborts, caseVars
  <2>2. \A run \in left : FailureSeen(run)
    BY <2>1 DEF M2Inv, UnderWay
  <2>3. ASSUME Comparison.gate.pass
        PROVE  /\ \A run \in left : ~(run.mode = "S1" /\ run.case \in InC)
               /\ \A o \in Of("S1", InC) : o.cleanup = "COMPLETED" /\ o.resolvable
    <3>1. MechanicalGate.pass
      BY <2>3 DEF Comparison
    <3>2. \A o \in Of("S1", InC) : o.failure = ""
      BY <3>1, PassedGate DEF M2Inv
    <3>3. \A run \in left : ~(run.mode = "S1" /\ run.case \in InC)
      BY <2>2, <3>2 DEF FailureSeen, Of
    <3> QED BY <3>2, <3>3 DEF M2Inv, Tells, Of
  <2>4. Of("S1", InC)' = Of("S1", InC)
    BY <2>1 DEF Of
  <2> HIDE DEF Comparison
  <2>5. \A r \in comparison' : r = Comparison
    BY <2>1
  <2>6. IsFiniteSet(observed') /\ \A o \in observed' : Tells(o)
    BY <2>1 DEF M2Inv
  <2>7. \A run \in left' : FailureSeen(run)'
    BY <2>1, <2>2 DEF FailureSeen
  <2> QED BY <2>1, <2>3, <2>4, <2>5, <2>6, <2>7 DEF M2Inv, UnderWay, Tells
<1>8. CASE Cancelled
  BY <1>8 DEF Cancelled, M2Inv, comparisonVars, UnderWay, Now, FailureSeen, Tells, Of
<1>9. CASE CatalogMoves
  BY <1>9 DEF CatalogMoves, M2Inv, caseVars, comparisonVars, UnderWay, Now, FailureSeen, Tells, Of
<1>10. CASE UNCHANGED m2Vars
  BY <1>10 DEF m2Vars, M2Inv, UnderWay, Now, FailureSeen, Tells, Of
<1> QED
  BY <1>1, <1>2, <1>3, <1>4, <1>5, <1>6, <1>7, <1>8, <1>9, <1>10 DEF M2Next

\* A run that stays in the database stays with a reason its report gives, unless the tool was
\* interrupted; and a gate that passes has seen none of them (scripts/evaluate_m2_retrieval.py,
\* execute_case and mechanical_gate).
THEOREM LeftoversHaveReasons == M2Spec => []LeftoversAreReported
<1>1. M2Inv => LeftoversAreReported
  BY DEF M2Inv, LeftoversAreReported, UnderWay, FailureSeen
<1> QED
  BY <1>1, M2InitInv, M2NextInv, PTL DEF M2Spec

===============================================================================
