---------------------------- MODULE DocumentProofs ----------------------------
(***************************************************************************)
(* Theorems about DocumentRepository for every set of documents,           *)
(* snapshots, ingesters and chunk ids.                                     *)
(*                                                                         *)
(* The unique numbers need the lock: an ingester between its look and its  *)
(* insert holds its document alone, so what it saw is still so.            *)
(***************************************************************************)
EXTENDS DocumentRepository, TLAPS, SequenceTheorems

\* The numbers of a document are 1 .. k.
RunOfNumbers == \A d \in Document : \E k \in Nat : Numbers(d) = 1 .. k

\* No two versions of a document share their number or their snapshot.
OneOfEach ==
    \A v, w \in versions :
        v.doc = w.doc /\ (v.number = w.number \/ v.snapshot = w.snapshot) => v = w

\* A document is locked by one ingester at a time.
OneHolder ==
    \A i, j \in Ingester :
        ing[i].pc = "locked" /\ ing[j].pc = "locked" /\ ing[i].doc = ing[j].doc => i = j

\* What the holder of the lock saw before its insert still holds.
HolderIsNext ==
    \A i \in Ingester, d \in Document, s \in Snapshot :
        ing[i].pc = "locked" /\ ing[i].doc = d /\ ing[i].snapshot = s =>
            ing[i].number = LatestNumber(d) + 1 /\ Existing(d, s) = {}

DocInv ==
    /\ DocTypeOK
    /\ RunOfNumbers
    /\ OneOfEach
    /\ OneHolder
    /\ HolderIsNext
    /\ ResultNamesItsVersion

-------------------------------------------------------------------------------
LEMMA MaxOfRun ==
  ASSUME NEW k \in Nat
  PROVE  Max((1 .. k) \cup {0}) = k
<1>1. k \in (1 .. k) \cup {0} /\ \A y \in (1 .. k) \cup {0} : k >= y
  OBVIOUS
<1>2. \A x \in (1 .. k) \cup {0} : (\A y \in (1 .. k) \cup {0} : x >= y) => x = k
  OBVIOUS
<1>3. QED
  BY <1>1, <1>2 DEF Max

\* In a run of numbers the latest is the length of the run.
LEMMA LatestOfRun ==
  ASSUME NEW d, NEW k \in Nat, Numbers(d) = 1 .. k
  PROVE  LatestNumber(d) = k
  BY MaxOfRun DEF LatestNumber

LEMMA LatestIsNat ==
  ASSUME RunOfNumbers, NEW d \in Document
  PROVE  LatestNumber(d) \in Nat /\ Numbers(d) = 1 .. LatestNumber(d)
<1>1. PICK k \in Nat : Numbers(d) = 1 .. k
  BY DEF RunOfNumbers
<1>2. QED
  BY <1>1, LatestOfRun

\* Where the versions stay, so do the numbers.
LEMMA SameVersions ==
  ASSUME versions' = versions
  PROVE  \A d : /\ Numbers(d)' = Numbers(d)
                /\ LatestNumber(d)' = LatestNumber(d)
                /\ \A s : Existing(d, s)' = Existing(d, s)
  BY DEF Numbers, VersionsOf, LatestNumber, Existing

-------------------------------------------------------------------------------
(***************************************************************************)
(* The steps, as far as the proofs care                                    *)
(***************************************************************************)

\* What an insert adds
Row(i, chunks) ==
    [doc |-> ing[i].doc, number |-> ing[i].number, snapshot |-> ing[i].snapshot,
     chunks |-> chunks, at |-> commits + 1]

LEMMA JobType ==
  ASSUME DocTypeOK, NEW i \in Ingester, ing[i].pc # "idle"
  PROVE  ing[i] \in Job
  BY DEF DocTypeOK, Idle

\* Every step but an insert leaves the versions alone and moves one ingester.
LEMMA StepCases ==
  ASSUME DocTypeOK, RunOfNumbers, [DocNext]_docVars
  PROVE  \/ /\ versions' = versions /\ commits' = commits
            /\ source' \in [Document -> Snapshot]
            /\ ing' = ing
         \/ /\ versions' = versions /\ commits' = commits /\ source' = source
            /\ \E i \in Ingester :
                 \/ ing' = [ing EXCEPT ![i] = Idle]
                 \/ \E job \in Job :
                      /\ ing' = [ing EXCEPT ![i] = job]
                      /\ \/ job.pc \in {"fetched", "embedding"}
                         \/ /\ job.pc = "locked"
                            /\ job.number = LatestNumber(job.doc) + 1
                            /\ Existing(job.doc, job.snapshot) = {}
                            /\ \A j \in Ingester \ {i} :
                                 ~(ing[j].pc = "locked" /\ ing[j].doc = job.doc)
                         \/ /\ job.pc = "done"
                            /\ \E v \in Existing(job.doc, job.snapshot) : v.number = job.number
         \/ /\ source' = source /\ commits' = commits + 1
            /\ \E i \in Ingester, chunks \in SUBSET ChunkId :
                 /\ ing[i].pc = "locked" /\ ing[i] \in Job
                 /\ PlaceFree(ing[i].doc, ing[i].number, ing[i].snapshot)
                 /\ chunks \subseteq FreeChunks
                 /\ chunks # {}
                 /\ versions' = versions \cup {Row(i, chunks)}
                 /\ ing' = [ing EXCEPT ![i] = [ing[i] EXCEPT !.pc = "done",
                                                             !.outcome = "created"]]
<1> USE DEF Job
<1>1. ASSUME NEW d \in Document, SourceChanges(d)
      PROVE  /\ versions' = versions /\ commits' = commits
             /\ source' \in [Document -> Snapshot] /\ ing' = ing
  BY <1>1 DEF SourceChanges, DocTypeOK
<1>2. ASSUME NEW i \in Ingester, NEW d \in Document, Fetch(i, d)
      PROVE  /\ versions' = versions /\ commits' = commits /\ source' = source
             /\ \E job \in Job : ing' = [ing EXCEPT ![i] = job] /\ job.pc = "fetched"
  <2> DEFINE job == [pc |-> "fetched", doc |-> d, snapshot |-> source[d],
                     number |-> 0, outcome |-> "none"]
  <2>1. job \in Job /\ job.pc = "fetched"
    BY DEF DocTypeOK
  <2>2. ing' = [ing EXCEPT ![i] = job]
    BY <1>2 DEF Fetch
  <2>3. QED
    BY <1>2, <2>1, <2>2 DEF Fetch
<1>3. ASSUME NEW i \in Ingester, NEW v, ing[i] \in Job,
             v \in Existing(ing[i].doc, ing[i].snapshot), Return(i, v.number, "unchanged")
      PROVE  \E job \in Job :
               /\ ing' = [ing EXCEPT ![i] = job] /\ job.pc = "done"
               /\ \E w \in Existing(job.doc, job.snapshot) : w.number = job.number
  <2> DEFINE job == [ing[i] EXCEPT !.pc = "done", !.number = v.number, !.outcome = "unchanged"]
  <2>1. v.number \in Nat
    BY <1>3 DEF DocTypeOK, Version, Existing
  <2>2. job \in Job /\ job.pc = "done" /\ job.doc = ing[i].doc
        /\ job.snapshot = ing[i].snapshot /\ job.number = v.number
    BY <1>3, <2>1
  <2>3. ing' = [ing EXCEPT ![i] = job]
    BY <1>3 DEF Return, DocTypeOK
  <2>4. QED
    BY <1>3, <2>2, <2>3
<1>4. ASSUME NEW i \in Ingester, FindExisting(i)
      PROVE  /\ versions' = versions /\ commits' = commits /\ source' = source
             /\ \E job \in Job :
                  /\ ing' = [ing EXCEPT ![i] = job]
                  /\ \/ job.pc = "embedding"
                     \/ /\ job.pc = "done"
                        /\ \E v \in Existing(job.doc, job.snapshot) : v.number = job.number
  <2>1. ing[i] \in Job
    BY <1>4, JobType DEF FindExisting
  <2>2. CASE ing' = [ing EXCEPT ![i].pc = "embedding"]
    <3>1. [ing[i] EXCEPT !.pc = "embedding"] \in Job
      BY <2>1
    <3>2. QED
      BY <1>4, <2>1, <2>2, <3>1 DEF FindExisting
  <2>3. CASE \E v \in Existing(ing[i].doc, ing[i].snapshot) : Return(i, v.number, "unchanged")
    BY <1>3, <1>4, <2>1, <2>3 DEF FindExisting
  <2>4. QED
    BY <1>4, <2>2, <2>3 DEF FindExisting
<1>5. ASSUME NEW i \in Ingester, LockDocument(i)
      PROVE  /\ versions' = versions /\ commits' = commits /\ source' = source
             /\ \E job \in Job :
                  /\ ing' = [ing EXCEPT ![i] = job]
                  /\ \/ /\ job.pc = "locked"
                        /\ job.number = LatestNumber(job.doc) + 1
                        /\ Existing(job.doc, job.snapshot) = {}
                        /\ \A j \in Ingester \ {i} :
                             ~(ing[j].pc = "locked" /\ ing[j].doc = job.doc)
                     \/ /\ job.pc = "done"
                        /\ \E v \in Existing(job.doc, job.snapshot) : v.number = job.number
  <2>1. ing[i] \in Job
    BY <1>5, JobType DEF LockDocument
  <2>2. CASE /\ Existing(ing[i].doc, ing[i].snapshot) = {}
             /\ ing' = [ing EXCEPT ![i].pc = "locked",
                                   ![i].number = LatestNumber(ing[i].doc) + 1]
    <3>1. PICK n \in Nat : n = LatestNumber(ing[i].doc) + 1
      BY <2>1, LatestIsNat
    <3> DEFINE job == [ing[i] EXCEPT !.pc = "locked", !.number = n]
    <3>2. job \in Job /\ job.pc = "locked" /\ job.doc = ing[i].doc
          /\ job.snapshot = ing[i].snapshot /\ job.number = n
      BY <2>1
    <3>3. ing' = [ing EXCEPT ![i] = job]
      BY <2>2, <3>1 DEF DocTypeOK
    <3>4. \A j \in Ingester \ {i} : ~(ing[j].pc = "locked" /\ ing[j].doc = ing[i].doc)
      BY <1>5 DEF LockDocument, LockFree
    <3>5. versions' = versions /\ commits' = commits /\ source' = source
      BY <1>5 DEF LockDocument
    <3> HIDE DEF job
    <3>6. QED
      <4>1. Existing(job.doc, job.snapshot) = {} /\ job.number = LatestNumber(job.doc) + 1
        BY <2>2, <3>1, <3>2
      <4>2. \A j \in Ingester \ {i} : ~(ing[j].pc = "locked" /\ ing[j].doc = job.doc)
        BY <3>2, <3>4
      <4>3. QED
        BY <3>2, <3>3, <3>5, <4>1, <4>2
  <2>3. CASE \E v \in Existing(ing[i].doc, ing[i].snapshot) : Return(i, v.number, "unchanged")
    BY <1>3, <1>5, <2>1, <2>3 DEF LockDocument
  <2>4. QED
    BY <1>5, <2>2, <2>3 DEF LockDocument
<1>6. ASSUME NEW i \in Ingester, InsertVersion(i)
      PROVE  /\ source' = source /\ commits' = commits + 1
             /\ \E chunks \in SUBSET ChunkId :
                  /\ ing[i].pc = "locked" /\ ing[i] \in Job
                  /\ PlaceFree(ing[i].doc, ing[i].number, ing[i].snapshot)
                  /\ chunks \subseteq FreeChunks
                  /\ chunks # {}
                  /\ versions' = versions \cup {Row(i, chunks)}
                  /\ ing' = [ing EXCEPT ![i] = [ing[i] EXCEPT !.pc = "done",
                                                              !.outcome = "created"]]
  <2>1. ing[i] \in Job
    BY <1>6, JobType DEF InsertVersion
  <2>2. ing' = [ing EXCEPT ![i] = [ing[i] EXCEPT !.pc = "done", !.outcome = "created"]]
    BY <1>6, <2>1 DEF InsertVersion, Return, DocTypeOK
  <2>3. PICK chunks \in SUBSET FreeChunks :
          chunks # {} /\ versions' = versions \cup {Row(i, chunks)}
    BY <1>6 DEF InsertVersion, Row
  <2>4. chunks \in SUBSET ChunkId
    BY DEF FreeChunks
  <2>5. QED
    BY <1>6, <2>1, <2>2, <2>3, <2>4 DEF InsertVersion
<1>7. ASSUME NEW i \in Ingester, Abort(i)
      PROVE  /\ versions' = versions /\ commits' = commits /\ source' = source
             /\ ing' = [ing EXCEPT ![i] = Idle]
  BY <1>7 DEF Abort
<1>8. CASE UNCHANGED docVars
  BY <1>8 DEF docVars, DocTypeOK
<1>9. CASE \E d \in Document : SourceChanges(d)
  BY <1>9, <1>1
<1>10. CASE \E i \in Ingester : Ingest(i)
  <2>1. PICK i \in Ingester : Ingest(i)
    BY <1>10
  <2>2. CASE \E d \in Document : Fetch(i, d)
    BY <2>2, <1>2
  <2>3. CASE FindExisting(i)
    BY <2>3, <1>4
  <2>4. CASE LockDocument(i)
    BY <2>4, <1>5, ZenonT(60)
  <2>5. CASE InsertVersion(i)
    BY <2>5, <1>6
  <2>6. CASE Abort(i)
    BY <2>6, <1>7
  <2>7. QED
    BY <2>1, <2>2, <2>3, <2>4, <2>5, <2>6 DEF Ingest
<1>11. QED
  BY <1>8, <1>9, <1>10 DEF DocNext

-------------------------------------------------------------------------------
(***************************************************************************)
(* The inductive invariant                                                 *)
(***************************************************************************)
LEMMA DocInitInv == DocInit => DocInv
<1> SUFFICES ASSUME DocInit PROVE DocInv
  OBVIOUS
<1>1. DocTypeOK
  BY DEF DocInit, DocTypeOK
<1>2. RunOfNumbers
  <2>1. \A d \in Document : Numbers(d) = 1 .. 0
    BY DEF DocInit, Numbers, VersionsOf
  <2>2. QED
    BY <2>1 DEF RunOfNumbers
<1>3. OneOfEach /\ OneHolder /\ HolderIsNext /\ ResultNamesItsVersion
  BY DEF DocInit, OneOfEach, OneHolder, HolderIsNext, ResultNamesItsVersion, Idle
<1>4. QED
  BY <1>1, <1>2, <1>3 DEF DocInv

\* A step that leaves the versions alone
LEMMA QuietStepInv ==
  ASSUME DocInv, versions' = versions, commits' = commits, source' = source,
         NEW i \in Ingester, NEW job \in Job \cup {Idle}, ing' = [ing EXCEPT ![i] = job],
         job.pc = "locked" =>
            /\ job.number = LatestNumber(job.doc) + 1
            /\ Existing(job.doc, job.snapshot) = {}
            /\ \A j \in Ingester \ {i} : ~(ing[j].pc = "locked" /\ ing[j].doc = job.doc),
         job.pc = "done" => \E v \in Existing(job.doc, job.snapshot) : v.number = job.number
  PROVE  DocInv'
<1> USE DEF DocInv
<1>1. \A j \in Ingester : ing'[j] = IF j = i THEN job ELSE ing[j]
  BY DEF DocTypeOK
<1>2. DocTypeOK'
  BY DEF DocTypeOK
<1>3. RunOfNumbers' /\ OneOfEach'
  BY SameVersions DEF RunOfNumbers, OneOfEach
<1>4. OneHolder'
  BY <1>1 DEF OneHolder
<1>5. HolderIsNext'
  BY <1>1, SameVersions DEF HolderIsNext
<1>6. ResultNamesItsVersion'
  BY <1>1 DEF ResultNamesItsVersion, Existing
<1>7. QED
  BY <1>2, <1>3, <1>4, <1>5, <1>6

\* What an insert does to the numbers: its document's run grows by one.
LEMMA InsertNumbers ==
  ASSUME DocInv, NEW i \in Ingester, NEW chunks, ing[i].pc = "locked", ing[i] \in Job,
         versions' = versions \cup {Row(i, chunks)}
  PROVE  /\ \A d \in Document \ {ing[i].doc} : Numbers(d)' = Numbers(d)
         /\ \A d \in Document : d = ing[i].doc =>
               /\ Numbers(d)' = 1 .. ing[i].number
               /\ Numbers(d) = 1 .. ing[i].number - 1
         /\ ing[i].number \in Nat \ {0}
<1>1. ing[i].doc \in Document /\ ing[i].number = LatestNumber(ing[i].doc) + 1
  BY DEF DocInv, HolderIsNext, Job
<1>2. /\ LatestNumber(ing[i].doc) \in Nat
      /\ Numbers(ing[i].doc) = 1 .. LatestNumber(ing[i].doc)
  BY <1>1, LatestIsNat DEF DocInv
<1>3. ASSUME NEW d \in Document \ {ing[i].doc} PROVE Numbers(d)' = Numbers(d)
  BY DEF Numbers, VersionsOf, Row
<1>4. ASSUME NEW d \in Document, d = ing[i].doc
      PROVE  Numbers(d)' = Numbers(d) \cup {ing[i].number}
  <2>1. VersionsOf(d)' = VersionsOf(d) \cup {Row(i, chunks)} /\ Row(i, chunks).number = ing[i].number
    BY <1>4 DEF VersionsOf, Row
  <2>2. QED
    BY <2>1 DEF Numbers
<1>5. PICK k \in Nat : k = LatestNumber(ing[i].doc)
  BY <1>2
<1>6. /\ ing[i].number = k + 1
      /\ Numbers(ing[i].doc) = 1 .. k
  BY <1>1, <1>2, <1>5
<1>7. Numbers(ing[i].doc) \cup {ing[i].number} = 1 .. ing[i].number
  BY <1>6
<1>8. ASSUME NEW d \in Document, d = ing[i].doc
      PROVE  Numbers(d)' = 1 .. ing[i].number /\ Numbers(d) = 1 .. ing[i].number - 1
  <2>1. Numbers(d) = 1 .. ing[i].number - 1
    BY <1>6, <1>8
  <2>2. QED
    BY <1>4, <1>7, <1>8, <2>1
<1>9. ing[i].number \in Nat \ {0}
  BY <1>6
<1>10. QED
  BY <1>3, <1>8, <1>9

LEMMA InsertStepInv ==
  ASSUME DocInv, NEW i \in Ingester, NEW chunks \in SUBSET ChunkId,
         source' = source, commits' = commits + 1,
         ing[i].pc = "locked", ing[i] \in Job,
         PlaceFree(ing[i].doc, ing[i].number, ing[i].snapshot),
         versions' = versions \cup {Row(i, chunks)},
         ing' = [ing EXCEPT ![i] = [ing[i] EXCEPT !.pc = "done", !.outcome = "created"]]
  PROVE  DocInv'
<1> DEFINE job == [ing[i] EXCEPT !.pc = "done", !.outcome = "created"]
<1>1. /\ job \in Job /\ job.pc = "done" /\ job.doc = ing[i].doc
      /\ job.snapshot = ing[i].snapshot /\ job.number = ing[i].number
  BY DEF Job
<1>2. \A j \in Ingester : ing'[j] = IF j = i THEN job ELSE ing[j]
  BY DEF DocInv, DocTypeOK
<1>3. /\ \A d \in Document \ {ing[i].doc} : Numbers(d)' = Numbers(d)
      /\ \A d \in Document : d = ing[i].doc => Numbers(d)' = 1 .. ing[i].number
      /\ ing[i].number \in Nat \ {0}
  BY InsertNumbers
<1>4. Row(i, chunks) \in Version
  BY <1>3 DEF Row, Version, Job, DocInv, DocTypeOK
<1>5. DocTypeOK'
  <2>1. ing' \in [Ingester -> Job \cup {Idle}]
    BY <1>1 DEF DocInv, DocTypeOK
  <2>2. QED
    BY <1>4, <2>1 DEF DocInv, DocTypeOK
<1>6. RunOfNumbers'
  BY <1>3 DEF RunOfNumbers, DocInv
<1>7. OneOfEach'
  BY DEF OneOfEach, DocInv, PlaceFree, VersionsOf, Row
<1>8. OneHolder'
  BY <1>1, <1>2 DEF OneHolder, DocInv
<1>9. HolderIsNext'
  <2> SUFFICES ASSUME NEW j \in Ingester, NEW d \in Document, NEW s \in Snapshot,
                      ing'[j].pc = "locked", ing'[j].doc = d, ing'[j].snapshot = s
               PROVE  /\ ing'[j].number = LatestNumber(d)' + 1
                      /\ Existing(d, s)' = {}
    BY DEF HolderIsNext
  <2>1. j # i /\ ing'[j] = ing[j] /\ d # ing[i].doc
    <3>1. j # i
      BY <1>1 DEF DocInv, DocTypeOK
    <3>2. ing'[j] = ing[j]
      BY <1>2, <3>1
    <3>3. QED
      BY <1>1, <3>1, <3>2 DEF DocInv, OneHolder
  <2>2. ing[j].number = LatestNumber(d) + 1 /\ Existing(d, s) = {}
    BY <2>1 DEF DocInv, HolderIsNext
  <2>3. LatestNumber(d)' = LatestNumber(d)
    BY <1>3, <2>1 DEF LatestNumber
  <2>4. Existing(d, s)' = Existing(d, s)
    BY <2>1 DEF Existing, Row
  <2>5. QED
    BY <2>1, <2>2, <2>3, <2>4
<1>10. ResultNamesItsVersion'
  <2> SUFFICES ASSUME NEW j \in Ingester, ing'[j].pc = "done"
               PROVE  \E v \in versions' : /\ v.doc = ing'[j].doc
                                           /\ v.snapshot = ing'[j].snapshot
                                           /\ v.number = ing'[j].number
    BY DEF ResultNamesItsVersion
  <2>1. CASE j = i
    <3>1. /\ Row(i, chunks) \in versions'
          /\ Row(i, chunks).doc = job.doc /\ Row(i, chunks).snapshot = job.snapshot
          /\ Row(i, chunks).number = job.number
      BY <1>1 DEF Row
    <3>2. ing'[j] = job
      BY <1>2, <2>1
    <3> HIDE DEF job
    <3>3. QED
      BY <3>1, <3>2
  <2>2. CASE j # i
    <3>1. ing'[j] = ing[j]
      BY <1>2, <2>2
    <3>2. ResultNamesItsVersion /\ ing[j].pc = "done"
      BY <3>1 DEF DocInv
    <3>3. PICK v \in versions : /\ v.doc = ing[j].doc
                               /\ v.snapshot = ing[j].snapshot
                               /\ v.number = ing[j].number
      BY <3>2 DEF ResultNamesItsVersion
    <3>4. v \in versions'
      OBVIOUS
    <3>5. QED
      BY <3>1, <3>3, <3>4
  <2>3. QED
    BY <2>1, <2>2
<1>11. QED
  BY <1>5, <1>6, <1>7, <1>8, <1>9, <1>10 DEF DocInv

LEMMA DocNextInv == DocInv /\ [DocNext]_docVars => DocInv'
<1> SUFFICES ASSUME DocInv, [DocNext]_docVars PROVE DocInv'
  OBVIOUS
<1>0. DocTypeOK /\ RunOfNumbers
  BY DEF DocInv
<1>1. CASE versions' = versions /\ commits' = commits
           /\ source' \in [Document -> Snapshot] /\ ing' = ing
  <2>1. DocTypeOK' /\ OneHolder'
    BY <1>1 DEF DocInv, DocTypeOK, OneHolder
  <2>2. RunOfNumbers' /\ OneOfEach' /\ ResultNamesItsVersion'
    BY <1>1, SameVersions DEF DocInv, RunOfNumbers, OneOfEach, ResultNamesItsVersion
  <2>3. HolderIsNext'
    BY <1>1, SameVersions DEF DocInv, HolderIsNext
  <2>4. QED
    BY <2>1, <2>2, <2>3 DEF DocInv
<1>2. CASE /\ versions' = versions /\ commits' = commits /\ source' = source
           /\ \E i \in Ingester : ing' = [ing EXCEPT ![i] = Idle]
  BY <1>2, QuietStepInv DEF Idle
<1>3. ASSUME versions' = versions, commits' = commits, source' = source,
             NEW i \in Ingester, NEW job \in Job, ing' = [ing EXCEPT ![i] = job],
             \/ job.pc \in {"fetched", "embedding"}
             \/ /\ job.pc = "locked"
                /\ job.number = LatestNumber(job.doc) + 1
                /\ Existing(job.doc, job.snapshot) = {}
                /\ \A j \in Ingester \ {i} : ~(ing[j].pc = "locked" /\ ing[j].doc = job.doc)
             \/ /\ job.pc = "done"
                /\ \E v \in Existing(job.doc, job.snapshot) : v.number = job.number
      PROVE  DocInv'
  BY <1>3, QuietStepInv
<1>4. ASSUME source' = source, commits' = commits + 1,
             NEW i \in Ingester, NEW chunks \in SUBSET ChunkId,
             ing[i].pc = "locked", ing[i] \in Job,
             PlaceFree(ing[i].doc, ing[i].number, ing[i].snapshot),
             versions' = versions \cup {Row(i, chunks)},
             ing' = [ing EXCEPT ![i] = [ing[i] EXCEPT !.pc = "done", !.outcome = "created"]]
      PROVE  DocInv'
  BY <1>4, InsertStepInv
<1>5. QED
  BY <1>0, <1>1, <1>2, <1>3, <1>4, StepCases

LEMMA DocSpecInv == DocSpec => []DocInv
<1>1. DocInit => DocInv
  BY DocInitInv
<1>2. DocInv /\ [DocNext]_docVars => DocInv'
  BY DocNextInv
<1>3. QED
  BY <1>1, <1>2, PTL DEF DocSpec

\* Every variable of the document repository keeps its type.
THEOREM DocumentTypeCorrect == DocSpec => []DocTypeOK
<1>1. DocInv => DocTypeOK
  BY DEF DocInv
<1>2. QED
  BY <1>1, DocSpecInv, PTL

\* Version numbers are 1, 2, 3 ... per document, without a gap or a double.
THEOREM VersionsAreNumbered == DocSpec => []NumbersAreDense
<1>1. DocInv => NumbersAreDense
  BY LatestIsNat DEF DocInv, OneOfEach, NumbersAreDense
<1>2. QED
  BY <1>1, DocSpecInv, PTL

\* A writer that holds the lock of its document never meets a unique constraint.
THEOREM NoWriterFails == DocSpec => []WritersNeverCollide
<1>1. DocInv => WritersNeverCollide
  <2> SUFFICES ASSUME DocInv, NEW i \in Ingester, ing[i].pc = "locked",
                      NEW v \in VersionsOf(ing[i].doc)
               PROVE  v.number # ing[i].number /\ v.snapshot # ing[i].snapshot
    BY DEF WritersNeverCollide, PlaceFree
  <2>1. ing[i] \in Job /\ ing[i].doc \in Document
    BY JobType DEF DocInv, Job
  <2>2. v.number \in 1 .. LatestNumber(ing[i].doc) /\ LatestNumber(ing[i].doc) \in Nat
    BY <2>1, LatestIsNat DEF DocInv, Numbers
  <2>3. ing[i].number = LatestNumber(ing[i].doc) + 1
        /\ Existing(ing[i].doc, ing[i].snapshot) = {}
    BY <2>1 DEF DocInv, HolderIsNext, Job
  <2>4. QED
    BY <2>2, <2>3 DEF Existing, VersionsOf
<1>2. QED
  BY <1>1, DocSpecInv, PTL

\* An ingestion returns the version that holds the snapshot it fetched.
THEOREM ResultsAreTrue == DocSpec => []ResultNamesItsVersion
<1>1. DocInv => ResultNamesItsVersion
  BY DEF DocInv
<1>2. QED
  BY <1>1, DocSpecInv, PTL

-------------------------------------------------------------------------------
(***************************************************************************)
(* The tables implement the log                                            *)
(***************************************************************************)
Places == {{s} : s \in Snapshot}

\* The log of d is as long as its run of numbers and holds one snapshot at each place.
Shaped(d) ==
    /\ DocumentLogOf(d) \in Seq(Places)
    /\ Len(DocumentLogOf(d)) = LatestNumber(d)
    /\ LatestNumber(d) \in Nat
    /\ \A n \in 1 .. LatestNumber(d) :
         \E v \in versions : v.doc = d /\ v.number = n /\ DocumentLogOf(d)[n] = {v.snapshot}

AllShaped == \A d \in Document : Shaped(d)

LEMMA LogShape == DocInv => AllShaped
<1> SUFFICES ASSUME DocInv, NEW d \in Document PROVE Shaped(d)
  BY DEF AllShaped
<1>1. PICK k \in Nat : k = LatestNumber(d) /\ Numbers(d) = 1 .. k
  BY LatestIsNat DEF DocInv
<1>2. ASSUME NEW n \in 1 .. k
      PROVE  \E v \in versions :
                /\ v.doc = d /\ v.number = n /\ v.snapshot \in Snapshot
                /\ {u.snapshot : u \in {w \in VersionsOf(d) : w.number = n}} = {v.snapshot}
  <2>1. n \in Numbers(d)
    BY <1>1
  <2>2. PICK v \in VersionsOf(d) : v.number = n
    BY <2>1 DEF Numbers
  <2>3. {w \in VersionsOf(d) : w.number = n} = {v}
    BY <2>2 DEF VersionsOf, DocInv, OneOfEach
  <2>4. v \in versions /\ v.doc = d /\ v.snapshot \in Snapshot
    BY <2>2 DEF VersionsOf, DocInv, DocTypeOK, Version
  <2>5. {u.snapshot : u \in {w \in VersionsOf(d) : w.number = n}} = {v.snapshot}
    BY <2>3
  <2>6. QED
    BY <2>2, <2>4, <2>5
<1>3. DocumentLogOf(d) = [n \in 1 .. k |->
                            {u.snapshot : u \in {w \in VersionsOf(d) : w.number = n}}]
  BY <1>1 DEF DocumentLogOf
<1>4. \A n \in 1 .. k : {u.snapshot : u \in {w \in VersionsOf(d) : w.number = n}} \in Places
  BY <1>2 DEF Places
<1>5. DocumentLogOf(d) \in [1 .. k -> Places]
  BY <1>3, <1>4
<1>6. DocumentLogOf(d) \in Seq(Places) /\ Len(DocumentLogOf(d)) = k
  BY <1>5
<1>7. ASSUME NEW n \in 1 .. k
      PROVE  \E v \in versions : v.doc = d /\ v.number = n /\ DocumentLogOf(d)[n] = {v.snapshot}
  <2>1. DocumentLogOf(d)[n] = {u.snapshot : u \in {w \in VersionsOf(d) : w.number = n}}
    BY <1>3
  <2>2. QED
    BY <1>2, <2>1
<1>8. QED
  BY <1>1, <1>6, <1>7 DEF Shaped

LEMMA InitLog == DocInit => Log!LogInit
<1> SUFFICES ASSUME DocInit, NEW d \in Document PROVE DocumentLogOf(d) = <<>>
  BY DEF Log!LogInit
<1>1. Numbers(d) = 1 .. 0
  BY DEF DocInit, Numbers, VersionsOf
<1>2. LatestNumber(d) = 0
  BY <1>1, LatestOfRun
<1>3. QED
  BY <1>2 DEF DocumentLogOf

LEMMA QuietStepLog ==
  ASSUME versions' = versions
  PROVE  UNCHANGED [d \in Document |-> DocumentLogOf(d)]
  BY DEF DocumentLogOf, LatestNumber, Numbers, VersionsOf

LEMMA InsertStepLog ==
  ASSUME DocInv, DocInv', NEW i \in Ingester, NEW chunks \in SUBSET ChunkId,
         ing[i].pc = "locked", ing[i] \in Job,
         PlaceFree(ing[i].doc, ing[i].number, ing[i].snapshot),
         versions' = versions \cup {Row(i, chunks)}
  PROVE  Log!LogNext
<1> DEFINE p == {ing[i].snapshot}
           log == [d \in Document |-> DocumentLogOf(d)]
<1>1. PICK d \in Document : d = ing[i].doc
  BY DEF Job
<1>2. p \in Places
  BY DEF Places, Job
<1>3. /\ DocumentLogOf(d) \in Seq(Places)
      /\ Len(DocumentLogOf(d)) = LatestNumber(d) /\ LatestNumber(d) \in Nat
      /\ \A n \in 1 .. LatestNumber(d) :
           \E v \in versions : v.doc = d /\ v.number = n /\ DocumentLogOf(d)[n] = {v.snapshot}
  BY LogShape DEF AllShaped, Shaped
<1>4. /\ DocumentLogOf(d)' \in Seq(Places)
      /\ Len(DocumentLogOf(d)') = LatestNumber(d)' /\ LatestNumber(d)' \in Nat
      /\ \A n \in 1 .. LatestNumber(d)' :
           \E v \in versions' : v.doc = d /\ v.number = n /\ DocumentLogOf(d)'[n] = {v.snapshot}
  <2>1. AllShaped'
    BY LogShape, PTL
  <2>2. QED
    BY <2>1 DEF AllShaped, Shaped
<1>5. LatestNumber(d) = ing[i].number - 1 /\ LatestNumber(d)' = ing[i].number
      /\ ing[i].number \in Nat \ {0}
  <2>1. Numbers(d)' = 1 .. ing[i].number /\ Numbers(d) = 1 .. ing[i].number - 1
        /\ ing[i].number \in Nat \ {0}
    BY <1>1, InsertNumbers
  <2>2. LatestNumber(d) = ing[i].number - 1
    <3>1. PICK k \in Nat : k = ing[i].number - 1
      BY <2>1
    <3>2. QED
      BY <2>1, <3>1, LatestOfRun
  <2>3. LatestNumber(d)' = Max((1 .. ing[i].number) \cup {0})
    BY <2>1 DEF LatestNumber
  <2>4. QED
    BY <2>1, <2>2, <2>3, MaxOfRun
<1>6. \A n \in DOMAIN DocumentLogOf(d) : DocumentLogOf(d)[n] # p
  <2>1. DOMAIN DocumentLogOf(d) = 1 .. LatestNumber(d)
    BY DEF DocumentLogOf
  <2>2. \A v \in versions : v.doc = d => v.snapshot # ing[i].snapshot
    BY <1>1 DEF PlaceFree, VersionsOf
  <2>3. ASSUME NEW n \in 1 .. LatestNumber(d) PROVE DocumentLogOf(d)[n] # p
    <3>1. PICK v \in versions : v.doc = d /\ DocumentLogOf(d)[n] = {v.snapshot}
      BY <1>3
    <3>2. QED
      BY <2>2, <3>1
  <2>4. QED
    BY <2>1, <2>3
<1>7. DocumentLogOf(d)' = Append(DocumentLogOf(d), p)
  <2> DEFINE old == DocumentLogOf(d)
             new == DocumentLogOf(d)'
  <2>1. /\ Append(old, p) \in Seq(Places) /\ Len(Append(old, p)) = Len(old) + 1
        /\ \A n \in 1 .. Len(old) : Append(old, p)[n] = old[n]
        /\ Append(old, p)[Len(old) + 1] = p
    BY <1>2, <1>3, AppendProperties
  <2>2. Len(new) = Len(Append(old, p)) /\ Len(new) = ing[i].number
        /\ Len(old) = ing[i].number - 1
    BY <1>3, <1>4, <1>5, <2>1
  <2>3. ASSUME NEW n \in 1 .. Len(new) PROVE new[n] = Append(old, p)[n]
    <3>1. PICK v \in versions' : v.doc = d /\ v.number = n /\ new[n] = {v.snapshot}
      BY <1>4, <1>5, <2>2, <2>3
    <3>2. CASE n = ing[i].number
      <4>1. Row(i, chunks) \in versions' /\ Row(i, chunks).doc = d
            /\ Row(i, chunks).number = n /\ Row(i, chunks).snapshot = ing[i].snapshot
        BY <1>1, <3>2 DEF Row
      <4>2. v = Row(i, chunks)
        BY <3>1, <4>1 DEF DocInv, OneOfEach
      <4>3. new[n] = p
        BY <3>1, <4>1, <4>2
      <4>4. Append(old, p)[n] = p
        BY <2>1, <2>2, <3>2, <1>5
      <4>5. QED
        BY <4>3, <4>4
    <3>3. CASE n # ing[i].number
      <4>1. n \in 1 .. Len(old) /\ n \in 1 .. LatestNumber(d)
        BY <1>5, <2>2, <2>3, <3>3
      <4>2. PICK w \in versions : w.doc = d /\ w.number = n /\ old[n] = {w.snapshot}
        BY <1>3, <4>1
      <4>3. w = v
        BY <3>1, <4>2 DEF DocInv, OneOfEach
      <4>4. QED
        BY <2>1, <3>1, <4>1, <4>2, <4>3
    <3>4. QED
      BY <3>2, <3>3
  <2>4. QED
    BY <1>4, <2>1, <2>2, <2>3, SeqEqual
<1>8. \A e \in Document \ {d} : DocumentLogOf(e)' = DocumentLogOf(e)
  <2> SUFFICES ASSUME NEW e \in Document, e # d PROVE DocumentLogOf(e)' = DocumentLogOf(e)
    OBVIOUS
  <2>1. VersionsOf(e)' = VersionsOf(e)
    BY <1>1 DEF VersionsOf, Row
  <2>2. Numbers(e)' = Numbers(e)
    BY <2>1 DEF Numbers
  <2>3. LatestNumber(e)' = LatestNumber(e)
    BY <2>2 DEF LatestNumber
  <2>4. QED
    BY <2>1, <2>3 DEF DocumentLogOf
<1>9. log' = [log EXCEPT ![d] = Append(@, p)]
  BY <1>7, <1>8
<1>10. Log!Publish(d, p)
  BY <1>6, <1>9 DEF Log!Publish
<1>11. QED
  BY <1>2, <1>10 DEF Log!LogNext, Places

\* A step of the repository appends to the log of one document or does not show in it.
LEMMA StepShowsInLog ==
  ASSUME DocInv, DocInv', [DocNext]_docVars
  PROVE  [Log!LogNext]_[d \in Document |-> DocumentLogOf(d)]
<1>1. DocTypeOK /\ RunOfNumbers
  BY DEF DocInv
<1>2. CASE versions' = versions
  BY <1>2, QuietStepLog
<1>3. ASSUME NEW i \in Ingester, NEW chunks \in SUBSET ChunkId,
             ing[i].pc = "locked", ing[i] \in Job,
             PlaceFree(ing[i].doc, ing[i].number, ing[i].snapshot),
             versions' = versions \cup {Row(i, chunks)}
      PROVE  Log!LogNext
  BY <1>3, InsertStepLog
<1>4. QED
  BY <1>1, <1>2, <1>3, StepCases

\* Commits append snapshots to the logs of documents; nothing else shows.
THEOREM TablesImplementLog == DocSpec => ImplementsDocumentLog
<1>1. DocInit => Log!LogInit
  BY InitLog
<1>2. DocInv /\ DocInv' /\ [DocNext]_docVars
        => [Log!LogNext]_[d \in Document |-> DocumentLogOf(d)]
  BY StepShowsInLog
<1>3. QED
  BY <1>1, <1>2, DocSpecInv, PTL DEF DocSpec, ImplementsDocumentLog, Log!LogSpec

===============================================================================
