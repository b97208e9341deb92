----------------------------- MODULE M2Evaluation -----------------------------
(***************************************************************************)
(* The comparison of two retrievals (scripts/evaluate_m2_retrieval.py):    *)
(* every question goes first to the reranked semantic retrieval (S0) and   *)
(* then to the one with metadata repair (S1). Each stored run is resolved  *)
(* citation by citation and removed again; what is expected is looked up   *)
(* when all questions have been asked. The gate compares the two.          *)
(*                                                                         *)
(* A document stands for its number. Latencies, strategies and the layout  *)
(* of the reports are left out.                                            *)
(***************************************************************************)
EXTENDS Integers, Sequences, FiniteSets, SequencesExt, FiniteSetsExt

CONSTANTS
  Parents, ControlsB, ControlsC, \* the cases of sets A, B and C, in order
  ParentOf,          \* the parent a case of set B rephrases
  Expected,          \* per parent: expected_numbers
  NumberSource,      \* documents, and their sources
  Findable,          \* per case: what a retrieval may cite
  IdentityControls,  \* controls whose number is made up or ambiguous
  Limits,            \* where the recall is measured, in order: 8, 16, 20, 50
  Inventories,       \* what the catalog may have indexed
  MaxFaults          \* bound: failures and changes of the catalog

Modes == <<"S0", "S1">>
CasesInOrder == Parents \o ControlsB \o ControlsC
Work == [i \in 1 .. 2 * Len(CasesInOrder) |->
           IF i <= Len(CasesInOrder) THEN [mode |-> "S0", case |-> CasesInOrder[i]]
           ELSE [mode |-> "S1", case |-> CasesInOrder[i - Len(CasesInOrder)]]]
InA == ToSet(Parents)
InB == ToSet(ControlsB)
InC == ToSet(ControlsC)

VARIABLES
  stage,     \* the statement reached in run() or execute_case()
  position,  \* index in Work of the question under way
  cited,     \* the result of its retrieval, if there is one: at most one set
  identities,\* exact-identity candidates its diagnostic counts
  failing,   \* failure_code
  observed,  \* observations
  left,      \* this tool's runs in the database
  catalog,   \* documents the catalog has indexed
  oracle,    \* what it had when it was read
  recall,    \* per parent: the recall diagnostics
  comparison,\* the report, once it is written
  exitCode,
  faults

m2Vars == <<stage, position, cited, identities, failing, observed, left, catalog, oracle, recall,
            comparison, exitCode, faults>>

Now == Work[position]
Fault == faults < MaxFaults /\ faults' = faults + 1

-------------------------------------------------------------------------------
(* Scores, taken when every question has been asked *)

Of(mode, cases) == {o \in observed : o.mode = mode /\ o.case \in cases}

SetAScore(o) ==
  LET expected == Expected[o.case] \cap oracle
      sources == {NumberSource[d] : d \in expected}
  IN  [case |-> o.case, mode |-> o.mode, expected |-> expected,
       blockers |-> Expected[o.case] \ oracle, hits |-> expected \cap o.documents,
       unexpected |-> Cardinality(o.documents \ Expected[o.case]),
       cited |-> Cardinality(o.documents),
       sourceHits |-> Cardinality({NumberSource[d] : d \in o.documents} \cap sources),
       sources |-> Cardinality(sources)]

\* A rephrased question against its parent, asked in the same mode.
SetBScore(o) ==
  LET parent == CHOOSE p \in observed : p.mode = o.mode /\ p.case = ParentOf[o.case]
      shared == parent.documents \cap o.documents
  IN  [case |-> o.case, mode |-> o.mode, parentEvidence |-> parent.evidence,
       evidence |-> o.evidence, overlap |-> Cardinality(shared),
       all |-> Cardinality(parent.documents \cup o.documents),
       stability |-> IF parent.documents = {} \/ o.documents = {} THEN "NO_EVIDENCE"
                     ELSE IF parent.documents = o.documents THEN "EXACT"
                     ELSE IF shared # {} THEN "PARTIAL" ELSE "DISJOINT"]

SetCInvariant(o) ==
  [case |-> o.case, mode |-> o.mode,
   failures |-> (IF o.failure = "" THEN {} ELSE {o.failure})
                  \cup (IF o.resolvable THEN {} ELSE {"UNRESOLVABLE_CITATION"})
                  \cup (IF o.case \in IdentityControls /\ o.identities > 0
                        THEN {"ARBITRARY_IDENTITY_CANDIDATE"} ELSE {})]

\* The share of parents an expected document of which is among the first candidates.
RecallRate(limit) ==
  Cardinality({p \in InA : recall[p].first # 0 /\ recall[p].first <= limit})
MergedRate == Cardinality({p \in InA : recall[p].merged})

SummaryMetrics(mode) ==
  LET a == {SetAScore(o) : o \in Of(mode, InA)}
      b == {SetBScore(o) : o \in Of(mode, InB)}
      c == {SetCInvariant(o) : o \in Of(mode, InC)}
      hits(row) == Cardinality(row.hits)
      denominator(row) == Cardinality(row.expected)
      unexpected(row) == row.unexpected
      identitiesCited(row) == row.cited
      sourceHits(row) == row.sourceHits
      sources(row) == row.sources
      failures(row) == Cardinality(row.failures)
  IN  [hits |-> MapThenSumSet(hits, a), denominator |-> MapThenSumSet(denominator, a),
       caseHits |-> Cardinality({row \in a : row.hits # {}}),
       unexpected |-> MapThenSumSet(unexpected, a), cited |-> MapThenSumSet(identitiesCited, a),
       sourceHits |-> MapThenSumSet(sourceHits, a), sources |-> MapThenSumSet(sources, a),
       bothEvidence |-> Cardinality({row \in b : row.stability # "NO_EVIDENCE"}),
       evidence |-> Cardinality({row \in b : row.evidence}),
       failures |-> MapThenSumSet(failures, c),
       recall |-> IF mode = "S0" THEN [limit \in ToSet(Limits) |-> RecallRate(limit)]
                  ELSE [limit \in {16} |-> MergedRate]]

\* Rates are compared as fractions; a mode that cites nothing has rate 0.
RateNotAbove(new, old) ==
  IF new.cited = 0 THEN TRUE
  ELSE IF old.cited = 0 THEN new.unexpected = 0
  ELSE new.unexpected * old.cited <= old.unexpected * new.cited

MechanicalGate ==
  LET s0 == SummaryMetrics("S0")
      s1 == SummaryMetrics("S1")
  IN  [improves |-> s1.hits > s0.hits, notWorse |-> RateNotAbove(s1, s0),
       noFailures |-> s1.failures = 0,
       pass |-> s1.hits > s0.hits /\ RateNotAbove(s1, s0) /\ s1.failures = 0]

Comparison ==
  [summary |-> [mode \in ToSet(Modes) |-> SummaryMetrics(mode)], gate |-> MechanicalGate,
   setA |-> {SetAScore(o) : o \in {x \in observed : x.case \in InA}},
   setB |-> {SetBScore(o) : o \in {x \in observed : x.case \in InB}},
   setC |-> {SetCInvariant(o) : o \in {x \in observed : x.case \in InC}},
   observations |-> observed]

-------------------------------------------------------------------------------
(* The program *)

M2Init ==
  /\ stage = "parse" /\ position = 1
  /\ cited = {} /\ identities = 0 /\ failing = ""
  /\ observed = {} /\ left = {}
  /\ catalog \in Inventories /\ oracle = {}
  /\ recall = [p \in InA |-> [first |-> 0, merged |-> FALSE]]
  /\ comparison = {} /\ exitCode = "running" /\ faults = 0

caseVars == <<position, cited, identities, failing, observed, left>>
comparisonVars == <<oracle, recall, comparison>>

\* The workbook must hold every parent with an expected document, the set its controls.
ReadWorkbook ==
  /\ stage = "parse"
  /\ \/ stage' = "retrieve" /\ UNCHANGED exitCode
     \/ stage' = "exited" /\ exitCode' = "2"
  /\ UNCHANGED <<caseVars, comparisonVars, catalog, faults>>

Observation(failure, resolvable, cleanup, documents) ==
  [mode |-> Now.mode, case |-> Now.case, failure |-> failure, resolvable |-> resolvable,
   cleanup |-> cleanup, documents |-> IF resolvable THEN documents ELSE {},
   evidence |-> documents # {}, identities |-> identities]

\* The next question, or what follows the last.
Observe(o) ==
  /\ observed' = observed \cup {o}
  /\ cited' = {} /\ identities' = 0 /\ failing' = ""
  /\ position' = IF position = Len(Work) THEN position ELSE position + 1
  /\ stage' = IF position = Len(Work) THEN "oracle" ELSE "retrieve"

\* retrieve_and_persist stores a run; when it raises, it may have stored it, but its id is
\* not known. Only S1 looks up numbers.
Retrieve ==
  /\ stage = "retrieve"
  /\ \/ /\ \E documents \in Findable[Now.case] : cited' = {documents}
        /\ identities' \in IF Now.mode = "S1" /\ Now.case \in IdentityControls THEN {0, 1} ELSE {0}
        /\ left' = left \cup {Now}
        /\ stage' = "resolve" /\ UNCHANGED <<faults, failing, observed, position>>
     \/ /\ Fault /\ left' \in {left, left \cup {Now}}
        /\ Observe(Observation("SAFE_EXCEPTION", FALSE, "NOT_NEEDED", {}))
  /\ UNCHANGED <<comparisonVars, catalog, exitCode>>

\* Every citation is resolved by its own id and the run's.
Resolve ==
  /\ stage = "resolve" /\ stage' = "clean"
  /\ \/ UNCHANGED <<failing, faults>>
     \/ UNION cited # {} /\ Fault /\ failing' = "SAFE_EXCEPTION"
  /\ UNCHANGED <<position, cited, identities, observed, left, comparisonVars, catalog, exitCode>>

\* Mutation: a failed removal is left out of the observation.
CleanQuietly ==
  /\ stage = "clean"
  /\ \/ /\ left' = left \ {Now} /\ UNCHANGED faults
        /\ Observe(Observation(failing, failing = "", "COMPLETED", UNION cited))
     \/ /\ Fault /\ left' \in {left, left \ {Now}}
        /\ Observe(Observation(failing, failing = "", "FAILED_SAFE", UNION cited))
  /\ UNCHANGED <<comparisonVars, catalog, exitCode>>

\* In the finally clause: the run and its citations, in one transaction.
Clean ==
  /\ stage = "clean"
  /\ \/ /\ left' = left \ {Now} /\ UNCHANGED faults
        /\ Observe(Observation(failing, failing = "", "COMPLETED", UNION cited))
     \/ /\ Fault /\ left' \in {left, left \ {Now}}
        /\ Observe(Observation(IF failing = "" THEN "CLEANUP_FAILED" ELSE failing, failing = "",
                               "FAILED_SAFE", UNION cited))
  /\ UNCHANGED <<comparisonVars, catalog, exitCode>>

Aborts == Fault /\ stage' = "exited" /\ exitCode' = "2"

ReadOracle ==
  /\ stage = "oracle"
  /\ \/ /\ oracle' = (UNION {Expected[p] : p \in InA}) \cap catalog
        /\ stage' = "recall" /\ UNCHANGED <<exitCode, faults>>
     \/ Aborts /\ UNCHANGED oracle
  /\ UNCHANGED <<caseVars, recall, comparison, catalog>>

\* A parent whose reading fails keeps what was measured before it failed.
ReadRecall ==
  /\ stage = "recall" /\ stage' = "report"
  /\ recall' \in [InA -> [first : {0} \cup ToSet(Limits), merged : BOOLEAN]]
  /\ UNCHANGED <<caseVars, oracle, comparison, catalog, exitCode, faults>>

WriteReports ==
  /\ stage = "report"
  /\ \/ comparison' = {Comparison} /\ stage' = "exited" /\ exitCode' = "0" /\ UNCHANGED faults
     \/ Aborts /\ comparison' \in {{}, {Comparison}}
  /\ UNCHANGED <<caseVars, oracle, recall, catalog>>

\* Ctrl-C: a run whose id is known is still removed, unless its removal is what is
\* interrupted; nothing is reported.
Cancelled ==
  /\ stage \in {"retrieve", "resolve", "clean", "oracle", "recall"}
  /\ left' \in CASE stage = "retrieve" -> {left, left \cup {Now}}
                 [] stage = "resolve" -> {left \ {Now}}
                 [] stage = "clean" -> {left, left \ {Now}}
                 [] OTHER -> {left}
  /\ stage' = "exited" /\ exitCode' = "interrupted"
  /\ UNCHANGED <<position, cited, identities, failing, observed, comparisonVars, catalog, faults>>

\* The corpus is ingested while its retrievals are compared.
CatalogMoves ==
  /\ stage \in {"retrieve", "oracle"} /\ Fault
  /\ catalog' \in Inventories \ {catalog}
  /\ UNCHANGED <<stage, caseVars, comparisonVars, exitCode>>

M2Next ==
  \/ ReadWorkbook \/ Retrieve \/ Resolve \/ Clean \/ ReadOracle \/ ReadRecall \/ WriteReports
  \/ Cancelled \/ CatalogMoves

M2Spec == M2Init /\ [][M2Next]_m2Vars

-------------------------------------------------------------------------------
(* Properties *)

\* A run that stays in the database stays with a reason: its question is under way, or its
\* observation carries a failure code, or the tool was interrupted while it was stored; and
\* a gate that passes has seen no such failure for any control of S1 (execute_case,
\* check_set_c_invariants, mechanical_gate).
LeftoversAreReported ==
  /\ exitCode # "interrupted" =>
       \A run \in left \ (IF stage \in {"resolve", "clean"} THEN {Now} ELSE {}) :
         \E o \in observed : o.mode = run.mode /\ o.case = run.case /\ o.failure # ""
  /\ \A r \in comparison : r.gate.pass =>
       /\ \A run \in left : ~(run.mode = "S1" /\ run.case \in InC)
       /\ \A o \in Of("S1", InC) : o.cleanup = "COMPLETED" /\ o.resolvable

===============================================================================
