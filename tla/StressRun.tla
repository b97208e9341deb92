------------------------------- MODULE StressRun -------------------------------
(***************************************************************************)
(* The stress run (scripts/run_legal_chatbot_stress.py): fixed questions   *)
(* are put to the chat, at rising concurrency with a mechanical provider   *)
(* and then one by one with the real one; every retrieval leaves a run in  *)
(* the application's database, which is read for the report and removed at *)
(* the end, beside clients whose runs must stay.                           *)
(*                                                                         *)
(* A call goes through the ports the report counts. Any of them may fail;  *)
(* durations, texts and the layout of the workbook are left out. Bounds:   *)
(* one interruption, never while a reranker works (the repository turns    *)
(* that cancellation into a fallback), and no second one while the tool    *)
(* cleans up.                                                              *)
(***************************************************************************)
EXTENDS Naturals, Sequences, FiniteSets

CONSTANTS
  Cases,           \* CASE_IDS, in order
  SourceOf,        \* the documents that may be cited, with their sources
  ExpectedDocs,    \* per case: expected_documents
  ExpectedSources, \* per case: expected_sources
  Citable,         \* per case: what its retrieval may cite, none included
  Rounds,          \* args.mechanical_rounds
  Arguments,       \* the other arguments tried, mechanical_concurrency among them
  ForeignRun       \* runs of other clients

\* nargs="+", and main() ends at once when a level is below 1.
ASSUME StressAssumption ==
  \A a \in Arguments :
    /\ a.levels \in Seq(Nat \ {0}) /\ a.levels # <<>>
    /\ {a.skipReal, a.planner, a.rerank} \subseteq BOOLEAN

Case == {Cases[i] : i \in DOMAIN Cases}
Doc == DOMAIN SourceOf
Port == {"plan", "embed", "rerank", "answer"}

VARIABLES
  args,       \* the arguments of this run
  pc,         \* the statement of run() reached
  level,      \* index of the mechanical level under way
  phase,      \* the calls of the current lane that are not over, and where they are
  gathered,   \* rows of the current lane
  mechanical, real, \* rows of the lanes that are over
  runs,       \* the tool's runs in the database, with their citations
  foreign,    \* the other clients' runs they have not removed
  others,     \* the other clients' runs in the database
  captured,   \* run_ids
  lost,       \* runs whose id no result carried
  count,      \* the call counters
  before,     \* planner_before, answer_before
  delta,      \* planner_by_case, answer_by_case
  notes,      \* the records kept per case
  api, coverage, cleanup, infrastructure, report, exit

stressVars == <<args, pc, level, phase, gathered, mechanical, real, runs, foreign, others,
                captured, lost, count, before, delta, notes, api, coverage, cleanup,
                infrastructure, report, exit>>
laneVars == <<level, phase, gathered, mechanical, real, runs, captured, lost, count, before,
              delta, notes>>
resultVars == <<api, coverage, cleanup, infrastructure, report, exit>>
clientVars == <<args, foreign, others>>

-------------------------------------------------------------------------------
(* Calls and rows *)

MechanicalCalls(i) ==
  [lane : {"MECHANICAL"}, level : {i}, round : 1 .. Rounds, case : Case]
RealCalls == [lane : {"REAL_SHINE"}, level : {1}, round : {1}, case : Case]

\* Which ports a call meets before the store: the planner is off in the mechanical lane.
Meets(c, p) ==
  CASE p = "plan" -> args.planner /\ c.lane = "REAL_SHINE"
    [] p = "embed" -> args.mode # "off"
    [] OTHER -> args.rerank

\* Where a call goes from p: plan, embed, rerank, as far as it meets them, then store.
After(c, p) ==
  IF p = "waiting" /\ Meets(c, "plan") THEN "plan"
  ELSE IF p \in {"waiting", "plan"} /\ Meets(c, "embed") THEN "embed"
  ELSE IF p # "rerank" /\ Meets(c, "rerank") THEN "rerank" ELSE "store"

\* The mechanical lane's provider is not behind a counting proxy.
Counted(c, p) == p \in {"embed", "rerank"} \/ (p \in Port /\ c.lane = "REAL_SHINE")

Called(n, c, p) == IF Counted(c, p) THEN [n EXCEPT ![p].calls = @ + 1] ELSE n
Ended(n, c, p, ok) ==
  IF ~Counted(c, p) THEN n
  ELSE IF ok THEN [n EXCEPT ![p].successes = @ + 1] ELSE [n EXCEPT ![p].failures = @ + 1]

CallRow(c, outcome, run, provider, class) ==
  [call |-> c, outcome |-> outcome, run |-> run, provider |-> provider, class |-> class,
   present |-> FALSE, cites |-> {}]

\* provider_output_classes holds real cases only.
ClassOf(c) == IF c.lane = "REAL_SHINE" THEN notes.class[c.case] ELSE "NOT_APPLICABLE"

Note(c, kind, value) ==
  IF c.lane = "REAL_SHINE" THEN [notes EXCEPT ![kind][c.case] = value] ELSE notes

CounterDelta(a, b) ==
  [calls |-> b.calls - a.calls, successes |-> b.successes - a.successes,
   failures |-> b.failures - a.failures]

-------------------------------------------------------------------------------
(* The lanes *)

Running == {c \in DOMAIN phase : phase[c] # "waiting"}

\* The order in which a lane's calls are made: round by round, case by case.
Precedes(d, c) ==
  \/ d.round < c.round
  \/ d.round = c.round /\ \E i, j \in DOMAIN Cases : i < j /\ Cases[i] = d.case /\ Cases[j] = c.case

\* The semaphore of a mechanical level is fair; the real lane has one call at a time.
MayStart(c) ==
  /\ Cardinality(Running) < (IF pc = "mechanical" THEN args.levels[level] ELSE 1)
  /\ \A d \in DOMAIN phase \ Running : ~Precedes(d, c)

Snapshot(c, n) ==
  IF c.lane = "REAL_SHINE" THEN [p \in {"plan", "answer"} |-> n[p]] ELSE before

\* What the providers were asked since the case began is charged to it.
Charge(c, n) ==
  IF c.lane = "REAL_SHINE"
  THEN [delta EXCEPT ![c.case] =
          [p \in {"plan", "answer"} |-> CounterDelta(before[p], n[p])]]
  ELSE delta

\* Mutation: only the runs of answered questions are remembered.
FinishAnswered(c, row, n) ==
  /\ phase' = [d \in DOMAIN phase \ {c} |-> phase[d]]
  /\ gathered' = gathered \cup {row}
  /\ captured' = captured \cup (IF row.outcome = "ANSWERED" THEN row.run ELSE {})
  /\ delta' = Charge(c, n)

Finish(c, row, n) ==
  /\ phase' = [d \in DOMAIN phase \ {c} |-> phase[d]]
  /\ gathered' = gathered \cup {row}
  /\ captured' = captured \cup row.run
  /\ delta' = Charge(c, n)

Proceed(c, p) ==
  /\ phase' = [phase EXCEPT ![c] = p]
  /\ UNCHANGED <<gathered, captured, delta>>

\* A call takes its place, or the chat refuses to take the question at all.
StartCall(c) ==
  /\ pc \in {"mechanical", "real"} /\ phase[c] = "waiting" /\ MayStart(c)
  /\ \/ /\ count' = Called(count, c, After(c, "waiting"))
        /\ before' = Snapshot(c, count)
        /\ Proceed(c, After(c, "waiting"))
     \/ /\ before' = Snapshot(c, count)
        /\ count' = count
        /\ phase' = [d \in DOMAIN phase \ {c} |-> phase[d]]
        /\ gathered' = gathered \cup
             {CallRow(c, "SAFE_EXCEPTION", {}, FALSE, "NOT_APPLICABLE")}
        /\ delta' = IF c.lane = "REAL_SHINE"
                    THEN [delta EXCEPT ![c.case] =
                            [p \in {"plan", "answer"} |-> CounterDelta(count[p], count[p])]]
                    ELSE delta
        /\ UNCHANGED captured
  /\ UNCHANGED <<pc, level, mechanical, real, runs, lost, notes, clientVars, resultVars>>

\* The planner's provider answers or fails; either way the chat goes on.
PlanReturns(c) ==
  /\ pc = "real" /\ phase[c] = "plan"
  /\ \E ok \in BOOLEAN : count' = Called(Ended(count, c, "plan", ok), c, After(c, "plan"))
  /\ Proceed(c, After(c, "plan"))
  /\ UNCHANGED <<pc, level, mechanical, real, runs, lost, before, notes, clientVars, resultVars>>

\* Without the query's vector a semantic retrieval skips the reranker and stores a run
\* that cites nothing, and so it does when the corpus lacks vectors or nothing is near;
\* a hybrid one looks for words instead.
EmbedReturns(c) ==
  /\ pc \in {"mechanical", "real"} /\ phase[c] = "embed"
  /\ \E ok \in BOOLEAN :
       \E p \in (IF ok \/ args.mode = "hybrid" THEN {After(c, "embed")} ELSE {})
                  \cup (IF args.mode = "semantic" THEN {"empty"} ELSE {}) :
         /\ count' = Called(Ended(count, c, "embed", ok), c, p)
         /\ Proceed(c, p)
  /\ UNCHANGED <<pc, level, mechanical, real, runs, lost, before, notes, clientVars, resultVars>>

\* A reranker that fails is a fallback; the repository's observer keeps the outcome.
RerankReturns(c) ==
  /\ pc \in {"mechanical", "real"} /\ phase[c] = "rerank"
  /\ \E ok \in BOOLEAN :
       /\ count' = Called(Ended(count, c, "rerank", ok), c, After(c, "rerank"))
       /\ notes' = Note(c, "rerank", IF ok THEN "SUCCESS" ELSE "FALLBACK")
  /\ Proceed(c, After(c, "rerank"))
  /\ UNCHANGED <<pc, level, mechanical, real, runs, lost, before, clientVars, resultVars>>

Storable(c) == IF phase[c] = "empty" THEN {{}} ELSE Citable[c.case]

\* retrieve_and_persist fails, or commits and its answer is lost: then the chat's refusal
\* names no run. Or it is answered: the chat asks back when nothing is cited, refuses when
\* the evidence cannot be loaded, and else asks the provider.
StoreReturns(c) ==
  /\ pc \in {"mechanical", "real"} /\ phase[c] \in {"store", "empty"}
  /\ \/ /\ count' = count
        /\ Finish(c, CallRow(c, "REFUSAL", {}, FALSE, ClassOf(c)), count)
        /\ UNCHANGED <<runs, lost>>
     \/ \E cites \in Storable(c) :
          /\ runs' = runs \cup {[id |-> c, cites |-> cites]}
          /\ \/ /\ lost' = lost \cup {c}
                /\ count' = count
                /\ Finish(c, CallRow(c, "REFUSAL", {}, FALSE, ClassOf(c)), count)
             \/ /\ count' = count
                /\ LET outcome == IF cites = {} THEN "CLARIFICATION" ELSE "REFUSAL" IN
                   Finish(c, CallRow(c, outcome, {c}, FALSE, ClassOf(c)), count)
                /\ UNCHANGED lost
             \/ /\ cites # {}
                /\ count' = Called(count, c, "answer")
                /\ Proceed(c, "answer")
                /\ UNCHANGED lost
  /\ UNCHANGED <<pc, level, mechanical, real, before, notes, clientVars, resultVars>>

\* The provider answers, answers what the chat will not read, or fails.
AnswerReturns(c) ==
  /\ pc \in {"mechanical", "real"} /\ phase[c] = "answer"
  /\ \E result \in IF c.lane = "MECHANICAL" THEN {"text"} ELSE {"text", "oversized", "failure"} :
       LET n == Ended(count, c, "answer", result # "failure") IN
       /\ count' = n
       /\ IF result = "text"
          THEN Proceed(c, "parse") /\ UNCHANGED notes
          ELSE LET class == IF result = "oversized" THEN "RESPONSE_BYTES" ELSE ClassOf(c) IN
               /\ notes' = Note(c, "class", class)
               /\ Finish(c, CallRow(c, "REFUSAL", {c}, FALSE, class), n)
  /\ UNCHANGED <<pc, level, mechanical, real, runs, lost, before, clientVars, resultVars>>

ParseReturns(c) ==
  /\ pc \in {"mechanical", "real"} /\ phase[c] = "parse"
  /\ \E ok \in IF c.lane = "MECHANICAL" THEN {TRUE} ELSE BOOLEAN :
       LET class == IF c.lane = "MECHANICAL" THEN "NOT_APPLICABLE"
                    ELSE IF ok THEN "NONE" ELSE "UNKNOWN" IN
       /\ notes' = Note(c, "class", class)
       /\ Finish(c, CallRow(c, IF ok THEN "ANSWERED" ELSE "REFUSAL", {c}, ok, class), count)
  /\ UNCHANGED <<pc, level, mechanical, real, runs, lost, count, before, clientVars, resultVars>>

Waiting(calls) == [c \in calls |-> "waiting"]

\* A level's gather returns: the next level, then the real lane, then the probe.
EndLevel ==
  /\ pc = "mechanical" /\ phase = <<>>
  /\ mechanical' = mechanical \cup gathered
  /\ gathered' = {}
  /\ IF level < Len(args.levels)
     THEN level' = level + 1 /\ pc' = pc /\ phase' = Waiting(MechanicalCalls(level + 1))
     ELSE /\ level' = level
          /\ pc' = IF args.skipReal THEN "probe" ELSE "real"
          /\ phase' = IF args.skipReal THEN <<>> ELSE Waiting(RealCalls)
  /\ UNCHANGED <<real, runs, captured, lost, count, before, delta, notes, clientVars, resultVars>>

EndReal ==
  /\ pc = "real" /\ phase = <<>>
  /\ real' = gathered /\ gathered' = {} /\ pc' = "probe"
  /\ UNCHANGED <<level, phase, mechanical, runs, captured, lost, count, before, delta, notes,
                 clientVars, resultVars>>

-------------------------------------------------------------------------------
(* Evidence of the stored runs, and what the report makes of it *)

Rows == mechanical \cup real

\* The stored runs the rows name, read in one session before they are removed.
LoadedRuns == {r \in runs : \E row \in Rows : r.id \in row.run}

\* Mutation: only answered rows are given what their run stored.
AppliedToAnswers(rows) ==
  {IF row.outcome = "ANSWERED"
   THEN [row EXCEPT !.present = TRUE,
                    !.cites = (CHOOSE r \in LoadedRuns : r.id \in row.run).cites]
   ELSE row : row \in rows}

\* What was stored says what was cited, whatever the chat made of it in the end.
Applied(rows) ==
  {IF \E r \in LoadedRuns : r.id \in row.run
   THEN [row EXCEPT !.present = TRUE,
                    !.cites = (CHOOSE r \in LoadedRuns : r.id \in row.run).cites]
   ELSE row : row \in rows}

SourcesOf(docs) == {SourceOf[d] : d \in docs}

ScoreCase(case, cites, status) ==
  LET expected == ExpectedDocs[case]
      indexed == {d \in expected : status[d] = "INDEXED"}
  IN  [case |-> case, retrievedSources |-> SourcesOf(cites), retrieved |-> cites,
       sourceHits |-> ExpectedSources[case] \cap SourcesOf(cites),
       inventory |-> [d \in expected |-> status[d]], indexed |-> indexed,
       hits |-> expected \cap cites, blockers |-> expected \ indexed]

\* The citations of the run that the real lane's row names.
ScoreRealCases(status) ==
  {ScoreCase(case, UNION {row.cites : row \in {r \in real : r.call.case = case}}, status) :
     case \in Case}

Summary ==
  [mechanicalCalls |-> Cardinality(mechanical),
   mechanicalProviderCalls |-> Cardinality({row \in mechanical : row.provider}),
   realCases |-> Cardinality(real), counters |-> count,
   providerFailures |-> count["plan"].failures + count["answer"].failures,
   fallbacks |-> Cardinality({case \in Case : notes.rerank[case] = "FALLBACK"}),
   apiErrors |-> api,
   cleanup |-> cleanup, infrastructure |-> infrastructure]

\* What the sheets are filled from; how each of them lays it out is left out.
Report == [summary |-> Summary, rows |-> Rows, coverage |-> coverage]

-------------------------------------------------------------------------------
(* run() around the lanes *)

Conflicting(a) ==
  \/ a.mode # "off" /\ (a.lexical \/ a.planner)
  \/ a.rerank /\ a.mode # "semantic"
  \/ a.repair /\ ~a.rerank

Zero == [calls |-> 0, successes |-> 0, failures |-> 0]

StressInit ==
  /\ args \in Arguments
  /\ pc = "parse" /\ level = 1 /\ phase = <<>>
  /\ gathered = {} /\ mechanical = {} /\ real = {}
  /\ runs = {} /\ captured = {} /\ lost = {}
  /\ foreign = {} /\ others = {}
  /\ count = [p \in Port |-> Zero]
  /\ before = [p \in {"plan", "answer"} |-> Zero]
  /\ delta = [case \in Case |-> [p \in {"plan", "answer"} |-> Zero]]
  /\ notes = [rerank |-> [case \in Case |-> "NOT_CALLED"],
              class |-> [case \in Case |-> "NOT_APPLICABLE"]]
  /\ api = 0 /\ coverage = {}
  /\ cleanup = "NOT_NEEDED" /\ infrastructure = "COMPLETED"
  /\ report = <<>> /\ exit = "running"

\* Arguments that exclude each other and a workbook without its cases end the run
\* before anything is opened; no report is written.
Parse ==
  /\ pc = "parse"
  /\ \/ pc' = "exited" /\ exit' = "2"
     \/ ~Conflicting(args) /\ pc' = "setup" /\ UNCHANGED exit
  /\ UNCHANGED <<laneVars, clientVars, api, coverage, cleanup, infrastructure, report>>

Fails(next) == pc' = next /\ infrastructure' = "FAILED_SAFE"

\* The settings, the engine, the adapters and, for a semantic mode, the coverage check.
Setup ==
  /\ pc = "setup"
  /\ \/ Fails("close") /\ phase' = phase                              \* no engine
     \/ Fails("cleanup") /\ phase' = phase                            \* no model, no coverage
     \/ pc' = "mechanical" /\ phase' = Waiting(MechanicalCalls(1)) /\ UNCHANGED infrastructure
  /\ UNCHANGED <<level, gathered, mechanical, real, runs, captured, lost, count, before, delta,
                 notes, clientVars, api, coverage, cleanup, report, exit>>

\* A refused connection is an outcome of the probe, an address it cannot parse is not.
Probe ==
  /\ pc = "probe"
  /\ \/ api' \in {0, 1} /\ pc' = "load" /\ UNCHANGED infrastructure
     \/ Fails("cleanup") /\ UNCHANGED api
  /\ UNCHANGED <<laneVars, clientVars, coverage, cleanup, report, exit>>

Load ==
  /\ pc = "load"
  /\ \/ /\ mechanical' = Applied(mechanical) /\ real' = Applied(real)
        /\ pc' = "catalog" /\ UNCHANGED infrastructure
     \/ Fails("cleanup") /\ UNCHANGED <<mechanical, real>>
  /\ UNCHANGED <<level, phase, gathered, runs, captured, lost, count, before, delta, notes,
                 clientVars, api, coverage, cleanup, report, exit>>

\* Of several catalog entries with one number, the one read last counts.
Catalog ==
  /\ pc = "catalog"
  /\ \/ \E status \in [Doc -> {"INDEXED", "QUARANTINED"}] :
          coverage' = ScoreRealCases(status) /\ UNCHANGED infrastructure /\ pc' = "cleanup"
     \/ Fails("cleanup") /\ UNCHANGED coverage
  /\ UNCHANGED <<laneVars, clientVars, api, cleanup, report, exit>>

\* Citations and runs go in one transaction, whose failure is only reported.
Cleanup ==
  /\ pc = "cleanup" /\ pc' = "close"
  /\ \/ captured = {} /\ UNCHANGED <<runs, cleanup>>
     \/ /\ captured # {} /\ cleanup' = "COMPLETED"
        /\ runs' = {r \in runs : r.id \notin captured}
     \/ captured # {} /\ cleanup' = "FAILED_SAFE" /\ UNCHANGED runs
  /\ UNCHANGED <<level, phase, gathered, mechanical, real, captured, lost, count, before, delta,
                 notes, clientVars, api, coverage, infrastructure, report, exit>>

\* The provider's aclose may fail, the engine's dispose may raise, and so may the report.
Close ==
  /\ pc = "close"
  /\ infrastructure' \in IF args.skipReal THEN {infrastructure} ELSE {infrastructure, "FAILED_SAFE"}
  /\ pc' \in {"report", "exited"}
  /\ exit' = IF pc' = "exited" /\ exit = "running" THEN "2" ELSE exit
  /\ UNCHANGED <<laneVars, clientVars, api, coverage, cleanup, report>>

WriteReport ==
  /\ pc = "report" /\ pc' = "exited"
  /\ \/ report' = Report
        /\ exit' = IF exit # "running" THEN exit
                   ELSE IF infrastructure = "COMPLETED" THEN "0" ELSE "2"
     \/ report' = report /\ exit' = IF exit # "running" THEN exit ELSE "2"
  /\ UNCHANGED <<laneVars, clientVars, api, coverage, cleanup, infrastructure>>

\* Ctrl-C: what is awaited is cancelled, the lane's rows are gone, the finally block runs
\* with infrastructure_status as it is. A retrieval may have committed.
Interrupt ==
  /\ pc \in {"mechanical", "real", "probe", "load", "catalog"} /\ exit = "running"
  /\ \A c \in Running : phase[c] # "rerank"
  /\ count' = [p \in Port |->
                 [count[p] EXCEPT !.failures =
                    @ + Cardinality({c \in Running : phase[c] = p /\ Counted(c, p)})]]
  /\ \E stored \in SUBSET {c \in Running : phase[c] \in {"store", "empty"}} :
       /\ runs' = runs \cup {[id |-> c, cites |-> {}] : c \in stored}
       /\ lost' = lost \cup stored \cup {c \in Running : phase[c] \in {"answer", "parse"}}
  /\ phase' = <<>> /\ gathered' = {} /\ pc' = "cleanup" /\ exit' = "interrupted"
  /\ UNCHANGED <<level, mechanical, real, captured, before, delta, notes, clientVars, api,
                 coverage, cleanup, infrastructure, report>>

\* Another client stores a run or removes one of its own. (Bound: when the tool is about
\* to remove its runs; nothing else of it depends on another client's.)
OtherClient ==
  /\ pc = "cleanup"
  /\ \E r \in ForeignRun :
       IF r \in others THEN others' = others \ {r} /\ foreign' = foreign \ {r}
       ELSE others' = others \cup {r} /\ foreign' = foreign \cup {r}
  /\ UNCHANGED <<args, pc, laneVars, resultVars>>

StressNext ==
  \/ Parse \/ Setup \/ EndLevel \/ EndReal \/ Probe \/ Load \/ Catalog
  \/ Cleanup \/ Close \/ WriteReport \/ Interrupt \/ OtherClient
  \/ \E c \in DOMAIN phase :
       \/ StartCall(c) \/ PlanReturns(c) \/ EmbedReturns(c) \/ RerankReturns(c)
       \/ StoreReturns(c) \/ AnswerReturns(c) \/ ParseReturns(c)

StressSpec == StressInit /\ [][StressNext]_stressVars

-------------------------------------------------------------------------------
(* Properties *)

\* A run that is over and says that it cleaned up has left no run it could know of, and
\* at no time touches a run of another client (_cleanup, captured_run_ids).
CleansUpItsOwn ==
  /\ others = foreign
  /\ pc \in {"close", "report", "exited"} /\ cleanup # "FAILED_SAFE" /\ infrastructure = "COMPLETED"
       => {r.id : r \in runs} \subseteq lost

AllCalls ==
  (UNION {MechanicalCalls(i) : i \in DOMAIN args.levels})
    \cup (IF args.skipReal THEN {} ELSE RealCalls)

\* An exit code of 0 means that every question was put in every lane, once, and that
\* each line shows what its run had stored when it was still there: neither the chat's
\* last word nor the clean-up changes it (load_retrieval_diagnostics, write_report).
\* The counters agree: every call ended once, and the cases are charged all of them.
ExitZeroReportsAll ==
  exit = "0" =>
    /\ {row.call : row \in report.rows} = AllCalls
    /\ Cardinality(report.rows) = Cardinality(AllCalls)
    /\ \A row \in report.rows : row.run # {} <=> row.present
    /\ \A row \in report.rows : row.outcome = "ANSWERED" => row.cites # {}
    /\ ~args.skipReal =>
         \A row \in report.coverage : \E r \in report.rows :
           r.call.lane = "REAL_SHINE" /\ r.call.case = row.case /\ r.cites = row.retrieved
    /\ \A p \in Port : count[p].calls = count[p].successes + count[p].failures
    /\ ~args.skipReal =>
         \A p \in {"plan", "answer"} :
           count[p].calls = Cardinality({case \in Case : delta[case][p].calls = 1})

===============================================================================
