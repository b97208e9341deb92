-------------------------- MODULE CandidateEvaluation --------------------------
(***************************************************************************)
(* The candidate evaluation (scripts/evaluate_quality_retrieval_phase_b.py)*)
(* reads three lanes for every question, ranks them into pools of several  *)
(* sizes, scores them against an inventory read afterwards, stores every   *)
(* selection as a run, resolves and removes it again, and says PASS or     *)
(* NO_GO. It works in the application's database while others use it.      *)
(*                                                                         *)
(* What a question reads is one of its Readings: per lane the chunks in    *)
(* order of rank, each of one document (HomeOf). A document stands for     *)
(* its number. Milliseconds are small numbers, rates are compared as       *)
(* fractions.                                                              *)
(***************************************************************************)
EXTENDS Integers, Sequences, FiniteSets, SequencesExt, FiniteSetsExt

CONSTANTS
  Parents, ControlsB, ControlsC, \* the cases of sets A, B and C, in order
  ParentOf,        \* the parent a case of set B rephrases
  Expected,        \* per parent: expected_numbers
  HomeOf,          \* chunks, and the documents they belong to
  Readings,        \* per case: what the question may find
  PoolSizes,       \* POOL_SIZES
  FinalSize,       \* 3
  MinHits, MaxLatency, MaxQueries, \* 27, 2450 and 12
  Denominator,     \* EXPECTED_DENOMINATOR
  Changes,         \* inventories another client may bring about
  Settings, Paths, \* retrieval settings and output arguments tried
  MaxEvents        \* bound: failed removals, failed resolutions and moves of other clients

LanesB == {"SEMANTIC", "CONTENT_FTS", "TITLE_FTS"}
AllCases == Parents \o ControlsB \o ControlsC
InSet(seq) == {seq[i] : i \in DOMAIN seq}

ASSUME EvaluationAssumption ==
  /\ {Parents, ControlsB, ControlsC} \subseteq
       Seq(InSet(Parents) \cup InSet(ControlsB) \cup InSet(ControlsC))
  /\ PoolSizes \in Seq(InSet(PoolSizes))

VARIABLES
  at,         \* the statement of run() or citation_smoke() reached
  settings, paths,
  results,    \* the readings of the cases evaluated so far
  inventory,  \* documents indexed with their latest strict version
  oracle,     \* what the inventory was when it was read
  ours,       \* this tool's runs in the database
  theirs,     \* number of other clients' runs
  todo,       \* selections still to be stored
  smoke,      \* the selection being stored
  rows,       \* citation_values
  stateBefore, stateAfter,
  verdict,    \* the report and the exit code
  events      \* how often something outside the tool has happened

evaluationVars == <<at, settings, paths, results, inventory, oracle, ours, theirs, todo, smoke,
                    rows, stateBefore, stateAfter, verdict, events>>

-------------------------------------------------------------------------------
(* Ranking *)

\* Chunks a lane found, one document each, at its best rank; then the cut.
RankIn(r, lane, d) == Min({i \in DOMAIN r.lanes[lane] : HomeOf[r.lanes[lane][i]] = d})
FoundIn(r, lane) == {HomeOf[c] : c \in InSet(r.lanes[lane])}

LaneDocuments(r, lane, size) ==
  LET nearer(d, e) == RankIn(r, lane, d) < RankIn(r, lane, e)
      all == SetToSortSeq(FoundIn(r, lane), nearer)
  IN  InSet(SubSeq(all, 1, Min({size, Len(all)})))

\* 1 / (60 + rank), as an integer large enough to order the sums of short lanes.
Share(rank) == 100000000 \div (60 + rank)

FusedScore(r, lanes, size, d) ==
  LET found == {lane \in lanes : d \in LaneDocuments(r, lane, size)}
      share(lane) == Share(RankIn(r, lane, d))
  IN  MapThenSumSet(share, found)

BestRank(r, lanes, size, d) ==
  Min({RankIn(r, lane, d) : lane \in {l \in lanes : d \in LaneDocuments(r, l, size)}})

\* fused_pool: equal shares for every lane, ties by best rank and then by the chunk.
FusedPool(r, lanes, size) ==
  LET docs == UNION {LaneDocuments(r, lane, size) : lane \in lanes}
      score(d) == FusedScore(r, lanes, size, d)
      best(d) == BestRank(r, lanes, size, d)
      better(d, e) == \/ score(d) > score(e)
                      \/ score(d) = score(e) /\ best(d) < best(e)
                      \/ score(d) = score(e) /\ best(d) = best(e) /\ d < e
      all == SetToSortSeq(docs, better)
  IN  SubSeq(all, 1, Min({size, Len(all)}))

Final(r, size) ==
  LET pool == FusedPool(r, LanesB, size) IN SubSeq(pool, 1, Min({FinalSize, Len(pool)}))

\* What a pool loses when one lane is taken away.
LaneUnique(r, size, lane) ==
  InSet(FusedPool(r, LanesB, size)) \ InSet(FusedPool(r, LanesB \ {lane}, size))

\* What an evaluated question keeps of its reading.
QueryResult(r) ==
  [reading |-> r, queries |-> r.queries, ms |-> r.ms, semanticMs |-> r.semanticMs,
   found |-> [lane \in LanesB |-> FoundIn(r, lane)],
   pools |-> [size \in InSet(PoolSizes) |-> InSet(FusedPool(r, LanesB, size))],
   finals |-> [size \in InSet(PoolSizes) |-> InSet(Final(r, size))],
   unique |-> [size \in InSet(PoolSizes) |-> [lane \in LanesB |-> LaneUnique(r, size, lane)]]]

\* The natural semantic-only selection the pools are compared with.
SemanticFinal(r) ==
  LET nearer(d, e) == RankIn(r, "SEMANTIC", d) < RankIn(r, "SEMANTIC", e)
      all == SetToSortSeq(FoundIn(r, "SEMANTIC"), nearer)
  IN  InSet(SubSeq(all, 1, Min({FinalSize, Len(all)})))

-------------------------------------------------------------------------------
(* Scores *)

SetARow(parent, size) ==
  LET r == results[parent]
      expected == Expected[parent] \cap oracle
      pool == r.pools[size]
      final == r.finals[size]
      raw == r.reading.lanes["SEMANTIC"]
      rawDocuments == {HomeOf[raw[i]] : i \in {j \in DOMAIN raw : j <= size}}
      collapsed == LaneDocuments(r.reading, "SEMANTIC", size)
  IN  [case |-> parent, size |-> size, expected |-> expected,
       blockers |-> Expected[parent] \ oracle,
       candidateHits |-> Cardinality(expected \cap pool),
       finalHits |-> Cardinality(expected \cap final),
       laneHits |-> [lane \in LanesB |-> Cardinality(expected \cap r.found[lane])],
       unexpected |-> Cardinality(pool \ expected), candidates |-> Cardinality(pool),
       loss |-> Cardinality(expected \cap pool) - Cardinality(expected \cap final),
       unique |-> [lane \in LanesB |-> Cardinality(r.unique[size][lane] \cap expected)],
       collapseLift |-> Cardinality(collapsed \cap expected)
                          - Cardinality(rawDocuments \cap expected),
       titleRescue |-> (r.found["TITLE_FTS"] \cap expected) \ r.found["SEMANTIC"],
       lexicalRescue |-> (r.found["CONTENT_FTS"] \cap expected) \ r.found["SEMANTIC"]]

SetBRow(case, size) ==
  LET left == results[ParentOf[case]].finals[size]
      right == results[case].finals[size]
      semanticLeft == SemanticFinal(results[ParentOf[case]].reading)
      semanticRight == SemanticFinal(results[case].reading)
  IN  [case |-> case, size |-> size,
       shared |-> Cardinality(left \cap right), all |-> Cardinality(left \cup right),
       consistent |-> (left = {}) = (right = {}),
       semanticConsistent |-> (semanticLeft = {}) = (semanticRight = {})]

SetCFailures(case, size) ==
  (IF results[case].queries > MaxQueries THEN {"QUERY_COUNT"} ELSE {}) \cup
  (IF \E row \in rows : row.case = case /\ row.size = size
        /\ ~(row.failure = "" /\ row.cleanup = "COMPLETED" /\ row.match)
   THEN {"CITATION_INVARIANT"} ELSE {})

SumOver(S, f(_)) == MapThenSumSet(f, S)

\* The slowest question stands for the 95th percentile of so few.
Slowest(ms(_)) == Max({0} \cup {ms(results[p]) : p \in InSet(Parents)})

SemanticReference ==
  LET hits(p) == Cardinality(results[p].found["SEMANTIC"] \cap Expected[p] \cap oracle)
      unexpected(p) == Cardinality(results[p].found["SEMANTIC"] \ (Expected[p] \cap oracle))
      found(p) == Cardinality(results[p].found["SEMANTIC"])
      ms(r) == r.semanticMs
  IN  [hits |-> SumOver(InSet(Parents), hits), unexpected |-> SumOver(InSet(Parents), unexpected),
       candidates |-> SumOver(InSet(Parents), found), ms |-> Slowest(ms), queries |-> 1,
       failures |-> 0]

SetARows == {SetARow(p, size) : p \in InSet(Parents), size \in InSet(PoolSizes)}

Measurement(size) ==
  LET rows_A == {row \in SetARows : row.size = size}
      hits(row) == row.candidateHits
      unexpected(row) == row.unexpected
      candidates(row) == row.candidates
      failed(c) == Cardinality(SetCFailures(c, size))
      ms(r) == r.ms
  IN  [hits |-> SumOver(rows_A, hits), unexpected |-> SumOver(rows_A, unexpected),
       candidates |-> SumOver(rows_A, candidates), ms |-> Slowest(ms),
       queries |-> Max({results[c].queries : c \in InSet(AllCases)}),
       failures |-> SumOver(InSet(ControlsC), failed)]

\* unexpected / candidates may exceed that of the predecessor by 0.02.
NotMuchWorse(new, old) ==
  LET rate(m) == IF m.candidates = 0 THEN <<0, 1>> ELSE <<m.unexpected, m.candidates>> IN
  50 * rate(new)[1] * rate(old)[2] <= 50 * rate(old)[1] * rate(new)[2] + rate(old)[2] * rate(new)[2]

\* select_pareto_pool: every size against its predecessor, the first against the reference.
EligibleSizes(matrix) ==
  {PoolSizes[i] : i \in {j \in DOMAIN PoolSizes :
     LET new == matrix[PoolSizes[j]]
         old == IF j = 1 THEN SemanticReference ELSE matrix[PoolSizes[j - 1]]
     IN  /\ \/ new.hits >= old.hits + 1
            \/ new.hits = old.hits /\ new.ms < old.ms
         /\ NotMuchWorse(new, old)
         /\ new.ms <= MaxLatency /\ new.queries <= MaxQueries /\ new.failures = 0}}

\* Mutation: equal counts are taken for a clean-up.
CitationOkByCount(row) == row.failure = "" /\ row.match

CitationOk(row) == row.failure = "" /\ row.cleanup = "COMPLETED" /\ row.match

\* gate_b: the smallest eligible size, or none.
Gate ==
  LET matrix == [size \in InSet(PoolSizes) |-> Measurement(size)]
      eligible == EligibleSizes(matrix)
  IN  IF eligible = {} THEN [pass |-> FALSE, size |-> {}]
      ELSE LET size == Min(eligible)
               m == matrix[size]
               retained(lane) == \E row \in SetARows : row.size = size /\ row.unique[lane] >= 1
           IN  [pass |-> /\ m.hits >= MinHits
                         /\ \A lane \in LanesB : retained(lane)
                         /\ m.failures = 0 /\ m.ms <= MaxLatency /\ m.queries <= MaxQueries
                         /\ \A row \in rows : CitationOk(row),
                size |-> {size}]

\* The report's sums over the cases, per pool size, beside the rows themselves.
Report ==
  LET total(field(_), size) == SumOver({row \in SetARows : row.size = size}, field)
      candidate(row) == row.candidateHits
      final(row) == row.finalHits
      lift(row) == row.collapseLift
      title(row) == Cardinality(row.titleRescue)
      lexical(row) == Cardinality(row.lexicalRescue)
  IN  [reference |-> SemanticReference,
       totals |-> [size \in InSet(PoolSizes) |->
         [candidate |-> total(candidate, size), final |-> total(final, size),
          lift |-> total(lift, size), title |-> total(title, size),
          lexical |-> total(lexical, size)]],
       measurements |-> [size \in InSet(PoolSizes) |-> Measurement(size)],
       a |-> SetARows,
       b |-> {SetBRow(c, size) : c \in InSet(ControlsB), size \in InSet(PoolSizes)},
       c |-> {[case |-> c, size |-> size, failures |-> SetCFailures(c, size)] :
                c \in InSet(ControlsC), size \in InSet(PoolSizes)}]

-------------------------------------------------------------------------------
(* State of the process and of the database *)

\* Read-only facts about the deployment; they are reported, never changed.
RuntimeFlags(chosen) ==
  [defaultsOff |-> TRUE, activeOff |-> chosen.flags = {} /\ chosen.strategy = "disabled",
   effectsOff |-> TRUE]

\* Artifacts may replace the frozen report only as a whole and in natural mode.
Refused(p) ==
  \/ p.mode = "BOUNDED_OR" /\ p.files = "frozen"
  \/ p.files = "mixed"

StateCounts == Cardinality(ours) + theirs

Selections(set) == {[case |-> c, size |-> s] : c \in InSet(set), s \in InSet(PoolSizes)}

NoSmoke == [case |-> "none", size |-> 0, before |-> 0, created |-> FALSE, failure |-> "",
            cleanup |-> "NOT_STARTED"]

EvaluationInit ==
  /\ at = "parse" /\ settings \in Settings /\ paths \in Paths
  /\ results = <<>> /\ oracle = {}
  /\ inventory \in Changes
  /\ ours = {} /\ theirs = 1
  /\ todo = <<>> /\ smoke = NoSmoke /\ rows = {}
  /\ stateBefore = -1 /\ stateAfter = -1
  /\ verdict = [exit |-> "running", gate |-> "NONE", selected |-> {}, report |-> {},
                citations |-> {}, flags |-> {}, unchanged |-> {}]
  /\ events = 0

Event == events < MaxEvents /\ events' = events + 1

\* The partial report: no rows but the citation rows of a loop that was finished. The
\* counts are read once more for it; what fails in that is ignored.
Fail ==
  /\ at' = "exited"
  /\ \/ verdict' = [verdict EXCEPT !.exit = "2"]
     \/ \E counted \in {FALSE, stateBefore >= 0} :
          verdict' =
            [exit |-> "2", gate |-> "NO_GO", selected |-> {}, report |-> {},
             citations |-> IF todo = <<>> /\ at \in {"after", "report"} THEN rows ELSE {},
             flags |-> IF counted THEN {RuntimeFlags(settings)} ELSE {},
             unchanged |-> IF counted THEN {stateBefore = StateCounts} ELSE {}]

\* Refused paths end the program at once, a workbook without its cases with a report.
Parse ==
  /\ at = "parse"
  /\ \/ Refused(paths) /\ at' = "exited" /\ verdict' = [verdict EXCEPT !.exit = "2"]
     \/ ~Refused(paths) /\ at' = "before" /\ UNCHANGED verdict
     \/ ~Refused(paths) /\ Fail
  /\ UNCHANGED <<events, settings, paths, results, inventory, oracle, ours, theirs, todo, smoke,
                 rows, stateBefore, stateAfter>>

CountBefore ==
  /\ at = "before"
  /\ \/ stateBefore' = StateCounts /\ at' = "evaluate" /\ UNCHANGED verdict
     \/ Fail /\ UNCHANGED stateBefore
  /\ UNCHANGED <<events, settings, paths, results, inventory, oracle, ours, theirs, todo, smoke,
                 rows, stateAfter>>

\* One question after the other: embed, read, rank. A candidate outside the evaluation's
\* envelope ends the run.
EvaluateQuery ==
  LET case == AllCases[Cardinality(DOMAIN results) + 1] IN
  /\ at = "evaluate" /\ DOMAIN results # InSet(AllCases)
  /\ \/ \E r \in Readings[case] :
          /\ results' = [c \in DOMAIN results \cup {case} |->
                           IF c = case THEN QueryResult(r) ELSE results[c]]
          /\ UNCHANGED <<at, verdict>>
     \/ Fail /\ UNCHANGED results
  /\ UNCHANGED <<events, settings, paths, inventory, oracle, ours, theirs, todo, smoke, rows,
                 stateBefore, stateAfter>>

\* The inventory is read when all questions are answered, and must have its frozen size.
ReadInventory ==
  LET listed(p) == Cardinality(Expected[p] \cap inventory) IN
  /\ at = "evaluate" /\ DOMAIN results = InSet(AllCases)
  /\ \/ /\ SumOver(InSet(Parents), listed) = Denominator
        /\ oracle' = inventory /\ at' = "count" /\ UNCHANGED verdict
        /\ todo' = SetToSeq(Selections(Parents)) \o SetToSeq(Selections(ControlsC))
     \/ Fail /\ UNCHANGED <<oracle, todo>>
  /\ UNCHANGED <<events, settings, paths, results, inventory, ours, theirs, smoke, rows,
                 stateBefore, stateAfter>>

-------------------------------------------------------------------------------
(* citation_smoke, for one selection after the other *)

smokeVars == <<settings, paths, results, inventory, oracle, theirs, stateBefore, stateAfter>>

CountGlobal ==
  /\ at = "count" /\ todo # <<>>
  /\ \/ /\ smoke' = [NoSmoke EXCEPT !.case = Head(todo).case, !.size = Head(todo).size,
                                    !.before = StateCounts]
        /\ at' = "insert" /\ UNCHANGED verdict
     \/ Fail /\ UNCHANGED smoke
  /\ UNCHANGED <<events, ours, todo, rows, smokeVars>>

\* A document found by its title alone, with no vector, has no score to store.
Scored(case, d) ==
  d \in results[case].found["CONTENT_FTS"] \cup results[case].found["SEMANTIC"]
    \/ d \notin results[case].reading.unscored

\* What fails before the commit leaves nothing; a commit may be carried out though its
\* answer is lost.
InsertRun ==
  LET scored == \A d \in results[smoke.case].finals[smoke.size] : Scored(smoke.case, d) IN
  /\ at = "insert"
  /\ \/ /\ scored /\ ours' = ours \cup {<<smoke.case, smoke.size>>}
        /\ smoke' = [smoke EXCEPT !.created = TRUE] /\ at' = "resolve" /\ UNCHANGED events
     \/ /\ IF scored THEN Event ELSE UNCHANGED events
        /\ smoke' = [smoke EXCEPT !.failure = "ERROR"] /\ at' = "remove" /\ UNCHANGED ours
     \/ /\ scored /\ Event /\ ours' = ours \cup {<<smoke.case, smoke.size>>}
        /\ smoke' = [smoke EXCEPT !.failure = "ERROR", !.created = TRUE] /\ at' = "remove"
  /\ UNCHANGED <<todo, rows, verdict, smokeVars>>

ResolveCitations ==
  /\ at = "resolve" /\ at' = "remove"
  /\ \/ UNCHANGED <<smoke, events>>
     \/ Event /\ smoke' = [smoke EXCEPT !.failure = "ERROR"]
  /\ UNCHANGED <<ours, todo, rows, verdict, smokeVars>>

\* In the finally clause: exactly this run is deleted, or the failure is noted.
RemoveRun ==
  /\ at = "remove" /\ at' = "recount"
  /\ \/ /\ ours' = ours \ {<<smoke.case, smoke.size>>}
        /\ smoke' = [smoke EXCEPT !.cleanup = "COMPLETED"] /\ UNCHANGED events
     \/ /\ Event /\ ours' \in {ours, ours \ {<<smoke.case, smoke.size>>}}
        /\ smoke' = [smoke EXCEPT !.cleanup = "FAILED_SAFE"]
  /\ UNCHANGED <<todo, rows, verdict, smokeVars>>

SmokeRow(match) ==
  [case |-> smoke.case, size |-> smoke.size, created |-> smoke.created,
   failure |-> IF ~match /\ smoke.failure = "" THEN "GLOBAL_COUNT_MISMATCH" ELSE smoke.failure,
   cleanup |-> smoke.cleanup, match |-> match]

Recount ==
  /\ at = "recount"
  /\ \/ /\ rows' = rows \cup {SmokeRow(smoke.before = StateCounts)}
        /\ todo' = Tail(todo) /\ smoke' = NoSmoke /\ UNCHANGED verdict
        /\ at' = IF Len(todo) = 1 THEN "after" ELSE "count"
     \/ Fail /\ UNCHANGED <<rows, todo, smoke>>
  /\ UNCHANGED <<events, ours, smokeVars>>

\* Ctrl-C: nothing is reported; the finally clause removes the run, unless its removal is
\* what is interrupted.
Interrupt ==
  /\ at \notin {"parse", "exited"}
  /\ ours' \in CASE at \in {"insert", "resolve"} -> {ours \ {<<smoke.case, smoke.size>>}}
                 [] at = "remove" -> {ours, ours \ {<<smoke.case, smoke.size>>}}
                 [] OTHER -> {ours}
  /\ at' = "exited" /\ verdict' = [verdict EXCEPT !.exit = "interrupted"]
  /\ UNCHANGED <<events, todo, smoke, rows, smokeVars>>

CountAfter ==
  /\ at = "after"
  /\ \/ stateAfter' = StateCounts /\ at' = "report" /\ UNCHANGED verdict
     \/ Fail /\ UNCHANGED stateAfter
  /\ UNCHANGED <<events, settings, paths, results, inventory, oracle, ours, theirs, todo, smoke,
                 rows, stateBefore>>

WriteReports ==
  /\ at = "report"
  /\ \/ /\ at' = "exited"
        /\ LET gate == Gate IN
           verdict' = [exit |-> "0", gate |-> IF gate.pass THEN "PASS" ELSE "NO_GO",
                       selected |-> gate.size, report |-> {Report},
                       citations |-> rows, flags |-> {RuntimeFlags(settings)},
                       unchanged |-> {stateBefore = stateAfter}]
     \/ Fail
  /\ UNCHANGED <<events, settings, paths, results, inventory, oracle, ours, theirs, todo, smoke,
                 rows, stateBefore, stateAfter>>

\* Others store runs, remove their own, and change what is indexed. (Bound: two runs.)
OtherClient ==
  /\ at \notin {"parse", "exited"} /\ Event
  /\ \/ theirs' \in {0, 1, 2} /\ UNCHANGED inventory
     \/ inventory' \in Changes /\ at = "evaluate" /\ UNCHANGED theirs
  /\ UNCHANGED <<at, settings, paths, results, oracle, ours, todo, smoke, rows, stateBefore,
                 stateAfter, verdict>>

EvaluationNext ==
  \/ Parse \/ CountBefore \/ EvaluateQuery \/ ReadInventory
  \/ CountGlobal \/ InsertRun \/ ResolveCitations \/ RemoveRun \/ Recount
  \/ Interrupt \/ CountAfter \/ WriteReports \/ OtherClient

EvaluationSpec == EvaluationInit /\ [][EvaluationNext]_evaluationVars

-------------------------------------------------------------------------------
(* Properties *)

\* PASS is said only when every selection of sets A and C was stored, resolved and
\* removed again: other clients' runs that come and go can make the gate fail, and can
\* not hide a run that stayed (citation_smoke, attach_citation_invariants, gate_b).
PassedWithNothingLeft ==
  verdict.gate = "PASS" =>
    /\ ours = {}
    /\ {[case |-> row.case, size |-> row.size] : row \in {r \in verdict.citations : r.created}}
         = Selections(Parents) \cup Selections(ControlsC)

===============================================================================
