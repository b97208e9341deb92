--------------------------- MODULE QualityRetrieval ----------------------------
(***************************************************************************)
(* One request to the quality retrieval (documents/                        *)
(* quality_retrieval_repository.py and quality_retrieval_pipeline.py): one *)
(* read of the corpus for each unit of the question, the merge of what the *)
(* reads found, the choice of the evidence, the coverage matrix, one repair *)
(* read, and the stored run, while documents are ingested and embedded.    *)
(*                                                                         *)
(* A chunk is named by its document, its version and its ordinal; ids are  *)
(* ordered as these names are.  Which chunks a query finds and in which    *)
(* order is left open.  A rank is exact; of a score only its order among   *)
(* the observations of one rank matters, which is the level of its read.   *)
(* Documents here are those of the active sources, fetched over verified   *)
(* TLS; the ones imported by hand are Manual.                              *)
(***************************************************************************)
EXTENDS Ranking, Functions, FiniteSetsExt

CONSTANTS
    Doc, Manual,
    PartsOf,                    \* the ordinals of the chunks of a document
    Unit,                       \* the units the analyzer found, in their order
    Questions,                  \* bound: what the units of a question may be
    Profiles,                   \* the strategies a deployment may choose
    PoolSize,                   \* selected_pool, also the LIMIT of each lane
    MinEvidence, MaxEvidence,   \* 3 and 6 in the code
    TopK,                       \* what max_citations may be set to
    MaxHits,                    \* bound: hits of a lexical lane
    MaxReads,                   \* bound: reads of one request, 5 in the code
    MaxVersion                  \* bound: versions of each document

\* A unit may have no term to ask for, may be bound to a source that is not active,
\* or to several; the last two still have their entry in the coverage matrix.
Kinds == {"plain", "bare", "planned", "ambiguous"}

ASSUME QualityAssumption ==
    /\ Doc \subseteq Nat /\ Manual \subseteq Doc
    /\ PartsOf \in [Doc -> SUBSET Nat]
    /\ \E n \in 1 .. 4 : Unit = 1 .. n
    /\ Questions \subseteq [Unit -> Kinds]
    /\ Profiles \subseteq {"collapse", "hybrid", "dynamic", "repair"}
    /\ {PoolSize, MinEvidence, MaxEvidence} \cup TopK \subseteq Nat \ {0}
    /\ MinEvidence <= MaxEvidence
    /\ {MaxHits, MaxReads} \subseteq Nat /\ MaxVersion \in [Doc -> Nat]

VARIABLES
    latest,     \* per document: the number of its greatest version, 0 for none
    embedded,   \* the versions whose chunks have their semantic rows
    q           \* the request

qualityVars == <<latest, embedded, q>>

Version == UNION {[doc : {d}, version : 1 .. MaxVersion[d]] : d \in Doc}

VersionOf(c) == [doc |-> c.doc, version |-> c.version]

Lanes == {"CONTENT_FTS", "SEMANTIC", "TITLE_FTS"}

LaneOrder == [CONTENT_FTS |-> 1, SEMANTIC |-> 2, TITLE_FTS |-> 3]

EnabledLanes(profile) == IF profile = "collapse" THEN {"SEMANTIC"} ELSE Lanes

Dynamic(profile) == profile \in {"dynamic", "repair"}

Asked(u) == q.kind[u] \in {"plain", "ambiguous"}

Statuses == {"SUPPORTED", "PARTIALLY_SUPPORTED", "UNSUPPORTED", "UNAVAILABLE", "AMBIGUOUS"}

-------------------------------------------------------------------------------
(***************************************************************************)
(* Ranking                                                                 *)
(***************************************************************************)
\* min(S, key=Key), as a set: one member where no two have one key
Least(S, Key(_)) == {x \in S : \A y \in S : ~Before(Key(y), Key(x))}

\* sorted(S, key=Key)[:n]
Cut(S, Key(_), n) == {x \in S : Cardinality({y \in S : Before(Key(y), Key(x))}) < n}

ChunkKey(c) == <<c.part, c.doc, c.version>>

LanesOf(obs, c) == {o.lane : o \in {p \in obs : p.chunk = c}}

UnitsOf(obs, c) == {o.unit : o \in {p \in obs : p.chunk = c}}

\* _best_same_lane: of the reads that found a chunk in one lane, the best observation
ReadKey(o) == <<o.rank, -o.level, o.read>>

Best(obs, c, lane) == Least({o \in obs : o.chunk = c /\ o.lane = lane}, ReadKey)

\* merge_chunk_candidates refuses a chunk whose supporting semantic score comes from
\* two reads, unless the two similarities happen to be equal.
Clash(obs) ==
    \E c \in {o.chunk : o \in obs} :
        \E s \in Best(obs, c, "SEMANTIC"), t \in Best(obs, c, "TITLE_FTS") : s.read # t.read

\* build_lane_document_pool: each version with its best chunk, then the first versions
LaneKey(o) == <<o.rank, -o.level>> \o ChunkKey(o.chunk)

LanePool(obs, lane) ==
    LET best == UNION {Best(obs, c, lane) : c \in {o.chunk : o \in obs}}
        reps == UNION {Least({o \in best : VersionOf(o.chunk) = v}, LaneKey) :
                         v \in {VersionOf(o.chunk) : o \in best}}
    IN  Cut(reps, LaneKey, PoolSize)

\* 1 / (60 + rank), scaled so that sums of three keep their order
Weight(rank) == 100000000 \div (60 + rank)

WeightOf(o) == Weight(o.rank)

EntryKey(o) == <<o.rank, LaneOrder[o.lane]>> \o ChunkKey(o.chunk)

\* _fuse_documents for the entries of version v, at most one for each lane: the chunk is
\* that of the best entry, the units are those of every entry.
Fused(obs, v, entries) ==
    {[version |-> v, chunk |-> o.chunk, rank |-> o.rank,
      score |-> MapThenSumSet(WeightOf, entries),
      units |-> UNION {UnitsOf(obs, e.chunk) : e \in entries}] : o \in Least(entries, EntryKey)}

FusedKey(f) == <<-f.score, f.rank>> \o ChunkKey(f.chunk)

\* fused_pool: the documents the evidence is chosen from, one candidate a version
Pool(obs, profile) ==
    LET entries == UNION {LanePool(obs, lane) : lane \in EnabledLanes(profile)}
        fused == UNION {Fused(obs, v, {o \in entries : VersionOf(o.chunk) = v}) :
                          v \in {VersionOf(o.chunk) : o \in entries}}
    IN  Cut(fused, FusedKey, PoolSize)

\* assess_candidate_role, as the number _rank_key gives it.  What the reader returns
\* is the latest version, so no candidate is BACKGROUND; each has a unit of the
\* question, so none is IRRELEVANT.
Role(f) == IF f.version.doc \in Manual THEN 2 ELSE 0

RankKey(f) == <<Role(f), -f.score, f.rank, f.version.doc, f.version.version>>

\* evidence_target_count
Target == IF Dynamic(q.profile)
          THEN Min({MaxEvidence, Max({MinEvidence, Cardinality(Unit)})})
          ELSE MinEvidence

-------------------------------------------------------------------------------
(***************************************************************************)
(* The corpus                                                              *)
(***************************************************************************)
ChunksOf(d, v) == {[doc |-> d, version |-> v, part |-> p] : p \in PartsOf[d]}

\* Mutation: func.min for func.max
EligibleFirst == UNION {ChunksOf(d, 1) : d \in {e \in Doc : latest[e] > 0}}

\* _eligible_statement: the chunks of the latest versions
Eligible == UNION {ChunksOf(d, latest[d]) : d \in {e \in Doc : latest[e] > 0}}

Embedded == {c \in Eligible : VersionOf(c) \in embedded}

Rankings(S) == {r \in [1 .. Cardinality(S) -> S] : IsInjective(r)}

\* What a lexical lane may find in S: any of it, in any order
Hits(S) == UNION {Rankings(T) : T \in {T \in SUBSET S :
                                         Cardinality(T) <= Min({PoolSize, MaxHits})}}

\* The observations of read n for unit u, where near orders the embedded chunks by
\* their similarity: a title stands for the most similar chunk of its version.
Observed(n, u, level, near, content, title) ==
    LET Seen(lane, c, rank) == [read |-> n, unit |-> u, lane |-> lane, chunk |-> c,
                                rank |-> rank, level |-> level]
        FirstOf(v) == {j \in DOMAIN near : /\ VersionOf(near[j]) = v
                                           /\ \A k \in 1 .. (j - 1) : VersionOf(near[k]) # v}
    IN  {Seen("SEMANTIC", near[i], i) : i \in {j \in DOMAIN near : j <= PoolSize}}
        \cup {Seen("CONTENT_FTS", content[i], i) : i \in DOMAIN content}
        \cup UNION {{Seen("TITLE_FTS", near[j], i) : j \in FirstOf(title[i])} :
                      i \in DOMAIN title}

\* A version of d is committed; its semantic rows come later.
Ingest(d) ==
    /\ latest[d] < MaxVersion[d]
    /\ latest' = [latest EXCEPT ![d] = @ + 1]
    /\ UNCHANGED <<embedded, q>>

Embed(v) ==
    /\ v \notin embedded
    /\ v.version <= latest[v.doc]
    /\ embedded' = embedded \cup {v}
    /\ UNCHANGED <<latest, q>>

-------------------------------------------------------------------------------
(***************************************************************************)
(* The request                                                             *)
(***************************************************************************)
\* since is history: the latest versions when the request began.  The application
\* starts with every version embedded; what is ingested later waits for a backfill.
QInit ==
    /\ latest \in {f \in [Doc -> 0 .. Max(Range(MaxVersion))] :
                     \A d \in Doc : f[d] <= MaxVersion[d]}
    /\ embedded = {v \in Version : v.version <= latest[v.doc]}
    /\ \E profile \in Profiles, kind \in Questions :
         q = [pc |-> "read", profile |-> profile, kind |-> kind, unit |-> 1, reads |-> 0,
              obs |-> {}, pool |-> {}, selected |-> {}, coverage |-> <<>>,
              repaired |-> FALSE, cites |-> {}, cause |-> "none", since |-> latest]

\* read_candidates for unit u, one read-only transaction of its own
ReadFor(u, goOn) ==
    /\ q.reads < MaxReads
    /\ \E near \in Rankings(Embedded), content \in Hits(Eligible),
          title \in Hits({VersionOf(c) : c \in Eligible}),
          level \in {q.reads, -q.reads} :
            LET found == Observed(q.reads + 1, u, level, near, content, title) IN
            q' = [goOn EXCEPT !.reads = @ + 1,
                    !.obs = @ \cup {o \in found : o.lane \in EnabledLanes(q.profile)}]
    /\ UNCHANGED <<latest, embedded>>

\* The next unit, and behind the last one the selection
Onward == [q EXCEPT !.unit = IF @ + 1 \in Unit THEN @ + 1 ELSE 1,
                    !.pc = IF q.unit + 1 \in Unit THEN "read" ELSE "rank"]

ReadUnit == q.pc = "read" /\ Asked(q.unit) /\ ReadFor(q.unit, Onward)

\* A unit without terms, or bound to a source that is not active, is not read.
SkipUnit ==
    /\ q.pc = "read" /\ ~Asked(q.unit)
    /\ q' = Onward
    /\ UNCHANGED <<latest, embedded>>

Break(cause) == q' = [q EXCEPT !.pc = "failed", !.cause = cause]

\* _select up to its candidates: the merge may refuse what the reads found, which
\* ends the request.
Rank ==
    /\ q.pc = "rank"
    /\ \/ q' = [q EXCEPT !.pc = "choose", !.pool = Pool(q.obs, q.profile),
                         !.selected = {}, !.unit = 1]
       \/ Clash(q.obs) /\ Break("clash")
    /\ UNCHANGED <<latest, embedded>>

\* The candidates that carry unit u and are not chosen yet
MatchesOf(u) == {f \in q.pool \ q.selected : u \in f.units}

Chosen(selected) ==
    q' = [q EXCEPT !.selected = selected, !.unit = @ + 1,
                   !.pc = IF q.unit + 1 \in Unit THEN "choose" ELSE "fill"]

\* Mutation: off by one, the last place is left for the fill.
ChooseOneShort ==
    /\ q.pc = "choose"
    /\ \/ \E f \in Least(MatchesOf(q.unit), RankKey) :
            Cardinality(q.selected) + 1 < Target /\ Chosen(q.selected \cup {f})
       \/ /\ MatchesOf(q.unit) = {} \/ Cardinality(q.selected) + 1 >= Target
          /\ Chosen(q.selected)
    /\ UNCHANGED <<latest, embedded>>

\* select_evidence, its first loop: the best match of the next unit, while there is room
ChooseForUnit ==
    /\ q.pc = "choose"
    /\ \/ \E f \in Least(MatchesOf(q.unit), RankKey) :
            Cardinality(q.selected) < Target /\ Chosen(q.selected \cup {f})
       \/ /\ MatchesOf(q.unit) = {} \/ Cardinality(q.selected) >= Target
          /\ Chosen(q.selected)
    /\ UNCHANGED <<latest, embedded>>

\* Its second loop: the best of the rest, up to the target
Fill ==
    /\ q.pc = "fill"
    /\ q' = [q EXCEPT !.pc = "cover",
               !.selected = @ \cup Cut(q.pool \ q.selected, RankKey,
                                       Target - Cardinality(q.selected))]
    /\ UNCHANGED <<latest, embedded>>

\* Mutation: any authority supports.
StatusOfAny(u) ==
    LET supporting == {f \in q.selected : u \in f.units} IN
    CASE q.kind[u] = "ambiguous" -> "AMBIGUOUS"
      [] q.kind[u] = "planned" /\ supporting = {} -> "UNAVAILABLE"
      [] q.kind[u] \in {"plain", "bare"} /\ supporting = {} -> "UNSUPPORTED"
      [] OTHER -> "SUPPORTED"

\* build_coverage_matrix for one unit
StatusOf(u) ==
    LET supporting == {f \in q.selected : u \in f.units} IN
    CASE q.kind[u] = "ambiguous" -> "AMBIGUOUS"
      [] q.kind[u] = "planned" /\ supporting = {} -> "UNAVAILABLE"
      [] q.kind[u] \in {"plain", "bare"} /\ supporting = {} -> "UNSUPPORTED"
      [] OTHER -> IF \E f \in supporting : Role(f) = 0 THEN "SUPPORTED"
                  ELSE "PARTIALLY_SUPPORTED"

Unresolved == {u \in Unit : StatusOf(u) \in {"PARTIALLY_SUPPORTED", "UNSUPPORTED"}}

FirstUnresolved(u) == u \in Unresolved /\ \A w \in Unresolved : u <= w

\* plan_targeted_repair looks at the first unresolved unit only: when that one has no
\* terms, none is repaired.
Cover ==
    /\ q.pc = "cover"
    /\ q' = [q EXCEPT !.coverage = [u \in Unit |-> StatusOf(u)],
               !.pc = IF /\ q.profile = "repair" /\ ~q.repaired
                         /\ \E u \in Unit : FirstUnresolved(u) /\ Asked(u)
                      THEN "repair" ELSE "persist"]
    /\ UNCHANGED <<latest, embedded>>

\* The one repair read; what it finds is ranked with all that was found before.
Repair ==
    /\ q.pc = "repair"
    /\ \E u \in Unit : /\ FirstUnresolved(u)
                      /\ ReadFor(u, [q EXCEPT !.repaired = TRUE, !.pc = "rank"])

Store(topK) ==
    /\ q.pc = "persist"
    /\ IF Cardinality(q.selected) > topK THEN Break("bound")
       ELSE q' = [q EXCEPT !.pc = "done", !.cites = {f.chunk : f \in q.selected}]
    /\ UNCHANGED <<latest, embedded>>

\* The run and its citations in one transaction; nothing is looked up again.  The
\* composition raises max_citations for a dynamic strategy.
Persist == \E topK \in IF Dynamic(q.profile) THEN {MaxEvidence} ELSE TopK : Store(topK)

\* The embedder or the database raises: a PERSISTENCE_FAILURE for the caller.
Raise ==
    /\ q.pc \in {"read", "repair", "persist"}
    /\ Break("raised")
    /\ UNCHANGED <<latest, embedded>>

Request == ReadUnit \/ SkipUnit \/ Rank \/ ChooseForUnit \/ Fill \/ Cover \/ Repair \/ Persist

QNext ==
    \/ \E d \in Doc : Ingest(d)
    \/ \E v \in Version : Embed(v)
    \/ Request \/ Raise

\* Nothing in a request waits for another.
QSpec == QInit /\ [][QNext]_qualityVars /\ WF_qualityVars(Request)

-------------------------------------------------------------------------------
(***************************************************************************)
(* Properties                                                              *)
(***************************************************************************)

\* Behind the first loop of select_evidence, and after the fill and a repair too, every
\* unit that some candidate of the fused pool carries is carried by a chosen one: a
\* better candidate for another unit never crowds it out, as long as the target has
\* room for every unit.
SelectionKeepsEveryUnit ==
    q.pc \in {"fill", "cover", "repair", "persist", "done"} /\ Cardinality(Unit) <= Target =>
        \A u \in Unit : (\E f \in q.pool : u \in f.units) => \E f \in q.selected : u \in f.units

\* SUPPORTED is said of a unit only when a chosen document, not one imported by hand,
\* was found by a read made for that very unit, across the merge of lanes, chunks and
\* reads and the repair.
SupportedMeansRead ==
    q.pc \in {"persist", "done"} =>
        \A u \in Unit : q.coverage[u] = "SUPPORTED" =>
            \E f \in q.selected, o \in q.obs :
                o.unit = u /\ VersionOf(o.chunk) = f.version /\ f.version.doc \notin Manual

\* A stored run cites only versions that were the latest of their document at some
\* instant of the request: none is older than the corpus the request found, none is named
\* that was not committed, although every unit was read at an instant of its own.
CitedInTheWindow ==
    q.pc = "done" => \A c \in q.cites : q.since[c.doc] <= c.version /\ c.version <= latest[c.doc]

===============================================================================
