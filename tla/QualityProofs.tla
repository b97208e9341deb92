----------------------------- MODULE QualityProofs -----------------------------
(***************************************************************************)
(* Proofs about QualityRetrieval, for every corpus, question, strategy and *)
(* bound; about the evaluation of its candidates, for every set of cases,  *)
(* readings, failures and other clients; and about RankedRetrieval, for    *)
(* every corpus, ranking, limit and order of new versions.                 *)
(***************************************************************************)
EXTENDS QualityRetrieval, CandidateEvaluation, RankedRetrieval,
        FiniteSetTheorems, SequenceTheorems, TLAPS

\* What a request keeps of the reads it made
Observations ==
    \A o \in q.obs : /\ o.unit \in Unit
                     /\ o.chunk.doc \in Doc /\ o.chunk.version \in Nat
                     /\ q.since[o.chunk.doc] <= o.chunk.version
                     /\ o.chunk.version <= latest[o.chunk.doc]

\* Every candidate of the pool goes back to observations: of its chunk, and for each unit
\* it carries one of a chunk of the same version.
Traced(f, obs) ==
    /\ VersionOf(f.chunk) = f.version
    /\ \E o \in obs : o.chunk = f.chunk
    /\ \A u \in f.units : \E o \in obs : o.unit = u /\ VersionOf(o.chunk) = f.version

PoolTraced == \A f \in q.pool : Traced(f, q.obs)

\* The progress of the first loop of select_evidence
Carried(u, S) == \E f \in S : u \in f.units

LoopSound ==
    q.pc = "choose" =>
        /\ q.unit \in Unit
        /\ Cardinality(q.selected) <= q.unit - 1
        /\ Cardinality(Unit) <= Target =>
              \A u \in 1 .. (q.unit - 1) : Carried(u, q.pool) => Carried(u, q.selected)

LoopDone ==
    q.pc \in {"fill", "cover", "repair", "persist", "done"} /\ Cardinality(Unit) <= Target =>
        \A u \in Unit : Carried(u, q.pool) => Carried(u, q.selected)

\* q has the fields of a request.
Shape ==
    q = [pc |-> q.pc, profile |-> q.profile, kind |-> q.kind, unit |-> q.unit,
         reads |-> q.reads, obs |-> q.obs, pool |-> q.pool, selected |-> q.selected,
         coverage |-> q.coverage, repaired |-> q.repaired, cites |-> q.cites,
         cause |-> q.cause, since |-> q.since]

Counters ==
    /\ latest \in [Doc -> Nat]
    /\ q.since \in [Doc -> Nat]
    /\ \A d \in Doc : q.since[d] <= latest[d]
    /\ q.pc = "read" => q.unit \in Unit
    /\ q.pc = "choose" => IsFiniteSet(q.selected)
    /\ q.selected \subseteq q.pool

CitesSeen == \A c \in q.cites : \E o \in q.obs : o.chunk = c

QInv ==
    /\ Shape /\ Counters /\ Observations /\ PoolTraced /\ LoopSound /\ LoopDone
    /\ SupportedMeansRead /\ CitesSeen

-------------------------------------------------------------------------------
\* The least members of a set are members of it.
LEMMA LeastIn ==
  ASSUME NEW obs, NEW c, NEW lane
  PROVE  Best(obs, c, lane) \subseteq {o \in obs : o.chunk = c}
BY DEF Best, Least

\* The representatives of a lane are observations.
LEMMA LanePoolIn ==
  ASSUME NEW obs, NEW lane
  PROVE  LanePool(obs, lane) \subseteq obs
<1> DEFINE best == UNION {Best(obs, c, lane) : c \in {o.chunk : o \in obs}}
           reps == UNION {Least({o \in best : VersionOf(o.chunk) = v}, LaneKey) :
                            v \in {VersionOf(o.chunk) : o \in best}}
<1>1. best \subseteq obs
  BY LeastIn
<1>2. reps \subseteq best
  BY DEF Least
<1>3. LanePool(obs, lane) \subseteq reps
  BY DEF LanePool, Cut
<1> QED BY <1>1, <1>2, <1>3

\* A fused candidate goes back to observations of its version.
LEMMA FusedTraced ==
  ASSUME NEW obs, NEW v, NEW entries \in SUBSET obs,
         \A e \in entries : VersionOf(e.chunk) = v,
         NEW f \in Fused(obs, v, entries)
  PROVE  Traced(f, obs)
<1>1. PICK o \in Least(entries, EntryKey) :
        f = [version |-> v, chunk |-> o.chunk, rank |-> o.rank,
             score |-> MapThenSumSet(WeightOf, entries),
             units |-> UNION {UnitsOf(obs, e.chunk) : e \in entries}]
  BY DEF Fused
<1>2. o \in entries
  BY DEF Least
<1>3. f.version = v /\ f.chunk = o.chunk
      /\ f.units = UNION {UnitsOf(obs, e.chunk) : e \in entries}
  BY <1>1
<1>4. ASSUME NEW u \in f.units
      PROVE  \E p \in obs : p.unit = u /\ VersionOf(p.chunk) = f.version
  <2>1. PICK e \in entries : u \in UnitsOf(obs, e.chunk)
    BY <1>3, <1>4
  <2>2. PICK p \in obs : p.chunk = e.chunk /\ p.unit = u
    BY <2>1 DEF UnitsOf
  <2> QED BY <2>1, <2>2, <1>3
<1> QED BY <1>2, <1>3, <1>4 DEF Traced

\* Every member of the fused pool does.
LEMMA PoolIsTraced ==
  ASSUME NEW obs, NEW profile, NEW f \in Pool(obs, profile)
  PROVE  Traced(f, obs)
<1> DEFINE entries == UNION {LanePool(obs, lane) : lane \in EnabledLanes(profile)}
           fused == UNION {Fused(obs, v, {o \in entries : VersionOf(o.chunk) = v}) :
                             v \in {VersionOf(o.chunk) : o \in entries}}
<1>1. entries \subseteq obs
  BY LanePoolIn
<1>2. f \in fused
  BY DEF Pool, Cut
<1>3. PICK v \in {VersionOf(o.chunk) : o \in entries} :
        f \in Fused(obs, v, {o \in entries : VersionOf(o.chunk) = v})
  BY <1>2
<1>4. {o \in entries : VersionOf(o.chunk) = v} \in SUBSET obs
  BY <1>1
<1> HIDE DEF entries
<1> QED BY <1>3, <1>4, FusedTraced

\* A read observes chunks of the versions that are the latest while it runs, for the
\* unit it was made for.
LEMMA ObservedEligible ==
  ASSUME NEW n, NEW u, NEW level, NEW near \in Rankings(Embedded),
         NEW content \in Hits(Eligible), NEW title, NEW o \in Observed(n, u, level, near, content, title)
  PROVE  o.unit = u /\ o.chunk \in Eligible
<1>1. \A i \in DOMAIN near : near[i] \in Eligible
  BY DEF Rankings, Embedded
<1>2. \A i \in DOMAIN content : content[i] \in Eligible
  BY DEF Hits, Rankings
<1>3. \E lane, c, rank : /\ o = [read |-> n, unit |-> u, lane |-> lane, chunk |-> c,
                                 rank |-> rank, level |-> level]
                         /\ c \in Eligible
  BY <1>1, <1>2 DEF Observed
<1> QED BY <1>3

\* There are as many units as the last of them says.
LEMMA UnitsCounted ==
  QualityAssumption => \E n \in 1 .. 4 : Unit = 1 .. n /\ Cardinality(Unit) = n
<1> SUFFICES ASSUME QualityAssumption
             PROVE  \E n \in 1 .. 4 : Unit = 1 .. n /\ Cardinality(Unit) = n
  OBVIOUS
<1>1. PICK n \in 1 .. 4 : Unit = 1 .. n
  BY DEF QualityAssumption
<1>2. 1 \in Int /\ n \in Int /\ 1 <= n
  BY <1>1
<1>3. Cardinality(1 .. n) = IF 1 > n THEN 0 ELSE n - 1 + 1
  BY <1>2, FS_Interval
<1>4. Cardinality(1 .. n) = n
  BY <1>2, <1>3
<1> QED BY <1>1, <1>4

\* The target is a number of documents.
LEMMA TargetIsNat == QualityAssumption => Target \in Int
<1> SUFFICES ASSUME QualityAssumption PROVE Target \in Int
  OBVIOUS
<1>1. Cardinality(Unit) \in Int
  BY UnitsCounted, SMTT(30)
<1>3. MinEvidence \in Int /\ MaxEvidence \in Int
  BY DEF QualityAssumption
<1>4. ASSUME NEW a \in Int, NEW b \in Int PROVE Max({a, b}) \in Int /\ Min({a, b}) \in Int
  <2>1. CASE a <= b
    <3>1. (\A y \in {a, b} : b >= y) /\ (\A y \in {a, b} : a <= y)
      BY <2>1
    <3> QED BY <3>1 DEF Max, Min
  <2>2. CASE b <= a
    <3>1. (\A y \in {a, b} : a >= y) /\ (\A y \in {a, b} : b <= y)
      BY <2>2
    <3> QED BY <3>1 DEF Max, Min
  <2> QED BY <2>1, <2>2
<1>5. Max({MinEvidence, Cardinality(Unit)}) \in Int
  BY <1>1, <1>3, <1>4
<1> QED BY <1>3, <1>4, <1>5 DEF Target

-------------------------------------------------------------------------------
\* A request starts with nothing seen.
LEMMA QualityStarts == QInit => QInv
<1> SUFFICES ASSUME QInit PROVE QInv
  OBVIOUS
<1>1. PICK profile \in Profiles, kind \in Questions :
        q = [pc |-> "read", profile |-> profile, kind |-> kind, unit |-> 1, reads |-> 0,
             obs |-> {}, pool |-> {}, selected |-> {}, coverage |-> <<>>,
             repaired |-> FALSE, cites |-> {}, cause |-> "none", since |-> latest]
  BY DEF QInit
<1>2. latest \in [Doc -> Nat]
  BY DEF QInit
<1>3. Shape
  BY <1>1 DEF Shape
<1>4. Counters
  BY <1>1, <1>2, FS_EmptySet, QualityAssumption DEF Counters, QualityAssumption
<1> QED BY <1>1, <1>3, <1>4 DEF QInv, Observations, PoolTraced, LoopSound, LoopDone,
           SupportedMeansRead, CitesSeen

\* The corpus grows under a request: its latest numbers only increase.
LEMMA CorpusStep ==
  ASSUME QInv, latest' \in [Doc -> Nat], \A d \in Doc : latest[d] <= latest'[d], UNCHANGED q
  PROVE  QInv'
<1>1. \A o \in q.obs : o.chunk.doc \in Doc => latest[o.chunk.doc] <= latest'[o.chunk.doc]
  OBVIOUS
<1> QED
  BY <1>1 DEF QInv, Shape, Counters, Observations, PoolTraced, LoopSound, LoopDone,
     SupportedMeansRead, CitesSeen, Traced, Carried, Target

\* A read adds observations of what is the latest now.
LEMMA ReadStep ==
  ASSUME QInv, NEW u \in Unit, NEW goOn,
         ReadFor(u, goOn),
         goOn = [q EXCEPT !.pc = goOn.pc, !.unit = goOn.unit, !.repaired = goOn.repaired],
         goOn.pc \in {"read", "rank"}, goOn.pc = "read" => goOn.unit \in Unit
  PROVE  QInv'
<1>1. PICK near \in Rankings(Embedded), content \in Hits(Eligible),
           title \in Hits({VersionOf(c) : c \in Eligible}), level \in {q.reads, -q.reads} :
        q' = [goOn EXCEPT !.reads = @ + 1,
                !.obs = @ \cup {o \in Observed(q.reads + 1, u, level, near, content, title) :
                                  o.lane \in EnabledLanes(q.profile)}]
  BY DEF ReadFor
<1> DEFINE new == {o \in Observed(q.reads + 1, u, level, near, content, title) :
                     o.lane \in EnabledLanes(q.profile)}
<1>2. \A o \in new : o.unit = u /\ o.chunk \in Eligible
  BY ObservedEligible
<1> HIDE DEF new
<1>3. Shape'
  BY <1>1 DEF QInv, Shape, new
<1>4. /\ q'.obs = q.obs \cup new /\ q'.pc = goOn.pc /\ q'.unit = goOn.unit
      /\ q'.pool = q.pool /\ q'.selected = q.selected /\ q'.cites = q.cites
      /\ q'.since = q.since
  BY <1>1 DEF QInv, Shape, new
<1>5. latest' = latest
  BY DEF ReadFor
<1>6. \A c \in Eligible : c.doc \in Doc /\ c.version = latest[c.doc]
  BY DEF Eligible, ChunksOf
<1>7. Observations'
  BY <1>2, <1>4, <1>5, <1>6 DEF QInv, Observations, Counters
<1> QED
  BY <1>3, <1>4, <1>5, <1>7 DEF QInv, Counters, PoolTraced, Traced, LoopSound, LoopDone,
     SupportedMeansRead, CitesSeen

\* Ranking starts the selection over, from a pool that goes back to the observations.
LEMMA RankStep == QualityAssumption /\ QInv /\ Rank => QInv'
<1> SUFFICES ASSUME QualityAssumption, QInv, Rank PROVE QInv'
  OBVIOUS
<1>1. latest' = latest
  BY DEF Rank
<1>2. CASE q' = [q EXCEPT !.pc = "choose", !.pool = Pool(q.obs, q.profile),
                          !.selected = {}, !.unit = 1]
  <2>1. Shape'
    BY <1>2 DEF QInv, Shape
  <2>2. /\ q'.obs = q.obs /\ q'.pc = "choose" /\ q'.unit = 1 /\ q'.since = q.since
        /\ q'.pool = Pool(q.obs, q.profile) /\ q'.selected = {} /\ q'.cites = q.cites
    BY <1>2 DEF QInv, Shape
  <2>3. PoolTraced'
    BY <2>2, PoolIsTraced DEF PoolTraced, Traced
  <2>4. 1 \in Unit
    BY DEF QualityAssumption
  <2>5. LoopSound'
    BY <2>2, <2>4, FS_EmptySet DEF LoopSound
  <2> QED
    BY <1>1, <2>1, <2>2, <2>3, <2>5, FS_EmptySet DEF QInv, Counters, Observations, LoopDone,
       SupportedMeansRead, CitesSeen
<1>3. CASE Break("clash")
  <2>1. Shape'
    BY <1>3 DEF QInv, Shape, Break
  <2>2. /\ q'.obs = q.obs /\ q'.pc = "failed" /\ q'.since = q.since
        /\ q'.pool = q.pool /\ q'.selected = q.selected /\ q'.cites = q.cites
    BY <1>3 DEF QInv, Shape, Break
  <2> QED
    BY <1>1, <2>1, <2>2 DEF QInv, Counters, Observations, PoolTraced, Traced, LoopSound,
       LoopDone, SupportedMeansRead, CitesSeen
<1> QED BY <1>2, <1>3 DEF Rank

\* What Chosen changes
LEMMA ChosenFacts ==
  ASSUME NEW S, Shape, Chosen(S)
  PROVE  /\ Shape'
         /\ q'.obs = q.obs /\ q'.pool = q.pool /\ q'.cites = q.cites /\ q'.since = q.since
         /\ q'.profile = q.profile /\ q'.selected = S /\ q'.unit = q.unit + 1
         /\ q'.pc = IF q.unit + 1 \in Unit THEN "choose" ELSE "fill"
BY DEF Shape, Chosen

\* One turn of the first loop: while the target has room for every unit, the unit of the
\* turn ends up carried if it can be, and no more than one place is used.
LEMMA ChooseStep == QualityAssumption /\ QInv /\ ChooseForUnit => QInv'
<1> SUFFICES ASSUME QualityAssumption, QInv, ChooseForUnit PROVE QInv'
  OBVIOUS
<1>1. PICK n \in 1 .. 4 : Unit = 1 .. n /\ Cardinality(Unit) = n
  BY UnitsCounted
<1>2. Target \in Int
  BY TargetIsNat
<1>3. /\ q.pc = "choose" /\ q.unit \in 1 .. n
      /\ Cardinality(q.selected) <= q.unit - 1
      /\ n <= Target => \A u \in 1 .. (q.unit - 1) : Carried(u, q.pool) => Carried(u, q.selected)
  BY <1>1 DEF ChooseForUnit, QInv, LoopSound
<1>4. Cardinality(q.selected) \in Nat
  BY <1>3, FS_CardinalityType DEF QInv, Counters
<1> DEFINE Taken(S) ==
      /\ IsFiniteSet(S) /\ S \subseteq q.pool /\ q.selected \subseteq S
      /\ Cardinality(S) <= Cardinality(q.selected) + 1
      /\ \/ Carried(q.unit, S)
         \/ MatchesOf(q.unit) = {} \/ Cardinality(q.selected) >= Target
<1>5. PICK S : Chosen(S) /\ Taken(S)
  <2>1. ASSUME NEW f \in Least(MatchesOf(q.unit), RankKey), Chosen(q.selected \cup {f})
        PROVE  \E S : Chosen(S) /\ Taken(S)
    <3>1. f \in q.pool /\ f \notin q.selected /\ q.unit \in f.units
      BY <2>1 DEF Least, MatchesOf
    <3>2. /\ IsFiniteSet(q.selected \cup {f})
          /\ Cardinality(q.selected \cup {f}) = Cardinality(q.selected) + 1
      BY <1>3, <3>1, FS_AddElement DEF QInv, Counters
    <3>3. Carried(q.unit, q.selected \cup {f})
      BY <3>1 DEF Carried
    <3>4. Taken(q.selected \cup {f})
      BY <1>3, <1>4, <3>1, <3>2, <3>3 DEF QInv, Counters
    <3> HIDE DEF Taken
    <3> QED BY <2>1, <3>4
  <2>2. ASSUME MatchesOf(q.unit) = {} \/ Cardinality(q.selected) >= Target,
               Chosen(q.selected)
        PROVE  \E S : Chosen(S) /\ Taken(S)
    <3>1. Taken(q.selected)
      BY <1>3, <1>4, <2>2 DEF QInv, Counters
    <3> HIDE DEF Taken
    <3> QED BY <2>2, <3>1
  <2> HIDE DEF Taken
  <2> QED BY <2>1, <2>2 DEF ChooseForUnit
<1>6. ASSUME n <= Target, Carried(q.unit, q.pool) PROVE Carried(q.unit, S)
  <2>1. Cardinality(q.selected) < Target
    BY <1>2, <1>3, <1>4, <1>6
  <2>2. MatchesOf(q.unit) = {} => Carried(q.unit, q.selected)
    BY <1>6 DEF MatchesOf, Carried
  <2> QED BY <1>2, <1>4, <1>5, <2>1, <2>2 DEF Carried
<1>7. n <= Target => \A u \in 1 .. q.unit : Carried(u, q.pool) => Carried(u, S)
  <2> SUFFICES ASSUME n <= Target, NEW u \in 1 .. q.unit, Carried(u, q.pool)
               PROVE  Carried(u, S)
    OBVIOUS
  <2>1. CASE u = q.unit
    BY <1>6, <2>1
  <2>2. CASE u \in 1 .. (q.unit - 1)
    BY <1>3, <1>5, <2>2 DEF Carried
  <2> QED BY <1>3, <2>1, <2>2
<1>8. /\ Shape'
      /\ q'.obs = q.obs /\ q'.pool = q.pool /\ q'.cites = q.cites /\ q'.since = q.since
      /\ q'.profile = q.profile /\ q'.selected = S /\ q'.unit = q.unit + 1
      /\ q'.pc = IF q.unit + 1 \in Unit THEN "choose" ELSE "fill"
  BY <1>5, ChosenFacts DEF QInv
<1>9. latest' = latest
  BY DEF ChooseForUnit
<1>10. Target' = Target
  BY <1>8 DEF Target
<1>11. Cardinality(S) \in Nat
  BY <1>5, FS_CardinalityType
<1>12. LoopSound'
  <2>1. q'.unit - 1 = q.unit
    BY <1>3, <1>8
  <2>2. Cardinality(q'.selected) <= q'.unit - 1
    BY <1>3, <1>4, <1>5, <1>8, <1>11
  <2>3. q'.pc = "choose" => q'.unit \in Unit
    BY <1>8
  <2>4. n <= Target => \A u \in 1 .. (q'.unit - 1) : Carried(u, q'.pool) => Carried(u, q'.selected)
    BY <1>7, <1>8, <2>1
  <2> QED BY <1>1, <1>10, <2>2, <2>3, <2>4 DEF LoopSound, Carried
<1>13. LoopDone'
  <2>1. CASE q'.pc = "fill"
    <3>1. q.unit = n
      BY <1>1, <1>3, <1>8, <2>1
    <3> QED BY <1>1, <1>7, <1>8, <1>10, <3>1 DEF LoopDone, Carried
  <2>2. CASE q'.pc # "fill"
    BY <1>8, <2>2 DEF LoopDone
  <2> QED BY <2>1, <2>2
<1>14. q'.pc \in {"choose", "fill"}
  BY <1>8
<1>15. Counters'
  BY <1>5, <1>8, <1>9, <1>14 DEF QInv, Counters
<1>16. Observations' /\ PoolTraced' /\ CitesSeen'
  BY <1>8, <1>9 DEF QInv, Observations, PoolTraced, Traced, CitesSeen
<1>17. SupportedMeansRead'
  BY <1>14 DEF SupportedMeansRead
<1> QED
  BY <1>8, <1>12, <1>13, <1>15, <1>16, <1>17 DEF QInv

\* The second loop only adds.
LEMMA FillStep == QInv /\ Fill => QInv'
<1> SUFFICES ASSUME QInv, Fill PROVE QInv'
  OBVIOUS
<1> DEFINE more == Cut(q.pool \ q.selected, RankKey, Target - Cardinality(q.selected))
<1>1. /\ Shape' /\ latest' = latest
      /\ q'.obs = q.obs /\ q'.pool = q.pool /\ q'.cites = q.cites /\ q'.since = q.since
      /\ q'.profile = q.profile /\ q'.selected = q.selected \cup more /\ q'.pc = "cover"
  BY DEF QInv, Shape, Fill
<1>2. more \subseteq q.pool
  BY DEF Cut
<1> HIDE DEF more
<1>4. Target' = Target
  BY <1>1 DEF Target
<1>5. LoopDone'
  BY <1>1, <1>4 DEF QInv, LoopDone, Carried, Fill
<1> QED
  BY <1>1, <1>2, <1>5 DEF QInv, Counters, Observations, PoolTraced, Traced, LoopSound,
     SupportedMeansRead, CitesSeen

\* The matrix says SUPPORTED only where a chosen candidate that is no manual import
\* carries the unit, and candidates go back to observations.
LEMMA CoverStep == QInv /\ Cover => QInv'
<1> SUFFICES ASSUME QInv, Cover PROVE QInv'
  OBVIOUS
<1>1. /\ Shape' /\ latest' = latest
      /\ q'.obs = q.obs /\ q'.pool = q.pool /\ q'.cites = q.cites /\ q'.since = q.since
      /\ q'.profile = q.profile /\ q'.selected = q.selected
      /\ q'.pc \in {"repair", "persist"} /\ q'.coverage = [u \in Unit |-> StatusOf(u)]
  BY DEF QInv, Shape, Cover
<1>2. Target' = Target
  BY <1>1 DEF Target
<1>3. ASSUME NEW u \in Unit, StatusOf(u) = "SUPPORTED"
      PROVE  \E f \in q.selected, o \in q.obs :
                o.unit = u /\ VersionOf(o.chunk) = f.version /\ f.version.doc \notin Manual
  <2>1. PICK f \in q.selected : u \in f.units /\ Role(f) = 0
    BY <1>3 DEF StatusOf
  <2>2. f.version.doc \notin Manual
    BY <2>1 DEF Role
  <2>3. Traced(f, q.obs)
    BY <2>1 DEF QInv, Counters, PoolTraced
  <2> QED BY <2>1, <2>2, <2>3 DEF Traced
<1>4. SupportedMeansRead'
  BY <1>1, <1>3 DEF SupportedMeansRead
<1>5. LoopDone'
  BY <1>1, <1>2 DEF QInv, LoopDone, Cover
<1> QED
  BY <1>1, <1>4, <1>5 DEF QInv, Counters, Observations, PoolTraced, Traced, LoopSound, CitesSeen

\* The citations stored are chunks that were observed.
LEMMA StoreStep == ASSUME QInv, NEW topK, Store(topK) PROVE QInv'
<1>1. latest' = latest /\ q.pc = "persist"
  BY DEF Store
<1>2. CASE Break("bound")
  <2>1. /\ Shape' /\ q'.pc = "failed" /\ q'.obs = q.obs /\ q'.pool = q.pool
        /\ q'.selected = q.selected /\ q'.cites = q.cites /\ q'.since = q.since
    BY <1>2 DEF QInv, Shape, Break
  <2> QED
    BY <1>1, <2>1 DEF QInv, Counters, Observations, PoolTraced, Traced, LoopSound, LoopDone,
       SupportedMeansRead, CitesSeen
<1>3. CASE q' = [q EXCEPT !.pc = "done", !.cites = {f.chunk : f \in q.selected}]
  <2>1. /\ Shape' /\ q'.pc = "done" /\ q'.obs = q.obs /\ q'.pool = q.pool
        /\ q'.selected = q.selected /\ q'.since = q.since /\ q'.profile = q.profile
        /\ q'.coverage = q.coverage /\ q'.cites = {f.chunk : f \in q.selected}
    BY <1>3 DEF QInv, Shape
  <2>2. CitesSeen'
    BY <2>1 DEF QInv, Counters, PoolTraced, Traced, CitesSeen
  <2>3. Target' = Target
    BY <2>1 DEF Target
  <2>4. LoopDone'
    BY <1>1, <2>1, <2>3 DEF QInv, LoopDone
  <2> QED
    BY <1>1, <2>1, <2>2, <2>4 DEF QInv, Counters, Observations, PoolTraced, Traced, LoopSound,
       SupportedMeansRead
<1> QED BY <1>2, <1>3 DEF Store

LEMMA RaiseStep == QInv /\ Raise => QInv'
<1> SUFFICES ASSUME QInv, Raise PROVE QInv'
  OBVIOUS
<1>1. /\ Shape' /\ q'.pc = "failed" /\ q'.obs = q.obs /\ q'.pool = q.pool /\ latest' = latest
      /\ q'.selected = q.selected /\ q'.cites = q.cites /\ q'.since = q.since
  BY DEF QInv, Shape, Raise, Break
<1> QED
  BY <1>1 DEF QInv, Counters, Observations, PoolTraced, Traced, LoopSound, LoopDone,
     SupportedMeansRead, CitesSeen

-------------------------------------------------------------------------------
LEMMA UnitAdvances == QualityAssumption /\ QInv /\ q.pc = "read" =>
    /\ Onward = [q EXCEPT !.pc = Onward.pc, !.unit = Onward.unit, !.repaired = Onward.repaired]
    /\ Onward.pc \in {"read", "rank"} /\ (Onward.pc = "read" => Onward.unit \in Unit)
BY DEF QInv, Shape, Onward

\* Every step keeps the invariant.
LEMMA QualityStep == QualityAssumption /\ QInv /\ [QNext]_qualityVars => QInv'
<1> SUFFICES ASSUME QualityAssumption, QInv, [QNext]_qualityVars PROVE QInv'
  OBVIOUS
<1>1. ASSUME NEW d \in Doc, Ingest(d) PROVE QInv'
  <2>1. latest' \in [Doc -> Nat] /\ (\A e \in Doc : latest[e] <= latest'[e]) /\ q' = q
    BY <1>1 DEF Ingest, QInv, Counters
  <2> QED BY <2>1, CorpusStep
<1>2. ASSUME NEW v \in Version, Embed(v) PROVE QInv'
  <2>1. latest' \in [Doc -> Nat] /\ (\A e \in Doc : latest[e] <= latest'[e]) /\ q' = q
    BY <1>2 DEF Embed, QInv, Counters
  <2> QED BY <2>1, CorpusStep
<1>3. CASE ReadUnit
  <2>1. q.pc = "read" /\ q.unit \in Unit
    BY <1>3 DEF ReadUnit, QInv, Counters
  <2> QED BY <1>3, <2>1, UnitAdvances, ReadStep DEF ReadUnit
<1>4. CASE SkipUnit
  <2>1. /\ latest' = latest /\ q' = Onward /\ q.pc = "read"
    BY <1>4 DEF SkipUnit
  <2>2. /\ Shape' /\ q'.pc \in {"read", "rank"} /\ (q'.pc = "read" => q'.unit \in Unit)
        /\ q'.obs = q.obs /\ q'.pool = q.pool /\ q'.selected = q.selected
        /\ q'.cites = q.cites /\ q'.since = q.since
    BY <2>1 DEF QInv, Shape, Onward
  <2> QED
    BY <2>1, <2>2 DEF QInv, Counters, Observations, PoolTraced, Traced, LoopSound, LoopDone,
       SupportedMeansRead, CitesSeen
<1>5. CASE Repair
  <2> DEFINE next == [q EXCEPT !.repaired = TRUE, !.pc = "rank"]
  <2>1. PICK u \in Unit : ReadFor(u, next)
    BY <1>5 DEF Repair
  <2>2. next = [q EXCEPT !.pc = next.pc, !.unit = next.unit, !.repaired = next.repaired]
        /\ next.pc = "rank"
    BY DEF QInv, Shape
  <2> QED BY <2>1, <2>2, ReadStep
<1>6. CASE UNCHANGED qualityVars
  <2>1. latest' \in [Doc -> Nat] /\ (\A e \in Doc : latest[e] <= latest'[e]) /\ q' = q
    BY <1>6 DEF qualityVars, QInv, Counters
  <2> QED BY <2>1, CorpusStep
<1>7. CASE Persist
  BY <1>7, StoreStep DEF Persist
<1> QED
  BY <1>1, <1>2, <1>3, <1>4, <1>5, <1>6, <1>7, RankStep, ChooseStep, FillStep, CoverStep,
     RaiseStep DEF QNext, Request

\* The invariant holds in every state of a request.
THEOREM QualityInvariant == QSpec => []QInv
<1>1. QualityAssumption
  BY QualityAssumption
<1> QED BY <1>1, QualityStarts, QualityStep, PTL DEF QSpec

\* No unit that retrieval found something for loses its place in the evidence, whatever
\* is found, in which order, and however the candidates rank.
THEOREM EveryUnitKeepsItsEvidence == QSpec => []SelectionKeepsEveryUnit
<1>1. QInv => SelectionKeepsEveryUnit
  BY DEF QInv, LoopDone, Carried, SelectionKeepsEveryUnit
<1> QED BY <1>1, QualityInvariant, PTL

\* SUPPORTED is never said without a fetched document read for the unit.
THEOREM SupportIsReal == QSpec => []SupportedMeansRead
<1>1. QInv => SupportedMeansRead
  BY DEF QInv
<1> QED BY <1>1, QualityInvariant, PTL

\* What a run cites was the latest of its document while the request ran.
THEOREM CitationsAreCurrent == QSpec => []CitedInTheWindow
<1>1. QInv => CitedInTheWindow
  BY DEF QInv, CitesSeen, Observations, CitedInTheWindow
<1> QED BY <1>1, QualityInvariant, PTL

-------------------------------------------------------------------------------
(***************************************************************************)
(* The evaluation of candidates: the selections that are still to be       *)
(* stored, the one in hand and the rows make up all that were wanted, and  *)
(* a run that stays has left a row that does not pass.                     *)
(***************************************************************************)
Wanted == Selections(Parents) \cup Selections(ControlsC)

\* What a sequence of a finite set's members holds, and the sequence itself
LEMMA SequenceHoldsAll ==
  ASSUME NEW S, IsFiniteSet(S)
  PROVE  SetToSeq(S) \in Seq(S) /\ InSet(SetToSeq(S)) = S
<1>1. Cardinality(S) \in Nat /\ ExistsBijection(1 .. Cardinality(S), S)
  BY FS_CardinalityType
<1>2. PICK f \in [1 .. Cardinality(S) -> S] :
        /\ \A x, y \in 1 .. Cardinality(S) : f[x] = f[y] => x = y
        /\ \A y \in S : \E x \in 1 .. Cardinality(S) : f[x] = y
  BY <1>1 DEF ExistsBijection, Bijection, Injection, Surjection, IsInjective
<1>3. f \in [1 .. Cardinality(S) -> S] /\ IsInjective(f)
  BY <1>2 DEF IsInjective
<1> DEFINE g == SetToSeq(S)
<1>4. g \in [1 .. Cardinality(S) -> S] /\ IsInjective(g)
  BY <1>3 DEF SetToSeq
<1>5. g \in Injection(1 .. Cardinality(S), S)
  BY <1>4 DEF Injection, IsInjective
<1>6. IsFiniteSet(1 .. Cardinality(S)) /\ Cardinality(1 .. Cardinality(S)) = Cardinality(S)
  BY <1>1, FS_Interval
<1>7. g \in Surjection(1 .. Cardinality(S), S)
  BY <1>5, <1>6, FS_Injection
<1>8. InSet(g) = S
  BY <1>7 DEF InSet, Surjection
<1>9. g \in Seq(S)
  BY <1>1, <1>4
<1> QED
  BY <1>8, <1>9

LEMMA MembersFinite ==
  ASSUME NEW S, NEW s \in Seq(S)
  PROVE  IsFiniteSet(InSet(s))
<1>1. DOMAIN s = 1 .. Len(s) /\ Len(s) \in Nat
  OBVIOUS
<1>2. IsFiniteSet(DOMAIN s)
  BY <1>1, FS_Interval
<1>3. s \in Surjection(DOMAIN s, InSet(s))
  BY <1>1 DEF Surjection, InSet
<1> QED
  BY <1>2, <1>3, FS_Surjection

LEMMA SelectionsFinite ==
  ASSUME NEW set \in {Parents, ControlsC}
  PROVE  IsFiniteSet(Selections(set))
<1>1. IsFiniteSet(InSet(set)) /\ IsFiniteSet(InSet(PoolSizes))
  BY EvaluationAssumption, MembersFinite
<1> DEFINE pairs == InSet(set) \X InSet(PoolSizes)
           f == [p \in pairs |-> [case |-> p[1], size |-> p[2]]]
<1>2. IsFiniteSet(pairs)
  BY <1>1, FS_Product
<1>3. \A p \in pairs : f[p] \in Selections(set)
  BY DEF Selections
<1>4. ASSUME NEW y \in Selections(set)
      PROVE  \E p \in pairs : f[p] = y
  <2>1. PICK k \in InSet(set), n \in InSet(PoolSizes) : y = [case |-> k, size |-> n]
    BY DEF Selections
  <2>2. <<k, n>> \in pairs /\ f[<<k, n>>] = y
    BY <2>1
  <2> QED
    BY <2>2
<1>5. f \in Surjection(pairs, Selections(set))
  BY <1>3, <1>4 DEF Surjection
<1> QED
  BY <1>2, <1>5, FS_Surjection

\* A list without its first entry
LEMMA HeadAndTail ==
  ASSUME NEW S, NEW s \in Seq(S), s # <<>>
  PROVE  /\ Head(s) \in S /\ Tail(s) \in Seq(S)
         /\ InSet(s) = {Head(s)} \cup InSet(Tail(s))
         /\ Len(s) = 1 => Tail(s) = <<>>
<1>1. /\ Tail(s) \in Seq(S) /\ Head(s) \in S
      /\ Len(Tail(s)) = Len(s) - 1
      /\ \A i \in 1 .. Len(Tail(s)) : Tail(s)[i] = s[i + 1]
  BY HeadTailProperties
<1>2. /\ DOMAIN s = 1 .. Len(s) /\ Len(s) \in Nat \ {0}
      /\ DOMAIN Tail(s) = 1 .. Len(Tail(s)) /\ Head(s) = s[1]
  BY <1>1, LenProperties, EmptySeq
<1>3. /\ \A i \in DOMAIN s :
           i = 1 \/ (i - 1 \in DOMAIN Tail(s) /\ Tail(s)[i - 1] = s[i])
      /\ \A i \in DOMAIN Tail(s) : i + 1 \in DOMAIN s /\ Tail(s)[i] = s[i + 1]
      /\ 1 \in DOMAIN s
  BY <1>1, <1>2
<1>4. InSet(s) = {Head(s)} \cup InSet(Tail(s))
  <2>1. InSet(s) \subseteq {Head(s)} \cup InSet(Tail(s))
    BY <1>2, <1>3 DEF InSet
  <2>2. {Head(s)} \cup InSet(Tail(s)) \subseteq InSet(s)
    BY <1>2, <1>3 DEF InSet
  <2> QED
    BY <2>1, <2>2
<1>5. Len(s) = 1 => Tail(s) = <<>>
  <2>1. Tail(s) # <<>> => Len(Tail(s)) \in Nat \ {0}
    BY <1>1, EmptySeq
  <2> QED
    BY <1>1, <2>1
<1> QED
  BY <1>1, <1>4, <1>5

\* What is put on the list is all that is wanted.
LEMMA ListHoldsAll ==
  LET s == SetToSeq(Selections(Parents)) \o SetToSeq(Selections(ControlsC)) IN
  s \in Seq(Wanted) /\ InSet(s) = Wanted
<1> DEFINE a == SetToSeq(Selections(Parents))
           c == SetToSeq(Selections(ControlsC))
<1>1. a \in Seq(Selections(Parents)) /\ InSet(a) = Selections(Parents)
  BY SelectionsFinite, SequenceHoldsAll
<1>2. c \in Seq(Selections(ControlsC)) /\ InSet(c) = Selections(ControlsC)
  BY SelectionsFinite, SequenceHoldsAll
<1>3. a \in Seq(Wanted) /\ c \in Seq(Wanted)
  BY <1>1, <1>2 DEF Wanted
<1> HIDE DEF a, c
<1>4. a \o c \in Seq(Wanted)
  BY <1>3
<1>5. InSet(a \o c) \subseteq Wanted
  BY <1>4 DEF InSet
<1>6. InSet(a) \subseteq InSet(a \o c)
  BY <1>3 DEF InSet
<1>7. InSet(c) \subseteq InSet(a \o c)
  <2> SUFFICES ASSUME NEW i \in DOMAIN c PROVE c[i] \in InSet(a \o c)
    BY DEF InSet
  <2>1. Len(a) + i \in DOMAIN (a \o c) /\ (a \o c)[Len(a) + i] = c[i]
    BY <1>3
  <2> QED
    BY <2>1 DEF InSet
<1>8. InSet(a \o c) = Wanted
  BY <1>1, <1>2, <1>5, <1>6, <1>7 DEF Wanted
<1> QED
  BY <1>4, <1>8 DEF a, c

-------------------------------------------------------------------------------
\* The selection in hand, which is the first of the list
InHandOnes == {"insert", "resolve", "remove", "recount"}

\* A row that does not pass
SomeRowFails == \E row \in rows : ~CitationOk(row)

\* What the evaluation knows of its list, its rows and the runs it stored
Accounted ==
  /\ at \in InHandOnes \cup {"count", "after", "report"} =>
       /\ todo \in Seq(Wanted)
       /\ {[case |-> row.case, size |-> row.size] : row \in rows} \cup InSet(todo) = Wanted
  /\ at \in {"parse", "before", "evaluate"} => rows = {}
  /\ at \in InHandOnes =>
       todo # <<>> /\ smoke.case = Head(todo).case /\ smoke.size = Head(todo).size
  /\ at \in {"after", "report"} => todo = <<>>
  /\ \A row \in rows : row.failure = "" => row.created
  /\ at = "insert" => ~smoke.created /\ smoke.failure = ""
  /\ at = "resolve" => smoke.created /\ smoke.failure = ""
  /\ at \in {"remove", "recount"} /\ smoke.failure = "" => smoke.created
  /\ at # "exited" => verdict.gate = "NONE"

\* Nothing stays unseen: outside of the selection in hand, a run of this tool means
\* that a row has failed.
NothingHidden ==
  /\ at \in {"parse", "before", "evaluate", "count", "insert", "after", "report"} =>
       ours = {} \/ SomeRowFails
  /\ at \in {"resolve", "remove"} =>
       ours \subseteq {<<smoke.case, smoke.size>>} \/ SomeRowFails
  /\ at = "recount" => ours = {} \/ SomeRowFails \/ smoke.cleanup # "COMPLETED"

\* The fields of the records that are changed one by one
Shaped ==
  /\ verdict = [exit |-> verdict.exit, gate |-> verdict.gate, selected |-> verdict.selected,
                report |-> verdict.report, citations |-> verdict.citations,
                flags |-> verdict.flags, unchanged |-> verdict.unchanged]
  /\ smoke = [case |-> smoke.case, size |-> smoke.size, before |-> smoke.before,
              created |-> smoke.created, failure |-> smoke.failure, cleanup |-> smoke.cleanup]

CandidateInv == Accounted /\ NothingHidden /\ Shaped /\ PassedWithNothingLeft

LEMMA CandidateInitial == EvaluationInit => CandidateInv
<1> SUFFICES ASSUME EvaluationInit PROVE CandidateInv
  OBVIOUS
<1>1. at = "parse" /\ rows = {} /\ ours = {} /\ verdict.gate = "NONE"
  BY DEF EvaluationInit
<1>2. Shaped
  BY DEF EvaluationInit, Shaped, NoSmoke
<1>3. Accounted /\ NothingHidden /\ PassedWithNothingLeft
  BY <1>1 DEF Accounted, NothingHidden, PassedWithNothingLeft, InHandOnes
<1> QED
  BY <1>2, <1>3 DEF CandidateInv

\* The evaluation ends without having passed.
LEMMA EndsWithoutPass ==
  ASSUME CandidateInv, at # "exited", at' = "exited", UNCHANGED <<rows, smoke>>,
         Shaped', verdict'.gate # "PASS"
  PROVE  CandidateInv'
  BY DEF CandidateInv, Accounted, NothingHidden, PassedWithNothingLeft, InHandOnes

LEMMA FailKeeps ==
  ASSUME CandidateInv, at # "exited", Fail, UNCHANGED <<rows, smoke>>
  PROVE  CandidateInv'
<1>1. verdict.gate = "NONE" /\ Shaped
  BY DEF CandidateInv, Accounted
<1>2. Shaped' /\ verdict'.gate # "PASS"
  BY <1>1 DEF Fail, Shaped
<1> QED
  BY <1>2, EndsWithoutPass DEF Fail

\* Nothing is stored or told: the evaluation only moves on.
LEMMA CandidateParse ==
  ASSUME CandidateInv, Parse
  PROVE  CandidateInv'
<1>1. CASE at' = "exited"
  <2>1. verdict.gate = "NONE" /\ Shaped
    BY DEF CandidateInv, Accounted, Parse
  <2>2. Shaped' /\ verdict'.gate # "PASS"
    BY <2>1 DEF Parse, Fail, Shaped
  <2> QED
    BY <1>1, <2>2, EndsWithoutPass DEF Parse
<1>2. CASE at' = "before" /\ UNCHANGED <<verdict, rows, smoke, ours>> /\ at = "parse"
  BY <1>2 DEF CandidateInv, Accounted, NothingHidden, Shaped, PassedWithNothingLeft, InHandOnes,
     SomeRowFails
<1> QED
  BY <1>1, <1>2 DEF Parse, Fail

LEMMA CandidateReads ==
  ASSUME CandidateInv, CountBefore \/ EvaluateQuery
  PROVE  CandidateInv'
<1>1. CASE Fail
  BY <1>1, FailKeeps DEF CountBefore, EvaluateQuery, Fail
<1>2. CASE /\ at \in {"before", "evaluate"} /\ at' = "evaluate"
           /\ UNCHANGED <<verdict, rows, smoke, ours>>
  BY <1>2 DEF CandidateInv, Accounted, NothingHidden, Shaped, PassedWithNothingLeft, InHandOnes,
     SomeRowFails
<1> QED
  BY <1>1, <1>2 DEF CountBefore, EvaluateQuery

LEMMA CandidateLists ==
  ASSUME CandidateInv, ReadInventory
  PROVE  CandidateInv'
<1>1. CASE Fail
  BY <1>1, FailKeeps DEF ReadInventory, Fail
<1>2. CASE ~Fail
  <2>1. /\ at = "evaluate" /\ at' = "count" /\ UNCHANGED <<verdict, rows, smoke, ours>>
        /\ todo' = SetToSeq(Selections(Parents)) \o SetToSeq(Selections(ControlsC))
    BY <1>2 DEF ReadInventory
  <2>2. todo' \in Seq(Wanted) /\ InSet(todo') = Wanted
    BY <2>1, ListHoldsAll
  <2>3. rows = {}
    BY <2>1 DEF CandidateInv, Accounted
  <2>4. {[case |-> row.case, size |-> row.size] : row \in rows'} = {}
    BY <2>1, <2>3
  <2>5. Accounted'
    BY <2>1, <2>2, <2>3, <2>4 DEF CandidateInv, Accounted, InHandOnes
  <2>6. NothingHidden' /\ Shaped' /\ PassedWithNothingLeft'
    BY <2>1 DEF CandidateInv, Accounted, NothingHidden, Shaped, PassedWithNothingLeft, SomeRowFails
  <2> QED
    BY <2>5, <2>6 DEF CandidateInv
<1> QED
  BY <1>1, <1>2

\* The selections, one after the other
LEMMA CandidateTakes ==
  ASSUME CandidateInv, CountGlobal
  PROVE  CandidateInv'
<1>1. CASE Fail
  BY <1>1, FailKeeps DEF CountGlobal, Fail, smokeVars
<1>2. CASE ~Fail
  <2>1. /\ at = "count" /\ at' = "insert" /\ todo # <<>>
        /\ smoke' = [NoSmoke EXCEPT !.case = Head(todo).case, !.size = Head(todo).size,
                                    !.before = StateCounts]
        /\ UNCHANGED <<verdict, rows, todo, ours>>
    BY <1>2 DEF CountGlobal
  <2>2. /\ smoke'.case = Head(todo).case /\ smoke'.size = Head(todo).size
        /\ smoke'.created = FALSE /\ smoke'.failure = ""
    BY <2>1 DEF NoSmoke
  <2>3. Shaped'
    BY <2>1 DEF NoSmoke, CandidateInv, Shaped
  <2>4. Accounted'
    BY <2>1, <2>2 DEF CandidateInv, Accounted, InHandOnes
  <2>5. NothingHidden' /\ PassedWithNothingLeft'
    BY <2>1 DEF CandidateInv, Accounted, NothingHidden, PassedWithNothingLeft, SomeRowFails
  <2> QED
    BY <2>3, <2>4, <2>5 DEF CandidateInv
<1> QED
  BY <1>1, <1>2

LEMMA CandidateInserts ==
  ASSUME CandidateInv, InsertRun
  PROVE  CandidateInv'
<1> DEFINE run == <<smoke.case, smoke.size>>
<1>1. /\ at = "insert" /\ at' \in {"resolve", "remove"} /\ UNCHANGED <<verdict, rows, todo>>
      /\ ours' \in {ours, ours \cup {run}}
      /\ \/ at' = "resolve" /\ smoke' = [smoke EXCEPT !.created = TRUE]
         \/ at' = "remove" /\ smoke' = [smoke EXCEPT !.failure = "ERROR"]
         \/ at' = "remove" /\ smoke' = [smoke EXCEPT !.failure = "ERROR", !.created = TRUE]
  BY DEF InsertRun, smokeVars
<1>2. Shaped /\ Accounted /\ (ours = {} \/ SomeRowFails)
  BY <1>1 DEF CandidateInv, NothingHidden
<1>3. /\ smoke'.case = smoke.case /\ smoke'.size = smoke.size /\ Shaped'
      /\ at' = "resolve" => smoke'.created /\ smoke'.failure = ""
      /\ at' = "remove" => smoke'.failure = "ERROR"
  BY <1>1, <1>2 DEF Shaped, Accounted
<1>4. Accounted'
  BY <1>1, <1>2, <1>3 DEF Accounted, InHandOnes
<1>5. NothingHidden' /\ PassedWithNothingLeft'
  BY <1>1, <1>2, <1>3 DEF Accounted, NothingHidden, PassedWithNothingLeft, SomeRowFails
<1> QED
  BY <1>3, <1>4, <1>5 DEF CandidateInv

LEMMA CandidateResolves ==
  ASSUME CandidateInv, ResolveCitations
  PROVE  CandidateInv'
<1>1. /\ at = "resolve" /\ at' = "remove" /\ UNCHANGED <<verdict, rows, todo, ours>>
      /\ smoke' \in {smoke, [smoke EXCEPT !.failure = "ERROR"]}
  BY DEF ResolveCitations, smokeVars
<1>2. Shaped /\ Accounted /\ (ours \subseteq {<<smoke.case, smoke.size>>} \/ SomeRowFails)
  BY <1>1 DEF CandidateInv, NothingHidden
<1>3. /\ smoke'.case = smoke.case /\ smoke'.size = smoke.size /\ Shaped'
      /\ smoke'.failure = "" => smoke'.created
  BY <1>1, <1>2 DEF Shaped, Accounted
<1>4. Accounted'
  BY <1>1, <1>2, <1>3 DEF Accounted, InHandOnes
<1>5. NothingHidden' /\ PassedWithNothingLeft'
  BY <1>1, <1>2, <1>3 DEF Accounted, NothingHidden, PassedWithNothingLeft, SomeRowFails
<1> QED
  BY <1>3, <1>4, <1>5 DEF CandidateInv

LEMMA CandidateRemoves ==
  ASSUME CandidateInv, RemoveRun
  PROVE  CandidateInv'
<1>1. /\ at = "remove" /\ at' = "recount" /\ UNCHANGED <<verdict, rows, todo>>
      /\ \/ /\ ours' = ours \ {<<smoke.case, smoke.size>>}
            /\ smoke' = [smoke EXCEPT !.cleanup = "COMPLETED"]
         \/ smoke' = [smoke EXCEPT !.cleanup = "FAILED_SAFE"]
  BY DEF RemoveRun, smokeVars
<1>2. Shaped /\ Accounted /\ (ours \subseteq {<<smoke.case, smoke.size>>} \/ SomeRowFails)
  BY <1>1 DEF CandidateInv, NothingHidden
<1>3. /\ smoke'.case = smoke.case /\ smoke'.size = smoke.size /\ Shaped'
      /\ smoke'.failure = smoke.failure /\ smoke'.created = smoke.created
      /\ smoke'.cleanup = "FAILED_SAFE" \/ ours' = ours \ {<<smoke.case, smoke.size>>}
  BY <1>1, <1>2 DEF Shaped
<1>4. Accounted'
  BY <1>1, <1>2, <1>3 DEF Accounted, InHandOnes
<1>5. NothingHidden' /\ PassedWithNothingLeft'
  BY <1>1, <1>2, <1>3 DEF Accounted, NothingHidden, PassedWithNothingLeft, SomeRowFails
<1> QED
  BY <1>3, <1>4, <1>5 DEF CandidateInv

LEMMA CandidateRecounts ==
  ASSUME CandidateInv, Recount
  PROVE  CandidateInv'
<1> DEFINE sel(set) == {[case |-> row.case, size |-> row.size] : row \in set}
<1>1. CASE Fail /\ at' = "exited"
  BY <1>1, FailKeeps DEF Recount, smokeVars
<1>2. CASE at' # "exited"
  <2> DEFINE match == smoke.before = StateCounts
             new == SmokeRow(match)
  <2>1. /\ at = "recount" /\ UNCHANGED <<verdict, ours>>
        /\ rows' = rows \cup {new} /\ todo' = Tail(todo) /\ smoke' = NoSmoke
        /\ at' = IF Len(todo) = 1 THEN "after" ELSE "count"
    BY <1>2 DEF Recount, Fail, smokeVars
  <2>2. /\ Accounted /\ Shaped /\ (ours = {} \/ SomeRowFails \/ smoke.cleanup # "COMPLETED")
        /\ todo \in Seq(Wanted) /\ sel(rows) \cup InSet(todo) = Wanted
        /\ todo # <<>> /\ smoke.case = Head(todo).case /\ smoke.size = Head(todo).size
        /\ smoke.failure = "" => smoke.created
    BY <2>1 DEF CandidateInv, NothingHidden, Accounted, InHandOnes
  <2>3. /\ new.case = Head(todo).case /\ new.size = Head(todo).size
        /\ new.failure = "" => new.created
        /\ new.cleanup = smoke.cleanup
    BY <2>2 DEF SmokeRow
  <2>4. Head(todo) \in Wanted /\ [case |-> new.case, size |-> new.size] = Head(todo)
    <3>1. Head(todo) \in Wanted
      BY <2>2, HeadAndTail
    <3>2. Head(todo) = [case |-> Head(todo).case, size |-> Head(todo).size]
      BY <3>1 DEF Wanted, Selections
    <3> QED
      BY <3>1, <3>2, <2>3
  <2>5. /\ Tail(todo) \in Seq(Wanted) /\ InSet(todo) = {Head(todo)} \cup InSet(Tail(todo))
        /\ Len(todo) = 1 => Tail(todo) = <<>>
    BY <2>2, HeadAndTail
  <2>6. sel(rows') = sel(rows) \cup {Head(todo)}
    BY <2>1, <2>4
  <2>7. sel(rows') \cup InSet(todo') = Wanted
    BY <2>1, <2>2, <2>5, <2>6
  <2>8. at' = "after" => todo' = <<>>
    BY <2>1, <2>5
  <2>9. \A row \in rows' : row.failure = "" => row.created
    BY <2>1, <2>2, <2>3 DEF Accounted
  <2>10. Accounted'
    BY <2>1, <2>2, <2>5, <2>7, <2>8, <2>9 DEF Accounted, InHandOnes
  <2>11. (ours = {} \/ SomeRowFails)'
    BY <2>1, <2>2, <2>3 DEF SomeRowFails, CitationOk
  <2>12. NothingHidden' /\ PassedWithNothingLeft' /\ Shaped'
    BY <2>1, <2>2, <2>11 DEF NothingHidden, PassedWithNothingLeft, Shaped, NoSmoke, Accounted
  <2> QED
    BY <2>10, <2>12 DEF CandidateInv
<1> QED
  BY <1>1, <1>2 DEF Recount, Fail

LEMMA CandidateStops ==
  ASSUME CandidateInv, Interrupt
  PROVE  CandidateInv'
<1>1. /\ at # "exited" /\ at' = "exited" /\ UNCHANGED <<rows, smoke>>
      /\ verdict' = [verdict EXCEPT !.exit = "interrupted"]
  BY DEF Interrupt, smokeVars
<1>2. verdict.gate = "NONE" /\ Shaped
  BY <1>1 DEF CandidateInv, Accounted
<1>3. Shaped' /\ verdict'.gate # "PASS"
  BY <1>1, <1>2 DEF Shaped
<1> QED
  BY <1>1, <1>3, EndsWithoutPass

LEMMA CandidateCounts ==
  ASSUME CandidateInv, CountAfter
  PROVE  CandidateInv'
<1>1. CASE Fail
  BY <1>1, FailKeeps DEF CountAfter, Fail
<1>2. CASE at = "after" /\ at' = "report" /\ UNCHANGED <<verdict, rows, smoke, ours, todo>>
  BY <1>2 DEF CandidateInv, Accounted, NothingHidden, Shaped, PassedWithNothingLeft, InHandOnes,
     SomeRowFails
<1> QED
  BY <1>1, <1>2 DEF CountAfter

LEMMA CandidateMovesOn ==
  ASSUME CandidateInv, OtherClient \/ UNCHANGED evaluationVars
  PROVE  CandidateInv'
<1>1. UNCHANGED <<at, verdict, rows, smoke, ours, todo>>
  BY DEF OtherClient, evaluationVars
<1> QED
  BY <1>1 DEF CandidateInv, Accounted, NothingHidden, Shaped, PassedWithNothingLeft, InHandOnes,
     SomeRowFails

\* The gate passes only if every row does.
LEMMA GateLooksAtRows ==
  ASSUME Gate.pass
  PROVE  ~SomeRowFails
<1>1. \A row \in rows : CitationOk(row)
  BY DEF Gate
<1> QED
  BY <1>1 DEF SomeRowFails

LEMMA CandidateReports ==
  ASSUME CandidateInv, WriteReports
  PROVE  CandidateInv'
<1>1. CASE Fail
  BY <1>1, FailKeeps DEF WriteReports
<1>2. CASE ~Fail
  <2>1. /\ at = "report" /\ at' = "exited" /\ UNCHANGED <<rows, smoke, ours, todo>>
        /\ verdict' = [exit |-> "0", gate |-> IF Gate.pass THEN "PASS" ELSE "NO_GO",
                       selected |-> Gate.size, report |-> {Report},
                       citations |-> rows, flags |-> {RuntimeFlags(settings)},
                       unchanged |-> {stateBefore = stateAfter}]
    BY <1>2 DEF WriteReports
  <2>2. /\ verdict'.citations = rows /\ Shaped'
        /\ verdict'.gate = "PASS" => Gate.pass
    BY <2>1 DEF CandidateInv, Shaped
  <2>3. CASE verdict'.gate # "PASS"
    BY <2>1, <2>2, <2>3, EndsWithoutPass
  <2>4. CASE verdict'.gate = "PASS"
    <3>1. ~SomeRowFails
      BY <2>2, <2>4, GateLooksAtRows
    <3>2. ours = {} /\ todo = <<>>
      BY <2>1, <3>1 DEF CandidateInv, Accounted, NothingHidden
    <3>3. InSet(todo) = {}
      BY <3>2 DEF InSet
    <3>4. {[case |-> row.case, size |-> row.size] : row \in rows} = Wanted
      BY <2>1, <3>3 DEF CandidateInv, Accounted
    <3>5. \A row \in rows : row.created
      BY <3>1 DEF SomeRowFails, CitationOk, CandidateInv, Accounted
    <3>6. PassedWithNothingLeft'
      <4>1. {r \in rows : r.created} = rows
        BY <3>5
      <4>2. ours' = {} /\ verdict'.citations = rows
        BY <2>1, <2>2, <3>2
      <4> QED
        BY <3>4, <4>1, <4>2 DEF PassedWithNothingLeft, Wanted
    <3>7. Accounted' /\ NothingHidden'
      BY <2>1 DEF CandidateInv, Accounted, NothingHidden, InHandOnes
    <3> QED
      BY <2>2, <3>6, <3>7 DEF CandidateInv
  <2> QED
    BY <2>3, <2>4
<1> QED
  BY <1>1, <1>2

LEMMA CandidateNext ==
  ASSUME CandidateInv, [EvaluationNext]_evaluationVars
  PROVE  CandidateInv'
BY CandidateParse, CandidateReads, CandidateLists, CandidateTakes, CandidateInserts,
   CandidateResolves, CandidateRemoves, CandidateRecounts, CandidateStops, CandidateCounts,
   CandidateMovesOn, CandidateReports DEF EvaluationNext

\* PASS means that every selection was stored, resolved and removed again, whatever failed
\* before and whatever other clients did to the counts.
THEOREM PassLeavesNothing == EvaluationSpec => []PassedWithNothingLeft
<1>1. CandidateInv => PassedWithNothingLeft
  BY DEF CandidateInv
<1> QED
  BY <1>1, CandidateInitial, CandidateNext, PTL DEF EvaluationSpec

-------------------------------------------------------------------------------
(***************************************************************************)
(* Sorting, filtering and cutting, as the repositories do it.  InOrder has *)
(* a CHOOSE for each place: that it lists its domain, each member once and *)
(* smaller keys first, comes from counting what stands before a member.    *)
(***************************************************************************)

\* No two members of the domain of key have one key, and Before orders the keys.
Orders(key) ==
  LET S == DOMAIN key IN
  /\ \A x \in S : ~Before(key[x], key[x])
  /\ \A x, y, z \in S : Before(key[x], key[y]) /\ Before(key[y], key[z]) => Before(key[x], key[z])
  /\ \A x, y \in S : x # y => Before(key[x], key[y]) \/ Before(key[y], key[x])

\* s lists the members of S, each once.
Lists(s, S) ==
  /\ s \in Seq(S)
  /\ \A x \in S : \E i \in DOMAIN s : s[i] = x
  /\ \A i, j \in DOMAIN s : s[i] = s[j] => i = j

\* sorted() lists its input, smaller keys first.
LEMMA InOrderLists ==
  ASSUME NEW key, IsFiniteSet(DOMAIN key), Orders(key)
  PROVE  /\ Lists(InOrder(key), DOMAIN key)
         /\ Len(InOrder(key)) = Cardinality(DOMAIN key)
         /\ \A i, j \in DOMAIN InOrder(key) :
              i < j => Before(key[InOrder(key)[i]], key[InOrder(key)[j]])
<1> DEFINE S == DOMAIN key
           N == Cardinality(S)
           below(x) == {y \in S : Before(key[y], key[x])}
           pos == [x \in S |-> Cardinality(below(x)) + 1]
           order == InOrder(key)
<1>0. order = [i \in 1 .. N |-> CHOOSE z \in S : Cardinality(below(z)) = i - 1]
  BY DEF InOrder
<1> HIDE DEF order
<1>1. N \in Nat
  BY FS_CardinalityType
<1>2. ASSUME NEW x \in S
      PROVE  /\ below(x) \in SUBSET S /\ IsFiniteSet(below(x))
             /\ Cardinality(below(x)) \in Nat /\ Cardinality(below(x)) < N
  <2>1. below(x) \in SUBSET S
    OBVIOUS
  <2>2. x \notin below(x)
    BY DEF Orders
  <2> HIDE DEF below
  <2>3. IsFiniteSet(below(x)) /\ Cardinality(below(x)) <= N
        /\ (Cardinality(S) = Cardinality(below(x)) => S = below(x))
    BY <2>1, FS_Subset
  <2>4. Cardinality(below(x)) \in Nat
    BY <2>3, FS_CardinalityType
  <2> QED BY <1>1, <2>1, <2>2, <2>3, <2>4
<1>3. ASSUME NEW x \in S, NEW y \in S, Before(key[x], key[y])
      PROVE  Cardinality(below(x)) < Cardinality(below(y))
  <2>1. below(x) \in SUBSET below(y)
    BY <1>3 DEF Orders
  <2>2. x \in below(y) /\ x \notin below(x)
    BY <1>3 DEF Orders
  <2>3. IsFiniteSet(below(y)) /\ Cardinality(below(x)) \in Nat /\ Cardinality(below(y)) \in Nat
    BY <1>2
  <2> HIDE DEF below
  <2>4. Cardinality(below(x)) <= Cardinality(below(y))
        /\ (Cardinality(below(y)) = Cardinality(below(x)) => below(y) = below(x))
    BY <2>1, <2>3, FS_Subset
  <2> QED BY <2>2, <2>3, <2>4
<1> HIDE DEF below
<1>4. \A x \in S : pos[x] \in 1 .. N
  BY <1>1, <1>2
<1>5. \A x, y \in S : pos[x] = pos[y] => x = y
  BY <1>2, <1>3 DEF Orders
<1>6. pos \in Injection(S, 1 .. N)
  BY <1>4, <1>5 DEF Injection, IsInjective
<1>7. IsFiniteSet(1 .. N) /\ Cardinality(1 .. N) = N
  BY <1>1, FS_Interval
<1>8. pos \in Surjection(S, 1 .. N)
  BY <1>6, <1>7, FS_Injection
<1>9. ASSUME NEW i \in 1 .. N PROVE order[i] \in S /\ pos[order[i]] = i
  <2>1. PICK x \in S : pos[x] = i
    BY <1>8 DEF Surjection
  <2>2. Cardinality(below(x)) = i - 1
    BY <1>2, <2>1
  <2>3. order[i] = CHOOSE z \in S : Cardinality(below(z)) = i - 1
    BY <1>0
  <2>4. order[i] \in S /\ Cardinality(below(order[i])) = i - 1
    BY <2>2, <2>3
  <2>5. pos[order[i]] = (i - 1) + 1
    BY <2>4
  <2> QED BY <2>4, <2>5
<1>10. DOMAIN order = 1 .. N /\ order = [i \in 1 .. N |-> order[i]]
  BY <1>0
<1>15. \A x \in S : pos[x] = Cardinality(below(x)) + 1
  OBVIOUS
<1> HIDE DEF order, pos
<1>11. order \in Seq(S) /\ Len(order) = N
  BY <1>1, <1>9, <1>10
<1>12. \A x \in S : order[pos[x]] = x
  BY <1>4, <1>5, <1>9
<1>13. Lists(order, S)
  <2>1. \A x \in S : pos[x] \in DOMAIN order /\ order[pos[x]] = x
    BY <1>4, <1>10, <1>12
  <2>2. \A i, j \in DOMAIN order : order[i] = order[j] => i = j
    BY <1>9, <1>10
  <2> QED BY <1>11, <2>1, <2>2 DEF Lists
<1>14. ASSUME NEW i \in 1 .. N, NEW j \in 1 .. N, i < j
       PROVE  Before(key[order[i]], key[order[j]])
  <2> DEFINE x == order[i]
             y == order[j]
  <2>1. x \in S /\ y \in S /\ pos[x] = i /\ pos[y] = j
    BY <1>9
  <2> HIDE DEF x, y
  <2>2. x # y
    BY <1>14, <2>1
  <2>3. CASE Before(key[y], key[x])
    <3>1. Cardinality(below(y)) + 1 = j /\ Cardinality(below(x)) + 1 = i
      BY <1>15, <2>1
    <3> QED BY <1>2, <1>3, <1>14, <2>1, <2>3, <3>1
  <2> QED BY <2>1, <2>2, <2>3 DEF Orders, x, y
<1> QED BY <1>10, <1>11, <1>13, <1>14 DEF order

LEMMA BeforeOne ==
  ASSUME NEW a \in Int, NEW b \in Int
  PROVE  Before(<<a>>, <<b>>) <=> a < b
<1>1. DOMAIN <<a>> = {1} /\ 1 .. (1 - 1) = {}
  OBVIOUS
<1>2. Before(<<a>>, <<b>>) <=> <<a>>[1] < <<b>>[1]
  BY <1>1 DEF Before
<1> QED BY <1>2

LEMMA BeforeTwo ==
  ASSUME NEW a \in Int, NEW b \in Int, NEW c \in Int, NEW d \in Int
  PROVE  Before(<<a, b>>, <<c, d>>) <=> a < c \/ (a = c /\ b < d)
<1>1. DOMAIN <<a, b>> = {1, 2}
  OBVIOUS
<1>2. 1 .. (1 - 1) = {} /\ 1 .. (2 - 1) = {1}
  OBVIOUS
<1> QED BY <1>1, <1>2 DEF Before

LEMMA BeforeThree ==
  ASSUME NEW a \in Int, NEW b \in Int, NEW c \in Int, NEW d \in Int, NEW e \in Int, NEW f \in Int
  PROVE  Before(<<a, b, c>>, <<d, e, f>>) <=>
           a < d \/ (a = d /\ (b < e \/ (b = e /\ c < f)))
<1>1. DOMAIN <<a, b, c>> = {1, 2, 3}
  OBVIOUS
<1>2. 1 .. (1 - 1) = {} /\ 1 .. (2 - 1) = {1} /\ 1 .. (3 - 1) = {1, 2}
  OBVIOUS
<1> QED BY <1>1, <1>2 DEF Before

LEMMA KeysOfOne ==
  ASSUME NEW key, \A x \in DOMAIN key : key[x] = <<x>>, DOMAIN key \subseteq Int
  PROVE  Orders(key)
BY BeforeOne DEF Orders

\* Keys that end with what they are the key of are different.
LEMMA KeysOfTwo ==
  ASSUME NEW key, \A x \in DOMAIN key : x \in Int /\ \E a \in Int : key[x] = <<a, x>>
  PROVE  Orders(key)
<1>1. \A x, y \in DOMAIN key : \E a, b \in Int :
        key[x] = <<a, x>> /\ key[y] = <<b, y>> /\ x \in Int /\ y \in Int
  OBVIOUS
<1> QED BY BeforeTwo DEF Orders

\* Triples of numbers are ordered.
LEMMA TripleIs ==
  ASSUME NEW p \in Int \X Int \X Int, NEW r \in Int \X Int \X Int
  PROVE  Before(p, r) <=>
           p[1] < r[1] \/ (p[1] = r[1] /\ (p[2] < r[2] \/ (p[2] = r[2] /\ p[3] < r[3])))
<1>1. p = <<p[1], p[2], p[3]>> /\ p[1] \in Int /\ p[2] \in Int /\ p[3] \in Int
  OBVIOUS
<1>2. r = <<r[1], r[2], r[3]>> /\ r[1] \in Int /\ r[2] \in Int /\ r[3] \in Int
  OBVIOUS
<1> DEFINE p1 == p[1] p2 == p[2] p3 == p[3] r1 == r[1] r2 == r[2] r3 == r[3]
<1> HIDE DEF p1, p2, p3, r1, r2, r3
<1>3. Before(<<p1, p2, p3>>, <<r1, r2, r3>>) <=>
        p1 < r1 \/ (p1 = r1 /\ (p2 < r2 \/ (p2 = r2 /\ p3 < r3)))
  <2>1. p1 \in Int /\ p2 \in Int /\ p3 \in Int /\ r1 \in Int /\ r2 \in Int /\ r3 \in Int
    BY <1>1, <1>2 DEF p1, p2, p3, r1, r2, r3
  <2> QED BY <2>1, BeforeThree
<1> QED BY <1>1, <1>2, <1>3 DEF p1, p2, p3, r1, r2, r3

LEMMA TriplesOrdered ==
  ASSUME NEW p \in Int \X Int \X Int, NEW r \in Int \X Int \X Int, NEW s \in Int \X Int \X Int
  PROVE  /\ ~Before(p, p)
         /\ Before(p, r) /\ Before(r, s) => Before(p, s)
         /\ p # r => Before(p, r) \/ Before(r, p)
<1>1. /\ p[1] \in Int /\ p[2] \in Int /\ p[3] \in Int
      /\ r[1] \in Int /\ r[2] \in Int /\ r[3] \in Int
      /\ s[1] \in Int /\ s[2] \in Int /\ s[3] \in Int
  OBVIOUS
<1>2. ~Before(p, p)
  BY <1>1, TripleIs
<1>3. ASSUME Before(p, r), Before(r, s) PROVE Before(p, s)
  <2>1. p[1] < r[1] \/ (p[1] = r[1] /\ (p[2] < r[2] \/ (p[2] = r[2] /\ p[3] < r[3])))
    BY <1>3, TripleIs
  <2>2. r[1] < s[1] \/ (r[1] = s[1] /\ (r[2] < s[2] \/ (r[2] = s[2] /\ r[3] < s[3])))
    BY <1>3, TripleIs
  <2>3. p[1] < s[1] \/ (p[1] = s[1] /\ (p[2] < s[2] \/ (p[2] = s[2] /\ p[3] < s[3])))
    BY <1>1, <2>1, <2>2
  <2> QED BY <2>3, TripleIs
<1>4. ASSUME p # r PROVE Before(p, r) \/ Before(r, p)
  <2>1. ~(p[1] = r[1] /\ p[2] = r[2] /\ p[3] = r[3])
    BY <1>4
  <2>2. \/ p[1] < r[1] \/ (p[1] = r[1] /\ (p[2] < r[2] \/ (p[2] = r[2] /\ p[3] < r[3])))
        \/ r[1] < p[1] \/ (r[1] = p[1] /\ (r[2] < p[2] \/ (r[2] = p[2] /\ r[3] < p[3])))
    BY <1>1, <2>1
  <2> QED BY <2>2, TripleIs
<1> QED BY <1>2, <1>3, <1>4

LEMMA KeysOfThree ==
  ASSUME NEW key,
         \A x \in DOMAIN key : \E a, b, c \in Int : key[x] = <<a, b, c>>,
         \A x, y \in DOMAIN key : key[x] = key[y] => x = y
  PROVE  Orders(key)
<1>1. \A x \in DOMAIN key : key[x] \in Int \X Int \X Int
  OBVIOUS
<1> QED BY <1>1, TriplesOrdered DEF Orders

\* s[:n]
LEMMA FirstIs ==
  ASSUME NEW S, NEW s \in Seq(S), NEW n \in Nat
  PROVE  /\ First(s, n) \in Seq(S) /\ Len(First(s, n)) <= n /\ Len(First(s, n)) <= Len(s)
         /\ Len(First(s, n)) = (IF Len(s) < n THEN Len(s) ELSE n)
         /\ \A i \in DOMAIN First(s, n) : i \in DOMAIN s /\ i <= n /\ First(s, n)[i] = s[i]
         /\ \A i \in DOMAIN s : i <= n => i \in DOMAIN First(s, n) /\ First(s, n)[i] = s[i]
         /\ Len(First(s, n)) < n => First(s, n) = s
<1> DEFINE m == IF Len(s) < n THEN Len(s) ELSE n
<1>1. m \in Nat /\ m <= n /\ m <= Len(s)
  OBVIOUS
<1>2. First(s, n) = [i \in 1 .. m |-> s[i]]
  <2>1. First(s, n) = SubSeq(s, 1, m)
    BY DEF First
  <2> HIDE DEF m
  <2>2. SubSeq(s, 1, m) = [i \in 1 .. m |-> s[i]]
    BY <1>1
  <2> QED BY <2>1, <2>2
<1>3. DOMAIN s = 1 .. Len(s) /\ \A i \in 1 .. Len(s) : s[i] \in S
  OBVIOUS
<1>4. First(s, n) \in Seq(S) /\ Len(First(s, n)) = m /\ DOMAIN First(s, n) = 1 .. m
      /\ \A i \in 1 .. m : First(s, n)[i] = s[i]
  <2> HIDE DEF m
  <2> QED BY <1>1, <1>2, <1>3
<1>5. m < n => m = Len(s)
  OBVIOUS
<1>6. Len(First(s, n)) < n => First(s, n) = s
  <2> HIDE DEF m
  <2>1. SUFFICES ASSUME m < n PROVE First(s, n) = s
    BY <1>4
  <2>2. Len(First(s, n)) = Len(s) /\ \A i \in 1 .. Len(s) : First(s, n)[i] = s[i]
    BY <1>4, <1>5, <2>1
  <2> QED BY <1>4, <2>2
<1>7. \A i \in 1 .. m : i \in DOMAIN s /\ i <= n
  BY <1>3
<1>8. \A i \in DOMAIN s : i <= n => i \in 1 .. m
  BY <1>3
<1>9. Len(First(s, n)) = (IF Len(s) < n THEN Len(s) ELSE n)
  BY <1>4
<1> HIDE DEF m
<1> QED BY <1>1, <1>4, <1>6, <1>7, <1>8, <1>9

LEMMA AscendingLists ==
  ASSUME NEW I \in SUBSET Int, IsFiniteSet(I)
  PROVE  Lists(Ascending(I), I) /\ Len(Ascending(I)) = Cardinality(I)
<1> DEFINE key == [i \in I |-> <<i>>]
<1>1. DOMAIN key = I /\ \A x \in I : key[x] = <<x>>
  OBVIOUS
<1> HIDE DEF key
<1>2. Orders(key)
  BY <1>1, KeysOfOne
<1>3. Lists(InOrder(key), I) /\ Len(InOrder(key)) = Cardinality(I)
  BY <1>1, <1>2, InOrderLists
<1> QED BY <1>3 DEF Ascending, key

\* [x for x in s if ...]
LEMMA AtIs ==
  ASSUME NEW S, NEW s \in Seq(S), NEW I \in SUBSET DOMAIN s
  PROVE  /\ At(s, I) \in Seq(S) /\ Len(At(s, I)) <= Len(s)
         /\ \A i \in I : \E k \in DOMAIN At(s, I) : At(s, I)[k] = s[i]
         /\ \A k \in DOMAIN At(s, I) : \E i \in I : At(s, I)[k] = s[i]
<1> DEFINE order == Ascending(I)
<1>1. DOMAIN s = 1 .. Len(s) /\ Len(s) \in Nat /\ \A i \in DOMAIN s : s[i] \in S
  OBVIOUS
<1>2. I \in SUBSET (1 .. Len(s)) /\ I \in SUBSET Int
  BY <1>1
<1>3. IsFiniteSet(1 .. Len(s)) /\ Cardinality(1 .. Len(s)) = Len(s)
  <2>1. ASSUME NEW m \in Nat PROVE IsFiniteSet(1 .. m) /\ Cardinality(1 .. m) = m
    <3>1. 1 \in Int /\ m \in Int
      OBVIOUS
    <3>2. IsFiniteSet(1 .. m) /\ Cardinality(1 .. m) = IF 1 > m THEN 0 ELSE m - 1 + 1
      BY <3>1, FS_Interval
    <3> QED BY <3>2
  <2> QED BY <1>1, <2>1
<1>4. IsFiniteSet(I) /\ Cardinality(I) <= Len(s)
  BY <1>2, <1>3, FS_Subset
<1>5. Lists(order, I) /\ Len(order) = Cardinality(I)
  BY <1>2, <1>4, AscendingLists
<1>6. At(s, I) = [k \in DOMAIN order |-> s[order[k]]]
  BY DEF At
<1> HIDE DEF order
<1>7. order \in Seq(I) /\ DOMAIN order = 1 .. Len(order) /\ \A k \in DOMAIN order : order[k] \in I
  BY <1>5 DEF Lists
<1>8. At(s, I) \in Seq(S) /\ DOMAIN At(s, I) = DOMAIN order /\ Len(At(s, I)) = Len(order)
      /\ \A k \in DOMAIN order : At(s, I)[k] = s[order[k]]
  <2> DEFINE n == Len(order)
  <2>1. n \in Nat /\ \A k \in 1 .. n : order[k] \in I /\ s[order[k]] \in S
    BY <1>1, <1>7
  <2>2. At(s, I) = [k \in 1 .. n |-> s[order[k]]]
    BY <1>6, <1>7
  <2>3. DOMAIN order = 1 .. n
    BY <1>7
  <2> HIDE DEF n
  <2>4. At(s, I) \in Seq(S) /\ DOMAIN At(s, I) = 1 .. n /\ Len(At(s, I)) = n
    BY <2>1, <2>2
  <2> QED BY <2>2, <2>3, <2>4 DEF n
<1>9. \A i \in I : \E k \in DOMAIN order : order[k] = i
  BY <1>5 DEF Lists
<1> QED BY <1>4, <1>5, <1>7, <1>8, <1>9

LEMMA PlaceIs ==
  ASSUME NEW S, NEW s \in Seq(S), NEW x \in ToSet(s)
  PROVE  PlaceOf(s, x) \in 1 .. Len(s) /\ s[PlaceOf(s, x)] = x
<1>1. \E i \in DOMAIN s : s[i] = x
  BY DEF ToSet
<1> QED BY <1>1 DEF PlaceOf

-------------------------------------------------------------------------------
(***************************************************************************)
(* Fusion: what is sorted by score and cut keeps the best raw match.       *)
(***************************************************************************)

\* A lane of a fusion ranks members of S.
IsLane(lane, S) == lane.weight \in Nat /\ lane.ids \in Seq(S)

LEMMA ShareIs ==
  ASSUME NEW S, NEW lane, IsLane(lane, S), NEW x
  PROVE  RRFShare(lane, x) \in Int
<1>1. CASE x \in ToSet(lane.ids)
  <2>1. PlaceOf(lane.ids, x) \in Nat
    BY <1>1, PlaceIs DEF IsLane
  <2>2. lane.weight * 61 * 62 * 63 * 64 \in Int
    BY DEF IsLane
  <2> QED BY <1>1, <2>1, <2>2 DEF RRFShare
<1>2. CASE x \notin ToSet(lane.ids)
  BY <1>2 DEF RRFShare
<1> QED BY <1>1, <1>2

LEMMA ScoreIs ==
  ASSUME NEW S, NEW lanes, \A k \in 1 .. 3 : IsLane(lanes[k], S), NEW x
  PROVE  Score(lanes, x) \in Int
<1>1. IsLane(lanes[1], S) /\ IsLane(lanes[2], S) /\ IsLane(lanes[3], S)
  OBVIOUS
<1> QED BY <1>1, ShareIs DEF Score

\* The weight of one arm: the first two places, and the third or a later one
LEMMA SharesByPlace ==
  ASSUME NEW p \in Nat
  PROVE  /\ p \in {1, 2} => (1 * 61 * 62 * 63 * 64) \div (60 + p) >= 245952
         /\ p >= 3 => /\ (1 * 61 * 62 * 63 * 64) \div (60 + p) >= 0
                      /\ (1 * 61 * 62 * 63 * 64) \div (60 + p) <= 242048
<1>1. CASE p = 1
  BY <1>1
<1>2. CASE p = 2
  BY <1>2
<1>3. CASE p >= 3
  <2> DEFINE share == (1 * 61 * 62 * 63 * 64) \div (60 + p)
  <2>1. share \in Int /\ share * (60 + p) <= 15249024 /\ 15249024 < (share + 1) * (60 + p)
    BY <1>3, Z3
  <2> HIDE DEF share
  <2>2. share >= 0
    BY <2>1
  <2>3. share * 63 <= share * (60 + p)
    BY <1>3, <2>1, <2>2
  <2>4. share <= 242048
    BY <2>1, <2>2, <2>3
  <2> QED BY <1>3, <2>2, <2>4 DEF share
<1> QED BY <1>1, <1>2, <1>3

\* Sorting a finite set of chunks by the key of a fusion
LEMMA FusedOrder ==
  ASSUME NEW lanes, \A k \in 1 .. 3 : IsLane(lanes[k], Chunk), NEW raw, NEW found \in SUBSET Chunk
  PROVE  /\ Lists(InOrder([c \in found |-> LexicalKey(lanes, raw, c)]), found)
         /\ Len(InOrder([c \in found |-> LexicalKey(lanes, raw, c)])) = Cardinality(found)
<1> DEFINE key == [c \in found |-> LexicalKey(lanes, raw, c)]
<1>1. DOMAIN key = found /\ IsFiniteSet(found)
  <2>1. IsFiniteSet(Chunk)
    BY RankedAssumption DEF RankedAssumption
  <2> QED BY <2>1, FS_Subset
<1>2. ASSUME NEW c \in found
      PROVE  \E a, b \in Int : key[c] = <<a, b, c>> /\ c \in Int
  <2> DEFINE a == -Score(lanes, c)
             b == IF c \in ToSet(raw) THEN 0 ELSE 1
  <2>1. a \in Int /\ b \in Int /\ c \in Int
    <3>1. Score(lanes, c) \in Int
      BY ScoreIs
    <3>2. c \in Int
      BY RankedAssumption DEF RankedAssumption
    <3>3. -Score(lanes, c) \in Int
      BY <3>1
    <3> QED BY <3>2, <3>3
  <2>2. key[c] = <<a, b, c>>
    BY DEF LexicalKey
  <2> HIDE DEF a, b, key
  <2> QED BY <2>1, <2>2
<1> HIDE DEF key
<1>3. \A x \in DOMAIN key : \E a, b, c \in Int : key[x] = <<a, b, c>>
  BY <1>1, <1>2
<1>4. \A x, y \in DOMAIN key : key[x] = key[y] => x = y
  <2> SUFFICES ASSUME NEW x \in found, NEW y \in found, key[x] = key[y] PROVE x = y
    BY <1>1
  <2>1. PICK a, b \in Int : key[x] = <<a, b, x>>
    BY <1>2
  <2>2. PICK c, d \in Int : key[y] = <<c, d, y>>
    BY <1>2
  <2>3. <<a, b, x>>[3] = x /\ <<c, d, y>>[3] = y
    OBVIOUS
  <2>4. <<a, b, x>> = <<c, d, y>>
    BY <2>1, <2>2
  <2> QED BY <2>3, <2>4, Zenon
<1>5. Lists(InOrder(key), found) /\ Len(InOrder(key)) = Cardinality(found)
  BY <1>1, <1>3, <1>4, KeysOfThree, InOrderLists
<1> QED BY <1>5 DEF key

\* As many members as places
LEMMA Distinct ==
  ASSUME NEW S, NEW s \in Seq(S), \A i, j \in DOMAIN s : s[i] = s[j] => i = j
  PROVE  IsFiniteSet(ToSet(s)) /\ Cardinality(ToSet(s)) = Len(s)
<1>1. DOMAIN s = 1 .. Len(s) /\ Len(s) \in Nat
  OBVIOUS
<1>2. ASSUME NEW m \in Nat PROVE IsFiniteSet(1 .. m) /\ Cardinality(1 .. m) = m
  <2>1. 1 \in Int /\ m \in Int
    OBVIOUS
  <2>2. IsFiniteSet(1 .. m) /\ Cardinality(1 .. m) = IF 1 > m THEN 0 ELSE m - 1 + 1
    BY <2>1, FS_Interval
  <2> QED BY <2>2
<1>3. IsFiniteSet(DOMAIN s) /\ Cardinality(DOMAIN s) = Len(s)
  BY <1>1, <1>2
<1>4. s \in Surjection(DOMAIN s, ToSet(s))
  BY <1>1 DEF Surjection, ToSet
<1>5. s \in Injection(DOMAIN s, ToSet(s))
  BY <1>1, <1>4 DEF Injection, Surjection, IsInjective
<1> QED BY <1>3, <1>4, <1>5, FS_Surjection

LEMMA OneMore ==
  ASSUME NEW s \in Seq(Chunk), s # <<>>, \A i, j \in DOMAIN s : s[i] = s[j] => i = j,
         NEW x \in Chunk, x \notin ToSet(s)
  PROVE  /\ ToSet(Front(s)) \cup {x} \in SUBSET Chunk
         /\ Cardinality(ToSet(Front(s)) \cup {x}) = Len(s)
<1>1. /\ Front(s) \in Seq(Chunk) /\ Len(Front(s)) = Len(s) - 1
      /\ \A i \in DOMAIN Front(s) : i \in DOMAIN s /\ Front(s)[i] = s[i]
  <2>1. Len(s) \in Nat \ {0} /\ DOMAIN s = 1 .. Len(s) /\ \A i \in DOMAIN s : s[i] \in Chunk
    OBVIOUS
  <2>2. Front(s) = SubSeq(s, 1, Len(s) - 1)
    BY DEF Front
  <2> DEFINE m == Len(s) - 1
  <2>3. m \in Nat /\ m <= Len(s)
    BY <2>1
  <2> HIDE DEF m
  <2>4. SubSeq(s, 1, m) = [i \in 1 .. m |-> s[i]]
    BY <2>3
  <2>5. \A i \in 1 .. m : i \in DOMAIN s /\ s[i] \in Chunk
    BY <2>1, <2>3
  <2>6. SubSeq(s, 1, m) \in Seq(Chunk) /\ DOMAIN SubSeq(s, 1, m) = 1 .. m
        /\ Len(SubSeq(s, 1, m)) = m
    BY <2>3, <2>4, <2>5
  <2> QED BY <2>2, <2>4, <2>5, <2>6 DEF m
<1> DEFINE front == Front(s)
<1>2. \A i, j \in DOMAIN front : front[i] = front[j] => i = j
  BY <1>1
<1>3. x \notin ToSet(front) /\ ToSet(front) \subseteq Chunk
  BY <1>1 DEF ToSet
<1> HIDE DEF front
<1>4. IsFiniteSet(ToSet(front)) /\ Cardinality(ToSet(front)) = Len(s) - 1
  BY <1>1, <1>2, Distinct DEF front
<1>5. Cardinality(ToSet(front) \cup {x}) = (Len(s) - 1) + 1
  BY <1>3, <1>4, FS_AddElement
<1>6. Len(s) \in Nat
  OBVIOUS
<1> QED BY <1>3, <1>5, <1>6 DEF front

\* What a fusion gives back: at most topK different chunks, the best of the raw
\* lane among them.
LEMMA FusionKeepsBest ==
  ASSUME NEW lanes, \A k \in 1 .. 3 : IsLane(lanes[k], Chunk),
         NEW raw \in Seq(Chunk), \E k \in 1 .. 3 : lanes[k].ids = raw,
         NEW topK \in Nat \ {0}, NEW kept, kept = FuseCandidates(lanes, raw, topK)
  PROVE  /\ kept \in Seq(Chunk) /\ Len(kept) <= topK
         /\ \A i, j \in DOMAIN kept : kept[i] = kept[j] => i = j
         /\ raw # <<>> => raw[1] \in ToSet(kept)
<1> DEFINE found == UNION {ToSet(lanes[k].ids) : k \in 1 .. 3}
           order == InOrder([c \in found |-> LexicalKey(lanes, raw, c)])
           first == First(order, topK)
<1>1. found \in SUBSET Chunk
  BY DEF ToSet, IsLane
<1>2. \A i \in DOMAIN raw : raw[i] \in found
  BY DEF ToSet
<1>3. kept = Retained(first, raw, lanes)
  BY DEF FuseCandidates
<1> HIDE DEF found
<1>4. Lists(order, found)
  BY <1>1, FusedOrder
<1> HIDE DEF order
<1>5. order \in Seq(Chunk) /\ \A i, j \in DOMAIN order : order[i] = order[j] => i = j
  BY <1>1, <1>4 DEF Lists
<1>6. /\ first \in Seq(Chunk) /\ Len(first) <= topK
      /\ \A i, j \in DOMAIN first : first[i] = first[j] => i = j
      /\ Len(first) = (IF Len(order) < topK THEN Len(order) ELSE topK)
  BY <1>5, FirstIs
<1> HIDE DEF first
<1>7. CASE raw = <<>> \/ raw[1] \in ToSet(first)
  BY <1>3, <1>6, <1>7 DEF Retained
<1>8. CASE ~(raw = <<>> \/ raw[1] \in ToSet(first))
  <2> DEFINE all == ToSet(Front(first)) \cup {raw[1]}
             more == InOrder([c \in all |-> LexicalKey(lanes, raw, c)])
  <2>1. kept = more
    BY <1>3, <1>8 DEF Retained
  <2>2. 1 \in DOMAIN raw /\ raw[1] \in Chunk
    BY <1>8
  <2>3. first # <<>>
    <3>1. \E i \in DOMAIN order : order[i] = raw[1]
      BY <1>2, <1>4, <2>2 DEF Lists
    <3>2. Len(order) \in Nat /\ Len(order) # 0
      BY <1>5, <3>1
    <3> QED BY <1>6, <3>2
  <2>4. all \in SUBSET Chunk /\ Cardinality(all) = Len(first)
    BY <1>6, <1>8, <2>2, <2>3, OneMore
  <2>5. raw[1] \in all
    OBVIOUS
  <2> HIDE DEF all
  <2>6. Lists(more, all) /\ Len(more) = Cardinality(all)
    BY <2>4, FusedOrder
  <2> HIDE DEF more
  <2>7. more \in Seq(Chunk) /\ raw[1] \in ToSet(more)
        /\ \A i, j \in DOMAIN more : more[i] = more[j] => i = j
    BY <2>4, <2>5, <2>6 DEF Lists, ToSet
  <2> QED BY <1>6, <2>1, <2>4, <2>6, <2>7
<1> QED BY <1>7, <1>8

-------------------------------------------------------------------------------
(***************************************************************************)
(* Lanes: what the statements find are chunks, each document's nearest one *)
(* among them.                                                             *)
(***************************************************************************)

LEMMA Homes ==
  /\ IsFiniteSet(Chunk) /\ Chunk \subseteq Int /\ Document \subseteq Int
  /\ \A c \in Chunk : DocOf(c) \in Document /\ DocOf(c) \in Int /\ ChunkHome[c].ordinal \in Int
<1>1. ChunkHome \in [Chunk -> [doc : Document, version : Nat, ordinal : Nat]]
  BY RankedAssumption DEF RankedAssumption
<1>2. IsFiniteSet(Chunk) /\ Chunk \subseteq Int /\ Document \subseteq Int
  BY RankedAssumption DEF RankedAssumption
<1>3. ASSUME NEW c \in Chunk
      PROVE  DocOf(c) \in Document /\ DocOf(c) \in Int /\ ChunkHome[c].ordinal \in Int
  <2>1. ChunkHome[c] \in [doc : Document, version : Nat, ordinal : Nat]
    BY <1>1
  <2>2. ChunkHome[c].doc \in Document /\ ChunkHome[c].ordinal \in Int
    BY <2>1
  <2> QED BY <1>2, <2>2 DEF DocOf
<1> QED BY <1>2, <1>3

LEMMA NotEmpty ==
  ASSUME NEW S, NEW s \in Seq(S), s # <<>>
  PROVE  1 \in DOMAIN s /\ s[1] \in S /\ Len(s) >= 1 /\ Len(s) \in Nat
OBVIOUS

LEMMA OneAlone ==
  ASSUME NEW S, NEW s \in Seq(S), Len(s) = 1
  PROVE  s = <<s[1]>>
OBVIOUS

LEMMA RequestIs ==
  ASSUME rq.request \in Requests
  PROVE  /\ Q.topK \in Nat \ {0} /\ LaneLimit \in Nat
         /\ Q.raw \in Seq(Chunk) /\ Q.repair \in Seq(Chunk) /\ Q.expansion \in Seq(Chunk)
         /\ Q.numbers \in Seq(SUBSET Document) /\ Len(Q.numbers) <= 2
         /\ Q.titles \in Seq(Document) /\ Q.distance \in [Chunk -> Int]
         /\ {Window, VersionLimit, TitleLimit, RerankLimit} \subseteq Nat
<1>1. PICK r \in Requests : r = rq.request
  OBVIOUS
<1>2. /\ r.topK \in Nat \ {0} /\ {r.raw, r.repair, r.expansion} \subseteq Seq(Chunk)
      /\ r.numbers \in Seq(SUBSET Document) /\ Len(r.numbers) <= 2
      /\ r.titles \in Seq(Document) /\ r.distance \in [Chunk -> Int]
      /\ {Window, VersionLimit, TitleLimit, RerankLimit} \subseteq Nat
  BY RankedAssumption DEF RankedAssumption
<1>3. Q = r
  BY <1>1 DEF Q
<1>4. LaneLimit \in Nat
  BY <1>2, <1>3 DEF LaneLimit
<1> QED BY <1>2, <1>3, <1>4

LEMMA LaneIs ==
  ASSUME NEW ranking \in Seq(Chunk), NEW scope, NEW limit \in Nat
  PROVE  Lane(ranking, scope, limit) \in Seq(Chunk)
<1> DEFINE I == {i \in DOMAIN ranking : /\ ranking[i] \in Searchable
                                        /\ scope = {} \/ DocOf(ranking[i]) \in scope}
<1>1. I \in SUBSET DOMAIN ranking
  OBVIOUS
<1>2. Lane(ranking, scope, limit) = First(At(ranking, I), limit)
  BY DEF Lane
<1> HIDE DEF I
<1>3. At(ranking, I) \in Seq(Chunk)
  BY <1>1, AtIs
<1> QED BY <1>2, <1>3, FirstIs

LEMMA ChildrenAre == Children \in SUBSET Chunk /\ IsFiniteSet(Children)
<1>1. Children \in SUBSET Chunk
  BY DEF Children, Searchable
<1> QED BY <1>1, Homes, FS_Subset

\* Children by distance
LEMMA ByDistance ==
  ASSUME rq.request \in Requests, NEW C \in SUBSET Children
  PROVE  /\ Lists(InOrder([c \in C |-> <<Q.distance[c], c>>]), C)
         /\ Lists(InOrder([c \in C |-> ChildKey(c)]), C)
<1>1. C \in SUBSET Chunk /\ IsFiniteSet(C)
  BY ChildrenAre, FS_Subset
<1>2. \A c \in C : Q.distance[c] \in Int /\ ChunkHome[c].ordinal \in Int /\ c \in Int
  BY <1>1, RequestIs, Homes
<1> DEFINE two == [c \in C |-> <<Q.distance[c], c>>]
           three == [c \in C |-> ChildKey(c)]
<1>3. DOMAIN two = C /\ DOMAIN three = C
      /\ \A c \in C : /\ two[c] = <<Q.distance[c], c>>
                      /\ three[c] = <<Q.distance[c], ChunkHome[c].ordinal, c>>
  BY DEF ChildKey
<1> HIDE DEF two, three
<1>4. Orders(two)
  BY <1>2, <1>3, KeysOfTwo
<1>5. \A x, y \in C : three[x] = three[y] => x = y
  <2> SUFFICES ASSUME NEW x \in C, NEW y \in C, three[x] = three[y] PROVE x = y
    OBVIOUS
  <2>1. three[x][3] = x /\ three[y][3] = y
    BY <1>2, <1>3
  <2> QED BY <2>1
<1>6. \A x \in DOMAIN three : \E a, b, c \in Int : three[x] = <<a, b, c>>
  BY <1>2, <1>3
<1>7. Orders(three)
  BY <1>3, <1>5, <1>6, KeysOfThree
<1>8. Lists(InOrder(two), C) /\ Lists(InOrder(three), C)
  BY <1>1, <1>3, <1>4, <1>7, InOrderLists
<1> QED BY <1>8 DEF two, three

LEMMA CollapsedIs ==
  ASSUME rq.request \in Requests
  PROVE  Collapsed(Nearest) \in Seq(Chunk)
<1>1. Nearest \in Seq(Chunk)
  <2>1. Lists(InOrder([c \in Children |-> ChildKey(c)]), Children)
    BY ByDistance
  <2>2. InOrder([c \in Children |-> ChildKey(c)]) \in Seq(Chunk)
    BY <2>1, ChildrenAre DEF Lists
  <2>3. Window \in Nat
    BY RequestIs
  <2> QED BY <2>2, <2>3, FirstIs DEF Nearest
<1> DEFINE near == Nearest
           I == {i \in DOMAIN near : \A b \in ToSet(near) : DocOf(b) = DocOf(near[i]) =>
                                  b = near[i] \/ Before(ChildKey(near[i]), ChildKey(b))}
<1>2. I \in SUBSET DOMAIN near /\ Collapsed(near) = At(near, I)
  BY DEF Collapsed
<1> HIDE DEF I
<1> QED BY <1>1, <1>2, AtIs

\* The chunk a document found by metadata may show is one of its own.
LEMMA SupportIs ==
  ASSUME rq.request \in Requests, NEW d, Support(d) # <<>>
  PROVE  /\ Support(d)[1] \in Children /\ DocOf(Support(d)[1]) = d
         /\ Support(d) = <<Support(d)[1]>>
<1> DEFINE C == {c \in Children : DocOf(c) = d}
           order == InOrder([c \in C |-> ChildKey(c)])
<1>1. C \in SUBSET Children
  OBVIOUS
<1>2. Support(d) = First(order, 1)
  BY DEF Support
<1>3. \A c \in C : c \in Children /\ DocOf(c) = d
  OBVIOUS
<1> HIDE DEF C
<1>4. order \in Seq(C)
  BY <1>1, ByDistance DEF Lists
<1> HIDE DEF order
<1>5. Support(d) \in Seq(C) /\ Len(Support(d)) <= 1
  BY <1>2, <1>4, FirstIs
<1>6. Len(Support(d)) >= 1 /\ Len(Support(d)) \in Nat /\ Support(d)[1] \in C
  BY <1>5, NotEmpty
<1>7. Len(Support(d)) = 1
  <2> DEFINE n == Len(Support(d))
  <2>1. n \in Nat /\ n >= 1 /\ n <= 1
    BY <1>5, <1>6
  <2> HIDE DEF n
  <2>2. n = 1
    BY <2>1
  <2> QED BY <2>2 DEF n
<1>8. Support(d) = <<Support(d)[1]>>
  BY <1>5, <1>7, OneAlone
<1> QED BY <1>3, <1>6, <1>8

LEMMA NamedIs ==
  ASSUME rq.request \in Requests
  PROVE  Named \in Seq(Document) /\ Len(Named) <= 2
<1> DEFINE I == {i \in DOMAIN Q.numbers : Cardinality({d \in Q.numbers[i] : newest[d] > 0}) = 1}
           sure == At(Q.numbers, I)
<1>1. Q.numbers \in Seq(SUBSET Document) /\ Len(Q.numbers) <= 2
  BY RequestIs
<1>2. I \in SUBSET DOMAIN Q.numbers
      /\ \A i \in I : Cardinality({d \in Q.numbers[i] : newest[d] > 0}) = 1
  OBVIOUS
<1>3. Named = [i \in DOMAIN sure |-> CHOOSE d \in sure[i] : newest[d] > 0]
  BY DEF Named
<1> HIDE DEF I
<1>4. /\ sure \in Seq(SUBSET Document) /\ Len(sure) <= Len(Q.numbers)
      /\ \A k \in DOMAIN sure : \E i \in I : sure[k] = Q.numbers[i]
  BY <1>1, <1>2, AtIs
<1> HIDE DEF sure
<1>5. ASSUME NEW k \in DOMAIN sure PROVE (CHOOSE d \in sure[k] : newest[d] > 0) \in Document
  <2>1. PICK i \in I : sure[k] = Q.numbers[i]
    BY <1>4
  <2>2. Cardinality({d \in sure[k] : newest[d] > 0}) = 1
    BY <1>2, <2>1
  <2>3. {d \in sure[k] : newest[d] > 0} # {}
    BY <2>2, FS_EmptySet
  <2>4. \E d \in sure[k] : newest[d] > 0
    BY <2>3
  <2>5. sure[k] \in SUBSET Document
    BY <1>4
  <2> QED BY <2>4, <2>5
<1>6. DOMAIN sure = 1 .. Len(sure) /\ Len(sure) \in Nat /\ Len(Q.numbers) \in Nat
  BY <1>1, <1>4
<1> DEFINE pick(k) == CHOOSE d \in sure[k] : newest[d] > 0
           n == Len(sure)
<1>7. Named = [k \in 1 .. n |-> pick(k)] /\ \A k \in 1 .. n : pick(k) \in Document
  BY <1>3, <1>5, <1>6
<1> HIDE DEF pick
<1>8. n \in Nat /\ n <= 2
  BY <1>1, <1>4, <1>6
<1> HIDE DEF n
<1>9. Named \in Seq(Document) /\ Len(Named) = n
  BY <1>7, <1>8
<1> QED BY <1>8, <1>9

LEMMA ArmsAre ==
  ASSUME rq.request \in Requests
  PROVE  /\ \A k \in 1 .. 3 : IsLane(ArmsNow[k], Document) /\ ArmsNow[k].weight = 1
         /\ Len(ArmsNow[2].ids) <= 2
<1> DEFINE near == First(Collapsed(Nearest), VersionLimit)
           docs == [i \in DOMAIN near |-> DocOf(near[i])]
<1>1. near \in Seq(Chunk)
  BY CollapsedIs, RequestIs, FirstIs
<1>2. ArmsNow = << [weight |-> 1, ids |-> docs], [weight |-> 1, ids |-> Named],
                   [weight |-> 1, ids |-> Titled] >>
  BY DEF ArmsNow, Arms
<1> HIDE DEF near
<1>3. docs \in Seq(Document)
  <2>1. DOMAIN near = 1 .. Len(near) /\ Len(near) \in Nat
        /\ \A i \in 1 .. Len(near) : near[i] \in Chunk
    BY <1>1
  <2>2. \A i \in 1 .. Len(near) : DocOf(near[i]) \in Document
    BY <2>1, Homes
  <2> QED BY <2>1, <2>2
<1> HIDE DEF docs
<1>4. Titled \in Seq(Document)
  <2> DEFINE I == {i \in DOMAIN Q.titles : newest[Q.titles[i]] > 0}
  <2>1. I \in SUBSET DOMAIN Q.titles /\ Titled = First(At(Q.titles, I), TitleLimit)
    BY DEF Titled
  <2> HIDE DEF I
  <2>2. Q.titles \in Seq(Document) /\ TitleLimit \in Nat
    BY RequestIs
  <2>3. At(Q.titles, I) \in Seq(Document)
    BY <2>1, <2>2, AtIs
  <2> QED BY <2>1, <2>2, <2>3, FirstIs
<1>5. Named \in Seq(Document) /\ Len(Named) <= 2
  BY NamedIs
<1>6. /\ ArmsNow[1] = [weight |-> 1, ids |-> docs] /\ ArmsNow[2] = [weight |-> 1, ids |-> Named]
      /\ ArmsNow[3] = [weight |-> 1, ids |-> Titled]
  BY <1>2
<1>7. ASSUME NEW k \in 1 .. 3 PROVE IsLane(ArmsNow[k], Document) /\ ArmsNow[k].weight = 1
  <2>1. k = 1 \/ k = 2 \/ k = 3
    OBVIOUS
  <2> QED BY <2>1, <1>3, <1>4, <1>5, <1>6 DEF IsLane
<1> QED BY <1>5, <1>6, <1>7

-------------------------------------------------------------------------------
(***************************************************************************)
(* The documents that reach the reranker: a document named in the          *)
(* question is the first or second number there, which is worth 245952 of  *)
(* its arm at least; a third or later place of one arm is worth 242048 at  *)
(* most.                                                                   *)
(***************************************************************************)

\* What Merged sorts, and how
MergedChunks == {Support(d)[1] : d \in {e \in UNION {ToSet(ArmsNow[k].ids) : k \in 1 .. 3} :
                                          Support(e) # <<>>}}

LEMMA MergedLists ==
  ASSUME rq.request \in Requests
  PROVE  /\ MergedChunks \in SUBSET Chunk /\ Lists(Merged, MergedChunks)
         /\ \A c \in MergedChunks : DocOf(c) \in UNION {ToSet(ArmsNow[k].ids) : k \in 1 .. 3}
         /\ \A i, j \in DOMAIN Merged : i < j =>
              -Score(ArmsNow, DocOf(Merged[i])) <= -Score(ArmsNow, DocOf(Merged[j]))
<1> DEFINE all == UNION {ToSet(ArmsNow[k].ids) : k \in 1 .. 3}
           docs == {d \in all : Support(d) # <<>>}
           key == [c \in MergedChunks |->
                     <<-Score(ArmsNow, DocOf(c)), ChunkHome[c].ordinal, DocOf(c)>>]
<1>1. Merged = InOrder(key)
  BY DEF Merged, MergedChunks
<1>2. \A c \in MergedChunks : \E d \in docs : c = Support(d)[1]
  BY DEF MergedChunks
<1>3. \A d \in docs : d \in all /\ Support(d)[1] \in Children /\ DocOf(Support(d)[1]) = d
  BY SupportIs
<1> HIDE DEF docs
<1>4. \A c \in MergedChunks : c \in Chunk /\ DocOf(c) \in all /\ c = Support(DocOf(c))[1]
  BY <1>2, <1>3, ChildrenAre
<1>5. MergedChunks \in SUBSET Chunk /\ IsFiniteSet(MergedChunks)
  <2>1. MergedChunks \in SUBSET Chunk
    BY <1>4
  <2> QED BY <2>1, Homes, FS_Subset
<1>6. ASSUME NEW c \in MergedChunks
      PROVE  -Score(ArmsNow, DocOf(c)) \in Int /\ ChunkHome[c].ordinal \in Int /\ DocOf(c) \in Int
  <2>1. \A k \in 1 .. 3 : IsLane(ArmsNow[k], Document)
    BY ArmsAre
  <2>2. Score(ArmsNow, DocOf(c)) \in Int
    BY <2>1, ScoreIs
  <2>3. -Score(ArmsNow, DocOf(c)) \in Int
    BY <2>2
  <2> QED BY <1>5, <2>3, Homes
<1>7. DOMAIN key = MergedChunks
      /\ \A c \in MergedChunks :
           key[c] = <<-Score(ArmsNow, DocOf(c)), ChunkHome[c].ordinal, DocOf(c)>>
  OBVIOUS
<1> HIDE DEF key
<1>8. \A x \in DOMAIN key : \E a, b, c \in Int : key[x] = <<a, b, c>>
  BY <1>6, <1>7
<1>9. \A x, y \in DOMAIN key : key[x] = key[y] => x = y
  <2> SUFFICES ASSUME NEW x \in MergedChunks, NEW y \in MergedChunks, key[x] = key[y] PROVE x = y
    BY <1>7
  <2>1. key[x][3] = DocOf(x) /\ key[y][3] = DocOf(y)
    BY <1>6, <1>7
  <2>2. DocOf(x) = DocOf(y)
    BY <2>1
  <2> QED BY <1>4, <2>2
<1>10. Orders(key)
  BY <1>8, <1>9, KeysOfThree
<1>11. /\ Lists(Merged, MergedChunks)
       /\ \A i, j \in DOMAIN Merged : i < j => Before(key[Merged[i]], key[Merged[j]])
  BY <1>1, <1>5, <1>7, <1>10, InOrderLists
<1>12. ASSUME NEW i \in DOMAIN Merged, NEW j \in DOMAIN Merged, i < j
       PROVE  -Score(ArmsNow, DocOf(Merged[i])) <= -Score(ArmsNow, DocOf(Merged[j]))
  <2> DEFINE x == Merged[i]
             y == Merged[j]
             sx == -Score(ArmsNow, DocOf(x))
             sy == -Score(ArmsNow, DocOf(y))
  <2>1. x \in MergedChunks /\ y \in MergedChunks /\ Before(key[x], key[y])
    BY <1>11, <1>12 DEF Lists
  <2> HIDE DEF x, y
  <2>2. key[x] = <<sx, ChunkHome[x].ordinal, DocOf(x)>>
        /\ key[y] = <<sy, ChunkHome[y].ordinal, DocOf(y)>>
        /\ sx \in Int /\ sy \in Int /\ ChunkHome[x].ordinal \in Int /\ ChunkHome[y].ordinal \in Int
        /\ DocOf(x) \in Int /\ DocOf(y) \in Int
    BY <1>6, <1>7, <2>1
  <2> HIDE DEF sx, sy
  <2>3. sx < sy \/ sx = sy
    BY <2>1, <2>2, BeforeThree
  <2>4. sx <= sy
    BY <2>2, <2>3
  <2> QED BY <2>4 DEF x, y, sx, sy
<1> HIDE DEF all
<1> QED BY <1>4, <1>5, <1>11, <1>12 DEF all

LEMMA TwoMembers ==
  ASSUME NEW S, IsFiniteSet(S), NEW x \in S, NEW y \in S, x # y
  PROVE  Cardinality(S) >= 2
<1>1. IsFiniteSet({x}) /\ Cardinality({x}) = 1
  BY FS_Singleton
<1>2. IsFiniteSet({x} \cup {y}) /\ Cardinality({x} \cup {y}) = 2
  <2>1. y \notin {x}
    OBVIOUS
  <2>2. /\ IsFiniteSet({x} \cup {y})
        /\ Cardinality({x} \cup {y}) = Cardinality({x}) + 1
    BY <1>1, <2>1, FS_AddElement
  <2> QED BY <1>1, <2>2
<1>3. ({x} \cup {y}) \in SUBSET S
  OBVIOUS
<1>4. Cardinality({x} \cup {y}) <= Cardinality(S)
  BY <1>3, FS_Subset
<1> QED BY <1>2, <1>4, FS_CardinalityType

\* What an arm gives a document
LEMMA ArmShare ==
  ASSUME rq.request \in Requests, NEW k \in 1 .. 3, NEW d
  PROVE  /\ RRFShare(ArmsNow[k], d) \in Int /\ RRFShare(ArmsNow[k], d) >= 0
         /\ d \notin ToSet(ArmsNow[k].ids) => RRFShare(ArmsNow[k], d) = 0
         /\ d \in ToSet(ArmsNow[k].ids) =>
              /\ PlaceOf(ArmsNow[k].ids, d) <= 2 => RRFShare(ArmsNow[k], d) >= 245952
              /\ ~(PlaceOf(ArmsNow[k].ids, d) <= 2) => RRFShare(ArmsNow[k], d) <= 242048
              /\ PlaceOf(ArmsNow[k].ids, d) \in 1 .. Len(ArmsNow[k].ids)
<1> DEFINE arm == ArmsNow[k]
<1>1. IsLane(arm, Document) /\ arm.weight = 1
  BY ArmsAre
<1> HIDE DEF arm
<1>2. RRFShare(arm, d) \in Int
  BY <1>1, ShareIs
<1>3. CASE d \notin ToSet(arm.ids)
  <2>1. RRFShare(arm, d) = 0
    BY <1>3 DEF RRFShare
  <2> QED BY <1>3, <2>1 DEF arm
<1>4. CASE d \in ToSet(arm.ids)
  <2> DEFINE p == PlaceOf(arm.ids, d)
             share == RRFShare(arm, d)
  <2>1. p \in 1 .. Len(arm.ids) /\ Len(arm.ids) \in Nat
    BY <1>1, <1>4, PlaceIs DEF IsLane
  <2>2. share = (1 * 61 * 62 * 63 * 64) \div (60 + p)
    BY <1>1, <1>4 DEF RRFShare
  <2> HIDE DEF p, share
  <2>3. p \in Nat /\ p >= 1
    BY <2>1
  <2>4. /\ p \in {1, 2} => share >= 245952
        /\ p >= 3 => share >= 0 /\ share <= 242048
    BY <2>2, <2>3, SharesByPlace
  <2>5. /\ share \in Int /\ share >= 0
        /\ p <= 2 => share >= 245952
        /\ ~(p <= 2) => share <= 242048
    BY <1>2, <2>3, <2>4 DEF share
  <2> QED BY <1>4, <2>1, <2>5 DEF p, share, arm
<1> QED BY <1>3, <1>4

LEMMA LowShare ==
  ASSUME rq.request \in Requests, NEW k \in 1 .. 3, NEW d \in ToSet(ArmsNow[k].ids),
         ~(PlaceOf(ArmsNow[k].ids, d) <= 2)
  PROVE  RRFShare(ArmsNow[k], d) <= 242048
BY ArmShare

\* A document that is one of two numbers, or found by two arms, or high in one, is not
\* scored below a low place in a single arm.
LEMMA LowPlacesLose ==
  ASSUME rq.request \in Requests, NEW e \in ToSet(ArmsNow[2].ids), NEW d,
         -Score(ArmsNow, d) <= -Score(ArmsNow, e)
  PROVE  \/ Cardinality({k \in 1 .. 3 : d \in ToSet(ArmsNow[k].ids)}) >= 2
         \/ \E k \in {k \in 1 .. 3 : d \in ToSet(ArmsNow[k].ids)} : PlaceOf(ArmsNow[k].ids, d) <= 2
<1> DEFINE in(k) == d \in ToSet(ArmsNow[k].ids)
           share(k, x) == RRFShare(ArmsNow[k], x)
           found == {k \in 1 .. 3 : in(k)}
<1>1. 1 \in 1 .. 3 /\ 2 \in 1 .. 3 /\ 3 \in 1 .. 3
  OBVIOUS
<1>2. share(2, e) >= 245952
  <2>1. PlaceOf(ArmsNow[2].ids, e) \in 1 .. Len(ArmsNow[2].ids)
        /\ (PlaceOf(ArmsNow[2].ids, e) <= 2 => RRFShare(ArmsNow[2], e) >= 245952)
    BY <1>1, ArmShare
  <2>2. Len(ArmsNow[2].ids) <= 2 /\ Len(ArmsNow[2].ids) \in Nat
    BY <1>1, ArmsAre DEF IsLane
  <2> QED BY <2>1, <2>2
<1>3. Score(ArmsNow, d) = share(1, d) + share(2, d) + share(3, d)
      /\ Score(ArmsNow, e) = share(1, e) + share(2, e) + share(3, e)
  BY DEF Score
<1>4. \A k \in 1 .. 3 : share(k, d) \in Int /\ share(k, e) \in Int
                        /\ share(k, d) >= 0 /\ share(k, e) >= 0
  BY ArmShare
<1>5. \A k \in 1 .. 3 : ~in(k) => share(k, d) = 0
  BY ArmShare
<1>6. \A k \in 1 .. 3 : in(k) /\ ~(PlaceOf(ArmsNow[k].ids, d) <= 2) => share(k, d) <= 242048
  <2> SUFFICES ASSUME NEW k \in 1 .. 3, d \in ToSet(ArmsNow[k].ids),
                      ~(PlaceOf(ArmsNow[k].ids, d) <= 2)
               PROVE  RRFShare(ArmsNow[k], d) <= 242048
    OBVIOUS
  <2> HIDE DEF share, in, found
  <2> QED BY LowShare
<1>7. IsFiniteSet(found)
  <2>1. 1 \in Int /\ 3 \in Int
    OBVIOUS
  <2>2. IsFiniteSet(1 .. 3)
    BY <2>1, FS_Interval
  <2>3. found \in SUBSET (1 .. 3)
    OBVIOUS
  <2> HIDE DEF found
  <2> QED BY <2>2, <2>3, FS_Subset
<1>8. \A k, l \in 1 .. 3 : in(k) /\ in(l) /\ k # l => Cardinality(found) >= 2
  <2> SUFFICES ASSUME NEW k \in 1 .. 3, NEW l \in 1 .. 3, in(k), in(l), k # l
               PROVE  Cardinality(found) >= 2
    OBVIOUS
  <2>1. k \in found /\ l \in found
    OBVIOUS
  <2> HIDE DEF found
  <2> QED BY <1>7, <2>1, TwoMembers
<1> HIDE DEF found
<1>9. CASE \A k, l \in 1 .. 3 : in(k) /\ in(l) => k = l
  <2>1. SUFFICES ASSUME \A k \in 1 .. 3 : in(k) => ~(PlaceOf(ArmsNow[k].ids, d) <= 2)
                 PROVE  FALSE
    BY DEF found
  <2>2. \A k \in 1 .. 3 : share(k, d) <= 242048
    BY <1>4, <1>5, <1>6, <2>1
  <2>3. \A k, l \in 1 .. 3 : k # l => share(k, d) = 0 \/ share(l, d) = 0
    BY <1>5, <1>9
  <2> HIDE DEF share, in
  <2>4. share(1, d) = 0 \/ share(2, d) = 0
    BY <1>1, <2>3
  <2>5. share(1, d) = 0 \/ share(3, d) = 0
    BY <1>1, <2>3
  <2>6. share(2, d) = 0 \/ share(3, d) = 0
    BY <1>1, <2>3
  <2>7. share(1, d) + share(2, d) + share(3, d) <= 242048
    <3>1. \A k \in 1 .. 3 : share(k, d) \in Int /\ share(k, d) <= 242048
      BY <1>4, <2>2
    <3>2. /\ share(1, d) \in Int /\ share(1, d) <= 242048
          /\ share(2, d) \in Int /\ share(2, d) <= 242048
          /\ share(3, d) \in Int /\ share(3, d) <= 242048
      BY <1>1, <3>1
    <3> QED BY <3>2, <2>4, <2>5, <2>6
  <2>8. share(1, e) + share(2, e) + share(3, e) >= 245952
    BY <1>1, <1>2, <1>4
  <2>9. share(1, d) + share(2, d) + share(3, d) \in Int
        /\ share(1, e) + share(2, e) + share(3, e) \in Int
    BY <1>1, <1>4
  <2>10. -Score(ArmsNow, d) <= -Score(ArmsNow, e)
    OBVIOUS
  <2> QED BY <1>3, <2>7, <2>8, <2>9, <2>10
<1>10. CASE ~ \A k, l \in 1 .. 3 : in(k) /\ in(l) => k = l
  <2>1. Cardinality(found) >= 2
    BY <1>8, <1>10
  <2> QED BY <2>1 DEF found
<1> QED BY <1>9, <1>10

\* Whoever the reranker gets was scored at least as high as a named document left out.
LEMMA ChosenByAgreement ==
  ASSUME rq.request \in Requests, NEW found, found = First(Merged, RerankLimit),
         NEW e \in ToSet(ArmsNow[2].ids), e \in {DocOf(c) : c \in Shown},
         e \notin {DocOf(c) : c \in ToSet(found)},
         NEW c \in ToSet(found)
  PROVE  -Score(ArmsNow, DocOf(c)) <= -Score(ArmsNow, e)
<1> DEFINE f == Support(e)[1]
<1>1. Support(e) # <<>>
  <2>1. PICK b \in Children : Support(DocOf(b)) = <<b>> /\ e = DocOf(b)
    BY DEF Shown
  <2>2. <<b>> # <<>>
    OBVIOUS
  <2> QED BY <2>1, <2>2
<1>2. DocOf(f) = e
  BY <1>1, SupportIs
<1>3. f \in MergedChunks
  <2>1. e \in UNION {ToSet(ArmsNow[k].ids) : k \in 1 .. 3}
    OBVIOUS
  <2> QED BY <1>1, <2>1 DEF MergedChunks
<1> HIDE DEF f
<1>4. Merged \in Seq(MergedChunks) /\ RerankLimit \in Nat
  BY MergedLists, RequestIs DEF Lists
<1>5. PICK j \in DOMAIN Merged : Merged[j] = f
  BY <1>3, MergedLists DEF Lists
<1>6. PICK i \in DOMAIN found : c = found[i]
  BY DEF ToSet
<1>7. i \in DOMAIN Merged /\ i <= RerankLimit /\ found[i] = Merged[i]
  BY <1>4, <1>6, FirstIs
<1>8. ~(j <= RerankLimit)
  <2>1. SUFFICES ASSUME j <= RerankLimit PROVE FALSE
    OBVIOUS
  <2>2. j \in DOMAIN found /\ found[j] = f
    BY <1>4, <1>5, <2>1, FirstIs
  <2>3. f \in ToSet(found)
    BY <2>2 DEF ToSet
  <2> QED BY <1>2, <2>3
<1>9. i < j
  <2>1. i \in Nat /\ j \in Nat
    BY <1>4, <1>5, <1>7
  <2> QED BY <1>4, <1>7, <1>8, <2>1
<1>10. -Score(ArmsNow, DocOf(Merged[i])) <= -Score(ArmsNow, DocOf(Merged[j]))
  BY <1>5, <1>7, <1>9, MergedLists
<1> QED BY <1>2, <1>5, <1>6, <1>7, <1>10

-------------------------------------------------------------------------------
(***************************************************************************)
(* One request: what is promised at its end, and what the steps keep until *)
(* then.                                                                   *)
(***************************************************************************)

\* r has the fields of a request.
IsRequest(r) ==
  r = [request |-> r.request, pc |-> r.pc, ready |-> r.ready, version |-> r.version,
       candidates |-> r.candidates, logits |-> r.logits, cites |-> r.cites,
       seen |-> r.seen, shown |-> r.shown]

RankedShape == IsRequest(rq) /\ rq.request \in Requests /\ rq.candidates \in Seq(Chunk)

\* Only the reranked and the metadata repository have candidates.
CandidatesBelong ==
  /\ rq.pc \in {"embed", "read"} => rq.candidates = <<>>
  /\ rq.pc \in {"rerank", "write"} => Q.mode \in {"reranked", "metadata"}

RankedProperties == BestRawMatchIsCited /\ NumbersYieldToAgreement /\ NoPlaceIsLost

\* Inductive: the properties alone do not say that the candidates are chunks, nor which
\* repositories have them.
RankedInv ==
  \/ rq = Unasked
  \/ RankedShape /\ CandidatesBelong /\ RankedProperties

\* On the way nothing is promised yet.
LEMMA OnTheWay ==
  ASSUME rq'.pc \in {"embed", "read", "write", "failed"}
  PROVE  RankedProperties'
BY DEF RankedProperties, BestRawMatchIsCited, NumbersYieldToAgreement, NoPlaceIsLost

LEMMA PersistedIs ==
  ASSUME IsRequest(rq), NEW version, NEW cites, NEW next, next = Persisted(version, cites)
  PROVE  /\ IsRequest(next) /\ next.request = rq.request /\ next.pc = "done"
         /\ next.version = version /\ next.cites = cites /\ next.candidates = rq.candidates
BY DEF IsRequest, Persisted

\* The actions
LEMMA AskRanked ==
  ASSUME NEW r \in Requests, Ask(r)
  PROVE  RankedInv'
<1> DEFINE pc == IF r.mode = "lexical" THEN "read" ELSE "embed"
<1>1. rq' = [request |-> r, pc |-> pc, ready |-> FALSE, version |-> "none",
             candidates |-> <<>>, logits |-> <<>>, cites |-> <<>>, seen |-> <<>>, shown |-> {}]
  BY DEF Ask
<1>2. pc \in {"embed", "read"}
  OBVIOUS
<1> HIDE DEF pc
<1>3. <<>> \in Seq(Chunk)
  OBVIOUS
<1>4. RankedShape' /\ rq'.pc = pc /\ rq'.candidates = <<>>
  BY <1>1, <1>3 DEF RankedShape, IsRequest
<1> QED BY <1>2, <1>4, OnTheWay DEF RankedInv, CandidatesBelong

LEMMA PrepareRanked ==
  ASSUME RankedShape, CandidatesBelong, Prepare
  PROVE  RankedInv'
<1>1. rq.pc = "embed" /\ rq.candidates = <<>> /\ rq.candidates \in Seq(Chunk) /\ IsRequest(rq)
  BY DEF Prepare, CandidatesBelong, RankedShape
<1>2. PICK ready : \/ rq' = [rq EXCEPT !.pc = "read", !.ready = ready]
                   \/ rq' = Persisted("unavailable", <<>>)
  BY DEF Prepare
<1>3. CASE rq' = [rq EXCEPT !.pc = "read", !.ready = ready]
  <2>1. IsRequest(rq)' /\ rq'.request = rq.request /\ rq'.pc = "read"
        /\ rq'.candidates = rq.candidates
    BY <1>1, <1>3 DEF IsRequest
  <2> QED BY <1>1, <2>1, OnTheWay DEF RankedInv, CandidatesBelong, RankedShape
<1>4. CASE rq' = Persisted("unavailable", <<>>)
  <2>1. /\ IsRequest(rq') /\ rq'.request = rq.request /\ rq'.pc = "done"
        /\ rq'.version = "unavailable" /\ rq'.candidates = <<>>
    BY <1>1, <1>4, PersistedIs
  <2>2. RankedShape' /\ CandidatesBelong'
    BY <1>1, <2>1 DEF RankedShape, IsRequest, CandidatesBelong
  <2> QED BY <2>1, <2>2 DEF RankedInv, RankedProperties, BestRawMatchIsCited,
                            NumbersYieldToAgreement, NoPlaceIsLost
<1> QED BY <1>2, <1>3, <1>4

\* The citations of what a fusion kept, one for each
LEMMA CitesAre ==
  ASSUME NEW S, NEW kept \in Seq(S), NEW cites,
         DOMAIN cites = DOMAIN kept, cites = [i \in DOMAIN kept |-> cites[i]]
  PROVE  Len(cites) = Len(kept)
<1>1. DOMAIN kept = 1 .. Len(kept) /\ Len(kept) \in Nat
  OBVIOUS
<1> QED BY <1>1

\* What a fusion kept is cited as it is.
LEMMA FusionCited ==
  ASSUME RankedShape, rq.candidates = <<>>,
         NEW lanes, \A k \in 1 .. 3 : IsLane(lanes[k], Chunk),
         NEW raw \in Seq(Chunk), \E k \in 1 .. 3 : lanes[k].ids = raw,
         NEW kept, kept = FuseCandidates(lanes, raw, Q.topK), NEW version, NEW cites,
         rq' = [Persisted(version, cites) EXCEPT !.seen = raw],
         DOMAIN cites = DOMAIN kept, Len(cites) = Len(kept),
         \A i \in DOMAIN kept : cites[i].chunk = kept[i]
  PROVE  RankedInv'
<1>1. /\ IsRequest(rq') /\ rq'.request = rq.request /\ rq'.pc = "done"
      /\ rq'.candidates = <<>> /\ rq'.seen = raw /\ rq'.cites = cites
  <2>1. IsRequest(rq)
    BY DEF RankedShape
  <2> QED BY <2>1 DEF IsRequest, Persisted
<1>2. RankedShape' /\ CandidatesBelong' /\ Q' = Q
  BY <1>1 DEF RankedShape, IsRequest, CandidatesBelong, Q
<1>3. Q.topK \in Nat \ {0}
  BY RequestIs DEF RankedShape
<1>4. /\ kept \in Seq(Chunk) /\ Len(kept) <= Q.topK
      /\ \A i, j \in DOMAIN kept : kept[i] = kept[j] => i = j
      /\ raw # <<>> => raw[1] \in ToSet(kept)
  BY <1>3, FusionKeepsBest
<1>5. Cardinality(ToSet(kept)) = Len(kept)
  BY <1>4, Distinct
<1>6. Cited' = ToSet(kept)
  BY <1>1 DEF Cited, ToSet
<1>7. BestRawMatchIsCited'
  BY <1>1, <1>2, <1>4, <1>5, <1>6 DEF BestRawMatchIsCited
<1>8. NumbersYieldToAgreement' /\ NoPlaceIsLost'
  BY <1>1 DEF NumbersYieldToAgreement, NoPlaceIsLost
<1> QED BY <1>2, <1>7, <1>8 DEF RankedInv, RankedProperties

LEMMA ReadLexicalRanked ==
  ASSUME RankedShape, CandidatesBelong, ReadLexical
  PROVE  RankedInv'
<1>1. rq.pc = "read" /\ rq.candidates = <<>> /\ rq.request \in Requests
  BY DEF ReadLexical, CandidatesBelong, RankedShape
<1> DEFINE raw == Lane(Q.raw, {}, LaneLimit)
           repair == IF Q.repairs THEN Lane(Q.repair, Identified, LaneLimit) ELSE <<>>
           expansion(e) == IF e THEN Lane(Q.expansion, Q.scope, LaneLimit) ELSE <<>>
           lanes(e) == << [weight |-> 3, ids |-> repair], [weight |-> 1, ids |-> raw],
                          [weight |-> 1, ids |-> expansion(e)] >>
           kept(e) == FuseCandidates(lanes(e), raw, Q.topK)
           cites(e) == [i \in DOMAIN kept(e) |-> Citation(kept(e)[i], TRUE, FALSE, 0)]
           version(e) == IF e THEN "planned" ELSE "plain"
<1>2. PICK e : rq' = [Persisted(version(e), cites(e)) EXCEPT !.seen = raw]
  BY ZenonT(40) DEF ReadLexical
<1>3. raw \in Seq(Chunk) /\ repair \in Seq(Chunk) /\ expansion(e) \in Seq(Chunk)
  <2>1. /\ Q.raw \in Seq(Chunk) /\ Q.repair \in Seq(Chunk) /\ Q.expansion \in Seq(Chunk)
        /\ LaneLimit \in Nat
    BY <1>1, RequestIs
  <2>2. /\ Lane(Q.raw, {}, LaneLimit) \in Seq(Chunk)
        /\ Lane(Q.repair, Identified, LaneLimit) \in Seq(Chunk)
        /\ Lane(Q.expansion, Q.scope, LaneLimit) \in Seq(Chunk)
    BY <2>1, LaneIs
  <2>3. <<>> \in Seq(Chunk)
    OBVIOUS
  <2> QED BY <2>2, <2>3
<1>4. (\A k \in 1 .. 3 : IsLane(lanes(e)[k], Chunk)) /\ lanes(e)[2].ids = raw
  <2> HIDE DEF raw, repair, expansion
  <2> QED BY <1>3 DEF IsLane
<1>5. \E k \in 1 .. 3 : lanes(e)[k].ids = raw
  <2>1. 2 \in 1 .. 3
    OBVIOUS
  <2> HIDE DEF lanes
  <2> QED BY <1>4, <2>1
<1>6. Q.topK \in Nat \ {0}
  BY <1>1, RequestIs
<1> HIDE DEF raw, repair, expansion, lanes, version
<1>7. kept(e) \in Seq(Chunk)
  BY <1>3, <1>4, <1>5, <1>6, FusionKeepsBest
<1>8. \A i \in DOMAIN kept(e) : cites(e)[i].chunk = kept(e)[i]
  <2> HIDE DEF kept
  <2> QED BY DEF Citation
<1>9. DOMAIN cites(e) = DOMAIN kept(e)
  OBVIOUS
<1>10. cites(e) = [i \in DOMAIN kept(e) |-> cites(e)[i]]
  OBVIOUS
<1> HIDE DEF cites
<1>11. Len(cites(e)) = Len(kept(e))
  BY <1>7, <1>9, <1>10, CitesAre
<1>12. kept(e) = FuseCandidates(lanes(e), raw, Q.topK)
  OBVIOUS
<1>13. rq.candidates = <<>> /\ raw \in Seq(Chunk)
  BY <1>1, <1>3
<1> HIDE DEF kept
<1> QED BY <1>2, <1>4, <1>5, <1>8, <1>9, <1>11, <1>12, <1>13, FusionCited


LEMMA ReadHybridRanked ==
  ASSUME RankedShape, CandidatesBelong, ReadHybrid
  PROVE  RankedInv'
<1>1. rq.pc = "read" /\ rq.candidates = <<>> /\ rq.request \in Requests /\ IsRequest(rq)
      /\ Q.mode \in {"hybrid", "semantic"}
  BY DEF ReadHybrid, CandidatesBelong, RankedShape
<1> DEFINE raw == IF Q.mode = "hybrid" THEN Lane(Q.raw, {}, LaneLimit) ELSE <<>>
           order == InOrder([c \in Children |-> <<Q.distance[c], c>>])
           near == IF rq.ready THEN First(order, LaneLimit) ELSE <<>>
           lanes == << [weight |-> 1, ids |-> raw], [weight |-> 1, ids |-> near], NoLane >>
           kept == IF Q.mode = "hybrid" THEN FuseCandidates(lanes, raw, Q.topK)
                   ELSE First(near, Q.topK)
           cites == [i \in DOMAIN kept |-> Citation(kept[i], kept[i] \in ToSet(raw),
                                                    kept[i] \in ToSet(near), 0)]
           version == IF rq.ready THEN "exact" ELSE "fallback"
<1>2. rq' = [Persisted(version, cites) EXCEPT !.seen = raw]
  BY DEF ReadHybrid
<1>3. Q.topK \in Nat \ {0} /\ LaneLimit \in Nat /\ Q.raw \in Seq(Chunk)
  BY <1>1, RequestIs
<1>4. <<>> \in Seq(Chunk)
  OBVIOUS
<1>5. raw \in Seq(Chunk)
  <2>1. Lane(Q.raw, {}, LaneLimit) \in Seq(Chunk)
    BY <1>3, LaneIs
  <2> QED BY <1>4, <2>1
<1>6. near \in Seq(Chunk)
  <2>1. Lists(order, Children)
    BY <1>1, ByDistance
  <2>2. order \in Seq(Chunk)
    <3>1. Children \in SUBSET Chunk
      BY ChildrenAre
    <3> HIDE DEF order
    <3> QED BY <2>1, <3>1 DEF Lists
  <2> HIDE DEF order
  <2>3. First(order, LaneLimit) \in Seq(Chunk)
    BY <1>3, <2>2, FirstIs
  <2> QED BY <1>4, <2>3
<1>7. CASE Q.mode = "hybrid"
  <2>1. (\A k \in 1 .. 3 : IsLane(lanes[k], Chunk)) /\ lanes[1].ids = raw
    <3> HIDE DEF raw, near, order, kept, cites, version
    <3>1. /\ IsLane([weight |-> 1, ids |-> raw], Chunk)
          /\ IsLane([weight |-> 1, ids |-> near], Chunk) /\ IsLane(NoLane, Chunk)
      BY <1>4, <1>5, <1>6 DEF IsLane, NoLane
    <3>2. /\ lanes[1] = [weight |-> 1, ids |-> raw]
          /\ lanes[2] = [weight |-> 1, ids |-> near] /\ lanes[3] = NoLane
      OBVIOUS
    <3>3. lanes[1].ids = raw
      BY <3>2
    <3> HIDE DEF lanes
    <3>4. \A k \in 1 .. 3 : k = 1 \/ k = 2 \/ k = 3
      OBVIOUS
    <3> QED BY <3>1, <3>2, <3>3, <3>4
  <2>2. \E k \in 1 .. 3 : lanes[k].ids = raw
    <3>1. 1 \in 1 .. 3
      OBVIOUS
    <3> HIDE DEF lanes
    <3> QED BY <2>1, <3>1
  <2>3. kept = FuseCandidates(lanes, raw, Q.topK)
    BY <1>7
  <2> HIDE DEF raw, near, lanes, version
  <2>4. kept \in Seq(Chunk)
    <3> HIDE DEF kept
    <3> QED BY <1>3, <1>5, <2>1, <2>2, <2>3, FusionKeepsBest
  <2> HIDE DEF kept
  <2>5. \A i \in DOMAIN kept : cites[i].chunk = kept[i]
    BY DEF Citation
  <2>6. DOMAIN cites = DOMAIN kept /\ cites = [i \in DOMAIN kept |-> cites[i]]
    OBVIOUS
  <2> HIDE DEF cites
  <2>7. Len(cites) = Len(kept)
    BY <2>4, <2>6, CitesAre
  <2>8. rq.candidates = <<>> /\ DOMAIN cites = DOMAIN kept
    BY <1>1, <2>6
  <2> HIDE DEF order
  <2> QED BY <1>2, <1>5, <2>1, <2>2, <2>3, <2>5, <2>7, <2>8, FusionCited
<1>8. CASE Q.mode = "semantic"
  <2> HIDE DEF raw, version, cites
  <2>1. /\ IsRequest(rq') /\ rq'.request = rq.request /\ rq'.pc = "done"
        /\ rq'.candidates = <<>>
    BY <1>1, <1>2 DEF IsRequest, Persisted
  <2>2. Q' = Q
    BY <2>1 DEF Q
  <2> QED BY <1>1, <1>4, <1>8, <2>1, <2>2 DEF RankedInv, RankedShape, CandidatesBelong,
             RankedProperties, BestRawMatchIsCited, NumbersYieldToAgreement, NoPlaceIsLost
<1> QED BY <1>1, <1>7, <1>8

LEMMA ReadCandidatesRanked ==
  ASSUME RankedShape, CandidatesBelong, ReadCandidates
  PROVE  RankedInv'
<1>1. rq.pc = "read" /\ rq.candidates = <<>> /\ rq.request \in Requests /\ IsRequest(rq)
      /\ Q.mode \in {"reranked", "metadata"}
  BY DEF ReadCandidates, CandidatesBelong, RankedShape
<1> DEFINE found == IF Q.mode = "metadata" THEN First(Merged, RerankLimit) ELSE Collapsed(Nearest)
           seen == IF Q.mode = "metadata" THEN ArmsNow ELSE <<>>
<1>2. rq' = IF found = <<>> THEN Persisted("reranked", <<>>)
            ELSE [rq EXCEPT !.pc = "rerank", !.candidates = found, !.seen = seen, !.shown = Shown]
  BY DEF ReadCandidates
<1>3. found \in Seq(Chunk)
  <2>1. Collapsed(Nearest) \in Seq(Chunk)
    BY <1>1, CollapsedIs
  <2>2. MergedChunks \in SUBSET Chunk /\ Lists(Merged, MergedChunks) /\ RerankLimit \in Nat
    BY <1>1, MergedLists, RequestIs
  <2>3. Merged \in Seq(Chunk)
    BY <2>2 DEF Lists
  <2>4. First(Merged, RerankLimit) \in Seq(Chunk)
    BY <2>2, <2>3, FirstIs
  <2> QED BY <2>1, <2>4
<1>4. ASSUME Q.mode = "metadata", NEW e \in ToSet(ArmsNow[2].ids),
             e \notin {DocOf(c) : c \in ToSet(found)}, e \in {DocOf(c) : c \in Shown},
             NEW d \in {DocOf(c) : c \in ToSet(found)}
      PROVE  \/ Cardinality({k \in 1 .. 3 : d \in ToSet(ArmsNow[k].ids)}) >= 2
             \/ \E k \in {k \in 1 .. 3 : d \in ToSet(ArmsNow[k].ids)} :
                  PlaceOf(ArmsNow[k].ids, d) <= 2
  <2>1. PICK c \in ToSet(found) : d = DocOf(c)
    OBVIOUS
  <2>2. found = First(Merged, RerankLimit)
    BY <1>4
  <2> HIDE DEF found
  <2>3. -Score(ArmsNow, DocOf(c)) <= -Score(ArmsNow, e)
    BY <1>1, <1>4, <2>2, ChosenByAgreement
  <2> QED BY <1>1, <2>1, <2>3, LowPlacesLose
<1> HIDE DEF found
<1>5. CASE found = <<>>
  <2>1. /\ IsRequest(rq') /\ rq'.request = rq.request /\ rq'.pc = "done"
        /\ rq'.candidates = <<>>
    BY <1>1, <1>2, <1>5 DEF IsRequest, Persisted
  <2>2. Q' = Q
    BY <2>1 DEF Q
  <2>3. <<>> \in Seq(Chunk)
    OBVIOUS
  <2> QED BY <1>1, <2>1, <2>2, <2>3 DEF RankedInv, RankedShape, CandidatesBelong,
             RankedProperties, BestRawMatchIsCited, NumbersYieldToAgreement, NoPlaceIsLost
<1>6. CASE found # <<>>
  <2>1. /\ IsRequest(rq') /\ rq'.request = rq.request /\ rq'.pc = "rerank"
        /\ rq'.candidates = found /\ rq'.seen = seen /\ rq'.shown = Shown
    BY <1>1, <1>2, <1>6 DEF IsRequest
  <2>2. Q' = Q
    BY <2>1 DEF Q
  <2>3. RankedShape' /\ CandidatesBelong'
    BY <1>1, <1>3, <2>1, <2>2 DEF RankedShape, CandidatesBelong
  <2>4. BestRawMatchIsCited' /\ NoPlaceIsLost'
    BY <2>1 DEF BestRawMatchIsCited, NoPlaceIsLost
  <2>5. NumbersYieldToAgreement'
    <3>1. CASE Q.mode = "metadata"
      <4>1. seen = ArmsNow
        BY <3>1
      <4> HIDE DEF seen
      <4> QED BY <1>4, <2>1, <2>2, <3>1, <4>1 DEF NumbersYieldToAgreement
    <3>2. CASE Q.mode # "metadata"
      BY <2>2, <3>2 DEF NumbersYieldToAgreement
    <3> QED BY <3>1, <3>2
  <2> QED BY <2>3, <2>4, <2>5 DEF RankedInv, RankedProperties
<1> QED BY <1>5, <1>6

LEMMA RerankRanked ==
  ASSUME RankedShape, CandidatesBelong, Rerank
  PROVE  RankedInv'
<1>1. rq.pc = "rerank" /\ rq.request \in Requests /\ IsRequest(rq) /\ rq.candidates \in Seq(Chunk)
      /\ Q.mode \in {"reranked", "metadata"}
  BY DEF Rerank, CandidatesBelong, RankedShape
<1> DEFINE logit(a, c) == LET i == PlaceOf(rq.candidates, c) IN IF i \in DOMAIN a THEN a[i] ELSE 0
           order(a) == InOrder([c \in ToSet(rq.candidates) |->
                                  <<-logit(a, c), ChunkHome[c].ordinal, c>>])
           logits(a) == [i \in DOMAIN order(a) |-> logit(a, order(a)[i])]
<1>2. CASE rq' = [rq EXCEPT !.pc = "write", !.version = "fallback"]
  <2>1. /\ IsRequest(rq') /\ rq'.request = rq.request /\ rq'.pc = "write"
        /\ rq'.candidates = rq.candidates
    BY <1>1, <1>2 DEF IsRequest
  <2> QED BY <1>1, <2>1, OnTheWay DEF RankedInv, RankedShape, CandidatesBelong, Q
<1>3. ASSUME NEW a \in Answers,
             rq' = [rq EXCEPT !.pc = "write", !.version = "reranked", !.candidates = order(a),
                              !.logits = logits(a)]
      PROVE  RankedInv'
  <2>1. order(a) \in Seq(Chunk)
    <3> DEFINE C == ToSet(rq.candidates)
               key == [c \in C |-> <<-logit(a, c), ChunkHome[c].ordinal, c>>]
    <3>1. C \in SUBSET Chunk
      BY <1>1 DEF ToSet
    <3>2. PICK n : a \in [1 .. n -> {-1, 1}]
      BY DEF Answers
    <3>3. ASSUME NEW c \in C
          PROVE  -logit(a, c) \in Int /\ ChunkHome[c].ordinal \in Int /\ c \in Int
      <4>1. logit(a, c) \in Int
        BY <3>2
      <4> HIDE DEF logit, C
      <4> QED BY <3>1, <4>1, Homes
    <3>4. DOMAIN key = C /\ \A c \in C : key[c] = <<-logit(a, c), ChunkHome[c].ordinal, c>>
      OBVIOUS
    <3>5. IsFiniteSet(C)
      BY <3>1, Homes, FS_Subset
    <3> HIDE DEF C, logit, key
    <3>6. \A x \in DOMAIN key : \E j, k, l \in Int : key[x] = <<j, k, l>>
      BY <3>3, <3>4
    <3>7. \A x, y \in DOMAIN key : key[x] = key[y] => x = y
      BY <3>3, <3>4
    <3>8. Orders(key)
      BY <3>6, <3>7, KeysOfThree
    <3>9. Lists(InOrder(key), C)
      BY <3>4, <3>5, <3>8, InOrderLists
    <3>10. InOrder(key) \in Seq(Chunk)
      BY <3>1, <3>9 DEF Lists
    <3> QED BY <3>10 DEF key, C, logit
  <2> HIDE DEF order, logits
  <2>2. /\ IsRequest(rq') /\ rq'.request = rq.request /\ rq'.pc = "write"
        /\ rq'.candidates = order(a)
    BY <1>1, <1>3 DEF IsRequest
  <2> QED BY <1>1, <2>1, <2>2, OnTheWay DEF RankedInv, RankedShape, CandidatesBelong, Q
<1>4. \/ rq' = [rq EXCEPT !.pc = "write", !.version = "fallback"]
      \/ \E a \in Answers :
           rq' = [rq EXCEPT !.pc = "write", !.version = "reranked", !.candidates = order(a),
                            !.logits = logits(a)]
  BY DEF Rerank
<1> QED BY <1>2, <1>3, <1>4

LEMMA WriteRanked ==
  ASSUME RankedShape, CandidatesBelong, Write
  PROVE  RankedInv'
<1>1. rq.pc = "write" /\ rq.request \in Requests /\ IsRequest(rq) /\ rq.candidates \in Seq(Chunk)
      /\ Q.mode \in {"reranked", "metadata"}
  BY DEF Write, CandidatesBelong, RankedShape
<1> DEFINE I == {i \in DOMAIN rq.candidates : rq.candidates[i] \in Children}
           kept == First(Ascending(I), Q.topK)
           cites == [k \in DOMAIN kept |->
                       Citation(rq.candidates[kept[k]], FALSE, TRUE,
                                IF rq.logits = <<>> THEN 0 ELSE rq.logits[kept[k]])]
<1>2. rq' = [Persisted(rq.version, cites) EXCEPT !.shown = Children]
  BY DEF Write, CheckThenCut
<1>3. I \in SUBSET DOMAIN rq.candidates
  OBVIOUS
<1>4. I \in SUBSET Int /\ IsFiniteSet(I)
  <2>1. DOMAIN rq.candidates = 1 .. Len(rq.candidates) /\ Len(rq.candidates) \in Nat
    BY <1>1
  <2>2. IsFiniteSet(1 .. Len(rq.candidates))
    BY <2>1, FS_Interval
  <2>3. I \in SUBSET (1 .. Len(rq.candidates))
    BY <1>3, <2>1
  <2> HIDE DEF I
  <2>4. IsFiniteSet(I)
    BY <2>2, <2>3, FS_Subset
  <2>5. I \in SUBSET Int
    BY <2>3
  <2> QED BY <2>4, <2>5
<1>5. ASSUME NEW c \in ToSet(rq.candidates) \cap Children
      PROVE  \E i \in I : rq.candidates[i] = c
  BY DEF ToSet
<1> HIDE DEF I
<1>6. Lists(Ascending(I), I) /\ Q.topK \in Nat
  BY <1>1, <1>4, AscendingLists, RequestIs
<1>7. Ascending(I) \in Seq(I)
  BY <1>6 DEF Lists
<1>8. kept \in Seq(I) /\ (Len(kept) < Q.topK => kept = Ascending(I))
  BY <1>6, <1>7, FirstIs
<1> HIDE DEF kept
<1>9. DOMAIN cites = DOMAIN kept /\ cites = [k \in DOMAIN kept |-> cites[k]]
      /\ \A k \in DOMAIN kept : cites[k].chunk = rq.candidates[kept[k]]
  BY DEF Citation
<1> HIDE DEF cites
<1>10. Len(cites) = Len(kept)
  BY <1>8, <1>9, CitesAre
<1>11. /\ IsRequest(rq') /\ rq'.request = rq.request /\ rq'.pc = "done"
       /\ rq'.candidates = rq.candidates /\ rq'.cites = cites /\ rq'.shown = Children
  BY <1>1, <1>2 DEF IsRequest, Persisted
<1>12. Q' = Q
  BY <1>11 DEF Q
<1>13. RankedShape' /\ CandidatesBelong'
  BY <1>1, <1>11 DEF RankedShape, CandidatesBelong
<1>14. BestRawMatchIsCited' /\ NumbersYieldToAgreement'
  BY <1>1, <1>11, <1>12 DEF BestRawMatchIsCited, NumbersYieldToAgreement
<1>15. ASSUME Len(cites) < Q.topK, NEW c \in ToSet(rq.candidates) \cap Children
       PROVE  c \in {cites[k].chunk : k \in DOMAIN cites}
  <2>1. PICK i \in I : rq.candidates[i] = c
    BY <1>5, <1>15
  <2>2. kept = Ascending(I)
    BY <1>8, <1>10, <1>15
  <2>3. PICK k \in DOMAIN kept : kept[k] = i
    BY <1>6, <2>2 DEF Lists
  <2> QED BY <1>9, <2>1, <2>3
<1>16. NoPlaceIsLost'
  <2>1. Cited' = {cites[k].chunk : k \in DOMAIN cites}
    BY <1>11 DEF Cited
  <2> QED BY <1>11, <1>12, <1>15, <2>1 DEF NoPlaceIsLost
<1> QED BY <1>13, <1>14, <1>16 DEF RankedInv, RankedProperties

LEMMA StatementRaisesRanked ==
  ASSUME RankedShape, StatementRaises
  PROVE  RankedInv'
<1>1. rq.request \in Requests /\ IsRequest(rq) /\ rq.candidates \in Seq(Chunk)
      /\ rq' = [rq EXCEPT !.pc = "failed"]
  BY DEF RankedShape, StatementRaises
<1>2. /\ IsRequest(rq') /\ rq'.request = rq.request /\ rq'.pc = "failed"
      /\ rq'.candidates = rq.candidates
  BY <1>1 DEF IsRequest
<1> QED BY <1>1, <1>2, OnTheWay DEF RankedInv, RankedShape, CandidatesBelong

\* What the corpus does changes no promise.
LEMMA SameRequest ==
  ASSUME RankedInv, UNCHANGED rq
  PROVE  RankedInv'
BY DEF RankedInv, RankedShape, CandidatesBelong, RankedProperties, BestRawMatchIsCited,
       NumbersYieldToAgreement, NoPlaceIsLost, Cited, Q

LEMMA RankedInductive ==
  ASSUME RankedInv, [RankedNext]_rankedVars
  PROVE  RankedInv'
<1>1. ASSUME NEW r \in Requests, Ask(r) PROVE RankedInv'
  BY <1>1, AskRanked
<1>2. CASE rq = Unasked /\ ~(\E r \in Requests : Ask(r))
  <2>1. rq.pc = "idle"
    BY <1>2 DEF Unasked
  <2>2. UNCHANGED rq
    BY <1>2, <2>1 DEF RankedNext, rankedVars, Prepare, ReadLexical, ReadHybrid, ReadCandidates,
                      Rerank, Write, StatementRaises, Advance
  <2> QED BY <2>2, SameRequest
<1>3. CASE rq # Unasked
  <2>1. RankedShape /\ CandidatesBelong
    BY <1>3 DEF RankedInv
  <2>2. CASE Prepare
    BY <2>1, <2>2, PrepareRanked
  <2>3. CASE ReadLexical
    BY <2>1, <2>3, ReadLexicalRanked
  <2>4. CASE ReadHybrid
    BY <2>1, <2>4, ReadHybridRanked
  <2>5. CASE ReadCandidates
    BY <2>1, <2>5, ReadCandidatesRanked
  <2>6. CASE Rerank
    BY <2>1, <2>6, RerankRanked
  <2>7. CASE Write
    BY <2>1, <2>7, WriteRanked
  <2>8. CASE StatementRaises
    BY <2>1, <2>8, StatementRaisesRanked
  <2>9. ASSUME NEW d \in Document, NEW all \in BOOLEAN, Advance(d, all) PROVE RankedInv'
    BY <2>9, SameRequest DEF Advance
  <2>10. CASE UNCHANGED rankedVars
    BY <2>10, SameRequest DEF rankedVars
  <2> QED BY <1>1, <2>2, <2>3, <2>4, <2>5, <2>6, <2>7, <2>8, <2>9, <2>10 DEF RankedNext
<1> QED BY <1>1, <1>2, <1>3

\* RankedInv holds for every corpus, question and interleaving of new versions.
THEOREM RankedInvariant == RankedSpec => []RankedInv
<1>1. RankedInit => RankedInv
  BY DEF RankedInit, RankedInv
<1>2. RankedInv /\ [RankedNext]_rankedVars => RankedInv'
  BY RankedInductive
<1> QED BY <1>1, <1>2, PTL DEF RankedSpec

\* What the inductive invariant says of every state, the first one included
LEMMA RankedPromises == RankedInv => RankedProperties
<1>1. ASSUME rq = Unasked PROVE RankedProperties
  <2>1. rq.pc = "idle"
    BY <1>1 DEF Unasked
  <2> QED BY <2>1 DEF RankedProperties, BestRawMatchIsCited, NumbersYieldToAgreement, NoPlaceIsLost
<1> QED BY <1>1 DEF RankedInv

\* Whatever the repair and expansion lanes or the vectors find, and however few places
\* top_k leaves, _fuse_candidates and _rank_hybrid keep the best match of the user's words.
THEOREM BestRawMatchStays == RankedSpec => []BestRawMatchIsCited
<1>1. RankedInv => BestRawMatchIsCited
  BY RankedPromises DEF RankedProperties
<1> QED BY <1>1, RankedInvariant, PTL

\* For any documents, titles and distances: a document that is named by its number reaches
\* the reranker, unless the reciprocal ranks of _rrf put only documents before it that two
\* arms found or that stand first or second in one.
THEOREM NumbersAreHeard == RankedSpec => []NumbersYieldToAgreement
<1>1. RankedInv => NumbersYieldToAgreement
  BY RankedPromises DEF RankedProperties
<1> QED BY <1>1, RankedInvariant, PTL

\* Whatever is ingested while the reranker works, _revalidate looks again before the cut to
\* top_k: no candidate that still stands loses a place that is free.
THEOREM NoFreePlaceIsLost == RankedSpec => []NoPlaceIsLost
<1>1. RankedInv => NoPlaceIsLost
  BY RankedPromises DEF RankedProperties
<1> QED BY <1>1, RankedInvariant, PTL

===============================================================================
