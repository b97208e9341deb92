---------------------------- MODULE RankedRetrieval ----------------------------
(***************************************************************************)
(* One request to a retrieval repository other than the quality one, with  *)
(* what its lanes find and how they are ranked: lexical                    *)
(* (retrieval_repository.py), hybrid and semantic                          *)
(* (hybrid_retrieval_repository.py), reranked                              *)
(* (reranked_semantic_repository.py) and metadata                          *)
(* (metadata_repair_repository.py).  Documents get new versions between    *)
(* its transactions.                                                       *)
(*                                                                         *)
(* Documents here are those of the active sources with strict provenance.  *)
(* A question is what its lanes would find in the whole corpus, in order;  *)
(* how words, vectors, numbers and titles match is not modelled.           *)
(***************************************************************************)
EXTENDS Ranking, SequencesExt

CONSTANTS
  Document,        \* documents, numbers: ids are compared
  Chunk,           \* chunks, numbers
  ChunkHome,       \* chunk -> [doc, version, ordinal]
  MaxVersions,     \* bound: versions of each document
  Requests,        \* bound: what may be asked, see Ask
  Window,          \* rows of a semantic read (8 and 20 in the code)
  VersionLimit,    \* versions taken from it (16)
  TitleLimit,      \* versions found by title (8)
  RerankLimit      \* candidates given to the reranker (8)

\* A question holds two document numbers at most (_NUMBER_LIMIT).
ASSUME RankedAssumption ==
  /\ Document \subseteq Nat /\ Chunk \subseteq Nat /\ IsFiniteSet(Chunk)
  /\ ChunkHome \in [Chunk -> [doc : Document, version : Nat, ordinal : Nat]]
  /\ MaxVersions \in [Document -> Nat]
  /\ {Window, VersionLimit, TitleLimit, RerankLimit} \subseteq Nat
  /\ \A r \in Requests :
       /\ r.mode \in {"lexical", "hybrid", "semantic", "reranked", "metadata"}
       /\ r.topK \in Nat \ {0}
       /\ {r.raw, r.repair, r.expansion} \subseteq Seq(Chunk) /\ r.scope \subseteq Document
       /\ r.repairs \in BOOLEAN /\ r.expands \in BOOLEAN
       /\ r.numbers \in Seq(SUBSET Document) /\ Len(r.numbers) <= 2
       /\ r.titles \in Seq(Document)
       /\ r.distance \in [Chunk -> Int]

VARIABLES
  newest,          \* per document: its greatest version
  semanticRows,    \* chunks with their semantic row
  rq               \* the request

rankedVars == <<newest, semanticRows, rq>>

Q == rq.request

-------------------------------------------------------------------------------
(***************************************************************************)
(* Ranking                                                                 *)
(***************************************************************************)
PlaceOf(s, x) == CHOOSE i \in DOMAIN s : s[i] = x

\* weight / (60 + rank): a multiple of it that is exact for ranks 1 to 4
RRFShare(lane, x) ==
  IF x \in ToSet(lane.ids) THEN (lane.weight * 61 * 62 * 63 * 64) \div (60 + PlaceOf(lane.ids, x))
  ELSE 0

\* A fusion has three lanes, of which some are empty.
NoLane == [weight |-> 1, ids |-> <<>>]

Score(lanes, x) == RRFShare(lanes[1], x) + RRFShare(lanes[2], x) + RRFShare(lanes[3], x)

\* By score, then those the raw lane found, then by id.
LexicalKey(lanes, raw, c) == <<-Score(lanes, c), IF c \in ToSet(raw) THEN 0 ELSE 1, c>>

\* Mutation: the best of all lanes, and nothing else.
Unretained(kept, raw, lanes) == kept

\* The best match of the raw query stays, in the place of the last that was kept.
Retained(kept, raw, lanes) ==
  IF raw = <<>> \/ raw[1] \in ToSet(kept) THEN kept
  ELSE InOrder([c \in ToSet(Front(kept)) \cup {raw[1]} |-> LexicalKey(lanes, raw, c)])

\* _fuse_candidates and _rank_hybrid
FuseCandidates(lanes, raw, topK) ==
  LET found == UNION {ToSet(lanes[k].ids) : k \in 1 .. 3}
      order == InOrder([c \in found |-> LexicalKey(lanes, raw, c)])
  IN  Retained(First(order, topK), raw, lanes)

-------------------------------------------------------------------------------
(***************************************************************************)
(* Lanes: what a statement finds in the snapshot of its transaction        *)
(***************************************************************************)
DocOf(c) == ChunkHome[c].doc

IsLatest(c) == newest[DocOf(c)] = ChunkHome[c].version

Searchable == {c \in Chunk : IsLatest(c)}

Covered == Searchable \subseteq semanticRows

\* A lane returns the eligible chunks of its ranking, within a scope if there is one.
Lane(ranking, scope, limit) ==
  First(At(ranking, {i \in DOMAIN ranking : /\ ranking[i] \in Searchable
                                            /\ scope = {} \/ DocOf(ranking[i]) \in scope}), limit)

LaneLimit == IF Q.topK + 2 < 8 THEN Q.topK + 2 ELSE 8

\* _identify_metadata_document_ids: a number may name several, two are taken.
Identified ==
  LET named == {d \in UNION ToSet(Q.numbers) : newest[d] > 0} IN
  {d \in named : Cardinality({e \in named : e < d}) < 2}

\* By distance, then ordinal, then id; hybrid has no ordinal in its ORDER BY.
ChildKey(c) == <<Q.distance[c], ChunkHome[c].ordinal, c>>

Children == Searchable \cap semanticRows

Nearest == First(InOrder([c \in Children |-> ChildKey(c)]), Window)

\* _collapse: the nearest chunk of each version, for a document has one latest.
Collapsed(rows) ==
  At(rows, {i \in DOMAIN rows : \A b \in ToSet(rows) : DocOf(b) = DocOf(rows[i]) =>
                                  b = rows[i] \/ Before(ChildKey(rows[i]), ChildKey(b))})

\* _identity_versions: numbers that name exactly one document that is there
Named ==
  LET sure == At(Q.numbers, {i \in DOMAIN Q.numbers :
                               Cardinality({d \in Q.numbers[i] : newest[d] > 0}) = 1})
  IN  [i \in DOMAIN sure |-> CHOOSE d \in sure[i] : newest[d] > 0]

Titled == First(At(Q.titles, {i \in DOMAIN Q.titles : newest[Q.titles[i]] > 0}), TitleLimit)

\* _supporting_children: the nearest chunk of a version that was found by metadata
Support(d) == First(InOrder([c \in {b \in Children : DocOf(b) = d} |-> ChildKey(c)]), 1)

\* _rrf over documents: each arm counts alike, and only what has a chunk stays.
Arms(near) ==
  << [weight |-> 1, ids |-> [i \in DOMAIN near |-> DocOf(near[i])]],
     [weight |-> 1, ids |-> Named], [weight |-> 1, ids |-> Titled] >>

\* What a document found by metadata may show
Shown == {c \in Children : Support(DocOf(c)) = <<c>>}

ArmsNow == Arms(First(Collapsed(Nearest), VersionLimit))

\* Mutation: what metadata finds comes after the semantic candidates.
Appended ==
  LET near == First(Collapsed(Nearest), VersionLimit)
      named == Named \o Titled
      later == {i \in DOMAIN named : /\ Support(named[i]) # <<>>
                                     /\ Support(named[i])[1] \notin ToSet(near)}
      more == At(named, later)
  IN  near \o [i \in DOMAIN more |-> Support(more[i])[1]]

Merged ==
  LET arms == ArmsNow
      docs == {d \in UNION {ToSet(arms[k].ids) : k \in 1 .. 3} : Support(d) # <<>>}
  IN  InOrder([c \in {Support(d)[1] : d \in docs} |->
                 <<-Score(arms, DocOf(c)), ChunkHome[c].ordinal, DocOf(c)>>])

-------------------------------------------------------------------------------
(***************************************************************************)
(* The request                                                             *)
(***************************************************************************)
Unasked == [pc |-> "idle"]

\* A citation: which scores it has, and the reranker's, 0 for none
Citation(c, lexical, semantic, reranker) ==
  [chunk |-> c, lexical |-> lexical, semantic |-> semantic, reranker |-> reranker]

\* The run and its citations are one transaction.
Persisted(version, cites) ==
  [rq EXCEPT !.pc = "done", !.version = version, !.cites = cites]

Ask(r) ==
  /\ rq = Unasked
  /\ rq' = [request |-> r, pc |-> IF r.mode = "lexical" THEN "read" ELSE "embed", ready |-> FALSE,
            version |-> "none", candidates |-> <<>>, logits |-> <<>>, cites |-> <<>>,
            seen |-> <<>>, shown |-> {}]
  /\ UNCHANGED <<newest, semanticRows>>

\* The query is embedded, or cannot be; then the coverage is counted.  Without
\* both the hybrid repository goes on with its lexical lane.
Prepare ==
  /\ rq.pc = "embed"
  /\ \E vector \in BOOLEAN :
       LET ready == vector /\ Covered IN
       rq' = IF ready \/ Q.mode = "hybrid" THEN [rq EXCEPT !.pc = "read", !.ready = ready]
             ELSE Persisted("unavailable", <<>>)
  /\ UNCHANGED <<newest, semanticRows>>

\* Raw, repair and expansion lanes; a failing expansion is rolled back alone.
ReadLexical ==
  /\ rq.pc = "read" /\ Q.mode = "lexical"
  /\ \E expanded \in IF Q.expands THEN BOOLEAN ELSE {FALSE} :
       LET raw == Lane(Q.raw, {}, LaneLimit)
           repair == IF Q.repairs THEN Lane(Q.repair, Identified, LaneLimit) ELSE <<>>
           expansion == IF expanded THEN Lane(Q.expansion, Q.scope, LaneLimit) ELSE <<>>
           lanes == << [weight |-> 3, ids |-> repair], [weight |-> 1, ids |-> raw],
                       [weight |-> 1, ids |-> expansion] >>
           kept == FuseCandidates(lanes, raw, Q.topK)
       IN rq' = [Persisted(IF expanded THEN "planned" ELSE "plain",
                   [i \in DOMAIN kept |-> Citation(kept[i], TRUE, FALSE, 0)]) EXCEPT !.seen = raw]
  /\ UNCHANGED <<newest, semanticRows>>

\* One transaction: the semantic lane, and for hybrid the raw lexical one.
ReadHybrid ==
  /\ rq.pc = "read" /\ Q.mode \in {"hybrid", "semantic"}
  /\ LET raw == IF Q.mode = "hybrid" THEN Lane(Q.raw, {}, LaneLimit) ELSE <<>>
         near == IF rq.ready
                 THEN First(InOrder([c \in Children |-> <<Q.distance[c], c>>]), LaneLimit)
                 ELSE <<>>
         lanes == << [weight |-> 1, ids |-> raw], [weight |-> 1, ids |-> near], NoLane >>
         kept == IF Q.mode = "hybrid" THEN FuseCandidates(lanes, raw, Q.topK) ELSE First(near, Q.topK)
     IN rq' = [Persisted(IF rq.ready THEN "exact" ELSE "fallback",
                 [i \in DOMAIN kept |-> Citation(kept[i], kept[i] \in ToSet(raw),
                                                 kept[i] \in ToSet(near), 0)]) EXCEPT !.seen = raw]
  /\ UNCHANGED <<newest, semanticRows>>

\* The candidates for the reranker; none end the request.
ReadCandidates ==
  /\ rq.pc = "read" /\ Q.mode \in {"reranked", "metadata"}
  /\ LET metadata == Q.mode = "metadata"
         found == IF metadata THEN First(Merged, RerankLimit) ELSE Collapsed(Nearest)
     IN  rq' = IF found = <<>> THEN Persisted("reranked", <<>>)
               ELSE [rq EXCEPT !.pc = "rerank", !.candidates = found,
                               !.seen = IF metadata THEN ArmsNow ELSE <<>>, !.shown = Shown]
  /\ UNCHANGED <<newest, semanticRows>>

\* What the reranker may answer: logits, one for each candidate or one too few.
Answers == UNION {[1 .. n -> {-1, 1}] : n \in {Len(rq.candidates), Len(rq.candidates) - 1}}

\* Each candidate has its score, or the answer is refused.
Aligns(answer) == DOMAIN answer = DOMAIN rq.candidates

\* _rerank, outside any transaction: by logit, then ordinal, then id; a timeout, an
\* error or an answer that does not align leaves the order as it was.
Rerank ==
  /\ rq.pc = "rerank"
  /\ \/ rq' = [rq EXCEPT !.pc = "write", !.version = "fallback"]
     \/ \E answer \in Answers :
          /\ Aligns(answer)
          /\ LET logit(c) == LET i == PlaceOf(rq.candidates, c) IN
                             IF i \in DOMAIN answer THEN answer[i] ELSE 0
                 order == InOrder([c \in ToSet(rq.candidates) |->
                            <<-logit(c), ChunkHome[c].ordinal, c>>])
             IN  rq' = [rq EXCEPT !.pc = "write", !.version = "reranked", !.candidates = order,
                                  !.logits = [i \in DOMAIN order |-> logit(order[i])]]
  /\ UNCHANGED <<newest, semanticRows>>

\* Mutation: the cut to top_k comes before the second look.
CutThenCheck(places) == Ascending({i \in places : i <= Q.topK /\ rq.candidates[i] \in Children})

\* _revalidate, then the cut to top_k
CheckThenCut(places) == First(Ascending({i \in places : rq.candidates[i] \in Children}), Q.topK)

\* _write, in a second snapshot
Write ==
  /\ rq.pc = "write"
  /\ LET kept == CheckThenCut(DOMAIN rq.candidates) IN
     rq' = [Persisted(rq.version, [k \in DOMAIN kept |->
              Citation(rq.candidates[kept[k]], FALSE, TRUE,
                       IF rq.logits = <<>> THEN 0 ELSE rq.logits[kept[k]])]) EXCEPT !.shown = Children]
  /\ UNCHANGED <<newest, semanticRows>>

\* A statement raises: no run.
StatementRaises ==
  /\ rq.pc \in {"read", "write"}
  /\ rq' = [rq EXCEPT !.pc = "failed"]
  /\ UNCHANGED <<newest, semanticRows>>

\* A version is committed, with or without its semantic rows.
Advance(d, rows) ==
  /\ rq # Unasked /\ rq.pc \notin {"done", "failed"}
  /\ newest[d] < MaxVersions[d]
  /\ newest' = [newest EXCEPT ![d] = @ + 1]
  /\ semanticRows' = semanticRows \cup
       IF rows THEN {c \in Chunk : DocOf(c) = d /\ ChunkHome[c].version = newest[d] + 1} ELSE {}
  /\ UNCHANGED rq

RankedInit ==
  /\ newest = [d \in Document |-> 1]
  /\ semanticRows = {c \in Chunk : ChunkHome[c].version = 1}
  /\ rq = Unasked

RankedNext ==
  \/ \E r \in Requests : Ask(r)
  \/ Prepare \/ ReadLexical \/ ReadHybrid \/ ReadCandidates \/ Rerank \/ Write \/ StatementRaises
  \/ \E d \in Document, rows \in BOOLEAN : Advance(d, rows)

RankedSpec == RankedInit /\ [][RankedNext]_rankedVars

-------------------------------------------------------------------------------
(***************************************************************************)
(* Properties                                                              *)
(***************************************************************************)
Cited == {rq.cites[i].chunk : i \in DOMAIN rq.cites}

\* Whatever repair phrases, an expansion or the vector lane find, and however few
\* places there are, the best match of the user's own words is cited
\* (retrieval_repository.py, hybrid_retrieval_repository.py), once.
BestRawMatchIsCited ==
  rq.pc = "done" /\ Q.mode \in {"lexical", "hybrid"} /\ rq.version # "unavailable" =>
    /\ Cardinality(Cited) = Len(rq.cites) /\ Len(rq.cites) <= Q.topK
    /\ (rq.seen # <<>> => rq.seen[1] \in Cited)

\* A document whose number stands in the question, that has a chunk to show and is
\* not given to the reranker, was displaced by documents that two arms found or that
\* are first or second in theirs: one lower place in a single arm never displaces it.
NumbersYieldToAgreement ==
  rq.pc = "rerank" /\ Q.mode = "metadata" =>
    LET chosen == {DocOf(c) : c \in ToSet(rq.candidates)}
        found(d) == {k \in 1 .. 3 : d \in ToSet(rq.seen[k].ids)}
        displaced == {d \in ToSet(rq.seen[2].ids) \ chosen : d \in {DocOf(c) : c \in rq.shown}}
    IN  displaced # {} =>
          \A d \in chosen : \/ Cardinality(found(d)) >= 2
                            \/ \E k \in found(d) : PlaceOf(rq.seen[k].ids, d) <= 2

\* A candidate whose document got a new version while the reranker worked leaves its
\* place to the next one: with room left, every candidate that still stands is cited.
NoPlaceIsLost ==
  rq.pc = "done" /\ rq.candidates # <<>> /\ Len(rq.cites) < Q.topK =>
    ToSet(rq.candidates) \cap rq.shown \subseteq Cited

===============================================================================
