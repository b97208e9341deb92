------------------------------ MODULE MCQuality -------------------------------
(***************************************************************************)
(* One request to the retrieval a deployment has chosen: to the quality    *)
(* retrieval, over a document of two chunks and one imported by hand, with *)
(* two units; or to one of the repositories it replaces, over four         *)
(* documents of which two get a new version. Or a run of the evaluation of *)
(* candidates, with a case of each set.                                    *)
(***************************************************************************)
EXTENDS QualityRetrieval, RankedRetrieval, CandidateEvaluation, TLC

MCPartsOf == 1 :> {1, 2} @@ 2 :> {1}

MCQuestions == {<<"plain", "plain">>, <<"ambiguous", "bare">>, <<"bare", "plain">>,
                <<"plain", "planned">>}

MCMaxVersion == 1 :> 2 @@ 2 :> 1

-------------------------------------------------------------------------------
VARIABLE repository  \* the one the settings name, or the candidate

\* Documents 1 to 4; the first has two chunks; 6 and 7 are the second versions.
MCChunkHome ==
  LET chunk(d, v, o) == [doc |-> d, version |-> v, ordinal |-> o] IN
  << chunk(1, 1, 0), chunk(1, 1, 1), chunk(2, 1, 0), chunk(3, 1, 0), chunk(4, 1, 0),
     chunk(1, 2, 0), chunk(2, 2, 0) >>

MCDistances == {<<1, 2, 3, 4, 5, 1, 2>>, <<2, 2, 1, 1, 3, 5, 5>>}

Asking(modes, raw, repair, expansion, numbers, titles, distances) ==
  [mode : modes, topK : {1, 2}, raw : raw, repair : repair, expansion : expansion,
   repairs : {repair # {<<>>}, FALSE}, expands : {expansion # {<<>>}, FALSE},
   scope : IF expansion = {<<>>} THEN {{}} ELSE {{}, {1}},
   numbers : numbers, titles : titles, distance : distances]

MCRequests ==
  Asking({"lexical"}, {<<>>, <<3>>, <<4, 1, 6>>}, {<<>>, <<1, 4>>, <<6, 3, 4>>},
         {<<>>, <<4, 3>>, <<1>>}, {<<>>, <<{1, 3}, {4}>>}, {<<>>}, {<<1, 2, 3, 4, 5, 1, 2>>})
  \cup Asking({"hybrid", "semantic"}, {<<>>, <<3>>, <<5, 4, 1>>}, {<<>>}, {<<>>},
              {<<>>}, {<<>>}, MCDistances)
  \cup Asking({"reranked", "metadata"}, {<<>>}, {<<>>}, {<<>>},
              {<<>>, <<{3, 4}>>, <<{3}, {4}>>},
              {<<>>, <<1, 2, 3>>, <<4, 1>>}, MCDistances)

MCMaxVersions == <<2, 2, 1, 1>>

-------------------------------------------------------------------------------
(* The candidate evaluation: a case of each set; chunks 1 and 2 are of one document. *)

CParents == <<"Q01">>
CControlsB == <<"B-Q01-01">>
CControlsC == <<"C-SS-01">>
CParentOf == "B-Q01-01" :> "Q01"
CExpected == "Q01" :> {1, 2, 3}
CHomeOf == <<1, 1, 2, 3, 4>>
CPoolSizes == <<3, 4>>
CChanges == {{1, 2, 3}, {1, 2}}
CSettings == {[flags |-> {}, strategy |-> "disabled"]}
CPaths == {[mode |-> "NATURAL", files |-> "own"], [mode |-> "BOUNDED_OR", files |-> "frozen"]}

Reading(semantic, content, title, unscored, queries, ms) ==
    [lanes |-> [SEMANTIC |-> semantic, CONTENT_FTS |-> content, TITLE_FTS |-> title],
     unscored |-> unscored, queries |-> queries, ms |-> ms, semanticMs |-> 1]

CReadings ==
    "Q01" :> {Reading(<<1, 2>>, <<3>>, <<4>>, {}, 5, 2),
              Reading(<<5, 3, 1>>, <<4, 1>>, <<2>>, {}, 5, 3)}
    @@ "B-Q01-01" :> {Reading(<<5, 3, 1>>, <<4, 1>>, <<2>>, {}, 5, 1)}
    @@ "C-SS-01" :> {Reading(<<>>, <<>>, <<>>, {}, 5, 1),
                     Reading(<<1, 5>>, <<1>>, <<4, 5>>, {3}, 13, 2)}

-------------------------------------------------------------------------------
\* Settings choose the repository: of the other ones nothing is asked.
RetrievalInit ==
  /\ QInit /\ RankedInit /\ EvaluationInit
  /\ repository \in {"quality", "ranked", "candidate"}
  /\ repository # "quality" =>
       latest = [d \in Doc |-> 0] /\ q.profile = "repair" /\ q.kind = <<"plain", "plain">>
  /\ repository # "candidate" => inventory = {1, 2} /\ paths.mode = "NATURAL"

RetrievalNext ==
  /\ \/ repository = "quality" /\ QNext /\ UNCHANGED <<rankedVars, evaluationVars>>
     \/ repository = "ranked" /\ RankedNext /\ UNCHANGED <<qualityVars, evaluationVars>>
     \/ repository = "candidate" /\ EvaluationNext /\ UNCHANGED <<qualityVars, rankedVars>>
  /\ UNCHANGED repository

RetrievalSpec ==
  RetrievalInit
    /\ [][RetrievalNext]_<<qualityVars, repository, rankedVars, evaluationVars>>

===============================================================================
