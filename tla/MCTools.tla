------------------------------- MODULE MCTools -------------------------------
(***************************************************************************)
(* The tools an operator runs beside the application, one at a time, each  *)
(* on a small instance: the importer of reviewed effects, the stress run,  *)
(* Alembic with the backfill of the number keys, and the comparison of two *)
(* retrievals. Alembic goes to revisions on both sides of the trust        *)
(* columns (0006), the semantic score (0009) and the number key (0011).    *)
(***************************************************************************)
EXTENDS LegalEffects, StressRun, ShadowEvaluation, M2Evaluation,
        SchemaMigrations, TLC

VARIABLE tool

-------------------------------------------------------------------------------
(* Effects: an assertion and its rivals.  Artifact 2 corrects the relation of the    *)
(* first with the same key, 4 revokes it, 5 repeats its key and 6 the ids of 2; the  *)
(* last is another content under the id of the first and corrects its own relation. *)

CONSTANTS k1, k2

Rel(id, key) == [id |-> id, key |-> key]
Evt(id, target, successor) == [id |-> id, target |-> target, successor |-> successor]

MCArtifact ==
    {[id |-> 1, relations |-> {Rel(1, k1)}, events |-> {}],
     [id |-> 2, relations |-> {Rel(2, k1)}, events |-> {Evt(1, 1, 2)}],
     [id |-> 4, relations |-> {Rel(4, k2)}, events |-> {Evt(3, 1, None)}],
     [id |-> 5, relations |-> {Rel(5, k1)}, events |-> {}],
     [id |-> 6, relations |-> {Rel(2, k2)}, events |-> {Evt(1, 4, None)}],
     [id |-> 1, relations |-> {Rel(6, k1), Rel(7, k2)}, events |-> {Evt(4, 6, 7)}]}

Symmetry == Permutations(Importer)

-------------------------------------------------------------------------------
(* Stress: two questions, of which the second cites nothing, in each mode. *)

MCCases == <<"Q01", "Q02">>
MCSourceOf == "a" :> "VNU"
MCExpectedDocs == "Q01" :> {"a"} @@ "Q02" :> {"a"}
MCExpectedSources == "Q01" :> {"VNU"} @@ "Q02" :> {"UEB"}
MCCitable == "Q01" :> {{}, {"a"}} @@ "Q02" :> {{}}

StressArguments(mode, planner, rerank, skipReal, levels) ==
    [levels |-> levels, mode |-> mode, planner |-> planner, rerank |-> rerank,
     repair |-> FALSE, lexical |-> FALSE, skipReal |-> skipReal]

MCArguments ==
    {StressArguments("off", TRUE, FALSE, FALSE, <<1>>),
     StressArguments("semantic", FALSE, TRUE, TRUE, <<2>>),
     StressArguments("off", FALSE, FALSE, TRUE, <<1, 2>>),
     StressArguments("hybrid", TRUE, FALSE, TRUE, <<1>>)}

-------------------------------------------------------------------------------
(* The evaluation of retrieval: a case of each set over three documents. *)

M2Parents == <<"Q01">>
M2ControlsB == <<"B1">>
M2ControlsC == <<"C1">>
M2ParentOf == "B1" :> "Q01"
M2Expected == "Q01" :> {1, 2}
M2Source == <<"VNU", "UEB", "UEB">>
M2Findable == "Q01" :> {{1}, {1, 2}} @@ "B1" :> {{1, 3}} @@ "C1" :> {{3}}
M2Controls == {"C1"}
M2Limits == <<8, 50>>
M2Inventories == {{1, 2, 3}, {2}}

-------------------------------------------------------------------------------
Tool == {"importer", "alembic", "shadow", "stress", "m2"}

\* Arguments and databases differ for the tool that runs.
ToolsInit ==
    /\ tool \in Tool
    /\ Init /\ StressInit /\ SchemaInit /\ ShadowInit /\ M2Init
    /\ tool # "importer" => evidence = {}
    /\ tool # "stress" => args = StressArguments("off", TRUE, FALSE, FALSE, <<1>>)
    /\ tool # "m2" => catalog = {2}

ToolsNext ==
    /\ \/ tool = "importer" /\ Next
          /\ UNCHANGED <<stressVars, schemaVars, shadowVars, m2Vars>>
       \/ tool = "stress" /\ StressNext
          /\ UNCHANGED <<effectsVars, schemaVars, shadowVars, m2Vars>>
       \/ tool = "alembic" /\ SchemaNext
          /\ UNCHANGED <<effectsVars, stressVars, shadowVars, m2Vars>>
       \/ tool = "shadow" /\ ShadowNext
          /\ UNCHANGED <<effectsVars, stressVars, schemaVars, m2Vars>>
       \/ tool = "m2" /\ M2Next
          /\ UNCHANGED <<effectsVars, stressVars, schemaVars, shadowVars>>
    /\ UNCHANGED tool

toolsVars == <<tool, effectsVars, stressVars, schemaVars, shadowVars, m2Vars>>

ToolsSpec == ToolsInit /\ [][ToolsNext]_toolsVars

===============================================================================
