---------------------------- MODULE GroundedAnswer ----------------------------
(***************************************************************************)
(* What the grounded chat promises of each question, without retrieval     *)
(* lanes, grounding rows or citations to resolve: the provider is shown    *)
(* evidence once at most; the question gets one verdict; it is an answer   *)
(* only behind the provider, and then it cites what the provider was shown.*)
(***************************************************************************)
CONSTANTS
  Question,
  Evidence     \* what may be shown and cited

VARIABLES
  shown,       \* the evidence the provider was shown, empty before
  verdict,     \* "none" at first
  cited        \* the citations of an answer

AnswerInit ==
  /\ shown = [q \in Question |-> {}]
  /\ verdict = [q \in Question |-> "none"]
  /\ cited = [q \in Question |-> {}]

Consult(q) ==
  /\ shown[q] = {} /\ verdict[q] = "none"
  /\ shown' \in [Question -> SUBSET Evidence]
  /\ \A p \in Question \ {q} : shown'[p] = shown[p]
  /\ UNCHANGED <<verdict, cited>>

Answer(q) ==
  /\ shown[q] # {} /\ verdict[q] = "none"
  /\ verdict' = [verdict EXCEPT ![q] = "answer"]
  /\ cited' = [cited EXCEPT ![q] = shown[q]]
  /\ UNCHANGED shown

\* Fixed texts: a clarification instead of the provider, a refusal at any time
Decline(q) ==
  /\ verdict[q] = "none"
  /\ \/ shown[q] = {} /\ verdict' = [verdict EXCEPT ![q] = "clarification"]
     \/ verdict' = [verdict EXCEPT ![q] = "refusal"]
  /\ UNCHANGED <<shown, cited>>

AnswerNext == \E q \in Question : Consult(q) \/ Answer(q) \/ Decline(q)

AnswerSpec == AnswerInit /\ [][AnswerNext]_<<shown, verdict, cited>>

===============================================================================
