----------------------------- MODULE GroundedChat -----------------------------
(***************************************************************************)
(* GroundedChatService.respond (chat/service.py): the temporal guard, the  *)
(* planner, one retrieval request, the evidence, the provider, and the     *)
(* second resolution of every citation, while documents are ingested and   *)
(* embedded.  An action is what happens from one await to the next.        *)
(*                                                                         *)
(* A question is a reader of CorpusRetrieval; its run is stored in rd.     *)
(* Which words a question has, what the planner adds to the query and what *)
(* the provider writes are left open.                                      *)
(***************************************************************************)
EXTENDS CorpusRetrieval

VARIABLE ch    \* per question: its place in respond, then its verdict

chatVars == <<vars, ch>>

\* The row that a join from the citation of chunk k finds: the chunk with its
\* version, and with it the provenance, the document and the text
CitationRow == [chunk : ChunkId, doc : Document, number : Nat \ {0}, snapshot : Snapshot]

RowIn(V, k) ==
    {[chunk |-> k, doc |-> v.doc, number |-> v.number, snapshot |-> v.snapshot] :
        v \in {w \in V : k \in w.chunks}}

\* The evidence join, which keeps what the trust of the run accepts (chat asks for
\* strict transport only).  It has no latest version: the run's instant decides.
RowOf(k) == RowIn(Strict(versions), k)

RowsFor(C) == UNION {RowOf(k) : k \in C}

\* failed is history: a call raised, or what it returned was refused
Unheard == [pc |-> "idle", temporal |-> FALSE, failed |-> FALSE, evidence |-> {},
            resolved |-> {}, verdict |-> "none"]

ChatInit ==
    /\ Init
    /\ ch = [c \in Reader |-> Unheard]

-------------------------------------------------------------------------------
\* _complete and _failure: the only ways out of respond
Conclude(c, verdict) == ch' = [ch EXCEPT ![c].pc = "done", ![c].verdict = verdict]

\* A step failed: a fixed refusal, whatever was raised
Fail(c) ==
    ch' = [ch EXCEPT ![c].pc = "done", ![c].verdict = "refusal", ![c].failed = TRUE]

\* apply_temporal_guard: a question about another time skips the planner, as does
\* one that is too long or a planner that is switched off.
Receive(c) ==
    /\ ch[c].pc = "idle"
    /\ \E temporal \in BOOLEAN, planned \in BOOLEAN :
         /\ temporal => ~planned
         /\ ch' = [ch EXCEPT ![c].temporal = temporal,
                             ![c].pc = IF planned THEN "plan" ELSE "retrieve"]
    /\ UNCHANGED vars

\* The planner's one call, within its timeout, and the anchors it names: a plan that
\* is late, invalid, unresolved or empty leaves the question as it was.
Plan(c) ==
    /\ ch[c].pc = "plan"
    /\ ch' = [ch EXCEPT ![c].pc = "retrieve"]
    /\ UNCHANGED vars

\* RetrievalService: a temporal question stores a run without evidence and is refused;
\* any other is asked of the configured repository.
Retrieve(c) ==
    /\ ch[c].pc = "retrieve"
    /\ \/ ch[c].temporal /\ Conclude(c, "refusal") /\ UNCHANGED vars
       \/ ch[c].temporal /\ Fail(c) /\ UNCHANGED vars
       \/ /\ ~ch[c].temporal
          /\ ch' = [ch EXCEPT ![c].pc = "retrieving"]
          /\ \E mode \in Modes : Ask(c, mode, TRUE)

\* The repository at work; what it raises becomes RETRIEVAL_FAILURE.
Retrieving(c) ==
    /\ ch[c].pc = "retrieving"
    /\ \/ CheckCoverage(c) /\ UNCHANGED ch
       \/ FirstLane(c) /\ UNCHANGED ch
       \/ SecondLane(c) /\ UNCHANGED ch
       \/ Revalidate(c) /\ UNCHANGED ch
       \/ ReadFails(c) /\ Fail(c)

\* retrieval_policy_decision, then the evidence: exactly the citations of the run,
\* each with its row and a share of the excerpt budget, put into the prompt that
\* goes to the provider.
Ground(c) ==
    LET cites == rd[c].cites IN
    /\ ch[c].pc = "retrieving" /\ rd[c].pc = "done"
    /\ \/ cites = {} /\ Conclude(c, "clarification")
       \/ /\ cites # {}
          /\ IF \A k \in cites : RowOf(k) # {}
             THEN ch' = [ch EXCEPT ![c].pc = "generate", ![c].evidence = RowsFor(cites)]
             ELSE Conclude(c, "refusal")
       \/ cites # {} /\ Fail(c)
    /\ UNCHANGED vars

\* Mutation: only a ProviderError is caught.
GenerateOrRaise(c) ==
    /\ ch[c].pc = "generate"
    /\ \/ ch' = [ch EXCEPT ![c].pc = "resolve"]
       \/ Fail(c)
       \/ ch' = [ch EXCEPT ![c].pc = "raised"]
    /\ UNCHANGED vars

\* The provider's one call: it answers within its bounds and the parser takes the
\* answer, or it is refused, late, down, too long or unsafe.
Generate(c) ==
    /\ ch[c].pc = "generate"
    /\ \/ ch' = [ch EXCEPT ![c].pc = "resolve"]
       \/ Fail(c)
    /\ UNCHANGED vars

\* The citations that were not resolved again so far
Unresolved(c) == rd[c].cites \ {row.chunk : row \in ch[c].resolved}

\* Mutation: one good citation is enough.
ResolveOne(c) ==
    /\ ch[c].pc = "resolve"
    /\ \/ \E k \in Unresolved(c), row \in ch[c].evidence :
            /\ RowOf(k) = {row}
            /\ ch' = [ch EXCEPT ![c].pc = "done", ![c].verdict = "answer",
                                ![c].resolved = {row}]
       \/ Fail(c)
    /\ UNCHANGED vars

\* Mutation: the document's text of today is cited, whatever the evidence was.
ResolveToday(c) ==
    /\ ch[c].pc = "resolve"
    /\ \E row \in ch[c].evidence, v \in LatestIn(versions) :
         /\ v.doc = row.doc
         /\ ch' = [ch EXCEPT ![c].pc = "done", ![c].verdict = "answer",
              ![c].resolved = UNION {RowIn({v}, k) : k \in v.chunks}]
    /\ UNCHANGED vars

\* _reresolve_citations, one citation and one transaction at a time: the row found
\* now must be the evidence shown; behind the last one the answer is returned.
Resolve(c) ==
    /\ ch[c].pc = "resolve"
    /\ \/ \E k \in Unresolved(c) :
            IF \E row \in ch[c].evidence : RowOf(k) = {row}
            THEN IF Unresolved(c) = {k}
                 THEN ch' = [ch EXCEPT ![c].resolved = @ \cup RowOf(k),
                                       ![c].pc = "done", ![c].verdict = "answer"]
                 ELSE ch' = [ch EXCEPT ![c].resolved = @ \cup RowOf(k)]
            ELSE Conclude(c, "refusal")
       \/ Fail(c)
    /\ UNCHANGED vars

\* The request is cancelled from outside.  CancelledError is no Exception and ends
\* respond at its await, and a transaction with it; only the wait for the reranker
\* catches it, and goes on as if the reranker had failed: no step to see here.
Cancel(c) ==
    /\ ch[c].pc \in {"plan", "retrieve", "retrieving", "generate", "resolve"}
    /\ ~(ch[c].pc = "retrieving" /\ rd[c].pc = "rerank")
    /\ ch' = [ch EXCEPT ![c].pc = "cancelled"]
    /\ IF ch[c].pc = "retrieving" /\ rd[c].pc # "done"
       THEN ReadFails(c) ELSE UNCHANGED vars

-------------------------------------------------------------------------------
Respond(c) ==
    Plan(c) \/ Retrieve(c) \/ Retrieving(c) \/ Ground(c) \/ Generate(c) \/ Resolve(c)

ChatNext ==
    \/ DocNext /\ UNCHANGED <<embedded, bf, rd, ch>>
    \/ \E b \in Backfill : BackfillNext(b) /\ UNCHANGED ch
    \/ \E c \in Reader : Receive(c) \/ Respond(c) \/ Cancel(c)

\* The event loop gives every request its turn, and each await of respond ends: the
\* provider, the planner and the reranker have timeouts, and no statement waits for
\* a lock.
ChatSpec ==
    /\ ChatInit
    /\ [][ChatNext]_chatVars
    /\ \A c \in Reader : WF_chatVars(Respond(c))

-------------------------------------------------------------------------------
(***************************************************************************)
(* Properties                                                              *)
(***************************************************************************)

\* An answer cites its run: every citation of the run, each resolved to the version
\* it had when the run was stored, which the corpus still holds unchanged however
\* much was ingested while the provider wrote; and that is what the provider saw.
AnswersCiteTheirEvidence ==
    \A c \in Reader : ch[c].verdict = "answer" =>
        /\ {row.chunk : row \in ch[c].resolved} = rd[c].cites
        /\ ch[c].resolved = ch[c].evidence
        /\ \A row \in ch[c].resolved :
             \E v \in Eligible(rd[c].at, TRUE) : row \in RowIn({v}, row.chunk)

\* A question is refused because it is about another time or because a call of its own
\* failed, never because documents were ingested under it: neither a newer version nor
\* one that replaces its evidence makes grounding or the second resolution fail.
RefusedOnlyForAReason ==
    \A c \in Reader : ch[c].verdict = "refusal" => ch[c].temporal \/ ch[c].failed

EvidenceShown == [c \in Reader |-> ch[c].evidence]

VerdictGiven == [c \in Reader |-> ch[c].verdict]

CitedInAnswer == [c \in Reader |-> IF ch[c].verdict = "answer" THEN ch[c].resolved ELSE {}]

Abstract == INSTANCE GroundedAnswer WITH
    Question <- Reader, Evidence <- CitationRow,
    shown <- EvidenceShown, verdict <- VerdictGiven, cited <- CitedInAnswer

\* respond implements the abstract chat: one showing, one verdict, and an answer cites
\* all the provider was shown and nothing else.
ImplementsGroundedAnswer == Abstract!AnswerSpec

\* Every question that was taken gets its verdict, whatever fails or is ingested
\* meanwhile, unless it is cancelled.
EveryQuestionIsAnswered ==
    \A c \in Reader : ch[c].pc # "idle" ~> ch[c].pc \in {"done", "cancelled"}

===============================================================================
