---------------------------- MODULE RemoteSources ----------------------------
(***************************************************************************)
(* One process of the command line that reads the approved legal source:   *)
(* ingestion of every approved reference over REST or SOAP, or discovery   *)
(* of their ids over SOAP.  The process works through its references one   *)
(* after the other; what changes under it is the source: texts are         *)
(* replaced, canonical pages break, the SOAP endpoint moves, answers are   *)
(* late, refused, malformed or of another document.                        *)
(***************************************************************************)
EXTENDS Naturals, FiniteSets

CONSTANTS
  Ref,            \* approved references of the manifest
  Text,           \* texts the source may serve
  Endpoint,       \* addresses the WSDL may name
  NoEndpoint,     \* no schema in the adapter's cache
  MaxAttempts,    \* rest_max_attempts
  MaxChanges      \* bound: changes of the source

ASSUME SourcesAssumption ==
  /\ IsFiniteSet(Ref) /\ Ref # {} /\ NoEndpoint \notin Endpoint
  /\ MaxAttempts \in Nat \ {0} /\ MaxChanges \in Nat

VARIABLES
  doc, page, wsdl,   \* the source: text and canonical page of every reference, endpoint
  changes,           \* how often the source changed
  setup,             \* the settings and the command of this process
  doing, todo,       \* what it does, and the references that are left
  call,              \* the reference it works on, with what its fetch knows
  schema,            \* the WSDL cached by the SOAP adapter
  result,            \* what was emitted for every reference
  corpus,            \* texts stored for every reference
  lastExit,          \* exit code of the last process: 0, 1, or 2 when it did not finish
  inRun              \* history: texts served for every reference since the start

source == <<doc, page, wsdl, changes>>
sourcesVars == <<source, setup, doing, todo, call, schema, result, corpus, lastExit, inRun>>

Setups   == [task : {"ingest", "discover"}, mode : {"rest_fallback", "soap"}, tls : BOOLEAN]
Requests == {"gateway", "page", "wsdl", "post"}

\* attempt and text are locals of the code; gets and posts count the requests made,
\* current holds the texts served since the call began, confirmed says that the
\* public page was right at some moment since the text arrived.
NoCall == [pending |-> FALSE]
NewCall(r) ==
  [pending |-> TRUE, ref |-> r, attempt |-> 1, text |-> {}, gets |-> 0, posts |-> 0,
   current |-> {doc[r]}, confirmed |-> FALSE]

SourcesInit ==
  /\ doc \in [Ref -> Text] /\ page = [r \in Ref |-> TRUE] /\ wsdl \in Endpoint
  /\ changes = 0
  /\ setup = [task |-> "ingest", mode |-> "soap", tls |-> TRUE]
  /\ doing = "down" /\ todo = {} /\ call = NoCall /\ schema = NoEndpoint
  /\ result = [r \in Ref |-> "none"] /\ corpus = [r \in Ref |-> {}]
  /\ lastExit = 2 /\ inRun = [r \in Ref |-> {}]

------------------------------------------------------------------------------
\* The source.

Change ==
  /\ changes < MaxChanges
  /\ changes' = changes + 1
  /\ UNCHANGED <<setup, doing, todo, schema, result, corpus, lastExit>>

IsOf(r) == call.pending /\ call.ref = r

Publish(r, t) ==
  /\ Change
  /\ doc[r] # t /\ doc' = [doc EXCEPT ![r] = t]
  /\ call' = IF IsOf(r) THEN [call EXCEPT !.current = @ \cup {t}] ELSE call
  /\ inRun' = [inRun EXCEPT ![r] = @ \cup {t}]
  /\ UNCHANGED <<page, wsdl>>

BreakPage(r) ==
  /\ Change
  /\ page' = [page EXCEPT ![r] = ~@]
  /\ call' = IF IsOf(r) /\ doing = "page" /\ page'[r]
             THEN [call EXCEPT !.confirmed = TRUE] ELSE call
  /\ UNCHANGED <<doc, wsdl, inRun>>

MoveEndpoint(e) ==
  /\ Change
  /\ wsdl # e /\ wsdl' = e
  /\ UNCHANGED <<doc, page, call, inRun>>

------------------------------------------------------------------------------
\* The process.

\* create_source or create_discovery_source, then list_documents, which opens no
\* connection.
Start(s) ==
  /\ doing = "down"
  /\ setup' = s
  /\ doing' = "next" /\ todo' = Ref /\ schema' = NoEndpoint /\ lastExit' = 2
  /\ result' = [r \in Ref |-> "none"]
  /\ inRun' = [r \in Ref |-> {doc[r]}]
  /\ UNCHANGED <<source, call, corpus>>

OverRest == setup.task = "ingest" /\ setup.mode = "rest_fallback"

\* How fetch_document and discover_document begin: without verified TLS SOAP sends
\* nothing, and a schema that was read stays in use.
FirstRequest ==
  IF OverRest THEN "gateway" ELSE IF schema = NoEndpoint THEN "wsdl" ELSE "post"

NextRef(r) ==
  /\ doing = "next" /\ r \in todo
  /\ todo' = todo \ {r}
  /\ IF OverRest \/ setup.tls
     THEN doing' = FirstRequest /\ call' = NewCall(r) /\ UNCHANGED result
     ELSE result' = [result EXCEPT ![r] = "failed"] /\ UNCHANGED <<doing, call>>
  /\ UNCHANGED <<source, setup, schema, corpus, lastExit, inRun>>

\* The loops of run() and discover_manifest emit a result, or count a failure, and
\* go on with the next reference.
Settle(outcome) ==
  /\ doing' = "next" /\ call' = NoCall
  /\ result' = [result EXCEPT ![call.ref] = outcome]

\* One answer to a GET or POST: in time with status 200 and a readable body; a
\* timeout, a broken connection or one of 429, 502, 503, 504; anything else.
Answers == {"ok", "transient", "refused"}

\* History: requests are counted up to one more than a reference may cost, and from
\* there back and forth, so that every request is a step of the behaviour.
CountedRequest(n) == IF n > 2 * MaxAttempts THEN n - 1 ELSE n + 1

\* _get: a transient failure is tried again up to MaxAttempts, all else is final.
Retries(answer) == answer = "transient" /\ call.attempt < MaxAttempts

\* Mutation: the loop forgets to count its attempts.
GetFailsUncounted(answer) ==
  /\ answer # "ok"
  /\ \/ /\ Retries(answer)
        /\ call' = [call EXCEPT !.gets = CountedRequest(@)] /\ UNCHANGED <<doing, result>>
     \/ ~Retries(answer) /\ Settle("failed")

GetFails(answer) ==
  /\ answer # "ok"
  /\ \/ /\ Retries(answer)
        /\ call' = [call EXCEPT !.attempt = @ + 1, !.gets = CountedRequest(@)]
        /\ UNCHANGED <<doing, result>>
     \/ ~Retries(answer) /\ Settle("failed")

\* Mutation: whatever was sent is taken.
AnyDocument(sent) == sent \in Ref

\* The identity of the answered document must be the reference's.
Matches(sent) == sent = call.ref

\* GET of the gateway document and _parse_gateway; the answer may be of another
\* document, or no full page.
GatewayGet(answer) ==
  /\ doing = "gateway"
  /\ \/ GetFails(answer)
     \/ /\ answer = "ok"
        /\ \/ \E sent \in Ref :
                /\ Matches(sent)
                /\ doing' = "page"
                /\ call' = [call EXCEPT !.text = {doc[sent]}, !.attempt = 1,
                              !.gets = CountedRequest(@), !.confirmed = page[call.ref]]
                /\ UNCHANGED result
           \/ Settle("failed")
  /\ UNCHANGED <<source, setup, todo, schema, corpus, lastExit, inRun>>

\* GET of the public page and _validate_canonical.
PageGet(answer) ==
  /\ doing = "page"
  /\ \/ GetFails(answer)
     \/ /\ answer = "ok" /\ page[call.ref]
        /\ doing' = "ingest" /\ call' = [call EXCEPT !.gets = CountedRequest(@)]
        /\ UNCHANGED result
     \/ answer = "ok" /\ ~page[call.ref] /\ Settle("failed")
  /\ UNCHANGED <<source, setup, todo, schema, corpus, lastExit, inRun>>

\* _get_wsdl: one GET; what it read is kept as long as the adapter lives.
WsdlGet(answer) ==
  /\ doing = "wsdl"
  /\ \/ /\ answer = "ok"
        /\ schema' = wsdl /\ doing' = "post"
        /\ call' = [call EXCEPT !.gets = CountedRequest(@)] /\ UNCHANGED result
     \/ Settle("failed") /\ UNCHANGED schema
  /\ UNCHANGED <<source, setup, todo, corpus, lastExit, inRun>>

\* _post_once with _snapshot or _select_soap_id: one POST to the cached endpoint,
\* where nobody answers once the source has moved.
Post(answer) ==
  /\ doing = "post"
  /\ \/ /\ answer = "ok" /\ schema = wsdl
        /\ \E sent \in Ref :
             /\ Matches(sent)
             /\ \/ /\ setup.task = "ingest"
                   /\ doing' = "ingest"
                   /\ call' = [call EXCEPT !.text = {doc[sent]}, !.posts = CountedRequest(@)]
                   /\ UNCHANGED result
                \/ setup.task = "discover" /\ Settle("found")
     \/ Settle("failed")
  /\ UNCHANGED <<source, setup, todo, schema, corpus, lastExit, inRun>>

\* ingest_snapshot, which answers UNCHANGED for a text it has stored before, or fails.
Ingest ==
  /\ doing = "ingest"
  /\ \/ /\ Settle(IF call.text \subseteq corpus[call.ref] THEN "unchanged" ELSE "created")
        /\ corpus' = [corpus EXCEPT ![call.ref] = @ \cup call.text]
     \/ Settle("failed") /\ UNCHANGED corpus
  /\ UNCHANGED <<source, setup, todo, schema, lastExit, inRun>>

\* Mutation: one reference that went well makes up for the others.
OneIsEnough == IF \A r \in Ref : result[r] = "failed" THEN 1 ELSE 0

\* The exit code of both commands.
ExitCode == IF \E r \in Ref : result[r] = "failed" THEN 1 ELSE 0

EndRun ==
  /\ doing = "next" /\ todo = {}
  /\ doing' = "down" /\ lastExit' = ExitCode
  /\ UNCHANGED <<source, setup, todo, call, schema, result, corpus, inRun>>

Dies ==
  /\ doing # "down"
  /\ doing' = "down" /\ todo' = {} /\ call' = NoCall
  /\ UNCHANGED <<source, setup, schema, result, corpus, lastExit, inRun>>

Step ==
  \/ \E r \in Ref : NextRef(r)
  \/ \E answer \in Answers :
       GatewayGet(answer) \/ PageGet(answer) \/ WsdlGet(answer) \/ Post(answer)
  \/ Ingest \/ EndRun

SourcesNext ==
  \/ \E r \in Ref : BreakPage(r) \/ \E t \in Text : Publish(r, t)
  \/ \E e \in Endpoint : MoveEndpoint(e)
  \/ \E s \in Setups : Start(s)
  \/ Step \/ Dies

\* Every request has its timeout and every pause its limit, so a started process
\* goes on.
SourcesSpec == SourcesInit /\ [][SourcesNext]_sourcesVars /\ WF_sourcesVars(Step)

------------------------------------------------------------------------------
SourcesTypeOK ==
  /\ doc \in [Ref -> Text] /\ page \in [Ref -> BOOLEAN] /\ wsdl \in Endpoint
  /\ changes \in 0 .. MaxChanges /\ setup \in Setups
  /\ doing \in {"down", "next", "ingest"} \cup Requests
  /\ call.pending <=> doing \in {"ingest"} \cup Requests
  /\ call.pending =>
       /\ call.ref \in Ref /\ call.attempt \in 1 .. MaxAttempts
       /\ call.text \subseteq Text /\ call.current \subseteq Text
       /\ call.gets \in Nat /\ call.posts \in Nat
  /\ todo \subseteq Ref /\ schema \in Endpoint \cup {NoEndpoint}
  /\ result \in [Ref -> {"none", "created", "unchanged", "found", "failed"}]
  /\ corpus \in [Ref -> SUBSET Text] /\ lastExit \in 0 .. 2
  /\ inRun \in [Ref -> SUBSET Text]

\* What is handed to the ingestion was served for this very reference since its
\* fetch began, whatever was retried, replaced or sent in its place; over REST its
\* public page was right at some moment since then.
FetchedWasServed ==
  doing = "ingest" =>
    call.text # {} /\ call.text \subseteq call.current /\ (OverRest => call.confirmed)

\* Exit code 0 of the ingestion: of every approved reference the corpus holds a
\* text that the source served during this run, although some were fetched long
\* before the end and each could fail on its own; of the discovery: all were found.
ExitZeroMeansDone ==
  (doing = "down" /\ lastExit = 0) =>
    \A r \in Ref : IF setup.task = "ingest" THEN corpus[r] \cap inRun[r] # {}
                                            ELSE result[r] = "found"

\* A source that fails for ever, in whatever way, does not hold the process.
RunsEnd == doing # "down" ~> doing = "down"

===============================================================================
