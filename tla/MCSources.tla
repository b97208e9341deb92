------------------------------ MODULE MCSources ------------------------------
(***************************************************************************)
(* The two clients that repeat what failed, each by itself: the adapters   *)
(* of the legal sources in the ingestion commands, and the health check of *)
(* the language model's adapter.  Beside them, by itself too, the compiler *)
(* of the policies for fetching from those sources.                        *)
(***************************************************************************)
EXTENDS RemoteSources, ProviderClient, SourcePolicies, TLC

VARIABLE client    \* the one that works

-------------------------------------------------------------------------------
(* Policies: the checked-in one (contracts/approved-source-policies.json), and files that *)
(* differ from it in what one edit changes.  Days are years of 365.                       *)

MCAuthority == [transport |-> "SOAP", host |-> "ws.vbpl.vn", endpoint |-> "/vbqppl.asmx",
                action |-> "GetListVanBanByListSKH"]
MCDiscovery == [mode |-> "EXACT_DOCUMENT_NUMBER", template |-> "vbqppl_soap_exact_number_v1"]
MCLists(title) ==
  [document_types |-> [allow |-> <<"LAW">>, deny |-> <<>>],
   titles |-> [allow |-> <<title>>, deny |-> <<"Draft">>]]
MCContent(type, profile) ==
  [types |-> [allow |-> <<"text/xml">>, deny |-> type], bytes |-> 1048576,
   profiles |-> <<profile>>]

MCLimits(calls, results) ==
  [max_calls_per_request |-> 1, max_calls_per_policy_window |-> calls,
   max_results_per_discovery |-> results, max_documents_per_request |-> 1,
   max_relation_depth |-> 1, max_elapsed_seconds |-> 5, request_timeout_seconds |-> 3,
   rate_limit_per_window |-> 8, circuit_breaker_failure_threshold |-> 2,
   circuit_breaker_open_seconds |-> 30]

MCPolicy ==
  [id |-> "registry-blocked", version |-> 1, wellFormed |-> TRUE, httpsOnly |-> TRUE,
   status |-> "ACTIVE", revoked |-> FALSE, reason |-> FALSE, period |-> <<365, 730>>,
   source |-> "VBQPPL", accessMode |-> "READ_ONLY_POLICY_ALLOWLIST",
   authority |-> MCAuthority, discovery |-> MCDiscovery, numbers |-> <<"63/2025/QH15">>,
   limits |-> MCLimits(8, 1),
   constraints |-> [lists |-> MCLists("Law"), dates |-> <<0, 730>>,
                    content |-> MCContent(<<>>, "SOAP_XML_V1")]]

MCOnePolicy ==
  {MCPolicy}
  \cup {[MCPolicy EXCEPT !.status = status] : status \in {"DRAFT", "REVOKED"}}
  \cup {[MCPolicy EXCEPT !.revoked = TRUE, !.reason = reason] : reason \in BOOLEAN}
  \cup {[MCPolicy EXCEPT !.source = id] : id \in {"VNU", "FUTURE_SOURCE"}}
  \cup {[MCPolicy EXCEPT !.period = period] : period \in {<<0, 3650>>, <<730, 365>>}}
  \cup {[MCPolicy EXCEPT !.authority.action = action] : action \in {"GetVanBanById", "FutureAction"}}
  \cup {[MCPolicy EXCEPT !.limits = limits] : limits \in {MCLimits(9, 1), MCLimits(8, 9)}}
  \cup {[MCPolicy EXCEPT !.constraints.content = content] :
          content \in {MCContent(<<"text/html">>, "SOAP_XML_V1"),
                       MCContent(<<>>, "FUTURE_XML_V1")}}
  \cup {[MCPolicy EXCEPT !.constraints.lists = MCLists("malformed")],
        [MCPolicy EXCEPT !.constraints.lists = MCLists("Draft")],
        [MCPolicy EXCEPT !.accessMode = "READ_ONLY_ALLOWLIST"],
        [MCPolicy EXCEPT !.numbers = <<>>], [MCPolicy EXCEPT !.httpsOnly = FALSE]}

MCContracts ==
  {<<p>> : p \in MCOnePolicy}
  \cup {<<MCPolicy, [MCPolicy EXCEPT !.version = version, !.status = "DRAFT"]>> : version \in {1, 2}}

MCSystem(url, accessMode) ==
  [priority |-> 1, lifecycle |-> "ACTIVE", demo |-> "DEMO_NOW", transport |-> "SOAP",
   url |-> url, fallback |-> TRUE, accessMode |-> accessMode,
   operations |-> <<"GetListVanBanByListSKH", "GetVanBanById">>]
MCUrl(host, plain) ==
  [given |-> TRUE, https |-> TRUE, plain |-> plain, host |-> host, path |-> "/vbqppl.asmx"]
MCNoUrl == [given |-> FALSE]
MCPlanned(priority, lifecycle) ==
  [priority |-> priority, lifecycle |-> lifecycle, demo |-> "LATER", transport |-> "TBD",
   url |-> MCNoUrl, fallback |-> FALSE, accessMode |-> "NOT_IMPLEMENTED", operations |-> <<>>]
MCRegistry(url, accessMode, lifecycle) ==
  [VBQPPL |-> MCSystem(url, accessMode), VNU |-> MCPlanned(2, lifecycle),
   UEB |-> MCPlanned(3, "PLANNED")]

MCRegistries ==
  {MCRegistry(MCUrl("ws.vbpl.vn", TRUE), mode, "PLANNED") :
     mode \in {"READ_ONLY_ALLOWLIST", "READ_ONLY_POLICY_ALLOWLIST"}}
  \cup {MCRegistry(url, "READ_ONLY_POLICY_ALLOWLIST", "PLANNED") :
          url \in {MCNoUrl, MCUrl("ws.vbpl.vn", FALSE)}}
  \cup {MCRegistry(MCUrl("ws.vbpl.vn", TRUE), "READ_ONLY_ALLOWLIST", "ACTIVE")}

\* The table of adapter_capabilities.py.
MCCapabilities ==
  {[shape |-> [source |-> "VBQPPL", authority |-> MCAuthority, discovery |-> MCDiscovery,
               accessMode |-> "READ_ONLY_POLICY_ALLOWLIST"],
    types |-> {"text/xml"}, profiles |-> {"SOAP_XML_V1"}, exactNumbers |-> TRUE]}

-------------------------------------------------------------------------------
\* Only the compiler starts from every file, registry and day, and only the adapters from
\* every source.
ClientsInit ==
    /\ client \in {"sources", "provider", "compiler"}
    /\ SourcesInit /\ ClientInit /\ PoliciesInit
    /\ client # "compiler" =>
         /\ contract = <<MCPolicy>> /\ today = 0
         /\ registry = MCRegistry(MCNoUrl, "READ_ONLY_POLICY_ALLOWLIST", "PLANNED")
    /\ client # "sources" =>
         /\ \A r \in Ref : doc[r] = CHOOSE t \in Text : TRUE
         /\ wsdl = CHOOSE e \in Endpoint : TRUE

SourceWorks(step) ==
    client = "sources" /\ step /\ UNCHANGED <<client, providerVars, policyVars>>

ClientsNext ==
    \/ SourceWorks(SourcesNext)
    \/ client = "provider" /\ ClientNext /\ UNCHANGED <<client, sourcesVars, policyVars>>
    \/ client = "compiler" /\ PoliciesNext /\ UNCHANGED <<client, sourcesVars, providerVars>>

clientsVars == <<client, sourcesVars, providerVars, policyVars>>

\* Fairness is that of RemoteSources: its requests and pauses have limits.
ClientsSpec ==
    ClientsInit /\ [][ClientsNext]_clientsVars
      /\ WF_clientsVars(SourceWorks(Step))

===============================================================================
