--------------------------- MODULE SourcePolicies ---------------------------
(***************************************************************************)
(* The checked-in policies for automatic fetching and the compiler that    *)
(* compares them with the source registry and the adapters' capabilities.  *)
(* Maintainers edit the policies and the registry, time passes, and the    *)
(* compiler runs when somebody asks.  The records it makes are kept as     *)
(* evidence; nothing is fetched by them.                                   *)
(*                                                                         *)
(* A text is named by what it is compared with, and is malformed or not; a *)
(* digest is the value it is made of.                                      *)
(***************************************************************************)
EXTENDS Integers, FiniteSets, Sequences

CONSTANTS
  Contracts,      \* the contents the policy file may have
  Registries,     \* the contents the registry may have
  Capabilities,   \* the table of the adapters' capabilities, a set
  Days,           \* days the compiler may run on, naturals
  NoRecord        \* no record was kept

\* What a source of the registry always has; the rest of a registry is for IsRegistry to judge.
SystemFields == {"priority", "lifecycle", "demo", "transport", "url", "fallback", "accessMode",
                 "operations"}

ASSUME PoliciesAssumption ==
  \A r \in Registries : \A id \in DOMAIN r : DOMAIN r[id] = SystemFields

VARIABLES contract, registry, today, kept

policyVars == <<contract, registry, today, kept>>

PoliciesInit ==
  /\ contract \in Contracts /\ registry \in Registries /\ today \in Days
  /\ kept = NoRecord

------------------------------------------------------------------------------
\* Loading the policies.

Ranges(s) == {s[i] : i \in DOMAIN s}

IsList(s, least, most) ==
  /\ Len(s) \in least..most
  /\ \A i, j \in DOMAIN s : s[i] = s[j] => i = j
  /\ "malformed" \notin Ranges(s)

IsAllowDeny(c) ==
  /\ IsList(c.allow, 1, 32) /\ IsList(c.deny, 0, 32)
  /\ Ranges(c.allow) \cap Ranges(c.deny) = {}

IsContent(c) ==
  /\ IsAllowDeny(c.types)
  /\ c.bytes \in 1..2097152
  /\ IsList(c.profiles, 1, 4)

\* lists are the document types, issuers, jurisdictions, titles and paths.
AreConstraints(c) ==
  /\ \A name \in DOMAIN c.lists : IsAllowDeny(c.lists[name])
  /\ c.dates[1] <= c.dates[2] /\ c.dates[2] - c.dates[1] <= 1827
  /\ IsContent(c.content)

LimitMaxima ==
  [max_calls_per_request |-> 8, max_calls_per_policy_window |-> 64,
   max_results_per_discovery |-> 32, max_documents_per_request |-> 16,
   max_relation_depth |-> 4, max_elapsed_seconds |-> 30, request_timeout_seconds |-> 15,
   rate_limit_per_window |-> 64, circuit_breaker_failure_threshold |-> 8,
   circuit_breaker_open_seconds |-> 300]

AreLimits(l) ==
  /\ DOMAIN l = DOMAIN LimitMaxima
  /\ \A name \in DOMAIN l : l[name] \in 1..LimitMaxima[name]
  /\ l.max_calls_per_request <= l.max_calls_per_policy_window
  /\ l.max_documents_per_request <= l.max_results_per_discovery
  /\ l.max_results_per_discovery <= l.max_calls_per_policy_window
  /\ l.max_calls_per_policy_window <= l.rate_limit_per_window
  /\ l.request_timeout_seconds <= l.max_elapsed_seconds

IsPolicy(p) ==
  /\ p.version >= 1 /\ p.wellFormed /\ p.httpsOnly
  /\ p.status \in {"DRAFT", "ACTIVE", "SUSPENDED", "EXPIRED", "REVOKED"}
  /\ p.period[1] < p.period[2] /\ p.period[2] - p.period[1] <= 1827
  /\ p.revoked = p.reason
  /\ p.status = "REVOKED" => p.revoked
  /\ IsList(p.numbers, 0, 8)
  /\ AreLimits(p.limits) /\ AreConstraints(p.constraints)

\* A file with one bad policy, or with two of one revision, is refused whole.
IsContract(c) ==
  /\ Len(c) \in 1..32
  /\ \A i \in DOMAIN c : IsPolicy(c[i])
  /\ \A i, j \in DOMAIN c :
       c[i].id = c[j].id /\ c[i].version = c[j].version => i = j

------------------------------------------------------------------------------
\* Loading the registry: the first source is in use, the others are planned and have
\* no address.

SourcePriority == [VBQPPL |-> 1, VNU |-> 2, UEB |-> 3]
SoapOperations == <<"GetListVanBanByListSKH", "GetVanBanById">>

IsSystem(id, s) ==
  /\ s.priority = SourcePriority[id]
  /\ IF id = "VBQPPL"
     THEN s.lifecycle = "ACTIVE" /\ s.demo = "DEMO_NOW" /\ s.operations = SoapOperations
     ELSE s.lifecycle = "PLANNED" /\ s.demo = "LATER" /\ ~s.url.given /\ ~s.fallback

IsRegistry(r) ==
  /\ DOMAIN r = DOMAIN SourcePriority
  /\ \A id \in DOMAIN r : IsSystem(id, r[id])

------------------------------------------------------------------------------
\* Compiling one policy.

StatusOutcome == [DRAFT |-> "POLICY_DRAFT", SUSPENDED |-> "POLICY_SUSPENDED",
                  EXPIRED |-> "POLICY_EXPIRED", REVOKED |-> "POLICY_REVOKED"]

\* Revocation comes before everything else, the period last.
LifecycleOutcome(p, now) ==
  IF p.revoked THEN "POLICY_REVOKED"
  ELSE IF p.status # "ACTIVE" THEN StatusOutcome[p.status]
  ELSE IF now \notin p.period[1]..p.period[2] THEN "POLICY_EXPIRED"
  ELSE "none"

\* The address must be the policy's, with nothing beside scheme, host and path.
InsideRegistry(p, s) ==
  /\ s.url.given /\ s.url.https /\ s.url.plain
  /\ s.url.host = p.authority.host /\ s.url.path = p.authority.endpoint
  /\ s.transport = p.authority.transport
  /\ p.authority.action \in Ranges(s.operations)

\* The table is built when its module is imported; one shape stands in it once.
IsTable(table) ==
  /\ Cardinality(table) \in 1..32
  /\ \A c \in table : Cardinality(c.types) \in 1..8 /\ Cardinality(c.profiles) \in 1..8
  /\ \A c, d \in table : c.shape = d.shape => c = d

\* The capabilities of the policy's shape.
Shape(source, authority, accessMode, discovery) ==
  [source |-> source, authority |-> authority, accessMode |-> accessMode,
   discovery |-> discovery]
CapabilityOf(p) ==
  {c \in Capabilities : c.shape = Shape(p.source, p.authority, p.accessMode, p.discovery)}

\* What a policy denies, too, must be something the adapter could have read.
InsideCapability(p) ==
  \E c \in CapabilityOf(p) :
    LET content == p.constraints.content IN
      /\ Ranges(content.types.allow) \cup Ranges(content.types.deny) \subseteq c.types
      /\ Ranges(content.profiles) \subseteq c.profiles
      /\ c.exactNumbers => p.numbers # <<>>

\* Mutation: the access mode is compared before the capability.
AccessModeFirst(p, r) ==
  IF p.source \notin DOMAIN r THEN "REJECTED_SOURCE_NOT_FOUND"
  ELSE LET s == r[p.source] IN
    IF s.lifecycle # "ACTIVE" THEN "REJECTED_SOURCE_NOT_ACTIVE"
    ELSE IF ~InsideRegistry(p, s) THEN "REJECTED_REGISTRY_SUBSET"
    ELSE IF s.accessMode # p.accessMode THEN "ACTIVATION_BLOCKED_REGISTRY_ACCESS_MODE"
    ELSE IF ~InsideCapability(p) THEN "REJECTED_CAPABILITY"
    ELSE "none"

\* The access mode is compared last: a policy blocked by it lacks nothing else.
SubsetOutcome(p, r) ==
  IF p.source \notin DOMAIN r THEN "REJECTED_SOURCE_NOT_FOUND"
  ELSE LET s == r[p.source] IN
    IF s.lifecycle # "ACTIVE" THEN "REJECTED_SOURCE_NOT_ACTIVE"
    ELSE IF ~InsideRegistry(p, s) THEN "REJECTED_REGISTRY_SUBSET"
    ELSE IF ~InsideCapability(p) THEN "REJECTED_CAPABILITY"
    ELSE IF s.accessMode # p.accessMode THEN "ACTIVATION_BLOCKED_REGISTRY_ACCESS_MODE"
    ELSE "none"

\* One record of the evidence.  The day it was made on is history: the code keeps it
\* neither in the record nor in a digest.
Compiled(p, r, now) ==
  [policy |-> p, registry |-> r, capabilities |-> Capabilities, day |-> now,
   outcome |-> IF LifecycleOutcome(p, now) # "none" THEN LifecycleOutcome(p, now)
               ELSE IF SubsetOutcome(p, r) # "none" THEN SubsetOutcome(p, r)
               ELSE "COMPILED_SIMULATION"]

------------------------------------------------------------------------------
\* Maintainers, time and the compiler.

EditContract ==
  \E c \in Contracts \ {contract} : contract' = c /\ UNCHANGED <<registry, today, kept>>

EditRegistry ==
  \E r \in Registries \ {registry} : registry' = r /\ UNCHANGED <<contract, today, kept>>

Tick ==
  \E day \in Days :
    day > today /\ today' = day /\ UNCHANGED <<contract, registry, kept>>

\* compile_all over files that load; any of its records may be kept.
CompileAll ==
  /\ IsTable(Capabilities) /\ IsContract(contract) /\ IsRegistry(registry)
  /\ \E i \in DOMAIN contract : kept' = Compiled(contract[i], registry, today)
  /\ UNCHANGED <<contract, registry, today>>

PoliciesNext == EditContract \/ EditRegistry \/ Tick \/ CompileAll

PoliciesSpec == PoliciesInit /\ [][PoliciesNext]_policyVars

------------------------------------------------------------------------------
\* The registry after the one change an outcome of a blocked access mode asks for.
WithAccessMode(r, p) == [r EXCEPT ![p.source].accessMode = p.accessMode]

InPeriod(p, day) == day \in p.period[1]..p.period[2]

\* A kept record and a later compilation that names the same digests agree, unless the
\* policy's period began or ended between them; and a policy that was blocked by the
\* access mode alone compiles as soon as the registry grants that mode, whatever else
\* the maintainers did meanwhile and undid (ApprovedSourcePolicyCompiler.compile).
KeptRecordsHold ==
  kept # NoRecord /\ IsContract(contract) /\ IsRegistry(registry) =>
    \A i \in DOMAIN contract :
      LET p == contract[i]
          now == Compiled(p, registry, today)
      IN p = kept.policy =>
           /\ (/\ registry = kept.registry
               /\ InPeriod(p, kept.day) = InPeriod(p, today))
                => now.outcome = kept.outcome
           /\ (/\ kept.outcome = "ACTIVATION_BLOCKED_REGISTRY_ACCESS_MODE"
               /\ registry = WithAccessMode(kept.registry, p)
               /\ InPeriod(p, today))
                => now.outcome = "COMPILED_SIMULATION"

===============================================================================
