---------------------------- MODULE ShadowEvaluation ----------------------------
(***************************************************************************)
(* The harness of the shadow evaluator (legal_effects/shadow_evaluation.py)*)
(* makes a database of its own and two roles, plays a fixed scenario on    *)
(* the registry of reviewed effects, and takes everything down again       *)
(* whatever happened.  The roles belong to the server, not to the          *)
(* database.                                                               *)
(*                                                                         *)
(* Every statement may fail, the harness may be killed, and the connection *)
(* that creates and drops the database may be lost.                        *)
(***************************************************************************)
EXTENDS Naturals, Sequences, FiniteSets

RoleNames == {"importer", "shadow"}
Families == {"manual", "source", "correction"}

VARIABLES
    at,         \* the statement of _run reached
    admin,      \* the connection to "postgres": closed, open, lost
    database,   \* the disposable database: none, empty, upgraded
    roles,      \* the roles in the server
    engine,     \* admin_engine is not None
    assertions, \* the assertions of the registry, [family, copy]
    corrected,  \* families an event has corrected
    seen,       \* the outcomes collected so far
    summary,    \* what the caller gets, if anything
    privileges  \* privilege_checks_pass

shadowVars == <<at, admin, database, roles, engine, assertions, corrected, seen, summary,
                privileges>>

registryVars == <<assertions, corrected>>

-------------------------------------------------------------------------------
ShadowInit ==
    /\ at = "connect" /\ admin = "closed"
    /\ database = "none" /\ roles = {} /\ engine = FALSE
    /\ assertions = {} /\ corrected = {}
    /\ seen = <<>> /\ summary = {} /\ privileges = TRUE

\* The first connection fails outside the try block.
Connect ==
    /\ at = "connect"
    /\ \/ at' = "create" /\ admin' = "open"
       \/ at' = "over" /\ UNCHANGED admin
    /\ UNCHANGED <<database, roles, engine, registryVars, seen, summary, privileges>>

\* CREATE DATABASE: done, refused, or done and never answered.
CreateDatabase ==
    /\ at = "create"
    /\ \/ admin = "open" /\ database' = "empty" /\ at' = "upgrade" /\ UNCHANGED admin
       \/ at' = "dispose" /\ UNCHANGED <<database, admin>>
       \/ admin = "open" /\ database' \in {"none", "empty"} /\ at' = "dispose" /\ admin' = "lost"
    /\ UNCHANGED <<roles, engine, registryVars, seen, summary, privileges>>

\* alembic upgrade head in a process of its own, which may stop half-way.
Upgrade ==
    /\ at = "upgrade"
    /\ \/ at' = "roles" /\ database' = "upgraded" /\ engine' = TRUE
       \/ at' = "dispose" /\ UNCHANGED <<database, engine>>
    /\ UNCHANGED <<admin, roles, registryVars, seen, summary, privileges>>

\* One transaction makes both roles and their grants.
MakeRoles ==
    /\ at = "roles"
    /\ \/ roles' = RoleNames /\ at' = "seed"
       \/ roles' \in {{}, RoleNames} /\ at' = "dispose"
    /\ UNCHANGED <<admin, database, engine, registryVars, seen, summary, privileges>>

\* The synthetic documents; then the privileges, whose failure is only recorded.
Seed ==
    /\ at = "seed"
    /\ at' \in {"privileges", "dispose"}
    /\ UNCHANGED <<admin, database, roles, engine, registryVars, seen, summary, privileges>>

\* The importer may read, insert and not delete; the shadow may only read.
Privileges ==
    /\ at = "privileges"
    /\ \/ at' = "scenario" /\ privileges' \in BOOLEAN
       \/ at' = "dispose" /\ UNCHANGED privileges
    /\ UNCHANGED <<admin, database, roles, engine, registryVars, seen, summary>>

Act(op, family, outcome) == [op |-> op, family |-> family, outcome |-> outcome]

\* Imports, evaluations and what each must answer
Scenario ==
    <<Act("import", "manual", "IMPORTED"), Act("evaluate", "manual", "ELIGIBLE"),
      Act("import", "source", "IMPORTED"), Act("evaluate", "source", "ELIGIBLE"),
      Act("import", "correction", "IMPORTED"), Act("evaluate", "manual", "SUPPRESSED_EVENT"),
      Act("evaluate", "missing", "UNRESOLVED"), Act("evaluate", "unsafe input", "INPUT_REJECTED"),
      Act("disabled", "source", "DISABLED"), Act("duplicate", "source", "IMPORTED"),
      Act("evaluate", "source", "CONFLICT")>>

Turn == Len(seen) + 1

\* The correction corrects the assertion of the manual family.
Stores(family) ==
    /\ assertions' = assertions \cup {[family |-> family, copy |-> 1]}
    /\ corrected' = IF family = "correction" THEN corrected \cup {"manual"} ELSE corrected

\* A second assertion of the same key, written past the importer
StoresDuplicate ==
    /\ assertions' = assertions \cup {[family |-> "source", copy |-> 2]}
    /\ UNCHANGED corrected

\* What the shadow evaluator makes of a family; a database error is UNRESOLVED too.
Outcomes(family) ==
    LET own == {a \in assertions : a.family = family} IN
    IF family \notin Families \cup {"missing"} THEN {"INPUT_REJECTED"}
    ELSE {"UNRESOLVED",
          CASE Cardinality(own) > 1 -> "CONFLICT"
            [] Cardinality(own) = 1 /\ family \in corrected -> "SUPPRESSED_EVENT"
            [] Cardinality(own) = 1 /\ family \notin corrected -> "ELIGIBLE"
            [] OTHER -> "UNRESOLVED"}

\* One statement of the scenario: it answers what is required, or the run fails.
Play ==
    /\ at = "scenario" /\ Turn \in DOMAIN Scenario
    /\ LET a == Scenario[Turn] IN
       \/ /\ \/ a.op = "import" /\ Stores(a.family)
             \/ a.op = "duplicate" /\ StoresDuplicate
             \/ a.op = "evaluate" /\ a.outcome \in Outcomes(a.family) /\ UNCHANGED registryVars
             \/ a.op = "disabled" /\ UNCHANGED registryVars
          /\ seen' = Append(seen, a.outcome) /\ at' = "scenario"
       \/ /\ a.op \in {"import", "duplicate"} \/ \E o \in Outcomes(a.family) : o # a.outcome
          /\ a.op # "disabled" /\ at' = "dispose" /\ UNCHANGED <<registryVars, seen>>
    /\ UNCHANGED <<admin, database, roles, engine, summary, privileges>>

\* Nothing was retrieved or cited meanwhile; the summary counts the evaluations.
Summarise ==
    /\ at = "scenario" /\ Turn \notin DOMAIN Scenario /\ at' = "dispose"
    /\ \/ summary' = {[outcomes |-> SelectSeq(seen, LAMBDA o : o # "IMPORTED"),
                       privileges |-> privileges]}
       \/ UNCHANGED summary
    /\ UNCHANGED <<admin, database, roles, engine, registryVars, seen, privileges>>

-------------------------------------------------------------------------------
(* The finally block.  An exception in it replaces what the run would have returned. *)

\* The engines of both roles; an engine that is not there needs nothing.
Dispose ==
    /\ at = "dispose"
    /\ at' \in IF engine THEN {"drop roles", "over"} ELSE {"drop database"}
    /\ summary' = IF at' = "over" THEN {} ELSE summary
    /\ UNCHANGED <<admin, database, roles, engine, registryVars, seen, privileges>>

\* Mutation: only the role that could write is dropped.
DropImporter ==
    /\ at = "drop roles"
    /\ \/ /\ RoleNames \subseteq roles
          /\ roles' = roles \ {"importer"} /\ at' = "drop database" /\ UNCHANGED summary
       \/ at' = "over" /\ summary' = {} /\ UNCHANGED roles
    /\ UNCHANGED <<admin, database, engine, registryVars, seen, privileges>>

\* DROP OWNED BY has no IF EXISTS: a role that is missing fails the transaction, and
\* with it everything that would have come after.
DropRoles ==
    /\ at = "drop roles"
    /\ \/ RoleNames \subseteq roles /\ roles' = {} /\ at' = "drop database" /\ UNCHANGED summary
       \/ roles' \in {roles, IF RoleNames \subseteq roles THEN {} ELSE roles}
          /\ at' = "over" /\ summary' = {}
    /\ UNCHANGED <<admin, database, engine, registryVars, seen, privileges>>

\* Other sessions are ended and the database goes, if the first connection is still there.
DropDatabase ==
    /\ at = "drop database" /\ at' = "over"
    /\ \/ admin = "open" /\ database' = "none" /\ admin' = "closed" /\ UNCHANGED summary
       \/ summary' = {} /\ UNCHANGED <<database, admin>>
    /\ UNCHANGED <<roles, engine, registryVars, seen, privileges>>

\* The connection breaks while others work, or the harness is killed.
Break ==
    /\ at \notin {"connect", "over"} /\ admin = "open"
    /\ \/ admin' = "lost" /\ UNCHANGED <<at, summary>>
       \/ at' = "over" /\ summary' = {} /\ admin' = "lost"
    /\ UNCHANGED <<database, roles, engine, registryVars, seen, privileges>>

ShadowNext ==
    \/ Connect \/ CreateDatabase \/ Upgrade \/ MakeRoles \/ Seed \/ Privileges
    \/ Play \/ Summarise \/ Dispose \/ DropRoles \/ DropDatabase \/ Break

ShadowSpec == ShadowInit /\ [][ShadowNext]_shadowVars

-------------------------------------------------------------------------------
(* Properties *)

\* A caller who gets a summary finds the server as it was, and roles never outlive the
\* database they were made for: whoever finds that database and drops it by its name
\* knows which roles to look for (the finally block of _run).
LeavesNothingBehind ==
    at = "over" =>
        /\ summary # {} => database = "none" /\ roles = {}
        /\ database = "none" => roles = {}

===============================================================================
