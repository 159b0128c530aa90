-------------------------------- MODULE Server --------------------------------
(***************************************************************************)
(* One Server (exporter/server.go): what it knows of its database, which   *)
(* queries it has planned from that knowledge, and the course of a scrape: *)
(* PostgresPrecheck, Plan if something invalidated the plan, the Fatal     *)
(* queries, the others.  Server.lock is held from the first step of a      *)
(* scrape to the last, so a reload falls between two scrapes; the target   *)
(* and its facts may change, and the connection may break, between any two *)
(* steps.                                                                  *)
(***************************************************************************)
EXTENDS Naturals

CONSTANTS
    Query,            \* names of query definitions
    Configs,          \* the sets of queries a configuration file may hold
    Skip, Fatal,      \* queries marked skip, fatal
    Priority,         \* [Query -> Nat], lower runs first
    MinVersion, MaxVersion,   \* [Query -> Nat], 0 for none
    Tags,             \* [Query -> SUBSET Tag]
    Modes,            \* values of Forked and PgbouncerMode a server may have
    ServerTags,       \* --tag
    Targets,          \* the facts about itself the target may report
    Names             \* names of databases, users, schemas, extensions and tags

TagKinds == {"cluster", "primary", "replica", "pgbouncer", "dbname", "username",
             "extension", "schema", "not", "custom"}
Tag      == [kind : TagKinds, name : Names]
Mode     == [Forked : BOOLEAN, PgbouncerMode : BOOLEAN]
Facts    == [version : Nat \ {0}, recovery : BOOLEAN, datname : Names, username : Names,
             extensions : SUBSET Names, namespaces : SUBSET Names]

ASSUME ServerAssumption ==
    /\ Configs \subseteq SUBSET Query
    /\ Skip \subseteq Query /\ Fatal \subseteq Query
    /\ Priority \in [Query -> Nat]
    /\ MinVersion \in [Query -> Nat] /\ MaxVersion \in [Query -> Nat]
    /\ \A q \in Query : \A t \in Tags[q] : t \in Tag
    /\ Modes \subseteq Mode
    /\ ServerTags \subseteq Names
    /\ \A t \in Targets : /\ t.version \in Nat \ {0} /\ t.recovery \in BOOLEAN
                          /\ t.datname \in Names /\ t.username \in Names
                          /\ t.extensions \subseteq Names /\ t.namespaces \subseteq Names

VARIABLES
    Forked,           \* the server was spawned by auto-discovery
    PgbouncerMode,    \* the database name of the URL is pgbouncer
    alive, target,                            \* the database and its facts
    Version, Recovery, Database,              \* the facts as last fetched
    Username, Extensions, Namespaces,
    UP, Planned, queries, Collectors,
    stats,            \* queries that have an entry in the statistics maps
    pc, kind,         \* where the holder of Server.lock is, and what it runs
    err,              \* Server.err
    ran, failed       \* queries executed in this scrape, those that failed

mode == <<Forked, PgbouncerMode>>
unwatched == <<Username, Extensions, Namespaces>>
facts == <<Version, Recovery, Database, unwatched>>
plan  == <<Planned, Collectors, stats>>
vars  == <<mode, alive, target, facts, UP, plan, queries, pc, kind, err, ran, failed>>

TypeOK ==
    /\ Forked \in BOOLEAN /\ PgbouncerMode \in BOOLEAN
    /\ alive \in BOOLEAN
    /\ target \in Targets
    /\ Version \in Nat
    /\ Recovery \in BOOLEAN
    /\ Database \in Names /\ Username \in Names \cup {""}
    /\ Extensions \subseteq Names /\ Namespaces \subseteq Names
    /\ UP \in BOOLEAN
    /\ Planned \in BOOLEAN
    /\ queries \in Configs
    /\ Collectors \subseteq Query
    /\ stats \subseteq Query
    /\ pc \in {"idle", "version", "set", "facts", "plan", "fatal", "nonfatal", "final"}
    /\ kind \in {"check", "scrape"}
    /\ err \in {"nil", "error"}

Init ==
    /\ \E m \in Modes : Forked = m.Forked /\ PgbouncerMode = m.PgbouncerMode
    /\ alive \in BOOLEAN
    /\ target \in Targets
    /\ Version = 0 /\ Recovery = FALSE
    /\ Database \in {t.datname : t \in Targets}     \* ParseDatname of the URL
    /\ Username = "" /\ Extensions = {} /\ Namespaces = {}
    /\ UP = FALSE /\ Planned = FALSE
    /\ queries \in Configs
    /\ Collectors = {} /\ stats = {}
    /\ pc = "version" /\ kind = "check"        \* the start-up check
    /\ err = "nil" /\ ran = {} /\ failed = {}

-----------------------------------------------------------------------------
(* Compatible: skip flag, mode, version window, then every tag.            *)

TagMatches(t) == CASE t.kind = "cluster"   -> ~Forked
                   [] t.kind = "primary"   -> ~Recovery
                   [] t.kind = "replica"   -> Recovery
                   [] t.kind = "pgbouncer" -> TRUE
                   [] t.kind = "dbname"    -> Database = t.name
                   [] t.kind = "username"  -> Username = t.name
                   [] t.kind = "extension" -> t.name \in Extensions
                   [] t.kind = "schema"    -> t.name \in Namespaces
                   [] t.kind = "not"       -> t.name \notin ServerTags
                   [] t.kind = "custom"    -> t.name \in ServerTags

Compatible(q) == /\ q \notin Skip
                 /\ (\E t \in Tags[q] : t.kind = "pgbouncer") <=> PgbouncerMode
                 /\ Version # 0 => /\ Version >= MinVersion[q]
                                   /\ MaxVersion[q] # 0 => Version < MaxVersion[q]
                 /\ \A t \in Tags[q] : TagMatches(t)

-----------------------------------------------------------------------------
(* PostgresPrecheck: three round trips, each of which may fail.            *)

\* Server.Check hands the error to its caller and returns; Server.Collect
\* keeps it and goes on to its final part.
precheckReturns(e, next) ==
    \/ kind = "check"  /\ pc' = "idle" /\ UNCHANGED err
    \/ kind = "scrape" /\ pc' = next   /\ err' = e

precheckFails ==
    /\ pc \in {"version", "set", "facts"}
    /\ ~alive
    /\ UP' = FALSE
    /\ precheckReturns("error", "final")
    /\ UNCHANGED <<mode, alive, target, facts, plan, queries, kind, ran, failed>>

showServerVersion ==
    /\ pc = "version" /\ alive /\ ~PgbouncerMode
    /\ UP' = TRUE
    /\ Version' = target.version
    /\ Planned' = (Planned /\ Version = target.version)
    /\ pc' = "set"
    /\ UNCHANGED <<mode, alive, target, Recovery, Database, unwatched, Collectors, stats, queries,
                   kind, err, ran, failed>>

setApplicationName ==
    /\ pc = "set" /\ alive
    /\ pc' = "facts"
    /\ UNCHANGED <<mode, alive, target, facts, UP, plan, queries, kind, err, ran, failed>>

\* A precheck that does not watch the recovery state.
fetchFactsIgnoringRecovery ==
    /\ pc = "facts" /\ alive
    /\ Recovery' = target.recovery
    /\ Database' = target.datname
    /\ Username' = target.username
    /\ Extensions' = target.extensions /\ Namespaces' = target.namespaces
    /\ Planned' = (Planned /\ Database = target.datname)
    /\ precheckReturns("nil", "plan")
    /\ UNCHANGED <<mode, alive, target, Version, UP, Collectors, stats, queries, kind, ran, failed>>

(* Recovery state and database name are compared with what was known and   *)
(* unplan the server if they changed; the rest is just replaced.           *)
fetchFacts ==
    /\ pc = "facts" /\ alive
    /\ Recovery' = target.recovery
    /\ Database' = target.datname
    /\ Username' = target.username
    /\ Extensions' = target.extensions /\ Namespaces' = target.namespaces
    /\ Planned' = (Planned /\ Recovery = target.recovery /\ Database = target.datname)
    /\ precheckReturns("nil", "plan")
    /\ UNCHANGED <<mode, alive, target, Version, UP, Collectors, stats, queries, kind, ran, failed>>

\* A pgbouncer precheck that only remembers the version.
PgbouncerPrecheckUnplanned ==
    /\ pc = "version" /\ alive /\ PgbouncerMode
    /\ UP' = TRUE
    /\ \/ Version' = target.version
       \/ UNCHANGED Version
    /\ precheckReturns("nil", "plan")
    /\ UNCHANGED <<mode, alive, target, Recovery, Database, unwatched, plan, queries, kind, ran,
                   failed>>

(* PgbouncerPrecheck: one round trip.  A version that comes neither as a   *)
(* row nor as a notice, or does not parse, is ignored.                     *)
PgbouncerPrecheck ==
    /\ pc = "version" /\ alive /\ PgbouncerMode
    /\ UP' = TRUE
    /\ \/ Version' = target.version /\ Planned' = (Planned /\ Version = target.version)
       \/ UNCHANGED <<Version, Planned>>
    /\ precheckReturns("nil", "plan")
    /\ UNCHANGED <<mode, alive, target, Recovery, Database, unwatched, Collectors, stats, queries,
                   kind, ran, failed>>

-----------------------------------------------------------------------------
(* Server.Collect.                                                         *)

beginScrape ==
    /\ pc = "idle"
    /\ pc' = "version" /\ kind' = "scrape"
    /\ ran' = {} /\ failed' = {}
    /\ UNCHANGED <<mode, alive, target, facts, UP, plan, queries, err>>

Plan ==
    /\ pc = "plan"
    /\ \/ Planned /\ UNCHANGED plan
       \/ /\ ~Planned
          /\ Collectors' = {q \in queries : Compatible(q)}
          /\ stats' = Collectors'             \* ResetStats
          /\ Planned' = TRUE
    /\ pc' = "fatal"
    /\ UNCHANGED <<mode, alive, target, facts, UP, queries, kind, err, ran, failed>>

\* The queries of a pass that are still to run, and those that come first.
remaining(pass) == {q \in Collectors \ ran : q \in Fatal <=> pass = "fatal"}
first(pass)     == {q \in remaining(pass) : \A o \in remaining(pass) : Priority[q] <= Priority[o]}

(* executeQuery: the query is counted in the statistics maps whatever      *)
(* becomes of it.                                                          *)
executeQuery(q) == /\ ran' = ran \cup {q}
                   /\ stats' = stats \cup {q}
                   /\ UNCHANGED <<mode, alive, target, facts, UP, Planned, Collectors, queries, kind>>

querySucceeds ==
    /\ pc \in {"fatal", "nonfatal"}
    /\ alive
    /\ \E q \in first(pc) : executeQuery(q)
    /\ UNCHANGED <<pc, err, failed>>

\* A first pass that logs the failure of a Fatal query and goes on.
fatalQuerySkipped ==
    /\ pc = "fatal"
    /\ \E q \in first("fatal") : executeQuery(q) /\ failed' = failed \cup {q}
    /\ UNCHANGED <<pc, err>>

(* collectFatalQueries: the first failure ends the scrape.                 *)
fatalQueryFails ==
    /\ pc = "fatal"
    /\ \E q \in first("fatal") : executeQuery(q) /\ failed' = failed \cup {q}
    /\ err' = "error"
    /\ pc' = "final"

(* collectNonFatalQueries: failures are logged and skipped.                *)
nonFatalQueryFails ==
    /\ pc = "nonfatal"
    /\ \E q \in first("nonfatal") : executeQuery(q) /\ failed' = failed \cup {q}
    /\ UNCHANGED <<pc, err>>

endPass ==
    /\ pc \in {"fatal", "nonfatal"} /\ remaining(pc) = {}
    /\ \/ pc = "fatal"    /\ pc' = "nonfatal"
       \/ pc = "nonfatal" /\ pc' = "final"
    /\ UNCHANGED <<mode, alive, target, facts, UP, plan, queries, kind, err, ran, failed>>

(* The final part of Collect decides UP from the error alone.              *)
final ==
    /\ pc = "final"
    /\ UP' = (err = "nil")
    /\ pc' = "idle"
    /\ UNCHANGED <<mode, alive, target, facts, plan, queries, kind, err, ran, failed>>

-----------------------------------------------------------------------------
\* A reload that leaves the statistics of the old plan in place.
reloadKeepingStats ==
    /\ pc = "idle"
    /\ queries' \in Configs
    /\ Collectors' = {} /\ Planned' = FALSE
    /\ UNCHANGED <<mode, alive, target, facts, UP, stats, pc, kind, err, ran, failed>>

(* Reload, the part that concerns one server (exporter/main.go): swap the  *)
(* queries, drop the plan, ResetStats.                                     *)
reload ==
    /\ pc = "idle"
    /\ queries' \in Configs
    /\ Collectors' = {} /\ Planned' = FALSE /\ stats' = {}
    /\ UNCHANGED <<mode, alive, target, facts, UP, pc, kind, err, ran, failed>>

(* The target: promotion, demotion, upgrade, another database behind the   *)
(* same address, CREATE or DROP EXTENSION; and the connection.             *)
targetChange ==
    /\ target' \in Targets \ {target}
    /\ UNCHANGED <<mode, alive, facts, UP, plan, queries, pc, kind, err, ran, failed>>

connectionChange ==
    /\ alive' = ~alive
    /\ UNCHANGED <<mode, target, facts, UP, plan, queries, pc, kind, err, ran, failed>>

precheck == \/ precheckFails \/ showServerVersion \/ setApplicationName \/ fetchFacts
            \/ PgbouncerPrecheck
scrape   == precheck \/ Plan \/ querySucceeds \/ fatalQueryFails \/ nonFatalQueryFails
            \/ endPass \/ final

Next == beginScrape \/ scrape \/ reload \/ targetChange \/ connectionChange

Spec == Init /\ [][Next]_vars

(* A scrape that has begun finishes (every round trip has a timeout), and  *)
(* Prometheus keeps scraping.                                              *)
FairSpec == Spec /\ WF_vars(scrape) /\ WF_vars(beginScrape)

-----------------------------------------------------------------------------
InScrape == pc \in {"fatal", "nonfatal"}

\* Queries whose tags speak only of facts that unplan the server.
Watched == {q \in Query : \A t \in Tags[q] :
                            t.kind \notin {"username", "extension", "schema"}}

(* Whatever prechecks failed half-way since the last plan, the queries a   *)
(* scrape executes are those of the current configuration that are         *)
(* compatible with the version, recovery state and database name this very *)
(* scrape has fetched (server.go:287-326, 589-591).                        *)
PlanIsCurrent ==
    InScrape => /\ Collectors \subseteq queries
                /\ Collectors \cap Watched = {q \in queries \cap Watched : Compatible(q)}

(* What the plan and the progress of a scrape rest on, in every state: a   *)
(* plan that stands fits the facts as fetched so far, statistics belong to *)
(* the plan, and Fatal queries come first.                                 *)
PlanFits ==
    /\ Collectors \subseteq queries
    /\ Planned => Collectors \cap Watched = {q \in queries \cap Watched : Compatible(q)}
    /\ stats = Collectors

FatalFirst ==
    /\ ran \subseteq Query /\ failed \subseteq ran
    /\ pc = "fatal" => ran \subseteq Fatal /\ failed = {}
    /\ pc = "nonfatal" => (Collectors \cap Fatal) \subseteq ran \ failed

Progress ==
    /\ InScrape => Planned
    /\ pc \in {"version", "set", "facts", "plan"} => ran = {} /\ failed = {}

(* The inductive invariant of Server: types, and the three parts above     *)
(* (server.go:260-326, 369-403, 578-672).                                  *)
ServerInv == TypeOK /\ PlanFits /\ FatalFirst /\ Progress

(* No other query runs in a scrape in which a Fatal query has not run or   *)
(* has failed (server.go:596-604, 619-644).                                *)
FatalGuards ==
    \A q \in ran \ Fatal : InScrape => (Collectors \cap Fatal) \subseteq ran \ failed

(* Between scrapes the statistics maps hold exactly the planned queries:   *)
(* /stat and the self-metrics never show a query of an older configuration *)
(* (server.go:406-427, main.go:161-163).                                   *)
StatsMatchPlan == pc = "idle" => stats = Collectors

(* After a promotion or demotion that lasts, scrapes reach their queries   *)
(* again and again, and from some scrape on no query of the other role is  *)
(* among them (server.go:316-320, 589-591); pgbouncer has no role.         *)
RoleFollowed ==
    \A r \in BOOLEAN :
        ~PgbouncerMode /\ <>[](alive /\ target.recovery = r) =>
            /\ []<>InScrape
            /\ <>[](InScrape => \A q \in Collectors : \A t \in Tags[q] :
                                    /\ t.kind = "primary" => ~r
                                    /\ t.kind = "replica" => r)
=============================================================================
