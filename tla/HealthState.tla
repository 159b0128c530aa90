----------------------------- MODULE HealthState -----------------------------
(***************************************************************************)
(* The health snapshot behind /up, /primary and /replica                   *)
(* (exporter/exporter.go).  Three independent atomics (healthUp,           *)
(* healthRecovery, healthStatus) are stored one after the other by         *)
(* whichever goroutine has just learnt something about the target, and     *)
(* loaded one after the other by the HTTP handlers.  No lock covers the    *)
(* three, so the stores of two goroutines and the loads of a handler       *)
(* interleave freely.                                                      *)
(*                                                                         *)
(* The goroutines that store are                                           *)
(*   main    newExporterWithServerFactory, once, at start-up;              *)
(*   loop    the one-second health loop (ProbeHealth, a query of its own); *)
(*   scrape  Exporter.Collect (e.lock admits one scrape at a time).        *)
(***************************************************************************)
EXTENDS Naturals

CONSTANTS
    Readers,          \* concurrent HTTP requests to the health end points
    Targets           \* the states the target goes through

(* "down" also stands for a target that does not answer within the connect *)
(* timeout; "starting" is a target that answers SQLSTATE 57P03.            *)
AllTargets == {"down", "starting", "primary", "replica"}

ASSUME TargetsAssumption == Targets \subseteq AllTargets

VARIABLES
    target,           \* what the database would answer now
    fatalBroken,      \* some Fatal query of the configuration fails now
    config,           \* [failFast, dsnOK], fixed when the process starts
    healthUp, healthRecovery, healthStatus,      \* the three atomics
    db, UP, Recovery, \* of the primary Server: DB handle opened, last finding
    locked,           \* Server.lock is held for writing (by the scrape)
    pc, view,         \* per goroutine: where it is, what it has learnt
    req               \* per HTTP request: [pc, kind, status, code]

env      == <<target, fatalBroken, config>>
snapshot == <<healthUp, healthRecovery, healthStatus>>
server   == <<db, UP, Recovery>>
vars     == <<env, snapshot, server, locked, pc, view, req>>

IsUp(t)  == t \in {"primary", "replica"}
Statuses == AllTargets \cup {"unknown"}
Writers  == {"main", "loop", "scrape"}
Views    == [up : BOOLEAN, recovery : BOOLEAN, starting : BOOLEAN]
Kinds    == {"up", "primary", "replica"}
DownView == [up |-> FALSE, recovery |-> FALSE, starting |-> FALSE]

TypeOK ==
    /\ target \in Targets
    /\ fatalBroken \in BOOLEAN
    /\ config \in [failFast : BOOLEAN, dsnOK : BOOLEAN]
    /\ healthUp \in BOOLEAN
    /\ healthRecovery \in BOOLEAN
    /\ healthStatus \in Statuses
    /\ db \in BOOLEAN /\ UP \in BOOLEAN /\ Recovery \in BOOLEAN
    /\ locked \in BOOLEAN
    /\ pc \in [Writers -> {"idle", "off", "exited", "load", "query", "precheck",
                           "queries", "up", "recovery", "status"}]
    /\ view \in [Writers -> Views]
    /\ req \in [Readers -> [pc : {"idle", "up", "recovery", "done"}, kind : Kinds,
                            status : Statuses, code : {0, 200, 404, 503}]]

Init ==
    /\ target \in Targets
    /\ fatalBroken \in BOOLEAN
    /\ config \in [failFast : BOOLEAN, dsnOK : BOOLEAN]
    /\ healthUp = FALSE /\ healthRecovery = FALSE /\ healthStatus = "unknown"
    /\ db = FALSE /\ UP = FALSE /\ Recovery = FALSE
    /\ locked = FALSE
    /\ pc = [w \in Writers |-> IF w = "main" THEN "precheck" ELSE "off"]
    /\ view = [w \in Writers |-> DownView]
    /\ req = [r \in Readers |-> [pc |-> "idle", kind |-> "up",
                                 status |-> "unknown", code |-> 0]]

Goto(w, l) == pc' = [pc EXCEPT ![w] = l]

-----------------------------------------------------------------------------
(* updateHealthStateWithStartup: three separate atomic stores.             *)

StoreUp(w) ==
    /\ pc[w] = "up"
    /\ healthUp' = view[w].up
    /\ Goto(w, "recovery")
    /\ UNCHANGED <<env, healthRecovery, healthStatus, server, locked, view, req>>

\* What StoreRecovery would be without the masking by up.
StoreRecoveryUnmasked(w) ==
    /\ pc[w] = "recovery"
    /\ healthRecovery' = view[w].recovery
    /\ Goto(w, "status")
    /\ UNCHANGED <<env, healthUp, healthStatus, server, locked, view, req>>

StoreRecovery(w) ==
    /\ pc[w] = "recovery"
    /\ healthRecovery' = (~view[w].starting /\ view[w].up /\ view[w].recovery)
    /\ Goto(w, "status")
    /\ UNCHANGED <<env, healthUp, healthStatus, server, locked, view, req>>

StatusOf(v) == CASE v.starting -> "starting"
                 [] ~v.starting /\ ~v.up -> "down"
                 [] ~v.starting /\ v.up /\ v.recovery -> "replica"
                 [] OTHER -> "primary"

StoreStatus(w) ==
    /\ pc[w] = "status"
    /\ healthStatus' = StatusOf(view[w])
    /\ pc' = IF w = "main" THEN [main |-> "off", loop |-> "idle", scrape |-> "idle"]
                           ELSE [pc EXCEPT ![w] = "idle"]
    /\ view' = [view EXCEPT ![w] = DownView]        \* the locals are gone
    /\ UNCHANGED <<env, healthUp, healthRecovery, server, locked, req>>

updateHealthStateWithStartup(w) == StoreUp(w) \/ StoreRecovery(w) \/ StoreStatus(w)

-----------------------------------------------------------------------------
(* The precheck (PostgresPrecheck) as the health snapshot sees it: the DB  *)
(* handle is opened if the DSN can be opened, and a failed query sets      *)
(* UP = FALSE and returns before Recovery is assigned.                     *)

precheckPasses == /\ config.dsnOK
                  /\ IsUp(target)
                  /\ db' = TRUE /\ UP' = TRUE /\ Recovery' = (target = "replica")

precheckFails  == /\ ~(config.dsnOK /\ IsUp(target))
                  /\ db' = (db \/ config.dsnOK)
                  /\ UP' = FALSE /\ UNCHANGED Recovery

(* Start-up: Server.Check, then updateHealthStateFromServer, then the      *)
(* health loop.  With failFast a failed check ends the process.            *)
startupCheck ==
    /\ pc["main"] = "precheck"
    /\ \/ precheckPasses /\ Goto("main", "load")
       \/ precheckFails /\ ~config.failFast /\ Goto("main", "load")
       \/ precheckFails /\ config.failFast /\ Goto("main", "exited")
    /\ UNCHANGED <<env, snapshot, locked, view, req>>

serverView == [up |-> UP, recovery |-> Recovery, starting |-> FALSE]

updateHealthStateFromServer ==
    /\ pc["main"] = "load"
    /\ view' = [view EXCEPT !["main"] = serverView]
    /\ Goto("main", "up")
    /\ UNCHANGED <<env, snapshot, server, locked, req>>

-----------------------------------------------------------------------------
(* The health loop.  ProbeHealth snapshots the handle under the read lock, *)
(* which a running scrape holds off, and then queries without any lock.    *)

probeSnapshot ==
    /\ pc["loop"] = "idle"
    /\ ~locked
    /\ \/ db /\ Goto("loop", "query") /\ UNCHANGED view
       \/ ~db /\ Goto("loop", "up") /\ view' = [view EXCEPT !["loop"] = DownView]
    /\ UNCHANGED <<env, snapshot, server, locked, req>>

\* A probe that reports what the last scrape found instead of asking the target.
ProbeHealthFromServer ==
    /\ pc["loop"] = "query"
    /\ view' = [view EXCEPT !["loop"] = serverView]
    /\ Goto("loop", "up")
    /\ UNCHANGED <<env, snapshot, server, locked, req>>

ProbeHealth ==
    /\ pc["loop"] = "query"
    /\ view' = [view EXCEPT !["loop"] = [up |-> IsUp(target), recovery |-> target = "replica",
                                         starting |-> target = "starting"]]
    /\ Goto("loop", "up")
    /\ UNCHANGED <<env, snapshot, server, locked, req>>

-----------------------------------------------------------------------------
(* Exporter.Collect.  Server.Collect holds Server.lock from the precheck   *)
(* to the last query; the exporter re-reads UP and Recovery only after the *)
(* lock is released, and stores them later still.                          *)

scrapeBegin ==
    /\ pc["scrape"] = "idle"
    /\ ~locked
    /\ locked' = TRUE
    /\ Goto("scrape", "precheck")
    /\ UNCHANGED <<env, snapshot, server, view, req>>

scrapePrecheck ==
    /\ pc["scrape"] = "precheck"
    /\ \/ precheckPasses /\ Goto("scrape", "queries") /\ UNCHANGED locked
       \/ precheckFails /\ Goto("scrape", "load") /\ locked' = FALSE
    /\ UNCHANGED <<env, snapshot, view, req>>

(* The fatal and the non-fatal pass.  A broken Fatal query always fails;   *)
(* on a target that is gone by then a Fatal query, if there is one, fails. *)
scrapeQueries ==
    /\ pc["scrape"] = "queries"
    /\ \/ ~fatalBroken /\ UP' = TRUE
       \/ (fatalBroken \/ ~IsUp(target)) /\ UP' = FALSE
    /\ locked' = FALSE
    /\ Goto("scrape", "load")
    /\ UNCHANGED <<env, snapshot, db, Recovery, view, req>>

scrapeReadHealth ==
    /\ pc["scrape"] = "load"
    /\ view' = [view EXCEPT !["scrape"] = serverView]
    /\ Goto("scrape", "up")
    /\ UNCHANGED <<env, snapshot, server, locked, req>>

-----------------------------------------------------------------------------
(* The HTTP handlers: Status, then Up, then (if up) Recovery, three loads. *)
(* They are reachable once start-up has installed the exporter.            *)

loadStatus(r, k) ==
    /\ pc["loop"] # "off"
    /\ req[r].pc \in {"idle", "done"}
    /\ req' = [req EXCEPT ![r] = [pc |-> "up", kind |-> k, status |-> healthStatus, code |-> 0]]
    /\ UNCHANGED <<env, snapshot, server, locked, pc, view>>

answer(r, code) == req' = [req EXCEPT ![r].pc = "done", ![r].code = code]

loadUp(r) ==
    /\ req[r].pc = "up"
    /\ \/ ~healthUp /\ answer(r, 503)
       \/ healthUp /\ req[r].kind = "up" /\ answer(r, 200)
       \/ healthUp /\ req[r].kind # "up" /\ req' = [req EXCEPT ![r].pc = "recovery"]
    /\ UNCHANGED <<env, snapshot, server, locked, pc, view>>

\* A replica check that answers like the primary check.
loadRecoverySwapped(r) ==
    /\ req[r].pc = "recovery"
    /\ IF healthRecovery THEN answer(r, 404) ELSE answer(r, 200)
    /\ UNCHANGED <<env, snapshot, server, locked, pc, view>>

loadRecovery(r) ==
    /\ req[r].pc = "recovery"
    /\ \/ (healthRecovery <=> req[r].kind = "replica") /\ answer(r, 200)
       \/ ~(healthRecovery <=> req[r].kind = "replica") /\ answer(r, 404)
    /\ UNCHANGED <<env, snapshot, server, locked, pc, view>>

-----------------------------------------------------------------------------
(* The target fails, restarts and changes role at any time; so does the    *)
(* database object a Fatal query depends on.                               *)

targetChange == /\ target' \in Targets \ {target}
                /\ UNCHANGED <<fatalBroken, config, snapshot, server, locked, pc, view, req>>

fatalChange == /\ fatalBroken' = ~fatalBroken
               /\ UNCHANGED <<target, config, snapshot, server, locked, pc, view, req>>

\* The process has exited (failFast): nothing happens any more.
exited == pc["main"] = "exited" /\ UNCHANGED vars

startup == startupCheck \/ updateHealthStateFromServer \/ updateHealthStateWithStartup("main")
loop    == probeSnapshot \/ ProbeHealth \/ updateHealthStateWithStartup("loop")
\* The steps that finish a scrape once it has begun.
scrape  == scrapePrecheck \/ scrapeQueries \/ scrapeReadHealth
           \/ updateHealthStateWithStartup("scrape")
handler(r) == (\E k \in Kinds : loadStatus(r, k)) \/ loadUp(r) \/ loadRecovery(r)

Next == startup \/ loop \/ scrapeBegin \/ scrape \/ (\E r \in Readers : handler(r))
        \/ targetChange \/ fatalChange \/ exited

Spec == Init /\ [][Next]_vars

(***************************************************************************)
(* Fairness.  A goroutine that can run runs, and the ticker keeps firing;  *)
(* a scrape that has begun finishes, because its queries run under a       *)
(* timeout.  The read lock needs strong fairness: scrapes may come back to *)
(* back, and sync.RWMutex admits the readers that wait when a writer       *)
(* unlocks.  Nothing forces a scrape to begin or the target to change.     *)
(***************************************************************************)
Fairness == /\ WF_vars(startup)
            /\ WF_vars(scrape)
            /\ WF_vars(loop)
            /\ SF_vars(probeSnapshot)

FairSpec == Spec /\ Fairness

-----------------------------------------------------------------------------
(* What the end points should say of a target, and the snapshot of it.     *)
StatusesOf(t) == IF t = "starting" THEN {"starting", "down"} ELSE {t}

SnapshotIs(t) == /\ healthUp = IsUp(t)
                 /\ healthRecovery = (t = "replica")
                 /\ healthStatus \in StatusesOf(t)

Serving == config.dsnOK /\ pc["main"] # "exited"

(* Once the target stays in one state and no Fatal query fails, the three  *)
(* atomics end up describing that state and keep describing it, whatever   *)
(* interleaving of stores preceded (health loop and scrapes,               *)
(* exporter.go:123-166, 256-262).                                          *)
Convergence ==
    \A t \in Targets :
        <>[](Serving /\ target = t /\ ~fatalBroken) => <>[]SnapshotIs(t)

(* "The exporter can recover health status even when scrapes are failing"  *)
(* (exporter.go:187): while the target stays up, /up does not stay 503,    *)
(* not even when every scrape fails on a broken Fatal query.               *)
RecoversWhileScrapesFail ==
    <>[](Serving /\ IsUp(target)) => []<>healthUp

(* README.md:170, "200 if not in recovery, 404 if in recovery, 503 if      *)
(* server is down", in its weakest reading: /primary never answers 200 for *)
(* a target that is never a primary.                                       *)
NeverPrimaryNever200 ==
    "primary" \notin Targets =>
        \A r \in Readers : req[r].kind = "primary" => req[r].code # 200
=============================================================================
