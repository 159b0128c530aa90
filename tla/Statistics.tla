------------------------------ MODULE Statistics ------------------------------
(***************************************************************************)
(* Server.executeQuery around a Collector (exporter/server.go): each       *)
(* Collect is entered into the statistics of its query, which the          *)
(* exporter sends with every scrape, and a new plan resets them with the   *)
(* collector.  Both happen under Server.lock, together with the end of the *)
(* Collect and with the plan.                                              *)
(***************************************************************************)
EXTENDS Collector

CONSTANT MaxScrapes       \* bound: scrapes between two plans

ASSUME StatisticsAssumption == MaxScrapes \in Nat

VARIABLES
    queryCacheTTL, queryScrapeTotalCount, queryScrapeHitCount, queryScrapeErrorCount,
    queryScrapePredicateSkipCount, queryScrapeMetricCount,
    executions, failures      \* history: executions since the plan, and those that failed

stats   == <<queryCacheTTL, queryScrapeTotalCount, queryScrapeHitCount, queryScrapeErrorCount,
             queryScrapePredicateSkipCount, queryScrapeMetricCount>>
history == <<executions, failures>>
svars   == <<vars, stats, history>>

ResetStats ==
    /\ queryCacheTTL' = 0
    /\ queryScrapeTotalCount' = 0 /\ queryScrapeHitCount' = 0 /\ queryScrapeErrorCount' = 0
    /\ queryScrapePredicateSkipCount' = 0 /\ queryScrapeMetricCount' = 0
    /\ executions' = 0 /\ failures' = 0

SInit ==
    /\ Init
    /\ queryCacheTTL = 0
    /\ queryScrapeTotalCount = 0 /\ queryScrapeHitCount = 0 /\ queryScrapeErrorCount = 0
    /\ queryScrapePredicateSkipCount = 0 /\ queryScrapeMetricCount = 0
    /\ executions = 0 /\ failures = 0

-----------------------------------------------------------------------------

One(b) == IF b THEN 1 ELSE 0

cacheTTL == TTL - (serverBegin - lastScrape)

\* A failed query that is also a hit is counted as both.
countOutcomeTwice ==
    /\ queryScrapeErrorCount' = queryScrapeErrorCount + One(err' = "error")
    /\ queryScrapeHitCount' = queryScrapeHitCount + One(cacheHit')
    /\ queryScrapePredicateSkipCount' = queryScrapePredicateSkipCount + One(predicateSkip' # 0)

(* With an error nothing else is looked at; a predicate that was false is  *)
(* a skip, whether this Collect asked it or not.                           *)
countOutcome ==
    IF err' = "error"
    THEN /\ queryScrapeErrorCount' = queryScrapeErrorCount + 1
         /\ UNCHANGED <<queryScrapeHitCount, queryScrapePredicateSkipCount>>
    ELSE /\ queryScrapeHitCount' = queryScrapeHitCount + One(cacheHit')
         /\ queryScrapePredicateSkipCount' =
                queryScrapePredicateSkipCount + One(predicateSkip' # 0)
         /\ UNCHANGED queryScrapeErrorCount

\* The TTL as of before the Collect.
cacheTTLReadEarly == queryCacheTTL' = cacheTTL

cacheTTLRead == queryCacheTTL' = cacheTTL'

(* executeQuery: Collect, then the counters.                               *)
executeQuery ==
    /\ serveFromCache \/ sendMetrics
    /\ cacheTTLRead
    /\ queryScrapeTotalCount' = queryScrapeTotalCount + 1
    /\ queryScrapeMetricCount' = result'.rows
    /\ countOutcome
    /\ executions' = executions + One(~cacheHit')
    /\ failures' = failures + One(~cacheHit' /\ err' = "error")

beginScrape == serverCollect /\ queryScrapeTotalCount < MaxScrapes /\ UNCHANGED <<stats, history>>

planned == replan /\ ResetStats

\* Within a Collect, and around the exporter, no statistics change.
uncounted ==
    /\ \/ execute
       \/ predicateFromCache \/ predicateFails \/ predicateAnswers \/ allPredicatesPass
       \/ mainQuery \/ readRow \/ fail \/ publish
       \/ tick \/ dbChange
    /\ UNCHANGED <<stats, history>>

SNext == beginScrape \/ executeQuery \/ planned \/ uncounted

SSpec == SInit /\ [][SNext]_svars

-----------------------------------------------------------------------------
(* Every Collect is counted, and in one place: as a failure, as a hit, or  *)
(* as an execution that succeeded or was skipped (server.go:647-672).      *)
Accounted ==
    /\ queryScrapeTotalCount =
           queryScrapeHitCount + queryScrapeErrorCount + (executions - failures)
    /\ queryScrapePredicateSkipCount + queryScrapeErrorCount <= queryScrapeTotalCount

(* The reported lifetime of the cached result is what is left of its       *)
(* window: never negative, and all of it after an execution                *)
(* (collector.go:553-555, server.go:649).                                  *)
LifetimeReported ==
    pc = "idle" /\ queryScrapeTotalCount > 0 =>
        queryCacheTTL \in 0..TTL /\ (~cacheHit => queryCacheTTL = TTL)

-----------------------------------------------------------------------------
(* The inductive invariant behind the first two.                           *)
CounterTypes == /\ queryScrapeTotalCount \in Nat /\ queryScrapeHitCount \in Nat
                /\ queryScrapeErrorCount \in Nat /\ queryScrapePredicateSkipCount \in Nat
                /\ executions \in Nat /\ failures \in Nat

StatisticsInv == /\ CollectorInv /\ CounterTypes /\ Accounted /\ LifetimeReported
                 /\ lastScrape <= serverBegin
=============================================================================
