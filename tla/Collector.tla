------------------------------- MODULE Collector -------------------------------
(***************************************************************************)
(* One Collector: a query planned on a server (exporter/collector.go).     *)
(* Collector.Collect serves its last result while that is young enough,    *)
(* and otherwise executes: the predicate queries in order, each with a     *)
(* cache of its own, then the main query, row by row, publishing the       *)
(* result only when all of it is there.  Server.lock serialises the        *)
(* Collects of one collector; what interleaves with them is time, the      *)
(* database, and a new plan between two scrapes.                           *)
(***************************************************************************)
EXTENDS Integers

CONSTANTS
    TTL,              \* cache window of the query
    NPred,            \* number of predicate queries
    PredTTL,          \* cache window of each, 0 for "not cached"
    DisableCache,     \* --disable-cache
    MaxRows,          \* bound: rows the main query returns
    MaxTime           \* bound: the clock stops there

ASSUME CollectorAssumption ==
    /\ TTL \in Nat /\ NPred \in Nat /\ MaxRows \in Nat /\ MaxTime \in Nat
    /\ PredTTL \in [1..NPred -> Nat]
    /\ DisableCache \in BOOLEAN

VARIABLES
    now,              \* the clock
    holds,            \* per predicate: what the database would answer
    serverBegin,      \* Server.scrapeBegin
    pc,
    lastScrape, result, err, cacheHit, predicateSkip, predicateCache,
    begin,            \* Collector.scrapeBegin
    pred,             \* the predicate executePredicateQueries is at
    pending,          \* the rows read so far, not published
    out,              \* what the last Collect sent to the channel
    lastEval          \* history: last answer of each predicate query, and when

scrapeVars == <<serverBegin, begin, pred, pending>>
cache      == <<lastScrape, result, err, cacheHit, predicateSkip, predicateCache>>
vars == <<now, holds, pc, scrapeVars, cache, out, lastEval>>

Preds == 1..NPred

(* The zero time.Time: so old that any scrape finds the cache expired.     *)
Never == -(TTL + 1)

(* A result: `rows` of the `of` rows that a query execution at time `at`   *)
(* returned.  Only complete results are meant to be published.             *)
Results == [rows : 0..MaxRows, of : 0..MaxRows, at : Int]
Nothing == [rows |-> 0, of |-> 0, at |-> Never]

NoEntry == [set |-> FALSE, at |-> Never, pass |-> FALSE]

CacheTypes ==
    /\ lastScrape \in Int
    /\ result \in Results
    /\ err \in {"nil", "error"}
    /\ cacheHit \in BOOLEAN
    /\ predicateSkip \in 0..NPred
    /\ predicateCache \in [Preds -> [set : BOOLEAN, at : Int, pass : BOOLEAN]]

ScrapeTypes ==
    /\ pc \in {"idle", "collect", "predicate", "query", "rows", "send"}
    /\ now \in Nat /\ serverBegin \in Nat /\ begin \in Nat
    /\ holds \in [Preds -> BOOLEAN]
    /\ pred \in 1..(NPred + 1)
    /\ pending \in Results
    /\ out \in Results
    /\ lastEval \in [Preds -> [at : Int, pass : BOOLEAN]]

TypeOK == CacheTypes /\ ScrapeTypes

NewCollector == /\ lastScrape = Never /\ result = Nothing
                /\ err = "nil" /\ cacheHit = FALSE /\ predicateSkip = 0
                /\ predicateCache = [i \in Preds |-> NoEntry]

Init ==
    /\ now = 0
    /\ holds \in [Preds -> BOOLEAN]
    /\ serverBegin = 0 /\ begin = 0
    /\ pc = "idle"
    /\ NewCollector
    /\ pred = 1 /\ pending = Nothing /\ out = Nothing
    /\ lastEval = [i \in Preds |-> [at |-> Never, pass |-> FALSE]]

-----------------------------------------------------------------------------
(* Server.Collect stamps the scrape before its precheck and before the     *)
(* collectors that come earlier, so time may pass before this one's turn.  *)
serverCollect ==
    /\ pc = "idle"
    /\ serverBegin' = now
    /\ pc' = "collect"
    /\ UNCHANGED <<now, holds, begin, pred, pending, cache, out, lastEval>>

\* A cache window measured with the wrong bound.
cacheExpiredLate == serverBegin - lastScrape > TTL + 1

cacheExpired == serverBegin - lastScrape > TTL

\* A refresh that keeps the old snapshot until it has a new one.
executeKeepingResult ==
    /\ pc = "collect"
    /\ cacheExpired \/ DisableCache
    /\ begin' = now
    /\ err' = "nil" /\ predicateSkip' = 0
    /\ pending' = Nothing /\ pred' = 1
    /\ pc' = "predicate"
    /\ UNCHANGED <<now, holds, serverBegin, lastScrape, result, cacheHit, predicateCache,
                   out, lastEval>>

(* Collect, real execution: result, err and predicateSkip are dropped      *)
(* before anything is asked of the database.                               *)
execute ==
    /\ pc = "collect"
    /\ cacheExpired \/ DisableCache
    /\ begin' = now
    /\ result' = Nothing /\ err' = "nil" /\ predicateSkip' = 0
    /\ pending' = Nothing /\ pred' = 1
    /\ pc' = "predicate"
    /\ UNCHANGED <<now, holds, serverBegin, lastScrape, cacheHit, predicateCache, out, lastEval>>

(* Collect, cache hit: the last result is sent again.                      *)
serveFromCache ==
    /\ pc = "collect"
    /\ ~cacheExpired /\ ~DisableCache
    /\ begin' = now
    /\ cacheHit' = TRUE
    /\ out' = result
    /\ pc' = "idle"
    /\ UNCHANGED <<now, holds, serverBegin, pred, pending, lastScrape, result, err,
                   predicateSkip, predicateCache, lastEval>>

-----------------------------------------------------------------------------
(* executePredicateQueries.  The context of the whole execution may expire *)
(* at any query or row, so each of them may fail.                          *)

\* A predicate cache that never expires.
predicateCachedForever(i) == predicateCache[i].set

predicateCached(i) ==
    /\ PredTTL[i] > 0
    /\ predicateCache[i].set
    /\ begin - predicateCache[i].at < PredTTL[i]

atPredicate == pc = "predicate" /\ pred <= NPred

nextPredicate == pred' = pred + 1 /\ UNCHANGED <<pc, predicateSkip>>
skip          == pc' = "send" /\ predicateSkip' = pred /\ UNCHANGED pred

predicateFromCache ==
    /\ atPredicate
    /\ predicateCached(pred)
    /\ \/ predicateCache[pred].pass /\ nextPredicate
       \/ ~predicateCache[pred].pass /\ skip
    /\ UNCHANGED <<now, holds, serverBegin, begin, pending, lastScrape, result, err, cacheHit,
                   predicateCache, out, lastEval>>

(* A predicate query that fails, or returns something else than one        *)
(* boolean, skips the query with an error and is not remembered.           *)
predicateFails ==
    /\ atPredicate
    /\ ~predicateCached(pred)
    /\ skip
    /\ err' = "error"
    /\ UNCHANGED <<now, holds, serverBegin, begin, pending, lastScrape, result, cacheHit,
                   predicateCache, out, lastEval>>

(* One that answers is remembered, under the time this execution began, if *)
(* it has a TTL.                                                           *)
predicateAnswers ==
    /\ atPredicate
    /\ ~predicateCached(pred)
    /\ \/ holds[pred] /\ nextPredicate
       \/ ~holds[pred] /\ skip
    /\ lastEval' = [lastEval EXCEPT ![pred] = [at |-> now, pass |-> holds[pred]]]
    /\ \/ PredTTL[pred] = 0 /\ UNCHANGED predicateCache
       \/ PredTTL[pred] > 0 /\ predicateCache' =
             [predicateCache EXCEPT ![pred] = [set |-> TRUE, at |-> begin, pass |-> holds[pred]]]
    /\ UNCHANGED <<now, holds, serverBegin, begin, pending, lastScrape, result, err, cacheHit, out>>

allPredicatesPass ==
    /\ pc = "predicate" /\ pred = NPred + 1
    /\ predicateSkip' = 0
    /\ pc' = "query"
    /\ UNCHANGED <<now, holds, scrapeVars, lastScrape, result, err, cacheHit, predicateCache,
                   out, lastEval>>

-----------------------------------------------------------------------------
(* The main query.                                                         *)

mainQuery ==
    /\ pc = "query"
    /\ \E n \in 0..MaxRows : pending' = [rows |-> 0, of |-> n, at |-> now]
    /\ pc' = "rows"
    /\ UNCHANGED <<now, holds, serverBegin, begin, pred, cache, out, lastEval>>

readRow ==
    /\ pc = "rows"
    /\ pending.rows < pending.of
    /\ pending' = [pending EXCEPT !.rows = @ + 1]
    /\ UNCHANGED <<now, holds, pc, serverBegin, begin, pred, cache, out, lastEval>>

\* A failing execution that publishes the rows it has.
failPublishingPrefix ==
    /\ pc \in {"query", "rows"}
    /\ err' = "error" /\ result' = pending
    /\ pc' = "send"
    /\ UNCHANGED <<now, holds, scrapeVars, lastScrape, cacheHit, predicateSkip, predicateCache,
                   out, lastEval>>

(* The query is refused or times out, a label or histogram column is       *)
(* missing, a row does not scan, a value or an observation sum is invalid, *)
(* a metric cannot be built, or the connection breaks between two rows.    *)
fail ==
    /\ pc \in {"query", "rows"}
    /\ err' = "error"
    /\ pc' = "send"
    /\ UNCHANGED <<now, holds, scrapeVars, lastScrape, result, cacheHit, predicateSkip,
                   predicateCache, out, lastEval>>

publish ==
    /\ pc = "rows"
    /\ pending.rows = pending.of
    /\ result' = pending /\ err' = "nil"
    /\ pc' = "send"
    /\ UNCHANGED <<now, holds, scrapeVars, lastScrape, cacheHit, predicateSkip, predicateCache,
                   out, lastEval>>

\* A collector that keeps its old cache window when an execution failed.
sendMetricsRetryingErrors ==
    /\ pc = "send"
    /\ cacheHit' = FALSE
    /\ lastScrape' = IF err = "error" THEN lastScrape ELSE serverBegin
    /\ out' = result
    /\ pc' = "idle"
    /\ UNCHANGED <<now, holds, scrapeVars, result, err, predicateSkip, predicateCache, lastEval>>

(* Collect, after execute: the window restarts at the server's scrape      *)
(* time, whether the execution succeeded, failed or was skipped.           *)
sendMetrics ==
    /\ pc = "send"
    /\ cacheHit' = FALSE
    /\ lastScrape' = serverBegin
    /\ out' = result
    /\ pc' = "idle"
    /\ UNCHANGED <<now, holds, scrapeVars, result, err, predicateSkip, predicateCache, lastEval>>

-----------------------------------------------------------------------------
(* A plan replaces the collector by a new one, between two scrapes.        *)
replan ==
    /\ pc = "idle"
    /\ lastScrape' = Never /\ result' = Nothing
    /\ err' = "nil" /\ cacheHit' = FALSE /\ predicateSkip' = 0
    /\ predicateCache' = [i \in Preds |-> NoEntry]
    /\ UNCHANGED <<now, holds, pc, scrapeVars, out, lastEval>>

tick == /\ now < MaxTime
        /\ now' = now + 1
        /\ UNCHANGED <<holds, pc, scrapeVars, cache, out, lastEval>>

dbChange == \E i \in Preds :
                /\ holds' = [holds EXCEPT ![i] = ~holds[i]]
                /\ UNCHANGED <<now, pc, scrapeVars, cache, out, lastEval>>

Next == \/ serverCollect \/ execute \/ serveFromCache
        \/ predicateFromCache \/ predicateFails \/ predicateAnswers \/ allPredicatesPass
        \/ mainQuery \/ readRow \/ fail \/ publish \/ sendMetrics
        \/ replan \/ tick \/ dbChange

Spec == Init /\ [][Next]_vars

-----------------------------------------------------------------------------
(* "A failed refresh must never publish a prefix of the new result"        *)
(* (collector.go:238): what is sent is complete or nothing.                *)
Complete == pc = "idle" => out.rows = out.of

(* "... or retain an old snapshot" (collector.go:238): from a failed or    *)
(* skipped execution to the next one, cache hits included, nothing is sent.*)
EmptyAfterFailure == pc = "idle" /\ (err = "error" \/ predicateSkip # 0) => out = Nothing

(* The data a Collect sends was queried at most TTL before the scrape that *)
(* asked for it began (cacheExpired, collector.go:549).                    *)
BoundedStaleness ==
    pc = "idle" /\ out # Nothing => out.at >= serverBegin - TTL

(* The main query runs only if the last answer of every predicate query    *)
(* was true, and no older than that predicate's TTL (collector.go:134-234).*)
PredicateGate ==
    pc \in {"query", "rows"} =>
        \A i \in Preds : lastEval[i].pass /\ lastEval[i].at >= begin - PredTTL[i]

(* A collector does not go to the database twice within one TTL window,    *)
(* not even when the first execution failed or was skipped; only a new     *)
(* plan or --disable-cache asks again (collector.go:89-104).               *)
OncePerWindow ==
    [][pc = "send" /\ pc' = "idle" =>
         lastScrape = Never \/ DisableCache \/ lastScrape' - lastScrape > TTL]_vars

(* For a scraper the collector is a ResultCache: predicate queries, rows   *)
(* and errors do not show (collector.go:89-104, 237-256).                  *)
Phase == CASE pc = "idle"    -> "idle"
           [] pc = "collect" -> "asked"
           [] OTHER          -> "refreshing"

Cache == INSTANCE ResultCache WITH Forced <- DisableCache, phase <- Phase, asked <- serverBegin,
                                   window <- lastScrape, held <- result, sent <- out

ImplementsResultCache == Cache!Spec

-----------------------------------------------------------------------------
(* The inductive invariant behind these properties.                        *)

Executing == pc \in {"predicate", "query", "rows", "send"}

Clock == /\ serverBegin <= now /\ begin <= now /\ lastScrape <= now
         /\ Executing => serverBegin <= begin

\* Only an expired window, or --disable-cache, leads to an execution.
Window == Executing => DisableCache \/ serverBegin - lastScrape > TTL

\* Nothing is published during an execution, and what is published is whole
\* and was queried after the scrape that asked for it began.
Published ==
    /\ pc \in {"predicate", "query", "rows"} => result = Nothing
    /\ result # Nothing =>
          /\ result.rows = result.of
          /\ result.at >= IF pc = "send" THEN serverBegin ELSE lastScrape
    /\ pc = "rows" => pending.at \in serverBegin..now

\* A failed or skipped execution has no result.
Failed == /\ pc \in {"predicate", "query", "rows"} => err = "nil"
          /\ pc \in {"query", "rows"} => predicateSkip = 0
          /\ err = "error" \/ predicateSkip # 0 => result = Nothing

\* A cached answer is the last answer, and is dated no later than it.
CacheIsLast ==
    \A i \in Preds : predicateCache[i].set =>
        /\ PredTTL[i] > 0
        /\ predicateCache[i].pass <=> lastEval[i].pass
        /\ predicateCache[i].at <= lastEval[i].at

\* The predicates passed so far.
Passed ==
    pc = "predicate" =>
        \A i \in Preds : i < pred => lastEval[i].pass /\ lastEval[i].at >= begin - PredTTL[i]

CollectorInv == /\ TypeOK /\ Clock /\ Window /\ Published /\ Failed /\ CacheIsLast /\ Passed
                /\ PredicateGate /\ Complete /\ EmptyAfterFailure /\ BoundedStaleness
=============================================================================
