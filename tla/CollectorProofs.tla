---------------------------- MODULE CollectorProofs ----------------------------
(***************************************************************************)
(* Proofs about the collector for every TTL, every number of predicates    *)
(* with any windows, and any number of rows.                               *)
(***************************************************************************)
EXTENDS Statistics, TLAPS

LEMMA Constants == /\ Nothing \in Results
                   /\ Nothing.rows = Nothing.of
                   /\ Never \in Int /\ Never < 0
                   /\ TTL \in Nat /\ NPred \in Nat /\ MaxRows \in Nat
                   /\ PredTTL \in [Preds -> Nat]
                   /\ NoEntry \in [set : BOOLEAN, at : Int, pass : BOOLEAN]
                   /\ ~NoEntry.set
BY CollectorAssumption DEF Nothing, Results, Never, NoEntry, Preds

(* The state stays well typed.                                             *)
LEMMA TypeStep == TypeOK /\ [Next]_vars => TypeOK'
<1> SUFFICES ASSUME TypeOK, [Next]_vars PROVE TypeOK'
  OBVIOUS
<1> USE Constants DEF TypeOK, CacheTypes, ScrapeTypes, vars, scrapeVars, cache
<1>1. CASE serverCollect
  BY <1>1 DEF serverCollect
<1>2. CASE execute
  <2>1. CacheTypes'
    BY <1>2 DEF execute
  <2>2. ScrapeTypes'
    BY <1>2 DEF execute
  <2> QED
    BY <2>1, <2>2
<1>3. CASE serveFromCache
  BY <1>3 DEF serveFromCache
<1>4. CASE predicateFromCache
  BY <1>4 DEF predicateFromCache, atPredicate, nextPredicate, skip
<1>5. CASE predicateFails
  BY <1>5 DEF predicateFails, atPredicate, skip
<1>6. CASE predicateAnswers
  <2> DEFINE entry  == [set |-> TRUE, at |-> begin, pass |-> holds[pred]]
             answer == [at |-> now, pass |-> holds[pred]]
  <2>1. pred \in Preds /\ predicateSkip' \in 0..NPred /\ pred' \in 1..(NPred + 1)
    <3>1. pred \in Preds
      BY <1>6 DEF predicateAnswers, atPredicate, Preds
    <3>2. \/ pred' = pred + 1 /\ predicateSkip' = predicateSkip
          \/ pred' = pred /\ predicateSkip' = pred
      BY <1>6 DEF predicateAnswers, nextPredicate, skip
    <3>3. predicateSkip \in 0..NPred /\ NPred \in Nat
      OBVIOUS
    <3> HIDE DEF TypeOK, CacheTypes, ScrapeTypes
    <3> QED
      BY <3>1, <3>2, <3>3 DEF Preds
  <2>2. entry \in [set : BOOLEAN, at : Int, pass : BOOLEAN] /\ answer \in [at : Int, pass : BOOLEAN]
    BY <2>1
  <2>3. /\ predicateCache' = predicateCache \/ predicateCache' = [predicateCache EXCEPT ![pred] = entry]
        /\ lastEval' = [lastEval EXCEPT ![pred] = answer]
        /\ pc' \in {"predicate", "send"}
        /\ UNCHANGED <<lastScrape, result, err, cacheHit>>
        /\ UNCHANGED <<now, serverBegin, begin, holds, pending, out>>
    BY <1>6 DEF predicateAnswers, atPredicate, nextPredicate, skip
  <2> HIDE DEF entry, answer
  <2>4. CacheTypes'
    BY <2>1, <2>2, <2>3
  <2>5. ScrapeTypes'
    BY <2>1, <2>2, <2>3
  <2> QED
    BY <2>4, <2>5
<1>7. CASE allPredicatesPass
  BY <1>7 DEF allPredicatesPass
<1>8. CASE mainQuery
  <2>1. CacheTypes'
    BY <1>8 DEF mainQuery, Results
  <2>2. ScrapeTypes'
    BY <1>8 DEF mainQuery, Results
  <2> QED
    BY <2>1, <2>2
<1>9. CASE readRow
  <2>1. CacheTypes'
    BY <1>9 DEF readRow, Results
  <2>2. ScrapeTypes'
    BY <1>9 DEF readRow, Results
  <2> QED
    BY <2>1, <2>2
<1>10. CASE fail
  BY <1>10 DEF fail
<1>11. CASE publish
  BY <1>11 DEF publish
<1>12. CASE sendMetrics
  <2>1. cacheHit' \in BOOLEAN
    BY <1>12 DEF sendMetrics
  <2>2. CacheTypes'
    <3>1. lastScrape' \in Int /\ UNCHANGED <<result, err, predicateSkip, predicateCache>>
      BY <1>12 DEF sendMetrics
    <3> QED
      BY <2>1, <3>1
  <2>3. ScrapeTypes'
    BY <1>12 DEF sendMetrics
  <2> QED
    BY <2>2, <2>3
<1>13. CASE replan
  <2>1. cacheHit' \in BOOLEAN
    BY <1>13 DEF replan
  <2>2. CacheTypes'
    <3>1. /\ lastScrape' \in Int /\ result' = Nothing
          /\ err' \in {"nil", "error"} /\ predicateSkip' \in 0..NPred
          /\ predicateCache' \in [Preds -> [set : BOOLEAN, at : Int, pass : BOOLEAN]]
      BY <1>13 DEF replan
    <3> QED
      BY <2>1, <3>1
  <2>3. ScrapeTypes'
    BY <1>13 DEF replan
  <2> QED
    BY <2>2, <2>3
<1>14. CASE tick
  BY <1>14 DEF tick
<1>15. CASE dbChange
  BY <1>15 DEF dbChange
<1>16. CASE UNCHANGED vars
  BY <1>16
<1> QED
  BY <1>1, <1>2, <1>3, <1>4, <1>5, <1>6, <1>7, <1>8, <1>9, <1>10, <1>11, <1>12, <1>13, <1>14,
     <1>15, <1>16 DEF Next

(* Scrape times are past, and executions begin outside the cache window.   *)
LEMMA ClockStep == CollectorInv /\ [Next]_vars => Clock' /\ Window'
<1> SUFFICES ASSUME CollectorInv, [Next]_vars PROVE Clock' /\ Window'
  OBVIOUS
<1> USE Constants DEF CollectorInv, TypeOK, CacheTypes, ScrapeTypes, Executing, vars, scrapeVars, cache, Clock, Window
<1>1. CASE serverCollect
  BY <1>1 DEF serverCollect
<1>2. CASE execute
  BY <1>2 DEF execute, cacheExpired
<1>3. CASE serveFromCache
  BY <1>3 DEF serveFromCache, cacheExpired
<1>4. CASE predicateFromCache
  BY <1>4 DEF predicateFromCache, predicateCached, atPredicate, nextPredicate, skip
<1>5. CASE predicateFails
  BY <1>5 DEF predicateFails, atPredicate, skip
<1>6. CASE predicateAnswers
  BY <1>6 DEF predicateAnswers, atPredicate, nextPredicate, skip
<1>7. CASE allPredicatesPass
  BY <1>7 DEF allPredicatesPass
<1>8. CASE mainQuery
  BY <1>8 DEF mainQuery
<1>9. CASE readRow
  BY <1>9 DEF readRow
<1>10. CASE fail
  BY <1>10 DEF fail
<1>11. CASE publish
  BY <1>11 DEF publish
<1>12. CASE sendMetrics
  BY <1>12 DEF sendMetrics
<1>13. CASE replan
  BY <1>13 DEF replan
<1>14. CASE tick
  BY <1>14 DEF tick
<1>15. CASE dbChange
  BY <1>15 DEF dbChange
<1>16. CASE UNCHANGED vars
  BY <1>16
<1> QED
  BY <1>1, <1>2, <1>3, <1>4, <1>5, <1>6, <1>7, <1>8, <1>9, <1>10, <1>11, <1>12, <1>13, <1>14, <1>15, <1>16 DEF Next

(* What is published is whole, and was queried after its scrape began.     *)
LEMMA PublishedStep == CollectorInv /\ [Next]_vars => Published' /\ Complete'
<1> SUFFICES ASSUME CollectorInv, [Next]_vars PROVE Published' /\ Complete'
  OBVIOUS
<1> USE Constants DEF CollectorInv, TypeOK, CacheTypes, ScrapeTypes, Executing, vars, scrapeVars, cache, Clock, Published, Complete, Results, Nothing
<1>1. CASE serverCollect
  BY <1>1 DEF serverCollect
<1>2. CASE execute
  BY <1>2 DEF execute, cacheExpired
<1>3. CASE serveFromCache
  BY <1>3 DEF serveFromCache, cacheExpired
<1>4. CASE predicateFromCache
  BY <1>4 DEF predicateFromCache, predicateCached, atPredicate, nextPredicate, skip
<1>5. CASE predicateFails
  BY <1>5 DEF predicateFails, atPredicate, skip
<1>6. CASE predicateAnswers
  BY <1>6 DEF predicateAnswers, atPredicate, nextPredicate, skip
<1>7. CASE allPredicatesPass
  BY <1>7 DEF allPredicatesPass
<1>8. CASE mainQuery
  BY <1>8 DEF mainQuery
<1>9. CASE readRow
  BY <1>9 DEF readRow
<1>10. CASE fail
  BY <1>10 DEF fail
<1>11. CASE publish
  BY <1>11 DEF publish
<1>12. CASE sendMetrics
  BY <1>12 DEF sendMetrics
<1>13. CASE replan
  BY <1>13 DEF replan
<1>14. CASE tick
  BY <1>14 DEF tick
<1>15. CASE dbChange
  BY <1>15 DEF dbChange
<1>16. CASE UNCHANGED vars
  BY <1>16
<1> QED
  BY <1>1, <1>2, <1>3, <1>4, <1>5, <1>6, <1>7, <1>8, <1>9, <1>10, <1>11, <1>12, <1>13, <1>14, <1>15, <1>16 DEF Next

(* A failed or skipped execution publishes, and sends, nothing.            *)
LEMMA FailedStep == CollectorInv /\ [Next]_vars => Failed' /\ EmptyAfterFailure'
<1> SUFFICES ASSUME CollectorInv, [Next]_vars PROVE Failed' /\ EmptyAfterFailure'
  OBVIOUS
<1> USE Constants DEF CollectorInv, TypeOK, CacheTypes, ScrapeTypes, Executing, vars, scrapeVars, cache, Failed, EmptyAfterFailure, Published
<1>1. CASE serverCollect
  BY <1>1 DEF serverCollect
<1>2. CASE execute
  BY <1>2 DEF execute, cacheExpired
<1>3. CASE serveFromCache
  BY <1>3 DEF serveFromCache, cacheExpired
<1>4. CASE predicateFromCache
  BY <1>4 DEF predicateFromCache, predicateCached, atPredicate, nextPredicate, skip
<1>5. CASE predicateFails
  BY <1>5 DEF predicateFails, atPredicate, skip
<1>6. CASE predicateAnswers
  BY <1>6 DEF predicateAnswers, atPredicate, nextPredicate, skip
<1>7. CASE allPredicatesPass
  BY <1>7 DEF allPredicatesPass
<1>8. CASE mainQuery
  BY <1>8 DEF mainQuery
<1>9. CASE readRow
  BY <1>9 DEF readRow
<1>10. CASE fail
  BY <1>10 DEF fail
<1>11. CASE publish
  BY <1>11 DEF publish
<1>12. CASE sendMetrics
  BY <1>12 DEF sendMetrics
<1>13. CASE replan
  BY <1>13 DEF replan
<1>14. CASE tick
  BY <1>14 DEF tick
<1>15. CASE dbChange
  BY <1>15 DEF dbChange
<1>16. CASE UNCHANGED vars
  BY <1>16
<1> QED
  BY <1>1, <1>2, <1>3, <1>4, <1>5, <1>6, <1>7, <1>8, <1>9, <1>10, <1>11, <1>12, <1>13, <1>14, <1>15, <1>16 DEF Next

(* What is sent is not older than the cache window.                        *)
LEMMA StaleStep == CollectorInv /\ [Next]_vars => BoundedStaleness'
<1> SUFFICES ASSUME CollectorInv, [Next]_vars PROVE BoundedStaleness'
  OBVIOUS
<1> USE Constants DEF CollectorInv, TypeOK, CacheTypes, ScrapeTypes, Executing, vars, scrapeVars, cache, Clock, Published, BoundedStaleness, Results
<1>1. CASE serverCollect
  BY <1>1 DEF serverCollect
<1>2. CASE execute
  BY <1>2 DEF execute, cacheExpired
<1>3. CASE serveFromCache
  BY <1>3 DEF serveFromCache, cacheExpired
<1>4. CASE predicateFromCache
  BY <1>4 DEF predicateFromCache, predicateCached, atPredicate, nextPredicate, skip
<1>5. CASE predicateFails
  BY <1>5 DEF predicateFails, atPredicate, skip
<1>6. CASE predicateAnswers
  BY <1>6 DEF predicateAnswers, atPredicate, nextPredicate, skip
<1>7. CASE allPredicatesPass
  BY <1>7 DEF allPredicatesPass
<1>8. CASE mainQuery
  BY <1>8 DEF mainQuery
<1>9. CASE readRow
  BY <1>9 DEF readRow
<1>10. CASE fail
  BY <1>10 DEF fail
<1>11. CASE publish
  BY <1>11 DEF publish
<1>12. CASE sendMetrics
  BY <1>12 DEF sendMetrics
<1>13. CASE replan
  BY <1>13 DEF replan
<1>14. CASE tick
  BY <1>14 DEF tick
<1>15. CASE dbChange
  BY <1>15 DEF dbChange
<1>16. CASE UNCHANGED vars
  BY <1>16
<1> QED
  BY <1>1, <1>2, <1>3, <1>4, <1>5, <1>6, <1>7, <1>8, <1>9, <1>10, <1>11, <1>12, <1>13, <1>14, <1>15, <1>16 DEF Next

(* A cached predicate answer is the last answer the database gave.         *)
LEMMA CacheStep == CollectorInv /\ [Next]_vars => CacheIsLast'
<1> SUFFICES ASSUME CollectorInv, [Next]_vars PROVE CacheIsLast'
  OBVIOUS
<1> USE Constants DEF CollectorInv, TypeOK, CacheTypes, ScrapeTypes, Executing, vars, scrapeVars, cache, Clock, CacheIsLast, Preds
<1>1. CASE serverCollect
  BY <1>1 DEF serverCollect
<1>2. CASE execute
  BY <1>2 DEF execute, cacheExpired
<1>3. CASE serveFromCache
  BY <1>3 DEF serveFromCache, cacheExpired
<1>4. CASE predicateFromCache
  BY <1>4 DEF predicateFromCache, predicateCached, atPredicate, nextPredicate, skip
<1>5. CASE predicateFails
  BY <1>5 DEF predicateFails, atPredicate, skip
<1>6. CASE predicateAnswers
  <2>1. /\ pred \in Preds /\ begin' = begin /\ begin <= now
        /\ lastEval' = [lastEval EXCEPT ![pred] = [at |-> now, pass |-> holds[pred]]]
        /\ \/ PredTTL[pred] = 0 /\ predicateCache' = predicateCache
           \/ PredTTL[pred] > 0 /\ predicateCache' =
                [predicateCache EXCEPT ![pred] = [set |-> TRUE, at |-> begin, pass |-> holds[pred]]]
    BY <1>6 DEF predicateAnswers, atPredicate
  <2>2. ASSUME NEW i \in Preds, i # pred
        PROVE  predicateCache'[i] = predicateCache[i] /\ lastEval'[i] = lastEval[i]
    BY <2>1, <2>2
  <2>3. PredTTL[pred] = 0 => ~predicateCache[pred].set
    BY <2>1
  <2>4. lastEval'[pred].at = now /\ (lastEval'[pred].pass <=> holds[pred])
    BY <2>1
  <2>5. CASE PredTTL[pred] = 0
    <3>1. predicateCache' = predicateCache /\ CacheIsLast
      BY <2>1, <2>5
    <3>2. ~predicateCache[pred].set
      BY <2>3, <2>5
    <3> HIDE DEF CollectorInv, TypeOK, CacheTypes, ScrapeTypes, Clock
    <3> QED
      BY <2>2, <3>1, <3>2
  <2>6. CASE PredTTL[pred] > 0
    <3>1. /\ predicateCache'[pred].at = begin
          /\ predicateCache'[pred].pass <=> holds[pred]
      <4>1. pred \in DOMAIN predicateCache
        BY <2>1
      <4> HIDE DEF CollectorInv, TypeOK, CacheTypes, ScrapeTypes, Clock, CacheIsLast
      <4> QED
        BY <2>1, <2>6, <4>1
    <3> QED
      BY <2>1, <2>2, <2>4, <2>6, <3>1
  <2> QED
    BY <2>1, <2>5, <2>6
<1>7. CASE allPredicatesPass
  BY <1>7 DEF allPredicatesPass
<1>8. CASE mainQuery
  BY <1>8 DEF mainQuery
<1>9. CASE readRow
  BY <1>9 DEF readRow
<1>10. CASE fail
  BY <1>10 DEF fail
<1>11. CASE publish
  BY <1>11 DEF publish
<1>12. CASE sendMetrics
  BY <1>12 DEF sendMetrics
<1>13. CASE replan
  BY <1>13 DEF replan
<1>14. CASE tick
  BY <1>14 DEF tick
<1>15. CASE dbChange
  BY <1>15 DEF dbChange
<1>16. CASE UNCHANGED vars
  BY <1>16
<1> QED
  BY <1>1, <1>2, <1>3, <1>4, <1>5, <1>6, <1>7, <1>8, <1>9, <1>10, <1>11, <1>12, <1>13, <1>14, <1>15, <1>16 DEF Next

(* The main query is reached only past predicates that hold.               *)
LEMMA GateStep == CollectorInv /\ [Next]_vars => Passed' /\ PredicateGate'
<1> SUFFICES ASSUME CollectorInv, [Next]_vars PROVE Passed' /\ PredicateGate'
  OBVIOUS
<1> USE Constants DEF CollectorInv, TypeOK, CacheTypes, ScrapeTypes, Executing, vars, scrapeVars, cache, Clock, CacheIsLast, Passed, PredicateGate, Preds
<1>1. CASE serverCollect
  BY <1>1 DEF serverCollect
<1>2. CASE execute
  BY <1>2 DEF execute, cacheExpired
<1>3. CASE serveFromCache
  BY <1>3 DEF serveFromCache, cacheExpired
<1>4. CASE predicateFromCache
  <2>1. /\ pc = "predicate" /\ pred \in Preds /\ UNCHANGED <<lastEval, begin>>
        /\ predicateCache[pred].set /\ begin - predicateCache[pred].at < PredTTL[pred]
        /\ \/ predicateCache[pred].pass /\ pred' = pred + 1 /\ pc' = "predicate"
           \/ pc' = "send"
    BY <1>4 DEF predicateFromCache, predicateCached, atPredicate, nextPredicate, skip
  <2>2. /\ lastEval[pred].pass <=> predicateCache[pred].pass
        /\ lastEval[pred].at >= begin - PredTTL[pred]
    <3>1. /\ lastEval[pred].pass <=> predicateCache[pred].pass
          /\ predicateCache[pred].at <= lastEval[pred].at
      BY <2>1
    <3>2. begin \in Int /\ PredTTL[pred] \in Int /\ predicateCache[pred].at \in Int
          /\ lastEval[pred].at \in Int
      BY <2>1
    <3> HIDE DEF CollectorInv, TypeOK, CacheTypes, ScrapeTypes, Clock, CacheIsLast
    <3> QED
      BY <2>1, <3>1, <3>2
  <2>3. \A i \in Preds : i < pred + 1 => i < pred \/ i = pred
    BY <2>1
  <2>4. CASE predicateCache[pred].pass /\ pred' = pred + 1 /\ pc' = "predicate"
    BY <2>1, <2>2, <2>3, <2>4
  <2>5. CASE pc' = "send"
    BY <2>5
  <2> QED
    BY <2>1, <2>4, <2>5
<1>5. CASE predicateFails
  BY <1>5 DEF predicateFails, atPredicate, skip
<1>6. CASE predicateAnswers
  <2>1. /\ pc = "predicate" /\ pred \in Preds /\ begin' = begin /\ begin <= now
        /\ lastEval' = [lastEval EXCEPT ![pred] = [at |-> now, pass |-> holds[pred]]]
        /\ \/ holds[pred] /\ pred' = pred + 1 /\ pc' = "predicate"
           \/ pc' = "send"
    BY <1>6 DEF predicateAnswers, atPredicate, nextPredicate, skip
  <2>2. ASSUME NEW i \in Preds, i # pred PROVE lastEval'[i] = lastEval[i]
    BY <2>1, <2>2
  <2>3. /\ lastEval'[pred].pass <=> holds[pred]
        /\ lastEval'[pred].at = now /\ now >= begin - PredTTL[pred]
    BY <2>1
  <2>4. \A i \in Preds : i < pred + 1 => i < pred \/ i = pred
    BY <2>1
  <2>5. CASE holds[pred] /\ pred' = pred + 1 /\ pc' = "predicate"
    BY <2>1, <2>2, <2>3, <2>4, <2>5
  <2>6. CASE pc' = "send"
    BY <2>6
  <2> QED
    BY <2>1, <2>5, <2>6
<1>7. CASE allPredicatesPass
  BY <1>7 DEF allPredicatesPass
<1>8. CASE mainQuery
  BY <1>8 DEF mainQuery
<1>9. CASE readRow
  BY <1>9 DEF readRow
<1>10. CASE fail
  BY <1>10 DEF fail
<1>11. CASE publish
  BY <1>11 DEF publish
<1>12. CASE sendMetrics
  BY <1>12 DEF sendMetrics
<1>13. CASE replan
  BY <1>13 DEF replan
<1>14. CASE tick
  BY <1>14 DEF tick
<1>15. CASE dbChange
  BY <1>15 DEF dbChange
<1>16. CASE UNCHANGED vars
  BY <1>16
<1> QED
  BY <1>1, <1>2, <1>3, <1>4, <1>5, <1>6, <1>7, <1>8, <1>9, <1>10, <1>11, <1>12, <1>13, <1>14, <1>15, <1>16 DEF Next

-----------------------------------------------------------------------------
LEMMA CollectorInit == Init => CollectorInv
<1> SUFFICES ASSUME Init PROVE CollectorInv
  OBVIOUS
<1> USE Constants DEF Init, NewCollector
<1>1. TypeOK
  <2>1. cacheHit \in BOOLEAN
    OBVIOUS
  <2>2. /\ lastScrape \in Int /\ result \in Results /\ err \in {"nil", "error"}
        /\ predicateSkip \in 0..NPred
        /\ predicateCache \in [Preds -> [set : BOOLEAN, at : Int, pass : BOOLEAN]]
    OBVIOUS
  <2>3. CacheTypes
    BY <2>1, <2>2 DEF CacheTypes
  <2>4. \A i \in Preds : [at |-> Never, pass |-> FALSE] \in [at : Int, pass : BOOLEAN]
    OBVIOUS
  <2>5. ScrapeTypes
    BY <2>4 DEF ScrapeTypes
  <2> QED
    BY <2>3, <2>5 DEF TypeOK
<1>2. Clock /\ Window /\ Published /\ Failed /\ CacheIsLast /\ Passed /\ PredicateGate
  BY DEF Clock, Window, Published, Failed, CacheIsLast, Passed, PredicateGate, Executing
<1>3. Complete /\ EmptyAfterFailure /\ BoundedStaleness
  BY DEF Complete, EmptyAfterFailure, BoundedStaleness
<1> QED
  BY <1>1, <1>2, <1>3 DEF CollectorInv

LEMMA CollectorStep == CollectorInv /\ [Next]_vars => CollectorInv'
BY TypeStep, ClockStep, PublishedStep, FailedStep, StaleStep, CacheStep, GateStep DEF CollectorInv

(* The inductive invariant, for every window, number of predicates and of  *)
(* rows.                                                                   *)
THEOREM CollectorInvariant == Spec => []CollectorInv
BY CollectorInit, CollectorStep, PTL DEF Spec

(* What a Collect sends is one complete result or nothing                  *)
(* (collector.go:237-238).                                                 *)
THEOREM AtomicPublication == Spec => []Complete
<1>1. CollectorInv => Complete
  BY DEF CollectorInv
<1> QED
  BY <1>1, CollectorInvariant, PTL

(* From a failed or skipped execution to the next one nothing is sent      *)
(* (collector.go:238-243).                                                 *)
THEOREM NothingAfterFailure == Spec => []EmptyAfterFailure
<1>1. CollectorInv => EmptyAfterFailure
  BY DEF CollectorInv
<1> QED
  BY <1>1, CollectorInvariant, PTL

(* What a Collect sends was queried at most TTL before its scrape began    *)
(* (collector.go:549).                                                     *)
THEOREM Staleness == Spec => []BoundedStaleness
<1>1. CollectorInv => BoundedStaleness
  BY DEF CollectorInv
<1> QED
  BY <1>1, CollectorInvariant, PTL

(* The main query never runs past a predicate that does not hold, or whose *)
(* last answer is older than its window (collector.go:134-234).            *)
THEOREM Gate == Spec => []PredicateGate
<1>1. CollectorInv => PredicateGate
  BY DEF CollectorInv
<1> QED
  BY <1>1, CollectorInvariant, PTL

(* Two executions of a collector are more than a window apart              *)
(* (collector.go:89-104).                                                  *)
THEOREM Windowed == Spec => OncePerWindow
<1> DEFINE A == pc = "send" /\ pc' = "idle" =>
                   lastScrape = Never \/ DisableCache \/ lastScrape' - lastScrape > TTL
<1>1. CollectorInv /\ [Next]_vars => [A]_vars
  <2> SUFFICES ASSUME CollectorInv, Next, pc = "send", pc' = "idle" PROVE A
    OBVIOUS
  <2>1. lastScrape' = serverBegin
    BY DEF Next, serverCollect, execute, serveFromCache, predicateFromCache, predicateFails,
       predicateAnswers, atPredicate, allPredicatesPass, mainQuery, readRow, fail, publish,
       sendMetrics, replan, tick, dbChange
  <2> QED
    BY <2>1 DEF CollectorInv, Window, Executing
<1> QED
  BY <1>1, CollectorInvariant, PTL DEF Spec, OncePerWindow

-----------------------------------------------------------------------------
(* The collector implements the abstract cache.                            *)

LEMMA SameNothing == Cache!Nothing = Nothing /\ Cache!Never = Never
BY DEF Cache!Nothing, Cache!Never, Nothing, Never

LEMMA CacheInit == Init => Cache!Init
BY SameNothing DEF Init, NewCollector, Cache!Init, Phase

(* The steps a scraper sees.                                               *)
LEMMA ScrapeRefines ==
    CollectorInv /\ (serverCollect \/ execute \/ serveFromCache \/ publish \/ sendMetrics)
        => Cache!Next
<1> SUFFICES ASSUME CollectorInv PROVE (serverCollect \/ execute \/ serveFromCache
                                           \/ publish \/ sendMetrics) => Cache!Next
  OBVIOUS
<1> USE Constants, SameNothing DEF Phase
<1>1. TypeOK
  BY DEF CollectorInv
<1>2. ASSUME serverCollect PROVE Cache!Ask
  BY <1>2 DEF serverCollect, cache, Cache!Ask
<1>3. ASSUME execute PROVE Cache!Drop
  BY <1>1, <1>3 DEF execute, cacheExpired, Cache!Drop, Cache!Open,
                    TypeOK, CacheTypes, ScrapeTypes
<1>4. ASSUME serveFromCache PROVE Cache!Resend
  BY <1>1, <1>4 DEF serveFromCache, cacheExpired, Cache!Resend, Cache!Open,
                    TypeOK, CacheTypes, ScrapeTypes
<1>5. ASSUME publish PROVE Cache!Obtain
  <2>1. pc = "rows" /\ result = Nothing /\ pending.at \in serverBegin..now
    BY <1>5 DEF publish, CollectorInv, Published
  <2>2. pending \in Results /\ pending.rows = pending.of
    BY <1>1, <1>5 DEF publish, TypeOK, ScrapeTypes
  <2>3. pending.of \in 0..MaxRows /\ pending = Cache!Whole(pending.of, pending.at)
    BY <2>2 DEF Results, Cache!Whole
  <2> QED
    BY <1>5, <2>1, <2>3 DEF publish, scrapeVars, Cache!Obtain
<1>6. ASSUME sendMetrics PROVE Cache!Deliver
  BY <1>6 DEF sendMetrics, scrapeVars, Cache!Deliver
<1> QED
  BY <1>2, <1>3, <1>4, <1>5, <1>6 DEF Cache!Next

(* The others are of the environment, or do not show.                      *)
LEMMA QuietRefines ==
    ASSUME CollectorInv, [Next]_vars,
           ~(serverCollect \/ execute \/ serveFromCache \/ publish \/ sendMetrics)
    PROVE  [Cache!Next]_Cache!vars
<1> USE DEF Cache!vars, Phase
<1>1. ASSUME predicateFromCache \/ predicateFails \/ predicateAnswers \/ allPredicatesPass
      PROVE UNCHANGED Cache!vars
  <2>1. pc = "predicate" /\ pc' \in {"predicate", "query", "send"}
    BY <1>1 DEF predicateFromCache, predicateFails, predicateAnswers, allPredicatesPass,
                atPredicate, nextPredicate, skip
  <2>2. UNCHANGED <<now, serverBegin, lastScrape, result, out>>
    BY <1>1 DEF predicateFromCache, predicateFails, predicateAnswers, allPredicatesPass, scrapeVars
  <2> QED
    BY <2>1, <2>2
<1>2. ASSUME mainQuery \/ readRow \/ fail PROVE UNCHANGED Cache!vars
  <2>1. pc \in {"query", "rows"} /\ pc' \in {"rows", "send"}
    BY <1>2 DEF mainQuery, readRow, fail
  <2>2. UNCHANGED <<now, serverBegin, lastScrape, result, out>>
    BY <1>2 DEF mainQuery, readRow, fail, cache, scrapeVars
  <2> QED
    BY <2>1, <2>2
<1>3. ASSUME replan PROVE Cache!Forget
  BY <1>3, SameNothing DEF replan, scrapeVars, Cache!Forget
<1>4. ASSUME tick PROVE Cache!Tick
  BY <1>4 DEF tick, scrapeVars, cache, Cache!Tick
<1>5. ASSUME dbChange \/ UNCHANGED vars PROVE UNCHANGED Cache!vars
  BY <1>5 DEF dbChange, vars, scrapeVars, cache
<1> QED
  BY <1>1, <1>2, <1>3, <1>4, <1>5 DEF Next, Cache!Next

(* Scraped through its predicates, rows and failures, a collector behaves  *)
(* like a ResultCache, for every window and number of predicates and rows. *)
THEOREM Implements == Spec => ImplementsResultCache
<1>1. CollectorInv /\ [Next]_vars => [Cache!Next]_Cache!vars
  BY ScrapeRefines, QuietRefines
<1> QED
  BY <1>1, CacheInit, CollectorInvariant, PTL DEF Spec, Cache!Spec, ImplementsResultCache

-----------------------------------------------------------------------------
(* The statistics.                                                         *)

LEMMA CollectsAreSteps == SNext => Next
BY DEF SNext, beginScrape, executeQuery, planned, uncounted, Next

(* A Collect that ends leaves the counters in balance.                     *)
LEMMA CountStep ==
    ASSUME StatisticsInv, executeQuery
    PROVE  CounterTypes' /\ Accounted' /\ LifetimeReported' /\ (lastScrape <= serverBegin)'
<1>1. TypeOK /\ TypeOK'
  BY TypeStep, CollectsAreSteps DEF StatisticsInv, CollectorInv, SNext
<1> USE Constants DEF TypeOK, CacheTypes, ScrapeTypes
<1>2. /\ queryScrapeTotalCount' = queryScrapeTotalCount + 1
      /\ countOutcome
      /\ executions' = executions + One(~cacheHit')
      /\ failures' = failures + One(~cacheHit' /\ err' = "error")
  BY DEF executeQuery
<1>3. CounterTypes'
  BY <1>2 DEF StatisticsInv, CounterTypes, countOutcome, One
<1>4. Accounted'
  <2> HIDE DEF TypeOK, CacheTypes, ScrapeTypes
  <2>1. CounterTypes /\ Accounted
    BY DEF StatisticsInv
  <2>2. One(~cacheHit') - One(~cacheHit' /\ err' = "error")
            = IF err' = "error" THEN 0 ELSE One(~cacheHit')
    BY DEF One
  <2>3. One(cacheHit') + One(~cacheHit') = 1 /\ One(predicateSkip' # 0) \in 0..1
    BY DEF One
  <2>4. CASE err' = "error"
    BY <1>2, <2>1, <2>4 DEF CounterTypes, Accounted, countOutcome, One
  <2>5. CASE err' # "error"
    BY <1>2, <2>1, <2>2, <2>3, <2>5 DEF CounterTypes, Accounted, countOutcome, One
  <2> QED
    BY <2>4, <2>5
<1>5. queryCacheTTL' = TTL - (serverBegin' - lastScrape') /\ serverBegin' = serverBegin
  BY DEF executeQuery, cacheTTLRead, cacheTTL, serveFromCache, sendMetrics, scrapeVars
<1>6. CASE serveFromCache
  <2>1. cacheHit' = TRUE /\ lastScrape' = lastScrape /\ serverBegin - lastScrape <= TTL
    BY <1>1, <1>6 DEF serveFromCache, cacheExpired
  <2>2. queryCacheTTL' \in 0..TTL
    BY <1>1, <1>5, <2>1 DEF StatisticsInv
  <2> QED
    BY <1>3, <1>4, <1>5, <2>1, <2>2 DEF StatisticsInv, LifetimeReported
<1>7. CASE sendMetrics
  <2>1. lastScrape' = serverBegin
    BY <1>7 DEF sendMetrics
  <2>2. queryCacheTTL' = TTL
    BY <1>1, <1>5, <2>1
  <2> QED
    BY <1>1, <1>3, <1>4, <1>5, <2>1, <2>2 DEF LifetimeReported
<1> QED
  BY <1>6, <1>7 DEF executeQuery

LEMMA StatisticsStep == StatisticsInv /\ [SNext]_svars => StatisticsInv'
<1> SUFFICES ASSUME StatisticsInv, [SNext]_svars PROVE StatisticsInv'
  OBVIOUS
<1>1. CollectorInv'
  BY CollectorStep, CollectsAreSteps DEF StatisticsInv, svars
<1>2. TypeOK /\ Clock
  BY DEF StatisticsInv, CollectorInv
<1> USE DEF StatisticsInv, CounterTypes, Accounted, LifetimeReported, stats, history
<1>3. CASE executeQuery
  BY <1>1, <1>3, CountStep
<1>4. CASE beginScrape
  <2>1. pc' = "collect" /\ serverBegin' = now /\ lastScrape' = lastScrape /\ lastScrape <= now
    BY <1>2, <1>4 DEF beginScrape, serverCollect, cache, Clock
  <2> QED
    BY <1>1, <1>4, <2>1 DEF beginScrape
<1>5. CASE planned
  <2>1. lastScrape' = Never /\ serverBegin' = serverBegin /\ serverBegin \in Nat
    BY <1>2, <1>5 DEF planned, replan, scrapeVars, TypeOK, ScrapeTypes
  <2> QED
    BY <1>1, <1>5, <2>1, Constants DEF planned, ResetStats
<1>6. CASE uncounted
  <2>1. UNCHANGED <<stats, history, serverBegin, lastScrape>>
    BY <1>6 DEF uncounted, execute, predicateFromCache, predicateFails, predicateAnswers,
       allPredicatesPass, mainQuery, readRow, fail, publish, tick, dbChange, cache, scrapeVars
  <2>2. pc' = "idle" => pc = "idle" /\ cacheHit' = cacheHit
    BY <1>6 DEF uncounted, execute, predicateFromCache, predicateFails, predicateAnswers,
       atPredicate, nextPredicate, skip, allPredicatesPass, mainQuery, readRow, fail, publish,
       tick, dbChange, cache, scrapeVars
  <2> QED
    BY <1>1, <2>1, <2>2
<1>7. CASE UNCHANGED svars
  BY <1>1, <1>7 DEF svars, vars, cache, scrapeVars
<1> QED
  BY <1>3, <1>4, <1>5, <1>6, <1>7 DEF SNext

LEMMA StatisticsInvariant == SSpec => []StatisticsInv
<1>1. SInit => StatisticsInv
  BY CollectorInit, Constants DEF SInit, Init, NewCollector, StatisticsInv, CounterTypes, Accounted,
     LifetimeReported
<1> QED
  BY <1>1, StatisticsStep, PTL DEF SSpec

(* Every Collect is counted once: as a failure, a hit or an execution      *)
(* (server.go:647-672).                                                    *)
THEOREM EveryCollectAccounted == SSpec => []Accounted
<1>1. StatisticsInv => Accounted
  BY DEF StatisticsInv
<1> QED
  BY <1>1, StatisticsInvariant, PTL

(* The reported lifetime of a cached result is never negative              *)
(* (collector.go:553-555).                                                 *)
THEOREM LifetimeInWindow == SSpec => []LifetimeReported
<1>1. StatisticsInv => LifetimeReported
  BY DEF StatisticsInv
<1> QED
  BY <1>1, StatisticsInvariant, PTL
=============================================================================
