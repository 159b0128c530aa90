------------------------------ MODULE ServerProofs ------------------------------
(***************************************************************************)
(* Proofs about Server, for any queries, tags, configurations and targets. *)
(***************************************************************************)
EXTENDS Server, TLAPS

-----------------------------------------------------------------------------
(* Types.                                                                  *)

LEMMA TypeInit == Init => TypeOK
<1> SUFFICES ASSUME Init PROVE TypeOK
  OBVIOUS
<1>1. Database \in Names
  BY ServerAssumption DEF Init
<1>2. alive \in BOOLEAN /\ Recovery \in BOOLEAN /\ UP \in BOOLEAN /\ Planned \in BOOLEAN
  BY DEF Init
<1>3. /\ target \in Targets /\ Version \in Nat /\ queries \in Configs
      /\ Username = "" /\ Extensions = {} /\ Namespaces = {} /\ Collectors = {} /\ stats = {}
      /\ pc = "version" /\ kind = "check" /\ err = "nil"
  BY DEF Init
<1>4. Forked \in BOOLEAN /\ PgbouncerMode \in BOOLEAN
  BY ServerAssumption DEF Init, Mode
<1> QED
  BY <1>1, <1>2, <1>3, <1>4 DEF TypeOK

\* What precheckReturns leaves of the types.
LEMMA ReturnTypes ==
    ASSUME NEW e \in {"nil", "error"}, NEW next \in {"final", "plan"},
           TypeOK, precheckReturns(e, next)
    PROVE  pc' \in {"idle", "final", "plan"} /\ err' \in {"nil", "error"}
BY DEF TypeOK, precheckReturns

(* What only touches target, statistics and pc keeps the state typed.      *)
LEMMA TypeKept ==
  ASSUME TypeOK, target' \in Targets, alive' \in BOOLEAN,
         stats' \subseteq Query, UNCHANGED <<Planned, Collectors>>,
         UNCHANGED mode, UNCHANGED facts,
         UNCHANGED <<UP, queries>>, UNCHANGED <<kind, err>>,
         pc' \in {"idle", "version", "set", "facts", "plan", "fatal", "nonfatal", "final"}
  PROVE  TypeOK'
<1>1. Forked' \in BOOLEAN /\ PgbouncerMode' \in BOOLEAN
  BY DEF TypeOK, mode
<1>2. Version' \in Nat /\ Recovery' \in BOOLEAN /\ Database' \in Names
  BY DEF TypeOK, facts
<1>3. /\ Username' \in Names \cup {""}
      /\ Extensions' \subseteq Names /\ Namespaces' \subseteq Names
  BY DEF TypeOK, facts, unwatched
<1>4. Planned' \in BOOLEAN /\ Collectors' \subseteq Query /\ stats' \subseteq Query
  BY DEF TypeOK
<1>5. UP' \in BOOLEAN /\ queries' \in Configs
  BY DEF TypeOK
<1>6. /\ pc' \in {"idle", "version", "set", "facts", "plan", "fatal", "nonfatal", "final"}
      /\ kind' \in {"check", "scrape"} /\ err' \in {"nil", "error"}
  BY DEF TypeOK
<1> QED
  BY <1>1, <1>2, <1>3, <1>4, <1>5, <1>6 DEF TypeOK

LEMMA TypeStep == TypeOK /\ [Next]_vars => TypeOK'
<1> SUFFICES ASSUME TypeOK, [Next]_vars PROVE TypeOK'
  OBVIOUS
<1>1. CASE precheckFails
  BY <1>1, ReturnTypes DEF precheckFails, TypeOK, facts, plan, mode, unwatched
<1>2. CASE showServerVersion
  <2>1. Version' \in Nat
    BY <1>2, ServerAssumption DEF showServerVersion, TypeOK
  <2>2. UP' \in BOOLEAN /\ Planned' \in BOOLEAN
    BY <1>2 DEF showServerVersion, TypeOK
  <2>3. pc' = "set" /\ UNCHANGED <<mode, alive, target, Recovery, Database, Username, Extensions,
                                  Namespaces, Collectors, stats, queries, kind, err>>
    BY <1>2 DEF showServerVersion, mode, unwatched
  <2> QED
    BY <2>1, <2>2, <2>3 DEF TypeOK, mode
<1>3. CASE setApplicationName
  BY <1>3 DEF setApplicationName, TypeOK, facts, plan, mode, unwatched
<1>4. CASE fetchFacts
  BY <1>4, ReturnTypes, ServerAssumption DEF fetchFacts, TypeOK, mode
<1>5. CASE PgbouncerPrecheck
  BY <1>5, ReturnTypes, ServerAssumption DEF PgbouncerPrecheck, TypeOK, plan, mode, unwatched
<1>6. CASE Plan
  BY <1>6, ServerAssumption DEF Plan, TypeOK, facts, plan, mode, unwatched
<1>7. CASE querySucceeds
  BY <1>7 DEF querySucceeds, executeQuery, first, remaining, TypeOK, facts, mode, unwatched
<1>8. CASE fatalQueryFails
  BY <1>8 DEF fatalQueryFails, executeQuery, first, remaining, TypeOK, facts, mode, unwatched
<1>9. CASE nonFatalQueryFails
  <2>1. PICK q \in first("nonfatal") : executeQuery(q)
    BY <1>9 DEF nonFatalQueryFails
  <2>2. UNCHANGED <<mode, alive, target, facts, UP, Planned, Collectors, queries, kind>>
    BY <2>1 DEF executeQuery
  <2>3. stats' = stats \cup {q} /\ q \in Query /\ UNCHANGED <<pc, err>>
    BY <1>9, <2>1 DEF nonFatalQueryFails, executeQuery, first, remaining, TypeOK
  <2>4. stats' \subseteq Query /\ target' \in Targets /\ alive' \in BOOLEAN
    BY <2>2, <2>3 DEF TypeOK
  <2>5. pc' = "nonfatal" /\ UNCHANGED <<kind, err>>
    BY <1>9, <2>2, <2>3 DEF nonFatalQueryFails
  <2> QED
    BY <2>2, <2>4, <2>5, TypeKept
<1>10. CASE endPass
  <2>1. pc' \in {"nonfatal", "final"}
    BY <1>10 DEF endPass
  <2>2. UNCHANGED <<mode, alive, target, facts, UP, plan, queries, kind, err>>
    BY <1>10 DEF endPass
  <2>3. stats' \subseteq Query /\ target' \in Targets /\ alive' \in BOOLEAN
    BY <2>2 DEF TypeOK, plan
  <2> QED
    BY <2>1, <2>2, <2>3, TypeKept DEF plan
<1>11. CASE final
  BY <1>11 DEF final, TypeOK, facts, plan, mode, unwatched
<1>12. CASE beginScrape
  BY <1>12 DEF beginScrape, TypeOK, facts, plan, mode, unwatched
<1>13. CASE reload
  BY <1>13 DEF reload, TypeOK, facts, mode, unwatched
<1>14. CASE targetChange
  <2>1. target' \in Targets /\ alive' = alive
    BY <1>14 DEF targetChange
  <2> QED
    BY <1>14, <2>1, TypeKept DEF targetChange, plan, TypeOK
<1>15. CASE connectionChange
  <2>1. alive' \in BOOLEAN /\ target' = target
    BY <1>15 DEF connectionChange
  <2> QED
    BY <1>15, <2>1, TypeKept DEF connectionChange, plan, TypeOK
<1>16. CASE UNCHANGED vars
  BY <1>16, TypeKept DEF vars, plan, TypeOK
<1> QED
  BY <1>1, <1>2, <1>3, <1>4, <1>5, <1>6, <1>7, <1>8, <1>9, <1>10, <1>11, <1>12, <1>13, <1>14,
     <1>15, <1>16 DEF Next, scrape, precheck

-----------------------------------------------------------------------------
(* Plans.                                                                  *)

\* Compatibility with the facts as fetched, for the queries whose tags speak
\* only of facts that are compared, is a matter of those facts.
LEMMA CompatibleFrame ==
    ASSUME NEW q \in Watched, UNCHANGED <<mode, Version, Recovery, Database>>
    PROVE  Compatible(q)' = Compatible(q)
<1>1. \A t \in Tags[q] : TagMatches(t)' = TagMatches(t)
  BY DEF Watched, TagMatches, mode
<1> QED
  BY <1>1 DEF Compatible, mode

LEMMA PlanFitsStep == TypeOK /\ PlanFits /\ [Next]_vars => PlanFits'
<1> SUFFICES ASSUME TypeOK, PlanFits, [Next]_vars PROVE PlanFits'
  OBVIOUS
<1> DEFINE Same == UNCHANGED <<Collectors, stats, queries>>
           Keeps == Planned' => Planned /\ UNCHANGED <<mode, Version, Recovery, Database>>
<1>1. Same /\ Keeps => PlanFits'
  BY CompatibleFrame DEF PlanFits
<1>2. CASE precheckFails
  BY <1>1, <1>2 DEF precheckFails, facts, plan, mode, unwatched
<1>3. CASE showServerVersion
  BY <1>1, <1>3 DEF showServerVersion
<1>4. CASE setApplicationName
  BY <1>1, <1>4 DEF setApplicationName, facts, plan, mode, unwatched
<1>5. CASE fetchFacts
  BY <1>1, <1>5 DEF fetchFacts
<1>6. CASE PgbouncerPrecheck
  <2>1. UNCHANGED <<mode, Recovery, Database, Collectors, stats, queries>>
    BY <1>6 DEF PgbouncerPrecheck
  <2>2. CASE Version' = target.version /\ Planned' = (Planned /\ Version = target.version)
    BY <1>1, <2>1, <2>2
  <2>3. CASE UNCHANGED <<Version, Planned>>
    BY <1>1, <2>1, <2>3
  <2> QED
    BY <1>6, <2>2, <2>3 DEF PgbouncerPrecheck
<1>7. CASE Plan
  <2>1. CASE Planned
    BY <1>1, <1>7, <2>1 DEF Plan, facts, plan, mode, unwatched
  <2>2. CASE ~Planned
    <3>1. /\ Collectors' = {q \in queries : Compatible(q)} /\ stats' = Collectors'
          /\ UNCHANGED <<mode, Version, Recovery, Database, queries>>
      BY <1>7, <2>2 DEF Plan, facts, plan
    <3>2. \A q \in Watched : Compatible(q)' = Compatible(q)
      BY <3>1, CompatibleFrame
    <3> HIDE DEF Same, Keeps
    <3> QED
      BY <3>1, <3>2 DEF PlanFits, Watched
  <2> QED
    BY <2>1, <2>2
<1>8. ASSUME NEW q \in Collectors, executeQuery(q) PROVE PlanFits'
  <2>1. stats' = stats
    BY <1>8 DEF executeQuery, PlanFits
  <2> QED
    BY <1>1, <1>8, <2>1 DEF executeQuery, facts
<1>9. CASE querySucceeds \/ fatalQueryFails \/ nonFatalQueryFails
  <2>1. PICK q \in Collectors : executeQuery(q)
    BY <1>9 DEF querySucceeds, fatalQueryFails, nonFatalQueryFails, first, remaining
  <2> QED
    BY <1>8, <2>1
<1>10. CASE endPass
  BY <1>1, <1>10 DEF endPass, facts, plan, mode, unwatched
<1>11. CASE final
  BY <1>1, <1>11 DEF final, facts, plan, mode, unwatched
<1>12. CASE beginScrape
  BY <1>1, <1>12 DEF beginScrape, facts, plan, mode, unwatched
<1>13. CASE reload
  BY <1>13 DEF reload, PlanFits
<1>14. CASE targetChange \/ connectionChange
  BY <1>1, <1>14 DEF targetChange, connectionChange, facts, plan, mode, unwatched
<1>15. CASE UNCHANGED vars
  BY <1>1, <1>15 DEF vars, facts, plan, mode, unwatched
<1> QED
  <2> HIDE DEF Same, Keeps
  <2> QED
    BY <1>2, <1>3, <1>4, <1>5, <1>6, <1>7, <1>9, <1>10, <1>11, <1>12, <1>13, <1>14, <1>15
    DEF Next, scrape, precheck

-----------------------------------------------------------------------------
(* The passes.                                                             *)

LEMMA FatalFirstStep ==
    TypeOK /\ FatalFirst /\ Progress /\ [Next]_vars => FatalFirst' /\ Progress'
<1> SUFFICES ASSUME TypeOK, FatalFirst, Progress, [Next]_vars PROVE FatalFirst' /\ Progress'
  OBVIOUS
<1> USE DEF InScrape
<1>1. CASE precheckFails
  BY <1>1 DEF precheckFails, precheckReturns, FatalFirst, Progress, TypeOK, plan
<1>2. CASE showServerVersion
  BY <1>2 DEF showServerVersion, FatalFirst, Progress, TypeOK
<1>3. CASE setApplicationName
  BY <1>3 DEF setApplicationName, FatalFirst, Progress, TypeOK, plan
<1>4. CASE fetchFacts
  BY <1>4 DEF fetchFacts, precheckReturns, FatalFirst, Progress, TypeOK
<1>5. CASE PgbouncerPrecheck
  BY <1>5 DEF PgbouncerPrecheck, precheckReturns, FatalFirst, Progress, TypeOK
<1>6. CASE Plan
  BY <1>6 DEF Plan, FatalFirst, Progress, TypeOK, plan
<1>7. CASE querySucceeds
  <2>1. PICK q \in first(pc) : executeQuery(q)
    BY <1>7 DEF querySucceeds
  <2>2. q \in Query /\ (q \in Fatal <=> pc = "fatal")
    BY <1>7, <2>1 DEF querySucceeds, first, remaining, TypeOK
  <2>3. /\ ran' = ran \cup {q} /\ pc \in {"fatal", "nonfatal"}
        /\ UNCHANGED <<pc, failed, Planned, Collectors>>
    BY <1>7, <2>1 DEF querySucceeds, executeQuery
  <2>4. CASE pc = "fatal"
    BY <2>2, <2>3, <2>4 DEF FatalFirst, Progress
  <2>5. CASE pc = "nonfatal"
    BY <2>2, <2>3, <2>5 DEF FatalFirst, Progress
  <2> QED
    BY <2>3, <2>4, <2>5
<1>8. CASE fatalQueryFails
  <2>1. PICK q \in first("fatal") : executeQuery(q) /\ failed' = failed \cup {q}
    BY <1>8 DEF fatalQueryFails
  <2>2. q \in Query /\ pc' = "final" /\ ran' = ran \cup {q}
    BY <1>8, <2>1 DEF fatalQueryFails, executeQuery, first, remaining, TypeOK
  <2> QED
    BY <2>1, <2>2 DEF FatalFirst, Progress
<1>9. CASE nonFatalQueryFails
  <2>1. PICK q \in first("nonfatal") : executeQuery(q) /\ failed' = failed \cup {q}
    BY <1>9 DEF nonFatalQueryFails
  <2>2. q \in Query \ Fatal
    BY <2>1 DEF first, remaining, TypeOK
  <2>3. /\ ran' = ran \cup {q} /\ pc = "nonfatal"
        /\ UNCHANGED <<pc, Planned, Collectors>>
    BY <1>9, <2>1 DEF nonFatalQueryFails, executeQuery
  <2> QED
    BY <2>1, <2>2, <2>3 DEF FatalFirst, Progress
<1>10. CASE endPass
  <2>1. UNCHANGED <<ran, failed, Planned, Collectors>>
    BY <1>10 DEF endPass, plan
  <2>2. CASE pc = "fatal"
    <3>1. pc' = "nonfatal" /\ \A q \in Collectors \ ran : q \notin Fatal
      BY <1>10, <2>2 DEF endPass, remaining
    <3> QED
      BY <2>1, <2>2, <3>1 DEF FatalFirst, Progress
  <2>3. CASE pc = "nonfatal"
    BY <1>10, <2>1, <2>3 DEF endPass, FatalFirst, Progress
  <2> QED
    BY <1>10, <2>2, <2>3 DEF endPass
<1>11. CASE final
  BY <1>11 DEF final, FatalFirst, Progress, plan
<1>12. CASE beginScrape
  BY <1>12 DEF beginScrape, FatalFirst, Progress, plan
<1>13. CASE reload
  BY <1>13 DEF reload, FatalFirst, Progress
<1>14. CASE targetChange \/ connectionChange
  BY <1>14 DEF targetChange, connectionChange, FatalFirst, Progress, plan
<1>15. CASE UNCHANGED vars
  BY <1>15 DEF vars, FatalFirst, Progress, plan
<1> QED
  BY <1>1, <1>2, <1>3, <1>4, <1>5, <1>6, <1>7, <1>8, <1>9, <1>10, <1>11, <1>12, <1>13, <1>14,
     <1>15 DEF Next, scrape, precheck

-----------------------------------------------------------------------------
(* Every state of Server satisfies its inductive invariant: plans fit the  *)
(* facts they were made from, statistics the plan, and Fatal queries come  *)
(* first (server.go:260-326, 369-403, 578-672).                            *)
THEOREM ServerInvariant == Spec => []ServerInv
<1>1. Init => ServerInv
  BY TypeInit DEF Init, ServerInv, PlanFits, FatalFirst, Progress, InScrape
<1>2. ServerInv /\ [Next]_vars => ServerInv'
  BY TypeStep, PlanFitsStep, FatalFirstStep DEF ServerInv
<1> QED
  BY <1>1, <1>2, PTL DEF Spec

(* Whatever prechecks failed half-way, a scrape runs the queries that are  *)
(* compatible with the version, role and database name it has fetched      *)
(* (server.go:287-326, 589-591).                                           *)
THEOREM PlanCurrent == Spec => []PlanIsCurrent
<1>1. ServerInv => PlanIsCurrent
  BY DEF ServerInv, PlanFits, Progress, PlanIsCurrent
<1> QED
  BY <1>1, ServerInvariant, PTL

(* No other query runs before every Fatal query has succeeded              *)
(* (server.go:596-604, 619-644).                                           *)
THEOREM FatalQueriesGuard == Spec => []FatalGuards
<1>1. ServerInv => FatalGuards
  BY DEF ServerInv, FatalFirst, FatalGuards, InScrape
<1> QED
  BY <1>1, ServerInvariant, PTL

(* The statistics maps belong to the plan (server.go:406-427).             *)
THEOREM StatisticsMatch == Spec => []StatsMatchPlan
<1>1. ServerInv => StatsMatchPlan
  BY DEF ServerInv, PlanFits, StatsMatchPlan
<1> QED
  BY <1>1, ServerInvariant, PTL
=============================================================================
