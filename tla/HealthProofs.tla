----------------------------- MODULE HealthProofs -----------------------------
(***************************************************************************)
(* Proofs about the health snapshot for any number of concurrent requests  *)
(* and any set of target states: HealthInv is inductive, hence a settled   *)
(* snapshot always describes the target, and a request that runs within a  *)
(* settled period gets the answer the target's state calls for.            *)
(***************************************************************************)
EXTENDS HealthConvergence, TLAPS

\* The part of the invariant that does not speak of the history variables.
Basic == TypeOK /\ Phases /\ StartingIsDown

(* Every step of the code keeps the state well typed, every goroutine at a *)
(* program point of its own, and "starting" apart from "up".               *)
LEMMA BasicStep == Basic /\ [Next]_vars => Basic'
<1> SUFFICES ASSUME Basic, [Next]_vars PROVE Basic'
  OBVIOUS
<1> USE TargetsAssumption DEF Basic, Phases, StartingIsDown, TypeOK, env, snapshot, server, vars,
        AllTargets, Statuses, Writers, Views, Kinds, IsUp, DownView, Goto
<1>1. ASSUME NEW w \in Writers, StoreUp(w) PROVE Basic'
  BY <1>1 DEF StoreUp
<1>2. ASSUME NEW w \in Writers, StoreRecovery(w) PROVE Basic'
  BY <1>2 DEF StoreRecovery
<1>3. ASSUME NEW w \in Writers, StoreStatus(w) PROVE Basic'
  BY <1>3 DEF StoreStatus, StatusOf
<1>4. CASE startupCheck
  <2>1. /\ db' \in BOOLEAN /\ UP' \in BOOLEAN /\ Recovery' \in BOOLEAN
        /\ pc["main"] = "precheck"
        /\ Goto("main", "load") \/ Goto("main", "exited")
        /\ UNCHANGED <<env, snapshot, locked, view, req>>
    BY <1>4 DEF startupCheck, precheckPasses, precheckFails
  <2>2. TypeOK'
    BY <2>1
  <2>3. Phases'
    BY <2>1
  <2>4. StartingIsDown'
    BY <2>1
  <2> QED
    BY <2>2, <2>3, <2>4
<1>5. CASE updateHealthStateFromServer
  BY <1>5 DEF updateHealthStateFromServer, serverView
<1>6. CASE probeSnapshot
  <2>1. /\ pc["loop"] = "idle"
        /\ Goto("loop", "query") \/ Goto("loop", "up")
        /\ view' = view \/ view' = [view EXCEPT !["loop"] = DownView]
        /\ UNCHANGED <<env, snapshot, server, locked, req>>
    BY <1>6 DEF probeSnapshot
  <2>2. view' \in [Writers -> Views]
    <3>1. CASE view' = view
      BY <3>1
    <3>2. CASE view' = [view EXCEPT !["loop"] = DownView]
      BY <3>2
    <3> QED
      BY <2>1, <3>1, <3>2
  <2>3. pc' \in [Writers -> {"idle", "off", "exited", "load", "query", "precheck",
                            "queries", "up", "recovery", "status"}]
    BY <2>1
  <2>4. UNCHANGED <<env, snapshot, server, locked, req>>
    BY <2>1
  <2>5. TypeOK'
    BY <2>2, <2>3, <2>4
  <2>6. Phases'
    BY <2>1
  <2>7. StartingIsDown'
    BY <2>1
  <2> QED
    BY <2>5, <2>6, <2>7
<1>7. CASE ProbeHealth
  BY <1>7 DEF ProbeHealth
<1>8. CASE scrapeBegin
  BY <1>8 DEF scrapeBegin
<1>9. CASE scrapePrecheck
  <2>1. /\ db' \in BOOLEAN /\ UP' \in BOOLEAN /\ Recovery' \in BOOLEAN
        /\ locked' \in BOOLEAN
        /\ pc["scrape"] = "precheck"
        /\ Goto("scrape", "queries") \/ Goto("scrape", "load")
        /\ UNCHANGED <<env, snapshot, view, req>>
    <3>1. CASE precheckPasses
      BY <1>9, <3>1 DEF scrapePrecheck, precheckPasses, precheckFails
    <3>2. CASE precheckFails
      BY <1>9, <3>2 DEF scrapePrecheck, precheckPasses, precheckFails
    <3> QED
      BY <1>9, <3>1, <3>2 DEF scrapePrecheck
  <2>2. TypeOK'
    BY <2>1
  <2>3. Phases'
    BY <2>1
  <2>4. StartingIsDown'
    BY <2>1
  <2> QED
    BY <2>2, <2>3, <2>4
<1>10. CASE scrapeQueries
  <2>1. /\ UP' \in BOOLEAN /\ locked' \in BOOLEAN
        /\ pc["scrape"] = "queries"
        /\ Goto("scrape", "load")
        /\ UNCHANGED <<env, snapshot, db, Recovery, view, req>>
    BY <1>10 DEF scrapeQueries
  <2>2. TypeOK'
    BY <2>1
  <2>3. Phases'
    BY <2>1
  <2>4. StartingIsDown'
    BY <2>1
  <2> QED
    BY <2>2, <2>3, <2>4
<1>11. CASE scrapeReadHealth
  BY <1>11 DEF scrapeReadHealth, serverView
<1>12. ASSUME NEW r \in Readers, NEW k \in Kinds, loadStatus(r, k) PROVE Basic'
  BY <1>12 DEF loadStatus
<1>13. ASSUME NEW r \in Readers, loadUp(r) PROVE Basic'
  BY <1>13 DEF loadUp, answer
<1>14. ASSUME NEW r \in Readers, loadRecovery(r) PROVE Basic'
  <2>1. /\ answer(r, 200) \/ answer(r, 404)
        /\ UNCHANGED <<env, snapshot, server, locked, pc, view>>
    BY <1>14 DEF loadRecovery
  <2>2. TypeOK'
    BY <2>1 DEF answer
  <2>3. Phases' /\ StartingIsDown'
    BY <2>1
  <2> QED
    BY <2>2, <2>3
<1>15. CASE targetChange
  BY <1>15 DEF targetChange
<1>16. CASE fatalChange
  BY <1>16 DEF fatalChange
<1>17. CASE exited
  BY <1>17 DEF exited
<1>18. CASE UNCHANGED vars
  BY <1>18
<1> HIDE DEF Basic, Phases, StartingIsDown, TypeOK, env, snapshot, server, vars, Kinds, Writers, Views
<1>19. Next \/ UNCHANGED vars
  OBVIOUS
<1>20. Writers = {"main", "loop", "scrape"}
  BY DEF Writers
<1> QED
  BY <1>19, <1>20, <1>1, <1>2, <1>3, <1>4, <1>5, <1>6, <1>7, <1>8, <1>9, <1>10, <1>11, <1>12, <1>13,
     <1>14, <1>15, <1>16, <1>17, <1>18
  DEF Next, startup, loop, scrape, handler, updateHealthStateWithStartup

-----------------------------------------------------------------------------
\* A step that stores nothing: no atomic changes, no update ends, and no
\* goroutine comes to stand behind a store.
Quiet == /\ UNCHANGED snapshot
         /\ \A w \in Writers :
               /\ InFlight(w) => InFlight(w)'
               /\ pc'[w] \in {"recovery", "status"} => pc'[w] = pc[w]

(* Every step is one of the three stores of a goroutine, or stores nothing.*)
LEMMA StoreOrQuiet ==
    Basic /\ [Next]_vars =>
        Quiet \/ \E w \in Writers : StoreUp(w) \/ StoreRecovery(w) \/ StoreStatus(w)
<1> SUFFICES ASSUME Basic, [Next]_vars,
                    ~ \E w \in Writers : StoreUp(w) \/ StoreRecovery(w) \/ StoreStatus(w)
             PROVE Quiet
  OBVIOUS
<1> USE DEF Quiet, InFlight, Goto
<1>0. pc \in [Writers -> {"idle", "off", "exited", "load", "query", "precheck",
                          "queries", "up", "recovery", "status"}]
  BY DEF Basic, TypeOK
<1>1. CASE startupCheck
  BY <1>0, <1>1 DEF startupCheck, Writers
<1>2. CASE updateHealthStateFromServer
  BY <1>0, <1>2 DEF updateHealthStateFromServer, Writers
<1>3. CASE probeSnapshot
  BY <1>0, <1>3 DEF probeSnapshot, Writers
<1>4. CASE ProbeHealth
  BY <1>0, <1>4 DEF ProbeHealth, Writers
<1>5. CASE scrapeBegin
  BY <1>0, <1>5 DEF scrapeBegin, Writers
<1>6. CASE scrapePrecheck
  BY <1>0, <1>6 DEF scrapePrecheck, Writers
<1>7. CASE scrapeQueries
  BY <1>0, <1>7 DEF scrapeQueries, Writers
<1>8. CASE scrapeReadHealth
  BY <1>0, <1>8 DEF scrapeReadHealth, Writers
<1>9. ASSUME NEW r \in Readers, handler(r) PROVE Quiet
  BY <1>9 DEF handler, loadStatus, loadUp, loadRecovery
<1>10. CASE targetChange \/ fatalChange
  BY <1>10 DEF targetChange, fatalChange
<1>11. CASE exited \/ UNCHANGED vars
  BY <1>11 DEF exited, vars
<1>12. Next \/ UNCHANGED vars
  OBVIOUS
<1>13. "main" \in Writers /\ "loop" \in Writers /\ "scrape" \in Writers
  BY DEF Writers
<1> HIDE DEF Quiet, InFlight, Goto
<1> QED
  BY <1>12, <1>13, <1>1, <1>2, <1>3, <1>4, <1>5, <1>6, <1>7, <1>8, <1>9, <1>10, <1>11
     DEF Next, startup, loop, scrape, updateHealthStateWithStartup

(* A store by a goroutine that is not discordant writes the target's state.*)
LEMMA ConcordantStore ==
    ASSUME TypeOK, StartingIsDown, NEW w \in Writers, ~Discordant(w),
           pc[w] \in {"up", "recovery", "status"}
    PROVE  /\ view[w].up = IsUp(target)
           /\ (~view[w].starting /\ view[w].up /\ view[w].recovery) <=> target = "replica"
           /\ StatusOf(view[w]) \in StatusesOf(target)
<1>1. Describes(view[w], target)
  BY DEF Discordant, InFlight, Pending
<1>2. view[w] \in Views /\ target \in AllTargets
  BY TargetsAssumption DEF TypeOK
<1>3. view[w].starting => ~view[w].up
  BY DEF StartingIsDown
<1>4. /\ view[w].up <=> IsUp(target)
      /\ view[w].up => (view[w].recovery <=> target = "replica")
      /\ view[w].starting => target = "starting"
  BY <1>1, <1>2 DEF Describes, Views, IsUp
<1>5. view[w].up = IsUp(target)
  BY <1>1 DEF Describes
<1>6. (~view[w].starting /\ view[w].up /\ view[w].recovery) <=> target = "replica"
  BY <1>2, <1>3, <1>4 DEF AllTargets, IsUp
<1>7. StatusOf(view[w]) \in StatusesOf(target)
  <2>1. CASE view[w].starting
    BY <2>1, <1>4 DEF StatusOf, StatusesOf
  <2>2. CASE ~view[w].starting /\ ~view[w].up
    BY <2>2, <1>2, <1>4 DEF StatusOf, StatusesOf, AllTargets, IsUp
  <2>3. CASE ~view[w].starting /\ view[w].up /\ view[w].recovery
    BY <2>3, <1>2, <1>4 DEF StatusOf, StatusesOf, AllTargets, IsUp
  <2>4. CASE ~view[w].starting /\ view[w].up /\ ~view[w].recovery
    BY <2>4, <1>2, <1>4 DEF StatusOf, StatusesOf, AllTargets, IsUp
  <2> QED
    BY <2>1, <2>2, <2>3, <2>4
<1> QED
  BY <1>5, <1>6, <1>7

-----------------------------------------------------------------------------
\* What HNext says of the history variables.
LEMMA Undisturbed ==
    ASSUME HNext, settled' \/ clean' # {}
    PROVE  /\ target' = target
           /\ \A w \in Writers : ~Discordant(w)'
           /\ settled' => settled \/ \E w \in clean : ~InFlight(w)'
           /\ \A w \in clean' : InFlight(w)' /\ (w \in clean \/ ~InFlight(w))
BY DEF HNext, disturbed

(* After any step, what clean updates have stored so far, and what a       *)
(* settled snapshot holds, is the target's state.                          *)
LEMMA StoredIsTruth ==
    HealthInv /\ HNext => CleanPrefix' /\ SettledSnapshot'
<1> SUFFICES ASSUME HealthInv, HNext, settled' \/ clean' # {}
             PROVE  CleanPrefix' /\ SettledSnapshot'
  BY DEF CleanPrefix, SettledSnapshot
<1>1. /\ target' = target
      /\ \A w \in Writers : ~Discordant(w)'
      /\ settled' => settled \/ \E w \in clean : ~InFlight(w)'
      /\ \A w \in clean' : InFlight(w)' /\ (w \in clean \/ ~InFlight(w))
  BY Undisturbed
<1>2. /\ TypeOK /\ StartingIsDown /\ Basic
      /\ clean \subseteq Writers /\ clean' \subseteq Writers
      /\ NobodyDiscordant /\ CleanPrefix /\ SettledSnapshot
  BY DEF HealthInv, HTypeOK, Basic, HNext
<1>3. pc \in [Writers -> {"idle", "off", "exited", "load", "query", "precheck",
                          "queries", "up", "recovery", "status"}]
  BY <1>2 DEF TypeOK
<1>4. \A v \in clean : InFlight(v)
  BY <1>2 DEF CleanPrefix
<1>5. CASE Quiet
  <2>1. settled' => settled
    BY <1>1, <1>2, <1>4, <1>5 DEF Quiet
  <2>2. SettledSnapshot'
    BY <2>1, <1>1, <1>2, <1>5 DEF SettledSnapshot, SnapshotIs, Quiet, snapshot
  <2>3. ASSUME NEW v \in clean', pc'[v] \in {"recovery", "status"} PROVE v \in clean /\ pc'[v] = pc[v]
    BY <2>3, <1>1, <1>2, <1>5 DEF Quiet, InFlight
  <2>4. CleanPrefix'
    BY <2>3, <1>1, <1>2, <1>5 DEF CleanPrefix, Quiet, snapshot
  <2> QED
    BY <2>2, <2>4
<1>6. ASSUME NEW w \in Writers, StoreUp(w) PROVE CleanPrefix' /\ SettledSnapshot'
  <2>1. pc[w] = "up" /\ pc' = [pc EXCEPT ![w] = "recovery"] /\ view' = view
    BY <1>6 DEF StoreUp, Goto
  <2>2. ~Discordant(w)
    BY <1>1, <1>3, <2>1 DEF Discordant, InFlight, Pending
  <2>3. healthUp' = IsUp(target) /\ UNCHANGED <<healthRecovery, healthStatus>>
    BY <1>2, <1>6, <2>1, <2>2, ConcordantStore DEF StoreUp
  <2>4. settled' => settled
    BY <1>1, <1>2, <1>3, <1>4, <2>1 DEF InFlight
  <2>5. SettledSnapshot'
    BY <1>1, <1>2, <2>3, <2>4 DEF SettledSnapshot, SnapshotIs
  <2>6. ASSUME NEW v \in clean', pc'[v] = "status" PROVE v \in clean /\ pc[v] = "status"
    BY <2>6, <1>1, <1>2, <1>3, <2>1 DEF InFlight
  <2>7. CleanPrefix'
    BY <1>1, <1>2, <2>3, <2>6 DEF CleanPrefix
  <2> QED
    BY <2>5, <2>7
<1>7. ASSUME NEW w \in Writers, StoreRecovery(w) PROVE CleanPrefix' /\ SettledSnapshot'
  <2>1. pc[w] = "recovery" /\ pc' = [pc EXCEPT ![w] = "status"] /\ view' = view
    BY <1>7 DEF StoreRecovery, Goto
  <2>2. ~Discordant(w)
    BY <1>1, <1>3, <2>1 DEF Discordant, InFlight, Pending
  <2>3. healthRecovery' = (target = "replica") /\ UNCHANGED <<healthUp, healthStatus>>
    BY <1>2, <1>7, <2>1, <2>2, ConcordantStore DEF StoreRecovery
  <2>4. settled' => settled
    BY <1>1, <1>2, <1>3, <1>4, <2>1 DEF InFlight
  <2>5. SettledSnapshot'
    BY <1>1, <1>2, <2>3, <2>4 DEF SettledSnapshot, SnapshotIs
  <2>6. ASSUME NEW v \in clean', pc'[v] \in {"recovery", "status"}
        PROVE  v \in clean /\ pc[v] \in {"recovery", "status"}
    BY <2>6, <1>1, <1>2, <1>3, <2>1 DEF InFlight
  <2>7. CleanPrefix'
    BY <1>1, <1>2, <2>3, <2>6 DEF CleanPrefix
  <2> QED
    BY <2>5, <2>7
<1>8. ASSUME NEW w \in Writers, StoreStatus(w) PROVE CleanPrefix' /\ SettledSnapshot'
  <2>1. /\ pc[w] = "status" /\ healthStatus' = StatusOf(view[w])
        /\ UNCHANGED <<healthUp, healthRecovery>>
    BY <1>8 DEF StoreStatus
  <2>2. \A v \in Writers : pc'[v] \in {"off", "idle"} \/ (v # w /\ pc'[v] = pc[v])
    BY <1>3, <1>8 DEF StoreStatus, Writers
  <2>4. ASSUME NEW v \in clean' PROVE v \in clean /\ v # w /\ pc'[v] = pc[v]
    BY <2>4, <1>1, <1>2, <2>2 DEF InFlight
  <2>5. CleanPrefix'
    BY <1>1, <1>2, <2>1, <2>4 DEF CleanPrefix
  <2>6. ASSUME settled' PROVE SnapshotIs(target)'
    <3>1. settled \/ w \in clean
      <4>1. ASSUME NEW v \in clean, ~InFlight(v)', v # w PROVE FALSE
        BY <4>1, <1>2, <1>4, <1>8, <1>3 DEF StoreStatus, InFlight, Writers, HealthInv, Phases
      <4> QED
        BY <4>1, <2>6, <1>1
    <3>2. ~Discordant(w)
      BY <3>1, <1>2 DEF NobodyDiscordant
    <3>3. StatusOf(view[w]) \in StatusesOf(target)
      BY <3>2, <1>2, <2>1, ConcordantStore
    <3>4. healthUp = IsUp(target) /\ healthRecovery = (target = "replica")
      BY <3>1, <1>2, <2>1 DEF SettledSnapshot, SnapshotIs, CleanPrefix
    <3> QED
      BY <3>3, <3>4, <2>1, <1>1 DEF SnapshotIs
  <2> QED
    BY <2>5, <2>6, <1>1 DEF SettledSnapshot
<1> QED
  BY <1>2, <1>5, <1>6, <1>7, <1>8, StoreOrQuiet DEF HNext

(* A request that stays steady has loaded nothing but the target's state,  *)
(* and is answered accordingly.                                            *)
LEMMA SteadyStep ==
    HealthInv /\ HNext => SteadyPrefix' /\ SteadyAnswer'
<1> SUFFICES ASSUME HealthInv, HNext, NEW r \in steady'
             PROVE  /\ settled'
                    /\ req'[r].pc # "idle" => req'[r].status \in StatusesOf(target')
                    /\ req'[r].pc = "recovery" => IsUp(target') /\ req'[r].kind # "up"
                    /\ req'[r].pc = "done" =>
                          /\ req'[r].code = Expected(req'[r].kind, target')
                          /\ req'[r].status \in StatusesOf(target')
  BY DEF SteadyPrefix, SteadyAnswer
<1>1. /\ r \in Readers /\ settled'
      /\ r \in steady \/ (req[r].pc \in {"idle", "done"} /\ req'[r].pc = "up")
  BY DEF HNext
<1>2. target' = target
  BY <1>1, Undisturbed
<1>3. /\ TypeOK /\ Basic /\ SettledSnapshot /\ SteadyPrefix /\ SteadyAnswer /\ CleanPrefix
      /\ SettledSnapshot'
  BY StoredIsTruth DEF HealthInv, HTypeOK, Basic
<1>4. req \in [Readers -> [pc : {"idle", "up", "recovery", "done"}, kind : Kinds,
                           status : Statuses, code : {0, 200, 404, 503}]]
  BY <1>3 DEF TypeOK
<1>5. CASE req' = req
  BY <1>1, <1>2, <1>3, <1>5 DEF SteadyPrefix, SteadyAnswer
<1>6. ASSUME NEW q \in Readers, q # r, req'[r] = req[r]
      PROVE  /\ req'[r].pc # "idle" => req'[r].status \in StatusesOf(target')
             /\ req'[r].pc = "recovery" => IsUp(target') /\ req'[r].kind # "up"
             /\ req'[r].pc = "done" =>
                   /\ req'[r].code = Expected(req'[r].kind, target')
                   /\ req'[r].status \in StatusesOf(target')
  BY <1>1, <1>2, <1>3, <1>6 DEF SteadyPrefix, SteadyAnswer
<1>7. ASSUME NEW q \in Readers, NEW k \in Kinds, loadStatus(q, k), q = r
      PROVE  req'[r].pc = "up" /\ req'[r].status \in StatusesOf(target')
  <2>1. /\ req'[r].pc = "up" /\ req'[r].status = healthStatus
        /\ healthStatus' = healthStatus
    BY <1>4, <1>7 DEF loadStatus, snapshot
  <2> QED
    BY <2>1, <1>1, <1>3 DEF SettledSnapshot, SnapshotIs
<1>8. ASSUME NEW q \in Readers, loadUp(q) \/ loadRecovery(q), q = r
      PROVE  /\ SnapshotIs(target) /\ req[r].status \in StatusesOf(target)
             /\ req[r].pc = "recovery" => IsUp(target) /\ req[r].kind # "up"
  <2>1. req[r].pc \in {"up", "recovery"}
    BY <1>8 DEF loadUp, loadRecovery
  <2>2. r \in steady
    BY <1>1, <2>1
  <2> QED
    BY <2>1, <2>2, <1>3 DEF SteadyPrefix, SettledSnapshot
<1>9. ASSUME NEW q \in Readers, loadUp(q), q = r
      PROVE  /\ req'[r].status = req[r].status
             /\ req'[r].pc = "recovery" => IsUp(target) /\ req'[r].kind # "up"
             /\ req'[r].pc = "done" => req'[r].code = Expected(req'[r].kind, target)
             /\ req'[r].pc # "idle"
  <2>1. healthUp <=> IsUp(target)
    BY <1>8, <1>9, <1>3 DEF SnapshotIs, TypeOK, IsUp
  <2>2. CASE ~healthUp /\ answer(r, 503)
    BY <2>1, <2>2, <1>4, <1>9 DEF answer, Expected
  <2>3. CASE healthUp /\ req[r].kind = "up" /\ answer(r, 200)
    BY <2>1, <2>3, <1>4, <1>9 DEF answer, Expected
  <2>4. CASE healthUp /\ req[r].kind # "up" /\ req' = [req EXCEPT ![r].pc = "recovery"]
    BY <2>1, <2>4, <1>4, <1>9
  <2> QED
    BY <2>2, <2>3, <2>4, <1>9 DEF loadUp
<1>10. ASSUME NEW q \in Readers, loadRecovery(q), q = r
       PROVE  /\ req'[r].status = req[r].status
              /\ req'[r].pc = "done" /\ req'[r].code = Expected(req'[r].kind, target)
  <2>1. healthRecovery <=> target = "replica"
    BY <1>8, <1>10, <1>3 DEF SnapshotIs, TypeOK
  <2>2. IsUp(target) /\ req[r].kind # "up"
    BY <1>8, <1>10 DEF loadRecovery
  <2>3. CASE (healthRecovery <=> req[r].kind = "replica") /\ answer(r, 200)
    BY <2>1, <2>2, <2>3, <1>4, <1>10 DEF answer, Expected
  <2>4. CASE ~(healthRecovery <=> req[r].kind = "replica") /\ answer(r, 404)
    BY <2>1, <2>2, <2>4, <1>4, <1>10 DEF answer, Expected
  <2> QED
    BY <2>3, <2>4, <1>10 DEF loadRecovery
<1>11. req' = req \/ \E q \in Readers : handler(q)
  BY DEF HNext, Next, startup, loop, scrape, updateHealthStateWithStartup, StoreUp, StoreRecovery,
     StoreStatus, startupCheck, updateHealthStateFromServer, probeSnapshot, ProbeHealth,
     scrapeBegin, scrapePrecheck, scrapeQueries, scrapeReadHealth, targetChange, fatalChange,
     exited, vars
<1>12. ASSUME NEW q \in Readers, handler(q), q # r PROVE req'[r] = req[r]
  BY <1>12, <1>1, <1>4 DEF handler, loadStatus, loadUp, loadRecovery, answer
<1> QED
  BY <1>1, <1>2, <1>5, <1>6, <1>7, <1>8, <1>9, <1>10, <1>11, <1>12 DEF handler

-----------------------------------------------------------------------------
LEMMA HealthInit == HInit => HealthInv
<1> SUFFICES ASSUME HInit PROVE HealthInv
  OBVIOUS
<1>1. TypeOK
  BY TargetsAssumption DEF HInit, Init, TypeOK, AllTargets, Statuses, Writers, Views, Kinds,
     DownView
<1>2. Phases /\ StartingIsDown
  BY DEF HInit, Init, Phases, StartingIsDown, Writers, DownView
<1>3. clean = {} /\ settled = FALSE /\ steady = {}
  BY DEF HInit
<1> QED
  BY <1>1, <1>2, <1>3 DEF HealthInv, HTypeOK, NobodyDiscordant, CleanPrefix, SettledSnapshot,
     SteadyPrefix, SteadyAnswer

LEMMA HealthStep == HealthInv /\ [HNext]_hvars => HealthInv'
<1> SUFFICES ASSUME HealthInv, [HNext]_hvars PROVE HealthInv'
  OBVIOUS
<1>1. CASE HNext
  <2>1. Basic'
    BY <1>1, BasicStep DEF HealthInv, HTypeOK, Basic, HNext
  <2>2. HTypeOK' /\ Phases' /\ StartingIsDown'
    BY <1>1, <2>1 DEF Basic, HTypeOK, HealthInv, HNext
  <2>3. NobodyDiscordant'
    BY <1>1, Undisturbed DEF NobodyDiscordant
  <2>4. CleanPrefix' /\ SettledSnapshot'
    BY <1>1, StoredIsTruth
  <2>5. SteadyPrefix' /\ SteadyAnswer'
    BY <1>1, SteadyStep
  <2> QED
    BY <2>2, <2>3, <2>4, <2>5 DEF HealthInv
<1>2. CASE UNCHANGED hvars
  <2>1. Basic'
    BY <1>2, BasicStep DEF hvars, HealthInv, HTypeOK, Basic
  <2>2. UNCHANGED <<clean, settled, steady, target, pc, view, req, UP, Recovery>>
        /\ UNCHANGED snapshot
    BY <1>2 DEF hvars, history, vars, env, server
  <2>3. \A w \in Writers : Discordant(w)' <=> Discordant(w)
    BY <2>2 DEF Discordant, InFlight, Pending, serverView
  <2>4. NobodyDiscordant'
    BY <2>2, <2>3 DEF HealthInv, NobodyDiscordant
  <2>5. CleanPrefix' /\ SettledSnapshot'
    BY <2>2 DEF HealthInv, CleanPrefix, SettledSnapshot, InFlight, SnapshotIs, snapshot
  <2>6. SteadyPrefix' /\ SteadyAnswer'
    BY <2>2 DEF HealthInv, SteadyPrefix, SteadyAnswer
  <2> QED
    BY <2>1, <2>2, <2>4, <2>5, <2>6 DEF HealthInv, HTypeOK, Basic
<1> QED
  BY <1>1, <1>2

(* The inductive invariant, types included, for every set of concurrent    *)
(* requests and every set of target states.                                *)
THEOREM HealthInvariant == HSpec => []HealthInv
BY HealthInit, HealthStep, PTL DEF HSpec

(* A settled snapshot is exactly the target's state: no out-of-date store  *)
(* of another goroutine can surface in it (exporter.go:123-166, 256-262).  *)
THEOREM Settled == HSpec => []SettledSnapshot
<1>1. HealthInv => SettledSnapshot
  BY DEF HealthInv
<1> QED
  BY <1>1, HealthInvariant, PTL

(* A request served within a settled period is answered with the status    *)
(* code and the body of the target's state (exporter.go:841-910).          *)
THEOREM SteadyAnswers == HSpec => []SteadyAnswer
<1>1. HealthInv => SteadyAnswer
  BY DEF HealthInv
<1> QED
  BY <1>1, HealthInvariant, PTL

(* The snapshot, the goroutines and the requests stay well typed in the    *)
(* full model too, whatever the target does (exporter.go:101-140).         *)
THEOREM WellTyped == Spec => []TypeOK
<1>1. Init => Basic
  <2> SUFFICES ASSUME Init PROVE TypeOK /\ Phases /\ StartingIsDown
    BY DEF Basic
  <2>1. TypeOK
    BY TargetsAssumption DEF Init, TypeOK, AllTargets, Statuses, Writers, Views, Kinds, DownView
  <2>2. Phases /\ StartingIsDown
    BY DEF Init, Phases, StartingIsDown, Writers, DownView
  <2> QED
    BY <2>1, <2>2
<1>2. Basic => TypeOK
  BY DEF Basic
<1> QED
  BY <1>1, <1>2, BasicStep, PTL DEF Spec
=============================================================================
