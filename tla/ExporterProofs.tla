----------------------------- MODULE ExporterProofs -----------------------------
(***************************************************************************)
(* Proofs about Exporter, for any number of scrapers, reloaders, readers,  *)
(* databases and versions of the configuration file.                       *)
(***************************************************************************)
EXTENDS Exporter, FiniteSetTheorems, TLAPS

LEMMA Constants ==
    /\ Procs = Scrapers \cup Reloading
    /\ Scrapers \cap Reloading = {}
    /\ Sig \in Reloading /\ Reloaders \subseteq Reloading
    /\ Free \notin Procs
    /\ None \notin Databases
    /\ Primary \in Databases
    /\ MaxFile \in Nat /\ 1 \in 1..MaxFile
BY ExporterAssumption DEF Procs, Reloading

-----------------------------------------------------------------------------
(* Types.                                                                  *)

LEMMA TypeInit == Init => TypeOK
<1> SUFFICES ASSUME Init PROVE TypeOK
  OBVIOUS
<1>1. pending \in BOOLEAN /\ asked \in BOOLEAN
  BY DEF Init
<1>2. dbs \subseteq Databases /\ known \subseteq Databases /\ servers \subseteq Databases
  BY DEF Init
<1> QED
  BY <1>1, <1>2, Constants DEF Init, TypeOK

LEMMA TypeStep == TypeOK /\ [Next]_vars => TypeOK'
<1> SUFFICES ASSUME TypeOK, [Next]_vars PROVE TypeOK'
  OBVIOUS
<1> USE Constants DEF goto, leave, unlockServer, ResetStats, live,
                      local, disc, config, locks, signal
<1>1. ASSUME NEW p \in Scrapers \cup Reloaders, request(p) PROVE TypeOK'
  BY <1>1 DEF request, TypeOK
<1>2. ASSUME NEW p \in Procs, lockServer(p) PROVE TypeOK'
  BY <1>2 DEF lockServer, TypeOK
<1>3. ASSUME NEW p \in Scrapers, precheck(p) PROVE TypeOK'
  BY <1>3 DEF precheck, OnDatabaseChange, TypeOK
<1>4. ASSUME NEW p \in Scrapers, precheckFails(p) PROVE TypeOK'
  BY <1>4 DEF precheckFails, TypeOK
<1>5. ASSUME NEW p \in Scrapers, Plan(p) PROVE TypeOK'
  BY <1>5 DEF Plan, TypeOK
<1>6. ASSUME NEW p \in Scrapers, execute(p) PROVE TypeOK'
  BY <1>6 DEF execute, TypeOK
<1>7. ASSUME NEW p \in Scrapers, lockExporter(p) PROVE TypeOK'
  BY <1>7 DEF lockExporter, TypeOK
<1>8. ASSUME NEW p \in Scrapers, scraped(p) PROVE TypeOK'
  BY <1>8 DEF scraped, TypeOK
<1>9. ASSUME NEW p \in Scrapers, snapshotStats(p) PROVE TypeOK'
  BY <1>9 DEF snapshotStats, TypeOK
<1>10. ASSUME NEW p \in Scrapers, iterated(p) PROVE TypeOK'
  BY <1>10 DEF iterated, TypeOK
<1>11. ASSUME NEW p \in Scrapers, unlockExporter(p) PROVE TypeOK'
  BY <1>11 DEF unlockExporter, TypeOK
<1>12. CASE receiveSignal
  BY <1>12 DEF receiveSignal, TypeOK
<1>13. ASSUME NEW p \in Reloading, lockReload(p) PROVE TypeOK'
  BY <1>13 DEF lockReload, TypeOK
<1>14. ASSUME NEW p \in Reloading, loadConfig(p) PROVE TypeOK'
  BY <1>14 DEF loadConfig, TypeOK
<1>15. ASSUME NEW p \in Reloading, loadFails(p) PROVE TypeOK'
  BY <1>15 DEF loadFails, TypeOK
<1>16. ASSUME NEW p \in Reloading, lockTarget(p) PROVE TypeOK'
  BY <1>16 DEF lockTarget, TypeOK
<1>17. ASSUME NEW p \in Reloading, swapQueries(p) PROVE TypeOK'
  BY <1>17 DEF swapQueries, TypeOK
<1>18. ASSUME NEW p \in Reloading, reloaded(p) PROVE TypeOK'
  BY <1>18 DEF reloaded, TypeOK
<1>19. ASSUME NEW r \in Readers, RLock(r) \/ RUnlock(r) PROVE TypeOK'
  BY <1>19 DEF RLock, RUnlock, TypeOK
<1>20. CASE editFile
  BY <1>20 DEF editFile, TypeOK
<1>21. CASE signalArrives
  BY <1>21 DEF signalArrives, TypeOK
<1>22. CASE databaseChange
  BY <1>22 DEF databaseChange, TypeOK
<1>23. CASE UNCHANGED vars
  BY <1>23 DEF vars, TypeOK
<1> QED
  BY <1>1, <1>2, <1>3, <1>4, <1>5, <1>6, <1>7, <1>8, <1>9, <1>10, <1>11, <1>12, <1>13, <1>14,
     <1>15, <1>16, <1>17, <1>18, <1>19, <1>20, <1>21, <1>22, <1>23 DEF Next, collect, reload

-----------------------------------------------------------------------------
(* Locks.                                                                  *)

\* Who holds which lock follows from where everybody is.
LEMMA LocksStep ==
    TypeOK /\ LocksHeld /\ [Next]_vars => LocksHeld'
<1> SUFFICES ASSUME TypeOK, LocksHeld, [Next]_vars
             PROVE  LocksHeld'
  OBVIOUS
<1> USE Constants DEF TypeOK, LocksHeld, ScrapersHold, ReloadersHold, WritersVisit,
                      ReadersOut, RangersInside, Scraping, Swapping, Visiting, goto,
                      local, disc, config, locks, signal
<1>1. ASSUME NEW p \in Scrapers \cup Reloaders, request(p) PROVE LocksHeld'
  BY <1>1 DEF request
<1>2. ASSUME NEW p \in Procs, lockServer(p) PROVE LocksHeld'
  BY <1>2 DEF lockServer
<1>3. ASSUME NEW p \in Scrapers, precheck(p) PROVE LocksHeld'
  BY <1>3 DEF precheck, entered
<1>4. ASSUME NEW p \in Scrapers, precheckFails(p) PROVE LocksHeld'
  BY <1>4 DEF precheckFails, entered, leave, unlockServer
<1>5. ASSUME NEW p \in Scrapers, Plan(p) PROVE LocksHeld'
  BY <1>5 DEF Plan, ResetStats
<1>6. ASSUME NEW p \in Scrapers, execute(p) PROVE LocksHeld'
  BY <1>6 DEF execute, leave, unlockServer
<1>7. ASSUME NEW p \in Scrapers, lockExporter(p) PROVE LocksHeld'
  BY <1>7 DEF lockExporter
<1>8. ASSUME NEW p \in Scrapers, scraped(p) PROVE LocksHeld'
  BY <1>8 DEF scraped, live
<1>9. ASSUME NEW p \in Scrapers, snapshotStats(p) PROVE LocksHeld'
  BY <1>9 DEF snapshotStats
<1>10. ASSUME NEW p \in Scrapers, iterated(p) PROVE LocksHeld'
  BY <1>10 DEF iterated
<1>11. ASSUME NEW p \in Scrapers, unlockExporter(p) PROVE LocksHeld'
  BY <1>11 DEF unlockExporter
<1>12. CASE receiveSignal
  BY <1>12 DEF receiveSignal
<1>13. ASSUME NEW p \in Reloading, lockReload(p) PROVE LocksHeld'
  BY <1>13 DEF lockReload
<1>14. ASSUME NEW p \in Reloading, loadConfig(p) PROVE LocksHeld'
  BY <1>14 DEF loadConfig
<1>15. ASSUME NEW p \in Reloading, loadFails(p) PROVE LocksHeld'
  BY <1>15 DEF loadFails
<1>16. ASSUME NEW p \in Reloading, lockTarget(p) PROVE LocksHeld'
  BY <1>16 DEF lockTarget, live
<1>17. ASSUME NEW p \in Reloading, swapQueries(p) PROVE LocksHeld'
  BY <1>17 DEF swapQueries, entered, unlockServer, ResetStats
<1>18. ASSUME NEW p \in Reloading, reloaded(p) PROVE LocksHeld'
  BY <1>18 DEF reloaded
<1>19. ASSUME NEW r \in Readers, RLock(r) \/ RUnlock(r) PROVE LocksHeld'
  BY <1>19 DEF RLock, RUnlock
<1>20. CASE editFile \/ signalArrives \/ databaseChange
  BY <1>20 DEF editFile, signalArrives, databaseChange
<1>21. CASE UNCHANGED vars
  BY <1>21 DEF vars
<1> QED
  BY <1>1, <1>2, <1>3, <1>4, <1>5, <1>6, <1>7, <1>8, <1>9, <1>10, <1>11, <1>12, <1>13, <1>14,
     <1>15, <1>16, <1>17, <1>18, <1>19, <1>20, <1>21 DEF Next, collect, reload

-----------------------------------------------------------------------------
(* Configurations.                                                         *)

\* Who has which configuration follows from who holds which lock.
LEMMA ConfigsStep ==
    TypeOK /\ ScrapersHold /\ ReloadersHold /\ ConfigsHeld /\ [Next]_vars => ConfigsHeld'
<1> SUFFICES ASSUME TypeOK, ScrapersHold, ReloadersHold, ConfigsHeld, [Next]_vars
             PROVE  ConfigsHeld'
  OBVIOUS
<1> USE Constants DEF TypeOK, ConfigsHeld, ServersSwapped, PlansMatch, LoadedRecently,
                      ScrapeVisits, ScrapeUses, ServersListed, ScrapersHold, ReloadersHold,
                      Scraping, Swapping, Visiting, Unswapped, live, goto,
                      local, disc, config, locks, signal
<1>1. ASSUME NEW p \in Scrapers \cup Reloaders, request(p) PROVE ConfigsHeld'
  BY <1>1 DEF request
<1>2. ASSUME NEW p \in Procs, lockServer(p) PROVE ConfigsHeld'
  BY <1>2 DEF lockServer
<1>3. ASSUME NEW p \in Scrapers, precheck(p) PROVE ConfigsHeld'
  BY <1>3 DEF precheck, OnDatabaseChange
<1>4. ASSUME NEW p \in Scrapers, precheckFails(p) PROVE ConfigsHeld'
  BY <1>4 DEF precheckFails, entered, leave, unlockServer
<1>5. ASSUME NEW p \in Scrapers, Plan(p) PROVE ConfigsHeld'
  BY <1>5 DEF Plan, ResetStats
<1>6. ASSUME NEW p \in Scrapers, execute(p) PROVE ConfigsHeld'
  BY <1>6 DEF execute, leave, unlockServer
<1>7. ASSUME NEW p \in Scrapers, lockExporter(p) PROVE ConfigsHeld'
  BY <1>7 DEF lockExporter
<1>8. ASSUME NEW p \in Scrapers, scraped(p) PROVE ConfigsHeld'
  BY <1>8 DEF scraped, live
<1>9. ASSUME NEW p \in Scrapers, snapshotStats(p) PROVE ConfigsHeld'
  BY <1>9 DEF snapshotStats
<1>10. ASSUME NEW p \in Scrapers, iterated(p) PROVE ConfigsHeld'
  BY <1>10 DEF iterated
<1>11. ASSUME NEW p \in Scrapers, unlockExporter(p) PROVE ConfigsHeld'
  BY <1>11 DEF unlockExporter
<1>12. CASE receiveSignal
  BY <1>12 DEF receiveSignal
<1>13. ASSUME NEW p \in Reloading, lockReload(p) PROVE ConfigsHeld'
  BY <1>13 DEF lockReload
<1>14. ASSUME NEW p \in Reloading, loadConfig(p) PROVE ConfigsHeld'
  BY <1>14 DEF loadConfig
<1>15. ASSUME NEW p \in Reloading, loadFails(p) PROVE ConfigsHeld'
  BY <1>15 DEF loadFails
<1>16. ASSUME NEW p \in Reloading, lockTarget(p) PROVE ConfigsHeld'
  BY <1>16 DEF lockTarget, live
<1>17. ASSUME NEW p \in Reloading, swapQueries(p) PROVE ConfigsHeld'
  BY <1>17 DEF swapQueries, entered, unlockServer, ResetStats
<1>18. ASSUME NEW p \in Reloading, reloaded(p) PROVE ConfigsHeld'
  BY <1>18 DEF reloaded
<1>19. ASSUME NEW r \in Readers, RLock(r) \/ RUnlock(r) PROVE ConfigsHeld'
  BY <1>19 DEF RLock, RUnlock
<1>20. CASE editFile \/ signalArrives \/ databaseChange
  BY <1>20 DEF editFile, signalArrives, databaseChange
<1>21. CASE UNCHANGED vars
  BY <1>21 DEF vars
<1> QED
  BY <1>1, <1>2, <1>3, <1>4, <1>5, <1>6, <1>7, <1>8, <1>9, <1>10, <1>11, <1>12, <1>13, <1>14,
     <1>15, <1>16, <1>17, <1>18, <1>19, <1>20, <1>21 DEF Next, collect, reload

-----------------------------------------------------------------------------
(* The theorems.                                                           *)

LEMMA InvInit == Init => ExporterInv
<1> SUFFICES ASSUME Init PROVE ExporterInv
  OBVIOUS
<1> USE Constants
<1>1. TypeOK
  BY TypeInit
<1>2. LocksHeld
  BY DEF Init, LocksHeld, ScrapersHold, ReloadersHold, WritersVisit, ReadersOut, RangersInside,
         Scraping, Swapping, Visiting
<1>3. ConfigsHeld
  BY DEF Init, ConfigsHeld, ServersSwapped, PlansMatch, LoadedRecently, ScrapeVisits, ScrapeUses,
         ServersListed, Scraping, Swapping, Visiting, live
<1> QED
  BY <1>1, <1>2, <1>3 DEF ExporterInv

LEMMA InvStep == ExporterInv /\ [Next]_vars => ExporterInv'
BY TypeStep, LocksStep, ConfigsStep DEF ExporterInv, LocksHeld

(* Types, who holds which lock, and which configuration each server and    *)
(* each scrape has, in every state (exporter.go:234-335, main.go:123-170). *)
THEOREM ExporterInvariant == Spec => []ExporterInv
<1>1. Init => ExporterInv
  BY InvInit
<1>2. ExporterInv /\ [Next]_vars => ExporterInv'
  BY InvStep
<1> QED
  BY <1>1, <1>2, PTL DEF Spec

(* No statistics map is written while another goroutine reads it or ranges *)
(* over it, although the ranging happens after the RUnlock: Exporter.lock  *)
(* spans a whole scrape, metrics included (exporter.go:235, 291-333).      *)
THEOREM NoMapShared == Spec => []MapsUnshared
<1>1. ExporterInv => MapsUnshared
  <2> SUFFICES ASSUME ExporterInv, NEW p \in Scrapers, pc[p] = "execute"
               PROVE  /\ readers[at[p]] = {}
                      /\ \A o \in Scrapers : iter[o] # at[p]
    BY DEF MapsUnshared
  <2>1. readers[at[p]] = {}
    BY DEF ExporterInv, LocksHeld, ReadersOut
  <2>2. at[p] # None
    BY Constants DEF ExporterInv, TypeOK
  <2>3. exporterLock = p
    BY DEF ExporterInv, LocksHeld, ScrapersHold, Scraping
  <2>4. ASSUME NEW o \in Scrapers, iter[o] = at[p] PROVE FALSE
    <3>1. pc[o] = "iterate"
      BY <2>2, <2>4 DEF ExporterInv, LocksHeld, RangersInside
    <3>2. exporterLock = o
      BY <3>1 DEF ExporterInv, LocksHeld, ScrapersHold, Scraping
    <3> QED
      BY <2>3, <3>1, <3>2
  <2> QED
    BY <2>1, <2>4
<1> QED
  BY <1>1, ExporterInvariant, PTL

(* All the queries one scrape runs come from one version of the            *)
(* configuration (main.go:145-166, exporter.go:235).                       *)
THEOREM OneConfig == Spec => []OneConfigPerScrape
<1>1. ExporterInv => OneConfigPerScrape
  <2> SUFFICES ASSUME ExporterInv, NEW p \in Scrapers PROVE Cardinality(used[p]) <= 1
    BY DEF OneConfigPerScrape
  <2>1. used[p] \subseteq {queries}
    BY DEF ExporterInv, ConfigsHeld, ScrapeUses
  <2>2. IsFiniteSet({queries}) /\ Cardinality({queries}) = 1
    BY FS_Singleton
  <2>3. Cardinality(used[p]) <= Cardinality({queries})
    BY <2>1, <2>2, FS_Subset
  <2> QED
    BY <2>2, <2>3
<1> QED
  BY <1>1, ExporterInvariant, PTL

(* Between scrapes and reloads every server has the exporter's queries and *)
(* no plan made from others (main.go:149-166, exporter.go:652).            *)
THEOREM Agreement == Spec => []ServersAgree
<1>1. ExporterInv => ServersAgree
  <2> SUFFICES ASSUME ExporterInv, exporterLock = Free, NEW s \in live
               PROVE  conf[s] = queries /\ collectors[s] \in {0, queries}
    BY DEF ServersAgree
  <2>1. ASSUME NEW p \in Reloading PROVE pc[p] \notin Swapping
    BY Constants DEF ExporterInv, LocksHeld, ReloadersHold
  <2>2. conf[s] = queries
    BY <2>1 DEF ExporterInv, ConfigsHeld, ServersSwapped
  <2>3. collectors[s] = conf[s] \/ collectors[s] = 0
    BY DEF ExporterInv, ConfigsHeld, PlansMatch
  <2> QED
    BY <2>2, <2>3
<1> QED
  BY <1>1, ExporterInvariant, PTL

(* There is a server for each selected database the primary has listed,    *)
(* and for no other (exporter.go:617-645, server.go:339-365).              *)
THEOREM Discovered == Spec => []ServersFollowDatabases
<1>1. ExporterInv => ServersFollowDatabases
  BY DEF ExporterInv, ConfigsHeld, ServersListed, ServersFollowDatabases
<1> QED
  BY <1>1, ExporterInvariant, PTL

(* No circle of goroutines waits for each other's locks, for any number of *)
(* them (main.go:123-168, exporter.go:234-335, server.go:577-582).         *)
THEOREM LockOrder == Spec => []LocksInOrder
<1>1. ASSUME ExporterInv, NEW p \in Procs, NEW h \in Held(p), NEW l \in Awaited(p)
      PROVE  h < l
  <2>1. h \in 1..3 /\ l \in 1..4
    BY DEF Held, Awaited
  <2>2. CASE h = 1
    <3>1. reloadLock = p /\ p \in Reloading
      BY <1>1, <2>2, Constants DEF Held, ExporterInv, TypeOK
    <3>2. pc[p] # "waiting" /\ p \notin Scrapers
      BY <1>1, <3>1, ExporterAssumption DEF ExporterInv, LocksHeld, ReloadersHold, Swapping
    <3> QED
      BY <2>1, <2>2, <3>2 DEF Awaited
  <2>3. CASE h = 2
    <3>1. exporterLock = p
      BY <2>3 DEF Held
    <3>2. pc[p] \in Scraping \cup Swapping
      BY <1>1, <3>1 DEF ExporterInv, LocksHeld, ScrapersHold, ReloadersHold, Procs
    <3> QED
      BY <2>1, <2>3, <3>2 DEF Awaited, Scraping, Swapping
  <2>4. CASE h = 3
    <3>1. PICK s \in Databases : writer[s] = p
      BY <2>4 DEF Held
    <3>2. pc[p] \in Visiting
      BY <1>1, <3>1 DEF ExporterInv, LocksHeld, WritersVisit
    <3> QED
      BY <2>1, <2>4, <3>2 DEF Awaited, Visiting
  <2> QED
    BY <2>1, <2>2, <2>3, <2>4
<1>2. ExporterInv => LocksInOrder
  BY <1>1 DEF LocksInOrder
<1> QED
  BY <1>2, ExporterInvariant, PTL

(* The queries of the exporter only ever change to a version no older      *)
(* (main.go:124, 131, 149).                                                *)
THEOREM Forwards == Spec => NeverBackwards
<1>1. ExporterInv /\ [Next]_vars => [queries' >= queries]_queries
  <2> SUFFICES ASSUME ExporterInv, [Next]_vars, queries' # queries PROVE queries' >= queries
    BY DEF ExporterInv
  <2>1. PICK p \in Reloading : lockTarget(p)
    BY DEF Next, vars, collect, reload, request, lockServer, precheck, precheckFails, leave, Plan,
           execute, lockExporter, scraped, snapshotStats, iterated, unlockExporter, receiveSignal,
           lockReload, loadConfig, loadFails, swapQueries, reloaded, RLock, RUnlock, editFile,
           signalArrives, databaseChange, config
  <2>2. pc[p] = "loaded" /\ queries' = loaded[p]
    BY <2>1 DEF lockTarget
  <2> QED
    BY <2>2 DEF ExporterInv, TypeOK, ConfigsHeld, LoadedRecently
<1> QED
  BY <1>1, ExporterInvariant, PTL DEF Spec, NeverBackwards

-----------------------------------------------------------------------------
(* The exporter implements one register.                                   *)

\* While p holds Exporter.lock no other scrape has run anything.
LEMMA OthersIdle ==
    ASSUME ExporterInv, NEW p \in Procs, exporterLock = p, NEW o \in Scrapers, o # p
    PROVE  used[o] = {}
<1>1. pc[o] \notin Scraping
  BY DEF ExporterInv, LocksHeld, ScrapersHold
<1> QED
  BY <1>1 DEF ExporterInv, ConfigsHeld, ScrapeUses

LEMMA ExecuteRefines ==
    ASSUME ExporterInv, NEW p \in Scrapers, execute(p)
    PROVE  Register!Next
<1>1. pc[p] = "execute" /\ exporterLock = p
  BY DEF execute, ExporterInv, LocksHeld, ScrapersHold, Scraping
<1>2. at[p] \in live /\ at[p] \in planned
  BY <1>1 DEF ExporterInv, ConfigsHeld, ScrapeVisits
<1>3. \A q \in Reloading : pc[q] \notin Swapping
  BY <1>1, Constants DEF ExporterInv, LocksHeld, ReloadersHold
<1>4. conf[at[p]] = queries /\ collectors[at[p]] = conf[at[p]]
  BY <1>2, <1>3 DEF ExporterInv, ConfigsHeld, ServersSwapped, PlansMatch
<1>5. Register!Alone(p)
  BY <1>1, OthersIdle DEF Register!Alone, Procs
<1>6. used' = [used EXCEPT ![p] = @ \cup {queries}] /\ queries' = queries
  BY <1>4 DEF execute, leave, config
<1> QED
  BY <1>5, <1>6 DEF Register!Run, Register!Next

LEMMA LockTargetRefines ==
    ASSUME ExporterInv, NEW p \in Reloading, lockTarget(p)
    PROVE  Register!Next
<1>1. pc[p] = "loaded" /\ exporterLock = Free /\ queries' = loaded[p] /\ used' = used
  BY DEF lockTarget
<1>2. \A o \in Scrapers : used[o] = {}
  <2> SUFFICES ASSUME NEW o \in Scrapers PROVE used[o] = {}
    OBVIOUS
  <2>1. pc[o] \notin Scraping
    BY <1>1, Constants DEF ExporterInv, LocksHeld, ScrapersHold, Procs
  <2> QED
    BY <2>1 DEF ExporterInv, ConfigsHeld, ScrapeUses
<1>3. loaded[p] \in queries..MaxFile
  BY <1>1, ExporterAssumption DEF ExporterInv, TypeOK, ConfigsHeld, LoadedRecently
<1> QED
  BY <1>1, <1>2, <1>3 DEF Register!Install, Register!Next

LEMMA ForgetRefines ==
    ASSUME ExporterInv, NEW p \in Scrapers, lockExporter(p) \/ unlockExporter(p)
    PROVE  Register!Next
<1>1. used' = [used EXCEPT ![p] = {}] /\ queries' = queries
  BY DEF lockExporter, unlockExporter, config
<1> QED
  BY <1>1 DEF Register!End, Register!Next

(* Any step of the exporter is a step of the register, or does not touch   *)
(* it.                                                                     *)
LEMMA StepRefines == ExporterInv /\ [Next]_vars => [Register!Next]_Register!vars
<1> SUFFICES ASSUME ExporterInv, [Next]_vars PROVE [Register!Next]_Register!vars
  OBVIOUS
<1>1. CASE \E p \in Scrapers : execute(p) \/ lockExporter(p) \/ unlockExporter(p)
  BY <1>1, ExecuteRefines, ForgetRefines
<1>2. CASE \E p \in Reloading : lockTarget(p)
  BY <1>2, LockTargetRefines
<1>3. CASE /\ ~\E p \in Scrapers : execute(p) \/ lockExporter(p) \/ unlockExporter(p)
           /\ ~\E p \in Reloading : lockTarget(p)
  <2>1. UNCHANGED <<queries, used>>
    BY <1>3 DEF Next, vars, collect, reload, request, lockServer, precheck, precheckFails, leave,
       Plan, scraped, snapshotStats, iterated, receiveSignal, lockReload, loadConfig, loadFails,
       swapQueries, reloaded, RLock, RUnlock, editFile, signalArrives, databaseChange, config, local
  <2> QED
    BY <2>1 DEF Register!vars
<1> QED
  BY <1>1, <1>2, <1>3

(* For whoever scrapes it, the exporter's configuration is one register    *)
(* that a reload replaces at once, for any number of goroutines and        *)
(* databases.                                                              *)
THEOREM ImplementsOneRegister == Spec => ImplementsRegister
<1>1. Init => Register!Init
  BY DEF Init, Register!Init
<1> QED
  BY <1>1, StepRefines, ExporterInvariant, PTL DEF Spec, Register!Spec, ImplementsRegister

-----------------------------------------------------------------------------
(* The precheck of the primary server is the one step of discovery.        *)

LEMMA PrecheckFollows ==
    ASSUME NEW p \in Scrapers, precheck(p)
    PROVE  Follower!Follow \/ UNCHANGED disc
<1>1. CASE at[p] = Primary
  <2> DEFINE listed == known \cup {Primary}
  <2>1. /\ servers' = OnDatabaseChange(dbs \ listed, listed \ dbs)
        /\ known' = dbs /\ dbs' = dbs
    BY <1>1 DEF precheck
  <2>2. servers' = (servers \cup {d \in dbs \ listed : Follower!Followed(d)})
                            \ {d \in listed \ dbs : Follower!Followed(d)}
    BY <2>1 DEF OnDatabaseChange, Follower!Followed
  <2> QED
    BY <2>1, <2>2 DEF Follower!Follow
<1>2. CASE at[p] # Primary
  BY <1>2 DEF precheck, disc
<1> QED
  BY <1>1, <1>2

LEMMA StepFollows == TypeOK /\ [Next]_vars => [Follower!Next]_Follower!vars
<1> SUFFICES ASSUME TypeOK, [Next]_vars PROVE [Follower!Next]_Follower!vars
  OBVIOUS
<1>1. CASE \E p \in Scrapers : precheck(p)
  BY <1>1, PrecheckFollows DEF Follower!Next, Follower!vars, disc
<1>2. CASE databaseChange
  <2>1. dbs' \subseteq Databases /\ UNCHANGED <<known, servers>>
    BY <1>2 DEF databaseChange, TypeOK
  <2> QED
    BY <2>1, ExporterAssumption DEF Follower!Change, Follower!Next
<1>3. CASE ~databaseChange /\ ~\E p \in Scrapers : precheck(p)
  <2>1. UNCHANGED <<dbs, known, servers>>
    BY <1>3 DEF Next, vars, collect, reload, request, lockExporter, lockServer, precheckFails, leave,
       Plan, execute, scraped, snapshotStats, iterated, unlockExporter, receiveSignal, lockReload,
       loadConfig, loadFails, lockTarget, swapQueries, reloaded, RLock, RUnlock, editFile,
       signalArrives, disc
  <2> QED
    BY <2>1 DEF Follower!vars
<1> QED
  BY <1>1, <1>2, <1>3

(* Scrapes have the servers follow the list of databases as Discovery does *)
(* in detail, for any number of goroutines and databases                   *)
(* (exporter.go:617-645, server.go:339-365).                               *)
THEOREM Follows == Spec => ImplementsFollower
<1>1. Init => Follower!Init
  BY ExporterAssumption DEF Init, Follower!Init, Follower!Followed
<1>2. ExporterInv => TypeOK
  BY DEF ExporterInv
<1> QED
  BY <1>1, <1>2, StepFollows, ExporterInvariant, PTL DEF Spec, Follower!Spec, ImplementsFollower
=============================================================================
