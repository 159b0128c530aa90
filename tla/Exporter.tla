------------------------------- MODULE Exporter -------------------------------
(***************************************************************************)
(* The Exporter and its locks: concurrent scrapes (Exporter.Collect), the  *)
(* reloads of the signal goroutine and of the /reload handler (Reload),    *)
(* the readers of the primary server (/stat, /explain, the health probe)   *)
(* and the auto-discovered servers that a scrape creates and removes.      *)
(*                                                                         *)
(* Locks are taken in the order ReloadLock, Exporter.lock, Server.lock.    *)
(* dblistLock and sLock are only ever taken by the holder of Exporter.lock *)
(* and for a few assignments, so what they guard is one step here.  What a *)
(* scrape of one server does is in Server and Collector.                   *)
(***************************************************************************)
EXTENDS Integers, FiniteSets

CONSTANTS
    Scrapers,    \* goroutines that serve /metrics
    Reloaders,   \* goroutines that serve /reload
    Readers,     \* goroutines that read the primary server under its RLock
    Databases,   \* names of databases
    Primary,     \* the database of Exporter.server
    Selected,    \* databases the include and exclude lists let through
    MaxFile,     \* the last version of the configuration file
    Bad          \* versions that LoadConfig or the label check refuses

Sig  == "signal"                  \* the goroutine that reads the signal channel
Free == "free"
None == "none"

Reloading == Reloaders \cup {Sig}
Procs     == Scrapers \cup Reloading

ASSUME ExporterAssumption ==
    /\ Primary \in Databases
    /\ Selected \subseteq Databases
    /\ MaxFile \in Nat \ {0}
    /\ Bad \subseteq 2..MaxFile
    /\ Scrapers \cap Reloading = {}
    /\ Free \notin Procs
    /\ None \notin Databases

VARIABLES
    file,            \* version of the configuration file on disk
    pending,         \* a signal is in the channel, which holds one
    asked,           \* history: a signal was sent after the last edit of all
    reloadLock, exporterLock,
    writer, readers, \* Server.lock: who holds or awaits it for writing; who reads
    queries,         \* version of the queries in Exporter.queries
    dbs,             \* databases the target has
    known,           \* Databases of the primary server
    servers,         \* databases with a server in Exporter.servers
    conf,            \* per server, the version of Server.queries
    collectors,      \* per server, the version its Collectors come from, 0: nil
    planned,         \* servers whose Planned is set
    pc, todo, at, loaded,  \* per goroutine: the servers it has still to visit,
                           \* the one it is at, the configuration it has read;
                           \* at and loaded go back to a default with the call
    iter,            \* per scraper, the server whose current statistics maps it
                     \* ranges over without a lock
    used             \* history: per scraper, versions its scrape has executed

locks  == <<reloadLock, exporterLock, writer, readers>>
config == <<queries, conf, collectors, planned>>
disc   == <<dbs, known, servers>>
signal == <<file, pending, asked>>
local  == <<todo, at, loaded, iter, used>>
vars   == <<signal, locks, config, disc, pc, local>>

TypeOK ==
    /\ file \in 1..MaxFile /\ pending \in BOOLEAN /\ asked \in BOOLEAN
    /\ reloadLock \in Reloading \cup {Free}
    /\ exporterLock \in Procs \cup {Free}
    /\ writer \in [Databases -> Procs \cup {Free}]
    /\ readers \in [Databases -> SUBSET Readers]
    /\ queries \in 1..MaxFile
    /\ dbs \subseteq Databases /\ known \subseteq Databases /\ servers \subseteq Databases
    /\ conf \in [Databases -> 1..MaxFile]
    /\ collectors \in [Databases -> 0..MaxFile]
    /\ planned \subseteq Databases
    /\ pc \in [Procs -> {"idle", "waiting", "next", "enter", "plan", "execute", "metrics",
                         "iterate", "load", "loaded", "swap", "swapping"}]
    /\ todo \in [Procs -> SUBSET Databases]
    /\ at \in [Procs -> Databases]
    /\ loaded \in [Reloading -> 1..MaxFile]
    /\ iter \in [Scrapers -> Databases \cup {None}]
    /\ used \in [Scrapers -> SUBSET (0..MaxFile)]

(* NewExporter has loaded the file and checked the primary server, which   *)
(* may already have discovered databases.                                  *)
Init ==
    /\ file = 1 /\ pending = FALSE /\ asked = FALSE
    /\ reloadLock = Free /\ exporterLock = Free
    /\ writer = [s \in Databases |-> Free] /\ readers = [s \in Databases |-> {}]
    /\ queries = 1
    /\ dbs \in {d \in SUBSET Databases : Primary \in d}
    /\ known \in {{}, dbs}
    /\ servers = (known \cap Selected) \ {Primary}
    /\ conf = [s \in Databases |-> 1]
    /\ collectors = [s \in Databases |-> 0] /\ planned = {}
    /\ pc = [p \in Procs |-> "idle"]
    /\ todo = [p \in Procs |-> {}] /\ at = [p \in Procs |-> Primary]
    /\ loaded = [p \in Reloading |-> 1]
    /\ iter = [p \in Scrapers |-> None] /\ used = [p \in Scrapers |-> {}]

live == servers \cup {Primary}    \* the servers the exporter has

goto(p, l) == pc' = [pc EXCEPT ![p] = l]

(* ResetStats replaces the statistics maps: who ranges over the old ones   *)
(* shares them with nobody any more.                                       *)
ResetStats(s) == iter' = [p \in Scrapers |-> IF iter[p] = s THEN None ELSE iter[p]]

-----------------------------------------------------------------------------
(* Requests, and visiting servers one after the other.                     *)

request(p) ==
    /\ pc[p] = "idle" /\ p # Sig
    /\ goto(p, "waiting")
    /\ UNCHANGED <<signal, locks, config, disc, local>>

(* Server.lock.Lock, first half: from here on no reader gets in.           *)
lockServer(p) ==
    /\ pc[p] \in {"next", "swap"}
    /\ \E s \in todo[p] :
        /\ writer[s] = Free
        /\ writer' = [writer EXCEPT ![s] = p]
        /\ todo' = [todo EXCEPT ![p] = @ \ {s}]
        /\ at' = [at EXCEPT ![p] = s]
    /\ pc' = [pc EXCEPT ![p] = IF @ = "next" THEN "enter" ELSE "swapping"]
    /\ UNCHANGED <<signal, reloadLock, exporterLock, readers, config, disc, loaded, iter, used>>

(* The second half: the readers have left.                                 *)
entered(p) == readers[at[p]] = {}

unlockServer(p) == writer' = [writer EXCEPT ![at[p]] = Free]

-----------------------------------------------------------------------------
(* OnDatabaseChange: the servers after the creations and removals that the *)
(* changes ask for.  The primary's own database is skipped.                *)
OnDatabaseChangeAddingOnly(added, removed) == servers \cup ((added \cap Selected) \ {Primary})

OnDatabaseChange(added, removed) ==
    (servers \cup ((added \cap Selected) \ {Primary})) \ ((removed \cap Selected) \ {Primary})

(* Precheck of one server, with Server.lock: for the primary it compares   *)
(* the databases with those it knew and calls the hook.  CreateServer      *)
(* hands the exporter's queries to a new server.                           *)
precheck(p) ==
    /\ pc[p] = "enter" /\ entered(p)
    /\ \E facts \in {"same", "changed"} :
         LET s        == at[p]
             fact     == IF facts = "same" THEN planned ELSE planned \ {s}
             listed   == known \cup {Primary}
             after    == OnDatabaseChange(dbs \ listed, listed \ dbs)
             created  == after \ servers
         IN IF s = Primary
            THEN /\ servers' = after /\ known' = dbs
                 /\ conf' = [d \in Databases |-> IF d \in created THEN queries ELSE conf[d]]
                 /\ collectors' = [d \in Databases |-> IF d \in created THEN 0 ELSE collectors[d]]
                 /\ planned' = fact \ created
            ELSE /\ planned' = fact
                 /\ UNCHANGED <<servers, known, conf, collectors>>
    /\ goto(p, "plan")
    /\ UNCHANGED <<signal, locks, queries, dbs, local>>

\* A server that answers no precheck is left; the scrape goes on.
leave(p) ==
    /\ unlockServer(p)
    /\ todo' = [todo EXCEPT ![p] = IF at[p] = Primary THEN servers ELSE @]   \* IterateServer
    /\ goto(p, "next")
    /\ UNCHANGED <<signal, reloadLock, exporterLock, readers, config, disc, at, loaded, iter>>

precheckFails(p) ==
    /\ pc[p] = "enter" /\ entered(p)
    /\ leave(p)
    /\ UNCHANGED used

Plan(p) ==
    /\ pc[p] = "plan"
    /\ \/ at[p] \in planned /\ UNCHANGED <<collectors, planned, iter>>
       \/ /\ at[p] \notin planned
          /\ collectors' = [collectors EXCEPT ![at[p]] = conf[at[p]]]
          /\ planned' = planned \cup {at[p]}
          /\ ResetStats(at[p])
    /\ goto(p, "execute")
    /\ UNCHANGED <<signal, locks, queries, conf, disc, todo, at, loaded, used>>

(* The Collectors run, one executeQuery after the other, each of which     *)
(* writes the statistics maps.                                             *)
execute(p) ==
    /\ pc[p] = "execute"
    /\ used' = [used EXCEPT ![p] = @ \cup {collectors[at[p]]}]
    /\ leave(p)

-----------------------------------------------------------------------------
(* Exporter.Collect.                                                       *)

lockExporter(p) ==
    /\ p \in Scrapers
    /\ pc[p] = "waiting" /\ exporterLock = Free
    /\ exporterLock' = p
    /\ todo' = [todo EXCEPT ![p] = {Primary}]
    /\ used' = [used EXCEPT ![p] = {}]
    /\ goto(p, "next")
    /\ UNCHANGED <<signal, reloadLock, writer, readers, config, disc, at, loaded, iter>>

\* A scrape that does not keep Exporter.lock while it emits metrics.
scrapedUnlocking(p) ==
    /\ p \in Scrapers
    /\ pc[p] = "next" /\ todo[p] = {} /\ writer[Primary] = Free
    /\ exporterLock' = Free
    /\ todo' = [todo EXCEPT ![p] = live]
    /\ goto(p, "metrics")
    /\ UNCHANGED <<signal, reloadLock, writer, readers, config, disc, at, loaded, iter, used>>

(* All servers have been visited; the primary's state is read under its    *)
(* RLock and published (HealthState), then collectServerMetrics starts.    *)
scraped(p) ==
    /\ p \in Scrapers
    /\ pc[p] = "next" /\ todo[p] = {} /\ writer[Primary] = Free
    /\ todo' = [todo EXCEPT ![p] = live]
    /\ goto(p, "metrics")
    /\ UNCHANGED <<signal, locks, config, disc, at, loaded, iter, used>>

(* The maps of one server are copied by reference under its RLock ...      *)
snapshotStats(p) ==
    /\ pc[p] = "metrics"
    /\ \E s \in todo[p] : /\ writer[s] = Free
                          /\ todo' = [todo EXCEPT ![p] = @ \ {s}]
                          /\ iter' = [iter EXCEPT ![p] = s]
    /\ goto(p, "iterate")
    /\ UNCHANGED <<signal, locks, config, disc, at, loaded, used>>

(* ... and ranged over after the RUnlock.                                  *)
iterated(p) ==
    /\ pc[p] = "iterate"
    /\ iter' = [iter EXCEPT ![p] = None]
    /\ goto(p, "metrics")
    /\ UNCHANGED <<signal, locks, config, disc, todo, at, loaded, used>>

unlockExporter(p) ==
    /\ pc[p] = "metrics" /\ todo[p] = {}
    /\ exporterLock' = Free
    /\ at' = [at EXCEPT ![p] = Primary] /\ used' = [used EXCEPT ![p] = {}]
    /\ goto(p, "idle")
    /\ UNCHANGED <<signal, reloadLock, writer, readers, config, disc, todo, loaded, iter>>

-----------------------------------------------------------------------------
(* Reload, by the signal goroutine and by /reload handlers.                *)

receiveSignal ==
    /\ pc[Sig] = "idle" /\ pending
    /\ pending' = FALSE
    /\ goto(Sig, "waiting")
    /\ UNCHANGED <<file, asked, locks, config, disc, local>>

lockReload(p) ==
    /\ p \in Reloading
    /\ pc[p] = "waiting" /\ reloadLock = Free
    /\ reloadLock' = p
    /\ goto(p, "load")
    /\ UNCHANGED <<signal, exporterLock, writer, readers, config, disc, local>>

\* A Reload that gives ReloadLock back once it has read the file.
loadConfigUnlocking(p) ==
    /\ pc[p] = "load" /\ file \notin Bad
    /\ loaded' = [loaded EXCEPT ![p] = file]
    /\ reloadLock' = Free
    /\ goto(p, "loaded")
    /\ UNCHANGED <<signal, exporterLock, writer, readers, config, disc, todo, at, iter, used>>

loadConfig(p) ==
    /\ pc[p] = "load" /\ file \notin Bad
    /\ loaded' = [loaded EXCEPT ![p] = file]
    /\ goto(p, "loaded")
    /\ UNCHANGED <<signal, locks, config, disc, todo, at, iter, used>>

\* A Reload whose error returns keep ReloadLock.
loadFailsKeepingLock(p) ==
    /\ pc[p] = "load" /\ file \in Bad
    /\ goto(p, "idle")
    /\ UNCHANGED <<signal, locks, config, disc, local>>

(* LoadConfig or validateConstLabelConflicts fails: all stays as it was.   *)
loadFails(p) ==
    /\ pc[p] = "load" /\ file \in Bad
    /\ reloadLock' = Free
    /\ goto(p, "idle")
    /\ UNCHANGED <<signal, exporterLock, writer, readers, config, disc, local>>

\* A Reload that does not block scrapes.
lockTargetNotBlocking(p) ==
    /\ pc[p] = "loaded"
    /\ exporterLock' = p
    /\ queries' = loaded[p]
    /\ todo' = [todo EXCEPT ![p] = live]
    /\ goto(p, "swap")
    /\ UNCHANGED <<signal, reloadLock, writer, readers, conf, collectors, planned, disc, at,
                   loaded, iter, used>>

lockTarget(p) ==
    /\ pc[p] = "loaded" /\ exporterLock = Free
    /\ exporterLock' = p
    /\ queries' = loaded[p]
    /\ todo' = [todo EXCEPT ![p] = live]
    /\ goto(p, "swap")
    /\ UNCHANGED <<signal, reloadLock, writer, readers, conf, collectors, planned, disc, at,
                   loaded, iter, used>>

\* A Reload that only replaces the queries.
swapQueriesKeepingPlan(p) ==
    /\ pc[p] = "swapping" /\ entered(p)
    /\ conf' = [conf EXCEPT ![at[p]] = loaded[p]]
    /\ unlockServer(p)
    /\ goto(p, "swap")
    /\ UNCHANGED <<signal, reloadLock, exporterLock, readers, queries, collectors, planned, disc,
                   local>>

swapQueries(p) ==
    /\ pc[p] = "swapping" /\ entered(p)
    /\ conf' = [conf EXCEPT ![at[p]] = loaded[p]]
    /\ collectors' = [collectors EXCEPT ![at[p]] = 0]
    /\ planned' = planned \ {at[p]}
    /\ ResetStats(at[p])
    /\ unlockServer(p)
    /\ goto(p, "swap")
    /\ UNCHANGED <<signal, reloadLock, exporterLock, readers, queries, disc, todo, at, loaded, used>>

reloaded(p) ==
    /\ pc[p] = "swap" /\ todo[p] = {}
    /\ exporterLock' = Free /\ reloadLock' = Free
    /\ at' = [at EXCEPT ![p] = Primary] /\ loaded' = [loaded EXCEPT ![p] = 1]
    /\ goto(p, "idle")
    /\ UNCHANGED <<signal, writer, readers, config, disc, todo, iter, used>>

-----------------------------------------------------------------------------
(* Stat, Explain and ProbeHealth, which read the primary server.           *)

RLock(r) ==
    /\ r \notin readers[Primary] /\ writer[Primary] = Free
    /\ readers' = [readers EXCEPT ![Primary] = @ \cup {r}]
    /\ UNCHANGED <<signal, reloadLock, exporterLock, writer, config, disc, pc, local>>

RUnlock(r) ==
    /\ r \in readers[Primary]
    /\ readers' = [readers EXCEPT ![Primary] = @ \ {r}]
    /\ UNCHANGED <<signal, reloadLock, exporterLock, writer, config, disc, pc, local>>

-----------------------------------------------------------------------------
(* The environment: an operator who edits the file and sends signals, and  *)
(* databases that come and go.                                             *)

editFile ==
    /\ file < MaxFile
    /\ file' = file + 1
    /\ UNCHANGED <<pending, asked, locks, config, disc, pc, local>>

\* A channel without a buffer: the signal is lost unless it is waited for.
signalArrivesUnbuffered ==
    /\ asked' = (file = MaxFile)
    /\ \/ pc[Sig] = "idle" /\ goto(Sig, "waiting")
       \/ pc[Sig] # "idle" /\ UNCHANGED pc
    /\ UNCHANGED <<file, pending, locks, config, disc, local>>

(* signal.Notify drops a signal for which the channel has no room.         *)
signalArrives ==
    /\ asked' = (file = MaxFile)
    /\ pending' = TRUE
    /\ UNCHANGED <<file, locks, config, disc, pc, local>>

databaseChange ==
    /\ \E d \in Databases \ {Primary} :
         \/ d \in dbs    /\ dbs' = dbs \ {d}
         \/ d \notin dbs /\ dbs' = dbs \cup {d}
    /\ UNCHANGED <<signal, locks, config, known, servers, pc, local>>

-----------------------------------------------------------------------------
collect(p) == \/ lockExporter(p) \/ lockServer(p)
              \/ precheck(p) \/ precheckFails(p) \/ Plan(p) \/ execute(p)
              \/ scraped(p) \/ snapshotStats(p) \/ iterated(p) \/ unlockExporter(p)

reload(p)  == \/ lockReload(p) \/ loadConfig(p) \/ loadFails(p) \/ lockTarget(p)
              \/ lockServer(p) \/ swapQueries(p) \/ reloaded(p)

Next == \/ \E p \in Scrapers \cup Reloaders : request(p)
        \/ \E p \in Scrapers : collect(p)
        \/ receiveSignal
        \/ \E p \in Reloading : reload(p)
        \/ \E r \in Readers : RLock(r) \/ RUnlock(r)
        \/ editFile \/ signalArrives \/ databaseChange

Spec == Init /\ [][Next]_vars

(* Goroutines run on, every round trip has a timeout, and sync.Mutex and   *)
(* sync.RWMutex starve no waiter (a waiter of more than a millisecond is   *)
(* served in turn; a waiting writer keeps new readers out).  Requests,     *)
(* signals and edits come as they like.                                    *)
Fairness ==
    /\ \A p \in Scrapers  : WF_vars(collect(p)) /\ SF_vars(lockExporter(p))
    /\ \A p \in Reloading : /\ WF_vars(reload(p))
                            /\ SF_vars(lockReload(p)) /\ SF_vars(lockTarget(p))
    /\ WF_vars(receiveSignal)
    /\ \A r \in Readers : WF_vars(RUnlock(r))

FairSpec == Spec /\ Fairness

-----------------------------------------------------------------------------
(* Who is where holds which lock.                                          *)
Visiting  == {"enter", "plan", "execute", "swapping"}
Scraping  == {"next", "enter", "plan", "execute", "metrics", "iterate"}
Swapping  == {"swap", "swapping"}

ScrapersHold ==
    \A p \in Scrapers : /\ pc[p] \in Scraping \cup {"idle", "waiting"}
                        /\ (exporterLock = p) <=> pc[p] \in Scraping

ReloadersHold ==
    \A p \in Reloading : /\ pc[p] \in Swapping \cup {"idle", "waiting", "load", "loaded"}
                         /\ (exporterLock = p) <=> pc[p] \in Swapping
                         /\ (reloadLock = p) <=> pc[p] \in Swapping \cup {"load", "loaded"}

WritersVisit ==
    \A p \in Procs, s \in Databases : (writer[s] = p) <=> (pc[p] \in Visiting /\ at[p] = s)

ReadersOut == \A p \in Scrapers : pc[p] \in {"plan", "execute"} => readers[at[p]] = {}

RangersInside == \A p \in Scrapers : iter[p] # None => pc[p] = "iterate"

LocksHeld == ScrapersHold /\ ReloadersHold /\ WritersVisit /\ ReadersOut /\ RangersInside

(* A server has the exporter's queries unless a reload has yet to reach    *)
(* it, and no plan made from others.                                       *)
Unswapped(p) == IF pc[p] = "swapping" THEN todo[p] \cup {at[p]} ELSE todo[p]

ServersSwapped ==
    \A s \in live : \/ conf[s] = queries
                    \/ \E p \in Reloading : pc[p] \in Swapping /\ s \in Unswapped(p)

PlansMatch == \A s \in live : \/ collectors[s] = conf[s]
                              \/ collectors[s] = 0 /\ s \notin planned

(* What a reloader has read is no older than what the exporter has.        *)
LoadedRecently ==
    /\ queries <= file
    /\ \A p \in Reloading : /\ loaded[p] <= file
                            /\ pc[p] = "loaded" => queries <= loaded[p]
                            /\ pc[p] \in Swapping => queries = loaded[p]

(* A scrape visits servers that exist, and runs the exporter's queries.    *)
ScrapeVisits ==
    \A p \in Scrapers : /\ pc[p] \in {"enter", "plan", "execute"} => at[p] \in live
                        /\ pc[p] = "next" => todo[p] \subseteq live
                        /\ pc[p] \in Visiting => at[p] = Primary \/ todo[p] \subseteq live
                        /\ pc[p] = "execute" => at[p] \in planned

ScrapeUses ==
    \A p \in Scrapers : used[p] \subseteq (IF pc[p] \in Scraping THEN {queries} ELSE {})

ServersListed == servers = (known \cap Selected) \ {Primary}

ConfigsHeld == /\ ServersSwapped /\ PlansMatch /\ LoadedRecently
               /\ ScrapeVisits /\ ScrapeUses /\ ServersListed

(* The inductive invariant of Exporter: types, lock ownership, and which   *)
(* configuration each server and each scrape has (exporter.go:234-335,     *)
(* main.go:123-170).                                                       *)
ExporterInv == TypeOK /\ LocksHeld /\ ConfigsHeld

(* No goroutine ranges over, or reads, statistics maps that another is     *)
(* writing: a concurrent map iteration and map write ends a Go program     *)
(* (exporter.go:291-333 iterates after the RUnlock; server.go:537-555      *)
(* reads under it; server.go:647-672 writes).                              *)
MapsUnshared ==
    \A p \in Scrapers : pc[p] = "execute" =>
        /\ readers[at[p]] = {}
        /\ \A o \in Scrapers : iter[o] # at[p]

(* One scrape never mixes two configurations, whichever of its servers a   *)
(* reload would have reached first (main.go:145-166, exporter.go:235).     *)
OneConfigPerScrape == \A p \in Scrapers : Cardinality(used[p]) <= 1

(* While no scrape or reload runs, every server, also one discovered       *)
(* during a reload, has the exporter's queries and no plan made from       *)
(* others (main.go:149-166, exporter.go:652).                              *)
ServersAgree ==
    exporterLock = Free =>
        \A s \in live : conf[s] = queries /\ collectors[s] \in {0, queries}

(* While no scrape runs, there is a server for every database the primary  *)
(* has listed, that the lists select and that is not its own, and for no   *)
(* other (exporter.go:617-645, server.go:339-365).                         *)
ServersFollowDatabases ==
    exporterLock = Free => servers = (known \cap Selected) \ {Primary}

(* A reload never puts an older configuration in the place of a newer one  *)
(* (main.go:124, 131, 149).                                                *)
NeverBackwards == [][queries' >= queries]_queries

(* For a scraper the queries are one register, although every server has a *)
(* copy of its own and a plan made from it (main.go:145-166).              *)
Register == INSTANCE ConfigRegister WITH MaxVersion <- MaxFile, current <- queries, ran <- used

ImplementsRegister == Register!Spec

(* The databases and servers of Exporter behave as those of Discovery do:  *)
(* both follow the list in one step (exporter.go:617-645,                  *)
(* server.go:339-365).                                                     *)
Follower == INSTANCE DatabaseFollower WITH current <- Primary

ImplementsFollower == Follower!Spec

(* Locks by rank: ReloadLock, Exporter.lock, a Server.lock for writing or  *)
(* reading, and last the leave of its readers, who await nothing.          *)
Held(p) == {l \in 1..3 : \/ l = 1 /\ reloadLock = p
                         \/ l = 2 /\ exporterLock = p
                         \/ l = 3 /\ \E s \in Databases : writer[s] = p}

Awaited(p) == {l \in 1..4 : \/ l = 1 /\ pc[p] = "waiting" /\ p \in Reloading
                            \/ l = 2 /\ pc[p] = "waiting" /\ p \in Scrapers
                            \/ l = 2 /\ pc[p] = "loaded"
                            \/ l = 3 /\ pc[p] \in {"next", "swap", "metrics"}
                            \/ l = 4 /\ pc[p] \in {"enter", "swapping"}}

(* Whoever holds a lock only ever waits for a later one, so no circle of   *)
(* goroutines waits for each other (main.go:123-168, exporter.go:234-335,  *)
(* server.go:577-582).                                                     *)
LocksInOrder == \A p \in Procs : \A h \in Held(p), l \in Awaited(p) : h < l

(* Every request and every reload ends: the lock order admits no deadlock  *)
(* and no path keeps a lock (main.go:124-147, exporter.go:235-236).        *)
EveryRequestEnds == \A p \in Procs : pc[p] = "waiting" ~> pc[p] = "idle"

(* A signal sent after the last edit of the file is never lost, however    *)
(* many arrive while a reload is running (main.go:231-240).                *)
NoLostReload == MaxFile \notin Bad => (asked ~> queries = MaxFile)
=============================================================================
