# A TLA+ model of pg_exporter

pg_exporter is a Prometheus exporter for PostgreSQL and pgbouncer. This
directory holds TLA+ modules that model its core (`src/exporter`), TLC
configurations that check them on small instances, and proofs, checked by
TLAPS, of the properties that matter most for every instance.

Line numbers in comments and tables are those of the files in `exporter/`.

## 1. The system

An HTTP server answers `/metrics` (a scrape), `/up`, `/primary`, `/replica`
and their aliases (health checks), `/reload`, `/stat` and `/explain`. Behind
it is one `Exporter`, which owns one primary `Server` (a database connection
and what is known of the database) and, with auto-discovery, one forked
`Server` per further database. Each `Server` plans `Collector`s, one per query
of the configuration that is compatible with the server, and runs them in
every scrape. A background goroutine probes the primary once a second.

| part | state it keeps | operations | talks to |
|---|---|---|---|
| Health snapshot (exporter.go 94-217, 841-910) | three atomics: `healthUp`, `healthRecovery`, `healthStatus` | `updateHealthStateWithStartup`, `probeAndUpdateHealthState`, `UpCheckFunc`, `PrimaryCheckFunc`, `ReplicaCheckFunc` | written by start-up, the health loop and every scrape; read by handlers without a lock |
| Exporter (exporter.go, main.go) | `queries`, `servers`, `lock`, `sLock`; global `ReloadLock` and the signal channel | `Collect`, `collectServerMetrics`, `Reload`, `OnDatabaseChange`, `CreateServer`, `RemoveServer`, `Close` | calls every `Server` with `Exporter.lock` held |
| Connection pool (server.go 170-190, `database/sql`) | open connections, at most 3, or 1 for pgbouncer and forked servers | a connection is taken per round trip and kept until the rows are closed | shared by scrape and probe without a lock |
| Server (server.go) | facts (`Version`, `Recovery`, `Database`, `Username`, `Extensions`, `Namespaces`, `Databases`), `UP`, `Planned`, `Collectors`, statistics maps, `err`, `lock` | `Check`, `PostgresPrecheck`, `PgbouncerPrecheck`, `Plan`, `ResetStats`, `Compatible`, `Collect`, `Stat`, `Explain`, `ProbeHealth` | queries the database; calls the exporter back (`onDatabaseChange`) |
| Collector (collector.go) | `result`, `err`, `cacheHit`, `predicateSkip`, `predicateCache`, `lastScrape`, `scrapeBegin` | `Collect`, `execute`, `executePredicateQueries`, `sendMetrics`, `cacheExpired` | queries the database; reads `Server.scrapeBegin` and `DisableCache` |
| Histogram (collector.go 321-471) | accumulators of one execution | the row loop, `castHistogramFloat64`, `encodeLabelTuple`, `histogramMetrics` | inside `execute` |
| Configuration (config.go, query.go, column.go, validate_labels.go) | files on disk, edited by others | `LoadConfig`, `ParseConfig`, `FinalizeQueries`, `validateConstLabelConflicts`, `makeDescMap` | called at start-up and by `Reload` |
| Connection URLs (pgurl.go) | none | `RetrievePGURL`, `ProcessPGURL`, `ParseDatname`, `ReplaceDatname`, `ShadowPGURL` | start-up, `CreateServer` |
| Command line (arg.go, args_normalize.go, global.go) | flags | parsing | start-up |

What makes it hard:

* **Interleaving.** The three health atomics have several writers and no lock.
  Scrapes, reloads, `/stat` readers and the probe share three levels of locks,
  and the self-metrics are emitted from maps after the lock that guards them
  has been released.
* **Staleness.** A scrape publishes health from facts it read some time ago. A
  plan is made from facts that the next precheck may replace in part, then
  fail. Results and predicate answers are cached in windows that are measured
  with different clocks.
* **Partial failure.** A precheck has three round trips, an execution any
  number of rows, a scrape any number of queries and servers, a configuration
  any number of files.
* **Limits.** A pool of one connection is shared by everything that asks a
  database.
* **Ordering and loss.** Reload requests run concurrently; signals are dropped
  when the channel is full; databases come and go between scrapes.

What makes each part correct:

* *Health*: once the target settles, so does the snapshot; a request that falls
  in a settled period is answered for the state the target is in; health
  recovers without scrapes.
* *Collector*: what is sent is whole, young enough, empty after a failure; the
  predicates guard the query; the database is asked once per window.
* *Server*: a scrape runs the queries compatible with the facts it has just
  fetched; Fatal queries guard the others; statistics belong to the plan.
* *Exporter*: no scrape mixes two configurations, all servers have the same,
  reloads never go back and are never lost, everything that asks is answered,
  no map is iterated while it is written, servers follow the databases.
* *Connection pool*: a scrape never waits for a connection while it has one;
  probe and scrape end; a probe's verdict is about the target, not about the pool.
* *Discovery*: each selected database is scraped once, whatever the order of
  the differences; pools of removed servers are closed and not used.
* *Histogram*: each published bucket, count and sum is that of the rows; groups
  never mix; an invalid observation publishes nothing.
* *Configuration*: what is accepted has descriptors without clashes and nothing
  else is refused; a directory is the merge of its files in order, taken as a
  whole or not at all, and files that rest take effect.

The hazards are listed, each with its line and its properties, in
`PROJECT.json` under "hazards".

## 2. Modules

| module | models | extends |
|---|---|---|
| `HealthState` | the health snapshot, its writers and the HTTP handlers | |
| `HealthConvergence` | `HealthState` with history variables that say when the snapshot may be trusted, and the inductive invariant | `HealthState` |
| `HealthProofs` | proofs about `HealthConvergence` | `HealthConvergence` |
| `Collector` | one collector with its two caches | |
| `ResultCache` | what a collector promises: one snapshot and one window | |
| `Statistics` | the counters of `executeQuery` around a collector | `Collector` |
| `MCStatistics` | constants for TLC, for both | `Statistics` |
| `CollectorProofs` | proofs about `Collector`, its refinement and `Statistics` | `Statistics` |
| `Server` | one server: prechecks, planning, the two passes of a scrape | |
| `MCServer` | queries, tags and targets for TLC | `Server` |
| `ServerProofs` | proofs about `Server` | `Server` |
| `Exporter` | locks, concurrent scrapes and reloads, discovery | |
| `MCExporter` | symmetry for TLC | `Exporter` |
| `ConfigRegister` | what scrapes and reloads promise: one register | |
| `DatabaseFollower` | what auto-discovery promises: servers follow the list in one step | |
| `ExporterProofs` | proofs about `Exporter` and its two refinements | `Exporter` |
| `Pool` | the connections that scrape and probe share | |
| `PoolProofs` | proofs about `Pool` | `Pool` |
| `Discovery` | list differences, forked servers, their URLs and pools | |
| `MCDiscovery` | databases and URLs for TLC | `Discovery` |
| `DiscoveryProofs` | proofs about `Discovery` and its refinement | `Discovery` |
| `Histogram` | the HISTOGRAM columns of one query | |
| `MCHistogram` | columns, labels and data for TLC | `Histogram` |
| `HistogramProofs` | proofs about `Histogram` | `Histogram` |
| `QueryConfig` | validation of a query, constant labels, descriptors | |
| `MCQueryConfig` | columns and labels for TLC | `QueryConfig` |
| `ConfigDir` | the load of a directory or a file, at start-up and by reloads | |
| `ConfigSource` | what an operator may expect of the configuration path | |
| `MCConfigDir` | files for TLC | `ConfigDir` |
| `ConfigProofs` | proofs about `QueryConfig`, `ConfigDir` and its refinement | `QueryConfig`, `ConfigDir` |

`Collector` and `ResultCache`, `Exporter` and `ConfigRegister`, `Discovery` and
`DatabaseFollower`, `ConfigDir` and `ConfigSource` are pairs of a detailed and an
abstract specification: the detailed one instantiates the abstract one and
implements it (`ImplementsResultCache`, `ImplementsRegister`,
`ImplementsFollower`, `ImplementsConfigSource`). `Exporter` implements `DatabaseFollower` as well, so its
precheck in one step is what `Discovery` does in many. `Statistics` composes the
collector with its caller.

### HealthState

A goroutine that has learnt something about the target (`view`) stores it in
three steps, `StoreUp`, `StoreRecovery`, `StoreStatus`, one per atomic store
of `updateHealthStateWithStartup`. The goroutines are `main` (start-up check,
with `failFast`), `loop` (`probeSnapshot` takes the read lock, `ProbeHealth`
asks the target without a lock) and `scrape` (`scrapeBegin` takes
`Server.lock`, `scrapePrecheck`, `scrapeQueries`, then `scrapeReadHealth` after
the unlock). A request loads status, up and recovery in that order (`loadStatus`,
`loadUp`, `loadRecovery`). The target moves freely between "down", "starting"
(SQLSTATE 57P03), "primary" and "replica"; a Fatal query breaks and heals.
`Exporter.lock` admits one scrape at a time, so one scraper is enough here.
Queries in a scrape are abstracted to "a Fatal query fails or not". The loop is
never stopped here.

`HealthConvergence` adds `clean`, `settled` and `steady`: an update is clean
when it began while no goroutine held news that no longer describe the target;
the snapshot is settled when a clean update has been stored; a request is
steady when it began and remained in a settled period.

### Collector

`serverCollect` stamps `Server.scrapeBegin`; `execute` or `serveFromCache` is
the branch of `Collector.Collect`; `predicateFromCache`, `predicateFails` and
`predicateAnswers` are the three ways through the body of
`executePredicateQueries`; `mainQuery`, `readRow`, `fail`, `publish` are the
course of `execute`, `sendMetrics` the end of `Collect`. Time passes between
any two steps (`tick`), predicates change their answers (`dbChange`), and
`replan` replaces the collector between scrapes. A result is a record of how
many rows it has, out of how many, and when it was queried: enough to tell a
prefix or an old snapshot from a whole, recent result. Values, labels and
histograms are abstract: they only matter as further reasons to `fail`.

`ResultCache` knows neither predicates nor rows: a scrape is answered with the
snapshot held while the window is open, else with a new one or with nothing,
and every refresh opens the window again. Predicates, rows and errors are
stutters or the one step `Obtain` or `Deliver`.

`Statistics` joins `executeQuery` to the two ends of a `Collect`; `planned` is
`ResetStats` with `replan`. The histories `executions` and `failures` count what
the counters should count.

### Server

One action per round trip of `PostgresPrecheck` (`showServerVersion`,
`setApplicationName`, `fetchFacts`; `precheckFails` at each of them),
`PgbouncerPrecheck`, `Plan` with `ResetStats`, the two passes over
`Collectors` query by query in priority order, and the `final` part. `reload`
is what `Reload` does to one server. `Compatible` is modelled in full: skip
flag, pgbouncer mode, version window, every kind of tag. The target changes
its facts and the connection breaks at any moment. The mode
(primary, discovered or pgbouncer server) is fixed by `Init`. The start-up `Check` and
the scrape share the precheck; `precheckReturns` is their difference.
`statistics` are abstracted to the set of their keys.

### Exporter

Goroutines are scrapers, `/reload` handlers, the signal goroutine `Sig` and
readers of the primary (`/stat`, `/explain`, `ProbeHealth`). `Server.lock` is a
`sync.RWMutex`: `lockServer` announces the writer, which keeps new readers out,
and the next step needs `entered`, that readers have left. Configurations are
version numbers of the file, some of which do not load (`Bad`). `used` records
the versions whose collectors a scrape has run. `iter` says whose current maps
a scraper ranges over after the `RUnlock`; `ResetStats` of that server makes
the old maps private again. `dblistLock` and `sLock` are only taken by the
holder of `Exporter.lock`, or nested in it, for a few assignments, so
`OnDatabaseChange` is one operator and `precheck` one step. Auto-discovery off is
`Selected = {}`. `disableIntro` is off: with it on, the emission steps vanish.
`ConfigRegister` has one version at a time and the versions a scrape has run;
`Install` happens only while no scrape has run anything.

### Pool

A scrape walks through the round trips of the precheck, then through the
predicates and the main query of each collector. A round trip (`roundTrip`) is
"waiting" for a connection, "asking", which ends early if the query fails or the
deadline passes, then "open" (column types), "first" and "second" (the row of a
predicate and the one there must not be), up to the close. Each return of
`executePredicateQueries` is an action that says itself what becomes of the
rows (`columnTypesFail`, `wrongColumnCount`, `scanFails`, `secondRow`, ...), and so is
the deferred close of the main query (`mainFails`, `mainSucceeds`). Rows that a
return forgets stay open here for good; in the code the deferred cancel of
a query with a timeout frees them at the end of the execution, too late for the
round trips before it. A probe takes a connection for one query. `saw` records
whether the target was unreachable at some time during the probe. The pool is
`database/sql`: it gives a connection to whoever asks while fewer than
`MaxOpen` are in use.

### Discovery

One action per step of `PostgresPrecheck`'s listing, the hook
(`OnDatabaseChange`, one difference per step in any order, as Go ranges over the
map), `CreateServer` and `RemoveServer`, the iteration over the extra servers
and the goroutine that closes a removed pool. Servers are numbered, so that a
database that goes and comes back gets a server distinct from the one still
being closed. A URL has its database in the path, in the parameter `dbname`
or nowhere; `ReplaceDatname` and `ParseDatname` are translated over these
forms. What lib/pq makes of a URL that has both is outside of the model. The
mapping to `DatabaseFollower` is `Promised`: the servers there are, with those
that the rest of the differences will create and without those it will remove.

### Histogram

The row loop folds each column of each row into the accumulator of its label
tuple, in the order of the code; `histogramMetrics` is unrolled bucket by
bucket. Data are numbers, unscaled values (epochs, booleans), nulls and what
does not convert; numbers beyond `MaxFloat` stand for an infinity, and float
rounding is not modelled. Keys are built as `encodeLabelTuple` builds
them, over sequences of bytes: each label behind its length in decimal digits
(`Itoa`) and a colon, because whether keys can run together is the question.

### QueryConfig

`ParseConfig`'s loop over the entries under `metrics`, its loops over label and
metric names, `validateConstLabelConflicts` and `makeDescMap`, over names that
are sequences of `Words`: joining them with an underscore is concatenation.
Bounds of histograms are integers; `NotFinite` is the set of those that stand
for NaN and the infinities.
Errors that refuse a query before its columns are looked at are one flag.

### ConfigDir

The path is a directory or one file and stays so. `list` finds it and, of a
directory, lists the YAML files; `loadFile` reads one of them, skips it if it
is broken or gone, and otherwise ranks and merges it; `loadConfigFile` reads the
path that is a file, which may define nothing. Each way out is an action:
`listFails`, `loadConfigFileFails` and `nothingLoaded` are the errors of `LoadConfig`;
`conflictAtStart` and `start` are what `NewExporter` does with its result,
`conflictAtReload` and `Reload` what a reload does, and they check on their own.
A failed start-up ends the program (`exited`), a failed reload keeps the queries.
`edit` may change, break, remove or add a file at any moment. Files are numbered
in the order of their names.

`ConfigSource` knows no listing, no order of reads and no ranks so far. `seen` is
what each file has been since the load began, and a view is a choice of one
of these for each file. A load ends with `Install`, the `Merge` of an acceptable
view, whole, or with `Refuse`, and then there was a view that is not acceptable.
`Merge` and `Acceptable` are one formula each: the last file that defines a query
wins, its rank is the number of files up to it that parse, a directory of YAML
files defines something, and no query conflicts with a constant label.

## 3. Runs

| run | question | result |
|---|---|---|
| health | do the three atomics converge, does health recover without scrapes | holds |
| health_settled | is a settled snapshot right, is a steady request answered right | holds |
| health_torn | can `/primary` answer 200 for a target that is never a primary | yes: finding 1 |
| collector | is what is sent complete, young, empty after failure, gated; once per window; is every Collect counted once; does the collector implement `ResultCache` | holds |
| server | is the plan current in each mode, do Fatal queries guard, do statistics match, do queries of the other role disappear for good | holds |
| exporter | races, mixed configurations, disagreement, lost discovery, backward reloads; does the exporter implement `ConfigRegister` | none; holds |
| exporter_live | does every request end, is the last reload signal honoured | holds |
| pool | does a scrape block itself, do scrape and probe end, is a probe's "down" never the scrape's doing | holds |
| discovery | each database once, removed servers unused, pools closed; does discovery implement `DatabaseFollower` | holds |
| histogram | buckets, counts, sums, groups, invalid observations | holds |
| query_config | is exactly what makes sound descriptors accepted | holds |
| config_dir | is a directory merged in order; does a load implement `ConfigSource`; do files that rest take effect | holds |

Bounds, and why they are enough:

* *health*: all four target states, no request (requests only read). The model
  has no counter; the state space is complete.
* *health_settled*: one request, because requests do not influence each other,
  and three target states: "down" and "starting" differ in the status text only.
* *health_torn*: the two states the finding needs.
* *collector*: two predicates, one cached and one not, so that a cached pass is
  followed by an executed predicate; two rows, so that a prefix is neither
  empty nor whole; a TTL of 2 and a clock up to 6, room for three windows; three
  scrapes between two plans, for an execution, a hit and an expiry.
* *server*: a primary server, a discovered server and a pgbouncer; a query of each
  relevant kind and two configurations; a version inside the ranges and one on
  either side; both roles, two database names, with and without an extension,
  changing together or alone.
* *exporter*: two scrapers, because a race needs two; two reloaders (a handler
  and the signal goroutine); three databases, one of them not selected; three
  versions of the file, one of which does not load. Scrapers are symmetric.
* *exporter_live*: one of each goroutine and one database; liveness depends on
  the locks, and each lock has a competitor.
* *pool*: three collectors of two predicates, so that every trip has a
  predecessor and a successor of its own kind and of another collector; three
  connections as for a PostgreSQL server, one as for a pgbouncer.
* *discovery*: the primary's database, two that are selected, one that is
  excluded; three changes let a database go, come back and go while its first
  pool is still open.
* *histogram*: two rows and two columns, so that groups and columns can be
  confused; bounds that observations hit, miss and exceed; sums that overflow;
  label tuples whose plain, and whose number-prefixed, concatenations coincide;
  an execution may fail and be followed by another.
* *query_config*: three of nineteen columns, one of them with an infinite bound: a
  clash takes two, and a third may come before, between or after.
* *config_dir*: three files, so that the one in the middle can be overridden and
  can override, and is the one if the path is a file; two edits, to break and to
  repair, in one load or in different ones. The number of loads has no bound.

The type invariants and the inductive invariants, `Complete` (implied by
`ImplementsResultCache`), `NeverBackwards` (implied by `ImplementsRegister`),
`LocksInOrder` and the refinement of `DatabaseFollower` by `Exporter` are proved
for every instance, so no run repeats them. To see one on an instance, add it to
the component's configuration.

Deadlock is checked in every run but *query_config*, where each instance ends
with its verdict, and *config_dir*, where a failed start-up ends the program.
Histories (`lastEval`, `asked`, `used`, `clean`, `settled`, `steady`, `saw`, `read`,
`seen`, `executions`, `failures`) only observe.

### Fairness

* `HealthState`: goroutines that can run do; a scrape ends because its round trips
  have timeouts; the ticker fires for ever (exporter.go:182-198). The probe's
  `RLock` is strongly fair: `sync.RWMutex` lets waiting readers in when a
  writer unlocks, so back-to-back scrapes cannot starve it. No scrape need
  begin and no target need change.
* `Server`: a scrape that has begun ends, and Prometheus scrapes again.
* `Exporter`: goroutines run on; `Lock` is strongly fair: Go's mutexes hand the lock
  over to a waiter after a millisecond. Nobody is obliged to send requests or
  signals, or to edit the file.
* `Pool`: whoever waits for a connection or an answer gets it or gives up: the
  probe and the precheck have the connect timeout, a query its own. A query
  whose timeout is switched off (a negative `timeout`) is excepted: it lasts as
  long as the database lets it. Nobody is obliged to begin a scrape or a probe.
* `ConfigDir`: a load that has begun ends, as it waits for the file system only,
  and the exporter is reloaded again and again. `FilesTakeEffect` is about
  someone who keeps asking; what becomes of one request is `NoLostReload`.

## 4. Findings

**A replica that comes back can be taken for a primary** (exporter.go:124).
`healthUp` is stored before `healthRecovery`; a `/primary` request between
the two stores answers 200. README.md:170: "200 if not in recovery, 404 if in
recovery, 503 if server is down". `health_settled` shows that the wrong
answer is confined to periods that are not settled.

What the modules say of the code, and a reader may not expect; the properties
checked are stated so that they leave these cases out:

* `--disable-cache` does not disable the predicate cache (collector.go:145;
  `predicateCached` does not look at `DisableCache`).
* Extensions, schemas and the user name do not replan (server.go:334; `fetchFacts`
  voids the plan for role and name only). `PlanIsCurrent` speaks of `Watched` queries.
* A cached failure is counted as another failure by every scrape that hits it,
  and not as a hit (server.go:654; `countOutcome`). `Accounted` holds nevertheless.
* In pgbouncer mode a long query of a scrape makes the probe report the target
  down (server.go:181; `probeGivesUp`). `DownMeansUnreachable` excepts it.
* When the primary's URL comes to lead to another database of the same list, as
  a pooler's alias can, the old one has no server and the new one two
  (exporter.go:624). The run and the proofs keep the name fixed: `Currents` has
  one element there; with two, TLC refutes `EveryDatabaseOnce`.

## 5. Proofs

All proofs are checked by TLAPS for every value of the constants that satisfies
the `ASSUME` of the module (types and distinctness of the constants only), and
of further assumptions only where the table says so.

| theorem | states | argument |
|---|---|---|
| `HealthProofs!HealthInvariant` | `HSpec => []HealthInv` | inductive, below |
| `HealthProofs!Settled` | `HSpec => []SettledSnapshot` | a conjunct of `HealthInv` |
| `HealthProofs!SteadyAnswers` | `HSpec => []SteadyAnswer` | from `HealthInv` |
| `HealthProofs!WellTyped` | `Spec => []TypeOK` of `HealthState` | inductive |
| `CollectorProofs!CollectorInvariant` | `Spec => []CollectorInv` | inductive, below |
| `CollectorProofs!AtomicPublication`, `Staleness`, `Gate` | `Spec => []` `Complete`; `BoundedStaleness`; `PredicateGate` | conjuncts of `CollectorInv` |
| `CollectorProofs!NothingAfterFailure` | `Spec => []EmptyAfterFailure` | a conjunct of `CollectorInv` |
| `CollectorProofs!Windowed` | `Spec => OncePerWindow` | from the conjunct `Window` |
| `CollectorProofs!Implements` | `Spec => Cache!Spec` | every step maps to a step of `ResultCache` or a stutter |
| `CollectorProofs!EveryCollectAccounted`, `LifetimeInWindow` | `SSpec => []` `Accounted`; `LifetimeReported` | from `StatisticsInv`, which includes `CollectorInv` |
| `ServerProofs!ServerInvariant` | `Spec => []ServerInv` | inductive, below |
| `ServerProofs!PlanCurrent`, `FatalQueriesGuard`, `StatisticsMatch` | `Spec => []` `PlanIsCurrent`; `FatalGuards`; `StatsMatchPlan` | from `ServerInv` |
| `ExporterProofs!ExporterInvariant` | `Spec => []ExporterInv` | inductive, below |
| `ExporterProofs!NoMapShared`, `OneConfig`, `Agreement`, `Discovered` | `Spec => []` `MapsUnshared`; `OneConfigPerScrape`; `ServersAgree`; `ServersFollowDatabases` | from `ExporterInv` |
| `ExporterProofs!Forwards` | `Spec => NeverBackwards` | from `LoadedRecently`: only `lockTarget` changes `queries` |
| `ExporterProofs!ImplementsOneRegister` | `Spec => Register!Spec` | from `ExporterInv`: a scrape that has run something holds `Exporter.lock` |
| `ExporterProofs!LockOrder` | `Spec => []LocksInOrder` | from `LocksHeld`: who holds a lock is past the places where an earlier one is awaited |
| `ExporterProofs!Follows` | `Spec => Follower!Spec` | the precheck of the primary is `Follow`, all else a stutter or `Change` |
| `PoolProofs!PoolInvariant`, `PoolTyped`, `RowsAreClosed` | `Spec => []` `PoolInv`; `TypeOK`; `NeverHoldsAndWaits` | inductive, below |
| `PoolProofs!ProbesAreDecoupled` | `Spec => DownMeansUnreachable` | from `PoolInv` |
| `DiscoveryProofs!DiscoveryInvariant`, `DatabasesOnce`, `RemovedUnused`, `PoolsKept` | `Spec => []` `DiscoveryInv`; `EveryDatabaseOnce`; `NeverScrapesRemoved`; `NoPoolForgotten`, assuming `Stable` | inductive, below |
| `DiscoveryProofs!DiscoveryTyped`, `Follows` | `Spec => []TypeOK`; `Spec => Follower!Spec`, without that assumption | below |
| `HistogramProofs!KeysDiffer` | `encodeLabelTuple(s) = encodeLabelTuple(t) => s = t` | decoding from the left, below |
| `HistogramProofs!HistogramInvariant`, `TypeCorrect` | `Spec => []` `HistogramInv`; `TypeOK` | inductive, below |
| `HistogramProofs!BucketsCountExactly`, `SumsAreExact` | `Spec => []` `BucketsCount`; `SumOfObservations` | from the conjunct `RightValues` |
| `HistogramProofs!HistogramsAreWhole` | `Spec => []WholeHistograms` | from the conjuncts `GroupSeries` and `RightValues` |
| `HistogramProofs!GroupsKeepApart` | `Spec => []GroupsNeverMixed` | from `KeysDiffer` |
| `HistogramProofs!InvalidObservationsFail` | `Spec => []NoInvalidObservation` | from the conjunct `Valid` |
| `ConfigProofs!QueryInvariant`, `QueryTyped` | `QuerySpec => []` `QueryInv`; `QueryTypeOK` | inductive, below |
| `ConfigProofs!PlannedDescriptorsSound`, `AcceptsExactlyTheAcceptable` | `QuerySpec => []` `DescriptorsSound`; `AcceptsExactly` | from `QueryInv` |
| `ConfigProofs!ConfigDirInvariant`, `ConfigDirTyped`, `LastWins` | `Spec => []` `ConfigDirInv`; `TypeOK`; `LastFileWins` | inductive, below |
| `ConfigProofs!FollowsSource` | `Spec => Source!Spec` | every end of a load is `Install` or `Refuse` of one view, below |

*Health.* "Settled implies right" is not inductive: the snapshot is stored in
three steps, by several goroutines. `HealthInv` adds what each clean goroutine
has stored so far (`CleanPrefix`), that nobody is discordant while somebody is
clean or the snapshot settled (`NobodyDiscordant`), what a view that says
"starting" looks like (`StartingIsDown`), where start-up stands (`Phases`) and
what a steady request has loaded so far (`SteadyPrefix`).

*Collector.* `CollectorInv` adds the order of the clocks (`Clock`), that only an
expired window leads to an execution (`Window`), that nothing is published
while one is under way and what is published is whole and dated (`Published`),
that a failure has no result (`Failed`), that a cached predicate answer is the
last answer and dated no later (`CacheIsLast`), and that the predicates passed
so far did so recently (`Passed`).

*Server.* "A scrape runs the queries compatible with the current facts" must be
kept through prechecks that fail between two round trips, when no scrape is
under way, so `ServerInv` says it of every state: a plan that is not marked
void fits the facts (`PlanFits`), which is why `showServerVersion` and
`fetchFacts` have to void it in the very step that changes a fact. `FatalFirst`
says which queries have run in which pass, `Progress` that no query has run
before the plan.

*Exporter.* `LocksHeld` derives who holds each lock from where every goroutine
is (`ScrapersHold`, `ReloadersHold`, `WritersVisit`), that readers have left a server
that is planned or run (`ReadersOut`) and that maps are ranged over at "iterate" only
(`RangersInside`). Two scrapers cannot be in a scrape at once, which gives
`MapsUnshared`. `ConfigsHeld` builds on it: a server has old queries only while
a reload that holds `Exporter.lock` has still to visit it (`ServersSwapped`), a
plan belongs to the queries of its server (`PlansMatch`), ReloadLock keeps what
was read from the file recent until it is installed (`LoadedRecently`), a scrape
visits only servers that exist (`ScrapeVisits`) and runs the exporter's queries
only (`ScrapeUses`), and the servers are those of the list (`ServersListed`).

*Pool.* The scrape has at most one connection, and none while it waits. With the
probe's one that makes two: a pool of three always has room for the probe.

*Discovery.* `Stable` says that the primary's URL always leads to the same
database (section 4 says what happens otherwise). While the hook runs
through the differences in any order, `Differences` says which databases have
a server already or still; `Following` says it between prechecks; `Addressed`
that the URLs keep the servers apart; `Pools` that a pool no server can be
reached through is being closed. The refinement does not need `Stable`: the list
is `Follow`, and no difference gone through changes `Promised`, because no
database is both to be created and to be removed (`Unambiguous`).

*Histogram.* The row loop and the unrolling are two inductions in one invariant:
each accumulator counts, per bucket, the observations of its group read so far,
as cardinalities of sets of rows, and has their sum; each group emitted has
cumulative counts that are cardinalities of unions of such sets (`RightValues`);
and it has its series one by one, up to the point the unrolling has reached
(`GroupSeries`). `BucketIndex` is the lemma that the search for a bucket finds the
first bound that is not below.

Three definitions there are recursive functions: `Itoa`, and inside the library
`SumFunction` and `FlattenSeq`. TLA+ defines such a function as *some* function that
satisfies its equation, so the first thing to prove is that there is one.
`Recursion` does that once, for a body that at each point of the domain depends
only on points of lower rank, by patching together solutions on the points of rank
below each bound. Inductions over data are then arguments on a least
counterexample (`Least`), which need no induction theorem. `SumAdd` says what one more row does
to a sum, in whatever order the sum is taken; `FlattenCons` what the first label
does to a key. Keys decode from the left: the digits of a length contain no colon, so the first
colon ends it (`FirstColon`), equal digits are equal lengths (`ItoaInjective`), and
equal lengths cut equal labels off equal keys (`FirstLabel`); a shortest pair of
tuples with one key is then cut to a shorter one (`KeysDiffer`).

*QueryConfig.* `QueryInv` says of the loops what they have read so far: that the
entries read are filed under their names in the order of the lists, that each
label and metric name seen comes from one column, and what has been checked
of the columns passed. Acceptance is then one implication per early return (a
query refused there has a defect of `Acceptable`), and the other way round one
per conjunct of `Acceptable` (a query that is planned has passed the check).
`OneColumn` and `NamesTyped` are the lemmas on names that the arguments share.

*ConfigDir.* `LastFileWins` alone is not inductive: `InOrder` adds that every file
read comes before every file still to be read, so the file just read is the
last and its rank the number of those that parsed. For the refinement,
`Witnessed` says that what a file gave when it was read, and what a file that is
not listed or not read yet was when the load began, is among what it has been
since; `OnlyFile` and `IsMap` say what there is to read of a path that is a file. So when
a load ends, the files read, with the others as they were, are a view (`ViewRead`).
`LastFileWins` makes the queries loaded its `Merge` (`Installed`), and each error
return shows that it is not acceptable (`Refused`).

*Refinements.* `Implements` and `ImplementsOneRegister` use the inductive invariants:
that a result is whole when it is published (`Published`), that a window only
opens at the end (`Window`), and that nobody scrapes while a reload installs
(`LocksHeld`).

Model-checked only: liveness (`Convergence`, `RecoversWhileScrapesFail`, `RoleFollowed`,
`EveryRequestEnds`, `NoLostReload`, `ScrapesEnd`, `ProbesEnd`,
`FilesTakeEffect`) and the absence of
deadlock, because liveness under fairness and ENABLED are out of the prover's
reach. `LockOrder` and `RowsAreClosed` prove the safety half of `EveryRequestEnds`
and of `ScrapesEnd`: nobody waits for what is kept by somebody who waits for him.
Every invariant and every action property of a run that passes has its theorem.

## 6. Plan

The modules were written in the order of what would hurt most: `HealthState`,
`Collector`, `Server`, `Exporter`; then what they rest on, `Histogram`,
`QueryConfig`, `ConfigDir`, `Pool`, `Discovery`; then what they promise together,
`ResultCache`, `ConfigRegister`, `DatabaseFollower`, `ConfigSource`, `Statistics`. What could
follow:

1. an abstract server (a configuration, a plan made from it or none) that `Server`
   implements and `Exporter` uses, as it is done for discovery; it takes a history of
   the configuration a plan was made from, which `Server` does not keep;
2. `ConfigSource` under `Exporter`, in the place of its one `file` that is read in a
   step, so that a reload's configuration is a view of the directory;
3. the casts of driver values (utils.go), over the cases of their type switches.

## 7. Not modelled

* Formatting, logging, the text of `/stat` and `/explain`, metric descriptors:
  no property is about them.
* Casts of driver values to plain metrics and to strings (utils.go), the
  well-formedness of a single name (prom_validate.go), flags (arg.go,
  args_normalize.go), retrieval and shadowing of the URL (`RetrievePGURL`,
  `ProcessPGURL`, `ShadowPGURL` in pgurl.go): pure and sequential string handling,
  covered by the unit tests.
* `stopHealthLoop` and `Exporter.Close`: `Run` defers `Close`, but
  `ListenAndServe` only returns with an error, and `logFatalf` then ends the
  process, so neither runs in the program. `Exporter.Check` is not called by it
  either.
* YAML syntax, file names and which files of a directory are listed: a file is
  there or not, and parses or not.
* Rounding of float64 sums, and the internals of `database/sql` and lib/pq.
* `validateTelemetryPath`, TLS and web configuration: start-up only.
* The dashboards, packaging, and the YAML collectors under `config/` and
  `legacy/`: data.
