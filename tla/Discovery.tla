------------------------------ MODULE Discovery ------------------------------
(***************************************************************************)
(* Auto-discovery (exporter/exporter.go, exporter/server.go): the precheck *)
(* of the primary server lists the databases, compares the list with the   *)
(* one before, and has Exporter.OnDatabaseChange create and remove forked  *)
(* servers, each with a URL and a connection pool of its own.  A scrape    *)
(* collects the primary first, so what it discovers takes part in the same *)
(* scrape; the pools of removed servers are closed by goroutines that      *)
(* nobody waits for.  Databases come and go at any step, and the primary's *)
(* URL may lead to another one, as an alias of a connection pooler can.    *)
(*                                                                         *)
(* Exporter.lock keeps two scrapes apart (module Exporter).                *)
(***************************************************************************)
EXTENDS Naturals

CONSTANTS
    Names,            \* database names
    Urls,             \* possible URLs of the primary
    Currents,         \* databases the primary's URL may lead to
    include, exclude, \* --include-database (empty for all), --exclude-database
    NoName,           \* a part of a URL that is not there
    MaxChanges        \* bound: changes of the cluster

(* A URL names its database in the path, as parameter dbname, or not at all. *)
Url == {u \in [path : Names \cup {NoName}, dbname : Names \cup {NoName}] :
            u.path = NoName \/ u.dbname = NoName}

ASSUME DiscoveryAssumption ==
    /\ Urls \subseteq Url /\ Currents \subseteq Names /\ NoName \notin Names
    /\ include \subseteq Names /\ exclude \subseteq Names
    /\ MaxChanges \in Nat

VARIABLES
    databases,        \* those that allow connections and are no templates
    current,          \* current_catalog of the primary's connections
    edits,            \* changes of the two so far
    dsn, Database, Databases,   \* of the primary
    servers,          \* per name the forked server there, 0 for none
    created,          \* servers created so far; they are numbered
    url,              \* their URLs
    opened,           \* those that have opened their pool
    closing, closed,  \* those removed and not yet closed, and those closed
    pc, kind,
    newDBList, changes,   \* of the precheck
    todo              \* what IterateServer returned, less what was collected

cluster == <<databases, current, edits>>
primary == <<dsn, Database, Databases>>
forked  == <<servers, created, url, opened, closing>>
vars    == <<cluster, primary, forked, closed, pc, kind, newDBList, changes, todo>>

Ids == 1..created

TypeOK ==
    /\ databases \subseteq Names /\ current \in Currents /\ edits \in 0..MaxChanges
    /\ dsn \in Urls
    /\ Database \in Names \cup {NoName} /\ Databases \subseteq Names
    /\ created \in Nat
    /\ servers \in [Names -> 0..created]
    /\ url \in [Ids -> Url]
    /\ opened \subseteq Ids /\ closing \subseteq Ids /\ closed \subseteq Ids
    /\ pc \in {"idle", "precheck", "hook", "iterate", "collect"}
    /\ kind \in {"check", "scrape"}
    /\ newDBList \subseteq Names
    /\ changes \subseteq Names \X BOOLEAN
    /\ todo \subseteq Ids

-----------------------------------------------------------------------------
(* URLs, and the databases the lists select.                               *)

ParseDatname(u) == IF u.path # NoName THEN u.path ELSE u.dbname

ReplaceDatname(u, d) ==
    IF u.path = NoName /\ u.dbname # NoName THEN [u EXCEPT !.dbname = d]
                                            ELSE [u EXCEPT !.path = d]

Selected == {d \in Names : d \notin exclude /\ (include = {} \/ d \in include)}

\* The database a server connects to and reports as its datname.
DatabaseOf(s) == ParseDatname(url[s])

Init ==
    /\ databases \in SUBSET Names /\ current \in Currents /\ edits = 0
    /\ dsn \in Urls
    /\ Database = ParseDatname(dsn) /\ Databases = {}
    /\ servers = [d \in Names |-> 0] /\ created = 0 /\ url = <<>>
    /\ opened = {} /\ closing = {} /\ closed = {}
    /\ pc = "precheck" /\ kind = "check"
    /\ newDBList = {} /\ changes = {} /\ todo = {}

-----------------------------------------------------------------------------
(* The precheck of the primary.                                            *)

\* A comparison that only looks for new databases.
listDatabasesFromOld ==
    /\ pc = "precheck"
    /\ Database' = current
    /\ newDBList' = databases
    /\ changes' = {<<d, TRUE>> : d \in databases \ Databases}
    /\ Databases' = Databases \cup {current}
    /\ pc' = "hook"
    /\ UNCHANGED <<cluster, dsn, forked, closed, kind, todo>>

(* The list and the current database are of one query; the old list is     *)
(* first completed by the current database.                                *)
listDatabases ==
    /\ pc = "precheck"
    /\ Database' = current
    /\ Databases' = Databases \cup {current}
    /\ newDBList' = databases
    /\ changes' = {<<d, TRUE>>  : d \in databases \ Databases'}
                  \cup {<<d, FALSE>> : d \in Databases' \ databases}
    /\ pc' = "hook"
    /\ UNCHANGED <<cluster, dsn, forked, closed, kind, todo>>

\* The primary's error does not keep the others from being collected.
precheckFails ==
    /\ pc = "precheck"
    /\ pc' = IF kind = "scrape" THEN "iterate" ELSE "idle"
    /\ UNCHANGED <<cluster, primary, forked, closed, kind, newDBList, changes, todo>>

CreateServer(d) ==
    /\ created' = created + 1
    /\ url' = [s \in 1..(created + 1) |-> IF s \in Ids THEN url[s] ELSE ReplaceDatname(dsn, d)]
    /\ servers' = [servers EXCEPT ![d] = created + 1]
    /\ UNCHANGED <<opened, closing>>

\* A removal that forgets the pool.
RemoveServerOpen(d) ==
    /\ servers' = [servers EXCEPT ![d] = 0]
    /\ UNCHANGED <<created, url, opened, closing>>

(* A server that was never scraped has no pool to close.                   *)
RemoveServer(d) ==
    /\ servers' = [servers EXCEPT ![d] = 0]
    /\ closing' = closing \cup ({servers[d]} \cap opened)
    /\ UNCHANGED <<created, url, opened>>

\* The primary's database and those the lists rule out are skipped.
OnDatabaseChange(d, add) ==
    \/ (d = Database \/ d \notin Selected) /\ UNCHANGED forked
    \/ d # Database /\ d \in Selected /\ add  /\ CreateServer(d)
    \/ d # Database /\ d \in Selected /\ ~add /\ RemoveServer(d)

hook ==
    /\ pc = "hook"
    /\ \E c \in changes : OnDatabaseChange(c[1], c[2]) /\ changes' = changes \ {c}
    /\ UNCHANGED <<cluster, primary, closed, pc, kind, newDBList, todo>>

\* A loop over the differences that ends with the first.
precheckEndsEarly ==
    /\ pc = "hook"
    /\ Databases' = newDBList /\ changes' = {}
    /\ pc' = IF kind = "scrape" THEN "iterate" ELSE "idle"
    /\ UNCHANGED <<cluster, dsn, Database, forked, closed, kind, newDBList, todo>>

precheckEnds ==
    /\ pc = "hook" /\ changes = {}
    /\ Databases' = newDBList
    /\ pc' = IF kind = "scrape" THEN "iterate" ELSE "idle"
    /\ UNCHANGED <<cluster, dsn, Database, forked, closed, kind, newDBList, changes, todo>>

-----------------------------------------------------------------------------
(* Exporter.Collect.                                                       *)

Live == {s \in Ids : \E d \in Names : servers[d] = s}

\* Servers fetched before the primary is scraped.
scrapeIterating ==
    /\ pc = "idle"
    /\ pc' = "precheck" /\ kind' = "scrape"
    /\ todo' = Live
    /\ UNCHANGED <<cluster, primary, forked, closed, newDBList, changes>>

scrape ==
    /\ pc = "idle"
    /\ pc' = "precheck" /\ kind' = "scrape"
    /\ todo' = {}
    /\ UNCHANGED <<cluster, primary, forked, closed, newDBList, changes>>

IterateServer ==
    /\ pc = "iterate"
    /\ pc' = "collect"
    /\ todo' = todo \cup Live
    /\ UNCHANGED <<cluster, primary, forked, closed, kind, newDBList, changes>>

(* Server.Collect of a forked server opens its pool, whatever comes of it. *)
collect ==
    /\ pc = "collect"
    /\ \E s \in todo : todo' = todo \ {s} /\ opened' = opened \cup {s}
    /\ UNCHANGED <<cluster, primary, servers, created, url, closing, closed, pc, kind,
                   newDBList, changes>>

scraped ==
    /\ pc = "collect" /\ todo = {}
    /\ pc' = "idle"
    /\ UNCHANGED <<cluster, primary, forked, closed, kind, newDBList, changes, todo>>

-----------------------------------------------------------------------------
(* The goroutine of RemoveServer, and the cluster.                         *)

Close ==
    /\ \E s \in closing : closing' = closing \ {s} /\ closed' = closed \cup {s}
    /\ UNCHANGED <<cluster, primary, servers, created, url, opened, pc, kind, newDBList,
                   changes, todo>>

clusterChange ==
    /\ edits < MaxChanges /\ edits' = edits + 1
    /\ \/ databases' \in SUBSET Names /\ UNCHANGED current
       \/ current' \in Currents \ {current} /\ UNCHANGED databases
    /\ UNCHANGED <<primary, forked, closed, pc, kind, newDBList, changes, todo>>

Next == \/ listDatabases \/ precheckFails \/ hook \/ precheckEnds
        \/ scrape \/ IterateServer \/ collect \/ scraped
        \/ Close \/ clusterChange

Spec == Init /\ [][Next]_vars

-----------------------------------------------------------------------------
(* "automatically scrape all database for given server" (arg.go:21): once  *)
(* the primary has compared its list, every database of it that the lists  *)
(* select is scraped by exactly one server, the primary or a forked one,   *)
(* and no other by a forked one: no series is missing or there twice       *)
(* (exporter.go:617-663, server.go:327-365).                               *)
EveryDatabaseOnce ==
    pc \notin {"precheck", "hook"} =>
        \A d \in Names :
            /\ servers[d] # 0 <=> d \in (Databases \cap Selected) \ {Database}
            /\ servers[d] # 0 => DatabaseOf(servers[d]) = d

(* A scrape never uses a server whose pool a goroutine closes or has       *)
(* closed, however often its database comes and goes                       *)
(* (exporter.go:240-250, 667-689).                                         *)
NeverScrapesRemoved == todo \cap (closing \cup closed) = {}

(* No pool is forgotten: one that was opened is of a server that is still  *)
(* scraped, or closed or about to be (exporter.go:667-689).                *)
NoPoolForgotten == opened \subseteq Live \cup closing \cup closed

(* The servers there will be once the hook has gone through the rest of    *)
(* the differences.                                                        *)
Due(add) == {d \in Selected \ {Database} : <<d, add>> \in changes}

Promised == ({d \in Names : servers[d] # 0} \cup Due(TRUE)) \ Due(FALSE)

(* To whoever waits for Exporter.lock, the servers follow the list of      *)
(* databases in one step, in whatever order Go ranges over the map of      *)
(* differences, and also when the primary's URL leads elsewhere            *)
(* (exporter.go:617-645, server.go:339-365).                               *)
Follower == INSTANCE DatabaseFollower
            WITH Databases <- Names, dbs <- databases, servers <- Promised,
                 known <- IF pc = "hook" THEN newDBList ELSE Databases

ImplementsFollower == Follower!Spec
=============================================================================
