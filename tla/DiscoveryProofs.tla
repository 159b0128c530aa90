---------------------------- MODULE DiscoveryProofs ----------------------------
(***************************************************************************)
(* Proofs about Discovery, for any databases, lists and URLs.  That it is  *)
(* well typed and implements DatabaseFollower holds in general; the rest,  *)
(* as long as the primary's URL always leads to the same database          *)
(* (Stable): otherwise one may have no server, and another two.  The       *)
(* invariant says, for every point of the loop over the differences, which *)
(* databases have a server already or still; that the URLs keep the        *)
(* servers apart; and that the pools of servers no longer reachable are    *)
(* being closed.                                                           *)
(***************************************************************************)
EXTENDS Discovery, TLAPS

Stable == \A p, q \in Currents : p = q

Wanted(d) == d \in Selected /\ d # Database

\* Before the first list nothing is known; afterwards the primary's own
\* database is.
Known == /\ pc = "hook" => Database = current
         /\ Database # current => Databases = {}

\* Which databases have a server between two prechecks, and within one.
Following ==
    pc # "hook" => \A d \in Names :
        servers[d] # 0 <=> d \in (Databases \cap Selected) \ {Database}

Differences ==
    pc = "hook" => \A d \in Names :
        /\ <<d, TRUE>> \in changes => d \in newDBList
        /\ <<d, FALSE>> \in changes => d \notin newDBList
        /\ servers[d] # 0 <=> /\ d \in Selected \ {Database}
                              /\ \/ d \in newDBList /\ <<d, TRUE>> \notin changes
                                 \/ <<d, FALSE>> \in changes

Addressed == \A d \in Names : servers[d] # 0 => DatabaseOf(servers[d]) = d

Pools == /\ Live \cap (closing \cup closed) = {}
         /\ todo \subseteq Live
         /\ pc # "collect" => todo = {}
         /\ opened \subseteq Live \cup closing \cup closed

DiscoveryInv == TypeOK /\ Known /\ Following /\ Differences /\ Addressed /\ Pools

(* A forked URL has the forked database's name, wherever the primary's URL *)
(* keeps it (pgurl.go:104-135).                                            *)
LEMMA Replaced ==
    ASSUME NEW u \in Url, NEW d \in Names
    PROVE  ReplaceDatname(u, d) \in Url /\ ParseDatname(ReplaceDatname(u, d)) = d
  BY DiscoveryAssumption DEF Url, ReplaceDatname, ParseDatname

-----------------------------------------------------------------------------
(* Types.                                                                  *)

LEMMA TypeInit == Init => TypeOK
  <1> SUFFICES ASSUME Init PROVE TypeOK
    OBVIOUS
  <1>1. Ids = {} /\ url \in [Ids -> Url]
    BY DEF Init, Ids
  <1>2. Database \in Names \cup {NoName}
    BY DiscoveryAssumption DEF Init, ParseDatname, Url
  <1>3. servers \in [Names -> 0..created]
    BY DEF Init
  <1> QED BY <1>1, <1>2, <1>3, DiscoveryAssumption DEF Init, TypeOK

LEMMA CreateTyped ==
    ASSUME TypeOK, NEW d \in Names, CreateServer(d), changes' \subseteq changes,
           UNCHANGED <<cluster, primary, closed, pc, kind, newDBList, todo>>
    PROVE  TypeOK'
  <1> USE DEF CreateServer
  <1>1. created \in Nat /\ Ids' = Ids \cup {created + 1} /\ created + 1 \notin Ids
    <2>1. created \in Nat /\ created' = created + 1
      BY DEF TypeOK
    <2> HIDE DEF CreateServer
    <2> QED BY <2>1 DEF Ids
  <1>2. servers' \in [Names -> 0..created']
    BY <1>1 DEF TypeOK
  <1>3. url' \in [Ids' -> Url]
    BY <1>1, Replaced, DiscoveryAssumption DEF TypeOK, Ids
  <1>4. created' \in Nat /\ opened' \subseteq Ids' /\ closing' \subseteq Ids'
    BY <1>1 DEF TypeOK
  <1>5. closed' \subseteq Ids' /\ todo' \subseteq Ids' /\ changes' \subseteq Names \X BOOLEAN
    BY <1>1 DEF TypeOK
  <1> HIDE DEF CreateServer
  <1> QED BY <1>2, <1>3, <1>4, <1>5 DEF TypeOK, cluster, primary

LEMMA ListTyped ==
    ASSUME TypeOK, listDatabases
    PROVE  TypeOK'
  <1> USE DEF listDatabases
  <1>1. current \in Names
    BY DiscoveryAssumption DEF TypeOK
  <1>2. changes' \subseteq Names \X BOOLEAN
    <2>1. Databases' \subseteq Names /\ databases \subseteq Names
      BY <1>1 DEF TypeOK
    <2>2. \A d \in Names : \A k \in BOOLEAN : <<d, k>> \in Names \X BOOLEAN
      OBVIOUS
    <2>3. \A e \in changes' : \/ \E d \in databases \ Databases' : e = <<d, TRUE>>
                              \/ \E d \in Databases' \ databases : e = <<d, FALSE>>
      OBVIOUS
    <2> HIDE DEF listDatabases
    <2> QED BY <2>1, <2>2, <2>3
  <1>3. UNCHANGED <<cluster, dsn, forked, closed, kind, todo>>
    OBVIOUS
  <1>4. Database' \in Names /\ Databases' \subseteq Names /\ newDBList' \subseteq Names
        /\ pc' = "hook"
    BY <1>1 DEF TypeOK
  <1> HIDE DEF listDatabases
  <1> QED BY <1>2, <1>3, <1>4 DEF TypeOK, cluster, forked, Ids

\* One difference of the hook, as the alternatives of OnDatabaseChange have it.
LEMMA HookCases ==
    ASSUME TypeOK, hook
    PROVE  /\ pc = "hook"
           /\ UNCHANGED <<cluster, primary, closed, pc, kind, newDBList, todo>>
           /\ \E d \in Names, add \in BOOLEAN :
                 /\ <<d, add>> \in changes /\ changes' = changes \ {<<d, add>>}
                 /\ \/ ~Wanted(d) /\ UNCHANGED forked
                    \/ Wanted(d) /\ add /\ CreateServer(d)
                    \/ Wanted(d) /\ ~add /\ RemoveServer(d)
  <1>1. PICK c \in changes : OnDatabaseChange(c[1], c[2]) /\ changes' = changes \ {c}
    BY DEF hook
  <1>2. c[1] \in Names /\ c[2] \in BOOLEAN /\ c = <<c[1], c[2]>>
    BY DEF TypeOK
  <1> QED BY <1>1, <1>2 DEF hook, OnDatabaseChange, Wanted

LEMMA TypeStep == TypeOK /\ [Next]_vars => TypeOK'
  <1> SUFFICES ASSUME TypeOK, [Next]_vars PROVE TypeOK'
    OBVIOUS
  <1>1. CASE listDatabases
    BY <1>1, ListTyped
  <1>2. CASE hook
    <2>1. PICK d \in Names, add \in BOOLEAN :
             /\ changes' = changes \ {<<d, add>>}
             /\ UNCHANGED forked \/ CreateServer(d) \/ RemoveServer(d)
      BY <1>2, HookCases
    <2>2. UNCHANGED <<cluster, primary, closed, pc, kind, newDBList, todo>>
      BY <1>2, HookCases
    <2>3. CASE CreateServer(d)
      BY <2>1, <2>2, <2>3, CreateTyped
    <2>4. CASE RemoveServer(d)
      <3>1. servers' \in [Names -> 0..created]
        BY <2>4 DEF RemoveServer, TypeOK
      <3>2. UNCHANGED <<created, url, opened>> /\ closing' \subseteq Ids
        BY <2>4 DEF RemoveServer, TypeOK
      <3>3. changes' \subseteq changes
        BY <2>1
      <3> QED BY <2>2, <3>1, <3>2, <3>3 DEF TypeOK, cluster, primary, Ids
    <2>5. CASE UNCHANGED forked
      BY <2>1, <2>2, <2>5 DEF TypeOK, cluster, primary, forked, Ids
    <2> QED BY <2>1, <2>3, <2>4, <2>5
  <1>3. CASE precheckFails \/ precheckEnds \/ scrape \/ scraped
    BY <1>3 DEF precheckFails, precheckEnds, scrape, scraped, TypeOK, cluster, primary, forked, Ids
  <1>4. CASE IterateServer \/ collect \/ Close
    <2>1. todo' \subseteq Ids /\ opened' \subseteq Ids /\ closing' \subseteq Ids /\ closed' \subseteq Ids
      BY <1>4 DEF IterateServer, collect, Close, TypeOK, Live, Ids, forked
    <2> QED BY <1>4, <2>1 DEF IterateServer, collect, Close, TypeOK, cluster, primary, forked, Ids
  <1>5. CASE clusterChange
    <2>1. current' \in Currents /\ databases' \subseteq Names /\ edits' \in 0..MaxChanges
      BY <1>5, DiscoveryAssumption DEF clusterChange, TypeOK
    <2> QED BY <1>5, <2>1 DEF clusterChange, TypeOK, primary, forked, Ids
  <1>6. CASE UNCHANGED vars
    BY <1>6 DEF vars, TypeOK, cluster, primary, forked, Ids
  <1> QED BY <1>1, <1>2, <1>3, <1>4, <1>5, <1>6 DEF Next

-----------------------------------------------------------------------------
LEMMA DiscoveryInvInit == Init => DiscoveryInv
  <1> SUFFICES ASSUME Init PROVE DiscoveryInv
    OBVIOUS
  <1>4. Known /\ Following /\ Differences /\ Addressed
    BY DEF Init, Known, Following, Differences, Addressed
  <1>5. Pools
    BY DEF Init, Pools
  <1> QED BY TypeInit, <1>4, <1>5 DEF DiscoveryInv

-----------------------------------------------------------------------------
(* The changes the hook makes.                                             *)

LEMMA Creates ==
    ASSUME DiscoveryInv, pc = "hook", NEW d \in Names, d # Database, d \in Selected,
           <<d, TRUE>> \in changes, CreateServer(d), changes' = changes \ {<<d, TRUE>>},
           UNCHANGED <<cluster, primary, closed, pc, kind, newDBList, todo>>
    PROVE  DiscoveryInv'
  <1> USE DEF CreateServer, DiscoveryInv
  <1>1. servers[d] = 0 /\ d \in newDBList /\ <<d, FALSE>> \notin changes
    BY DEF Differences, TypeOK
  <1>2. created \in Nat /\ Ids' = Ids \cup {created + 1} /\ created + 1 \notin Ids
    BY DEF TypeOK, Ids
  <1>3. /\ servers' \in [Names -> 0..created']
        /\ servers'[d] = created + 1
        /\ \A e \in Names \ {d} : servers'[e] = servers[e]
    BY <1>2 DEF TypeOK
  <1>4. /\ url' \in [Ids' -> Url]
        /\ url'[created + 1] = ReplaceDatname(dsn, d)
        /\ \A s \in Ids : url'[s] = url[s]
    <2>1. dsn \in Url
      BY DiscoveryAssumption DEF TypeOK
    <2> QED BY <1>2, <2>1, Replaced DEF TypeOK, Ids
  <1>5. TypeOK'
    BY CreateTyped
  <1>6. Known' /\ Following'
    BY DEF Known, Following, primary, cluster
  <1>7. Differences'
    <2> SUFFICES ASSUME NEW e \in Names
                 PROVE  /\ <<e, TRUE>> \in changes' => e \in newDBList
                        /\ <<e, FALSE>> \in changes' => e \notin newDBList
                        /\ servers'[e] # 0 <=> /\ e \in Selected \ {Database}
                                               /\ \/ e \in newDBList /\ <<e, TRUE>> \notin changes'
                                                  \/ <<e, FALSE>> \in changes'
      BY DEF Differences, primary
    <2>1. CASE e = d
      BY <2>1, <1>1, <1>2, <1>3 DEF Differences
    <2>2. CASE e # d
      BY <2>2, <1>3 DEF Differences
    <2> QED BY <2>1, <2>2
  <1>8. Addressed'
    <2>1. dsn \in Url
      BY DiscoveryAssumption DEF TypeOK
    <2> SUFFICES ASSUME NEW e \in Names, servers'[e] # 0 PROVE ParseDatname(url'[servers'[e]]) = e
      BY DEF Addressed, DatabaseOf
    <2>2. CASE e = d
      BY <2>1, <2>2, <1>3, <1>4, Replaced
    <2>3. CASE e # d
      <3>1. servers[e] \in Ids /\ servers'[e] = servers[e]
        BY <2>3, <1>3 DEF TypeOK, Ids
      <3> QED BY <3>1, <1>4 DEF Addressed, DatabaseOf
    <2> QED BY <2>2, <2>3
  <1>9. Pools'
    <2>1. Live' = Live \cup {created + 1}
      BY <1>1, <1>2, <1>3 DEF Live, TypeOK, Ids
    <2>2. created + 1 \notin closing \cup closed
      BY <1>2 DEF TypeOK
    <2> QED BY <2>1, <2>2 DEF Pools
  <1> QED BY <1>5, <1>6, <1>7, <1>8, <1>9

LEMMA Removes ==
    ASSUME DiscoveryInv, pc = "hook", NEW d \in Names, d # Database, d \in Selected,
           <<d, FALSE>> \in changes, RemoveServer(d), changes' = changes \ {<<d, FALSE>>},
           UNCHANGED <<cluster, primary, closed, pc, kind, newDBList, todo>>
    PROVE  DiscoveryInv'
  <1> USE DEF RemoveServer, DiscoveryInv
  <1>1. servers[d] # 0 /\ d \notin newDBList /\ <<d, TRUE>> \notin changes
    BY DEF Differences
  <1>2. /\ servers' \in [Names -> 0..created] /\ servers'[d] = 0
        /\ \A e \in Names \ {d} : servers'[e] = servers[e]
    BY DEF TypeOK
  <1>3. TypeOK'
    BY <1>2 DEF TypeOK, cluster, primary, Ids
  <1>4. Known' /\ Following'
    BY DEF Known, Following, primary, cluster
  <1>5. Differences'
    <2> SUFFICES ASSUME NEW e \in Names
                 PROVE  /\ <<e, TRUE>> \in changes' => e \in newDBList
                        /\ <<e, FALSE>> \in changes' => e \notin newDBList
                        /\ servers'[e] # 0 <=> /\ e \in Selected \ {Database}
                                               /\ \/ e \in newDBList /\ <<e, TRUE>> \notin changes'
                                                  \/ <<e, FALSE>> \in changes'
      BY DEF Differences, primary
    <2>1. CASE e = d
      BY <2>1, <1>1, <1>2 DEF Differences
    <2>2. CASE e # d
      BY <2>2, <1>2 DEF Differences
    <2> QED BY <2>1, <2>2
  <1>6. Addressed'
    BY <1>2 DEF Addressed, DatabaseOf
  <1>7. Pools'
    <2>1. \A e \in Names \ {d} : servers[e] # servers[d]
      BY <1>1 DEF Addressed
    <2>2. Live' = Live \ {servers[d]}
      BY <1>2, <2>1 DEF Live, TypeOK, Ids
    <2>3. todo = {}
      BY DEF Pools
    <2> QED BY <2>2, <2>3 DEF Pools
  <1> QED BY <1>3, <1>4, <1>5, <1>6, <1>7

LEMMA Skips ==
    ASSUME DiscoveryInv, pc = "hook", NEW d \in Names, NEW add \in BOOLEAN,
           <<d, add>> \in changes, d = Database \/ d \notin Selected, UNCHANGED forked,
           changes' = changes \ {<<d, add>>},
           UNCHANGED <<cluster, primary, closed, pc, kind, newDBList, todo>>
    PROVE  DiscoveryInv'
  <1> USE DEF DiscoveryInv
  <1>1. TypeOK'
    BY DEF TypeOK, cluster, primary, forked, Ids
  <1>2. Known' /\ Following' /\ Addressed' /\ Pools'
    BY DEF Known, Following, Addressed, Pools, cluster, primary, forked, DatabaseOf, Live, Ids
  <1>3. Differences'
    <2> SUFFICES ASSUME NEW e \in Names
                 PROVE  /\ <<e, TRUE>> \in changes' => e \in newDBList
                        /\ <<e, FALSE>> \in changes' => e \notin newDBList
                        /\ servers[e] # 0 <=> /\ e \in Selected \ {Database}
                                              /\ \/ e \in newDBList /\ <<e, TRUE>> \notin changes'
                                                 \/ <<e, FALSE>> \in changes'
      BY DEF Differences, primary, forked
    <2>1. CASE e = d
      <3>1. servers[e] = 0
        BY <2>1 DEF Differences, TypeOK
      <3> QED BY <2>1, <3>1 DEF Differences
    <2>2. CASE e # d
      <3>1. \A k \in BOOLEAN : <<e, k>> \in changes' <=> <<e, k>> \in changes
        BY <2>2
      <3> QED BY <3>1 DEF Differences
    <2> QED BY <2>1, <2>2
  <1> QED BY <1>1, <1>2, <1>3

-----------------------------------------------------------------------------

LEMMA Lists ==
    ASSUME DiscoveryInv, Stable, listDatabases
    PROVE  DiscoveryInv'
  <1> USE DEF DiscoveryInv, listDatabases
  <1>1. current \in Names /\ \A d \in Names : Database # current => servers[d] = 0
    BY DiscoveryAssumption DEF TypeOK, Known, Following
  <1>2. TypeOK'
    BY ListTyped
  <1>3. Known' /\ Following'
    BY DEF Known, Following, cluster
  <1>4. Differences'
    <2> SUFFICES ASSUME NEW d \in Names
                 PROVE  /\ <<d, TRUE>> \in changes' => d \in databases
                        /\ <<d, FALSE>> \in changes' => d \notin databases
                        /\ servers[d] # 0 <=> /\ d \in Selected \ {current}
                                              /\ \/ d \in databases /\ <<d, TRUE>> \notin changes'
                                                 \/ <<d, FALSE>> \in changes'
      BY DEF Differences, forked
    <2>1. /\ <<d, TRUE>> \in changes' <=> d \in databases \ Databases'
          /\ <<d, FALSE>> \in changes' <=> d \in Databases' \ databases
      OBVIOUS
    <2>2. CASE Database = current
      BY <2>1, <2>2 DEF Following
    <2>3. CASE Database # current
      <3>1. Databases = {} /\ servers[d] = 0
        BY <2>3, <1>1 DEF Known
      <3> QED BY <2>1, <3>1
    <2> QED BY <2>1, <2>2, <2>3
  <1>5. Addressed' /\ Pools'
    BY DEF Addressed, Pools, forked, DatabaseOf, Live, Ids
  <1> QED BY <1>2, <1>3, <1>4, <1>5

LEMMA DiscoveryInvNext ==
    ASSUME Stable PROVE DiscoveryInv /\ [Next]_vars => DiscoveryInv'
  <1> SUFFICES ASSUME DiscoveryInv, [Next]_vars PROVE DiscoveryInv'
    OBVIOUS
  <1> USE DEF DiscoveryInv
  <1>0. TypeOK'
    BY TypeStep
  <1>1. CASE listDatabases
    BY <1>1, Lists
  <1>2. CASE precheckFails
    BY <1>0, <1>2 DEF precheckFails, Known, Following, Differences, Addressed, Pools, cluster,
                primary, forked, DatabaseOf, Live, Ids
  <1>3. CASE hook
    <2>1. PICK d \in Names, add \in BOOLEAN :
             /\ <<d, add>> \in changes /\ changes' = changes \ {<<d, add>>}
             /\ \/ ~Wanted(d) /\ UNCHANGED forked
                \/ Wanted(d) /\ add /\ CreateServer(d)
                \/ Wanted(d) /\ ~add /\ RemoveServer(d)
      BY <1>3, HookCases
    <2>2. /\ pc = "hook"
          /\ UNCHANGED <<cluster, primary, closed, pc, kind, newDBList, todo>>
      BY <1>3, HookCases
    <2>3. CASE ~Wanted(d) /\ UNCHANGED forked
      BY <2>1, <2>2, <2>3, Skips DEF Wanted
    <2>4. CASE Wanted(d) /\ add /\ CreateServer(d)
      <3>1. add = TRUE
        BY <2>4
      <3> QED BY <2>1, <2>2, <2>4, <3>1, Creates DEF Wanted
    <2>5. CASE Wanted(d) /\ ~add /\ RemoveServer(d)
      <3>1. add = FALSE
        BY <2>5
      <3> QED BY <2>1, <2>2, <2>5, <3>1, Removes DEF Wanted
    <2> QED BY <2>1, <2>3, <2>4, <2>5
  <1>4. CASE precheckEnds
    <2>1. Known' /\ Addressed' /\ Pools'
      BY <1>4 DEF precheckEnds, TypeOK, Known, Addressed, Pools, cluster, forked, DatabaseOf,
                  Live, Ids
    <2>2. Following' /\ Differences'
      BY <1>4 DEF precheckEnds, Following, Differences, forked, TypeOK
    <2> QED BY <1>0, <2>1, <2>2
  <1>5. CASE scrape
    BY <1>0, <1>5 DEF scrape, Known, Following, Differences, Addressed, Pools, cluster, primary,
                forked, DatabaseOf, Live, Ids
  <1>6. CASE IterateServer
    <2>1. Known' /\ Following' /\ Differences'
      BY <1>6 DEF IterateServer, Known, Following, Differences, cluster, primary, forked
    <2>2. Addressed' /\ Pools'
      BY <1>6 DEF IterateServer, Addressed, Pools, forked, DatabaseOf, Live, Ids
    <2> QED BY <1>0, <2>1, <2>2
  <1>7. CASE collect
    BY <1>0, <1>7 DEF collect, Known, Following, Differences, Addressed, Pools, cluster, primary,
                DatabaseOf, Live, Ids
  <1>8. CASE scraped
    BY <1>0, <1>8 DEF scraped, Known, Following, Differences, Addressed, Pools, cluster, primary,
                forked, DatabaseOf, Live, Ids
  <1>9. CASE Close
    <2>1. Known' /\ Following' /\ Differences' /\ Addressed'
      BY <1>9 DEF Close, Known, Following, Differences, Addressed, cluster, primary, DatabaseOf
    <2>2. Live' = Live /\ closing' \cup closed' = closing \cup closed
      BY <1>9 DEF Close, Live, Ids
    <2>3. Pools'
      BY <1>9, <2>2 DEF Close, Pools
    <2> QED BY <1>0, <2>1, <2>3
  <1>10. CASE clusterChange
    <2>1. current' = current
      BY <1>10 DEF clusterChange, Stable, TypeOK
    <2>2. Known' /\ Following' /\ Differences'
      BY <1>10, <2>1 DEF clusterChange, Known, Following, Differences, primary, forked
    <2>3. Addressed' /\ Pools'
      BY <1>10 DEF clusterChange, Addressed, Pools, forked, DatabaseOf, Live, Ids
    <2> QED BY <1>0, <2>2, <2>3
  <1>11. CASE UNCHANGED vars
    BY <1>0, <1>11 DEF vars, Known, Following, Differences, Addressed, Pools, cluster, primary,
                 forked, DatabaseOf, Live, Ids
  <1> QED BY <1>1, <1>2, <1>3, <1>4, <1>5, <1>6, <1>7, <1>8, <1>9, <1>10, <1>11 DEF Next

(* The inductive invariant of Discovery (exporter.go:617-689,              *)
(* server.go:316-365).                                                     *)
THEOREM DiscoveryInvariant == ASSUME Stable PROVE Spec => []DiscoveryInv
  BY DiscoveryInvInit, DiscoveryInvNext, PTL DEF Spec

(* Every state is well-typed, wherever the primary's URL leads             *)
(* (exporter.go:617-689).                                                  *)
THEOREM DiscoveryTyped == Spec => []TypeOK
  BY TypeInit, TypeStep, PTL DEF Spec

(* Between two prechecks every selected database is scraped by exactly one *)
(* server (exporter.go:617-663, server.go:327-365).                        *)
THEOREM DatabasesOnce == ASSUME Stable PROVE Spec => []EveryDatabaseOnce
  <1>1. DiscoveryInv => EveryDatabaseOnce
    BY DEF DiscoveryInv, EveryDatabaseOnce, Following, Addressed
  <1> QED BY <1>1, DiscoveryInvariant, PTL

(* No scrape uses a removed server (exporter.go:240-250, 667-689).         *)
THEOREM RemovedUnused == ASSUME Stable PROVE Spec => []NeverScrapesRemoved
  <1>1. DiscoveryInv => NeverScrapesRemoved
    BY DEF DiscoveryInv, NeverScrapesRemoved, Pools
  <1> QED BY <1>1, DiscoveryInvariant, PTL

(* No opened pool is forgotten (exporter.go:667-689).                      *)
THEOREM PoolsKept == ASSUME Stable PROVE Spec => []NoPoolForgotten
  <1>1. DiscoveryInv => NoPoolForgotten
    BY DEF DiscoveryInv, NoPoolForgotten, Pools
  <1> QED BY <1>1, DiscoveryInvariant, PTL

-----------------------------------------------------------------------------
(* Discovery implements DatabaseFollower, also when the URL leads          *)
(* elsewhere: the list commits the exporter to a set of servers, and no    *)
(* difference that the hook goes through changes that set.                 *)

\* Nothing is both to be created and to be removed, nor left over.
Unambiguous == /\ pc # "hook" => changes = {}
               /\ \A d \in Names : <<d, TRUE>> \notin changes \/ <<d, FALSE>> \notin changes

LEMMA UnambiguousStep ==
    ASSUME TypeOK, Unambiguous, [Next]_vars
    PROVE  Unambiguous'
  <1>1. CASE listDatabases
    <2>1. \A d \in Names : /\ <<d, TRUE>> \in changes' => d \in databases
                           /\ <<d, FALSE>> \in changes' => d \notin databases
      BY <1>1 DEF listDatabases
    <2> QED BY <1>1, <2>1 DEF listDatabases, Unambiguous
  <1>2. CASE hook
    BY <1>2 DEF hook, Unambiguous
  <1>3. CASE ~listDatabases /\ ~hook
    <2>1. /\ UNCHANGED changes
          /\ pc' = "hook" <=> pc = "hook" /\ ~precheckEnds
          /\ precheckEnds => changes = {}
      BY <1>3 DEF Next, vars, precheckFails, precheckEnds, scrape, IterateServer, collect, scraped,
                  Close, clusterChange
    <2> QED BY <2>1 DEF Unambiguous
  <1> QED BY <1>1, <1>2, <1>3

\* What the list promises.
LEMMA ListFollows ==
    ASSUME TypeOK, Unambiguous, listDatabases
    PROVE  Follower!Follow
  <1> DEFINE known  == IF pc = "hook" THEN newDBList ELSE Databases
             listed == known \cup {current}
  <1>1. known = Databases /\ listed = Databases' /\ known' = databases
    BY DEF listDatabases
  <1>2. Promised = {d \in Names : servers[d] # 0}
    BY DEF Promised, Due, Unambiguous, listDatabases
  <1>3. \A d \in Selected : <<d, TRUE>> \in changes' <=> d \in databases \ listed
    BY <1>1 DEF listDatabases
  <1>4. \A d \in Selected : <<d, FALSE>> \in changes' <=> d \in listed \ databases
    BY <1>1 DEF listDatabases
  <1>5. servers' = servers /\ Database' = current /\ UNCHANGED <<databases, current>>
    BY DEF listDatabases, forked, cluster
  <1>6. Due(TRUE)' = {d \in databases \ listed : Follower!Followed(d)}
    <2>1. Due(TRUE)' = {d \in Selected \ {current} : <<d, TRUE>> \in changes'}
      BY <1>5 DEF Due
    <2> HIDE DEF listed
    <2> QED BY <1>3, <2>1 DEF Follower!Followed
  <1>7. Due(FALSE)' = {d \in listed \ databases : Follower!Followed(d)}
    <2>1. Due(FALSE)' = {d \in Selected \ {current} : <<d, FALSE>> \in changes'}
      BY <1>5 DEF Due
    <2> HIDE DEF listed
    <2> QED BY <1>4, <2>1 DEF Follower!Followed
  <1>8. Promised' = (Promised \cup {d \in databases \ listed : Follower!Followed(d)})
                              \ {d \in listed \ databases : Follower!Followed(d)}
    BY <1>2, <1>5, <1>6, <1>7 DEF Promised
  <1> QED BY <1>1, <1>5, <1>8 DEF Follower!Follow

\* A difference that is gone through changes what is there, not what is promised.
LEMMA HookKeepsPromise ==
    ASSUME TypeOK, Unambiguous, hook
    PROVE  Promised' = Promised
  <1>1. PICK d \in Names, add \in BOOLEAN :
           /\ <<d, add>> \in changes /\ changes' = changes \ {<<d, add>>}
           /\ \/ ~Wanted(d) /\ UNCHANGED forked
              \/ Wanted(d) /\ add /\ CreateServer(d)
              \/ Wanted(d) /\ ~add /\ RemoveServer(d)
    BY HookCases
  <1>2. Database' = Database
    BY HookCases DEF primary
  <1>3. \A e : Wanted(e) <=> e \in Selected \ {Database}
    BY DEF Wanted
  <1>4. ASSUME NEW e \in Names PROVE e \in Promised' <=> e \in Promised
    <2>1. CASE e # d
      <3>1. servers'[e] = servers[e]
        BY <1>1, <2>1 DEF CreateServer, RemoveServer, forked, TypeOK
      <3>2. \A k \in BOOLEAN : <<e, k>> \in changes' <=> <<e, k>> \in changes
        BY <1>1, <2>1
      <3>3. \A k \in BOOLEAN : e \in Due(k)' <=> e \in Due(k)
        BY <1>2, <3>2 DEF Due
      <3> QED BY <3>1, <3>3 DEF Promised
    <2>2. CASE e = d /\ ~Wanted(d)
      <3>1. servers' = servers
        BY <1>1, <2>2 DEF forked
      <3>2. \A k \in BOOLEAN : e \notin Due(k)' /\ e \notin Due(k)
        BY <1>2, <1>3, <2>2 DEF Due
      <3> QED BY <3>1, <3>2 DEF Promised
    <2>3. CASE e = d /\ Wanted(d) /\ add /\ CreateServer(d)
      <3>1. servers'[e] # 0
        BY <2>3 DEF CreateServer, TypeOK
      <3>2. add = TRUE /\ <<e, TRUE>> \in changes /\ <<e, FALSE>> \notin changes
        BY <1>1, <2>3 DEF Unambiguous
      <3>3. e \in Due(TRUE) /\ e \notin Due(FALSE)
        BY <1>3, <2>3, <3>2 DEF Due
      <3>4. e \notin Due(FALSE)'
        BY <1>1, <3>2 DEF Due
      <3> QED BY <3>1, <3>3, <3>4 DEF Promised
    <2>4. CASE e = d /\ Wanted(d) /\ ~add /\ RemoveServer(d)
      <3>1. servers'[e] = 0
        BY <2>4 DEF RemoveServer, TypeOK
      <3>2. add = FALSE /\ <<e, FALSE>> \in changes /\ <<e, TRUE>> \notin changes
        BY <1>1, <2>4 DEF Unambiguous
      <3>3. e \in Due(FALSE)
        BY <1>3, <2>4, <3>2 DEF Due
      <3>4. e \notin Due(TRUE)'
        BY <1>1, <3>2 DEF Due
      <3> QED BY <3>1, <3>3, <3>4 DEF Promised
    <2> QED BY <1>1, <2>1, <2>2, <2>3, <2>4
  <1>5. Promised \subseteq Names /\ Promised' \subseteq Names
    BY DEF Promised, Due, Selected
  <1> QED BY <1>4, <1>5

LEMMA StepFollows ==
    TypeOK /\ Unambiguous /\ [Next]_vars => [Follower!Next]_Follower!vars
  <1> SUFFICES ASSUME TypeOK, Unambiguous, [Next]_vars PROVE [Follower!Next]_Follower!vars
    OBVIOUS
  <1> DEFINE known == IF pc = "hook" THEN newDBList ELSE Databases
  <1>1. CASE listDatabases
    BY <1>1, ListFollows DEF Follower!Next
  <1>2. CASE hook
    <2>1. UNCHANGED <<databases, current>> /\ known' = known
      BY <1>2, HookCases DEF cluster, primary
    <2> QED BY <1>2, <2>1, HookKeepsPromise DEF Follower!vars
  <1>3. CASE precheckEnds
    <2>1. UNCHANGED <<databases, current>> /\ known' = known
      BY <1>3 DEF precheckEnds, cluster
    <2>2. Promised' = Promised
      BY <1>3 DEF precheckEnds, forked, Promised, Due
    <2> QED BY <2>1, <2>2 DEF Follower!vars
  <1>4. CASE clusterChange
    <2>1. databases' \subseteq Names /\ current' \in Names
      BY <1>4, DiscoveryAssumption DEF clusterChange, TypeOK
    <2>2. known' = known /\ Promised' = Promised
      BY <1>4 DEF clusterChange, primary, forked, Promised, Due
    <2> QED BY <2>1, <2>2 DEF Follower!Change, Follower!Next
  <1>5. CASE ~listDatabases /\ ~hook /\ ~precheckEnds /\ ~clusterChange
    <2>1. /\ UNCHANGED <<databases, current, Database, Databases, servers, newDBList, changes>>
          /\ pc' = "hook" <=> pc = "hook"
      BY <1>5 DEF Next, vars, precheckFails, scrape, IterateServer, collect, scraped, Close,
                  cluster, primary, forked
    <2>2. known' = known /\ Promised' = Promised
      BY <2>1 DEF Promised, Due
    <2> QED BY <2>1, <2>2 DEF Follower!vars
  <1> QED BY <1>1, <1>2, <1>3, <1>4, <1>5

(* For whoever waits for Exporter.lock the servers follow the list in one  *)
(* step, in whatever order the differences come and wherever the primary's *)
(* URL leads, for any databases and lists (exporter.go:617-645,            *)
(* server.go:339-365).                                                     *)
THEOREM Follows == Spec => ImplementsFollower
  <1>1. Init => Follower!Init /\ Unambiguous
    <2> SUFFICES ASSUME Init PROVE Follower!Init /\ Unambiguous
      OBVIOUS
    <2>1. Promised = {}
      BY DEF Init, Promised, Due
    <2> QED BY <2>1, DiscoveryAssumption DEF Init, Follower!Init, Unambiguous
  <1>2. TypeOK /\ Unambiguous /\ [Next]_vars => TypeOK' /\ Unambiguous'
    BY TypeStep, UnambiguousStep
  <1> QED BY <1>1, <1>2, TypeInit, StepFollows, PTL DEF Spec, Follower!Spec, ImplementsFollower
=============================================================================
