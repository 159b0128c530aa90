--------------------------------- MODULE Pool ---------------------------------
(***************************************************************************)
(* The connections of the primary Server (exporter/server.go,              *)
(* exporter/collector.go): a database/sql pool, of three connections to a  *)
(* PostgreSQL server and of one to pgbouncer, that a scrape and the health *)
(* loop share without a lock.  A scrape takes a connection for every round *)
(* trip of its precheck and for every predicate or main query, and keeps   *)
(* it until the rows are closed; a probe takes one for its single query.   *)
(* Who waits for a connection does so under the deadline of its own query. *)
(*                                                                         *)
(* The pool itself is database/sql; what the answers mean is in Collector, *)
(* Server and HealthState.                                                 *)
(***************************************************************************)
EXTENDS Naturals

CONSTANTS
    NCollectors,   \* planned queries
    NPred          \* predicate queries of each

ASSUME PoolAssumption == NCollectors \in Nat /\ NPred \in Nat

VARIABLES
    PgbouncerMode, \* the target is pgbouncer, for good
    reachable,     \* the target answers within the connect timeout
    at,            \* the round trip the scrape is at: <<collector, number>>
    pc,            \* how far the round trip has come
    held,          \* connections the scrape has
    probe,         \* the health loop
    saw,           \* history: this probe could have met an unreachable target
    probedUp       \* what the last probe found

vars == <<PgbouncerMode, reachable, at, pc, held, probe, saw, probedUp>>

\* SetMaxOpenConns, and the round trips of the precheck.
MaxOpen == IF PgbouncerMode THEN 1 ELSE 3
Trips   == IF PgbouncerMode THEN 1 ELSE 3

\* Collector 0 is the precheck; the last trip of any other is its main query.
Length(c) == IF c = 0 THEN Trips ELSE NPred + 1
End       == <<NCollectors + 1, 1>>
Position  == {p \in (0..NCollectors) \X Nat : p[2] \in 1..Length(p[1])} \cup {End}

\* With rows open: before the checks of the columns, and then, of a
\* predicate, before its first and before a second row.
Reading == {"open", "first", "second"}

TypeOK ==
    /\ PgbouncerMode \in BOOLEAN
    /\ reachable \in BOOLEAN
    /\ at \in Position
    /\ pc \in {"waiting", "asking"} \cup Reading
    /\ held \in Nat
    /\ probe \in {"idle", "waiting", "asking"}
    /\ saw \in BOOLEAN
    /\ probedUp \in BOOLEAN

\* After the start-up check, when the health loop starts.
Init == /\ PgbouncerMode \in BOOLEAN
        /\ reachable \in BOOLEAN
        /\ at = End /\ pc = "waiting" /\ held = 0
        /\ probe = "idle" /\ saw = FALSE /\ probedUp \in BOOLEAN

InUse == held + (IF probe = "asking" THEN 1 ELSE 0)

-----------------------------------------------------------------------------
(* The scrape.                                                             *)

nextCollector == <<at[1] + 1, 1>>

nextTrip == IF at[2] < Length(at[1]) THEN <<at[1], at[2] + 1>> ELSE nextCollector

\* A failed precheck ends the scrape, a failed or skipped query the
\* collector, and the scrape too if the query is Fatal.
afterFailure  == IF at[1] = 0 THEN {End} ELSE {nextCollector, End}

scraping == at # End

beginScrape ==
    /\ ~scraping
    /\ at' = <<0, 1>>
    /\ UNCHANGED <<PgbouncerMode, reachable, pc, held, probe, saw, probedUp>>

(* Answers of a collector or of a predicate that are still cached cost no  *)
(* connection; a cached "false" skips the query.                           *)
fromCache ==
    /\ scraping /\ pc = "waiting" /\ at[1] > 0
    /\ at' \in {nextTrip, nextCollector}
    /\ UNCHANGED <<PgbouncerMode, reachable, pc, held, probe, saw, probedUp>>

connect ==
    /\ scraping /\ pc = "waiting" /\ InUse < MaxOpen
    /\ held' = held + 1
    /\ pc' = "asking"
    /\ UNCHANGED <<PgbouncerMode, reachable, at, probe, saw, probedUp>>

\* A query under context.Background().
waitForever == FALSE /\ UNCHANGED vars

(* The deadline of the query passes before a connection is free.           *)
giveUp ==
    /\ scraping /\ pc = "waiting" /\ InUse >= MaxOpen
    /\ at' \in afterFailure
    /\ UNCHANGED <<PgbouncerMode, reachable, pc, held, probe, saw, probedUp>>

atPredicate == at[1] > 0 /\ at[2] <= NPred

\* The round trip is over, and what comes next is one of next.
leave(next) ==
    /\ pc' = "waiting"
    /\ at' \in next
    /\ UNCHANGED <<PgbouncerMode, reachable, probe, saw, probedUp>>

\* The rows go on in the same round trip.
goOn(stage) ==
    /\ pc' = stage
    /\ UNCHANGED <<PgbouncerMode, reachable, at, held, probe, saw, probedUp>>

closeRows == held' = held - 1

(* There are no rows, and database/sql takes the connection back.          *)
queryFails == pc = "asking" /\ leave(afterFailure) /\ closeRows

\* The round trips of the precheck close their own rows.
precheckAnswers == pc = "asking" /\ at[1] = 0 /\ reachable /\ leave({nextTrip}) /\ closeRows

rowsOpen == pc = "asking" /\ at[1] > 0 /\ reachable /\ goOn("open")

(* The returns of executePredicateQueries.                                 *)

columnTypesFail  == pc = "open" /\ atPredicate /\ leave(afterFailure) /\ closeRows
wrongColumnCount == pc = "open" /\ atPredicate /\ leave(afterFailure) /\ closeRows
wrongColumnType  == pc = "open" /\ atPredicate /\ leave(afterFailure) /\ closeRows
columnsPass      == pc = "open" /\ atPredicate /\ goOn("first")

scanFails == pc = "first" /\ leave(afterFailure) /\ closeRows
scan      == pc = "first" /\ goOn("second")

\* A predicate with two rows fails, and its rows stay open.
secondRowLeaving == pc = "second" /\ leave(afterFailure) /\ UNCHANGED held

secondRow == pc = "second" /\ leave(afterFailure) /\ closeRows

iterationFails == pc \in {"first", "second"} /\ leave(afterFailure) /\ closeRows
closeFails     == pc \in {"first", "second"} /\ leave(afterFailure) /\ closeRows

\* False, NULL or no row at all.
predicateSkips  == pc \in {"first", "second"} /\ leave({nextCollector}) /\ closeRows
predicatePasses == pc = "second" /\ reachable /\ leave({nextTrip}) /\ closeRows

(* The returns of execute behind the main query: the deferred Close.       *)

mainFails    == pc = "open" /\ ~atPredicate /\ leave(afterFailure) /\ closeRows
mainSucceeds == pc = "open" /\ ~atPredicate /\ reachable /\ leave({nextTrip}) /\ closeRows

roundTrip ==
    \/ queryFails \/ precheckAnswers \/ rowsOpen
    \/ columnTypesFail \/ wrongColumnCount \/ wrongColumnType \/ columnsPass
    \/ scanFails \/ scan \/ secondRow \/ iterationFails \/ closeFails
    \/ predicateSkips \/ predicatePasses
    \/ mainFails \/ mainSucceeds

-----------------------------------------------------------------------------
(* ProbeHealth, by the health loop.                                        *)

probeBegins ==
    /\ probe = "idle"
    /\ probe' = "waiting"
    /\ saw' = ~reachable
    /\ UNCHANGED <<PgbouncerMode, reachable, at, pc, held, probedUp>>

probeConnects ==
    /\ probe = "waiting" /\ InUse < MaxOpen
    /\ probe' = "asking"
    /\ UNCHANGED <<PgbouncerMode, reachable, at, pc, held, saw, probedUp>>

\* A probe without a timeout of its own.
probeWaitsForever == FALSE /\ UNCHANGED vars

probeGivesUp ==
    /\ probe = "waiting" /\ InUse >= MaxOpen
    /\ probe' = "idle"
    /\ probedUp' = FALSE
    /\ UNCHANGED <<PgbouncerMode, reachable, at, pc, held, saw>>

probeEnds ==
    /\ probe = "asking"
    /\ probe' = "idle"
    /\ probedUp' = reachable
    /\ UNCHANGED <<PgbouncerMode, reachable, at, pc, held, saw>>

-----------------------------------------------------------------------------

targetChange ==
    /\ reachable' = ~reachable
    /\ saw' = (saw \/ ~reachable')
    /\ UNCHANGED <<PgbouncerMode, at, pc, held, probe, probedUp>>

scrape    == beginScrape \/ fromCache \/ connect \/ giveUp \/ roundTrip
probing   == probeBegins \/ probeConnects \/ probeGivesUp \/ probeEnds

Next == scrape \/ probing \/ targetChange

Spec == Init /\ [][Next]_vars

(* Every wait and every query but those without a timeout has a deadline,  *)
(* so both goroutines go on.                                               *)
FairSpec == Spec /\ WF_vars(scrape) /\ WF_vars(probing)

-----------------------------------------------------------------------------
(* A scrape has no connection while it waits for one, and none when it has *)
(* ended: rows are closed on every way out of a predicate and of a query,  *)
(* so that a pool of one connection, pgbouncer's or a discovered           *)
(* database's, is never exhausted by the scrape itself                     *)
(* (collector.go:176-219, 279).                                            *)
NeverHoldsAndWaits == pc = "waiting" => held = 0

(* "Health probing is intentionally decoupled from /metrics scraping"      *)
(* (exporter.go:185): a probe finds a PostgreSQL server down only if it    *)
(* was unreachable at some time during the probe, never because of a       *)
(* scrape.  A pgbouncer, whose one connection a scrape may have for longer *)
(* than the connect timeout, has no such guarantee (server.go:118-153).    *)
DownMeansUnreachable ==
    [][~PgbouncerMode /\ probe # "idle" /\ probe' = "idle" /\ ~probedUp' => saw]_vars

(* Each scrape and each probe comes to its end, although they wait for     *)
(* each other's connections (server.go:124-132, collector.go:248-253).     *)
ScrapesEnd == at = <<0, 1>> ~> at = End
ProbesEnd  == probe = "waiting" ~> probe = "idle"
=============================================================================
