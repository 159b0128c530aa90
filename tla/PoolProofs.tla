------------------------------ MODULE PoolProofs ------------------------------
(***************************************************************************)
(* Proofs about Pool, for any number of planned queries and of predicates. *)
(* What makes the induction go through is that the scrape has one          *)
(* connection exactly while it is in a round trip; then more than one      *)
(* connection is enough for scrape and probe never to meet.                *)
(***************************************************************************)
EXTENDS Pool, TLAPS

OneConnection == /\ held = IF pc = "waiting" THEN 0 ELSE 1
                 /\ pc # "waiting" => scraping

Witnessed == probe # "idle" /\ ~reachable => saw

PoolInv == TypeOK /\ OneConnection /\ Witnessed

\* Where the scrape goes from a round trip is a round trip, or its end.
LEMMA Moves ==
    ASSUME TypeOK, scraping
    PROVE  /\ nextTrip \in Position /\ nextCollector \in Position
           /\ afterFailure \subseteq Position
  <1>1. at[1] \in 0..NCollectors /\ at[2] \in Nat /\ at[2] \in 1..Length(at[1])
    BY DEF TypeOK, scraping, Position
  <1>2. nextCollector \in Position
    <2>1. CASE at[1] = NCollectors
      BY <2>1 DEF nextCollector, Position, End
    <2>2. CASE at[1] < NCollectors
      <3>1. at[1] + 1 \in 0..NCollectors /\ 1 \in 1..Length(at[1] + 1)
        BY <1>1, <2>2, PoolAssumption DEF Length, Trips
      <3> QED BY <3>1 DEF nextCollector, Position
    <2> QED BY <1>1, <2>1, <2>2, PoolAssumption
  <1>3. nextTrip \in Position
    <2>1. CASE at[2] < Length(at[1])
      <3>1. at[2] + 1 \in 1..Length(at[1])
        BY <1>1, <2>1, PoolAssumption DEF Length, Trips
      <3> QED BY <1>1, <2>1, <3>1 DEF nextTrip, Position
    <2> QED BY <1>2, <2>1 DEF nextTrip
  <1>4. End \in Position
    BY DEF Position
  <1> QED BY <1>2, <1>3, <1>4 DEF afterFailure

\* The start of a scrape is a round trip, and not its end.
LEMMA Starts == <<0, 1>> \in Position /\ <<0, 1>> # End
  <1>1. <<0, 1>> \in Position
    BY PoolAssumption DEF Position, Length, Trips
  <1>2. <<0, 1>> # End
    BY PoolAssumption DEF End
  <1> QED BY <1>1, <1>2

\* Every return of a round trip goes on to another, or to the end.
LEMMA Returns ==
    ASSUME TypeOK, roundTrip
    PROVE  /\ pc # "waiting"
           /\ \/ \E stage \in Reading : goOn(stage)
              \/ closeRows /\ (leave(afterFailure) \/ leave({nextTrip}) \/ leave({nextCollector}))
  <1>1. CASE queryFails \/ precheckAnswers \/ rowsOpen
    BY <1>1 DEF queryFails, precheckAnswers, rowsOpen, Reading
  <1>2. CASE columnTypesFail \/ wrongColumnCount \/ wrongColumnType \/ columnsPass
    BY <1>2 DEF columnTypesFail, wrongColumnCount, wrongColumnType, columnsPass, Reading
  <1>3. CASE scanFails \/ scan \/ secondRow \/ iterationFails \/ closeFails
    BY <1>3 DEF scanFails, scan, secondRow, iterationFails, closeFails, Reading
  <1>4. CASE predicateSkips \/ predicatePasses \/ mainFails \/ mainSucceeds
    BY <1>4 DEF predicateSkips, predicatePasses, mainFails, mainSucceeds
  <1> QED BY <1>1, <1>2, <1>3, <1>4 DEF roundTrip

LEMMA PoolInvInit == Init => PoolInv
  <1>1. End \in Position
    BY DEF Position
  <1> SUFFICES ASSUME Init PROVE PoolInv
    OBVIOUS
  <1>2. TypeOK
    BY <1>1 DEF Init, TypeOK
  <1>3. OneConnection
    BY DEF Init, OneConnection
  <1>4. Witnessed
    BY DEF Init, Witnessed
  <1> QED BY <1>2, <1>3, <1>4 DEF PoolInv

LEMMA PoolInvNext == PoolInv /\ [Next]_vars => PoolInv'
  <1> SUFFICES ASSUME PoolInv, [Next]_vars PROVE PoolInv'
    OBVIOUS
  <1> USE DEF PoolInv, OneConnection, Witnessed
  <1>0. PgbouncerMode' = PgbouncerMode /\ Position' = Position
    <2>1. roundTrip => PgbouncerMode' = PgbouncerMode
      BY Returns DEF goOn, leave
    <2>2. PgbouncerMode' = PgbouncerMode
      BY <2>1 DEF Next, scrape, probing, vars, beginScrape, fromCache, connect, giveUp,
                  probeBegins, probeConnects, probeGivesUp, probeEnds, targetChange
    <2> QED BY <2>2 DEF Position, Length, Trips, End
  <1>1. CASE beginScrape
    BY <1>0, <1>1, Starts DEF beginScrape, TypeOK, scraping
  <1>2. CASE fromCache
    BY <1>0, <1>2, Moves DEF fromCache, TypeOK, scraping
  <1>3. CASE connect
    BY <1>0, <1>3 DEF connect, TypeOK, scraping
  <1>4. CASE giveUp
    BY <1>0, <1>4, Moves DEF giveUp, TypeOK, scraping
  <1>5. CASE roundTrip
    <2>1. pc # "waiting" /\ held = 1 /\ scraping
      BY <1>5, Returns
    <2>2. CASE \E stage \in Reading : goOn(stage)
      BY <1>0, <2>1, <2>2 DEF goOn, Reading, TypeOK, scraping
    <2>3. CASE closeRows /\ (leave(afterFailure) \/ leave({nextTrip}) \/ leave({nextCollector}))
      <3>1. at' \in Position /\ pc' = "waiting" /\ held' = 0
        BY <2>1, <2>3, Moves DEF leave, closeRows
      <3>2. UNCHANGED <<PgbouncerMode, reachable, probe, saw, probedUp>>
        BY <2>3 DEF leave
      <3> QED BY <1>0, <3>1, <3>2 DEF TypeOK
    <2> QED BY <1>5, <2>2, <2>3, Returns
  <1>6. CASE probeBegins
    BY <1>0, <1>6 DEF probeBegins, TypeOK, scraping
  <1>7. CASE probeConnects
    BY <1>0, <1>7 DEF probeConnects, TypeOK, scraping
  <1>8. CASE probeGivesUp
    BY <1>0, <1>8 DEF probeGivesUp, TypeOK, scraping
  <1>9. CASE probeEnds
    BY <1>0, <1>9 DEF probeEnds, TypeOK, scraping
  <1>10. CASE targetChange
    BY <1>0, <1>10 DEF targetChange, TypeOK, scraping
  <1>11. CASE UNCHANGED vars
    BY <1>0, <1>11 DEF vars, TypeOK, scraping
  <1> QED BY <1>1, <1>2, <1>3, <1>4, <1>5, <1>6, <1>7, <1>8, <1>9, <1>10, <1>11
          DEF Next, scrape, probing

(* The inductive invariant of Pool (collector.go:134-279,                  *)
(* server.go:118-153).                                                     *)
THEOREM PoolInvariant == Spec => []PoolInv
  BY PoolInvInit, PoolInvNext, PTL DEF Spec

(* Every state is well-typed; in particular a scrape is always at one of   *)
(* its round trips or at its end (server.go:578-644).                      *)
THEOREM PoolTyped == Spec => []TypeOK
  <1>1. PoolInv => TypeOK
    BY DEF PoolInv
  <1> QED BY <1>1, PoolInvariant, PTL

(* However many queries and predicates a server has, a scrape that waits   *)
(* for a connection has none: a pool of one connection is enough for it    *)
(* (collector.go:176-219, 279).                                            *)
THEOREM RowsAreClosed == Spec => []NeverHoldsAndWaits
  <1>1. PoolInv => NeverHoldsAndWaits
    BY DEF PoolInv, OneConnection, NeverHoldsAndWaits
  <1> QED BY <1>1, PoolInvariant, PTL

(* A probe never finds a PostgreSQL server down because of a scrape        *)
(* (server.go:118-153, 273-279).                                           *)
THEOREM ProbesAreDecoupled == Spec => DownMeansUnreachable
  <1>1. ASSUME PoolInv, Next
        PROVE  ~PgbouncerMode /\ probe # "idle" /\ probe' = "idle" /\ ~probedUp' => saw
    <2> SUFFICES ASSUME ~PgbouncerMode, probe # "idle", probe' = "idle", ~probedUp' PROVE saw
      OBVIOUS
    <2>1. CASE probeGivesUp
      <3>1. held \in {0, 1} /\ InUse = held
        BY <2>1, <1>1 DEF probeGivesUp, PoolInv, OneConnection, InUse
      <3> QED BY <3>1, <2>1, PoolAssumption DEF probeGivesUp, MaxOpen
    <2>2. CASE probeEnds
      BY <2>2, <1>1 DEF probeEnds, PoolInv, Witnessed
    <2>3. CASE scrape \/ targetChange
      <3>1. CASE roundTrip
        BY <1>1, <3>1, Returns DEF PoolInv, goOn, leave
      <3> QED BY <2>3, <3>1 DEF scrape, beginScrape, fromCache, connect, giveUp, targetChange
    <2>4. CASE probeBegins \/ probeConnects
      BY <2>4 DEF probeBegins, probeConnects
    <2> QED BY <1>1, <2>1, <2>2, <2>3, <2>4 DEF Next, probing
  <1>2. PoolInv /\ [Next]_vars
          => [~PgbouncerMode /\ probe # "idle" /\ probe' = "idle" /\ ~probedUp' => saw]_vars
    BY <1>1
  <1> QED BY <1>2, PoolInvariant, PTL DEF Spec, DownMeansUnreachable
=============================================================================
