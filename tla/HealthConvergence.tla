-------------------------- MODULE HealthConvergence --------------------------
(***************************************************************************)
(* HealthState with history variables that say when the three atomics may  *)
(* be trusted.  A goroutine is discordant while what it is about to store  *)
(* no longer describes the target.  The snapshot is settled once a whole   *)
(* update that began while nobody was discordant has been stored, and      *)
(* until the target changes or somebody becomes discordant again.          *)
(***************************************************************************)
EXTENDS HealthState

VARIABLES
    clean,      \* goroutines whose update began while nobody was discordant
    settled,    \* a clean update has been stored since
    steady      \* requests that began, and have remained, in a settled state

history == <<clean, settled, steady>>
hvars   == <<vars, history>>

(* An update is in flight from the moment something has been learnt until  *)
(* the last of its three stores.                                           *)
InFlight(w) == pc[w] \in {"queries", "load", "up", "recovery", "status"}
\* What w would store if it learnt nothing more.
Pending(w) == IF pc[w] \in {"queries", "load"} THEN serverView ELSE view[w]

Describes(v, t) == /\ v.up = IsUp(t)
                   /\ v.up => v.recovery = (t = "replica")
                   /\ v.starting => t = "starting"

Discordant(w) == InFlight(w) /\ ~Describes(Pending(w), target)

HInit == /\ Init
         /\ clean = {} /\ settled = FALSE /\ steady = {}

disturbed == target' # target \/ \E w \in Writers : Discordant(w)'

HNext ==
    /\ Next
    /\ IF disturbed
       THEN clean' = {} /\ settled' = FALSE
       ELSE /\ clean' = {w \in Writers : InFlight(w)' /\
                 (w \in clean \/ (~InFlight(w) /\ \A v \in Writers : ~Discordant(v)))}
            /\ settled' = (settled \/ \E w \in clean : ~InFlight(w)')
    /\ steady' = {r \in Readers : settled' /\ req'[r].pc # "idle" /\
                    (r \in steady \/ (req[r].pc \in {"idle", "done"} /\ req'[r].pc = "up"))}

HSpec == HInit /\ [][HNext]_hvars

-----------------------------------------------------------------------------
(* A settled snapshot is exactly the target's state: out-of-date stores of *)
(* another goroutine can no longer surface (exporter.go:123-140).          *)
SettledSnapshot == settled => SnapshotIs(target)

(* The answer a request should get from a target in state t (README.md     *)
(* lines 162-178).                                                         *)
Expected(kind, t) == IF ~IsUp(t) THEN 503
                     ELSE IF kind = "up" \/ (kind = "replica") = (t = "replica")
                          THEN 200 ELSE 404

(* A request that runs entirely within a settled period gets the status    *)
(* code, and the body, of the target's state (UpCheckFunc,                 *)
(* PrimaryCheckFunc, ReplicaCheckFunc, exporter.go:841-910).               *)
SteadyAnswer ==
    \A r \in steady : req[r].pc = "done" =>
        /\ req[r].code = Expected(req[r].kind, target)
        /\ req[r].status \in StatusesOf(target)

-----------------------------------------------------------------------------
(* The inductive invariant behind SettledSnapshot and SteadyAnswer.        *)

\* As soon as nobody is discordant again, what has been stored by a clean
\* update, or by anybody after it, describes the target.
CleanPrefix ==
    \A w \in clean :
        /\ InFlight(w)
        /\ pc[w] \in {"recovery", "status"} => healthUp = IsUp(target)
        /\ pc[w] = "status" => healthRecovery = (target = "replica")

NobodyDiscordant == settled \/ clean # {} => \A w \in Writers : ~Discordant(w)

\* Only a probe sees that a server is starting; a starting server is not up.
StartingIsDown == \A w \in Writers : view[w].starting => ~view[w].up

SteadyPrefix ==
    \A r \in steady :
        /\ settled
        /\ req[r].pc # "idle" => req[r].status \in StatusesOf(target)
        /\ req[r].pc = "recovery" => IsUp(target) /\ req[r].kind # "up"

\* Start-up is over before the loop, a scrape or a request exists.
Phases == /\ pc["main"] \in {"off", "exited", "precheck", "load", "up", "recovery", "status"}
          /\ pc["loop"] \in {"off", "idle", "query", "up", "recovery", "status"}
          /\ pc["scrape"] \in {"off", "idle", "precheck", "queries", "load", "up",
                               "recovery", "status"}
          /\ pc["main"] # "off" => pc["loop"] = "off" /\ pc["scrape"] = "off"

HTypeOK == /\ TypeOK
           /\ clean \subseteq Writers
           /\ settled \in BOOLEAN
           /\ steady \subseteq Readers

HealthInv == /\ HTypeOK /\ Phases /\ StartingIsDown
             /\ NobodyDiscordant /\ CleanPrefix
             /\ SettledSnapshot /\ SteadyPrefix /\ SteadyAnswer
=============================================================================
