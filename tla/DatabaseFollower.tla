--------------------------- MODULE DatabaseFollower ---------------------------
(***************************************************************************)
(* What auto-discovery promises: whenever the primary server answers, the  *)
(* extra servers follow the difference between its databases and those it  *)
(* listed before, in one step.  Discovery, which goes through a map of     *)
(* differences one by one, implements this, and so does Exporter, where    *)
(* it is a part of the precheck.                                           *)
(***************************************************************************)
CONSTANTS Databases, Selected

VARIABLES
    dbs, current,   \* databases of the target, and the primary server's own
    known,          \* those listed last
    servers         \* those with an extra server

vars == <<dbs, current, known, servers>>

Followed(d) == d \in Selected /\ d # current

Init == /\ dbs \subseteq Databases /\ current \in Databases
        /\ known \in {{}, dbs}
        /\ servers = {d \in known : Followed(d)}

Change == /\ dbs' \subseteq Databases /\ current' \in Databases
          /\ UNCHANGED <<known, servers>>

(* The primary server's own database counts as listed.                     *)
Follow == LET listed == known \cup {current}
          IN  /\ known' = dbs
              /\ servers' = (servers \cup {d \in dbs \ listed : Followed(d)})
                                     \ {d \in listed \ dbs : Followed(d)}
              /\ UNCHANGED <<dbs, current>>

Next == Change \/ Follow

Spec == Init /\ [][Next]_vars
=============================================================================
