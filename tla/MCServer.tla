------------------------------- MODULE MCServer -------------------------------
(* Instances of Server for TLC: a Fatal query for every server, one for    *)
(* primaries, one for replicas, one for a range of versions, one that      *)
(* needs an extension, one for pgbouncer, and two that tags or the skip    *)
(* flag rule out; and a second configuration with only some of them.       *)
EXTENDS Server

MCQuery   == {"core", "writes", "lag", "ranged", "ext", "pool", "tagged", "off"}
MCConfigs == {MCQuery, {"core", "lag", "ext", "pool"}}
MCSkip    == {"off"}
MCFatal   == {"core", "writes"}
MCNames   == {"", "a", "b", "x", "dev"}
MCServerTags == {"dev"}

MCPriority   == [q \in MCQuery |-> IF q = "core" THEN 1 ELSE 2]
MCMinVersion == [q \in MCQuery |-> IF q \in {"ranged", "pool"} THEN 2 ELSE 0]
MCMaxVersion == [q \in MCQuery |-> IF q = "ranged" THEN 3 ELSE 0]

T(k, n) == {[kind |-> k, name |-> n]}
MCTags == [q \in MCQuery |->
             CASE q = "writes" -> T("primary", "")
               [] q = "lag"    -> T("replica", "") \cup T("cluster", "")
               [] q = "ranged" -> T("dbname", "a") \cup T("custom", "dev")
               [] q = "ext"    -> T("extension", "x")
               [] q = "pool"   -> T("pgbouncer", "")
               [] q = "tagged" -> T("not", "dev")
               [] OTHER        -> {}]

Target(v, r, d, e) == [version |-> v, recovery |-> r, datname |-> d, username |-> "dev",
                       extensions |-> e, namespaces |-> {}]

MCTargets == {Target(v, r, d, {}) : v \in 1..2, r \in BOOLEAN, d \in {"a", "b"}}
             \cup {Target(1, r, "a", {"x"}) : r \in BOOLEAN}
             \cup {Target(3, FALSE, "a", {})}

Mode1(f, p) == [Forked |-> f, PgbouncerMode |-> p]
MCModes == {Mode1(FALSE, FALSE), Mode1(TRUE, FALSE), Mode1(FALSE, TRUE)}
=============================================================================
