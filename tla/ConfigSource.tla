---------------------------- MODULE ConfigSource ----------------------------
(***************************************************************************)
(* What an operator may expect of the configuration path, whatever happens *)
(* to its files while they are loaded: a load takes every file as it was   *)
(* at some moment of the load, and the queries become the merge of that,   *)
(* as a whole, or stay as they are if that is no acceptable configuration. *)
(* Merge and Acceptable say in one formula each what the loop of           *)
(* LoadConfig and the checks of its callers come to.                       *)
(***************************************************************************)
EXTENDS Integers, FiniteSets, FiniteSetsExt

CONSTANTS Files, ConfigFile, Conflicting, Contents

VARIABLES
    pathIs,        \* "dir" or "file"
    dir,           \* per file, what reading it gives
    seen,          \* per file, what it has been since the load began; none: no load
    current        \* the queries of the exporter

vars == <<pathIs, dir, seen, current>>

Absent == [kind |-> "absent", queries |-> <<>>]
Broken == [kind |-> "broken", queries |-> <<>>]
State  == [kind : {"yaml"}, queries : Contents] \cup {Absent, Broken}

Parsed(c) == {f \in Files : c[f].kind = "yaml"}

Rank(c, f) == Cardinality({g \in Parsed(c) : g <= f})

DefinedIn(c, b) == {f \in Parsed(c) : b \in DOMAIN c[f].queries}

\* The query that file f defines as b.
QueryOf(c, b, f) ==
    LET d == c[f].queries[b]
    IN [from |-> f, sql |-> d.sql,
        priority |-> IF d.priority # 0 \/ pathIs = "file" THEN d.priority ELSE 100 + Rank(c, f)]

Merge(c) ==
    [b \in UNION {DOMAIN c[f].queries : f \in Parsed(c)} |-> QueryOf(c, b, Max(DefinedIn(c, b)))]

\* A directory of YAML files has some query, one without YAML files none.
HasQueries(c) == (\E f \in Files : c[f] # Absent) => DOMAIN Merge(c) # {}

Acceptable(c) ==
    /\ DOMAIN Merge(c) \cap Conflicting = {}
    /\ IF pathIs = "file" THEN c[ConfigFile].kind = "yaml" ELSE HasQueries(c)

\* A file that goes while it may be waited for cannot be read any more.
Reading(r) == IF r = Absent THEN Broken ELSE r

Loading == \A f \in Files : seen[f] # {}

Views == {c \in [Files -> UNION {seen[f] : f \in Files}] : \A f \in Files : c[f] \in seen[f]}

-----------------------------------------------------------------------------

Init == /\ pathIs \in {"dir", "file"}
        /\ dir \in [Files -> State]
        /\ seen = [f \in Files |-> {}]
        /\ current = <<>>

Edit(f) ==
    /\ \E r \in State : dir' = [dir EXCEPT ![f] = r]
    /\ seen' = IF Loading THEN [seen EXCEPT ![f] = @ \cup {Reading(dir'[f])}] ELSE seen
    /\ UNCHANGED <<pathIs, current>>

Begin ==
    /\ ~Loading
    /\ seen' = [f \in Files |-> {dir[f]}]
    /\ UNCHANGED <<pathIs, dir, current>>

End == Loading /\ seen' = [f \in Files |-> {}] /\ UNCHANGED <<pathIs, dir>>

Install == \E c \in Views : Acceptable(c) /\ current' = Merge(c) /\ End

Refuse == \E c \in Views : ~Acceptable(c) /\ UNCHANGED current /\ End

Next == (\E f \in Files : Edit(f)) \/ Begin \/ Install \/ Refuse

Spec == Init /\ [][Next]_vars
=============================================================================
