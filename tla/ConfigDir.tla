------------------------------ MODULE ConfigDir ------------------------------
(***************************************************************************)
(* LoadConfig (exporter/config.go) and what start-up and Reload do with    *)
(* its result (exporter/exporter.go, exporter/main.go).  The path is a     *)
(* directory, which is listed and whose YAML files are then read one by    *)
(* one, in the order of their names, or it is one file; meanwhile an       *)
(* operator may edit, break or remove files.  In a directory a file that   *)
(* cannot be read or parsed is skipped, and a later file overrides an      *)
(* earlier one.  Who may reload, and how the servers get the queries, is   *)
(* in Exporter; what parses, in QueryConfig.                               *)
(*                                                                         *)
(* A file is known by its place in the order of the names.  The path stays *)
(* a directory, or a file, while the exporter runs.                        *)
(***************************************************************************)
EXTENDS Integers, FiniteSets, FiniteSetsExt

CONSTANTS
    Files,         \* YAML files the directory may have, as numbers
    ConfigFile,    \* the one the path names, if it names a file
    Branches,      \* branch names
    Conflicting,   \* branches with a label that is a constant label too
    Definitions,   \* definitions of a query a file may have: [sql, priority]
    Contents,      \* what a file that parses may define, per branch
    MaxEdits       \* bound: edits of the files

ASSUME ConfigDirAssumption ==
    /\ Files \subseteq Nat /\ IsFiniteSet(Files) /\ ConfigFile \in Files
    /\ Conflicting \subseteq Branches
    /\ \A d \in Definitions : d.priority \in Int
    /\ \A c \in Contents : DOMAIN c \subseteq Branches /\ \A b \in DOMAIN c : c[b] \in Definitions
    /\ MaxEdits \in Nat

(* What is at the place of a file: nothing, a file that LoadConfig refuses *)
(* or cannot read, or one with queries.                                    *)
Absent == [kind |-> "absent", queries |-> <<>>]
Broken == [kind |-> "broken", queries |-> <<>>]
State  == [kind : {"yaml"}, queries : Contents] \cup {Absent, Broken}

VARIABLES
    pathIs,        \* "dir" or "file"
    dir,           \* per file, what reading it gives
    edits,
    running,       \* NewExporter has succeeded
    pc,
    confFiles,     \* the listing
    todo,          \* those of it that are still to be read
    configCount,
    queries,       \* the map LoadConfig fills
    current,       \* the queries of the exporter
    read,          \* history: what each file of the listing gave
    seen           \* history: per file, what it has been since the load began

locals == <<confFiles, todo, configCount, queries, read>>

vars == <<pathIs, dir, edits, running, pc, locals, current, seen>>

Query == [from : Files, sql : {d.sql : d \in Definitions}, priority : Int]

QueryMap(q) == DOMAIN q \subseteq Branches /\ \A b \in DOMAIN q : q[b] \in Query

Never == [f \in Files |-> {}]

TypeOK ==
    /\ pathIs \in {"dir", "file"} /\ dir \in [Files -> State]
    /\ edits \in 0..MaxEdits
    /\ running \in BOOLEAN /\ pc \in {"idle", "loading", "exited"}
    /\ confFiles \subseteq Files /\ todo \subseteq confFiles
    /\ configCount = IF pathIs = "file" THEN 0
                     ELSE Cardinality({f \in confFiles \ todo : read[f].kind = "yaml"})
    /\ QueryMap(queries) /\ QueryMap(current)
    /\ read \in [confFiles \ todo -> State]
    /\ seen \in [Files -> SUBSET State]

Init == /\ pathIs \in {"dir", "file"}
        /\ dir \in [Files -> State]
        /\ pathIs = "file" => \A f \in Files \ {ConfigFile} : dir[f] = Absent
        /\ edits = 0
        /\ running = FALSE /\ pc = "idle"
        /\ confFiles = {} /\ todo = {} /\ configCount = 0
        /\ queries = <<>> /\ current = <<>> /\ read = <<>> /\ seen = Never

-----------------------------------------------------------------------------
(* The operator.                                                           *)

Reading(r) == IF r = Absent THEN Broken ELSE r

edit ==
    /\ edits < MaxEdits /\ edits' = edits + 1
    /\ \E f \in Files, r \in State :
          /\ r # dir[f]
          /\ pathIs = "file" => f = ConfigFile
          /\ dir' = [dir EXCEPT ![f] = r]
          /\ seen' = IF pc = "loading" THEN [seen EXCEPT ![f] = @ \cup {Reading(r)}] ELSE seen
    /\ UNCHANGED <<pathIs, running, pc, locals, current>>

-----------------------------------------------------------------------------
(* LoadConfig.                                                             *)

\* The path is found, and listed if it is a directory.
list ==
    /\ pc = "idle"
    /\ pathIs = "file" => dir[ConfigFile] # Absent
    /\ pc' = "loading"
    /\ confFiles' = {f \in Files : dir[f] # Absent} /\ todo' = confFiles'
    /\ configCount' = 0 /\ queries' = <<>> /\ read' = <<>>
    /\ seen' = [f \in Files |-> {dir[f]}]
    /\ UNCHANGED <<pathIs, dir, edits, running, current>>

defaultPriority(d, rank) == IF d.priority = 0 THEN 100 + rank ELSE d.priority

ranked(f, defs, rank) ==
    [b \in DOMAIN defs |->
        [from |-> f, sql |-> defs[b].sql, priority |-> defaultPriority(defs[b], rank)]]

\* The queries of one file, as they are in it.
unranked(f, defs) ==
    [b \in DOMAIN defs |-> [from |-> f, sql |-> defs[b].sql, priority |-> defs[b].priority]]

\* The first definition of a branch stays.
mergedKeeping(q, new) ==
    [b \in DOMAIN q \cup DOMAIN new |-> IF b \in DOMAIN q THEN q[b] ELSE new[b]]

merged(q, new) ==
    [b \in DOMAIN q \cup DOMAIN new |-> IF b \in DOMAIN new THEN new[b] ELSE q[b]]

\* What LoadConfig gets of file f, and the history of it.
readFile(f) ==
    /\ todo' = todo \ {f}
    /\ read' = [g \in DOMAIN read \cup {f} |-> IF g = f THEN Reading(dir[f]) ELSE read[g]]
    /\ UNCHANGED <<pathIs, dir, edits, pc, running, confFiles, current, seen>>

loadFile ==
    /\ pc = "loading" /\ pathIs = "dir" /\ todo # {}
    /\ LET f == Min(todo)
           r == dir[f]
       IN /\ readFile(f)
          /\ IF r.kind = "yaml"
             THEN /\ configCount' = configCount + 1
                  /\ queries' = merged(queries, ranked(f, r.queries, configCount + 1))
             ELSE UNCHANGED <<configCount, queries>>

\* The path is a file: its queries may be none, and get no rank.
loadConfigFile ==
    /\ pc = "loading" /\ pathIs = "file" /\ todo # {}
    /\ dir[ConfigFile].kind = "yaml"
    /\ readFile(ConfigFile)
    /\ UNCHANGED configCount
    /\ queries' = unranked(ConfigFile, dir[ConfigFile].queries)

\* Files that define nothing are as good as an empty directory.
noQueriesAccepted == FALSE

noQueries == pathIs = "dir" /\ confFiles # {} /\ DOMAIN queries = {}

\* LoadConfig or its caller returns: the locals are gone.
returns ==
    /\ confFiles' = {} /\ todo' = {} /\ configCount' = 0
    /\ queries' = <<>> /\ read' = <<>> /\ seen' = Never
    /\ UNCHANGED <<pathIs, dir, edits>>

\* Start-up gives up; a reload leaves the queries alone.
loadFails == pc' = (IF running THEN "idle" ELSE "exited") /\ returns /\ UNCHANGED <<running, current>>

\* The path is gone or cannot be read.
listFails == pc = "idle" /\ loadFails

loadConfigFileFails ==
    /\ pc = "loading" /\ pathIs = "file" /\ todo # {}
    /\ dir[ConfigFile].kind # "yaml"
    /\ loadFails

nothingLoaded == pc = "loading" /\ todo = {} /\ noQueries /\ loadFails

-----------------------------------------------------------------------------
(* What its two callers do with the queries.                               *)

loaded == pc = "loading" /\ todo = {} /\ ~noQueries

validateConstLabelConflicts(q) == DOMAIN q \cap Conflicting = {}

conflictAtStart == loaded /\ ~running /\ ~validateConstLabelConflicts(queries) /\ loadFails

start ==
    /\ loaded /\ ~running
    /\ validateConstLabelConflicts(queries)
    /\ current' = queries
    /\ running' = TRUE /\ pc' = "idle"
    /\ returns

\* Only start-up looks at the labels.
reloadTrusts == FALSE

reloadRefuses == ~validateConstLabelConflicts(queries)

conflictAtReload == loaded /\ running /\ reloadRefuses /\ loadFails

\* A reload that forgets to drop what is no longer defined.
installedOver == merged(current, queries)

\* A reload that compares names to see whether there is anything to do.
installedIfRenamed == IF DOMAIN queries = DOMAIN current THEN current ELSE queries

\* What a reload puts in the place of the queries.
installed == queries

Reload ==
    /\ loaded /\ running
    /\ ~reloadRefuses
    /\ current' = installed
    /\ pc' = "idle"
    /\ returns
    /\ UNCHANGED running

loadEnds ==
    \/ loadConfigFileFails \/ nothingLoaded
    \/ conflictAtStart \/ start \/ conflictAtReload \/ Reload

Next == edit \/ list \/ listFails \/ loadFile \/ loadConfigFile \/ loadEnds

Spec == Init /\ [][Next]_vars

(* A load comes to its end, and the operator, or whoever signals or asks   *)
(* for /reload, does it again and again.                                   *)
FairSpec == /\ Spec
            /\ WF_vars(list) /\ WF_vars(loadFile \/ loadConfigFile) /\ WF_vars(loadEnds)

-----------------------------------------------------------------------------

ReadOk == {f \in DOMAIN read : read[f].kind = "yaml"}

\* A branch is as the last file that parsed and has it defines it.
FromLastFile(b) ==
    LET q == queries[b]
    IN /\ q.from \in ReadOk
       /\ b \in DOMAIN read[q.from].queries
       /\ \A f \in ReadOk : f > q.from => b \notin DOMAIN read[f].queries
       /\ q.sql = read[q.from].queries[b].sql

\* Its priority, unless that file gives one or is the only one, is the
\* file's rank.
RankedByFile(b) ==
    LET q == queries[b]
        given == read[q.from].queries[b].priority
    IN q.priority = IF given # 0 \/ pathIs = "file" THEN given
                    ELSE 100 + Cardinality({f \in ReadOk : f <= q.from})

(* What the files read so far come to: each branch is as the last file     *)
(* that parsed defines it, and its priority, unless the file gives one, is *)
(* the place of that file among those that parsed (config.go:265-289).     *)
LastFileWins ==
    /\ DOMAIN queries = UNION {DOMAIN read[f].queries : f \in ReadOk}
    /\ \A b \in DOMAIN queries : FromLastFile(b) /\ RankedByFile(b)

Source == INSTANCE ConfigSource

(* However files change under a load, and whichever of its returns it      *)
(* takes, the queries become the merge of what each file was at some       *)
(* moment of that load, free of conflicts with the constant labels, or     *)
(* they stay, and that only if what it read is not acceptable: nothing is  *)
(* left of earlier loads and nothing is taken by halves (config.go:242-311,*)
(* exporter.go:543-569, main.go:131-149).                                  *)
ImplementsConfigSource == Source!Spec

(* Once the files stay as they are, and are acceptable, a running exporter *)
(* that is reloaded again and again comes to have their queries and keeps  *)
(* them, whatever loads ran into edits before (config.go:242-311,          *)
(* main.go:131-149).                                                       *)
FilesTakeEffect ==
    <>[](running /\ Source!Acceptable(dir) => current = Source!Merge(dir))
=============================================================================
