----------------------------- MODULE QueryConfig -----------------------------
(***************************************************************************)
(* What becomes of one query of a configuration: ParseConfig accepts or    *)
(* refuses it (exporter/config.go), validateConstLabelConflicts holds it   *)
(* against the constant labels (exporter/validate_labels.go), and          *)
(* Collector.makeDescMap makes the descriptors of an accepted query        *)
(* (exporter/collector.go).  A file with several queries goes through the  *)
(* same loop body for each and is refused with the first that is.          *)
(*                                                                         *)
(* A name is the sequence of its words, the parts between underscores:     *)
(* what Sprintf("%s_%s") joins is then a concatenation.                    *)
(***************************************************************************)
EXTENDS Integers, Sequences, FiniteSets

CONSTANTS
    Words,             \* what names are made of
    Prefix,            \* query.Name
    Entries,           \* the entries under metrics the file may have
    Scalars,           \* usages that make one metric: GAUGE, COUNTER
    BadUsage,          \* a usage that ColumnUsage does not have
    NotInLabel,        \* words with a character no label name may have
    NotInMetric,       \* words with a character no metric name may have
    NotFinite,         \* the integers that stand for NaN and the infinities
    ConstLabelSets,    \* possible names of the constant labels
    MaxColumns         \* bound: entries under metrics

None   == <<>>
Names  == Seq(Words)
Usages == Scalars \cup {"DISCARD", "LABEL", "HISTOGRAM"}

\* What a HISTOGRAM puts behind its name; fit for a metric name.
Components == {"bucket", "count", "sum"}

(* An entry under metrics.  parses: it is one column, not null, and its    *)
(* scale and default are numbers or absent.                                *)
Column == [name : Names \ {None}, usage : Usages \cup {BadUsage}, rename : Names,
           bucket : Seq(Int), parses : BOOLEAN]

Le         == <<"le">>
Datname    == <<"datname">>
QueryLabel == <<"query">>

ASSUME QueryConfigAssumption ==
    /\ Components \subseteq Words /\ {Le, Datname, QueryLabel} \subseteq Names
    /\ Prefix \in Names \ {None}
    /\ Scalars \cap {"DISCARD", "LABEL", "HISTOGRAM"} = {}
    /\ BadUsage \notin Usages
    /\ Entries \subseteq Column
    /\ Components \cap NotInMetric = {}
    /\ ConstLabelSets \subseteq SUBSET Names
    /\ MaxColumns \in Nat

VARIABLES
    constLabels, disableIntro,   \* of the exporter
    phase,
    malformed,         \* the query is null, has no SQL or a negative TTL, ...
    metrics,           \* the entries read
    columns,           \* query.Columns
    labelNames, metricNames,
    seenLabels, seenMetrics,
    i,                 \* position in labelNames or metricNames
    descriptors        \* per metric column, the descriptors makeDescMap makes

queryVars == <<constLabels, disableIntro, phase, malformed, metrics, columns, labelNames,
               metricNames, seenLabels, seenMetrics, i, descriptors>>

-----------------------------------------------------------------------------

IsHistogram(c) == c.usage = "HISTOGRAM"
isMetric(c)    == c.usage \in Scalars \cup {"HISTOGRAM"}

\* The name after a possible rename, of a label and of a metric.
renamed(c)    == IF c.rename # None THEN c.rename ELSE c.name
metricName(c) == Prefix \o renamed(c)

\* Bounds that may be infinite.
validateHistogramBucketsWeak(b) == Len(b) > 0 /\ \A k \in 1..(Len(b) - 1) : b[k] < b[k + 1]

validateHistogramBuckets(b) ==
    /\ Len(b) > 0
    /\ \A k \in 1..Len(b) : b[k] \notin NotFinite
    /\ \A k \in 1..(Len(b) - 1) : b[k] < b[k + 1]

\* Neither empty, nor behind two underscores, nor with a bad character.
validatePromLabelName(n) ==
    /\ n # None
    /\ ~(Len(n) > 2 /\ n[1] = "" /\ n[2] = "")
    /\ \A k \in 1..Len(n) : n[k] \notin NotInLabel

validatePromMetricName(n) == n # None /\ \A k \in 1..Len(n) : n[k] \notin NotInMetric

\* The families of a metric column, with its logical name.
familyNames(c) ==
    {metricName(c)} \cup
        IF IsHistogram(c) THEN {Append(metricName(c), p) : p \in Components} ELSE {}

HasHistogram == \E k \in 1..Len(metricNames) : IsHistogram(columns[metricNames[k]])

LabelList == [k \in 1..Len(labelNames) |-> renamed(columns[labelNames[k]])]

Descs == [name : Names, labels : Seq(Names)]

QueryTypeOK ==
    /\ constLabels \in ConstLabelSets /\ disableIntro \in BOOLEAN /\ malformed \in BOOLEAN
    /\ phase \in {"query", "metrics", "labels", "families", "const", "planned", "refused"}
    /\ metrics \in Seq(Entries) /\ Len(metrics) <= MaxColumns
    /\ \A n \in DOMAIN columns : columns[n] \in Entries
    /\ labelNames \in Seq(DOMAIN columns) /\ metricNames \in Seq(DOMAIN columns)
    /\ seenLabels \subseteq Names /\ seenMetrics \subseteq Names
    /\ i \in Nat
    /\ \A n \in DOMAIN descriptors : descriptors[n] \subseteq Descs

QueryInit ==
    /\ constLabels \in ConstLabelSets /\ disableIntro \in BOOLEAN /\ malformed \in BOOLEAN
    /\ phase = "query"
    /\ metrics = <<>> /\ columns = <<>> /\ labelNames = <<>> /\ metricNames = <<>>
    /\ seenLabels = {} /\ seenMetrics = {} /\ i = 1 /\ descriptors = <<>>

-----------------------------------------------------------------------------
(* ParseConfig, the fields of the query.                                   *)

parseQuery ==
    /\ phase = "query"
    /\ phase' = IF malformed THEN "refused" ELSE "metrics"
    /\ UNCHANGED <<constLabels, disableIntro, malformed, metrics, columns, labelNames,
                   metricNames, seenLabels, seenMetrics, i, descriptors>>

-----------------------------------------------------------------------------
(* ParseConfig, the loop over metrics.                                     *)

validEntry(c) ==
    /\ c.parses
    /\ c.usage \in Usages
    /\ IsHistogram(c) => validateHistogramBuckets(c.bucket)
    /\ c.name \notin DOMAIN columns

parseColumn ==
    /\ phase = "metrics" /\ Len(metrics) < MaxColumns
    /\ \E c \in Entries :
        /\ metrics' = Append(metrics, c)
        /\ IF validEntry(c)
           THEN /\ columns' = [n \in DOMAIN columns \cup {c.name} |->
                                IF n = c.name THEN c ELSE columns[n]]
                /\ labelNames' = IF c.usage = "LABEL" THEN Append(labelNames, c.name) ELSE labelNames
                /\ metricNames' = IF isMetric(c) THEN Append(metricNames, c.name) ELSE metricNames
                /\ phase' = phase
           ELSE phase' = "refused" /\ UNCHANGED <<columns, labelNames, metricNames>>
    /\ UNCHANGED <<constLabels, disableIntro, malformed, seenLabels, seenMetrics, i, descriptors>>

endOfMetrics ==
    /\ phase = "metrics"
    /\ phase' = IF metricNames = <<>> THEN "refused" ELSE "labels"
    /\ i' = 1
    /\ UNCHANGED <<constLabels, disableIntro, malformed, metrics, columns, labelNames,
                   metricNames, seenLabels, seenMetrics, descriptors>>

-----------------------------------------------------------------------------
(* ParseConfig, the loops over the labels and over the metric columns.     *)

label == renamed(columns[labelNames[i]])

\* Labels are compared before the rename.
labelConflictsUnrenamed(l) == (HasHistogram /\ l = Le) \/ labelNames[i] \in seenLabels

labelConflicts(l) == (HasHistogram /\ l = Le) \/ l \in seenLabels

parseLabel ==
    /\ phase = "labels" /\ i <= Len(labelNames)
    /\ IF validatePromLabelName(label) /\ ~labelConflicts(label)
       THEN phase' = phase /\ seenLabels' = seenLabels \cup {label} /\ i' = i + 1
       ELSE phase' = "refused" /\ UNCHANGED <<seenLabels, i>>
    /\ UNCHANGED <<constLabels, disableIntro, malformed, metrics, columns, labelNames,
                   metricNames, seenMetrics, descriptors>>

endOfLabels ==
    /\ phase = "labels" /\ i > Len(labelNames)
    /\ phase' = "families" /\ i' = 1
    /\ UNCHANGED <<constLabels, disableIntro, malformed, metrics, columns, labelNames,
                   metricNames, seenLabels, seenMetrics, descriptors>>

families == familyNames(columns[metricNames[i]])

\* A valid metric name keeps being valid with a suffix.
parseFamilies ==
    /\ phase = "families" /\ i <= Len(metricNames)
    /\ IF (\A f \in families : validatePromMetricName(f)) /\ families \cap seenMetrics = {}
       THEN phase' = phase /\ seenMetrics' = seenMetrics \cup families /\ i' = i + 1
       ELSE phase' = "refused" /\ UNCHANGED <<seenMetrics, i>>
    /\ UNCHANGED <<constLabels, disableIntro, malformed, metrics, columns, labelNames,
                   metricNames, seenLabels, descriptors>>

endOfFamilies ==
    /\ phase = "families" /\ i > Len(metricNames)
    /\ phase' = "const"
    /\ UNCHANGED <<constLabels, disableIntro, malformed, metrics, columns, labelNames,
                   metricNames, seenLabels, seenMetrics, i, descriptors>>

-----------------------------------------------------------------------------
(* validateConstLabelConflicts, and makeDescMap when the server plans.     *)

constLabelConflicts ==
    \/ ~disableIntro /\ {Datname, QueryLabel} \cap constLabels # {}
    \/ HasHistogram /\ Le \in constLabels
    \/ \E k \in 1..Len(labelNames) : LabelList[k] \in constLabels

descriptorsOf(c) ==
    IF IsHistogram(c)
    THEN {[name |-> Append(metricName(c), p),
           labels |-> IF p = "bucket" THEN Append(LabelList, Le) ELSE LabelList] : p \in Components}
    ELSE {[name |-> metricName(c), labels |-> LabelList]}

plan ==
    /\ phase = "const"
    /\ IF constLabelConflicts
       THEN phase' = "refused" /\ UNCHANGED descriptors
       ELSE /\ phase' = "planned"
            /\ descriptors' = [n \in {metricNames[k] : k \in 1..Len(metricNames)} |->
                                  descriptorsOf(columns[n])]
    /\ UNCHANGED <<constLabels, disableIntro, malformed, metrics, columns, labelNames,
                   metricNames, seenLabels, seenMetrics, i>>

QueryNext ==
    \/ parseQuery
    \/ parseColumn \/ endOfMetrics
    \/ parseLabel \/ endOfLabels
    \/ parseFamilies \/ endOfFamilies
    \/ plan

QuerySpec == QueryInit /\ [][QueryNext]_queryVars

-----------------------------------------------------------------------------

Distinct(s) == \A k, l \in 1..Len(s) : k # l => s[k] # s[l]

\* No label twice, none that is a constant label too.
Usable(labels) == Distinct(labels) /\ \A k \in 1..Len(labels) : labels[k] \notin constLabels

(* A planned query has no descriptor that would make client_golang fail:   *)
(* no label twice, constant labels and the bucket's "le" included, and no  *)
(* family in two columns; nor have the exporter's own series.  "This       *)
(* prevents panics at scrape time" (config.go:120, validate_labels.go:10). *)
DescriptorsSound ==
    phase = "planned" =>
        /\ \A n \in DOMAIN descriptors : \A d \in descriptors[n] : Usable(d.labels)
        /\ \A n, o \in DOMAIN descriptors : n # o =>
               \A d \in descriptors[n], e \in descriptors[o] : d.name # e.name
        /\ disableIntro \/ Usable(<<Datname, QueryLabel>>)

(* The entries of the query as the documentation would have them.          *)
Positions == 1..Len(metrics)
LabelsAt  == {k \in Positions : metrics[k].usage = "LABEL"}
MetricsAt == {k \in Positions : isMetric(metrics[k])}

SoundBuckets(b) ==
    /\ Len(b) > 0 /\ {b[p] : p \in 1..Len(b)} \cap NotFinite = {}
    /\ \A p, q \in 1..Len(b) : p < q => b[p] < b[q]

Acceptable ==
    /\ ~malformed /\ MetricsAt # {}
    /\ \A k \in Positions : metrics[k].parses /\ metrics[k].usage # BadUsage
    /\ \A k, l \in Positions : k # l => metrics[k].name # metrics[l].name
    /\ \A k \in MetricsAt : IsHistogram(metrics[k]) => SoundBuckets(metrics[k].bucket)
    /\ \A k \in LabelsAt : validatePromLabelName(renamed(metrics[k]))
    /\ \A k \in MetricsAt : validatePromMetricName(metricName(metrics[k]))
    /\ \A k, l \in LabelsAt : k # l => renamed(metrics[k]) # renamed(metrics[l])
    /\ \A k, l \in MetricsAt : k # l => familyNames(metrics[k]) \cap familyNames(metrics[l]) = {}
    /\ (\E k \in MetricsAt : IsHistogram(metrics[k])) =>
           Le \notin constLabels \cup {renamed(metrics[k]) : k \in LabelsAt}
    /\ \A k \in LabelsAt : renamed(metrics[k]) \notin constLabels
    /\ disableIntro \/ {Datname, QueryLabel} \cap constLabels = {}

(* The loops with their early returns refuse what should be refused and    *)
(* nothing else (config.go:47-180, validate_labels.go:18-59).              *)
AcceptsExactly ==
    /\ phase = "planned" => Acceptable
    /\ phase = "refused" => ~Acceptable

-----------------------------------------------------------------------------
(* The inductive invariant behind them.                                    *)

Members(s) == {s[k] : k \in 1..Len(s)}

\* The names are those of the entries at these positions, each once.
Lists(names, ats) == Distinct(names) /\ Members(names) = {metrics[p].name : p \in ats}

SoundEntry(c) ==
    /\ c.parses /\ c.usage \in Usages
    /\ IsHistogram(c) => SoundBuckets(c.bucket)

\* What the loop over metrics has read is sound, and all of it is filed.
Filed ==
    /\ phase \notin {"query", "refused"} => ~malformed
    /\ phase = "query" => metrics = <<>>
    /\ phase # "refused" =>
        /\ \A k \in Positions : SoundEntry(metrics[k])
        /\ \A k, l \in Positions : k # l => metrics[k].name # metrics[l].name
        /\ DOMAIN columns = {metrics[k].name : k \in Positions}
        /\ \A k \in Positions : columns[metrics[k].name] = metrics[k]
        /\ Lists(labelNames, LabelsAt) /\ Lists(metricNames, MetricsAt)
    /\ phase \in {"labels", "families", "const", "planned"} => metricNames # <<>>

SoundLabels(n) ==
    /\ \A k \in 1..n : /\ validatePromLabelName(LabelList[k])
                       /\ HasHistogram => LabelList[k] # Le
    /\ \A k, l \in 1..n : k # l => LabelList[k] # LabelList[l]

LabelsChecked ==
    /\ phase \in {"query", "metrics"} => seenLabels = {}
    /\ phase = "labels" => /\ i \in 1..(Len(labelNames) + 1)
                           /\ seenLabels = {LabelList[k] : k \in 1..(i - 1)}
                           /\ SoundLabels(i - 1)
    /\ phase \in {"families", "const", "planned"} => SoundLabels(Len(labelNames))

FamiliesAt(k) == familyNames(columns[metricNames[k]])

SoundFamilies(n) ==
    /\ \A k \in 1..n : \A f \in FamiliesAt(k) : validatePromMetricName(f)
    /\ \A k, l \in 1..n : k # l => FamiliesAt(k) \cap FamiliesAt(l) = {}

FamiliesChecked ==
    /\ phase \in {"query", "metrics", "labels"} => seenMetrics = {}
    /\ phase = "families" => /\ i \in 1..(Len(metricNames) + 1)
                             /\ seenMetrics = UNION {FamiliesAt(k) : k \in 1..(i - 1)}
                             /\ SoundFamilies(i - 1)
    /\ phase \in {"const", "planned"} => SoundFamilies(Len(metricNames))

Planned ==
    phase = "planned" => /\ ~constLabelConflicts
                         /\ DOMAIN descriptors = Members(metricNames)
                         /\ \A n \in Members(metricNames) : descriptors[n] = descriptorsOf(columns[n])

QueryInv ==
    /\ QueryTypeOK /\ Filed /\ LabelsChecked /\ FamiliesChecked /\ Planned
    /\ phase = "refused" => ~Acceptable
=============================================================================
