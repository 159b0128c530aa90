---------------------------- MODULE ConfigProofs ----------------------------
(***************************************************************************)
(* Proofs about the configuration: first QueryConfig, what becomes of one  *)
(* query for any entries and names, then ConfigDir, what a load makes of   *)
(* any files, contents and edits, and any number of them.                  *)
(*                                                                         *)
(* A query: the loops and their early returns keep, next to what they      *)
(* build, what they have checked of it so far (SoundEntry, SoundLabels,    *)
(* SoundFamilies), and the lists of names stand for the entries they were  *)
(* made from, each once.  A planned query has been checked throughout; and *)
(* what makes a loop return early is a condition of Acceptable that fails. *)
(***************************************************************************)
EXTENDS QueryConfig, ConfigDir, TLAPS, FiniteSetTheorems, WellFoundedInduction, SequenceTheorems

\* A non-empty set of naturals has a least element.
LEMMA LeastNatural ==
    ASSUME NEW T, T \subseteq Nat, T # {}
    PROVE  \E f \in T : \A g \in T : f <= g
  <1> DEFINE Less == {p \in Nat \X Nat : p[1] < p[2]}
  <1>1. IsWellFoundedOn(Less, Nat)
    BY NatLessThanWellFounded, Z3 DEF OpToRel
  <1>2. PICK f \in T : \A g \in T : <<g, f>> \notin Less
    <2> HIDE DEF Less
    <2> QED BY <1>1, WFMin
  <1>3. \A g \in T : f <= g
    <2> TAKE g \in T
    <2>1. <<g, f>> \in Nat \X Nat
      OBVIOUS
    <2> QED BY <1>2, <2>1
  <1> QED BY <1>3

-----------------------------------------------------------------------------
\* Bounds that increase from each to the next increase throughout.
LEMMA Increasing ==
    ASSUME NEW b \in Seq(Int), \A k \in 1..(Len(b) - 1) : b[k] < b[k + 1]
    PROVE  \A p, q \in 1..Len(b) : p < q => b[p] < b[q]
  <1> SUFFICES ASSUME NEW p \in 1..Len(b), NEW q \in 1..Len(b), p < q, ~(b[p] < b[q])
               PROVE  FALSE
    OBVIOUS
  <1> DEFINE T == {l \in 1..Len(b) : p < l /\ ~(b[p] < b[l])}
  <1>1. Len(b) \in Nat /\ \A k \in 1..Len(b) : b[k] \in Int
    OBVIOUS
  <1>2. PICK m \in T : \A l \in T : m <= l
    <2>1. q \in T /\ T \subseteq Nat
      OBVIOUS
    <2> HIDE DEF T
    <2> QED BY <2>1, LeastNatural
  <1>3. m - 1 \in 1..(Len(b) - 1) /\ m - 1 \notin T
    BY <1>1, <1>2
  <1>4. b[m - 1] < b[m]
    <2>1. b[m - 1] < b[(m - 1) + 1]
      BY <1>3
    <2> QED BY <1>1, <1>2, <2>1
  <1>5. m - 1 \in 1..Len(b) /\ m \in 1..Len(b) /\ p \in 1..Len(b)
    BY <1>1, <1>2, <1>3
  <1> QED BY <1>1, <1>2, <1>3, <1>4, <1>5

LEMMA NamesTyped ==
    ASSUME NEW c \in Entries
    PROVE  /\ c.name \in Names /\ c.name # None
           /\ c.usage \in Usages \cup {BadUsage} /\ c.bucket \in Seq(Int)
           /\ renamed(c) \in Names
           /\ metricName(c) \in Names /\ metricName(c) # None
           /\ familyNames(c) \subseteq Names
  <1> USE DEF Names, None
  <1>1. /\ c.name \in Names /\ c.name # None /\ c.rename \in Names
        /\ c.usage \in Usages \cup {BadUsage} /\ c.bucket \in Seq(Int)
    BY QueryConfigAssumption DEF Column
  <1>2. renamed(c) \in Names
    BY <1>1 DEF renamed
  <1>3. metricName(c) \in Names /\ metricName(c) # None
    <2>1. Prefix \in Names /\ Prefix # <<>>
      BY QueryConfigAssumption
    <2>2. Prefix \o renamed(c) \in Names
      BY <1>2, <2>1, ConcatProperties
    <2>3. Prefix \o renamed(c) # <<>>
      BY <1>2, <2>1, ConcatSimplifications
    <2> QED BY <2>2, <2>3 DEF metricName, None
  <1>4. familyNames(c) \subseteq Names
    <2>1. \A p \in Components : Append(metricName(c), p) \in Names
      BY <1>3, QueryConfigAssumption
    <2> QED BY <1>3, <2>1 DEF familyNames
  <1> QED BY <1>1, <1>2, <1>3, <1>4

\* A suffix of a HISTOGRAM spoils no metric name.
LEMMA SuffixValid ==
    ASSUME NEW c \in Entries, validatePromMetricName(metricName(c))
    PROVE  \A f \in familyNames(c) : validatePromMetricName(f)
  <1> DEFINE n == metricName(c)
  <1>1. n \in Names /\ n # None
    BY NamesTyped
  <1> USE DEF Names, None
  <1>2. \A k \in 1..Len(n) : n[k] \notin NotInMetric
    BY DEF validatePromMetricName
  <1> HIDE DEF n
  <1>3. ASSUME NEW p \in Components PROVE validatePromMetricName(Append(n, p))
    <2>1. p \in Words /\ p \notin NotInMetric
      BY QueryConfigAssumption
    <2>2. Len(Append(n, p)) = Len(n) + 1 /\ Len(n) \in Nat
      BY <1>1, <2>1
    <2>3. Append(n, p) # None
      <3>1. Len(None) = 0 /\ Len(Append(n, p)) # 0
        BY <2>2
      <3> QED BY <3>1
    <2>4. \A k \in 1..(Len(n) + 1) : Append(n, p)[k] \in {n[k], p} /\ (k > Len(n) => Append(n, p)[k] = p)
      BY <1>1, <2>1
    <2>5. \A k \in 1..(Len(n) + 1) : Append(n, p)[k] \notin NotInMetric
      BY <1>2, <2>1, <2>2, <2>4
    <2> QED BY <2>2, <2>3, <2>5 DEF validatePromMetricName
  <1>4. validatePromMetricName(n)
    BY DEF n
  <1> QED BY <1>3, <1>4 DEF familyNames, n

-----------------------------------------------------------------------------
\* The columns that a list of names stands for are the entries it was made from.
LEMMA ListsColumns ==
    ASSUME Filed, phase # "refused", QueryTypeOK,
           NEW names, NEW ats, ats \subseteq Positions, Lists(names, ats)
    PROVE  /\ \A k \in 1..Len(names) : \E p \in ats :
                 names[k] = metrics[p].name /\ columns[names[k]] = metrics[p]
           /\ \A p \in ats : \E k \in 1..Len(names) :
                 names[k] = metrics[p].name /\ columns[names[k]] = metrics[p]
  <1>1. \A k \in Positions : columns[metrics[k].name] = metrics[k]
    BY DEF Filed
  <1>2. {names[k] : k \in 1..Len(names)} = {metrics[p].name : p \in ats}
    BY DEF Lists, Members
  <1>3. ASSUME NEW k \in 1..Len(names)
        PROVE  \E p \in ats : names[k] = metrics[p].name /\ columns[names[k]] = metrics[p]
    <2>1. PICK p \in ats : names[k] = metrics[p].name
      BY <1>2
    <2> QED BY <1>1, <2>1
  <1>4. ASSUME NEW p \in ats
        PROVE  \E k \in 1..Len(names) : names[k] = metrics[p].name /\ columns[names[k]] = metrics[p]
    <2>1. metrics[p].name \in {names[k] : k \in 1..Len(names)}
      BY <1>2
    <2>2. PICK k \in 1..Len(names) : names[k] = metrics[p].name
      BY <2>1
    <2> QED BY <1>1, <2>2
  <1> QED BY <1>3, <1>4

\* All the columns are entries, and the lists are lists.
LEMMA ColumnsTyped ==
    ASSUME QueryTypeOK
    PROVE  /\ Len(labelNames) \in Nat /\ Len(metricNames) \in Nat /\ Len(metrics) \in Nat
           /\ \A k \in 1..Len(labelNames) : columns[labelNames[k]] \in Entries
           /\ \A k \in 1..Len(metricNames) : columns[metricNames[k]] \in Entries
           /\ \A k \in Positions : metrics[k] \in Entries
           /\ LabelList \in Seq(Names) /\ Len(LabelList) = Len(labelNames)
           /\ \A k \in 1..Len(labelNames) : LabelList[k] = renamed(columns[labelNames[k]])
  <1>1. /\ labelNames \in Seq(DOMAIN columns) /\ metricNames \in Seq(DOMAIN columns)
        /\ metrics \in Seq(Entries) /\ \A n \in DOMAIN columns : columns[n] \in Entries
    BY DEF QueryTypeOK
  <1>2. /\ \A k \in 1..Len(labelNames) : columns[labelNames[k]] \in Entries
        /\ \A k \in 1..Len(metricNames) : columns[metricNames[k]] \in Entries
        /\ \A k \in Positions : metrics[k] \in Entries
    BY <1>1 DEF Positions
  <1>3. Len(labelNames) \in Nat /\ Len(metricNames) \in Nat /\ Len(metrics) \in Nat
    BY <1>1
  <1>4. \A k \in 1..Len(labelNames) : renamed(columns[labelNames[k]]) \in Names
    BY <1>2, NamesTyped
  <1> QED BY <1>2, <1>3, <1>4 DEF LabelList

LEMMA LabelColumns ==
    ASSUME Filed, phase # "refused", QueryTypeOK
    PROVE  /\ \A k \in 1..Len(labelNames) : \E p \in LabelsAt :
                 labelNames[k] = metrics[p].name /\ columns[labelNames[k]] = metrics[p]
           /\ \A p \in LabelsAt : \E k \in 1..Len(labelNames) :
                 labelNames[k] = metrics[p].name /\ columns[labelNames[k]] = metrics[p]
  <1>1. LabelsAt \subseteq Positions /\ Lists(labelNames, LabelsAt)
    BY DEF Filed, LabelsAt
  <1> QED BY <1>1, ListsColumns

LEMMA MetricColumns ==
    ASSUME Filed, phase # "refused", QueryTypeOK
    PROVE  /\ \A k \in 1..Len(metricNames) : \E p \in MetricsAt :
                 metricNames[k] = metrics[p].name /\ columns[metricNames[k]] = metrics[p]
           /\ \A p \in MetricsAt : \E k \in 1..Len(metricNames) :
                 metricNames[k] = metrics[p].name /\ columns[metricNames[k]] = metrics[p]
           /\ HasHistogram <=> \E p \in MetricsAt : IsHistogram(metrics[p])
           /\ MetricsAt = {} <=> metricNames = <<>>
  <1>1. MetricsAt \subseteq Positions /\ Lists(metricNames, MetricsAt)
    BY DEF Filed, MetricsAt
  <1>2. /\ \A k \in 1..Len(metricNames) : \E p \in MetricsAt :
              metricNames[k] = metrics[p].name /\ columns[metricNames[k]] = metrics[p]
        /\ \A p \in MetricsAt : \E k \in 1..Len(metricNames) :
              metricNames[k] = metrics[p].name /\ columns[metricNames[k]] = metrics[p]
    BY <1>1, ListsColumns
  <1>3. metricNames \in Seq(DOMAIN columns)
    BY DEF QueryTypeOK
  <1>4. metricNames = <<>> <=> Len(metricNames) = 0
    BY <1>3
  <1>5. HasHistogram <=> \E p \in MetricsAt : IsHistogram(metrics[p])
    BY <1>2 DEF HasHistogram
  <1>6. MetricsAt = {} <=> metricNames = <<>>
    <2>1. Len(metricNames) \in Nat
      BY <1>3
    <2>2. ASSUME MetricsAt = {} PROVE Len(metricNames) = 0
      BY <1>2, <2>1, <2>2
    <2>3. ASSUME Len(metricNames) = 0 PROVE MetricsAt = {}
      BY <1>2, <2>3
    <2> QED BY <1>4, <2>2, <2>3
  <1> QED BY <1>2, <1>5, <1>6

-----------------------------------------------------------------------------
\* What a step that accepts an entry makes of the columns.
LEMMA EntryFiled ==
    ASSUME QueryTypeOK, Filed, phase = "metrics",
           NEW c \in Entries, validEntry(c),
           metrics' = Append(metrics, c),
           columns' = [n \in DOMAIN columns \cup {c.name} |-> IF n = c.name THEN c ELSE columns[n]],
           labelNames' = IF c.usage = "LABEL" THEN Append(labelNames, c.name) ELSE labelNames,
           metricNames' = IF isMetric(c) THEN Append(metricNames, c.name) ELSE metricNames,
           UNCHANGED <<phase, malformed>>
    PROVE  Filed'
  <1> DEFINE n == Len(metrics)
  <1>1. /\ n \in Nat /\ metrics \in Seq(Entries)
        /\ Len(metrics') = n + 1 /\ Positions' = Positions \cup {n + 1} /\ n + 1 \notin Positions
        /\ metrics'[n + 1] = c /\ \A k \in Positions : metrics'[k] = metrics[k]
    BY DEF QueryTypeOK, Positions
  <1>2. /\ DOMAIN columns' = DOMAIN columns \cup {c.name} /\ c.name \notin DOMAIN columns
        /\ columns'[c.name] = c
        /\ \A m \in DOMAIN columns : columns'[m] = columns[m]
    BY DEF validEntry
  <1> HIDE DEF n
  <1>3. /\ \A k \in Positions : SoundEntry(metrics[k])
        /\ \A k, l \in Positions : k # l => metrics[k].name # metrics[l].name
        /\ DOMAIN columns = {metrics[k].name : k \in Positions}
        /\ \A k \in Positions : columns[metrics[k].name] = metrics[k]
        /\ Lists(labelNames, LabelsAt) /\ Lists(metricNames, MetricsAt)
        /\ ~malformed
    BY DEF Filed
  <1>4. SoundEntry(c)
    <2>1. IsHistogram(c) => validateHistogramBuckets(c.bucket)
      BY DEF validEntry
    <2>2. c.bucket \in Seq(Int)
      BY NamesTyped
    <2>3. IsHistogram(c) => SoundBuckets(c.bucket)
      BY <2>1, <2>2, Increasing DEF validateHistogramBuckets, SoundBuckets
    <2> QED BY <2>3 DEF validEntry, SoundEntry
  <1>5. \A k \in Positions' : SoundEntry(metrics'[k])
    BY <1>1, <1>3, <1>4
  <1>6. \A k \in Positions : metrics[k].name # c.name
    BY <1>2, <1>3
  <1>7. \A k, l \in Positions' : k # l => metrics'[k].name # metrics'[l].name
    <2> SUFFICES ASSUME NEW k \in Positions', NEW l \in Positions', k # l
                 PROVE  metrics'[k].name # metrics'[l].name
      OBVIOUS
    <2>1. CASE k \in Positions /\ l \in Positions
      <3>1. metrics[k].name # metrics[l].name
        BY <1>3, <2>1
      <3>2. metrics'[k] = metrics[k] /\ metrics'[l] = metrics[l]
        BY <1>1, <2>1
      <3> QED BY <3>1, <3>2
    <2>2. CASE k = n + 1 /\ l \in Positions
      BY <1>1, <1>6, <2>2
    <2>3. CASE k \in Positions /\ l = n + 1
      BY <1>1, <1>6, <2>3
    <2> QED BY <1>1, <2>1, <2>2, <2>3
  <1>8. DOMAIN columns' = {metrics'[k].name : k \in Positions'}
    <2>1. {metrics'[k].name : k \in Positions} = {metrics[k].name : k \in Positions}
      BY <1>1
    <2>2. metrics'[n + 1].name = c.name
      BY <1>1
    <2>3. {metrics'[k].name : k \in Positions \cup {n + 1}} = {metrics[k].name : k \in Positions} \cup {c.name}
      BY <2>1, <2>2
    <2> QED BY <1>1, <1>2, <1>3, <2>3
  <1>9. \A k \in Positions' : columns'[metrics'[k].name] = metrics'[k]
    <2>1. ASSUME NEW k \in Positions PROVE columns'[metrics[k].name] = metrics[k]
      <3>1. metrics[k].name \in DOMAIN columns
        BY <1>3
      <3> QED BY <1>2, <1>3, <3>1
    <2> QED BY <1>1, <1>2, <2>1
  <1>10. ASSUME NEW names \in Seq(DOMAIN columns), NEW ats, ats \subseteq Positions,
                Lists(names, ats)
         PROVE  /\ Lists(names, ats)'
                /\ Distinct(Append(names, c.name))
                /\ Members(Append(names, c.name)) = {metrics'[p].name : p \in ats \cup {n + 1}}
    <2> DEFINE longer == Append(names, c.name)
    <2>1. /\ Len(names) \in Nat /\ Len(longer) = Len(names) + 1
          /\ longer[Len(names) + 1] = c.name
          /\ \A k \in 1..Len(names) : longer[k] = names[k] /\ names[k] \in DOMAIN columns
      OBVIOUS
    <2>2. \A k, l \in 1..Len(names) : k # l => names[k] # names[l]
      BY <1>10 DEF Lists, Distinct
    <2>3. {names[k] : k \in 1..Len(names)} = {metrics[p].name : p \in ats}
      BY <1>10 DEF Lists, Members
    <2>4. {metrics'[p].name : p \in ats} = {metrics[p].name : p \in ats}
      BY <1>1, <1>10
    <2>5. Lists(names, ats)'
      BY <1>10, <2>4 DEF Lists, Members, Distinct
    <2> HIDE DEF longer
    <2>6. \A k \in 1..Len(longer) : k \in 1..Len(names) \/ k = Len(names) + 1
      BY <2>1
    <2>7. Distinct(longer)
      <3> SUFFICES ASSUME NEW k \in 1..Len(longer), NEW l \in 1..Len(longer), k # l
                   PROVE  longer[k] # longer[l]
        BY DEF Distinct
      <3> QED BY <1>2, <2>1, <2>2, <2>6
    <2>8. Members(longer) = Members(names) \cup {c.name}
      <3>1. \A k \in 1..Len(longer) : longer[k] \in Members(names) \cup {c.name}
        BY <2>1, <2>6 DEF Members
      <3>2. \A k \in 1..Len(names) : k \in 1..Len(longer) /\ longer[k] = names[k]
        BY <2>1
      <3>3. Len(names) + 1 \in 1..Len(longer)
        BY <2>1
      <3>4. \A m \in Members(names) : \E k \in 1..Len(longer) : longer[k] = m
        BY <3>2 DEF Members
      <3>5. Members(names) \cup {c.name} \subseteq {longer[k] : k \in 1..Len(longer)}
        BY <2>1, <3>3, <3>4
      <3>6. {longer[k] : k \in 1..Len(longer)} \subseteq Members(names) \cup {c.name}
        BY <3>1
      <3> QED BY <3>5, <3>6 DEF Members
    <2>9. {metrics'[p].name : p \in ats \cup {n + 1}} = {metrics[p].name : p \in ats} \cup {c.name}
      <3>1. metrics'[n + 1].name = c.name
        BY <1>1
      <3> QED BY <2>4, <3>1
    <2> QED BY <2>3, <2>5, <2>7, <2>8, <2>9 DEF longer, Members
  <1>11. Lists(labelNames, LabelsAt)'
    <2>1. labelNames \in Seq(DOMAIN columns) /\ LabelsAt \subseteq Positions
      BY DEF QueryTypeOK, LabelsAt
    <2>2. CASE c.usage = "LABEL"
      <3>1. LabelsAt' = LabelsAt \cup {n + 1} /\ labelNames' = Append(labelNames, c.name)
        BY <1>1, <2>2 DEF LabelsAt
      <3>2. Distinct(Append(labelNames, c.name))
            /\ Members(Append(labelNames, c.name)) = {metrics'[p].name : p \in LabelsAt \cup {n + 1}}
        BY <1>3, <1>10, <2>1
      <3>3. Distinct(labelNames') /\ Members(labelNames') = {metrics'[p].name : p \in LabelsAt'}
        BY <3>1, <3>2
      <3> QED BY <3>3 DEF Lists, Distinct, Members
    <2>3. CASE c.usage # "LABEL"
      <3>1. LabelsAt' = LabelsAt /\ labelNames' = labelNames
        BY <1>1, <2>3 DEF LabelsAt
      <3>2. {metrics'[p].name : p \in LabelsAt} = {metrics[p].name : p \in LabelsAt}
        BY <1>1, <2>1
      <3>3. Lists(labelNames, LabelsAt)
        BY <1>3
      <3>4. Members(labelNames') = {metrics'[p].name : p \in LabelsAt'}
        BY <3>1, <3>2, <3>3 DEF Lists
      <3>5. Distinct(labelNames')
        BY <3>1, <3>3 DEF Lists
      <3> QED BY <3>4, <3>5 DEF Lists, Distinct, Members
    <2> QED BY <2>2, <2>3
  <1>12. Lists(metricNames, MetricsAt)'
    <2>1. metricNames \in Seq(DOMAIN columns) /\ MetricsAt \subseteq Positions
      BY DEF QueryTypeOK, MetricsAt
    <2>2. CASE isMetric(c)
      <3>1. MetricsAt' = MetricsAt \cup {n + 1} /\ metricNames' = Append(metricNames, c.name)
        BY <1>1, <2>2 DEF MetricsAt, isMetric
      <3>2. Distinct(Append(metricNames, c.name))
            /\ Members(Append(metricNames, c.name)) = {metrics'[p].name : p \in MetricsAt \cup {n + 1}}
        BY <1>3, <1>10, <2>1
      <3>3. Distinct(metricNames') /\ Members(metricNames') = {metrics'[p].name : p \in MetricsAt'}
        BY <3>1, <3>2
      <3> QED BY <3>3 DEF Lists, Distinct, Members
    <2>3. CASE ~isMetric(c)
      <3>1. MetricsAt' = MetricsAt /\ metricNames' = metricNames
        BY <1>1, <2>3 DEF MetricsAt, isMetric
      <3>2. {metrics'[p].name : p \in MetricsAt} = {metrics[p].name : p \in MetricsAt}
        BY <1>1, <2>1
      <3>3. Lists(metricNames, MetricsAt)
        BY <1>3
      <3>4. Members(metricNames') = {metrics'[p].name : p \in MetricsAt'}
        BY <3>1, <3>2, <3>3 DEF Lists
      <3>5. Distinct(metricNames')
        BY <3>1, <3>3 DEF Lists
      <3> QED BY <3>4, <3>5 DEF Lists, Distinct, Members
    <2> QED BY <2>2, <2>3
  <1> QED BY <1>3, <1>5, <1>7, <1>8, <1>9, <1>11, <1>12 DEF Filed

\* Steps after the loop over metrics leave what it has filed.
LEMMA FiledKept ==
    ASSUME Filed, phase # "refused", UNCHANGED <<malformed, metrics, columns, labelNames, metricNames>>,
           phase' # "query", phase' # "refused" => ~malformed,
           phase' \in {"labels", "families", "const", "planned"} => metricNames # <<>>
    PROVE  Filed'
  <1>1. LabelsAt' = LabelsAt /\ MetricsAt' = MetricsAt /\ Positions' = Positions
    BY DEF LabelsAt, MetricsAt, Positions
  <1>2. Lists(labelNames, LabelsAt)' /\ Lists(metricNames, MetricsAt)'
    <2>1. Lists(labelNames, LabelsAt) /\ Lists(metricNames, MetricsAt)
      BY DEF Filed
    <2>2. Lists(labelNames, LabelsAt)'
      <3>1. Distinct(labelNames)' /\ Members(labelNames)' = Members(labelNames)
        BY <2>1 DEF Lists, Distinct, Members
      <3> QED BY <1>1, <2>1, <3>1 DEF Lists
    <2>3. Lists(metricNames, MetricsAt)'
      <3>1. Distinct(metricNames)' /\ Members(metricNames)' = Members(metricNames)
        BY <2>1 DEF Lists, Distinct, Members
      <3> QED BY <1>1, <2>1, <3>1 DEF Lists
    <2> QED BY <2>2, <2>3
  <1> QED BY <1>1, <1>2 DEF Filed

LEMMA ChecksKept ==
    ASSUME UNCHANGED <<columns, labelNames, metricNames>>
    PROVE  /\ LabelList' = LabelList /\ HasHistogram' = HasHistogram
           /\ \A k : FamiliesAt(k)' = FamiliesAt(k)
           /\ \A n : SoundLabels(n)' = SoundLabels(n) /\ SoundFamilies(n)' = SoundFamilies(n)
  <1>1. LabelList' = LabelList /\ HasHistogram' = HasHistogram
    BY DEF LabelList, HasHistogram
  <1>2. \A k : FamiliesAt(k)' = FamiliesAt(k)
    BY DEF FamiliesAt
  <1>3. \A n : SoundLabels(n)' = SoundLabels(n)
    BY <1>1 DEF SoundLabels
  <1>4. \A n : SoundFamilies(n)' = SoundFamilies(n)
    BY <1>2 DEF SoundFamilies
  <1> QED BY <1>1, <1>2, <1>3, <1>4

LEMMA AcceptableKept ==
    ASSUME UNCHANGED <<constLabels, disableIntro, malformed, metrics>>
    PROVE  Acceptable' = Acceptable
  BY DEF Acceptable, Positions, LabelsAt, MetricsAt

-----------------------------------------------------------------------------
\* An entry that the loop refuses makes the query unacceptable.
LEMMA EntryRefused ==
    ASSUME QueryTypeOK, Filed, phase = "metrics", NEW c \in Entries, ~validEntry(c),
           metrics' = Append(metrics, c)
    PROVE  ~Acceptable'
  <1> SUFFICES ASSUME Acceptable' PROVE validEntry(c)
    OBVIOUS
  <1> DEFINE n == Len(metrics)
  <1>1. /\ n \in Nat /\ n + 1 \in Positions' /\ n + 1 \notin Positions /\ metrics'[n + 1] = c
        /\ \A k \in Positions : k \in Positions' /\ metrics'[k] = metrics[k]
    BY DEF QueryTypeOK, Positions
  <1> HIDE DEF n
  <1>2. c.parses /\ c.usage # BadUsage
    BY <1>1 DEF Acceptable
  <1>3. c.usage \in Usages /\ c.bucket \in Seq(Int)
    BY <1>2, NamesTyped
  <1>4. ASSUME IsHistogram(c) PROVE validateHistogramBuckets(c.bucket)
    <2>1. n + 1 \in MetricsAt'
      BY <1>1, <1>4 DEF MetricsAt, isMetric, IsHistogram
    <2>2. IsHistogram(metrics'[n + 1])
      BY <1>1, <1>4
    <2>3. SoundBuckets(c.bucket)
      BY <1>1, <2>1, <2>2 DEF Acceptable
    <2> HIDE DEF n
    <2>4. \A k \in 1..(Len(c.bucket) - 1) : k \in 1..Len(c.bucket) /\ k + 1 \in 1..Len(c.bucket) /\ k < k + 1
      BY <1>3
    <2> QED BY <2>3, <2>4 DEF SoundBuckets, validateHistogramBuckets
  <1>5. c.name \notin DOMAIN columns
    <2>1. \A k \in Positions : metrics[k].name # c.name
      <3>1. \A k, l \in Positions' : k # l => metrics'[k].name # metrics'[l].name
        BY DEF Acceptable
      <3> QED BY <1>1, <3>1
    <2>2. DOMAIN columns = {metrics[k].name : k \in Positions}
      BY DEF Filed
    <2> QED BY <2>1, <2>2
  <1> QED BY <1>2, <1>3, <1>4, <1>5 DEF validEntry

\* Positions that a list names twice are one.
LEMMA OneColumn ==
    ASSUME Filed, phase # "refused", NEW p \in Positions, NEW q \in Positions,
           metrics[p].name = metrics[q].name
    PROVE  p = q
  BY DEF Filed

LEMMA LabelRefused ==
    ASSUME QueryTypeOK, Filed, LabelsChecked, phase = "labels", i <= Len(labelNames),
           ~(validatePromLabelName(label) /\ ~labelConflicts(label))
    PROVE  ~Acceptable
  <1> SUFFICES ASSUME Acceptable PROVE validatePromLabelName(label) /\ ~labelConflicts(label)
    OBVIOUS
  <1>1. i \in 1..Len(labelNames) /\ seenLabels = {LabelList[k] : k \in 1..(i - 1)}
    BY ColumnsTyped DEF LabelsChecked
  <1>2. PICK p \in LabelsAt : labelNames[i] = metrics[p].name /\ columns[labelNames[i]] = metrics[p]
    BY <1>1, LabelColumns
  <1>3. label = renamed(metrics[p])
    BY <1>2 DEF label
  <1>4. validatePromLabelName(label)
    BY <1>2, <1>3 DEF Acceptable
  <1>5. HasHistogram => label # Le
    <2> SUFFICES ASSUME HasHistogram PROVE label # Le
      OBVIOUS
    <2>1. \E q \in MetricsAt : IsHistogram(metrics[q])
      BY MetricColumns
    <2>2. Le \notin constLabels \cup {renamed(metrics[k]) : k \in LabelsAt}
      BY <2>1 DEF Acceptable
    <2> QED BY <1>2, <1>3, <2>2
  <1>6. label \notin seenLabels
    <2> SUFFICES ASSUME NEW k \in 1..(i - 1), label = LabelList[k] PROVE FALSE
      BY <1>1
    <2>1. k \in 1..Len(labelNames) /\ k # i
      BY <1>1, ColumnsTyped
    <2>2. PICK q \in LabelsAt : labelNames[k] = metrics[q].name /\ columns[labelNames[k]] = metrics[q]
      BY <2>1, LabelColumns
    <2>3. LabelList[k] = renamed(metrics[q])
      BY <2>1, <2>2, ColumnsTyped
    <2>4. labelNames[k] # labelNames[i]
      BY <1>1, <2>1 DEF Filed, Lists, Distinct
    <2>5. p # q
      BY <1>2, <2>2, <2>4
    <2> QED BY <1>2, <1>3, <2>2, <2>3, <2>5 DEF Acceptable
  <1> QED BY <1>4, <1>5, <1>6 DEF labelConflicts

LEMMA FamiliesRefused ==
    ASSUME QueryTypeOK, Filed, FamiliesChecked, phase = "families", i <= Len(metricNames),
           ~((\A f \in families : validatePromMetricName(f)) /\ families \cap seenMetrics = {})
    PROVE  ~Acceptable
  <1> SUFFICES ASSUME Acceptable
               PROVE  (\A f \in families : validatePromMetricName(f)) /\ families \cap seenMetrics = {}
    OBVIOUS
  <1>1. i \in 1..Len(metricNames) /\ seenMetrics = UNION {FamiliesAt(k) : k \in 1..(i - 1)}
    BY ColumnsTyped DEF FamiliesChecked
  <1>2. PICK p \in MetricsAt : metricNames[i] = metrics[p].name /\ columns[metricNames[i]] = metrics[p]
    BY <1>1, MetricColumns
  <1>3. families = familyNames(metrics[p])
    BY <1>2 DEF families
  <1>4. metrics[p] \in Entries
    BY ColumnsTyped DEF MetricsAt
  <1>5. \A f \in families : validatePromMetricName(f)
    <2>1. validatePromMetricName(metricName(metrics[p]))
      BY <1>2 DEF Acceptable
    <2> QED BY <1>3, <1>4, <2>1, SuffixValid
  <1>6. families \cap seenMetrics = {}
    <2> SUFFICES ASSUME NEW k \in 1..(i - 1) PROVE families \cap FamiliesAt(k) = {}
      BY <1>1
    <2>1. k \in 1..Len(metricNames) /\ k # i
      BY <1>1, ColumnsTyped
    <2>2. PICK q \in MetricsAt : metricNames[k] = metrics[q].name /\ columns[metricNames[k]] = metrics[q]
      BY <2>1, MetricColumns
    <2>3. FamiliesAt(k) = familyNames(metrics[q])
      BY <2>2 DEF FamiliesAt
    <2>4. metricNames[k] # metricNames[i]
      BY <1>1, <2>1 DEF Filed, Lists, Distinct
    <2>5. p # q
      BY <1>2, <2>2, <2>4
    <2>6. familyNames(metrics[p]) \cap familyNames(metrics[q]) = {}
      BY <1>2, <2>2, <2>5 DEF Acceptable
    <2> QED BY <1>3, <2>3, <2>6
  <1> QED BY <1>5, <1>6

LEMMA PlanRefused ==
    ASSUME QueryTypeOK, Filed, phase = "const", constLabelConflicts
    PROVE  ~Acceptable
  <1>1. CASE ~disableIntro /\ {Datname, QueryLabel} \cap constLabels # {}
    BY <1>1 DEF Acceptable
  <1>2. CASE HasHistogram /\ Le \in constLabels
    <2>1. \E q \in MetricsAt : IsHistogram(metrics[q])
      BY <1>2, MetricColumns
    <2> QED BY <1>2, <2>1 DEF Acceptable
  <1>3. CASE \E k \in 1..Len(labelNames) : LabelList[k] \in constLabels
    <2>1. PICK k \in 1..Len(labelNames) : LabelList[k] \in constLabels
      BY <1>3
    <2>2. PICK p \in LabelsAt : columns[labelNames[k]] = metrics[p]
      BY LabelColumns
    <2>3. renamed(metrics[p]) \in constLabels
      BY <2>1, <2>2, ColumnsTyped
    <2> QED BY <2>3 DEF Acceptable
  <1> QED BY <1>1, <1>2, <1>3 DEF constLabelConflicts

-----------------------------------------------------------------------------
LEMMA QueryInvInit == QueryInit => QueryInv
  <1> SUFFICES ASSUME QueryInit PROVE QueryInv
    OBVIOUS
  <1>1. /\ phase = "query" /\ metrics = <<>> /\ columns = <<>> /\ labelNames = <<>> /\ metricNames = <<>>
        /\ seenLabels = {} /\ seenMetrics = {} /\ i = 1 /\ descriptors = <<>>
        /\ constLabels \in ConstLabelSets /\ disableIntro \in BOOLEAN /\ malformed \in BOOLEAN
    BY DEF QueryInit
  <1>2. Positions = {} /\ LabelsAt = {} /\ MetricsAt = {}
    BY <1>1 DEF Positions, LabelsAt, MetricsAt
  <1>3. Lists(<<>>, {})
    <2>1. \A k \in 1..Len(<<>>) : FALSE
      OBVIOUS
    <2>2. Members(<<>>) = {}
      BY <2>1 DEF Members
    <2> QED BY <2>1, <2>2 DEF Lists, Distinct
  <1>4. DOMAIN columns = {} /\ DOMAIN descriptors = {}
    BY <1>1
  <1>5. QueryTypeOK
    BY <1>1, <1>4, QueryConfigAssumption DEF QueryTypeOK
  <1>6. Filed
    <2>1. Lists(labelNames, LabelsAt) /\ Lists(metricNames, MetricsAt)
      BY <1>1, <1>2, <1>3
    <2> QED BY <1>1, <1>2, <1>4, <2>1 DEF Filed
  <1>7. LabelsChecked /\ FamiliesChecked /\ Planned
    BY <1>1 DEF LabelsChecked, FamiliesChecked, Planned
  <1> QED BY <1>1, <1>5, <1>6, <1>7 DEF QueryInv

LEMMA ParseQueryKeeps == QueryInv /\ parseQuery => QueryInv'
  <1> SUFFICES ASSUME QueryInv, parseQuery PROVE QueryInv'
    OBVIOUS
  <1>1. /\ phase = "query" /\ phase' = IF malformed THEN "refused" ELSE "metrics"
        /\ UNCHANGED <<constLabels, disableIntro, malformed, metrics, columns, labelNames,
                       metricNames, seenLabels, seenMetrics, i, descriptors>>
    BY DEF parseQuery
  <1>2. QueryTypeOK'
    BY <1>1 DEF QueryInv, QueryTypeOK
  <1>3. Filed'
    BY <1>1, FiledKept DEF QueryInv
  <1>4. LabelsChecked' /\ FamiliesChecked' /\ Planned'
    BY <1>1 DEF QueryInv, LabelsChecked, FamiliesChecked, Planned
  <1>5. phase' = "refused" => ~Acceptable'
    BY <1>1 DEF Acceptable
  <1> QED BY <1>2, <1>3, <1>4, <1>5 DEF QueryInv

LEMMA ParseColumnKeeps == QueryInv /\ parseColumn => QueryInv'
  <1> SUFFICES ASSUME QueryInv, parseColumn PROVE QueryInv'
    OBVIOUS
  <1>1. PICK c \in Entries :
        /\ metrics' = Append(metrics, c)
        /\ IF validEntry(c)
           THEN /\ columns' = [n \in DOMAIN columns \cup {c.name} |-> IF n = c.name THEN c ELSE columns[n]]
                /\ labelNames' = IF c.usage = "LABEL" THEN Append(labelNames, c.name) ELSE labelNames
                /\ metricNames' = IF isMetric(c) THEN Append(metricNames, c.name) ELSE metricNames
                /\ phase' = phase
           ELSE phase' = "refused" /\ UNCHANGED <<columns, labelNames, metricNames>>
    BY DEF parseColumn
  <1>2. /\ phase = "metrics" /\ Len(metrics) < MaxColumns
        /\ UNCHANGED <<constLabels, disableIntro, malformed, seenLabels, seenMetrics, i, descriptors>>
    BY DEF parseColumn
  <1>3. QueryTypeOK
    BY DEF QueryInv
  <1>4. /\ metrics' \in Seq(Entries) /\ Len(metrics') <= MaxColumns
    BY <1>1, <1>2, <1>3, QueryConfigAssumption DEF QueryTypeOK
  <1>5. /\ constLabels' \in ConstLabelSets /\ disableIntro' \in BOOLEAN /\ malformed' \in BOOLEAN
        /\ seenLabels' \subseteq Names /\ seenMetrics' \subseteq Names /\ i' \in Nat
        /\ \A n \in DOMAIN descriptors' : descriptors'[n] \subseteq Descs
    BY <1>2, <1>3 DEF QueryTypeOK
  <1>6. LabelsChecked' /\ FamiliesChecked' /\ Planned'
    <2>1. phase' \in {"metrics", "refused"}
      BY <1>1, <1>2
    <2>2. seenLabels' = {} /\ seenMetrics' = {}
      BY <1>2 DEF QueryInv, LabelsChecked, FamiliesChecked
    <2> QED BY <2>1, <2>2 DEF LabelsChecked, FamiliesChecked, Planned
  <1>7. CASE validEntry(c)
    <2>1. /\ columns' = [n \in DOMAIN columns \cup {c.name} |-> IF n = c.name THEN c ELSE columns[n]]
          /\ labelNames' = IF c.usage = "LABEL" THEN Append(labelNames, c.name) ELSE labelNames
          /\ metricNames' = IF isMetric(c) THEN Append(metricNames, c.name) ELSE metricNames
          /\ phase' = phase
      BY <1>1, <1>7
    <2>2. DOMAIN columns' = DOMAIN columns \cup {c.name}
      BY <2>1
    <2>3. \A n \in DOMAIN columns' : columns'[n] \in Entries
      BY <1>3, <2>1 DEF QueryTypeOK
    <2>4. labelNames' \in Seq(DOMAIN columns')
      <3>1. labelNames \in Seq(DOMAIN columns')
        BY <1>3, <2>2, SeqMonotonic DEF QueryTypeOK
      <3> QED BY <2>1, <2>2, <3>1
    <2>5. metricNames' \in Seq(DOMAIN columns')
      <3>1. metricNames \in Seq(DOMAIN columns')
        BY <1>3, <2>2, SeqMonotonic DEF QueryTypeOK
      <3> QED BY <2>1, <2>2, <3>1
    <2>6. QueryTypeOK'
      BY <1>2, <1>4, <1>5, <2>1, <2>3, <2>4, <2>5 DEF QueryTypeOK
    <2>7. Filed'
      BY <1>1, <1>2, <1>3, <1>7, <2>1, EntryFiled DEF QueryInv
    <2> QED BY <1>2, <1>6, <2>1, <2>6, <2>7 DEF QueryInv
  <1>8. CASE ~validEntry(c)
    <2>1. phase' = "refused" /\ UNCHANGED <<columns, labelNames, metricNames>>
      BY <1>1, <1>8
    <2>2. QueryTypeOK'
      BY <1>3, <1>4, <1>5, <2>1 DEF QueryTypeOK
    <2>3. Filed'
      BY <2>1 DEF Filed
    <2>4. ~Acceptable'
      BY <1>1, <1>2, <1>3, <1>8, EntryRefused DEF QueryInv
    <2> QED BY <1>6, <2>1, <2>2, <2>3, <2>4 DEF QueryInv
  <1> QED BY <1>7, <1>8

LEMMA EndOfMetricsKeeps == QueryInv /\ endOfMetrics => QueryInv'
  <1> SUFFICES ASSUME QueryInv, endOfMetrics PROVE QueryInv'
    OBVIOUS
  <1>1. /\ phase = "metrics" /\ phase' = IF metricNames = <<>> THEN "refused" ELSE "labels"
        /\ i' = 1
        /\ UNCHANGED <<constLabels, disableIntro, malformed, metrics, columns, labelNames,
                       metricNames, seenLabels, seenMetrics, descriptors>>
    BY DEF endOfMetrics
  <1>2. QueryTypeOK'
    BY <1>1 DEF QueryInv, QueryTypeOK
  <1>3. Filed'
    <2>1. Filed /\ ~malformed
      BY <1>1 DEF QueryInv, Filed
    <2>2. phase' # "query" /\ (phase' \in {"labels", "families", "const", "planned"} => metricNames # <<>>)
      BY <1>1
    <2> QED BY <1>1, <2>1, <2>2, FiledKept
  <1>4. LabelsChecked' /\ FamiliesChecked' /\ Planned'
    <2>1. phase' \in {"refused", "labels"} /\ seenLabels' = {} /\ seenMetrics' = {}
      BY <1>1 DEF QueryInv, LabelsChecked, FamiliesChecked
    <2>2. 1 \in 1..(Len(labelNames') + 1) /\ 1..(1 - 1) = {}
      BY <1>2, ColumnsTyped DEF QueryTypeOK
    <2>3. SoundLabels(1 - 1)'
      BY <2>2 DEF SoundLabels
    <2>4. {LabelList'[k] : k \in 1..(1 - 1)} = {}
      BY <2>2
    <2> QED BY <1>1, <2>1, <2>2, <2>3, <2>4 DEF LabelsChecked, FamiliesChecked, Planned
  <1>5. phase' = "refused" => ~Acceptable'
    <2> SUFFICES ASSUME metricNames = <<>> PROVE ~Acceptable'
      BY <1>1
    <2>1. MetricsAt = {}
      BY <1>1, MetricColumns DEF QueryInv
    <2>2. ~Acceptable
      BY <2>1 DEF Acceptable
    <2> QED BY <1>1, <2>2, AcceptableKept
  <1> QED BY <1>2, <1>3, <1>4, <1>5 DEF QueryInv

LEMMA ParseLabelKeeps == QueryInv /\ parseLabel => QueryInv'
  <1> SUFFICES ASSUME QueryInv, parseLabel PROVE QueryInv'
    OBVIOUS
  <1>1. /\ phase = "labels" /\ i <= Len(labelNames)
        /\ IF validatePromLabelName(label) /\ ~labelConflicts(label)
           THEN phase' = phase /\ seenLabels' = seenLabels \cup {label} /\ i' = i + 1
           ELSE phase' = "refused" /\ UNCHANGED <<seenLabels, i>>
        /\ UNCHANGED <<constLabels, disableIntro, malformed, metrics, columns, labelNames,
                       metricNames, seenMetrics, descriptors>>
    BY DEF parseLabel
  <1>2. QueryTypeOK /\ Filed /\ LabelsChecked /\ FamiliesChecked
    BY DEF QueryInv
  <1>3. /\ i \in 1..Len(labelNames) /\ Len(labelNames) \in Nat /\ label = LabelList[i]
        /\ label \in Names
    <2>1. i \in 1..Len(labelNames) /\ Len(labelNames) \in Nat
      BY <1>1, <1>2, ColumnsTyped DEF LabelsChecked
    <2>2. label = LabelList[i]
      BY <1>2, <2>1, ColumnsTyped DEF label
    <2>3. label \in Names
      <3>1. columns[labelNames[i]] \in Entries
        BY <1>2, <2>1, ColumnsTyped
      <3> QED BY <3>1, NamesTyped DEF label
    <2> QED BY <2>1, <2>2, <2>3
  <1>4. Filed'
    <2>1. ~malformed /\ metricNames # <<>>
      BY <1>1, <1>2 DEF Filed
    <2>2. phase' \in {"labels", "refused"}
      BY <1>1
    <2> QED BY <1>1, <1>2, <2>1, <2>2, FiledKept
  <1>5. FamiliesChecked' /\ Planned'
    <2>1. phase' \in {"labels", "refused"} /\ seenMetrics' = {}
      BY <1>1, <1>2 DEF FamiliesChecked
    <2> QED BY <2>1 DEF FamiliesChecked, Planned
  <1>6. CASE validatePromLabelName(label) /\ ~labelConflicts(label)
    <2>1. phase' = phase /\ seenLabels' = seenLabels \cup {label} /\ i' = i + 1
      BY <1>1, <1>6
    <2>2. QueryTypeOK'
      BY <1>1, <1>2, <1>3, <2>1 DEF QueryTypeOK
    <2>3. LabelsChecked'
      <3>1. LabelList' = LabelList /\ HasHistogram' = HasHistogram
        BY <1>1, ChecksKept
      <3>2. seenLabels = {LabelList[k] : k \in 1..(i - 1)} /\ SoundLabels(i - 1)
        BY <1>1, <1>2 DEF LabelsChecked
      <3>3. i' - 1 = i /\ 1..i = (1..(i - 1)) \cup {i} /\ i' \in 1..(Len(labelNames') + 1)
        BY <1>1, <1>3, <2>1
      <3>4. seenLabels' = {LabelList[k] : k \in 1..i}
        BY <1>3, <2>1, <3>2, <3>3
      <3>5. SoundLabels(i)
        <4>1. /\ \A k \in 1..(i - 1) : /\ validatePromLabelName(LabelList[k])
                                       /\ HasHistogram => LabelList[k] # Le
              /\ \A k, l \in 1..(i - 1) : k # l => LabelList[k] # LabelList[l]
          BY <3>2 DEF SoundLabels
        <4>2. (HasHistogram => label # Le) /\ label \notin seenLabels
          BY <1>6 DEF labelConflicts
        <4>3. \A k \in 1..(i - 1) : LabelList[k] # label
          BY <3>2, <4>2
        <4>4. \A k \in 1..i : /\ validatePromLabelName(LabelList[k])
                              /\ HasHistogram => LabelList[k] # Le
          BY <1>3, <1>6, <3>3, <4>1, <4>2
        <4>5. \A k, l \in 1..i : k # l => LabelList[k] # LabelList[l]
          BY <1>3, <3>3, <4>1, <4>3
        <4> QED BY <4>4, <4>5 DEF SoundLabels
      <3>6. phase' = "labels"
        BY <1>1, <2>1
      <3>7. SoundLabels(i - 1)'
        BY <3>1, <3>3, <3>5 DEF SoundLabels
      <3>8. seenLabels' = {LabelList'[k] : k \in 1..(i' - 1)}
        BY <3>1, <3>3, <3>4
      <3> QED BY <3>3, <3>6, <3>7, <3>8 DEF LabelsChecked
    <2>4. phase' # "refused"
      BY <1>1, <2>1
    <2> QED BY <1>4, <1>5, <2>2, <2>3, <2>4 DEF QueryInv
  <1>7. CASE ~(validatePromLabelName(label) /\ ~labelConflicts(label))
    <2>1. phase' = "refused" /\ UNCHANGED <<seenLabels, i>>
      BY <1>1, <1>7
    <2>2. QueryTypeOK'
      BY <1>1, <1>2, <2>1 DEF QueryTypeOK
    <2>3. LabelsChecked'
      BY <2>1 DEF LabelsChecked
    <2>4. ~Acceptable'
      <3>1. ~Acceptable
        BY <1>1, <1>2, <1>7, LabelRefused
      <3> QED BY <1>1, <3>1, AcceptableKept
    <2> QED BY <1>4, <1>5, <2>2, <2>3, <2>4 DEF QueryInv
  <1> QED BY <1>6, <1>7

LEMMA EndOfLabelsKeeps == QueryInv /\ endOfLabels => QueryInv'
  <1> SUFFICES ASSUME QueryInv, endOfLabels PROVE QueryInv'
    OBVIOUS
  <1>1. /\ phase = "labels" /\ i > Len(labelNames) /\ phase' = "families" /\ i' = 1
        /\ UNCHANGED <<constLabels, disableIntro, malformed, metrics, columns, labelNames,
                       metricNames, seenLabels, seenMetrics, descriptors>>
    BY DEF endOfLabels
  <1>2. QueryTypeOK /\ Filed /\ LabelsChecked /\ FamiliesChecked
    BY DEF QueryInv
  <1>3. QueryTypeOK'
    BY <1>1, <1>2 DEF QueryTypeOK
  <1>4. Filed'
    <2>1. ~malformed /\ metricNames # <<>>
      BY <1>1, <1>2 DEF Filed
    <2> QED BY <1>1, <1>2, <2>1, FiledKept
  <1>5. LabelsChecked'
    <2>1. i - 1 = Len(labelNames)
      BY <1>1, <1>2, ColumnsTyped DEF LabelsChecked
    <2>2. SoundLabels(Len(labelNames))
      BY <1>1, <1>2, <2>1 DEF LabelsChecked
    <2>3. SoundLabels(Len(labelNames))'
      BY <1>1, <2>2, ChecksKept
    <2> QED BY <1>1, <2>3 DEF LabelsChecked
  <1>6. FamiliesChecked' /\ Planned'
    <2>1. seenMetrics' = {}
      BY <1>1, <1>2 DEF FamiliesChecked
    <2>2. 1 \in 1..(Len(metricNames') + 1) /\ 1..(1 - 1) = {}
      BY <1>3, ColumnsTyped DEF QueryTypeOK
    <2>3. SoundFamilies(1 - 1)'
      BY <2>2 DEF SoundFamilies
    <2>4. UNION {FamiliesAt(k)' : k \in 1..(1 - 1)} = {}
      BY <2>2
    <2> QED BY <1>1, <2>1, <2>2, <2>3, <2>4 DEF FamiliesChecked, Planned
  <1> QED BY <1>1, <1>3, <1>4, <1>5, <1>6 DEF QueryInv

LEMMA ParseFamiliesKeeps == QueryInv /\ parseFamilies => QueryInv'
  <1> SUFFICES ASSUME QueryInv, parseFamilies PROVE QueryInv'
    OBVIOUS
  <1> DEFINE fine == (\A f \in families : validatePromMetricName(f)) /\ families \cap seenMetrics = {}
  <1>1. /\ phase = "families" /\ i <= Len(metricNames)
        /\ IF fine
           THEN phase' = phase /\ seenMetrics' = seenMetrics \cup families /\ i' = i + 1
           ELSE phase' = "refused" /\ UNCHANGED <<seenMetrics, i>>
        /\ UNCHANGED <<constLabels, disableIntro, malformed, metrics, columns, labelNames,
                       metricNames, seenLabels, descriptors>>
    BY DEF parseFamilies
  <1> HIDE DEF fine
  <1>2. QueryTypeOK /\ Filed /\ LabelsChecked /\ FamiliesChecked
    BY DEF QueryInv
  <1>3. /\ i \in 1..Len(metricNames) /\ Len(metricNames) \in Nat /\ families = FamiliesAt(i)
        /\ families \subseteq Names
    <2>1. i \in 1..Len(metricNames) /\ Len(metricNames) \in Nat
      BY <1>1, <1>2, ColumnsTyped DEF FamiliesChecked
    <2>2. columns[metricNames[i]] \in Entries
      BY <1>2, <2>1, ColumnsTyped
    <2>3. families = FamiliesAt(i) /\ families \subseteq Names
      BY <2>2, NamesTyped DEF families, FamiliesAt
    <2> QED BY <2>1, <2>3
  <1>4. phase' \in {"families", "refused"}
    BY <1>1
  <1>5. Filed'
    <2>1. ~malformed /\ metricNames # <<>>
      BY <1>1, <1>2 DEF Filed
    <2> QED BY <1>1, <1>2, <1>4, <2>1, FiledKept
  <1>6. LabelsChecked' /\ Planned'
    <2>1. SoundLabels(Len(labelNames))
      BY <1>1, <1>2 DEF LabelsChecked
    <2>2. SoundLabels(Len(labelNames))'
      BY <1>1, <2>1, ChecksKept
    <2> QED BY <1>1, <1>4, <2>2 DEF LabelsChecked, Planned
  <1>7. CASE fine
    <2>1. phase' = phase /\ seenMetrics' = seenMetrics \cup families /\ i' = i + 1
      BY <1>1, <1>7
    <2>2. QueryTypeOK'
      BY <1>1, <1>2, <1>3, <2>1 DEF QueryTypeOK
    <2>3. FamiliesChecked'
      <3>1. \A k : FamiliesAt(k)' = FamiliesAt(k)
        BY <1>1, ChecksKept
      <3>2. seenMetrics = UNION {FamiliesAt(k) : k \in 1..(i - 1)} /\ SoundFamilies(i - 1)
        BY <1>1, <1>2 DEF FamiliesChecked
      <3>3. i' - 1 = i /\ 1..i = (1..(i - 1)) \cup {i} /\ i' \in 1..(Len(metricNames') + 1)
        BY <1>1, <1>3, <2>1
      <3>4. seenMetrics' = UNION {FamiliesAt(k) : k \in 1..i}
        BY <1>3, <2>1, <3>2, <3>3
      <3>5. SoundFamilies(i)
        <4>1. /\ \A k \in 1..(i - 1) : \A f \in FamiliesAt(k) : validatePromMetricName(f)
              /\ \A k, l \in 1..(i - 1) : k # l => FamiliesAt(k) \cap FamiliesAt(l) = {}
          BY <3>2 DEF SoundFamilies
        <4>2. /\ \A f \in FamiliesAt(i) : validatePromMetricName(f)
              /\ FamiliesAt(i) \cap seenMetrics = {}
          BY <1>3, <1>7 DEF fine
        <4>3. \A k \in 1..(i - 1) : FamiliesAt(k) \cap FamiliesAt(i) = {}
          BY <3>2, <4>2
        <4>4. \A k \in 1..i : \A f \in FamiliesAt(k) : validatePromMetricName(f)
          BY <3>3, <4>1, <4>2
        <4>5. \A k, l \in 1..i : k # l => FamiliesAt(k) \cap FamiliesAt(l) = {}
          BY <3>3, <4>1, <4>3
        <4> QED BY <4>4, <4>5 DEF SoundFamilies
      <3>6. SoundFamilies(i - 1)'
        BY <3>1, <3>3, <3>5 DEF SoundFamilies
      <3>7. seenMetrics' = UNION {FamiliesAt(k)' : k \in 1..(i' - 1)}
        BY <3>1, <3>3, <3>4
      <3>8. phase' = "families"
        BY <1>1, <2>1
      <3> QED BY <3>3, <3>6, <3>7, <3>8 DEF FamiliesChecked
    <2>4. phase' # "refused"
      BY <1>1, <2>1
    <2> QED BY <1>5, <1>6, <2>2, <2>3, <2>4 DEF QueryInv
  <1>8. CASE ~fine
    <2>1. phase' = "refused" /\ UNCHANGED <<seenMetrics, i>>
      BY <1>1, <1>8
    <2>2. QueryTypeOK'
      BY <1>1, <1>2, <2>1 DEF QueryTypeOK
    <2>3. FamiliesChecked'
      BY <2>1 DEF FamiliesChecked
    <2>4. ~Acceptable'
      <3>1. ~Acceptable
        BY <1>1, <1>2, <1>8, FamiliesRefused DEF fine
      <3> QED BY <1>1, <3>1, AcceptableKept
    <2> QED BY <1>5, <1>6, <2>2, <2>3, <2>4 DEF QueryInv
  <1> QED BY <1>7, <1>8

LEMMA EndOfFamiliesKeeps == QueryInv /\ endOfFamilies => QueryInv'
  <1> SUFFICES ASSUME QueryInv, endOfFamilies PROVE QueryInv'
    OBVIOUS
  <1>1. /\ phase = "families" /\ i > Len(metricNames) /\ phase' = "const"
        /\ UNCHANGED <<constLabels, disableIntro, malformed, metrics, columns, labelNames,
                       metricNames, seenLabels, seenMetrics, i, descriptors>>
    BY DEF endOfFamilies
  <1>2. QueryTypeOK /\ Filed /\ LabelsChecked /\ FamiliesChecked
    BY DEF QueryInv
  <1>3. QueryTypeOK'
    BY <1>1, <1>2 DEF QueryTypeOK
  <1>4. Filed'
    <2>1. ~malformed /\ metricNames # <<>>
      BY <1>1, <1>2 DEF Filed
    <2> QED BY <1>1, <1>2, <2>1, FiledKept
  <1>5. LabelsChecked' /\ Planned'
    <2>1. SoundLabels(Len(labelNames))
      BY <1>1, <1>2 DEF LabelsChecked
    <2>2. SoundLabels(Len(labelNames))'
      BY <1>1, <2>1, ChecksKept
    <2> QED BY <1>1, <2>2 DEF LabelsChecked, Planned
  <1>6. FamiliesChecked'
    <2>1. i - 1 = Len(metricNames)
      BY <1>1, <1>2, ColumnsTyped DEF FamiliesChecked
    <2>2. SoundFamilies(Len(metricNames))
      BY <1>1, <1>2, <2>1 DEF FamiliesChecked
    <2>3. SoundFamilies(Len(metricNames))'
      BY <1>1, <2>2, ChecksKept
    <2> QED BY <1>1, <2>3 DEF FamiliesChecked
  <1> QED BY <1>1, <1>3, <1>4, <1>5, <1>6 DEF QueryInv

LEMMA PlanKeeps == QueryInv /\ plan => QueryInv'
  <1> SUFFICES ASSUME QueryInv, plan PROVE QueryInv'
    OBVIOUS
  <1>1. /\ phase = "const"
        /\ IF constLabelConflicts
           THEN phase' = "refused" /\ UNCHANGED descriptors
           ELSE /\ phase' = "planned"
                /\ descriptors' = [n \in Members(metricNames) |-> descriptorsOf(columns[n])]
        /\ UNCHANGED <<constLabels, disableIntro, malformed, metrics, columns, labelNames,
                       metricNames, seenLabels, seenMetrics, i>>
    BY DEF plan, Members
  <1>2. QueryTypeOK /\ Filed /\ LabelsChecked /\ FamiliesChecked
    BY DEF QueryInv
  <1>3. phase' \in {"planned", "refused"}
    BY <1>1
  <1>4. Filed'
    <2>1. ~malformed /\ metricNames # <<>>
      BY <1>1, <1>2 DEF Filed
    <2> QED BY <1>1, <1>2, <1>3, <2>1, FiledKept
  <1>5. LabelsChecked' /\ FamiliesChecked'
    <2>1. SoundLabels(Len(labelNames)) /\ SoundFamilies(Len(metricNames))
      BY <1>1, <1>2 DEF LabelsChecked, FamiliesChecked
    <2>2. SoundLabels(Len(labelNames))' /\ SoundFamilies(Len(metricNames))'
      BY <1>1, <2>1, ChecksKept
    <2> QED BY <1>3, <2>2 DEF LabelsChecked, FamiliesChecked
  <1>6. /\ constLabels' \in ConstLabelSets /\ disableIntro' \in BOOLEAN /\ malformed' \in BOOLEAN
        /\ metrics' \in Seq(Entries) /\ Len(metrics') <= MaxColumns
        /\ \A n \in DOMAIN columns' : columns'[n] \in Entries
        /\ labelNames' \in Seq(DOMAIN columns') /\ metricNames' \in Seq(DOMAIN columns')
        /\ seenLabels' \subseteq Names /\ seenMetrics' \subseteq Names /\ i' \in Nat
    BY <1>1, <1>2 DEF QueryTypeOK
  <1>7. CASE constLabelConflicts
    <2>1. phase' = "refused" /\ UNCHANGED descriptors
      BY <1>1, <1>7
    <2>2. QueryTypeOK'
      BY <1>2, <1>6, <2>1 DEF QueryTypeOK
    <2>3. ~Acceptable'
      <3>1. ~Acceptable
        BY <1>1, <1>2, <1>7, PlanRefused
      <3> QED BY <1>1, <3>1, AcceptableKept
    <2>4. Planned'
      BY <2>1 DEF Planned
    <2> QED BY <1>4, <1>5, <2>2, <2>3, <2>4 DEF QueryInv
  <1>8. CASE ~constLabelConflicts
    <2>1. phase' = "planned" /\ descriptors' = [n \in Members(metricNames) |-> descriptorsOf(columns[n])]
      BY <1>1, <1>8
    <2>2. ASSUME NEW n \in Members(metricNames) PROVE descriptorsOf(columns[n]) \subseteq Descs
      <3> DEFINE c == columns[n]
      <3>1. c \in Entries
        BY <1>2, ColumnsTyped DEF Members
      <3>2. metricName(c) \in Names /\ LabelList \in Seq(Names)
        BY <1>2, <3>1, NamesTyped, ColumnsTyped
      <3>3. \A p \in Components : Append(metricName(c), p) \in Names
        BY <3>2, QueryConfigAssumption DEF Names
      <3>4. Append(LabelList, Le) \in Seq(Names)
        BY <3>2, QueryConfigAssumption
      <3>5. [name |-> metricName(c), labels |-> LabelList] \in Descs
        BY <3>2 DEF Descs
      <3>6. \A p \in Components :
                [name |-> Append(metricName(c), p),
                 labels |-> IF p = "bucket" THEN Append(LabelList, Le) ELSE LabelList] \in Descs
        BY <3>2, <3>3, <3>4 DEF Descs
      <3> HIDE DEF c
      <3> QED BY <3>5, <3>6 DEF descriptorsOf, c
    <2>3. QueryTypeOK'
      BY <1>2, <1>6, <2>1, <2>2 DEF QueryTypeOK
    <2>4. Planned'
      <3>1. LabelList' = LabelList /\ HasHistogram' = HasHistogram
        BY <1>1, ChecksKept
      <3>2. ~constLabelConflicts'
        BY <1>1, <1>8, <3>1 DEF constLabelConflicts
      <3>3. Members(metricNames)' = Members(metricNames)
        BY <1>1 DEF Members
      <3>4. \A n \in Members(metricNames) : descriptors'[n] = descriptorsOf(columns[n])
        BY <2>1
      <3>5. \A n \in Members(metricNames)' : descriptors'[n] = descriptorsOf(columns[n])'
        BY <1>1, <3>1, <3>3, <3>4 DEF descriptorsOf
      <3>6. DOMAIN descriptors' = Members(metricNames)'
        BY <2>1, <3>3
      <3> QED BY <2>1, <3>2, <3>5, <3>6 DEF Planned
    <2> QED BY <1>4, <1>5, <2>1, <2>3, <2>4 DEF QueryInv
  <1> QED BY <1>7, <1>8

LEMMA QueryStutters == QueryInv /\ UNCHANGED queryVars => QueryInv'
  <1> SUFFICES ASSUME QueryInv, UNCHANGED queryVars PROVE QueryInv'
    OBVIOUS
  <1>1. UNCHANGED <<constLabels, disableIntro, phase, malformed, metrics, columns, labelNames,
                    metricNames, seenLabels, seenMetrics, i, descriptors>>
    BY DEF queryVars
  <1>2. QueryTypeOK' /\ (phase' = "refused" => ~Acceptable')
    <2>1. Acceptable' = Acceptable
      BY <1>1, AcceptableKept
    <2> QED BY <1>1, <2>1 DEF QueryInv, QueryTypeOK
  <1>3. Filed'
    <2>1. CASE phase = "refused"
      BY <1>1, <2>1 DEF Filed
    <2>2. CASE phase = "query"
      <3>1. LabelsAt' = LabelsAt /\ MetricsAt' = MetricsAt /\ Positions' = Positions
        BY <1>1 DEF LabelsAt, MetricsAt, Positions
      <3>2. Lists(labelNames, LabelsAt)' = Lists(labelNames, LabelsAt)
            /\ Lists(metricNames, MetricsAt)' = Lists(metricNames, MetricsAt)
        BY <1>1, <3>1 DEF Lists, Members, Distinct
      <3> QED BY <1>1, <2>2, <3>1, <3>2 DEF Filed, QueryInv
    <2>3. CASE phase \notin {"query", "refused"}
      <3>1. Filed /\ ~malformed
        BY <2>3 DEF QueryInv, Filed
      <3>2. phase \in {"labels", "families", "const", "planned"} => metricNames # <<>>
        BY <3>1 DEF Filed
      <3> QED BY <1>1, <2>3, <3>1, <3>2, FiledKept
    <2> QED BY <2>1, <2>2, <2>3
  <1>4. LabelsChecked'
    <2>1. LabelList' = LabelList /\ HasHistogram' = HasHistogram
      BY <1>1, ChecksKept
    <2> QED BY <1>1, <2>1 DEF QueryInv, LabelsChecked, SoundLabels
  <1>5. FamiliesChecked'
    <2>1. \A k : FamiliesAt(k)' = FamiliesAt(k)
      BY <1>1, ChecksKept
    <2> QED BY <1>1, <2>1 DEF QueryInv, FamiliesChecked, SoundFamilies
  <1>6. Planned'
    <2>1. LabelList' = LabelList /\ HasHistogram' = HasHistogram
      BY <1>1, ChecksKept
    <2>2. constLabelConflicts' = constLabelConflicts
      BY <1>1, <2>1 DEF constLabelConflicts
    <2>3. Members(metricNames)' = Members(metricNames)
      BY <1>1 DEF Members
    <2>4. \A n : descriptorsOf(columns[n])' = descriptorsOf(columns[n])
      BY <1>1, <2>1 DEF descriptorsOf
    <2>5. Planned
      BY DEF QueryInv
    <2> QED BY <1>1, <2>2, <2>3, <2>4, <2>5 DEF Planned
  <1> QED BY <1>2, <1>3, <1>4, <1>5, <1>6 DEF QueryInv

-----------------------------------------------------------------------------
(* The inductive invariant of what becomes of a query (config.go:47-180).  *)
THEOREM QueryInvariant == QuerySpec => []QueryInv
  <1>1. QueryInv /\ [QueryNext]_queryVars => QueryInv'
    BY ParseQueryKeeps, ParseColumnKeeps, EndOfMetricsKeeps, ParseLabelKeeps, EndOfLabelsKeeps,
       ParseFamiliesKeeps, EndOfFamiliesKeeps, PlanKeeps, QueryStutters DEF QueryNext
  <1> QED BY QueryInvInit, <1>1, PTL DEF QuerySpec

(* Every state of a query is well-typed: its lists name columns it has     *)
(* (config.go:92-160).                                                     *)
THEOREM QueryTyped == QuerySpec => []QueryTypeOK
  <1>1. QueryInv => QueryTypeOK
    BY DEF QueryInv
  <1> QED BY <1>1, QueryInvariant, PTL

LEMMA PlannedSound == QueryInv => DescriptorsSound
  <1> SUFFICES ASSUME QueryInv, phase = "planned" PROVE DescriptorsSound
    BY DEF DescriptorsSound
  <1>1. /\ QueryTypeOK /\ Filed
        /\ SoundLabels(Len(labelNames)) /\ SoundFamilies(Len(metricNames))
        /\ ~constLabelConflicts
        /\ DOMAIN descriptors = Members(metricNames)
        /\ \A n \in Members(metricNames) : descriptors[n] = descriptorsOf(columns[n])
    BY DEF QueryInv, LabelsChecked, FamiliesChecked, Planned
  <1>2. /\ LabelList \in Seq(Names) /\ Len(LabelList) = Len(labelNames) /\ Len(labelNames) \in Nat
        /\ \A k \in 1..Len(labelNames) : LabelList[k] \notin constLabels
        /\ \A k, l \in 1..Len(labelNames) : k # l => LabelList[k] # LabelList[l]
        /\ HasHistogram => Le \notin constLabels /\ \A k \in 1..Len(labelNames) : LabelList[k] # Le
    BY <1>1, ColumnsTyped DEF SoundLabels, constLabelConflicts
  <1>3. Usable(LabelList)
    BY <1>2 DEF Usable, Distinct
  <1>4. HasHistogram => Usable(Append(LabelList, Le))
    <2> SUFFICES ASSUME HasHistogram PROVE Usable(Append(LabelList, Le))
      OBVIOUS
    <2> DEFINE longer == Append(LabelList, Le)
    <2>1. /\ Len(longer) = Len(labelNames) + 1 /\ longer[Len(labelNames) + 1] = Le
          /\ \A k \in 1..Len(labelNames) : longer[k] = LabelList[k]
      BY <1>2
    <2> HIDE DEF longer
    <2>2. \A k \in 1..Len(longer) : k \in 1..Len(labelNames) \/ k = Len(labelNames) + 1
      BY <1>2, <2>1
    <2>3. \A k \in 1..Len(longer) : longer[k] \notin constLabels
      BY <1>2, <2>1, <2>2
    <2>4. Distinct(longer)
      <3> SUFFICES ASSUME NEW k \in 1..Len(longer), NEW l \in 1..Len(longer), k # l
                   PROVE  longer[k] # longer[l]
        BY DEF Distinct
      <3> QED BY <1>2, <2>1, <2>2
    <2> QED BY <2>3, <2>4 DEF Usable, longer
  <1>5. ASSUME NEW n \in DOMAIN descriptors, NEW d \in descriptors[n] PROVE Usable(d.labels)
    <2>1. PICK k \in 1..Len(metricNames) : n = metricNames[k]
      BY <1>1 DEF Members
    <2>2. d \in descriptorsOf(columns[n])
      BY <1>1
    <2>3. IsHistogram(columns[n]) => HasHistogram
      BY <2>1 DEF HasHistogram
    <2>4. d.labels = LabelList \/ (HasHistogram /\ d.labels = Append(LabelList, Le))
      BY <2>2, <2>3 DEF descriptorsOf
    <2> QED BY <1>3, <1>4, <2>4
  <1>6. \A c : \A d \in descriptorsOf(c) : d.name \in familyNames(c)
    BY DEF descriptorsOf, familyNames
  <1>7. ASSUME NEW n \in DOMAIN descriptors, NEW o \in DOMAIN descriptors, n # o,
               NEW d \in descriptors[n], NEW e \in descriptors[o]
        PROVE  d.name # e.name
    <2>1. PICK k \in 1..Len(metricNames) : n = metricNames[k]
      BY <1>1 DEF Members
    <2>2. PICK l \in 1..Len(metricNames) : o = metricNames[l]
      BY <1>1 DEF Members
    <2>3. FamiliesAt(k) \cap FamiliesAt(l) = {}
      BY <1>1, <1>7, <2>1, <2>2 DEF SoundFamilies
    <2>4. d.name \in FamiliesAt(k) /\ e.name \in FamiliesAt(l)
      BY <1>1, <1>6, <2>1, <2>2 DEF FamiliesAt
    <2> QED BY <2>3, <2>4
  <1>8. disableIntro \/ Usable(<<Datname, QueryLabel>>)
    <2> SUFFICES ASSUME ~disableIntro PROVE Usable(<<Datname, QueryLabel>>)
      OBVIOUS
    <2>1. Datname \notin constLabels /\ QueryLabel \notin constLabels
      BY <1>1 DEF constLabelConflicts
    <2>2. Datname[1] = "datname" /\ QueryLabel[1] = "query"
      BY DEF Datname, QueryLabel
    <2>3. Datname # QueryLabel
      BY <2>2
    <2> QED BY <2>1, <2>3 DEF Usable, Distinct
  <1> QED BY <1>5, <1>7, <1>8 DEF DescriptorsSound

LEMMA PlannedAcceptable == QueryInv /\ phase = "planned" => Acceptable
  <1> SUFFICES ASSUME QueryInv, phase = "planned" PROVE Acceptable
    OBVIOUS
  <1>1. /\ QueryTypeOK /\ Filed /\ ~malformed /\ metricNames # <<>>
        /\ SoundLabels(Len(labelNames)) /\ SoundFamilies(Len(metricNames))
        /\ ~constLabelConflicts
        /\ \A k \in Positions : SoundEntry(metrics[k])
        /\ \A k, l \in Positions : k # l => metrics[k].name # metrics[l].name
    BY DEF QueryInv, Filed, LabelsChecked, FamiliesChecked, Planned
  <1>2. ~malformed /\ MetricsAt # {}
    BY <1>1, MetricColumns
  <1>3. \A k \in Positions : metrics[k].parses /\ metrics[k].usage # BadUsage
    BY <1>1, QueryConfigAssumption DEF SoundEntry
  <1>4. \A k \in MetricsAt : IsHistogram(metrics[k]) => SoundBuckets(metrics[k].bucket)
    BY <1>1 DEF SoundEntry, MetricsAt
  <1>5. ASSUME NEW p \in LabelsAt
        PROVE  \E k \in 1..Len(labelNames) :
                   labelNames[k] = metrics[p].name /\ LabelList[k] = renamed(metrics[p])
    <2>1. PICK k \in 1..Len(labelNames) : labelNames[k] = metrics[p].name /\ columns[labelNames[k]] = metrics[p]
      BY <1>1, LabelColumns
    <2> QED BY <1>1, <2>1, ColumnsTyped
  <1>6. ASSUME NEW p \in MetricsAt
        PROVE  \E k \in 1..Len(metricNames) :
                   metricNames[k] = metrics[p].name /\ FamiliesAt(k) = familyNames(metrics[p])
    <2>1. PICK k \in 1..Len(metricNames) : metricNames[k] = metrics[p].name /\ columns[metricNames[k]] = metrics[p]
      BY <1>1, MetricColumns
    <2> QED BY <2>1 DEF FamiliesAt
  <1>7. /\ \A k \in LabelsAt : validatePromLabelName(renamed(metrics[k]))
        /\ \A k \in LabelsAt : renamed(metrics[k]) \notin constLabels
        /\ \A k \in LabelsAt : HasHistogram => renamed(metrics[k]) # Le
    BY <1>1, <1>5 DEF SoundLabels, constLabelConflicts
  <1>8. \A k \in MetricsAt : validatePromMetricName(metricName(metrics[k]))
    <2> TAKE p \in MetricsAt
    <2>1. metricName(metrics[p]) \in familyNames(metrics[p])
      BY DEF familyNames
    <2> QED BY <1>1, <1>6, <2>1 DEF SoundFamilies
  <1>9. \A k, l \in LabelsAt : k # l => renamed(metrics[k]) # renamed(metrics[l])
    <2> SUFFICES ASSUME NEW p \in LabelsAt, NEW q \in LabelsAt, p # q
                 PROVE  renamed(metrics[p]) # renamed(metrics[q])
      OBVIOUS
    <2>1. metrics[p].name # metrics[q].name
      BY <1>1 DEF LabelsAt
    <2>2. PICK k \in 1..Len(labelNames) : labelNames[k] = metrics[p].name /\ LabelList[k] = renamed(metrics[p])
      BY <1>5
    <2>3. PICK l \in 1..Len(labelNames) : labelNames[l] = metrics[q].name /\ LabelList[l] = renamed(metrics[q])
      BY <1>5
    <2>4. k # l
      BY <2>1, <2>2, <2>3
    <2>5. LabelList[k] # LabelList[l]
      BY <1>1, <2>4 DEF SoundLabels
    <2> QED BY <2>2, <2>3, <2>5
  <1>10. \A k, l \in MetricsAt : k # l => familyNames(metrics[k]) \cap familyNames(metrics[l]) = {}
    <2> SUFFICES ASSUME NEW p \in MetricsAt, NEW q \in MetricsAt, p # q
                 PROVE  familyNames(metrics[p]) \cap familyNames(metrics[q]) = {}
      OBVIOUS
    <2>1. metrics[p].name # metrics[q].name
      BY <1>1 DEF MetricsAt
    <2>2. PICK k \in 1..Len(metricNames) : metricNames[k] = metrics[p].name /\ FamiliesAt(k) = familyNames(metrics[p])
      BY <1>6
    <2>3. PICK l \in 1..Len(metricNames) : metricNames[l] = metrics[q].name /\ FamiliesAt(l) = familyNames(metrics[q])
      BY <1>6
    <2>4. k # l
      BY <2>1, <2>2, <2>3
    <2>5. FamiliesAt(k) \cap FamiliesAt(l) = {}
      BY <1>1, <2>4 DEF SoundFamilies
    <2> QED BY <2>2, <2>3, <2>5
  <1>11. (\E k \in MetricsAt : IsHistogram(metrics[k])) =>
             Le \notin constLabels \cup {renamed(metrics[k]) : k \in LabelsAt}
    <2> SUFFICES ASSUME HasHistogram
                 PROVE  Le \notin constLabels \cup {renamed(metrics[k]) : k \in LabelsAt}
      BY <1>1, MetricColumns
    <2>1. Le \notin constLabels
      BY <1>1 DEF constLabelConflicts
    <2> QED BY <1>7, <2>1
  <1>12. disableIntro \/ {Datname, QueryLabel} \cap constLabels = {}
    BY <1>1 DEF constLabelConflicts
  <1> QED BY <1>1, <1>2, <1>3, <1>4, <1>7, <1>8, <1>9, <1>10, <1>11, <1>12 DEF Acceptable

(* No descriptor of a planned query makes client_golang fail               *)
(* (config.go:120-170, validate_labels.go:18-59, collector.go).            *)
THEOREM PlannedDescriptorsSound == QuerySpec => []DescriptorsSound
  BY PlannedSound, QueryInvariant, PTL

(* A query is planned only if it is acceptable and refused only if it is   *)
(* not, for any entries and constant labels (config.go:47-180).            *)
THEOREM AcceptsExactlyTheAcceptable == QuerySpec => []AcceptsExactly
  <1>1. QueryInv => AcceptsExactly
    BY PlannedAcceptable DEF QueryInv, AcceptsExactly
  <1> QED BY <1>1, QueryInvariant, PTL

-----------------------------------------------------------------------------
(* A load reads the files of its listing from the first to the last name:  *)
(* what the invariant adds to LastFileWins is that every file read comes   *)
(* before every file still to be read, so that the file just read is the   *)
(* last so far, and its rank the number of those read.  Witnessed is what  *)
(* the mapping to ConfigSource rests on: what a file gave, and what it     *)
(* would give now, is something it has been since the load began.          *)

InOrder == \A f \in DOMAIN read, g \in todo : f < g

OnlyFile ==
    pathIs = "file" => /\ \A f \in Files : f # ConfigFile => dir[f] = Absent
                       /\ pc = "loading" => confFiles = {ConfigFile}
                       /\ \A f \in DOMAIN read : read[f].kind = "yaml"

IsMap == queries = [b \in DOMAIN queries |-> queries[b]]

Witnessed ==
    /\ pc = "loading" =>
           /\ \A f \in confFiles : Reading(dir[f]) \in seen[f]
           /\ \A f \in Files : f \notin confFiles => Absent \in seen[f]
           /\ \A f \in DOMAIN read : read[f] \in seen[f] /\ read[f] # Absent
    /\ pc # "loading" => seen = Never

ConfigDirInv == TypeOK /\ InOrder /\ LastFileWins /\ OnlyFile /\ IsMap /\ Witnessed

\* The next file to read is one that is left, and the first of those.
LEMMA LeastFile ==
    ASSUME NEW T, T \subseteq Nat, T # {}
    PROVE  Min(T) \in T /\ \A g \in T : Min(T) <= g
  BY LeastNatural DEF Min

\* The last of some files.
LEMMA Greatest ==
    ASSUME NEW T, T \subseteq Nat, NEW m \in T, \A f \in T : m >= f
    PROVE  Source!Max(T) = m
  <1>1. \E x \in T : \A y \in T : x >= y
    OBVIOUS
  <1>2. Source!Max(T) \in T /\ \A y \in T : Source!Max(T) >= y
    BY <1>1 DEF Source!Max
  <1>3. Source!Max(T) \in Nat /\ m \in Nat /\ Source!Max(T) >= m /\ m >= Source!Max(T)
    BY <1>2
  <1> QED BY <1>3

\* What ranked makes of the definitions of a file.
LEMMA RankedDefinitions ==
    ASSUME NEW f \in Files, NEW defs \in Contents, NEW rank \in Nat
    PROVE  /\ DOMAIN ranked(f, defs, rank) = DOMAIN defs
           /\ QueryMap(ranked(f, defs, rank))
           /\ \A b \in DOMAIN defs :
                 /\ ranked(f, defs, rank)[b].from = f
                 /\ ranked(f, defs, rank)[b].sql = defs[b].sql
                 /\ ranked(f, defs, rank)[b].priority =
                        IF defs[b].priority # 0 THEN defs[b].priority ELSE 100 + rank
  <1>1. DOMAIN defs \subseteq Branches /\ \A b \in DOMAIN defs : defs[b] \in Definitions
    BY ConfigDirAssumption
  <1>2. \A b \in DOMAIN defs : defaultPriority(defs[b], rank) \in Int
    BY <1>1, ConfigDirAssumption DEF defaultPriority
  <1> QED BY <1>1, <1>2 DEF ranked, QueryMap, Query, defaultPriority

LEMMA MergedTyped ==
    ASSUME NEW q, NEW new, QueryMap(q), QueryMap(new)
    PROVE  QueryMap(merged(q, new)) /\ DOMAIN merged(q, new) = DOMAIN q \cup DOMAIN new
  BY DEF QueryMap, merged

\* And unranked, of the only file.
LEMMA UnrankedDefinitions ==
    ASSUME NEW f \in Files, NEW defs \in Contents
    PROVE  /\ DOMAIN unranked(f, defs) = DOMAIN defs
           /\ QueryMap(unranked(f, defs))
           /\ \A b \in DOMAIN defs :
                 /\ unranked(f, defs)[b].from = f
                 /\ unranked(f, defs)[b].sql = defs[b].sql
                 /\ unranked(f, defs)[b].priority = defs[b].priority
  <1>1. DOMAIN defs \subseteq Branches /\ \A b \in DOMAIN defs : defs[b] \in Definitions
    BY ConfigDirAssumption
  <1>2. \A b \in DOMAIN defs : defs[b].priority \in Int
    BY <1>1, ConfigDirAssumption
  <1> QED BY <1>1, <1>2 DEF unranked, QueryMap, Query

LEMMA ReadingTyped ==
    ASSUME NEW r \in State
    PROVE  /\ Reading(r) \in State /\ Reading(r) # Absent
           /\ Reading(r).kind = "yaml" <=> r.kind = "yaml"
           /\ r.kind = "yaml" => Reading(r) = r
           /\ r # Absent => Reading(r) = r
  BY DEF Reading, State, Absent, Broken

-----------------------------------------------------------------------------

\* Between loads nothing is listed, read or merged, and the state is typed.
LEMMA Cleared ==
    ASSUME confFiles = {}, todo = {}, configCount = 0, queries = <<>>, read = <<>>
    PROVE  /\ confFiles \subseteq Files /\ todo \subseteq confFiles
           /\ configCount = IF pathIs = "file" THEN 0
                            ELSE Cardinality({f \in confFiles \ todo : read[f].kind = "yaml"})
           /\ QueryMap(queries) /\ read \in [confFiles \ todo -> State]
           /\ InOrder /\ LastFileWins /\ IsMap
           /\ DOMAIN read = {}
  <1>1. DOMAIN read = {} /\ DOMAIN queries = {}
    OBVIOUS
  <1>2. {f \in confFiles \ todo : read[f].kind = "yaml"} = {}
    OBVIOUS
  <1>3. read \in [confFiles \ todo -> State]
    OBVIOUS
  <1>4. QueryMap(queries)
    BY <1>1 DEF QueryMap
  <1>5. InOrder /\ LastFileWins
    BY <1>1 DEF InOrder, LastFileWins, ReadOk
  <1>6. IsMap
    BY DEF IsMap
  <1> QED BY <1>1, <1>2, <1>3, <1>4, <1>5, <1>6, FS_EmptySet

LEMMA ConfigDirInvInit == Init => ConfigDirInv
  <1> SUFFICES ASSUME Init PROVE ConfigDirInv
    OBVIOUS
  <1>1. /\ confFiles = {} /\ todo = {} /\ configCount = 0 /\ queries = <<>> /\ read = <<>>
        /\ pc = "idle" /\ seen = Never /\ current = <<>>
    BY DEF Init
  <1>2. /\ confFiles \subseteq Files /\ todo \subseteq confFiles
        /\ configCount = IF pathIs = "file" THEN 0
                         ELSE Cardinality({f \in confFiles \ todo : read[f].kind = "yaml"})
        /\ QueryMap(queries) /\ read \in [confFiles \ todo -> State]
        /\ InOrder /\ LastFileWins /\ IsMap /\ DOMAIN read = {}
    BY <1>1, Cleared
  <1>3. TypeOK
    <2>1. QueryMap(current)
      BY <1>1, <1>2
    <2>2. pathIs \in {"dir", "file"} /\ dir \in [Files -> State] /\ running \in BOOLEAN
      BY DEF Init
    <2>3. edits \in 0..MaxEdits
      BY ConfigDirAssumption DEF Init
    <2>4. seen \in [Files -> SUBSET State]
      BY <1>1 DEF Never
    <2> QED BY <1>1, <1>2, <2>1, <2>2, <2>3, <2>4 DEF TypeOK
  <1>4. OnlyFile
    BY <1>1, <1>2 DEF OnlyFile, Init
  <1>5. Witnessed
    BY <1>1 DEF Witnessed
  <1> QED BY <1>2, <1>3, <1>4, <1>5 DEF ConfigDirInv

LEMMA Listed ==
    ASSUME ConfigDirInv, list PROVE ConfigDirInv'
  <1>1. TypeOK /\ OnlyFile
    BY DEF ConfigDirInv
  <1>2. /\ pathIs = "file" => dir[ConfigFile] # Absent
        /\ pc' = "loading"
        /\ confFiles' = {f \in Files : dir[f] # Absent} /\ todo' = confFiles'
        /\ configCount' = 0 /\ queries' = <<>> /\ read' = <<>>
        /\ seen' = [f \in Files |-> {dir[f]}]
        /\ UNCHANGED <<pathIs, dir, edits, running, current>>
    BY DEF list
  <1>3. DOMAIN read' = {} /\ DOMAIN queries' = {} /\ confFiles' \ todo' = {}
    BY <1>2
  <1>4. TypeOK'
    <2>1. {f \in confFiles' \ todo' : read'[f].kind = "yaml"} = {}
      BY <1>3
    <2>2. read' \in [confFiles' \ todo' -> State]
      BY <1>2, <1>3
    <2>3. seen' \in [Files -> SUBSET State]
      BY <1>1, <1>2 DEF TypeOK
    <2>4. QueryMap(queries') /\ QueryMap(current')
      BY <1>1, <1>2, <1>3 DEF TypeOK, QueryMap
    <2>5. /\ pathIs' \in {"dir", "file"} /\ dir' \in [Files -> State] /\ edits' \in 0..MaxEdits
          /\ running' \in BOOLEAN
      BY <1>1, <1>2 DEF TypeOK
    <2>6. configCount' = IF pathIs' = "file" THEN 0
                         ELSE Cardinality({f \in confFiles' \ todo' : read'[f].kind = "yaml"})
      BY <1>2, <2>1, FS_EmptySet
    <2> QED BY <1>2, <2>2, <2>3, <2>4, <2>5, <2>6 DEF TypeOK
  <1>5. InOrder' /\ LastFileWins'
    BY <1>3 DEF InOrder, LastFileWins, ReadOk
  <1>6. OnlyFile'
    BY <1>1, <1>2, <1>3, ConfigDirAssumption DEF OnlyFile
  <1>7. IsMap'
    BY <1>2 DEF IsMap
  <1>8. Witnessed'
    <2>1. \A f \in confFiles' : Reading(dir'[f]) \in seen'[f]
      BY <1>2 DEF Reading
    <2>2. \A f \in Files : f \notin confFiles' => Absent \in seen'[f]
      BY <1>2
    <2> QED BY <1>2, <1>3, <2>1, <2>2 DEF Witnessed
  <1> QED BY <1>4, <1>5, <1>6, <1>7, <1>8 DEF ConfigDirInv

\* What is known of a branch depends on the files that parsed alone.
LEMMA SameDefinitions ==
    ASSUME LastFileWins, ReadOk' = ReadOk, queries' = queries, pathIs' = pathIs,
           \A g \in ReadOk : read'[g] = read[g]
    PROVE  LastFileWins'
  <1>1. DOMAIN queries' = UNION {DOMAIN read'[g].queries : g \in ReadOk'}
    BY DEF LastFileWins
  <1>2. ASSUME NEW b \in DOMAIN queries
        PROVE  FromLastFile(b)' /\ RankedByFile(b)'
    <2>1. FromLastFile(b) /\ RankedByFile(b)
      BY DEF LastFileWins
    <2>2. FromLastFile(b)'
      BY <2>1 DEF FromLastFile
    <2>3. read'[queries[b].from] = read[queries[b].from]
      BY <2>1 DEF FromLastFile
    <2>4. {g \in ReadOk' : g <= queries'[b].from} = {g \in ReadOk : g <= queries[b].from}
      OBVIOUS
    <2>5. RankedByFile(b)'
      BY <2>1, <2>3, <2>4 DEF RankedByFile
    <2> QED BY <2>2, <2>5
  <1> QED BY <1>1, <1>2 DEF LastFileWins

\* Steps that read a file.
LEMMA StillTyped ==
    ASSUME TypeOK, UNCHANGED <<pathIs, dir, edits, pc, running, confFiles, current, seen>>,
           todo' \subseteq todo, QueryMap(queries'),
           read' \in [confFiles' \ todo' -> State],
           configCount' = IF pathIs' = "file" THEN 0
                          ELSE Cardinality({g \in confFiles' \ todo' : read'[g].kind = "yaml"})
    PROVE  TypeOK'
  <1>1. /\ pathIs' \in {"dir", "file"} /\ dir' \in [Files -> State] /\ edits' \in 0..MaxEdits
        /\ running' \in BOOLEAN /\ pc' \in {"idle", "loading", "exited"}
        /\ confFiles' \subseteq Files /\ todo' \subseteq confFiles'
        /\ seen' \in [Files -> SUBSET State] /\ QueryMap(current')
    BY DEF TypeOK
  <1> QED BY <1>1 DEF TypeOK

LEMMA Loaded ==
    ASSUME ConfigDirInv, loadFile PROVE ConfigDirInv'
  <1> USE DEF ConfigDirInv
  <1> DEFINE f == Min(todo)
             r == dir[f]
  <1>1. f \in todo /\ \A g \in todo : f <= g
    <2>1. todo # {} /\ todo \subseteq Nat
      BY ConfigDirAssumption DEF loadFile, TypeOK
    <2> QED BY <2>1, LeastFile
  <1>2. /\ todo' = todo \ {f}
        /\ read' = [g \in DOMAIN read \cup {f} |-> IF g = f THEN Reading(r) ELSE read[g]]
        /\ UNCHANGED <<pathIs, dir, edits, pc, running, confFiles, current, seen>>
        /\ pc = "loading" /\ pathIs = "dir"
        /\ r.kind = "yaml" => /\ configCount' = configCount + 1
                              /\ queries' = merged(queries, ranked(f, r.queries, configCount + 1))
        /\ r.kind # "yaml" => UNCHANGED <<configCount, queries>>
    BY DEF loadFile, readFile
  <1> HIDE DEF f, r
  <1>3. f \in Files /\ f \in Nat /\ todo \subseteq Nat /\ r \in State /\ f \in confFiles
    BY <1>1, ConfigDirAssumption DEF TypeOK, r
  <1>4. /\ f \notin DOMAIN read /\ DOMAIN read \subseteq Nat
        /\ \A g \in DOMAIN read : g < f
    BY <1>1, ConfigDirAssumption DEF TypeOK, InOrder
  <1>5. /\ DOMAIN read' = DOMAIN read \cup {f}
        /\ read'[f] = Reading(r)
        /\ \A g \in DOMAIN read : read'[g] = read[g]
    BY <1>2, <1>4
  <1>6. read' \in [confFiles' \ todo' -> State]
    <2>1. DOMAIN read = confFiles \ todo /\ \A g \in DOMAIN read : read[g] \in State
      BY DEF TypeOK
    <2>2. confFiles' \ todo' = DOMAIN read \cup {f}
      BY <1>2, <1>3, <2>1
    <2> QED BY <1>2, <1>3, <2>1, <2>2, ReadingTyped
  <1>7. ReadOk' = IF r.kind = "yaml" THEN ReadOk \cup {f} ELSE ReadOk
    BY <1>3, <1>4, <1>5, ReadingTyped DEF ReadOk
  <1>8. InOrder'
    <2> SUFFICES ASSUME NEW g \in DOMAIN read', NEW h \in todo' PROVE g < h
      BY DEF InOrder
    <2>1. h \in todo /\ h # f /\ h \in Nat
      BY <1>2, <1>3
    <2>2. CASE g = f
      BY <1>1, <1>3, <2>1, <2>2
    <2>3. CASE g \in DOMAIN read
      BY <2>1, <2>3 DEF InOrder
    <2> QED BY <1>5, <2>2, <2>3
  <1>9. OnlyFile' /\ Witnessed'
    <2>1. OnlyFile'
      BY <1>2 DEF OnlyFile
    <2>2. Reading(r) \in seen[f] /\ Reading(r) # Absent
      BY <1>2, <1>3, ReadingTyped DEF Witnessed, r
    <2>3. \A g \in DOMAIN read' : read'[g] \in seen'[g] /\ read'[g] # Absent
      BY <1>2, <1>5, <2>2 DEF Witnessed
    <2> QED BY <1>2, <2>1, <2>3 DEF Witnessed
  <1>10. /\ IsFiniteSet(ReadOk) /\ ReadOk \subseteq DOMAIN read
         /\ configCount = Cardinality(ReadOk) /\ configCount \in Nat
    <2>1. ReadOk = {g \in confFiles \ todo : read[g].kind = "yaml"}
      BY DEF ReadOk, TypeOK
    <2>2. ReadOk \in SUBSET Files
      BY <2>1 DEF TypeOK
    <2>3. IsFiniteSet(ReadOk)
      BY <2>2, FS_Subset, ConfigDirAssumption
    <2>4. configCount = Cardinality(ReadOk)
      BY <1>2, <2>1 DEF TypeOK
    <2> QED BY <2>3, <2>4, FS_CardinalityType DEF ReadOk
  <1>11. configCount' = Cardinality({g \in confFiles' \ todo' : read'[g].kind = "yaml"})
    <2>1. ReadOk' = {g \in confFiles' \ todo' : read'[g].kind = "yaml"}
      BY <1>6 DEF ReadOk
    <2>2. CASE r.kind = "yaml"
      <3>1. f \notin ReadOk
        BY <1>4, <1>10
      <3>2. Cardinality(ReadOk \cup {f}) = Cardinality(ReadOk) + 1
        BY <1>10, <3>1, FS_AddElement
      <3>3. ReadOk' = ReadOk \cup {f} /\ configCount' = configCount + 1
        BY <1>2, <1>7, <2>2
      <3>4. Cardinality(ReadOk') = configCount'
        BY <1>10, <3>2, <3>3
      <3> QED BY <2>1, <3>4
    <2>3. CASE r.kind # "yaml"
      BY <1>2, <1>7, <1>10, <2>1, <2>3
    <2> QED BY <2>2, <2>3
  <1>12. CASE r.kind # "yaml"
    <2>1. TypeOK'
      <3>1. QueryMap(queries') /\ todo' \subseteq todo /\ TypeOK
        BY <1>2, <1>12 DEF TypeOK
      <3> QED BY <1>2, <1>6, <1>11, <3>1, StillTyped
    <2>2. LastFileWins'
      <3>1. ReadOk' = ReadOk /\ queries' = queries /\ \A g \in ReadOk : read'[g] = read[g]
        BY <1>2, <1>5, <1>7, <1>10, <1>12
      <3> QED BY <1>2, <3>1, SameDefinitions
    <2>3. IsMap'
      BY <1>2, <1>12 DEF IsMap
    <2> QED BY <1>8, <1>9, <2>1, <2>2, <2>3
  <1>13. CASE r.kind = "yaml"
    <2> DEFINE new == ranked(f, r.queries, configCount + 1)
    <2>1. r.queries \in Contents
      BY <1>3, <1>13 DEF State, Absent, Broken
    <2>2. /\ DOMAIN new = DOMAIN r.queries
          /\ QueryMap(new)
          /\ \A b \in DOMAIN r.queries :
                /\ new[b].from = f
                /\ new[b].sql = r.queries[b].sql
                /\ new[b].priority = IF r.queries[b].priority # 0 THEN r.queries[b].priority
                                     ELSE 100 + (configCount + 1)
      BY <1>3, <1>10, <2>1, RankedDefinitions
    <2> HIDE DEF new
    <2>3. queries' = merged(queries, new)
      BY <1>2, <1>13 DEF new
    <2>4. QueryMap(queries') /\ DOMAIN queries' = DOMAIN queries \cup DOMAIN r.queries
      <3>1. QueryMap(queries) /\ QueryMap(new)
        BY <2>2 DEF TypeOK
      <3>2. /\ QueryMap(merged(queries, new))
            /\ DOMAIN merged(queries, new) = DOMAIN queries \cup DOMAIN new
        BY <3>1, MergedTyped
      <3> QED BY <2>2, <2>3, <3>2
    <2>5. /\ \A b \in DOMAIN r.queries : queries'[b] = new[b]
          /\ \A b \in DOMAIN queries \ DOMAIN r.queries : queries'[b] = queries[b]
      BY <2>2, <2>3 DEF merged
    <2>6. TypeOK'
      BY <1>2, <1>6, <1>11, <2>4, StillTyped
    <2>7. DOMAIN queries' = UNION {DOMAIN read'[g].queries : g \in ReadOk'}
      <3>1. \A g \in ReadOk : read'[g] = read[g]
        BY <1>5, <1>10
      <3>2. read'[f] = r
        BY <1>3, <1>5, <1>13, ReadingTyped
      <3> QED BY <1>5, <1>7, <1>13, <2>4, <3>1, <3>2 DEF LastFileWins
    <2>8. ASSUME NEW b \in DOMAIN r.queries
          PROVE  FromLastFile(b)' /\ RankedByFile(b)'
      <3>1. /\ queries'[b].from = f /\ read'[f] = r /\ f \in ReadOk'
            /\ queries'[b].sql = r.queries[b].sql
        BY <1>3, <1>5, <1>7, <1>13, <2>2, <2>5, ReadingTyped
      <3>2. \A g \in ReadOk' : g <= f /\ ~(g > f)
        BY <1>3, <1>4, <1>7, <1>10
      <3>3. {g \in ReadOk' : g <= f} = ReadOk'
        BY <3>2
      <3>4. Cardinality(ReadOk') = configCount + 1
        <4>1. f \notin ReadOk
          BY <1>4, <1>10
        <4>2. Cardinality(ReadOk \cup {f}) = Cardinality(ReadOk) + 1
          BY <1>10, <4>1, FS_AddElement
        <4> QED BY <1>7, <1>10, <1>13, <4>2
      <3>5. FromLastFile(b)'
        BY <3>1, <3>2 DEF FromLastFile
      <3>6. queries'[b].priority = IF r.queries[b].priority # 0 THEN r.queries[b].priority
                                   ELSE 100 + Cardinality({g \in ReadOk' : g <= f})
        BY <2>2, <2>5, <3>3, <3>4
      <3>7. RankedByFile(b)'
        BY <1>2, <3>1, <3>6 DEF RankedByFile
      <3> QED BY <3>5, <3>7
    <2>9. ASSUME NEW b \in DOMAIN queries \ DOMAIN r.queries
          PROVE  FromLastFile(b)' /\ RankedByFile(b)'
      <3>1. FromLastFile(b) /\ RankedByFile(b) /\ queries'[b] = queries[b]
        BY <2>5 DEF LastFileWins
      <3>2. queries[b].from \in ReadOk
        BY <3>1 DEF FromLastFile
      <3>3. /\ \A g \in ReadOk : read'[g] = read[g]
            /\ ReadOk' = ReadOk \cup {f} /\ read'[f] = r
        BY <1>3, <1>5, <1>7, <1>10, <1>13, ReadingTyped
      <3>4. FromLastFile(b)'
        BY <3>1, <3>3 DEF FromLastFile
      <3>5. queries[b].from < f /\ queries[b].from \in Nat
        BY <1>4, <1>10, <3>2
      <3>6. {g \in ReadOk' : g <= queries'[b].from} = {g \in ReadOk : g <= queries[b].from}
        BY <1>3, <3>1, <3>3, <3>5
      <3>7. read'[queries'[b].from] = read[queries[b].from] /\ pathIs' = pathIs
        BY <1>2, <3>1, <3>2, <3>3
      <3>8. RankedByFile(b)'
        BY <3>1, <3>6, <3>7 DEF RankedByFile
      <3> QED BY <3>4, <3>8
    <2>10. LastFileWins'
      BY <2>4, <2>7, <2>8, <2>9 DEF LastFileWins
    <2>11. IsMap'
      BY <2>3 DEF IsMap, merged
    <2> QED BY <1>8, <1>9, <2>6, <2>10, <2>11
  <1> QED BY <1>12, <1>13

LEMMA FileLoaded ==
    ASSUME ConfigDirInv, loadConfigFile PROVE ConfigDirInv'
  <1> DEFINE r == dir[ConfigFile]
  <1>1. TypeOK /\ OnlyFile /\ Witnessed /\ ConfigFile \in Files
    BY ConfigDirAssumption DEF ConfigDirInv
  <1>2. /\ pc = "loading" /\ pathIs = "file" /\ todo # {} /\ r.kind = "yaml"
        /\ todo' = todo \ {ConfigFile}
        /\ read' = [g \in DOMAIN read \cup {ConfigFile} |->
                       IF g = ConfigFile THEN Reading(r) ELSE read[g]]
        /\ UNCHANGED <<pathIs, dir, edits, pc, running, confFiles, current, seen>>
        /\ UNCHANGED configCount
        /\ queries' = unranked(ConfigFile, r.queries)
    BY DEF loadConfigFile, readFile
  <1>3. r \in State /\ Reading(r) = r /\ Reading(r) # Absent /\ r.queries \in Contents
    <2>1. r \in State
      BY <1>1 DEF TypeOK
    <2> QED BY <1>2, <2>1, ReadingTyped DEF State, Absent, Broken
  <1> HIDE DEF r
  <1>4. confFiles = {ConfigFile} /\ todo = {ConfigFile} /\ DOMAIN read = {}
    BY <1>1, <1>2 DEF OnlyFile, TypeOK
  <1>5. todo' = {} /\ DOMAIN read' = {ConfigFile} /\ read'[ConfigFile] = r
    BY <1>2, <1>3, <1>4
  <1>6. ReadOk' = {ConfigFile}
    BY <1>2, <1>5 DEF ReadOk
  <1>7. /\ DOMAIN queries' = DOMAIN r.queries
        /\ QueryMap(queries')
        /\ \A b \in DOMAIN r.queries : /\ queries'[b].from = ConfigFile
                                        /\ queries'[b].sql = r.queries[b].sql
                                        /\ queries'[b].priority = r.queries[b].priority
    BY <1>1, <1>2, <1>3, UnrankedDefinitions
  <1>8. TypeOK'
    <2>1. read' \in [confFiles' \ todo' -> State]
      BY <1>2, <1>3, <1>4, <1>5
    <2>2. configCount' = 0 /\ pathIs' = "file"
      BY <1>1, <1>2 DEF TypeOK
    <2> QED BY <1>1, <1>2, <1>7, <2>1, <2>2, StillTyped
  <1>9. InOrder'
    BY <1>5 DEF InOrder
  <1>10. LastFileWins'
    <2>1. DOMAIN queries' = UNION {DOMAIN read'[g].queries : g \in ReadOk'}
      BY <1>5, <1>6, <1>7
    <2>2. ASSUME NEW b \in DOMAIN queries'
          PROVE  FromLastFile(b)' /\ RankedByFile(b)'
      <3>1. \A g \in ReadOk' : ~(g > ConfigFile)
        BY <1>1, <1>6, ConfigDirAssumption
      <3>2. FromLastFile(b)'
        BY <1>5, <1>6, <1>7, <3>1 DEF FromLastFile
      <3>3. RankedByFile(b)'
        BY <1>2, <1>5, <1>7 DEF RankedByFile
      <3> QED BY <3>2, <3>3
    <2> QED BY <2>1, <2>2 DEF LastFileWins
  <1>11. OnlyFile'
    BY <1>1, <1>2, <1>5 DEF OnlyFile
  <1>12. IsMap'
    BY <1>2, <1>7 DEF IsMap, unranked
  <1>13. Witnessed'
    <2>1. read'[ConfigFile] \in seen'[ConfigFile] /\ read'[ConfigFile] # Absent
      BY <1>1, <1>2, <1>3, <1>4, <1>5 DEF Witnessed, r
    <2> QED BY <1>1, <1>2, <1>5, <2>1 DEF Witnessed
  <1> QED BY <1>8, <1>9, <1>10, <1>11, <1>12, <1>13 DEF ConfigDirInv

\* Whatever a load ends with, its locals are gone.
LEMMA Returned ==
    ASSUME ConfigDirInv, returns, running' \in BOOLEAN, pc' \in {"idle", "exited"},
           current' = current \/ current' = queries
    PROVE  ConfigDirInv'
  <1>1. /\ confFiles' = {} /\ todo' = {} /\ configCount' = 0 /\ queries' = <<>> /\ read' = <<>>
        /\ seen' = Never
        /\ UNCHANGED <<pathIs, dir, edits>>
    BY DEF returns
  <1>2. /\ confFiles' \subseteq Files /\ todo' \subseteq confFiles'
        /\ configCount' = IF pathIs' = "file" THEN 0
                          ELSE Cardinality({f \in confFiles' \ todo' : read'[f].kind = "yaml"})
        /\ QueryMap(queries') /\ read' \in [confFiles' \ todo' -> State]
        /\ InOrder' /\ LastFileWins' /\ IsMap' /\ DOMAIN read' = {}
    <2>1. DOMAIN read' = {} /\ DOMAIN queries' = {}
      BY <1>1
    <2>2. {f \in confFiles' \ todo' : read'[f].kind = "yaml"} = {}
      BY <1>1
    <2>3. read' \in [confFiles' \ todo' -> State]
      BY <1>1
    <2>4. QueryMap(queries')
      BY <2>1 DEF QueryMap
    <2>5. InOrder' /\ LastFileWins'
      BY <2>1 DEF InOrder, LastFileWins, ReadOk
    <2>6. IsMap'
      BY <1>1 DEF IsMap
    <2> QED BY <1>1, <2>1, <2>2, <2>3, <2>4, <2>5, <2>6, FS_EmptySet
  <1>3. TypeOK'
    <2>1. QueryMap(current')
      BY DEF ConfigDirInv, TypeOK
    <2>2. pathIs' \in {"dir", "file"} /\ dir' \in [Files -> State] /\ edits' \in 0..MaxEdits
      BY <1>1 DEF ConfigDirInv, TypeOK
    <2>3. seen' \in [Files -> SUBSET State]
      BY <1>1 DEF Never
    <2> QED BY <1>2, <2>1, <2>2, <2>3 DEF TypeOK
  <1>4. OnlyFile'
    BY <1>1, <1>2 DEF ConfigDirInv, OnlyFile
  <1>5. Witnessed'
    BY <1>1 DEF Witnessed
  <1> QED BY <1>2, <1>3, <1>4, <1>5 DEF ConfigDirInv

LEMMA Edited ==
    ASSUME ConfigDirInv, edit PROVE ConfigDirInv'
  <1>1. TypeOK /\ InOrder /\ LastFileWins /\ OnlyFile /\ IsMap /\ Witnessed
    BY DEF ConfigDirInv
  <1>2. PICK f \in Files, r \in State :
            /\ pathIs = "file" => f = ConfigFile
            /\ dir' = [dir EXCEPT ![f] = r]
            /\ seen' = IF pc = "loading" THEN [seen EXCEPT ![f] = @ \cup {Reading(r)}] ELSE seen
    BY DEF edit
  <1>3. /\ edits' \in 0..MaxEdits
        /\ UNCHANGED <<pathIs, running, pc, confFiles, todo, configCount, queries, read, current>>
    BY <1>1, ConfigDirAssumption DEF edit, locals, TypeOK
  <1>4. dir' \in [Files -> State] /\ dir'[f] = r /\ \A g \in Files : g # f => dir'[g] = dir[g]
    BY <1>1, <1>2 DEF TypeOK
  <1>5. /\ seen' \in [Files -> SUBSET State]
        /\ \A g \in Files : seen[g] \subseteq seen'[g]
        /\ pc = "loading" => Reading(r) \in seen'[f]
    BY <1>1, <1>2, ReadingTyped DEF TypeOK
  <1>6. TypeOK'
    <2>1. {g \in confFiles' \ todo' : read'[g].kind = "yaml"} = {g \in confFiles \ todo : read[g].kind = "yaml"}
      BY <1>3
    <2>2. configCount' = IF pathIs' = "file" THEN 0
                         ELSE Cardinality({g \in confFiles' \ todo' : read'[g].kind = "yaml"})
      BY <1>1, <1>3, <2>1 DEF TypeOK
    <2>3. /\ pathIs' \in {"dir", "file"} /\ running' \in BOOLEAN /\ pc' \in {"idle", "loading", "exited"}
          /\ confFiles' \subseteq Files /\ todo' \subseteq confFiles'
          /\ QueryMap(queries') /\ QueryMap(current')
          /\ read' \in [confFiles' \ todo' -> State]
      BY <1>1, <1>3 DEF TypeOK
    <2> QED BY <1>3, <1>4, <1>5, <2>2, <2>3 DEF TypeOK
  <1>7. InOrder' /\ IsMap'
    BY <1>1, <1>3 DEF InOrder, IsMap
  <1>8. LastFileWins'
    <2>1. ReadOk' = ReadOk
      BY <1>3 DEF ReadOk
    <2> QED BY <1>1, <1>3, <2>1, SameDefinitions
  <1>9. OnlyFile'
    BY <1>1, <1>2, <1>3, <1>4 DEF OnlyFile
  <1>10. Witnessed'
    <2>1. CASE pc = "loading"
      <3>1. DOMAIN read \subseteq Files /\ confFiles \subseteq Files
        BY <1>1 DEF TypeOK
      <3>2. \A g \in confFiles' : Reading(dir'[g]) \in seen'[g]
        BY <1>1, <1>3, <1>4, <1>5, <2>1, <3>1 DEF Witnessed
      <3>3. \A g \in Files : g \notin confFiles' => Absent \in seen'[g]
        BY <1>1, <1>3, <1>5, <2>1 DEF Witnessed
      <3>4. \A g \in DOMAIN read' : read'[g] \in seen'[g] /\ read'[g] # Absent
        BY <1>1, <1>3, <1>5, <2>1, <3>1 DEF Witnessed
      <3> QED BY <1>3, <2>1, <3>2, <3>3, <3>4 DEF Witnessed
    <2>2. CASE pc # "loading"
      BY <1>1, <1>2, <1>3, <2>2 DEF Witnessed
    <2> QED BY <2>1, <2>2
  <1> QED BY <1>6, <1>7, <1>8, <1>9, <1>10 DEF ConfigDirInv

LEMMA ConfigDirInvNext == ConfigDirInv /\ [Next]_vars => ConfigDirInv'
  <1> SUFFICES ASSUME ConfigDirInv, [Next]_vars PROVE ConfigDirInv'
    OBVIOUS
  <1>1. CASE edit
    BY <1>1, Edited
  <1>2. CASE list
    BY <1>2, Listed
  <1>3. CASE loadFile
    BY <1>3, Loaded
  <1>4. CASE loadConfigFile
    BY <1>4, FileLoaded
  <1>5. CASE listFails \/ loadEnds
    <2>1. /\ returns /\ pc' \in {"idle", "exited"}
          /\ running' = running \/ running' = TRUE
          /\ current' = current \/ current' = queries
      <3>1. CASE listFails \/ loadConfigFileFails \/ nothingLoaded \/ conflictAtStart \/ conflictAtReload
        BY <3>1 DEF listFails, loadConfigFileFails, nothingLoaded, conflictAtStart, conflictAtReload, loadFails
      <3>2. CASE start \/ Reload
        BY <3>2 DEF start, Reload, installed
      <3> QED BY <1>5, <3>1, <3>2 DEF loadEnds
    <2>2. running' \in BOOLEAN
      BY <2>1 DEF ConfigDirInv, TypeOK
    <2> QED BY <2>1, <2>2, Returned
  <1>6. CASE UNCHANGED vars
    <2>1. UNCHANGED <<pathIs, dir, edits, running, pc, confFiles, todo, configCount, queries, read, current, seen>>
      BY <1>6 DEF vars, locals
    <2>2. TypeOK'
      BY <2>1 DEF ConfigDirInv, TypeOK
    <2>3. ReadOk' = ReadOk
      BY <2>1 DEF ReadOk
    <2>4. LastFileWins'
      BY <2>1, <2>3, SameDefinitions DEF ConfigDirInv
    <2>5. InOrder' /\ OnlyFile' /\ IsMap' /\ Witnessed'
      BY <2>1 DEF ConfigDirInv, InOrder, OnlyFile, IsMap, Witnessed
    <2> QED BY <2>2, <2>4, <2>5 DEF ConfigDirInv
  <1> QED BY <1>1, <1>2, <1>3, <1>4, <1>5, <1>6 DEF Next

(* The inductive invariant of a load (config.go:242-311).                  *)
THEOREM ConfigDirInvariant == Spec => []ConfigDirInv
  BY ConfigDirInvInit, ConfigDirInvNext, PTL DEF Spec

(* Every state is well-typed, and configCount counts the files that parsed *)
(* (config.go:268-287).                                                    *)
THEOREM ConfigDirTyped == Spec => []TypeOK
  <1>1. ConfigDirInv => TypeOK
    BY DEF ConfigDirInv
  <1> QED BY <1>1, ConfigDirInvariant, PTL

(* Every branch is as the last file read that defines it has it            *)
(* (config.go:265-289).                                                    *)
THEOREM LastWins == Spec => []LastFileWins
  <1>1. ConfigDirInv => LastFileWins
    BY DEF ConfigDirInv
  <1> QED BY <1>1, ConfigDirInvariant, PTL

-----------------------------------------------------------------------------
(* The mapping to ConfigSource: a load that is over has read a view, what  *)
(* each file was at some moment, and its queries are the merge of that.    *)

View == [f \in Files |-> IF f \in DOMAIN read THEN read[f] ELSE Absent]

LEMMA LoadingSeen == ConfigDirInv => (Source!Loading <=> pc = "loading")
  <1> SUFFICES ASSUME ConfigDirInv PROVE Source!Loading <=> pc = "loading"
    OBVIOUS
  <1>1. ASSUME pc = "loading" PROVE Source!Loading
    BY <1>1 DEF ConfigDirInv, Witnessed, Source!Loading
  <1>2. ASSUME pc # "loading" PROVE ~Source!Loading
    BY <1>2, ConfigDirAssumption DEF ConfigDirInv, Witnessed, Never, Source!Loading
  <1> QED BY <1>1, <1>2

\* Views are made of what was seen.
LEMMA Viewed ==
    ASSUME TypeOK, NEW c, c = [f \in Files |-> c[f]], \A f \in Files : c[f] \in seen[f]
    PROVE  c \in Source!Views
  <1>1. \A f \in Files : c[f] \in UNION {seen[g] : g \in Files}
    OBVIOUS
  <1>2. c \in [Files -> UNION {seen[g] : g \in Files}]
    BY <1>1
  <1> QED BY <1>2 DEF Source!Views

LEMMA ViewRead ==
    ASSUME ConfigDirInv, pc = "loading", todo = {}
    PROVE  /\ View \in Source!Views
           /\ DOMAIN read = confFiles
           /\ Source!Merge(View) = queries
  <1>1. TypeOK /\ LastFileWins /\ IsMap /\ Witnessed
    BY DEF ConfigDirInv
  <1>2. DOMAIN read = confFiles /\ confFiles \subseteq Files
    BY <1>1 DEF TypeOK
  <1>3. View \in Source!Views
    <2>1. \A f \in Files : View[f] \in seen[f]
      BY <1>1, <1>2 DEF View, Witnessed
    <2>2. View = [f \in Files |-> View[f]]
      BY DEF View
    <2> QED BY <1>1, <2>1, <2>2, Viewed
  <1>4. /\ Source!Parsed(View) = ReadOk
        /\ \A f \in ReadOk : View[f] = read[f]
    BY <1>2 DEF Source!Parsed, View, ReadOk, Absent
  <1>5. UNION {DOMAIN View[f].queries : f \in Source!Parsed(View)} = DOMAIN queries
    BY <1>1, <1>4 DEF LastFileWins
  <1>6. ASSUME NEW f PROVE Source!Rank(View, f) = Cardinality({g \in ReadOk : g <= f})
    <2>1. {g \in Source!Parsed(View) : g <= f} = {g \in ReadOk : g <= f}
      BY <1>4
    <2> QED BY <2>1 DEF Source!Rank, Source!Cardinality, Cardinality
  <1>7. ASSUME NEW b \in DOMAIN queries
        PROVE  Source!QueryOf(View, b, Source!Max(Source!DefinedIn(View, b))) = queries[b]
    <2> DEFINE q == queries[b]
    <2>1. FromLastFile(b) /\ RankedByFile(b) /\ q \in Query
      BY <1>1 DEF LastFileWins, TypeOK, QueryMap
    <2>2. /\ q.from \in ReadOk /\ b \in DOMAIN read[q.from].queries
          /\ \A f \in ReadOk : f > q.from => b \notin DOMAIN read[f].queries
          /\ q.sql = read[q.from].queries[b].sql
      BY <2>1 DEF FromLastFile
    <2>3. ReadOk \subseteq Nat
      BY <1>2, ConfigDirAssumption DEF ReadOk
    <2>4. Source!DefinedIn(View, b) = {f \in ReadOk : b \in DOMAIN read[f].queries}
      BY <1>4 DEF Source!DefinedIn
    <2>5. Source!Max(Source!DefinedIn(View, b)) = q.from
      <3>1. /\ q.from \in Source!DefinedIn(View, b)
            /\ Source!DefinedIn(View, b) \subseteq Nat
            /\ \A f \in Source!DefinedIn(View, b) : q.from >= f
        <4>1. q.from \in Nat /\ q.from \in Source!DefinedIn(View, b)
          BY <2>2, <2>3, <2>4
        <4>2. Source!DefinedIn(View, b) \subseteq Nat
          BY <2>3, <2>4
        <4>3. ASSUME NEW f \in Source!DefinedIn(View, b) PROVE q.from >= f
          <5>1. f \in Nat /\ ~(f > q.from)
            BY <2>2, <2>3, <2>4
          <5> QED BY <4>1, <5>1
        <4> QED BY <4>1, <4>2, <4>3
      <3> QED BY <3>1, Greatest
    <2>6. Source!Rank(View, q.from) = Cardinality({f \in ReadOk : f <= q.from})
      BY <1>6
    <2>7. q.priority = IF View[q.from].queries[b].priority # 0 \/ pathIs = "file"
                       THEN View[q.from].queries[b].priority
                       ELSE 100 + Source!Rank(View, q.from)
      BY <1>4, <2>1, <2>2, <2>6 DEF RankedByFile
    <2>8. q = [from |-> q.from, sql |-> q.sql, priority |-> q.priority]
      BY <2>1 DEF Query
    <2>9. q.sql = View[q.from].queries[b].sql
      BY <1>4, <2>2
    <2> HIDE DEF q
    <2>10. Source!QueryOf(View, b, q.from) = q
      BY <2>7, <2>8, <2>9 DEF Source!QueryOf
    <2> QED BY <2>5, <2>10 DEF q
  <1>8. Source!Merge(View) = [b \in DOMAIN queries |-> queries[b]]
    BY <1>5, <1>7 DEF Source!Merge
  <1> QED BY <1>1, <1>2, <1>3, <1>8 DEF IsMap

\* What validateConstLabelConflicts and LoadConfig let pass is acceptable.
LEMMA Installed ==
    ASSUME ConfigDirInv, loaded, validateConstLabelConflicts(queries)
    PROVE  Source!Acceptable(View)
  <1>1. /\ View \in Source!Views /\ DOMAIN read = confFiles /\ Source!Merge(View) = queries
        /\ pc = "loading" /\ ~noQueries
    BY ViewRead DEF loaded
  <1>2. DOMAIN Source!Merge(View) \cap Conflicting = {}
    BY <1>1 DEF validateConstLabelConflicts
  <1>3. CASE pathIs = "file"
    <2>1. ConfigFile \in DOMAIN read /\ read[ConfigFile].kind = "yaml" /\ ConfigFile \in Files
      BY <1>1, <1>3, ConfigDirAssumption DEF ConfigDirInv, OnlyFile
    <2>2. View[ConfigFile].kind = "yaml"
      BY <2>1 DEF View
    <2> QED BY <1>2, <1>3, <2>2 DEF Source!Acceptable
  <1>4. CASE pathIs # "file"
    <2>1. pathIs = "dir"
      BY <1>4 DEF ConfigDirInv, TypeOK
    <2>2. ASSUME NEW f \in Files, View[f] # Source!Absent PROVE DOMAIN queries # {}
      <3>1. f \in confFiles
        BY <1>1, <2>2 DEF View, Absent, Source!Absent
      <3> QED BY <1>1, <2>1, <3>1 DEF noQueries
    <2>3. Source!HasQueries(View)
      BY <1>1, <2>2 DEF Source!HasQueries
    <2> QED BY <1>2, <1>4, <2>3 DEF Source!Acceptable
  <1> QED BY <1>3, <1>4

\* What they refuse is not.
LEMMA Refused ==
    ASSUME ConfigDirInv,
           loadConfigFileFails \/ nothingLoaded \/ conflictAtStart \/ conflictAtReload
    PROVE  \E c \in Source!Views : ~Source!Acceptable(c)
  <1>1. CASE loadConfigFileFails
    <2> DEFINE c == [f \in Files |-> IF f = ConfigFile THEN Reading(dir[f]) ELSE Absent]
    <2>1. /\ TypeOK /\ OnlyFile /\ Witnessed /\ ConfigFile \in Files
          /\ pc = "loading" /\ pathIs = "file" /\ dir[ConfigFile].kind # "yaml"
      BY <1>1, ConfigDirAssumption DEF ConfigDirInv, loadConfigFileFails
    <2>2. confFiles = {ConfigFile}
      BY <2>1 DEF OnlyFile
    <2>3. \A f \in Files : c[f] \in seen[f]
      BY <2>1, <2>2 DEF Witnessed
    <2>4. c[ConfigFile].kind # "yaml"
      <3>1. dir[ConfigFile] \in State
        BY <2>1 DEF TypeOK
      <3> QED BY <2>1, <3>1, ReadingTyped
    <2>5. c = [f \in Files |-> c[f]]
      OBVIOUS
    <2> HIDE DEF c
    <2>6. c \in Source!Views
      BY <2>1, <2>3, <2>5, Viewed
    <2>7. ~Source!Acceptable(c)
      BY <2>1, <2>4 DEF Source!Acceptable
    <2> QED BY <2>6, <2>7
  <1>2. CASE nothingLoaded
    <2>1. /\ View \in Source!Views /\ DOMAIN read = confFiles /\ Source!Merge(View) = queries
          /\ pathIs = "dir" /\ confFiles # {} /\ DOMAIN queries = {} /\ pc = "loading"
      BY <1>2, ViewRead DEF nothingLoaded, noQueries
    <2>2. PICK f \in confFiles : TRUE
      BY <2>1
    <2>3. f \in Files /\ View[f] # Source!Absent
      BY <2>1, <2>2 DEF ConfigDirInv, TypeOK, Witnessed, View, Absent, Source!Absent
    <2>4. ~Source!HasQueries(View)
      BY <2>1, <2>3 DEF Source!HasQueries
    <2> QED BY <2>1, <2>4 DEF Source!Acceptable
  <1>3. CASE conflictAtStart \/ conflictAtReload
    <2>1. /\ View \in Source!Views /\ Source!Merge(View) = queries
          /\ DOMAIN queries \cap Conflicting # {}
      BY <1>3, ViewRead DEF conflictAtStart, conflictAtReload, loaded, reloadRefuses, validateConstLabelConflicts
    <2> QED BY <2>1 DEF Source!Acceptable
  <1> QED BY <1>1, <1>2, <1>3

LEMMA SourceInit == Init => Source!Init
  <1>1. Source!State = State
    BY DEF State, Source!State, Absent, Source!Absent, Broken, Source!Broken
  <1> QED BY <1>1 DEF Init, Source!Init, Never

LEMMA SourceNext == ConfigDirInv /\ [Next]_vars => [Source!Next]_Source!vars
  <1> SUFFICES ASSUME ConfigDirInv, [Next]_vars PROVE [Source!Next]_Source!vars
    OBVIOUS
  <1>1. CASE edit
    <2>1. PICK f \in Files, r \in State :
              /\ dir' = [dir EXCEPT ![f] = r]
              /\ seen' = IF pc = "loading" THEN [seen EXCEPT ![f] = @ \cup {Reading(r)}] ELSE seen
      BY <1>1 DEF edit
    <2>2. UNCHANGED <<pathIs, current>>
      BY <1>1 DEF edit
    <2>3. dir'[f] = r /\ r \in Source!State
      BY <2>1 DEF ConfigDirInv, TypeOK, State, Source!State, Absent, Source!Absent, Broken, Source!Broken
    <2>4. Source!Reading(dir'[f]) = Reading(r)
      BY <2>3 DEF Source!Reading, Reading, Absent, Source!Absent, Broken, Source!Broken
    <2>5. seen' = IF Source!Loading THEN [seen EXCEPT ![f] = @ \cup {Source!Reading(dir'[f])}] ELSE seen
      BY <2>1, <2>4, LoadingSeen
    <2>6. Source!Edit(f)
      BY <2>1, <2>2, <2>3, <2>5 DEF Source!Edit
    <2> QED BY <2>6 DEF Source!Next
  <1>2. CASE list
    BY <1>2, LoadingSeen DEF list, Source!Begin, Source!Next
  <1>3. CASE listFails
    BY <1>3 DEF listFails, loadFails, returns, ConfigDirInv, Witnessed, Source!vars
  <1>4. CASE loadFile
    BY <1>4 DEF loadFile, readFile, Source!vars
  <1>5. CASE loadConfigFile
    BY <1>5 DEF loadConfigFile, readFile, Source!vars
  <1>6. CASE loadConfigFileFails \/ nothingLoaded \/ conflictAtStart \/ conflictAtReload
    <2>1. pc = "loading" /\ returns /\ UNCHANGED current
      BY <1>6 DEF loadConfigFileFails, nothingLoaded, conflictAtStart, conflictAtReload, loaded, loadFails
    <2>2. Source!End
      BY <2>1, LoadingSeen DEF Source!End, returns, Never
    <2>3. Source!Refuse
      BY <1>6, <2>1, <2>2, Refused DEF Source!Refuse
    <2> QED BY <2>3 DEF Source!Next
  <1>7. CASE start \/ Reload
    <2>1. /\ loaded /\ validateConstLabelConflicts(queries) /\ returns /\ current' = queries
      BY <1>7 DEF start, Reload, reloadRefuses, installed
    <2>2. /\ View \in Source!Views /\ Source!Merge(View) = queries /\ pc = "loading"
      BY <2>1, ViewRead DEF loaded
    <2>3. Source!Acceptable(View)
      BY <2>1, Installed
    <2>4. Source!End
      BY <2>1, <2>2, LoadingSeen DEF Source!End, returns, Never
    <2>5. Source!Install
      BY <2>1, <2>2, <2>3, <2>4 DEF Source!Install
    <2> QED BY <2>5 DEF Source!Next
  <1>8. CASE UNCHANGED vars
    BY <1>8 DEF vars, Source!vars
  <1> QED BY <1>1, <1>2, <1>3, <1>4, <1>5, <1>6, <1>7, <1>8 DEF Next, loadEnds

(* Whatever the files and however they are edited during loads, each load  *)
(* comes to one step of ConfigSource: the queries become the merge of what *)
(* the files were at moments of that load, if that is acceptable, or stay  *)
(* (config.go:242-311, exporter.go:543-569, main.go:131-149).              *)
THEOREM FollowsSource == Spec => ImplementsConfigSource
  <1>1. ConfigDirInv /\ [Next]_vars => [Source!Next]_Source!vars
    BY SourceNext
  <1> QED BY <1>1, SourceInit, ConfigDirInvariant, PTL DEF Spec, ImplementsConfigSource, Source!Spec
=============================================================================
