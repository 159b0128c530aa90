SPECIFICATION QuerySpec
CONSTANTS
    Words <- MCWords
    Prefix <- MCPrefix
    Entries <- MCEntries
    Scalars <- MCScalars
    BadUsage = "BAD"
    NotInLabel <- MCNotInLabel
    NotInMetric <- MCNotInMetric
    NotFinite <- MCNotFinite
    ConstLabelSets <- MCConstLabels
    MaxColumns = 3
CHECK_DEADLOCK FALSE
INVARIANT DescriptorsSound
INVARIANT AcceptsExactly
