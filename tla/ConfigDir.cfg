SPECIFICATION FairSpec
CONSTANTS
    Files = {1, 2, 3}
    ConfigFile = 2
    Branches <- MCBranches
    Conflicting <- MCConflicting
    Definitions <- MCDefinitions
    Contents <- MCContents
    MaxEdits = 2
    b1 = b1
    b2 = b2
    conflicting = conflicting
CHECK_DEADLOCK FALSE
INVARIANT LastFileWins
PROPERTY ImplementsConfigSource
PROPERTY FilesTakeEffect
