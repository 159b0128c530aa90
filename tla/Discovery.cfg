CONSTANTS
    a = a
    b = b
    c = c
    x = x
    none = none
    NoName = none
    Names <- MCNames
    Urls <- MCUrls
    Currents <- MCStable
    include = {}
    exclude <- MCExclude
    MaxChanges = 3
SPECIFICATION Spec
INVARIANT EveryDatabaseOnce
INVARIANT NeverScrapesRemoved
INVARIANT NoPoolForgotten
PROPERTY ImplementsFollower
