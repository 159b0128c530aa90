CONSTANTS
    Scrapers = {s1}
    Reloaders = {r1}
    Readers = {h1}
    Databases = {"pg"}
    Primary = "pg"
    Selected = {"pg"}
    MaxFile = 3
    Bad = {2}
SPECIFICATION FairSpec
PROPERTY EveryRequestEnds
PROPERTY NoLostReload
