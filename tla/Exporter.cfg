CONSTANTS
    Scrapers = {s1, s2}
    Reloaders = {r1}
    Readers = {h1}
    Databases = {"pg", "app", "tmp"}
    Primary = "pg"
    Selected = {"pg", "app"}
    MaxFile = 3
    Bad = {2}
SYMMETRY MCSymmetry
SPECIFICATION Spec
INVARIANT MapsUnshared
INVARIANT OneConfigPerScrape
INVARIANT ServersAgree
INVARIANT ServersFollowDatabases
PROPERTY ImplementsRegister
