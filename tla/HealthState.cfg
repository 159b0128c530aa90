CONSTANTS
    Readers = {}
    Targets = {"down", "starting", "primary", "replica"}
SPECIFICATION FairSpec
PROPERTY Convergence
PROPERTY RecoversWhileScrapesFail
