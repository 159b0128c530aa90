CONSTANTS
    NCollectors = 3
    NPred = 2
SPECIFICATION FairSpec
INVARIANT NeverHoldsAndWaits
PROPERTY DownMeansUnreachable
PROPERTY ScrapesEnd
PROPERTY ProbesEnd
