SPECIFICATION Spec
CONSTANTS
    NCol = 2
    Bucket <- MCBucket
    Scale <- MCScale
    Default <- MCDefault
    MaxFloat <- MCMaxFloat
    LabelTuples <- MCLabels
    Data <- MCData
    MaxRows = 2
INVARIANT BucketsCount
INVARIANT SumOfObservations
INVARIANT WholeHistograms
INVARIANT GroupsNeverMixed
INVARIANT NoInvalidObservation
