CONSTANTS
    Query <- MCQuery
    Configs <- MCConfigs
    Skip <- MCSkip
    Fatal <- MCFatal
    Priority <- MCPriority
    MinVersion <- MCMinVersion
    MaxVersion <- MCMaxVersion
    Tags <- MCTags
    Names <- MCNames
    ServerTags <- MCServerTags
    Modes <- MCModes
    Targets <- MCTargets
SPECIFICATION FairSpec
INVARIANT PlanIsCurrent
INVARIANT FatalGuards
INVARIANT StatsMatchPlan
PROPERTY RoleFollowed
