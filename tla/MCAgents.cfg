SPECIFICATION Spec
CONSTANTS
    Paths <- MCPaths
    DafnyPaths <- MCPaths
    DomainFiles <- MCDomainFiles
    RefinementFiles <- MCRefinementFiles
    Kinds <- MCKinds
    Contents = {a, b}
    Absent = Absent
    Torn = Torn
    MaxVersion = 3
    MaxCrashes = 2
    MAX_LSP_ITERATIONS = 2
INVARIANTS
    TypeOK
    OneStalePerCrash
    LaterIsVerified
PROPERTIES
    VersionsNameContents
    StageEnds
    FollowsStages
CHECK_DEADLOCK FALSE
