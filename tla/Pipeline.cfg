SPECIFICATION FairSpec
CONSTANT MaxIterations = 12
INVARIANTS
    TypeOK
    NoStaleVerdict
    LosesOneStage
PROPERTIES
    StepsRunOut
    FollowsStages
    Terminates
