SPECIFICATION Spec
CONSTANTS
    s1 = s1
    s2 = s2
    Suites <- MCSuites
    MaxRuns = 2
    MaxResults = 3
    MinMust = 667
    Parts = 10
INVARIANTS
    SummariesAreExact
    FullScoreIsEarned
    GateHoldsEveryRun
PROPERTY
    ScoreFollowsResults
