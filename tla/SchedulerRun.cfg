\* Six tests that share one slot.
CONSTANTS
    t1 = t1
    t2 = t2
    t3 = t3
    t4 = t4
    t5 = t5
    t6 = t6
    x = x
    h1 = h1
    Tests <- MCTests
    TestIds = {t1, t2, t3, t4, t5, t6, x}
    Protos = {h1}
    Requires <- MCRequires
    RunsOver <- MCRunsOver
    Rank <- MCRank
    Concurrency = 1
SPECIFICATION Spec
INVARIANTS
    RanAfterRequired
    NeverStuck
PROPERTIES
    KeepsPromise
    RunReturns
