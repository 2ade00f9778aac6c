\* Every graph of requirements over three tests, some over four, entries that
\* are refused, and every set of matching tests; and tests of every kind from
\* their file to their verdict.
CONSTANTS
    t1 = t1
    t2 = t2
    t3 = t3
    t4 = t4
    t5 = t5
    x = x
    Nil = Nil
    Ids = {t1, t2, t3, t4, t5, x}
    Definitions <- MCDefinitions
    Files <- MCFiles
    Subject = t5
    Now = "d2"
    MaxLog = 3
    MaxBodySize = 2
SPECIFICATION ExchangeSpec
INVARIANTS
    AcceptedIsSound
    RefusedIsCyclic
    SelectionIsClosure
    AnsweredAsMeant
    AnsweredAsAsked
    VerdictIsEarned
    VerdictStands
    AcceptedIsPlayable
    StepsArriveInOrder
PROPERTIES
    ExchangeEnds
