\* Conditional requests for responses that serve ranges.
CONSTANTS
    t1 = t1
    t2 = t2
    t3 = t3
    t4 = t4
    t5 = t5
    x = x
    Nil = Nil
    Ids = {t1, t2, t3, t4, t5, x}
    Definitions <- MCDefinitions
    Files <- MCParts
    Subject = t5
    Now = "d2"
    MaxLog = 3
    MaxBodySize = 2
SPECIFICATION ExchangeSpec
INVARIANTS
    ConditionsAreIgnored
