CONSTANTS
    a = a
    b = b
    g1 = g1
    g2 = g2
    r1 = r1
    k1 = k1
    Unlocked = Unlocked
    MaxAccidents = 1
    CorrectedPortfolios = {a, b}
    Generations = {g1, g2}
    InsightRequests = {r1}
    Reports = {k1}
    TitleEdits = {k1}
SPECIFICATION CorrectionSpec
INVARIANT ResultCanBeSaved
CHECK_DEADLOCK FALSE
