CONSTANTS
    p1 = p1
    g1 = g1
    c1 = c1
    x1 = x1
    a = a
    r1 = r1
    k1 = k1
    b1 = b1
    b2 = b2
    x2 = x2
    Portfolios = {p1}
    Generators = {g1}
    Callbacks = {c1}
    Edits = {x1}
    Experience = Experience
    Free = Free
    NoPortfolio = NoPortfolio
    Unlocked = Unlocked
    MaxMishaps = 3
    MaxAccidents = 1
    CorrectedPortfolios = {a}
    Generations = {g1}
    InsightRequests = {r1}
    Reports = {k1}
    TitleEdits = {k1}
    Blocks = {b1, b2}
    Uploads = {x1, x2}
    Extracted = {k1}
    Additions = {}
    MaxBlocks = 1
    MaxFaults = 0
SPECIFICATION FairDelegationSpec
PROPERTY AiWorkEnds
CHECK_DEADLOCK FALSE
