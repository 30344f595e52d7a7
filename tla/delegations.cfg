CONSTANTS
    a = a
    b = b
    g1 = g1
    g2 = g2
    r1 = r1
    k1 = k1
    x1 = x1
    Portfolios = {a, b}
    Generators = {g1, g2}
    Callbacks = {k1}
    Edits = {x1}
    Experience = Experience
    Free = Free
    NoPortfolio = NoPortfolio
    Unlocked = Unlocked
    MaxMishaps = 1
    MaxAccidents = 1
    CorrectedPortfolios = {a, b}
    Generations = {g1, g2}
    InsightRequests = {r1}
    Reports = {k1}
    TitleEdits = {k1}
    Blocks = {a, b}
    Uploads = {g1, g2}
    Extracted = {k1}
    Additions = {r1}
    MaxBlocks = 2
    MaxFaults = 1
SPECIFICATION DelegationSpec
SYMMETRY DelegationSymmetry
INVARIANTS DelegationTypeOK DoneHasPortfolio GenerateHasOwner 
    AnsweredOncePerExtraction 
PROPERTIES ResultIsKept FinishedIsKept
CHECK_DEADLOCK FALSE
