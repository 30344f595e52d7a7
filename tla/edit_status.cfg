CONSTANTS
    p1 = p1
    p2 = p2
    g1 = g1
    c1 = c1
    x1 = x1
    Portfolios = {p1, p2}
    Generators = {g1}
    Callbacks = {c1}
    Edits = {x1}
    Experience = Experience
    Free = Free
    NoPortfolio = NoPortfolio
SPECIFICATION GenerationSpec
PROPERTY EditKeepsStatus
CHECK_DEADLOCK FALSE
