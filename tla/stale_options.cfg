CONSTANTS
    u1 = u1
    u2 = u2
    signup = signup
    cs = cs
    Recipients = {u1, u2}
    ManualEvents = {signup, cs}
    Repeatable = {cs}
    Nobody = Nobody
    NoCode = NoCode
    MaxQuantity = 1
    MaxOpenings = 2
    MaxSubmits = 1
SPECIFICATION AdminSpec
INVARIANT OptionsAreOfTheUser
