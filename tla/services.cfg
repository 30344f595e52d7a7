CONSTANTS
    purchase = purchase
    weekly = weekly
    u1 = u1
    u2 = u2
    s1 = s1
    s2 = s2
    v1 = v1
    v2 = v2
    t1 = t1
    t2 = t2
    t3 = t3
    NoSource = NoSource
    NoUser = NoUser
    NoSession = NoSession
    Unset = Unset
    Tickets = {t1, t2, t3}
    Sources = {purchase, weekly}
    Requests = {v1, v2}
    Until <- MCUntil
    MaxTime = 1
    Limit = 2
    Days = 1
    Users = {u1, u2}
    SignIns = {s1, s2}
    Visits = {v1, v2}
    MaxMishaps = 1
    MaxTokens = 2
    Logs = {u1, u2}
    Titles = {s1, s2}
    Descriptions = {v1, v2}
    Edits = {v1, v2}
    MaxInsights = 1
    Streams = {u1, u2}
    MaxFiles = 2
    MaxParts = 4
SPECIFICATION ServicesSpec
SYMMETRY ServicesSymmetry
INVARIANTS ServicesTypeOK
    OneTicketPerCreation ToldBeforeLapse
    WithdrawnLeavesOnlyHash RewardedOncePerIdentity
    WithdrawnIsRefused LoggedOutStaysOut
    VectorOfItsText
    PassedFormIsWhole StreamsAreHeld
PROPERTIES SpentStaysSpent
CHECK_DEADLOCK FALSE
