CONSTANTS
    t1 = t1
    t2 = t2
    t3 = t3
    r1 = r1
    g1 = g1
    g2 = g2
    welcome = welcome
    feedback = feedback
    Tickets = {t1, t2, t3}
    Requests = {r1}
    Sources = {welcome, feedback}
    Events = {welcome, feedback}
    SignUp = {welcome}
    Manual = {feedback}
    Multiple = {feedback}
    Reward = 1
    Grants = {g1, g2}
    NoSource = NoSource
    NoEvent = NoEvent
    Free = Free
    Until <- MCUntil
    MaxTime = 0
    Limit = 1
    MaxGrants = 2
    Submissions = {g1, g2}
    Unheld = Unheld
    CooldownDays = 2
    LastDay = 4
    Members = {1, 2, 3}
    BatchSize = 2
    LastWeek = 2
    n1 = n1
    n2 = n2
    b1 = b1
    b2 = b2
    Notices = {n1, n2}
    Tabs = {b1, b2}
    NoNotice = NoNotice
    LastMoment = 1
    Recipients = {n1, n2}
    ManualEvents = {welcome, feedback}
    Repeatable = {feedback}
    Nobody = Nobody
    NoCode = NoCode
    MaxQuantity = 1
    MaxOpenings = 2
    MaxSubmits = 2
    Clients = {1, 2, 3}
    Keywords <- MCKeywords
    ListLimit = 2
    MaxLists = 3
    MaxRewards = 1
    NotListed = NotListed
    ProductKinds = {n1, n2}
    ExpectedKinds = {n1, n2}
    x1 = x1
    x2 = x2
    x3 = x3
    x4 = x4
    ProductIds = {x1, x2, x3, x4}
    Servers = {b1, b2}
    Tags = {x1, x2}
    TagNames = {n1, n2}
    TaggedLogs = {t1}
    TagRequests = {b1, b2}
    MaxTags = 2
    MaxCopies = 2
    NoName = NoName
    NoTagged = NoTagged
    Document <- MCDocument
    SmokeArgs <- MCArgs
    OldIds = {1, 2}
    NewId = 3
    Answers = {302, 501}
    NoId = NoId
SPECIFICATION RewardsSpec
INVARIANTS RewardsTypeOK RewardedOnce
    RewardsAreSpaced WeeklyReachesEveryone
    AnnouncedMeansGranted TableIsCurrent
    CatalogueIsWhole LogHasItsTags OldExperiencesSurvive
PROPERTIES DismissedStaysDismissed
CHECK_DEADLOCK FALSE
