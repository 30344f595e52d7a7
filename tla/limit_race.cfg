CONSTANTS
    t1 = t1
    t2 = t2
    t3 = t3
    r1 = r1
    r2 = r2
    feedback = feedback
    weekly = weekly
    Tickets = {t1, t2, t3}
    Sources = {feedback, weekly}
    Requests = {r1, r2}
    NoSource = NoSource
    Until <- MCUntil
    MaxTime = 1
    Limit = 1
SPECIFICATION LedgerSpec
INVARIANT LimitRespected
CHECK_DEADLOCK FALSE
