CONSTANTS
    p1 = p1
    t1 = t1
    t2 = t2
    t3 = t3
    t4 = t4
    w1 = w1
    w2 = w2
    x1 = x1
    x2 = x2
    r1 = r1
    r2 = r2
    Payments = {p1}
    Sources = {p1}
    Tickets = {t1, t2, t3, t4}
    Requests = {r1, r2}
    Webhooks = {w1, w2}
    Cancels = {x1, x2}
    NoSource = NoSource
    NoNotice = NoNotice
    NoPayment = NoPayment
    Free = Free
    Until <- MCUntil
    MaxTime = 0
    Limit = 1
    Qty = 2
    MaxCrashes = 2
    HandlerErrors = TRUE
SPECIFICATION Spec
SYMMETRY Symmetry
INVARIANTS TypeOK CreditedOnce PaidMeansCredited RevokedStaysRevoked
PROPERTIES ImplementsContract ImplementsLedger
CHECK_DEADLOCK FALSE
