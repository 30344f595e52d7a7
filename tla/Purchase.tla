------------------------------- MODULE Purchase -------------------------------
(***************************************************************************)
(* Buying tickets: PaymentFacade and PaymentService, PayApp behind         *)
(* PayAppClient, and the ticket inventory of TicketLedger.                 *)
(*                                                                         *)
(* Each HTTP request is a process with the values it has read so far; a    *)
(* step is one database statement or one call to PayApp.  `pay' and the    *)
(* other row variables hold committed data.  An open transaction owns the  *)
(* row lock of the payment it has updated (`rowLock') and its writes are   *)
(* committed, all of them, by its last step; a crash before that is a      *)
(* rollback.  The isolation is READ COMMITTED: a statement that meets a    *)
(* locked row waits and then looks at the committed row again.             *)
(***************************************************************************)
EXTENDS TicketLedger

CONSTANTS
    Payments,       \* POST /payments requests; each inserts one payment row
    Qty,            \* tickets a product holds
    Webhooks,       \* concurrent executions of POST /payments/webhook
    Cancels,        \* concurrent executions of POST /payments/:id/cancel
    Free,           \* of a row lock nobody holds
    NoNotice,       \* of an idle webhook worker
    NoPayment,      \* of an idle cancellation
    MaxCrashes,     \* bound of the process crashes
    HandlerErrors   \* may a webhook's transaction fail with a database error?

ASSUME PurchaseConstants ==
    /\ Payments \subseteq Sources
    /\ \A p \in Payments : Until[p] = Never
    /\ Qty \in Nat \ {0}
    /\ Webhooks \cap Cancels = {}
    /\ Free \notin Webhooks \cup Cancels
    /\ MaxCrashes \in Nat
    /\ HandlerErrors \in BOOLEAN

VARIABLES
    pay,        \* payment.status; "NONE" before the row exists
    link,       \* what the row knows of PayApp: neither, the pay_url, or mul_no too
    rowLock,    \* the transaction that has updated the payment row
    grants,     \* ticket_grant rows whose source_ref_id is the payment
    creator,    \* where POST /payments is
    worker,     \* where a webhook execution is and the notice it handles
    cancel,     \* where a cancellation is, its payment and what it read of the row
    order,      \* PayApp: the state of the payment request
    notices,    \* PayApp: feedback calls not answered with SUCCESS yet
    answered,   \* history: payments whose paid notice was answered SUCCESS
    revoked,    \* history: payments whose tickets a cancellation revoked
    crashes

payVars == <<pay, link, rowLock, grants, creator, worker, cancel, order, notices,
             answered, revoked, crashes>>
vars == <<payVars, ledgerVars>>

\* WAITING, REFUNDED and PARTIAL_REFUNDED are declared but never written.
PayStatus == {"NONE", "REQUESTED", "PAID", "CANCELLED"}
LinkState == {"none", "url", "mulNo"}
CreatorState == {"start", "saved", "replyFull", "replyNoMulNo", "failed", "shown", "done"}
WorkerState == {"idle", "update", "issue", "reply"}
CancelState == {"idle", "refund", "save", "count", "expire"}
OrderState == {"NONE", "OPEN", "PAID", "MISPRICED", "REFUNDED"}

\* A feedback call: pay_state 4 at the right price, pay_state 4 at another price,
\* or any other pay_state.
Notice == [payment : Payments, kind : {"paid", "mispriced", "other"}]

\* What a cancellation has loaded of its payment.
Cancellation == [pc : CancelState, payment : Payments \cup {NoPayment}, wasPaid : BOOLEAN,
                 link : LinkState]

TypeOK ==
    /\ LedgerTypeOK
    /\ pay \in [Payments -> PayStatus]
    /\ link \in [Payments -> LinkState]
    /\ rowLock \in [Payments -> Webhooks \cup Cancels \cup {Free}]
    /\ grants \in [Payments -> Nat]
    /\ creator \in [Payments -> CreatorState]
    /\ worker \in [Webhooks -> [pc : WorkerState, notice : Notice \cup {NoNotice}]]
    /\ cancel \in [Cancels -> Cancellation]
    /\ order \in [Payments -> OrderState]
    /\ notices \in SUBSET Notice
    /\ answered \in SUBSET Payments
    /\ revoked \in SUBSET Payments
    /\ crashes \in 0..MaxCrashes

IdleWorker == [pc |-> "idle", notice |-> NoNotice]
IdleCancel == [pc |-> "idle", payment |-> NoPayment, wasPaid |-> FALSE,
               link |-> "none"]

Init ==
    /\ LedgerInit
    /\ pay = [p \in Payments |-> "NONE"]
    /\ link = [p \in Payments |-> "none"]
    /\ rowLock = [p \in Payments |-> Free]
    /\ grants = [p \in Payments |-> 0]
    /\ creator = [p \in Payments |-> "start"]
    /\ worker = [w \in Webhooks |-> IdleWorker]
    /\ cancel = [x \in Cancels |-> IdleCancel]
    /\ order = [p \in Payments |-> "NONE"]
    /\ notices = {}
    /\ answered = {}
    /\ revoked = {}
    /\ crashes = 0

Notify(p, kind) == notices' = notices \cup {[payment |-> p, kind |-> kind]}

-------------------------------------------------------------------------------
\* POST /payments: PaymentFacade.createPayment, not a transaction.

\* PaymentService.createPayment inserts the row under a provisional mul_no.
InsertPayment(p) ==
    /\ creator[p] = "start"
    /\ creator' = [creator EXCEPT ![p] = "saved"]
    /\ pay' = [pay EXCEPT ![p] = "REQUESTED"]
    /\ UNCHANGED <<link, rowLock, grants, worker, cancel, order, notices, answered,
                   revoked, crashes, ledgerVars>>

\* PayApp opens the order and calls back with pay_state 1.  Its reply carries the
\* pay_url, and usually mul_no; or the reply is lost.
PayAppOpens(p) ==
    /\ creator[p] = "saved"
    /\ \E reply \in {"replyFull", "replyNoMulNo", "failed"} :
        creator' = [creator EXCEPT ![p] = reply]
    /\ order' = [order EXCEPT ![p] = "OPEN"]
    /\ Notify(p, "other")
    /\ UNCHANGED <<pay, link, rowLock, grants, worker, cancel, answered, revoked,
                   crashes, ledgerVars>>

PayAppRejects(p) ==
    /\ creator[p] = "saved"
    /\ creator' = [creator EXCEPT ![p] = "failed"]
    /\ UNCHANGED <<pay, link, rowLock, grants, worker, cancel, order, notices, answered,
                   revoked, crashes, ledgerVars>>

\* savePayResult saves the whole entity as it was inserted, its status included,
\* and the API shows the pay_url.
SavePayResult(p) ==
    /\ creator[p] \in {"replyFull", "replyNoMulNo"}
    /\ rowLock[p] = Free
    /\ creator' = [creator EXCEPT ![p] = "shown"]
    /\ pay' = [pay EXCEPT ![p] = "REQUESTED"]
    /\ link' = [link EXCEPT ![p] = IF creator[p] = "replyFull" THEN "mulNo" ELSE "url"]
    /\ UNCHANGED <<rowLock, grants, worker, cancel, order, notices, answered, revoked,
                   crashes, ledgerVars>>

\* The catch block: markCancelled on the entity that was inserted.
CompensateCreate(p) ==
    /\ creator[p] = "failed"
    /\ rowLock[p] = Free
    /\ creator' = [creator EXCEPT ![p] = "done"]
    /\ pay' = [pay EXCEPT ![p] = "CANCELLED"]
    /\ UNCHANGED <<link, rowLock, grants, worker, cancel, order, notices, answered,
                   revoked, crashes, ledgerVars>>

\* The process dies, or savePayResult fails: its promise is returned without
\* await, so the catch block does not see it.
AbandonCreate(p) ==
    /\ creator[p] \notin {"start", "shown", "done"}
    /\ crashes < MaxCrashes
    /\ crashes' = crashes + 1
    /\ creator' = [creator EXCEPT ![p] = "done"]
    /\ UNCHANGED <<pay, link, rowLock, grants, worker, cancel, order, notices, answered,
                   revoked, ledgerVars>>

\* The customer pays on the page of a pay_url the API has shown.
CustomerPays(p) ==
    /\ order[p] = "OPEN"
    /\ creator[p] = "shown"
    /\ \/ order' = [order EXCEPT ![p] = "PAID"] /\ Notify(p, "paid")
       \/ order' = [order EXCEPT ![p] = "MISPRICED"] /\ Notify(p, "mispriced")
    /\ UNCHANGED <<pay, link, rowLock, grants, creator, worker, cancel, answered, revoked,
                   crashes, ledgerVars>>

-------------------------------------------------------------------------------
\* POST /payments/webhook: PaymentFacade.handleWebhook, one transaction, inside a
\* controller that swallows every error and answers SUCCESS.

\* Mutant: pay_state is not looked at.
PayableAnyState(n) == link[n.payment] = "mulNo" /\ pay[n.payment] = "REQUESTED"

\* The row is found by mul_no; pay_state, the amount and the status that was read
\* decide whether the notice may pay it.
Payable(n) ==
    /\ link[n.payment] = "mulNo"
    /\ n.kind = "paid"
    /\ pay[n.payment] = "REQUESTED"

\* Mutant: SUCCESS is answered before the payment is handled.
ReceiveNoticeAnswerFirst(w, n) ==
    /\ worker[w].pc = "idle"
    /\ n \in notices
    /\ worker' = [worker EXCEPT ![w] =
            [pc |-> IF Payable(n) THEN "update" ELSE "reply", notice |-> n]]
    /\ notices' = notices \ {n}
    /\ UNCHANGED <<pay, link, rowLock, grants, creator, cancel, order, answered, revoked,
                   crashes, ledgerVars>>

ReceiveNotice(w, n) ==
    /\ worker[w].pc = "idle"
    /\ n \in notices
    /\ worker' = [worker EXCEPT ![w] =
            [pc |-> IF Payable(n) THEN "update" ELSE "reply", notice |-> n]]
    /\ UNCHANGED <<pay, link, rowLock, grants, creator, cancel, order, notices, answered,
                   revoked, crashes, ledgerVars>>

\* Mutant: the UPDATE has no condition on the status.
UpdatePaidAlways(w) ==
    LET p == worker[w].notice.payment IN
    /\ worker[w].pc = "update"
    /\ rowLock[p] = Free
    /\ rowLock' = [rowLock EXCEPT ![p] = w]
    /\ worker' = [worker EXCEPT ![w].pc = "issue"]
    /\ UNCHANGED <<pay, link, grants, creator, cancel, order, notices, answered, revoked,
                   crashes, ledgerVars>>

\* Mutant: the condition only keeps PAID rows out.
UpdatePaidUnlessPaid(w) ==
    LET p == worker[w].notice.payment IN
    /\ worker[w].pc = "update"
    /\ pay[p] # "PAID"
    /\ UpdatePaidAlways(w)

\* Mutant: without @Transactional the UPDATE commits on its own.
UpdatePaidAutocommit(w) ==
    LET p == worker[w].notice.payment IN
    /\ worker[w].pc = "update"
    /\ rowLock[p] = Free
    /\ pay[p] = "REQUESTED"
    /\ pay' = [pay EXCEPT ![p] = "PAID"]
    /\ worker' = [worker EXCEPT ![w].pc = "issue"]
    /\ UNCHANGED <<link, rowLock, grants, creator, cancel, order, notices, answered,
                   revoked, crashes, ledgerVars>>

\* Mutant: a locked row counts as paid already.
UpdatePaidNoWait(w) ==
    LET p == worker[w].notice.payment IN
    /\ worker[w].pc = "update"
    /\ IF rowLock[p] = Free /\ pay[p] = "REQUESTED"
       THEN /\ rowLock' = [rowLock EXCEPT ![p] = w]
            /\ worker' = [worker EXCEPT ![w].pc = "issue"]
       ELSE /\ worker' = [worker EXCEPT ![w].pc = "reply"]
            /\ UNCHANGED rowLock
    /\ UNCHANGED <<pay, link, grants, creator, cancel, order, notices, answered, revoked,
                   crashes, ledgerVars>>

\* updatePaidIfRequested: one conditional UPDATE.  When it changes nothing the
\* payment is PAID already (fine) or not payable (an error): no tickets either way.
UpdatePaid(w) ==
    LET p == worker[w].notice.payment IN
    /\ worker[w].pc = "update"
    /\ rowLock[p] = Free
    /\ IF pay[p] = "REQUESTED"
       THEN /\ rowLock' = [rowLock EXCEPT ![p] = w]
            /\ worker' = [worker EXCEPT ![w].pc = "issue"]
       ELSE /\ worker' = [worker EXCEPT ![w].pc = "reply"]
            /\ UNCHANGED rowLock
    /\ UNCHANGED <<pay, link, grants, creator, cancel, order, notices, answered, revoked,
                   crashes, ledgerVars>>

\* issueGrantAndTickets and the commit of the transaction.
IssueTickets(w) ==
    LET p == worker[w].notice.payment IN
    /\ worker[w].pc = "issue"
    /\ \E ids \in SUBSET Tickets : Cardinality(ids) = Qty /\ Issue(p, ids)
    /\ pay' = [pay EXCEPT ![p] = "PAID"]
    /\ grants' = [grants EXCEPT ![p] = @ + 1]
    /\ rowLock' = [rowLock EXCEPT ![p] = Free]
    /\ worker' = [worker EXCEPT ![w].pc = "reply"]
    /\ UNCHANGED <<link, creator, cancel, order, notices, answered, revoked, crashes>>

\* The row lock a process gives up when its transaction is rolled back.
Unlocked(process) == [p \in Payments |->
    IF rowLock[p] = process THEN Free ELSE rowLock[p]]

\* The transaction fails; the controller logs it and still answers SUCCESS.
WebhookError(w) ==
    /\ HandlerErrors
    /\ worker[w].pc \in {"update", "issue"}
    /\ rowLock' = Unlocked(w)
    /\ worker' = [worker EXCEPT ![w].pc = "reply"]
    /\ UNCHANGED <<pay, link, grants, creator, cancel, order, notices, answered, revoked,
                   crashes, ledgerVars>>

\* PayApp gets its SUCCESS and stops calling.
ReplySuccess(w) ==
    LET n == worker[w].notice IN
    /\ worker[w].pc = "reply"
    /\ notices' = notices \ {n}
    /\ answered' = IF n.kind = "paid" THEN answered \cup {n.payment} ELSE answered
    /\ worker' = [worker EXCEPT ![w] = IdleWorker]
    /\ UNCHANGED <<pay, link, rowLock, grants, creator, cancel, order, revoked, crashes,
                   ledgerVars>>

\* The process dies before it answers: a rollback, and PayApp calls again.
CrashWebhook(w) ==
    /\ worker[w].pc # "idle"
    /\ crashes < MaxCrashes
    /\ crashes' = crashes + 1
    /\ rowLock' = Unlocked(w)
    /\ worker' = [worker EXCEPT ![w] = IdleWorker]
    /\ UNCHANGED <<pay, link, grants, creator, cancel, order, notices, answered, revoked,
                   ledgerVars>>

-------------------------------------------------------------------------------
\* POST /payments/:id/cancel: PaymentFacade.cancelPayment, one transaction around
\* a call to PayApp that no rollback undoes.

\* findByIdAndUserIdOrThrow does not lock; a CANCELLED payment is returned as is.
ReadPayment(x, p) ==
    /\ cancel[x].pc = "idle"
    /\ pay[p] \in {"REQUESTED", "PAID"}
    /\ LET paid == pay[p] = "PAID" IN
       cancel' = [cancel EXCEPT ![x] =
            [pc |-> IF paid THEN "refund" ELSE "save", payment |-> p, wasPaid |-> paid,
             link |-> link[p]]]
    /\ UNCHANGED <<pay, link, rowLock, grants, creator, worker, order, notices, answered,
                   revoked, crashes, ledgerVars>>

\* requestCancel: PayApp refunds a paid order, once, and calls back with the
\* cancelled pay_state.  Its answer may be lost: after 10 seconds the handler
\* throws whatever PayApp did.
PayAppRefunds(x) ==
    LET p == cancel[x].payment IN
    /\ cancel[x].pc = "refund"
    /\ order[p] = "PAID"
    /\ order' = [order EXCEPT ![p] = "REFUNDED"]
    /\ Notify(p, "other")
    /\ \/ cancel' = [cancel EXCEPT ![x].pc = "save"]
       \/ cancel' = [cancel EXCEPT ![x] = IdleCancel]
    /\ UNCHANGED <<pay, link, rowLock, grants, creator, worker, answered, revoked, crashes,
                   ledgerVars>>

\* PayApp refuses, or the call never reaches it: the handler throws.
PayAppRefuses(x) ==
    /\ cancel[x].pc = "refund"
    /\ cancel' = [cancel EXCEPT ![x] = IdleCancel]
    /\ UNCHANGED <<pay, link, rowLock, grants, creator, worker, order, notices, answered,
                   revoked, crashes, ledgerVars>>

\* save() writes back every column the request has loaded: the row is CANCELLED
\* whatever its status is by now, and what it knows of PayApp is what was read.
WriteCancelled(x) ==
    LET p == cancel[x].payment IN
    /\ pay' = [pay EXCEPT ![p] = "CANCELLED"]
    /\ link' = [link EXCEPT ![p] = cancel[x].link]
    /\ cancel' = [cancel EXCEPT ![x] = IdleCancel]

\* markCancelled for a payment read as REQUESTED; the transaction commits.
CancelRequested(x) ==
    LET p == cancel[x].payment IN
    /\ cancel[x].pc = "save"
    /\ ~cancel[x].wasPaid
    /\ rowLock[p] = Free
    /\ WriteCancelled(x)
    /\ UNCHANGED <<rowLock, grants, creator, worker, order, notices, answered,
                   revoked, crashes, ledgerVars>>

\* markCancelled for a payment read as PAID: the row is written and locked, the
\* transaction goes on.
SaveCancelled(x) ==
    LET p == cancel[x].payment IN
    /\ cancel[x].pc = "save"
    /\ cancel[x].wasPaid
    /\ rowLock[p] = Free
    /\ rowLock' = [rowLock EXCEPT ![p] = x]
    /\ cancel' = [cancel EXCEPT ![x].pc = "count"]
    /\ UNCHANGED <<pay, link, grants, creator, worker, order, notices, answered, revoked,
                   crashes, ledgerVars>>

\* Mutant: the throw leaves the transaction open.
CountUsedNoRollback(x) ==
    LET p == cancel[x].payment IN
    /\ cancel[x].pc = "count"
    /\ cancel' = IF TicketsOf(p) \cap Used = {}
                 THEN [cancel EXCEPT ![x].pc = "expire"]
                 ELSE [cancel EXCEPT ![x] = IdleCancel]
    /\ UNCHANGED <<pay, link, rowLock, grants, creator, worker, order, notices, answered,
                   revoked, crashes, ledgerVars>>

\* revokeAvailableTicketsForPayment, its check: a used ticket throws
\* PAYMENT_CANCEL_NOT_ALLOWED, and the database forgets the cancellation.
CountUsed(x) ==
    LET p == cancel[x].payment IN
    /\ cancel[x].pc = "count"
    /\ IF TicketsOf(p) \cap Used = {}
       THEN cancel' = [cancel EXCEPT ![x].pc = "expire"] /\ UNCHANGED rowLock
       ELSE cancel' = [cancel EXCEPT ![x] = IdleCancel] /\ rowLock' = Unlocked(x)
    /\ UNCHANGED <<pay, link, grants, creator, worker, order, notices, answered, revoked,
                   crashes, ledgerVars>>

\* Mutant: every ticket of the payment is expired, the used ones too.
RevokeEveryTicket(x) ==
    LET p == cancel[x].payment IN
    /\ cancel[x].pc = "expire"
    /\ ExpireRows(TicketsOf(p))
    /\ WriteCancelled(x)
    /\ revoked' = revoked \cup {p}
    /\ rowLock' = [rowLock EXCEPT ![p] = Free]
    /\ UNCHANGED <<grants, creator, worker, order, notices, answered, crashes>>

\* Its UPDATE of the tickets still AVAILABLE, and the commit.
RevokeTickets(x) ==
    LET p == cancel[x].payment IN
    /\ cancel[x].pc = "expire"
    /\ RevokeAvailable(p)
    /\ WriteCancelled(x)
    /\ revoked' = revoked \cup {p}
    /\ rowLock' = [rowLock EXCEPT ![p] = Free]
    /\ UNCHANGED <<grants, creator, worker, order, notices, answered, crashes>>

\* The process dies or a statement fails: a rollback.
AbortCancel(x) ==
    /\ cancel[x].pc # "idle"
    /\ crashes < MaxCrashes
    /\ crashes' = crashes + 1
    /\ rowLock' = Unlocked(x)
    /\ cancel' = [cancel EXCEPT ![x] = IdleCancel]
    /\ UNCHANGED <<pay, link, grants, creator, worker, order, notices, answered, revoked,
                   ledgerVars>>

-------------------------------------------------------------------------------
CreateStep(p) ==
    \/ InsertPayment(p)
    \/ PayAppOpens(p)
    \/ PayAppRejects(p)
    \/ SavePayResult(p)
    \/ CompensateCreate(p)
    \/ AbandonCreate(p)

WebhookStep(w) ==
    \/ \E n \in notices : ReceiveNotice(w, n)
    \/ UpdatePaid(w)
    \/ IssueTickets(w)
    \/ WebhookError(w)
    \/ ReplySuccess(w)
    \/ CrashWebhook(w)

CancelStep(x) ==
    \/ \E p \in Payments : ReadPayment(x, p)
    \/ PayAppRefunds(x)
    \/ PayAppRefuses(x)
    \/ CancelRequested(x)
    \/ SaveCancelled(x)
    \/ CountUsed(x)
    \/ RevokeTickets(x)
    \/ AbortCancel(x)

Next ==
    \/ \E p \in Payments : CreateStep(p) \/ CustomerPays(p)
    \/ \E w \in Webhooks : WebhookStep(w)
    \/ \E x \in Cancels : CancelStep(x)
    \/ SpendStep /\ UNCHANGED payVars

Spec == Init /\ [][Next]_vars

\* A live server finishes the requests it has started (crashes are bounded), and
\* PayApp calls until it is answered.  A statement that waits for row locks gets
\* them in the end even if they are taken and released in between: PostgreSQL
\* queues the waiters of a row.
Fairness ==
    /\ \A p \in Payments :
        /\ WF_vars(SavePayResult(p))
        /\ WF_vars(CompensateCreate(p))
    /\ \A w \in Webhooks :
        /\ WF_vars(\E n \in notices : ReceiveNotice(w, n))
        /\ SF_vars(UpdatePaid(w))
        /\ WF_vars(IssueTickets(w))
        /\ WF_vars(ReplySuccess(w))
    /\ \A x \in Cancels :
        /\ WF_vars(PayAppRefunds(x) \/ PayAppRefuses(x))
        /\ SF_vars(CancelRequested(x))
        /\ SF_vars(SaveCancelled(x))
        /\ WF_vars(CountUsed(x))
        /\ SF_vars(RevokeTickets(x))
    /\ \A r \in Requests :
        /\ WF_vars(ValidateCreation(r) /\ UNCHANGED payVars)
        /\ WF_vars(CreateItem(r) /\ UNCHANGED payVars)

FairSpec == Spec /\ Fairness

-------------------------------------------------------------------------------
\* However often PayApp calls, however the calls interleave with each other, with
\* a cancellation and with crashes, a payment gets its Qty tickets at most once.
CreditedOnce ==
    \A p \in Payments :
        /\ grants[p] \in {0, 1}
        /\ Cardinality(TicketsOf(p)) = Qty * grants[p]

\* A committed row says PAID exactly while its tickets are out: never PAID without
\* a grant, and never again REQUESTED, so payable, after one.
PaidMeansCredited ==
    \A p \in Payments :
        /\ pay[p] = "PAID" => grants[p] = 1
        /\ pay[p] \in {"NONE", "REQUESTED"} => grants[p] = 0

\* PayApp stops calling after one SUCCESS: whatever was answered SUCCESS, after
\* any number of crashes and duplicates, has been credited, unless the row does
\* not know PayApp's number or was cancelled.
AnsweredMeansCredited ==
    \A p \in answered :
        grants[p] = 1 \/ link[p] # "mulNo" \/ pay[p] = "CANCELLED"

\* A cancellation that reports success after a refund leaves nothing to spend, and
\* no late or repeated webhook issues anything new afterwards.
RevokedStaysRevoked ==
    \A p \in revoked :
        /\ order[p] = "REFUNDED"
        /\ pay[p] = "CANCELLED"
        /\ \A t \in TicketsOf(p) : status[t] # "AVAILABLE"

\* The payment component implements the contract of a purchase.
money == [p \in Payments |->
    CASE order[p] = "PAID" -> "taken"
      [] order[p] = "REFUNDED" -> "returned"
      [] OTHER -> "none"]
credit == [p \in Payments |->
    IF grants[p] = 0 THEN "none" ELSE IF p \in revoked THEN "revoked" ELSE "credited"]
Contract == INSTANCE PurchaseContract WITH Payments <- Payments, money <- money, credit <- credit
ImplementsContract == Contract!ContractSpec

\* Seen from the tickets, a purchase only does what the inventory allows.
ImplementsLedger == LedgerSpec

\* Money taken for a payment whose number we know becomes tickets, unless the
\* payment is cancelled: crashes delay it, they do not lose it.
PaidIsCredited ==
    \A p \in Payments :
        order[p] = "PAID" /\ link[p] = "mulNo" ~> grants[p] = 1 \/ pay[p] = "CANCELLED"

\* No handler keeps the row lock of a payment for ever: cancellations wait for
\* creations and webhooks for cancellations, and none waits in a circle.
RowLocksAreReleased ==
    \A p \in Payments : rowLock[p] # Free ~> rowLock[p] = Free

-------------------------------------------------------------------------------
\* What the documentation and the tests say of cancellations, and the code does not do.

\* payment.e2e-spec.ts: a payment with a used ticket cannot be cancelled, so PayApp
\* is not asked to give its money back.
UsedIsNotRefunded ==
    [][\A p \in Payments : order[p] = "PAID" /\ order'[p] = "REFUNDED" =>
            TicketsOf(p) \cap Used = {}
      ]_vars

\* payment.e2e-spec.ts: cancelling a PAID payment calls PayApp and takes the
\* tickets back.
CancellingPaidRefunds ==
    [][\A p \in Payments : pay[p] = "PAID" /\ pay'[p] = "CANCELLED" =>
            /\ order'[p] = "REFUNDED"
            /\ \A t \in TicketsOf(p) : status'[t] # "AVAILABLE"
      ]_vars
=============================================================================
