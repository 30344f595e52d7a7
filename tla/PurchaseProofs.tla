---------------------------- MODULE PurchaseProofs ----------------------------
(***************************************************************************)
(* Proofs about purchases, for any number of payments, webhook executions, *)
(* cancellations, creation requests and crashes.                           *)
(*                                                                         *)
(* The inductive invariant PurchaseInv says of each process what its       *)
(* earlier steps have made sure of (WorkerInv, CancelInv), and relates the *)
(* payment row to PayApp's order and to the tickets (PaymentInv).          *)
(***************************************************************************)
EXTENDS Purchase, TicketLedgerProofs

\* PayApp has the money, or gave it back.
Settled(p) == order[p] \in {"PAID", "REFUNDED"}

WorkerInv ==
    \A w \in Webhooks :
        LET n == worker[w].notice IN
        /\ worker[w].pc # "idle" => n \in Notice
        /\ worker[w].pc \in {"update", "issue"} =>
            creator[n.payment] = "shown" /\ Settled(n.payment)
        /\ worker[w].pc = "issue" => rowLock[n.payment] = w /\ pay[n.payment] = "REQUESTED"

CancelInv ==
    \A x \in Cancels :
        LET p == cancel[x].payment IN
        /\ cancel[x].pc # "idle" =>
            /\ p \in Payments
            /\ creator[p] # "start"
            /\ cancel[x].link # "none" => creator[p] = "shown"
            /\ cancel[x].wasPaid => grants[p] = 1
        /\ cancel[x].pc \in {"refund", "count", "expire"} => cancel[x].wasPaid
        /\ cancel[x].pc \in {"save", "count", "expire"} /\ cancel[x].wasPaid =>
            order[p] = "REFUNDED"
        /\ cancel[x].pc \in {"count", "expire"} => rowLock[p] = x

NoticeInv ==
    \A n \in notices : n.kind = "paid" => creator[n.payment] = "shown" /\ Settled(n.payment)

PaymentInv ==
    \A p \in Payments :
        /\ creator[p] = "start" => pay[p] = "NONE"
        /\ creator[p] # "shown" =>
            link[p] = "none" /\ grants[p] = 0 /\ order[p] \in {"NONE", "OPEN"}
        /\ grants[p] \in {0, 1}
        /\ pay[p] \in {"NONE", "REQUESTED"} => grants[p] = 0
        /\ pay[p] = "PAID" => grants[p] = 1
        /\ grants[p] = 1 => Settled(p)
        /\ order[p] = "REFUNDED" => grants[p] = 1

TicketInv ==
    \A p \in Payments :
        /\ Cardinality(TicketsOf(p)) = Qty * grants[p]
        /\ p \in revoked =>
            /\ order[p] = "REFUNDED"
            /\ pay[p] = "CANCELLED"
            /\ \A t \in TicketsOf(p) : status[t] # "AVAILABLE"

PurchaseInv ==
    /\ TypeOK
    /\ LedgerInv
    /\ WorkerInv
    /\ CancelInv
    /\ NoticeInv
    /\ PaymentInv
    /\ TicketInv
-------------------------------------------------------------------------------
LEMMA LedgerUnchanged ==
    ASSUME LedgerInv, UNCHANGED ledgerVars
    PROVE  LedgerInv'
BY LedgerInvStep

\* A step that leaves the tickets alone only has to leave the rows of revoked
\* payments CANCELLED.
LEMMA TicketsUnchanged ==
    ASSUME TicketInv, UNCHANGED <<ledgerVars, grants, revoked>>,
           \A p \in revoked : pay'[p] = "CANCELLED" /\ order'[p] = "REFUNDED"
    PROVE  TicketInv'
BY DEF TicketInv, TicketsOf, ledgerVars

LEMMA CancelTypes ==
    ASSUME TypeOK, NEW x \in Cancels
    PROVE  /\ [cancel EXCEPT ![x] = IdleCancel] \in [Cancels -> Cancellation]
           /\ \A c \in CancelState : [cancel EXCEPT ![x].pc = c] \in [Cancels -> Cancellation]
<1>1. IdleCancel \in Cancellation
    BY DEF IdleCancel, Cancellation, CancelState, LinkState
<1>2. \A c \in CancelState : [cancel[x] EXCEPT !.pc = c] \in Cancellation
    BY DEF TypeOK, Cancellation
<1> QED BY <1>1, <1>2 DEF TypeOK

LEMMA InsertPaymentKeeps ==
    ASSUME PurchaseInv, NEW p \in Payments, InsertPayment(p)
    PROVE  PurchaseInv'
<1> USE DEF PurchaseInv, InsertPayment
<1>1. LedgerInv'
    BY LedgerUnchanged
<1>2. TypeOK'
    BY <1>1, PurchaseConstants DEF LedgerInv, TypeOK, PayStatus, LinkState, CreatorState, WorkerState, CancelState, OrderState, Notice, Cancellation
<1>3. WorkerInv'
    BY PurchaseConstants DEF WorkerInv, CancelInv, NoticeInv, PaymentInv, Settled, TypeOK, Notice
<1>4. CancelInv'
    BY PurchaseConstants DEF WorkerInv, CancelInv, PaymentInv, Settled, TypeOK
<1>5. NoticeInv'
    BY DEF NoticeInv, PaymentInv, Settled, TypeOK, Notice
<1>6. PaymentInv'
    BY DEF WorkerInv, CancelInv, PaymentInv, Settled, TypeOK
<1>7. TicketInv'
    BY TicketsUnchanged DEF CancelInv, PaymentInv, TicketInv, TypeOK
<1> QED BY <1>1, <1>2, <1>3, <1>4, <1>5, <1>6, <1>7

LEMMA PayAppOpensKeeps ==
    ASSUME PurchaseInv, NEW p \in Payments, PayAppOpens(p)
    PROVE  PurchaseInv'
<1> USE DEF PurchaseInv, PayAppOpens, Notify
<1>1. LedgerInv'
    BY LedgerUnchanged
<1>2. TypeOK'
    BY <1>1, PurchaseConstants DEF LedgerInv, TypeOK, PayStatus, LinkState, CreatorState, WorkerState, CancelState, OrderState, Notice, Cancellation
<1>3. WorkerInv'
    BY PurchaseConstants DEF WorkerInv, CancelInv, NoticeInv, PaymentInv, Settled, TypeOK, Notice
<1>4. CancelInv'
    BY PurchaseConstants DEF WorkerInv, CancelInv, PaymentInv, Settled, TypeOK
<1>5. NoticeInv'
    BY DEF NoticeInv, PaymentInv, Settled, TypeOK, Notice
<1>6. PaymentInv'
    BY DEF WorkerInv, CancelInv, PaymentInv, Settled, TypeOK
<1>7. TicketInv'
    BY TicketsUnchanged DEF CancelInv, PaymentInv, TicketInv, TypeOK
<1> QED BY <1>1, <1>2, <1>3, <1>4, <1>5, <1>6, <1>7

LEMMA PayAppRejectsKeeps ==
    ASSUME PurchaseInv, NEW p \in Payments, PayAppRejects(p)
    PROVE  PurchaseInv'
<1> USE DEF PurchaseInv, PayAppRejects
<1>1. LedgerInv'
    BY LedgerUnchanged
<1>2. TypeOK'
    BY <1>1, PurchaseConstants DEF LedgerInv, TypeOK, PayStatus, LinkState, CreatorState, WorkerState, CancelState, OrderState, Notice, Cancellation
<1>3. WorkerInv'
    BY PurchaseConstants DEF WorkerInv, CancelInv, NoticeInv, PaymentInv, Settled, TypeOK, Notice
<1>4. CancelInv'
    BY PurchaseConstants DEF WorkerInv, CancelInv, PaymentInv, Settled, TypeOK
<1>5. NoticeInv'
    BY DEF NoticeInv, PaymentInv, Settled, TypeOK, Notice
<1>6. PaymentInv'
    BY DEF WorkerInv, CancelInv, PaymentInv, Settled, TypeOK
<1>7. TicketInv'
    BY TicketsUnchanged DEF CancelInv, PaymentInv, TicketInv, TypeOK
<1> QED BY <1>1, <1>2, <1>3, <1>4, <1>5, <1>6, <1>7

LEMMA SavePayResultKeeps ==
    ASSUME PurchaseInv, NEW p \in Payments, SavePayResult(p)
    PROVE  PurchaseInv'
<1> USE DEF PurchaseInv, SavePayResult
<1>1. LedgerInv'
    BY LedgerUnchanged
<1>2. TypeOK'
    BY <1>1, PurchaseConstants DEF LedgerInv, TypeOK, PayStatus, LinkState, CreatorState, WorkerState, CancelState, OrderState, Notice, Cancellation
<1>3. WorkerInv'
    BY PurchaseConstants DEF WorkerInv, CancelInv, NoticeInv, PaymentInv, Settled, TypeOK, Notice
<1>4. CancelInv'
    BY PurchaseConstants DEF WorkerInv, CancelInv, PaymentInv, Settled, TypeOK
<1>5. NoticeInv'
    BY DEF NoticeInv, PaymentInv, Settled, TypeOK, Notice
<1>6. PaymentInv'
    BY DEF WorkerInv, CancelInv, PaymentInv, Settled, TypeOK
<1>7. TicketInv'
    BY TicketsUnchanged DEF CancelInv, PaymentInv, TicketInv, TypeOK
<1> QED BY <1>1, <1>2, <1>3, <1>4, <1>5, <1>6, <1>7

LEMMA CompensateCreateKeeps ==
    ASSUME PurchaseInv, NEW p \in Payments, CompensateCreate(p)
    PROVE  PurchaseInv'
<1> USE DEF PurchaseInv, CompensateCreate
<1>1. LedgerInv'
    BY LedgerUnchanged
<1>2. TypeOK'
    BY <1>1, PurchaseConstants DEF LedgerInv, TypeOK, PayStatus, LinkState, CreatorState, WorkerState, CancelState, OrderState, Notice, Cancellation
<1>3. WorkerInv'
    BY PurchaseConstants DEF WorkerInv, CancelInv, NoticeInv, PaymentInv, Settled, TypeOK, Notice
<1>4. CancelInv'
    BY PurchaseConstants DEF WorkerInv, CancelInv, PaymentInv, Settled, TypeOK
<1>5. NoticeInv'
    BY DEF NoticeInv, PaymentInv, Settled, TypeOK, Notice
<1>6. PaymentInv'
    BY DEF WorkerInv, CancelInv, PaymentInv, Settled, TypeOK
<1>7. TicketInv'
    BY TicketsUnchanged DEF CancelInv, PaymentInv, TicketInv, TypeOK
<1> QED BY <1>1, <1>2, <1>3, <1>4, <1>5, <1>6, <1>7

LEMMA AbandonCreateKeeps ==
    ASSUME PurchaseInv, NEW p \in Payments, AbandonCreate(p)
    PROVE  PurchaseInv'
<1> USE DEF PurchaseInv, AbandonCreate
<1>1. LedgerInv'
    BY LedgerUnchanged
<1>2. TypeOK'
    BY <1>1, PurchaseConstants DEF LedgerInv, TypeOK, PayStatus, LinkState, CreatorState, WorkerState, CancelState, OrderState, Notice, Cancellation
<1>3. WorkerInv'
    BY PurchaseConstants DEF WorkerInv, CancelInv, NoticeInv, PaymentInv, Settled, TypeOK, Notice
<1>4. CancelInv'
    BY PurchaseConstants DEF WorkerInv, CancelInv, PaymentInv, Settled, TypeOK
<1>5. NoticeInv'
    BY DEF NoticeInv, PaymentInv, Settled, TypeOK, Notice
<1>6. PaymentInv'
    BY DEF WorkerInv, CancelInv, PaymentInv, Settled, TypeOK
<1>7. TicketInv'
    BY TicketsUnchanged DEF CancelInv, PaymentInv, TicketInv, TypeOK
<1> QED BY <1>1, <1>2, <1>3, <1>4, <1>5, <1>6, <1>7

LEMMA CustomerPaysKeeps ==
    ASSUME PurchaseInv, NEW p \in Payments, CustomerPays(p)
    PROVE  PurchaseInv'
<1> USE DEF PurchaseInv, CustomerPays, Notify
<1>1. LedgerInv'
    BY LedgerUnchanged
<1>2. TypeOK'
    BY <1>1, PurchaseConstants DEF LedgerInv, TypeOK, PayStatus, LinkState, CreatorState, WorkerState, CancelState, OrderState, Notice, Cancellation
<1>3. WorkerInv'
    BY PurchaseConstants DEF WorkerInv, CancelInv, NoticeInv, PaymentInv, Settled, TypeOK, Notice
<1>4. CancelInv'
    BY PurchaseConstants DEF WorkerInv, CancelInv, PaymentInv, Settled, TypeOK
<1>5. NoticeInv'
    BY DEF NoticeInv, PaymentInv, Settled, TypeOK, Notice
<1>6. PaymentInv'
    BY DEF WorkerInv, CancelInv, PaymentInv, Settled, TypeOK
<1>7. TicketInv'
    BY TicketsUnchanged DEF CancelInv, PaymentInv, TicketInv, TypeOK
<1> QED BY <1>1, <1>2, <1>3, <1>4, <1>5, <1>6, <1>7

LEMMA ReceiveNoticeKeeps ==
    ASSUME PurchaseInv, NEW w \in Webhooks, NEW n \in notices, ReceiveNotice(w, n)
    PROVE  PurchaseInv'
<1> USE DEF PurchaseInv, ReceiveNotice, Payable
<1>1. LedgerInv'
    BY LedgerUnchanged
<1>2. TypeOK'
    BY <1>1, PurchaseConstants DEF LedgerInv, TypeOK, PayStatus, LinkState, CreatorState, WorkerState, CancelState, OrderState, Notice, Cancellation
<1>3. WorkerInv'
    BY PurchaseConstants DEF WorkerInv, CancelInv, NoticeInv, PaymentInv, Settled, TypeOK, Notice
<1>4. CancelInv'
    BY PurchaseConstants DEF WorkerInv, CancelInv, PaymentInv, Settled, TypeOK
<1>5. NoticeInv'
    BY DEF NoticeInv, PaymentInv, Settled, TypeOK, Notice
<1>6. PaymentInv'
    BY DEF WorkerInv, CancelInv, PaymentInv, Settled, TypeOK
<1>7. TicketInv'
    BY TicketsUnchanged DEF CancelInv, PaymentInv, TicketInv, TypeOK
<1> QED BY <1>1, <1>2, <1>3, <1>4, <1>5, <1>6, <1>7

LEMMA UpdatePaidKeeps ==
    ASSUME PurchaseInv, NEW w \in Webhooks, UpdatePaid(w)
    PROVE  PurchaseInv'
<1> USE DEF PurchaseInv, UpdatePaid
<1>1. LedgerInv'
    BY LedgerUnchanged
<1>2. TypeOK'
    BY <1>1, PurchaseConstants DEF LedgerInv, TypeOK, PayStatus, LinkState, CreatorState, WorkerState, CancelState, OrderState, Notice, Cancellation
<1>3. WorkerInv'
    BY PurchaseConstants DEF WorkerInv, CancelInv, NoticeInv, PaymentInv, Settled, TypeOK, Notice
<1>4. CancelInv'
    BY PurchaseConstants DEF WorkerInv, CancelInv, PaymentInv, Settled, TypeOK
<1>5. NoticeInv'
    BY DEF NoticeInv, PaymentInv, Settled, TypeOK, Notice
<1>6. PaymentInv'
    BY DEF WorkerInv, CancelInv, PaymentInv, Settled, TypeOK
<1>7. TicketInv'
    BY TicketsUnchanged DEF CancelInv, PaymentInv, TicketInv, TypeOK
<1> QED BY <1>1, <1>2, <1>3, <1>4, <1>5, <1>6, <1>7

LEMMA WebhookErrorKeeps ==
    ASSUME PurchaseInv, NEW w \in Webhooks, WebhookError(w)
    PROVE  PurchaseInv'
<1> USE DEF PurchaseInv, WebhookError, Unlocked
<1>1. LedgerInv'
    BY LedgerUnchanged
<1>2. TypeOK'
    BY <1>1, PurchaseConstants DEF LedgerInv, TypeOK, PayStatus, LinkState, CreatorState, WorkerState, CancelState, OrderState, Notice, Cancellation
<1>3. WorkerInv'
    BY PurchaseConstants DEF WorkerInv, CancelInv, NoticeInv, PaymentInv, Settled, TypeOK, Notice
<1>4. CancelInv'
    BY PurchaseConstants DEF WorkerInv, CancelInv, PaymentInv, Settled, TypeOK
<1>5. NoticeInv'
    BY DEF NoticeInv, PaymentInv, Settled, TypeOK, Notice
<1>6. PaymentInv'
    BY DEF WorkerInv, CancelInv, PaymentInv, Settled, TypeOK
<1>7. TicketInv'
    BY TicketsUnchanged DEF CancelInv, PaymentInv, TicketInv, TypeOK
<1> QED BY <1>1, <1>2, <1>3, <1>4, <1>5, <1>6, <1>7

LEMMA ReplySuccessKeeps ==
    ASSUME PurchaseInv, NEW w \in Webhooks, ReplySuccess(w)
    PROVE  PurchaseInv'
<1> USE DEF PurchaseInv, ReplySuccess, IdleWorker
<1>1. LedgerInv'
    BY LedgerUnchanged
<1>2. TypeOK'
    BY <1>1 DEF LedgerInv, WorkerInv, TypeOK, PayStatus, LinkState, CreatorState, WorkerState, CancelState, OrderState, Notice, Cancellation
<1>3. WorkerInv'
    BY PurchaseConstants DEF WorkerInv, CancelInv, NoticeInv, PaymentInv, Settled, TypeOK, Notice
<1>4. CancelInv'
    BY PurchaseConstants DEF WorkerInv, CancelInv, PaymentInv, Settled, TypeOK
<1>5. NoticeInv'
    BY DEF NoticeInv, PaymentInv, Settled, TypeOK, Notice
<1>6. PaymentInv'
    BY DEF WorkerInv, CancelInv, PaymentInv, Settled, TypeOK
<1>7. TicketInv'
    BY TicketsUnchanged DEF CancelInv, PaymentInv, TicketInv, TypeOK
<1> QED BY <1>1, <1>2, <1>3, <1>4, <1>5, <1>6, <1>7

LEMMA CrashWebhookKeeps ==
    ASSUME PurchaseInv, NEW w \in Webhooks, CrashWebhook(w)
    PROVE  PurchaseInv'
<1> USE DEF PurchaseInv, CrashWebhook, Unlocked, IdleWorker
<1>1. LedgerInv'
    BY LedgerUnchanged
<1>2. TypeOK'
    BY <1>1, PurchaseConstants DEF LedgerInv, TypeOK, PayStatus, LinkState, CreatorState, WorkerState, CancelState, OrderState, Notice, Cancellation
<1>3. WorkerInv'
    BY PurchaseConstants DEF WorkerInv, CancelInv, NoticeInv, PaymentInv, Settled, TypeOK, Notice
<1>4. CancelInv'
    BY PurchaseConstants DEF WorkerInv, CancelInv, PaymentInv, Settled, TypeOK
<1>5. NoticeInv'
    BY DEF NoticeInv, PaymentInv, Settled, TypeOK, Notice
<1>6. PaymentInv'
    BY DEF WorkerInv, CancelInv, PaymentInv, Settled, TypeOK
<1>7. TicketInv'
    BY TicketsUnchanged DEF CancelInv, PaymentInv, TicketInv, TypeOK
<1> QED BY <1>1, <1>2, <1>3, <1>4, <1>5, <1>6, <1>7

LEMMA ReadPaymentKeeps ==
    ASSUME PurchaseInv, NEW x \in Cancels, NEW p \in Payments, ReadPayment(x, p)
    PROVE  PurchaseInv'
<1> USE DEF PurchaseInv, ReadPayment
<1>1. LedgerInv'
    BY LedgerUnchanged
<1>2. TypeOK'
    BY <1>1, PurchaseConstants DEF LedgerInv, TypeOK, PayStatus, LinkState, CreatorState, WorkerState, CancelState, OrderState, Notice, Cancellation
<1>3. WorkerInv'
    BY PurchaseConstants DEF WorkerInv, CancelInv, NoticeInv, PaymentInv, Settled, TypeOK, Notice
<1>4. CancelInv'
    <2>1. /\ cancel'[x].payment = p
          /\ cancel'[x].link = link[p]
          /\ cancel'[x].pc \in {"refund", "save"}
          /\ cancel'[x].wasPaid => pay[p] = "PAID"
          /\ cancel'[x].pc = "refund" => cancel'[x].wasPaid
          /\ cancel'[x].pc = "save" => ~cancel'[x].wasPaid
        BY DEF TypeOK
    <2>2. \A y \in Cancels \ {x} : cancel'[y] = cancel[y]
        BY DEF TypeOK
    <2> QED BY <2>1, <2>2 DEF CancelInv, PaymentInv
<1>5. NoticeInv'
    BY DEF NoticeInv, PaymentInv, Settled, TypeOK, Notice
<1>6. PaymentInv'
    BY DEF WorkerInv, CancelInv, PaymentInv, Settled, TypeOK
<1>7. TicketInv'
    BY TicketsUnchanged DEF CancelInv, PaymentInv, TicketInv, TypeOK
<1> QED BY <1>1, <1>2, <1>3, <1>4, <1>5, <1>6, <1>7

LEMMA PayAppRefundsKeeps ==
    ASSUME PurchaseInv, NEW x \in Cancels, PayAppRefunds(x)
    PROVE  PurchaseInv'
<1> USE DEF PurchaseInv, PayAppRefunds, Notify
<1>1. LedgerInv'
    BY LedgerUnchanged
<1>2. TypeOK'
    <2>1. cancel[x].payment \in Payments
        BY DEF CancelInv
    <2>2. cancel' \in [Cancels -> Cancellation]
        <3>1. \/ cancel' = [cancel EXCEPT ![x].pc = "save"]
              \/ cancel' = [cancel EXCEPT ![x] = IdleCancel]
            OBVIOUS
        <3>2. TypeOK /\ "save" \in CancelState
            BY DEF CancelState
        <3> QED BY ONLY <3>1, <3>2, CancelTypes, x \in Cancels
    <2> QED BY <1>1, <2>1, <2>2 DEF LedgerInv, TypeOK, OrderState, Notice, Cancellation
<1>3. WorkerInv'
    BY PurchaseConstants DEF WorkerInv, CancelInv, NoticeInv, PaymentInv, Settled, TypeOK, Notice
<1>4. CancelInv'
    <2>1. \A y \in Cancels \ {x} : cancel'[y] = cancel[y]
        BY DEF TypeOK
    <2>2. \/ cancel'[x] = IdleCancel
          \/ cancel'[x] = [cancel[x] EXCEPT !.pc = "save"]
        BY DEF TypeOK
    <2>3. order' = [order EXCEPT ![cancel[x].payment] = "REFUNDED"]
        OBVIOUS
    <2>4. cancel[x] \in Cancellation /\ cancel[x].pc = "refund"
        BY DEF TypeOK
    <2>5. UNCHANGED <<creator, grants, rowLock>>
        OBVIOUS
    <2>6. cancel[x].payment \in Payments /\ order \in [Payments -> OrderState]
        BY <2>4 DEF CancelInv, TypeOK
    <2> QED BY <2>1, <2>2, <2>3, <2>4, <2>5, <2>6 DEF CancelInv, IdleCancel, Cancellation
<1>5. NoticeInv'
    BY DEF NoticeInv, PaymentInv, Settled, TypeOK, Notice
<1>6. PaymentInv'
    BY DEF WorkerInv, CancelInv, PaymentInv, Settled, TypeOK
<1>7. TicketInv'
    BY TicketsUnchanged DEF CancelInv, PaymentInv, TicketInv, TypeOK
<1> QED BY <1>1, <1>2, <1>3, <1>4, <1>5, <1>6, <1>7

LEMMA PayAppRefusesKeeps ==
    ASSUME PurchaseInv, NEW x \in Cancels, PayAppRefuses(x)
    PROVE  PurchaseInv'
<1> USE DEF PurchaseInv, PayAppRefuses, IdleCancel
<1>1. LedgerInv'
    BY LedgerUnchanged
<1>2. TypeOK'
    BY <1>1, PurchaseConstants DEF LedgerInv, TypeOK, PayStatus, LinkState, CreatorState, WorkerState, CancelState, OrderState, Notice, Cancellation
<1>3. WorkerInv'
    BY PurchaseConstants DEF WorkerInv, CancelInv, NoticeInv, PaymentInv, Settled, TypeOK, Notice
<1>4. CancelInv'
    BY PurchaseConstants DEF WorkerInv, CancelInv, PaymentInv, Settled, TypeOK
<1>5. NoticeInv'
    BY DEF NoticeInv, PaymentInv, Settled, TypeOK, Notice
<1>6. PaymentInv'
    BY DEF WorkerInv, CancelInv, PaymentInv, Settled, TypeOK
<1>7. TicketInv'
    BY TicketsUnchanged DEF CancelInv, PaymentInv, TicketInv, TypeOK
<1> QED BY <1>1, <1>2, <1>3, <1>4, <1>5, <1>6, <1>7

LEMMA CancelRequestedKeeps ==
    ASSUME PurchaseInv, NEW x \in Cancels, CancelRequested(x)
    PROVE  PurchaseInv'
<1> USE DEF PurchaseInv, CancelRequested, WriteCancelled, IdleCancel
<1>1. LedgerInv'
    BY LedgerUnchanged
<1>2. TypeOK'
    BY <1>1, PurchaseConstants DEF LedgerInv, TypeOK, PayStatus, LinkState, CreatorState, WorkerState, CancelState, OrderState, Notice, Cancellation
<1>3. WorkerInv'
    BY PurchaseConstants DEF WorkerInv, CancelInv, NoticeInv, PaymentInv, Settled, TypeOK, Notice
<1>4. CancelInv'
    BY PurchaseConstants DEF WorkerInv, CancelInv, PaymentInv, Settled, TypeOK
<1>5. NoticeInv'
    BY DEF NoticeInv, PaymentInv, Settled, TypeOK, Notice
<1>6. PaymentInv'
    <2> DEFINE q == cancel[x].payment
    <2>1. q \in Payments /\ (cancel[x].link # "none" => creator[q] = "shown")
        BY DEF CancelInv
    <2>2. pay' = [pay EXCEPT ![q] = "CANCELLED"] /\ link' = [link EXCEPT ![q] = cancel[x].link]
        OBVIOUS
    <2>3. creator[q] # "start"
        BY DEF CancelInv
    <2> QED BY <2>1, <2>2, <2>3 DEF PaymentInv, Settled, TypeOK
<1>7. TicketInv'
    BY TicketsUnchanged DEF CancelInv, PaymentInv, TicketInv, TypeOK
<1> QED BY <1>1, <1>2, <1>3, <1>4, <1>5, <1>6, <1>7

LEMMA SaveCancelledKeeps ==
    ASSUME PurchaseInv, NEW x \in Cancels, SaveCancelled(x)
    PROVE  PurchaseInv'
<1> USE DEF PurchaseInv, SaveCancelled
<1>1. LedgerInv'
    BY LedgerUnchanged
<1>2. TypeOK'
    <2>1. cancel' \in [Cancels -> Cancellation]
        BY CancelTypes DEF TypeOK, CancelState
    <2>2. rowLock' \in [Payments -> Webhooks \cup Cancels \cup {Free}]
        BY DEF TypeOK
    <2> QED BY <1>1, <2>1, <2>2 DEF LedgerInv, TypeOK
<1>3. WorkerInv'
    BY PurchaseConstants DEF WorkerInv, CancelInv, NoticeInv, PaymentInv, Settled, TypeOK, Notice
<1>4. CancelInv'
    BY PurchaseConstants DEF WorkerInv, CancelInv, PaymentInv, Settled, TypeOK
<1>5. NoticeInv'
    BY DEF NoticeInv, PaymentInv, Settled, TypeOK, Notice
<1>6. PaymentInv'
    BY DEF WorkerInv, CancelInv, PaymentInv, Settled, TypeOK
<1>7. TicketInv'
    BY TicketsUnchanged DEF CancelInv, PaymentInv, TicketInv, TypeOK
<1> QED BY <1>1, <1>2, <1>3, <1>4, <1>5, <1>6, <1>7

LEMMA CountUsedKeeps ==
    ASSUME PurchaseInv, NEW x \in Cancels, CountUsed(x)
    PROVE  PurchaseInv'
<1> USE DEF PurchaseInv, CountUsed, Unlocked, IdleCancel
<1>1. LedgerInv'
    BY LedgerUnchanged
<1>2. TypeOK'
    <2>3. TypeOK /\ "expire" \in CancelState
        BY DEF CancelState
    <2>4. /\ [cancel EXCEPT ![x] = IdleCancel] \in [Cancels -> Cancellation]
          /\ [cancel EXCEPT ![x].pc = "expire"] \in [Cancels -> Cancellation]
        BY <2>3, CancelTypes
    <2>1. cancel' \in [Cancels -> Cancellation]
        BY <2>4
    <2>2. rowLock' \in [Payments -> Webhooks \cup Cancels \cup {Free}]
        BY DEF TypeOK
    <2> QED BY <1>1, <2>1, <2>2 DEF LedgerInv, TypeOK
<1>3. WorkerInv'
    BY PurchaseConstants DEF WorkerInv, CancelInv, NoticeInv, PaymentInv, Settled, TypeOK, Notice
<1>4. CancelInv'
    <2>1. CASE TicketsOf(cancel[x].payment) \cap Used = {}
        <3>1. \A y \in Cancels \ {x} : cancel'[y] = cancel[y]
            BY DEF TypeOK
        <3>2. cancel'[x] = [cancel[x] EXCEPT !.pc = "expire"] /\ UNCHANGED rowLock
            BY <2>1 DEF TypeOK
        <3>3. cancel[x] \in Cancellation /\ cancel[x].pc = "count"
            BY DEF TypeOK
        <3> QED BY <3>1, <3>2, <3>3 DEF CancelInv, Cancellation
    <2>2. CASE TicketsOf(cancel[x].payment) \cap Used # {}
        BY <2>2 DEF CancelInv, TypeOK
    <2> QED BY <2>1, <2>2
<1>5. NoticeInv'
    BY DEF NoticeInv, PaymentInv, Settled, TypeOK, Notice
<1>6. PaymentInv'
    BY DEF WorkerInv, CancelInv, PaymentInv, Settled, TypeOK
<1>7. TicketInv'
    BY TicketsUnchanged DEF CancelInv, PaymentInv, TicketInv, TypeOK
<1> QED BY <1>1, <1>2, <1>3, <1>4, <1>5, <1>6, <1>7

LEMMA AbortCancelKeeps ==
    ASSUME PurchaseInv, NEW x \in Cancels, AbortCancel(x)
    PROVE  PurchaseInv'
<1> USE DEF PurchaseInv, AbortCancel, Unlocked, IdleCancel
<1>1. LedgerInv'
    BY LedgerUnchanged
<1>2. TypeOK'
    BY <1>1, PurchaseConstants DEF LedgerInv, TypeOK, PayStatus, LinkState, CreatorState, WorkerState, CancelState, OrderState, Notice, Cancellation
<1>3. WorkerInv'
    BY PurchaseConstants DEF WorkerInv, CancelInv, NoticeInv, PaymentInv, Settled, TypeOK, Notice
<1>4. CancelInv'
    BY PurchaseConstants DEF WorkerInv, CancelInv, PaymentInv, Settled, TypeOK
<1>5. NoticeInv'
    BY DEF NoticeInv, PaymentInv, Settled, TypeOK, Notice
<1>6. PaymentInv'
    BY DEF WorkerInv, CancelInv, PaymentInv, Settled, TypeOK
<1>7. TicketInv'
    BY TicketsUnchanged DEF CancelInv, PaymentInv, TicketInv, TypeOK
<1> QED BY <1>1, <1>2, <1>3, <1>4, <1>5, <1>6, <1>7

\* Two disjoint batches of tickets: the rows of p before, and the rows issued.
LEMMA IssuedTickets ==
    ASSUME LedgerInv, NEW p \in Payments, NEW ids \in SUBSET Tickets,
           Cardinality(ids) = Qty, Issue(p, ids)
    PROVE  /\ Cardinality(TicketsOf(p)') = Cardinality(TicketsOf(p)) + Qty
           /\ \A q \in Payments \ {p} : TicketsOf(q)' = TicketsOf(q)
           /\ \A q \in Payments \ {p} : \A t \in TicketsOf(q) : status'[t] = status[t]
<1> USE PurchaseConstants, LedgerConstants
<1>1. \A t \in ids : status[t] = "NONE" /\ source[t] = NoSource
    BY DEF Issue, LedgerInv, UnissuedHaveNoSource
<1>2. source' = [t \in Tickets |-> IF t \in ids THEN p ELSE source[t]]
    BY DEF Issue
<1>3. TicketsOf(p)' = TicketsOf(p) \cup ids /\ TicketsOf(p) \cap ids = {}
    BY <1>1, <1>2 DEF TicketsOf
<1>4. IsFiniteSet(TicketsOf(p)) /\ IsFiniteSet(ids)
    BY FS_Subset DEF TicketsOf
<1>5. Cardinality(TicketsOf(p) \cup ids) =
        Cardinality(TicketsOf(p)) + Cardinality(ids) - Cardinality(TicketsOf(p) \cap ids)
    BY <1>4, FS_Union
<1>6. Cardinality(TicketsOf(p)) \in Nat
    BY <1>4, FS_CardinalityType
<1>7. Cardinality(TicketsOf(p)') = Cardinality(TicketsOf(p)) + Qty
    <2>1. Cardinality(TicketsOf(p) \cap ids) = 0
        BY <1>3, FS_EmptySet
    <2> QED BY <1>3, <1>5, <1>6, <2>1
<1>8. \A q \in Payments \ {p} : TicketsOf(q)' = TicketsOf(q)
    BY <1>1, <1>2 DEF TicketsOf
<1>9. \A q \in Payments \ {p} : \A t \in TicketsOf(q) : status'[t] = status[t]
    BY <1>1 DEF TicketsOf, Issue
<1> QED BY <1>7, <1>8, <1>9

LEMMA IssueTicketsKeeps ==
    ASSUME PurchaseInv, NEW w \in Webhooks, IssueTickets(w)
    PROVE  PurchaseInv'
<1> USE DEF PurchaseInv
<1>0. PICK p \in Payments : p = worker[w].notice.payment
    BY DEF IssueTickets, WorkerInv, Notice
<1>1. /\ creator[p] = "shown" /\ Settled(p)
      /\ rowLock[p] = w /\ pay[p] = "REQUESTED" /\ grants[p] = 0
    BY <1>0 DEF IssueTickets, WorkerInv, PaymentInv
<1>2. PICK ids \in SUBSET Tickets : Cardinality(ids) = Qty /\ Issue(p, ids)
    BY <1>0 DEF IssueTickets
<1>3. /\ pay' = [pay EXCEPT ![p] = "PAID"]
      /\ grants' = [grants EXCEPT ![p] = @ + 1]
      /\ rowLock' = [rowLock EXCEPT ![p] = Free]
      /\ worker' = [worker EXCEPT ![w].pc = "reply"]
      /\ UNCHANGED <<link, creator, cancel, order, notices, answered, revoked, crashes>>
    BY <1>0 DEF IssueTickets
<1>4. LedgerInv'
    BY <1>1, <1>2, PurchaseConstants, IssueKeepsInv
<1>5. TypeOK'
    BY <1>1, <1>3, <1>4 DEF LedgerInv, TypeOK, PayStatus, WorkerState
<1>6. WorkerInv'
    <2>1. /\ worker'[w] = [worker[w] EXCEPT !.pc = "reply"]
          /\ \A v \in Webhooks \ {w} : worker'[v] = worker[v]
        BY <1>3 DEF TypeOK
    <2>2. worker'[w].pc = "reply" /\ worker'[w].notice = worker[w].notice
        BY <2>1 DEF TypeOK
    <2>3. worker[w].notice \in Notice
        BY DEF IssueTickets, WorkerInv
    <2> QED BY <1>0, <1>1, <1>3, <2>1, <2>2, <2>3 DEF WorkerInv, Settled, TypeOK, Notice
<1>7. CancelInv'
    BY <1>1, <1>3, PurchaseConstants DEF CancelInv, TypeOK
<1>8. NoticeInv'
    BY <1>3 DEF NoticeInv, Settled
<1>9. PaymentInv'
    BY <1>1, <1>3 DEF PaymentInv, Settled, TypeOK
<1>10. TicketInv'
    <2>1. /\ Cardinality(TicketsOf(p)') = Cardinality(TicketsOf(p)) + Qty
          /\ \A q \in Payments \ {p} : TicketsOf(q)' = TicketsOf(q)
          /\ \A q \in Payments \ {p} : \A t \in TicketsOf(q) : status'[t] = status[t]
        BY <1>1, <1>2, IssuedTickets
    <2>2. Cardinality(TicketsOf(p)) = Qty * 0 /\ grants'[p] = 1
        BY <1>1, <1>3 DEF TicketInv, TypeOK
    <2>3. Cardinality(TicketsOf(p)') = Qty * 1
        BY <2>1, <2>2, PurchaseConstants
    <2>4. \A q \in Payments \ {p} : Cardinality(TicketsOf(q)') = Qty * grants'[q]
        BY <1>1, <1>3, <2>1 DEF TicketInv, TypeOK
    <2>5. \A q \in revoked : q \in Payments /\ q # p
        BY <1>1 DEF TicketInv, TypeOK
    <2>6. \A q \in revoked' :
            /\ order'[q] = "REFUNDED" /\ pay'[q] = "CANCELLED"
            /\ \A t \in TicketsOf(q)' : status'[t] # "AVAILABLE"
        BY <1>1, <1>3, <2>1, <2>5 DEF TicketInv, TypeOK
    <2> QED BY <1>3, <2>2, <2>3, <2>4, <2>6 DEF TicketInv
<1> QED BY <1>4, <1>5, <1>6, <1>7, <1>8, <1>9, <1>10

LEMMA RevokeTicketsKeeps ==
    ASSUME PurchaseInv, NEW x \in Cancels, RevokeTickets(x)
    PROVE  PurchaseInv'
<1> DEFINE p == cancel[x].payment
           rows == {t \in TicketsOf(p) : status[t] = "AVAILABLE"}
<1> USE DEF PurchaseInv
<1>1. /\ p \in Payments /\ creator[p] # "start" /\ grants[p] = 1 /\ order[p] = "REFUNDED"
      /\ rowLock[p] = x /\ creator[p] = "shown"
    BY DEF RevokeTickets, CancelInv, PaymentInv
<1>2. /\ pay' = [pay EXCEPT ![p] = "CANCELLED"]
      /\ link' = [link EXCEPT ![p] = cancel[x].link]
      /\ cancel' = [cancel EXCEPT ![x] = IdleCancel]
      /\ revoked' = revoked \cup {p}
      /\ rowLock' = [rowLock EXCEPT ![p] = Free]
      /\ UNCHANGED <<grants, creator, worker, order, notices, answered, crashes>>
    BY DEF RevokeTickets, WriteCancelled
<1>3. /\ ExpireRows(rows)
      /\ rows \in SUBSET Tickets
      /\ \A t \in rows : status[t] = "AVAILABLE"
    BY DEF RevokeTickets, RevokeAvailable, TicketsOf
<1>4. /\ source' = source
      /\ \A t \in TicketsOf(p) : status'[t] # "AVAILABLE"
      /\ \A t \in Tickets : status'[t] = "AVAILABLE" => status[t] = "AVAILABLE"
    BY <1>3 DEF ExpireRows, TicketsOf
<1>5. \A q : TicketsOf(q)' = TicketsOf(q)
    BY <1>4 DEF TicketsOf
<1> HIDE DEF p, rows
<1>6. LedgerInv'
    BY <1>3, ExpireKeepsInv
<1>7. TypeOK'
    <2>1. cancel[x].link \in LinkState
        BY DEF TypeOK, Cancellation
    <2> QED BY <1>1, <1>2, <1>6, <2>1, CancelTypes DEF LedgerInv, TypeOK, PayStatus
<1>8. WorkerInv'
    BY <1>1, <1>2, PurchaseConstants DEF WorkerInv, Settled, TypeOK, Notice
<1>9. CancelInv'
    <2>1. cancel'[x].pc = "idle" /\ \A y \in Cancels \ {x} : cancel'[y] = cancel[y]
        BY <1>2 DEF TypeOK, IdleCancel
    <2>2. cancel' \in [Cancels -> Cancellation]
        BY <1>7 DEF TypeOK
    <2> QED BY <1>1, <1>2, <2>1, <2>2, PurchaseConstants
            DEF CancelInv, TypeOK, Cancellation, IdleCancel
<1>10. NoticeInv'
    BY <1>2 DEF NoticeInv, Settled
<1>11. PaymentInv'
    BY <1>1, <1>2 DEF PaymentInv, Settled, TypeOK
<1>12. TicketInv'
    <2>1. \A q \in Payments : Cardinality(TicketsOf(q)') = Qty * grants'[q]
        BY <1>2, <1>5 DEF TicketInv
    <2>2. \A q \in revoked' : order'[q] = "REFUNDED" /\ pay'[q] = "CANCELLED"
        BY <1>1, <1>2 DEF TicketInv, TypeOK
    <2>3. \A q : TicketsOf(q) \subseteq Tickets
        BY DEF TicketsOf
    <2>6. \A q \in revoked : \A t \in TicketsOf(q) : status[t] # "AVAILABLE"
        BY DEF TicketInv, TypeOK
    <2>4. \A q \in revoked' : \A t \in TicketsOf(q) : status'[t] # "AVAILABLE"
        BY <1>2, <1>4, <2>3, <2>6
    <2>5. \A q \in revoked' : \A t \in TicketsOf(q)' : status'[t] # "AVAILABLE"
        BY <1>5, <2>4
    <2> QED BY <2>1, <2>2, <2>5 DEF TicketInv
<1> QED BY <1>6, <1>7, <1>8, <1>9, <1>10, <1>11, <1>12

\* Spending leaves the payments alone and makes no ticket AVAILABLE.
LEMMA SpendTickets ==
    ASSUME LedgerInv, SpendStep
    PROVE  /\ source' = source
           /\ \A t \in Tickets : status'[t] = "AVAILABLE" => status[t] = "AVAILABLE"
<1> USE DEF LedgerInv, LedgerTypeOK
<1>1. CASE ExpireOutdated
    BY <1>1 DEF ExpireOutdated, ExpireRows
<1>2. CASE DeleteItem \/ Tick
    BY <1>2 DEF DeleteItem, Tick
<1>3. ASSUME NEW r \in Requests, CreateItem(r)
      PROVE  /\ source' = source
             /\ \A t \in Tickets : status'[t] = "AVAILABLE" => status[t] = "AVAILABLE"
    BY <1>3 DEF CreateItem
<1> QED BY <1>1, <1>2, <1>3 DEF SpendStep, ConsumeTicket, ValidateCreation, AbortCreation

LEMMA SpendKeeps ==
    ASSUME PurchaseInv, SpendStep, UNCHANGED payVars
    PROVE  PurchaseInv'
<1> USE DEF PurchaseInv, payVars
<1>1. LedgerInv'
    BY SpendKeepsInv
<1>2. TypeOK'
    BY <1>1 DEF LedgerInv, TypeOK
<1>3. WorkerInv' /\ CancelInv' /\ NoticeInv' /\ PaymentInv'
    BY DEF WorkerInv, CancelInv, NoticeInv, PaymentInv, Settled
<1>4. TicketInv'
    <2>1. \A p : TicketsOf(p)' = TicketsOf(p)
        BY SpendTickets DEF TicketsOf
    <2>2. \A p : \A t \in TicketsOf(p) : status'[t] = "AVAILABLE" => status[t] = "AVAILABLE"
        BY SpendTickets DEF TicketsOf
    <2> QED BY <2>1, <2>2 DEF TicketInv
<1> QED BY <1>1, <1>2, <1>3, <1>4
-------------------------------------------------------------------------------
LEMMA PurchaseInvInit == Init => PurchaseInv
<1> SUFFICES ASSUME Init PROVE PurchaseInv
    OBVIOUS
<1>1. LedgerInv
    BY LedgerInvInit DEF Init
<1>2. TypeOK
    BY <1>1, PurchaseConstants
    DEF Init, LedgerInv, TypeOK, IdleWorker, IdleCancel, PayStatus, LinkState, CreatorState,
        WorkerState, CancelState, OrderState, Cancellation
<1>3. WorkerInv /\ CancelInv /\ NoticeInv /\ PaymentInv
    BY DEF Init, WorkerInv, CancelInv, NoticeInv, PaymentInv, IdleWorker, IdleCancel
<1>4. TicketInv
    <2>1. \A p \in Payments : TicketsOf(p) = {}
        BY LedgerConstants, PurchaseConstants DEF Init, LedgerInit, TicketsOf
    <2>2. Cardinality({}) = Qty * 0
        BY FS_EmptySet, PurchaseConstants
    <2> QED BY <2>1, <2>2 DEF Init, TicketInv
<1> QED BY <1>1, <1>2, <1>3, <1>4 DEF PurchaseInv

LEMMA PurchaseInvStep == PurchaseInv /\ [Next]_vars => PurchaseInv'
<1> SUFFICES ASSUME PurchaseInv, [Next]_vars PROVE PurchaseInv'
    OBVIOUS
<1>1. ASSUME NEW p \in Payments, CreateStep(p) \/ CustomerPays(p)
      PROVE  PurchaseInv'
    BY <1>1, InsertPaymentKeeps, PayAppOpensKeeps, PayAppRejectsKeeps, SavePayResultKeeps,
       CompensateCreateKeeps, AbandonCreateKeeps, CustomerPaysKeeps
    DEF CreateStep
<1>2. ASSUME NEW w \in Webhooks, WebhookStep(w)
      PROVE  PurchaseInv'
    BY <1>2, ReceiveNoticeKeeps, UpdatePaidKeeps, IssueTicketsKeeps, WebhookErrorKeeps,
       ReplySuccessKeeps, CrashWebhookKeeps
    DEF WebhookStep
<1>3. ASSUME NEW x \in Cancels, CancelStep(x)
      PROVE  PurchaseInv'
    BY <1>3, ReadPaymentKeeps, PayAppRefundsKeeps, PayAppRefusesKeeps, CancelRequestedKeeps,
       SaveCancelledKeeps, CountUsedKeeps, RevokeTicketsKeeps, AbortCancelKeeps
    DEF CancelStep
<1>4. CASE SpendStep /\ UNCHANGED payVars
    BY <1>4, SpendKeeps
<1>5. CASE UNCHANGED vars
    <2>1. UNCHANGED payVars /\ UNCHANGED ledgerVars
        BY <1>5 DEF vars
    <2>2. LedgerInv' /\ TicketInv'
        BY <2>1, LedgerUnchanged, TicketsUnchanged DEF PurchaseInv, TypeOK, TicketInv, payVars
    <2> QED BY <2>1, <2>2 DEF PurchaseInv, payVars, LedgerInv, TypeOK, WorkerInv, CancelInv,
               NoticeInv, PaymentInv, Settled
<1> QED BY <1>1, <1>2, <1>3, <1>4, <1>5 DEF Next

\* The strengthened invariant of purchases.
THEOREM PurchaseInvariant == Spec => []PurchaseInv
BY PurchaseInvInit, PurchaseInvStep, PTL DEF Spec

\* Every variable of a purchase keeps its type.
THEOREM PurchaseTypeCorrect == Spec => []TypeOK
<1>1. PurchaseInv => TypeOK
    BY DEF PurchaseInv
<1> QED BY <1>1, PurchaseInvariant, PTL

\* A payment gets its Qty tickets at most once, for any number of duplicate
\* notices, concurrent webhooks, cancellations and crashes.
THEOREM CreditedAtMostOnce == Spec => []CreditedOnce
<1>1. PurchaseInv => CreditedOnce
    BY DEF PurchaseInv, PaymentInv, TicketInv, CreditedOnce
<1> QED BY <1>1, PurchaseInvariant, PTL

\* A row says PAID only when its tickets are out, and is payable only before.
THEOREM PaidRowsAreCredited == Spec => []PaidMeansCredited
<1>1. PurchaseInv => PaidMeansCredited
    BY DEF PurchaseInv, PaymentInv, PaidMeansCredited
<1> QED BY <1>1, PurchaseInvariant, PTL

\* A revoked credit stays revoked, and its money is with the customer.
THEOREM RevokedCreditIsFinal == Spec => []RevokedStaysRevoked
<1>1. PurchaseInv => RevokedStaysRevoked
    <2> SUFFICES ASSUME PurchaseInv, NEW p \in revoked
                 PROVE  /\ order[p] = "REFUNDED"
                        /\ pay[p] = "CANCELLED"
                        /\ \A t \in TicketsOf(p) : status[t] # "AVAILABLE"
        BY DEF RevokedStaysRevoked
    <2>1. p \in Payments
        BY DEF PurchaseInv, TypeOK
    <2> QED BY <2>1 DEF PurchaseInv, TicketInv
<1> QED BY <1>1, PurchaseInvariant, PTL
-------------------------------------------------------------------------------
\* Every step of a purchase is a step of the inventory, or leaves it alone.
LEMMA StepImplementsLedger == PurchaseInv /\ [Next]_vars => [LedgerNext]_ledgerVars
<1> SUFFICES ASSUME PurchaseInv, [Next]_vars PROVE [LedgerNext]_ledgerVars
    OBVIOUS
<1>1. ASSUME NEW w \in Webhooks, IssueTickets(w)
      PROVE  LedgerNext
    <2>1. worker[w].notice.payment \in Sources
        BY <1>1, PurchaseConstants DEF IssueTickets, PurchaseInv, WorkerInv, Notice
    <2> QED BY <1>1, <2>1 DEF IssueTickets, LedgerNext, SupplyStep
<1>2. ASSUME NEW x \in Cancels, RevokeTickets(x)
      PROVE  LedgerNext
    <2>1. cancel[x].payment \in Sources
        BY <1>2, PurchaseConstants DEF RevokeTickets, PurchaseInv, CancelInv
    <2> QED BY <1>2, <2>1 DEF RevokeTickets, LedgerNext, SupplyStep
<1>3. ASSUME NEW p \in Payments, CreateStep(p) \/ CustomerPays(p)
      PROVE  UNCHANGED ledgerVars
    BY <1>3 DEF CreateStep, InsertPayment, PayAppOpens, PayAppRejects, SavePayResult,
       CompensateCreate, AbandonCreate, CustomerPays
<1>4. ASSUME NEW w \in Webhooks, WebhookStep(w), ~IssueTickets(w)
      PROVE  UNCHANGED ledgerVars
    BY <1>4 DEF WebhookStep, ReceiveNotice, UpdatePaid, WebhookError, ReplySuccess,
       CrashWebhook
<1>5. ASSUME NEW x \in Cancels, CancelStep(x), ~RevokeTickets(x)
      PROVE  UNCHANGED ledgerVars
    BY <1>5 DEF CancelStep, ReadPayment, PayAppRefunds, PayAppRefuses, CancelRequested,
       SaveCancelled, CountUsed, AbortCancel
<1>6. UNCHANGED vars => UNCHANGED ledgerVars
    BY DEF vars
<1> QED BY <1>1, <1>2, <1>3, <1>4, <1>5, <1>6 DEF Next, LedgerNext

\* Purchases are an implementation of the ticket inventory, so what is proved of
\* every inventory (row locks, one ticket per item, finality) holds of this one.
THEOREM PurchaseImplementsLedger == Spec => ImplementsLedger
<1>1. Init => LedgerInit
    BY DEF Init
<1> QED BY <1>1, StepImplementsLedger, PurchaseInvariant, PTL
        DEF Spec, LedgerSpec, ImplementsLedger
-------------------------------------------------------------------------------
\* A step that leaves what PayApp holds and what has been issued alone.
LEMMA ContractStutter ==
    ASSUME UNCHANGED <<grants, revoked>>,
           \A p \in Payments : \/ order'[p] = order[p]
                               \/ {order[p], order'[p]} \cap {"PAID", "REFUNDED"} = {}
    PROVE  UNCHANGED <<money, credit>>
BY DEF money, credit

LEMMA StepImplementsContract ==
    PurchaseInv /\ [Next]_vars => [Contract!ContractNext]_(Contract!contractVars)
<1> SUFFICES ASSUME PurchaseInv, [Next]_vars
             PROVE  Contract!ContractNext \/ UNCHANGED <<money, credit>>
    BY DEF Contract!contractVars
<1> DEFINE Goal == Contract!ContractNext \/ UNCHANGED <<money, credit>>
<1>1. ASSUME UNCHANGED <<order, grants, revoked>>
      PROVE  Goal
    BY <1>1, ContractStutter
<1>2. ASSUME NEW p \in Payments, PayAppOpens(p)
      PROVE  Goal
    <2>1. order[p] \in {"NONE", "OPEN"} /\ order' = [order EXCEPT ![p] = "OPEN"]
        BY <1>2 DEF PurchaseInv, PaymentInv, PayAppOpens
    <2>2. UNCHANGED <<grants, revoked>>
        BY <1>2 DEF PayAppOpens
    <2> QED BY <2>1, <2>2, ContractStutter DEF PurchaseInv, TypeOK
<1>3. ASSUME NEW p \in Payments, CustomerPays(p)
      PROVE  Goal
    <2>1. order[p] = "OPEN" /\ UNCHANGED <<grants, revoked>>
        BY <1>3 DEF CustomerPays
    <2>2. CASE order' = [order EXCEPT ![p] = "PAID"]
        <3>1. Contract!Take(p)
            BY <2>1, <2>2 DEF Contract!Take, money, credit, PurchaseInv, TypeOK
        <3> QED BY <3>1 DEF Contract!ContractNext
    <2>3. CASE order' = [order EXCEPT ![p] = "MISPRICED"]
        BY <2>1, <2>3, ContractStutter DEF PurchaseInv, TypeOK
    <2> QED BY <1>3, <2>2, <2>3 DEF CustomerPays
<1>4. ASSUME NEW w \in Webhooks, IssueTickets(w)
      PROVE  Goal
    <2>1. PICK p \in Payments : p = worker[w].notice.payment
        BY <1>4 DEF IssueTickets, PurchaseInv, WorkerInv, Notice
    <2>2. grants[p] = 0 /\ order[p] = "PAID" /\ p \notin revoked
        BY <1>4, <2>1 DEF IssueTickets, PurchaseInv, WorkerInv, PaymentInv, TicketInv, Settled
    <2>3. grants' = [grants EXCEPT ![p] = @ + 1] /\ UNCHANGED <<order, revoked>>
        BY <1>4, <2>1 DEF IssueTickets
    <2>4. Contract!Credit(p)
        <3>1. UNCHANGED money
            BY <2>3 DEF money
        <3>2. money[p] = "taken" /\ credit[p] = "none"
            BY <2>2 DEF money, credit
        <3>3. \A q \in Payments :
                credit'[q] = IF q = p THEN "credited" ELSE credit[q]
            BY <2>2, <2>3 DEF credit, PurchaseInv, TypeOK
        <3>4. credit' = [credit EXCEPT ![p] = "credited"]
            BY <3>3 DEF credit
        <3> QED BY <3>1, <3>2, <3>4 DEF Contract!Credit
    <2> QED BY <2>4 DEF Contract!ContractNext
<1>5. ASSUME NEW x \in Cancels, PayAppRefunds(x)
      PROVE  Goal
    <2>1. PICK p \in Payments : p = cancel[x].payment
        BY <1>5 DEF PayAppRefunds, PurchaseInv, CancelInv
    <2>2. /\ order[p] = "PAID" /\ order' = [order EXCEPT ![p] = "REFUNDED"]
          /\ UNCHANGED <<grants, revoked>>
        BY <1>5, <2>1 DEF PayAppRefunds
    <2>3. Contract!Return(p)
        BY <2>2 DEF Contract!Return, money, credit, PurchaseInv, TypeOK
    <2> QED BY <2>3 DEF Contract!ContractNext
<1>6. ASSUME NEW x \in Cancels, RevokeTickets(x)
      PROVE  Goal
    <2>1. PICK p \in Payments : p = cancel[x].payment
        BY <1>6 DEF RevokeTickets, PurchaseInv, CancelInv
    <2>2. grants[p] = 1 /\ order[p] = "REFUNDED"
        BY <1>6, <2>1 DEF RevokeTickets, PurchaseInv, CancelInv
    <2>3. revoked' = revoked \cup {p} /\ UNCHANGED <<order, grants>>
        BY <1>6, <2>1 DEF RevokeTickets
    <2>4. CASE p \in revoked
        BY <1>1, <2>3, <2>4
    <2>5. CASE p \notin revoked
        <3>1. Contract!Revoke(p)
            <4>1. UNCHANGED money
                BY <2>3 DEF money
            <4>2. money[p] = "returned" /\ credit[p] = "credited"
                BY <2>2, <2>5 DEF money, credit
            <4>3. \A q \in Payments :
                    credit'[q] = IF q = p THEN "revoked" ELSE credit[q]
                BY <2>2, <2>3 DEF credit
            <4>4. credit' = [credit EXCEPT ![p] = "revoked"]
                BY <4>3 DEF credit
            <4> QED BY <4>1, <4>2, <4>4 DEF Contract!Revoke
        <3> QED BY <3>1 DEF Contract!ContractNext
    <2> QED BY <2>4, <2>5
<1>7. ASSUME NEW p \in Payments, CreateStep(p), ~PayAppOpens(p)
      PROVE  UNCHANGED <<order, grants, revoked>>
    BY <1>7 DEF CreateStep, InsertPayment, PayAppRejects, SavePayResult, CompensateCreate,
       AbandonCreate
<1>8. ASSUME NEW w \in Webhooks, WebhookStep(w), ~IssueTickets(w)
      PROVE  UNCHANGED <<order, grants, revoked>>
    BY <1>8 DEF WebhookStep, ReceiveNotice, UpdatePaid, WebhookError, ReplySuccess,
       CrashWebhook
<1>9. ASSUME NEW x \in Cancels, CancelStep(x), ~PayAppRefunds(x), ~RevokeTickets(x)
      PROVE  UNCHANGED <<order, grants, revoked>>
    BY <1>9 DEF CancelStep, ReadPayment, PayAppRefuses, CancelRequested, SaveCancelled,
       CountUsed, AbortCancel
<1>10. UNCHANGED vars \/ UNCHANGED payVars => UNCHANGED <<order, grants, revoked>>
    BY DEF vars, payVars
<1> HIDE DEF Goal
<1>11. Goal
    BY <1>1, <1>2, <1>3, <1>4, <1>5, <1>6, <1>7, <1>8, <1>9, <1>10 DEF Next
<1> QED BY <1>11 DEF Goal

\* The whole purchase, PayApp included, does what the contract says: tickets only
\* for money taken, once, and revoked only after the money went back.
THEOREM PurchaseImplementsContract == Spec => ImplementsContract
<1>1. Init => Contract!ContractInit
    BY DEF Init, Contract!ContractInit, money, credit
<1> QED BY <1>1, StepImplementsContract, PurchaseInvariant, PTL
        DEF Spec, ImplementsContract, Contract!ContractSpec
-------------------------------------------------------------------------------
(* What PayApp was answered.  A webhook that finds nothing to pay has found  *)
(* the tickets out, a number it does not know or a cancelled row, and each   *)
(* of these lasts once the customer has paid.                                *)

Resolved(p) == grants[p] = 1 \/ link[p] # "mulNo" \/ pay[p] = "CANCELLED"

AnsweredInv ==
    /\ \A p \in Payments : pay[p] = "NONE" => creator[p] = "start"
    /\ \A p \in answered : creator[p] = "shown" /\ Resolved(p)
    /\ \A w \in Webhooks :
        worker[w].pc = "reply" /\ worker[w].notice.kind = "paid" =>
            creator[worker[w].notice.payment] = "shown" /\ Resolved(worker[w].notice.payment)

\* A payment the API has shown stays shown, and resolved when it is.
LEMMA ResolvedLasts ==
    ASSUME PurchaseInv, [Next]_vars, NEW p \in Payments, creator[p] = "shown"
    PROVE  creator'[p] = "shown" /\ (Resolved(p) => Resolved(p)')
<1> USE DEF PurchaseInv, TypeOK
<1>1. CASE UNCHANGED <<creator, grants, link, pay>>
    BY <1>1 DEF Resolved
<1>2. ASSUME NEW q \in Payments, CreateStep(q)
      PROVE  creator'[p] = "shown" /\ UNCHANGED <<grants[p], link[p], pay[p]>>
    BY <1>2 DEF CreateStep, InsertPayment, PayAppOpens, PayAppRejects, SavePayResult,
       CompensateCreate, AbandonCreate
<1>3. ASSUME NEW w \in Webhooks, IssueTickets(w)
      PROVE  creator'[p] = "shown" /\ (Resolved(p) => Resolved(p)')
    <2>1. PICK q \in Payments : q = worker[w].notice.payment
        BY <1>3 DEF IssueTickets, WorkerInv, Notice
    <2>2. grants[q] = 0
        BY <1>3, <2>1 DEF IssueTickets, WorkerInv, PaymentInv
    <2>3. /\ grants' = [grants EXCEPT ![q] = @ + 1] /\ pay' = [pay EXCEPT ![q] = "PAID"]
          /\ UNCHANGED <<creator, link>>
        BY <1>3, <2>1 DEF IssueTickets
    <2> QED BY <2>2, <2>3 DEF Resolved
<1>4. ASSUME NEW x \in Cancels, WriteCancelled(x), UNCHANGED <<creator, grants>>
      PROVE  creator'[p] = "shown" /\ (Resolved(p) => Resolved(p)')
    BY <1>4 DEF WriteCancelled, Resolved
<1>5. ASSUME NEW x \in Cancels, CancelStep(x)
      PROVE  creator'[p] = "shown" /\ (Resolved(p) => Resolved(p)')
    <2>1. CASE CancelRequested(x) \/ RevokeTickets(x)
        BY <1>4, <2>1 DEF CancelRequested, RevokeTickets
    <2>2. CASE ~(CancelRequested(x) \/ RevokeTickets(x))
        BY <1>1, <1>5, <2>2 DEF CancelStep, ReadPayment, PayAppRefunds, PayAppRefuses,
           SaveCancelled, CountUsed, AbortCancel
    <2> QED BY <2>1, <2>2
<1>6. ASSUME NEW w \in Webhooks, WebhookStep(w), ~IssueTickets(w)
      PROVE  UNCHANGED <<creator, grants, link, pay>>
    BY <1>6 DEF WebhookStep, ReceiveNotice, UpdatePaid, WebhookError, ReplySuccess, CrashWebhook
<1>7. \/ \E q \in Payments : CustomerPays(q)
      \/ UNCHANGED vars \/ UNCHANGED payVars
      => UNCHANGED <<creator, grants, link, pay>>
    BY DEF CustomerPays, vars, payVars
<1>8. ASSUME NEW q \in Payments, CreateStep(q)
      PROVE  creator'[p] = "shown" /\ (Resolved(p) => Resolved(p)')
    BY <1>2, <1>8 DEF Resolved
<1> QED BY <1>1, <1>3, <1>5, <1>6, <1>7, <1>8 DEF Next

\* A row that exists keeps existing.
LEMMA RowsStay ==
    ASSUME PurchaseInv, [Next]_vars, \A p \in Payments : pay[p] = "NONE" => creator[p] = "start"
    PROVE  \A p \in Payments : pay'[p] = "NONE" => creator'[p] = "start"
<1> USE DEF PurchaseInv, TypeOK
<1>1. ASSUME NEW q \in Payments, CreateStep(q) \/ CustomerPays(q)
      PROVE  \A p \in Payments : pay'[p] = "NONE" => creator'[p] = "start"
    BY <1>1 DEF CreateStep, InsertPayment, PayAppOpens, PayAppRejects, SavePayResult,
       CompensateCreate, AbandonCreate, CustomerPays, PaymentInv
<1>2. ASSUME NEW w \in Webhooks, WebhookStep(w)
      PROVE  UNCHANGED creator /\ \A p \in Payments : pay'[p] \in {pay[p], "PAID"}
    BY <1>2 DEF WebhookStep, ReceiveNotice, UpdatePaid, IssueTickets, WebhookError, ReplySuccess,
       CrashWebhook
<1>3. ASSUME NEW x \in Cancels, CancelStep(x)
      PROVE  UNCHANGED creator /\ \A p \in Payments : pay'[p] \in {pay[p], "CANCELLED"}
    BY <1>3 DEF CancelStep, ReadPayment, PayAppRefunds, PayAppRefuses, CancelRequested,
       SaveCancelled, CountUsed, RevokeTickets, WriteCancelled, AbortCancel
<1>4. UNCHANGED vars \/ UNCHANGED payVars => UNCHANGED <<creator, pay>>
    BY DEF vars, payVars
<1> QED BY <1>1, <1>2, <1>3, <1>4 DEF Next

LEMMA AnsweredInvInit == Init => AnsweredInv
BY DEF Init, AnsweredInv, IdleWorker

\* What a webhook is about to answer is resolved: it was when the notice was read, or the
\* UPDATE has met it since.
LEMMA AnsweredInvStep ==
    ASSUME ~HandlerErrors, PurchaseInv, AnsweredInv, [Next]_vars
    PROVE  AnsweredInv'
<1> USE DEF PurchaseInv, TypeOK
<1> DEFINE Shown(p) == creator[p] = "shown" /\ Resolved(p)
           Replies(w, n) == worker[w].pc = "reply" /\ worker[w].notice = n /\ n.kind = "paid"
<1>1. \A p \in Payments : pay'[p] = "NONE" => creator'[p] = "start"
    BY RowsStay DEF AnsweredInv
<1>2. \A p \in Payments : Shown(p) => Shown(p)'
    BY ResolvedLasts
<1>3. \A w \in Webhooks : worker[w].pc # "idle" => worker[w].notice \in Notice
    BY DEF WorkerInv
<1>4. ASSUME NEW w \in Webhooks, ReplySuccess(w)
      PROVE  \A p \in answered' : p \in answered \/ (p \in Payments /\ Shown(p))
    <2>1. answered' = IF worker[w].notice.kind = "paid"
                      THEN answered \cup {worker[w].notice.payment} ELSE answered
        BY <1>4 DEF ReplySuccess
    <2>2. worker[w].notice.kind = "paid" => Shown(worker[w].notice.payment)
        BY <1>4 DEF ReplySuccess, AnsweredInv
    <2>3. worker[w].notice.payment \in Payments
        BY <1>3, <1>4 DEF ReplySuccess, Notice
    <2> QED BY <2>1, <2>2, <2>3
<1>5. ASSUME \A w \in Webhooks : ~ReplySuccess(w) PROVE answered' = answered
    BY <1>5 DEF Next, CreateStep, InsertPayment, PayAppOpens, PayAppRejects, SavePayResult,
       CompensateCreate, AbandonCreate, CustomerPays, WebhookStep, ReceiveNotice, UpdatePaid,
       IssueTickets, WebhookError, CrashWebhook, CancelStep, ReadPayment, PayAppRefunds,
       PayAppRefuses, CancelRequested, SaveCancelled, CountUsed, RevokeTickets, AbortCancel,
       vars, payVars
<1>6. \A p \in answered' : Shown(p)'
    BY <1>2, <1>4, <1>5 DEF AnsweredInv
<1>7. ASSUME NEW w \in Webhooks, WebhookStep(w), NEW q \in Payments,
             worker'[w].pc = "reply", worker'[w].notice.kind = "paid", worker'[w].notice.payment = q
      PROVE  Shown(q)'
    <2>1. ~WebhookError(w) /\ ~ReplySuccess(w) /\ ~CrashWebhook(w)
        BY <1>7 DEF WebhookError, ReplySuccess, CrashWebhook, IdleWorker
    <2>2. ASSUME NEW n \in notices, ReceiveNotice(w, n)
          PROVE  Shown(q)'
        <3>1. worker'[w].notice = n /\ ~Payable(n) /\ n \in Notice
            BY <1>7, <2>2 DEF ReceiveNotice
        <3>2. n.payment = q /\ n.kind = "paid"
            BY <1>7, <3>1
        <3>3. creator[q] = "shown"
            BY <3>2 DEF NoticeInv
        <3>4. pay[q] # "REQUESTED" => Resolved(q)
            BY <3>3 DEF AnsweredInv, PaymentInv, PayStatus, Resolved
        <3>5. Shown(q)
            BY <3>1, <3>2, <3>3, <3>4 DEF Payable, Resolved
        <3> QED BY <1>2, <3>5
    <2>3. CASE UpdatePaid(w)
        <3>1. worker'[w].notice = worker[w].notice /\ worker[w].notice.payment = q
            BY <1>7, <2>3 DEF UpdatePaid
        <3>2. pay[q] # "REQUESTED"
            BY <1>7, <2>3, <3>1 DEF UpdatePaid
        <3>3. creator[q] = "shown"
            BY <2>3, <3>1 DEF UpdatePaid, WorkerInv
        <3>4. Shown(q)
            BY <3>2, <3>3 DEF AnsweredInv, PaymentInv, PayStatus, Resolved
        <3> QED BY <1>2, <3>4
    <2>4. CASE IssueTickets(w)
        <3>1. worker'[w].notice = worker[w].notice /\ worker[w].notice.payment = q
            BY <1>7, <2>4 DEF IssueTickets
        <3>2. creator[q] = "shown" /\ grants[q] = 0
            BY <2>4, <3>1 DEF IssueTickets, WorkerInv, PaymentInv
        <3>3. grants' = [grants EXCEPT ![q] = @ + 1] /\ UNCHANGED creator
            BY <2>4, <3>1 DEF IssueTickets
        <3>4. grants'[q] = 1
            BY <3>2, <3>3
        <3> QED BY <3>2, <3>3, <3>4 DEF Resolved
    <2> QED BY <1>7, <2>1, <2>2, <2>3, <2>4 DEF WebhookStep
<1>8. ASSUME NEW w \in Webhooks, ~WebhookStep(w) PROVE worker'[w] = worker[w]
    <2>1. ASSUME NEW v \in Webhooks, WebhookStep(v) PROVE \E row : worker' = [worker EXCEPT ![v] = row]
        BY <2>1 DEF WebhookStep, ReceiveNotice, UpdatePaid, IssueTickets, WebhookError, ReplySuccess,
           CrashWebhook
    <2>2. (\A v \in Webhooks : ~WebhookStep(v)) => UNCHANGED worker
        BY DEF Next, CreateStep, InsertPayment, PayAppOpens, PayAppRejects, SavePayResult,
           CompensateCreate, AbandonCreate, CustomerPays, CancelStep, ReadPayment, PayAppRefunds,
           PayAppRefuses, CancelRequested, SaveCancelled, CountUsed, RevokeTickets, AbortCancel,
           vars, payVars
    <2>3. ASSUME NEW v \in Webhooks, WebhookStep(v) PROVE worker'[w] = worker[w]
        BY <1>8, <2>1, <2>3
    <2> QED BY <2>2, <2>3
<1>9. ASSUME NEW w \in Webhooks, NEW q \in Payments,
             worker'[w].pc = "reply", worker'[w].notice.kind = "paid", worker'[w].notice.payment = q
      PROVE  Shown(q)'
    <2>1. CASE ~WebhookStep(w)
        <3>1. worker'[w] = worker[w]
            BY <1>8, <2>1
        <3>2. Shown(q)
            BY <1>9, <3>1 DEF AnsweredInv
        <3> QED BY <1>2, <3>2
    <2> QED BY <1>7, <1>9, <2>1
<1>10. \A w \in Webhooks : worker'[w].pc # "idle" => worker'[w].notice.payment \in Payments
    <2>1. PurchaseInv'
        BY PurchaseInvStep
    <2> QED BY <2>1 DEF WorkerInv, Notice
<1>11. \A w \in Webhooks : worker'[w].pc = "reply" /\ worker'[w].notice.kind = "paid" =>
            (creator[worker[w].notice.payment] = "shown" /\ Resolved(worker[w].notice.payment))'
    BY <1>9, <1>10 DEF Resolved
<1> QED BY <1>1, <1>6, <1>11 DEF AnsweredInv

\* Whatever duplicates, cancellations and crashes it meets, a webhook that answers SUCCESS
\* has credited the payment, or its row does not know PayApp's number or was cancelled.
\* The controller answers SUCCESS for a transaction that failed, too: without such a
\* failure.
THEOREM AnsweredPaymentsAreCredited ==
    ASSUME ~HandlerErrors
    PROVE  Spec => []AnsweredMeansCredited
<1>1. AnsweredInv => AnsweredMeansCredited
    BY DEF AnsweredInv, Resolved, AnsweredMeansCredited
<1>2. PurchaseInv /\ AnsweredInv /\ [Next]_vars => AnsweredInv'
    BY AnsweredInvStep
<1> QED BY <1>1, <1>2, AnsweredInvInit, PurchaseInvariant, PTL DEF Spec
-------------------------------------------------------------------------------
(* What remains of CancellingPaidRefunds.                                  *)

\* The money is back and the tickets cannot be spent.
TakenBack(p) == order'[p] = "REFUNDED" /\ \A t \in TicketsOf(p) : status'[t] # "AVAILABLE"

\* A cancellation that read the payment before it was PAID saves now what it had read.
SavesStaleRead(x, p) ==
    /\ cancel[x].payment = p
    /\ cancel[x].pc = "save" /\ ~cancel[x].wasPaid
    /\ cancel'[x].pc = "idle"

\* A PAID payment becomes CANCELLED with its money given back and its tickets taken, or
\* because a cancellation had read it as REQUESTED: no webhook, no creation that fails and
\* no crash does it, and a cancellation that read it PAID never skips the refund.
THEOREM OnlyStaleReadsSkipRefund ==
    Spec => [][\A p \in Payments : pay[p] = "PAID" /\ pay'[p] = "CANCELLED" =>
                    TakenBack(p) \/ \E x \in Cancels : SavesStaleRead(x, p)]_vars
<1> DEFINE Explained(p) == TakenBack(p) \/ \E x \in Cancels : SavesStaleRead(x, p)
           Step == \A p \in Payments : pay[p] = "PAID" /\ pay'[p] = "CANCELLED" => Explained(p)
<1>1. PurchaseInv /\ [Next]_vars => [Step]_vars
    <2> SUFFICES ASSUME PurchaseInv, Next, NEW p \in Payments, pay[p] = "PAID", pay'[p] = "CANCELLED"
                 PROVE  Explained(p)
        OBVIOUS
    <2>1. /\ pay \in [Payments -> PayStatus]
          /\ pay[p] \in PayStatus /\ pay' # pay
          /\ grants[p] = 1 /\ creator[p] = "shown"
        BY DEF PurchaseInv, TypeOK, PaymentInv
    <2>2. ASSUME NEW q \in Payments, CreateStep(q) \/ CustomerPays(q) PROVE FALSE
        <3>1. CompensateCreate(q)
            BY <2>1, <2>2 DEF CreateStep, CustomerPays, InsertPayment, PayAppOpens, PayAppRejects,
                             SavePayResult, AbandonCreate
        <3> QED BY <2>1, <3>1 DEF CompensateCreate
    <2>3. ASSUME NEW w \in Webhooks, WebhookStep(w) PROVE FALSE
        <3>1. IssueTickets(w)
            BY <2>1, <2>3 DEF WebhookStep, ReceiveNotice, UpdatePaid, WebhookError, ReplySuccess,
                             CrashWebhook
        <3>2. pay' = [pay EXCEPT ![worker[w].notice.payment] = "PAID"]
            BY <3>1 DEF IssueTickets
        <3> QED BY <2>1, <3>2
    <2>4. ASSUME NEW x \in Cancels, CancelStep(x) PROVE Explained(p)
        <3>1. CASE CancelRequested(x)
            <4>1. cancel[x].payment = p /\ cancel[x].pc = "save" /\ ~cancel[x].wasPaid
                BY <2>1, <3>1 DEF CancelRequested, WriteCancelled
            <4>2. cancel'[x].pc = "idle"
                BY <3>1 DEF CancelRequested, WriteCancelled, IdleCancel, PurchaseInv, TypeOK
            <4> QED BY <4>1, <4>2 DEF SavesStaleRead
        <3>2. CASE RevokeTickets(x)
            <4>1. cancel[x].payment = p /\ cancel[x].pc = "expire" /\ order' = order
                BY <2>1, <3>2 DEF RevokeTickets, WriteCancelled
            <4>2. order'[p] = "REFUNDED"
                BY <4>1 DEF PurchaseInv, CancelInv
            <4>3. \A t \in TicketsOf(p) : status'[t] # "AVAILABLE"
                BY <3>2, <4>1 DEF RevokeTickets, RevokeAvailable, ExpireRows, TicketsOf
            <4> QED BY <4>2, <4>3 DEF TakenBack
        <3> QED BY <2>1, <2>4, <3>1, <3>2
                DEF CancelStep, ReadPayment, PayAppRefunds, PayAppRefuses, SaveCancelled, CountUsed,
                    AbortCancel
    <2>5. ~(SpendStep /\ UNCHANGED payVars)
        BY <2>1 DEF payVars
    <2> QED BY <2>2, <2>3, <2>4, <2>5 DEF Next
<1> QED BY <1>1, PurchaseInvariant, PTL DEF Spec
=============================================================================
