----------------------------- MODULE TicketLedger -----------------------------
(***************************************************************************)
(* The ticket inventory of one user and one ticket type (every query of    *)
(* TicketRepository filters by user_id and type, so pools never interact), *)
(* and the requests that spend it: createExperience and requestCorrection, *)
(* which take a ticket, check the item limit and insert the item in one    *)
(* database transaction.                                                   *)
(*                                                                         *)
(* A committed row is in `source', `status'.  An open transaction of a     *)
(* request r holds held[r], every row its SELECT ... FOR UPDATE SKIP LOCKED *)
(* matched: the query has no LIMIT (getOne() takes the first of the rows), *)
(* so all the spendable tickets are locked until CreateItem commits or     *)
(* AbortCreation rolls back.  A creation beside it finds only tickets      *)
(* issued since; when there is none, the code answers                      *)
(* INSUFFICIENT_TICKETS and nothing changes (no ConsumeTicket step).       *)
(***************************************************************************)
EXTENDS Naturals, FiniteSets

CONSTANTS
    Tickets,    \* ticket ids
    Sources,    \* what a ticket was issued for: payments, event participations
    Requests,   \* concurrent creation requests of the user
    NoSource,   \* of a ticket id not issued yet
    Until,      \* Until[s]: expired_at of the tickets issued for s
    MaxTime,    \* bound of the clock
    Limit       \* how many items the user may own (15 in the code)

\* expired_at IS NULL: sorts last (NULLS LAST) and never lapses.
Never == MaxTime + 1

ASSUME LedgerConstants ==
    /\ IsFiniteSet(Tickets)
    /\ NoSource \notin Sources
    /\ MaxTime \in Nat
    /\ Limit \in Nat
    /\ Until \in [Sources -> 0..Never]

VARIABLES
    source,     \* ticket.payment_id / event_participation_id
    status,     \* ticket.status; "NONE" before the row exists
    held,       \* the rows a request's open transaction has locked; none, none open
    passed,     \* requests whose validateCreation let them through
    items,      \* experience (or correction) rows of the user
    charged,    \* history: creations committed so far
    now         \* the clock the queries compare expired_at with

ledgerVars == <<source, status, held, passed, items, charged, now>>

TicketStatus == {"NONE", "AVAILABLE", "USED", "EXPIRED"}

LedgerTypeOK ==
    /\ source \in [Tickets -> Sources \cup {NoSource}]
    /\ status \in [Tickets -> TicketStatus]
    /\ held \in [Requests -> SUBSET Tickets]
    /\ passed \in SUBSET Requests
    /\ items \in Nat
    /\ charged \in Nat
    /\ now \in 0..MaxTime

LedgerInit ==
    /\ source = [t \in Tickets |-> NoSource]
    /\ status = [t \in Tickets |-> "NONE"]
    /\ held = [r \in Requests |-> {}]
    /\ passed = {}
    /\ items = 0
    /\ charged = 0
    /\ now = 0

-------------------------------------------------------------------------------
Locked == UNION {held[r] : r \in Requests}
TicketsOf(s) == {t \in Tickets : source[t] = s}
Used == {t \in Tickets : status[t] = "USED"}
ExpiresAt(t) == Until[source[t]]
Outdated == {t \in Tickets : status[t] = "AVAILABLE" /\ ExpiresAt(t) <= now}

\* Mutant: the SELECT takes no row lock.
ConsumableUnlocked ==
    {t \in Tickets : status[t] = "AVAILABLE" /\ ExpiresAt(t) > now}

\* The rows that findOneAvailableForConsume matches in a new transaction.
Consumable ==
    {t \in Tickets : status[t] = "AVAILABLE" /\ ExpiresAt(t) > now /\ t \notin Locked}

\* Insert the rows `ids' for source s.
Issue(s, ids) ==
    /\ ids \subseteq {t \in Tickets : status[t] = "NONE"}
    /\ source' = [t \in Tickets |-> IF t \in ids THEN s ELSE source[t]]
    /\ status' = [t \in Tickets |-> IF t \in ids THEN "AVAILABLE" ELSE status[t]]
    /\ UNCHANGED <<held, passed, items, charged, now>>

\* UPDATE ... SET EXPIRED over a set of AVAILABLE rows.  The statement waits for
\* the rows an open transaction has locked and looks at their status again.
ExpireRows(rows) ==
    /\ rows \cap Locked = {}
    /\ status' = [t \in Tickets |-> IF t \in rows THEN "EXPIRED" ELSE status[t]]
    /\ UNCHANGED <<source, held, passed, items, charged, now>>

\* Mutant: the UPDATE lost its condition on the status.
RevokeAll(s) == ExpireRows(TicketsOf(s))

\* expireAvailableByPaymentId
RevokeAvailable(s) == ExpireRows({t \in TicketsOf(s) : status[t] = "AVAILABLE"})

\* expireOutdatedAvailableTickets, run by the weekly scheduler
ExpireOutdated == Outdated # {} /\ ExpireRows(Outdated)

-------------------------------------------------------------------------------
\* consumeTicket: the SELECT locks every ticket it matches.
ConsumeTicket(r) ==
    /\ held[r] = {}
    /\ Consumable # {}
    /\ held' = [held EXCEPT ![r] = Consumable]
    /\ UNCHANGED <<source, status, passed, items, charged, now>>

\* validateCreation: an unlocked COUNT(*) of the committed items.  A full
\* account throws, which rolls the ticket back.
ValidateCreation(r) ==
    /\ held[r] # {}
    /\ r \notin passed
    /\ IF items < Limit
       THEN passed' = passed \cup {r} /\ UNCHANGED held
       ELSE held' = [held EXCEPT ![r] = {}] /\ UNCHANGED passed
    /\ UNCHANGED <<source, status, items, charged, now>>

\* Insert the item and commit: of the tickets the SELECT returned, the first one
\* to lapse is USED from here on.
CreateItem(r) ==
    /\ r \in passed
    /\ \E t \in held[r] :
        /\ \A u \in held[r] : ExpiresAt(t) <= ExpiresAt(u)
        /\ status' = [status EXCEPT ![t] = "USED"]
    /\ held' = [held EXCEPT ![r] = {}]
    /\ passed' = passed \ {r}
    /\ items' = items + 1
    /\ charged' = charged + 1
    /\ UNCHANGED <<source, now>>

\* The transaction fails or its process dies: the database rolls it back.
AbortCreation(r) ==
    /\ held[r] # {}
    /\ held' = [held EXCEPT ![r] = {}]
    /\ passed' = passed \ {r}
    /\ UNCHANGED <<source, status, items, charged, now>>

\* Mutant: deleting what is already gone counts.
DeleteItemUnchecked ==
    /\ items' = items - 1
    /\ UNCHANGED <<source, status, held, passed, charged, now>>

\* deleteExperience / deleteCorrection: no ticket is given back.
DeleteItem ==
    /\ items > 0
    /\ items' = items - 1
    /\ UNCHANGED <<source, status, held, passed, charged, now>>

Tick ==
    /\ now < MaxTime
    /\ now' = now + 1
    /\ UNCHANGED <<source, status, held, passed, items, charged>>

SpendStep ==
    \/ \E r \in Requests :
        \/ ConsumeTicket(r)
        \/ ValidateCreation(r)
        \/ CreateItem(r)
        \/ AbortCreation(r)
    \/ DeleteItem
    \/ ExpireOutdated
    \/ Tick

\* Who issues and revokes is another component's business: Purchase for
\* payments, the event rewards for the rest.
SupplyStep ==
    \E s \in Sources :
        \/ RevokeAvailable(s)
        \/ \E ids \in SUBSET Tickets : Issue(s, ids)

LedgerNext == SpendStep \/ SupplyStep

LedgerSpec == LedgerInit /\ [][LedgerNext]_ledgerVars

-------------------------------------------------------------------------------
\* Row locks are exclusive and only AVAILABLE rows are locked: no two open
\* creations spend the same ticket, and nothing expires a ticket under one.
HeldTicketsAreSpendable ==
    /\ \A r \in Requests : \A t \in held[r] : status[t] = "AVAILABLE"
    /\ \A r1, r2 \in Requests : r1 # r2 => held[r1] \cap held[r2] = {}
    /\ \A r \in passed : held[r] # {}

\* Every item ever created cost exactly one ticket, whatever the interleaving of
\* creations, rollbacks, revocations and the expiry job.
OneTicketPerCreation == Cardinality(Used) = charged

\* The pool a ticket row belongs to is fixed when it is inserted, and USED and
\* EXPIRED are final: no revocation, expiry or rollback revives a ticket or
\* turns a spent one into an expired one.
SpentStaysSpent ==
    [][\A t \in Tickets :
        /\ status[t] \in {"USED", "EXPIRED"} => status'[t] = status[t]
        /\ status[t] # "NONE" => source'[t] = source[t] /\ status'[t] # "NONE"
      ]_ledgerVars

\* error-code.ts: an account owns at most Limit items.
LimitRespected == items <= Limit
=============================================================================
