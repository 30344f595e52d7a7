-------------------------- MODULE TicketLedgerProofs --------------------------
(***************************************************************************)
(* Proofs about the ticket inventory, for any number of tickets, sources   *)
(* and concurrent requests.  The inductive invariant is LedgerInv: the     *)
(* types, the row locks (HeldTicketsAreSpendable), and that only an issued *)
(* row has a source.  OneTicketPerCreation needs the row locks, because a  *)
(* creation turns a row it holds USED without looking at it again.         *)
(***************************************************************************)
EXTENDS TicketLedger, FiniteSetTheorems, TLAPS

UnissuedHaveNoSource == \A t \in Tickets : status[t] = "NONE" => source[t] = NoSource

LedgerInv ==
    /\ LedgerTypeOK
    /\ HeldTicketsAreSpendable
    /\ UnissuedHaveNoSource

-------------------------------------------------------------------------------
\* The steps that change tickets, without the rows that only the model's other
\* components may touch: what each does to the invariant.

\* Issuing tickets keeps the locks and the types.
LEMMA IssueKeepsInv ==
    ASSUME LedgerInv, NEW s \in Sources, NEW ids, Issue(s, ids)
    PROVE  LedgerInv'
<1>1. LedgerTypeOK'
    BY LedgerConstants DEF LedgerInv, LedgerTypeOK, TicketStatus, Issue
<1>2. HeldTicketsAreSpendable'
    BY DEF LedgerInv, LedgerTypeOK, HeldTicketsAreSpendable, Issue
<1>3. UnissuedHaveNoSource'
    BY DEF LedgerInv, UnissuedHaveNoSource, Issue
<1> QED BY <1>1, <1>2, <1>3 DEF LedgerInv

\* Expiring rows that no open transaction has locked keeps the locks.
LEMMA ExpireKeepsInv ==
    ASSUME LedgerInv, NEW rows \in SUBSET Tickets, ExpireRows(rows),
           \A t \in rows : status[t] = "AVAILABLE"
    PROVE  LedgerInv'
<1>1. LedgerTypeOK'
    BY DEF LedgerInv, LedgerTypeOK, TicketStatus, ExpireRows
<1>2. HeldTicketsAreSpendable'
    BY DEF LedgerInv, LedgerTypeOK, HeldTicketsAreSpendable, ExpireRows, Locked
<1>3. UnissuedHaveNoSource'
    BY DEF LedgerInv, UnissuedHaveNoSource, ExpireRows
<1> QED BY <1>1, <1>2, <1>3 DEF LedgerInv

\* FOR UPDATE SKIP LOCKED: a new transaction locks rows nobody holds.
LEMMA ConsumeKeepsInv ==
    ASSUME LedgerInv, NEW r \in Requests, ConsumeTicket(r)
    PROVE  LedgerInv'
<1>1. held' = [held EXCEPT ![r] = Consumable]
    BY DEF ConsumeTicket
<1>2. /\ Consumable \subseteq Tickets
      /\ \A t \in Consumable : status[t] = "AVAILABLE"
      /\ \A q \in Requests : held[q] \cap Consumable = {}
    BY DEF Consumable, Locked
<1>3. LedgerTypeOK'
    BY <1>1, <1>2 DEF LedgerInv, LedgerTypeOK, ConsumeTicket
<1>4. HeldTicketsAreSpendable'
    <2>1. passed' = passed /\ status' = status /\ Consumable # {}
        BY DEF ConsumeTicket
    <2> QED BY <1>1, <1>2, <2>1 DEF LedgerInv, LedgerTypeOK, HeldTicketsAreSpendable
<1>5. UnissuedHaveNoSource'
    BY DEF LedgerInv, UnissuedHaveNoSource, ConsumeTicket
<1> QED BY <1>3, <1>4, <1>5 DEF LedgerInv

\* The other steps of a creation, the deletion of an item and the clock.
LEMMA CreationKeepsInv ==
    ASSUME LedgerInv, NEW r \in Requests,
           ValidateCreation(r) \/ CreateItem(r) \/ AbortCreation(r)
    PROVE  LedgerInv'
<1>1. LedgerTypeOK'
    <2>1. CASE ValidateCreation(r)
        BY <2>1 DEF LedgerInv, LedgerTypeOK, ValidateCreation
    <2>2. CASE CreateItem(r)
        BY <2>2 DEF LedgerInv, LedgerTypeOK, TicketStatus, CreateItem
    <2>3. CASE AbortCreation(r)
        BY <2>3 DEF LedgerInv, LedgerTypeOK, AbortCreation
    <2> QED BY <2>1, <2>2, <2>3
<1>2. HeldTicketsAreSpendable'
    <2>1. CASE ValidateCreation(r)
        BY <2>1 DEF LedgerInv, LedgerTypeOK, HeldTicketsAreSpendable, ValidateCreation
    <2>2. CASE CreateItem(r)
        BY <2>2 DEF LedgerInv, LedgerTypeOK, HeldTicketsAreSpendable, CreateItem
    <2>3. CASE AbortCreation(r)
        BY <2>3 DEF LedgerInv, LedgerTypeOK, HeldTicketsAreSpendable, AbortCreation
    <2> QED BY <2>1, <2>2, <2>3
<1>3. UnissuedHaveNoSource'
    BY DEF LedgerInv, LedgerTypeOK, HeldTicketsAreSpendable, UnissuedHaveNoSource,
           ValidateCreation, CreateItem, AbortCreation
<1> QED BY <1>1, <1>2, <1>3 DEF LedgerInv

LEMMA LedgerInvInit == LedgerInit => LedgerInv
BY LedgerConstants DEF LedgerInit, LedgerInv, LedgerTypeOK, TicketStatus,
   HeldTicketsAreSpendable, UnissuedHaveNoSource

LEMMA SpendKeepsInv == LedgerInv /\ SpendStep => LedgerInv'
<1> SUFFICES ASSUME LedgerInv, SpendStep PROVE LedgerInv'
    OBVIOUS
<1>1. CASE \E r \in Requests : ConsumeTicket(r)
    BY <1>1, ConsumeKeepsInv
<1>2. CASE \E r \in Requests : ValidateCreation(r) \/ CreateItem(r) \/ AbortCreation(r)
    BY <1>2, CreationKeepsInv
<1>3. CASE DeleteItem
    BY <1>3 DEF DeleteItem, LedgerInv, LedgerTypeOK, HeldTicketsAreSpendable,
       UnissuedHaveNoSource
<1>4. CASE ExpireOutdated
    <2>1. Outdated \in SUBSET Tickets /\ \A t \in Outdated : status[t] = "AVAILABLE"
        BY DEF Outdated
    <2> QED BY <1>4, <2>1, ExpireKeepsInv DEF ExpireOutdated
<1>5. CASE Tick
    BY <1>5, LedgerConstants DEF Tick, LedgerInv, LedgerTypeOK, HeldTicketsAreSpendable,
       UnissuedHaveNoSource
<1> QED BY <1>1, <1>2, <1>3, <1>4, <1>5 DEF SpendStep

LEMMA SupplyKeepsInv == LedgerInv /\ SupplyStep => LedgerInv'
<1> SUFFICES ASSUME LedgerInv, NEW s \in Sources,
                    RevokeAvailable(s) \/ \E ids \in SUBSET Tickets : Issue(s, ids)
             PROVE  LedgerInv'
    BY DEF SupplyStep
<1> DEFINE rows == {t \in TicketsOf(s) : status[t] = "AVAILABLE"}
<1>1. CASE RevokeAvailable(s)
    <2>1. rows \in SUBSET Tickets /\ \A t \in rows : status[t] = "AVAILABLE"
        BY DEF TicketsOf
    <2>2. ExpireRows(rows)
        BY <1>1 DEF RevokeAvailable
    <2> HIDE DEF rows
    <2> QED BY <2>1, <2>2, ExpireKeepsInv
<1>2. CASE \E ids \in SUBSET Tickets : Issue(s, ids)
    BY <1>2, IssueKeepsInv
<1> QED BY <1>1, <1>2

LEMMA LedgerInvStep == LedgerInv /\ [LedgerNext]_ledgerVars => LedgerInv'
<1>1. CASE UNCHANGED ledgerVars
    BY <1>1 DEF ledgerVars, LedgerInv, LedgerTypeOK, HeldTicketsAreSpendable,
       UnissuedHaveNoSource
<1> QED BY <1>1, SpendKeepsInv, SupplyKeepsInv DEF LedgerNext

\* The strengthened invariant of the inventory.
THEOREM LedgerInvariant == LedgerSpec => []LedgerInv
BY LedgerInvInit, LedgerInvStep, PTL DEF LedgerSpec

\* Every variable of the inventory keeps its type, the item count included: a
\* deletion never takes it below zero.
THEOREM LedgerTypeCorrect == LedgerSpec => []LedgerTypeOK
<1>1. LedgerInv => LedgerTypeOK
    BY DEF LedgerInv
<1> QED BY <1>1, LedgerInvariant, PTL

\* No two open creations hold the same ticket, and a held ticket stays AVAILABLE
\* until its transaction ends.
THEOREM RowLocksProtectTickets == LedgerSpec => []HeldTicketsAreSpendable
<1>1. LedgerInv => HeldTicketsAreSpendable
    BY DEF LedgerInv
<1> QED BY <1>1, LedgerInvariant, PTL
-------------------------------------------------------------------------------
\* Only CreateItem makes a ticket USED, and it uses the one it holds.
LEMMA UsedStep ==
    ASSUME LedgerInv, [LedgerNext]_ledgerVars
    PROVE  \/ Used' = Used /\ charged' = charged
           \/ \E t \in Tickets \ Used : Used' = Used \cup {t} /\ charged' = charged + 1
<1> USE DEF Used
<1>1. CASE UNCHANGED ledgerVars
    BY <1>1 DEF ledgerVars
<1>2. ASSUME NEW r \in Requests, ConsumeTicket(r) \/ ValidateCreation(r) \/ AbortCreation(r)
      PROVE  Used' = Used /\ charged' = charged
    BY <1>2 DEF ConsumeTicket, ValidateCreation, AbortCreation
<1>3. ASSUME NEW r \in Requests, CreateItem(r)
      PROVE  \E t \in Tickets \ Used : Used' = Used \cup {t} /\ charged' = charged + 1
    <2>1. PICK t \in held[r] : status' = [status EXCEPT ![t] = "USED"]
        BY <1>3 DEF CreateItem
    <2>2. t \in Tickets /\ status[t] = "AVAILABLE"
        BY <2>1 DEF LedgerInv, LedgerTypeOK, HeldTicketsAreSpendable
    <2>3. Used' = Used \cup {t} /\ t \notin Used /\ charged' = charged + 1
        BY <1>3, <2>1, <2>2 DEF CreateItem, LedgerInv, LedgerTypeOK
    <2> QED BY <2>2, <2>3
<1>4. ASSUME NEW rows, ExpireRows(rows), \A t \in rows : status[t] = "AVAILABLE"
      PROVE  Used' = Used /\ charged' = charged
    BY <1>4 DEF ExpireRows, LedgerInv, LedgerTypeOK
<1>5. CASE DeleteItem \/ Tick
    BY <1>5 DEF DeleteItem, Tick
<1>6. CASE ExpireOutdated
    BY <1>4, <1>6 DEF ExpireOutdated, Outdated
<1>7. ASSUME NEW s \in Sources, RevokeAvailable(s)
      PROVE  Used' = Used /\ charged' = charged
    BY <1>4, <1>7 DEF RevokeAvailable
<1>8. ASSUME NEW s \in Sources, NEW ids \in SUBSET Tickets, Issue(s, ids)
      PROVE  Used' = Used /\ charged' = charged
    BY <1>8 DEF Issue, LedgerInv, LedgerTypeOK
<1> QED BY <1>1, <1>2, <1>3, <1>5, <1>6, <1>7, <1>8
        DEF LedgerNext, SpendStep, SupplyStep

\* Each item ever created cost one ticket, for any number of concurrent requests.
THEOREM OneTicketEach == LedgerSpec => []OneTicketPerCreation
<1>1. LedgerInit => OneTicketPerCreation
    <2> SUFFICES ASSUME LedgerInit PROVE OneTicketPerCreation
        OBVIOUS
    <2>1. Used = {} /\ charged = 0
        BY DEF LedgerInit, Used
    <2> QED BY <2>1, FS_EmptySet DEF OneTicketPerCreation
<1>2. LedgerInv /\ OneTicketPerCreation /\ [LedgerNext]_ledgerVars => OneTicketPerCreation'
    <2> SUFFICES ASSUME LedgerInv, OneTicketPerCreation, [LedgerNext]_ledgerVars
                 PROVE  OneTicketPerCreation'
        OBVIOUS
    <2>1. IsFiniteSet(Used)
        BY LedgerConstants, FS_Subset DEF Used
    <2>2. CASE Used' = Used /\ charged' = charged
        BY <2>2 DEF OneTicketPerCreation
    <2>3. CASE \E t \in Tickets \ Used : Used' = Used \cup {t} /\ charged' = charged + 1
        <3>1. PICK t \in Tickets \ Used : Used' = Used \cup {t} /\ charged' = charged + 1
            BY <2>3
        <3>2. Cardinality(Used \cup {t}) = Cardinality(Used) + 1
            BY <2>1, <3>1, FS_AddElement
        <3> QED BY <3>1, <3>2 DEF OneTicketPerCreation
    <2> QED BY <2>2, <2>3, UsedStep
<1> QED BY <1>1, <1>2, LedgerInvariant, PTL DEF LedgerSpec

\* USED and EXPIRED are final, and a ticket never changes its source.
LEMMA SpentStep ==
    ASSUME LedgerInv, [LedgerNext]_ledgerVars, NEW t \in Tickets
    PROVE  /\ status[t] \in {"USED", "EXPIRED"} => status'[t] = status[t]
           /\ status[t] # "NONE" => source'[t] = source[t] /\ status'[t] # "NONE"
<1> DEFINE Kept == /\ status[t] \in {"USED", "EXPIRED"} => status'[t] = status[t]
                   /\ status[t] # "NONE" => source'[t] = source[t] /\ status'[t] # "NONE"
<1>1. CASE UNCHANGED ledgerVars
    BY <1>1 DEF ledgerVars
<1>2. ASSUME NEW r \in Requests, ConsumeTicket(r) \/ ValidateCreation(r) \/ AbortCreation(r)
      PROVE  Kept
    BY <1>2 DEF ConsumeTicket, ValidateCreation, AbortCreation
<1>3. ASSUME NEW r \in Requests, CreateItem(r)
      PROVE  Kept
    BY <1>3 DEF CreateItem, LedgerInv, LedgerTypeOK, HeldTicketsAreSpendable
<1>4. ASSUME NEW rows, ExpireRows(rows), \A u \in rows : status[u] = "AVAILABLE"
      PROVE  Kept
    BY <1>4 DEF ExpireRows, LedgerInv, LedgerTypeOK
<1>5. CASE DeleteItem \/ Tick
    BY <1>5 DEF DeleteItem, Tick
<1>6. CASE ExpireOutdated
    BY <1>4, <1>6 DEF ExpireOutdated, Outdated
<1>7. ASSUME NEW s \in Sources, RevokeAvailable(s)
      PROVE  Kept
    BY <1>4, <1>7 DEF RevokeAvailable
<1>8. ASSUME NEW s \in Sources, NEW ids \in SUBSET Tickets, Issue(s, ids)
      PROVE  Kept
    BY <1>8 DEF Issue, LedgerInv, LedgerTypeOK
<1> QED BY <1>1, <1>2, <1>3, <1>5, <1>6, <1>7, <1>8
        DEF LedgerNext, SpendStep, SupplyStep

\* No step of the inventory revives a spent ticket or moves one to another source.
THEOREM SpentIsFinal == LedgerSpec => SpentStaysSpent
<1>1. LedgerInv /\ [LedgerNext]_ledgerVars =>
        [\A t \in Tickets :
            /\ status[t] \in {"USED", "EXPIRED"} => status'[t] = status[t]
            /\ status[t] # "NONE" => source'[t] = source[t] /\ status'[t] # "NONE"
        ]_ledgerVars
    BY SpentStep
<1> QED BY <1>1, LedgerInvariant, PTL DEF LedgerSpec, SpentStaysSpent

-------------------------------------------------------------------------------
(* What remains of the limit.  validateCreation counts without a lock, so  *)
(* LimitRespected fails as soon as two creations overlap; but a request is *)
(* let through only while the account has room, and stores one item for it.*)

Overshoot == items + Cardinality(passed) <= Limit - 1 + Cardinality(Requests)

\* A request that is let through sees less than Limit items; there are not more of them
\* than requests.
LEMMA OvershootStep ==
    ASSUME IsFiniteSet(Requests), LedgerInv, Overshoot, [LedgerNext]_ledgerVars
    PROVE  Overshoot'
<1>1. /\ passed \subseteq Requests /\ IsFiniteSet(passed)
      /\ Cardinality(passed) \in Nat /\ Cardinality(Requests) \in Nat
      /\ items \in Nat /\ Limit \in Nat
    BY FS_Subset, FS_CardinalityType, LedgerConstants DEF LedgerInv, LedgerTypeOK
<1>2. ASSUME UNCHANGED <<items, passed>>
      PROVE  Overshoot'
    BY <1>2 DEF Overshoot
<1>3. ASSUME NEW r \in Requests, ValidateCreation(r)
      PROVE  Overshoot'
    <2>1. CASE items < Limit
        <3>1. items' = items /\ passed' = passed \cup {r}
            BY <1>3, <2>1 DEF ValidateCreation
        <3>2. Cardinality(passed') \in Nat /\ Cardinality(passed') <= Cardinality(Requests)
            BY <1>1, <3>1, FS_Subset, FS_CardinalityType
        <3> QED BY <1>1, <2>1, <3>1, <3>2 DEF Overshoot
    <2>2. CASE ~(items < Limit)
        BY <1>2, <1>3, <2>2 DEF ValidateCreation
    <2> QED BY <2>1, <2>2
<1>4. ASSUME NEW r \in Requests, CreateItem(r)
      PROVE  Overshoot'
    <2>1. items' = items + 1 /\ passed' = passed \ {r} /\ r \in passed
        BY <1>4 DEF CreateItem
    <2>2. Cardinality(passed') = Cardinality(passed) - 1
        BY <1>1, <2>1, FS_RemoveElement
    <2> QED BY <1>1, <2>1, <2>2 DEF Overshoot
<1>5. ASSUME NEW r \in Requests, AbortCreation(r)
      PROVE  Overshoot'
    <2>1. items' = items /\ passed' = passed \ {r}
        BY <1>5 DEF AbortCreation
    <2>2. Cardinality(passed') \in Nat /\ Cardinality(passed') <= Cardinality(passed)
        BY <1>1, <2>1, FS_Subset, FS_CardinalityType
    <2> QED BY <1>1, <2>1, <2>2 DEF Overshoot
<1>6. CASE DeleteItem
    BY <1>1, <1>6 DEF DeleteItem, Overshoot
<1>7. CASE UNCHANGED ledgerVars
    BY <1>2, <1>7 DEF ledgerVars
<1>8. ASSUME NEW r \in Requests, ConsumeTicket(r)
      PROVE  Overshoot'
    BY <1>2, <1>8 DEF ConsumeTicket
<1>9. CASE ExpireOutdated \/ Tick \/ SupplyStep
    BY <1>2, <1>9 DEF ExpireOutdated, ExpireRows, Tick, SupplyStep, RevokeAvailable, Issue
<1> QED BY <1>3, <1>4, <1>5, <1>6, <1>7, <1>8, <1>9 DEF LedgerNext, SpendStep

\* An account owns at most one item more than its limit for each request that runs beside
\* another one, however many items were created and deleted before.
THEOREM OvershootIsBounded ==
    ASSUME IsFiniteSet(Requests), Requests # {}
    PROVE  LedgerSpec => []Overshoot
<1>1. LedgerInit => Overshoot
    <2>1. Cardinality(Requests) \in Nat /\ Cardinality(Requests) # 0
        BY FS_CardinalityType, FS_EmptySet
    <2>2. Cardinality({}) = 0 /\ Limit \in Nat
        BY FS_EmptySet, LedgerConstants
    <2> QED BY <2>1, <2>2 DEF LedgerInit, Overshoot
<1>2. LedgerInv /\ Overshoot /\ [LedgerNext]_ledgerVars => Overshoot'
    BY OvershootStep
<1> QED BY <1>1, <1>2, LedgerInvariant, PTL DEF LedgerSpec

\* One request after the other respects the limit: the race is the only way past it.
THEOREM OneAtATimeRespectsLimit ==
    ASSUME NEW r, Requests = {r}
    PROVE  LedgerSpec => []LimitRespected
<1>1. IsFiniteSet(Requests) /\ Cardinality(Requests) = 1 /\ Requests # {}
    BY FS_Singleton
<1>2. LedgerSpec => []Overshoot
    BY <1>1, OvershootIsBounded
<1>3. LedgerInv /\ Overshoot => LimitRespected
    <2> SUFFICES ASSUME LedgerInv, Overshoot PROVE LimitRespected
        OBVIOUS
    <2>1. Cardinality(passed) \in Nat /\ items \in Nat /\ Limit \in Nat
        BY <1>1, FS_Subset, FS_CardinalityType, LedgerConstants DEF LedgerInv, LedgerTypeOK
    <2> QED BY <1>1, <2>1 DEF Overshoot, LimitRespected
<1> QED BY <1>2, <1>3, LedgerInvariant, PTL
=============================================================================
