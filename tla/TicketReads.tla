------------------------------ MODULE TicketReads ------------------------------
(***************************************************************************)
(* What a user is told of his tickets: the balance, and how many of them   *)
(* lapse within a number of days.  Each is one query; the inventory goes   *)
(* on changing while the user looks at the answer.  Counts are modelled by *)
(* the rows that are counted.                                              *)
(***************************************************************************)
EXTENDS TicketLedger

CONSTANT Days       \* how far getExpiring looks ahead

ASSUME ReadConstants == Days \in Nat

VARIABLE shown      \* the last answer: of which query, when, its rows, the rows there were

readVars == <<ledgerVars, shown>>

NothingShown == [what |-> "none", at |-> 0, rows |-> {}, among |-> {}]
Issued == {t \in Tickets : status[t] # "NONE"}

ReadsTypeOK ==
    /\ LedgerTypeOK
    /\ shown \in [what : {"none", "balance", "expiring"}, at : 0..MaxTime,
                  rows : SUBSET Tickets, among : SUBSET Tickets]

ReadsInit == LedgerInit /\ shown = NothingShown

-------------------------------------------------------------------------------
Show(what, rows) ==
    /\ shown' = [what |-> what, at |-> now, rows |-> rows, among |-> Issued]
    /\ UNCHANGED ledgerVars

\* countAvailableByUserIdGroupByType: the end of a ticket is not looked at.
CountAvailable == {t \in Tickets : status[t] = "AVAILABLE"}

GetBalance == Show("balance", CountAvailable)

\* Mutant: the last day is not included.
FindExpiringBefore ==
    {t \in Tickets : status[t] = "AVAILABLE" /\ ExpiresAt(t) > now /\ ExpiresAt(t) < now + Days}

\* findExpiringByUserIdGroupByType; a ticket without an end is never among them.
FindExpiring ==
    {t \in Tickets : /\ status[t] = "AVAILABLE" /\ ExpiresAt(t) # Never
                     /\ ExpiresAt(t) > now /\ ExpiresAt(t) <= now + Days}

GetExpiring == Show("expiring", FindExpiring)

ReadsNext ==
    \/ LedgerNext /\ UNCHANGED shown
    \/ GetBalance
    \/ GetExpiring

ReadsSpec == ReadsInit /\ [][ReadsNext]_readVars

-------------------------------------------------------------------------------
\* What the user was told holds later: a ticket that lapses unspent within the days asked
\* for was among those said to lapse, at the boundaries too, and a ticket a creation can
\* take was in the balance, unless it was issued since.  (The converse does not hold: the
\* balance counts tickets that have lapsed until the weekly job expires them.)
ToldBeforeLapse ==
    /\ shown.what = "expiring" =>
        \A t \in shown.among :
            status[t] = "AVAILABLE" /\ ExpiresAt(t) \in (shown.at + 1)..now /\ now <= shown.at + Days
                => t \in shown.rows
    /\ shown.what = "balance" => Consumable \cap shown.among \subseteq shown.rows
=============================================================================
