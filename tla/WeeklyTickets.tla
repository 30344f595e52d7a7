----------------------------- MODULE WeeklyTickets -----------------------------
(***************************************************************************)
(* The weekly job (WeeklyEventTicketScheduler): on Monday it expires what  *)
(* is left of earlier weeks, lists the active users and gives each of them *)
(* tickets until Sunday and a notice, a batch at a time.                   *)
(*                                                                         *)
(* The grant of one user is one transaction (TicketGrantFacade); those of  *)
(* a batch run beside each other, and users join, leave and spend          *)
(* meanwhile.                                                              *)
(***************************************************************************)
EXTENDS Naturals, FiniteSets, Sequences

CONSTANTS
    Members,      \* user ids
    BatchSize,    \* WEEKLY_EVENT_BATCH_SIZE
    LastWeek      \* bound of the time

ASSUME WeeklyConstants ==
    Members \subseteq Nat /\ IsFiniteSet(Members) /\ BatchSize \in Nat \ {0} /\ LastWeek \in Nat

VARIABLES
    week,         \* the weeks that have begun
    actives,      \* users that are ACTIVE
    job,          \* where the job of the week is
    listed,       \* the users it has read, in the order of their ids
    index,        \* how far it has sliced them
    batch,        \* users of the slice whose grant is not over
    failed,       \* users whose grant failed
    given,        \* weekly grants of a user, per week, up to one too many
    usable        \* weeks whose tickets a user has left

weeklyVars == <<week, actives, job, listed, index, batch, failed, given, usable>>

Weeks == 1..LastWeek

WeeklyTypeOK ==
    /\ week \in 0..LastWeek
    /\ actives \subseteq Members
    /\ job \in {"waits", "expire", "list", "issue", "over", "died"}
    /\ listed \in Seq(Members)
    /\ index \in 0..Cardinality(Members) + BatchSize
    /\ batch \subseteq Members
    /\ failed \subseteq Members
    /\ given \in [Members -> [Weeks -> 0..2]]
    /\ usable \in [Members -> SUBSET Weeks]

WeeklyInit ==
    /\ week = 0
    /\ actives \in SUBSET Members
    /\ job = "waits"
    /\ listed = <<>>
    /\ index = 0
    /\ batch = {}
    /\ failed = {}
    /\ given = [u \in Members |-> [w \in Weeks |-> 0]]
    /\ usable = [u \in Members |-> {}]

-------------------------------------------------------------------------------
\* Monday, 0:00 in Seoul: what earlier weeks gave has lapsed, and the cron fires.  A job
\* takes less than a week.
Monday ==
    /\ job \in {"waits", "over", "died"}
    /\ week < LastWeek
    /\ week' = week + 1
    /\ job' = "expire"
    /\ listed' = <<>> /\ index' = 0 /\ batch' = {} /\ failed' = {}
    /\ UNCHANGED <<actives, given, usable>>

ExpireOutdatedWeeks ==
    /\ job = "expire"
    /\ usable' = [u \in Members |-> usable[u] \ {w \in Weeks : w < week}]
    /\ job' = "list"
    /\ UNCHANGED <<week, actives, listed, index, batch, failed, given>>

\* ORDER BY id.
AscendingIds ==
    {ids \in [1..Cardinality(actives) -> actives] :
        \A i, j \in DOMAIN ids : i < j => ids[i] < ids[j]}

FindAllActiveUserIds ==
    /\ job = "list"
    /\ listed' \in AscendingIds
    /\ job' = "issue"
    /\ UNCHANGED <<week, actives, index, batch, failed, given, usable>>

\* Mutant: one user between two batches is skipped.
SliceShort ==
    /\ job = "issue" /\ batch = {} /\ index < Len(listed)
    /\ batch' = {listed[i] : i \in {j \in DOMAIN listed : index < j /\ j < index + BatchSize}}
    /\ index' = index + BatchSize
    /\ UNCHANGED <<week, actives, job, listed, failed, given, usable>>

SliceBatch ==
    /\ job = "issue" /\ batch = {} /\ index < Len(listed)
    /\ batch' = {listed[i] : i \in {j \in DOMAIN listed : index < j /\ j <= index + BatchSize}}
    /\ index' = index + BatchSize
    /\ UNCHANGED <<week, actives, job, listed, failed, given, usable>>

\* issueGrantAndTickets of one user of the batch commits the grant, its tickets and its
\* notice, or fails; Promise.allSettled waits for the others anyway.
IssueWeeklyGrant(u) ==
    /\ job = "issue"
    /\ u \in batch
    /\ batch' = batch \ {u}
    /\ \/ /\ given' = [given EXCEPT ![u][week] = IF @ = 2 THEN 2 ELSE @ + 1]
          /\ usable' = [usable EXCEPT ![u] = @ \cup {week}]
          /\ UNCHANGED failed
       \/ failed' = failed \cup {u} /\ UNCHANGED <<given, usable>>
    /\ UNCHANGED <<week, actives, job, listed, index>>

EndJob ==
    /\ job = "issue" /\ batch = {} /\ index >= Len(listed)
    /\ job' = "over"
    /\ UNCHANGED <<week, actives, listed, index, batch, failed, given, usable>>

\* A lost connection ends the job before the first batch, a process death at any step;
\* nothing resumes it.
JobDies ==
    /\ job \in {"expire", "list", "issue"}
    /\ job' = "died"
    /\ batch' = {}
    /\ UNCHANGED <<week, actives, listed, index, failed, given, usable>>

\* A user signs up, or withdraws; his tickets stay.
Join(u) ==
    /\ actives' = IF u \in actives THEN actives \ {u} ELSE actives \cup {u}
    /\ UNCHANGED <<week, job, listed, index, batch, failed, given, usable>>

\* The last ticket of a week is used; a ticket that has lapsed is not.
UseUp(u) ==
    /\ week \in usable[u]
    /\ usable' = [usable EXCEPT ![u] = @ \ {week}]
    /\ UNCHANGED <<week, actives, job, listed, index, batch, failed, given>>

WeeklyNext ==
    \/ Monday
    \/ ExpireOutdatedWeeks
    \/ FindAllActiveUserIds
    \/ SliceBatch
    \/ EndJob
    \/ JobDies
    \/ \E u \in Members : IssueWeeklyGrant(u) \/ Join(u) \/ UseUp(u)

WeeklySpec == WeeklyInit /\ [][WeeklyNext]_weeklyVars

-------------------------------------------------------------------------------
\* A job that ends has reached every user it has listed, wherever the batches are cut and
\* whoever joins, leaves or fails meanwhile: he has the grant of the week once, or was
\* counted as failed.  Nobody gets two, and no ticket of an earlier week is left when the
\* first of the new ones is given.
WeeklyReachesEveryone ==
    /\ job = "over" => \A i \in DOMAIN listed :
            given[listed[i]][week] = IF listed[i] \in failed THEN 0 ELSE 1
    /\ \A u \in Members, w \in Weeks : given[u][w] <= 1
    /\ job \in {"issue", "over"} => \A u \in Members : usable[u] \subseteq {week}
=============================================================================
