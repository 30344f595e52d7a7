----------------------------- MODULE GrantNotices -----------------------------
(***************************************************************************)
(* The reward notices of one user (TicketGrantNoticeService): a grant      *)
(* leaves a PENDING notice, a tab asks for the newest pending one, and the *)
(* tabs report, late and more than once, that it was shown or dismissed.   *)
(*                                                                         *)
(* A report is one transaction, which locks the row, reads it and saves    *)
(* it.                                                                     *)
(***************************************************************************)
EXTENDS Naturals, FiniteSets

CONSTANTS
    Notices,      \* ticket_grant_notice ids
    Tabs,         \* tabs of the user's browser, one request each at a time
    NoNotice,     \* getNextNotice found none
    LastMoment    \* bound of the time

ASSUME NoticeConstants == LastMoment \in Nat /\ NoNotice \notin Notices

VARIABLES
    moment,    \* new Date()
    notice,    \* the committed rows; "NONE" before the grant commits
    tab        \* the notice a tab shows, and the report it makes of one

noticeVars == <<moment, notice, tab>>

Moments == 0..LastMoment
NoDate == LastMoment + 1      \* null, in a date

NoticeRow ==
    [status : {"NONE", "PENDING", "SHOWN", "DISMISSED"}, createdAt : Moments,
     shownAt : 0..NoDate, dismissedAt : 0..NoDate, expiresAt : 0..NoDate]

Unissued == [status |-> "NONE", createdAt |-> 0, shownAt |-> NoDate, dismissedAt |-> NoDate,
             expiresAt |-> NoDate]
Resting == [pc |-> "idle", shows |-> NoNotice, about |-> NoNotice, read |-> Unissued]

NoticesTypeOK ==
    /\ moment \in Moments
    /\ notice \in [Notices -> NoticeRow]
    /\ tab \in [Tabs -> [pc : {"idle", "shown", "dismissed", "saveShown", "saveDismissed"},
                         shows : Notices \cup {NoNotice}, about : Notices \cup {NoNotice},
                         read : NoticeRow]]
    /\ \A n \in Notices : notice[n].status = "DISMISSED" <=> notice[n].dismissedAt # NoDate
    /\ \A n \in Notices : notice[n].status \in {"SHOWN", "DISMISSED"} <=> notice[n].shownAt # NoDate

NoticesInit ==
    /\ moment = 0
    /\ notice = [n \in Notices |-> Unissued]
    /\ tab = [x \in Tabs |-> Resting]

-------------------------------------------------------------------------------
\* The notice of a grant commits with its tickets; a weekly one expires with them.
IssueNotice(n) ==
    /\ notice[n].status = "NONE"
    /\ \E until \in {NoDate} \cup {m \in Moments : m > moment} :
        notice' = [notice EXCEPT ![n] =
            [status |-> "PENDING", createdAt |-> moment, shownAt |-> NoDate, dismissedAt |-> NoDate,
             expiresAt |-> until]]
    /\ UNCHANGED <<moment, tab>>

NextPending ==
    LET pending == {n \in Notices : notice[n].status = "PENDING" /\ notice[n].expiresAt > moment}
    IN {n \in pending : \A o \in pending : notice[o].createdAt <= notice[n].createdAt}

GetNextNotice(x) ==
    /\ tab[x].pc = "idle"
    /\ \E n \in IF NextPending = {} THEN {NoNotice} ELSE NextPending :
        tab' = [tab EXCEPT ![x].shows = n]
    /\ UNCHANGED <<moment, notice>>

\* A tab reports on the notice it shows: first that it is seen, and when it is closed, or
\* again, when it has not seen the answer.
Report(x) ==
    /\ tab[x].pc = "idle"
    /\ tab[x].shows # NoNotice
    /\ \E kind \in {"shown", "dismissed"} :
        tab' = [tab EXCEPT ![x].pc = kind, ![x].about = tab[x].shows]
    /\ UNCHANGED <<moment, notice>>

Saves(x) == tab[x].pc \in {"saveShown", "saveDismissed"}

\* Mutant: the row is read without its lock.
FindUnlockedNotice(x) ==
    /\ tab[x].pc \in {"shown", "dismissed"}
    /\ tab' = [tab EXCEPT ![x].read = notice[tab[x].about],
                          ![x].pc = IF @ = "shown" THEN "saveShown" ELSE "saveDismissed"]
    /\ UNCHANGED <<moment, notice>>

\* findByIdAndUserIdForUpdate waits for the report that holds the row.
FindByIdAndUserIdForUpdate(x) ==
    /\ tab[x].pc \in {"shown", "dismissed"}
    /\ \A y \in Tabs : Saves(y) => tab[y].about # tab[x].about
    /\ tab' = [tab EXCEPT ![x].read = notice[tab[x].about],
                          ![x].pc = IF @ = "shown" THEN "saveShown" ELSE "saveDismissed"]
    /\ UNCHANGED <<moment, notice>>

\* `?? new Date()': the first date stays.
FirstOf(date) == IF date = NoDate THEN moment ELSE date

MarkShown(x) ==
    /\ tab[x].pc = "saveShown"
    /\ notice' = [notice EXCEPT ![tab[x].about] = [tab[x].read EXCEPT
            !.status = IF @ = "PENDING" THEN "SHOWN" ELSE @, !.shownAt = FirstOf(@)]]
    /\ tab' = [tab EXCEPT ![x] = [Resting EXCEPT !.shows = tab[x].shows]]
    /\ UNCHANGED moment

MarkDismissed(x) ==
    /\ tab[x].pc = "saveDismissed"
    /\ notice' = [notice EXCEPT ![tab[x].about] = [tab[x].read EXCEPT
            !.status = "DISMISSED", !.shownAt = FirstOf(@), !.dismissedAt = FirstOf(@)]]
    /\ tab' = [tab EXCEPT ![x] = [Resting EXCEPT !.shows = NoNotice]]
    /\ UNCHANGED moment

\* A transaction is lost with its connection; the tab may report again.
AbortReport(x) ==
    /\ tab[x].pc # "idle"
    /\ tab' = [tab EXCEPT ![x] = [Resting EXCEPT !.shows = tab[x].shows]]
    /\ UNCHANGED <<moment, notice>>

NextMoment ==
    /\ moment < LastMoment
    /\ moment' = moment + 1
    /\ UNCHANGED <<notice, tab>>

NoticesNext ==
    \/ \E n \in Notices : IssueNotice(n)
    \/ \E x \in Tabs :
        \/ GetNextNotice(x) \/ Report(x) \/ FindByIdAndUserIdForUpdate(x)
        \/ MarkShown(x) \/ MarkDismissed(x) \/ AbortReport(x)
    \/ NextMoment

NoticesSpec == NoticesInit /\ [][NoticesNext]_noticeVars

-------------------------------------------------------------------------------
\* A notice that one tab has dismissed is not brought back by what another tab reports, late
\* or again, and the first times it was seen and dismissed stay in the history the admins
\* read.
DismissedStaysDismissed ==
    [][\A n \in Notices :
        /\ notice[n].status = "DISMISSED" => notice'[n] = notice[n]
        /\ notice[n].status = "SHOWN" => /\ notice'[n].status \in {"SHOWN", "DISMISSED"}
                                         /\ notice'[n].shownAt = notice[n].shownAt]_noticeVars
=============================================================================
