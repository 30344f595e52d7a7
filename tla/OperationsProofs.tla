---------------------------- MODULE OperationsProofs ----------------------------
(***************************************************************************)
(* What runs beside the services, for any number of users, notices, tabs   *)
(* and requests: the notices of rewards, the dialog and the tables of the  *)
(* administrators, the weekly job, the seed of the catalogue and the smoke *)
(* script.                                                                 *)
(***************************************************************************)
EXTENDS GrantNotices, AdminClient, AdminTables, WeeklyTickets, ProductSeed, SmokeRun,
        FiniteSetTheorems, SequenceTheorems, TLAPS

-------------------------------------------------------------------------------
(* Notices: a report writes the whole row it has read, so all rests on the *)
(* row lock: what a report has read is still the row when it writes.       *)

\* A tab speaks of a notice that was issued; a report that will save a row holds it
\* alone and has read it as it is.
TabInv ==
    /\ \A x \in Tabs : tab[x].shows # NoNotice => notice[tab[x].shows].status # "NONE"
    /\ \A x \in Tabs : tab[x].pc # "idle" =>
            tab[x].about \in Notices /\ notice[tab[x].about].status # "NONE"
    /\ \A x \in Tabs : Saves(x) => tab[x].read = notice[tab[x].about]
    /\ \A x, y \in Tabs : Saves(x) /\ Saves(y) /\ tab[x].about = tab[y].about => x = y

NoticesInv == NoticesTypeOK /\ TabInv

TabRow ==
    [pc : {"idle", "shown", "dismissed", "saveShown", "saveDismissed"},
     shows : Notices \cup {NoNotice}, about : Notices \cup {NoNotice}, read : NoticeRow]

\* Initially no notice was issued and no tab shows one.
LEMMA NoticesInvInit == NoticesInit => NoticesInv
BY NoticeConstants DEF NoticesInit, NoticesInv, NoticesTypeOK, TabInv, NoticeRow, Unissued, Resting,
    Moments, NoDate, Saves

\* The date a report writes is a moment, or the date that was there.
LEMMA FirstOfIsADate ==
    ASSUME moment \in Moments, NEW d \in 0..NoDate
    PROVE  /\ FirstOf(d) \in 0..NoDate
           /\ FirstOf(d) # NoDate
           /\ d # NoDate => FirstOf(d) = d
BY NoticeConstants DEF Moments, NoDate, FirstOf

\* A grant's notice is new: no tab speaks of it.
LEMMA IssueKeeps ==
    ASSUME NoticesInv, NEW n \in Notices, IssueNotice(n)
    PROVE  NoticesInv'
<1> USE NoticeConstants DEF NoticesInv, Moments, NoDate
<1> DEFINE issued(until) ==
             [status |-> "PENDING", createdAt |-> moment, shownAt |-> NoDate, dismissedAt |-> NoDate,
              expiresAt |-> until]
<1>1. PICK until \in 0..NoDate : notice' = [notice EXCEPT ![n] = issued(until)]
  <2>1. PICK until \in {NoDate} \cup {m \in Moments : m > moment} :
          notice' = [notice EXCEPT ![n] = issued(until)]
    BY Zenon DEF IssueNotice
  <2>2. until \in 0..NoDate
    BY <2>1
  <2> QED BY <2>1, <2>2
<1>2. /\ notice[n].status = "NONE"
      /\ UNCHANGED <<moment, tab>>
  BY DEF IssueNotice
<1>3. /\ issued(until) \in NoticeRow
      /\ issued(until).status = "PENDING"
      /\ issued(until).shownAt = NoDate /\ issued(until).dismissedAt = NoDate
  BY DEF NoticesTypeOK, NoticeRow
<1> HIDE DEF issued
<1>4. NoticesTypeOK'
  BY <1>1, <1>2, <1>3 DEF NoticesTypeOK
<1>5. TabInv'
  BY <1>1, <1>2, <1>3 DEF NoticesTypeOK, TabInv, Saves
<1> QED BY <1>4, <1>5

\* A tab that only changes what it shows or reports leaves the rows alone.
LEMMA TabStepKeeps ==
    ASSUME NoticesInv, NEW x \in Tabs,
           GetNextNotice(x) \/ Report(x) \/ FindByIdAndUserIdForUpdate(x) \/ AbortReport(x)
    PROVE  NoticesInv'
<1> USE NoticeConstants DEF NoticesInv
<1>1. CASE GetNextNotice(x)
  <2>1. PICK n \in Notices \cup {NoNotice} :
          /\ tab' = [tab EXCEPT ![x].shows = n]
          /\ n # NoNotice => notice[n].status = "PENDING"
    BY <1>1 DEF GetNextNotice, NextPending
  <2>2. tab[x].pc = "idle" /\ UNCHANGED <<moment, notice>>
    BY <1>1 DEF GetNextNotice
  <2>3. NoticesTypeOK'
    BY <2>1, <2>2 DEF NoticesTypeOK
  <2>4. TabInv'
    BY <2>1, <2>2 DEF NoticesTypeOK, TabInv, Saves
  <2> QED BY <2>3, <2>4
<1>2. CASE Report(x)
  <2>1. PICK kind \in {"shown", "dismissed"} :
          tab' = [tab EXCEPT ![x].pc = kind, ![x].about = tab[x].shows]
    BY <1>2 DEF Report
  <2>2. tab[x].pc = "idle" /\ tab[x].shows # NoNotice /\ UNCHANGED <<moment, notice>>
    BY <1>2 DEF Report
  <2> DEFINE new == [tab[x] EXCEPT !.pc = kind, !.about = tab[x].shows]
  <2>5. new \in TabRow /\ tab' = [tab EXCEPT ![x] = new]
    BY <2>1 DEF NoticesTypeOK, TabRow
  <2> HIDE DEF new
  <2>3. NoticesTypeOK'
    BY <2>2, <2>5 DEF NoticesTypeOK, TabRow
  <2>4. TabInv'
    BY <2>1, <2>2 DEF NoticesTypeOK, TabInv, Saves
  <2> QED BY <2>3, <2>4
<1>3. CASE FindByIdAndUserIdForUpdate(x)
  <2>1. /\ tab[x].pc \in {"shown", "dismissed"}
        /\ \A y \in Tabs : Saves(y) => tab[y].about # tab[x].about
        /\ UNCHANGED <<moment, notice>>
        /\ tab' = [tab EXCEPT ![x].read = notice[tab[x].about],
                              ![x].pc = IF @ = "shown" THEN "saveShown" ELSE "saveDismissed"]
    BY <1>3 DEF FindByIdAndUserIdForUpdate
  <2>2. tab[x].about \in Notices
    BY <2>1 DEF TabInv
  <2> DEFINE new == [tab[x] EXCEPT !.read = notice[tab[x].about],
                                   !.pc = IF @ = "shown" THEN "saveShown" ELSE "saveDismissed"]
  <2>5. /\ new \in TabRow /\ new.pc \in {"saveShown", "saveDismissed"}
        /\ new.shows = tab[x].shows /\ new.about = tab[x].about /\ new.read = notice[new.about]
        /\ tab' = [tab EXCEPT ![x] = new]
    BY <2>1, <2>2 DEF NoticesTypeOK, TabRow
  <2> HIDE DEF new
  <2>3. NoticesTypeOK'
    BY <2>1, <2>5 DEF NoticesTypeOK, TabRow
  <2>6. \A y \in Tabs : tab'[y] = IF y = x THEN new ELSE tab[y]
    BY <2>5 DEF NoticesTypeOK
  <2>7. notice' = notice /\ \A y \in Tabs : Saves(y) => tab[y].about # tab[x].about
    BY <2>1
  <2>4. TabInv'
    <3>1. \A y \in Tabs : Saves(y)' <=> (y = x \/ Saves(y))
      BY <2>5, <2>6 DEF Saves
    <3>2. \A y \in Tabs : tab'[y].shows = tab[y].shows /\ tab'[y].about = tab[y].about
      BY <2>5, <2>6
    <3>3. \A y \in Tabs : tab'[y].pc # "idle" => tab[y].pc # "idle"
      BY <2>1, <2>6
    <3>4. \A y \in Tabs : Saves(y)' => tab'[y].read = notice'[tab'[y].about]
      BY <2>5, <2>6, <2>7, <3>1 DEF TabInv
    <3>5. \A y, z \in Tabs : Saves(y)' /\ Saves(z)' /\ tab'[y].about = tab'[z].about => y = z
      BY <2>7, <3>1, <3>2 DEF TabInv
    <3> QED BY <2>7, <3>2, <3>3, <3>4, <3>5 DEF TabInv
  <2> QED BY <2>3, <2>4
<1>4. CASE AbortReport(x)
  <2>1. tab' = [tab EXCEPT ![x] = [Resting EXCEPT !.shows = tab[x].shows]] /\ UNCHANGED <<moment, notice>>
    BY <1>4 DEF AbortReport
  <2>2. Unissued \in NoticeRow
    BY DEF Unissued, NoticeRow, Moments, NoDate
  <2>3. NoticesTypeOK'
    BY <2>1, <2>2 DEF NoticesTypeOK, Resting
  <2>4. TabInv'
    BY <2>1 DEF NoticesTypeOK, TabInv, Saves, Resting
  <2> QED BY <2>3, <2>4
<1> QED BY <1>1, <1>2, <1>3, <1>4

\* A report saves the row as it is, with a later status and the dates that were missing; its
\* lock is released with it.
LEMMA SaveKeeps ==
    ASSUME NoticesInv, NEW x \in Tabs, MarkShown(x) \/ MarkDismissed(x)
    PROVE  /\ NoticesInv'
           /\ \A n \in Notices :
                /\ notice[n].status = "DISMISSED" => notice'[n] = notice[n]
                /\ notice[n].status = "SHOWN" => /\ notice'[n].status \in {"SHOWN", "DISMISSED"}
                                                 /\ notice'[n].shownAt = notice[n].shownAt
<1> USE NoticeConstants DEF NoticesInv
<1> DEFINE n == tab[x].about
           old == notice[n]
<1>1. /\ n \in Notices /\ old \in NoticeRow /\ old.status # "NONE"
      /\ tab[x].read = old
      /\ \A y \in Tabs : Saves(y) /\ tab[y].about = n => y = x
      /\ Saves(x) /\ UNCHANGED moment
  BY DEF NoticesTypeOK, TabInv, Saves, MarkShown, MarkDismissed
<1>2. PICK new \in NoticeRow :
        /\ notice' = [notice EXCEPT ![n] = new]
        /\ new.status \in {"SHOWN", "DISMISSED"}
        /\ new.status = "DISMISSED" <=> new.dismissedAt # NoDate
        /\ new.shownAt # NoDate
        /\ old.status = "DISMISSED" => new = old
        /\ old.shownAt # NoDate => new.shownAt = old.shownAt
  <2>1. /\ FirstOf(old.shownAt) \in 0..NoDate /\ FirstOf(old.shownAt) # NoDate
        /\ old.shownAt # NoDate => FirstOf(old.shownAt) = old.shownAt
        /\ FirstOf(old.dismissedAt) \in 0..NoDate /\ FirstOf(old.dismissedAt) # NoDate
        /\ old.dismissedAt # NoDate => FirstOf(old.dismissedAt) = old.dismissedAt
    BY <1>1, FirstOfIsADate DEF NoticesTypeOK, NoticeRow
  <2>2. /\ old.status = "DISMISSED" <=> old.dismissedAt # NoDate
        /\ old.status \in {"SHOWN", "DISMISSED"} <=> old.shownAt # NoDate
    BY <1>1 DEF NoticesTypeOK
  <2>3. CASE MarkShown(x)
    <3> DEFINE new == [old EXCEPT !.status = IF @ = "PENDING" THEN "SHOWN" ELSE @, !.shownAt = FirstOf(@)]
    <3>1. notice' = [notice EXCEPT ![n] = new]
      BY <1>1, <2>3 DEF MarkShown
    <3>2. new \in NoticeRow
      BY <1>1, <2>1 DEF NoticeRow
    <3>3. old.status = "DISMISSED" => new = old
      BY <1>1, <2>1, <2>2 DEF NoticeRow
    <3> QED BY <1>1, <2>1, <2>2, <3>1, <3>2, <3>3 DEF NoticeRow
  <2>4. CASE MarkDismissed(x)
    <3> DEFINE new == [old EXCEPT !.status = "DISMISSED", !.shownAt = FirstOf(@), !.dismissedAt = FirstOf(@)]
    <3>1. notice' = [notice EXCEPT ![n] = new]
      BY <1>1, <2>4 DEF MarkDismissed
    <3>2. new \in NoticeRow
      BY <1>1, <2>1 DEF NoticeRow
    <3>3. old.status = "DISMISSED" => new = old
      BY <1>1, <2>1, <2>2 DEF NoticeRow
    <3> QED BY <1>1, <2>1, <2>2, <3>1, <3>2, <3>3 DEF NoticeRow
  <2> QED BY <2>3, <2>4
<1>3. PICK shows \in {tab[x].shows, NoNotice} : tab' = [tab EXCEPT ![x] = [Resting EXCEPT !.shows = shows]]
  BY DEF MarkShown, MarkDismissed
<1> HIDE DEF n, old
<1>4. Unissued \in NoticeRow
  BY DEF Unissued, NoticeRow, Moments, NoDate
<1>5. NoticesTypeOK'
  BY <1>1, <1>2, <1>3, <1>4 DEF NoticesTypeOK, Resting
<1>6. TabInv'
  BY <1>1, <1>2, <1>3 DEF NoticesTypeOK, TabInv, Saves, Resting, n, old
<1>7. \A o \in Notices :
        /\ notice[o].status = "DISMISSED" => notice'[o] = notice[o]
        /\ notice[o].status = "SHOWN" => /\ notice'[o].status \in {"SHOWN", "DISMISSED"}
                                         /\ notice'[o].shownAt = notice[o].shownAt
  BY <1>1, <1>2 DEF NoticesTypeOK, old
<1> QED BY <1>5, <1>6, <1>7

\* Time only passes.
LEMMA NextMomentKeeps == NoticesInv /\ NextMoment => NoticesInv'
BY NoticeConstants DEF NoticesInv, NoticesTypeOK, TabInv, NextMoment, Moments, Saves

\* A step in which nothing happens.
LEMMA NoticesStutter == NoticesInv /\ UNCHANGED noticeVars => NoticesInv'
BY DEF NoticesInv, NoticesTypeOK, TabInv, noticeVars, Saves

\* The notices keep their invariant through every step.
LEMMA NoticesInvStep == NoticesInv /\ [NoticesNext]_noticeVars => NoticesInv'
BY IssueKeeps, TabStepKeeps, SaveKeeps, NextMomentKeeps, NoticesStutter DEF NoticesNext

LEMMA NoticesInvariance == NoticesSpec => []NoticesInv
BY NoticesInvInit, NoticesInvStep, PTL DEF NoticesSpec

\* A notice holds the dates its status says it has, and no others.
THEOREM NoticesTypeCorrect == NoticesSpec => []NoticesTypeOK
<1>1. NoticesInv => NoticesTypeOK
  BY DEF NoticesInv
<1> QED BY <1>1, NoticesInvariance, PTL

\* Whatever tabs report late or again, a dismissed notice is not brought back, and the
\* first dates stay.
THEOREM DismissedIsFinal == NoticesSpec => DismissedStaysDismissed
<1> DEFINE Kept == \A n \in Notices :
        /\ notice[n].status = "DISMISSED" => notice'[n] = notice[n]
        /\ notice[n].status = "SHOWN" => /\ notice'[n].status \in {"SHOWN", "DISMISSED"}
                                         /\ notice'[n].shownAt = notice[n].shownAt
<1>1. NoticesInv /\ [NoticesNext]_noticeVars => [Kept]_noticeVars
  <2> SUFFICES ASSUME NoticesInv, NoticesNext PROVE Kept
    OBVIOUS
  <2>1. ASSUME NEW n \in Notices, IssueNotice(n) PROVE Kept
    BY <2>1 DEF IssueNotice, NoticesInv, NoticesTypeOK
  <2>2. ASSUME NEW x \in Tabs, MarkShown(x) \/ MarkDismissed(x) PROVE Kept
    BY <2>2, SaveKeeps
  <2>3. CASE UNCHANGED notice
    BY <2>3
  <2> QED BY <2>1, <2>2, <2>3
        DEF NoticesNext, GetNextNotice, Report, FindByIdAndUserIdForUpdate, AbortReport, NextMoment
<1> QED BY <1>1, NoticesInvariance, PTL DEF NoticesSpec, DismissedStaysDismissed

-------------------------------------------------------------------------------
(* The reward dialog                                                       *)

DialogRow ==
    [open : BOOLEAN, user : Recipients \cup {Nobody}, step : {"form", "confirm"},
     loading : BOOLEAN, code : Codes, quantity : 0..MaxQuantity,
     optionsOf : Recipients \cup {Nobody}, granted : SUBSET ManualEvents]
LoadRow ==
    [pc : {"none", "sent", "served", "answered"},
     user : Recipients \cup {Nobody}, granted : SUBSET ManualEvents]
SubmitRow ==
    [pc : {"none", "sent", "granted", "refused", "answered"},
     user : Recipients \cup {Nobody}, event : Codes]

\* How far a request has come: a reward was given before it was answered, or never.
Asked == {"sent", "granted", "refused", "answered"}
Answered == {"answered"}
Granted == {"granted"}
Given == {"granted", "answered"}

\* Requests for a reward that are at one of some places.
At(rows, pcs) == {s \in Submits : rows[s].pc \in pcs}
Of(rows, u, e, pcs) == {s \in At(rows, pcs) : rows[s].user = u /\ rows[s].event = e}

\* What is shown and counted is owed to requests that have come that far: announced
\* rewards to answered ones, rewards to granted or answered ones.
CountInv ==
    /\ \A u \in Recipients, e \in ManualEvents :
        /\ rewarded[u][e] \in Nat /\ announced[u][e] \in Nat
        /\ announced[u][e] + Cardinality(Of(submit, u, e, Granted)) <= rewarded[u][e]
        /\ rewarded[u][e] <= Cardinality(Of(submit, u, e, Given))
    /\ sent \in Nat /\ sent <= Cardinality(At(submit, Asked))
    /\ told \in Nat /\ told <= Cardinality(At(submit, Answered))

\* The button is unlocked only when a failure was shown for each reward asked for.
DialogInv ==
    /\ dialog.open => /\ dialog.user \in Recipients
                      /\ sent <= told + (IF dialog.loading THEN 1 ELSE 0)
    /\ dialog.step = "confirm" => dialog.code # NoCode
    /\ \A s \in Submits : submit[s].pc # "none" =>
            submit[s].user \in Recipients /\ submit[s].event \in ManualEvents

AdminInv ==
    /\ openings \in 0..MaxOpenings
    /\ dialog \in DialogRow
    /\ load \in [Loads -> LoadRow]
    /\ submit \in [Submits -> SubmitRow]
    /\ rewarded \in [Recipients -> [ManualEvents -> Nat]]
    /\ announced \in [Recipients -> [ManualEvents -> Nat]]
    /\ CountInv
    /\ DialogInv

LEMMA SubmitsAreFinite ==
    /\ IsFiniteSet(Submits) /\ Cardinality(Submits) = MaxSubmits
    /\ \A S \in SUBSET Submits : IsFiniteSet(S) /\ Cardinality(S) \in Nat /\ Cardinality(S) <= MaxSubmits
<1>1. IsFiniteSet(Submits) /\ Cardinality(Submits) = MaxSubmits
  BY AdminConstants, FS_Interval DEF Submits
<1> QED BY <1>1, FS_Subset, FS_CardinalityType

\* A request that enters or leaves a set of requests changes its size by one.
LEMMA CountOne ==
    ASSUME NEW S \in SUBSET Submits, NEW s \in Submits, NEW T, T = S \cup {s} \/ T = S \ {s}
    PROVE  /\ Cardinality(S) \in Nat /\ Cardinality(T) \in Nat
           /\ s \notin S /\ s \in T => Cardinality(T) = Cardinality(S) + 1
           /\ s \in S /\ s \notin T => Cardinality(T) = Cardinality(S) - 1
           /\ (s \in S <=> s \in T) => Cardinality(T) = Cardinality(S)
<1>1. Cardinality(S) \in Nat /\ Cardinality(T) \in Nat
  BY SubmitsAreFinite
<1>2. ASSUME s \notin S, s \in T PROVE Cardinality(T) = Cardinality(S) + 1
  <2>1. T = S \cup {s}
    BY <1>2
  <2>2. Cardinality(S \cup {s}) = Cardinality(S) + 1
    BY <1>2, SubmitsAreFinite, FS_AddElement
  <2> QED BY <2>1, <2>2, Zenon
<1>3. ASSUME s \in S, s \notin T PROVE Cardinality(T) = Cardinality(S) - 1
  <2>1. T = S \ {s}
    BY <1>3
  <2>2. Cardinality(S \ {s}) = Cardinality(S) - 1
    BY <1>3, SubmitsAreFinite, FS_RemoveElement
  <2> QED BY <2>1, <2>2, Zenon
<1>4. ASSUME s \in S <=> s \in T PROVE Cardinality(T) = Cardinality(S)
  <2>1. T = S
    BY <1>4
  <2> QED BY <2>1
<1> QED BY <1>1, <1>2, <1>3, <1>4

LEMMA AdminInvInit == AdminInit => AdminInv
<1> SUFFICES ASSUME AdminInit PROVE AdminInv
  OBVIOUS
<1>1. dialog \in DialogRow /\ dialog.open = FALSE /\ dialog.step = "form"
  BY AdminConstants DEF AdminInit, DialogRow, Codes
<1>2. load \in [Loads -> LoadRow] /\ submit \in [Submits -> SubmitRow] /\ openings \in 0..MaxOpenings
  BY AdminConstants DEF AdminInit, Unsent, NotAsked, LoadRow, SubmitRow, Codes
<1>3. \A s \in Submits : submit[s].pc = "none"
  BY DEF AdminInit, NotAsked
<1>4. /\ At(submit, Asked) = {} /\ At(submit, Answered) = {}
      /\ \A u, e : Of(submit, u, e, Granted) = {} /\ Of(submit, u, e, Given) = {}
  BY <1>3 DEF At, Of, Asked, Answered, Granted, Given
<1>5. CountInv
  <2>1. Cardinality({}) = 0
    BY FS_EmptySet
  <2>2. /\ sent = 0 /\ told = 0
        /\ \A u \in Recipients, e \in ManualEvents : rewarded[u][e] = 0 /\ announced[u][e] = 0
    BY DEF AdminInit
  <2>3. \A u \in Recipients, e \in ManualEvents :
          /\ Cardinality(Of(submit, u, e, Granted)) = 0
          /\ Cardinality(Of(submit, u, e, Given)) = 0
    BY <1>4, <2>1
  <2>4. /\ Cardinality(At(submit, Asked)) = 0
        /\ Cardinality(At(submit, Answered)) = 0
    BY <1>4, <2>1
  <2> QED BY <2>2, <2>3, <2>4 DEF CountInv
<1> QED BY <1>1, <1>2, <1>3, <1>5 DEF AdminInv, AdminInit, DialogInv

\* The dialog changes and nothing is asked for or answered.
LEMMA DialogMoves ==
    ASSUME AdminInv, NEW d \in DialogRow, dialog' = d, UNCHANGED <<submit, rewarded, announced, sent, told>>,
           openings' \in 0..MaxOpenings, load' \in [Loads -> LoadRow],
           d.open => dialog.open /\ d.user = dialog.user /\ d.loading = dialog.loading,
           d.step = "confirm" => d.code # NoCode
    PROVE  AdminInv'
<1>1. CountInv'
  BY DEF AdminInv, CountInv, At, Of
<1>2. DialogInv'
  BY DEF AdminInv, DialogInv
<1> QED BY <1>1, <1>2 DEF AdminInv

\* One request moves.
LEMMA SubmitMoves ==
    ASSUME AdminInv, NEW s \in Submits, NEW r \in SubmitRow, submit' = [submit EXCEPT ![s] = r],
           r.pc # "none", r.user \in Recipients, r.event \in ManualEvents
    PROVE  /\ submit' \in [Submits -> SubmitRow]
           /\ \A p \in Submits : submit'[p].pc # "none" =>
                    submit'[p].user \in Recipients /\ submit'[p].event \in ManualEvents
           /\ \A pcs : At(submit', pcs) = IF r.pc \in pcs THEN At(submit, pcs) \cup {s} ELSE At(submit, pcs) \ {s}
           /\ \A u, e, pcs : Of(submit', u, e, pcs) = IF r.pc \in pcs /\ r.user = u /\ r.event = e
                                              THEN Of(submit, u, e, pcs) \cup {s} ELSE Of(submit, u, e, pcs) \ {s}
<1>1. \A p \in Submits : submit'[p] = IF p = s THEN r ELSE submit[p]
  BY DEF AdminInv
<1> QED BY <1>1 DEF AdminInv, DialogInv, At, Of

\* How the sizes change when a request moves from one place to another.
LEMMA SizesMove ==
    ASSUME AdminInv, NEW s \in Submits, NEW r \in SubmitRow, submit' = [submit EXCEPT ![s] = r],
           r.pc # "none", r.user \in Recipients, r.event \in ManualEvents,
           submit[s].pc # "none" => r.user = submit[s].user /\ r.event = submit[s].event
    PROVE  /\ \A pcs : "none" \notin pcs =>
                /\ Cardinality(At(submit, pcs)) \in Nat /\ Cardinality(At(submit', pcs)) \in Nat
                /\ Cardinality(At(submit', pcs)) = Cardinality(At(submit, pcs)) + (IF r.pc \in pcs THEN 1 ELSE 0)
                                            - (IF submit[s].pc \in pcs THEN 1 ELSE 0)
           /\ \A u, e, pcs : "none" \notin pcs =>
                /\ Cardinality(Of(submit, u, e, pcs)) \in Nat /\ Cardinality(Of(submit', u, e, pcs)) \in Nat
                /\ Cardinality(Of(submit', u, e, pcs)) =
                        IF r.user = u /\ r.event = e
                        THEN Cardinality(Of(submit, u, e, pcs)) + (IF r.pc \in pcs THEN 1 ELSE 0)
                                - (IF submit[s].pc \in pcs THEN 1 ELSE 0)
                        ELSE Cardinality(Of(submit, u, e, pcs))
<1>1. \A p \in Submits : submit'[p] = IF p = s THEN r ELSE submit[p]
  BY DEF AdminInv
<1>2. ASSUME NEW pcs, "none" \notin pcs
      PROVE  /\ Cardinality(At(submit, pcs)) \in Nat /\ Cardinality(At(submit', pcs)) \in Nat
             /\ Cardinality(At(submit', pcs)) = Cardinality(At(submit, pcs)) + (IF r.pc \in pcs THEN 1 ELSE 0)
                                         - (IF submit[s].pc \in pcs THEN 1 ELSE 0)
  <2>1. PICK S \in SUBSET Submits : S = At(submit, pcs)
    BY DEF At
  <2>2. PICK T : T = At(submit', pcs)
    OBVIOUS
  <2>3. (T = S \cup {s} \/ T = S \ {s}) /\ (s \in T <=> r.pc \in pcs)
    BY <1>1, <2>1, <2>2 DEF At
  <2>4. s \in S <=> submit[s].pc \in pcs
    BY <2>1 DEF At
  <2>5. /\ Cardinality(S) \in Nat /\ Cardinality(T) \in Nat
        /\ Cardinality(T) = Cardinality(S) + (IF r.pc \in pcs THEN 1 ELSE 0)
                                - (IF submit[s].pc \in pcs THEN 1 ELSE 0)
    BY <2>3, <2>4, CountOne
  <2> QED BY <2>1, <2>2, <2>5
<1>3. ASSUME NEW u, NEW e, NEW pcs, "none" \notin pcs
      PROVE  /\ Cardinality(Of(submit, u, e, pcs)) \in Nat /\ Cardinality(Of(submit', u, e, pcs)) \in Nat
             /\ Cardinality(Of(submit', u, e, pcs)) =
                    IF r.user = u /\ r.event = e
                    THEN Cardinality(Of(submit, u, e, pcs)) + (IF r.pc \in pcs THEN 1 ELSE 0)
                            - (IF submit[s].pc \in pcs THEN 1 ELSE 0)
                    ELSE Cardinality(Of(submit, u, e, pcs))
  <2>1. PICK S \in SUBSET Submits : S = Of(submit, u, e, pcs)
    BY DEF At, Of
  <2>2. PICK T : T = Of(submit', u, e, pcs)
    OBVIOUS
  <2>3. /\ T = S \cup {s} \/ T = S \ {s}
        /\ s \in T <=> r.pc \in pcs /\ r.user = u /\ r.event = e
    BY <1>1, <2>1, <2>2 DEF At, Of
  <2>4. s \in S <=> submit[s].pc \in pcs /\ submit[s].user = u /\ submit[s].event = e
    BY <2>1 DEF At, Of
  <2>5. submit[s].pc \in pcs => submit[s].user = r.user /\ submit[s].event = r.event
    BY <1>3
  <2>6. /\ Cardinality(S) \in Nat /\ Cardinality(T) \in Nat
        /\ Cardinality(T) = IF r.user = u /\ r.event = e
                            THEN Cardinality(S) + (IF r.pc \in pcs THEN 1 ELSE 0)
                                    - (IF submit[s].pc \in pcs THEN 1 ELSE 0)
                            ELSE Cardinality(S)
    BY <2>3, <2>4, <2>5, CountOne
  <2> QED BY <2>1, <2>2, <2>6
<1> QED BY <1>2, <1>3

\* The same at the places the invariant counts.
Moved(s, r) ==
    /\ Cardinality(At(submit, Asked)) \in Nat
    /\ Cardinality(At(submit', Asked)) = Cardinality(At(submit, Asked))
                                         + (IF submit[s].pc = "none" THEN 1 ELSE 0)
    /\ Cardinality(At(submit, Answered)) \in Nat
    /\ Cardinality(At(submit', Answered)) = Cardinality(At(submit, Answered))
                                         + (IF r.pc = "answered" THEN 1 ELSE 0)
                                         - (IF submit[s].pc = "answered" THEN 1 ELSE 0)
    /\ \A u, e :
         /\ Cardinality(Of(submit, u, e, Granted)) \in Nat
         /\ Cardinality(Of(submit', u, e, Granted)) \in Nat
         /\ Cardinality(Of(submit', u, e, Granted)) =
                 IF r.user = u /\ r.event = e
                 THEN Cardinality(Of(submit, u, e, Granted))
                         + (IF r.pc = "granted" THEN 1 ELSE 0)
                         - (IF submit[s].pc = "granted" THEN 1 ELSE 0)
                 ELSE Cardinality(Of(submit, u, e, Granted))
         /\ Cardinality(Of(submit, u, e, Given)) \in Nat
         /\ Cardinality(Of(submit', u, e, Given)) \in Nat
         /\ Cardinality(Of(submit', u, e, Given)) =
                 IF r.user = u /\ r.event = e
                 THEN Cardinality(Of(submit, u, e, Given))
                         + (IF r.pc \in {"granted", "answered"} THEN 1 ELSE 0)
                         - (IF submit[s].pc \in {"granted", "answered"} THEN 1 ELSE 0)
                 ELSE Cardinality(Of(submit, u, e, Given))

LEMMA RequestMoves ==
    ASSUME AdminInv, NEW s \in Submits, NEW r \in SubmitRow, submit' = [submit EXCEPT ![s] = r],
           r.pc # "none", r.user \in Recipients, r.event \in ManualEvents,
           submit[s].pc # "none" => r.user = submit[s].user /\ r.event = submit[s].event
    PROVE  Moved(s, r)
<1> DEFINE N(pcs) == Cardinality(At(submit, pcs))
           M(pcs) == Cardinality(At(submit', pcs))
           NOf(u, e, pcs) == Cardinality(Of(submit, u, e, pcs))
           MOf(u, e, pcs) == Cardinality(Of(submit', u, e, pcs))
           Came(pcs) == IF r.pc \in pcs THEN 1 ELSE 0
           Was(pcs) == IF submit[s].pc \in pcs THEN 1 ELSE 0
<1>1. /\ "none" \notin Asked /\ "none" \notin Answered /\ "none" \notin Granted /\ "none" \notin Given
      /\ Came(Asked) = 1 /\ Was(Asked) = IF submit[s].pc = "none" THEN 0 ELSE 1
      /\ Came(Answered) = IF r.pc = "answered" THEN 1 ELSE 0
      /\ Was(Answered) = IF submit[s].pc = "answered" THEN 1 ELSE 0
      /\ Came(Granted) = IF r.pc = "granted" THEN 1 ELSE 0
      /\ Was(Granted) = IF submit[s].pc = "granted" THEN 1 ELSE 0
      /\ Came(Given) = IF r.pc \in {"granted", "answered"} THEN 1 ELSE 0
      /\ Was(Given) = IF submit[s].pc \in {"granted", "answered"} THEN 1 ELSE 0
  <2>1. submit[s] \in SubmitRow
    BY DEF AdminInv
  <2> QED BY <2>1 DEF Asked, Answered, Granted, Given, SubmitRow
<1>2. /\ \A pcs : "none" \notin pcs => N(pcs) \in Nat /\ M(pcs) = N(pcs) + Came(pcs) - Was(pcs)
      /\ \A u, e, pcs : "none" \notin pcs =>
            /\ NOf(u, e, pcs) \in Nat /\ MOf(u, e, pcs) \in Nat
            /\ MOf(u, e, pcs) = IF r.user = u /\ r.event = e
                                THEN NOf(u, e, pcs) + Came(pcs) - Was(pcs) ELSE NOf(u, e, pcs)
  BY SizesMove
<1> HIDE DEF N, M, NOf, MOf, Came, Was
<1>3. /\ N(Asked) \in Nat /\ M(Asked) = N(Asked) + Came(Asked) - Was(Asked)
      /\ N(Answered) \in Nat /\ M(Answered) = N(Answered) + Came(Answered) - Was(Answered)
  BY <1>1, <1>2, Zenon
<1>4. M(Asked) = N(Asked) + (IF submit[s].pc = "none" THEN 1 ELSE 0)
  BY <1>1, <1>3
<1>5. ASSUME NEW u, NEW e
      PROVE  /\ NOf(u, e, Granted) \in Nat /\ MOf(u, e, Granted) \in Nat
             /\ MOf(u, e, Granted) = IF r.user = u /\ r.event = e
                    THEN NOf(u, e, Granted) + Came(Granted) - Was(Granted) ELSE NOf(u, e, Granted)
             /\ NOf(u, e, Given) \in Nat /\ MOf(u, e, Given) \in Nat
             /\ MOf(u, e, Given) = IF r.user = u /\ r.event = e
                    THEN NOf(u, e, Given) + Came(Given) - Was(Given) ELSE NOf(u, e, Given)
  BY <1>1, <1>2, Zenon
<1>6. M(Answered) = N(Answered) + (IF r.pc = "answered" THEN 1 ELSE 0)
                                - (IF submit[s].pc = "answered" THEN 1 ELSE 0)
  BY <1>1, <1>3
<1>7. \A u, e :
        /\ NOf(u, e, Granted) \in Nat /\ MOf(u, e, Granted) \in Nat
        /\ MOf(u, e, Granted) =
                IF r.user = u /\ r.event = e
                THEN NOf(u, e, Granted) + (IF r.pc = "granted" THEN 1 ELSE 0)
                                        - (IF submit[s].pc = "granted" THEN 1 ELSE 0)
                ELSE NOf(u, e, Granted)
        /\ NOf(u, e, Given) \in Nat /\ MOf(u, e, Given) \in Nat
        /\ MOf(u, e, Given) =
                IF r.user = u /\ r.event = e
                THEN NOf(u, e, Given) + (IF r.pc \in {"granted", "answered"} THEN 1 ELSE 0)
                                      - (IF submit[s].pc \in {"granted", "answered"} THEN 1 ELSE 0)
                ELSE NOf(u, e, Given)
  BY <1>1, <1>5
<1> QED BY <1>3, <1>4, <1>6, <1>7, Zenon DEF N, M, NOf, MOf, Moved

\* One more of a user and an event.
LEMMA OneMore ==
    ASSUME NEW f \in [Recipients -> [ManualEvents -> Nat]], NEW v \in Recipients, NEW x \in ManualEvents,
           NEW g, g = [f EXCEPT ![v][x] = @ + 1]
    PROVE  /\ g \in [Recipients -> [ManualEvents -> Nat]]
           /\ \A u \in Recipients, e \in ManualEvents :
                    g[u][e] = IF v = u /\ x = e THEN f[u][e] + 1 ELSE f[u][e]
<1>1. PICK row : row = [f[v] EXCEPT ![x] = f[v][x] + 1]
  OBVIOUS
<1>2. f[v] \in [ManualEvents -> Nat] /\ f[v][x] + 1 \in Nat
  OBVIOUS
<1>3. row \in [ManualEvents -> Nat] /\ \A e \in ManualEvents : row[e] = IF x = e THEN f[v][e] + 1 ELSE f[v][e]
  BY <1>1, <1>2
<1>4. g = [f EXCEPT ![v] = row]
  BY <1>1
<1>5. \A u \in Recipients : g[u] = IF u = v THEN row ELSE f[u]
  BY <1>4
<1> QED BY <1>3, <1>4, <1>5

LEMMA HandleSubmitKeeps == ASSUME AdminInv, NEW s \in Submits, HandleSubmit(s) PROVE AdminInv'
<1>1. /\ dialog.open /\ dialog.step = "confirm" /\ ~dialog.loading /\ submit[s].pc = "none"
      /\ dialog' = [dialog EXCEPT !.loading = TRUE] /\ sent' = sent + 1
      /\ UNCHANGED <<openings, load, rewarded, announced, told>>
  BY DEF HandleSubmit, Unlocked, ConfirmView
<1>2. PICK r : r = [pc |-> "sent", user |-> dialog.user, event |-> dialog.code]
  OBVIOUS
<1>3. /\ r \in SubmitRow /\ r.pc = "sent" /\ r.user \in Recipients /\ r.event \in ManualEvents
      /\ submit' = [submit EXCEPT ![s] = r]
  BY <1>1, <1>2 DEF HandleSubmit, AdminInv, DialogInv, DialogRow, SubmitRow, Codes
<1>m. Moved(s, r)
  <2>1. r.pc # "none" /\ (submit[s].pc # "none" => r.user = submit[s].user /\ r.event = submit[s].event)
    BY <1>1, <1>3
  <2> QED BY <1>3, <2>1, RequestMoves, Zenon
<1>a. submit[s].pc = "none" /\ r.pc = "sent"
  BY <1>1, <1>3
<1>4. /\ Cardinality(At(submit', Asked)) =
            Cardinality(At(submit, Asked)) + 1
      /\ Cardinality(At(submit', Answered)) = Cardinality(At(submit, Answered))
      /\ Cardinality(At(submit, Answered)) \in Nat
      /\ Cardinality(At(submit, Asked)) \in Nat
  BY <1>a, <1>m DEF Moved
<1>b.    \A u \in Recipients, e \in ManualEvents :
            /\ Cardinality(Of(submit', u, e, Granted)) = Cardinality(Of(submit, u, e, Granted))
            /\ Cardinality(Of(submit', u, e, Given)) =
                    Cardinality(Of(submit, u, e, Given))
  BY <1>a, <1>m DEF Moved
<1>5. CountInv'
  BY <1>1, <1>4, <1>b DEF AdminInv, CountInv
<1>6. dialog' \in DialogRow /\ dialog'.loading /\ dialog'.user = dialog.user /\ dialog'.code = dialog.code
  BY <1>1 DEF AdminInv, DialogRow
<1>7. DialogInv'
  <2>1. dialog.user \in Recipients /\ sent <= told
    BY <1>1 DEF AdminInv, DialogInv, CountInv
  <2>2. sent' <= told' + 1
    BY <1>1, <2>1 DEF AdminInv, CountInv
  <2> QED BY <1>1, <1>3, <1>6, <2>1, <2>2, SubmitMoves DEF AdminInv, DialogInv
<1> QED BY <1>1, <1>3, <1>5, <1>6, <1>7, SubmitMoves DEF AdminInv

\* The row of a request that is answered or served next.
LEMMA NextRow ==
    ASSUME AdminInv, NEW s \in Submits, submit[s].pc # "none",
           NEW pc \in {"granted", "refused", "answered"}, submit' = [submit EXCEPT ![s].pc = pc]
    PROVE  \E r \in SubmitRow :
                /\ submit' = [submit EXCEPT ![s] = r] /\ r.pc = pc
                /\ r.user = submit[s].user /\ r.event = submit[s].event
                /\ r.user \in Recipients /\ r.event \in ManualEvents
<1> DEFINE r == [submit[s] EXCEPT !.pc = pc]
<1>1. submit[s] \in SubmitRow /\ submit[s].user \in Recipients /\ submit[s].event \in ManualEvents
  BY DEF AdminInv, DialogInv
<1>2. r \in SubmitRow /\ r.pc = pc /\ r.user = submit[s].user /\ r.event = submit[s].event
  BY <1>1 DEF SubmitRow
<1>3. submit' = [submit EXCEPT ![s] = r]
  OBVIOUS
<1> QED BY <1>1, <1>2, <1>3

LEMMA GrantFeedbackRewardKeeps ==
    ASSUME AdminInv, NEW s \in Submits, GrantFeedbackReward(s)
    PROVE  AdminInv'
<1>1. submit[s].pc = "sent" /\ UNCHANGED <<openings, dialog, load, announced, sent, told>>
  BY DEF GrantFeedbackReward
<1>2. PICK pc \in {"granted", "refused"} :
        /\ submit' = [submit EXCEPT ![s].pc = pc]
        /\ pc = "refused" => UNCHANGED rewarded
        /\ pc = "granted" => rewarded' = [rewarded EXCEPT ![submit[s].user][submit[s].event] = @ + 1]
  BY DEF GrantFeedbackReward
<1>3. PICK r \in SubmitRow :
        /\ submit' = [submit EXCEPT ![s] = r] /\ r.pc = pc
        /\ r.user = submit[s].user /\ r.event = submit[s].event
        /\ r.user \in Recipients /\ r.event \in ManualEvents
  <2>1. submit[s].pc # "none" /\ pc \in {"granted", "refused", "answered"} /\ submit' = [submit EXCEPT ![s].pc = pc]
    BY <1>1, <1>2
  <2> QED BY <2>1, NextRow, Zenon
<1>m. Moved(s, r)
  <2>1. r.pc # "none" /\ (submit[s].pc # "none" => r.user = submit[s].user /\ r.event = submit[s].event)
    BY <1>2, <1>3
  <2> QED BY <1>3, <2>1, RequestMoves, Zenon
<1>g. ASSUME pc = "granted" PROVE rewarded' = [rewarded EXCEPT ![r.user][r.event] = @ + 1]
  BY <1>g, <1>2, <1>3
<1>r. rewarded \in [Recipients -> [ManualEvents -> Nat]]
  BY DEF AdminInv
<1>4. rewarded' \in [Recipients -> [ManualEvents -> Nat]]
  <2>1. CASE pc = "granted"
    <3>1. rewarded' = [rewarded EXCEPT ![r.user][r.event] = @ + 1]
      BY <2>1, <1>g
    <3>2. r.user \in Recipients /\ r.event \in ManualEvents
      BY <1>3
    <3> QED BY <3>1, <3>2, <1>r, OneMore
  <2>2. CASE pc = "refused"
    BY <2>2, <1>2, <1>r
  <2> QED BY <2>1, <2>2
<1>5. \A u \in Recipients, e \in ManualEvents :
        rewarded'[u][e] = IF pc = "granted" /\ r.user = u /\ r.event = e THEN rewarded[u][e] + 1
                          ELSE rewarded[u][e]
  <2>1. CASE pc = "granted"
    <3>1. \A u \in Recipients, e \in ManualEvents :
            rewarded'[u][e] = IF r.user = u /\ r.event = e THEN rewarded[u][e] + 1 ELSE rewarded[u][e]
      <4>1. rewarded' = [rewarded EXCEPT ![r.user][r.event] = @ + 1]
        BY <2>1, <1>g
      <4>2. r.user \in Recipients /\ r.event \in ManualEvents
        BY <1>3
      <4> QED BY <4>1, <4>2, <1>r, OneMore
    <3> QED BY <2>1, <3>1
  <2>2. CASE pc = "refused"
    BY <2>2, <1>2
  <2> QED BY <2>1, <2>2
<1>a. submit[s].pc = "sent" /\ r.pc = pc /\ (pc = "granted" \/ pc = "refused")
  BY <1>1, <1>2, <1>3
<1>6. /\ Cardinality(At(submit', Asked)) =
            Cardinality(At(submit, Asked))
      /\ Cardinality(At(submit', Answered)) = Cardinality(At(submit, Answered))
  BY <1>a, <1>m DEF Moved
<1>7. ASSUME NEW u \in Recipients, NEW e \in ManualEvents
      PROVE  /\ Cardinality(Of(submit, u, e, Granted)) \in Nat
             /\ Cardinality(Of(submit, u, e, Given)) \in Nat
             /\ Cardinality(Of(submit', u, e, Granted)) =
                    IF pc = "granted" /\ r.user = u /\ r.event = e
                    THEN Cardinality(Of(submit, u, e, Granted)) + 1 ELSE Cardinality(Of(submit, u, e, Granted))
             /\ Cardinality(Of(submit', u, e, Given)) =
                    IF pc = "granted" /\ r.user = u /\ r.event = e
                    THEN Cardinality(Of(submit, u, e, Given)) + 1
                    ELSE Cardinality(Of(submit, u, e, Given))
  BY <1>a, <1>m DEF Moved
<1>8. CountInv'
  <2>1. ASSUME NEW u \in Recipients, NEW e \in ManualEvents
        PROVE  /\ rewarded'[u][e] \in Nat /\ announced'[u][e] \in Nat
               /\ announced'[u][e] + Cardinality(Of(submit', u, e, Granted)) <= rewarded'[u][e]
               /\ rewarded'[u][e] <= Cardinality(Of(submit', u, e, Given))
    BY <1>1, <1>5, <1>7 DEF AdminInv, CountInv
  <2> QED BY <1>1, <1>6, <2>1 DEF AdminInv, CountInv
<1>9. DialogInv'
  BY <1>1, <1>2, <1>3, SubmitMoves DEF AdminInv, DialogInv
<1> QED BY <1>1, <1>2, <1>3, <1>4, <1>8, <1>9, SubmitMoves DEF AdminInv

LEMMA GrantSucceedsKeeps == ASSUME AdminInv, NEW s \in Submits, GrantSucceeds(s) PROVE AdminInv'
<1>1. /\ submit[s].pc = "granted" /\ UNCHANGED <<openings, load, rewarded, sent, told>>
      /\ dialog' = [dialog EXCEPT !.open = FALSE, !.loading = FALSE]
      /\ submit' = [submit EXCEPT ![s].pc = "answered"]
      /\ announced' = [announced EXCEPT ![submit[s].user][submit[s].event] = @ + 1]
  BY DEF GrantSucceeds
<1>2. PICK r \in SubmitRow :
        /\ submit' = [submit EXCEPT ![s] = r] /\ r.pc = "answered"
        /\ r.user = submit[s].user /\ r.event = submit[s].event
        /\ r.user \in Recipients /\ r.event \in ManualEvents
  <2>1. submit[s].pc # "none" /\ submit' = [submit EXCEPT ![s].pc = "answered"]
    BY <1>1
  <2> QED BY <2>1, NextRow, Zenon
<1>m. Moved(s, r)
  <2>1. r.pc # "none" /\ (submit[s].pc # "none" => r.user = submit[s].user /\ r.event = submit[s].event)
    BY <1>2
  <2> QED BY <1>2, <2>1, RequestMoves, Zenon
<1>g. announced' = [announced EXCEPT ![r.user][r.event] = @ + 1]
  BY <1>1, <1>2
<1>r. announced \in [Recipients -> [ManualEvents -> Nat]]
  BY DEF AdminInv
<1>3. announced' \in [Recipients -> [ManualEvents -> Nat]]
  BY <1>g, <1>2, <1>r, OneMore
<1>4. \A u \in Recipients, e \in ManualEvents :
        announced'[u][e] = IF r.user = u /\ r.event = e THEN announced[u][e] + 1 ELSE announced[u][e]
  BY <1>g, <1>2, <1>r, OneMore
<1>a. submit[s].pc = "granted" /\ r.pc = "answered"
  BY <1>1, <1>2
<1>5. /\ Cardinality(At(submit', Asked)) =
            Cardinality(At(submit, Asked))
      /\ Cardinality(At(submit', Answered)) = Cardinality(At(submit, Answered)) + 1
      /\ Cardinality(At(submit, Answered)) \in Nat
  BY <1>a, <1>m DEF Moved
<1>6. ASSUME NEW u \in Recipients, NEW e \in ManualEvents
      PROVE  /\ Cardinality(Of(submit, u, e, Granted)) \in Nat /\ Cardinality(Of(submit', u, e, Granted)) \in Nat
             /\ Cardinality(Of(submit', u, e, Granted)) =
                    IF r.user = u /\ r.event = e
                    THEN Cardinality(Of(submit, u, e, Granted)) - 1 ELSE Cardinality(Of(submit, u, e, Granted))
             /\ Cardinality(Of(submit', u, e, Given)) =
                    Cardinality(Of(submit, u, e, Given))
  BY <1>a, <1>m DEF Moved
<1>7. CountInv'
  <2>1. ASSUME NEW u \in Recipients, NEW e \in ManualEvents
        PROVE  /\ rewarded'[u][e] \in Nat /\ announced'[u][e] \in Nat
               /\ announced'[u][e] + Cardinality(Of(submit', u, e, Granted)) <= rewarded'[u][e]
               /\ rewarded'[u][e] <= Cardinality(Of(submit', u, e, Given))
    <3>1. /\ rewarded[u][e] \in Nat /\ announced[u][e] \in Nat
          /\ announced[u][e] + Cardinality(Of(submit, u, e, Granted)) <= rewarded[u][e]
          /\ rewarded[u][e] <= Cardinality(Of(submit, u, e, Given))
      BY DEF AdminInv, CountInv
    <3>2. rewarded' = rewarded
      BY <1>1
    <3> QED BY <1>4, <1>6, <3>1, <3>2
  <2>2. sent \in Nat /\ told \in Nat /\ sent <= Cardinality(At(submit, Asked)) /\ told <= Cardinality(At(submit, Answered))
    BY DEF AdminInv, CountInv
  <2>3. sent' = sent /\ told' = told
    BY <1>1
  <2> QED BY <1>5, <2>1, <2>2, <2>3 DEF CountInv
<1>8. dialog' \in DialogRow /\ dialog'.open = FALSE /\ dialog'.step = dialog.step /\ dialog'.code = dialog.code
  BY <1>1 DEF AdminInv, DialogRow
<1>9. DialogInv'
  BY <1>2, <1>8, SubmitMoves DEF AdminInv, DialogInv
<1> QED BY <1>1, <1>2, <1>3, <1>7, <1>8, <1>9, SubmitMoves DEF AdminInv

LEMMA GrantFailsKeeps == ASSUME AdminInv, NEW s \in Submits, GrantFails(s) PROVE AdminInv'
<1>1. /\ submit[s].pc \in {"granted", "refused"} /\ UNCHANGED <<openings, load, rewarded, announced, sent>>
      /\ dialog' = [dialog EXCEPT !.loading = FALSE] /\ told' = told + 1
      /\ submit' = [submit EXCEPT ![s].pc = "answered"]
  BY DEF GrantFails
<1>2. PICK r \in SubmitRow :
        /\ submit' = [submit EXCEPT ![s] = r] /\ r.pc = "answered"
        /\ r.user = submit[s].user /\ r.event = submit[s].event
        /\ r.user \in Recipients /\ r.event \in ManualEvents
  <2>1. submit[s].pc # "none" /\ submit' = [submit EXCEPT ![s].pc = "answered"]
    BY <1>1
  <2> QED BY <2>1, NextRow, Zenon
<1>m. Moved(s, r)
  <2>1. r.pc # "none" /\ (submit[s].pc # "none" => r.user = submit[s].user /\ r.event = submit[s].event)
    BY <1>2
  <2> QED BY <1>2, <2>1, RequestMoves, Zenon
<1>a. (submit[s].pc = "granted" \/ submit[s].pc = "refused") /\ r.pc = "answered"
  BY <1>1, <1>2
<1>3. /\ Cardinality(At(submit', Asked)) =
            Cardinality(At(submit, Asked))
      /\ Cardinality(At(submit', Answered)) = Cardinality(At(submit, Answered)) + 1
      /\ Cardinality(At(submit, Answered)) \in Nat
  BY <1>a, <1>m DEF Moved
<1>4. ASSUME NEW u \in Recipients, NEW e \in ManualEvents
      PROVE  /\ Cardinality(Of(submit, u, e, Granted)) \in Nat /\ Cardinality(Of(submit', u, e, Granted)) \in Nat
             /\ Cardinality(Of(submit', u, e, Granted)) <= Cardinality(Of(submit, u, e, Granted))
             /\ Cardinality(Of(submit', u, e, Given)) >=
                    Cardinality(Of(submit, u, e, Given))
             /\ Cardinality(Of(submit', u, e, Given)) \in Nat
             /\ Cardinality(Of(submit, u, e, Given)) \in Nat
  BY <1>a, <1>m DEF Moved
<1>5. CountInv'
  <2>1. ASSUME NEW u \in Recipients, NEW e \in ManualEvents
        PROVE  /\ rewarded'[u][e] \in Nat /\ announced'[u][e] \in Nat
               /\ announced'[u][e] + Cardinality(Of(submit', u, e, Granted)) <= rewarded'[u][e]
               /\ rewarded'[u][e] <= Cardinality(Of(submit', u, e, Given))
    <3>1. /\ rewarded[u][e] \in Nat /\ announced[u][e] \in Nat
          /\ announced[u][e] + Cardinality(Of(submit, u, e, Granted)) <= rewarded[u][e]
          /\ rewarded[u][e] <= Cardinality(Of(submit, u, e, Given))
      BY DEF AdminInv, CountInv
    <3>2. rewarded' = rewarded /\ announced' = announced
      BY <1>1
    <3> QED BY <1>4, <3>1, <3>2
  <2>2. sent \in Nat /\ told \in Nat /\ sent <= Cardinality(At(submit, Asked)) /\ told <= Cardinality(At(submit, Answered))
    BY DEF AdminInv, CountInv
  <2>3. sent' = sent /\ told' = told + 1
    BY <1>1
  <2> QED BY <1>3, <2>1, <2>2, <2>3 DEF CountInv
<1>6. /\ dialog' \in DialogRow /\ dialog'.open = dialog.open /\ dialog'.step = dialog.step
      /\ dialog'.code = dialog.code /\ dialog'.user = dialog.user /\ ~dialog'.loading
  BY <1>1 DEF AdminInv, DialogRow
<1>7. DialogInv'
  <2>1. dialog.open => dialog.user \in Recipients /\ sent <= told + 1
    BY DEF AdminInv, DialogInv, CountInv
  <2> QED BY <1>1, <1>2, <1>6, <2>1, SubmitMoves DEF AdminInv, DialogInv, CountInv
<1> QED BY <1>1, <1>2, <1>5, <1>6, <1>7, SubmitMoves DEF AdminInv

LEMMA OpeningKeeps == ASSUME AdminInv, NEW u \in Recipients, HandleEventGrant(u) PROVE AdminInv'
<1>1. /\ openings' = openings + 1 /\ openings < MaxOpenings
      /\ dialog' = [dialog EXCEPT !.open = TRUE, !.user = u, !.step = "form", !.loading = FALSE,
                                  !.code = NoCode, !.quantity = 0]
      /\ load' = [load EXCEPT ![openings'] = [Unsent EXCEPT !.pc = "sent", !.user = u]]
      /\ sent' = 0 /\ told' = 0 /\ UNCHANGED <<submit, rewarded, announced>>
  BY DEF HandleEventGrant
<1>2. openings' \in 0..MaxOpenings
  BY <1>1, AdminConstants DEF AdminInv
<1>3. [Unsent EXCEPT !.pc = "sent", !.user = u] \in LoadRow
  BY DEF Unsent, LoadRow
<1>4. load' \in [Loads -> LoadRow]
  BY <1>1, <1>3 DEF AdminInv
<1>5. NoCode \in Codes /\ 0 \in 0..MaxQuantity
  BY AdminConstants DEF Codes
<1>6. dialog' \in DialogRow /\ dialog'.user = u /\ dialog'.step = "form" /\ ~dialog'.loading
  BY <1>1, <1>5 DEF AdminInv, DialogRow
<1>7. Cardinality(At(submit, Asked)) \in Nat
      /\ Cardinality(At(submit, Answered)) \in Nat
  BY SubmitsAreFinite DEF At
<1>8. CountInv'
  <2>1. submit' = submit /\ rewarded' = rewarded /\ announced' = announced /\ sent' = 0 /\ told' = 0
    BY <1>1
  <2>2. CountInv
    BY DEF AdminInv
  <2> QED BY <1>7, <2>1, <2>2 DEF CountInv
<1>9. DialogInv'
  BY <1>1, <1>6 DEF AdminInv, DialogInv
<1> QED BY <1>1, <1>2, <1>4, <1>6, <1>8, <1>9 DEF AdminInv

LEMMA LoadsKeep ==
    ASSUME AdminInv, NEW l \in Loads, GetManualRewardEvents(l) \/ OptionsArrive(l) \/ OptionsFail(l)
    PROVE  AdminInv'
<1>1. load[l] \in LoadRow /\ dialog \in DialogRow /\ openings \in 0..MaxOpenings
  BY DEF AdminInv
<1>2. CASE GetManualRewardEvents(l)
  <2>1. PICK E \in SUBSET ManualEvents : load' = [load EXCEPT ![l].pc = "served", ![l].granted = E]
    BY <1>2 DEF GetManualRewardEvents
  <2>2. load' \in [Loads -> LoadRow]
    BY <1>1, <2>1 DEF AdminInv, LoadRow
  <2>3. UNCHANGED <<openings, dialog, submit, rewarded, announced, sent, told>>
    BY <1>2 DEF GetManualRewardEvents
  <2>4. CountInv'
    BY <2>3 DEF AdminInv, CountInv, At, Of
  <2>5. DialogInv'
    BY <2>3 DEF AdminInv, DialogInv
  <2> QED BY <2>2, <2>3, <2>4, <2>5 DEF AdminInv
<1>3. CASE OptionsArrive(l) \/ OptionsFail(l)
  <2>1. PICK u \in Recipients \cup {Nobody}, E \in SUBSET ManualEvents :
            dialog' = [dialog EXCEPT !.optionsOf = u, !.granted = E]
    BY <1>1, <1>3 DEF OptionsArrive, OptionsFail, LoadRow
  <2>2. PICK d : d = [dialog EXCEPT !.optionsOf = u, !.granted = E]
    OBVIOUS
  <2>3. /\ d \in DialogRow /\ d.open = dialog.open /\ d.user = dialog.user /\ d.loading = dialog.loading
        /\ d.step = dialog.step /\ d.code = dialog.code
    BY <1>1, <2>2 DEF DialogRow
  <2>4. load' \in [Loads -> LoadRow]
    <3>1. PICK r : r = [load[l] EXCEPT !.pc = "answered"]
      OBVIOUS
    <3>2. r \in LoadRow
      BY <1>1, <3>1 DEF LoadRow
    <3>3. load' = [load EXCEPT ![l] = r]
      BY <1>3, <3>1 DEF OptionsArrive, OptionsFail
    <3> QED BY <3>2, <3>3 DEF AdminInv
  <2>5. UNCHANGED <<openings, submit, rewarded, announced, sent, told>>
    BY <1>3 DEF OptionsArrive, OptionsFail
  <2>6. d.step = "confirm" => d.code # NoCode
    BY <2>3 DEF AdminInv, DialogInv
  <2> QED BY <1>1, <2>1, <2>2, <2>3, <2>4, <2>5, <2>6, DialogMoves
<1> QED BY <1>2, <1>3

LEMMA FormKeeps ==
    ASSUME AdminInv, OnClose \/ ChangeQuantity \/ SetStep \/ \E e \in Codes : SelectEvent(e)
    PROVE  AdminInv'
<1>1. dialog \in DialogRow /\ openings \in 0..MaxOpenings /\ load \in [Loads -> LoadRow]
  BY DEF AdminInv
<1>2. UNCHANGED <<openings, load, submit, rewarded, announced, sent, told>>
  BY DEF OnClose, ChangeQuantity, SetStep, SelectEvent
<1>3. openings' \in 0..MaxOpenings /\ load' \in [Loads -> LoadRow]
  BY <1>1, <1>2
<1>4. dialog.step = "confirm" => dialog.code # NoCode
  BY DEF AdminInv, DialogInv
<1>5. \E d \in DialogRow :
        /\ dialog' = d
        /\ d.open => dialog.open /\ d.user = dialog.user /\ d.loading = dialog.loading
        /\ d.step = "confirm" => d.code # NoCode
  <2>1. CASE OnClose
    <3>1. PICK d : d = [dialog EXCEPT !.open = FALSE]
      OBVIOUS
    <3>2. d \in DialogRow /\ d.open = FALSE /\ d.step = dialog.step /\ d.code = dialog.code
      BY <1>1, <3>1 DEF DialogRow
    <3> QED BY <1>4, <2>1, <3>1, <3>2 DEF OnClose
  <2>2. CASE ChangeQuantity
    <3>1. PICK q \in 0..MaxQuantity : dialog' = [dialog EXCEPT !.quantity = q]
      BY <2>2 DEF ChangeQuantity
    <3>2. PICK d : d = [dialog EXCEPT !.quantity = q]
      OBVIOUS
    <3>3. /\ d \in DialogRow /\ d.open = dialog.open /\ d.user = dialog.user
          /\ d.loading = dialog.loading /\ d.step = dialog.step /\ d.code = dialog.code
      BY <1>1, <3>2 DEF DialogRow
    <3> QED BY <1>4, <3>1, <3>2, <3>3
  <2>3. CASE SetStep
    <3>1. PICK p : p = IF dialog.step = "form" THEN "confirm" ELSE "form"
      OBVIOUS
    <3>2. PICK d : d = [dialog EXCEPT !.step = p]
      OBVIOUS
    <3>3. /\ d \in DialogRow /\ d.open = dialog.open /\ d.user = dialog.user
          /\ d.loading = dialog.loading /\ d.step = p /\ d.code = dialog.code
      BY <1>1, <3>1, <3>2 DEF DialogRow
    <3>4. dialog.code # NoCode
      <4>1. (FormView /\ CanSubmit) \/ Unlocked
        BY <2>3 DEF SetStep
      <4>2. CASE CanSubmit
        BY <4>2, Zenon DEF CanSubmit
      <4>3. CASE Unlocked
        BY <1>4, <4>3 DEF Unlocked, ConfirmView
      <4> QED BY <4>1, <4>2, <4>3
    <3>5. dialog' = d
      BY <2>3, <3>1, <3>2 DEF SetStep
    <3> QED BY <3>3, <3>4, <3>5
  <2>4. ASSUME NEW e \in Codes, SelectEvent(e)
        PROVE  \E d \in DialogRow :
                    /\ dialog' = d
                    /\ d.open => dialog.open /\ d.user = dialog.user /\ d.loading = dialog.loading
                    /\ d.step = "confirm" => d.code # NoCode
    <3>1. PICK d : d = [dialog EXCEPT !.code = e]
      OBVIOUS
    <3>2. /\ d \in DialogRow /\ d.open = dialog.open /\ d.user = dialog.user
          /\ d.loading = dialog.loading /\ d.step = dialog.step
      BY <1>1, <3>1 DEF DialogRow
    <3>3. dialog.step = "form" /\ dialog' = d
      BY <2>4, <3>1 DEF SelectEvent, FormView
    <3> QED BY <3>2, <3>3
  <2> QED BY <2>1, <2>2, <2>3, <2>4
<1> QED BY <1>2, <1>3, <1>5, DialogMoves

LEMMA AdminStutter == AdminInv /\ UNCHANGED adminVars => AdminInv'
<1> SUFFICES ASSUME AdminInv, UNCHANGED adminVars PROVE AdminInv'
  OBVIOUS
<1>1. CountInv'
  BY DEF adminVars, AdminInv, CountInv
<1>2. DialogInv'
  BY DEF adminVars, AdminInv, DialogInv
<1> QED BY <1>1, <1>2 DEF adminVars, AdminInv

LEMMA AdminInvStep == AdminInv /\ [AdminNext]_adminVars => AdminInv'
<1> SUFFICES ASSUME AdminInv, [AdminNext]_adminVars PROVE AdminInv'
  OBVIOUS
<1>1. ASSUME NEW u \in Recipients, HandleEventGrant(u) PROVE AdminInv'
  BY <1>1, OpeningKeeps
<1>2. ASSUME OnClose \/ ChangeQuantity \/ SetStep \/ \E e \in Codes : SelectEvent(e) PROVE AdminInv'
  BY <1>2, FormKeeps
<1>3. ASSUME NEW l \in Loads, GetManualRewardEvents(l) \/ OptionsArrive(l) \/ OptionsFail(l)
      PROVE  AdminInv'
  BY <1>3, LoadsKeep
<1>4. ASSUME NEW s \in Submits,
             HandleSubmit(s) \/ GrantFeedbackReward(s) \/ GrantSucceeds(s) \/ GrantFails(s)
      PROVE  AdminInv'
  BY <1>4, HandleSubmitKeeps, GrantFeedbackRewardKeeps, GrantSucceedsKeeps, GrantFailsKeeps
<1>5. CASE UNCHANGED adminVars
  BY <1>5, AdminStutter
<1> QED BY <1>1, <1>2, <1>3, <1>4, <1>5 DEF AdminNext

LEMMA AdminInvariance == AdminSpec => []AdminInv
BY AdminInvInit, AdminInvStep, PTL DEF AdminSpec

\* The dialog and its requests have their types; no more rewards are given or announced than
\* were asked for.
THEOREM AdminPageIsWellFormed == AdminSpec => []AdminTypeOK
<1>1. AdminInv => AdminTypeOK
  <2> SUFFICES ASSUME AdminInv PROVE AdminTypeOK
    OBVIOUS
  <2>1. /\ MaxSubmits \in Nat
        /\ \A pcs : Cardinality(At(submit, pcs)) \in Nat /\ Cardinality(At(submit, pcs)) <= MaxSubmits
        /\ \A u, e, pcs : /\ Cardinality(Of(submit, u, e, pcs)) \in Nat
                          /\ Cardinality(Of(submit, u, e, pcs)) <= MaxSubmits
    BY SubmitsAreFinite, AdminConstants DEF At, Of
  <2>2. ASSUME NEW u \in Recipients, NEW e \in ManualEvents
        PROVE  rewarded[u][e] \in 0..MaxSubmits /\ announced[u][e] \in 0..MaxSubmits
    <3>1. /\ rewarded[u][e] \in Nat /\ announced[u][e] \in Nat
          /\ announced[u][e] + Cardinality(Of(submit, u, e, Granted)) <= rewarded[u][e]
          /\ rewarded[u][e] <= Cardinality(Of(submit, u, e, Given))
      BY DEF AdminInv, CountInv
    <3> QED BY <2>1, <3>1
  <2>3. rewarded \in Counts /\ announced \in Counts
    <3>1. \A u \in Recipients : rewarded[u] \in [ManualEvents -> 0..MaxSubmits]
                                /\ announced[u] \in [ManualEvents -> 0..MaxSubmits]
      BY <2>2 DEF AdminInv
    <3> QED BY <3>1 DEF AdminInv, Counts
  <2>4. sent \in 0..MaxSubmits /\ told \in 0..MaxSubmits
    <3>1. /\ sent \in Nat /\ sent <= Cardinality(At(submit, Asked))
          /\ told \in Nat /\ told <= Cardinality(At(submit, Answered))
      BY DEF AdminInv, CountInv
    <3> QED BY <2>1, <3>1
  <2> QED BY <2>3, <2>4 DEF AdminInv, AdminTypeOK, DialogRow, LoadRow, SubmitRow
<1> QED BY <1>1, AdminInvariance, PTL

\* Whatever dialog is open when a grant is answered, the page announces no reward that the
\* user it names was not given, and asks for a second one only after it has shown a failure.
THEOREM AnnouncedAreGranted == AdminSpec => []AnnouncedMeansGranted
<1>1. AdminInv => AnnouncedMeansGranted
  <2> SUFFICES ASSUME AdminInv PROVE AnnouncedMeansGranted
    OBVIOUS
  <2>1. ASSUME NEW u \in Recipients, NEW e \in ManualEvents PROVE announced[u][e] <= rewarded[u][e]
    <3>1. /\ rewarded[u][e] \in Nat /\ announced[u][e] \in Nat
          /\ announced[u][e] + Cardinality(Of(submit, u, e, Granted)) <= rewarded[u][e]
      BY DEF AdminInv, CountInv
    <3>2. Cardinality(Of(submit, u, e, Granted)) \in Nat
      BY SubmitsAreFinite DEF At, Of
    <3> QED BY <3>1, <3>2
  <2>2. dialog.open => sent <= told + 1
    BY DEF AdminInv, DialogInv, CountInv
  <2> QED BY <2>1, <2>2 DEF AnnouncedMeansGranted
<1> QED BY <1>1, AdminInvariance, PTL

\* What remains of OptionsAreOfTheUser: the dialog is opened when every request for
\* options has been answered.
Underway(l) == load[l].pc \in {"sent", "served"}
OpenedWhenAnswered == openings' # openings => \A l \in Loads : ~Underway(l)

\* A request for options that is under way is for the user of the dialog.
LoadInv ==
    /\ \A l \in Loads : Underway(l) => load[l].user = dialog.user
    /\ OptionsAreOfTheUser

LEMMA LoadInvStep ==
    ASSUME AdminInv, LoadInv, [AdminNext]_adminVars, [OpenedWhenAnswered]_adminVars
    PROVE  LoadInv'
<1>1. /\ load \in [Loads -> LoadRow] /\ dialog \in DialogRow /\ openings \in 0..MaxOpenings
      /\ \A l \in Loads : load[l].pc \in {"none", "sent", "served", "answered"}
  BY DEF AdminInv, LoadRow
<1>2. CASE UNCHANGED <<load, dialog.open, dialog.user, dialog.optionsOf>>
  BY <1>2 DEF LoadInv, Underway, OptionsAreOfTheUser, Loaded
<1>3. ASSUME NEW u \in Recipients, HandleEventGrant(u) PROVE LoadInv'
  <2>1. /\ openings' = openings + 1 /\ openings' \in Loads
        /\ load' = [load EXCEPT ![openings'] = [Unsent EXCEPT !.pc = "sent", !.user = u]]
        /\ dialog'.user = u
    BY <1>1, <1>3, AdminConstants DEF HandleEventGrant, Loads, DialogRow
  <2>2. \A l \in Loads : ~Underway(l)
    BY <1>1, <2>1 DEF OpenedWhenAnswered, adminVars
  <2>3. /\ load'[openings'].pc = "sent" /\ load'[openings'].user = u
        /\ \A l \in Loads : l # openings' => load'[l] = load[l]
    BY <1>1, <2>1 DEF Unsent
  <2> QED BY <2>1, <2>2, <2>3 DEF LoadInv, Underway, OptionsAreOfTheUser
<1>4. ASSUME dialog'.open = FALSE, dialog'.user = dialog.user, UNCHANGED load PROVE LoadInv'
  BY <1>4 DEF LoadInv, Underway, OptionsAreOfTheUser
<1>5. ASSUME NEW l \in Loads, GetManualRewardEvents(l) PROVE LoadInv'
  <2>1. /\ UNCHANGED dialog /\ load[l].pc = "sent"
        /\ load'[l].pc = "served" /\ load'[l].user = load[l].user
        /\ \A k \in Loads : k # l => load'[k] = load[k]
    BY <1>1, <1>5 DEF GetManualRewardEvents, LoadRow
  <2>2. \A k \in Loads : Underway(k)' => load'[k].user = load[k].user /\ Underway(k)
    BY <2>1 DEF Underway
  <2>3. OptionsAreOfTheUser'
    BY <2>1 DEF OptionsAreOfTheUser
  <2> QED BY <2>1, <2>2, <2>3 DEF LoadInv
<1>6. ASSUME NEW l \in Loads, OptionsArrive(l) \/ OptionsFail(l) PROVE LoadInv'
  <2>1. /\ load'[l].pc = "answered"
        /\ \A k \in Loads : k # l => load'[k] = load[k]
        /\ Underway(l)
        /\ dialog'.user = dialog.user
        /\ dialog'.optionsOf \in {load[l].user, Nobody}
    BY <1>1, <1>6 DEF OptionsArrive, OptionsFail, Underway, LoadRow, DialogRow
  <2> QED BY <2>1 DEF LoadInv, Underway, OptionsAreOfTheUser, Loaded
<1>7. ASSUME OnClose \/ \E s \in Submits : GrantSucceeds(s) PROVE LoadInv'
  <2>1. CASE OnClose
    <3>1. dialog'.open = FALSE /\ dialog'.user = dialog.user /\ UNCHANGED load
      BY <1>1, <2>1 DEF OnClose, DialogRow
    <3> QED BY <1>4, <3>1
  <2>2. ASSUME NEW s \in Submits, GrantSucceeds(s) PROVE LoadInv'
    <3>1. dialog'.open = FALSE /\ dialog'.user = dialog.user /\ UNCHANGED load
      BY <1>1, <2>2 DEF GrantSucceeds, DialogRow
    <3> QED BY <1>4, <3>1
  <2> QED BY <1>7, <2>1, <2>2
<1>8. ASSUME \/ ChangeQuantity \/ SetStep
             \/ \E e \in Codes : SelectEvent(e)
             \/ \E s \in Submits : HandleSubmit(s) \/ GrantFeedbackReward(s) \/ GrantFails(s)
      PROVE  LoadInv'
  <2>1. UNCHANGED <<load, dialog.open, dialog.user, dialog.optionsOf>>
    BY <1>1, <1>8 DEF ChangeQuantity, SetStep, SelectEvent, HandleSubmit, GrantFeedbackReward,
                      GrantFails, DialogRow
  <2> QED BY <1>2, <2>1
<1>9. CASE UNCHANGED adminVars
  BY <1>2, <1>9 DEF adminVars
<1> QED BY <1>3, <1>5, <1>6, <1>7, <1>8, <1>9 DEF AdminNext

\* Where the dialog is only opened when all earlier requests for options are answered, the
\* options it offers are its user's, whichever way each request ends: what stale_options
\* finds needs two requests at once.
THEOREM OptionsOfOneRequest ==
    AdminSpec /\ [][OpenedWhenAnswered]_adminVars => []OptionsAreOfTheUser
<1>1. AdminInit => LoadInv
  BY DEF AdminInit, LoadInv, Underway, OptionsAreOfTheUser, Unsent
<1>2. AdminInv /\ LoadInv /\ [AdminNext]_adminVars /\ [OpenedWhenAnswered]_adminVars => LoadInv'
  BY LoadInvStep
<1>3. LoadInv => OptionsAreOfTheUser
  BY DEF LoadInv
<1> QED BY <1>1, <1>2, <1>3, AdminInvariance, PTL DEF AdminSpec

-------------------------------------------------------------------------------
(* The weekly job: a user is listed once, so he is in one slice, and what  *)
(* he has been given is settled by where the slices are.                   *)

Reached(u) == \E i \in DOMAIN listed : listed[i] = u /\ i <= index
Running == job \in {"issue", "over"}

\* The list is ascending, hence without repetition, and no longer than there are users.
ListInv ==
    /\ listed \in Seq(Members) /\ Len(listed) <= Cardinality(Members)
    /\ \A i, j \in DOMAIN listed : i < j => listed[i] < listed[j]
    /\ index \in 0..Cardinality(Members) + BatchSize
    /\ job \in {"expire", "list"} => listed = <<>> /\ index = 0
    /\ job = "over" => batch = {} /\ index >= Len(listed)

\* A user whose turn has not come has nothing of this week, one who is in the batch
\* neither a grant nor a failure, and every other one of the two.
TurnOf(u) ==
    /\ u \in batch => Reached(u) /\ u \notin failed
    /\ u \in failed => Reached(u)
    /\ given[u][week] = IF Reached(u) /\ u \notin batch \cup failed THEN 1 ELSE 0

WeeksInv ==
    /\ \A u \in Members, w \in Weeks : given[u][w] \in 0..1 /\ (w > week => given[u][w] = 0)
    /\ job \in {"expire", "list"} => batch = {} /\ failed = {}
    /\ job # "waits" => week \in Weeks
    /\ job \in {"expire", "list"} \/ Running => \A u \in Members : TurnOf(u)
    /\ job = "list" \/ Running => \A u \in Members : usable[u] \subseteq {week}
    /\ \A u \in Members : \A w \in usable[u] : w <= week

WeeklyInv == WeeklyTypeOK /\ ListInv /\ WeeksInv

LEMMA WeeklyInvInit == WeeklyInit => WeeklyInv
<1> SUFFICES ASSUME WeeklyInit PROVE WeeklyInv
  OBVIOUS
<1>1. Cardinality(Members) \in Nat
  BY WeeklyConstants, FS_CardinalityType
<1>2. given \in [Members -> [Weeks -> 0..2]]
  BY DEF WeeklyInit
<1>3. WeeklyTypeOK
  BY <1>1, <1>2, WeeklyConstants DEF WeeklyInit, WeeklyTypeOK
<1>4. ListInv
  BY <1>1, WeeklyConstants DEF WeeklyInit, ListInv
<1>5. WeeksInv
  BY WeeklyConstants DEF WeeklyInit, WeeksInv, Running
<1> QED BY <1>3, <1>4, <1>5 DEF WeeklyInv

LEMMA MondayKeeps == ASSUME WeeklyInv, Monday PROVE WeeklyInv'
<1>1. /\ week' = week + 1 /\ week < LastWeek /\ job' = "expire"
      /\ listed' = <<>> /\ index' = 0 /\ batch' = {} /\ failed' = {}
      /\ UNCHANGED <<actives, given, usable>>
  BY DEF Monday
<1>2. week \in 0..LastWeek /\ week' \in Weeks /\ week' \in 0..LastWeek
  BY <1>1, WeeklyConstants DEF WeeklyInv, WeeklyTypeOK, Weeks
<1>3. Cardinality(Members) \in Nat
  BY WeeklyConstants, FS_CardinalityType
<1>4. WeeklyTypeOK'
  BY <1>1, <1>2, <1>3, WeeklyConstants DEF WeeklyInv, WeeklyTypeOK
<1>5. ListInv'
  BY <1>1, <1>3, WeeklyConstants DEF ListInv
<1>6. WeeksInv'
  <2>1. \A u \in Members, w \in Weeks : given'[u][w] \in 0..1 /\ (w > week' => given'[u][w] = 0)
    BY <1>1, <1>2 DEF WeeklyInv, WeeksInv, Weeks
  <2>2. \A u \in Members : given'[u][week'] = 0
    BY <1>1, <1>2 DEF WeeklyInv, WeeksInv, Weeks
  <2>3. \A u \in Members : TurnOf(u)'
    BY <1>1, <2>2 DEF TurnOf, Reached
  <2>4. \A u \in Members : \A w \in usable'[u] : w <= week'
    BY <1>1, <1>2 DEF WeeklyInv, WeeksInv, WeeklyTypeOK, Weeks
  <2> QED BY <1>1, <1>2, <2>1, <2>3, <2>4 DEF WeeksInv, Running
<1> QED BY <1>4, <1>5, <1>6 DEF WeeklyInv

LEMMA ExpireKeeps == ASSUME WeeklyInv, ExpireOutdatedWeeks PROVE WeeklyInv'
<1>1. /\ job = "expire" /\ job' = "list" /\ UNCHANGED <<week, actives, listed, index, batch, failed, given>>
      /\ usable' = [u \in Members |-> usable[u] \ {w \in Weeks : w < week}]
  BY DEF ExpireOutdatedWeeks
<1>2. \A u \in Members : usable'[u] = usable[u] \ {w \in Weeks : w < week}
  BY <1>1
<1>3. \A u \in Members : usable[u] \subseteq Weeks
  BY DEF WeeklyInv, WeeklyTypeOK
<1>4. WeeklyTypeOK'
  <2>1. usable' \in [Members -> SUBSET Weeks]
    BY <1>1, <1>3
  <2> QED BY <1>1, <2>1 DEF WeeklyInv, WeeklyTypeOK
<1>5. ListInv'
  BY <1>1 DEF WeeklyInv, ListInv
<1>6. WeeksInv'
  <2>1. week \in Nat
    BY WeeklyConstants DEF WeeklyInv, WeeklyTypeOK
  <2>2. \A u \in Members : usable'[u] \subseteq {week}
    <3> SUFFICES ASSUME NEW u \in Members, NEW w \in usable'[u] PROVE w = week
      OBVIOUS
    <3>1. w \in usable[u] /\ w \in Weeks /\ w <= week /\ ~(w < week)
      BY <1>2, <1>3 DEF WeeklyInv, WeeksInv
    <3> QED BY <2>1, <3>1, WeeklyConstants DEF Weeks
  <2>3. \A u \in Members : TurnOf(u)'
    BY <1>1 DEF WeeklyInv, WeeksInv, TurnOf, Reached
  <2>4. \A u \in Members : \A w \in usable'[u] : w <= week'
    BY <1>1, <1>2 DEF WeeklyInv, WeeksInv
  <2> QED BY <1>1, <2>2, <2>3, <2>4 DEF WeeklyInv, WeeksInv, Running
<1> QED BY <1>4, <1>5, <1>6 DEF WeeklyInv

LEMMA ListKeeps == ASSUME WeeklyInv, FindAllActiveUserIds PROVE WeeklyInv'
<1>1. /\ job = "list" /\ job' = "issue" /\ UNCHANGED <<week, actives, index, batch, failed, given, usable>>
      /\ listed = <<>> /\ index = 0 /\ batch = {} /\ failed = {}
  BY DEF FindAllActiveUserIds, WeeklyInv, ListInv, WeeksInv
<1>2. PICK n \in Nat : n = Cardinality(actives) /\ n <= Cardinality(Members)
  <2>1. actives \subseteq Members
    BY DEF WeeklyInv, WeeklyTypeOK
  <2> QED BY <2>1, WeeklyConstants, FS_Subset, FS_CardinalityType
<1>3. listed' \in [1..n -> actives] /\ \A i, j \in 1..n : i < j => listed'[i] < listed'[j]
  BY <1>2 DEF FindAllActiveUserIds, AscendingIds
<1>4. listed' \in Seq(Members) /\ Len(listed') = n /\ DOMAIN listed' = 1..n
  BY <1>2, <1>3 DEF WeeklyInv, WeeklyTypeOK
<1>5. WeeklyTypeOK'
  BY <1>1, <1>4 DEF WeeklyInv, WeeklyTypeOK
<1>6. ListInv'
  BY <1>1, <1>2, <1>3, <1>4 DEF WeeklyInv, ListInv
<1>7. WeeksInv'
  <2>1. \A u : ~Reached(u)'
    BY <1>1, <1>4 DEF Reached
  <2>2. \A u : ~Reached(u)
    BY <1>1 DEF Reached
  <2>3. \A u \in Members : TurnOf(u)'
    BY <1>1, <2>1, <2>2 DEF WeeklyInv, WeeksInv, TurnOf
  <2> QED BY <1>1, <2>3 DEF WeeklyInv, WeeksInv, Running
<1> QED BY <1>5, <1>6, <1>7 DEF WeeklyInv

LEMMA SliceKeeps == ASSUME WeeklyInv, SliceBatch PROVE WeeklyInv'
<1>1. /\ job = "issue" /\ batch = {} /\ index < Len(listed) /\ index' = index + BatchSize
      /\ batch' = {listed[i] : i \in {j \in DOMAIN listed : index < j /\ j <= index + BatchSize}}
      /\ UNCHANGED <<week, actives, job, listed, failed, given, usable>>
  BY DEF SliceBatch
<1>2. /\ index \in Nat /\ BatchSize \in Nat \ {0} /\ Cardinality(Members) \in Nat
      /\ listed \in Seq(Members) /\ Len(listed) <= Cardinality(Members) /\ Len(listed) \in Nat
      /\ DOMAIN listed = 1..Len(listed)
  <2>1. Cardinality(Members) \in Nat
    BY WeeklyConstants, FS_CardinalityType
  <2> QED BY <2>1, WeeklyConstants DEF WeeklyInv, ListInv
<1>3. \A i \in DOMAIN listed : listed[i] \in Members
  BY <1>2
<1>4. \A i, j \in DOMAIN listed : listed[i] = listed[j] => i = j
  <2> SUFFICES ASSUME NEW i \in DOMAIN listed, NEW j \in DOMAIN listed, listed[i] = listed[j] PROVE i = j
    OBVIOUS
  <2>1. listed[i] \in Nat /\ listed[j] \in Nat
    BY <1>3, WeeklyConstants
  <2>2. (i < j => listed[i] < listed[j]) /\ (j < i => listed[j] < listed[i])
    BY DEF WeeklyInv, ListInv
  <2> QED BY <1>2, <2>1, <2>2
<1>5. index' \in 0..Cardinality(Members) + BatchSize
  BY <1>1, <1>2
<1>6. WeeklyTypeOK'
  BY <1>1, <1>3, <1>5 DEF WeeklyInv, WeeklyTypeOK
<1>7. ListInv'
  BY <1>1, <1>5 DEF WeeklyInv, ListInv
<1>8. ASSUME NEW u \in Members PROVE TurnOf(u)'
  <2>1. TurnOf(u) /\ week \in Weeks
    BY <1>1 DEF WeeklyInv, WeeksInv, Running
  <2>2. u \in batch' <=> \E i \in DOMAIN listed : listed[i] = u /\ index < i /\ i <= index + BatchSize
    BY <1>1
  <2>3. Reached(u)' <=> Reached(u) \/ u \in batch'
    BY <1>1, <1>2, <2>2 DEF Reached
  <2>4. ~(Reached(u) /\ u \in batch')
    BY <1>2, <1>4, <2>2 DEF Reached
  <2> QED BY <1>1, <2>1, <2>3, <2>4 DEF TurnOf
<1>9. WeeksInv'
  BY <1>1, <1>8 DEF WeeklyInv, WeeksInv, Running
<1> QED BY <1>6, <1>7, <1>9 DEF WeeklyInv

LEMMA IssueWeeklyKeeps == ASSUME WeeklyInv, NEW u \in Members, IssueWeeklyGrant(u) PROVE WeeklyInv'
<1>1. /\ job = "issue" /\ u \in batch /\ batch' = batch \ {u} /\ UNCHANGED <<week, actives, job, listed, index>>
  BY DEF IssueWeeklyGrant
<1>2. /\ week \in Weeks /\ \A v \in Members : TurnOf(v)
      /\ \A v \in Members : usable[v] \subseteq {week}
  BY <1>1 DEF WeeklyInv, WeeksInv, Running
<1>3. given[u][week] = 0 /\ u \notin failed /\ Reached(u)
  BY <1>1, <1>2 DEF TurnOf
<1>4. \A v : Reached(v)' = Reached(v)
  BY <1>1 DEF Reached
<1>5. ListInv'
  BY <1>1 DEF WeeklyInv, ListInv
<1>6. CASE /\ given' = [given EXCEPT ![u][week] = IF @ = 2 THEN 2 ELSE @ + 1]
           /\ usable' = [usable EXCEPT ![u] = @ \cup {week}]
           /\ UNCHANGED failed
  <2>1. PICK row : row = [given[u] EXCEPT ![week] = 1]
    OBVIOUS
  <2>2. given \in [Members -> [Weeks -> 0..2]] /\ given[u] \in [Weeks -> 0..2]
    BY DEF WeeklyInv, WeeklyTypeOK
  <2>3. row \in [Weeks -> 0..2] /\ \A w \in Weeks : row[w] = IF w = week THEN 1 ELSE given[u][w]
    BY <1>2, <2>1, <2>2
  <2>4. given' = [given EXCEPT ![u] = row]
    BY <1>3, <1>6, <2>1
  <2>5. given' \in [Members -> [Weeks -> 0..2]] /\ \A v \in Members : given'[v] = IF v = u THEN row ELSE given[v]
    BY <2>2, <2>3, <2>4
  <2>6. /\ usable' \in [Members -> SUBSET Weeks]
        /\ \A v \in Members : usable'[v] \subseteq {week}
    BY <1>2, <1>6 DEF WeeklyInv, WeeklyTypeOK
  <2>7. WeeklyTypeOK'
    BY <1>1, <1>6, <2>5, <2>6 DEF WeeklyInv, WeeklyTypeOK
  <2>8. ASSUME NEW v \in Members PROVE TurnOf(v)'
    <3>1. TurnOf(v)
      BY <1>2
    <3>2. given'[v][week] = IF v = u THEN 1 ELSE given[v][week]
      BY <1>2, <2>3, <2>5
    <3> QED BY <1>1, <1>3, <1>4, <1>6, <3>1, <3>2 DEF TurnOf
  <2>9. \A v \in Members, w \in Weeks : given'[v][w] \in 0..1 /\ (w > week => given'[v][w] = 0)
    <3> SUFFICES ASSUME NEW v \in Members, NEW w \in Weeks
                 PROVE  given'[v][w] \in 0..1 /\ (w > week => given'[v][w] = 0)
      OBVIOUS
    <3>1. given[v][w] \in 0..1 /\ (w > week => given[v][w] = 0)
      BY DEF WeeklyInv, WeeksInv
    <3>2. given'[v][w] = IF v = u /\ w = week THEN 1 ELSE given[v][w]
      BY <2>3, <2>5
    <3>3. ~(week > week)
      BY <1>2 DEF Weeks
    <3> QED BY <3>1, <3>2, <3>3
  <2>10. \A v \in Members : \A w \in usable'[v] : w <= week
    BY <1>2, <2>6 DEF Weeks
  <2> QED BY <1>1, <1>2, <1>5, <2>6, <2>7, <2>8, <2>9, <2>10 DEF WeeklyInv, WeeksInv, Running
<1>7. CASE failed' = failed \cup {u} /\ UNCHANGED <<given, usable>>
  <2>1. WeeklyTypeOK'
    BY <1>1, <1>7 DEF WeeklyInv, WeeklyTypeOK
  <2>2. ASSUME NEW v \in Members PROVE TurnOf(v)'
    BY <1>1, <1>2, <1>3, <1>4, <1>7 DEF TurnOf
  <2> QED BY <1>1, <1>2, <1>5, <1>7, <2>1, <2>2 DEF WeeklyInv, WeeksInv, Running
<1> QED BY <1>6, <1>7 DEF IssueWeeklyGrant

LEMMA JobEndKeeps == ASSUME WeeklyInv, EndJob \/ JobDies PROVE WeeklyInv'
<1>1. CASE EndJob
  <2>1. job = "issue" /\ job' = "over" /\ UNCHANGED <<week, actives, listed, index, batch, failed, given, usable>>
    BY <1>1 DEF EndJob
  <2>3. ListInv'
    BY <1>1 DEF EndJob, WeeklyInv, ListInv
  <2>2. \A u : TurnOf(u)' = TurnOf(u)
    BY <2>1 DEF TurnOf, Reached
  <2> QED BY <2>1, <2>2, <2>3 DEF WeeklyInv, WeeklyTypeOK, WeeksInv, Running
<1>2. CASE JobDies
  <2>1. job \in {"expire", "list", "issue"} /\ job' = "died" /\ batch' = {}
        /\ UNCHANGED <<week, actives, listed, index, failed, given, usable>>
    BY <1>2 DEF JobDies
  <2> QED BY <2>1 DEF WeeklyInv, WeeklyTypeOK, ListInv, WeeksInv, Running
<1> QED BY <1>1, <1>2

LEMMA UsersKeep == ASSUME WeeklyInv, NEW u \in Members, Join(u) \/ UseUp(u) PROVE WeeklyInv'
<1>1. /\ UNCHANGED <<week, job, listed, index, batch, failed, given>>
      /\ actives' \subseteq Members /\ usable' \in [Members -> SUBSET Weeks]
      /\ \A v \in Members : usable'[v] \subseteq usable[v]
  BY DEF WeeklyInv, WeeklyTypeOK, Join, UseUp
<1>2. \A v : TurnOf(v)' = TurnOf(v)
  BY <1>1 DEF TurnOf, Reached
<1>3. WeeklyTypeOK' /\ ListInv'
  BY <1>1 DEF WeeklyInv, WeeklyTypeOK, ListInv
<1>4. WeeksInv'
  BY <1>1, <1>2 DEF WeeklyInv, WeeksInv, Running
<1> QED BY <1>3, <1>4 DEF WeeklyInv

LEMMA WeeklyInvStep == WeeklyInv /\ [WeeklyNext]_weeklyVars => WeeklyInv'
<1> SUFFICES ASSUME WeeklyInv, [WeeklyNext]_weeklyVars PROVE WeeklyInv'
  OBVIOUS
<1>1. CASE UNCHANGED weeklyVars
  <2>1. \A u : TurnOf(u)' = TurnOf(u)
    BY <1>1 DEF weeklyVars, TurnOf, Reached
  <2> QED BY <1>1, <2>1 DEF weeklyVars, WeeklyInv, WeeklyTypeOK, ListInv, WeeksInv, Running
<1>2. ASSUME NEW u \in Members, IssueWeeklyGrant(u) \/ Join(u) \/ UseUp(u) PROVE WeeklyInv'
  BY <1>2, IssueWeeklyKeeps, UsersKeep
<1> QED BY <1>1, <1>2, MondayKeeps, ExpireKeeps, ListKeeps, SliceKeeps, JobEndKeeps DEF WeeklyNext

LEMMA WeeklyInvariance == WeeklySpec => []WeeklyInv
BY WeeklyInvInit, WeeklyInvStep, PTL DEF WeeklySpec

\* The job slices within its list, and no user is given more than two grants of a week.
THEOREM WeeklyIsWellFormed == WeeklySpec => []WeeklyTypeOK
<1>1. WeeklyInv => WeeklyTypeOK
  BY DEF WeeklyInv
<1> QED BY <1>1, WeeklyInvariance, PTL

\* For any number of users and any size of the batches, a job that ends has given each user
\* it has listed the grant of the week once, or has counted him as failed.
THEOREM WeeklyJobReachesEveryone == WeeklySpec => []WeeklyReachesEveryone
<1>1. WeeklyInv => WeeklyReachesEveryone
  <2> SUFFICES ASSUME WeeklyInv PROVE WeeklyReachesEveryone
    OBVIOUS
  <2>1. ASSUME NEW u \in Members, NEW w \in Weeks PROVE given[u][w] <= 1
    BY DEF WeeklyInv, WeeksInv
  <2>2. job \in {"issue", "over"} => \A u \in Members : usable[u] \subseteq {week}
    BY DEF WeeklyInv, WeeksInv, Running
  <2>3. ASSUME job = "over", NEW i \in DOMAIN listed
        PROVE  given[listed[i]][week] = IF listed[i] \in failed THEN 0 ELSE 1
    <3>1. listed[i] \in Members /\ i <= index /\ batch = {}
      BY <2>3, WeeklyConstants, FS_CardinalityType DEF WeeklyInv, ListInv
    <3>2. TurnOf(listed[i]) /\ Reached(listed[i])
      BY <2>3, <3>1 DEF WeeklyInv, WeeksInv, Running, Reached
    <3> QED BY <3>1, <3>2 DEF TurnOf
  <2> QED BY <2>1, <2>2, <2>3 DEF WeeklyReachesEveryone
<1> QED BY <1>1, WeeklyInvariance, PTL

-------------------------------------------------------------------------------
(* The catalogue: a seed that nobody has raced saves what it has compared  *)
(* with, so the table it leaves is the expected one.                       *)

\* An id that was never given out has no row, and a seed updates none of them.
IdsInv ==
    /\ \A i \in freeIds : product[i] = NoRow
    /\ \A s \in Servers : server[s].pc = "save" => \A row \in server[s].update : row[1] \notin freeIds

\* What a server will save is what the table lacks of the expected rows.
Compared(s) ==
    /\ server[s].create = Missing
    /\ \A row \in server[s].update : row[2] \in ExpectedKinds /\ product[row[1]].kind = row[2]
    /\ \A k \in ExpectedKinds : \A i \in OfKind(k) :
            product[i].state # "current" => <<i, k>> \in server[s].update

\* Without a race one server saves at a time, no kind has two rows, and once a seed was
\* saved none is missing or differs.
AloneInv ==
    /\ \A k \in ProductKinds : \A i, j \in OfKind(k) : i = j
    /\ \A r, s \in Servers : server[r].pc = "save" /\ server[s].pc = "save" => r = s
    /\ \A s \in Servers : server[s].pc = "save" => Compared(s)
    /\ seeded # {} => \A k \in ExpectedKinds : \E i \in OfKind(k) : product[i].state = "current"

SeedInv == SeedTypeOK /\ IdsInv /\ (~raced => AloneInv)

ServerRow == [pc : {"down", "init", "save", "listens"}, create : SUBSET ProductKinds,
              update : SUBSET (ProductIds \X ProductKinds)]

LEMMA SeedInvInit == SeedInit => SeedInv
<1> SUFFICES ASSUME SeedInit PROVE SeedInv
  OBVIOUS
<1>1. PICK kinds \in SUBSET ProductKinds, states \in [ProductKinds -> RowStates],
           at \in [ProductKinds -> ProductIds] :
        /\ \A j, k \in kinds : at[j] = at[k] => j = k
        /\ product = [i \in ProductIds |->
                        IF \E k \in kinds : at[k] = i
                        THEN LET k == CHOOSE k \in kinds : at[k] = i
                             IN [kind |-> k, state |-> states[k]]
                        ELSE NoRow]
  BY DEF SeedInit
<1>2. ASSUME NEW i \in ProductIds
      PROVE  \/ product[i] = NoRow
             \/ product[i] \in Rows /\ product[i].kind \in kinds /\ at[product[i].kind] = i
  <2>1. CASE \E k \in kinds : at[k] = i
    <3>1. PICK k : k = CHOOSE j \in kinds : at[j] = i
      OBVIOUS
    <3>2. k \in kinds /\ at[k] = i
      BY <2>1, <3>1
    <3>3. product[i] = IF \E j \in kinds : at[j] = i
                       THEN [kind |-> CHOOSE j \in kinds : at[j] = i,
                             state |-> states[CHOOSE j \in kinds : at[j] = i]]
                       ELSE NoRow
      BY <1>1, Zenon
    <3>4. product[i] = [kind |-> k, state |-> states[k]]
      BY <2>1, <3>1, <3>3
    <3>5. product[i] \in Rows /\ product[i].kind = k
      BY <3>2, <3>4 DEF Rows
    <3> QED BY <3>2, <3>5
  <2>2. CASE ~ \E k \in kinds : at[k] = i
    BY <1>1, <2>2
  <2> QED BY <2>1, <2>2
<1>3. product \in [ProductIds -> Rows \cup {NoRow}]
  <2>1. \A i \in ProductIds : product[i] \in Rows \cup {NoRow}
    BY <1>2
  <2> QED BY <1>1, <2>1
<1>4. /\ server = [s \in Servers |-> Down] /\ seeded = {} /\ raced = FALSE /\ profile \in {"dev", "prod"}
      /\ freeIds = {i \in ProductIds : product[i] = NoRow}
  BY DEF SeedInit
<1>5. SeedTypeOK
  BY <1>3, <1>4 DEF SeedTypeOK, Down
<1>6. IdsInv
  BY <1>4 DEF IdsInv, Down
<1>7. ASSUME NEW k \in ProductKinds, NEW i \in OfKind(k), NEW j \in OfKind(k) PROVE i = j
  <2>1. /\ i \in ProductIds /\ product[i].kind = k /\ product[i] # NoRow
        /\ j \in ProductIds /\ product[j].kind = k /\ product[j] # NoRow
    <3>1. NoRow.kind \notin ProductKinds
      BY SeedConstants DEF NoRow
    <3> QED BY <3>1 DEF OfKind
  <2>2. at[k] = i /\ at[k] = j
    BY <1>2, <2>1
  <2> QED BY <2>2
<1>8. AloneInv
  BY <1>4, <1>7 DEF AloneInv, Down
<1> QED BY <1>5, <1>6, <1>8 DEF SeedInv

\* A row in the table is of the kind and in the state it says; a free place has no kind.
LEMMA RowsOfKinds ==
    ASSUME SeedTypeOK
    PROVE  /\ \A i \in ProductIds : product[i] = NoRow \/ product[i] \in Rows
           /\ \A k \in ProductKinds : \A i : i \in OfKind(k) <=>
                    i \in ProductIds /\ product[i] # NoRow /\ product[i].kind = k
           /\ \A i \in ProductIds : product[i] # NoRow =>
                    product[i].kind \in ProductKinds /\ product[i].state \in RowStates
<1>1. \A i \in ProductIds : product[i] = NoRow \/ product[i] \in Rows
  BY DEF SeedTypeOK
<1>2. \A i \in ProductIds : product[i] # NoRow =>
                    product[i].kind \in ProductKinds /\ product[i].state \in RowStates
  BY <1>1 DEF Rows
<1>3. NoRow.kind \notin ProductKinds
  BY SeedConstants DEF NoRow
<1> QED BY <1>1, <1>2, <1>3 DEF OfKind

\* A step of a server that leaves the table alone, and does not make it save.
LEMMA ServerMoves ==
    ASSUME SeedInv, NEW s \in Servers, NEW r \in ServerRow, server' = [server EXCEPT ![s] = r],
           r.pc # "save", UNCHANGED <<profile, product, freeIds, seeded, raced>>
    PROVE  SeedInv'
<1>1. \A p \in Servers : server'[p] = IF p = s THEN r ELSE server[p]
  BY DEF SeedInv, SeedTypeOK
<1>2. SeedTypeOK'
  BY <1>1 DEF SeedInv, SeedTypeOK, ServerRow
<1>3. IdsInv'
  BY <1>1 DEF SeedInv, IdsInv
<1>4. ~raced => AloneInv'
  <2> SUFFICES ASSUME ~raced PROVE AloneInv'
    OBVIOUS
  <2>1. AloneInv
    BY DEF SeedInv
  <2>2. \A k : OfKind(k)' = OfKind(k)
    BY DEF OfKind
  <2>3. Missing' = Missing
    BY <2>2 DEF Missing
  <2>4. ASSUME NEW p \in Servers, server'[p].pc = "save" PROVE Compared(p)'
    <3>1. p # s /\ server'[p] = server[p] /\ server[p].pc = "save"
      BY <1>1, <2>4
    <3>2. Compared(p)
      BY <2>1, <3>1 DEF AloneInv
    <3> QED BY <3>1, <3>2, <2>2, <2>3 DEF Compared
  <2> QED BY <1>1, <2>1, <2>2, <2>4 DEF AloneInv
<1> QED BY <1>2, <1>3, <1>4 DEF SeedInv

LEMMA ReconcileKeeps == ASSUME SeedInv, NEW s \in Servers, Reconcile(s) PROVE SeedInv'
<1>1. PICK rows \in FoundRows : server' = [server EXCEPT ![s] =
            [pc |-> "save", create |-> Missing,
             update |-> {row \in rows : product[row[1]] \notin GetExpectedProducts}]]
  BY DEF Reconcile
<1>2. PICK r : r = [pc |-> "save", create |-> Missing,
             update |-> {row \in rows : product[row[1]] \notin GetExpectedProducts}]
  OBVIOUS
<1>3. /\ \A row \in rows : row \in ProductIds \X ExpectedKinds /\ row[1] \in OfKind(row[2])
      /\ \A k \in ExpectedKinds \ Missing : Cardinality({row \in rows : row[2] = k}) = 1
  BY DEF FoundRows
<1>4. r \in ServerRow /\ r.pc = "save" /\ r.create = Missing
      /\ r.update = {row \in rows : product[row[1]] \notin GetExpectedProducts}
  BY <1>2, <1>3, SeedConstants DEF ServerRow, Missing
<1>5. \A p \in Servers : server'[p] = IF p = s THEN r ELSE server[p]
  BY <1>1, <1>2 DEF SeedInv, SeedTypeOK
<1>6. /\ UNCHANGED <<profile, product, freeIds, seeded>>
      /\ raced' = (raced \/ \E q \in Servers : server[q].pc = "save")
  BY DEF Reconcile
<1>7. SeedTypeOK'
  BY <1>1, <1>2, <1>4, <1>6 DEF SeedInv, SeedTypeOK, ServerRow
<1>8. IdsInv'
  <2>1. ASSUME NEW row \in r.update PROVE row[1] \notin freeIds
    <3>1. row \in rows /\ row[1] \in OfKind(row[2]) /\ row[2] \in ProductKinds
      BY <1>3, <1>4, <2>1, SeedConstants
    <3>2. product[row[1]] # NoRow
      BY <3>1, RowsOfKinds DEF SeedInv
    <3> QED BY <3>2 DEF SeedInv, IdsInv
  <2> QED BY <1>5, <1>6, <2>1 DEF SeedInv, IdsInv
<1>9. ASSUME ~raced' PROVE AloneInv'
  <2>1. AloneInv /\ \A q \in Servers : server[q].pc # "save"
    BY <1>6, <1>9 DEF SeedInv
  <2>2. \A k : OfKind(k)' = OfKind(k)
    BY <1>6 DEF OfKind
  <2>3. Missing' = Missing
    BY <2>2 DEF Missing
  <2>4. \A row \in r.update : row[2] \in ExpectedKinds /\ product[row[1]].kind = row[2]
    BY <1>3, <1>4 DEF OfKind
  <2>5. ASSUME NEW k \in ExpectedKinds, NEW i \in OfKind(k), product[i].state # "current"
        PROVE  <<i, k>> \in r.update
    <3>1. k \in ExpectedKinds \ Missing /\ k \in ProductKinds
      BY <2>5, SeedConstants DEF Missing
    <3>2. PICK row \in rows : row[2] = k
      <4>1. {row \in rows : row[2] = k} # {}
        BY <1>3, <3>1, FS_EmptySet
      <4> QED BY <4>1
    <3>3. row[1] \in OfKind(k) /\ row = <<row[1], row[2]>>
      BY <1>3, <3>2
    <3>4. row[1] = i
      BY <2>1, <3>1, <3>3 DEF AloneInv
    <3>5. product[i] \notin GetExpectedProducts
      BY <2>5 DEF GetExpectedProducts
    <3> QED BY <1>4, <3>2, <3>3, <3>4, <3>5
  <2>6. Compared(s)'
    BY <1>4, <1>5, <1>6, <2>2, <2>3, <2>4, <2>5 DEF Compared
  <2>7. \A p \in Servers : server'[p].pc = "save" => p = s
    BY <1>5, <2>1
  <2> QED BY <1>6, <2>1, <2>2, <2>6, <2>7 DEF AloneInv
<1> QED BY <1>7, <1>8, <1>9 DEF SeedInv

\* What a save leaves in each place of the table.
SavedRow(s, at, i) ==
    \/ \E k \in server[s].create : at[k] = i /\ product'[i] = [kind |-> k, state |-> "current"]
    \/ /\ \A k \in server[s].create : at[k] # i
       /\ \E row \in server[s].update :
            row[1] = i /\ product'[i] = [kind |-> row[2], state |-> "current"]
    \/ /\ \A k \in server[s].create : at[k] # i
       /\ \A row \in server[s].update : row[1] # i
       /\ product'[i] = product[i]

LEMMA SaveWrites ==
    ASSUME SeedInv, NEW s \in Servers, SaveAll(s)
    PROVE  \E at \in [server[s].create -> freeIds] :
                /\ \A j, k \in server[s].create : at[j] = at[k] => j = k
                /\ freeIds' = freeIds \ {at[k] : k \in server[s].create}
                /\ \A i \in ProductIds : SavedRow(s, at, i)
                /\ product' = [i \in ProductIds |-> product'[i]]
<1>1. PICK at \in [server[s].create -> freeIds] :
        /\ \A j, k \in server[s].create : at[j] = at[k] => j = k
        /\ product' = [i \in ProductIds |->
              IF \E k \in server[s].create : at[k] = i
              THEN [kind |-> CHOOSE k \in server[s].create : at[k] = i, state |-> "current"]
              ELSE IF \E row \in server[s].update : row[1] = i
              THEN [kind |-> (CHOOSE row \in server[s].update : row[1] = i)[2], state |-> "current"]
              ELSE product[i]]
        /\ freeIds' = freeIds \ {at[k] : k \in server[s].create}
  BY DEF SaveAll
<1>2. ASSUME NEW i \in ProductIds PROVE SavedRow(s, at, i)
  <2>1. CASE \E k \in server[s].create : at[k] = i
    <3>1. PICK k : k = CHOOSE j \in server[s].create : at[j] = i
      OBVIOUS
    <3>2. k \in server[s].create /\ at[k] = i
      BY <2>1, <3>1
    <3>3. product'[i] = [kind |-> k, state |-> "current"]
      BY <1>1, <2>1, <3>1
    <3> QED BY <3>2, <3>3 DEF SavedRow
  <2>2. CASE (~ \E k \in server[s].create : at[k] = i) /\ \E row \in server[s].update : row[1] = i
    <3>1. PICK row : row = CHOOSE r \in server[s].update : r[1] = i
      OBVIOUS
    <3>2. row \in server[s].update /\ row[1] = i
      BY <2>2, <3>1
    <3>3. product'[i] = [kind |-> row[2], state |-> "current"]
      BY <1>1, <2>2, <3>1
    <3> QED BY <2>2, <3>2, <3>3 DEF SavedRow
  <2>3. CASE (~ \E k \in server[s].create : at[k] = i) /\ ~ \E row \in server[s].update : row[1] = i
    BY <1>1, <2>3 DEF SavedRow
  <2> QED BY <2>1, <2>2, <2>3
<1>3. product' = [i \in ProductIds |-> product'[i]]
  BY <1>1
<1> QED BY <1>1, <1>2, <1>3

LEMMA SaveAllKeeps == ASSUME SeedInv, NEW s \in Servers, SaveAll(s) PROVE SeedInv'
<1>1. PICK at \in [server[s].create -> freeIds] :
                /\ \A j, k \in server[s].create : at[j] = at[k] => j = k
                /\ freeIds' = freeIds \ {at[k] : k \in server[s].create}
                /\ \A i \in ProductIds : SavedRow(s, at, i)
                /\ product' = [i \in ProductIds |-> product'[i]]
  BY SaveWrites
<1>2. /\ server[s].pc = "save" /\ server' = [server EXCEPT ![s] = [Down EXCEPT !.pc = "listens"]]
      /\ seeded' = seeded \cup {s} /\ UNCHANGED <<profile, raced>>
  BY DEF SaveAll
<1>3. server[s] \in ServerRow /\ freeIds \subseteq ProductIds
  BY DEF SeedInv, SeedTypeOK, ServerRow
<1>4. [Down EXCEPT !.pc = "listens"] \in ServerRow /\ [Down EXCEPT !.pc = "listens"].pc = "listens"
  BY DEF Down, ServerRow
<1>5. \A p \in Servers : server'[p] = IF p = s THEN [Down EXCEPT !.pc = "listens"] ELSE server[p]
  BY <1>2 DEF SeedInv, SeedTypeOK
<1>6. \A p \in Servers : server'[p].pc = "save" => p # s /\ server'[p] = server[p]
  BY <1>4, <1>5
<1>7. SeedTypeOK'
  <2>1. \A i \in ProductIds : product'[i] \in Rows \cup {NoRow}
    BY <1>1, <1>3, RowsOfKinds DEF SavedRow, Rows, RowStates, SeedInv, ServerRow
  <2>2. product' \in [ProductIds -> Rows \cup {NoRow}]
    BY <1>1, <2>1
  <2>3. server' \in [Servers -> ServerRow]
    BY <1>2, <1>4 DEF SeedInv, SeedTypeOK, ServerRow
  <2> QED BY <1>1, <1>2, <1>3, <2>2, <2>3 DEF SeedInv, SeedTypeOK, ServerRow
<1>8. IdsInv'
  <2>1. ASSUME NEW i \in freeIds' PROVE product'[i] = NoRow
    <3>1. i \in freeIds /\ i \in ProductIds /\ \A k \in server[s].create : at[k] # i
      BY <1>1, <1>3, <2>1
    <3>2. product[i] = NoRow /\ \A row \in server[s].update : row[1] # i
      BY <1>2, <3>1 DEF SeedInv, IdsInv
    <3> QED BY <1>1, <3>1, <3>2 DEF SavedRow
  <2>2. freeIds' \subseteq freeIds
    BY <1>1
  <2> QED BY <1>6, <2>1, <2>2 DEF SeedInv, IdsInv
<1>9. ASSUME ~raced PROVE AloneInv'
  <2>1. AloneInv /\ Compared(s) /\ IdsInv /\ SeedTypeOK
    BY <1>2, <1>9 DEF SeedInv, AloneInv
  <2>2. \A p \in Servers : server'[p].pc # "save"
    BY <1>2, <1>6, <2>1 DEF AloneInv
  <2>3. ASSUME NEW i \in ProductIds, NEW k \in ProductKinds, product'[i].kind = k
        PROVE  \/ i \in OfKind(k)
               \/ k \in Missing /\ at[k] = i /\ k \in server[s].create
    <3>1. CASE \E j \in server[s].create : at[j] = i /\ product'[i] = [kind |-> j, state |-> "current"]
      BY <2>1, <2>3, <3>1 DEF Compared
    <3>2. CASE \E row \in server[s].update : row[1] = i /\ product'[i] = [kind |-> row[2], state |-> "current"]
      BY <2>1, <2>3, <3>2 DEF Compared, OfKind
    <3>3. CASE product'[i] = product[i]
      BY <2>3, <3>3 DEF OfKind
    <3> QED BY <1>1, <3>1, <3>2, <3>3 DEF SavedRow
  <2>4. ASSUME NEW k \in ProductKinds, NEW i \in OfKind(k)', NEW j \in OfKind(k)' PROVE i = j
    <3>1. i \in ProductIds /\ product'[i].kind = k /\ j \in ProductIds /\ product'[j].kind = k
      BY <2>4 DEF OfKind
    <3>2. CASE k \in Missing
      <4>1. OfKind(k) = {}
        BY <3>2 DEF Missing
      <4> QED BY <2>3, <3>1, <4>1
    <3>3. CASE k \notin Missing
      <4>1. i \in OfKind(k) /\ j \in OfKind(k)
        BY <2>3, <3>1, <3>3
      <4> QED BY <2>1, <4>1 DEF AloneInv
    <3> QED BY <3>2, <3>3
  <2>5. ASSUME NEW k \in ExpectedKinds PROVE \E i \in OfKind(k)' : product'[i].state = "current"
    <3>1. CASE k \in Missing
      <4>1. k \in server[s].create /\ at[k] \in ProductIds
        BY <1>1, <1>3, <2>1, <3>1 DEF Compared
      <4>2. product'[at[k]] = [kind |-> k, state |-> "current"]
        BY <1>1, <4>1 DEF SavedRow
      <4> QED BY <4>1, <4>2 DEF OfKind
    <3>2. CASE k \notin Missing
      <4>1. PICK i \in OfKind(k) : TRUE
        BY <3>2 DEF Missing
      <4>2. i \in ProductIds /\ product[i].kind = k /\ product[i] # NoRow
        BY <2>1, <4>1, RowsOfKinds, SeedConstants
      <4>3. \A j \in server[s].create : at[j] # i
        BY <1>1, <2>1, <4>2 DEF IdsInv
      <4>4. product'[i] = [kind |-> k, state |-> "current"]
            \/ (product'[i] = product[i] /\ product[i].state = "current")
        <5>1. CASE \E row \in server[s].update :
                        row[1] = i /\ product'[i] = [kind |-> row[2], state |-> "current"]
          BY <2>1, <4>2, <5>1 DEF Compared
        <5>2. CASE (\A row \in server[s].update : row[1] # i) /\ product'[i] = product[i]
          <6>1. <<i, k>> \notin server[s].update
            BY <5>2
          <6>2. product[i].state = "current"
            BY <2>1, <4>1, <6>1 DEF Compared
          <6> QED BY <5>2, <6>2
        <5> QED BY <1>1, <4>2, <4>3, <5>1, <5>2 DEF SavedRow
      <4> QED BY <4>2, <4>4 DEF OfKind
    <3> QED BY <3>1, <3>2
  <2> QED BY <2>2, <2>4, <2>5 DEF AloneInv
<1> QED BY <1>2, <1>7, <1>8, <1>9 DEF SeedInv

LEMMA WipeKeeps == ASSUME SeedInv, WipeDatabase PROVE SeedInv'
<1>1. /\ product' = [i \in ProductIds |-> NoRow] /\ seeded' = {} /\ UNCHANGED <<profile, freeIds, server>>
      /\ raced' = \E r \in Servers : server[r].pc = "save"
  BY DEF WipeDatabase
<1>2. SeedTypeOK'
  BY <1>1 DEF SeedInv, SeedTypeOK
<1>3. IdsInv'
  BY <1>1 DEF SeedInv, SeedTypeOK, IdsInv
<1>4. ASSUME ~raced' PROVE AloneInv'
  <2>1. \A s \in Servers : server'[s].pc # "save"
    BY <1>1, <1>4
  <2>2. \A k \in ProductKinds : OfKind(k)' = {}
    BY <1>1, SeedConstants DEF OfKind, NoRow
  <2> QED BY <1>1, <2>1, <2>2 DEF AloneInv
<1> QED BY <1>2, <1>3, <1>4 DEF SeedInv

LEMMA SeedInvStep == SeedInv /\ [SeedNext]_seedVars => SeedInv'
<1> SUFFICES ASSUME SeedInv, [SeedNext]_seedVars PROVE SeedInv'
  OBVIOUS
<1>1. ASSUME NEW s \in Servers, OnModuleInit(s) \/ SeedFails(s) \/ ServerStops(s) PROVE SeedInv'
  <2>1. UNCHANGED <<profile, product, freeIds, seeded, raced>>
    BY <1>1 DEF OnModuleInit, SeedFails, ServerStops
  <2>2. PICK r \in ServerRow : server' = [server EXCEPT ![s] = r] /\ r.pc # "save"
    <3>1. server[s] \in ServerRow
      BY DEF SeedInv, SeedTypeOK, ServerRow
    <3>2. CASE OnModuleInit(s)
      <4>1. PICK pc \in {"listens", "init"} : server' = [server EXCEPT ![s].pc = pc]
        BY <3>2 DEF OnModuleInit
      <4>2. PICK r : r = [server[s] EXCEPT !.pc = pc]
        OBVIOUS
      <4>3. r \in ServerRow /\ r.pc = pc
        BY <3>1, <4>2 DEF ServerRow
      <4> QED BY <4>1, <4>2, <4>3
    <3>3. CASE SeedFails(s) \/ ServerStops(s)
      <4>1. /\ Down \in ServerRow /\ Down.pc = "down"
            /\ [Down EXCEPT !.pc = "listens"] \in ServerRow /\ [Down EXCEPT !.pc = "listens"].pc = "listens"
        BY DEF Down, ServerRow
      <4> QED BY <3>3, <4>1 DEF SeedFails, ServerStops
    <3> QED BY <1>1, <3>2, <3>3
  <2> QED BY <2>1, <2>2, ServerMoves
<1>2. ASSUME NEW s \in Servers, Reconcile(s) \/ SaveAll(s) PROVE SeedInv'
  BY <1>2, ReconcileKeeps, SaveAllKeeps
<1>3. CASE WipeDatabase
  BY <1>3, WipeKeeps
<1>4. CASE UNCHANGED seedVars
  <2>1. SeedTypeOK' /\ IdsInv'
    BY <1>4 DEF seedVars, SeedInv, SeedTypeOK, IdsInv
  <2>2. Missing' = Missing /\ \A k : OfKind(k)' = OfKind(k)
    BY <1>4 DEF seedVars, OfKind, Missing
  <2>3. \A s \in Servers : Compared(s)' = Compared(s)
    BY <1>4, <2>2 DEF seedVars, Compared
  <2>4. ~raced' => AloneInv'
    BY <1>4, <2>2, <2>3 DEF seedVars, SeedInv, AloneInv
  <2> QED BY <2>1, <2>4 DEF SeedInv
<1> QED BY <1>1, <1>2, <1>3, <1>4 DEF SeedNext

LEMMA SeedInvariance == SeedSpec => []SeedInv
BY SeedInvInit, SeedInvStep, PTL DEF SeedSpec

\* A row of the catalogue has a kind and a state, and a server saves kinds only.
THEOREM CatalogueIsWellFormed == SeedSpec => []SeedTypeOK
<1>1. SeedInv => SeedTypeOK
  BY DEF SeedInv
<1> QED BY <1>1, SeedInvariance, PTL

\* Any number of servers may start, fail and stop: after a seed that none has raced the
\* customers are shown each product once, at its price.
THEOREM SeededCatalogueIsWhole == SeedSpec => []CatalogueIsWhole
<1>1. SeedInv => CatalogueIsWhole
  <2> SUFFICES ASSUME SeedInv, seeded # {}, ~raced, NEW k \in ExpectedKinds
               PROVE  \E i \in FindActiveProducts : OfKind(k) = {i} /\ product[i] \in GetExpectedProducts
    BY DEF CatalogueIsWhole
  <2>1. AloneInv /\ SeedTypeOK /\ k \in ProductKinds
    BY SeedConstants DEF SeedInv
  <2>2. PICK i \in OfKind(k) : product[i].state = "current"
    BY <2>1 DEF AloneInv
  <2>3. i \in ProductIds /\ product[i] # NoRow /\ product[i].kind = k /\ product[i] \in Rows
    BY <2>1, <2>2, RowsOfKinds
  <2>4. product[i] = [kind |-> k, state |-> "current"]
    BY <2>2, <2>3 DEF Rows
  <2>5. OfKind(k) = {i}
    BY <2>1, <2>2 DEF AloneInv
  <2>6. i \in FindActiveProducts /\ product[i] \in GetExpectedProducts
    BY <2>3, <2>4 DEF FindActiveProducts, Existing, GetExpectedProducts
  <2> QED BY <2>5, <2>6
<1> QED BY <1>1, SeedInvariance, PTL

-------------------------------------------------------------------------------
(* Admin tables: the page announces no more than is granted, and a request *)
(* that overlaps no other has read, of the keyword asked for, whatever the *)
(* page had announced when it was sent.                                    *)

Owned(u) == {j \in DOMAIN granted : granted[j].user = u}
ListRow ==
    [pc : {"none", "users", "balances", "grants", "answer", "over"},
     keyword : Keywords \cup {{}}, rows : SUBSET Clients, counts : Counted,
     grants : SUBSET GrantRows]
PageState ==
    [tab : {"users", "grants"}, keyword : Keywords, loading : BOOLEAN, loaded : BOOLEAN,
     rows : SUBSET Clients, total : 0..Cardinality(Clients), counts : Counted,
     grants : SUBSET GrantRows, last : Keywords \cup {NotListed}, crossed : BOOLEAN]
AskedRow == [user : Clients, keyword : Keywords \cup {NotListed}, pc : {"chosen", "sent", "given"}]

HistoryInv ==
    /\ granted \in Seq(GrantRows) /\ Len(granted) <= MaxRewards
    /\ \A i \in DOMAIN granted : granted[i].id = i

\* One dialog at a time; what is given but not announced is granted beyond what is announced.
DialogsInv ==
    /\ asked \subseteq AskedRow /\ \A a, b \in asked : a = b
    /\ \A a \in asked :
        /\ a.pc # "given" => Len(granted) < MaxRewards
        /\ a.keyword # NotListed => page.tab = "users"
        /\ a.pc = "given" => toldOf[a.user] < Cardinality(Owned(a.user))
    /\ toldOf \in Counted /\ \A u \in Clients : toldOf[u] <= Cardinality(Owned(u))

\* The history shown is full, or has all the rewards announced.
Covers(grants) ==
    \/ Cardinality(grants) = ListLimit
    \/ \A u \in Clients : Cardinality({g \in grants : g.user = u}) >= toldOf[u]

Kinds(opened) == IF opened = "users" THEN {"users", "balances", "answer"} ELSE {"grants", "answer"}

\* What a request that overlaps no other has read.
Fresh(row) ==
    IF page.tab = "users"
    THEN /\ row.keyword = page.last
         /\ row.pc \in {"balances", "answer"} => row.rows = SearchUsersWithSocialInfo(page.last)
         /\ row.pc = "answer" => \A u \in Clients : row.counts[u] >= toldOf[u]
    ELSE row.pc = "answer" => Covers(row.grants)

Shown ==
    IF page.tab = "users"
    THEN /\ page.rows = SearchUsersWithSocialInfo(page.last)
         /\ \A u \in page.rows : page.counts[u] >= toldOf[u]
    ELSE Covers(page.grants)

\* The history has no table, and the last request for it has failed.
HistoryFailed == page.tab = "grants" /\ ~page.loaded /\ page.last = NotListed

RequestsInv ==
    /\ page \in PageState
    /\ list \in [Lists -> ListRow]
    /\ \A l \in Waiting : list[l].pc \in Kinds(page.tab)
    /\ Waiting = {} /\ page.loading => HistoryFailed
    /\ page.last # NotListed /\ ~page.crossed =>
        /\ \A k, l \in Waiting : k = l
        /\ \A l \in Waiting : Fresh(list[l])
        /\ Waiting = {} => Shown

TablesInv == HistoryInv /\ DialogsInv /\ RequestsInv

\* The rows a query counts or returns are as many as the grants they come from.
LEMMA ClientsFinite ==
    /\ IsFiniteSet(Clients) /\ Cardinality(Clients) \in Nat
    /\ \A S \in SUBSET Clients : Cardinality(S) \in 0..Cardinality(Clients)
BY TableConstants, FS_CardinalityType, FS_Subset

LEMMA OwnedFinite ==
    ASSUME HistoryInv, NEW u
    PROVE  /\ IsFiniteSet(Owned(u)) /\ Cardinality(Owned(u)) \in Nat
           /\ Cardinality(Owned(u)) <= Len(granted)
<1>1. PICK n \in Nat : n = Len(granted)
  BY DEF HistoryInv
<1>2. IsFiniteSet(1..n) /\ Cardinality(1..n) = n
  BY FS_Interval
<1>3. Owned(u) \in SUBSET (1..n)
  BY <1>1 DEF Owned, HistoryInv
<1> QED BY <1>1, <1>2, <1>3, FS_Subset, FS_CardinalityType

LEMMA BalancesAreCounts ==
    ASSUME HistoryInv, NEW u \in Clients
    PROVE  GetBalanceBatch[u] = Cardinality(Owned(u))
<1>1. PICK rows : rows = CountAvailableGrouped
  OBVIOUS
<1>2. ASSUME NEW row \in rows PROVE row.count = Cardinality(Owned(row.user))
  <2>1. PICK i \in DOMAIN granted :
            row = [user |-> granted[i].user,
                   count |-> Cardinality({j \in DOMAIN granted : granted[j].user = granted[i].user})]
    BY <1>1 DEF CountAvailableGrouped
  <2>2. {j \in DOMAIN granted : granted[j].user = granted[i].user} = Owned(row.user)
    BY <2>1 DEF Owned
  <2> QED BY <2>1, <2>2
<1>3. GetBalanceBatch[u] = IF \E row \in rows : row.user = u
                           THEN (CHOOSE row \in rows : row.user = u).count ELSE 0
  BY <1>1 DEF GetBalanceBatch
<1>4. CASE \E row \in rows : row.user = u
  <2>1. PICK row : row = CHOOSE r \in rows : r.user = u
    OBVIOUS
  <2>2. row \in rows /\ row.user = u
    BY <1>4, <2>1
  <2> QED BY <1>2, <1>3, <1>4, <2>1, <2>2
<1>5. CASE ~\E row \in rows : row.user = u
  <2>1. Owned(u) = {}
    <3>1. ASSUME NEW i \in DOMAIN granted PROVE \E row \in rows : row.user = granted[i].user
      <4>1. PICK n : n = Cardinality({j \in DOMAIN granted : granted[j].user = granted[i].user})
        OBVIOUS
      <4>2. [user |-> granted[i].user, count |-> n] \in rows
        BY <1>1, <4>1, Zenon DEF CountAvailableGrouped
      <4>3. [user |-> granted[i].user, count |-> n].user = granted[i].user
        OBVIOUS
      <4> QED BY <4>2, <4>3
    <3> QED BY <1>5, <3>1 DEF Owned
  <2> QED BY <1>3, <1>5, <2>1, FS_EmptySet
<1> QED BY <1>4, <1>5

LEMMA NewestCover ==
    ASSUME HistoryInv, DialogsInv
    PROVE  Covers(FindAllWithLatestNotice) /\ FindAllWithLatestNotice \subseteq GrantRows
<1>1. PICK n \in Nat : n = Len(granted)
  BY DEF HistoryInv
<1>2. DOMAIN granted = 1..n /\ \A i \in 1..n : granted[i] \in GrantRows /\ granted[i].id = i
  BY <1>1 DEF HistoryInv
<1>3. PICK newest : newest = {j \in 1..n : j > n - ListLimit}
  OBVIOUS
<1>4. FindAllWithLatestNotice = {granted[i] : i \in newest}
  BY <1>1, <1>2, <1>3 DEF FindAllWithLatestNotice
<1>5. ASSUME NEW S \in SUBSET (1..n)
      PROVE  Cardinality({granted[i] : i \in S}) = Cardinality(S)
  <2>1. PICK T : T = {granted[i] : i \in S}
    OBVIOUS
  <2>2. PICK f : f = [i \in S |-> granted[i]]
    OBVIOUS
  <2>3. f \in [S -> T] /\ \A i \in S : f[i] = granted[i] /\ f[i].id = i
    BY <1>2, <2>1, <2>2
  <2>4. f \in Injection(S, T)
    <3>1. \A i, j \in S : f[i] = f[j] => i = j
      BY <2>3
    <3>2. DOMAIN f = S
      BY <2>3
    <3> QED BY <2>3, <3>1, <3>2 DEF Injection, IsInjective
  <2>5. f \in Surjection(S, T)
    <3>1. \A x \in T : \E i \in S : f[i] = x
      BY <2>1, <2>3
    <3> QED BY <2>3, <3>1 DEF Surjection
  <2>6. ExistsBijection(S, T)
    BY <2>4, <2>5 DEF Bijection, ExistsBijection
  <2>7. IsFiniteSet(1..n)
    BY FS_Interval
  <2>8. IsFiniteSet(S)
    BY <2>7, FS_Subset
  <2> QED BY <2>1, <2>6, <2>8, FS_Bijection
<1>6. CASE n >= ListLimit
  <2>1. newest = (n - ListLimit + 1)..n
    BY <1>3, <1>6, TableConstants
  <2>2. Cardinality(newest) = ListLimit
    BY <1>6, <2>1, TableConstants, FS_Interval
  <2> QED BY <1>2, <1>3, <1>4, <1>5, <2>2 DEF Covers
<1>7. CASE n < ListLimit
  <2>1. newest = 1..n
    BY <1>3, <1>7, TableConstants
  <2>2. ASSUME NEW u \in Clients
        PROVE  Cardinality({g \in FindAllWithLatestNotice : g.user = u}) >= toldOf[u]
    <3>1. Owned(u) \in SUBSET (1..n) /\ Owned(u) = {i \in 1..n : granted[i].user = u}
      BY <1>2 DEF Owned
    <3>2. {g \in FindAllWithLatestNotice : g.user = u} = {granted[i] : i \in Owned(u)}
      BY <1>4, <2>1, <3>1
    <3>3. toldOf[u] <= Cardinality(Owned(u)) /\ toldOf[u] \in Nat /\ Cardinality(Owned(u)) \in Nat
      BY OwnedFinite, TableConstants DEF DialogsInv, Counted
    <3> QED BY <1>5, <3>1, <3>2, <3>3
  <2> QED BY <1>2, <1>4, <2>1, <2>2 DEF Covers
<1> QED BY <1>6, <1>7, TableConstants

\* A request is sent: the only one, or one that overlaps.
LEMMA RequestIsSent ==
    ASSUME RequestsInv, NEW pc \in {"users", "grants"}, NEW keyword \in Keywords,
           NEW dropped \in SUBSET Waiting, NextList(pc, keyword, dropped),
           page' \in PageState, page'.tab = pc, page'.last = keyword,
           dropped = Waiting \/ page'.tab = page.tab,
           ~page'.crossed => dropped = Waiting
    PROVE  RequestsInv'
<1>1. PICK l \in Lists :
        /\ list[l].pc = "none"
        /\ list' = [k \in Lists |->
                        IF k = l THEN [NoList EXCEPT !.pc = pc, !.keyword = keyword]
                        ELSE IF k \in dropped THEN [NoList EXCEPT !.pc = "over"] ELSE list[k]]
  BY DEF NextList
<1>2. PICK r : r = [NoList EXCEPT !.pc = pc, !.keyword = keyword]
  OBVIOUS
<1>3. PICK o : o = [NoList EXCEPT !.pc = "over"]
  OBVIOUS
<1>4. /\ [u \in Clients |-> 0] \in Counted
      /\ r \in ListRow /\ r.pc = pc /\ r.keyword = keyword
      /\ o \in ListRow /\ o.pc = "over"
  <2>1. 0 \in 0..MaxRewards
    BY TableConstants
  <2> QED BY <1>2, <1>3, <2>1 DEF NoList, ListRow, Counted
<1>5. /\ list \in [Lists -> ListRow]
      /\ list' = [k \in Lists |-> IF k = l THEN r ELSE IF k \in dropped THEN o ELSE list[k]]
      /\ \A k \in Lists : list'[k] = IF k = l THEN r ELSE IF k \in dropped THEN o ELSE list[k]
  BY <1>1, <1>2, <1>3 DEF RequestsInv
<1>6. list' \in [Lists -> ListRow]
  BY <1>4, <1>5
<1>7. Waiting' = (Waiting \ dropped) \cup {l} /\ l \notin Waiting
  BY <1>1, <1>4, <1>5 DEF Waiting
<1>8. \A k \in Waiting' : list'[k].pc \in Kinds(page'.tab)
  BY <1>4, <1>5, <1>7 DEF RequestsInv, Kinds, Waiting
<1>9. r.pc \in {"users", "grants"} /\ Fresh(r)'
  BY <1>4 DEF Fresh
<1>10. Waiting' # {}
  BY <1>7
<1>11. ~page'.crossed => Waiting' = {l} /\ list'[l] = r
  BY <1>1, <1>5, <1>7
<1> QED BY <1>6, <1>8, <1>9, <1>10, <1>11 DEF RequestsInv

\* A request goes on.
LEMMA RequestGoesOn ==
    ASSUME RequestsInv, NEW l \in Waiting, NEW r \in ListRow, list' = [list EXCEPT ![l] = r],
           r.pc \in Kinds(page.tab), UNCHANGED <<page, toldOf>>, Fresh(list[l]) => Fresh(r)
    PROVE  RequestsInv'
<1>1. l \in Lists /\ list \in [Lists -> ListRow]
  BY DEF Waiting, RequestsInv
<1>2. \A k \in Lists : list'[k] = IF k = l THEN r ELSE list[k]
  BY <1>1
<1>3. Waiting' = Waiting
  BY <1>1, <1>2 DEF Waiting, Kinds
<1>4. \A k \in Waiting : Fresh(list[k]) => Fresh(list[k])'
  <2>1. ASSUME NEW k \in Waiting, Fresh(list[k]) PROVE Fresh(list[k])'
    <3>1. PICK x : x = list'[k]
      OBVIOUS
    <3>2. Fresh(x)
      BY <1>2, <2>1, <3>1 DEF Waiting
    <3> QED BY <3>1, <3>2 DEF Fresh, Covers
  <2> QED BY <2>1
<1>5. Shown' = Shown
  BY DEF Shown, Covers
<1>6. list' \in [Lists -> ListRow]
  BY <1>1
<1>7. \A k \in Waiting : list'[k].pc \in Kinds(page.tab)
  BY <1>2 DEF RequestsInv, Waiting
<1> QED BY <1>3, <1>4, <1>5, <1>6, <1>7 DEF RequestsInv

\* A request is over.
LEMMA RequestIsOver ==
    ASSUME RequestsInv, NEW l \in Waiting, list' = [list EXCEPT ![l] = [NoList EXCEPT !.pc = "over"]],
           page' \in PageState, page'.tab = page.tab, page'.loading => HistoryFailed', UNCHANGED toldOf,
           page'.last # NotListed /\ ~page'.crossed =>
                page.last = page'.last /\ ~page.crossed /\ (Fresh(list[l]) => Shown')
    PROVE  RequestsInv'
<1>1. l \in Lists /\ list \in [Lists -> ListRow]
  BY DEF Waiting, RequestsInv
<1>2. PICK o : o = [NoList EXCEPT !.pc = "over"]
  OBVIOUS
<1>3. [u \in Clients |-> 0] \in Counted /\ o \in ListRow /\ o.pc = "over"
  BY <1>2, TableConstants DEF NoList, ListRow, Counted
<1>4. \A k \in Lists : list'[k] = IF k = l THEN o ELSE list[k]
  BY <1>1, <1>2
<1>5. Waiting' = Waiting \ {l}
  BY <1>1, <1>3, <1>4 DEF Waiting
<1>6. list' \in [Lists -> ListRow]
  BY <1>1, <1>2, <1>3
<1>7. \A k \in Waiting' : list'[k].pc \in Kinds(page'.tab)
  BY <1>4, <1>5 DEF RequestsInv, Waiting
<1>8. page'.last # NotListed /\ ~page'.crossed => Waiting' = {} /\ Shown'
  BY <1>5 DEF RequestsInv
<1> QED BY <1>6, <1>7, <1>8 DEF RequestsInv

\* The reads of a request, and its answer.
LEMMA ReadsKeepTables ==
    ASSUME TablesInv, NEW l \in Lists, FindUsers(l) \/ CountBalances(l) \/ GetTicketGrants(l)
    PROVE  RequestsInv'
<1>1. PICK c : c = list[l]
  OBVIOUS
<1>2. /\ RequestsInv /\ c \in ListRow /\ UNCHANGED <<page, toldOf>>
      /\ l \in Waiting => c.pc \in Kinds(page.tab)
  BY <1>1 DEF TablesInv, RequestsInv, FindUsers, CountBalances, GetTicketGrants
<1>3. page \in PageState
  BY <1>2 DEF RequestsInv
<1>4. CASE FindUsers(l)
  <2>1. PICK rows : rows = SearchUsersWithSocialInfo(c.keyword)
    OBVIOUS
  <2>2. PICK r : r = [c EXCEPT !.pc = "balances", !.rows = rows]
    OBVIOUS
  <2>3. c.pc = "users" /\ l \in Waiting /\ list' = [list EXCEPT ![l] = r]
    BY <1>1, <1>4, <2>1, <2>2 DEF FindUsers, Waiting
  <2>4. rows \subseteq Clients
    BY <1>2, <2>1, TableConstants DEF SearchUsersWithSocialInfo, ListRow
  <2>5. r \in ListRow /\ r.pc = "balances" /\ r.keyword = c.keyword /\ r.rows = rows
    BY <1>2, <2>2, <2>4 DEF ListRow
  <2>6. page.tab = "users"
    BY <1>2, <1>3, <2>3 DEF Kinds
  <2>7. Fresh(c) => Fresh(r)
    BY <2>1, <2>5, <2>6 DEF Fresh
  <2>8. r.pc \in Kinds(page.tab)
    BY <2>5, <2>6 DEF Kinds
  <2> QED BY <1>1, <1>2, <2>3, <2>5, <2>7, <2>8, RequestGoesOn
<1>5. CASE CountBalances(l)
  <2>1. PICK counts : counts = GetBalanceBatch
    OBVIOUS
  <2>2. PICK r : r = [c EXCEPT !.pc = "answer", !.counts = counts]
    OBVIOUS
  <2>3. c.pc = "balances" /\ l \in Waiting /\ list' = [list EXCEPT ![l] = r]
    BY <1>1, <1>5, <2>1, <2>2 DEF CountBalances, Waiting
  <2>4. \A u \in Clients : counts[u] = Cardinality(Owned(u))
    BY <2>1, BalancesAreCounts DEF TablesInv
  <2>5. counts \in Counted
    <3>1. \A u \in Clients : Cardinality(Owned(u)) \in 0..MaxRewards
      <4>1. \A u \in Clients : /\ Cardinality(Owned(u)) \in Nat
                               /\ Cardinality(Owned(u)) <= Len(granted)
        BY OwnedFinite DEF TablesInv
      <4> QED BY <4>1, TableConstants DEF TablesInv, HistoryInv
    <3>2. counts = [u \in Clients |-> counts[u]]
      BY <2>1 DEF GetBalanceBatch
    <3> QED BY <2>4, <3>1, <3>2 DEF Counted
  <2>6. /\ r \in ListRow /\ r.pc = "answer" /\ r.keyword = c.keyword /\ r.rows = c.rows
        /\ r.counts = counts
    BY <1>2, <2>2, <2>5 DEF ListRow
  <2>7. page.tab = "users"
    BY <1>2, <1>3, <2>3 DEF Kinds
  <2>8. \A u \in Clients : counts[u] >= toldOf[u]
    <3>1. \A u \in Clients : toldOf[u] \in Nat /\ counts[u] \in Nat
      BY <2>5, TableConstants DEF Counted, TablesInv, DialogsInv
    <3>2. \A u \in Clients : toldOf[u] <= counts[u]
      BY <2>4 DEF TablesInv, DialogsInv
    <3> QED BY <3>1, <3>2
  <2>9. Fresh(c) => Fresh(r)
    BY <2>3, <2>6, <2>7, <2>8 DEF Fresh
  <2>10. r.pc \in Kinds(page.tab)
    BY <2>6, <2>7 DEF Kinds
  <2> QED BY <1>1, <1>2, <2>3, <2>6, <2>9, <2>10, RequestGoesOn
<1>6. CASE GetTicketGrants(l)
  <2>1. PICK grants : grants = FindAllWithLatestNotice
    OBVIOUS
  <2>2. PICK r : r = [c EXCEPT !.pc = "answer", !.grants = grants]
    OBVIOUS
  <2>3. c.pc = "grants" /\ l \in Waiting /\ list' = [list EXCEPT ![l] = r]
    BY <1>1, <1>6, <2>1, <2>2 DEF GetTicketGrants, Waiting
  <2>4. Covers(grants) /\ grants \subseteq GrantRows
    BY <2>1, NewestCover DEF TablesInv
  <2>5. r \in ListRow /\ r.pc = "answer" /\ r.grants = grants
    BY <1>2, <2>2, <2>4 DEF ListRow
  <2>6. page.tab = "grants"
    BY <1>2, <1>3, <2>3 DEF Kinds, PageState
  <2>7. Fresh(r) /\ r.pc \in Kinds(page.tab)
    BY <2>4, <2>5, <2>6 DEF Fresh, Kinds
  <2> QED BY <1>1, <1>2, <2>3, <2>5, <2>7, RequestGoesOn
<1> QED BY <1>4, <1>5, <1>6

LEMMA AnswersKeepTables ==
    ASSUME TablesInv, NEW l \in Lists, ListArrives(l) \/ ListFails(l)
    PROVE  RequestsInv' /\ page'.tab = page.tab
<1>1. PICK c : c = list[l]
  OBVIOUS
<1>2. RequestsInv /\ c \in ListRow /\ page \in PageState /\ UNCHANGED toldOf
  BY <1>1 DEF TablesInv, RequestsInv, ListArrives, ListFails
<1>3. /\ l \in Waiting /\ list' = [list EXCEPT ![l] = [NoList EXCEPT !.pc = "over"]]
      /\ c.pc \in Kinds(page.tab)
  BY <1>1, <1>2 DEF ListArrives, ListFails, Waiting, RequestsInv
<1>4. CASE ListArrives(l)
  <2>1. PICK total : total = Cardinality(c.rows)
    OBVIOUS
  <2>2. page' = [page EXCEPT !.loaded = TRUE, !.loading = FALSE, !.grants = c.grants,
                    !.rows = c.rows, !.total = total, !.counts = c.counts]
    BY <1>1, <1>4, <2>1 DEF ListArrives
  <2>3. total \in 0..Cardinality(Clients)
    BY <1>2, <2>1, ClientsFinite DEF ListRow
  <2>4. /\ page' \in PageState /\ page'.tab = page.tab /\ ~page'.loading
        /\ page'.last = page.last /\ page'.crossed = page.crossed
        /\ page'.rows = c.rows /\ page'.counts = c.counts /\ page'.grants = c.grants
    BY <1>2, <2>2, <2>3 DEF PageState, ListRow
  <2>5. c.pc = "answer" /\ c.rows \subseteq Clients
    BY <1>1, <1>2, <1>4 DEF ListArrives, ListRow
  <2>6. Fresh(c) => Shown'
    BY <1>2, <2>4, <2>5 DEF Fresh, Shown, Covers
  <2> QED BY <1>1, <1>2, <1>3, <2>4, <2>6, RequestIsOver
<1>5. CASE ListFails(l)
  <2>1. PICK empty \in BOOLEAN : empty = (page.tab = "grants" /\ ~page.loaded)
    OBVIOUS
  <2>2. page' = [page EXCEPT !.loading = empty, !.last = NotListed]
    BY <1>5, <2>1 DEF ListFails
  <2>3. /\ page' \in PageState /\ page'.tab = page.tab /\ page'.last = NotListed
        /\ page'.loading = empty /\ page'.loaded = page.loaded
    BY <1>2, <2>2 DEF PageState
  <2>4. page'.loading => HistoryFailed'
    BY <2>1, <2>3 DEF HistoryFailed
  <2> QED BY <1>2, <1>3, <2>3, <2>4, RequestIsOver
<1> QED BY <1>4, <1>5

\* The tabs, the searches and the reload after a reward.
LEMMA MountedPage ==
    ASSUME NEW opened \in {"users", "grants"}
    PROVE  Mounted(opened) \in PageState /\ Mounted(opened).tab = opened
<1>1. 0 \in 0..MaxRewards /\ 0 \in 0..Cardinality(Clients)
  BY TableConstants, ClientsFinite
<1> QED BY <1>1, TableConstants DEF Mounted, PageState, Counted

LEMMA LoadsKeepTables ==
    ASSUME TablesInv,
           \/ OpenUsers \/ OpenGrants
           \/ page.tab = "users" /\ \E keyword \in Keywords : LoadUsers(keyword)
           \/ LoadGrants
    PROVE  /\ RequestsInv'
           /\ page'.tab = page.tab \/ OpenUsers \/ OpenGrants
<1>1. RequestsInv /\ page \in PageState /\ Clients \in Keywords
  BY TableConstants DEF TablesInv, RequestsInv
<1>2. CASE OpenUsers \/ OpenGrants
  <2>1. PICK opened \in {"users", "grants"} :
            /\ NextList(opened, Clients, Waiting)
            /\ page' = [Loading(Mounted(opened), Clients) EXCEPT !.crossed = FALSE]
    BY <1>2 DEF OpenUsers, OpenGrants
  <2>2. PICK m \in PageState : m = Mounted(opened) /\ m.tab = opened
    BY MountedPage
  <2>3. PICK busy \in BOOLEAN : busy = (m.tab = "users" \/ ~m.loaded)
    OBVIOUS
  <2>4. page' = [m EXCEPT !.loading = busy, !.last = Clients, !.crossed = FALSE]
    BY <2>1, <2>2, <2>3 DEF Loading, PageState
  <2>5. page' \in PageState /\ page'.tab = opened /\ page'.last = Clients
    BY <1>1, <2>2, <2>4 DEF PageState
  <2> QED BY <1>1, <1>2, <2>1, <2>5, RequestIsSent
<1>3. ASSUME NEW keyword \in Keywords, NextList(page.tab, keyword, {}), page' = Loading(page, keyword)
      PROVE  RequestsInv' /\ page'.tab = page.tab
  <2>1. PICK crossed \in BOOLEAN : crossed = (Waiting # {})
    OBVIOUS
  <2>2. PICK busy \in BOOLEAN : busy = (page.tab = "users" \/ ~page.loaded)
    OBVIOUS
  <2>3. page' = [page EXCEPT !.loading = busy, !.last = keyword, !.crossed = crossed]
    BY <1>3, <2>1, <2>2 DEF Loading
  <2>4. /\ page' \in PageState /\ page'.tab = page.tab /\ page'.last = keyword
        /\ page'.crossed = crossed
    BY <1>1, <2>3 DEF PageState
  <2>5. page.tab \in {"users", "grants"} /\ (~page'.crossed => {} = Waiting)
    BY <1>1, <2>1, <2>4 DEF PageState
  <2> QED BY <1>1, <1>3, <2>4, <2>5, RequestIsSent
<1>4. CASE page.tab = "users" /\ \E keyword \in Keywords : LoadUsers(keyword)
  BY <1>3, <1>4 DEF LoadUsers
<1>5. CASE LoadGrants
  BY <1>1, <1>3, <1>5 DEF LoadGrants
<1> QED BY <1>2, <1>4, <1>5

LEMMA RequestsStay ==
    ASSUME RequestsInv, NEW keyword \in Keywords, UNCHANGED <<list, toldOf>>,
           page' = page \/ page' = [page EXCEPT !.keyword = keyword]
    PROVE  RequestsInv' /\ page'.tab = page.tab
<1>1. /\ page' \in PageState /\ page'.tab = page.tab /\ page'.last = page.last
      /\ page'.crossed = page.crossed /\ page'.loading = page.loading /\ page'.loaded = page.loaded
      /\ page'.rows = page.rows /\ page'.counts = page.counts /\ page'.grants = page.grants
  BY DEF RequestsInv, PageState
<1>2. Waiting' = Waiting /\ Shown' = Shown /\ HistoryFailed' = HistoryFailed
  BY <1>1 DEF Waiting, Shown, Covers, HistoryFailed
<1>3. \A l \in Waiting : Fresh(list[l])' = Fresh(list[l])
  BY <1>1 DEF Fresh, Covers
<1> QED BY <1>1, <1>2, <1>3 DEF RequestsInv

\* The dialog's steps.
LEMMA DialogsKeepTables ==
    ASSUME TablesInv, NEW a \in asked, SubmitGrant(a) \/ GiveReward(a) \/ GrantIsLost(a)
    PROVE  TablesInv'
<1>1. HistoryInv /\ DialogsInv /\ RequestsInv /\ a \in AskedRow /\ asked = {a}
  BY DEF TablesInv, DialogsInv
<1>2. /\ Clients \in Keywords /\ UNCHANGED <<page, list, toldOf>>
      /\ page.keyword \in Keywords
  BY <1>1, TableConstants DEF SubmitGrant, GiveReward, GrantIsLost, RequestsInv, PageState
<1>3. RequestsInv'
  BY <1>1, <1>2, RequestsStay
<1>4. CASE SubmitGrant(a)
  <2>1. PICK b : b = [a EXCEPT !.pc = "sent", !.keyword = page.keyword]
    OBVIOUS
  <2>2. /\ b \in AskedRow /\ b.pc = "sent" /\ asked' = {b} /\ UNCHANGED granted
        /\ Len(granted) < MaxRewards /\ page.tab = "users"
    BY <1>1, <1>2, <1>4, <2>1 DEF SubmitGrant, AskedRow, DialogsInv
  <2>3. \A u : Owned(u)' = Owned(u)
    BY <2>2 DEF Owned
  <2>4. DialogsInv'
    BY <1>1, <1>2, <2>2, <2>3 DEF DialogsInv
  <2>5. HistoryInv'
    BY <1>1, <2>2 DEF HistoryInv
  <2> QED BY <1>3, <2>4, <2>5 DEF TablesInv
<1>5. CASE GiveReward(a)
  <2>1. PICK state \in {"PENDING", "NONE"} :
            granted' = Append(granted, [id |-> Len(granted) + 1, user |-> a.user, notice |-> state])
    BY <1>5 DEF GiveReward
  <2>2. PICK n \in Nat : n = Len(granted) /\ n < MaxRewards
    BY <1>1, <1>5 DEF HistoryInv, DialogsInv, GiveReward
  <2>3. PICK g : g = [id |-> n + 1, user |-> a.user, notice |-> state]
    OBVIOUS
  <2>4. g \in GrantRows /\ g.user = a.user /\ g.id = n + 1
    BY <1>1, <2>2, <2>3, TableConstants DEF GrantRows, AskedRow, NoticeStates
  <2>5. /\ granted' \in Seq(GrantRows) /\ Len(granted') = n + 1
        /\ DOMAIN granted' = 1..(n + 1) /\ DOMAIN granted = 1..n
        /\ \A i \in 1..(n + 1) : granted'[i] = IF i = n + 1 THEN g ELSE granted[i]
    BY <1>1, <2>1, <2>2, <2>3, <2>4 DEF HistoryInv
  <2>6. HistoryInv'
    BY <1>1, <2>2, <2>4, <2>5, TableConstants DEF HistoryInv
  <2>7. ASSUME NEW u \in Clients
        PROVE  /\ Cardinality(Owned(u)) \in Nat /\ Cardinality(Owned(u)') \in Nat
               /\ Cardinality(Owned(u)') = Cardinality(Owned(u)) + (IF u = a.user THEN 1 ELSE 0)
    <3>1. Owned(u)' = IF u = a.user THEN Owned(u) \cup {n + 1} ELSE Owned(u)
      BY <2>4, <2>5 DEF Owned
    <3>2. n + 1 \notin Owned(u)
      BY <2>5 DEF Owned
    <3>3. IsFiniteSet(Owned(u)) /\ Cardinality(Owned(u)) \in Nat
      BY <1>1, OwnedFinite
    <3>4. Cardinality(Owned(u) \cup {n + 1}) = Cardinality(Owned(u)) + 1
      BY <3>2, <3>3, FS_AddElement
    <3> QED BY <3>1, <3>3, <3>4
  <2>8. PICK b : b = [a EXCEPT !.pc = "given"]
    OBVIOUS
  <2>9. /\ b \in AskedRow /\ b.pc = "given" /\ b.user = a.user /\ b.keyword = a.keyword
        /\ asked' = {b} /\ a.user \in Clients
    BY <1>1, <1>5, <2>8 DEF GiveReward, AskedRow
  <2>10. b.keyword # NotListed => page.tab = "users"
    BY <1>1, <2>9 DEF DialogsInv
  <2>11. \A u \in Clients : toldOf[u] \in Nat /\ toldOf[u] <= Cardinality(Owned(u))
    BY <1>1, TableConstants DEF DialogsInv, Counted
  <2>12. /\ toldOf[a.user] < Cardinality(Owned(a.user)')
         /\ \A u \in Clients : toldOf[u] <= Cardinality(Owned(u)')
    BY <2>7, <2>9, <2>11
  <2>13. DialogsInv'
    <3>1. asked' \subseteq AskedRow /\ (\A d, e \in asked' : d = e) /\ (\A d \in asked' : d = b)
      BY <2>9
    <3>2. UNCHANGED <<toldOf, page>> /\ toldOf \in Counted
      BY <1>1, <1>2 DEF DialogsInv
    <3>3. \A u \in Clients : toldOf'[u] <= Cardinality(Owned(u)')
      BY <2>12, <3>2
    <3>4. b.keyword # NotListed => page'.tab = "users"
      BY <2>10, <3>2
    <3> HIDE DEF Owned
    <3> QED BY <2>9, <2>12, <3>1, <3>2, <3>3, <3>4 DEF DialogsInv
  <2> QED BY <1>3, <2>6, <2>13 DEF TablesInv
<1>6. CASE GrantIsLost(a)
  <2>1. asked' = {} /\ UNCHANGED granted
    BY <1>6 DEF GrantIsLost
  <2>2. \A u : Owned(u)' = Owned(u)
    BY <2>1 DEF Owned
  <2>3. DialogsInv' /\ HistoryInv'
    BY <1>1, <1>2, <2>1, <2>2 DEF DialogsInv, HistoryInv
  <2> QED BY <1>3, <2>3 DEF TablesInv
<1> QED BY <1>4, <1>5, <1>6

LEMMA AnnouncementKeepsTables ==
    ASSUME TablesInv, NEW a \in asked, HandleEventGrantSuccess(a)
    PROVE  TablesInv'
<1>1. HistoryInv /\ DialogsInv /\ RequestsInv /\ a \in AskedRow
  BY DEF TablesInv, DialogsInv
<1>2. /\ a.pc = "given" /\ a.keyword \in Keywords /\ page.tab = "users" /\ LoadUsers(a.keyword)
      /\ asked' = {} /\ UNCHANGED granted /\ a.user \in Clients
      /\ toldOf' = [toldOf EXCEPT ![a.user] = @ + 1]
      /\ toldOf[a.user] < Cardinality(Owned(a.user))
  BY <1>1 DEF HandleEventGrantSuccess, AskedRow, DialogsInv
<1>3. RequestsInv'
  BY <1>2, LoadsKeepTables
<1>4. \A u : Owned(u)' = Owned(u)
  BY <1>2 DEF Owned
<1>5. \A u \in Clients : Cardinality(Owned(u)) \in 0..MaxRewards
  <2>1. \A u \in Clients : Cardinality(Owned(u)) \in Nat /\ Cardinality(Owned(u)) <= Len(granted)
    BY <1>1, OwnedFinite
  <2> QED BY <1>1, <2>1, TableConstants DEF HistoryInv
<1>6. \A u \in Clients : /\ toldOf[u] \in 0..MaxRewards /\ toldOf[u] <= Cardinality(Owned(u))
                         /\ toldOf'[u] = IF u = a.user THEN toldOf[u] + 1 ELSE toldOf[u]
  BY <1>1, <1>2 DEF DialogsInv, Counted
<1>7. \A u \in Clients : toldOf'[u] \in 0..MaxRewards /\ toldOf'[u] <= Cardinality(Owned(u))
  BY <1>2, <1>5, <1>6, TableConstants
<1>8. toldOf' \in Counted
  BY <1>1, <1>2, <1>7 DEF DialogsInv, Counted
<1>9. DialogsInv' /\ HistoryInv'
  BY <1>1, <1>2, <1>4, <1>7, <1>8 DEF DialogsInv, HistoryInv
<1> QED BY <1>3, <1>9 DEF TablesInv

LEMMA LoadingKeepsTables ==
    ASSUME TablesInv, OpenUsers \/ OpenGrants \/ Search \/ LoadGrants
    PROVE  TablesInv'
<1>1. HistoryInv /\ DialogsInv /\ RequestsInv /\ UNCHANGED <<granted, toldOf>>
  BY DEF TablesInv, OpenUsers, OpenGrants, Search, LoadGrants
<1>2. RequestsInv' /\ (page'.tab = page.tab \/ OpenUsers \/ OpenGrants)
  BY <1>1, LoadsKeepTables DEF Search, RequestsInv, PageState
<1>3. \A u : Owned(u)' = Owned(u)
  BY <1>1 DEF Owned
<1>4. CASE OpenUsers \/ OpenGrants
  <2>1. asked' = {[a EXCEPT !.keyword = NotListed] : a \in asked}
    BY <1>4 DEF OpenUsers, OpenGrants, Unmounted
  <2>2. \A b \in asked' : \E a \in asked : b = [a EXCEPT !.keyword = NotListed]
    BY <2>1
  <2>3. asked \subseteq AskedRow /\ \A a, b \in asked : a = b
    BY <1>1 DEF DialogsInv
  <2>4. \A b \in asked' : \E a \in asked : /\ b \in AskedRow /\ b.pc = a.pc /\ b.user = a.user
                                           /\ b.keyword = NotListed
    BY <2>2, <2>3 DEF AskedRow
  <2>5. \A a, b \in asked' : a = b
    BY <2>2, <2>3
  <2>6. DialogsInv'
    BY <1>1, <1>3, <2>4, <2>5 DEF DialogsInv
  <2> QED BY <1>1, <1>2, <2>6 DEF TablesInv, HistoryInv
<1>5. CASE ~(OpenUsers \/ OpenGrants)
  <2>1. UNCHANGED asked /\ page'.tab = page.tab
    BY <1>2, <1>5 DEF Search, LoadGrants
  <2>2. DialogsInv'
    BY <1>1, <1>3, <2>1 DEF DialogsInv
  <2> QED BY <1>1, <1>2, <2>2 DEF TablesInv, HistoryInv
<1> QED BY <1>4, <1>5

LEMMA NoticesKeepTables ==
    ASSUME TablesInv, NoticeMoves
    PROVE  TablesInv'
<1>1. HistoryInv /\ DialogsInv /\ RequestsInv /\ UNCHANGED <<page, list, asked, toldOf>>
  BY DEF TablesInv, NoticeMoves
<1>2. PICK i \in DOMAIN granted : \E state \in NoticeStates :
            granted' = [granted EXCEPT ![i].notice = state]
  BY DEF NoticeMoves, NoticeStates
<1>3. PICK state \in NoticeStates : granted' = [granted EXCEPT ![i].notice = state]
  BY <1>2
<1>4. PICK g : g = [granted[i] EXCEPT !.notice = state]
  OBVIOUS
<1>5. /\ g \in GrantRows /\ g.user = granted[i].user /\ g.id = granted[i].id
  <2>1. granted[i] \in GrantRows
    BY <1>1 DEF HistoryInv
  <2> QED BY <1>3, <1>4, <2>1 DEF GrantRows
<1>6. granted' = [granted EXCEPT ![i] = g]
  BY <1>3, <1>4
<1>7. /\ granted' \in Seq(GrantRows) /\ Len(granted') = Len(granted)
      /\ DOMAIN granted' = DOMAIN granted
      /\ \A j \in DOMAIN granted : granted'[j] = IF j = i THEN g ELSE granted[j]
  BY <1>1, <1>5, <1>6 DEF HistoryInv
<1>8. HistoryInv'
  BY <1>1, <1>5, <1>7 DEF HistoryInv
<1>9. \A u : Owned(u)' = Owned(u)
  BY <1>5, <1>7 DEF Owned
<1>10. DialogsInv'
  BY <1>1, <1>7, <1>9 DEF DialogsInv
<1>11. RequestsInv'
  BY <1>1, RequestsStay, TableConstants
<1> QED BY <1>8, <1>10, <1>11 DEF TablesInv

LEMMA TablesInitial == TablesInit => TablesInv
<1> SUFFICES ASSUME TablesInit PROVE TablesInv
  OBVIOUS
<1>1. /\ Clients \in Keywords /\ 0 \in 0..MaxRewards /\ MaxRewards \in Nat /\ 1 \in Lists
      /\ [u \in Clients |-> 0] \in Counted
  BY TableConstants DEF Counted, Lists
<1>2. granted = <<>> /\ Len(granted) = 0 /\ DOMAIN granted = {} /\ asked = {}
  BY DEF TablesInit
<1>3. HistoryInv
  BY <1>1, <1>2 DEF HistoryInv
<1>4. \A u : Owned(u) = {}
  BY <1>2 DEF Owned
<1>5. \A u : Cardinality(Owned(u)) = 0
  BY <1>4, FS_EmptySet
<1>6. toldOf \in Counted /\ \A u \in Clients : toldOf[u] = 0
  BY <1>1 DEF TablesInit
<1>7. DialogsInv
  BY <1>2, <1>5, <1>6 DEF DialogsInv
<1>8. PICK m \in PageState : m = Mounted("users") /\ m.tab = "users"
  BY MountedPage
<1>9. page = [m EXCEPT !.loading = TRUE, !.last = Clients]
  BY <1>8 DEF TablesInit
<1>10. page \in PageState /\ page.tab = "users" /\ page.last = Clients
  BY <1>1, <1>8, <1>9 DEF PageState
<1>11. PICK r : r = [NoList EXCEPT !.pc = "users", !.keyword = Clients]
  OBVIOUS
<1>12. /\ r \in ListRow /\ r.pc = "users" /\ r.keyword = Clients
       /\ NoList \in ListRow /\ NoList.pc = "none"
  BY <1>1, <1>11 DEF NoList, ListRow
<1>13. list = [l \in Lists |-> IF l = 1 THEN r ELSE NoList]
  BY <1>11 DEF TablesInit
<1>14. list \in [Lists -> ListRow] /\ Waiting \subseteq {1} /\ \A l \in Waiting : list[l] = r
  BY <1>12, <1>13 DEF Waiting
<1>15. Fresh(r) /\ r.pc \in Kinds(page.tab)
  BY <1>10, <1>12 DEF Fresh, Kinds
<1>16. Waiting # {}
  BY <1>1, <1>12, <1>13 DEF Waiting
<1> QED BY <1>3, <1>7, <1>10, <1>14, <1>15, <1>16 DEF TablesInv, RequestsInv

LEMMA TablesInductive == TablesInv /\ [TablesNext]_tableVars => TablesInv'
<1> SUFFICES ASSUME TablesInv, [TablesNext]_tableVars PROVE TablesInv'
  OBVIOUS
<1>1. CASE UNCHANGED tableVars
  <2>1. UNCHANGED <<granted, page, list, asked, toldOf>>
    BY <1>1 DEF tableVars
  <2>2. \A u : Owned(u)' = Owned(u)
    BY <2>1 DEF Owned
  <2>3. HistoryInv' /\ DialogsInv'
    BY <2>1, <2>2 DEF TablesInv, HistoryInv, DialogsInv
  <2>4. RequestsInv'
    BY <2>1, RequestsStay, TableConstants DEF TablesInv
  <2> QED BY <2>3, <2>4 DEF TablesInv
<1>2. ASSUME UNCHANGED <<granted, asked, toldOf>>, RequestsInv', page'.tab = page.tab
      PROVE  TablesInv'
  <2>1. \A u : Owned(u)' = Owned(u)
    BY <1>2 DEF Owned
  <2> QED BY <1>2, <2>1 DEF TablesInv, HistoryInv, DialogsInv
<1>3. CASE OpenUsers \/ OpenGrants \/ Search \/ LoadGrants
  BY <1>3, LoadingKeepsTables
<1>4. ASSUME NEW keyword \in Keywords, KeywordChange(keyword) PROVE TablesInv'
  <2>1. RequestsInv' /\ page'.tab = page.tab
    BY <1>4, RequestsStay DEF KeywordChange, TablesInv
  <2> QED BY <1>2, <1>4, <2>1 DEF KeywordChange
<1>5. ASSUME NEW l \in Lists, FindUsers(l) \/ CountBalances(l) \/ GetTicketGrants(l) PROVE TablesInv'
  <2>1. UNCHANGED <<granted, page, asked, toldOf>>
    BY <1>5 DEF FindUsers, CountBalances, GetTicketGrants
  <2> QED BY <1>2, <1>5, <2>1, ReadsKeepTables
<1>6. ASSUME NEW l \in Lists, ListArrives(l) \/ ListFails(l) PROVE TablesInv'
  <2>1. UNCHANGED <<granted, asked, toldOf>>
    BY <1>6 DEF ListArrives, ListFails
  <2> QED BY <1>2, <1>6, <2>1, AnswersKeepTables
<1>7. ASSUME NEW u \in Clients, GrantFromTable(u) PROVE TablesInv'
  <2>1. PICK a : a = [user |-> u, keyword |-> page.keyword, pc |-> "chosen"]
    OBVIOUS
  <2>2. /\ asked' = {a} /\ Len(granted) < MaxRewards /\ UNCHANGED <<granted, page, list, toldOf>>
        /\ page.tab = "users"
    BY <1>7, <2>1 DEF GrantFromTable, UserTable
  <2>3. a \in AskedRow /\ a.pc = "chosen"
    BY <2>1 DEF AskedRow, TablesInv, RequestsInv, PageState
  <2>4. \A w : Owned(w)' = Owned(w)
    BY <2>2 DEF Owned
  <2>5. DialogsInv' /\ HistoryInv'
    BY <2>2, <2>3, <2>4 DEF TablesInv, DialogsInv, HistoryInv
  <2>6. RequestsInv'
    BY <2>2, RequestsStay, TableConstants DEF TablesInv
  <2> QED BY <2>5, <2>6 DEF TablesInv
<1>8. ASSUME NEW a \in asked,
             SubmitGrant(a) \/ GiveReward(a) \/ HandleEventGrantSuccess(a) \/ GrantIsLost(a)
      PROVE  TablesInv'
  BY <1>8, DialogsKeepTables, AnnouncementKeepsTables
<1>9. CASE NoticeMoves
  BY <1>9, NoticesKeepTables
<1> QED BY <1>1, <1>3, <1>4, <1>5, <1>6, <1>7, <1>8, <1>9 DEF TablesNext

LEMMA TablesInvariant == TablesSpec => []TablesInv
BY TablesInitial, TablesInductive, PTL DEF TablesSpec

\* The grants, the page and its requests keep their types.
THEOREM TablesAreWellFormed == TablesSpec => []TablesTypeOK
<1>1. ASSUME TablesInv PROVE TablesTypeOK
  <2>1. HistoryInv /\ DialogsInv /\ RequestsInv
    BY <1>1 DEF TablesInv
  <2>2. \A i \in DOMAIN granted : granted[i] \in GrantRows /\ granted[i].id = i
    BY <2>1 DEF HistoryInv
  <2> QED BY <2>1, <2>2 DEF DialogsInv, RequestsInv, PageState, ListRow, AskedRow, TablesTypeOK
<1> QED BY <1>1, TablesInvariant, PTL

\* With no request under way a table shows what was asked for last, and no fewer rewards than
\* the page has announced, unless requests for it overlapped or the last one failed.
THEOREM ShownTableIsCurrent == TablesSpec => []TableIsCurrent
<1>1. ASSUME TablesInv, Waiting = {}, page.loading PROVE HistoryFailed
  BY <1>1 DEF TablesInv, RequestsInv
<1>2. ASSUME TablesInv, Waiting = {}, page.last # NotListed, ~page.crossed PROVE Shown
  BY <1>2 DEF TablesInv, RequestsInv
<1>3. ASSUME TablesInv, NEW g \in page.grants
      PROVE  Cardinality({f \in NoticeFilters : g \in FilteredGrants(f)}) = 1
  <2>1. g \in GrantRows
    BY <1>3 DEF TablesInv, RequestsInv, PageState
  <2>2. {f \in NoticeFilters : g \in FilteredGrants(f)} = {g.notice}
    BY <1>3, <2>1 DEF FilteredGrants, NoticeFilters, NoticeStates, GrantRows
  <2> QED BY <2>2, FS_Singleton
<1>4. TablesInv => TableIsCurrent
  BY <1>1, <1>2, <1>3 DEF TableIsCurrent, HistoryFailed, Shown, Covers
<1> QED BY <1>4, TablesInvariant, PTL

-------------------------------------------------------------------------------
(* The smoke script: an operation that comes for one experience comes after *)
(* the one that creates them, so once a creation is answered only its id is *)
(* filled in, and nothing else had been renamed or deleted before.         *)

Verbs == {"GET", "POST", "PATCH", "DELETE"}
InternalPaths == {"health", "search", "insight", "portfolio", "correction", "status",
                  "company-insight", "result", "rag-data"}
Operations ==
    [method : Verbs, path : STRING \cup InternalPaths, param : STRING \cup {"none"},
     content : STRING \cup {"none", "json"}]
ResultRows ==
    {Result(TRUE, 0, FALSE), Result(FALSE, 0, TRUE)}
        \cup {Result(FALSE, s, FALSE) : s \in Answers \cup {200}}

SmokeShape ==
    /\ args \in SmokeArgs
    /\ smoke \in [pc : {"document", "preflight", "select", "call"} \cup Ends,
                  ops : Seq(Operations), ctx : [Params -> OldIds \cup {NewId, NoId}],
                  results : Seq(ResultRows)]
    /\ api \in [alive : SUBSET (OldIds \cup {NewId}), before : SUBSET OldIds,
                changed : SUBSET (OldIds \cup {NewId}), called : SUBSET Nat]

\* What is selected: writes with --mutate, one experience after the creation of experiences.
Selection(ops) ==
    \A i \in DOMAIN ops :
        /\ ops[i].method # "GET" => args.mutate
        /\ ops[i].path \in {"experience", "experiences"} => ~args.internal
        /\ ops[i].path = "experience" =>
              /\ ops[i].param = "experienceId"
              /\ \A j \in DOMAIN ops : ops[j].path = "experiences" => j < i

Progress ==
    /\ smoke.pc \in {"document", "preflight", "select"} => smoke.results = <<>>
    /\ smoke.pc = "select" => args.internal
    /\ smoke.pc = "document" => ~args.internal
    /\ Len(smoke.results) <= Len(smoke.ops)
    /\ smoke.pc = "reported" => Len(smoke.results) = Len(smoke.ops)
    /\ api.called = {i \in DOMAIN smoke.results : ~smoke.results[i].skipped}

ChangeInv ==
    /\ ~args.mutate => api.changed = {}
    /\ \/ api.changed \subseteq {NewId}
       \/ \E i \in api.called : smoke.ops[i].path = "experience"
    /\ MadeItsOwn => smoke.ctx["experienceId"] = NewId /\ api.changed \subseteq {NewId}

SmokeInv == SmokeShape /\ Selection(smoke.ops) /\ Progress /\ ChangeInv

\* A run that has not called anything has no results and has changed nothing.
LEMMA SmokeInvInit == SmokeInit => SmokeInv
<1> SUFFICES ASSUME SmokeInit PROVE SmokeInv
  OBVIOUS
<1> USE SmokeConstants DEF SmokeInit
<1>1. /\ FirstStep(args) \in {"document", "preflight", "select", "call"} \cup Ends
      /\ FirstStep(args) \notin {"call", "reported"}
      /\ FirstStep(args) = "select" => args.internal
      /\ FirstStep(args) = "document" => ~args.internal
  BY DEF FirstStep, Ends
<1>2. smoke = [pc |-> FirstStep(args), ops |-> <<>>, ctx |-> [p \in Params |-> NoId],
                results |-> <<>>]
  OBVIOUS
<1>3. PICK alive \in SUBSET OldIds : api = [alive |-> alive, before |-> alive,
                                           changed |-> {}, called |-> {}]
  OBVIOUS
<1>4. SmokeShape
  <2>1. [p \in Params |-> NoId] \in [Params -> OldIds \cup {NewId, NoId}]
    OBVIOUS
  <2> QED BY <1>1, <1>2, <1>3, <2>1 DEF SmokeShape
<1>5. Len(smoke.results) = 0 /\ Len(smoke.ops) = 0 /\ DOMAIN smoke.results = {} /\ DOMAIN smoke.ops = {}
  BY <1>2
<1> QED BY <1>1, <1>2, <1>3, <1>4, <1>5 DEF SmokeInv, Selection, Progress, ChangeInv, MadeItsOwn

\* The places of a list are finitely many.
LEMMA IntervalsAreFinite == \A n \in Nat : IsFiniteSet(1..n)
BY FS_Interval

OtherEndpoints == {e \in Operations : e.path \notin {"experience", "experiences"}}

\* No endpoint of the internal list is about experiences.
LEMMA InternalEndpointsAreOther == InternalEndpoints \in Seq(OtherEndpoints)
<1>1. \A m \in Verbs, p \in InternalPaths : Endpoint(m, p) \in OtherEndpoints
  BY DEF Endpoint, OtherEndpoints, Operations, InternalPaths
<1> QED BY <1>1 DEF InternalEndpoints, Verbs, InternalPaths

\* The internal mode selects no operation on experiences, and writes only with --mutate.
LEMMA InternalSelection ==
    ASSUME args.internal, NEW ops \in InternalOperations
    PROVE  ops \in Seq(Operations) /\ Selection(ops)
<1> DEFINE slots == {i \in DOMAIN InternalEndpoints :
                        /\ InternalEndpoints[i].method # "GET" => args.mutate
                        /\ InternalEndpoints[i].path \in args.only}
<1>1. PICK last \in Nat : DOMAIN InternalEndpoints = 1..last
  BY InternalEndpointsAreOther
<1>2. \A i \in DOMAIN InternalEndpoints :
        /\ InternalEndpoints[i] \in Operations
        /\ InternalEndpoints[i].path \notin {"experience", "experiences"}
  BY InternalEndpointsAreOther DEF OtherEndpoints
<1>3. Cardinality(slots) \in Nat
  <2>1. IsFiniteSet(1..last)
    BY IntervalsAreFinite
  <2>2. IsFiniteSet(slots)
    BY <1>1, <2>1, FS_Subset
  <2> QED BY <2>2, FS_CardinalityType
<1>4. PICK places \in [1..Cardinality(slots) -> slots] :
        ops = [n \in DOMAIN places |-> InternalEndpoints[places[n]]]
  BY DEF InternalOperations, InOrder
<1>5. DOMAIN ops = 1..Cardinality(slots)
  BY <1>4
<1>6. \A n \in DOMAIN ops :
        /\ places[n] \in slots
        /\ ops[n] = InternalEndpoints[places[n]]
  BY <1>4
<1>7. ASSUME NEW n \in DOMAIN ops
      PROVE  /\ ops[n] \in Operations
             /\ ops[n].method # "GET" => args.mutate
             /\ ops[n].path \notin {"experience", "experiences"}
  BY <1>1, <1>2, <1>6
<1> HIDE DEF slots
<1>8. ops \in Seq(Operations)
  BY <1>3, <1>4, <1>5, <1>7, IsASeq
<1> QED BY <1>7, <1>8 DEF Selection

\* Without --mutate only reads are looked for.
LEMMA MethodsAreVerbs ==
    /\ Methods \in Seq(Verbs)
    /\ \A k \in DOMAIN Methods : Methods[k] # "GET" => args.mutate
<1>1. CASE args.mutate
  <2>1. Methods = <<"GET", "POST", "PATCH", "DELETE">>
    BY <1>1 DEF Methods
  <2> QED BY <1>1, <2>1 DEF Verbs
<1>2. CASE ~args.mutate
  <2>1. Methods = <<"GET">>
    BY <1>2 DEF Methods
  <2> QED BY <2>1 DEF Verbs
<1> QED BY <1>1, <1>2

\* The operations of the document come in its order: those of one experience after the
\* one that creates experiences.
LEMMA DocumentSelection ==
    ASSUME args \in SmokeArgs, ~args.internal, NEW ops \in DocumentOperations
    PROVE  ops \in Seq(Operations) /\ Selection(ops)
<1> DEFINE slots == {at \in (DOMAIN Document) \X (DOMAIN Methods) :
                        /\ Methods[at[2]] \in Document[at[1]].methods
                        /\ Document[at[1]].path \in args.only}
           Before(a, b) == a[1] < b[1] \/ (a[1] = b[1] /\ a[2] < b[2])
<1>1. PICK items \in Nat : DOMAIN Document = 1..items
  <2>1. Len(Document) \in Nat /\ DOMAIN Document = 1..Len(Document)
    BY DocumentOrder
  <2> QED BY <2>1
<1>2. PICK count \in Nat : DOMAIN Methods = 1..count
  BY MethodsAreVerbs
<1>3. \A k \in DOMAIN Methods : Methods[k] \in Verbs /\ (Methods[k] # "GET" => args.mutate)
  BY MethodsAreVerbs
<1>4. \A i \in DOMAIN Document :
        Document[i] \in [path : STRING, methods : SUBSET STRING, param : STRING, content : STRING]
  <2> DEFINE Item == [path : STRING, methods : SUBSET STRING, param : STRING, content : STRING]
  <2>1. Document \in Seq(Item)
    BY DocumentOrder
  <2> HIDE DEF Item
  <2>2. \A i \in DOMAIN Document : Document[i] \in Item
    BY <2>1
  <2> QED BY <2>2 DEF Item
<1>5. Cardinality(slots) \in Nat
  <2>1. IsFiniteSet((1..items) \X (1..count))
    BY IntervalsAreFinite, FS_Product
  <2>2. slots \subseteq (1..items) \X (1..count)
    BY <1>1, <1>2
  <2>3. IsFiniteSet(slots)
    BY <2>1, <2>2, FS_Subset
  <2> QED BY <2>3, FS_CardinalityType
<1>6. PICK places \in [1..Cardinality(slots) -> slots] :
        /\ \A m, n \in DOMAIN places : m < n => Before(places[m], places[n])
        /\ ops = [n \in DOMAIN places |-> Entry(Document[places[n][1]], Methods[places[n][2]])]
  BY DEF DocumentOperations, InOrder
<1>7. DOMAIN ops = 1..Cardinality(slots) /\ DOMAIN places = 1..Cardinality(slots)
  BY <1>6
<1> HIDE DEF slots
<1>8. ASSUME NEW n \in DOMAIN ops
      PROVE  /\ places[n][1] \in DOMAIN Document /\ places[n][2] \in DOMAIN Methods
             /\ ops[n] = Entry(Document[places[n][1]], Methods[places[n][2]])
  <2>1. places[n] \in slots
    BY <1>6, <1>7
  <2>2. places[n] \in (DOMAIN Document) \X (DOMAIN Methods)
    BY <2>1 DEF slots
  <2> QED BY <1>6, <1>7, <2>2
<1>9. ASSUME NEW n \in DOMAIN ops
      PROVE  /\ ops[n] \in Operations
             /\ ops[n].method # "GET" => args.mutate
             /\ ops[n].path = Document[places[n][1]].path
             /\ ops[n].param = Document[places[n][1]].param
  BY <1>3, <1>4, <1>8 DEF Entry, Operations
<1>10. ASSUME NEW n \in DOMAIN ops, ops[n].path = "experience"
       PROVE  /\ ops[n].param = "experienceId"
              /\ \A m \in DOMAIN ops : ops[m].path = "experiences" => m < n
  <2>1. Document[places[n][1]].path = "experience"
    BY <1>9, <1>10
  <2>2. ops[n].param = "experienceId"
    BY <1>8, <1>9, <2>1, DocumentOrder
  <2>3. ASSUME NEW m \in DOMAIN ops, ops[m].path = "experiences"
        PROVE  m < n
    <3>1. Document[places[m][1]].path = "experiences"
      BY <1>9, <2>3
    <3>2. places[m][1] < places[n][1]
      BY <1>8, <2>1, <3>1, DocumentOrder
    <3>3. places[m][1] \in Nat /\ places[n][1] \in Nat
      BY <1>1, <1>8
    <3>4. ~(n < m)
      <4>1. SUFFICES ASSUME n < m PROVE FALSE
        OBVIOUS
      <4>2. Before(places[n], places[m])
        BY <1>6, <1>7, <4>1
      <4> QED BY <3>2, <3>3, <4>2
    <3>5. m # n
      BY <2>1, <3>1
    <3>6. m \in Nat /\ n \in Nat
      BY <1>5, <1>7
    <3> QED BY <3>4, <3>5, <3>6
  <2> QED BY <2>2, <2>3
<1>11. ops \in Seq(Operations)
  BY <1>5, <1>6, <1>7, <1>9
<1> QED BY <1>9, <1>10, <1>11 DEF Selection

-------------------------------------------------------------------------------
\* What the API can have answered, and what is written for it.
MayAnswer(s, l) == (l = TRUE /\ s = 0) \/ (l = FALSE /\ s \in Answers \cup {200})
Outcome(s, l) == Result(FALSE, s, l)
Recorded(row, s, l) ==
    /\ row \in ResultRows
    /\ row.skipped = FALSE
    /\ row.class = "implemented" => l = FALSE /\ s = 200

LEMMA AnswersAreResults ==
    ASSUME NEW s, NEW l, MayAnswer(s, l) PROVE Recorded(Outcome(s, l), s, l)
<1> USE DEF Outcome, Recorded
<1>1. CASE l = TRUE /\ s = 0
  BY <1>1 DEF Result, ResultRows, Classify
<1>2. CASE l = FALSE /\ s \in Answers \cup {200}
  <2>1. Result(FALSE, s, FALSE) \in ResultRows
    BY <1>2 DEF ResultRows
  <2>2. s \in {200, 302} \cup ErrorStatuses
    BY <1>2, SmokeConstants
  <2>3. Classify(s, FALSE) = "implemented" => s = 200
    BY <2>2 DEF Classify, ErrorStatuses
  <2>4. /\ Result(FALSE, s, FALSE).class = Classify(s, FALSE)
        /\ Result(FALSE, s, FALSE).skipped = FALSE
    BY DEF Result
  <2> QED BY <1>2, <2>1, <2>3, <2>4
<1> QED BY <1>1, <1>2 DEF MayAnswer

\* A result is written in the place of its operation and leaves the earlier ones.
LEMMA OneMoreResult ==
    ASSUME smoke.results \in Seq(ResultRows), NEW row \in ResultRows,
           smoke'.results = Append(smoke.results, row)
    PROVE  /\ smoke'.results \in Seq(ResultRows)
           /\ Len(smoke'.results) = Position
           /\ DOMAIN smoke'.results = DOMAIN smoke.results \cup {Position}
           /\ Position \notin DOMAIN smoke.results
           /\ \A i \in DOMAIN smoke.results : smoke'.results[i] = smoke.results[i]
           /\ smoke'.results[Position] = row
BY DEF Position

\* A skipped operation leaves everything but the results.
LEMMA SkipKeeps == ASSUME SmokeInv, SkipOperation PROVE SmokeInv'
<1>1. /\ smoke' = [smoke EXCEPT !.results = Append(@, Result(TRUE, 0, FALSE))]
      /\ UNCHANGED <<args, api>>
      /\ smoke.pc = "call" /\ Position <= Len(smoke.ops)
  BY DEF SkipOperation, Calling
<1>2. Result(TRUE, 0, FALSE) \in ResultRows /\ Result(TRUE, 0, FALSE).skipped
      /\ Result(TRUE, 0, FALSE).class # "implemented"
  BY DEF ResultRows, Result
<1>3. smoke.results \in Seq(ResultRows) /\ smoke.ops \in Seq(Operations)
  BY DEF SmokeInv, SmokeShape
<1>4. /\ smoke'.results = Append(smoke.results, Result(TRUE, 0, FALSE))
      /\ smoke'.results \in Seq(ResultRows)
      /\ DOMAIN smoke'.results = DOMAIN smoke.results \cup {Position}
      /\ Len(smoke'.results) = Position
      /\ \A i \in DOMAIN smoke.results : smoke'.results[i] = smoke.results[i]
      /\ smoke'.results[Position] = Result(TRUE, 0, FALSE)
      /\ Position \notin DOMAIN smoke.results
  <2>1. smoke'.results = Append(smoke.results, Result(TRUE, 0, FALSE))
    BY <1>1 DEF SmokeInv, SmokeShape
  <2> QED BY <1>2, <1>3, <2>1, OneMoreResult
<1>5. smoke'.pc = smoke.pc /\ smoke'.ops = smoke.ops /\ smoke'.ctx = smoke.ctx
  BY <1>1 DEF SmokeInv, SmokeShape
<1>6. SmokeShape'
  BY <1>1, <1>4 DEF SmokeInv, SmokeShape
<1>7. Selection(smoke.ops)'
  BY <1>1, <1>5 DEF SmokeInv, Selection
<1>8. Progress'
  <2>1. api.called = {i \in DOMAIN smoke.results : ~smoke.results[i].skipped}
    BY DEF SmokeInv, Progress
  <2>2. smoke'.results[Position].skipped
    BY <1>2, <1>4
  <2>3. {i \in DOMAIN smoke.results \cup {Position} : ~smoke'.results[i].skipped}
          = {i \in DOMAIN smoke.results : ~smoke.results[i].skipped}
    BY <1>4, <2>2
  <2>4. api'.called = {i \in DOMAIN smoke'.results : ~smoke'.results[i].skipped}
    BY <1>1, <1>4, <2>1, <2>3
  <2> QED BY <1>1, <1>4, <1>5, <2>4 DEF SmokeInv, Progress
<1>9. MadeItsOwn' => MadeItsOwn
  BY <1>2, <1>4, <1>5 DEF MadeItsOwn
<1>10. ChangeInv'
  BY <1>1, <1>5, <1>9 DEF SmokeInv, ChangeInv
<1> QED BY <1>6, <1>7, <1>8, <1>10 DEF SmokeInv

\* What a call is made for: the id known of an experience, which is the one the run has
\* made if it has made one.
LEMMA TargetIsKnown ==
    ASSUME SmokeInv, NEW op, op.path = "experience" => op.param = "experienceId"
    PROVE  op.path = "experience" =>
             /\ Target(op) \in OldIds \cup {NewId}
             /\ MadeItsOwn => Target(op) = NewId
<1>1. smoke.ctx["experienceId"] \in OldIds \cup {NewId, NoId}
  BY DEF SmokeInv, SmokeShape, Params
<1> QED BY <1>1, SmokeConstants DEF SmokeInv, ChangeInv, Target, FillPathParam, DummyId

\* What is captured is the id of what was created.
LEMMA CapturedIsKnown ==
    ASSUME SmokeInv, NEW op, NEW answer \in FetchJson(op)
    PROVE  /\ CaptureId(op, answer) \in [Params -> OldIds \cup {NewId, NoId}]
           /\ CaptureId(op, answer)["experienceId"] \in {NewId, smoke.ctx["experienceId"]}
           /\ (~answer.lost /\ answer.status = 200 /\ op.method = "POST" /\ ~args.internal
                  /\ op.path = "experiences") => CaptureId(op, answer)["experienceId"] = NewId
<1>1. smoke.ctx \in [Params -> OldIds \cup {NewId, NoId}] /\ "experienceId" \in Params
  BY DEF SmokeInv, SmokeShape, Params
<1>2. CASE ~answer.lost /\ answer.status = 200 /\ op.method = "POST" /\ ~args.internal
              /\ op.path = "experiences"
  <2>1. CaptureId(op, answer) = [smoke.ctx EXCEPT !["experienceId"] = NewId]
    BY <1>2 DEF CaptureId
  <2> QED BY <1>1, <2>1
<1>3. CASE /\ ~answer.lost /\ answer.status = 200 /\ op.method = "POST" /\ ~args.internal
           /\ op.path = "payments"
  <2>1. CaptureId(op, answer) = [smoke.ctx EXCEPT !["paymentId"] = NewId]
    BY <1>3 DEF CaptureId
  <2>2. CaptureId(op, answer)["experienceId"] = smoke.ctx["experienceId"]
    BY <1>1, <2>1
  <2>3. CaptureId(op, answer) \in [Params -> OldIds \cup {NewId, NoId}]
    BY <1>1, <2>1
  <2> QED BY <1>3, <2>2, <2>3
<1>4. CASE ~(~answer.lost /\ answer.status = 200 /\ op.method = "POST" /\ ~args.internal
              /\ op.path \in {"experiences", "payments"})
  <2>1. CaptureId(op, answer) = smoke.ctx
    BY <1>4 DEF CaptureId
  <2> QED BY <1>1, <1>4, <2>1
<1> QED BY <1>2, <1>3, <1>4

\* A call changes the experience it is made for, if it writes to experiences.
LEMMA ApiChanges ==
    ASSUME SmokeInv, Position \in DOMAIN smoke.ops, NEW answer \in FetchJson(Operation),
           api' = ApiAfter(Operation, answer)
    PROVE  /\ api' \in [alive : SUBSET (OldIds \cup {NewId}), before : SUBSET OldIds,
                        changed : SUBSET (OldIds \cup {NewId}), called : SUBSET Nat]
           /\ api'.called = api.called \cup {Position}
           /\ ~args.mutate => api'.changed = api.changed
           /\ Operation.path # "experience" => api'.changed \subseteq api.changed \cup {NewId}
           /\ MadeItsOwn => api'.changed \subseteq api.changed \cup {NewId}
<1> DEFINE op == Operation
           writes == answer.done /\ op.method # "GET" /\ op.path \in {"experiences", "experience"}
           id == IF op.path = "experiences" THEN NewId ELSE Target(op)
<1>1. /\ op.method # "GET" => args.mutate
      /\ op.path = "experience" => op.param = "experienceId"
  BY DEF SmokeInv, Selection, Operation
<1>2. op.path = "experience" => /\ Target(op) \in OldIds \cup {NewId}
                                /\ MadeItsOwn => Target(op) = NewId
  BY <1>1, TargetIsKnown
<1>3. /\ writes => id \in OldIds \cup {NewId}
      /\ writes /\ op.path # "experience" => id = NewId
      /\ writes /\ MadeItsOwn => id = NewId
  BY <1>2
<1>4. /\ api'.before = api.before
      /\ api'.called = api.called \cup {Position}
      /\ api'.changed = IF writes THEN api.changed \cup {id} ELSE api.changed
      /\ api'.alive \in {api.alive, api.alive \cup {NewId}, api.alive \ {id}}
      /\ api' = [alive |-> api'.alive, before |-> api'.before, changed |-> api'.changed,
                 called |-> api'.called]
  BY DEF SmokeInv, SmokeShape, ApiAfter
<1>5. api \in [alive : SUBSET (OldIds \cup {NewId}), before : SUBSET OldIds,
               changed : SUBSET (OldIds \cup {NewId}), called : SUBSET Nat]
  BY DEF SmokeInv, SmokeShape
<1>6. Position \in Nat
  BY DEF SmokeInv, SmokeShape, Position
<1> HIDE DEF writes, id, op
<1>7. api' \in [alive : SUBSET (OldIds \cup {NewId}), before : SUBSET OldIds,
                changed : SUBSET (OldIds \cup {NewId}), called : SUBSET Nat]
  <2>1. api'.alive \in SUBSET (OldIds \cup {NewId})
    BY <1>4, <1>5
  <2>2. api'.changed \in SUBSET (OldIds \cup {NewId})
    BY <1>3, <1>4, <1>5
  <2>3. api'.before \in SUBSET OldIds /\ api'.called \in SUBSET Nat
    BY <1>4, <1>5, <1>6
  <2> QED BY <1>4, <2>1, <2>2, <2>3
<1>8. ~args.mutate => ~writes
  BY <1>1 DEF writes
<1> QED BY <1>3, <1>4, <1>7, <1>8 DEF op

\* A call: the one that makes an experience comes before those that change one, and they
\* are made with its id.
LEMMA CallKeeps == ASSUME SmokeInv, CallOperation PROVE SmokeInv'
<1>1. PICK answer \in FetchJson(Operation) :
        /\ api' = ApiAfter(Operation, answer)
        /\ smoke' = [smoke EXCEPT !.ctx = CaptureId(Operation, answer),
                        !.results = Append(@, Result(FALSE, answer.status, answer.lost))]
  BY DEF CallOperation
<1>2. /\ smoke.pc = "call" /\ Position <= Len(smoke.ops)
      /\ UNCHANGED args
  BY DEF CallOperation, Calling
<1>21. PICK row, s, l :
         row = Outcome(s, l) /\ s = answer.status /\ l = answer.lost
  OBVIOUS
<1>22. MayAnswer(s, l)
  BY <1>21 DEF FetchJson, MayAnswer
<1>3. /\ row \in ResultRows
      /\ row.skipped = FALSE
      /\ row.class = "implemented" => l = FALSE /\ s = 200
  <2>1. Recorded(row, s, l)
    BY <1>21, <1>22, AnswersAreResults
  <2> QED BY <2>1 DEF Recorded
<1>4. smoke.results \in Seq(ResultRows) /\ smoke.ops \in Seq(Operations)
  BY DEF SmokeInv, SmokeShape
<1>5. Position \in DOMAIN smoke.ops
  BY <1>2, <1>4 DEF Position
<1>6. /\ smoke'.pc = smoke.pc /\ smoke'.ops = smoke.ops
      /\ smoke'.ctx = CaptureId(Operation, answer)
      /\ smoke'.results = Append(smoke.results, row)
      /\ smoke' = [pc |-> smoke.pc, ops |-> smoke.ops, ctx |-> smoke'.ctx,
                   results |-> smoke'.results]
  BY <1>1, <1>21 DEF SmokeInv, SmokeShape, Outcome
<1>7. /\ smoke'.results \in Seq(ResultRows)
      /\ Len(smoke'.results) = Position
      /\ DOMAIN smoke'.results = DOMAIN smoke.results \cup {Position}
      /\ Position \notin DOMAIN smoke.results
      /\ \A i \in DOMAIN smoke.results : smoke'.results[i] = smoke.results[i]
      /\ smoke'.results[Position] = row
  BY <1>3, <1>4, <1>6, OneMoreResult
<1>8. /\ smoke'.ctx \in [Params -> OldIds \cup {NewId, NoId}]
      /\ smoke'.ctx["experienceId"] \in {NewId, smoke.ctx["experienceId"]}
      /\ (~answer.lost /\ answer.status = 200 /\ Operation.method = "POST" /\ ~args.internal
             /\ Operation.path = "experiences") => smoke'.ctx["experienceId"] = NewId
  BY <1>6, CapturedIsKnown
<1>9. /\ api' \in [alive : SUBSET (OldIds \cup {NewId}), before : SUBSET OldIds,
                   changed : SUBSET (OldIds \cup {NewId}), called : SUBSET Nat]
      /\ api'.called = api.called \cup {Position}
      /\ ~args.mutate => api'.changed = api.changed
      /\ Operation.path # "experience" => api'.changed \subseteq api.changed \cup {NewId}
      /\ MadeItsOwn => api'.changed \subseteq api.changed \cup {NewId}
  BY <1>1, <1>5, ApiChanges
<1>10. SmokeShape'
  BY <1>2, <1>6, <1>7, <1>8, <1>9 DEF SmokeInv, SmokeShape
<1>11. Selection(smoke.ops)'
  BY <1>2, <1>6 DEF SmokeInv, Selection
<1>12. Progress'
  <2>1. api'.called = {i \in DOMAIN smoke'.results : ~smoke'.results[i].skipped}
    BY <1>3, <1>7, <1>9 DEF SmokeInv, Progress
  <2> QED BY <1>2, <1>6, <1>7, <2>1 DEF SmokeInv, Progress
<1>13. ~args.mutate => api'.changed = {}
  BY <1>9 DEF SmokeInv, ChangeInv
<1>14. \/ api'.changed \subseteq {NewId}
       \/ \E i \in api'.called : smoke.ops[i].path = "experience"
  <2>1. CASE Operation.path = "experience"
    BY <1>9, <2>1 DEF Operation
  <2>2. CASE Operation.path # "experience"
    BY <1>9, <2>2 DEF SmokeInv, ChangeInv
  <2> QED BY <2>1, <2>2
<1>15. ASSUME MadeItsOwn'
       PROVE  smoke'.ctx["experienceId"] = NewId /\ api'.changed \subseteq {NewId}
  <2>1. CASE MadeItsOwn
    BY <1>8, <1>9, <2>1 DEF SmokeInv, ChangeInv
  <2>2. CASE ~MadeItsOwn
    <3>1. /\ Operation.method = "POST" /\ Operation.path = "experiences"
          /\ row.class = "implemented"
      BY <1>6, <1>7, <1>15, <2>2 DEF MadeItsOwn, Operation
    <3>2. ~args.internal
      BY <1>5, <3>1 DEF SmokeInv, Selection, Operation
    <3>3. api.changed \subseteq {NewId}
      <4>1. SUFFICES ASSUME NEW i \in api.called, smoke.ops[i].path = "experience"
                     PROVE  FALSE
        BY DEF SmokeInv, ChangeInv
      <4>2. i \in DOMAIN smoke.results
        BY DEF SmokeInv, Progress
      <4>3. i \in Nat /\ i < Position /\ Position \in Nat /\ i \in DOMAIN smoke.ops
        BY <1>2, <1>4, <4>2 DEF Position
      <4>4. Position < i
        BY <1>5, <3>1, <4>1, <4>3 DEF SmokeInv, Selection, Operation
      <4> QED BY <4>3, <4>4
    <3> QED BY <1>3, <1>8, <1>9, <1>21, <3>1, <3>2, <3>3
  <2> QED BY <2>1, <2>2
<1>16. ChangeInv'
  BY <1>2, <1>6, <1>13, <1>14, <1>15 DEF ChangeInv
<1> QED BY <1>10, <1>11, <1>12, <1>16 DEF SmokeInv

\* Before the first call there is no result, and nothing has changed.
LEMMA NothingCalled ==
    ASSUME SmokeInv, smoke.results = <<>>, UNCHANGED <<args, api>>,
           smoke'.results = <<>>, smoke'.pc \in {"failed", "preflight", "call"},
           smoke'.ops \in Seq(Operations), Selection(smoke'.ops)
    PROVE  Selection(smoke.ops)' /\ Progress' /\ ChangeInv'
<1>1. DOMAIN smoke.results = {} /\ Len(smoke.results) = 0 /\ Len(smoke'.ops) \in Nat
  OBVIOUS
<1>2. api.called = {} /\ api.changed \subseteq {NewId} /\ (~args.mutate => api.changed = {})
  BY <1>1 DEF SmokeInv, Progress, ChangeInv
<1>3. Progress'
  BY <1>1, <1>2 DEF Progress
<1>4. ChangeInv'
  BY <1>1, <1>2 DEF ChangeInv, MadeItsOwn
<1> QED BY <1>3, <1>4 DEF Selection

\* The internal mode has selected its operations.
LEMMA SelectInternalKeeps == ASSUME SmokeInv, SelectInternal PROVE SmokeInv'
<1>1. PICK ops \in InternalOperations : smoke' = [smoke EXCEPT !.pc = "call", !.ops = ops]
  BY DEF SelectInternal
<1>2. smoke.pc = "select" /\ UNCHANGED <<args, api>>
  BY DEF SelectInternal
<1>3. ops \in Seq(Operations) /\ Selection(ops)
  BY <1>2, InternalSelection DEF SmokeInv, Progress
<1>4. /\ smoke'.pc = "call" /\ smoke'.ops = ops /\ smoke'.results = <<>>
      /\ smoke' \in [pc : {"document", "preflight", "select", "call"} \cup Ends,
                     ops : Seq(Operations), ctx : [Params -> OldIds \cup {NewId, NoId}],
                     results : Seq(ResultRows)]
  BY <1>1, <1>2, <1>3 DEF SmokeInv, SmokeShape, Progress
<1>5. smoke.results = <<>>
  BY <1>2 DEF SmokeInv, Progress
<1>6. Selection(smoke.ops)' /\ Progress' /\ ChangeInv'
  BY <1>2, <1>3, <1>4, <1>5, NothingCalled
<1>7. SmokeShape'
  BY <1>2, <1>4 DEF SmokeInv, SmokeShape
<1> QED BY <1>6, <1>7 DEF SmokeInv

\* The document has been read, or not.
LEMMA FetchDocumentKeeps == ASSUME SmokeInv, FetchDocument PROVE SmokeInv'
<1>1. smoke.pc = "document" /\ UNCHANGED <<args, api>>
  BY DEF FetchDocument
<1>2. /\ smoke.results = <<>> /\ ~args.internal /\ args \in SmokeArgs
      /\ smoke.ops \in Seq(Operations) /\ Selection(smoke.ops)
  BY <1>1 DEF SmokeInv, SmokeShape, Progress
<1>3. PICK ops \in {smoke.ops} \cup DocumentOperations :
        \/ smoke' = [smoke EXCEPT !.pc = "failed"] /\ ops = smoke.ops
        \/ smoke' = [smoke EXCEPT !.pc = "preflight", !.ops = ops]
  BY DEF FetchDocument
<1>4. ops \in Seq(Operations) /\ Selection(ops)
  BY <1>2, DocumentSelection
<1>5. /\ smoke'.pc \in {"failed", "preflight"} /\ smoke'.ops = ops /\ smoke'.results = <<>>
      /\ smoke' \in [pc : {"document", "preflight", "select", "call"} \cup Ends,
                     ops : Seq(Operations), ctx : [Params -> OldIds \cup {NewId, NoId}],
                     results : Seq(ResultRows)]
  BY <1>2, <1>3, <1>4 DEF SmokeInv, SmokeShape, Ends
<1>6. Selection(smoke.ops)' /\ Progress' /\ ChangeInv'
  BY <1>1, <1>2, <1>4, <1>5, NothingCalled
<1>7. SmokeShape'
  BY <1>1, <1>5 DEF SmokeInv, SmokeShape
<1> QED BY <1>6, <1>7 DEF SmokeInv

\* The first ids are asked for before anything is called.
LEMMA PreflightKeeps == ASSUME SmokeInv, Preflight PROVE SmokeInv'
<1>1. smoke.pc = "preflight" /\ UNCHANGED <<args, api>>
  BY DEF Preflight
<1>2. PICK offered, correction \in {NoId, DummyId}, experience \in api.alive \cup {NoId} :
        smoke' = [smoke EXCEPT !.pc = "call",
                    !.ctx = [@ EXCEPT !["ticketProductId"] = offered,
                                      !["correctionId"] = correction,
                                      !["experienceId"] = experience]]
  BY DEF Preflight
<1>3. /\ smoke.results = <<>> /\ smoke.ops \in Seq(Operations) /\ Selection(smoke.ops)
      /\ smoke.ctx \in [Params -> OldIds \cup {NewId, NoId}]
  BY <1>1 DEF SmokeInv, SmokeShape, Progress
<1>4. {offered, correction, experience} \subseteq OldIds \cup {NewId, NoId}
  BY <1>2, SmokeConstants DEF SmokeInv, SmokeShape
<1>5. [smoke.ctx EXCEPT !["ticketProductId"] = offered, !["correctionId"] = correction,
                        !["experienceId"] = experience] \in [Params -> OldIds \cup {NewId, NoId}]
  BY <1>3, <1>4
<1>6. /\ smoke'.pc = "call" /\ smoke'.ops = smoke.ops /\ smoke'.results = <<>>
      /\ smoke' \in [pc : {"document", "preflight", "select", "call"} \cup Ends,
                     ops : Seq(Operations), ctx : [Params -> OldIds \cup {NewId, NoId}],
                     results : Seq(ResultRows)]
  BY <1>2, <1>3, <1>5 DEF SmokeInv, SmokeShape
<1>7. Selection(smoke.ops)' /\ Progress' /\ ChangeInv'
  BY <1>1, <1>3, <1>6, NothingCalled
<1>8. SmokeShape'
  BY <1>1, <1>6 DEF SmokeInv, SmokeShape
<1> QED BY <1>7, <1>8 DEF SmokeInv

\* The report is written, or is not, when every operation has its result.
LEMMA WriteReportKeeps == ASSUME SmokeInv, WriteReport PROVE SmokeInv'
<1>1. /\ smoke.pc = "call" /\ Position > Len(smoke.ops)
      /\ UNCHANGED <<args, api>>
      /\ smoke' \in {[smoke EXCEPT !.pc = "reported"], [smoke EXCEPT !.pc = "failed"]}
  BY DEF WriteReport
<1>2. /\ smoke'.pc \in {"reported", "failed"} /\ smoke'.ops = smoke.ops /\ smoke'.ctx = smoke.ctx
      /\ smoke'.results = smoke.results
      /\ smoke' \in [pc : {"document", "preflight", "select", "call"} \cup Ends,
                     ops : Seq(Operations), ctx : [Params -> OldIds \cup {NewId, NoId}],
                     results : Seq(ResultRows)]
  BY <1>1 DEF SmokeInv, SmokeShape, Ends
<1>3. Len(smoke.results) = Len(smoke.ops)
  BY <1>1 DEF SmokeInv, SmokeShape, Progress, Position
<1>4. SmokeShape'
  BY <1>1, <1>2 DEF SmokeInv, SmokeShape
<1>5. Selection(smoke.ops)'
  BY <1>1, <1>2 DEF SmokeInv, Selection
<1>6. Progress'
  BY <1>1, <1>2, <1>3 DEF SmokeInv, Progress
<1>7. MadeItsOwn' <=> MadeItsOwn
  BY <1>2 DEF MadeItsOwn
<1>8. ChangeInv'
  BY <1>1, <1>2, <1>7 DEF SmokeInv, ChangeInv
<1> QED BY <1>4, <1>5, <1>6, <1>8 DEF SmokeInv

\* Every step of the script keeps the invariant.
LEMMA SmokeInvNext == ASSUME SmokeInv, [SmokeNext]_smokeVars PROVE SmokeInv'
<1>1. CASE UNCHANGED smokeVars
  BY <1>1 DEF smokeVars, SmokeInv, SmokeShape, Selection, Progress, ChangeInv, MadeItsOwn
<1>2. CASE SmokeNext
  BY <1>2, SelectInternalKeeps, FetchDocumentKeeps, PreflightKeeps, SkipKeeps, CallKeeps,
     WriteReportKeeps DEF SmokeNext
<1> QED BY <1>1, <1>2

-------------------------------------------------------------------------------
\* The bucket of an earlier version that a result falls into is decided by its class.
LEMMA ClassDecidesBucket ==
    ASSUME NEW row \in ResultRows
    PROVE  /\ row.skipped <=> row.class = "skipped"
           /\ ~row.skipped /\ row.lost <=> row.class = "network_error"
           /\ ~row.skipped /\ ~row.lost /\ row.status \in 200..299 <=> row.class = "implemented"
           /\ ~row.skipped /\ ~row.lost /\ row.status \in 300..399 <=> row.class = "redirect"
           /\ ~row.skipped /\ ~row.lost /\ row.status \in 400..499 <=>
                row.class \in {"validation_error", "auth_required", "payment_required", "not_found"}
           /\ ~row.skipped /\ ~row.lost /\ row.status \in 500..599 <=>
                row.class \in {"server_error", "not_implemented"}
<1>1. CASE row = Result(TRUE, 0, FALSE)
  BY <1>1 DEF Result
<1>2. CASE row = Result(FALSE, 0, TRUE)
  BY <1>2 DEF Result, Classify
<1>3. CASE \E s \in Answers \cup {200} : row = Result(FALSE, s, FALSE)
  <2>0. PICK s \in Answers \cup {200} : row = Result(FALSE, s, FALSE)
    BY <1>3
  <2>1. s \in {200, 302} \cup ErrorStatuses
    BY SmokeConstants
  <2>2. PICK c : c = Classify(s, FALSE)
    OBVIOUS
  <2>3. /\ s \in 200..299 <=> c = "implemented"
        /\ s \in 300..399 <=> c = "redirect"
        /\ s \in 400..499 <=>
              c \in {"validation_error", "auth_required", "payment_required", "not_found"}
        /\ s \in 500..599 <=> c \in {"server_error", "not_implemented"}
        /\ c \notin {"skipped", "network_error"}
    BY <2>1, <2>2 DEF Classify, ErrorStatuses
  <2>4. row = [skipped |-> FALSE, status |-> s, lost |-> FALSE, class |-> c]
    BY <2>0, <2>2 DEF Result
  <2> QED BY <2>3, <2>4
<1> QED BY <1>1, <1>2, <1>3 DEF ResultRows

ResultsOf(classes) == {i \in DOMAIN smoke.results : smoke.results[i].class \in classes}

\* The results of two disjoint sets of classes are counted apart.
LEMMA CountedApart ==
    ASSUME smoke.results \in Seq(ResultRows), NEW A, NEW B, A \cap B = {}
    PROVE  /\ Cardinality(ResultsOf(A)) \in Nat /\ Cardinality(ResultsOf(B)) \in Nat
           /\ Cardinality(ResultsOf(A \cup B)) = Cardinality(ResultsOf(A)) + Cardinality(ResultsOf(B))
<1>1. IsFiniteSet(ResultsOf(A)) /\ IsFiniteSet(ResultsOf(B))
  <2>1. PICK n \in Nat : DOMAIN smoke.results = 1..n
    OBVIOUS
  <2> QED BY <2>1, IntervalsAreFinite, FS_Subset DEF ResultsOf
<1>2. ResultsOf(A \cup B) = ResultsOf(A) \cup ResultsOf(B) /\ ResultsOf(A) \cap ResultsOf(B) = {}
  BY DEF ResultsOf
<1>3. Cardinality({}) = 0
  BY FS_EmptySet
<1>4. Cardinality(ResultsOf(A)) \in Nat /\ Cardinality(ResultsOf(B)) \in Nat
  BY <1>1, FS_CardinalityType
<1>5. Cardinality(ResultsOf(A) \cup ResultsOf(B))
        = Cardinality(ResultsOf(A)) + Cardinality(ResultsOf(B)) - 0
  BY <1>1, <1>2, <1>3, FS_Union
<1>6. PICK a, b \in Nat : a = Cardinality(ResultsOf(A)) /\ b = Cardinality(ResultsOf(B))
  BY <1>4
<1>7. Cardinality(ResultsOf(A \cup B)) = a + b - 0
  BY <1>2, <1>5, <1>6
<1> QED BY <1>4, <1>6, <1>7

\* The buckets of a report are sums of its classes.
LEMMA BucketsAreClasses ==
    ASSUME smoke.results \in Seq(ResultRows)
    PROVE  LegacyBuckets =
             [skipped |-> Cardinality(ResultsOf({"skipped"})),
              network |-> Cardinality(ResultsOf({"network_error"})),
              ok2xx |-> Cardinality(ResultsOf({"implemented"})),
              redirect3xx |-> Cardinality(ResultsOf({"redirect"})),
              client4xx |-> Cardinality(ResultsOf({"validation_error", "auth_required",
                                                   "payment_required", "not_found"})),
              server5xx |-> Cardinality(ResultsOf({"server_error", "not_implemented"}))]
<1> DEFINE r(i) == smoke.results[i]
           D == DOMAIN smoke.results
<1>1. \A i \in D : r(i) \in ResultRows
  OBVIOUS
<1>2. /\ {i \in D : r(i).skipped} = ResultsOf({"skipped"})
      /\ {i \in D : ~r(i).skipped /\ r(i).lost} = ResultsOf({"network_error"})
  BY <1>1, ClassDecidesBucket DEF ResultsOf
<1>3. /\ {i \in D : ~r(i).skipped /\ ~r(i).lost /\ r(i).status \in 200..299} = ResultsOf({"implemented"})
      /\ {i \in D : ~r(i).skipped /\ ~r(i).lost /\ r(i).status \in 300..399} = ResultsOf({"redirect"})
  BY <1>1, ClassDecidesBucket DEF ResultsOf
<1>4. {i \in D : ~r(i).skipped /\ ~r(i).lost /\ r(i).status \in 400..499} =
        ResultsOf({"validation_error", "auth_required", "payment_required", "not_found"})
  BY <1>1, ClassDecidesBucket DEF ResultsOf
<1>5. {i \in D : ~r(i).skipped /\ ~r(i).lost /\ r(i).status \in 500..599} =
        ResultsOf({"server_error", "not_implemented"})
  BY <1>1, ClassDecidesBucket DEF ResultsOf
<1> QED BY <1>2, <1>3, <1>4, <1>5 DEF LegacyBuckets, Having

\* A report that is written adds up.
LEMMA ReportIsWhole == ASSUME SmokeInv, smoke.pc = "reported" PROVE ReportAddsUp
<1> DEFINE count(class) == ClassificationBucket(class)
<1>1. smoke.results \in Seq(ResultRows)
  BY DEF SmokeInv, SmokeShape
<1>2. \A class : count(class) = Cardinality(ResultsOf({class}))
  BY DEF ClassificationBucket, Having, ResultsOf
<1>3. Cardinality(ResultsOf({"server_error", "not_implemented"}))
        = count("server_error") + count("not_implemented")
  <2>1. {"server_error", "not_implemented"} = {"server_error"} \cup {"not_implemented"}
    OBVIOUS
  <2> QED BY <1>1, <1>2, <2>1, CountedApart
<1>4. Cardinality(ResultsOf({"validation_error", "auth_required", "payment_required", "not_found"}))
        = count("validation_error") + count("auth_required")
            + count("payment_required") + count("not_found")
  <2> DEFINE A == {"validation_error"}
             B == A \cup {"auth_required"}
             C == B \cup {"payment_required"}
  <2>1. Cardinality(ResultsOf(B)) = count("validation_error") + count("auth_required")
    BY <1>1, <1>2, CountedApart
  <2>2. Cardinality(ResultsOf(C)) = Cardinality(ResultsOf(B)) + count("payment_required")
    BY <1>1, <1>2, CountedApart
  <2>3. Cardinality(ResultsOf(C \cup {"not_found"})) = Cardinality(ResultsOf(C)) + count("not_found")
    BY <1>1, <1>2, CountedApart
  <2>4. {"validation_error", "auth_required", "payment_required", "not_found"} = C \cup {"not_found"}
    OBVIOUS
  <2> QED BY <2>1, <2>2, <2>3, <2>4
<1>5. Len(smoke.results) = Len(smoke.ops)
  BY DEF SmokeInv, Progress
<1>6. \A i \in DOMAIN smoke.ops : smoke.results[i].skipped <=> i \notin api.called
  <2>1. DOMAIN smoke.ops = DOMAIN smoke.results
    BY <1>5 DEF SmokeInv, SmokeShape
  <2> QED BY <2>1 DEF SmokeInv, Progress
<1> HIDE DEF count
<1>7. LegacyBuckets =
            [skipped |-> count("skipped"), network |-> count("network_error"),
             ok2xx |-> count("implemented"), redirect3xx |-> count("redirect"),
             client4xx |-> count("validation_error") + count("auth_required")
                            + count("payment_required") + count("not_found"),
             server5xx |-> count("server_error") + count("not_implemented")]
  BY <1>1, <1>2, <1>3, <1>4, BucketsAreClasses
<1> QED BY <1>5, <1>6, <1>7 DEF ReportAddsUp, count

\* In every state of a run its place, its ids, its results and the experiences of the user
\* have their types, and only operations that were selected have been called.
THEOREM SmokeTypeCorrect == SmokeSpec => []SmokeTypeOK
<1>1. SmokeInit => SmokeInv
  BY SmokeInvInit
<1>2. SmokeInv /\ [SmokeNext]_smokeVars => SmokeInv'
  BY SmokeInvNext
<1>3. SmokeInv => SmokeTypeOK
  <2>1. ASSUME NEW row \in ResultRows PROVE row.class \in Classes
    BY SmokeConstants DEF ResultRows, Result, Classify, Classes
  <2>2. ASSUME SmokeInv PROVE \A i \in DOMAIN smoke.results : smoke.results[i].class \in Classes
    <3>1. \A i \in DOMAIN smoke.results : smoke.results[i] \in ResultRows
      BY <2>2 DEF SmokeInv, SmokeShape
    <3> QED BY <2>1, <3>1
  <2>3. ASSUME SmokeInv PROVE api.called \subseteq DOMAIN smoke.ops
    BY <2>3 DEF SmokeInv, SmokeShape, Progress
  <2> QED BY <2>2, <2>3 DEF SmokeInv, SmokeShape, SmokeTypeOK
<1> QED BY <1>1, <1>2, <1>3, PTL DEF SmokeSpec

\* What the user had before the run survives it, for every document that declares the
\* creation of experiences before the operations of one: without --mutate nothing is
\* changed, once the API has answered with an experience of the run only that one is, and a
\* written report counts every operation once in each of its tables.
THEOREM OldExperiencesAreKept == SmokeSpec => []OldExperiencesSurvive
<1>1. SmokeInit => SmokeInv
  BY SmokeInvInit
<1>2. SmokeInv /\ [SmokeNext]_smokeVars => SmokeInv'
  BY SmokeInvNext
<1>3. SmokeInv => OldExperiencesSurvive
  <2>1. SUFFICES ASSUME SmokeInv PROVE OldExperiencesSurvive
    OBVIOUS
  <2>2. NewId \notin api.before
    <3>1. api.before \subseteq OldIds
      BY <2>1 DEF SmokeInv, SmokeShape
    <3> QED BY <3>1, SmokeConstants
  <2>3. ~args.mutate \/ MadeItsOwn => api.changed \cap api.before = {}
    BY <2>1, <2>2 DEF SmokeInv, ChangeInv
  <2> QED BY <2>1, <2>3, ReportIsWhole DEF OldExperiencesSurvive
<1> QED BY <1>1, <1>2, <1>3, PTL DEF SmokeSpec
=============================================================================
