-------------------------- MODULE EventRewardProofs --------------------------
(***************************************************************************)
(* Proofs about event rewards, for any number of events, concurrent        *)
(* requests and tickets.  The inductive invariant RewardInv adds to the    *)
(* properties what a request knows when it is about to grant (RequestInv): *)
(* it owns the lock of a participation that was not rewarded when it got   *)
(* it, and only the owner of the lock rewards.                             *)
(***************************************************************************)
EXTENDS EventReward, Feedback, TicketLedgerProofs

RequestInv ==
    \A g \in Grants :
        LET e == request[g].event IN
        /\ request[g].pc # "idle" => e \in Events
        /\ request[g].pc = "grant" => lock[e] = g /\ (row[e] = "NONE" \/ e \in Multiple)

\* A participation is GRANTED once it has a reward, and one without has no tickets.
RowsFollowGrants ==
    \A e \in Events :
        /\ row[e] = "GRANTED" <=> grants[e] > 0
        /\ grants[e] = 0 => TicketsOf(e) = {}

RewardInv ==
    /\ RewardTypeOK
    /\ LedgerInv
    /\ RequestInv
    /\ RewardedOnce
    /\ RowsFollowGrants

-------------------------------------------------------------------------------
\* A step of a request that grants nothing keeps what concerns rows and tickets.
LEMMA RowsUnchanged ==
    ASSUME RewardInv, UNCHANGED <<row, grants, ledgerVars>>
    PROVE  LedgerInv' /\ RewardedOnce' /\ RowsFollowGrants'
BY LedgerInvStep DEF RewardInv, RewardedOnce, RowsFollowGrants, TicketsOf, ledgerVars

LEMMA RequestTypes ==
    ASSUME RewardInv, NEW g \in Grants
    PROVE  /\ [request EXCEPT ![g] = IdleRequest] \in
                [Grants -> [pc : RequestState, kind : Kinds, event : Events \cup {NoEvent}]]
           /\ \A c \in RequestState : [request EXCEPT ![g].pc = c] \in
                [Grants -> [pc : RequestState, kind : Kinds, event : Events \cup {NoEvent}]]
BY DEF RewardInv, RewardTypeOK, IdleRequest, RequestState, Kinds

LEMMA BeginKeeps ==
    ASSUME RewardInv, NEW g \in Grants, NEW kind \in Kinds, NEW e \in Events,
           Begin(g, kind, e)
    PROVE  RewardInv'
<1> USE DEF RewardInv, Begin
<1>1. LedgerInv' /\ RewardedOnce' /\ RowsFollowGrants'
    BY RowsUnchanged
<1>2. RewardTypeOK'
    BY <1>1 DEF LedgerInv, RewardTypeOK, RequestState
<1>3. RequestInv'
    BY DEF RequestInv, RewardTypeOK
<1> QED BY <1>1, <1>2, <1>3

LEMMA FindForUpdateKeeps ==
    ASSUME RewardInv, NEW g \in Grants, FindForUpdate(g)
    PROVE  RewardInv'
<1> USE DEF RewardInv
<1>0. PICK e \in Events : e = request[g].event
    BY DEF FindForUpdate, RequestInv
<1>1. /\ UNCHANGED <<row, grants, ledgerVars>>
      /\ \/ request' = [request EXCEPT ![g].pc = "create"] /\ UNCHANGED lock
         \/ request' = [request EXCEPT ![g] = IdleRequest] /\ UNCHANGED lock
         \/ /\ request' = [request EXCEPT ![g].pc = "grant"]
            /\ lock' = [lock EXCEPT ![e] = g]
            /\ lock[e] = Free
            /\ ~Refused(g)
            /\ row[e] # "NONE"
    BY <1>0 DEF FindForUpdate
<1>2. LedgerInv' /\ RewardedOnce' /\ RowsFollowGrants'
    BY <1>1, RowsUnchanged
<1>3. RewardTypeOK'
    <2>1. lock' \in [Events -> Grants \cup {Free}]
        BY <1>1 DEF RewardTypeOK
    <2>2. "create" \in RequestState /\ "grant" \in RequestState
        BY DEF RequestState
    <2> QED BY <1>1, <1>2, <2>1, <2>2, RequestTypes DEF LedgerInv, RewardTypeOK
<1>4. RequestInv'
    <2>1. ~Refused(g) /\ row[e] # "NONE" => e \in Multiple
        BY <1>0 DEF Refused, RewardTypeOK
    <2> QED BY <1>0, <1>1, <2>1, RewardConstants DEF RequestInv, RewardTypeOK, IdleRequest
<1> QED BY <1>2, <1>3, <1>4

LEMMA CreateParticipationKeeps ==
    ASSUME RewardInv, NEW g \in Grants, CreateParticipation(g)
    PROVE  RewardInv'
<1> USE DEF RewardInv
<1>0. PICK e \in Events : e = request[g].event
    BY DEF CreateParticipation, RequestInv
<1>1. /\ UNCHANGED <<row, grants, ledgerVars>>
      /\ lock[e] = Free
      /\ \/ /\ request' = [request EXCEPT ![g].pc = "grant"]
            /\ lock' = [lock EXCEPT ![e] = g]
            /\ row[e] = "NONE"
         \/ request' = [request EXCEPT ![g] = IdleRequest] /\ UNCHANGED lock
    BY <1>0 DEF CreateParticipation
<1>2. LedgerInv' /\ RewardedOnce' /\ RowsFollowGrants'
    BY <1>1, RowsUnchanged
<1>3. RewardTypeOK'
    <2>1. lock' \in [Events -> Grants \cup {Free}]
        BY <1>1 DEF RewardTypeOK
    <2>2. "grant" \in RequestState
        BY DEF RequestState
    <2> QED BY <1>1, <1>2, <2>1, <2>2, RequestTypes DEF LedgerInv, RewardTypeOK
<1>4. RequestInv'
    BY <1>0, <1>1, RewardConstants DEF RequestInv, RewardTypeOK, IdleRequest
<1> QED BY <1>2, <1>3, <1>4

LEMMA AbortGrantKeeps ==
    ASSUME RewardInv, NEW g \in Grants, AbortGrant(g)
    PROVE  RewardInv'
<1> USE DEF RewardInv, AbortGrant
<1>1. LedgerInv' /\ RewardedOnce' /\ RowsFollowGrants'
    BY RowsUnchanged
<1>2. RewardTypeOK'
    BY <1>1, RequestTypes DEF LedgerInv, RewardTypeOK
<1>3. RequestInv'
    BY DEF RequestInv, RewardTypeOK, IdleRequest
<1> QED BY <1>1, <1>2, <1>3

\* The tickets of other events are not touched by a reward.
LEMMA IssueForEvent ==
    ASSUME LedgerInv, NEW e \in Events, NEW ids \in SUBSET Tickets, Issue(e, ids)
    PROVE  /\ TicketsOf(e) = {} => TicketsOf(e)' = ids
           /\ \A d \in Events \ {e} : TicketsOf(d)' = TicketsOf(d)
<1> USE RewardConstants, LedgerConstants
<1>1. \A t \in ids : source[t] = NoSource
    BY DEF Issue, LedgerInv, UnissuedHaveNoSource
<1>2. source' = [t \in Tickets |-> IF t \in ids THEN e ELSE source[t]]
    BY DEF Issue
<1> QED BY <1>1, <1>2 DEF TicketsOf

LEMMA GrantKeeps ==
    ASSUME RewardInv, NEW g \in Grants, Grant(g)
    PROVE  RewardInv'
<1> USE DEF RewardInv
<1>0. PICK e \in Events : e = request[g].event
    BY DEF Grant, RequestInv
<1>1. PICK ids \in SUBSET Tickets :
        /\ Cardinality(ids) = Reward \/ e \in Multiple
        /\ Issue(e, ids)
    BY <1>0 DEF Grant
<1>2. /\ row' = [row EXCEPT ![e] = "GRANTED"]
      /\ grants' = [grants EXCEPT ![e] = @ + 1]
      /\ lock' = [lock EXCEPT ![e] = Free]
      /\ request' = [request EXCEPT ![g] = IdleRequest]
      /\ grants[e] < MaxGrants
      /\ lock[e] = g
      /\ row[e] = "NONE" \/ e \in Multiple
    BY <1>0 DEF Grant, RequestInv
<1>3. LedgerInv'
    BY <1>1, RewardConstants, IssueKeepsInv
<1>4. RewardTypeOK'
    <2>1. grants' \in [Events -> 0..MaxGrants]
        BY <1>2, RewardConstants DEF RewardTypeOK
    <2> QED BY <1>2, <1>3, <2>1, RequestTypes DEF LedgerInv, RewardTypeOK
<1>5. RequestInv'
    BY <1>0, <1>2, RewardConstants DEF RequestInv, RewardTypeOK, IdleRequest
<1>6. \A d \in Events \ {e} :
        TicketsOf(d)' = TicketsOf(d) /\ grants'[d] = grants[d] /\ row'[d] = row[d]
    BY <1>1, <1>2, IssueForEvent DEF RewardTypeOK
<1>7. grants'[e] = grants[e] + 1 /\ row'[e] = "GRANTED" /\ grants[e] \in Nat
    BY <1>2, RewardConstants DEF RewardTypeOK
<1>8. RowsFollowGrants'
    BY <1>6, <1>7 DEF RowsFollowGrants
<1>9. RewardedOnce'
    <2>1. ASSUME e \notin Multiple
          PROVE  grants'[e] = 1 /\ Cardinality(TicketsOf(e)') = Reward
        <3>1. grants[e] = 0 /\ TicketsOf(e) = {}
            BY <1>2, <1>7, <2>1 DEF RowsFollowGrants
        <3> QED BY <1>1, <1>7, <2>1, <3>1, IssueForEvent
    <2>2. Reward * 1 = Reward
        BY RewardConstants
    <2> QED BY <1>6, <2>1, <2>2 DEF RewardedOnce
<1> QED BY <1>3, <1>4, <1>5, <1>8, <1>9

\* Spending never moves a ticket to another event.
LEMMA SpendKeepsSource == SpendStep => source' = source
BY DEF SpendStep, ConsumeTicket, ValidateCreation, CreateItem, AbortCreation, DeleteItem,
   ExpireOutdated, ExpireRows, Tick

LEMMA RewardInvStep == RewardInv /\ [RewardNext]_allVars => RewardInv'
<1> SUFFICES ASSUME RewardInv, [RewardNext]_allVars PROVE RewardInv'
    OBVIOUS
<1>1. ASSUME NEW g \in Grants, GrantStep(g)
      PROVE  RewardInv'
    BY <1>1, BeginKeeps, FindForUpdateKeeps, CreateParticipationKeeps, GrantKeeps,
       AbortGrantKeeps
    DEF GrantStep
<1>2. CASE SpendStep /\ UNCHANGED rewardVars
    <2>1. LedgerInv' /\ source' = source
        BY <1>2, SpendKeepsInv, SpendKeepsSource DEF RewardInv
    <2> QED BY <1>2, <2>1 DEF RewardInv, rewardVars, LedgerInv, RewardTypeOK, RequestInv,
               RewardedOnce, RowsFollowGrants, TicketsOf
<1>3. CASE UNCHANGED allVars
    <2>1. LedgerInv' /\ RewardedOnce' /\ RowsFollowGrants'
        BY <1>3, RowsUnchanged DEF allVars, rewardVars
    <2> QED BY <1>3, <2>1 DEF RewardInv, allVars, rewardVars, LedgerInv, RewardTypeOK,
               RequestInv
<1> QED BY <1>1, <1>2, <1>3 DEF RewardNext

LEMMA RewardInvInit == RewardInit => RewardInv
<1> SUFFICES ASSUME RewardInit PROVE RewardInv
    OBVIOUS
<1>1. LedgerInv
    BY LedgerInvInit DEF RewardInit
<1>2. RewardTypeOK
    BY <1>1, RewardConstants DEF RewardInit, LedgerInv, RewardTypeOK, IdleRequest,
       RequestState, Kinds
<1>3. RequestInv
    BY DEF RewardInit, RequestInv, IdleRequest
<1>4. \A e \in Events : TicketsOf(e) = {} /\ row[e] = "NONE" /\ grants[e] = 0
    BY RewardConstants, LedgerConstants DEF RewardInit, LedgerInit, TicketsOf
<1>5. Cardinality({}) = Reward * 0
    BY FS_EmptySet, RewardConstants
<1> QED BY <1>1, <1>2, <1>3, <1>4, <1>5 DEF RewardInv, RewardedOnce, RowsFollowGrants

\* The strengthened invariant of the event rewards.
THEOREM RewardInvariant == RewardSpec => []RewardInv
BY RewardInvInit, RewardInvStep, PTL DEF RewardSpec

\* Every variable of the event rewards keeps its type.
THEOREM RewardTypeCorrect == RewardSpec => []RewardTypeOK
<1>1. RewardInv => RewardTypeOK
    BY DEF RewardInv
<1> QED BY <1>1, RewardInvariant, PTL

\* An event that allows one reward gives it once, for any number of concurrent
\* claims, sign-ups and administrators.
THEOREM RewardedAtMostOnce == RewardSpec => []RewardedOnce
<1>1. RewardInv => RewardedOnce
    BY DEF RewardInv
<1> QED BY <1>1, RewardInvariant, PTL
-------------------------------------------------------------------------------
LEMMA StepRewardsLedger == RewardInv /\ [RewardNext]_allVars => [LedgerNext]_ledgerVars
<1> SUFFICES ASSUME RewardInv, [RewardNext]_allVars PROVE [LedgerNext]_ledgerVars
    OBVIOUS
<1>1. ASSUME NEW g \in Grants, Grant(g)
      PROVE  LedgerNext
    <2>1. request[g].event \in Sources
        BY <1>1, RewardConstants DEF Grant, RewardInv, RequestInv
    <2> QED BY <1>1, <2>1 DEF Grant, LedgerNext, SupplyStep
<1>2. ASSUME NEW g \in Grants, GrantStep(g), ~Grant(g)
      PROVE  UNCHANGED ledgerVars
    BY <1>2 DEF GrantStep, Begin, FindForUpdate, CreateParticipation, AbortGrant
<1>3. UNCHANGED allVars => UNCHANGED ledgerVars
    BY DEF allVars
<1> QED BY <1>1, <1>2, <1>3 DEF RewardNext, LedgerNext

\* Event rewards implement the ticket inventory, so its theorems hold of them.
THEOREM RewardsImplementLedger == RewardSpec => LedgerSpec
<1>1. RewardInit => LedgerInit
    BY DEF RewardInit
<1> QED BY <1>1, StepRewardsLedger, RewardInvariant, PTL DEF RewardSpec, LedgerSpec

-------------------------------------------------------------------------------
(* Feedback submissions                                                    *)

Participations == [status : {"NONE", "NOT_GRANTED", "GRANTED"}, at : 0..NeverRewarded]
SubmissionRow ==
    [pc : {"idle", "find", "create", "decide", "reward"}, claim : BOOLEAN, seen : Participations]

\* The participation knows its last reward.
HistoryOf(p) ==
    /\ p.status = "GRANTED" =>
            p.at \in Days /\ p.at <= day /\ rewards[p.at] = 1 /\ \A d \in Days : d > p.at => rewards[d] = 0
    /\ p.status # "GRANTED" => p.at = NeverRewarded /\ \A d \in Days : rewards[d] = 0

\* A submission that decides or rewards owns the participation and has read it as it is.
SubmissionOf(x, r) ==
    /\ r.pc \in {"decide", "reward"} =>
            /\ owner = x
            /\ r.seen = participation \/ (r.seen = NotGranted /\ participation.status = "NONE")
    /\ r.pc \in {"find", "create"} => r.seen = NotGranted
    /\ r.pc = "reward" =>
            IF r.claim THEN r.seen = NotGranted
            ELSE /\ r.seen.at = NeverRewarded \/ r.seen.at + CooldownDays <= day
                 /\ ~(onlyOne /\ (r.seen.status = "GRANTED" \/ r.seen.at # NeverRewarded))

FeedbackInv ==
    /\ FeedbackTypeOK
    /\ HistoryOf(participation)
    /\ RewardsAreSpaced
    /\ \A x \in Submissions : SubmissionOf(x, submission[x])

LEMMA FeedbackTypes ==
    FeedbackTypeOK <=>
        /\ day \in Days /\ onlyOne \in BOOLEAN /\ participation \in Participations
        /\ submission \in [Submissions -> SubmissionRow] /\ owner \in Submissions \cup {Unheld}
        /\ rewards \in [Days -> Nat]
BY DEF FeedbackTypeOK, Participations, SubmissionRow

LEMMA NotGrantedRow ==
    /\ NotGranted \in Participations /\ NotGranted.status = "NOT_GRANTED"
    /\ NotGranted.at = NeverRewarded /\ NeverRewarded \notin Days
<1>1. NeverRewarded \in 0..NeverRewarded /\ NeverRewarded \notin Days
  BY FeedbackConstants DEF NeverRewarded, Days
<1> QED BY <1>1 DEF NotGranted, Participations

LEMMA IdlingRow == Idling \in SubmissionRow /\ Idling.pc = "idle"
BY NotGrantedRow DEF Idling, SubmissionRow

LEMMA FeedbackInvInit == FeedbackInit => FeedbackInv
<1> SUFFICES ASSUME FeedbackInit PROVE FeedbackInv
  OBVIOUS
<1> DEFINE p == [NotGranted EXCEPT !.status = "NONE"]
<1>1. participation = p /\ p \in Participations /\ p.status = "NONE" /\ p.at = NeverRewarded
  BY NotGrantedRow DEF FeedbackInit, NotGranted, Participations
<1>2. 0 \in Days /\ \A d \in Days : rewards[d] = 0
  BY FeedbackConstants DEF FeedbackInit, Days
<1> HIDE DEF p
<1>3. FeedbackTypeOK
  BY <1>1, <1>2, IdlingRow, FeedbackTypes DEF FeedbackInit
<1>4. HistoryOf(participation)
  BY <1>1, <1>2 DEF HistoryOf
<1>5. RewardsAreSpaced
  BY <1>2 DEF RewardsAreSpaced
<1>6. \A x \in Submissions : SubmissionOf(x, submission[x])
  BY IdlingRow DEF FeedbackInit, SubmissionOf
<1> QED BY <1>3, <1>4, <1>5, <1>6 DEF FeedbackInv

\* A submission goes on; it may have taken or left the participation, but it has not
\* changed it.
LEMMA SubmissionMoves ==
    ASSUME FeedbackInv, NEW x \in Submissions, NEW r \in SubmissionRow,
           submission' = [submission EXCEPT ![x] = r], UNCHANGED <<day, onlyOne, participation, rewards>>,
           owner' \in {owner, x, Unheld},
           owner' = Unheld => owner \in {x, Unheld},
           owner' = x => owner \in {x, Unheld},
           SubmissionOf(x, r)'
    PROVE  FeedbackInv'
<1>1. \A y \in Submissions : submission'[y] = IF y = x THEN r ELSE submission[y]
  BY FeedbackTypes DEF FeedbackInv
<1>2. FeedbackTypeOK'
  BY FeedbackTypes DEF FeedbackInv, FeedbackTypeOK, SubmissionRow, Participations
<1>3. HistoryOf(participation)' /\ RewardsAreSpaced'
  BY DEF FeedbackInv, HistoryOf, RewardsAreSpaced
<1>4. ASSUME NEW y \in Submissions PROVE SubmissionOf(y, submission[y])'
  <2>1. CASE y = x
    BY <1>1, <2>1
  <2>2. CASE y # x
    <3>1. SubmissionOf(y, submission[y]) /\ submission'[y] = submission[y]
      BY <1>1, <2>2 DEF FeedbackInv
    <3>2. owner = y => owner' = y
      BY <2>2, FeedbackConstants
    <3> QED BY <3>1, <3>2 DEF SubmissionOf
  <2> QED BY <2>1, <2>2
<1> QED BY <1>2, <1>3, <1>4 DEF FeedbackInv

\* A submission is over; it may have written the participation it owns.
LEMMA EndedKeeps ==
    ASSUME FeedbackInv, NEW x \in Submissions, Ended(x), Release(x), UNCHANGED <<day, onlyOne>>,
           NEW p \in Participations, participation' = p, rewards' \in [Days -> Nat],
           HistoryOf(p)', RewardsAreSpaced',
           p # participation => owner = x
    PROVE  FeedbackInv'
<1>1. \A y \in Submissions : submission'[y] = IF y = x THEN Idling ELSE submission[y]
  BY FeedbackTypes DEF FeedbackInv, Ended
<1>2. FeedbackTypeOK'
  <2>1. owner' \in Submissions \cup {Unheld} /\ submission' \in [Submissions -> SubmissionRow]
    BY FeedbackTypes, IdlingRow DEF FeedbackInv, Ended, Release
  <2> QED BY <2>1 DEF FeedbackInv, FeedbackTypeOK, SubmissionRow, Participations
<1>3. ASSUME NEW y \in Submissions PROVE SubmissionOf(y, submission[y])'
  <2>1. CASE y = x
    BY <1>1, <2>1, IdlingRow DEF SubmissionOf
  <2>2. CASE y # x
    <3>1. SubmissionOf(y, submission[y]) /\ submission'[y] = submission[y]
      BY <1>1, <2>2 DEF FeedbackInv
    <3>2. owner = y => owner' = y /\ participation' = participation
      BY <2>2 DEF Release
    <3> QED BY <3>1, <3>2 DEF SubmissionOf
  <2> QED BY <2>1, <2>2
<1> QED BY <1>2, <1>3 DEF FeedbackInv

LEMMA RowOf ==
    ASSUME FeedbackInv, NEW x \in Submissions
    PROVE  submission[x] \in SubmissionRow /\ SubmissionOf(x, submission[x]) /\ participation \in Participations
BY FeedbackTypes DEF FeedbackInv

LEMMA SubmitKeeps == ASSUME FeedbackInv, NEW x \in Submissions, Submit(x) PROVE FeedbackInv'
<1>1. PICK claim \in BOOLEAN :
        submission' = [submission EXCEPT ![x] = [Idling EXCEPT !.pc = "find", !.claim = claim]]
  BY DEF Submit
<1> DEFINE r == [Idling EXCEPT !.pc = "find", !.claim = claim]
<1>2. r \in SubmissionRow /\ r.pc = "find" /\ r.seen = NotGranted
  BY IdlingRow DEF SubmissionRow, Idling
<1>3. submission' = [submission EXCEPT ![x] = r] /\ UNCHANGED <<day, onlyOne, participation, rewards, owner>>
  BY <1>1 DEF Submit
<1> HIDE DEF r
<1>4. SubmissionOf(x, r)'
  BY <1>2 DEF SubmissionOf
<1>5. owner' \in {owner, x, Unheld} /\ (owner' \in {x, Unheld} => owner \in {x, Unheld})
  BY <1>3
<1> QED BY <1>2, <1>3, <1>4, <1>5, SubmissionMoves

LEMMA FindKeeps == ASSUME FeedbackInv, NEW x \in Submissions, FindParticipation(x) PROVE FeedbackInv'
<1>0. submission[x] \in SubmissionRow /\ submission[x].pc = "find" /\ participation \in Participations
      /\ UNCHANGED <<day, onlyOne, participation, rewards>>
  BY RowOf DEF FindParticipation, Doing
<1>1. CASE submission' = [submission EXCEPT ![x].pc = "create"] /\ UNCHANGED owner
  <2>0. PICK r : r = [submission[x] EXCEPT !.pc = "create"]
    OBVIOUS
  <2>1. r \in SubmissionRow /\ r.pc = "create" /\ r.seen = NotGranted
    BY <1>0, <2>0, RowOf DEF SubmissionRow, SubmissionOf
  <2>2. submission' = [submission EXCEPT ![x] = r]
    BY <1>1, <2>0
  <2>3. SubmissionOf(x, r)'
    BY <2>1 DEF SubmissionOf
  <2>4. owner' \in {owner, x, Unheld} /\ (owner' \in {x, Unheld} => owner \in {x, Unheld})
    BY <1>1
  <2> QED BY <1>0, <2>1, <2>2, <2>3, <2>4, SubmissionMoves
<1>2. CASE /\ owner = Unheld /\ owner' = x
           /\ submission' = [submission EXCEPT ![x].pc = "decide", ![x].seen = participation]
  <2>0. PICK r : r = [submission[x] EXCEPT !.pc = "decide", !.seen = participation]
    OBVIOUS
  <2>1. r \in SubmissionRow /\ r.pc = "decide" /\ r.seen = participation
    BY <1>0, <2>0 DEF SubmissionRow
  <2>2. submission' = [submission EXCEPT ![x] = r]
    BY <1>2, <2>0
  <2>3. SubmissionOf(x, r)'
    BY <1>0, <1>2, <2>1 DEF SubmissionOf
  <2> QED BY <1>0, <1>2, <2>1, <2>2, <2>3, SubmissionMoves
<1> QED BY <1>1, <1>2 DEF FindParticipation

LEMMA EndsUnchanged ==
    ASSUME FeedbackInv, NEW x \in Submissions, Ended(x), Release(x),
           UNCHANGED <<day, onlyOne, participation, rewards>>
    PROVE  FeedbackInv'
<1>1. PICK p \in Participations : p = participation
  BY RowOf
<1>2. HistoryOf(p)' /\ RewardsAreSpaced' /\ rewards' \in [Days -> Nat]
  BY <1>1, FeedbackTypes DEF FeedbackInv, HistoryOf, RewardsAreSpaced
<1> QED BY <1>1, <1>2, EndedKeeps

LEMMA InsertParticipationKeeps ==
    ASSUME FeedbackInv, NEW x \in Submissions, InsertParticipation(x)
    PROVE  FeedbackInv'
<1>0. /\ submission[x] \in SubmissionRow /\ submission[x].pc = "create" /\ submission[x].seen = NotGranted
      /\ owner = Unheld /\ UNCHANGED <<day, onlyOne, participation, rewards>>
  BY RowOf DEF InsertParticipation, Doing, SubmissionOf
<1>1. CASE participation.status = "NONE"
  <2>0. PICK r : r = [submission[x] EXCEPT !.pc = "decide"]
    OBVIOUS
  <2>1. r \in SubmissionRow /\ r.pc = "decide" /\ r.seen = NotGranted
    BY <1>0, <2>0 DEF SubmissionRow
  <2>2. submission' = [submission EXCEPT ![x] = r] /\ owner' = x
    BY <1>1, <2>0 DEF InsertParticipation
  <2>3. SubmissionOf(x, r)'
    BY <1>0, <1>1, <2>1, <2>2 DEF SubmissionOf
  <2> QED BY <1>0, <2>1, <2>2, <2>3, SubmissionMoves
<1>2. CASE participation.status # "NONE"
  <2>1. Ended(x) /\ Release(x)
    BY <1>0, <1>2 DEF InsertParticipation, Release
  <2> QED BY <1>0, <2>1, EndsUnchanged
<1> QED BY <1>1, <1>2

\* A transaction that goes on to the reward is allowed to.
LEMMA ToReward ==
    ASSUME FeedbackInv, NEW x \in Submissions, Doing(x, "decide"),
           submission' = [submission EXCEPT ![x].pc = "reward"],
           UNCHANGED <<day, onlyOne, participation, owner, rewards>>,
           IF submission[x].claim THEN submission[x].seen = NotGranted
           ELSE IsRewardCooldownElapsed(x) /\ ~Suppressed(x)
    PROVE  FeedbackInv'
<1>0. /\ submission[x] \in SubmissionRow /\ SubmissionOf(x, submission[x]) /\ submission[x].pc = "decide"
  BY RowOf DEF Doing
<1>1. PICK r : r = [submission[x] EXCEPT !.pc = "reward"]
  OBVIOUS
<1>2. /\ r \in SubmissionRow /\ r.pc = "reward" /\ r.seen = submission[x].seen
      /\ r.claim = submission[x].claim /\ submission' = [submission EXCEPT ![x] = r]
  BY <1>0, <1>1 DEF SubmissionRow
<1>3. SubmissionOf(x, r)'
  BY <1>0, <1>2 DEF SubmissionOf, IsRewardCooldownElapsed, Suppressed
<1>4. owner = x /\ owner' = x
  BY <1>0 DEF SubmissionOf
<1> QED BY <1>2, <1>3, <1>4, SubmissionMoves

LEMMA DecideKeeps == ASSUME FeedbackInv, NEW x \in Submissions, Decide(x) PROVE FeedbackInv'
<1>0. /\ submission[x] \in SubmissionRow /\ SubmissionOf(x, submission[x]) /\ Doing(x, "decide")
      /\ UNCHANGED <<day, onlyOne, rewards>>
  BY RowOf DEF Decide
<1>1. CASE submission' = [submission EXCEPT ![x].pc = "reward"]
           /\ UNCHANGED <<participation, owner>>
           /\ IF submission[x].claim THEN submission[x].seen = NotGranted
              ELSE IsRewardCooldownElapsed(x) /\ ~Suppressed(x)
  BY <1>0, <1>1, ToReward
<1>2. CASE Ended(x) /\ Release(x) /\ UNCHANGED participation
  BY <1>0, <1>2, EndsUnchanged
<1>3. CASE Ended(x) /\ Release(x) /\ participation' = submission[x].seen
  <2>1. PICK p \in Participations : p = submission[x].seen
    BY <1>0 DEF SubmissionRow
  <2>2. owner = x /\ (p = participation \/ (p = NotGranted /\ participation.status = "NONE"))
    BY <1>0, <2>1 DEF SubmissionOf, Doing
  <2>3. HistoryOf(p)
    BY <2>2, NotGrantedRow DEF FeedbackInv, HistoryOf
  <2>4. HistoryOf(p)' /\ RewardsAreSpaced' /\ rewards' \in [Days -> Nat]
    BY <1>0, <2>3, FeedbackTypes DEF FeedbackInv, HistoryOf, RewardsAreSpaced
  <2> QED BY <1>0, <1>3, <2>1, <2>2, <2>4, EndedKeeps
<1> QED BY <1>1, <1>2, <1>3 DEF Decide

\* The reward is the first, or the cooldown after the last.
LEMMA RewardKeeps == ASSUME FeedbackInv, NEW x \in Submissions, GrantReward(x) PROVE FeedbackInv'
<1>0. /\ submission[x] \in SubmissionRow /\ SubmissionOf(x, submission[x]) /\ submission[x].pc = "reward"
      /\ UNCHANGED <<day, onlyOne>> /\ Ended(x) /\ Release(x)
      /\ participation' = [status |-> "GRANTED", at |-> day]
      /\ day \in Days /\ day \in 0..NeverRewarded /\ rewards \in [Days -> Nat]
  BY RowOf, FeedbackTypes, FeedbackConstants
  DEF GrantReward, Doing, FeedbackInv, FeedbackTypeOK, Days, NeverRewarded
<1>1. \A d \in Days : rewards'[d] = IF d = day THEN rewards[day] + 1 ELSE rewards[d]
  BY <1>0 DEF GrantReward
<1>2. rewards' \in [Days -> Nat]
  BY <1>0 DEF GrantReward
<1>3. PICK p \in Participations : p = [status |-> "GRANTED", at |-> day]
  BY <1>0 DEF Participations
<1>4. owner = x
  BY <1>0 DEF SubmissionOf
<1>5. /\ \A d \in Days : d >= day => rewards[d] = 0
      /\ \A d \in Days : rewards[d] > 0 => ~onlyOne /\ day - d >= CooldownDays
  <2>1. CASE participation.status # "GRANTED"
    BY <2>1 DEF FeedbackInv, HistoryOf
  <2>2. CASE participation.status = "GRANTED"
    <3>1. /\ participation.at \in Days /\ participation.at <= day
          /\ \A d \in Days : d > participation.at => rewards[d] = 0
      BY <2>2 DEF FeedbackInv, HistoryOf
    <3>2. submission[x].seen = participation
      BY <1>0, <2>2 DEF SubmissionOf
    <3>3. participation # NotGranted /\ participation.at # NeverRewarded
      BY <2>2, <3>1, NotGrantedRow
    <3>4. participation.at + CooldownDays <= day /\ ~onlyOne
      BY <1>0, <2>2, <3>2, <3>3 DEF SubmissionOf
    <3>5. ASSUME NEW d \in Days
          PROVE  (d >= day => d > participation.at) /\ (d <= participation.at => day - d >= CooldownDays)
      BY <1>0, <3>1, <3>4, FeedbackConstants DEF Days
    <3>6. ASSUME NEW d \in Days PROVE d <= participation.at \/ d > participation.at
      BY <3>1 DEF Days
    <3> QED BY <1>0, <3>1, <3>4, <3>5, <3>6
  <2> QED BY <2>1, <2>2
<1>6. HistoryOf(p)'
  <2>1. \A d \in Days : d > day => rewards'[d] = 0
    BY <1>0, <1>1, <1>5 DEF Days
  <2>2. rewards'[day] = 1
    BY <1>0, <1>1, <1>5 DEF Days
  <2> QED BY <1>0, <1>3, <2>1, <2>2 DEF HistoryOf, Days
<1>7. RewardsAreSpaced'
  <2>1. \A d \in Days : rewards'[d] <= 1
    BY <1>0, <1>1, <1>5 DEF FeedbackInv, RewardsAreSpaced, Days
  <2>2. ASSUME NEW d \in Days, NEW e \in Days, rewards'[d] > 0, rewards'[e] > 0, d < e
        PROVE  ~onlyOne /\ e - d >= CooldownDays
    <3>1. e <= day
      BY <1>0, <1>1, <1>5, <2>2 DEF Days
    <3>2. d # day /\ rewards[d] > 0
      BY <1>0, <1>1, <2>2, <3>1 DEF Days
    <3>3. CASE e = day
      BY <1>5, <3>2, <3>3
    <3>4. CASE e # day
      BY <1>1, <2>2, <3>2, <3>4 DEF FeedbackInv, RewardsAreSpaced
    <3> QED BY <3>3, <3>4
  <2> QED BY <1>0, <2>1, <2>2 DEF RewardsAreSpaced
<1>8. participation' = p
  BY <1>0, <1>3
<1> QED BY <1>0, <1>2, <1>4, <1>6, <1>7, <1>8, EndedKeeps

LEMMA NextDayKeeps == ASSUME FeedbackInv, NextDay PROVE FeedbackInv'
<1>1. /\ day \in Days /\ day' = day + 1 /\ day' \in Days
      /\ UNCHANGED <<onlyOne, participation, owner, submission, rewards>>
  BY FeedbackTypes, FeedbackConstants DEF NextDay, FeedbackInv, Days
<1>2. FeedbackTypeOK'
  BY <1>1 DEF FeedbackInv, FeedbackTypeOK
<1>3. HistoryOf(participation)' /\ RewardsAreSpaced'
  BY <1>1 DEF FeedbackInv, HistoryOf, RewardsAreSpaced, Days
<1>4. ASSUME NEW x \in Submissions PROVE SubmissionOf(x, submission[x])'
  <2>1. SubmissionOf(x, submission[x]) /\ submission[x] \in SubmissionRow
    BY RowOf
  <2>2. submission[x].seen.at \in Int
    BY <2>1, FeedbackConstants DEF SubmissionRow, Participations, NeverRewarded
  <2>3. submission[x].seen.at + CooldownDays <= day => submission[x].seen.at + CooldownDays <= day'
    BY <1>1, <2>2, FeedbackConstants DEF Days
  <2> QED BY <1>1, <2>1, <2>3 DEF SubmissionOf
<1> QED BY <1>2, <1>3, <1>4 DEF FeedbackInv

LEMMA FeedbackInvariance == FeedbackSpec => []FeedbackInv
<1>1. ASSUME FeedbackInv, NEW x \in Submissions, AbortSubmission(x) PROVE FeedbackInv'
  BY <1>1, EndsUnchanged DEF AbortSubmission
<1>2. FeedbackInv /\ FeedbackNext => FeedbackInv'
  BY <1>1, SubmitKeeps, FindKeeps, InsertParticipationKeeps, DecideKeeps, RewardKeeps, NextDayKeeps
  DEF FeedbackNext
<1>3. FeedbackInv /\ UNCHANGED feedbackVars => FeedbackInv'
  BY DEF feedbackVars, FeedbackInv, FeedbackTypeOK, HistoryOf, RewardsAreSpaced, SubmissionOf
<1> QED BY <1>2, <1>3, FeedbackInvInit, PTL DEF FeedbackSpec

\* Submissions, the participation and its rewards are well formed.
THEOREM FeedbackIsWellFormed == FeedbackSpec => []FeedbackTypeOK
<1>1. FeedbackInv => FeedbackTypeOK
  BY DEF FeedbackInv
<1> QED BY <1>1, FeedbackInvariance, PTL

\* Rewards of one participation are the cooldown apart, and one at most when the event
\* says so, for any number of submissions and claims and any number of days.
THEOREM FeedbackRewardsAreSpaced == FeedbackSpec => []RewardsAreSpaced
<1>1. FeedbackInv => RewardsAreSpaced
  BY DEF FeedbackInv
<1> QED BY <1>1, FeedbackInvariance, PTL
=============================================================================
