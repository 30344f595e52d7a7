------------------------------- MODULE Feedback -------------------------------
(***************************************************************************)
(* Feedback submissions of one user to one event with rewards              *)
(* (SubmitFeedbackFacade), beside the claims of the same participation: an *)
(* answer is always taken, and rewarded again when the last reward is      *)
(* CooldownDays old, unless the event allows one reward only.              *)
(*                                                                         *)
(* A submission and a claim are one transaction each.  `owner' has the     *)
(* lock of the participation, or has inserted it and not committed; what   *)
(* is written is seen when the transaction commits, in its last step.      *)
(***************************************************************************)
EXTENDS Naturals

CONSTANTS
    Submissions,    \* executions of submit and claimEventReward
    Unheld,         \* of a participation no transaction holds
    CooldownDays,   \* REWARD_COOLDOWN_DAYS
    LastDay         \* bound of the time

ASSUME FeedbackConstants ==
    CooldownDays \in Nat \ {0} /\ LastDay \in Nat /\ Unheld \notin Submissions

VARIABLES
    day,            \* new Date(), in days
    onlyOne,        \* opsConfig.allowMultipleRewards === false
    participation,  \* the committed row: its reward status and rewardGrantedAt
    owner,          \* the transaction that has locked or inserted it
    submission,     \* where a transaction is, and what it has read
    rewards         \* ticket grants of the participation, per day

feedbackVars == <<day, onlyOne, participation, owner, submission, rewards>>

Days == 0..LastDay
NeverRewarded == LastDay + 1
NotGranted == [status |-> "NOT_GRANTED", at |-> NeverRewarded]
Idling == [pc |-> "idle", claim |-> FALSE, seen |-> NotGranted]

FeedbackTypeOK ==
    /\ day \in Days
    /\ onlyOne \in BOOLEAN
    /\ LET Participation == [status : {"NONE", "NOT_GRANTED", "GRANTED"}, at : 0..NeverRewarded]
       IN /\ participation \in Participation
          /\ submission \in [Submissions ->
                [pc : {"idle", "find", "create", "decide", "reward"}, claim : BOOLEAN,
                 seen : Participation]]
    /\ owner \in Submissions \cup {Unheld}
    /\ rewards \in [Days -> Nat]

FeedbackInit ==
    /\ day = 0
    /\ onlyOne \in BOOLEAN
    /\ participation = [NotGranted EXCEPT !.status = "NONE"]
    /\ owner = Unheld
    /\ submission = [x \in Submissions |-> Idling]
    /\ rewards = [d \in Days |-> 0]

-------------------------------------------------------------------------------
Doing(x, pc) == submission[x].pc = pc

Submit(x) ==
    /\ Doing(x, "idle")
    /\ \E claim \in BOOLEAN :
        submission' = [submission EXCEPT ![x] = [Idling EXCEPT !.pc = "find", !.claim = claim]]
    /\ UNCHANGED <<day, onlyOne, participation, owner, rewards>>

\* Mutant: the participation is read without FOR UPDATE.
FindUnlocked(x) ==
    /\ Doing(x, "find")
    /\ submission' = [submission EXCEPT ![x] =
            IF participation.status = "NONE" THEN [@ EXCEPT !.pc = "create"]
            ELSE [@ EXCEPT !.pc = "decide", !.seen = participation]]
    /\ UNCHANGED <<day, onlyOne, participation, owner, rewards>>

\* getOrCreateParticipationForUpdate locks a committed row, waiting for the one who holds it ...
FindParticipation(x) ==
    /\ Doing(x, "find")
    /\ \/ /\ participation.status = "NONE"
          /\ submission' = [submission EXCEPT ![x].pc = "create"]
          /\ UNCHANGED owner
       \/ /\ participation.status # "NONE"
          /\ owner = Unheld
          /\ owner' = x
          /\ submission' = [submission EXCEPT ![x].pc = "decide", ![x].seen = participation]
    /\ UNCHANGED <<day, onlyOne, participation, rewards>>

Ended(x) == submission' = [submission EXCEPT ![x] = Idling]

\* ... or inserts it, waiting for another insertion; a unique violation has aborted the
\* transaction when the catch block looks for the row.
InsertParticipation(x) ==
    /\ Doing(x, "create")
    /\ owner = Unheld
    /\ IF participation.status = "NONE"
       THEN /\ owner' = x
            /\ submission' = [submission EXCEPT ![x].pc = "decide"]
       ELSE Ended(x) /\ UNCHANGED owner
    /\ UNCHANGED <<day, onlyOne, participation, rewards>>

Release(x) == owner' = (IF owner = x THEN Unheld ELSE owner)

IsRewardCooldownElapsed(x) ==
    submission[x].seen.at = NeverRewarded \/ submission[x].seen.at + CooldownDays <= day
Suppressed(x) ==
    onlyOne /\ (submission[x].seen.status = "GRANTED" \/ submission[x].seen.at # NeverRewarded)

\* What the transaction goes on to; an answer that is not rewarded is committed with the
\* participation it may have inserted, a second claim is refused.
Decide(x) ==
    /\ Doing(x, "decide")
    /\ IF submission[x].claim
       THEN IF submission[x].seen = NotGranted
            THEN /\ submission' = [submission EXCEPT ![x].pc = "reward"]
                 /\ UNCHANGED <<participation, owner>>
            ELSE /\ Ended(x)
                 /\ Release(x)
                 /\ UNCHANGED participation
       ELSE IF IsRewardCooldownElapsed(x) /\ ~Suppressed(x)
            THEN /\ submission' = [submission EXCEPT ![x].pc = "reward"]
                 /\ UNCHANGED <<participation, owner>>
            ELSE /\ participation' = submission[x].seen
                 /\ Ended(x)
                 /\ Release(x)
    /\ UNCHANGED <<day, onlyOne, rewards>>

\* issueGrantAndTickets and the participation, dated by a second new Date(); commit.
GrantReward(x) ==
    /\ Doing(x, "reward")
    /\ rewards' = [rewards EXCEPT ![day] = @ + 1]
    /\ participation' = [status |-> "GRANTED", at |-> day]
    /\ Ended(x)
    /\ Release(x)
    /\ UNCHANGED <<day, onlyOne>>

\* A form of another event, an exception or a process death: all is rolled back.
AbortSubmission(x) ==
    /\ ~Doing(x, "idle")
    /\ Ended(x)
    /\ Release(x)
    /\ UNCHANGED <<day, onlyOne, participation, rewards>>

NextDay ==
    /\ day < LastDay
    /\ day' = day + 1
    /\ UNCHANGED <<onlyOne, participation, owner, submission, rewards>>

FeedbackNext ==
    \/ \E x \in Submissions :
        \/ Submit(x)
        \/ FindParticipation(x)
        \/ InsertParticipation(x)
        \/ Decide(x)
        \/ GrantReward(x)
        \/ AbortSubmission(x)
    \/ NextDay

FeedbackSpec == FeedbackInit /\ [][FeedbackNext]_feedbackVars

-------------------------------------------------------------------------------
\* Rewards of one participation are CooldownDays apart, and there is one at most when the
\* event says so, however submissions and claims overlap and whenever midnight comes.
RewardsAreSpaced ==
    /\ \A d \in Days : rewards[d] <= 1
    /\ \A d, e \in Days :
        rewards[d] > 0 /\ rewards[e] > 0 /\ d < e => ~onlyOne /\ e - d >= CooldownDays
=============================================================================
