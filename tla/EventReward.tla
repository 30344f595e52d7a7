----------------------------- MODULE EventReward -----------------------------
(***************************************************************************)
(* Event rewards of one user: EventRewardLifecycleFacade and the           *)
(* administrator's AdminEventRewardFacade, over the inventory of           *)
(* TicketLedger.                                                           *)
(*                                                                         *)
(* `row' holds the committed event_participation rows.  A grant request is *)
(* one transaction: `lock' is its row lock, or the unique key (user_id,    *)
(* event_id) of a row it has inserted and not committed.  Its last step    *)
(* commits the reward status and the tickets together; an exception or a   *)
(* crash only releases the lock.  So no row is ever committed NOT_GRANTED. *)
(***************************************************************************)
EXTENDS TicketLedger

CONSTANTS
    Events,     \* active events
    SignUp,     \* those whose code begins with SIGNUP_
    Manual,     \* those with opsConfig.manualRewardOnly
    Multiple,   \* those with opsConfig.allowMultipleRewards
    Reward,     \* tickets of this type in a reward
    Grants,     \* concurrent requests that grant a reward
    Free,       \* of a lock nobody holds
    NoEvent,    \* of an idle request
    MaxGrants   \* bound of the rewards of one event

ASSUME RewardConstants ==
    /\ Events \subseteq Sources
    /\ SignUp \subseteq Events
    /\ Manual \subseteq Events
    /\ Multiple \subseteq Events
    /\ Reward \in Nat
    /\ Free \notin Grants
    /\ NoEvent \notin Events
    /\ MaxGrants \in Nat

VARIABLES
    row,        \* event_participation.reward_status; "NONE" before the row exists
    lock,       \* the transaction that has locked or inserted the row
    grants,     \* ticket_grant rows whose source_ref_id is the participation
    request     \* where a grant request is, who makes it, and its event

rewardVars == <<row, lock, grants, request>>
allVars == <<rewardVars, ledgerVars>>

Kinds == {"claim", "signup", "admin"}
RequestState == {"idle", "find", "create", "grant"}

RewardTypeOK ==
    /\ LedgerTypeOK
    /\ row \in [Events -> {"NONE", "GRANTED"}]
    /\ lock \in [Events -> Grants \cup {Free}]
    /\ grants \in [Events -> 0..MaxGrants]
    /\ request \in [Grants ->
            [pc : RequestState, kind : Kinds, event : Events \cup {NoEvent}]]

IdleRequest == [pc |-> "idle", kind |-> "claim", event |-> NoEvent]

RewardInit ==
    /\ LedgerInit
    /\ row = [e \in Events |-> "NONE"]
    /\ lock = [e \in Events |-> Free]
    /\ grants = [e \in Events |-> 0]
    /\ request = [g \in Grants |-> IdleRequest]

-------------------------------------------------------------------------------
\* POST /events/:eventCode/reward-claim refuses manual events, the administrator
\* may grant only those, and onBoarding looks for a sign-up event.
MayGrant(kind, e) ==
    \/ kind = "claim" /\ e \notin Manual
    \/ kind = "admin" /\ e \in Manual
    \/ kind = "signup" /\ e \in SignUp

Begin(g, kind, e) ==
    /\ request[g].pc = "idle"
    /\ MayGrant(kind, e)
    /\ request' = [request EXCEPT ![g] = [pc |-> "find", kind |-> kind, event |-> e]]
    /\ UNCHANGED <<row, lock, grants, ledgerVars>>

\* A row that says GRANTED ends the request: an error for a claim and for the
\* administrator (unless the event allows several rewards), a return for a sign-up.
Refused(g) ==
    /\ row[request[g].event] = "GRANTED"
    /\ ~(request[g].kind = "admin" /\ request[g].event \in Multiple)

\* findByUserIdAndEventIdForUpdate does not see a row that is not committed, and
\* waits for the transaction that has locked a committed one.
FindForUpdate(g) ==
    LET e == request[g].event IN
    /\ request[g].pc = "find"
    /\ \/ /\ row[e] = "NONE"
          /\ request' = [request EXCEPT ![g].pc = "create"]
          /\ UNCHANGED lock
       \/ /\ row[e] # "NONE"
          /\ lock[e] = Free
          /\ Refused(g)
          /\ request' = [request EXCEPT ![g] = IdleRequest]
          /\ UNCHANGED lock
       \/ /\ row[e] # "NONE"
          /\ lock[e] = Free
          /\ ~Refused(g)
          /\ request' = [request EXCEPT ![g].pc = "grant"]
          /\ lock' = [lock EXCEPT ![e] = g]
    /\ UNCHANGED <<row, grants, ledgerVars>>

\* Mutant: no unique key on (user_id, event_id).
CreateDuplicate(g) ==
    LET e == request[g].event IN
    /\ request[g].pc = "create"
    /\ request' = [request EXCEPT ![g].pc = "grant"]
    /\ lock' = [lock EXCEPT ![e] = g]
    /\ UNCHANGED <<row, grants, ledgerVars>>

\* create: the INSERT waits for an uncommitted row with the same key.  When that
\* one commits, the unique violation aborts the transaction, so the SELECT in the
\* catch block fails too and the whole request is rolled back.
CreateParticipation(g) ==
    LET e == request[g].event IN
    /\ request[g].pc = "create"
    /\ lock[e] = Free
    /\ \/ /\ row[e] = "NONE"
          /\ request' = [request EXCEPT ![g].pc = "grant"]
          /\ lock' = [lock EXCEPT ![e] = g]
       \/ /\ row[e] # "NONE"
          /\ request' = [request EXCEPT ![g] = IdleRequest]
          /\ UNCHANGED lock
    /\ UNCHANGED <<row, grants, ledgerVars>>

\* The participation becomes GRANTED and issueGrantAndTickets inserts the grant and
\* its tickets; the transaction commits.  An administrator may give other rewards
\* for an event that allows several.
Grant(g) ==
    LET e == request[g].event IN
    /\ request[g].pc = "grant"
    /\ grants[e] < MaxGrants
    /\ \E ids \in SUBSET Tickets :
        /\ \/ Cardinality(ids) = Reward
           \/ request[g].kind = "admin" /\ e \in Multiple
        /\ Issue(e, ids)
    /\ row' = [row EXCEPT ![e] = "GRANTED"]
    /\ grants' = [grants EXCEPT ![e] = @ + 1]
    /\ lock' = [lock EXCEPT ![e] = Free]
    /\ request' = [request EXCEPT ![g] = IdleRequest]

\* An exception or a process death: a rollback, the inserted row included.
AbortGrant(g) ==
    /\ request[g].pc # "idle"
    /\ lock' = [e \in Events |-> IF lock[e] = g THEN Free ELSE lock[e]]
    /\ request' = [request EXCEPT ![g] = IdleRequest]
    /\ UNCHANGED <<row, grants, ledgerVars>>

GrantStep(g) ==
    \/ \E kind \in Kinds, e \in Events : Begin(g, kind, e)
    \/ FindForUpdate(g)
    \/ CreateParticipation(g)
    \/ Grant(g)
    \/ AbortGrant(g)

RewardNext ==
    \/ \E g \in Grants : GrantStep(g)
    \/ SpendStep /\ UNCHANGED rewardVars

RewardSpec == RewardInit /\ [][RewardNext]_allVars

-------------------------------------------------------------------------------
\* An event that does not allow several rewards gives its Reward tickets at most
\* once, whoever asks: two claims, a claim and a sign-up, two administrators.
RewardedOnce ==
    \A e \in Events \ Multiple :
        /\ grants[e] \in {0, 1}
        /\ Cardinality(TicketsOf(e)) = Reward * grants[e]
=============================================================================
