------------------------------- MODULE Accounts -------------------------------
(***************************************************************************)
(* The accounts of one social identity: the first login that creates one,  *)
(* the agreement to the terms with the sign-up reward, renaming, and the    *)
(* withdrawal, which asks the provider to unlink and then forgets the       *)
(* identity but for a hash.                                                *)
(*                                                                         *)
(* LoginUsecase.execute, UserTicketFacade.onBoarding and                   *)
(* UserService.finalizeWithdrawal are transactions: what they write is     *)
(* seen when they commit.  save(user) writes every column it has loaded.   *)
(***************************************************************************)
EXTENDS Naturals, FiniteSets

CONSTANTS
    Users,        \* ids the users table may give out
    SignIns,      \* logins through the provider
    Visits,       \* concurrent requests of a signed-in user
    NoUser,       \* of a request or a login that has no user yet
    MaxMishaps    \* bound on crashes and lost replies

ASSUME AccountConstants == NoUser \notin Users \cup Visits /\ MaxMishaps \in Nat

VARIABLES
    account,      \* the users row: status and is_active
    linked,       \* users with a social_user row of the identity
    remembered,   \* is the identity's hash in withdrawn_user
    rewarded,     \* users whose sign-up reward was granted
    provider,     \* does the provider still know the application
    holder,       \* the visit that has written a users row and not committed
    signIn,       \* where a login is
    visit,        \* where a request is and what it has loaded
    mishaps       \* what has gone wrong, once each

accountVars == <<account, linked, remembered, rewarded, provider, holder, signIn, visit, mishaps>>

Account == [status : {"NONE", "PENDING", "ACTIVE"}, active : BOOLEAN]
NoAccount == [status |-> "NONE", active |-> FALSE]
Away == [pc |-> "idle", user |-> NoUser, saw |-> NoAccount, known |-> FALSE]
Outside == [pc |-> "idle", user |-> NoUser, inserts |-> FALSE]

AccountsTypeOK ==
    /\ account \in [Users -> Account]
    /\ linked \subseteq Users
    /\ remembered \in BOOLEAN
    /\ rewarded \subseteq Users
    /\ provider \in {"linked", "unlinked"}
    /\ holder \in [Users -> Visits \cup {NoUser}]
    /\ signIn \in [SignIns ->
            [pc : {"idle", "create", "save", "token", "commit", "open", "failed"},
             user : Users \cup {NoUser}, inserts : BOOLEAN]]
    /\ visit \in [Visits ->
            [pc : {"idle", "rename", "terms", "rejoined", "grant", "unlink", "revoke",
                   "deactivate", "identify", "forget"},
             user : Users \cup {NoUser}, saw : Account, known : BOOLEAN]]
    /\ mishaps \subseteq {"crash", "reply", "twins", "revived", "relinked"}

AccountsInit ==
    /\ account = [u \in Users |-> NoAccount]
    /\ linked = {}
    /\ remembered = FALSE
    /\ rewarded = {}
    /\ provider = "unlinked"
    /\ holder = [u \in Users |-> NoUser]
    /\ signIn = [s \in SignIns |-> Outside]
    /\ visit = [v \in Visits |-> Away]
    /\ mishaps = {}

Mishap(kind) ==
    /\ kind \notin mishaps
    /\ Cardinality(mishaps \cap {"crash", "reply"}) < MaxMishaps
    /\ mishaps' = mishaps \cup {kind}
At(v, pc) == visit[v].pc = pc
Leave(v) == visit' = [visit EXCEPT ![v] = Away]
Writable(v, u) == holder[u] \in {v, NoUser}

-------------------------------------------------------------------------------
(* The login                                                               *)

\* Nothing makes the identity unique, so two first logins at once do not see each other.
StartsAccount(s) ==
    /\ \E u \in Users :
        /\ account[u].status = "NONE"
        /\ \A z \in SignIns : signIn[z].user # u
        /\ signIn' = [signIn EXCEPT ![s] = [Outside EXCEPT !.pc = "create", !.user = u]]
    /\ mishaps' = IF \E z \in SignIns : /\ signIn[z].pc \in {"create", "token", "commit"}
                                         /\ account[signIn[z].user].status = "NONE"
                  THEN mishaps \cup {"twins"} ELSE mishaps

\* Mutant: the social account is looked up by its email, which has changed.
FindByEmail(s) ==
    /\ signIn[s].pc = "idle"
    /\ provider' = "linked"
    /\ StartsAccount(s)
    /\ UNCHANGED <<account, linked, remembered, rewarded, holder, visit>>

\* The provider has just been asked for consent.
FindSocialUser(s) ==
    /\ signIn[s].pc = "idle"
    /\ provider' = "linked"
    /\ \/ \E u \in linked :
            signIn' = [signIn EXCEPT ![s] = [Outside EXCEPT
                    !.pc = IF account[u].active THEN "save" ELSE "failed", !.user = u]]
          /\ UNCHANGED mishaps
       \/ linked = {} /\ StartsAccount(s)
    /\ UNCHANGED <<account, linked, remembered, rewarded, holder, visit>>

CreateUser(s) ==
    /\ signIn[s].pc = "create"
    /\ signIn' = [signIn EXCEPT ![s].pc = "token", ![s].inserts = TRUE]
    /\ UNCHANGED <<account, linked, remembered, rewarded, provider, holder, visit, mishaps>>

\* The email or the provider's token has changed, and save(socialUser) inserts a row
\* that has been deleted since; or nothing has changed.
SaveSocialUser(s) ==
    /\ signIn[s].pc = "save"
    /\ \E changed \in BOOLEAN :
        signIn' = [signIn EXCEPT ![s].pc = "token",
                                 ![s].inserts = changed /\ signIn[s].user \notin linked]
    /\ UNCHANGED <<account, linked, remembered, rewarded, provider, holder, visit, mishaps>>

\* The refresh token is stored before the commit, and stays when that fails.
IssueRefreshToken(s) ==
    /\ signIn[s].pc = "token"
    /\ signIn' = [signIn EXCEPT ![s].pc = "commit"]
    /\ UNCHANGED <<account, linked, remembered, rewarded, provider, holder, visit, mishaps>>

CommitLogin(s) ==
    /\ signIn[s].pc = "commit"
    /\ LET u == signIn[s].user IN
        /\ account' = IF account[u].status = "NONE"
                      THEN [account EXCEPT ![u] = [status |-> "PENDING", active |-> TRUE]]
                      ELSE account
        /\ linked' = IF signIn[s].inserts THEN linked \cup {u} ELSE linked
        /\ mishaps' = IF signIn[s].inserts /\ account[u].status # "NONE" /\ ~account[u].active
                      THEN mishaps \cup {"relinked"} ELSE mishaps
    /\ signIn' = [signIn EXCEPT ![s].pc = "open"]
    /\ UNCHANGED <<remembered, rewarded, provider, holder, visit>>

CrashLogin(s) ==
    /\ signIn[s].pc \in {"create", "save", "token", "commit"}
    /\ Mishap("crash")
    /\ signIn' = [signIn EXCEPT ![s].pc = "failed"]
    /\ UNCHANGED <<account, linked, remembered, rewarded, provider, holder, visit>>

-------------------------------------------------------------------------------
(* The requests of a signed-in user, after JwtAuthGuard                    *)

\* checkUserActive, and the row the handler loads; only agreeTerms is for a PENDING user.
Visit(v, u, pc, statuses) ==
    /\ At(v, "idle")
    /\ account[u].status \in statuses
    /\ account[u].active
    /\ visit' = [visit EXCEPT ![v] = [Away EXCEPT !.pc = pc, !.user = u, !.saw = account[u]]]
    /\ UNCHANGED <<account, linked, remembered, rewarded, provider, holder, signIn, mishaps>>

LoadForRename(v, u) == Visit(v, u, "rename", {"ACTIVE"})
LoadForTerms(v, u) == Visit(v, u, "terms", {"PENDING"})
LoadForWithdrawal(v, u) == Visit(v, u, "unlink", {"ACTIVE"})

\* A row deactivated since it was loaded becomes active again.
Revives(v, u) == visit[v].saw.active /\ ~account[u].active
SavedOver(v, u) == mishaps' = IF Revives(v, u) THEN mishaps \cup {"revived"} ELSE mishaps

SaveName(v) ==
    /\ At(v, "rename")
    /\ LET u == visit[v].user IN
        /\ Writable(v, u)
        /\ account' = [account EXCEPT ![u] = visit[v].saw]
        /\ SavedOver(v, u)
    /\ Leave(v)
    /\ UNCHANGED <<linked, remembered, rewarded, provider, holder, signIn>>

\* The agreements are unique per user and term, so one of two requests waits for the
\* other; it is aborted if it has already looked for them.
SaveAgreement(v, u) ==
    /\ Writable(v, u)
    /\ \/ /\ visit' = [visit EXCEPT ![v].pc = "rejoined"]
          /\ holder' = [holder EXCEPT ![u] = v]
       \/ account[u].status = "ACTIVE" /\ Leave(v) /\ UNCHANGED holder

AgreeTerms(v) ==
    /\ At(v, "terms")
    /\ SaveAgreement(v, visit[v].user)
    /\ UNCHANGED <<account, linked, remembered, rewarded, provider, signIn, mishaps>>

CheckIfWithdrawn(v) ==
    /\ At(v, "rejoined")
    /\ visit' = [visit EXCEPT ![v].pc = "grant",
                              ![v].known = visit[v].user \in linked /\ remembered]
    /\ UNCHANGED <<account, linked, remembered, rewarded, provider, holder, signIn, mishaps>>

CommitOnBoarding(v) ==
    /\ At(v, "grant")
    /\ LET u == visit[v].user IN
        /\ rewarded' = IF visit[v].known THEN rewarded ELSE rewarded \cup {u}
        /\ account' = [account EXCEPT ![u] = [visit[v].saw EXCEPT !.status = "ACTIVE"]]
        /\ SavedOver(v, u)
        /\ holder' = [holder EXCEPT ![u] = NoUser]
    /\ Leave(v)
    /\ UNCHANGED <<linked, remembered, provider, signIn>>

-------------------------------------------------------------------------------
(* The withdrawal                                                          *)

\* A user without a social account has nothing to unlink; Google is asked with the
\* token in the row.
UnlinkSocialAccount(v) ==
    /\ At(v, "unlink")
    /\ visit' = [visit EXCEPT ![v].pc =
                    IF visit[v].user \in linked THEN "revoke" ELSE "deactivate"]
    /\ UNCHANGED <<account, linked, remembered, rewarded, provider, holder, signIn, mishaps>>

\* What comes back from a provider: nothing, an HTTP error, a body that breaks off, JSON
\* with an error, JSON with a token, or anything else, which parseJson takes for null.
Replies == {"none", "refusal", "broken", "error", "token", "other"}
Request(reply) == reply # "none"
EnsureSuccessResponse(reply) == Request(reply) /\ reply # "refusal"
ReadResponseText(reply) == EnsureSuccessResponse(reply) /\ reply # "broken"
ParseJson(reply) == IF reply \in {"error", "token"} THEN reply ELSE "null"

\* SOCIAL_UNLINK_FAILED: the withdrawal ends here.
UnlinkFailure(v) == Leave(v)

\* Kakao and Naver want an access token first, which they do not give once they have
\* unlinked the application.
RefreshAccessToken(v) ==
    /\ At(v, "unlink")
    /\ visit[v].user \in linked
    /\ \E reply \in Replies :
        IF ReadResponseText(reply) /\ ParseJson(reply) = "token"
        THEN provider = "linked" /\ visit' = [visit EXCEPT ![v].pc = "revoke"]
        ELSE UnlinkFailure(v)
    /\ UNCHANGED <<account, linked, remembered, rewarded, provider, holder, signIn, mishaps>>

\* The call that unlinks.  Of Google's and Kakao's answer only the status is looked at,
\* in Naver's an error, so what is no JSON passes.  A call may be done and fail here.
RevokeAccess(v) ==
    /\ At(v, "revoke")
    /\ \E reply \in Replies \ {"token"}, done \in BOOLEAN, naver \in BOOLEAN :
        LET accepted == IF naver THEN ReadResponseText(reply) /\ ParseJson(reply) # "error"
                        ELSE EnsureSuccessResponse(reply)
        IN /\ accepted => done
           /\ done => provider = "linked"
           /\ provider' = IF done THEN "unlinked" ELSE provider
           /\ IF accepted THEN visit' = [visit EXCEPT ![v].pc = "deactivate"] ELSE UnlinkFailure(v)
           /\ IF done = accepted THEN UNCHANGED mishaps ELSE Mishap("reply")
    /\ UNCHANGED <<account, linked, remembered, rewarded, holder, signIn>>

\* Mutant: the rows are not written in one transaction.
DeactivateAtOnce(v) ==
    /\ At(v, "deactivate")
    /\ LET u == visit[v].user IN
        /\ Writable(v, u)
        /\ IF account[u].active
           THEN /\ visit' = [visit EXCEPT ![v].pc = "identify"]
                /\ account' = [account EXCEPT ![u].active = FALSE]
           ELSE Leave(v) /\ UNCHANGED account
    /\ UNCHANGED <<linked, remembered, rewarded, provider, holder, signIn, mishaps>>

\* deactivateById: of two withdrawals the second waits and finds nothing to update.
DeactivateById(v) ==
    /\ At(v, "deactivate")
    /\ LET u == visit[v].user IN
        /\ Writable(v, u)
        /\ IF account[u].active
           THEN /\ visit' = [visit EXCEPT ![v].pc = "identify"]
                /\ holder' = [holder EXCEPT ![u] = v]
           ELSE Leave(v) /\ UNCHANGED holder
    /\ UNCHANGED <<account, linked, remembered, rewarded, provider, signIn, mishaps>>

ReadSocialUser(v) ==
    /\ At(v, "identify")
    /\ visit' = [visit EXCEPT ![v].pc = "forget", ![v].known = visit[v].user \in linked]
    /\ UNCHANGED <<account, linked, remembered, rewarded, provider, holder, signIn, mishaps>>

CommitWithdrawal(v) ==
    /\ At(v, "forget")
    /\ LET u == visit[v].user IN
        /\ account' = [account EXCEPT ![u].active = FALSE]
        /\ remembered' = (remembered \/ visit[v].known)
        /\ linked' = linked \ {u}
        /\ holder' = [holder EXCEPT ![u] = NoUser]
    /\ Leave(v)
    /\ UNCHANGED <<rewarded, provider, signIn, mishaps>>

CrashVisit(v) ==
    /\ ~At(v, "idle")
    /\ Mishap("crash")
    /\ holder' = [u \in Users |-> IF holder[u] = v THEN NoUser ELSE holder[u]]
    /\ Leave(v)
    /\ UNCHANGED <<account, linked, remembered, rewarded, provider, signIn>>

-------------------------------------------------------------------------------
LoginStep(s) ==
    \/ FindSocialUser(s)
    \/ CreateUser(s)
    \/ SaveSocialUser(s)
    \/ IssueRefreshToken(s)
    \/ CommitLogin(s)
    \/ CrashLogin(s)

LoadStep(v, u) == LoadForRename(v, u) \/ LoadForTerms(v, u) \/ LoadForWithdrawal(v, u)

HandlerStep(v) ==
    \/ SaveName(v)
    \/ AgreeTerms(v)
    \/ CheckIfWithdrawn(v)
    \/ CommitOnBoarding(v)
    \/ UnlinkSocialAccount(v)
    \/ RefreshAccessToken(v)
    \/ RevokeAccess(v)
    \/ DeactivateById(v)
    \/ ReadSocialUser(v)
    \/ CrashVisit(v)

VisitStep(v) ==
    \/ \E u \in Users : LoadStep(v, u)
    \/ HandlerStep(v)
    \/ CommitWithdrawal(v)

AccountsNext == (\E s \in SignIns : LoginStep(s)) \/ (\E v \in Visits : VisitStep(v))

AccountsSpec == AccountsInit /\ [][AccountsNext]_accountVars

-------------------------------------------------------------------------------
Withdrawn(u) == account[u].status # "NONE" /\ ~account[u].active

\* A withdrawn user leaves nothing behind but the hash of the identity, whatever
\* crashes and however many withdrawals run: no social account is left, and the hash
\* is there to be recognised by.  A login that saves the deleted social account again
\* and a save over the withdrawal are set aside.
WithdrawnLeavesOnlyHash ==
    mishaps \cap {"relinked", "revived"} = {}
        => \A u \in Users : Withdrawn(u) => u \notin linked /\ remembered

\* Withdrawing and joining again does not earn the sign-up reward twice: one reward
\* per identity, although the reward is unique per user only.  Two first logins at
\* once, and an agreement saved over a withdrawal, are set aside.
RewardedOncePerIdentity ==
    mishaps \cap {"twins", "revived"} = {} => Cardinality(rewarded) <= 1
=============================================================================
