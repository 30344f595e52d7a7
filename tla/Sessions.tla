------------------------------- MODULE Sessions -------------------------------
(***************************************************************************)
(* The sessions of the users of Accounts: the refresh tokens Redis knows,  *)
(* the access tokens it has blacklisted, and the guards every request       *)
(* passes before its handler.                                              *)
(*                                                                         *)
(* A session is named by the login that opened it.  A guard reads Redis    *)
(* and then the users row; the handler runs after that.                    *)
(***************************************************************************)
EXTENDS Accounts

CONSTANT MaxTokens  \* bound on the access tokens of a session

ASSUME SessionConstants == MaxTokens \in Nat

VARIABLES
    whitelist,   \* sessions whose refresh token is in Redis
    token,       \* the latest access token of a session; 0 before the first
    blacklist,   \* access tokens that were logged out
    loggedOut,   \* sessions a logout was answered for that had both their tokens
    outlived,    \* sessions given an access token while or after they were logged out
    call         \* where a request is in its guard, and what it was when it came

sessionVars == <<whitelist, token, blacklist, loggedOut, outlived, call>>
allSessionVars == <<accountVars, sessionVars>>

NoCall == [pc |-> "idle", session |-> NoUser, token |-> 0, cookie |-> NoUser, welcome |-> FALSE]

SessionsTypeOK ==
    /\ AccountsTypeOK
    /\ whitelist \subseteq SignIns
    /\ token \in [SignIns -> 0..MaxTokens]
    /\ blacklist \subseteq SignIns \X (1..MaxTokens)
    /\ loggedOut \subseteq SignIns
    /\ outlived \subseteq SignIns
    /\ call \in [Visits ->
            [pc : {"idle", "active", "handler", "refresh", "issue", "logout", "remove"},
             session : SignIns \cup {NoUser}, token : 0..MaxTokens,
             cookie : SignIns \cup {NoUser}, welcome : BOOLEAN]]

SessionsInit ==
    /\ AccountsInit
    /\ whitelist = {}
    /\ token = [s \in SignIns |-> 0]
    /\ blacklist = {}
    /\ loggedOut = {}
    /\ outlived = {}
    /\ call = [v \in Visits |-> NoCall]

-------------------------------------------------------------------------------
Called(v, pc) == call[v].pc = pc
Move(v, pc) == call' = [call EXCEPT ![v].pc = pc]
Return(v) == call' = [call EXCEPT ![v] = NoCall]
UserOf(v) == signIn[call[v].session].user
IsActive(u) == account[u].status # "NONE" /\ account[u].active

\* The two handlers that log out look at the refreshToken cookie: it may have come with
\* the request or not, and may be of another session than the access token.
MoveWithCookie(v, pc) ==
    \E s \in {s \in SignIns : signIn[s].pc = "open"} \cup {NoUser} :
        call' = [call EXCEPT ![v].pc = pc, ![v].cookie = s]

\* The login: its refresh token is stored before its rows are committed.
Login(s) ==
    /\ LoginStep(s)
    /\ whitelist' = IF signIn[s].pc = "token" /\ signIn'[s].pc = "commit"
                    THEN whitelist \cup {s} ELSE whitelist
    /\ UNCHANGED <<token, blacklist, loggedOut, outlived, call>>

\* JwtAuthGuard: a token that is signed and not blacklisted; then checkUserActive.
PassBlacklist(v) ==
    /\ Called(v, "idle") /\ At(v, "idle")
    /\ \E s \in SignIns :
        /\ token[s] # 0
        /\ <<s, token[s]>> \notin blacklist
        /\ call' = [call EXCEPT ![v] = [pc |-> "active", session |-> s, token |-> token[s],
                        cookie |-> NoUser, welcome |-> IsActive(signIn[s].user)]]
    /\ UNCHANGED <<accountVars, whitelist, token, blacklist, loggedOut, outlived>>

\* The handlers of Accounts begin with the user the guard lets through.
EnterHandler(v) ==
    /\ Called(v, "active")
    /\ LoadStep(v, UserOf(v))
    /\ IF visit'[v].pc = "unlink" THEN MoveWithCookie(v, "handler") ELSE Move(v, "handler")
    /\ UNCHANGED <<whitelist, token, blacklist, loggedOut, outlived>>

EnterLogout(v) ==
    /\ Called(v, "active")
    /\ IsActive(UserOf(v))
    /\ MoveWithCookie(v, "logout")
    /\ UNCHANGED <<accountVars, whitelist, token, blacklist, loggedOut, outlived>>

Refuse(v) ==
    /\ \/ Called(v, "active") /\ account[UserOf(v)].status = "PENDING"
       \/ Called(v, "active") /\ ~IsActive(UserOf(v))
       \/ Called(v, "refresh") /\ ~IsActive(UserOf(v))
    /\ Return(v)
    /\ UNCHANGED <<accountVars, whitelist, token, blacklist, loggedOut, outlived>>

\* The rest of a handler; a withdrawal goes on with the logout of the tokens it came
\* with, and of no others.
Handle(v) ==
    /\ Called(v, "handler")
    /\ \/ HandlerStep(v) /\ (IF visit'[v].pc = "idle" THEN Return(v) ELSE UNCHANGED call)
       \/ CommitWithdrawal(v) /\ Move(v, "logout")
    /\ UNCHANGED <<whitelist, token, blacklist, loggedOut, outlived>>

\* LogoutUsecase.execute.
BlacklistAccessToken(v) ==
    /\ Called(v, "logout")
    /\ LET s == call[v].session IN
        /\ blacklist' = blacklist \cup {<<s, call[v].token>>}
        /\ outlived' = IF token[s] # call[v].token THEN outlived \cup {s} ELSE outlived
    /\ Move(v, "remove")
    /\ UNCHANGED <<accountVars, whitelist, token, loggedOut>>

\* Mutant: the cookie is cleared and the refresh token kept.
KeepRefreshToken(v) ==
    /\ Called(v, "remove")
    /\ loggedOut' = loggedOut \cup ({call[v].session} \cap {call[v].cookie})
    /\ Return(v)
    /\ UNCHANGED <<accountVars, whitelist, token, blacklist, outlived>>

\* The refresh token of the cookie, if the request had one, leaves Redis.
RemoveRefreshToken(v) ==
    /\ Called(v, "remove")
    /\ whitelist' = whitelist \ {call[v].cookie}
    /\ loggedOut' = loggedOut \cup ({call[v].session} \cap {call[v].cookie})
    /\ Return(v)
    /\ UNCHANGED <<accountVars, token, blacklist, outlived>>

\* JwtRefreshGuard and handleRefresh, with the cookie a login was answered with.
PassWhitelist(v) ==
    /\ Called(v, "idle") /\ At(v, "idle")
    /\ \E s \in whitelist :
        /\ signIn[s].pc = "open"
        /\ token[s] < MaxTokens
        /\ call' = [call EXCEPT ![v] = [pc |-> "refresh", session |-> s, token |-> 0,
                        cookie |-> NoUser, welcome |-> IsActive(signIn[s].user)]]
    /\ UNCHANGED <<accountVars, whitelist, token, blacklist, loggedOut, outlived>>

\* Mutant: the refresh token is trusted.
CheckRefreshUnchecked(v) ==
    /\ Called(v, "refresh")
    /\ Move(v, "issue")
    /\ UNCHANGED <<accountVars, whitelist, token, blacklist, loggedOut, outlived>>

CheckRefreshUser(v) ==
    /\ Called(v, "refresh")
    /\ IsActive(UserOf(v))
    /\ Move(v, "issue")
    /\ UNCHANGED <<accountVars, whitelist, token, blacklist, loggedOut, outlived>>

IssueAccessToken(v) ==
    /\ Called(v, "issue")
    /\ LET s == call[v].session IN
        /\ token[s] < MaxTokens
        /\ token' = [token EXCEPT ![s] = @ + 1]
        /\ outlived' = IF \/ s \in loggedOut
                          \/ \E w \in Visits : Called(w, "remove") /\ call[w].session = s
                       THEN outlived \cup {s} ELSE outlived
    /\ Return(v)
    /\ UNCHANGED <<accountVars, whitelist, blacklist, loggedOut>>

\* The server dies between a withdrawal and its logout.
CrashCall(v) ==
    /\ Called(v, "logout")
    /\ ~IsActive(UserOf(v))
    /\ Return(v)
    /\ UNCHANGED <<accountVars, whitelist, token, blacklist, loggedOut, outlived>>

CallStep(v) ==
    \/ PassBlacklist(v)
    \/ EnterHandler(v)
    \/ EnterLogout(v)
    \/ Refuse(v)
    \/ Handle(v)
    \/ BlacklistAccessToken(v)
    \/ RemoveRefreshToken(v)
    \/ PassWhitelist(v)
    \/ CheckRefreshUser(v)
    \/ IssueAccessToken(v)
    \/ CrashCall(v)

SessionsNext == (\E s \in SignIns : Login(s)) \/ (\E v \in Visits : CallStep(v))

SessionsSpec == SessionsInit /\ [][SessionsNext]_allSessionVars

-------------------------------------------------------------------------------
\* A withdrawn user is served no more, on none of his devices: a request that comes
\* after the withdrawal gets neither a handler nor an access token, although only the
\* session that asked for the withdrawal is logged out and a crash may leave even that
\* one in Redis.  A save over the withdrawal is set aside.
WithdrawnIsRefused ==
    "revived" \notin mishaps
        => \A v \in Visits : call[v].pc \in {"handler", "issue", "logout", "remove"}
                => call[v].welcome

\* A session that was logged out with both its tokens stays closed: its refresh token is
\* gone, and the access token it used last is refused.  A refresh that was on its way when
\* the logout came is set aside.  A logout without the session's cookie promises less: its
\* refresh token stays valid.
LoggedOutStaysOut ==
    \A s \in loggedOut \ outlived : s \notin whitelist /\ <<s, token[s]>> \in blacklist
===============================================================================
