---------------------------- MODULE SessionsProofs ----------------------------
(***************************************************************************)
(* Accounts and sessions, for any number of users, logins and requests:    *)
(* what a withdrawal leaves behind, the one sign-up reward of an identity, *)
(* and that neither a withdrawn user nor a closed session is served.       *)
(*                                                                         *)
(* The inductive invariants say what a handler that holds a users row      *)
(* knows of it: nobody else writes the row until the transaction ends.     *)
(***************************************************************************)
EXTENDS Sessions, FiniteSetTheorems, TLAPS

Holding == {"rejoined", "grant", "identify", "forget"}

\* A request works for a user it has found active, and holds the row it has written.
VisitInv ==
    \A v \in Visits : visit[v].pc # "idle" =>
        /\ visit[v].user \in Users
        /\ visit[v].saw.active
        /\ visit[v].saw.status # "NONE"
        /\ account[visit[v].user].status # "NONE"
        /\ visit[v].pc \in Holding => holder[visit[v].user] = v
        /\ visit[v].pc \in {"identify", "forget"} => account[visit[v].user].active

\* A login that creates an account inserts its social account with it.
LoginInv ==
    /\ \A s \in SignIns : signIn[s].pc # "idle" => signIn[s].user \in Users
    /\ \A s \in SignIns :
        signIn[s].pc \in {"token", "commit"} /\ account[signIn[s].user].status = "NONE"
            => signIn[s].inserts
    /\ \A s \in SignIns : signIn[s].pc \in {"save", "open"} => account[signIn[s].user].status # "NONE"
    /\ \A u \in linked \cup rewarded : account[u].status # "NONE"

Serving(u) == account[u].status # "NONE" /\ account[u].active

\* Without a save over a withdrawal the users who are served are those with a social
\* account, and a withdrawal finds the hash it leaves.
LinkInv ==
    "revived" \notin mishaps =>
        /\ \A u \in Users : Serving(u) => u \in linked
        /\ \A v \in Visits : visit[v].pc = "forget" => visit[v].known
        /\ \A u \in Users : Withdrawn(u) => remembered
        /\ "relinked" \notin mishaps => \A u \in Users : Withdrawn(u) => u \notin linked

\* The user of the identity, or the one a first login is about to create.
Current(u) ==
    \/ Serving(u)
    \/ /\ account[u].status = "NONE"
       /\ \E s \in SignIns : signIn[s].pc \in {"create", "token", "commit"} /\ signIn[s].user = u

\* There is one such user; a grant that was not refused is the first.
RewardInv ==
    mishaps \cap {"twins", "revived"} = {} =>
        /\ \A u, w \in Users : Current(u) /\ Current(w) => u = w
        /\ \A u, w \in rewarded : u = w
        /\ \A v \in Visits :
            visit[v].pc = "grant" /\ ~visit[v].known /\ account[visit[v].user].active
                => rewarded \subseteq {visit[v].user}

AccountsInv == AccountsTypeOK /\ VisitInv /\ LoginInv /\ LinkInv /\ RewardInv

\* Initially there is no account.
LEMMA AccountsInvInit == AccountsInit => AccountsInv
<1> SUFFICES ASSUME AccountsInit PROVE AccountsInv
  OBVIOUS
<1>1. AccountsTypeOK
  BY DEF AccountsInit, AccountsTypeOK, Account, NoAccount, Away, Outside
<1>2. VisitInv /\ LoginInv
  BY DEF AccountsInit, VisitInv, LoginInv, Away, Outside
<1>3. LinkInv /\ RewardInv
  BY DEF AccountsInit, LinkInv, RewardInv, NoAccount, Away, Outside, Serving, Current, Withdrawn
<1> QED BY <1>1, <1>2, <1>3 DEF AccountsInv

SignInRow ==
    [pc : {"idle", "create", "save", "token", "commit", "open", "failed"},
     user : Users \cup {NoUser}, inserts : BOOLEAN]
Mishaps == {"crash", "reply", "twins", "revived", "relinked"}
Creates(row) == row.pc \in {"create", "token", "commit"}

\* A step of a login that writes no row: it goes on for the user it had, or creates one
\* where nobody is served or being created, or is one of two that do.
LEMMA LoginMoves ==
    ASSUME AccountsInv, NEW s \in SignIns, NEW row \in SignInRow,
           signIn' = [signIn EXCEPT ![s] = row],
           row.user \in Users,
           row.pc \in {"token", "commit"} /\ account[row.user].status = "NONE" => row.inserts,
           row.pc \in {"save", "open"} => account[row.user].status # "NONE",
           \/ ~Creates(row) \/ account[row.user].status # "NONE"
           \/ Creates(signIn[s]) /\ signIn[s].user = row.user
           \/ \A u \in Users : ~Current(u)
           \/ mishaps' \cap {"twins", "revived"} # {},
           provider' \in {"linked", "unlinked"},
           mishaps \subseteq mishaps', mishaps' \subseteq Mishaps,
           UNCHANGED <<account, linked, remembered, rewarded, holder, visit>>
    PROVE  AccountsInv'
<1> USE DEF AccountsInv
<1>1. AccountsTypeOK'
  BY DEF AccountsTypeOK, SignInRow, Mishaps
<1>2. VisitInv' /\ LinkInv'
  BY DEF VisitInv, LinkInv, Serving, Withdrawn
<1>3. LoginInv'
  BY DEF AccountsTypeOK, LoginInv
<1>4. RewardInv'
  <2> SUFFICES ASSUME mishaps' \cap {"twins", "revived"} = {} PROVE RewardInv'
    BY DEF RewardInv
  <2>1. \A u \in Users : Current(u)' => Current(u) \/ (u = row.user /\ \A w \in Users : ~Current(w))
    BY DEF AccountsTypeOK, Current, Serving, Creates
  <2> QED BY <2>1 DEF RewardInv
<1> QED BY <1>1, <1>2, <1>3, <1>4

\* What a login has read, stored and created before it commits; or it dies.
LEMMA LoginStepKeeps ==
    ASSUME AccountsInv, NEW s \in SignIns,
           FindSocialUser(s) \/ CreateUser(s) \/ SaveSocialUser(s) \/ IssueRefreshToken(s) \/ CrashLogin(s)
    PROVE  AccountsInv'
<1> USE DEF AccountsInv
<1>0. /\ signIn[s] \in SignInRow
      /\ provider \in {"linked", "unlinked"} /\ mishaps \subseteq Mishaps
      /\ signIn[s].pc # "idle" => signIn[s].user \in Users
  BY DEF AccountsTypeOK, SignInRow, Mishaps, LoginInv
<1>1. CASE FindSocialUser(s) /\ linked = {}
  <2>1. PICK u \in Users :
          /\ account[u].status = "NONE"
          /\ signIn' = [signIn EXCEPT ![s] = [Outside EXCEPT !.pc = "create", !.user = u]]
    BY <1>1 DEF FindSocialUser, StartsAccount
  <2>2. \/ mishaps' \cap {"twins", "revived"} # {}
        \/ \A w \in Users : ~Current(w)
    BY <1>1 DEF FindSocialUser, StartsAccount, LinkInv, Current
  <2> DEFINE row == [Outside EXCEPT !.pc = "create", !.user = u]
  <2>3. row \in SignInRow /\ row.pc = "create" /\ row.user = u
    BY DEF SignInRow, Outside
  <2>4. /\ provider' = "linked" /\ mishaps \subseteq mishaps' /\ mishaps' \subseteq Mishaps
        /\ UNCHANGED <<account, linked, remembered, rewarded, holder, visit>>
    BY <1>0, <1>1 DEF FindSocialUser, StartsAccount, Mishaps
  <2> HIDE DEF row
  <2> QED BY <2>1, <2>2, <2>3, <2>4, LoginMoves DEF row, AccountsInv
<1>2. CASE FindSocialUser(s) /\ linked # {}
  <2>1. PICK u \in linked, pc \in {"save", "failed"} :
          signIn' = [signIn EXCEPT ![s] = [Outside EXCEPT !.pc = pc, !.user = u]]
    BY <1>2 DEF FindSocialUser
  <2> DEFINE row == [Outside EXCEPT !.pc = pc, !.user = u]
  <2>2. u \in Users /\ account[u].status # "NONE"
    BY DEF AccountsTypeOK, LoginInv
  <2>3. row \in SignInRow /\ row.pc \in {"save", "failed"} /\ row.user = u
    BY <2>2 DEF SignInRow, Outside
  <2>4. /\ provider' = "linked" /\ mishaps' = mishaps
        /\ UNCHANGED <<account, linked, remembered, rewarded, holder, visit>>
    BY <1>2 DEF FindSocialUser
  <2> HIDE DEF row
  <2> QED BY <1>0, <2>1, <2>2, <2>3, <2>4, LoginMoves DEF row, Creates
<1>3. CASE CreateUser(s) \/ SaveSocialUser(s) \/ IssueRefreshToken(s) \/ CrashLogin(s)
  <2>1. PICK pc \in {"token", "commit", "failed"}, inserts \in BOOLEAN :
          /\ signIn' = [signIn EXCEPT ![s] = [signIn[s] EXCEPT !.pc = pc, !.inserts = inserts]]
          /\ pc # "failed" /\ account[signIn[s].user].status = "NONE" => inserts
          /\ pc # "failed" /\ account[signIn[s].user].status = "NONE" => Creates(signIn[s])
    <3>1. CASE CreateUser(s)
      <4>1. signIn' = [signIn EXCEPT ![s] = [signIn[s] EXCEPT !.pc = "token", !.inserts = TRUE]]
        BY <1>0, <3>1 DEF CreateUser, AccountsTypeOK
      <4> QED BY <3>1, <4>1 DEF CreateUser, Creates
    <3>2. CASE SaveSocialUser(s)
      <4>1. PICK inserts \in BOOLEAN :
              signIn' = [signIn EXCEPT ![s] = [signIn[s] EXCEPT !.pc = "token", !.inserts = inserts]]
        BY <1>0, <3>2 DEF SaveSocialUser, AccountsTypeOK
      <4>2. account[signIn[s].user].status # "NONE"
        BY <3>2 DEF SaveSocialUser, LoginInv
      <4> QED BY <4>1, <4>2
    <3>3. CASE IssueRefreshToken(s)
      <4>1. signIn' = [signIn EXCEPT ![s] =
                [signIn[s] EXCEPT !.pc = "commit", !.inserts = signIn[s].inserts]]
        BY <1>0, <3>3 DEF IssueRefreshToken, AccountsTypeOK, SignInRow
      <4> QED BY <1>0, <3>3, <4>1 DEF IssueRefreshToken, LoginInv, Creates, SignInRow
    <3>4. CASE CrashLogin(s)
      <4>1. signIn' = [signIn EXCEPT ![s] =
                [signIn[s] EXCEPT !.pc = "failed", !.inserts = signIn[s].inserts]]
        BY <1>0, <3>4 DEF CrashLogin, AccountsTypeOK, SignInRow
      <4> QED BY <1>0, <4>1 DEF SignInRow
    <3> QED BY <1>3, <3>1, <3>2, <3>3, <3>4
  <2> DEFINE row == [signIn[s] EXCEPT !.pc = pc, !.inserts = inserts]
  <2>2. row \in SignInRow /\ row.pc = pc /\ row.user = signIn[s].user /\ row.inserts = inserts
    BY <1>0 DEF SignInRow
  <2>3. /\ signIn[s].pc # "idle"
        /\ provider' = provider /\ mishaps \subseteq mishaps' /\ mishaps' \subseteq Mishaps
        /\ UNCHANGED <<account, linked, remembered, rewarded, holder, visit>>
    BY <1>0, <1>3 DEF CreateUser, SaveSocialUser, IssueRefreshToken, CrashLogin, Mishap, Mishaps
  <2> HIDE DEF row
  <2> QED BY <1>0, <2>1, <2>2, <2>3, LoginMoves DEF row, Creates
<1> QED BY <1>1, <1>2, <1>3

\* The rows of a login are committed together.
LEMMA CommitLoginKeeps ==
    ASSUME AccountsInv, NEW s \in SignIns, CommitLogin(s)
    PROVE  AccountsInv'
<1> USE DEF AccountsInv
<1> DEFINE u == signIn[s].user
           row == [signIn[s] EXCEPT !.pc = "open"]
<1>1. /\ signIn[s] \in SignInRow /\ signIn[s].pc = "commit" /\ u \in Users
      /\ signIn' = [signIn EXCEPT ![s] = row]
      /\ row \in SignInRow /\ row.pc = "open" /\ row.user = u
      /\ UNCHANGED <<remembered, rewarded, provider, holder, visit>>
  <2>1. signIn[s] \in SignInRow /\ signIn[s].pc = "commit" /\ u \in Users
    BY DEF CommitLogin, AccountsTypeOK, LoginInv, SignInRow
  <2>2. row \in SignInRow /\ row.pc = "open" /\ row.user = u
    BY <2>1 DEF SignInRow
  <2>3. signIn' = [signIn EXCEPT ![s] = row] /\ UNCHANGED <<remembered, rewarded, provider, holder, visit>>
    BY DEF CommitLogin
  <2> QED BY <2>1, <2>2, <2>3
<1> HIDE DEF row
<1>2. CASE account[u].status = "NONE"
  <2>1. /\ account' = [account EXCEPT ![u] = [status |-> "PENDING", active |-> TRUE]]
        /\ linked' = linked \cup {u} /\ mishaps' = mishaps
    BY <1>1, <1>2 DEF CommitLogin, LoginInv
  <2>2. AccountsTypeOK'
    BY <1>1, <2>1 DEF AccountsTypeOK, Account, SignInRow
  <2>3. VisitInv'
    BY <1>1, <1>2, <2>1 DEF AccountsTypeOK, VisitInv
  <2>4. LoginInv'
    BY <1>1, <2>1 DEF AccountsTypeOK, LoginInv
  <2>5. LinkInv'
    BY <1>1, <2>1 DEF AccountsTypeOK, LinkInv, Serving, Withdrawn
  <2>6. RewardInv'
    <3>1. \A w \in Users : Current(w)' => Current(w)
      BY <1>1, <1>2, <2>1 DEF AccountsTypeOK, Current, Serving
    <3>2. \A v \in Visits : visit[v].pc = "grant" => account'[visit[v].user] = account[visit[v].user]
      BY <1>2, <2>1 DEF AccountsTypeOK, VisitInv
    <3> QED BY <1>1, <2>1, <3>1, <3>2 DEF RewardInv
  <2> QED BY <2>2, <2>3, <2>4, <2>5, <2>6
<1>3. CASE account[u].status # "NONE"
  <2>1. /\ account' = account
        /\ linked' = IF signIn[s].inserts THEN linked \cup {u} ELSE linked
        /\ mishaps' = IF signIn[s].inserts /\ ~account[u].active
                      THEN mishaps \cup {"relinked"} ELSE mishaps
    BY <1>3 DEF CommitLogin
  <2>2. AccountsTypeOK'
    BY <1>1, <2>1 DEF AccountsTypeOK, SignInRow
  <2>3. VisitInv'
    BY <1>1, <2>1 DEF VisitInv
  <2>4. LoginInv'
    BY <1>1, <1>3, <2>1 DEF AccountsTypeOK, LoginInv
  <2>5. LinkInv'
    BY <1>1, <2>1 DEF LinkInv, Serving, Withdrawn
  <2>6. RewardInv'
    <3>1. \A w \in Users : Current(w)' => Current(w)
      BY <1>1, <2>1 DEF AccountsTypeOK, Current, Serving
    <3> QED BY <1>1, <2>1, <3>1 DEF RewardInv
  <2> QED BY <2>2, <2>3, <2>4, <2>5, <2>6
<1> QED BY <1>2, <1>3

VisitRow ==
    [pc : {"idle", "rename", "terms", "rejoined", "grant", "unlink", "revoke",
           "deactivate", "identify", "forget"},
     user : Users \cup {NoUser}, saw : Account, known : BOOLEAN]

\* A request takes a lock only where nobody else has it, and releases its own.
KeepsOtherLocks(v) ==
    /\ holder' \in [Users -> Visits \cup {NoUser}]
    /\ \A u \in Users : holder[u] \notin {v, NoUser} => holder'[u] = holder[u]

\* A step of a request that writes no row: what it goes on with is true of the rows.
LEMMA VisitMoves ==
    ASSUME AccountsInv, NEW v \in Visits, NEW row \in VisitRow,
           visit' = [visit EXCEPT ![v] = row],
           KeepsOtherLocks(v),
           row.pc # "idle" =>
                /\ row.user \in Users
                /\ row.saw.active
                /\ row.saw.status # "NONE"
                /\ account[row.user].status # "NONE"
                /\ row.pc \in Holding => holder'[row.user] = v
                /\ row.pc \in {"identify", "forget"} => account[row.user].active,
           row.pc = "forget" /\ "revived" \notin mishaps => row.known,
           row.pc = "grant" /\ ~row.known /\ account[row.user].active
                /\ mishaps \cap {"twins", "revived"} = {} => rewarded \subseteq {row.user},
           provider' \in {"linked", "unlinked"},
           mishaps \subseteq mishaps', mishaps' \subseteq Mishaps,
           UNCHANGED <<account, linked, remembered, rewarded, signIn>>
    PROVE  AccountsInv'
<1> USE AccountConstants DEF AccountsInv
<1>1. AccountsTypeOK'
  BY DEF AccountsTypeOK, VisitRow, Mishaps, KeepsOtherLocks
<1>2. VisitInv'
  BY DEF AccountsTypeOK, VisitInv, KeepsOtherLocks
<1>3. LoginInv'
  BY DEF LoginInv
<1>4. LinkInv'
  BY DEF AccountsTypeOK, LinkInv, Serving, Withdrawn
<1>5. RewardInv'
  BY DEF AccountsTypeOK, RewardInv, Current, Serving
<1> QED BY <1>1, <1>2, <1>3, <1>4, <1>5

\* A request that ends without a write, or dies, knows nothing any more.
LEMMA VisitEnds ==
    ASSUME AccountsInv, NEW v \in Visits,
           Leave(v), KeepsOtherLocks(v),
           provider' \in {"linked", "unlinked"},
           mishaps \subseteq mishaps', mishaps' \subseteq Mishaps,
           UNCHANGED <<account, linked, remembered, rewarded, signIn>>
    PROVE  AccountsInv'
<1>1. Away \in VisitRow /\ Away.pc = "idle"
  BY DEF Away, VisitRow, NoAccount, Account
<1> QED BY <1>1, VisitMoves DEF Leave

\* A request that only goes on, with the locks it has.
LEMMA VisitGoesOn ==
    ASSUME AccountsInv, NEW v \in Visits,
           NEW pc \in {"unlink", "revoke", "deactivate"},
           visit' = [visit EXCEPT ![v].pc = pc],
           visit[v].pc # "idle",
           provider' \in {"linked", "unlinked"},
           mishaps \subseteq mishaps', mishaps' \subseteq Mishaps,
           UNCHANGED <<account, linked, remembered, rewarded, holder, signIn>>
    PROVE  AccountsInv'
<1> USE DEF AccountsInv
<1> DEFINE row == [visit[v] EXCEPT !.pc = pc]
<1>1. /\ visit' = [visit EXCEPT ![v] = row]
      /\ row \in VisitRow /\ row.pc = pc /\ row.user = visit[v].user /\ row.saw = visit[v].saw
  BY DEF AccountsTypeOK, VisitRow
<1>2. KeepsOtherLocks(v)
  BY DEF AccountsTypeOK, KeepsOtherLocks
<1>3. /\ row.user \in Users /\ row.saw.active /\ row.saw.status # "NONE"
      /\ account[row.user].status # "NONE"
      /\ row.pc \notin Holding
  BY <1>1 DEF VisitInv, Holding
<1> HIDE DEF row
<1> QED BY <1>1, <1>2, <1>3, VisitMoves DEF Holding

\* The guard lets a user in who is active; the request has loaded his row.
LEMMA LoadKeeps ==
    ASSUME AccountsInv, NEW v \in Visits, NEW u \in Users, LoadStep(v, u)
    PROVE  AccountsInv'
<1> USE DEF AccountsInv
<1>1. PICK pc \in {"rename", "terms", "unlink"} :
        /\ account[u].status \in {"ACTIVE", "PENDING"} /\ account[u].active
        /\ visit' = [visit EXCEPT ![v] = [Away EXCEPT !.pc = pc, !.user = u, !.saw = account[u]]]
        /\ UNCHANGED <<account, linked, remembered, rewarded, provider, holder, signIn, mishaps>>
  BY DEF LoadStep, LoadForRename, LoadForTerms, LoadForWithdrawal, Visit
<1> DEFINE row == [Away EXCEPT !.pc = pc, !.user = u, !.saw = account[u]]
<1>2. row \in VisitRow /\ row.pc = pc /\ row.user = u /\ row.saw = account[u]
  BY DEF AccountsTypeOK, VisitRow, Away, NoAccount, Account
<1>3. /\ KeepsOtherLocks(v)
      /\ provider \in {"linked", "unlinked"} /\ mishaps \subseteq Mishaps
  BY <1>1 DEF AccountsTypeOK, KeepsOtherLocks, Mishaps
<1> HIDE DEF row
<1>4. visit' = [visit EXCEPT ![v] = row]
  BY <1>1 DEF row
<1> QED BY <1>1, <1>2, <1>3, <1>4, VisitMoves DEF Holding

\* A row the request has loaded is saved: the user is served by it, again if he was not.
LEMMA SaveKeeps ==
    ASSUME AccountsInv, NEW v \in Visits, NEW new \in Account,
           ~At(v, "idle"),
           new.active, new.status # "NONE",
           Writable(v, visit[v].user),
           account' = [account EXCEPT ![visit[v].user] = new],
           SavedOver(v, visit[v].user),
           Leave(v), KeepsOtherLocks(v),
           \/ rewarded' = rewarded
           \/ /\ rewarded' = rewarded \cup {visit[v].user}
              /\ visit[v].pc = "grant" /\ ~visit[v].known,
           UNCHANGED <<linked, remembered, provider, signIn>>
    PROVE  AccountsInv'
<1> USE AccountConstants DEF AccountsInv
<1> DEFINE u == visit[v].user
<1>1. /\ u \in Users /\ account[u].status # "NONE" /\ visit[v].saw.active
      /\ visit' = [visit EXCEPT ![v] = Away]
      /\ Away \in VisitRow /\ Away.pc = "idle"
  BY DEF VisitInv, At, Leave, Away, VisitRow, NoAccount, Account
<1>2. /\ mishaps' = IF ~account[u].active THEN mishaps \cup {"revived"} ELSE mishaps
      /\ \A w \in Visits \ {v} :
            visit[w].pc \in Holding => visit[w].user # u /\ holder'[visit[w].user] = w
  BY <1>1 DEF SavedOver, Revives, Writable, AccountsTypeOK, VisitInv, KeepsOtherLocks, Holding
<1>3. AccountsTypeOK'
  <2>1. account' \in [Users -> Account] /\ visit' \in [Visits -> VisitRow]
    BY <1>1 DEF AccountsTypeOK, VisitRow
  <2>2. mishaps' \subseteq Mishaps /\ rewarded' \subseteq Users
    BY <1>1, <1>2 DEF AccountsTypeOK, Mishaps
  <2> QED BY <2>1, <2>2 DEF AccountsTypeOK, KeepsOtherLocks, VisitRow, Mishaps
<1>4. VisitInv'
  BY <1>1, <1>2 DEF AccountsTypeOK, VisitInv, Holding
<1>5. LoginInv'
  BY <1>1 DEF AccountsTypeOK, LoginInv
<1>6. LinkInv'
  BY <1>1, <1>2 DEF AccountsTypeOK, LinkInv, Serving, Withdrawn
<1>7. RewardInv'
  <2> SUFFICES ASSUME mishaps' \cap {"twins", "revived"} = {} PROVE RewardInv'
    BY DEF RewardInv
  <2>1. mishaps' = mishaps /\ account[u].active
    BY <1>2
  <2>2. \A w \in Users : Current(w)' <=> Current(w)
    BY <1>1, <2>1 DEF AccountsTypeOK, Current, Serving
  <2>3. rewarded' \subseteq rewarded \cup {u}
    OBVIOUS
  <2>4. rewarded' # rewarded => rewarded \subseteq {u}
    BY <2>1 DEF RewardInv
  <2>5. \A a, b \in rewarded' : a = b
    BY <2>1, <2>3, <2>4 DEF RewardInv
  <2>6. ASSUME NEW w \in Visits, visit'[w].pc = "grant", ~visit'[w].known,
               account'[visit'[w].user].active
        PROVE  rewarded' \subseteq {visit'[w].user}
    <3>1. w # v /\ visit'[w] = visit[w] /\ visit[w].user \in Users /\ visit[w].user # u
      BY <1>1, <1>2, <2>6 DEF AccountsTypeOK, VisitInv, Holding
    <3>2. account[visit[w].user].active /\ account[visit[w].user].status # "NONE"
      BY <2>6, <3>1 DEF AccountsTypeOK, VisitInv
    <3>3. Current(u) /\ Current(visit[w].user)
      BY <1>1, <2>1, <3>2 DEF Current, Serving
    <3> QED BY <1>1, <2>1, <3>1, <3>3 DEF RewardInv
  <2> QED BY <2>1, <2>2, <2>5, <2>6 DEF RewardInv
<1> QED BY <1>3, <1>4, <1>5, <1>6, <1>7

\* The agreement takes the row's lock, looks for the hash, and goes on from there.
LEMMA AgreementKeeps ==
    ASSUME AccountsInv, NEW v \in Visits, AgreeTerms(v) \/ CheckIfWithdrawn(v)
    PROVE  AccountsInv'
<1> USE AccountConstants DEF AccountsInv
<1> DEFINE u == visit[v].user
<1>0. /\ visit[v] \in VisitRow /\ visit[v].pc # "idle"
      /\ u \in Users /\ visit[v].saw.active /\ visit[v].saw.status # "NONE"
      /\ account[u].status # "NONE"
      /\ provider' = provider /\ mishaps' = mishaps
      /\ provider \in {"linked", "unlinked"} /\ mishaps \subseteq Mishaps
      /\ UNCHANGED <<account, linked, remembered, rewarded, signIn>>
  BY DEF AccountsTypeOK, VisitInv, VisitRow, AgreeTerms, CheckIfWithdrawn, At, Mishaps
<1>1. CASE AgreeTerms(v)
  <2>1. CASE /\ visit' = [visit EXCEPT ![v].pc = "rejoined"]
             /\ holder' = [holder EXCEPT ![u] = v]
             /\ Writable(v, u)
    <3> DEFINE row == [visit[v] EXCEPT !.pc = "rejoined"]
    <3>1. /\ visit' = [visit EXCEPT ![v] = row]
          /\ row \in VisitRow /\ row.pc = "rejoined" /\ row.user = u /\ row.saw = visit[v].saw
      BY <1>0, <2>1 DEF AccountsTypeOK, VisitRow
    <3>2. KeepsOtherLocks(v) /\ holder'[u] = v
      BY <1>0, <2>1 DEF AccountsTypeOK, KeepsOtherLocks, Writable
    <3> HIDE DEF row
    <3> QED BY <1>0, <3>1, <3>2, VisitMoves
  <2>2. CASE Leave(v) /\ UNCHANGED holder
    <3>1. KeepsOtherLocks(v)
      BY <2>2 DEF AccountsTypeOK, KeepsOtherLocks
    <3> QED BY <1>0, <2>2, <3>1, VisitEnds
  <2> QED BY <1>1, <2>1, <2>2 DEF AgreeTerms, SaveAgreement
<1>2. CASE CheckIfWithdrawn(v)
  <2> DEFINE row == [visit[v] EXCEPT !.pc = "grant", !.known = (u \in linked /\ remembered)]
  <2>1. /\ visit' = [visit EXCEPT ![v] = row]
        /\ row \in VisitRow /\ row.pc = "grant" /\ row.user = u /\ row.saw = visit[v].saw
        /\ row.known = (u \in linked /\ remembered)
    BY <1>0, <1>2 DEF CheckIfWithdrawn, AccountsTypeOK, VisitRow
  <2>2. KeepsOtherLocks(v) /\ holder'[u] = v
    BY <1>0, <1>2 DEF CheckIfWithdrawn, AccountsTypeOK, KeepsOtherLocks, VisitInv, Holding, At
  <2>3. ASSUME ~row.known, account[u].active, mishaps \cap {"twins", "revived"} = {}
        PROVE  rewarded \subseteq {u}
    <3>1. ~remembered
      BY <1>0, <2>1, <2>3 DEF LinkInv, Serving
    <3>2. \A w \in rewarded : w \in Users /\ Serving(w)
      BY <2>3, <3>1 DEF AccountsTypeOK, LoginInv, LinkInv, Serving, Withdrawn
    <3> QED BY <1>0, <2>3, <3>2 DEF RewardInv, Current, Serving
  <2> HIDE DEF row
  <2> QED BY <1>0, <2>1, <2>2, <2>3, VisitMoves
<1> QED BY <1>1, <1>2

\* The two saves that write the row as it was loaded.
LEMMA SavesKeep ==
    ASSUME AccountsInv, NEW v \in Visits, SaveName(v) \/ CommitOnBoarding(v)
    PROVE  AccountsInv'
<1> USE AccountConstants DEF AccountsInv
<1> DEFINE u == visit[v].user
<1>0. /\ u \in Users /\ visit[v].saw \in Account /\ visit[v].saw.active /\ visit[v].saw.status # "NONE"
      /\ ~At(v, "idle") /\ Leave(v)
      /\ UNCHANGED <<linked, remembered, provider, signIn>>
  BY DEF AccountsTypeOK, VisitInv, SaveName, CommitOnBoarding, At
<1>1. CASE SaveName(v)
  <2>1. KeepsOtherLocks(v)
    BY <1>1 DEF SaveName, AccountsTypeOK, KeepsOtherLocks
  <2>2. /\ Writable(v, u) /\ SavedOver(v, u) /\ rewarded' = rewarded
        /\ account' = [account EXCEPT ![u] = visit[v].saw]
    BY <1>1 DEF SaveName
  <2> QED BY <1>0, <2>1, <2>2, SaveKeeps
<1>2. CASE CommitOnBoarding(v)
  <2> DEFINE new == [visit[v].saw EXCEPT !.status = "ACTIVE"]
  <2>1. /\ new \in Account /\ new.active /\ new.status # "NONE"
        /\ account' = [account EXCEPT ![u] = new]
    BY <1>0, <1>2 DEF CommitOnBoarding, Account
  <2>2. Writable(v, u) /\ KeepsOtherLocks(v)
    BY <1>0, <1>2 DEF CommitOnBoarding, AccountsTypeOK, VisitInv, Holding, Writable, KeepsOtherLocks, At
  <2>3. /\ SavedOver(v, u)
        /\ \/ rewarded' = rewarded
           \/ rewarded' = rewarded \cup {u} /\ visit[v].pc = "grant" /\ ~visit[v].known
    BY <1>2 DEF CommitOnBoarding, At
  <2> HIDE DEF new
  <2> QED BY <1>0, <2>1, <2>2, <2>3, SaveKeeps
<1> QED BY <1>1, <1>2

\* The withdrawal up to its commit: the provider may do what it was asked and not say so.
LEMMA WithdrawalMoves ==
    ASSUME AccountsInv, NEW v \in Visits,
           \/ UnlinkSocialAccount(v) \/ RefreshAccessToken(v) \/ RevokeAccess(v)
           \/ DeactivateById(v) \/ ReadSocialUser(v) \/ CrashVisit(v)
    PROVE  AccountsInv'
<1> USE AccountConstants DEF AccountsInv
<1> DEFINE u == visit[v].user
<1>0. /\ visit[v] \in VisitRow /\ visit[v].pc # "idle"
      /\ u \in Users /\ visit[v].saw.active /\ visit[v].saw.status # "NONE"
      /\ account[u].status # "NONE"
      /\ provider \in {"linked", "unlinked"} /\ mishaps \subseteq Mishaps
      /\ holder \in [Users -> Visits \cup {NoUser}]
      /\ UNCHANGED <<account, linked, remembered, rewarded, signIn>>
  BY DEF AccountsTypeOK, VisitInv, VisitRow, Mishaps, At, UnlinkSocialAccount, RefreshAccessToken,
         RevokeAccess, DeactivateById, ReadSocialUser, CrashVisit
<1>1. CASE UnlinkSocialAccount(v) \/ RefreshAccessToken(v) \/ RevokeAccess(v)
  <2>1. /\ provider' \in {"linked", "unlinked"} /\ mishaps \subseteq mishaps' /\ mishaps' \subseteq Mishaps
        /\ UNCHANGED holder
    BY <1>0, <1>1 DEF UnlinkSocialAccount, RefreshAccessToken, RevokeAccess, Mishap, Mishaps
  <2>2. \/ Leave(v)
        \/ \E pc \in {"unlink", "revoke", "deactivate"} : visit' = [visit EXCEPT ![v].pc = pc]
    BY <1>1 DEF UnlinkSocialAccount, RefreshAccessToken, RevokeAccess, UnlinkFailure
  <2>3. KeepsOtherLocks(v)
    BY <1>0, <2>1 DEF KeepsOtherLocks
  <2> QED BY <1>0, <2>1, <2>2, <2>3, VisitEnds, VisitGoesOn
<1>2. CASE DeactivateById(v)
  <2>1. provider' = provider /\ mishaps' = mishaps
    BY <1>2 DEF DeactivateById
  <2>2. CASE ~account[u].active
    <3>1. Leave(v) /\ KeepsOtherLocks(v)
      BY <1>0, <1>2, <2>2 DEF DeactivateById, KeepsOtherLocks
    <3> QED BY <1>0, <2>1, <3>1, VisitEnds
  <2>3. CASE account[u].active
    <3> DEFINE row == [visit[v] EXCEPT !.pc = "identify"]
    <3>1. /\ visit' = [visit EXCEPT ![v] = row]
          /\ row \in VisitRow /\ row.pc = "identify" /\ row.user = u /\ row.saw = visit[v].saw
      BY <1>0, <1>2, <2>3 DEF DeactivateById, AccountsTypeOK, VisitRow
    <3>2. KeepsOtherLocks(v) /\ holder'[u] = v
      BY <1>0, <1>2, <2>3 DEF DeactivateById, Writable, KeepsOtherLocks
    <3> HIDE DEF row
    <3> QED BY <1>0, <2>1, <2>3, <3>1, <3>2, VisitMoves
  <2> QED BY <2>2, <2>3
<1>3. CASE ReadSocialUser(v)
  <2> DEFINE row == [visit[v] EXCEPT !.pc = "forget", !.known = (u \in linked)]
  <2>1. /\ visit' = [visit EXCEPT ![v] = row]
        /\ row \in VisitRow /\ row.pc = "forget" /\ row.user = u /\ row.saw = visit[v].saw
        /\ row.known <=> u \in linked
        /\ provider' = provider /\ mishaps' = mishaps
    <3>1. visit' = [visit EXCEPT ![v] = row]
      BY <1>3 DEF ReadSocialUser, AccountsTypeOK
    <3>2. row \in VisitRow /\ row.pc = "forget" /\ row.user = u /\ row.saw = visit[v].saw
      <4>1. (u \in linked) \in BOOLEAN
        OBVIOUS
      <4> QED BY <1>0, <4>1 DEF VisitRow
    <3>3. row.known <=> u \in linked
      BY <1>0 DEF VisitRow
    <3> QED BY <1>3, <3>1, <3>2, <3>3 DEF ReadSocialUser
  <2>2. KeepsOtherLocks(v) /\ holder'[u] = v /\ account[u].active
    BY <1>0, <1>3 DEF ReadSocialUser, VisitInv, Holding, KeepsOtherLocks, At
  <2>3. "revived" \notin mishaps => u \in linked
    BY <1>0, <2>2 DEF LinkInv, Serving
  <2> HIDE DEF row
  <2> QED BY <1>0, <2>1, <2>2, <2>3, VisitMoves
<1>4. CASE CrashVisit(v)
  <2>1. /\ Leave(v) /\ KeepsOtherLocks(v) /\ provider' = provider
        /\ mishaps \subseteq mishaps' /\ mishaps' \subseteq Mishaps
    BY <1>0, <1>4 DEF CrashVisit, KeepsOtherLocks, Mishap, Mishaps
  <2> QED BY <1>0, <2>1, VisitEnds
<1> QED BY <1>1, <1>2, <1>3, <1>4

\* The withdrawal commits: the user is served no more and only the hash is left of him.
LEMMA CommitWithdrawalKeeps ==
    ASSUME AccountsInv, NEW v \in Visits, CommitWithdrawal(v)
    PROVE  AccountsInv'
<1> USE AccountConstants DEF AccountsInv
<1> DEFINE u == visit[v].user
<1>1. /\ visit[v].pc = "forget" /\ u \in Users /\ holder[u] = v
      /\ account[u].status # "NONE" /\ account[u].active
      /\ account' = [account EXCEPT ![u].active = FALSE]
      /\ remembered' = (remembered \/ visit[v].known)
      /\ linked' = linked \ {u}
      /\ holder' = [holder EXCEPT ![u] = NoUser]
      /\ visit' = [visit EXCEPT ![v] = Away]
      /\ UNCHANGED <<rewarded, provider, signIn, mishaps>>
      /\ Away \in VisitRow /\ Away.pc = "idle"
  BY DEF CommitWithdrawal, VisitInv, Holding, At, Leave, Away, VisitRow, NoAccount, Account
<1>2. AccountsTypeOK'
  <2>1. account' \in [Users -> Account]
    <3>1. account \in [Users -> Account] /\ account[u] \in Account
      BY <1>1 DEF AccountsTypeOK
    <3>2. [account[u] EXCEPT !.active = FALSE] \in Account
      BY <3>1 DEF Account
    <3> QED BY <1>1, <3>1, <3>2
  <2>2. remembered' \in BOOLEAN
    <3>1. (remembered \/ visit[v].known) \in BOOLEAN
      OBVIOUS
    <3> QED BY <1>1, <3>1
  <2> QED BY <1>1, <2>1, <2>2 DEF AccountsTypeOK, VisitRow
<1>3. \A w \in Visits \ {v} : visit[w].pc \in Holding => visit[w].user # u
  BY <1>1 DEF VisitInv, Holding
<1>4. VisitInv'
  BY <1>1, <1>3 DEF AccountsTypeOK, Account, VisitInv, Holding
<1>5. LoginInv'
  BY <1>1 DEF AccountsTypeOK, Account, LoginInv
<1>6. LinkInv'
  BY <1>1 DEF AccountsTypeOK, Account, LinkInv, Serving, Withdrawn
<1>7. RewardInv'
  <2>1. \A w \in Users : Current(w)' => Current(w)
    BY <1>1 DEF AccountsTypeOK, Account, Current, Serving
  <2>2. \A w \in Visits : visit'[w].pc = "grant" => visit'[w] = visit[w] /\ visit[w].user # u
    BY <1>1, <1>3 DEF AccountsTypeOK, Holding
  <2>3. \A w \in Users \ {u} : account'[w] = account[w]
    BY <1>1 DEF AccountsTypeOK
  <2>4. \A w \in Visits : visit[w].pc = "grant" => visit[w].user \in Users
    BY DEF VisitInv
  <2> QED BY <1>1, <2>1, <2>2, <2>3, <2>4 DEF RewardInv
<1> QED BY <1>2, <1>4, <1>5, <1>6, <1>7

\* Nothing happens to the accounts.
LEMMA AccountsStutter == AccountsInv /\ UNCHANGED accountVars => AccountsInv'
BY DEF AccountsInv, AccountsTypeOK, VisitInv, LoginInv, LinkInv, RewardInv, accountVars, Serving,
    Current, Withdrawn

\* The accounts keep their invariant through every step.
LEMMA AccountsInvStep == AccountsInv /\ [AccountsNext]_accountVars => AccountsInv'
<1> SUFFICES ASSUME AccountsInv, AccountsNext PROVE AccountsInv'
  BY AccountsStutter
<1>1. ASSUME NEW s \in SignIns, LoginStep(s) PROVE AccountsInv'
  BY <1>1, LoginStepKeeps, CommitLoginKeeps DEF LoginStep
<1>2. ASSUME NEW v \in Visits, HandlerStep(v) PROVE AccountsInv'
  BY <1>2, AgreementKeeps, SavesKeep, WithdrawalMoves DEF HandlerStep
<1> QED BY <1>1, <1>2, LoadKeeps, CommitWithdrawalKeeps DEF AccountsNext, VisitStep

LEMMA AccountsInvariance == AccountsSpec => []AccountsInv
BY AccountsInvInit, AccountsInvStep, PTL DEF AccountsSpec

-------------------------------------------------------------------------------
(* The sessions                                                            *)

\* A login that is open is never touched again.
LEMMA OpenStaysOpen ==
    ASSUME AccountsInv, [AccountsNext]_accountVars
    PROVE  \A s \in SignIns : signIn[s].pc = "open" => signIn'[s] = signIn[s]
<1>1. ASSUME NEW z \in SignIns, LoginStep(z), NEW s \in SignIns, signIn[s].pc = "open"
      PROVE  signIn'[s] = signIn[s]
  <2>1. signIn \in [SignIns -> SignInRow]
    BY DEF AccountsInv, AccountsTypeOK, SignInRow
  <2>2. signIn[z].pc # "open" /\ \E row : signIn' = [signIn EXCEPT ![z] = row]
    BY <1>1, <2>1 DEF LoginStep, FindSocialUser, StartsAccount, CreateUser, SaveSocialUser,
                      IssueRefreshToken, CommitLogin, CrashLogin, SignInRow
  <2> QED BY <1>1, <2>1, <2>2
<1>2. ASSUME NEW v \in Visits, VisitStep(v) PROVE signIn' = signIn
  BY <1>2 DEF VisitStep, LoadStep, HandlerStep, LoadForRename, LoadForTerms, LoadForWithdrawal, Visit,
              SaveName, AgreeTerms, CheckIfWithdrawn, CommitOnBoarding, UnlinkSocialAccount,
              RefreshAccessToken, RevokeAccess, DeactivateById, ReadSocialUser, CrashVisit,
              CommitWithdrawal
<1> QED BY <1>1, <1>2 DEF AccountsNext, accountVars

\* A user who is served no more stays so, unless his row is saved over the withdrawal.
LEMMA NotServedAgain ==
    ASSUME AccountsInv, [AccountsNext]_accountVars, "revived" \notin mishaps'
    PROVE  /\ "revived" \notin mishaps
           /\ \A u \in Users : account[u].status # "NONE" =>
                /\ account'[u].status # "NONE"
                /\ ~Serving(u) => ~Serving(u)'
<1> DEFINE Kept == \A u \in Users : account[u].status # "NONE" =>
                /\ account'[u].status # "NONE"
                /\ ~Serving(u) => ~Serving(u)'
<1>1. CASE UNCHANGED <<account, mishaps>>
  BY <1>1 DEF Serving
<1>2. ASSUME NEW s \in SignIns, LoginStep(s) PROVE "revived" \notin mishaps /\ Kept
  BY <1>2 DEF LoginStep, FindSocialUser, StartsAccount, CreateUser, SaveSocialUser,
              IssueRefreshToken, CommitLogin, CrashLogin, Mishap, Serving, AccountsInv, AccountsTypeOK
<1>3. ASSUME NEW v \in Visits, SaveName(v) \/ CommitOnBoarding(v) PROVE "revived" \notin mishaps /\ Kept
  <2> DEFINE u == visit[v].user
  <2>1. /\ u \in Users /\ visit[v].saw \in Account /\ visit[v].saw.active /\ visit[v].saw.status # "NONE"
        /\ account \in [Users -> Account]
    BY <1>3 DEF AccountsInv, AccountsTypeOK, VisitInv, SaveName, CommitOnBoarding, At
  <2>2. PICK new \in Account : /\ new.active /\ new.status # "NONE"
                               /\ account' = [account EXCEPT ![u] = new]
    <3>1. CASE SaveName(v) BY <2>1, <3>1 DEF SaveName
    <3>2. CASE CommitOnBoarding(v)
      <4>1. /\ [visit[v].saw EXCEPT !.status = "ACTIVE"] \in Account
            /\ [visit[v].saw EXCEPT !.status = "ACTIVE"].active
            /\ [visit[v].saw EXCEPT !.status = "ACTIVE"].status = "ACTIVE"
        BY <2>1 DEF Account
      <4> QED BY <3>2, <4>1 DEF CommitOnBoarding
    <3> QED BY <1>3, <3>1, <3>2
  <2>3. SavedOver(v, u)
    BY <1>3 DEF SaveName, CommitOnBoarding
  <2>4. "revived" \notin mishaps /\ account[u].active
    BY <2>1, <2>3 DEF SavedOver, Revives
  <2> QED BY <2>1, <2>2, <2>4 DEF Serving
<1>4. ASSUME NEW v \in Visits, CommitWithdrawal(v) PROVE "revived" \notin mishaps /\ Kept
  <2> DEFINE u == visit[v].user
  <2>1. /\ u \in Users /\ account \in [Users -> Account]
        /\ account' = [account EXCEPT ![u].active = FALSE]
        /\ mishaps' = mishaps
    BY <1>4 DEF AccountsInv, AccountsTypeOK, VisitInv, CommitWithdrawal, At
  <2> QED BY <2>1 DEF Account, Serving
<1>5. ASSUME NEW v \in Visits, VisitStep(v), ~SaveName(v), ~CommitOnBoarding(v), ~CommitWithdrawal(v)
      PROVE  "revived" \notin mishaps /\ Kept
  <2>1. account' = account /\ mishaps \subseteq mishaps'
    BY <1>5 DEF VisitStep, LoadStep, HandlerStep, LoadForRename, LoadForTerms, LoadForWithdrawal, Visit,
              AgreeTerms, CheckIfWithdrawn, UnlinkSocialAccount,
              RefreshAccessToken, RevokeAccess, DeactivateById, ReadSocialUser, CrashVisit, Mishap
  <2> QED BY <2>1 DEF Serving
<1> QED BY <1>1, <1>2, <1>3, <1>4, <1>5 DEF AccountsNext, accountVars

\* Tokens are those of logins that are open, and so are the sessions of requests.
CallInv ==
    /\ \A s \in SignIns : token[s] # 0 \/ s \in loggedOut => signIn[s].pc = "open"
    /\ \A v \in Visits : call[v].pc # "idle" =>
        /\ call[v].session \in SignIns
        /\ signIn[call[v].session].pc = "open"
        /\ call[v].pc \notin {"refresh", "issue"} => call[v].token \in 1..MaxTokens

\* A request of a user who was not served when it came is still in its guard, and will
\* be refused there.
WelcomeInv ==
    "revived" \notin mishaps =>
        \A v \in Visits : call[v].pc # "idle" /\ ~call[v].welcome =>
            call[v].pc \in {"active", "refresh"} /\ ~Serving(UserOf(v))

\* A logout that has blacklisted its token has the last of the session, or the session
\* was given another meanwhile.
LogoutInv ==
    /\ \A v \in Visits : call[v].pc = "remove" =>
        \/ call[v].session \in outlived
        \/ <<call[v].session, token[call[v].session]>> \in blacklist
    /\ LoggedOutStaysOut

CallRow ==
    [pc : {"idle", "active", "handler", "refresh", "issue", "logout", "remove"},
     session : SignIns \cup {NoUser}, token : 0..MaxTokens,
     cookie : SignIns \cup {NoUser}, welcome : BOOLEAN]

SessionsInv == AccountsInv /\ SessionsTypeOK /\ CallInv /\ WelcomeInv /\ LogoutInv

\* Initially nobody has a token.
LEMMA SessionsInvInit == SessionsInit => SessionsInv
<1> SUFFICES ASSUME SessionsInit PROVE SessionsInv
  OBVIOUS
<1>1. AccountsInv
  BY AccountsInvInit DEF SessionsInit
<1>2. SessionsTypeOK
  BY <1>1, SessionConstants DEF AccountsInv, SessionsInit, SessionsTypeOK, NoCall
<1>3. CallInv /\ WelcomeInv /\ LogoutInv
  BY DEF SessionsInit, CallInv, WelcomeInv, LogoutInv, LoggedOutStaysOut, NoCall
<1> QED BY <1>1, <1>2, <1>3 DEF SessionsInv

\* The facts every step keeps: the rows of Accounts, open logins, users served no more.
LEMMA AccountsMove ==
    ASSUME SessionsInv, [AccountsNext]_accountVars
    PROVE  /\ AccountsInv'
           /\ \A s \in SignIns : signIn[s].pc = "open" =>
                /\ signIn'[s] = signIn[s]
                /\ signIn[s].user \in Users
                /\ account[signIn[s].user].status # "NONE"
                /\ "revived" \notin mishaps' /\ ~Serving(signIn[s].user) => ~Serving(signIn[s].user)'
           /\ "revived" \notin mishaps' => "revived" \notin mishaps
BY AccountsInvStep, OpenStaysOpen, NotServedAgain DEF SessionsInv, AccountsInv, LoginInv

\* A step that changes the accounts and one request, whose guard has found what it says.
LEMMA CallMoves ==
    ASSUME SessionsInv, [AccountsNext]_accountVars, NEW v \in Visits, NEW row \in CallRow,
           call' = [call EXCEPT ![v] = row],
           row.pc # "idle" =>
                /\ row.session \in SignIns /\ signIn[row.session].pc = "open"
                /\ row.pc \notin {"refresh", "issue"} => row.token \in 1..MaxTokens
                /\ ~row.welcome /\ "revived" \notin mishaps =>
                        row.pc \in {"active", "refresh"} /\ ~Serving(signIn[row.session].user),
           row.pc # "remove",
           UNCHANGED <<whitelist, token, blacklist, loggedOut, outlived>>
    PROVE  SessionsInv'
<1> USE DEF SessionsInv
<1>1. AccountsInv'
  BY AccountsMove
<1>2. SessionsTypeOK'
  BY <1>1 DEF SessionsTypeOK, AccountsInv, CallRow
<1>3. CallInv'
  BY AccountsMove DEF SessionsTypeOK, CallInv
<1>4. WelcomeInv'
  <2> SUFFICES ASSUME "revived" \notin mishaps', NEW w \in Visits, call'[w].pc # "idle", ~call'[w].welcome
               PROVE  call'[w].pc \in {"active", "refresh"} /\ ~Serving(UserOf(w))'
    BY DEF WelcomeInv
  <2>1. /\ call'[w].session \in SignIns /\ signIn[call'[w].session].pc = "open"
        /\ call'[w].pc \in {"active", "refresh"} /\ ~Serving(signIn[call'[w].session].user)
    BY AccountsMove DEF SessionsTypeOK, CallInv, WelcomeInv, UserOf
  <2>2. signIn'[call'[w].session] = signIn[call'[w].session]
    BY <2>1, AccountsMove
  <2> QED BY <2>1, <2>2, AccountsMove DEF Serving, UserOf
<1>5. LogoutInv'
  BY DEF SessionsTypeOK, LogoutInv, LoggedOutStaysOut
<1> QED BY <1>1, <1>2, <1>3, <1>4, <1>5

\* A login that stores its refresh token was never logged out.
LEMMA LoginKeepsSessions ==
    ASSUME SessionsInv, NEW s \in SignIns, Login(s)
    PROVE  SessionsInv'
<1> USE DEF SessionsInv
<1>1. AccountsNext /\ UNCHANGED <<token, blacklist, loggedOut, outlived, call>>
  BY DEF Login, AccountsNext
<1>2. whitelist' \subseteq whitelist \cup {s} /\ (s \in whitelist' \ whitelist => signIn[s].pc = "token")
  BY DEF Login
<1>3. AccountsInv'
  BY <1>1, AccountsMove
<1>4. SessionsTypeOK'
  BY <1>1, <1>2, <1>3 DEF SessionsTypeOK, AccountsInv
<1>5. CallInv'
  BY <1>1, AccountsMove DEF CallInv
<1>6. WelcomeInv'
  <2> SUFFICES ASSUME "revived" \notin mishaps', NEW v \in Visits, call'[v].pc # "idle", ~call'[v].welcome
               PROVE  call'[v].pc \in {"active", "refresh"} /\ ~Serving(UserOf(v))'
    BY DEF WelcomeInv
  <2>1. /\ call[v].session \in SignIns /\ signIn[call[v].session].pc = "open"
        /\ call[v].pc \in {"active", "refresh"} /\ ~Serving(signIn[call[v].session].user)
    BY <1>1, AccountsMove DEF CallInv, WelcomeInv, UserOf
  <2>2. signIn'[call[v].session] = signIn[call[v].session]
    BY <1>1, <2>1, AccountsMove
  <2> QED BY <1>1, <2>1, <2>2, AccountsMove DEF Serving, UserOf
<1>7. LogoutInv'
  BY <1>1, <1>2 DEF LogoutInv, LoggedOutStaysOut, CallInv
<1> QED BY <1>3, <1>4, <1>5, <1>6, <1>7

\* The guards: who passes was served when it was looked at.
LEMMA GuardsKeep ==
    ASSUME SessionsInv, NEW v \in Visits,
           \/ PassBlacklist(v) \/ PassWhitelist(v) \/ CheckRefreshUser(v)
           \/ EnterLogout(v) \/ Refuse(v) \/ CrashCall(v)
    PROVE  SessionsInv'
<1> USE SessionConstants DEF SessionsInv
<1>0. /\ UNCHANGED accountVars
      /\ UNCHANGED <<whitelist, token, blacklist, loggedOut, outlived>>
      /\ call[v] \in CallRow /\ call \in [Visits -> CallRow]
  BY DEF PassBlacklist, PassWhitelist, CheckRefreshUser, EnterLogout, Refuse, CrashCall, SessionsTypeOK,
         CallRow
<1>1. CASE PassBlacklist(v)
  <2>1. PICK s \in SignIns :
          /\ token[s] # 0
          /\ call' = [call EXCEPT ![v] = [pc |-> "active", session |-> s, token |-> token[s],
                            cookie |-> NoUser, welcome |-> IsActive(signIn[s].user)]]
    BY <1>1 DEF PassBlacklist
  <2> DEFINE row == [pc |-> "active", session |-> s, token |-> token[s],
                     cookie |-> NoUser, welcome |-> IsActive(signIn[s].user)]
  <2>2. IsActive(signIn[s].user) \in BOOLEAN /\ token[s] \in 0..MaxTokens
    BY DEF SessionsTypeOK, IsActive
  <2>3. row \in CallRow /\ row.pc = "active" /\ row.session = s /\ row.token \in 1..MaxTokens
    BY <2>1, <2>2 DEF CallRow
  <2>4. signIn[s].pc = "open" /\ (~row.welcome => ~Serving(signIn[s].user))
    BY <2>1 DEF CallInv, IsActive, Serving
  <2> HIDE DEF row
  <2>5. call' = [call EXCEPT ![v] = row]
    BY <2>1 DEF row
  <2> QED BY <1>0, <2>3, <2>4, <2>5, CallMoves
<1>2. CASE PassWhitelist(v)
  <2>1. PICK s \in whitelist :
          /\ signIn[s].pc = "open"
          /\ call' = [call EXCEPT ![v] = [pc |-> "refresh", session |-> s, token |-> 0,
                            cookie |-> NoUser, welcome |-> IsActive(signIn[s].user)]]
    BY <1>2 DEF PassWhitelist
  <2> DEFINE row == [pc |-> "refresh", session |-> s, token |-> 0,
                     cookie |-> NoUser, welcome |-> IsActive(signIn[s].user)]
  <2>2. IsActive(signIn[s].user) \in BOOLEAN /\ s \in SignIns
    BY DEF SessionsTypeOK, IsActive
  <2>3. row \in CallRow /\ row.pc = "refresh" /\ row.session = s
    BY <2>2 DEF CallRow
  <2>4. ~row.welcome => ~Serving(signIn[s].user)
    BY DEF IsActive, Serving
  <2> HIDE DEF row
  <2>5. call' = [call EXCEPT ![v] = row]
    BY <2>1 DEF row
  <2> QED BY <1>0, <2>1, <2>2, <2>3, <2>4, <2>5, CallMoves
<1>3. CASE CheckRefreshUser(v) \/ EnterLogout(v)
  <2>1. PICK pc \in {"issue", "logout"}, c \in SignIns \cup {NoUser} :
          /\ call' = [call EXCEPT ![v] = [call[v] EXCEPT !.pc = pc, !.cookie = c]]
          /\ (pc = "issue" /\ call[v].pc = "refresh") \/ (pc = "logout" /\ call[v].pc = "active")
    <3>1. CASE CheckRefreshUser(v)
      <4>1. call' = [call EXCEPT ![v] = [call[v] EXCEPT !.pc = "issue", !.cookie = call[v].cookie]]
        BY <1>0, <3>1 DEF CheckRefreshUser, Move, CallRow
      <4> QED BY <1>0, <3>1, <4>1 DEF CheckRefreshUser, Called, CallRow
    <3>2. CASE EnterLogout(v)
      BY <1>0, <3>2 DEF EnterLogout, MoveWithCookie, Called, CallRow
    <3> QED BY <1>3, <3>1, <3>2
  <2> DEFINE row == [call[v] EXCEPT !.pc = pc, !.cookie = c]
  <2>2. /\ row \in CallRow /\ row.pc = pc /\ row.session = call[v].session
        /\ row.token = call[v].token /\ row.welcome = call[v].welcome
    BY <1>0 DEF CallRow
  <2>3. call' = [call EXCEPT ![v] = row]
    BY <2>1
  <2>4. /\ call[v].session \in SignIns /\ signIn[call[v].session].pc = "open"
        /\ call[v].pc = "active" => call[v].token \in 1..MaxTokens
    BY <2>1 DEF CallInv
  <2>5. "revived" \notin mishaps => call[v].welcome
    BY <1>3, <2>1 DEF CheckRefreshUser, EnterLogout, IsActive, Serving, WelcomeInv
  <2> HIDE DEF row
  <2> QED BY <1>0, <2>1, <2>2, <2>3, <2>4, <2>5, CallMoves
<1>4. CASE Refuse(v) \/ CrashCall(v)
  <2>1. call' = [call EXCEPT ![v] = NoCall]
    BY <1>4 DEF Refuse, CrashCall, Return
  <2>2. NoCall \in CallRow /\ NoCall.pc = "idle"
    BY DEF NoCall, CallRow
  <2> QED BY <1>0, <2>1, <2>2, CallMoves
<1> QED BY <1>1, <1>2, <1>3, <1>4

\* The handlers: the guard's check and the handler's first read are one step.
LEMMA HandlersKeep ==
    ASSUME SessionsInv, NEW v \in Visits, EnterHandler(v) \/ Handle(v)
    PROVE  SessionsInv'
<1> USE SessionConstants DEF SessionsInv
<1>0. /\ UNCHANGED <<whitelist, token, blacklist, loggedOut, outlived>>
      /\ call[v] \in CallRow /\ call \in [Visits -> CallRow]
  BY DEF EnterHandler, Handle, SessionsTypeOK, CallRow
<1>1. call[v].pc \in {"active", "handler"}
  BY DEF EnterHandler, Handle, Called
<1>2. /\ call[v].session \in SignIns /\ signIn[call[v].session].pc = "open"
      /\ call[v].token \in 1..MaxTokens
      /\ UserOf(v) \in Users
  BY <1>1 DEF CallInv, UserOf, AccountsInv, LoginInv
<1>3. AccountsNext
  BY <1>2 DEF EnterHandler, Handle, AccountsNext, VisitStep
<1>4. CASE call' = [call EXCEPT ![v] = NoCall]
  <2>1. NoCall \in CallRow /\ NoCall.pc = "idle"
    BY DEF NoCall, CallRow
  <2> QED BY <1>0, <1>3, <1>4, <2>1, CallMoves
<1>5. ASSUME NEW pc \in {"handler", "logout"}, NEW c \in SignIns \cup {NoUser},
             call' = [call EXCEPT ![v] = [call[v] EXCEPT !.pc = pc, !.cookie = c]]
      PROVE  SessionsInv'
  <2> DEFINE row == [call[v] EXCEPT !.pc = pc, !.cookie = c]
  <2>1. /\ row \in CallRow /\ row.pc = pc /\ row.session = call[v].session
        /\ row.token = call[v].token /\ row.welcome = call[v].welcome
    BY <1>0 DEF CallRow
  <2>2. call' = [call EXCEPT ![v] = row]
    BY <1>0, <1>5
  <2>3. "revived" \notin mishaps => call[v].welcome
    <3>1. CASE EnterHandler(v)
      <4>1. Serving(UserOf(v))
        BY <3>1 DEF EnterHandler, LoadStep, LoadForRename, LoadForTerms, LoadForWithdrawal, Visit, Serving
      <4> QED BY <1>1, <4>1 DEF WelcomeInv
    <3>2. CASE Handle(v)
      BY <3>2 DEF Handle, Called, WelcomeInv
    <3> QED BY <3>1, <3>2
  <2> HIDE DEF row
  <2> QED BY <1>0, <1>2, <1>3, <2>1, <2>2, <2>3, CallMoves
<1>6. ASSUME NEW pc \in {"handler", "logout"}, Move(v, pc)
      PROVE  SessionsInv'
  <2>1. call' = [call EXCEPT ![v] = [call[v] EXCEPT !.pc = pc, !.cookie = call[v].cookie]]
    BY <1>0, <1>6 DEF Move, CallRow
  <2> QED BY <1>0, <1>5, <2>1 DEF CallRow
<1>7. CASE EnterHandler(v)
  <2>1. CASE MoveWithCookie(v, "handler")
    BY <1>0, <1>5, <2>1 DEF MoveWithCookie, CallRow
  <2> QED BY <1>6, <1>7, <2>1 DEF EnterHandler
<1>8. CASE Handle(v)
  <2>1. CASE call' = call
    <3>1. Move(v, "handler")
      BY <1>0, <1>8, <2>1 DEF Handle, Called, Move, CallRow
    <3> QED BY <1>6, <3>1
  <2> QED BY <1>4, <1>6, <1>8, <2>1 DEF Handle, Return
<1> QED BY <1>7, <1>8

\* The logout, and the refresh that may outlive it.
LEMMA LogoutKeeps ==
    ASSUME SessionsInv, NEW v \in Visits,
           BlacklistAccessToken(v) \/ RemoveRefreshToken(v) \/ IssueAccessToken(v)
    PROVE  SessionsInv'
<1> USE SessionConstants DEF SessionsInv
<1> DEFINE s == call[v].session
<1>0. /\ UNCHANGED accountVars
      /\ call[v] \in CallRow /\ call \in [Visits -> CallRow]
      /\ call[v].pc \in {"logout", "remove", "issue"}
  BY DEF BlacklistAccessToken, RemoveRefreshToken, IssueAccessToken, SessionsTypeOK, CallRow, Called
<1>1. /\ s \in SignIns /\ signIn[s].pc = "open" /\ token[s] \in 0..MaxTokens
      /\ call[v].pc # "issue" => call[v].token \in 1..MaxTokens
  BY <1>0 DEF CallInv, SessionsTypeOK
<1>2. AccountsInv'
  BY <1>0, AccountsMove
<1>3. NoCall \in CallRow /\ NoCall.pc = "idle"
  BY DEF NoCall, CallRow
<1>4. CASE BlacklistAccessToken(v)
  <2> DEFINE row == [call[v] EXCEPT !.pc = "remove"]
  <2>1. /\ row \in CallRow /\ row.pc = "remove" /\ row.session = s
        /\ row.token = call[v].token /\ row.welcome = call[v].welcome
        /\ call' = [call EXCEPT ![v] = row]
        /\ blacklist' = blacklist \cup {<<s, call[v].token>>}
        /\ outlived' = IF token[s] # call[v].token THEN outlived \cup {s} ELSE outlived
        /\ UNCHANGED <<whitelist, token, loggedOut>>
        /\ call[v].pc = "logout"
    BY <1>0, <1>4 DEF BlacklistAccessToken, Called, Move, CallRow
  <2> HIDE DEF row
  <2>2. SessionsTypeOK'
    BY <1>0, <1>1, <1>2, <2>1 DEF SessionsTypeOK, AccountsInv, CallRow
  <2>3. CallInv'
    BY <1>0, <1>1, <2>1 DEF CallInv, accountVars
  <2>4. WelcomeInv'
    BY <1>0, <2>1 DEF WelcomeInv, accountVars, Serving, UserOf
  <2>5. LogoutInv'
    BY <1>0, <1>1, <2>1 DEF LogoutInv, LoggedOutStaysOut
  <2> QED BY <1>2, <2>2, <2>3, <2>4, <2>5
<1>5. CASE RemoveRefreshToken(v)
  <2>1. /\ call' = [call EXCEPT ![v] = NoCall]
        /\ whitelist' = whitelist \ {call[v].cookie}
        /\ loggedOut' = loggedOut \cup ({s} \cap {call[v].cookie})
        /\ UNCHANGED <<token, blacklist, outlived>>
        /\ call[v].pc = "remove"
    BY <1>5 DEF RemoveRefreshToken, Called, Return
  <2>2. SessionsTypeOK'
    BY <1>0, <1>1, <1>2, <1>3, <2>1 DEF SessionsTypeOK, AccountsInv, CallRow
  <2>3. CallInv'
    BY <1>0, <1>1, <1>3, <2>1 DEF CallInv, accountVars
  <2>4. WelcomeInv'
    BY <1>0, <1>3, <2>1 DEF WelcomeInv, accountVars, Serving, UserOf
  <2>5. LogoutInv'
    BY <1>0, <1>1, <1>3, <2>1 DEF LogoutInv, LoggedOutStaysOut
  <2> QED BY <1>2, <2>2, <2>3, <2>4, <2>5
<1>6. CASE IssueAccessToken(v)
  <2>1. /\ call' = [call EXCEPT ![v] = NoCall]
        /\ token[s] < MaxTokens
        /\ token' = [token EXCEPT ![s] = @ + 1]
        /\ outlived' = IF \/ s \in loggedOut
                          \/ \E w \in Visits : call[w].pc = "remove" /\ call[w].session = s
                       THEN outlived \cup {s} ELSE outlived
        /\ UNCHANGED <<whitelist, blacklist, loggedOut>>
    BY <1>6 DEF IssueAccessToken, Called, Return
  <2>2. SessionsTypeOK'
    BY <1>0, <1>1, <1>2, <1>3, <2>1 DEF SessionsTypeOK, AccountsInv, CallRow
  <2>3. CallInv'
    BY <1>0, <1>1, <1>3, <2>1 DEF CallInv, accountVars, SessionsTypeOK
  <2>4. WelcomeInv'
    BY <1>0, <1>3, <2>1 DEF WelcomeInv, accountVars, Serving, UserOf
  <2>5. LogoutInv'
    BY <1>0, <1>1, <1>3, <2>1 DEF LogoutInv, LoggedOutStaysOut, SessionsTypeOK
  <2> QED BY <1>2, <2>2, <2>3, <2>4, <2>5
<1> QED BY <1>4, <1>5, <1>6

LEMMA SessionsStutter == SessionsInv /\ UNCHANGED allSessionVars => SessionsInv'
<1> SUFFICES ASSUME SessionsInv, UNCHANGED allSessionVars PROVE SessionsInv'
  OBVIOUS
<1>1. AccountsInv' /\ UNCHANGED <<accountVars, sessionVars>>
  BY AccountsMove DEF allSessionVars
<1>2. SessionsTypeOK'
  BY <1>1 DEF SessionsInv, SessionsTypeOK, AccountsInv, sessionVars
<1>3. CallInv' /\ LogoutInv'
  BY <1>1 DEF SessionsInv, CallInv, LogoutInv, LoggedOutStaysOut, sessionVars, accountVars
<1>4. WelcomeInv'
  BY <1>1 DEF SessionsInv, WelcomeInv, Serving, UserOf, sessionVars, accountVars
<1> QED BY <1>1, <1>2, <1>3, <1>4 DEF SessionsInv

LEMMA SessionsInvStep == SessionsInv /\ [SessionsNext]_allSessionVars => SessionsInv'
<1> SUFFICES ASSUME SessionsInv, [SessionsNext]_allSessionVars PROVE SessionsInv'
  OBVIOUS
<1>1. ASSUME NEW s \in SignIns, Login(s) PROVE SessionsInv'
  BY <1>1, LoginKeepsSessions
<1>2. ASSUME NEW v \in Visits, CallStep(v) PROVE SessionsInv'
  <2>1. CASE \/ PassBlacklist(v) \/ PassWhitelist(v) \/ CheckRefreshUser(v)
             \/ EnterLogout(v) \/ Refuse(v) \/ CrashCall(v)
    BY <2>1, GuardsKeep
  <2>2. CASE EnterHandler(v) \/ Handle(v)
    BY <2>2, HandlersKeep
  <2>3. CASE BlacklistAccessToken(v) \/ RemoveRefreshToken(v) \/ IssueAccessToken(v)
    BY <2>3, LogoutKeeps
  <2> QED BY <1>2, <2>1, <2>2, <2>3 DEF CallStep
<1>3. CASE UNCHANGED allSessionVars
  BY <1>3, SessionsStutter
<1> QED BY <1>1, <1>2, <1>3 DEF SessionsNext

LEMMA SessionsInvariance == SessionsSpec => []SessionsInv
BY SessionsInvInit, SessionsInvStep, PTL DEF SessionsSpec

-------------------------------------------------------------------------------
\* The state of users, logins, tokens and requests is well formed: a request's token is
\* one of its session's, and only known users have a social account, a reward or a row
\* that is held.
THEOREM SessionsAreWellFormed == SessionsSpec => []SessionsTypeOK
<1>1. SessionsInv => SessionsTypeOK
  BY DEF SessionsInv
<1> QED BY <1>1, SessionsInvariance, PTL

\* However many withdrawals run, and wherever the server dies in them: a user who has
\* withdrawn has no social account left, and the identity's hash is remembered.
THEOREM WithdrawalForgets == SessionsSpec => []WithdrawnLeavesOnlyHash
<1>1. SessionsInv => WithdrawnLeavesOnlyHash
  BY DEF SessionsInv, AccountsInv, LinkInv, WithdrawnLeavesOnlyHash
<1> QED BY <1>1, SessionsInvariance, PTL

\* One identity is granted the sign-up reward once, for any number of accounts it is
\* given one after the other.
THEOREM OneRewardPerIdentity == SessionsSpec => []RewardedOncePerIdentity
<1>1. SessionsInv => RewardedOncePerIdentity
  <2> SUFFICES ASSUME SessionsInv, mishaps \cap {"twins", "revived"} = {}
               PROVE  Cardinality(rewarded) <= 1
    BY DEF RewardedOncePerIdentity
  <2>1. \A u, w \in rewarded : u = w
    BY DEF SessionsInv, AccountsInv, RewardInv
  <2>2. CASE rewarded = {}
    BY <2>2, FS_EmptySet
  <2>3. CASE rewarded # {}
    <3>1. PICK u \in rewarded : TRUE
      BY <2>3
    <3>2. rewarded = {u}
      BY <2>1, <3>1
    <3>3. Cardinality({u}) = 1
      BY FS_Singleton
    <3> QED BY <3>2, <3>3
  <2> QED BY <2>2, <2>3
<1> QED BY <1>1, SessionsInvariance, PTL

\* A request that comes after its user's withdrawal reaches no handler and is given no
\* access token, on whatever session it comes.
THEOREM WithdrawnAreRefused == SessionsSpec => []WithdrawnIsRefused
<1>1. SessionsInv => WithdrawnIsRefused
  BY DEF SessionsInv, WelcomeInv, WithdrawnIsRefused
<1> QED BY <1>1, SessionsInvariance, PTL

\* A session that was logged out with both its tokens has no refresh token, and its last
\* access token is blacklisted, unless a refresh overtook the logout.
THEOREM LogoutIsFinal == SessionsSpec => []LoggedOutStaysOut
<1>1. SessionsInv => LoggedOutStaysOut
  BY DEF SessionsInv, LogoutInv
<1> QED BY <1>1, SessionsInvariance, PTL

\* What the guards and the sessions do to the users is what Accounts does: each step of
\* a request is one of its handlers there, or changes no account.
THEOREM SessionsImplementAccounts == SessionsSpec => AccountsSpec
<1>1. SessionsInit => AccountsInit
  BY DEF SessionsInit
<1>2. SessionsInv /\ [SessionsNext]_allSessionVars => [AccountsNext]_accountVars
  <2> SUFFICES ASSUME SessionsInv, SessionsNext PROVE [AccountsNext]_accountVars
    BY DEF allSessionVars, sessionVars
  <2>1. ASSUME NEW s \in SignIns, Login(s) PROVE AccountsNext
    BY <2>1 DEF Login, AccountsNext
  <2>2. ASSUME NEW v \in Visits, EnterHandler(v) PROVE AccountsNext
    <3>1. UserOf(v) \in Users
      BY <2>2 DEF EnterHandler, Called, UserOf, SessionsInv, AccountsInv, LoginInv, CallInv
    <3> QED BY <2>2, <3>1 DEF EnterHandler, AccountsNext, VisitStep
  <2>3. ASSUME NEW v \in Visits, Handle(v) PROVE AccountsNext
    BY <2>3 DEF Handle, AccountsNext, VisitStep
  <2>4. ASSUME NEW v \in Visits, CallStep(v), ~EnterHandler(v), ~Handle(v)
        PROVE  UNCHANGED accountVars
    BY <2>4 DEF CallStep, PassBlacklist, EnterLogout, Refuse, BlacklistAccessToken,
                RemoveRefreshToken, PassWhitelist, CheckRefreshUser, IssueAccessToken, CrashCall
  <2> QED BY <2>1, <2>2, <2>3, <2>4 DEF SessionsNext
<1> QED BY <1>1, <1>2, SessionsInvariance, PTL DEF SessionsSpec, AccountsSpec
=============================================================================
