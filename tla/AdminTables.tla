------------------------------ MODULE AdminTables ------------------------------
(***************************************************************************)
(* The two tables of the admin page: the users that match a keyword, and   *)
(* the history of grants.  A table is loaded when its tab is opened, by a   *)
(* search or a refresh, and the users also after each reward the dialog    *)
(* (AdminClient) has given.  Nothing orders the requests: each answer      *)
(* replaces the table when it comes.                                       *)
(*                                                                         *)
(* A keyword is the set of users whose name or email contains it; a user's *)
(* balance is how many rewards of this page it includes.                   *)
(***************************************************************************)
EXTENDS Naturals, FiniteSets, Sequences

CONSTANTS
    Clients,        \* the ids of the users, 1 to some number
    Keywords,       \* what the admin may type; Clients stands for nothing
    ListLimit,      \* LIMIT of the queries (100)
    MaxLists,       \* bound of the requests for a table
    MaxRewards,     \* bound of the rewards
    NotListed       \* a table that is not loaded

ASSUME TableConstants ==
    /\ IsFiniteSet(Clients) /\ Clients = 1..Cardinality(Clients) /\ Clients \in Keywords
    /\ \A k \in Keywords : k \subseteq Clients
    /\ ListLimit \in Nat \ {0} /\ MaxLists \in Nat \ {0} /\ MaxRewards \in Nat
    /\ NotListed \notin Keywords

VARIABLES
    granted,    \* the rows of ticket_grant, oldest first, with the latest notice of each
    page,       \* the tab that is open and its state
    list,       \* the requests for a table
    asked,      \* grants the dialog has asked for, with the keyword its closure keeps
    toldOf      \* history: rewards the page has announced, per user

tableVars == <<granted, page, list, asked, toldOf>>

Lists == 1..MaxLists
NoticeStates == {"PENDING", "SHOWN", "DISMISSED"}
NoticeFilters == NoticeStates \cup {"NONE"}
Counted == [Clients -> 0..MaxRewards]
GrantRows == [id : 1..MaxRewards, user : Clients, notice : NoticeStates \cup {"NONE"}]

NoList == [pc |-> "none", keyword |-> {}, rows |-> {}, counts |-> [u \in Clients |-> 0],
           grants |-> {}]

\* useState(...) of both tabs; the last request, and whether it overlapped another.
Mounted(tab) == [tab |-> tab, keyword |-> Clients, loading |-> FALSE, loaded |-> FALSE,
                 rows |-> {}, total |-> 0, counts |-> [u \in Clients |-> 0], grants |-> {},
                 last |-> NotListed, crossed |-> FALSE]

TablesTypeOK ==
    /\ \A i \in DOMAIN granted : granted[i] \in GrantRows /\ granted[i].id = i
    /\ page \in [tab : {"users", "grants"}, keyword : Keywords, loading : BOOLEAN,
                 loaded : BOOLEAN, rows : SUBSET Clients, total : 0..Cardinality(Clients),
                 counts : Counted, grants : SUBSET GrantRows,
                 last : Keywords \cup {NotListed}, crossed : BOOLEAN]
    /\ list \in [Lists -> [pc : {"none", "users", "balances", "grants", "answer", "over"},
                           keyword : Keywords \cup {{}}, rows : SUBSET Clients,
                           counts : Counted, grants : SUBSET GrantRows]]
    /\ asked \subseteq [user : Clients, keyword : Keywords \cup {NotListed},
                       pc : {"chosen", "sent", "given"}]
    /\ toldOf \in Counted

TablesInit ==
    /\ granted = <<>>
    /\ page = [Mounted("users") EXCEPT !.loading = TRUE, !.last = Clients]
    /\ list = [l \in Lists |-> IF l = 1 THEN [NoList EXCEPT !.pc = "users", !.keyword = Clients]
                               ELSE NoList]
    /\ asked = {}
    /\ toldOf = [u \in Clients |-> 0]

-------------------------------------------------------------------------------
Waiting == {l \in Lists : list[l].pc \notin {"none", "over"}}
NextList(pc, keyword, dropped) ==
    \E l \in Lists :
        /\ list[l].pc = "none" /\ \A k \in 1..(l - 1) : list[k].pc # "none"
        /\ list' = [k \in Lists |->
                        IF k = l THEN [NoList EXCEPT !.pc = pc, !.keyword = keyword]
                        ELSE IF k \in dropped THEN [NoList EXCEPT !.pc = "over"] ELSE list[k]]

\* The button of the search is disabled by a flag of the users, and in the history while
\* no table has come (grants === null).
Loading(tab, keyword) ==
    [tab EXCEPT !.loading = (tab.tab = "users" \/ ~tab.loaded), !.last = keyword,
                !.crossed = Waiting # {}]

\* loadUsers: nothing cancels the requests before.
LoadUsers(keyword) ==
    /\ NextList("users", keyword, {})
    /\ page' = Loading(page, keyword)

\* A tab is mounted with a fresh state and loads its table; what the other tab has asked
\* for is answered to nobody.
Unmounted == {[a EXCEPT !.keyword = NotListed] : a \in asked}

OpenUsers ==
    /\ page.tab # "users"
    /\ NextList("users", Clients, Waiting)
    /\ page' = [Loading(Mounted("users"), Clients) EXCEPT !.crossed = FALSE]
    /\ asked' = Unmounted
    /\ UNCHANGED <<granted, toldOf>>

OpenGrants ==
    /\ page.tab # "grants"
    /\ NextList("grants", Clients, Waiting)
    /\ page' = [Loading(Mounted("grants"), Clients) EXCEPT !.crossed = FALSE]
    /\ asked' = Unmounted
    /\ UNCHANGED <<granted, toldOf>>

\* The search field, and its button; Enter searches while the button is disabled.
KeywordChange(keyword) ==
    /\ page.tab = "users" /\ page.keyword # keyword
    /\ page' = [page EXCEPT !.keyword = keyword]
    /\ UNCHANGED <<granted, list, asked, toldOf>>

Search ==
    /\ page.tab = "users"
    /\ LoadUsers(page.keyword)
    /\ UNCHANGED <<granted, asked, toldOf>>

\* Enter in the search field, its button and the refresh of the history load it again;
\* the first and the last are there while the button of the search is disabled.
LoadGrants ==
    /\ page.tab = "grants"
    /\ NextList("grants", Clients, {})
    /\ page' = Loading(page, Clients)
    /\ UNCHANGED <<granted, asked, toldOf>>

-------------------------------------------------------------------------------
\* searchUsersWithSocialInfo: the first users, by id, that match.
SearchUsersWithSocialInfo(keyword) ==
    {u \in keyword : Cardinality({w \in keyword : w <= u}) <= ListLimit}

\* Users without a ticket have no row in the groups, ...
CountAvailableGrouped ==
    LET owner(i) == granted[i].user
    IN {[user |-> owner(i), count |-> Cardinality({j \in DOMAIN granted : owner(j) = owner(i)})] :
            i \in DOMAIN granted}

\* ... and are given a balance of 0.
GetBalanceBatch ==
    [u \in Clients |-> IF \E row \in CountAvailableGrouped : row.user = u
                       THEN (CHOOSE row \in CountAvailableGrouped : row.user = u).count ELSE 0]

\* findAllWithLatestNotice: the newest grants.
FindAllWithLatestNotice ==
    {granted[i] : i \in {j \in DOMAIN granted : j > Len(granted) - ListLimit}}

\* searchUsers reads the users first and their balances then.
FindUsers(l) ==
    /\ list[l].pc = "users"
    /\ list' = [list EXCEPT ![l].pc = "balances",
                            ![l].rows = SearchUsersWithSocialInfo(list[l].keyword)]
    /\ UNCHANGED <<granted, page, asked, toldOf>>

CountBalances(l) ==
    /\ list[l].pc = "balances"
    /\ list' = [list EXCEPT ![l].pc = "answer", ![l].counts = GetBalanceBatch]
    /\ UNCHANGED <<granted, page, asked, toldOf>>

GetTicketGrants(l) ==
    /\ list[l].pc = "grants"
    /\ list' = [list EXCEPT ![l].pc = "answer", ![l].grants = FindAllWithLatestNotice]
    /\ UNCHANGED <<granted, page, asked, toldOf>>

\* The answer replaces the table, whichever request it is of; a failure leaves it.
ListArrives(l) ==
    /\ list[l].pc = "answer"
    /\ list' = [list EXCEPT ![l] = [NoList EXCEPT !.pc = "over"]]
    /\ page' = [page EXCEPT !.loaded = TRUE, !.loading = FALSE, !.grants = list[l].grants,
                    !.rows = list[l].rows, !.total = Cardinality(list[l].rows),
                    !.counts = list[l].counts]
    /\ UNCHANGED <<granted, asked, toldOf>>

ListFails(l) ==
    /\ l \in Waiting
    /\ list' = [list EXCEPT ![l] = [NoList EXCEPT !.pc = "over"]]
    /\ page' = [page EXCEPT !.loading = (page.tab = "grants" /\ ~page.loaded), !.last = NotListed]
    /\ UNCHANGED <<granted, asked, toldOf>>

-------------------------------------------------------------------------------
\* The users shown, each with the two counts and a button; ...
UserTable == IF page.tab = "users" /\ page.loaded THEN page.rows ELSE {}

\* ... the button opens the dialog for its user, ...
GrantFromTable(u) ==
    /\ u \in UserTable
    /\ asked = {} /\ Len(granted) < MaxRewards
    /\ asked' = {[user |-> u, keyword |-> page.keyword, pc |-> "chosen"]}
    /\ UNCHANGED <<granted, page, list, toldOf>>

\* ... which asks for the reward.  Its closure keeps the keyword of that moment.
SubmitGrant(a) ==
    /\ a.pc = "chosen" /\ a.keyword # NotListed
    /\ asked' = {[a EXCEPT !.pc = "sent", !.keyword = page.keyword]}
    /\ UNCHANGED <<granted, page, list, toldOf>>

\* The server commits the tickets, the grant and its notice, if it has one.
GiveReward(a) ==
    /\ a.pc = "sent"
    /\ \E notice \in {"PENDING", "NONE"} :
        granted' = Append(granted, [id |-> Len(granted) + 1, user |-> a.user, notice |-> notice])
    /\ asked' = {[a EXCEPT !.pc = "given"]}
    /\ UNCHANGED <<page, list, toldOf>>

\* Mutant: the table is not loaded again.
AnnounceOnly(a) ==
    /\ a.pc = "given" /\ a.keyword # NotListed
    /\ asked' = {}
    /\ toldOf' = [toldOf EXCEPT ![a.user] = @ + 1]
    /\ UNCHANGED <<granted, page, list>>

\* handleEventGrantSuccess: the reward is announced and the users are loaded again.
HandleEventGrantSuccess(a) ==
    /\ a.pc = "given" /\ a.keyword # NotListed
    /\ asked' = {}
    /\ toldOf' = [toldOf EXCEPT ![a.user] = @ + 1]
    /\ LoadUsers(a.keyword)
    /\ UNCHANGED granted

\* The dialog is closed, the answer is an error or is lost, or nobody waits for it.
GrantIsLost(a) ==
    /\ asked' = {}
    /\ UNCHANGED <<granted, page, list, toldOf>>

\* Users are shown their notices and dismiss them (GrantNotices).
NoticeMoves ==
    /\ \E i \in DOMAIN granted :
        \/ granted[i].notice = "PENDING" /\ granted' = [granted EXCEPT ![i].notice = "SHOWN"]
        \/ granted[i].notice = "SHOWN" /\ granted' = [granted EXCEPT ![i].notice = "DISMISSED"]
    /\ UNCHANGED <<page, list, asked, toldOf>>

TablesNext ==
    \/ OpenUsers \/ OpenGrants \/ Search \/ LoadGrants
    \/ \E keyword \in Keywords : KeywordChange(keyword)
    \/ \E l \in Lists :
        \/ FindUsers(l) \/ CountBalances(l) \/ GetTicketGrants(l)
        \/ ListArrives(l) \/ ListFails(l)
    \/ \E u \in Clients : GrantFromTable(u)
    \/ \E a \in asked : SubmitGrant(a) \/ GiveReward(a) \/ HandleEventGrantSuccess(a) \/ GrantIsLost(a)
    \/ NoticeMoves

TablesSpec == TablesInit /\ [][TablesNext]_tableVars

-------------------------------------------------------------------------------
\* filteredGrants: the rows of the history that the choice of a notice leaves.
FilteredGrants(filter) ==
    {g \in page.grants : IF filter = "NONE" THEN g.notice \notin NoticeStates
                         ELSE g.notice = filter}

\* With no request under way the table is the one that was asked for last, and includes
\* every reward the page has announced, though a search reads users and balances apart
\* and the reload of a reward may meet another search; the button is enabled again,
\* except in a history whose first request has failed; and each grant of the history is
\* found under one filter.  Requests that overlap are set aside: the answer of an older
\* one may come last.
TableIsCurrent ==
    Waiting = {} =>
        /\ page.loading => page.tab = "grants" /\ ~page.loaded /\ page.last = NotListed
        /\ page.last # NotListed /\ ~page.crossed =>
            IF page.tab = "users"
            THEN /\ page.rows = SearchUsersWithSocialInfo(page.last)
                 /\ \A u \in page.rows : page.counts[u] >= toldOf[u]
            ELSE /\ \/ Cardinality(page.grants) = ListLimit
                    \/ \A u \in Clients :
                        Cardinality({g \in page.grants : g.user = u}) >= toldOf[u]
                 /\ \A g \in page.grants :
                        Cardinality({f \in NoticeFilters : g \in FilteredGrants(f)}) = 1
=============================================================================
