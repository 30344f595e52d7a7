# Folioo server: a verification project

Folioo is a NestJS back end (TypeORM on PostgreSQL, Redis) that sells tickets, spends them on
interview-based experiences and portfolio corrections, and delegates generation to an AI server.
TLA+ models of it are checked by TLC on small instances; the theorems in the `*Proofs`
modules are checked by TLAPS for every value of the constants. Lines are cited as in the
repository; `PROJECT.json` maps each definition to the lines it stands for.

## Inventory

| Component | State it keeps | Operations | Hard behaviour | What makes it correct | Module |
|---|---|---|---|---|---|
| Ticket inventory (`modules/ticket`) | `ticket`, `ticket_grant` rows | issue a grant, consume, revoke for a payment, expire outdated | `FOR UPDATE SKIP LOCKED`, bulk UPDATEs against open transactions | a ticket is spent once, spent tickets stay spent, one ticket per item; what a user is shown holds later | `TicketLedger`, `TicketReads` |
| Grant notices (`modules/ticket`) | `ticket_grant_notice` rows | issue, next pending, shown, dismissed | two tabs report late and again | a dismissed notice stays dismissed | `GrantNotices` |
| Payments (`modules/payment`) | `payment` rows; the order PayApp holds | create, PayApp webhook, cancel | duplicate and concurrent feedback calls, calls to PayApp inside and outside transactions, lost replies, stale `save()`, swallowed errors | credit at most once, only for money taken; revoke only what was refunded | `Purchase`, `PurchaseContract` |
| Event rewards (`modules/event`, `admin`) | `event_participation`, grants | claim, sign-up reward, administrator grant | concurrent claims, unique violation inside a transaction | one reward per participation | `EventReward` |
| Feedback (`modules/feedback`) | responses, the participation | submit | cooldown compared before it is dated, beside claims | rewards of one participation are a cooldown apart | `Feedback` |
| Weekly scheduler (`modules/ticket-automation`) | none | expire, list active users, grant in batches | batches, failures, users who come and go | every listed user is reached once | `WeeklyTickets` |
| Experiences, interviews, portfolios (`modules/experience`, `interview`, `portfolio`, `internal`) | `experience.status`, session id, portfolio | create, delete, session, generate, AI callback, compensation | the AI accepts but answers late, callbacks against compensation, stale edits | an experience never waits for ever; a callback finds its portfolio | `PortfolioGeneration`, `TicketLedger` |
| Interview streams, AI relay, forms (`infra/ai-relay`, `common/utils`) | session id, open streams | start, message, extend, relay, parse a form | the stream is open before the session is saved, event order of a form | no stream without an owner, no cut file is passed on | `InterviewStreams` |
| Corrections (`modules/portfolio-correction`, `internal`) | `correction.status`, insight, items | insight, select and generate, callbacks, fallbacks, edits, delete | delegation sent before the commit, late timeouts, results in two statements | DONE is complete and kept | `Correction` |
| External portfolios | extraction status, blocks, selections, items | upload, callback, add and delete a block | the AI server is asked before the status is saved, unlocked checks | an answer counts once, items are selected blocks | `Extraction` |
| Users (`modules/user`, `auth`) | user, social account, withdrawn hash, agreements | login, agree, rename, withdraw | provider call before the transaction, stale saves, two first logins | a withdrawal leaves a hash only, one reward per identity | `Accounts` |
| Authentication sessions (`modules/auth`, Redis) | refresh whitelist, access blacklist | guards, refresh, logout | refresh against logout, withdrawal against other sessions | a withdrawn user is refused, logged out stays out | `Sessions` |
| Insight logs (`modules/insight`) | insights with an embedding | create, update, delete | checks before the call to the embedding service | the vector is that of the text | `Insights` |
| Activity tags (`modules/insight`) | tags, mappings of tags to logs | create and delete a tag, update and delete a tagged log, list, search | compare-and-replace without a lock, a mapping table without a unique key | a log carries the tags it was saved with | `ActivityTags` |
| Ticket products (`modules/ticket`) | `ticket_product` rows | seed at start-up, list | several servers start, fail and stop | each product once, at its price | `ProductSeed` |
| Admin page (`admin-client`) | the state of the reward dialog and of the two tables | open, load options, select, submit; search, refresh, filter | answers in any order, the dialog outlives its opening | what is announced was granted, the table is the one asked for | `AdminClient`, `AdminTables` |
| Smoke script (`scripts`) | arguments, ids, results | preflight, one call per operation, report | refused and lost calls against real data | old experiences survive, the report adds up | `SmokeRun` |
| Migrations and deployment | the schema | - | - | - | not modelled |

Interaction: payments, event rewards, feedback and the scheduler *supply* tickets through
`TicketGrantFacade.issueGrantAndTickets`; experiences and corrections *spend* them through
`TicketService.consumeTicket`; each does it inside its own database transaction
(`typeorm-transactional`, READ COMMITTED). PayApp calls the webhook until it is answered
`SUCCESS`. The AI server is asked by HTTP and calls the internal API back. Every request passes
the guards of the authentication before its handler.

## Modules

| Module | Models | Uses |
|---|---|---|
| `TicketLedger` | the tickets of one user and type, and the creation transactions that spend them | |
| `TicketLedgerProofs` | theorems about it | `TicketLedger` |
| `TicketReads` | the balance and the expiring tickets a user is shown, beside the inventory | `TicketLedger` |
| `PurchaseContract` | the promise of a purchase: credit once for money taken, revoke after money returned | |
| `Purchase` | payments, PayApp and the webhook and cancel handlers | `TicketLedger`, `INSTANCE PurchaseContract` |
| `PurchaseProofs` | theorems about it, both refinements included | `Purchase`, `TicketLedgerProofs` |
| `EventReward` | one user's event rewards: claims, sign-up rewards, administrator grants | `TicketLedger` |
| `Feedback` | submissions to one event beside claims of its participation | |
| `EventRewardProofs` | theorems about both, the refinement of the ledger included | `EventReward`, `Feedback`, `TicketLedgerProofs` |
| `WeeklyTickets` | the weekly job over the users of the service | |
| `GrantNotices` | the notices of one user | |
| `AdminClient` | the reward dialog of the admin page | |
| `AdminTables` | its tables of users and grants | |
| `ProductSeed` | the catalogue and the servers that seed it | |
| `SmokeRun` | a run of the smoke script | |
| `OperationsProofs` | theorems about these six | `GrantNotices`, `AdminClient`, `AdminTables`, `WeeklyTickets`, `ProductSeed`, `SmokeRun` |
| `PortfolioGeneration` | the generation of one experience's portfolio, its compensation and callback, the edits and the deletion beside it | |
| `GenerationProofs` | theorems about it | `PortfolioGeneration` |
| `Correction` | one correction: insight, generation, callbacks, edits, deletion | |
| `Extraction` | the external portfolio of one correction | |
| `CorrectionProofs` | theorems about both | `Correction`, `Extraction` |
| `Accounts` | the accounts of one social identity | |
| `Sessions` | the sessions of those users and the guards before every handler | `Accounts` |
| `SessionsProofs` | theorems about both, the simulation of `Accounts` included | `Sessions` |
| `Insights` | the texts and vectors of one user's insight logs | |
| `ActivityTags` | the tags on them, and the lists | |
| `InterviewStreams` | the streams of one experience and the multipart forms | |
| `ServicesProofs` | theorems about these three and `TicketReads` | `Insights`, `ActivityTags`, `InterviewStreams`, `TicketReads`, `TicketLedgerProofs` |
| `MCTicketLedger`, `MCPurchase`, `MCServices`, `MCDelegation`, `MCRewards` | small instances for TLC | |

`MCServices`, `MCDelegation` and `MCRewards` extend several components that share no state. Their
variable `part` is chosen initially and never changes: the component it names takes steps, the others
stay as they began, so the components' state spaces add up instead of multiplying, and the checked properties
are those of each component alone. `ServicesTypeOK`, `DelegationTypeOK` and `RewardsTypeOK` join the
type invariants of the components, each evaluated while its own component runs; the theorems state them one by
one. `MCServices` runs the accounts alone with every mishap, and again below the sessions without any: what the
sessions promise beside a crash, a lost reply or a save over a withdrawal is proved and not run.

### TicketLedger

Every query of `TicketRepository` filters by user and type, so one pool is modelled. `source` and
`status` are the committed columns; `held[r]` are the rows that the open transaction of a request has
locked: the SELECT of `ConsumeTicket` has no LIMIT and locks every unlocked row it matches, though only
the first to lapse is spent (`NULLS LAST`; ties by id are left open). A second creation begins beside it
only with tickets issued since; otherwise it finds none and is refused (`INSUFFICIENT_TICKETS`), which
changes nothing. The UPDATE to USED is visible to others only at the commit, so it happens in `CreateItem`.
`ValidateCreation` is the unlocked COUNT. `AbortCreation` stands for every rollback, process
death included. A bulk UPDATE (`ExpireRows`) waits for locked rows and re-evaluates its condition on
the committed row: a step that is not enabled while a row it needs is locked. The item being
inserted is an experience or a correction, which have the same shape (`createExperience`,
`requestCorrection`). `LedgerNext` lets any source issue and revoke at any time, so that suppliers are
refinements of it.

### Purchase

One step is one database statement or one call to PayApp. `creator[p]`, `worker[w]`, `cancel[x]` are
program counters with the values a handler has loaded. `rowLock[p]` is the transaction that has
updated the payment row; what it wrote is committed by its last step, and a crash, an exception or an
abort only releases the lock.

| Action | Code |
|---|---|
| `InsertPayment`, `PayAppOpens`/`PayAppRejects`, `SavePayResult`, `CompensateCreate`, `AbandonCreate` | `PaymentFacade.createPayment`, which is not a transaction; the last is a process death, or the failure of `savePayResult`, whose promise is returned without `await` |
| `ReceiveNotice`, `UpdatePaid`, `IssueTickets`, `ReplySuccess` | `handleWebhook`, `markPaid`, `updatePaidIfRequested`, `issueGrantAndTickets`, and the controller that answers `SUCCESS` |
| `WebhookError`, `CrashWebhook` | an exception, which the controller absorbs; a process death, after which PayApp calls again |
| `ReadPayment`, `PayAppRefunds`/`PayAppRefuses`, `CancelRequested`, `SaveCancelled`, `CountUsed`, `RevokeTickets`, `AbortCancel` | `cancelPayment`, `markCancelled`, `revokeAvailableTicketsForPayment` |
| `CustomerPays`, `Notify` and the order's states | PayApp, modelled from how `PayAppClient` and the webhook use it |

`save()` of a loaded entity rewrites every column that differs from the row, so a stale cancellation
also puts back the `mul_no` and `pay_url` it had read (`WriteCancelled`). The re-read that TypeORM
makes before its UPDATE and the UPDATE are one step. PayApp's numbers are abstracted to what the row
knows of them (`link`); PayApp refunds an order once.

### EventReward

A grant request is one transaction, of one of three kinds: `claimEventReward`, `grantSignUpReward`
(from `onBoarding`) and the administrator's `grantFeedbackRewardByUserId`. They share
`getOrCreateParticipationForUpdate` and differ in which events they may touch (`MayGrant`) and in when
a GRANTED participation stops them (`Refused`).

| Action | Code |
|---|---|
| `Begin` | the checks of the event before the participation is looked up |
| `FindForUpdate` | `SELECT ... FOR UPDATE`: sees no uncommitted row, waits for a locked one, then the check of the reward status |
| `CreateParticipation` | the INSERT: waits for an uncommitted row with the same unique key. If that row commits, the violation aborts the PostgreSQL transaction; the re-select in the `catch` block fails as well, and the request is rolled back |
| `Grant` | saving the participation as GRANTED, `issueGrantAndTickets`, and the commit |
| `AbortGrant` | an exception or a process death before the commit |

`row` is the committed row, so a request that is rolled back takes the row it inserted with it and no
participation is ever committed NOT_GRANTED. `lock` is both the lock of a committed row and the
claim on the unique key of an uncommitted one. A step may join statements that only touch what the
transaction has locked, since nobody else sees them before the commit. The expiry of a reward (a
sign-up reward ends with its event, a claimed one never) is left to `Until`, one value per event.

### PortfolioGeneration

One experience and the portfolio rows its generations make. `experience` and `row` are committed
values; `process[q]` is where a request is, with the statuses it has loaded; `lock` holds the rows that an
open transaction has written. A step is one statement or one call to the AI server, whose view of
each portfolio is `job`.

| Action | Code |
|---|---|
| `LoadExperience`, `TransitionToGenerate`, `InsertPortfolio`, `Delegate` | `generatePortfolio`: the experience is loaded, the AI server is asked for the interview, then one transaction saves the loaded entity and inserts the portfolio (unique `experience_id`), and after it the job is delegated. A reply that takes over 30 seconds is an error although the job was accepted |
| `CompensateReadRow`, `CompensateReadExperience`, `CompensateRemove`, `CompensateFail` | `compensateFailedDelegation`: both branches of its `Promise.all` read first and write afterwards; one that does not find its row ends the other at an unknown point, and the error is only logged |
| `ReceiveResult`, `WriteResult`, `ReadExperience`, `SaveTransition` | `savePortfolioResult`, one transaction |
| `LoadForEdit`, `SaveExperience`, `SavePortfolio` | `updateExperience` (experience, then portfolio) and `updatePortfolio` (`SavePortfolio` alone) |
| `DeleteExperience` | `deleteExperience`; the portfolio goes by `ON DELETE CASCADE` |
| `Deadlock`, `Crash` | PostgreSQL ends one of two transactions that wait for each other; a process death |

`save(entity)` writes every loaded column that differs from the row and inserts the entity again if
the row is gone. So a stale edit writes an old status back, and a generation, an edit or a callback that
has loaded a deleted row brings it back without the relations that its query did not load: a portfolio
of no experience (`ORPHAN`), or an experience of no user (`deleted` stays true). The delete cascades
as `portfolio.entity.ts:56` declares; the schema file of the repository has the key without it, and there
deleting an experience with a portfolio would be an error.
The two reads at the start of a callback are one step: nothing the model has tells them apart but an error
that both give. `mishaps` records what has gone wrong and bounds each kind by one: a crash, a
lost reply, an edit that loses somebody's update (or breaks a deadlock).

Without any mishap the code has one more gap, which no document contradicts: a second request with a
stale entity saves GENERATE over GENERATE, which writes nothing; if the compensation of the first
commits before its INSERT, its portfolio is generated beside GENERATE_FAILED, and the callback does not
finish the experience.

### Correction

`correction` and `items` are committed; `rowLock` is the generation that has written the row and not
committed; `aiJob` is what the AI server knows of each delegation. `save(entity)` writes every
loaded column back (`SaveRow`), `updateById` only the columns it names (`WriteStatus`).

| Action | Code |
|---|---|
| `LoadForInsight`, `SaveDoingRag` | `requestCompanyInsightCreation` of service and facade |
| `SelectAndGenerate`, `ReplaceCorrectionItems`, `TransitionToGenerating`, `UpdateAndDelegate`, `CommitGeneration` | `selectAndGenerate`: the items are replaced, the status is checked and updated, the AI server is asked, and only then the transaction commits |
| `Accept`, `DelegationReturns`, `FallbackToStatus` | the AI server; `delegateCorrectionGeneration`, `delegateCompanyInsightCreation` and their fallbacks. A timeout is an error although the job was accepted |
| `ReceiveInsight`/`SaveCompanyInsight`, `ReceiveStatus`/`SaveStatus`, `ReceiveCorrectionResult`, `ReadItems`, `SaveItems`, `SaveDone` | the callbacks `saveCompanyInsightInternal`, `updateStatusWithTransition`, `saveCorrectionResult`; none is a transaction |
| `LoadForTitle`, `SaveTitle` | `updateTitle`, `updateCompanyInsight` and the two saves of an extraction, which load and save the whole row |
| `DeleteCorrectionItems`, `DeleteCorrectionRow` | `deleteCorrection`, two statements |
| `CrashRequest` | a process death |

`accidents` records what has gone wrong: a crash, a lost reply, a save over changed columns, a reported status
that is not of the job (each bounded, `MaxAccidents` in all), and two generations that overlap. The status callback takes every `CorrectionStatus`, while its description names
DOING_RAG, GENERATING and FAILED as targets (`StagesOf`, `internal-correction.controller.ts:54`). A DONE reported
there has no result, so `DoneIsComplete` sets the accident (`declared`) aside. `Complete` has no
`expectedPortfolioIds`: the only caller of `saveCorrectionResult` outside the unit tests
(`internal-correction-result.controller.ts:64`) passes none.

`FinishedIsKept` names who acts: a finished correction is reopened by a failure or by a request that had
read it before it was finished. `TransitionToGenerating` reads the row again in its statement, so its `seen` is
what it has found there. The statement has to speak of the request that steps: with three insight requests TLC
shows one that has loaded a DONE row without insight and puts it over a later DONE, while every other request
has nothing to do with it.

### Extraction

`extractPortfolio` asks the AI server first and then saves the status and the file name in two
`save`s of the whole row (`Upload`, `ExtractTextReturns`, `SetGenerating`, `LoadForFileName`,
`SaveFileName`). `savePdfExtractionResult` is one transaction (`ReceiveExtraction`, `SelectFound`,
`DeleteOldItems`, `CommitExtraction`, `CommitFailure`) whose reads are steps and whose writes are seen at
its commit; so is `createExternalPortfolioBlock` (`CountBlocks`, `SelectBlock`, `CommitBlock`), and so is `selectPortfolios`
(`ChoosePortfolios`, `CommitSelections`), which may deselect blocks and leaves their items: `leftOut` holds those
since the last extraction, and `ItemsAreSelected` says that there is no other way an item is of an unselected block.
`DeleteBlock` is `deleteExternalPortfolio`. `faults` records a crash, a lost reply, an answer that came
before the extraction was recorded (`early`), a stale file-name save (`overwrite`), two callbacks at once (`overlap`) and
transactions that select blocks beside each other (`raced`); the properties name those they set aside,
and each of them happens in the run.

### Accounts and Sessions

`Accounts` has the handlers. A login (`FindSocialUser`, `CreateUser` or `SaveSocialUser`,
`IssueRefreshToken`, `CommitLogin`) is the transaction of `LoginUsecase.execute`; nothing makes the
identity unique, so two first logins both insert. `LoadForRename`/`SaveName` is `updateProfile`;
`LoadForTerms`, `AgreeTerms`, `CheckIfWithdrawn`, `CommitOnBoarding` is `onBoarding` with
`agreeTerms`; `LoadForWithdrawal`, `UnlinkSocialAccount` or `RefreshAccessToken`, `RevokeAccess`,
`DeactivateById`, `ReadSocialUser`, `CommitWithdrawal` is `withdraw` with the unlink client and
`finalizeWithdrawal`. A sign-in starts by `StartsAccount`, which both modules use. What a provider answers is one of `Replies`, which the client's helpers
(`Request`, `EnsureSuccessResponse`, `ReadResponseText`, `ParseJson`) turn into success or
`UnlinkFailure`. `holder` is the open transaction that has written a user.

`Sessions` extends it by Redis and the guards: `PassBlacklist` and `EnterHandler` or `EnterLogout`
(`JwtAuthGuard`, then `checkUserActive`), `PassWhitelist`, `CheckRefreshUser`, `IssueAccessToken`
(`JwtRefreshGuard`, `handleRefresh`), `BlacklistAccessToken`, `RemoveRefreshToken` (`LogoutUsecase`;
after a withdrawal it runs for the session that asked). A logout removes the refresh token of the cookie it is sent
with, which may be none or another session's (`MoveWithCookie`): `LoggedOutStaysOut` speaks of sessions logged out
with both their tokens, and one logged out without its cookie can be refreshed. The guard reads Redis and then the user, in two
steps.

`withdrawn_user.expires_at` plans to destroy the hash a year after the withdrawal
(`20260307180500_create_withdrawn_user.sql:13-19`). No code does, and the models have no such clock:
`WithdrawnLeavesOnlyHash` and `RewardedOncePerIdentity` hold while the hash is kept, and with the purge the second
would end with it.

Three orders of events are in the model and set aside by the properties, because nothing in the code
prevents them: `twins` (two first logins at once), `revived` (a save over a withdrawal) and
`relinked` (a login that inserts the deleted social account again). `outlived` marks a session that got an
access token beside its logout.

### Insights

`createInsight` and `updateInsight` check, ask the embedding service and then write in a transaction
(`CreateInsight`/`UpdateInsight`, `GetEmbedding`, `CountAgain`, `InsertInsight`, `LoadForUpdate`,
`SaveInsight`); `DeleteInsight` is the deletion. A vector is the pair of texts it was computed from. The
comparison with the maximum is the code's (`>`), so one log more is let in. `collisions` says that two
updates of one log have overlapped, or a deleted log was saved again. That two concurrent
requests may give one title to two logs is covered by no property.

### ActivityTags

The statements of `createActivity`, `createInsight`, `updateInsight`, `deleteActivity` and
`deleteInsight` that touch tags: `CreateActivity`, `FindByNameAndUser`, `InsertTag`;
`CreateTaggedLog`, `SaveAllByIds`; `UpdateTaggedLog`, `LoadTaggedLog`,
`FindAllActivitiesByInsightId`, `DeleteByIds`, `CompareAndReplaceByIds`; `DeleteActivity`,
`DeleteAllByActivityId`, `DeleteTag`; `DeleteTaggedLog`, `DeleteAllByInsightId`, `DropLog`.
`copies` counts committed mappings; `gone` holds those an open transaction has deleted, which
another DELETE waits for. A list reads ids (`FindAllInsightIdByActivityId`), logs (`SearchLogs`,
`FindSimilarInsights`) and names (`GetNamesByInsightIds`) one after the other. `disturbed` are logs
whose own updates or deletions have overlapped, `stale` lists during which a table changed; without
setting these aside `LogHasItsTags` is false, for nothing locks what an update compares with.

### TicketReads, ProductSeed, AdminTables, SmokeRun

`TicketReads` adds the two queries of the tickets page to the inventory: `CountAvailable`, which does not look
at the end of a ticket, and `FindExpiring`, which does. `shown` is the last answer.

`ProductSeed`: `OnModuleInit`, `Reconcile` (the read and the comparison), `SaveAll` (one transaction),
`SeedFails`, which is only logged; servers stop at any time and the dev table may be wiped. `raced`
says that a seed has read the table while another was about to save.

`AdminTables`: `LoadUsers`, `Search`, `LoadGrants` and the opening of a tab send a request (`list`);
`FindUsers`, `CountBalances` and `GetTicketGrants` are the server's queries; `ListArrives` puts the
answer into the table whichever request it is of. The history counts as loading while it has no table
(`Loading`, `TicketGrantHistory.js:163`), so a first load that fails leaves its search disabled; its refresh
button is not. A reward of the dialog is `GrantFromTable`,
`SubmitGrant`, `GiveReward`, `HandleEventGrantSuccess`; the closure keeps the keyword.

`SmokeRun`: the arguments, `FetchDocument` or `SelectInternal`, `Preflight`, then `SkipOperation` or
`CallOperation` per operation and `WriteReport`. The API answers, refuses, or the call is lost before
or after it was performed. What is called is a list in the order of the document, per path in the order of
the methods: the members of a finite set in a strict order (`InOrder`), of which there is one. The documents
looked at hold a path of each sort the script treats differently.

### InterviewStreams

The facade (`LoadExperience`, `GetSessionState`, `OpenPostStream`, `ExtractSessionId`,
`SaveSessionId`), the edits of the experience beside them (`LoadForEdit`, `SaveExperience`, whose `save` writes the
session id they have loaded), the relay (`Finalize`) and the two form parsers, event by event (`ReadField`,
`ReadCorrectionId`, `ReadFile`, `ReadPdf`, `FileLimit`, `FileEnds`, `FormFails`, `FinishForm`,
`FinishPdf`). A form has at most `MaxParts` parts; bytes are not modelled. The first failure settles the
parser's promise, and what busboy reads afterwards is not looked at, so a refused form ends there. When the client
goes away inside a form `pipe` tells the parser nothing and its promise never settles: the request stays where it is,
and `FormFails` stands for errors of the parser alone. `overlapped` says that two starts, or a start and an edit, have overlapped:
the later save then takes the session away from the stream.

### Feedback, WeeklyTickets, GrantNotices, AdminClient

`Feedback`: `FindParticipation` is `SELECT ... FOR UPDATE`, `InsertParticipation` the INSERT with its
unique key, `Decide` the cooldown and the one-reward setting (or, for a claim, the check of the status),
`GrantReward` the grant and the dated participation, committed together. Time is counted in days, and
`NextDay` may come between the comparison and the date.

`WeeklyTickets`: `ExpireOutdatedWeeks`, `FindAllActiveUserIds` (ids in ascending order, `AscendingIds`), `SliceBatch`, `IssueWeeklyGrant`
(each a transaction of its own that may fail), `EndJob`; `JobDies` at any step; `Join` and `UseUp` are
the users. One process runs the job.

`GrantNotices`: `IssueNotice` with the grant, `GetNextNotice`, and a tab's `Report`, which is a
transaction that locks the row (`FindByIdAndUserIdForUpdate`) and saves it (`MarkShown`, `MarkDismissed`) or is lost
(`AbortReport`).

`AdminClient`: the dialog's handlers (`HandleEventGrant`, `OnClose`, `SelectEvent`, `ChangeQuantity`,
`SetStep`, `HandleSubmit`), the two endpoints it calls and their answers in any order (`OptionsArrive`,
`OptionsFail`, `GrantSucceeds`, `GrantFails`). React state survives the closing of the dialog; closures keep the
user they were made with, so an answer writes the state of whichever user the dialog is open for.

## Runs

| Run | Bounds | Shows |
|---|---|---|
| `services` | ledger: 3 tickets, 2 sources (one never lapses, one at time 1), 2 requests, limit 2; accounts: 2 users, 2 logins, 2 requests at a time (`Requests`, as for the ledger), one crash or lost reply; sessions: the same with 2 access tokens a session, a cookie of either or none, and no mishap of the accounts below; insights: 2 ids, 2 titles, 2 descriptions, 2 requests, maximum 1, an update of one of the two texts (`OneTextAtATime`); streams: 2 executions, forms of 4 parts, 2 files, each a request for a stream or an edit | type invariants; `OneTicketPerCreation`, `SpentStaysSpent`, `ToldBeforeLapse`; `WithdrawnLeavesOnlyHash`, `RewardedOncePerIdentity`, `WithdrawnIsRefused`, `LoggedOutStaysOut`; `VectorOfItsText`; `PassedFormIsWhole`, `StreamsAreHeld` |
| `rewards` | events: 2 events (a sign-up event that can also be claimed; a manual one with repeated rewards), 2 requests, 3 tickets, at most 2 rewards per event; feedback: 2 executions, cooldown 2, 5 days; weekly: 3 users, batches of 2, 2 weeks; notices: 2 notices, 2 tabs, 2 moments; admin: 2 users, 2 events, 2 openings, 2 grants, quantity 1; tables: 3 users, lists of 2, 3 requests, 1 reward; seed: 2 kinds, 4 ids, 2 servers; tags: 2 tags, 1 log, 2 requests; smoke: 3 experiences, documents of 6 paths | type invariants; `RewardedOnce`; `RewardsAreSpaced`; `WeeklyReachesEveryone`; `DismissedStaysDismissed`; `AnnouncedMeansGranted`, `TableIsCurrent`; `CatalogueIsWhole`; `LogHasItsTags`; `OldExperiencesSurvive` |
| `delegations` | generation: 2 requests, 1 callback execution, 1 edit, 2 portfolio ids, one mishap; correction: 2 generations, 1 insight request, 1 execution that is a callback or an edit, 2 portfolios, one accident; extraction: 2 uploads, 1 callback execution, 1 addition or choice of blocks, 2 block ids, one fault | type invariants; `DoneHasPortfolio`, `GenerateHasOwner`, `ResultIsKept`; `DoneIsComplete`, `FinishedIsKept`; `AnsweredOncePerExtraction`, `ItemsAreSelected` |
| `progress` | one generation request, one callback or edit, one insight request; 2 uploads, no additions or choices, which write no status | `AiWorkEnds` |
| `purchase` | 1 payment, 2 tickets each, 4 ticket ids, 2 webhook executions, 2 cancellations, 2 creations, 2 crashes, webhook errors on | `CreditedOnce`, `PaidMeansCredited`, `RevokedStaysRevoked`, and both refinements |
| `purchase_live` | 1 payment of 1 ticket, 2 webhooks, 2 cancellations, 1 creation, 1 crash, no webhook errors | `AnsweredMeansCredited`, `PaidIsCredited`, `RowLocksAreReleased` |
| `limit_race` | ledger as in `services`, limit 1 | violated: the limit of items is exceeded by two concurrent creations, the second with a ticket issued after the first had locked the others |
| `refund_used` | 1 payment of 2 tickets | violated: the money goes back although a ticket was used |
| `cancel_race` | as `refund_used` | violated: PAID is overwritten by CANCELLED, with neither a refund nor a revocation |
| `edit_status` | 1 generation request, 1 callback, 1 edit, 2 ids | violated: an edit writes a stale generation status back |
| `double_click` | correction as in `delegations` | violated: two generations leave the items of both, and no result fits |
| `stale_options` | 2 users, 2 events, 2 openings, 1 grant | violated: the dialog shows the options of the user it was opened for before |

Bounds are enough for the races: each is between two executions of a handler (two webhooks, two
cancellations, a webhook and a cancellation, a creation and either, two generations, two logins, two tabs), two tickets make the earliest
expiry and a partial use visible, and payments share nothing but the tickets, whose rows are their
own. The proofs do not depend on the bounds. An execution starts again when it has ended, except where
its job at the AI server or at PayApp is what it stands for. Three users in batches of two give a
full batch and a short one; five days with a cooldown of two give two rewards and the days between;
four parts are a text, two files and one too many; two access tokens are one before and one after a
refresh. Two kinds in four ids leave room for a second row of each; lists of two of three users cut one off; one
log suffices for `LogHasItsTags`, as logs share nothing but the tags. Time is bounded by `MaxTime`, `LastDay`, `LastWeek`, `LastMoment`; crashes and lost
replies by `MaxCrashes`, `MaxAccidents`, `MaxMishaps`, `MaxFaults`; forms by `MaxParts` and
`MaxFiles`; repeated rewards by `MaxGrants`; openings of the dialog and its grants by `MaxOpenings`
and `MaxSubmits`; table requests and their rewards by `MaxLists` and `MaxRewards`; mappings of one tag to one log by
`MaxCopies`. `MaxBlocks`, `MaxInsights`, `MaxTags`, `ListLimit`, `Days`, `Limit`, `MaxQuantity`, `BatchSize` and `CooldownDays` are the code's
constants, given small values. In `delegations` a callback and an edit of a correction share one
execution: both save what they have loaded, and the pairs that matter are each of them with the
generations. A behaviour of `delegations`
has one mishap, accident or fault (`MaxMishaps`), an overlap included: each kind happens, alone, which is where a
property that does not set it aside could break; that the safety properties hold beside any number of them is
proved (see Proofs). `progress` does not bound them further. Symmetry is used in safety runs only, over
ids that no definition tells apart. Deadlock checking is off wherever a finished instance has nothing
left to do.

### Fairness

`FairSpec` assumes that a live server finishes a request it has started (weak fairness of each
handler step; crashes are bounded), that PayApp repeats a call it has no `SUCCESS` for, and that a
statement waiting for a row lock gets it in the end (strong fairness: PostgreSQL queues the waiters
of a row). Creating, paying, cancelling, crashing and starting a creation are never forced. Webhook
errors are off in `purchase_live`: the controller answers `SUCCESS` after any error, so one lost
database connection loses a notice, and `PaidIsCredited` is false with them.

`FairDelegationSpec` gives each of its three components its own (`GenerationFairness`,
`CorrectionFairness`, `ExtractionFairness`): each started request goes on, statements that wait for a
row get it (strong fairness), PostgreSQL ends a deadlock, and the AI server answers an accepted job. The
AI server's answer is strongly fair where another execution of the callback may occupy the one that is
modelled. Nothing starts a generation, an insight, an extraction, an edit or a deletion. `AiWorkEnds` is stated without
mishaps: the code has no recovery for a crash between a commit and a delegation, or for an answer
that arrives before the status it needs.

### Findings

* `limit_race`: the limit of 15 experiences (`error-code.ts:201`) is checked by an unlocked COUNT. A
  creation locks every ticket, so it takes one issued in between for a second to run beside it.
* `refund_used`: `cancelPayment` refunds before it counts used tickets; the documented 409 comes after
  the money is gone, and the payment stays PAID.
* `cancel_race`: `markCancelled` overwrites a payment that has become PAID since it was read.
* `edit_status`: `updateExperience` saves the status it has loaded over the one a generation has
  committed; the callback then does not finish the experience and a new generation is refused.
* `double_click`: two overlapping `selectAndGenerate` insert two sets of items for the same
  portfolios; `saveCorrectionResult` wants one entry per item and refuses every result.
* `stale_options`: a late answer of `loadEventOptions` replaces the options of the user the dialog
  is open for now by those of another.

Observed, but contradicted by no document or required by a test, and so recorded under the hazards: a
PayApp error that loses a notice; a payment cancelled while REQUESTED that can still be paid; one insight log above the maximum; products seeded
twice by two servers; tags left twice on a log by two updates; a table that shows the answer of an older search; an old
experience changed by the smoke script after its POST was refused; two
accounts of one identity after two first logins, and an identity that is locked out after a login
beside a withdrawal; a save over a withdrawal; an extraction whose answer was too early; a creation refused
for want of tickets while another holds all of them; a status report that makes a correction DONE without a result; a
session id overwritten by an edit; a session that can be refreshed after a logout without its cookie; items of blocks
that were deselected; weekly grants after a process death, or by two
processes.

## Proofs

TLAPS checks the theorems of eight modules for every value of the constants. The constants are assumed to
be what the code makes them and no more; TLC evaluates every assumption on its instances.

| Assumption | Says |
|---|---|
| `LedgerConstants`, `ReadConstants` | finitely many tickets; the special values are no members; a source has an end or `Never` |
| `PurchaseConstants` | payments are sources whose tickets never lapse; webhooks and cancellations are distinct |
| `RewardConstants`, `FeedbackConstants` | events are sources; the cooldown is at least a day |
| `NoticeConstants`, `WeeklyConstants`, `SeedConstants` | user ids are numbers and finite; batches are not empty; the ids of the catalogue are finite |
| `AdminConstants`, `TableConstants` | the table's users are 1 to some n; a list shows at least one row; a keyword is the users it matches |
| `AccountConstants`, `SessionConstants` | "no user" is no user and no request |
| `GenerationConstants`, `ExtractionConstants` | generators, callbacks and edits are distinct; uploads, callbacks and additions are finite |
| `CorrectionConstants` | generations and insight requests are distinct; a correction is of finitely many portfolios; "unlocked" is no generation |
| `SmokeConstants`, `DocumentOrder` | a run's own id is no old one; the document declares `POST /experiences` before the operations of one experience, whose parameter is `experienceId` (`experience.controller.ts`) |
| `InsightConstants`, `TagConstants`, `StreamConstants` | the special values are no members |

Each property rests on an inductive invariant, which says what a process knows from its earlier steps
and why nobody has changed it since:

* `LedgerInv` is `LedgerTypeOK`, `HeldTicketsAreSpendable` and "only an issued row has a source".
  `OneTicketEach` needs it because `CreateItem` turns the ticket it holds USED without
  a check, so the count grows by one only if that ticket was not USED before. `SpentIsFinal` uses it
  in the same way. `ToldInv` adds per ticket what the user has been told of it (`ToldBeforeLapse`).
* `PurchaseInv`. `WorkerInv`: a webhook that is issuing tickets
  owns the row lock of a payment that is REQUESTED and that PayApp was paid for. `CancelInv`: a
  cancellation that has read PAID works on a credited payment, and past PayApp on a refunded one.
  `PaymentInv` ties the row's status to the grants and to the order. `CreditedOnce` alone is not
  inductive at `IssueTickets`, which does not look at the row again and depends on the lock. `AnsweredInv` adds
  that a payment the customer has been shown stays shown, and once `Resolved` (credited, unknown by its number, or
  cancelled) stays so. `AnsweredPaymentsAreCredited` has the hypothesis `~HandlerErrors`: the controller
  answers `SUCCESS` after any error, so with errors the property is false (`purchase_live` excludes them, too).
* `RewardInv`: a request that may grant holds the lock of its
  participation and works on a row that is not GRANTED (unless it may repeat the reward), and the
  status, the grants and the tickets agree (`RowsFollowGrants`). `RewardedOnce` needs the first: `Grant`
  does not look at the row again. `FeedbackInv`: the participation knows its last reward (`HistoryOf`), and the
  submission that holds it has read it as it is (`SubmissionOf`).
* `AccountsInv`. `VisitInv`: a request has found its user active, and holds the row it has written.
  `LinkInv`, unless a withdrawn user was `revived` (and for its last part `relinked`): served users have a
  social account, withdrawn ones none but the hash. Its `RewardInv`, unless there were `twins` or a `revived` user: the identity has one current user,
  and a grant that was not refused is its first. Neither follows from the property, which says nothing of
  the logins and withdrawals that are under way. `SessionsInv` adds that a request of a withdrawn user is still in its guard
  (`WelcomeInv`) and that a logout past the blacklist has put the session's last token there (`LogoutInv`).
  `SessionsImplementAccounts` is a step simulation: every step of a session is a handler of
  `Accounts`, or leaves its variables alone.
* `GenerationInv` follows one portfolio: its job says what has become of it (`RowInv`), who carries it knows
  what the job is (`ProcessInv`), a row that is written is locked by who has read it GENERATING
  (`LockInv`), and with no reply or update lost somebody has an experience in GENERATE (`OwnerInv`).
* `CorrectionInv`. `ReadInv`: neither a generation nor a report was let in by a DONE correction, and
  no report writes DONE unless it was `declared`. `ResultInv`: a result
  that is being saved is for the items there are. `GeneratedInv` adds what
  the items are: those of one generation unless two have overlapped, since a generation replaces what it has read
  (`ReplacesAll`), and there are some whenever the row says GENERATING or a request will write so.
* `ExtractionInv`. `AnswerInv`: no more answers were taken than extractions recorded, and a callback that takes one is alone. `SelectionInv`: the blocks a transaction will
  unselect are those there are.
* `StreamsInv`: a form being read has no file cut and at most one open, and one that is passed on has read whole every
  file it has seen (`FormOf`); an open connection belongs to a request that goes on (`HeldBy`), and the session
  belongs to the start that is relayed, and is the one an edit has loaded (`StartInv`). `InsightsInv`: what an edit has read and
  computed, unless requests have collided. `TagsInv`: the mappings are those last chosen (`MappingsInv`), an update has
  read what its log has (`ReadOf`) and a list shows what the tables say (`ListOf`), for logs that are not
  disturbed and lists that are not stale.
* `NoticesInv`: a report that will save a row is the only one for it
  and has read it as it is. `DismissedStaysDismissed` needs it: a save writes back all that was read.
* `AdminInv` counts, per user and event, the requests at each step: what is announced and what is granted and not
  answered is at most what was given. `TablesInv`: a request that overlaps no other has read what was asked for
  (`Fresh`), and rewards given but not announced exceed those announced.
* `WeeklyInv`: the list is ascending, so a user is in one batch (`ListInv`), and where the batches are settles what each has
  been given (`TurnOf`). `SeedInv`: a server that nobody races still has the table as it has compared it (`AloneInv`).
* `RewardsImplementLedger`, `PurchaseImplementsLedger` and `PurchaseImplementsContract` are step simulations, too;
  by the first two, what is proved of `LedgerSpec` holds of rewards and purchases.
* `SmokeInv`: a list of operations has writes with `--mutate` only, and those of one experience after the one that makes
  experiences (`Selection`); each operation before the present one has its result (`Progress`). Then an experience of the run
  that the API has answered with is the only one changed (`ChangeInv`): it was made before any other could be.
  `ReportAddsUp` is counted class by class (`BucketsAreClasses`).

For a property the code does not have, a theorem says what it has instead:

| Run | Theorem | What holds |
|---|---|---|
| `limit_race` | `OvershootIsBounded`, `OneAtATimeRespectsLimit` | the limit is exceeded by at most the requests there are, less one; one at a time, not at all |
| `cancel_race` | `OnlyStaleReadsSkipRefund` | PAID becomes CANCELLED with money and tickets taken back, or by a cancellation that had read REQUESTED |
| `double_click` | `OneGenerationCanBeSaved` | without overlapping generations a result that arrives can be saved |
| `stale_options` | `OptionsOfOneRequest` | if the dialog is only opened when all requests for options are answered, it offers those of its user |

Nothing of the kind is stated for `refund_used`, which takes no overlap at all, and `edit_status`, where what would
remain (an edit between whose load and save nothing changed the status) restates the save.

Only model-checked:

* `AiWorkEnds`, `PaidIsCredited` and `RowLocksAreReleased`: liveness under fairness is out of the prover's reach.
* `ServicesTypeOK`, `DelegationTypeOK` and `RewardsTypeOK` as they stand: they belong to the MC modules, and each of the type
  invariants they join is a theorem about its component.
* The properties of the violated runs, which are false.

## What is left

1. Supplies of the inventory that are not yet refinements of `LedgerSpec`: `Feedback` and `WeeklyTickets` count
   grants and weeks instead of tickets. With tickets of their own they would be step simulations like `EventReward`.
2. What a crash leaves: after which mishap which of `GenerateHasOwner`, `DoneIsComplete` and `AnsweredOncePerExtraction` still
   holds, stated and proved mishap by mishap.

## Not modelled

Reads of one row (details, status, profile), validation of request bodies, the DTOs, entities'
column declarations, module wiring and controllers' decorators, which make up most of the remaining
source lines and have no behaviour of their own; the error-code table; the signature of the webhook;
formatting and logging; the generation of the provisional `mul_no`. Terms and marketing consent are
rows written by one statement each. No code edits an event, so which ones are active is a constant.
Of the admin page, toasts, badges and texts are layout. Migrations and deployment files are scripts,
and the constraints they create are used where a module relies on one. That a page which is not the
provider's passes for its answer to a revocation is left out: an accepted answer means it was done.
