------------------------------ MODULE Correction ------------------------------
(***************************************************************************)
(* One portfolio correction: the company insight the AI server writes      *)
(* (requestCompanyInsightCreation, saveCompanyInsightInternal), the        *)
(* generation of the reviewed items (selectAndGenerate,                    *)
(* saveCorrectionResult), the statuses the AI server reports, and the      *)
(* edits and the deletion the user may send meanwhile.                     *)
(*                                                                         *)
(* `correction' and `items' are committed; a step is one statement or one  *)
(* call.  Only selectAndGenerate is a transaction: its items and its       *)
(* status appear when it commits, after the AI server has been asked.      *)
(* save(entity) writes back every column it has loaded, updateById writes  *)
(* the columns it names.                                                   *)
(***************************************************************************)
EXTENDS Naturals, FiniteSets

CONSTANTS
    CorrectedPortfolios, \* portfolios the user may select
    Generations,         \* executions of selectAndGenerate
    InsightRequests,     \* executions of requestCompanyInsightCreation
    Reports,             \* executions of the AI server's callbacks
    TitleEdits,          \* executions of updateTitle, updateCompanyInsight, ...
    MaxAccidents,        \* bound on crashes, lost replies, lost updates and declared statuses
    Unlocked             \* of the row nobody has written in an open transaction

ASSUME CorrectionConstants ==
    /\ IsFiniteSet(CorrectedPortfolios)
    /\ Generations \cap InsightRequests = {}
    /\ Unlocked \notin Generations

Jobs == Generations \cup InsightRequests
Requests == Jobs \cup Reports \cup TitleEdits

VARIABLES
    correction, \* the row: status, is there an insight, is there an overall review
    items,      \* correction items: the request that inserted it and its portfolio
    reviewed,   \* the items the AI server has written
    deletion,   \* how far deleteCorrection is
    rowLock,    \* the transaction that has written the row
    aiJob,      \* what the AI server knows of a delegation
    request,    \* where an execution is and what it has loaded
    accidents   \* what has gone wrong, once each

correctionVars == <<correction, items, reviewed, deletion, rowLock, aiJob, request, accidents>>

CorrectionStatus ==
    {"NOT_STARTED", "DOING_RAG", "COMPANY_INSIGHT", "GENERATING", "DONE", "RAG_FAILED", "FAILED"}
Row == [status : CorrectionStatus, insight : BOOLEAN, review : BOOLEAN]
ItemIds == Generations \X CorrectedPortfolios
Resting == [pc |-> "idle", seen |-> [status |-> "NOT_STARTED", insight |-> FALSE, review |-> FALSE],
            rows |-> {}, targets |-> {}]

CorrectionTypeOK ==
    /\ correction \in Row
    /\ items \subseteq ItemIds
    /\ reviewed \subseteq items
    /\ deletion \in {"no", "items", "row"}
    /\ rowLock \in Generations \cup {Unlocked}
    /\ aiJob \in [Jobs -> {"none", "sent", "refused", "accepted", "answered"}]
    /\ request \in [Requests ->
            [pc : {"idle", "items", "transition", "update", "commit", "saveRag", "delegate",
                   "fallback", "saveInsight", "status", "result", "saveItems", "saveResult", "edit"},
             seen : Row, rows : SUBSET ItemIds, targets : SUBSET CorrectedPortfolios]]
    /\ accidents \subseteq {"crash", "reply", "overwrite", "overlap", "declared"}

CorrectionInit ==
    /\ correction = [status |-> "NOT_STARTED", insight |-> FALSE, review |-> FALSE]
    /\ items = {}
    /\ reviewed = {}
    /\ deletion = "no"
    /\ rowLock = Unlocked
    /\ aiJob = [j \in Jobs |-> "none"]
    /\ request = [q \in Requests |-> Resting]
    /\ accidents = {}

-------------------------------------------------------------------------------
Doing(q, pc) == request[q].pc = pc
Proceed(q, pc) == request' = [request EXCEPT ![q].pc = pc]
Delegates(q) == request' = [request EXCEPT ![q] = [Resting EXCEPT !.pc = "delegate"]]
Finish(q) == request' = [request EXCEPT ![q] = Resting]
\* Something goes wrong; each kind once.
Accident(kind) ==
    /\ kind \notin accidents
    /\ Cardinality(accidents \ {"overlap"}) < MaxAccidents
    /\ accidents' = accidents \cup {kind}
Exists == deletion # "row"
Present(q) == rowLock \in {q, Unlocked}

\* validateStatusTransition.
Transition(from, to) ==
    \/ from = to
    \/ to \in {"FAILED", "RAG_FAILED"}
    \/ <<from, to>> \in {<<"NOT_STARTED", "DOING_RAG">>, <<"DOING_RAG", "COMPANY_INSIGHT">>,
                         <<"COMPANY_INSIGHT", "GENERATING">>, <<"GENERATING", "DONE">>,
                         <<"FAILED", "GENERATING">>}

\* updateById(status): the other columns keep what they have.
WriteStatus(q, status) ==
    /\ Present(q)
    /\ correction' = IF Exists THEN [correction EXCEPT !.status = status] ELSE correction

\* save(entity): every column goes back as it was loaded.  A row that has changed
\* since loses that change, which is counted once; a row that is gone comes back as
\* a row of no user.
SaveRow(q, row) ==
    /\ Present(q)
    /\ IF Exists /\ request[q].seen # correction
       THEN Accident("overwrite")
       ELSE UNCHANGED accidents
    /\ correction' = IF Exists THEN row ELSE correction

-------------------------------------------------------------------------------
(* The company insight                                                     *)

\* requestCompanyInsightCreation: one that runs already is left alone.
LoadForInsight(r) ==
    /\ Doing(r, "idle") /\ aiJob[r] = "none"
    /\ Exists /\ ~correction.insight /\ correction.status # "DOING_RAG"
    /\ request' = [request EXCEPT ![r] = [Resting EXCEPT !.pc = "saveRag", !.seen = correction]]
    /\ UNCHANGED <<correction, items, reviewed, deletion, rowLock, aiJob, accidents>>

SaveDoingRag(r) ==
    /\ Doing(r, "saveRag")
    /\ SaveRow(r, [request[r].seen EXCEPT !.status = "DOING_RAG"])
    /\ aiJob' = [aiJob EXCEPT ![r] = "sent"]
    /\ Delegates(r)
    /\ UNCHANGED <<items, reviewed, deletion, rowLock>>

-------------------------------------------------------------------------------
(* The generation                                                          *)

\* The active selections are read here; selectPortfolios may have changed them since
\* the last generation.
SelectAndGenerate(g) ==
    /\ Doing(g, "idle") /\ aiJob[g] = "none"
    /\ Exists
    /\ \E selected \in (SUBSET CorrectedPortfolios) \ {{}} :
        request' = [request EXCEPT ![g] = [Resting EXCEPT !.pc = "items", !.targets = selected]]
    /\ UNCHANGED <<correction, items, reviewed, deletion, rowLock, aiJob, accidents>>

\* The DELETE sees the items committed so far; the INSERTs need the correction, and
\* keep it from being deleted.
ReplaceCorrectionItems(g) ==
    /\ Doing(g, "items")
    /\ request' = [request EXCEPT ![g] = IF Exists
                    THEN [@ EXCEPT !.pc = "transition", !.rows = items]
                    ELSE Resting]
    /\ UNCHANGED <<correction, items, reviewed, deletion, rowLock, aiJob, accidents>>

\* transitionToGenerating reads the row again; a refusal rolls the items back.
TransitionToGenerating(g) ==
    /\ Doing(g, "transition")
    /\ request' = [request EXCEPT ![g] = IF Transition(correction.status, "GENERATING")
                    THEN [@ EXCEPT !.pc = "update", !.seen = correction]
                    ELSE Resting]
    /\ UNCHANGED <<correction, items, reviewed, deletion, rowLock, aiJob, accidents>>

\* The UPDATE, and the call to the AI server that does not wait for the commit.
UpdateAndDelegate(g) ==
    /\ Doing(g, "update")
    /\ Present(g)
    /\ rowLock' = g
    /\ aiJob' = [aiJob EXCEPT ![g] = "sent"]
    /\ Proceed(g, "commit")
    /\ UNCHANGED <<correction, items, reviewed, deletion, accidents>>

\* Another generation between its first statement and its commit, or a result being
\* written: it will find other items than it has read.
Overlaps(g) ==
    \/ \E h \in Generations \ {g} : request[h].pc \in {"transition", "update", "commit"}
    \/ \E k \in Reports : request[k].pc \in {"saveItems", "saveResult"}

CommitGeneration(g) ==
    /\ Doing(g, "commit")
    /\ correction' = [correction EXCEPT !.status = "GENERATING"]
    /\ items' = (items \ request[g].rows) \cup ({g} \X request[g].targets)
    /\ reviewed' = reviewed \cap items'
    /\ rowLock' = Unlocked
    /\ accidents' = IF Overlaps(g) THEN accidents \cup {"overlap"} ELSE accidents
    /\ Delegates(g)
    /\ UNCHANGED <<deletion, aiJob>>

-------------------------------------------------------------------------------
(* The delegation to the AI server                                         *)

Accept(j) ==
    /\ aiJob[j] = "sent"
    /\ aiJob' = [aiJob EXCEPT ![j] = "accepted"]
    /\ UNCHANGED <<correction, items, reviewed, deletion, rowLock, request, accidents>>

\* postJson returns, is refused, or times out although the job was accepted.
DelegationReturns(j) ==
    /\ Doing(j, "delegate")
    /\ \/ /\ aiJob[j] \in {"accepted", "answered"}
          /\ Finish(j)
          /\ UNCHANGED <<aiJob, accidents>>
       \/ /\ aiJob[j] = "sent"
          /\ aiJob' = [aiJob EXCEPT ![j] = "refused"]
          /\ Proceed(j, "fallback")
          /\ UNCHANGED accidents
       \/ /\ aiJob[j] \in {"accepted", "answered"}
          /\ Accident("reply")
          /\ Proceed(j, "fallback")
          /\ UNCHANGED aiJob
    /\ UNCHANGED <<correction, items, reviewed, deletion, rowLock>>

\* Mutant: a refused job is only logged.
FallbackOnlyLogs(j) ==
    /\ Doing(j, "fallback")
    /\ Finish(j)
    /\ UNCHANGED <<correction, items, reviewed, deletion, rowLock, aiJob, accidents>>

\* fallbackToStatus: every status may fail.
FallbackToStatus(j) ==
    /\ Doing(j, "fallback")
    /\ WriteStatus(j, IF j \in Generations THEN "FAILED" ELSE "RAG_FAILED")
    /\ Finish(j)
    /\ UNCHANGED <<items, reviewed, deletion, rowLock, aiJob, accidents>>

-------------------------------------------------------------------------------
(* The callbacks                                                           *)

\* The AI server reports on a job it has accepted, and may report again.
Reported(j) == aiJob[j] \in {"accepted", "answered"} /\ aiJob' = [aiJob EXCEPT ![j] = "answered"]

\* Mutant: an insight is taken in every status.
InsightUnchecked(k) ==
    /\ Doing(k, "idle") /\ Exists
    /\ \E r \in InsightRequests : Reported(r)
    /\ request' = [request EXCEPT ![k] = [Resting EXCEPT !.pc = "saveInsight", !.seen = correction]]
    /\ UNCHANGED <<correction, items, reviewed, deletion, rowLock, accidents>>

\* saveCompanyInsightInternal.
ReceiveInsight(k) ==
    /\ Doing(k, "idle") /\ Exists
    /\ \E r \in InsightRequests : Reported(r)
    /\ Transition(correction.status, "COMPANY_INSIGHT")
    /\ request' = [request EXCEPT ![k] = [Resting EXCEPT !.pc = "saveInsight", !.seen = correction]]
    /\ UNCHANGED <<correction, items, reviewed, deletion, rowLock, accidents>>

SaveCompanyInsight(k) ==
    /\ Doing(k, "saveInsight")
    /\ SaveRow(k, [request[k].seen EXCEPT !.insight = TRUE, !.status = "COMPANY_INSIGHT"])
    /\ Finish(k)
    /\ UNCHANGED <<items, reviewed, deletion, rowLock, aiJob>>

\* The stages of a job that updateCorrectionStatus documents.  It takes every other status as
\* well: DONE without a result, or the stage of another job.
StagesOf(j) == {IF j \in Generations THEN "GENERATING" ELSE "DOING_RAG", "FAILED"}

\* updateStatusWithTransition: a job that is still under way is not answered by it.
ReceiveStatus(k) ==
    /\ Doing(k, "idle") /\ Exists
    /\ \E j \in Jobs, status \in CorrectionStatus :
        /\ IF status \in StagesOf(j) THEN UNCHANGED accidents ELSE Accident("declared")
        /\ IF status \in {"NOT_STARTED", "DOING_RAG", "GENERATING"}
           THEN aiJob[j] = "accepted" /\ UNCHANGED aiJob
           ELSE Reported(j)
        /\ Transition(correction.status, status)
        /\ request' = [request EXCEPT ![k] =
                [Resting EXCEPT !.pc = "status", !.seen = [correction EXCEPT !.status = status]]]
    /\ UNCHANGED <<correction, items, reviewed, deletion, rowLock>>

SaveStatus(k) ==
    /\ Doing(k, "status")
    /\ WriteStatus(k, request[k].seen.status)
    /\ Finish(k)
    /\ UNCHANGED <<items, reviewed, deletion, rowLock, aiJob, accidents>>

\* A result is taken when it has exactly one entry for every item: no caller passes the
\* parameter expectedPortfolioIds, which would ask for some of them only.
Complete(existing, provided) ==
    /\ existing # {}
    /\ provided \subseteq {i[2] : i \in existing}
    /\ Cardinality(provided) = Cardinality(existing)

\* saveCorrectionResult, with whatever portfolios the AI server has answered for: an
\* incomplete result is not its last word.
ReceiveCorrectionResult(k) ==
    /\ Doing(k, "idle") /\ Exists
    /\ Transition(correction.status, "DONE")
    /\ \E g \in Generations, provided \in (SUBSET CorrectedPortfolios) \ {{}} :
        /\ IF Complete(items, provided)
           THEN Reported(g)
           ELSE aiJob[g] \in {"accepted", "answered"} /\ UNCHANGED aiJob
        /\ request' = [request EXCEPT ![k] = [Resting EXCEPT !.pc = "result", !.targets = provided]]
    /\ UNCHANGED <<correction, items, reviewed, deletion, rowLock, accidents>>

\* Mutant: a result for some of the items is taken.
ReadItemsPartly(k) ==
    /\ Doing(k, "result")
    /\ request' = [request EXCEPT ![k] =
            IF items # {} /\ request[k].targets \subseteq {i[2] : i \in items}
            THEN [@ EXCEPT !.pc = "saveItems", !.rows = {i \in items : i[2] \in request[k].targets}]
            ELSE Resting]
    /\ UNCHANGED <<correction, items, reviewed, deletion, rowLock, aiJob, accidents>>

ReadItems(k) ==
    /\ Doing(k, "result")
    /\ request' = [request EXCEPT ![k] =
            IF Complete(items, request[k].targets)
            THEN [@ EXCEPT !.pc = "saveItems", !.rows = items]
            ELSE Resting]
    /\ UNCHANGED <<correction, items, reviewed, deletion, rowLock, aiJob, accidents>>

SaveItems(k) ==
    /\ Doing(k, "saveItems")
    /\ reviewed' = reviewed \cup (request[k].rows \cap items)
    /\ Proceed(k, "saveResult")
    /\ UNCHANGED <<correction, items, deletion, rowLock, aiJob, accidents>>

SaveDone(k) ==
    /\ Doing(k, "saveResult")
    /\ Present(k)
    /\ correction' = IF Exists THEN [correction EXCEPT !.status = "DONE", !.review = TRUE]
                     ELSE correction
    /\ Finish(k)
    /\ UNCHANGED <<items, reviewed, deletion, rowLock, aiJob, accidents>>

-------------------------------------------------------------------------------
(* Edits and the deletion                                                  *)

\* updateTitle, updateCompanyInsight, updatePdfExtractionStatus and
\* updateOriginalFileName load the row and save it with one other column changed.
LoadForTitle(x) ==
    /\ Doing(x, "idle") /\ Exists
    /\ request' = [request EXCEPT ![x] = [Resting EXCEPT !.pc = "edit", !.seen = correction]]
    /\ UNCHANGED <<correction, items, reviewed, deletion, rowLock, aiJob, accidents>>

SaveTitle(x) ==
    /\ Doing(x, "edit")
    /\ SaveRow(x, request[x].seen)
    /\ Finish(x)
    /\ UNCHANGED <<items, reviewed, deletion, rowLock, aiJob>>

\* deleteCorrection: two statements, no transaction.
DeleteCorrectionItems ==
    /\ deletion = "no"
    /\ deletion' = "items"
    /\ items' = {}
    /\ reviewed' = {}
    /\ UNCHANGED <<correction, rowLock, aiJob, request, accidents>>

DeleteCorrectionRow ==
    /\ deletion = "items"
    /\ \A g \in Generations : request[g].pc \notin {"transition", "update", "commit"}
    /\ deletion' = "row"
    /\ items' = {}
    /\ reviewed' = {}
    /\ UNCHANGED <<correction, rowLock, aiJob, request, accidents>>

\* The server dies: its open transaction is rolled back, what it has sent is sent.
CrashRequest(q) ==
    /\ ~Doing(q, "idle")
    /\ Accident("crash")
    /\ rowLock' = IF rowLock = q THEN Unlocked ELSE rowLock
    /\ Finish(q)
    /\ UNCHANGED <<correction, items, reviewed, deletion, aiJob>>

-------------------------------------------------------------------------------
GenerationStep(g) ==
    \/ SelectAndGenerate(g)
    \/ ReplaceCorrectionItems(g)
    \/ TransitionToGenerating(g)
    \/ UpdateAndDelegate(g)
    \/ CommitGeneration(g)

ReportStep(k) ==
    \/ ReceiveInsight(k)
    \/ SaveCompanyInsight(k)
    \/ ReceiveStatus(k)
    \/ SaveStatus(k)
    \/ ReceiveCorrectionResult(k)
    \/ ReadItems(k)
    \/ SaveItems(k)
    \/ SaveDone(k)

CorrectionNext ==
    \/ \E r \in InsightRequests : LoadForInsight(r) \/ SaveDoingRag(r)
    \/ \E g \in Generations : GenerationStep(g)
    \/ \E j \in Jobs : Accept(j) \/ DelegationReturns(j) \/ FallbackToStatus(j)
    \/ \E k \in Reports : ReportStep(k)
    \/ \E x \in TitleEdits : LoadForTitle(x) \/ SaveTitle(x)
    \/ DeleteCorrectionItems
    \/ DeleteCorrectionRow
    \/ \E q \in Requests : CrashRequest(q)

CorrectionSpec == CorrectionInit /\ [][CorrectionNext]_correctionVars

\* A live server goes on with what it has begun, and the AI server sooner or later
\* reports that a job it has accepted is done or has failed.
CorrectionFairness ==
    /\ \A r \in InsightRequests : SF_correctionVars(SaveDoingRag(r) \/ FallbackToStatus(r))
    /\ \A g \in Generations :
        /\ WF_correctionVars(ReplaceCorrectionItems(g) \/ TransitionToGenerating(g) \/ CommitGeneration(g))
        /\ SF_correctionVars(UpdateAndDelegate(g) \/ FallbackToStatus(g))
    /\ \A j \in Jobs :
        /\ WF_correctionVars(DelegationReturns(j))
        /\ SF_correctionVars(\E k \in Reports : aiJob[j] = "accepted" /\ ReportStep(k) /\ aiJob'[j] = "answered")
    /\ \A k \in Reports :
        /\ WF_correctionVars(ReadItems(k) \/ SaveItems(k))
        /\ SF_correctionVars(SaveCompanyInsight(k) \/ SaveStatus(k) \/ SaveDone(k))
    /\ \A x \in TitleEdits : SF_correctionVars(SaveTitle(x))

FairCorrectionSpec == CorrectionSpec /\ CorrectionFairness

-------------------------------------------------------------------------------
\* A correction the user sees as DONE is all there: it has items, each of them was
\* written by the AI server, and the overall review is saved, although the three are
\* saved one after the other, statuses are reported beside them and a crash may come
\* between.  Set aside are two generations at once, a save of stale columns, and a status
\* the AI server declares for a job that has no such stage: the endpoint takes DONE.
DoneIsComplete ==
    correction.status = "DONE" /\ deletion = "no"
        /\ accidents \cap {"overwrite", "overlap", "declared"} = {}
        => correction.review /\ items # {} /\ items = reviewed

HasReadStatus(q) ==
    request[q].pc \in {"saveRag", "update", "commit", "saveInsight", "status", "edit"}

Finished(row) == row.status = "DONE" /\ row.insight

\* A finished correction is not opened again, except by a failure the AI server or a
\* late timeout reports, or by a request that had read it before it was finished.
FinishedIsKept ==
    [][Finished(correction) /\ correction'.status # "DONE"
        => \/ correction'.status \in {"FAILED", "RAG_FAILED"}
           \/ \E q \in Requests : /\ HasReadStatus(q) /\ request'[q].pc # request[q].pc
                                  /\ ~Finished(request[q].seen)]_correctionVars

\* While a correction is GENERATING there is a result the AI server could send that
\* saveCorrectionResult would take, as its test says
\* (portfolio-correction.service.spec.ts:198), unless a server died or the AI server has
\* declared a status of another job.
ResultCanBeSaved ==
    correction.status = "GENERATING" /\ deletion = "no" /\ accidents \cap {"crash", "declared"} = {}
        => \E provided \in SUBSET CorrectedPortfolios : Complete(items, provided)

\* A step of a correction that has to end: no server dies and nothing is lost.
CorrectionRuns ==
    correction.status \in {"DOING_RAG", "GENERATING"} /\ accidents = {} /\ deletion = "no"
=============================================================================
