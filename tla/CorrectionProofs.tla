--------------------------- MODULE CorrectionProofs ---------------------------
(***************************************************************************)
(* Corrections and the external portfolios they are made of, for any       *)
(* number of requests, callbacks and blocks: a DONE correction is all      *)
(* there and is not opened again, an extraction is answered once, and      *)
(* every item belongs to a block the user sees selected.                   *)
(*                                                                         *)
(* The inductive invariants say what a request still knows of what it has  *)
(* read: the items a result is saved for, and the blocks a transaction     *)
(* will unselect, are those that are there, unless another transaction has *)
(* come between, which is recorded when it commits.                        *)
(***************************************************************************)
EXTENDS Correction, Extraction, FiniteSetTheorems, TLAPS

RequestRow ==
    [pc : {"idle", "items", "transition", "update", "commit", "saveRag", "delegate",
           "fallback", "saveInsight", "status", "result", "saveItems", "saveResult", "edit"},
     seen : Row, rows : SUBSET ItemIds, targets : SUBSET CorrectedPortfolios]
Accidents == {"crash", "reply", "overwrite", "overlap", "declared"}

\* What a request that will write a status has read: an insight is asked for where there
\* is none, neither a generation nor an insight was let in by a DONE correction, and DONE is
\* not reported unless that was recorded.
Read(new, recorded) ==
    /\ new.pc = "saveRag" => ~new.seen.insight
    /\ new.pc \in {"update", "commit", "saveInsight"} => new.seen.status # "DONE"
    /\ new.pc = "status" /\ "declared" \notin recorded => new.seen.status # "DONE"

ReadInv == \A q \in Requests : Read(request[q], accidents)

\* A result that is being saved is for the items there are.
Saves(new) ==
    new.pc \in {"saveItems", "saveResult"} =>
        /\ new.rows = items /\ items # {}
        /\ new.pc = "saveResult" => items = reviewed

ResultInv ==
    "overlap" \notin accidents /\ deletion = "no" => \A k \in Reports : Saves(request[k])

CorrectionInv == CorrectionTypeOK /\ ReadInv /\ ResultInv /\ DoneIsComplete

LEMMA CorrectionInvInit == CorrectionInit => CorrectionInv
<1> SUFFICES ASSUME CorrectionInit PROVE CorrectionInv
  OBVIOUS
<1> USE DEF CorrectionInit
<1>1. CorrectionTypeOK
  BY DEF CorrectionTypeOK, Row, CorrectionStatus, Resting
<1>2. ReadInv /\ ResultInv /\ DoneIsComplete
  BY DEF ReadInv, Read, ResultInv, Saves, DoneIsComplete, Resting, Requests
<1> QED BY <1>1, <1>2 DEF CorrectionInv

LEMMA CorrectionFacts ==
    ASSUME CorrectionInv
    PROVE  /\ request \in [Requests -> RequestRow]
           /\ correction \in Row /\ correction.status \in CorrectionStatus
           /\ accidents \subseteq Accidents
           /\ items \subseteq ItemIds /\ reviewed \subseteq items
           /\ rowLock \in Generations \cup {Unlocked}
           /\ aiJob \in [Jobs -> {"none", "sent", "refused", "accepted", "answered"}]
           /\ Jobs \subseteq Requests /\ Reports \subseteq Requests /\ TitleEdits \subseteq Requests
           /\ Generations \subseteq Jobs /\ InsightRequests \subseteq Jobs
BY DEF CorrectionInv, CorrectionTypeOK, RequestRow, Accidents, Requests, Jobs, Row

LEMMA RestingRow == Resting \in RequestRow /\ Resting.pc = "idle"
BY DEF Resting, RequestRow, Row, CorrectionStatus

\* A step of one request that leaves the items alone: it reads, or it writes the row.
LEMMA RequestMoves ==
    ASSUME CorrectionInv, NEW q \in Requests, NEW new \in RequestRow,
           request' = [request EXCEPT ![q] = new],
           UNCHANGED <<items, reviewed, deletion>>,
           rowLock' \in Generations \cup {Unlocked},
           aiJob' \in [Jobs -> {"none", "sent", "refused", "accepted", "answered"}],
           accidents \subseteq accidents', accidents' \subseteq Accidents,
           correction' \in Row,
           Read(new, accidents'),
           q \in Reports /\ "overlap" \notin accidents /\ deletion = "no" => Saves(new),
           correction'.status = "DONE" /\ deletion = "no" /\ accidents' \cap {"overwrite", "overlap", "declared"} = {} =>
                \/ correction' = correction
                \/ correction'.review /\ items # {} /\ items = reviewed
    PROVE  CorrectionInv'
<1> USE CorrectionFacts
<1>1. CorrectionTypeOK'
  BY DEF CorrectionInv, CorrectionTypeOK, RequestRow, Accidents
<1>2. \A z \in Requests : request'[z] = IF z = q THEN new ELSE request[z]
  OBVIOUS
<1>3. ReadInv'
  BY <1>2 DEF CorrectionInv, ReadInv, Read
<1>4. ResultInv'
  BY <1>2 DEF CorrectionInv, ResultInv, Saves
<1>5. DoneIsComplete'
  BY DEF CorrectionInv, DoneIsComplete
<1> QED BY <1>1, <1>3, <1>4, <1>5 DEF CorrectionInv

\* Reading the row, the selections or a message.
LEMMA LoadsKeep ==
    ASSUME CorrectionInv, NEW q \in Requests,
           \/ q \in InsightRequests /\ LoadForInsight(q)
           \/ q \in Generations /\ SelectAndGenerate(q)
           \/ q \in Reports /\ (ReceiveInsight(q) \/ ReceiveStatus(q) \/ ReceiveCorrectionResult(q))
           \/ q \in TitleEdits /\ LoadForTitle(q)
    PROVE  CorrectionInv'
<1> USE CorrectionFacts
<1>1. /\ UNCHANGED <<correction, items, reviewed, deletion, rowLock>>
      /\ accidents \subseteq accidents' /\ accidents' \subseteq Accidents
      /\ aiJob' \in [Jobs -> {"none", "sent", "refused", "accepted", "answered"}]
  <2>1. CASE ReceiveStatus(q)
    <3>1. PICK j \in Jobs : UNCHANGED aiJob \/ aiJob' = [aiJob EXCEPT ![j] = "answered"]
      BY <2>1 DEF ReceiveStatus, Reported
    <3>2. PICK status \in CorrectionStatus, i \in Jobs :
            IF status \in StagesOf(i) THEN UNCHANGED accidents ELSE Accident("declared")
      BY <2>1 DEF ReceiveStatus
    <3>3. accidents \subseteq accidents' /\ accidents' \subseteq Accidents
      BY <3>2 DEF Accident, Accidents
    <3> QED BY <2>1, <3>1, <3>3 DEF ReceiveStatus
  <2> QED BY <2>1 DEF LoadForInsight, SelectAndGenerate, ReceiveInsight, ReceiveCorrectionResult,
                      LoadForTitle, Reported
<1>2. ASSUME NEW new \in RequestRow, request' = [request EXCEPT ![q] = new], Read(new, accidents'),
             new.pc \notin {"saveItems", "saveResult"}
      PROVE  CorrectionInv'
  BY <1>1, <1>2, RequestMoves DEF Saves
<1>3. ASSUME NEW pc \in {"saveRag", "saveInsight", "status", "edit"}, NEW seen \in Row,
             request' = [request EXCEPT ![q] = [Resting EXCEPT !.pc = pc, !.seen = seen]],
             pc = "saveRag" => ~seen.insight, pc = "saveInsight" => seen.status # "DONE",
             pc = "status" /\ "declared" \notin accidents' => seen.status # "DONE"
      PROVE  CorrectionInv'
  <2> DEFINE new == [Resting EXCEPT !.pc = pc, !.seen = seen]
  <2>1. new \in RequestRow /\ new.pc = pc /\ new.seen = seen
    BY DEF Resting, RequestRow
  <2> HIDE DEF new
  <2>2. request' = [request EXCEPT ![q] = new]
    BY <1>3 DEF new
  <2>3. Read(new, accidents')
    BY <1>3, <2>1 DEF Read
  <2> QED BY <1>2, <2>1, <2>2, <2>3
<1>4. ASSUME NEW pc \in {"items", "result"}, NEW targets \in SUBSET CorrectedPortfolios,
             request' = [request EXCEPT ![q] = [Resting EXCEPT !.pc = pc, !.targets = targets]]
      PROVE  CorrectionInv'
  <2> DEFINE new == [Resting EXCEPT !.pc = pc, !.targets = targets]
  <2>1. new \in RequestRow /\ new.pc = pc
    BY DEF Resting, RequestRow, Row, CorrectionStatus
  <2> HIDE DEF new
  <2>2. request' = [request EXCEPT ![q] = new]
    BY <1>4 DEF new
  <2>3. Read(new, accidents')
    BY <1>4, <2>1 DEF Read
  <2> QED BY <1>2, <2>1, <2>2, <2>3
<1>5. CASE LoadForInsight(q)
  BY <1>3, <1>5 DEF LoadForInsight
<1>6. CASE LoadForTitle(q)
  BY <1>3, <1>6 DEF LoadForTitle
<1>7. CASE ReceiveInsight(q)
  BY <1>3, <1>7 DEF ReceiveInsight, Transition
<1>8. CASE ReceiveStatus(q)
  <2>1. PICK status \in CorrectionStatus :
          /\ request' = [request EXCEPT ![q] =
                [Resting EXCEPT !.pc = "status", !.seen = [correction EXCEPT !.status = status]]]
          /\ "declared" \notin accidents' => status # "DONE"
    BY <1>8 DEF ReceiveStatus, StagesOf, Accident
  <2> DEFINE seen == [correction EXCEPT !.status = status]
  <2>2. seen \in Row /\ seen.status = status
    BY DEF Row, CorrectionStatus
  <2>3. request' = [request EXCEPT ![q] = [Resting EXCEPT !.pc = "status", !.seen = seen]]
    BY <2>1
  <2> HIDE DEF seen
  <2> QED BY <1>3, <2>1, <2>2, <2>3
<1>9. CASE SelectAndGenerate(q)
  BY <1>4, <1>9 DEF SelectAndGenerate
<1>10. CASE ReceiveCorrectionResult(q)
  BY <1>4, <1>10 DEF ReceiveCorrectionResult
<1> QED BY <1>5, <1>6, <1>7, <1>8, <1>9, <1>10

\* The steps of a generation before it commits.
LEMMA GenerationReadsKeep ==
    ASSUME CorrectionInv, NEW g \in Generations,
           ReplaceCorrectionItems(g) \/ TransitionToGenerating(g) \/ UpdateAndDelegate(g)
    PROVE  CorrectionInv'
<1> USE CorrectionFacts
<1>1. /\ UNCHANGED <<correction, items, reviewed, deletion, accidents>>
      /\ g \in Requests /\ g \in Jobs
      /\ rowLock' \in Generations \cup {Unlocked}
      /\ aiJob' \in [Jobs -> {"none", "sent", "refused", "accepted", "answered"}]
  BY DEF ReplaceCorrectionItems, TransitionToGenerating, UpdateAndDelegate
<1>2. ASSUME NEW new \in RequestRow, request' = [request EXCEPT ![g] = new], Read(new, accidents'),
             new.pc \notin {"saveItems", "saveResult"}
      PROVE  CorrectionInv'
  BY <1>1, <1>2, RequestMoves DEF Saves
<1>3. CASE request' = [request EXCEPT ![g] = Resting]
  BY <1>2, <1>3, RestingRow DEF Read
<1>4. CASE ReplaceCorrectionItems(g)
  <2> DEFINE new == [request[g] EXCEPT !.pc = "transition", !.rows = items]
  <2>1. new \in RequestRow /\ new.pc = "transition"
    BY <1>1 DEF RequestRow
  <2>2. request' = [request EXCEPT ![g] = new] \/ request' = [request EXCEPT ![g] = Resting]
    BY <1>1, <1>4 DEF ReplaceCorrectionItems
  <2> HIDE DEF new
  <2> QED BY <1>2, <1>3, <2>1, <2>2 DEF Read
<1>5. CASE TransitionToGenerating(g)
  <2> DEFINE new == [request[g] EXCEPT !.pc = "update", !.seen = correction]
  <2>1. new \in RequestRow /\ new.pc = "update" /\ new.seen = correction
    BY <1>1 DEF RequestRow
  <2>2. \/ Transition(correction.status, "GENERATING") /\ request' = [request EXCEPT ![g] = new]
        \/ request' = [request EXCEPT ![g] = Resting]
    BY <1>1, <1>5 DEF TransitionToGenerating
  <2> HIDE DEF new
  <2>3. CASE Transition(correction.status, "GENERATING") /\ request' = [request EXCEPT ![g] = new]
    <3>1. correction.status # "DONE"
      BY <2>3 DEF Transition
    <3> QED BY <1>2, <2>1, <2>3, <3>1 DEF Read
  <2> QED BY <1>3, <2>2, <2>3
<1>6. CASE UpdateAndDelegate(g)
  <2> DEFINE new == [request[g] EXCEPT !.pc = "commit"]
  <2>1. new \in RequestRow /\ new.pc = "commit" /\ new.seen = request[g].seen
    BY <1>1 DEF RequestRow
  <2>2. request' = [request EXCEPT ![g] = new]
    BY <1>1, <1>6 DEF UpdateAndDelegate, Proceed
  <2>3. request[g].seen.status # "DONE"
    BY <1>1, <1>6 DEF UpdateAndDelegate, Doing, CorrectionInv, ReadInv, Read
  <2> HIDE DEF new
  <2> QED BY <1>2, <2>1, <2>2, <2>3 DEF Read
<1> QED BY <1>4, <1>5, <1>6

\* The commit replaces the items; a result that is being saved then is recorded.
LEMMA CommitGenerationKeeps ==
    ASSUME CorrectionInv, NEW g \in Generations, CommitGeneration(g)
    PROVE  CorrectionInv'
<1> USE CorrectionFacts
<1> DEFINE new == [Resting EXCEPT !.pc = "delegate"]
<1>1. /\ g \in Requests /\ new \in RequestRow /\ new.pc = "delegate"
      /\ request' = [request EXCEPT ![g] = new]
      /\ UNCHANGED <<deletion, aiJob>>
  BY DEF CommitGeneration, Delegates, Resting, RequestRow, Row, CorrectionStatus
<1> HIDE DEF new
<1>2. /\ correction' \in Row /\ correction'.status = "GENERATING"
      /\ rowLock' = Unlocked
      /\ accidents \subseteq accidents' /\ accidents' \subseteq Accidents
  BY DEF CommitGeneration, Row, CorrectionStatus, Accidents
<1>3. items' \subseteq ItemIds /\ reviewed' \subseteq items'
  <2>1. request[g].targets \subseteq CorrectedPortfolios
    BY <1>1 DEF RequestRow
  <2> QED BY <2>1 DEF CommitGeneration, ItemIds
<1>4. \A z \in Requests : request'[z] = IF z = g THEN new ELSE request[z]
  BY <1>1
<1>5. CorrectionTypeOK'
  BY <1>1, <1>2, <1>3 DEF CorrectionInv, CorrectionTypeOK, RequestRow, Accidents
<1>6. ReadInv'
  BY <1>1, <1>2, <1>4 DEF CorrectionInv, ReadInv, Read
<1>7. ResultInv'
  <2> SUFFICES ASSUME "overlap" \notin accidents', NEW k \in Reports
               PROVE  request'[k].pc \notin {"saveItems", "saveResult"}
    BY DEF ResultInv, Saves
  <2>1. ~Overlaps(g)
    BY DEF CommitGeneration
  <2> QED BY <1>1, <1>4, <2>1 DEF Overlaps
<1>8. DoneIsComplete'
  BY <1>2 DEF DoneIsComplete
<1> QED BY <1>5, <1>6, <1>7, <1>8 DEF CorrectionInv

\* A write of the row ends what the request did, or delegates it.
LEMMA WritesKeep ==
    ASSUME CorrectionInv, NEW q \in Requests,
           \/ q \in InsightRequests /\ SaveDoingRag(q)
           \/ q \in Jobs /\ FallbackToStatus(q)
           \/ q \in Reports /\ (SaveCompanyInsight(q) \/ SaveStatus(q) \/ SaveDone(q))
           \/ q \in TitleEdits /\ SaveTitle(q)
    PROVE  CorrectionInv'
<1> USE CorrectionFacts
<1>1. /\ UNCHANGED <<items, reviewed, deletion, rowLock>>
      /\ aiJob' \in [Jobs -> {"none", "sent", "refused", "accepted", "answered"}]
      /\ request[q] \in RequestRow
  BY DEF SaveDoingRag, FallbackToStatus, SaveCompanyInsight, SaveStatus, SaveDone, SaveTitle
<1>2. PICK new \in RequestRow :
        request' = [request EXCEPT ![q] = new] /\ new.pc \in {"idle", "delegate"}
  <2>1. CASE request' = [request EXCEPT ![q] = [Resting EXCEPT !.pc = "delegate"]]
    <3>1. [Resting EXCEPT !.pc = "delegate"] \in RequestRow /\ [Resting EXCEPT !.pc = "delegate"].pc = "delegate"
      BY DEF Resting, RequestRow, Row, CorrectionStatus
    <3> QED BY <2>1, <3>1
  <2>2. CASE request' = [request EXCEPT ![q] = Resting]
    BY <2>2, RestingRow
  <2> QED BY <2>1, <2>2
          DEF SaveDoingRag, FallbackToStatus, SaveCompanyInsight, SaveStatus, SaveDone, SaveTitle, Delegates, Finish
<1>3. accidents \subseteq accidents' /\ accidents' \subseteq Accidents
  BY DEF SaveDoingRag, FallbackToStatus, SaveCompanyInsight, SaveStatus, SaveDone, SaveTitle,
         SaveRow, Accident, Accidents
<1>4. ASSUME NEW row \in Row, SaveRow(q, row),
             row.status # "DONE" \/ row = request[q].seen
      PROVE  CorrectionInv'
  <2>1. correction' \in Row
    BY <1>4 DEF SaveRow
  <2>2. accidents' \cap {"overwrite", "overlap", "declared"} = {} /\ correction'.status = "DONE" => correction' = correction
    BY <1>4 DEF SaveRow, Accident
  <2> QED BY <1>1, <1>2, <1>3, <2>1, <2>2, RequestMoves DEF Read, Saves
<1>5. ASSUME NEW status \in CorrectionStatus \ {"DONE"}, WriteStatus(q, status), UNCHANGED accidents
      PROVE  CorrectionInv'
  <2>1. correction' \in Row /\ (correction'.status = "DONE" => correction' = correction)
    BY <1>5 DEF WriteStatus, Row
  <2> QED BY <1>1, <1>2, <1>3, <2>1, RequestMoves DEF Read, Saves
<1>6. CASE q \in InsightRequests /\ SaveDoingRag(q)
  <2> DEFINE row == [request[q].seen EXCEPT !.status = "DOING_RAG"]
  <2>1. row \in Row /\ row.status = "DOING_RAG" /\ SaveRow(q, row)
    BY <1>1, <1>6 DEF SaveDoingRag, RequestRow, Row, CorrectionStatus
  <2> HIDE DEF row
  <2> QED BY <1>4, <2>1
<1>7. CASE q \in Reports /\ SaveCompanyInsight(q)
  <2> DEFINE row == [request[q].seen EXCEPT !.insight = TRUE, !.status = "COMPANY_INSIGHT"]
  <2>1. row \in Row /\ row.status = "COMPANY_INSIGHT" /\ SaveRow(q, row)
    BY <1>1, <1>7 DEF SaveCompanyInsight, RequestRow, Row, CorrectionStatus
  <2> HIDE DEF row
  <2> QED BY <1>4, <2>1
<1>8. CASE q \in TitleEdits /\ SaveTitle(q)
  BY <1>1, <1>4, <1>8 DEF SaveTitle, RequestRow
<1>9. CASE q \in Jobs /\ FallbackToStatus(q)
  BY <1>5, <1>9 DEF FallbackToStatus, CorrectionStatus
<1>10. CASE q \in Reports /\ SaveStatus(q)
  <2>1. /\ request[q].seen.status \in CorrectionStatus
        /\ WriteStatus(q, request[q].seen.status) /\ UNCHANGED accidents
    BY <1>1, <1>10 DEF SaveStatus, RequestRow, Row
  <2>2. "declared" \notin accidents => request[q].seen.status # "DONE"
    BY <1>10 DEF SaveStatus, Doing, CorrectionInv, ReadInv, Read
  <2>3. correction' \in Row /\ correction'.status \in {correction.status, request[q].seen.status}
    BY <2>1 DEF WriteStatus, Row
  <2>4. "declared" \notin accidents /\ correction'.status = "DONE" => correction' = correction
    BY <2>1, <2>2, <2>3 DEF WriteStatus, Row
  <2> QED BY <1>1, <1>2, <2>1, <2>3, <2>4, RequestMoves DEF Read, Saves
<1>11. CASE q \in Reports /\ SaveDone(q)
  <2>1. correction' \in Row /\ (deletion = "no" => correction'.review)
    BY <1>11 DEF SaveDone, Row, CorrectionStatus, Exists
  <2>2. "overlap" \notin accidents /\ deletion = "no" => items # {} /\ items = reviewed
    BY <1>11 DEF SaveDone, Doing, CorrectionInv, ResultInv, Saves
  <2> QED BY <1>1, <1>2, <1>3, <2>1, <2>2, RequestMoves DEF Read, Saves
<1> QED BY <1>6, <1>7, <1>8, <1>9, <1>10, <1>11

\* The delegation itself, and a crash.
LEMMA DelegationKeeps ==
    ASSUME CorrectionInv, NEW q \in Requests,
           (q \in Jobs /\ (Accept(q) \/ DelegationReturns(q))) \/ CrashRequest(q)
    PROVE  CorrectionInv'
<1> USE CorrectionFacts
<1>1. /\ UNCHANGED <<correction, items, reviewed, deletion>>
      /\ rowLock' \in Generations \cup {Unlocked}
      /\ aiJob' \in [Jobs -> {"none", "sent", "refused", "accepted", "answered"}]
      /\ request[q] \in RequestRow
      /\ accidents \subseteq accidents' /\ accidents' \subseteq Accidents
  BY DEF Accept, DelegationReturns, CrashRequest, Accident, Accidents
<1>2. CASE q \in Jobs /\ Accept(q)
  <2>1. request' = [request EXCEPT ![q] = request[q]]
    BY <1>2 DEF Accept
  <2>2. Read(request[q], accidents')
    BY <1>1 DEF CorrectionInv, ReadInv, Read
  <2>3. q \in Reports /\ "overlap" \notin accidents /\ deletion = "no" => Saves(request[q])
    BY DEF CorrectionInv, ResultInv
  <2> QED BY <1>1, <2>1, <2>2, <2>3, RequestMoves
<1>3. CASE request' = [request EXCEPT ![q] = Resting]
  BY <1>1, <1>3, RestingRow, RequestMoves DEF Read, Saves
<1>4. CASE request' = [request EXCEPT ![q].pc = "fallback"]
  <2> DEFINE new == [request[q] EXCEPT !.pc = "fallback"]
  <2>1. new \in RequestRow /\ new.pc = "fallback" /\ request' = [request EXCEPT ![q] = new]
    BY <1>1, <1>4 DEF RequestRow
  <2> HIDE DEF new
  <2> QED BY <1>1, <2>1, RequestMoves DEF Read, Saves
<1> QED BY <1>2, <1>3, <1>4 DEF DelegationReturns, CrashRequest, Finish, Proceed

\* A result is taken for all the items there are, and written to them.
LEMMA ResultKeeps ==
    ASSUME CorrectionInv, NEW k \in Reports, ReadItems(k) \/ SaveItems(k)
    PROVE  CorrectionInv'
<1> USE CorrectionFacts
<1>1. /\ UNCHANGED <<correction, items, deletion, rowLock, aiJob, accidents>>
      /\ k \in Requests /\ request[k] \in RequestRow
  BY DEF ReadItems, SaveItems
<1>2. CASE ReadItems(k)
  <2> DEFINE new == [request[k] EXCEPT !.pc = "saveItems", !.rows = items]
  <2>1. new \in RequestRow /\ new.pc = "saveItems" /\ new.rows = items
    BY <1>1 DEF RequestRow
  <2>2. \/ items # {} /\ request' = [request EXCEPT ![k] = new]
        \/ request' = [request EXCEPT ![k] = Resting]
    BY <1>1, <1>2 DEF ReadItems, Complete
  <2>3. reviewed' = reviewed
    BY <1>2 DEF ReadItems
  <2> HIDE DEF new
  <2> QED BY <1>1, <2>1, <2>2, <2>3, RestingRow, RequestMoves DEF Read, Saves
<1>3. CASE SaveItems(k)
  <2> DEFINE new == [request[k] EXCEPT !.pc = "saveResult"]
  <2>1. new \in RequestRow /\ new.pc = "saveResult" /\ new.rows = request[k].rows
    BY <1>1 DEF RequestRow
  <2>2. request' = [request EXCEPT ![k] = new]
    BY <1>1, <1>3 DEF SaveItems, Proceed
  <2> HIDE DEF new
  <2>3. reviewed' = reviewed \cup (request[k].rows \cap items)
    BY <1>3 DEF SaveItems
  <2>4. \A z \in Requests : request'[z] = IF z = k THEN new ELSE request[z]
    BY <2>2
  <2>5. CorrectionTypeOK'
    BY <1>1, <2>1, <2>2, <2>3 DEF CorrectionInv, CorrectionTypeOK, RequestRow
  <2>6. ReadInv'
    BY <1>1, <2>1, <2>4 DEF CorrectionInv, ReadInv, Read
  <2>7. ResultInv'
    <3> SUFFICES ASSUME "overlap" \notin accidents, deletion = "no", NEW j \in Reports
                 PROVE  /\ request'[j].pc \in {"saveItems", "saveResult"} =>
                                request'[j].rows = items /\ items # {}
                        /\ request'[j].pc = "saveResult" => items = reviewed'
      BY <1>1 DEF ResultInv, Saves
    <3>1. request[k].rows = items /\ items # {}
      BY <1>3 DEF SaveItems, Doing, CorrectionInv, ResultInv, Saves
    <3> QED BY <2>1, <2>3, <2>4, <3>1 DEF CorrectionInv, ResultInv, Saves
  <2>8. DoneIsComplete'
    BY <1>1, <2>3 DEF CorrectionInv, DoneIsComplete
  <2> QED BY <2>5, <2>6, <2>7, <2>8 DEF CorrectionInv
<1> QED BY <1>2, <1>3

LEMMA DeletionKeeps == ASSUME CorrectionInv, DeleteCorrectionItems \/ DeleteCorrectionRow PROVE CorrectionInv'
<1>1. /\ UNCHANGED <<correction, rowLock, aiJob, request, accidents>>
      /\ deletion' \in {"items", "row"} /\ items' = {} /\ reviewed' = {}
  BY DEF DeleteCorrectionItems, DeleteCorrectionRow
<1>2. CorrectionTypeOK' /\ ReadInv'
  BY <1>1 DEF CorrectionInv, CorrectionTypeOK, ReadInv, Read
<1>3. ResultInv' /\ DoneIsComplete'
  BY <1>1 DEF ResultInv, DoneIsComplete
<1> QED BY <1>2, <1>3 DEF CorrectionInv

LEMMA CorrectionInvStep == CorrectionInv /\ [CorrectionNext]_correctionVars => CorrectionInv'
<1> SUFFICES ASSUME CorrectionInv, [CorrectionNext]_correctionVars PROVE CorrectionInv'
  OBVIOUS
<1> USE CorrectionFacts
<1>1. ASSUME NEW r \in InsightRequests, LoadForInsight(r) \/ SaveDoingRag(r) PROVE CorrectionInv'
  BY <1>1, LoadsKeep, WritesKeep
<1>2. ASSUME NEW g \in Generations, GenerationStep(g) PROVE CorrectionInv'
  BY <1>2, LoadsKeep, GenerationReadsKeep, CommitGenerationKeeps DEF GenerationStep
<1>3. ASSUME NEW j \in Jobs, Accept(j) \/ DelegationReturns(j) \/ FallbackToStatus(j) PROVE CorrectionInv'
  BY <1>3, DelegationKeeps, WritesKeep
<1>4. ASSUME NEW k \in Reports, ReportStep(k) PROVE CorrectionInv'
  BY <1>4, LoadsKeep, WritesKeep, ResultKeeps DEF ReportStep
<1>5. ASSUME NEW x \in TitleEdits, LoadForTitle(x) \/ SaveTitle(x) PROVE CorrectionInv'
  BY <1>5, LoadsKeep, WritesKeep
<1>6. ASSUME NEW q \in Requests, CrashRequest(q) PROVE CorrectionInv'
  BY <1>6, DelegationKeeps
<1>7. CASE UNCHANGED correctionVars
  BY <1>7 DEF correctionVars, CorrectionInv, CorrectionTypeOK, ReadInv, Read, ResultInv, Saves, DoneIsComplete
<1> QED BY <1>1, <1>2, <1>3, <1>4, <1>5, <1>6, <1>7, DeletionKeeps DEF CorrectionNext

LEMMA CorrectionInvariance == CorrectionSpec => []CorrectionInv
BY CorrectionInvInit, CorrectionInvStep, PTL DEF CorrectionSpec

-------------------------------------------------------------------------------
\* The row, its items, its jobs and what the requests have read are well formed, and what
\* was reviewed is an item.
THEOREM CorrectionIsWellFormed == CorrectionSpec => []CorrectionTypeOK
<1>1. CorrectionInv => CorrectionTypeOK
  BY DEF CorrectionInv
<1> QED BY <1>1, CorrectionInvariance, PTL

\* Whatever requests, results and documented status reports meet, and wherever they stop: a
\* DONE correction has items, all of them reviewed, and its overall review.
THEOREM DoneCorrectionIsComplete == CorrectionSpec => []DoneIsComplete
<1>1. CorrectionInv => DoneIsComplete
  BY DEF CorrectionInv
<1> QED BY <1>1, CorrectionInvariance, PTL

\* A finished correction is reopened by a failure, or by a request that had read it
\* before it was finished, and by nobody else.
THEOREM FinishedCorrectionIsKept == CorrectionSpec => FinishedIsKept
<1> DEFINE Reopens(q) == /\ HasReadStatus(q) /\ request'[q].pc # request[q].pc
                         /\ ~Finished(request[q].seen)
           Fails == correction'.status \in {"FAILED", "RAG_FAILED"}
           Kept == Finished(correction) /\ correction'.status # "DONE"
                    => Fails \/ \E q \in Requests : Reopens(q)
<1>1. CorrectionInv /\ [CorrectionNext]_correctionVars => [Kept]_correctionVars
  <2> SUFFICES ASSUME CorrectionInv, CorrectionNext,
                      Finished(correction), correction'.status # "DONE", ~Fails
               PROVE  \E q \in Requests : Reopens(q)
    BY DEF correctionVars
  <2> USE CorrectionFacts
  <2>1. correction' # correction
    BY DEF Finished
  <2>2. ASSUME NEW q \in Requests, HasReadStatus(q), ~Finished(request[q].seen),
               NEW new \in RequestRow, new.pc \in {"idle", "delegate"},
               request' = [request EXCEPT ![q] = new]
        PROVE  Reopens(q)
    BY <2>2 DEF HasReadStatus
  <2>3. /\ Resting \in RequestRow /\ Resting.pc = "idle"
        /\ [Resting EXCEPT !.pc = "delegate"] \in RequestRow
        /\ [Resting EXCEPT !.pc = "delegate"].pc = "delegate"
    BY DEF Resting, RequestRow, Row, CorrectionStatus
  <2>4. ASSUME NEW r \in InsightRequests, LoadForInsight(r) \/ SaveDoingRag(r)
        PROVE  \E q \in Requests : Reopens(q)
    <3>1. SaveDoingRag(r) /\ HasReadStatus(r) /\ ~Finished(request[r].seen) /\ r \in Requests
      BY <2>1, <2>4 DEF LoadForInsight, SaveDoingRag, Doing, HasReadStatus, Finished,
                       CorrectionInv, ReadInv, Read
    <3> QED BY <2>2, <2>3, <3>1 DEF SaveDoingRag, Delegates
  <2>5. ASSUME NEW g \in Generations, GenerationStep(g)
        PROVE  \E q \in Requests : Reopens(q)
    <3>1. CommitGeneration(g)
      BY <2>1, <2>5 DEF GenerationStep, SelectAndGenerate, ReplaceCorrectionItems,
                       TransitionToGenerating, UpdateAndDelegate
    <3>2. HasReadStatus(g) /\ ~Finished(request[g].seen) /\ g \in Requests
      BY <3>1 DEF CommitGeneration, Doing, HasReadStatus, Finished, CorrectionInv, ReadInv, Read
    <3> QED BY <2>2, <2>3, <3>1, <3>2 DEF CommitGeneration, Delegates
  <2>6. ASSUME NEW j \in Jobs, Accept(j) \/ DelegationReturns(j) \/ FallbackToStatus(j)
        PROVE  FALSE
    <3>1. FallbackToStatus(j)
      BY <2>1, <2>6 DEF Accept, DelegationReturns
    <3>2. Fails
      BY <2>1, <3>1 DEF FallbackToStatus, WriteStatus, Row
    <3> QED BY <3>2
  <2>7. ASSUME NEW k \in Reports, ReportStep(k)
        PROVE  \E q \in Requests : Reopens(q)
    <3>1. CASE SaveCompanyInsight(k) \/ SaveStatus(k)
      <4>1. HasReadStatus(k) /\ ~Finished(request[k].seen) /\ k \in Requests
        <5>1. CASE SaveCompanyInsight(k)
          BY <5>1 DEF SaveCompanyInsight, Doing, HasReadStatus, Finished, CorrectionInv, ReadInv, Read
        <5>2. CASE SaveStatus(k)
          <6>1. correction'.status \in {correction.status, request[k].seen.status}
            BY <5>2 DEF SaveStatus, WriteStatus, Row
          <6> QED BY <2>1, <5>2, <6>1 DEF SaveStatus, Doing, HasReadStatus, Finished
        <5> QED BY <3>1, <5>1, <5>2
      <4> QED BY <2>2, <2>3, <3>1, <4>1 DEF SaveCompanyInsight, SaveStatus, Finish
    <3>2. CASE SaveDone(k)
      <4>1. correction'.status = "DONE"
        BY <2>1, <3>2 DEF SaveDone, Row
      <4> QED BY <4>1
    <3> QED BY <2>1, <2>7, <3>1, <3>2 DEF ReportStep, ReceiveInsight, ReceiveStatus,
                ReceiveCorrectionResult, ReadItems, SaveItems
  <2>8. ASSUME NEW x \in TitleEdits, LoadForTitle(x) \/ SaveTitle(x)
        PROVE  \E q \in Requests : Reopens(q)
    <3>1. SaveTitle(x) /\ HasReadStatus(x) /\ x \in Requests
      BY <2>1, <2>8 DEF LoadForTitle, SaveTitle, Doing, HasReadStatus
    <3>2. ~Finished(request[x].seen)
      BY <2>1, <3>1 DEF SaveTitle, SaveRow, Finished
    <3> QED BY <2>2, <2>3, <3>1, <3>2 DEF SaveTitle, Finish
  <2>9. ~(DeleteCorrectionItems \/ DeleteCorrectionRow \/ \E q \in Requests : CrashRequest(q))
    BY <2>1 DEF DeleteCorrectionItems, DeleteCorrectionRow, CrashRequest
  <2> QED BY <2>4, <2>5, <2>6, <2>7, <2>8, <2>9 DEF CorrectionNext
<1> QED BY <1>1, CorrectionInvariance, PTL DEF CorrectionSpec, FinishedIsKept
-------------------------------------------------------------------------------
(* What remains of ResultCanBeSaved.  Two generations at once leave the    *)
(* items of both, which no result fits; one after the other replaces what  *)
(* it has read, so the items stay those of one generation, one for each of *)
(* its portfolios.  They are there whenever the row says GENERATING: the   *)
(* AI server may report before the commit, but its report waits for it.    *)

OneGeneration ==
    items = {} \/ \E g \in Generations : \E T \in SUBSET CorrectedPortfolios : items = {g} \X T

\* A generation has read the items there are, and has portfolios to insert.
ReplacesAll(g, new) ==
    /\ new.pc \in {"items", "transition", "update", "commit"} => new.targets # {}
    /\ new.pc \in {"transition", "update", "commit"} /\ "overlap" \notin accidents /\ deletion = "no"
         => new.rows = items
    /\ new.pc = "commit" => rowLock = g

\* Who will write GENERATING has read it, or speaks of a generation that was delegated.
WillWriteGenerating(new) ==
    new.seen.status = "GENERATING" =>
        /\ new.pc = "edit" => items # {}
        /\ new.pc = "status" => \E g \in Generations : aiJob[g] # "none"

ItemsInv ==
    /\ "overlap" \notin accidents /\ deletion = "no" => OneGeneration
    /\ \A g \in Generations : ReplacesAll(g, request[g])
    /\ accidents \cap {"crash", "declared"} = {} /\ deletion = "no" =>
        /\ correction.status = "GENERATING" => items # {}
        /\ \A g \in Generations : aiJob[g] # "none" => request[g].pc = "commit" \/ items # {}
        /\ \A q \in Requests : WillWriteGenerating(request[q])

GeneratedInv == CorrectionInv /\ ItemsInv

\* Initially there are no items and no requests.
LEMMA ItemsInvInit == CorrectionInit => ItemsInv
<1> SUFFICES ASSUME CorrectionInit PROVE ItemsInv
  OBVIOUS
<1>1. /\ items = {} /\ correction.status = "NOT_STARTED"
      /\ \A q \in Requests : request[q] = Resting
      /\ \A g \in Generations : aiJob[g] = "none" /\ g \in Requests
  BY DEF CorrectionInit, Requests, Jobs
<1> QED BY <1>1 DEF ItemsInv, OneGeneration, ReplacesAll, WillWriteGenerating, Resting

\* A step of one request that leaves the items alone.
LEMMA ItemsStay ==
    ASSUME GeneratedInv, NEW q \in Requests, NEW new,
           request' = [request EXCEPT ![q] = new],
           UNCHANGED <<items, deletion>>,
           accidents \subseteq accidents',
           \A g \in Generations : aiJob[g] # "none" => aiJob'[g] # "none",
           \A g \in Generations \ {q} : request[g].pc = "commit" => rowLock' = rowLock,
           q \in Generations => ReplacesAll(q, new)',
           accidents' \cap {"crash", "declared"} = {} /\ deletion = "no" =>
               /\ correction'.status = "GENERATING" => items # {}
               /\ \A g \in Generations \ {q} : aiJob'[g] # "none" => aiJob[g] # "none"
               /\ q \in Generations /\ aiJob'[q] # "none" => new.pc = "commit" \/ items # {}
               /\ WillWriteGenerating(new)'
    PROVE  ItemsInv'
<1>1. \A z \in Requests : request'[z] = IF z = q THEN new ELSE request[z]
  BY CorrectionFacts DEF GeneratedInv
<1>2. "overlap" \notin accidents' /\ deletion' = "no" => OneGeneration'
  BY DEF GeneratedInv, ItemsInv, OneGeneration
<1>3. ASSUME NEW g \in Generations PROVE ReplacesAll(g, request[g])'
  <2>1. CASE g = q
    BY <1>1, <2>1
  <2>2. CASE g # q
    <3>1. ReplacesAll(g, request[g]) /\ request'[g] = request[g]
      BY <1>1, <2>2, CorrectionFacts DEF GeneratedInv, ItemsInv
    <3> QED BY <2>2, <3>1 DEF ReplacesAll
  <2> QED BY <2>1, <2>2
<1>4. ASSUME accidents' \cap {"crash", "declared"} = {}, deletion' = "no"
      PROVE  /\ correction'.status = "GENERATING" => items' # {}
             /\ \A g \in Generations : aiJob'[g] # "none" => request'[g].pc = "commit" \/ items' # {}
             /\ \A z \in Requests : WillWriteGenerating(request[z])'
  <2>1. accidents \cap {"crash", "declared"} = {} /\ deletion = "no"
    BY <1>4
  <2>2. ASSUME NEW g \in Generations, aiJob'[g] # "none"
        PROVE  request'[g].pc = "commit" \/ items' # {}
    BY <1>1, <1>4, <2>1, <2>2, CorrectionFacts DEF GeneratedInv, ItemsInv
  <2>3. ASSUME NEW z \in Requests PROVE WillWriteGenerating(request[z])'
    <3>1. CASE z = q
      BY <1>1, <1>4, <2>1, <3>1
    <3>2. CASE z # q
      <4>1. WillWriteGenerating(request[z]) /\ request'[z] = request[z]
        BY <1>1, <2>1, <3>2 DEF GeneratedInv, ItemsInv
      <4> QED BY <4>1 DEF WillWriteGenerating
    <3> QED BY <3>1, <3>2
  <2> QED BY <1>4, <2>1, <2>2, <2>3
<1> QED BY <1>2, <1>3, <1>4 DEF ItemsInv

\* A request that is past what it read of the items, or does not need them.
Away == {"idle", "saveRag", "saveInsight", "delegate", "fallback", "result", "saveItems", "saveResult"}

\* A step after which the request is where it neither replaces items nor writes GENERATING.
LEMMA ItemsStayFor ==
    ASSUME GeneratedInv, NEW q \in Requests, NEW new,
           request' = [request EXCEPT ![q] = new], new.pc \in Away,
           UNCHANGED <<items, deletion, rowLock>>,
           accidents \subseteq accidents',
           \A g \in Generations : aiJob'[g] # "none" <=> aiJob[g] # "none",
           q \in Generations => request[q].pc # "commit",
           accidents' \cap {"crash", "declared"} = {} /\ deletion = "no" /\ correction'.status = "GENERATING"
               => items # {}
    PROVE  ItemsInv'
<1>1. ReplacesAll(q, new)' /\ WillWriteGenerating(new)'
  BY DEF ReplacesAll, WillWriteGenerating, Away
<1>2. ASSUME accidents' \cap {"crash", "declared"} = {}, deletion = "no"
      PROVE  \A g \in Generations : aiJob[g] # "none" => request[g].pc = "commit" \/ items # {}
  BY <1>2 DEF GeneratedInv, ItemsInv
<1> QED BY <1>1, <1>2, ItemsStay

\* The steps that read, or write a status other than GENERATING.
LEMMA ReadsLeaveItems ==
    ASSUME GeneratedInv, NEW q \in Requests,
           \/ q \in InsightRequests /\ (LoadForInsight(q) \/ SaveDoingRag(q))
           \/ q \in Jobs /\ (DelegationReturns(q) \/ FallbackToStatus(q))
           \/ q \in Reports /\ (\/ ReceiveInsight(q) \/ SaveCompanyInsight(q)
                                \/ ReceiveCorrectionResult(q) \/ ReadItems(q) \/ SaveItems(q) \/ SaveDone(q))
    PROVE  ItemsInv'
<1> USE CorrectionFacts DEF GeneratedInv
<1>1. /\ UNCHANGED <<items, deletion, rowLock>>
      /\ accidents \subseteq accidents'
      /\ ~Doing(q, "commit")
  BY DEF LoadForInsight, SaveDoingRag, DelegationReturns, FallbackToStatus, ReceiveInsight,
         SaveCompanyInsight, ReceiveCorrectionResult, ReadItems, SaveItems, SaveDone, SaveRow, Accident,
         Doing
<1>2. \A g \in Generations : aiJob'[g] # "none" <=> aiJob[g] # "none"
  <2>1. CASE q \in InsightRequests /\ SaveDoingRag(q)
    BY <2>1, CorrectionConstants DEF SaveDoingRag
  <2>2. CASE q \in Jobs /\ DelegationReturns(q)
    BY <2>2 DEF DelegationReturns
  <2>3. CASE q \in Reports /\ (ReceiveInsight(q) \/ ReceiveCorrectionResult(q))
    BY <2>3 DEF ReceiveInsight, ReceiveCorrectionResult, Reported
  <2> QED BY <2>1, <2>2, <2>3
          DEF LoadForInsight, FallbackToStatus, SaveCompanyInsight, ReadItems, SaveItems, SaveDone
<1>3. correction' = correction \/ correction'.status # "GENERATING"
  <2>1. request[q].seen \in Row /\ correction \in Row
    BY DEF RequestRow
  <2>2. CASE SaveDoingRag(q) \/ SaveCompanyInsight(q)
    <3>1. [request[q].seen EXCEPT !.status = "DOING_RAG"].status # "GENERATING"
      BY <2>1 DEF Row
    <3>2. [request[q].seen EXCEPT !.insight = TRUE, !.status = "COMPANY_INSIGHT"].status # "GENERATING"
      BY <2>1 DEF Row
    <3> QED BY <2>2, <3>1, <3>2 DEF SaveDoingRag, SaveCompanyInsight, SaveRow
  <2>3. CASE FallbackToStatus(q) \/ SaveDone(q)
    BY <2>1, <2>3 DEF FallbackToStatus, SaveDone, WriteStatus, Row
  <2> QED BY <2>2, <2>3 DEF LoadForInsight, DelegationReturns, ReceiveInsight,
         ReceiveCorrectionResult, ReadItems, SaveItems
<1>4. accidents' \cap {"crash", "declared"} = {} /\ deletion = "no" /\ correction'.status = "GENERATING" => items # {}
  BY <1>1, <1>3 DEF ItemsInv
<1>5. ASSUME NEW new, request' = [request EXCEPT ![q] = new], new.pc \in Away PROVE ItemsInv'
  BY <1>1, <1>2, <1>4, <1>5, ItemsStayFor DEF Doing
<1>6. ASSUME NEW pc \in {"saveRag", "saveInsight"}, NEW seen \in Row,
             request' = [request EXCEPT ![q] = [Resting EXCEPT !.pc = pc, !.seen = seen]]
      PROVE  ItemsInv'
  <2> DEFINE new == [Resting EXCEPT !.pc = pc, !.seen = seen]
  <2>1. new.pc \in Away /\ request' = [request EXCEPT ![q] = new]
    BY <1>6 DEF Resting, Away
  <2> HIDE DEF new
  <2> QED BY <1>5, <2>1
<1>7. ASSUME request' = [request EXCEPT ![q] = Resting] PROVE ItemsInv'
  BY <1>5, <1>7, RestingRow DEF Away
<1>8. ASSUME NEW pc \in {"fallback", "saveResult"}, request' = [request EXCEPT ![q].pc = pc]
      PROVE  ItemsInv'
  <2> DEFINE new == [request[q] EXCEPT !.pc = pc]
  <2>1. new.pc \in Away /\ request' = [request EXCEPT ![q] = new]
    BY <1>8 DEF RequestRow, Away
  <2> HIDE DEF new
  <2> QED BY <1>5, <2>1
<1>9. CASE LoadForInsight(q)
  BY <1>6, <1>9 DEF LoadForInsight
<1>10. CASE ReceiveInsight(q)
  BY <1>6, <1>10 DEF ReceiveInsight
<1>11. CASE SaveDoingRag(q)
  <2> DEFINE new == [Resting EXCEPT !.pc = "delegate"]
  <2>1. new.pc \in Away /\ request' = [request EXCEPT ![q] = new]
    BY <1>11 DEF SaveDoingRag, Delegates, Resting, Away
  <2> HIDE DEF new
  <2> QED BY <1>5, <2>1
<1>12. CASE FallbackToStatus(q) \/ SaveCompanyInsight(q) \/ SaveDone(q)
  BY <1>7, <1>12 DEF FallbackToStatus, SaveCompanyInsight, SaveDone, Finish
<1>13. CASE DelegationReturns(q)
  BY <1>7, <1>8, <1>13 DEF DelegationReturns, Finish, Proceed
<1>14. CASE ReceiveCorrectionResult(q)
  <2>1. PICK targets \in SUBSET CorrectedPortfolios :
          request' = [request EXCEPT ![q] = [Resting EXCEPT !.pc = "result", !.targets = targets]]
    BY <1>14 DEF ReceiveCorrectionResult
  <2> DEFINE new == [Resting EXCEPT !.pc = "result", !.targets = targets]
  <2>2. new.pc \in Away /\ request' = [request EXCEPT ![q] = new]
    BY <2>1 DEF Resting, Away
  <2> HIDE DEF new
  <2> QED BY <1>5, <2>2
<1>15. CASE ReadItems(q)
  <2> DEFINE new == [request[q] EXCEPT !.pc = "saveItems", !.rows = items]
  <2>1. new.pc \in Away
    BY DEF RequestRow, Away
  <2>2. request' = [request EXCEPT ![q] = new] \/ request' = [request EXCEPT ![q] = Resting]
    BY <1>15 DEF ReadItems
  <2> HIDE DEF new
  <2> QED BY <1>5, <1>7, <2>1, <2>2
<1>16. CASE SaveItems(q)
  BY <1>8, <1>16 DEF SaveItems, Proceed
<1> QED BY <1>9, <1>10, <1>11, <1>12, <1>13, <1>14, <1>15, <1>16

\* A generation up to its UPDATE: it reads the items and selects some portfolios; once it
\* has been delegated its transaction holds the row.
LEMMA GenerationLeavesItems ==
    ASSUME GeneratedInv, NEW g \in Generations,
           \/ SelectAndGenerate(g) \/ ReplaceCorrectionItems(g)
           \/ TransitionToGenerating(g) \/ UpdateAndDelegate(g)
    PROVE  ItemsInv'
<1> USE CorrectionFacts DEF GeneratedInv
<1>1. /\ UNCHANGED <<correction, items, deletion, accidents>>
      /\ g \in Requests /\ request[g] \in RequestRow /\ request[g].pc # "commit"
      /\ \A h \in Generations : aiJob[h] # "none" => aiJob'[h] # "none"
      /\ \A h \in Generations \ {g} : aiJob'[h] # "none" => aiJob[h] # "none"
  BY DEF SelectAndGenerate, ReplaceCorrectionItems, TransitionToGenerating, UpdateAndDelegate, Doing
<1>2. /\ accidents \cap {"crash", "declared"} = {} /\ deletion = "no" => (correction.status = "GENERATING" => items # {})
      /\ accidents \cap {"crash", "declared"} = {} /\ deletion = "no" /\ aiJob[g] # "none" => items # {}
      /\ ReplacesAll(g, request[g])
  BY <1>1 DEF ItemsInv
<1>3. ASSUME NEW new, request' = [request EXCEPT ![g] = new],
             new.pc \in {"idle", "items", "transition", "update"},
             ReplacesAll(g, new), UNCHANGED <<aiJob, rowLock>>
      PROVE  ItemsInv'
  <2>1. ReplacesAll(g, new)' /\ WillWriteGenerating(new)'
    BY <1>1, <1>3 DEF ReplacesAll, WillWriteGenerating
  <2> QED BY <1>1, <1>2, <1>3, <2>1, ItemsStay
<1>4. ASSUME request' = [request EXCEPT ![g] = Resting], UNCHANGED <<aiJob, rowLock>> PROVE ItemsInv'
  BY <1>3, <1>4, RestingRow DEF ReplacesAll
<1>5. CASE SelectAndGenerate(g)
  <2>1. PICK picked \in (SUBSET CorrectedPortfolios) \ {{}} :
          request' = [request EXCEPT ![g] = [Resting EXCEPT !.pc = "items", !.targets = picked]]
    BY <1>5 DEF SelectAndGenerate
  <2> DEFINE new == [Resting EXCEPT !.pc = "items", !.targets = picked]
  <2>2. new.pc = "items" /\ new.targets = picked /\ request' = [request EXCEPT ![g] = new]
    BY <2>1 DEF Resting
  <2> HIDE DEF new
  <2>3. ReplacesAll(g, new)
    BY <2>2 DEF ReplacesAll
  <2> QED BY <1>3, <1>5, <2>2, <2>3 DEF SelectAndGenerate
<1>6. CASE ReplaceCorrectionItems(g)
  <2> DEFINE new == [request[g] EXCEPT !.pc = "transition", !.rows = items]
  <2>1. new.pc = "transition" /\ new.rows = items /\ new.targets = request[g].targets
    BY <1>1 DEF RequestRow
  <2>2. request' = [request EXCEPT ![g] = new] \/ request' = [request EXCEPT ![g] = Resting]
    BY <1>6 DEF ReplaceCorrectionItems
  <2>3. request[g].targets # {}
    BY <1>2, <1>6 DEF ReplaceCorrectionItems, Doing, ReplacesAll
  <2> HIDE DEF new
  <2>4. ReplacesAll(g, new)
    BY <2>1, <2>3 DEF ReplacesAll
  <2> QED BY <1>3, <1>4, <1>6, <2>1, <2>2, <2>4 DEF ReplaceCorrectionItems
<1>7. CASE TransitionToGenerating(g)
  <2> DEFINE new == [request[g] EXCEPT !.pc = "update", !.seen = correction]
  <2>1. new.pc = "update" /\ new.rows = request[g].rows /\ new.targets = request[g].targets
    BY <1>1 DEF RequestRow
  <2>2. request' = [request EXCEPT ![g] = new] \/ request' = [request EXCEPT ![g] = Resting]
    BY <1>7 DEF TransitionToGenerating
  <2>3. request[g].pc = "transition"
    BY <1>7 DEF TransitionToGenerating, Doing
  <2> HIDE DEF new
  <2>4. ReplacesAll(g, new)
    BY <1>2, <2>1, <2>3 DEF ReplacesAll
  <2> QED BY <1>3, <1>4, <1>7, <2>1, <2>2, <2>4 DEF TransitionToGenerating
<1>8. CASE UpdateAndDelegate(g)
  <2>1. rowLock' = g /\ rowLock \in {g, Unlocked} /\ request[g].pc = "update"
    BY <1>8 DEF UpdateAndDelegate, Present, Doing
  <2>2. /\ request[g].targets # {}
        /\ "overlap" \notin accidents /\ deletion = "no" => request[g].rows = items
    BY <1>2, <2>1 DEF ReplacesAll
  <2>3. ASSUME NEW h \in Generations \ {g} PROVE request[h].pc # "commit"
    <3>1. request[h].pc = "commit" => rowLock = h
      BY DEF ItemsInv, ReplacesAll
    <3> QED BY <2>1, <3>1, CorrectionConstants
  <2>4. ASSUME NEW new, request' = [request EXCEPT ![g] = new], new.pc = "commit",
               new.rows = request[g].rows, new.targets = request[g].targets
        PROVE  ItemsInv'
    <3>1. ReplacesAll(g, new)'
      BY <1>1, <2>1, <2>2, <2>4 DEF ReplacesAll
    <3>2. WillWriteGenerating(new)'
      BY <2>4 DEF WillWriteGenerating
    <3>3. accidents' \cap {"crash", "declared"} = {} /\ deletion = "no" => (correction'.status = "GENERATING" => items # {})
      BY <1>1, <1>2
    <3> QED BY <1>1, <2>3, <2>4, <3>1, <3>2, <3>3, ItemsStay
  <2> DEFINE new == [request[g] EXCEPT !.pc = "commit"]
  <2>5. /\ new.pc = "commit" /\ new.rows = request[g].rows /\ new.targets = request[g].targets
        /\ request' = [request EXCEPT ![g] = new]
    BY <1>1, <1>8 DEF RequestRow, UpdateAndDelegate, Proceed
  <2> HIDE DEF new
  <2> QED BY <2>4, <2>5
<1> QED BY <1>5, <1>6, <1>7, <1>8

\* A generation that commits alone replaces all the items by its own.
LEMMA CommitReplacesItems ==
    ASSUME GeneratedInv, NEW g \in Generations, CommitGeneration(g)
    PROVE  ItemsInv'
<1> USE CorrectionFacts DEF GeneratedInv
<1> DEFINE new == [Resting EXCEPT !.pc = "delegate"]
<1>1. /\ g \in Requests /\ new.pc = "delegate"
      /\ request' = [request EXCEPT ![g] = new]
      /\ UNCHANGED <<deletion, aiJob>>
      /\ request[g].pc = "commit" /\ request[g] \in RequestRow
  BY DEF CommitGeneration, Delegates, Resting, Doing
<1> HIDE DEF new
<1>2. \A z \in Requests : request'[z] = IF z = g THEN new ELSE request[z]
  BY <1>1
<1>3. request[g].targets # {} /\ request[g].targets \subseteq CorrectedPortfolios
  BY <1>1 DEF ItemsInv, ReplacesAll, RequestRow
<1>4. items' # {}
  <2>1. PICK p \in CorrectedPortfolios : p \in request[g].targets
    BY <1>3
  <2>2. <<g, p>> \in items'
    BY <2>1 DEF CommitGeneration
  <2> QED BY <2>2
<1>5. "overlap" \notin accidents' /\ deletion' = "no" => OneGeneration'
  <2> SUFFICES ASSUME "overlap" \notin accidents', deletion' = "no" PROVE OneGeneration'
    OBVIOUS
  <2>1. "overlap" \notin accidents
    BY DEF CommitGeneration
  <2>2. request[g].rows = items
    BY <1>1, <2>1 DEF ItemsInv, ReplacesAll
  <2>3. items' = {g} \X request[g].targets
    BY <2>2 DEF CommitGeneration
  <2> QED BY <1>3, <2>3 DEF OneGeneration
<1>6. ASSUME NEW h \in Generations PROVE ReplacesAll(h, request[h])'
  <2>1. CASE h = g
    BY <1>1, <1>2, <2>1 DEF ReplacesAll
  <2>2. CASE h # g
    <3>1. ReplacesAll(h, request[h]) /\ request'[h] = request[h]
      BY <1>2, <2>2 DEF ItemsInv
    <3>2. request[h].pc # "commit"
      BY <1>1, <2>2 DEF ItemsInv, ReplacesAll
    <3>3. "overlap" \notin accidents' => request[h].pc \notin {"transition", "update", "commit"}
      BY <2>2 DEF CommitGeneration, Overlaps
    <3> QED BY <3>1, <3>2, <3>3 DEF ReplacesAll
  <2> QED BY <2>1, <2>2
<1>7. ASSUME accidents' \cap {"crash", "declared"} = {}, deletion' = "no", NEW z \in Requests
      PROVE  WillWriteGenerating(request[z])'
  <2>1. CASE z = g
    BY <1>1, <1>2, <2>1 DEF WillWriteGenerating
  <2>2. CASE z # g
    <3>1. accidents \cap {"crash", "declared"} = {}
      BY <1>7 DEF CommitGeneration
    <3>2. WillWriteGenerating(request[z]) /\ request'[z] = request[z]
      BY <1>1, <1>2, <1>7, <2>2, <3>1 DEF ItemsInv
    <3> QED BY <1>1, <1>4, <3>2 DEF WillWriteGenerating
  <2> QED BY <2>1, <2>2
<1> QED BY <1>4, <1>5, <1>6, <1>7 DEF ItemsInv

\* A status the AI server reports, and the columns an edit saves again.
LEMMA StatusesLeaveItems ==
    ASSUME GeneratedInv, NEW q \in Requests,
           \/ q \in Reports /\ (ReceiveStatus(q) \/ SaveStatus(q))
           \/ q \in TitleEdits /\ (LoadForTitle(q) \/ SaveTitle(q))
    PROVE  ItemsInv'
<1> USE CorrectionFacts DEF GeneratedInv
<1>1. /\ UNCHANGED <<items, deletion, rowLock>>
      /\ accidents \subseteq accidents'
      /\ request[q] \in RequestRow /\ request[q].pc \in {"idle", "status", "edit"}
  BY DEF ReceiveStatus, SaveStatus, LoadForTitle, SaveTitle, SaveRow, Accident, Doing
<1>2. \A g \in Generations : aiJob'[g] # "none" <=> aiJob[g] # "none"
  BY DEF ReceiveStatus, Reported, SaveStatus, LoadForTitle, SaveTitle
<1>3. accidents' \cap {"crash", "declared"} = {} /\ deletion = "no" =>
        /\ accidents \cap {"crash", "declared"} = {}
        /\ correction.status = "GENERATING" => items # {}
        /\ \A g \in Generations : aiJob[g] # "none" => request[g].pc = "commit" \/ items # {}
        /\ WillWriteGenerating(request[q])
  BY <1>1 DEF ItemsInv
<1>4. ASSUME NEW new, request' = [request EXCEPT ![q] = new],
             new.pc \in {"idle", "status", "edit"},
             accidents' \cap {"crash", "declared"} = {} /\ deletion = "no" => WillWriteGenerating(new),
             UNCHANGED correction
      PROVE  ItemsInv'
  <2>1. /\ ReplacesAll(q, new)'
        /\ accidents' \cap {"crash", "declared"} = {} /\ deletion = "no" => WillWriteGenerating(new)'
    BY <1>1, <1>2, <1>4 DEF ReplacesAll, WillWriteGenerating
  <2> QED BY <1>1, <1>2, <1>3, <1>4, <2>1, ItemsStay
<1>5. CASE q \in TitleEdits /\ LoadForTitle(q)
  <2> DEFINE new == [Resting EXCEPT !.pc = "edit", !.seen = correction]
  <2>1. new.pc = "edit" /\ new.seen = correction /\ request' = [request EXCEPT ![q] = new]
    BY <1>5 DEF LoadForTitle, Resting
  <2> HIDE DEF new
  <2> QED BY <1>3, <1>4, <1>5, <2>1 DEF LoadForTitle, WillWriteGenerating
<1>6. CASE q \in Reports /\ ReceiveStatus(q)
  <2>1. PICK j \in Jobs, status \in CorrectionStatus :
          /\ "declared" \notin accidents' => status \in StagesOf(j)
          /\ status = "GENERATING" => aiJob[j] = "accepted"
          /\ request' = [request EXCEPT ![q] =
                [Resting EXCEPT !.pc = "status", !.seen = [correction EXCEPT !.status = status]]]
    BY <1>6 DEF ReceiveStatus, Accident
  <2> DEFINE new == [Resting EXCEPT !.pc = "status", !.seen = [correction EXCEPT !.status = status]]
  <2>2. /\ new.pc = "status" /\ new.seen.status = status
        /\ request' = [request EXCEPT ![q] = new]
    BY <2>1 DEF Resting, Row
  <2> HIDE DEF new
  <2>3. "declared" \notin accidents' /\ status = "GENERATING" => \E g \in Generations : aiJob[g] # "none"
    BY <2>1 DEF StagesOf
  <2> QED BY <1>4, <1>6, <2>2, <2>3 DEF ReceiveStatus, WillWriteGenerating
<1>7. ASSUME request' = [request EXCEPT ![q] = Resting],
             accidents' \cap {"crash", "declared"} = {} /\ deletion = "no" /\ correction'.status = "GENERATING" => items # {}
      PROVE  ItemsInv'
  <2>1. Resting.pc \in Away
    BY RestingRow DEF Away
  <2> QED BY <1>1, <1>2, <1>7, <2>1, ItemsStayFor
<1>8. CASE q \in TitleEdits /\ SaveTitle(q)
  <2>1. correction' \in {correction, request[q].seen} /\ request[q].pc = "edit"
    BY <1>8 DEF SaveTitle, SaveRow, Doing
  <2>2. accidents' \cap {"crash", "declared"} = {} /\ deletion = "no" /\ correction'.status = "GENERATING" => items # {}
    BY <1>3, <2>1 DEF WillWriteGenerating
  <2> QED BY <1>7, <1>8, <2>2 DEF SaveTitle, Finish
<1>9. CASE q \in Reports /\ SaveStatus(q)
  <2>1. ASSUME accidents' \cap {"crash", "declared"} = {}, deletion = "no", request[q].seen.status = "GENERATING"
        PROVE  items # {}
    <3>1. request[q].pc = "status"
      BY <1>9 DEF SaveStatus, Doing
    <3>2. PICK g \in Generations : aiJob[g] # "none"
      BY <1>3, <2>1, <3>1 DEF WillWriteGenerating
    <3>3. rowLock \in {q, Unlocked}
      BY <1>9 DEF SaveStatus, WriteStatus, Present
    <3>4. request[g].pc = "commit" => rowLock = g
      BY DEF ItemsInv, ReplacesAll
    <3> QED BY <1>3, <2>1, <3>1, <3>2, <3>3, <3>4, CorrectionConstants
  <2>2. correction'.status \in {correction.status, request[q].seen.status}
    BY <1>9 DEF SaveStatus, WriteStatus, Row
  <2>3. accidents' \cap {"crash", "declared"} = {} /\ deletion = "no" /\ correction'.status = "GENERATING" => items # {}
    BY <1>3, <2>1, <2>2
  <2> QED BY <1>7, <1>9, <2>3 DEF SaveStatus, Finish
<1> QED BY <1>5, <1>6, <1>8, <1>9

\* The AI server accepts a job; a request dies; the correction is being deleted.
LEMMA OthersLeaveItems ==
    ASSUME GeneratedInv,
           \/ \E j \in Jobs : Accept(j)
           \/ \E q \in Requests : CrashRequest(q)
           \/ DeleteCorrectionItems
           \/ DeleteCorrectionRow
    PROVE  ItemsInv'
<1> USE CorrectionFacts DEF GeneratedInv
<1>1. ASSUME NEW j \in Jobs, Accept(j) PROVE ItemsInv'
  <2>1. /\ UNCHANGED <<correction, items, deletion, rowLock, request, accidents>>
        /\ \A g \in Generations : aiJob'[g] # "none" <=> aiJob[g] # "none"
    BY <1>1 DEF Accept
  <2> QED BY <2>1 DEF ItemsInv, OneGeneration, ReplacesAll, WillWriteGenerating
<1>2. ASSUME NEW q \in Requests, CrashRequest(q) PROVE ItemsInv'
  <2>1. /\ UNCHANGED <<items, deletion, aiJob>>
        /\ accidents \subseteq accidents' /\ "crash" \in accidents'
        /\ request' = [request EXCEPT ![q] = Resting]
    BY <1>2 DEF CrashRequest, Accident, Finish
  <2>2. \A g \in Generations \ {q} : request[g].pc = "commit" => rowLock' = rowLock
    BY <1>2 DEF CrashRequest, ItemsInv, ReplacesAll
  <2>3. ReplacesAll(q, Resting)'
    BY RestingRow DEF ReplacesAll
  <2> QED BY <2>1, <2>2, <2>3, ItemsStay
<1>3. ASSUME DeleteCorrectionItems \/ DeleteCorrectionRow PROVE ItemsInv'
  BY <1>3 DEF DeleteCorrectionItems, DeleteCorrectionRow, ItemsInv, ReplacesAll
<1> QED BY <1>1, <1>2, <1>3

LEMMA GeneratedInvStep == GeneratedInv /\ [CorrectionNext]_correctionVars => GeneratedInv'
<1> SUFFICES ASSUME GeneratedInv, [CorrectionNext]_correctionVars PROVE ItemsInv'
  BY CorrectionInvStep DEF GeneratedInv
<1>1. /\ Jobs \subseteq Requests /\ Reports \subseteq Requests /\ TitleEdits \subseteq Requests
      /\ InsightRequests \subseteq Requests
  BY DEF Requests, Jobs
<1>2. ASSUME NEW g \in Generations, GenerationStep(g) PROVE ItemsInv'
  BY <1>2, GenerationLeavesItems, CommitReplacesItems DEF GenerationStep
<1>3. ASSUME NEW k \in Reports, ReportStep(k) PROVE ItemsInv'
  BY <1>1, <1>3, ReadsLeaveItems, StatusesLeaveItems DEF ReportStep
<1>4. ASSUME NEW r \in InsightRequests, LoadForInsight(r) \/ SaveDoingRag(r) PROVE ItemsInv'
  BY <1>1, <1>4, ReadsLeaveItems
<1>5. ASSUME NEW j \in Jobs, Accept(j) \/ DelegationReturns(j) \/ FallbackToStatus(j) PROVE ItemsInv'
  BY <1>1, <1>5, ReadsLeaveItems, OthersLeaveItems
<1>6. ASSUME NEW x \in TitleEdits, LoadForTitle(x) \/ SaveTitle(x) PROVE ItemsInv'
  BY <1>1, <1>6, StatusesLeaveItems
<1>7. CASE UNCHANGED correctionVars
  BY <1>7 DEF correctionVars, GeneratedInv, ItemsInv, OneGeneration, ReplacesAll, WillWriteGenerating
<1> QED BY <1>2, <1>3, <1>4, <1>5, <1>6, <1>7, OthersLeaveItems DEF CorrectionNext

\* One item for each portfolio of one generation.
LEMMA OneItemEach ==
    ASSUME NEW g, NEW T, IsFiniteSet(T)
    PROVE  Cardinality({g} \X T) = Cardinality(T) /\ {i[2] : i \in {g} \X T} = T
<1> DEFINE item == [p \in T |-> <<g, p>>]
<1>1. item \in Bijection(T, {g} \X T)
  BY DEF Bijection, Injection, Surjection, IsInjective
<1>2. ExistsBijection(T, {g} \X T)
  BY <1>1 DEF ExistsBijection
<1>3. Cardinality({g} \X T) = Cardinality(T)
  BY <1>2, FS_Bijection
<1>4. {i[2] : i \in {g} \X T} = T
  <2>1. ASSUME NEW p \in T PROVE <<g, p>> \in {g} \X T /\ <<g, p>>[2] = p
    OBVIOUS
  <2>2. T \subseteq {i[2] : i \in {g} \X T}
    BY <2>1
  <2>3. ASSUME NEW i \in {g} \X T PROVE i[2] \in T
    OBVIOUS
  <2> QED BY <2>2, <2>3
<1> QED BY <1>3, <1>4

\* Unless a generation has committed while another was under way or a result was being
\* saved, a correction that is GENERATING and whose server did not die has items one
\* result fits: however many generations there were, one after the other, whichever of the
\* documented stages the AI server reports before or after the commit, and whatever is
\* edited meanwhile.
THEOREM OneGenerationCanBeSaved ==
    CorrectionSpec => []("overlap" \notin accidents => ResultCanBeSaved)
<1>1. CorrectionInit => GeneratedInv
  BY CorrectionInvInit, ItemsInvInit DEF GeneratedInv
<1>2. GeneratedInv => ("overlap" \notin accidents => ResultCanBeSaved)
  <2> SUFFICES ASSUME GeneratedInv, "overlap" \notin accidents, correction.status = "GENERATING",
                      deletion = "no", accidents \cap {"crash", "declared"} = {}
               PROVE  \E provided \in SUBSET CorrectedPortfolios : Complete(items, provided)
    BY DEF ResultCanBeSaved
  <2>1. items # {} /\ OneGeneration
    BY DEF GeneratedInv, ItemsInv
  <2>2. PICK g \in Generations, T \in SUBSET CorrectedPortfolios : items = {g} \X T
    BY <2>1 DEF OneGeneration
  <2>3. IsFiniteSet(T)
    BY CorrectionConstants, FS_Subset
  <2>4. Cardinality(items) = Cardinality(T) /\ {i[2] : i \in items} = T
    <3>1. Cardinality({g} \X T) = Cardinality(T) /\ {i[2] : i \in {g} \X T} = T
      BY <2>3, OneItemEach
    <3> QED BY <2>2, <3>1
  <2>5. Complete(items, T)
    BY <2>1, <2>4 DEF Complete
  <2> QED BY <2>2, <2>5
<1> QED BY <1>1, <1>2, GeneratedInvStep, PTL DEF CorrectionSpec

-------------------------------------------------------------------------------
(* The external portfolio                                                  *)

UploadRow ==
    [pc : {"idle", "asked", "generating", "fileName", "save", "over", "failed"},
     loaded : PdfExtractionStatus]
CallbackRow ==
    [pc : {"idle", "failed", "select", "items", "commit"}, found : SUBSET Blocks,
     old : SUBSET Blocks, oldItems : SUBSET Blocks]
AdditionRow ==
    [pc : {"idle", "select", "commit", "save"}, kept : SUBSET Blocks, old : SUBSET Blocks]
Faults == {"crash", "reply", "early", "overwrite", "overlap", "raced"}

\* The extractions that were recorded as running.
Recorded == {x \in Uploads : upload[x].pc \in {"fileName", "save", "over"}}

\* While an extraction is recorded as running its answer has not been taken, and the
\* callback that takes it is alone.
AnswerInv ==
    faults \cap {"overlap", "overwrite"} = {} =>
        /\ settled <= Cardinality(Recorded)
        /\ pdfStatus = "GENERATING" => settled < Cardinality(Recorded)
        /\ \A k \in Extracted : callback[k].pc # "idle" => pdfStatus = "GENERATING"
        /\ \A j, k \in Extracted : callback[j].pc # "idle" /\ callback[k].pc # "idle" => j = k

\* What a transaction that selects blocks has read is still all there is to unselect.
SelectionInv ==
    "raced" \notin faults =>
        /\ \A k \in Extracted : callback[k].pc = "commit" => blockItems \subseteq callback[k].oldItems
        /\ \A a \in Additions :
                addition[a].pc \in {"select", "commit"} => selected \subseteq addition[a].kept

ExtractionInv == ExtractionTypeOK /\ AnswerInv /\ SelectionInv /\ ItemsAreSelected

LEMMA UploadsAreFinite ==
    /\ Cardinality(Uploads) \in Nat
    /\ \A S \in SUBSET Uploads : IsFiniteSet(S) /\ Cardinality(S) \in Nat /\ Cardinality(S) <= Cardinality(Uploads)
BY ExtractionConstants, FS_CardinalityType, FS_Subset

LEMMA ExtractionFacts ==
    ASSUME ExtractionInv
    PROVE  /\ upload \in [Uploads -> UploadRow]
           /\ callback \in [Extracted -> CallbackRow]
           /\ addition \in [Additions -> AdditionRow]
           /\ extractJob \in [Uploads -> {"none", "sent", "accepted", "answered"}]
           /\ faults \subseteq Faults /\ pdfStatus \in PdfExtractionStatus
           /\ blocks \subseteq Blocks /\ selected \subseteq blocks /\ blockItems \subseteq blocks
           /\ leftOut \subseteq blockItems
           /\ settled \in 0..Cardinality(Uploads) + 1 /\ settled \in Nat
           /\ Recorded \subseteq Uploads /\ Cardinality(Recorded) \in Nat
           /\ NoAnswer \in CallbackRow /\ NoAnswer.pc = "idle"
           /\ NoAddition \in AdditionRow /\ NoAddition.pc = "idle"
<1>1. Recorded \subseteq Uploads
  BY DEF Recorded
<1> QED BY <1>1, UploadsAreFinite
        DEF ExtractionInv, ExtractionTypeOK, UploadRow, CallbackRow, AdditionRow, Faults, NoAnswer, NoAddition

\* Two elements make a cardinality of two.
LEMMA TwoAreMany ==
    ASSUME NEW S, IsFiniteSet(S), NEW x \in S, NEW y \in S, x # y
    PROVE  Cardinality(S) > 1
<1>1. IsFiniteSet({x}) /\ Cardinality({x}) = 1
  BY FS_Singleton
<1>2. Cardinality({x} \cup {y}) = 2
  BY <1>1, FS_AddElement
<1>3. {x} \cup {y} \subseteq S
  OBVIOUS
<1>4. Cardinality({x} \cup {y}) <= Cardinality(S) /\ Cardinality(S) \in Nat
  BY <1>3, FS_Subset, FS_CardinalityType
<1> QED BY <1>2, <1>4

\* A transaction that commits beside another one is recorded.
LEMMA BusyBeside ==
    /\ \A k \in Extracted : callback[k].pc # "idle" /\ Busy <= 1 =>
        /\ \A j \in Extracted : j # k => callback[j].pc = "idle"
        /\ \A a \in Additions : addition[a].pc = "idle"
    /\ \A a \in Additions : addition[a].pc # "idle" /\ Busy <= 1 =>
        /\ \A b \in Additions : b # a => addition[b].pc = "idle"
        /\ \A k \in Extracted : callback[k].pc = "idle"
<1> DEFINE K == {k \in Extracted : callback[k].pc # "idle"}
           A == {a \in Additions : addition[a].pc # "idle"}
<1>1. IsFiniteSet(K) /\ IsFiniteSet(A)
  BY ExtractionConstants, FS_Subset
<1>2. Cardinality(K) \in Nat /\ Cardinality(A) \in Nat
  BY <1>1, FS_CardinalityType
<1>3. (K # {} => Cardinality(K) > 0) /\ (A # {} => Cardinality(A) > 0)
  BY <1>1, <1>2, FS_EmptySet
<1>4. Busy = Cardinality(K) + Cardinality(A)
  BY DEF Busy
<1>5. (\A j, k \in K : j # k => Cardinality(K) > 1) /\ (\A a, b \in A : a # b => Cardinality(A) > 1)
  BY <1>1, TwoAreMany
<1>6. ASSUME NEW k \in K, Busy <= 1 PROVE (\A j \in K : j = k) /\ A = {}
  <2> HIDE DEF K, A
  <2>1. Cardinality(K) > 0
    BY <1>3, <1>6
  <2> QED BY <1>2, <1>3, <1>4, <1>5, <1>6, <2>1
<1>7. ASSUME NEW a \in A, Busy <= 1 PROVE (\A b \in A : b = a) /\ K = {}
  <2> HIDE DEF K, A
  <2>1. Cardinality(A) > 0
    BY <1>3, <1>7
  <2> QED BY <1>2, <1>3, <1>4, <1>5, <1>7, <2>1
<1> QED BY <1>6, <1>7

LEMMA ExtractionInvInit == ExtractionInit => ExtractionInv
<1> SUFFICES ASSUME ExtractionInit PROVE ExtractionInv
  OBVIOUS
<1> USE DEF ExtractionInit
<1>1. ExtractionTypeOK
  BY UploadsAreFinite DEF ExtractionTypeOK, NoUpload, NoAnswer, NoAddition, PdfExtractionStatus
<1>2. AnswerInv
  BY UploadsAreFinite DEF AnswerInv, Recorded, NoUpload, NoAnswer
<1>3. SelectionInv /\ ItemsAreSelected
  BY DEF SelectionInv, ItemsAreSelected, NoAnswer, NoAddition
<1> QED BY <1>1, <1>2, <1>3 DEF ExtractionInv

\* A step of an upload that writes the status only when it begins, or writes it back.
LEMMA UploadMoves ==
    ASSUME ExtractionInv, NEW x \in Uploads, NEW new \in UploadRow,
           upload' = [upload EXCEPT ![x] = new],
           UNCHANGED <<blocks, selected, blockItems, leftOut, callback, addition, settled>>,
           extractJob' \in [Uploads -> {"none", "sent", "accepted", "answered"}],
           faults \subseteq faults', faults' \subseteq Faults,
           pdfStatus' \in PdfExtractionStatus,
           upload[x].pc \in {"fileName", "save", "over"} <=> new.pc \in {"fileName", "save", "over"},
           "overwrite" \notin faults' => pdfStatus' = pdfStatus
    PROVE  ExtractionInv'
<1> USE ExtractionFacts
<1>1. ExtractionTypeOK'
  BY DEF ExtractionInv, ExtractionTypeOK, UploadRow, Faults
<1>2. \A z \in Uploads : upload'[z] = IF z = x THEN new ELSE upload[z]
  OBVIOUS
<1>3. Recorded' = Recorded
  BY <1>2 DEF Recorded
<1>4. AnswerInv'
  BY <1>3 DEF ExtractionInv, AnswerInv
<1>5. SelectionInv' /\ ItemsAreSelected'
  BY DEF ExtractionInv, SelectionInv, ItemsAreSelected
<1> QED BY <1>1, <1>4, <1>5 DEF ExtractionInv

LEMMA SetGeneratingKeeps ==
    ASSUME ExtractionInv, NEW x \in Uploads, SetGenerating(x)
    PROVE  ExtractionInv'
<1> USE ExtractionFacts DEF SetGenerating
<1> DEFINE new == [upload[x] EXCEPT !.pc = "fileName"]
<1>1. new \in UploadRow /\ new.pc = "fileName" /\ upload' = [upload EXCEPT ![x] = new]
  BY DEF UploadRow
<1> HIDE DEF new
<1>2. ExtractionTypeOK'
  BY <1>1 DEF ExtractionInv, ExtractionTypeOK, UploadRow, PdfExtractionStatus
<1>3. \A z \in Uploads : upload'[z] = IF z = x THEN new ELSE upload[z]
  BY <1>1
<1>4. Recorded' = Recorded \cup {x} /\ x \notin Recorded
  BY <1>1, <1>3 DEF Recorded
<1>5. Cardinality(Recorded') = Cardinality(Recorded) + 1
  BY <1>4, UploadsAreFinite, FS_AddElement
<1>6. AnswerInv'
  BY <1>5 DEF ExtractionInv, AnswerInv
<1>7. SelectionInv' /\ ItemsAreSelected'
  BY DEF ExtractionInv, SelectionInv, ItemsAreSelected
<1> QED BY <1>2, <1>6, <1>7 DEF ExtractionInv

LEMMA UploadStepKeeps ==
    ASSUME ExtractionInv, NEW x \in Uploads, UploadStep(x)
    PROVE  ExtractionInv'
<1> USE ExtractionFacts
<1>1. upload[x] \in UploadRow
  OBVIOUS
<1>2. ASSUME NEW pc \in {"idle", "asked", "generating", "failed"},
             upload[x].pc \in {"idle", "asked", "generating"},
             upload' = [upload EXCEPT ![x].pc = pc],
             UNCHANGED <<pdfStatus, blocks, selected, blockItems, leftOut, callback, addition, settled>>,
             extractJob' \in [Uploads -> {"none", "sent", "accepted", "answered"}],
             faults \subseteq faults', faults' \subseteq Faults
      PROVE  ExtractionInv'
  <2> DEFINE new == [upload[x] EXCEPT !.pc = pc]
  <2>1. new \in UploadRow /\ new.pc = pc /\ upload' = [upload EXCEPT ![x] = new]
    BY <1>1, <1>2 DEF UploadRow
  <2> HIDE DEF new
  <2>2. ~(upload[x].pc \in {"fileName", "save", "over"}) /\ ~(new.pc \in {"fileName", "save", "over"})
    BY <1>2, <2>1
  <2>3. pdfStatus' \in PdfExtractionStatus /\ pdfStatus' = pdfStatus
    BY <1>2
  <2> QED BY <1>2, <2>1, <2>2, <2>3, UploadMoves
<1>3. CASE Upload(x)
  BY <1>2, <1>3 DEF Upload
<1>4. CASE ExtractTextReturns(x)
  <2>1. /\ extractJob' \in [Uploads -> {"none", "sent", "accepted", "answered"}]
        /\ faults \subseteq faults' /\ faults' \subseteq Faults
    BY <1>4 DEF ExtractTextReturns, Fault, Faults
  <2> QED BY <1>2, <1>4, <2>1 DEF ExtractTextReturns
<1>5. CASE AcceptPdf(x) \/ RefuseExtraction(x)
  <2>1. /\ upload' = [upload EXCEPT ![x] = upload[x]]
        /\ UNCHANGED <<pdfStatus, blocks, selected, blockItems, leftOut, callback, addition, settled>>
        /\ extractJob' \in [Uploads -> {"none", "sent", "accepted", "answered"}]
        /\ faults \subseteq faults' /\ faults' \subseteq Faults
    BY <1>5 DEF AcceptPdf, RefuseExtraction, Answers, Faults
  <2> QED BY <1>1, <2>1, UploadMoves
<1>6. CASE LoadForFileName(x)
  <2> DEFINE new == [pc |-> "save", loaded |-> pdfStatus]
  <2>1. new \in UploadRow /\ new.pc = "save"
    BY DEF UploadRow
  <2>2. upload' = [upload EXCEPT ![x] = new]
    BY <1>6 DEF LoadForFileName
  <2> HIDE DEF new
  <2> QED BY <1>6, <2>1, <2>2, UploadMoves DEF LoadForFileName
<1>7. ASSUME NEW pc \in {"over", "failed"}, upload' = [upload EXCEPT ![x] = [pc |-> pc, loaded |-> "NONE"]],
             pc = "over" <=> upload[x].pc \in {"fileName", "save", "over"},
             UNCHANGED <<blocks, selected, blockItems, leftOut, extractJob, callback, addition, settled>>,
             pdfStatus' \in PdfExtractionStatus,
             "overwrite" \notin faults' => pdfStatus' = pdfStatus,
             faults \subseteq faults', faults' \subseteq Faults
      PROVE  ExtractionInv'
  <2> DEFINE new == [pc |-> pc, loaded |-> "NONE"]
  <2>1. new \in UploadRow /\ new.pc = pc
    BY DEF UploadRow, PdfExtractionStatus
  <2>2. upload' = [upload EXCEPT ![x] = new]
    BY <1>7
  <2> HIDE DEF new
  <2>3. upload[x].pc \in {"fileName", "save", "over"} <=> new.pc \in {"fileName", "save", "over"}
    BY <1>7, <2>1
  <2>4. extractJob' \in [Uploads -> {"none", "sent", "accepted", "answered"}]
    BY <1>7
  <2> QED BY <1>7, <2>1, <2>2, <2>3, <2>4, UploadMoves
<1>8. CASE SaveFileName(x)
  <2>1. /\ pdfStatus' \in PdfExtractionStatus
        /\ "overwrite" \notin faults' => pdfStatus' = pdfStatus
        /\ faults \subseteq faults' /\ faults' \subseteq Faults
    BY <1>1, <1>8 DEF SaveFileName, Notice, UploadRow, Faults
  <2> QED BY <1>7, <1>8, <2>1 DEF SaveFileName
<1>9. CASE CrashUpload(x)
  <2> DEFINE pc == IF upload[x].pc \in {"fileName", "save"} THEN "over" ELSE "failed"
  <2>1. /\ pc \in {"over", "failed"}
        /\ pc = "over" <=> upload[x].pc \in {"fileName", "save", "over"}
        /\ upload' = [upload EXCEPT ![x] = [pc |-> pc, loaded |-> "NONE"]]
        /\ faults \subseteq faults' /\ faults' \subseteq Faults
    BY <1>9 DEF CrashUpload, Fault, Faults
  <2> HIDE DEF pc
  <2> QED BY <1>7, <1>9, <2>1 DEF CrashUpload
<1> QED BY <1>3, <1>4, <1>5, <1>6, <1>8, <1>9, SetGeneratingKeeps DEF UploadStep

\* A callback that goes on, or stops without having written anything.
LEMMA CallbackMoves ==
    ASSUME ExtractionInv, NEW k \in Extracted, NEW new \in CallbackRow,
           callback' = [callback EXCEPT ![k] = new],
           UNCHANGED <<pdfStatus, blocks, selected, blockItems, leftOut, upload, addition, settled>>,
           extractJob' \in [Uploads -> {"none", "sent", "accepted", "answered"}],
           faults \subseteq faults', faults' \subseteq Faults,
           new.pc # "idle" => \/ callback[k].pc # "idle"
                              \/ /\ pdfStatus = "GENERATING"
                                 /\ "overlap" \in faults' \/ \A j \in Extracted : callback[j].pc = "idle",
           new.pc = "commit" => blockItems \subseteq new.oldItems
    PROVE  ExtractionInv'
<1> USE ExtractionFacts
<1>1. ExtractionTypeOK'
  BY DEF ExtractionInv, ExtractionTypeOK, CallbackRow, Faults
<1>2. \A z \in Extracted : callback'[z] = IF z = k THEN new ELSE callback[z]
  OBVIOUS
<1>3. Recorded' = Recorded
  BY DEF Recorded
<1>4. AnswerInv'
  <2> SUFFICES ASSUME faults' \cap {"overlap", "overwrite"} = {}
               PROVE  /\ \A j \in Extracted : callback'[j].pc # "idle" => pdfStatus = "GENERATING"
                      /\ \A i, j \in Extracted : callback'[i].pc # "idle" /\ callback'[j].pc # "idle" => i = j
    BY <1>3 DEF ExtractionInv, AnswerInv
  <2>1. faults \cap {"overlap", "overwrite"} = {} /\ "overlap" \notin faults'
    OBVIOUS
  <2> QED BY <1>2, <2>1 DEF ExtractionInv, AnswerInv
<1>5. SelectionInv'
  BY <1>2 DEF ExtractionInv, SelectionInv
<1>6. ItemsAreSelected'
  BY DEF ExtractionInv, ItemsAreSelected
<1> QED BY <1>1, <1>4, <1>5, <1>6 DEF ExtractionInv

\* A callback that ends by writing the status; it was alone.
LEMMA AnswerTaken ==
    ASSUME ExtractionInv, NEW k \in Extracted, callback[k].pc # "idle",
           callback' = [callback EXCEPT ![k] = NoAnswer],
           pdfStatus' # "GENERATING", settled' = OneMore(settled), UNCHANGED upload,
           faults \subseteq faults'
    PROVE  AnswerInv'
<1> USE ExtractionFacts
<1>1. \A z \in Extracted : callback'[z] = IF z = k THEN NoAnswer ELSE callback[z]
  OBVIOUS
<1>2. Recorded' = Recorded
  BY DEF Recorded
<1>3. settled' <= settled + 1
  BY DEF OneMore
<1> SUFFICES ASSUME faults' \cap {"overlap", "overwrite"} = {} PROVE AnswerInv'
  BY DEF AnswerInv
<1>4. /\ settled < Cardinality(Recorded)
      /\ \A j \in Extracted : callback[j].pc # "idle" => j = k
  BY DEF ExtractionInv, AnswerInv
<1>5. \A j \in Extracted : callback'[j].pc = "idle"
  BY <1>1, <1>4
<1>6. settled' <= Cardinality(Recorded)
  BY <1>3, <1>4, UploadsAreFinite DEF OneMore
<1> QED BY <1>2, <1>5, <1>6 DEF AnswerInv

LEMMA SettledKeepsType ==
    ASSUME ExtractionInv PROVE OneMore(settled) \in 0..Cardinality(Uploads) + 1
BY ExtractionFacts, UploadsAreFinite DEF OneMore

LEMMA CommitExtractionKeeps ==
    ASSUME ExtractionInv, NEW k \in Extracted, CommitExtraction(k)
    PROVE  ExtractionInv'
<1> USE ExtractionFacts
<1>1. /\ faults \subseteq faults' /\ faults' \subseteq Faults
      /\ callback[k] \in CallbackRow /\ callback[k].pc = "commit"
      /\ callback' = [callback EXCEPT ![k] = NoAnswer]
      /\ UNCHANGED <<upload, extractJob, addition>>
  BY DEF CommitExtraction, Notice, Faults
<1>2. CASE ~(callback[k].old \subseteq blocks)
  <2>1. UNCHANGED <<pdfStatus, blocks, selected, blockItems, leftOut, settled>>
    BY <1>2 DEF CommitExtraction
  <2> QED BY <1>1, <2>1, CallbackMoves
<1>3. CASE callback[k].old \subseteq blocks
  <2>1. /\ pdfStatus' = "GENERATED" /\ settled' = OneMore(settled)
        /\ blocks' = blocks \cup callback[k].found
        /\ selected' = (selected \ callback[k].old) \cup callback[k].found
        /\ blockItems' = (blockItems \ callback[k].oldItems) \cup callback[k].found /\ leftOut' = {}
    BY <1>3 DEF CommitExtraction
  <2>2. callback[k].found \subseteq Blocks
    BY <1>1 DEF CallbackRow
  <2>3. ExtractionTypeOK'
    BY <1>1, <2>1, <2>2, SettledKeepsType
       DEF ExtractionInv, ExtractionTypeOK, CallbackRow, Faults, PdfExtractionStatus
  <2>4. AnswerInv'
    BY <1>1, <2>1, AnswerTaken
  <2>5. SelectionInv' /\ ItemsAreSelected'
    <3> SUFFICES ASSUME "raced" \notin faults' PROVE SelectionInv' /\ ItemsAreSelected'
      BY DEF SelectionInv, ItemsAreSelected
    <3>1. ~(Busy > 1)
      BY DEF CommitExtraction, Notice
    <3>2. Busy <= 1
      <4>1. Busy \in Nat
        BY ExtractionConstants, FS_Subset, FS_CardinalityType DEF Busy
      <4> QED BY <3>1, <4>1
    <3>3. /\ \A j \in Extracted : j # k => callback[j].pc = "idle"
          /\ \A a \in Additions : addition[a].pc = "idle"
      BY <1>1, <3>2, BusyBeside
    <3>4. \A j \in Extracted : callback'[j].pc = "idle"
      BY <1>1, <3>3
    <3>5. blockItems \subseteq callback[k].oldItems
      BY <1>1 DEF ExtractionInv, SelectionInv
    <3> QED BY <1>1, <2>1, <3>3, <3>4, <3>5 DEF SelectionInv, ItemsAreSelected
  <2> QED BY <2>3, <2>4, <2>5 DEF ExtractionInv
<1> QED BY <1>2, <1>3

LEMMA AnswerStepKeeps ==
    ASSUME ExtractionInv, NEW k \in Extracted, AnswerStep(k)
    PROVE  ExtractionInv'
<1> USE ExtractionFacts
<1>1. callback[k] \in CallbackRow
  OBVIOUS
<1>2. CASE ReceiveExtraction(k)
  <2>1. PICK found \in SUBSET Fresh : Take(k, found)
    BY <1>2 DEF ReceiveExtraction
  <2> DEFINE new == [NoAnswer EXCEPT !.pc = IF found = {} THEN "failed" ELSE "select", !.found = found]
  <2>2. found \subseteq Blocks
    BY DEF Fresh
  <2>3. new \in CallbackRow /\ new.pc # "commit"
    BY <2>2 DEF CallbackRow, NoAnswer
  <2>4. callback' = [callback EXCEPT ![k] = new]
    BY <2>1 DEF Take
  <2> HIDE DEF new
  <2>5. /\ faults \subseteq faults' /\ faults' \subseteq Faults
        /\ "overlap" \in faults' \/ \A j \in Extracted : callback[j].pc = "idle"
    BY <2>1 DEF Take, Notice, Faults
  <2>6. /\ pdfStatus = "GENERATING"
        /\ UNCHANGED <<pdfStatus, blocks, selected, blockItems, leftOut, upload, addition, settled>>
        /\ extractJob' \in [Uploads -> {"none", "sent", "accepted", "answered"}]
    BY <1>2 DEF ReceiveExtraction, Answers
  <2> QED BY <2>3, <2>4, <2>5, <2>6, CallbackMoves
<1>3. CASE SelectFound(k)
  <2> DEFINE new == [callback[k] EXCEPT !.pc = "items", !.old = blocks]
  <2>1. new \in CallbackRow /\ new.pc = "items" /\ callback' = [callback EXCEPT ![k] = new]
    BY <1>1, <1>3 DEF CallbackRow, SelectFound
  <2> HIDE DEF new
  <2> QED BY <1>3, <2>1, CallbackMoves DEF SelectFound
<1>4. CASE DeleteOldItems(k)
  <2> DEFINE new == [callback[k] EXCEPT !.pc = "commit", !.oldItems = blockItems]
  <2>1. /\ new \in CallbackRow /\ new.pc = "commit" /\ new.oldItems = blockItems
        /\ callback' = [callback EXCEPT ![k] = new]
    BY <1>1, <1>4 DEF CallbackRow, DeleteOldItems
  <2> HIDE DEF new
  <2> QED BY <1>4, <2>1, CallbackMoves DEF DeleteOldItems
<1>5. CASE CommitFailure(k)
  <2>1. /\ callback[k].pc # "idle" /\ callback' = [callback EXCEPT ![k] = NoAnswer]
        /\ pdfStatus' = "FAILED" /\ settled' = OneMore(settled)
        /\ UNCHANGED <<blocks, selected, blockItems, leftOut, upload, extractJob, addition, faults>>
    BY <1>5 DEF CommitFailure
  <2>2. ExtractionTypeOK'
    BY <2>1, SettledKeepsType DEF ExtractionInv, ExtractionTypeOK, CallbackRow, PdfExtractionStatus
  <2>3. AnswerInv'
    BY <2>1, AnswerTaken
  <2>4. SelectionInv' /\ ItemsAreSelected'
    BY <2>1 DEF ExtractionInv, SelectionInv, ItemsAreSelected
  <2> QED BY <2>2, <2>3, <2>4 DEF ExtractionInv
<1>6. CASE CrashCallback(k)
  <2>1. faults \subseteq faults' /\ faults' \subseteq Faults
    BY <1>6 DEF CrashCallback, Fault, Faults
  <2> QED BY <1>6, <2>1, CallbackMoves DEF CrashCallback
<1> QED BY <1>2, <1>3, <1>4, <1>5, <1>6, CommitExtractionKeeps DEF AnswerStep

\* An addition that goes on, knowing all that is selected, or stops.
LEMMA AdditionMoves ==
    ASSUME ExtractionInv, NEW a \in Additions, NEW new \in AdditionRow,
           addition' = [addition EXCEPT ![a] = new],
           UNCHANGED <<pdfStatus, blocks, selected, blockItems, leftOut, upload, extractJob, callback, settled>>,
           faults \subseteq faults', faults' \subseteq Faults,
           "raced" \notin faults /\ new.pc \in {"select", "commit"} => selected \subseteq new.kept
    PROVE  ExtractionInv'
<1> USE ExtractionFacts
<1>1. ExtractionTypeOK'
  BY DEF ExtractionInv, ExtractionTypeOK, AdditionRow, Faults
<1>2. \A z \in Additions : addition'[z] = IF z = a THEN new ELSE addition[z]
  OBVIOUS
<1>3. Recorded' = Recorded
  BY DEF Recorded
<1>4. AnswerInv'
  BY <1>3 DEF ExtractionInv, AnswerInv
<1>5. SelectionInv' /\ ItemsAreSelected'
  BY <1>2 DEF ExtractionInv, SelectionInv, ItemsAreSelected
<1> QED BY <1>1, <1>4, <1>5 DEF ExtractionInv

LEMMA AdditionKeeps ==
    ASSUME ExtractionInv, NEW a \in Additions,
           CountBlocks(a) \/ SelectBlock(a) \/ CommitBlock(a) \/ ChoosePortfolios(a)
    PROVE  ExtractionInv'
<1> USE ExtractionFacts
<1>1. addition[a] \in AdditionRow
  OBVIOUS
<1>2. CASE CountBlocks(a)
  <2> DEFINE new == [NoAddition EXCEPT !.pc = "select", !.kept = selected]
  <2>1. new \in AdditionRow /\ new.kept = selected
    BY DEF AdditionRow, NoAddition
  <2>2. addition' = [addition EXCEPT ![a] = new]
    BY <1>2 DEF CountBlocks
  <2> HIDE DEF new
  <2> QED BY <1>2, <2>1, <2>2, AdditionMoves DEF CountBlocks
<1>3. CASE SelectBlock(a)
  <2> DEFINE new == [addition[a] EXCEPT !.pc = "commit", !.old = blocks]
  <2>1. /\ new \in AdditionRow /\ new.kept = addition[a].kept
        /\ addition' = [addition EXCEPT ![a] = new] /\ addition[a].pc = "select"
    BY <1>1, <1>3 DEF AdditionRow, SelectBlock
  <2> HIDE DEF new
  <2>2. "raced" \notin faults => selected \subseteq new.kept
    BY <2>1 DEF ExtractionInv, SelectionInv
  <2> QED BY <1>3, <2>1, <2>2, AdditionMoves DEF SelectBlock
<1>4. CASE CommitBlock(a)
  <2>1. /\ faults \subseteq faults' /\ faults' \subseteq Faults
        /\ addition[a].pc = "commit" /\ addition' = [addition EXCEPT ![a] = NoAddition]
        /\ UNCHANGED <<pdfStatus, blockItems, leftOut, upload, extractJob, callback, settled>>
    BY <1>4 DEF CommitBlock, Notice, Faults
  <2>2. CASE UNCHANGED <<blocks, selected>>
    BY <2>1, <2>2, AdditionMoves
  <2>3. ASSUME addition[a].old \cup addition[a].kept \subseteq blocks, NEW b \in Fresh,
               blocks' = blocks \cup {b},
               selected' = (selected \ addition[a].old) \cup addition[a].kept \cup {b}
        PROVE  ExtractionInv'
    <3>1. blocks' \subseteq Blocks /\ selected' \subseteq blocks'
      BY <2>3 DEF Fresh
    <3>2. ExtractionTypeOK'
      BY <2>1, <2>3, <3>1 DEF ExtractionInv, ExtractionTypeOK, AdditionRow, Faults
    <3>3. Recorded' = Recorded
      BY <2>1 DEF Recorded
    <3>4. AnswerInv'
      BY <2>1, <3>3 DEF ExtractionInv, AnswerInv
    <3>5. SelectionInv' /\ ItemsAreSelected'
      <4> SUFFICES ASSUME "raced" \notin faults' PROVE SelectionInv' /\ ItemsAreSelected'
        BY DEF SelectionInv, ItemsAreSelected
      <4>1. Busy <= 1
        <5>1. ~(Busy > 1)
          BY <1>4 DEF CommitBlock, Notice
        <5>2. Busy \in Nat
          BY ExtractionConstants, FS_Subset, FS_CardinalityType DEF Busy
        <5> QED BY <5>1, <5>2
      <4>2. /\ \A c \in Additions : c # a => addition[c].pc = "idle"
            /\ \A k \in Extracted : callback[k].pc = "idle"
        BY <2>1, <4>1, BusyBeside
      <4>3. \A c \in Additions : addition'[c].pc = "idle"
        BY <2>1, <4>2
      <4>4. selected \subseteq addition[a].kept
        BY <2>1 DEF ExtractionInv, SelectionInv
      <4> QED BY <2>1, <2>3, <4>2, <4>3, <4>4 DEF ExtractionInv, SelectionInv, ItemsAreSelected
    <3> QED BY <3>2, <3>4, <3>5 DEF ExtractionInv
  <2> QED BY <1>4, <2>2, <2>3 DEF CommitBlock
<1>5. CASE ChoosePortfolios(a)
  <2>1. PICK chosen \in SUBSET blocks :
            addition' = [addition EXCEPT ![a] = [pc |-> "save", kept |-> chosen, old |-> blocks]]
    BY <1>5 DEF ChoosePortfolios
  <2> DEFINE new == [pc |-> "save", kept |-> chosen, old |-> blocks]
  <2>2. new \in AdditionRow /\ new.pc = "save" /\ addition' = [addition EXCEPT ![a] = new]
    BY <2>1 DEF AdditionRow
  <2> HIDE DEF new
  <2> QED BY <1>5, <2>2, AdditionMoves DEF ChoosePortfolios
<1> QED BY <1>2, <1>3, <1>4, <1>5

\* What a choice unselects is left out, with its items, until it is chosen again.
LEMMA CommitSelectionsKeeps ==
    ASSUME ExtractionInv, NEW a \in Additions, CommitSelections(a)
    PROVE  ExtractionInv'
<1> USE ExtractionFacts
<1>1. /\ faults \subseteq faults' /\ faults' \subseteq Faults
      /\ addition[a] \in AdditionRow /\ addition[a].pc = "save"
      /\ addition' = [addition EXCEPT ![a] = NoAddition]
      /\ UNCHANGED <<pdfStatus, blocks, blockItems, upload, extractJob, callback, settled>>
  BY DEF CommitSelections, Notice, Faults
<1>2. CASE UNCHANGED <<selected, leftOut>>
  BY <1>1, <1>2, AdditionMoves
<1>3. CASE /\ addition[a].old \cup addition[a].kept \subseteq blocks
           /\ selected' = (selected \ addition[a].old) \cup addition[a].kept
           /\ leftOut' = (leftOut \cup (selected \cap blockItems)) \ addition[a].kept
  <2>1. ExtractionTypeOK'
    BY <1>1, <1>3 DEF ExtractionInv, ExtractionTypeOK, AdditionRow, Faults
  <2>2. Recorded' = Recorded
    BY <1>1 DEF Recorded
  <2>3. AnswerInv'
    BY <1>1, <2>2 DEF ExtractionInv, AnswerInv
  <2>4. SelectionInv' /\ ItemsAreSelected'
    <3> SUFFICES ASSUME "raced" \notin faults' PROVE SelectionInv' /\ ItemsAreSelected'
      BY DEF SelectionInv, ItemsAreSelected
    <3>1. Busy <= 1
      <4>1. ~(Busy > 1)
        BY DEF CommitSelections, Notice
      <4>2. Busy \in Nat
        BY ExtractionConstants, FS_Subset, FS_CardinalityType DEF Busy
      <4> QED BY <4>1, <4>2
    <3>2. /\ \A c \in Additions : c # a => addition[c].pc = "idle"
          /\ \A k \in Extracted : callback[k].pc = "idle"
      BY <1>1, <3>1, BusyBeside
    <3>3. \A c \in Additions : addition'[c].pc = "idle"
      BY <1>1, <3>2
    <3> QED BY <1>1, <1>3, <3>2, <3>3 DEF ExtractionInv, SelectionInv, ItemsAreSelected
  <2> QED BY <2>1, <2>3, <2>4 DEF ExtractionInv
<1> QED BY <1>2, <1>3 DEF CommitSelections

LEMMA DeleteBlockKeeps == ASSUME ExtractionInv, NEW b \in Blocks, DeleteBlock(b) PROVE ExtractionInv'
<1> USE ExtractionFacts DEF DeleteBlock
<1>1. ExtractionTypeOK'
  BY DEF ExtractionInv, ExtractionTypeOK
<1>2. AnswerInv'
  BY DEF ExtractionInv, AnswerInv, Recorded
<1>3. SelectionInv' /\ ItemsAreSelected'
  BY DEF ExtractionInv, SelectionInv, ItemsAreSelected
<1> QED BY <1>1, <1>2, <1>3 DEF ExtractionInv

LEMMA ExtractionInvStep == ExtractionInv /\ [ExtractionNext]_extractionVars => ExtractionInv'
<1>1. ExtractionInv /\ ExtractionNext => ExtractionInv'
  BY UploadStepKeeps, AnswerStepKeeps, AdditionKeeps, CommitSelectionsKeeps, DeleteBlockKeeps
     DEF ExtractionNext
<1>2. ExtractionInv /\ UNCHANGED extractionVars => ExtractionInv'
  BY DEF extractionVars, ExtractionInv, ExtractionTypeOK, AnswerInv, Recorded, SelectionInv, ItemsAreSelected
<1> QED BY <1>1, <1>2

LEMMA ExtractionInvariance == ExtractionSpec => []ExtractionInv
BY ExtractionInvInit, ExtractionInvStep, PTL DEF ExtractionSpec

\* Selections and items belong to blocks that are there, and no more answers are counted
\* than the counter holds.
THEOREM ExtractionIsWellFormed == ExtractionSpec => []ExtractionTypeOK
<1>1. ExtractionInv => ExtractionTypeOK
  BY DEF ExtractionInv
<1> QED BY <1>1, ExtractionInvariance, PTL

\* A duplicated or late callback creates no second set of blocks, for any number of
\* uploads, callbacks and blocks.
THEOREM EachExtractionIsAnsweredOnce == ExtractionSpec => []AnsweredOncePerExtraction
<1>1. ExtractionInv => AnsweredOncePerExtraction
  BY DEF ExtractionInv, AnswerInv, AnsweredOncePerExtraction, Recorded
<1> QED BY <1>1, ExtractionInvariance, PTL

\* Every item that will be reviewed is of a block the user sees selected, or has left out
\* of a later choice, for any number of callbacks, additions, choices and blocks.
THEOREM ReviewedBlocksAreSelected == ExtractionSpec => []ItemsAreSelected
<1>1. ExtractionInv => ItemsAreSelected
  BY DEF ExtractionInv
<1> QED BY <1>1, ExtractionInvariance, PTL
=============================================================================
